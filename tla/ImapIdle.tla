------------------------------- MODULE ImapIdle -------------------------------
(***************************************************************************)
(* One watched mailbox: the IDLE command of the IMAP client, its renewal    *)
(* and its end (src/core/mail/imap-client.ts), as the adapter uses them     *)
(* (imap-idle-adapter.ts; the probe of imap-idle-probe.ts is a watch that   *)
(* is stopped at once).                                                     *)
(*                                                                         *)
(* Lines that are no updates wait for whoever reads next, and all readers   *)
(* wait in one row: the start of IDLE, the renewal's two reads and the      *)
(* stop.  A reader goes on some time after its line came, for several lines *)
(* may come in one segment.  `strayed` is history: a reader was given a     *)
(* line that is not the one it waits for, or none in time.                  *)
(***************************************************************************)
EXTENDS Naturals, Sequences, FiniteSets

CONSTANTS MaxUpdates, MaxRenewals   \* bounds

VARIABLES
    client, readers, pendingLines,  \* imap-client.ts
    toServer, toClient, server,     \* the connection and what is behind it
    updates, heard, strayed

vars == <<client, readers, pendingLines, toServer, toClient, server, updates, heard, strayed>>

Tags == 0 .. MaxRenewals + 1
Lines == [kind : {"+", "update", "done", "bad"}, tag : Tags]
Line(kind, tag) == [kind |-> kind, tag |-> tag]
Commands == [kind : {"IDLE", "DONE", "LOGOUT"}, tag : Tags]
Readers == {"start", "ended", "renewed", "stopped"}

Init ==
    /\ client = [phase |-> "none", tag |-> 0, socket |-> TRUE, handler |-> FALSE,
                 refreshing |-> FALSE, stopped |-> FALSE, renewals |-> 0, watch |-> "opening"]
    /\ readers = <<>> /\ pendingLines = <<>> /\ toServer = <<>> /\ toClient = <<>>
    /\ server = [idling |-> FALSE, tag |-> 0]
    /\ updates = 0 /\ heard = 0 /\ strayed = FALSE
-----------------------------------------------------------------------------
(* The server, external. *)

\* It may report an update before it says that it waits.
ServerStartsIdling(tag, update) ==
    /\ update => updates < MaxUpdates
    /\ server' = [idling |-> TRUE, tag |-> tag]
    /\ updates' = IF update THEN updates + 1 ELSE updates
    /\ toClient' = toClient \o (IF update THEN <<Line("update", 0)>> ELSE <<>>) \o <<Line("+", 0)>>

ServerStopsIdling ==
    /\ server' = [server EXCEPT !.idling = FALSE] /\ UNCHANGED updates
    /\ toClient' = Append(toClient, IF server.idling THEN Line("done", server.tag) ELSE Line("bad", 0))

ServerReads ==
    /\ toServer # <<>> /\ toServer' = Tail(toServer)
    /\ IF Head(toServer).kind = "IDLE" /\ ~server.idling
       THEN \E update \in BOOLEAN : ServerStartsIdling(Head(toServer).tag, update)
       ELSE ServerStopsIdling
    /\ UNCHANGED <<client, readers, pendingLines, heard, strayed>>

Update ==
    /\ server.idling /\ updates < MaxUpdates
    /\ updates' = updates + 1
    /\ toClient' = Append(toClient, Line("update", 0))
    /\ UNCHANGED <<client, readers, pendingLines, toServer, server, heard, strayed>>
-----------------------------------------------------------------------------
(* The client. *)

\* handleUnsolicited
Handled(line) ==
    /\ client.handler /\ client.phase # "starting"
    /\ ~(line.kind = "done" /\ line.tag = client.tag)

\* dispatchLine, onEvent
Dispatch ==
    /\ client.socket /\ toClient # <<>> /\ toClient' = Tail(toClient)
    /\ LET line == Head(toClient)
       IN  IF Handled(line)
           THEN /\ heard' = IF line.kind = "update" THEN heard + 1 ELSE heard
                /\ UNCHANGED pendingLines
           ELSE pendingLines' = Append(pendingLines, line) /\ UNCHANGED heard
    /\ UNCHANGED <<client, readers, toServer, server, updates, strayed>>

Write(kind, tag) == toServer' = Append(toServer, [kind |-> kind, tag |-> tag])

Idle ==
    /\ client.watch = "opening" /\ client.phase = "none"
    /\ client' = [client EXCEPT !.phase = "starting", !.tag = 1, !.handler = TRUE]
    /\ Write("IDLE", 1) /\ readers' = <<"start">>
    /\ UNCHANGED <<pendingLines, toClient, server, updates, heard, strayed>>

\* Mutant: a renewal begins while one is under way.
MayRefreshAgain == ~client.stopped

MayRefresh == ~client.stopped /\ ~client.refreshing

\* refresh; without a connection writeLine throws.
Refresh ==
    /\ client.watch = "open" /\ client.socket /\ client.renewals < MaxRenewals /\ MayRefresh
    /\ client' = [client EXCEPT !.refreshing = TRUE, !.phase = "ending", !.renewals = @ + 1]
    /\ Write("DONE", 0) /\ readers' = Append(readers, "ended")
    /\ UNCHANGED <<pendingLines, toClient, server, updates, heard, strayed>>

\* stop
Stop ==
    /\ client.watch = "open" /\ client.socket /\ ~client.stopped
    /\ client' = [client EXCEPT !.stopped = TRUE, !.phase = "ending"]
    /\ Write("DONE", 0) /\ readers' = Append(readers, "stopped")
    /\ UNCHANGED <<pendingLines, toClient, server, updates, heard, strayed>>

\* logout, or close where the watch did not open: the socket goes either way.
Closed(c) == [c EXCEPT !.socket = FALSE, !.handler = FALSE, !.watch = "closed"]

\* A reader goes on with `line`.
GoOn(reader, line) ==
    \/ /\ reader = "start" /\ UNCHANGED toServer
       /\ client' = IF line.kind = "+" THEN [client EXCEPT !.phase = "active", !.watch = "open"]
                    ELSE Closed(client)
       /\ readers' = Tail(readers)
    \/ /\ reader = "ended"
       /\ client' = [client EXCEPT !.phase = "starting", !.tag = @ + 1]
       /\ Write("IDLE", client.tag + 1) /\ readers' = Append(Tail(readers), "renewed")
    \/ /\ reader = "renewed" /\ UNCHANGED toServer
       /\ client' = [client EXCEPT !.refreshing = FALSE, !.phase = IF line.kind = "+" THEN "active" ELSE @]
       /\ readers' = Tail(readers)
    \/ /\ reader = "stopped" /\ Write("LOGOUT", 0)
       /\ client' = Closed(client) /\ readers' = <<>>

Awaited(reader, line) ==
    IF reader \in {"start", "renewed"} THEN line.kind = "+"
    ELSE line = Line("done", client.tag)

\* readLine resolves.
Continue ==
    /\ readers # <<>> /\ pendingLines # <<>> /\ pendingLines' = Tail(pendingLines)
    /\ GoOn(Head(readers), Head(pendingLines))
    /\ strayed' = (strayed \/ ~Awaited(Head(readers), Head(pendingLines)))
    /\ UNCHANGED <<toClient, server, updates, heard>>

\* readLine's time is up: the caller fails, a renewal silently.
TimesOut ==
    /\ readers # <<>> /\ pendingLines = <<>> /\ strayed' = TRUE
    /\ CASE Head(readers) \in {"start", "stopped"} -> client' = Closed(client) /\ readers' = <<>>
         [] OTHER -> client' = [client EXCEPT !.refreshing = FALSE] /\ readers' = Tail(readers)
    /\ UNCHANGED <<pendingLines, toServer, toClient, server, updates, heard>>

\* The server hangs up: nobody is told.
HangUp ==
    /\ client.socket /\ client' = [client EXCEPT !.socket = FALSE] /\ strayed' = TRUE
    /\ UNCHANGED <<readers, pendingLines, toServer, toClient, server, updates, heard>>

Next ==
    ServerReads \/ Update \/ Dispatch \/ Idle \/ Refresh \/ Stop \/ Continue \/ TimesOut \/ HangUp

Spec == Init /\ [][Next]_vars
-----------------------------------------------------------------------------
TypeOK ==
    /\ client \in [phase : {"none", "starting", "active", "ending"}, tag : Tags, socket : BOOLEAN,
                   handler : BOOLEAN, refreshing : BOOLEAN, stopped : BOOLEAN,
                   renewals : 0 .. MaxRenewals,
                   watch : {"opening", "open", "closed"}]
    /\ readers \in Seq(Readers) /\ pendingLines \in Seq(Lines)
    /\ toServer \in Seq(Commands) /\ toClient \in Seq(Lines)
    /\ server \in [idling : BOOLEAN, tag : Tags]
    /\ updates \in 0 .. MaxUpdates /\ heard \in 0 .. MaxUpdates /\ strayed \in BOOLEAN

UpdatesIn(lines) == Cardinality({i \in DOMAIN lines : lines[i].kind = "update"})

\* As long as every reader was given its own line, an open watch has heard every update the
\* server sent but those on the way, across any number of renewals; the server idles under the
\* client's tag, and once the watch is closed it does not (imap-client.ts: idle, refresh, stop).
WatchHearsAll ==
    ~strayed =>
        /\ client.watch = "open" => heard + UpdatesIn(toClient) + UpdatesIn(pendingLines) = updates
        /\ client.phase = "active" /\ ~client.stopped => server = [idling |-> TRUE, tag |-> client.tag]
        /\ client.watch = "closed" => ~server.idling /\ ~client.refreshing /\ ~client.socket
=============================================================================
