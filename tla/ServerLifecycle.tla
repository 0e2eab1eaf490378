---------------------------- MODULE ServerLifecycle ----------------------------
(***************************************************************************)
(* Start and stop of the HTTP server (src/runtime/server.ts: startServer,   *)
(* stopServer, readiness), with its connections and the registry of         *)
(* dependencies (metrics.ts).  Listening and closing go on in the           *)
(* background: a stop may come before the server listens, twice, or while   *)
(* requests are served.  `probe` is the last answer of /health/ready.       *)
(***************************************************************************)
EXTENDS Naturals

CONSTANTS Stoppers, MaxConnections          \* bound

VARIABLES state, socket, started, stop, dependency, probe

vars == <<state, socket, started, stop, dependency, probe>>

DependencyStatuses == {"ok", "disabled", "starting", "degraded", "failed", "unknown"}
NoDependency == "none"

Init ==
    /\ state = [ready |-> FALSE, shuttingDown |-> FALSE]
    /\ socket = [listening |-> "no", closing |-> FALSE, connections |-> 0]
    /\ started = "no"
    /\ stop = [s \in Stoppers |-> "none"]
    /\ dependency \in DependencyStatuses \cup {NoDependency}
    /\ probe = [answer |-> "none", stopping |-> FALSE]
-----------------------------------------------------------------------------
StartServer ==
    /\ started = "no" /\ started' = "waits"
    /\ socket' = [socket EXCEPT !.listening = "soon"]
    /\ UNCHANGED <<state, stop, dependency, probe>>

\* handleListening, whether or not a stop came first.
Listening ==
    /\ socket.listening = "soon"
    /\ socket' = [socket EXCEPT !.listening = "yes"] /\ started' = "resolved"
    /\ state' = [state EXCEPT !.ready = TRUE]
    /\ UNCHANGED <<stop, dependency, probe>>

\* handleError
ListenFails ==
    /\ socket.listening = "soon"
    /\ socket' = [socket EXCEPT !.listening = "no"] /\ started' = "rejected"
    /\ UNCHANGED <<state, stop, dependency, probe>>

Accepting == socket.listening = "yes" /\ ~socket.closing

Connect ==
    /\ Accepting /\ socket.connections < MaxConnections
    /\ socket' = [socket EXCEPT !.connections = @ + 1]
    /\ UNCHANGED <<state, started, stop, dependency, probe>>

Disconnect ==
    /\ socket.connections > 0 /\ socket' = [socket EXCEPT !.connections = @ - 1]
    /\ UNCHANGED <<state, started, stop, dependency, probe>>

\* Mutant: the flag of the first start decides alone.
ReadinessOfStart == state.ready /\ dependency \in {"ok", "disabled", NoDependency}

\* readiness; isReady
Readiness == state.ready /\ ~state.shuttingDown /\ dependency \in {"ok", "disabled", NoDependency}

Probe ==
    /\ socket.connections > 0
    /\ probe' = [answer |-> IF Readiness THEN "ready" ELSE "not_ready", stopping |-> state.shuttingDown]
    /\ UNCHANGED <<state, socket, started, stop, dependency>>

SetStatus(status) ==
    /\ dependency' = status /\ status # dependency
    /\ UNCHANGED <<state, socket, started, stop, probe>>
-----------------------------------------------------------------------------
(* stopServer *)

\* A later stop resolves at once; a server that does not listen yet is not closed.
StopServer(s) ==
    /\ stop[s] = "none"
    /\ IF state.shuttingDown
       THEN stop' = [stop EXCEPT ![s] = "waived"] /\ UNCHANGED <<state, socket>>
       ELSE /\ state' = [ready |-> FALSE, shuttingDown |-> TRUE]
            /\ IF socket.listening = "yes"
               THEN socket' = [socket EXCEPT !.closing = TRUE] /\ stop' = [stop EXCEPT ![s] = "waits"]
               ELSE stop' = [stop EXCEPT ![s] = "failed"] /\ UNCHANGED socket
    /\ UNCHANGED <<started, dependency, probe>>

\* Mutant: the first answer of the server is taken for the end.
DrainedSoon == socket.closing

Drained == socket.closing /\ socket.connections = 0

Closed(s) ==
    /\ stop[s] = "waits" /\ Drained
    /\ stop' = [stop EXCEPT ![s] = "resolved"] /\ socket' = [socket EXCEPT !.listening = "no"]
    /\ UNCHANGED <<state, started, dependency, probe>>

\* closeAllConnections
TimesOut(s) ==
    /\ stop[s] = "waits" /\ stop' = [stop EXCEPT ![s] = "resolved"]
    /\ socket' = [socket EXCEPT !.connections = 0, !.listening = "no"]
    /\ UNCHANGED <<state, started, dependency, probe>>

Next ==
    \/ StartServer \/ Listening \/ ListenFails \/ Connect \/ Disconnect \/ Probe
    \/ \E status \in DependencyStatuses : SetStatus(status)
    \/ \E s \in Stoppers : StopServer(s) \/ Closed(s) \/ TimesOut(s)

Spec == Init /\ [][Next]_vars
-----------------------------------------------------------------------------
TypeOK ==
    /\ state \in [ready : BOOLEAN, shuttingDown : BOOLEAN]
    /\ socket \in [listening : {"no", "soon", "yes"}, closing : BOOLEAN, connections : 0 .. MaxConnections]
    /\ started \in {"no", "waits", "resolved", "rejected"}
    /\ stop \in [Stoppers -> {"none", "waits", "waived", "failed", "resolved"}]
    /\ dependency \in DependencyStatuses \cup {NoDependency}
    /\ probe \in [answer : {"none", "ready", "not_ready"}, stopping : BOOLEAN]

\* Nobody is told that the server is ready once a stop was asked for, even where it begins to
\* listen afterwards; one stop at most waits for the connections, and when it resolves there
\* are none and the server takes no more (server.ts: stopServer, readiness, startServer).
StopIsAnEnd ==
    /\ probe.stopping => probe.answer = "not_ready"
    /\ \A s, t \in Stoppers : stop[s] \in {"waits", "resolved"} /\ stop[t] \in {"waits", "resolved"} => s = t
    /\ \A s \in Stoppers : stop[s] = "resolved" => socket.connections = 0 /\ socket.listening = "no"
=============================================================================
