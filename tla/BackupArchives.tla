---------------------------- MODULE BackupArchives ----------------------------
(***************************************************************************)
(* The backup archives of one account on disk (filesystem-backup-adapter.ts)*)
(* A write makes the directory, then the manifest, one after the other of   *)
(* the members it is given, and the metadata if it is given any, each on    *)
(* its own and under its final name; a removal lists a directory, removes   *)
(* what it found and then the directory.  Nothing excludes one from the     *)
(* other, and the process may die in between.                               *)
(*                                                                         *)
(* A file is the write that made it, "none", or "torn".  The checks of the  *)
(* members against the manifest are a failure like any other.  `known` is   *)
(* history: what the last call that had a file for itself left of it.       *)
(***************************************************************************)
EXTENDS Naturals, FiniteSets

CONSTANTS Archives, Members, Writers, Removers,
          Contents        \* what a write may be given beside the manifest

VARIABLES directories, disk, write, removal, known

vars == <<directories, disk, write, removal, known>>

Files == {"manifest", "metadata"} \cup Members
NoFiles == [f \in Files |-> "none"]

WriteRecords == [archive : Archives, given : SUBSET Files, todo : SUBSET Files, alone : BOOLEAN]
Removals == [scope : SUBSET Archives, unread : SUBSET Archives, todo : SUBSET (Archives \X Files),
             open : SUBSET Archives, alone : BOOLEAN]
NoWrite == [archive |-> CHOOSE a \in Archives : TRUE, given |-> {}, todo |-> {}, alone |-> FALSE]
NoRemoval == [scope |-> {}, unread |-> {}, todo |-> {}, open |-> {}, alone |-> FALSE]

TypeOK ==
    /\ directories \subseteq Archives
    /\ disk \in [Archives -> [Files -> Writers \cup {"none", "torn"}]]
    /\ write \in [Writers -> WriteRecords]
    /\ removal \in [Removers -> Removals]
    /\ known \in [Archives -> [Files -> Writers \cup {"none", "unknown"}]]

Init ==
    /\ directories = {} /\ disk = [a \in Archives |-> NoFiles]
    /\ write = [w \in Writers |-> NoWrite] /\ removal = [r \in Removers |-> NoRemoval]
    /\ known = [a \in Archives |-> NoFiles]

Writing(w) == write[w].todo # {}
Removing(r) == removal[r].scope # {}

\* History: the calls at work on one of `scope` are not alone any more, and nor is the new one.
BusyWith(scope) ==
    \/ \E w \in Writers : Writing(w) /\ write[w].archive \in scope
    \/ \E r \in Removers : removal[r].scope \cap scope # {}
WritesDisturbed(scope) ==
    [w \in Writers |-> [write[w] EXCEPT !.alone = @ /\ write[w].archive \notin scope]]
RemovalsDisturbed(scope) ==
    [r \in Removers |-> [removal[r] EXCEPT !.alone = @ /\ removal[r].scope \cap scope = {}]]
Forgotten(scope, files) ==
    [a \in Archives |-> [f \in Files |-> IF a \in scope /\ f \in files THEN "unknown" ELSE known[a][f]]]
-----------------------------------------------------------------------------
(* writeArchive; every write of an archive has content of its own. *)

StartWrite(w, a, files) ==
    /\ ~Writing(w) /\ \A b \in Archives, f \in Files : w \notin {known[b][f], disk[b][f]}
    /\ directories' = directories \cup {a}
    /\ write' = [WritesDisturbed({a}) EXCEPT
                     ![w] = [archive |-> a, given |-> files, todo |-> files, alone |-> ~BusyWith({a})]]
    /\ removal' = RemovalsDisturbed({a}) /\ known' = Forgotten({a}, files)
    /\ UNCHANGED disk

\* The order of the files: the manifest first, the metadata last.
NextFile(w, f) ==
    /\ f \in write[w].todo
    /\ f # "manifest" => "manifest" \notin write[w].todo
    /\ f = "metadata" => write[w].todo = {"metadata"}

\* A member's directory is made again when it is gone, the other files fail without theirs.
WriteFile(w, f) ==
    LET a == write[w].archive IN
    /\ NextFile(w, f) /\ write[w].todo # {f}
    /\ f \in Members \/ a \in directories
    /\ directories' = directories \cup {a}
    /\ disk' = [disk EXCEPT ![a][f] = w]
    /\ write' = [write EXCEPT ![w].todo = @ \ {f}]
    /\ UNCHANGED <<removal, known>>

\* Mutant: nobody waits for the members.
WrittenOut(w, f) == f # "manifest"

Written(w, f) == write[w].todo = {f}

EndWrite(w, f) ==
    LET a == write[w].archive IN
    /\ NextFile(w, f) /\ Written(w, f)
    /\ f \in Members \/ a \in directories
    /\ directories' = directories \cup {a}
    /\ disk' = [disk EXCEPT ![a][f] = w]
    /\ write' = [write EXCEPT ![w] = NoWrite]
    /\ known' = IF write[w].alone
                  THEN [known EXCEPT ![a] = [g \in Files |-> IF g \in write[w].given THEN w ELSE @[g]]]
                  ELSE known
    /\ UNCHANGED removal

\* A step fails, or the process dies in it: the file may be there in part.
Torn(w, f) ==
    LET a == write[w].archive IN
    /\ \/ UNCHANGED <<directories, disk>>
       \/ /\ NextFile(w, f)
          /\ f \in Members \/ a \in directories
          /\ directories' = directories \cup {a}
          /\ disk' = [disk EXCEPT ![a][f] = "torn"]

WriteFails(w, f) ==
    /\ NextFile(w, f) /\ Torn(w, f)
    /\ write' = [write EXCEPT ![w] = NoWrite]
    /\ UNCHANGED <<removal, known>>
-----------------------------------------------------------------------------
(* deleteArchive removes one archive, deleteAccountArchives all there are. *)

StartRemoval(r, scope) ==
    /\ ~Removing(r)
    /\ removal' = [RemovalsDisturbed(scope) EXCEPT
                       ![r] = [scope |-> scope, unread |-> scope \cap directories, todo |-> {},
                               open |-> {}, alone |-> ~BusyWith(scope)]]
    /\ write' = WritesDisturbed(scope) /\ known' = Forgotten(scope, Files)
    /\ UNCHANGED <<directories, disk>>

ReadDirectory(r, a) ==
    /\ a \in removal[r].unread
    /\ removal' = [removal EXCEPT
           ![r].unread = @ \ {a}, ![r].open = @ \cup {a},
           ![r].todo = @ \cup {<<a, f>> : f \in {g \in Files : disk[a][g] # "none"}}]
    /\ UNCHANGED <<directories, disk, write, known>>

\* A file that is gone already is no error.
RemoveFile(r, a, f) ==
    /\ <<a, f>> \in removal[r].todo
    /\ disk' = [disk EXCEPT ![a][f] = "none"]
    /\ removal' = [removal EXCEPT ![r].todo = @ \ {<<a, f>>}]
    /\ UNCHANGED <<directories, write, known>>

RemoveDirectory(r, a) ==
    /\ a \in removal[r].open /\ disk[a] = NoFiles
    /\ \A f \in Files : <<a, f>> \notin removal[r].todo
    /\ directories' = directories \ {a}
    /\ removal' = [removal EXCEPT ![r].open = @ \ {a}]
    /\ UNCHANGED <<disk, write, known>>

\* Mutant: a directory that was not read yet is left.
RemovedWhatWasRead(r) == removal[r].open = {}

Removed(r) == removal[r].open = {} /\ removal[r].unread = {}

\* The account's own directory goes last, and only when it is empty.
EndRemoval(r) ==
    /\ Removing(r) /\ Removed(r)
    /\ removal[r].scope = Archives => directories = {}
    /\ known' = IF removal[r].alone
                  THEN [a \in Archives |-> IF a \in removal[r].scope THEN NoFiles ELSE known[a]]
                  ELSE known
    /\ removal' = [removal EXCEPT ![r] = NoRemoval]
    /\ UNCHANGED <<directories, disk, write>>

RemovalFails(r) ==
    /\ Removing(r) /\ removal' = [removal EXCEPT ![r] = NoRemoval]
    /\ UNCHANGED <<directories, disk, write, known>>

\* The process dies: every call is lost where it stands, and one file may be torn.
Crash ==
    /\ \/ UNCHANGED <<directories, disk>>
       \/ \E w \in Writers, f \in Files : Writing(w) /\ NextFile(w, f) /\ Torn(w, f)
    /\ write' = [w \in Writers |-> NoWrite] /\ removal' = [r \in Removers |-> NoRemoval]
    /\ UNCHANGED known

Next ==
    \/ Crash
    \/ \E w \in Writers :
          \/ \E a \in Archives, content \in Contents :
                StartWrite(w, a, {"manifest"} \cup content)
          \/ \E f \in Files : WriteFile(w, f) \/ EndWrite(w, f) \/ WriteFails(w, f)
    \/ \E r \in Removers :
          \/ EndRemoval(r) \/ RemovalFails(r)
          \/ \E scope \in {Archives} \cup {{a} : a \in Archives} : StartRemoval(r, scope)
          \/ \E a \in Archives : \/ ReadDirectory(r, a) \/ RemoveDirectory(r, a)
                                 \/ \E f \in Files : RemoveFile(r, a, f)

Spec == Init /\ [][Next]_vars
-----------------------------------------------------------------------------
\* A call that had its archives for itself did what it said, and so it stays until the next
\* call on the same files: a write that came back left every file it was given, and of the
\* others what was there; a removal left none.
\* (Of calls that overlap this cannot be said: a write that meets the removal of its account
\* makes its directory again, and may come back with an archive without a manifest.)
ArchivesKept ==
    \A a \in Archives :
        /\ \A f \in Files : known[a][f] # "unknown" => disk[a][f] = known[a][f]
        /\ known[a] = NoFiles => a \notin directories
        /\ (\E f \in Files : known[a][f] \in Writers) => a \in directories
=============================================================================
