---------------------------- MODULE ConfigFiles ----------------------------
(***************************************************************************)
(* Embedded mode's FileWatcher (internal/watcher/file_watcher.go): YAML    *)
(* files in a directory that a mirror keeps up to date, and the resources  *)
(* made from them.  The watcher scans the directory once, before the       *)
(* controller manager and with it the client's cache is started, and then  *)
(* follows fsnotify.                                                       *)
(*                                                                         *)
(* The content of a spec is a version number, new for every edit, 0 none.  *)
(* ControllerProcess, which extends this module, starts and stops it.      *)
(***************************************************************************)
EXTENDS Naturals, Sequences, FiniteSets

CONSTANTS
    Names,      \* the names resources may have
    Files,      \* those of them that may have a file
    MaxVer,     \* bound on the writes, each takes a version
    MaxEvents   \* bound on events not yet read

ASSUME ConfigAssumption ==
    /\ Files \subseteq Names /\ "none" \notin Files
    /\ MaxVer \in Nat \ {0} /\ MaxEvents \in Nat

VARIABLES
    disk,      \* the version each file holds
    crs,       \* the resources; had: the versions one has had (history)
    asked,     \* the resources somebody asked for and nobody deleted (history)
    serial,    \* the last version taken
    events,    \* fsnotify events the loop has not read
    pending,   \* the last operation on a path since the last batch, or "none"
    hashes,    \* FileWatcher.hashes
    w          \* where the watcher is

config == <<disk, crs, asked, serial, events, pending, hashes, w>>

Versions == 0 .. MaxVer

Ops == {"create", "write", "chmod", "remove"}

CR == [exists : BOOLEAN, deleting : BOOLEAN, ver : Versions, had : SUBSET Versions]

NoCR == [exists |-> FALSE, deleting |-> FALSE, ver |-> 0, had |-> {}]

NewCR(v) == [exists |-> TRUE, deleting |-> FALSE, ver |-> v, had |-> {v}]

\* A resource that exists, with another spec.
NewSpec(cr, v) ==
    [exists |-> TRUE, deleting |-> cr.deleting, ver |-> v, had |-> cr.had \cup {v}]

NoFile == "none"

\* scan: InitialSync; add: Watch has not added the directories yet; loop:
\* the select loop; batch: processPending.  cur, data: the upsert under way.
Off == [at |-> "off", todo |-> {}, cur |-> NoFile, data |-> 0]

ConfigTypeOK ==
    /\ disk \in [Files -> Versions]
    /\ crs \in [Names -> CR]
    /\ asked \in SUBSET Names
    /\ serial \in Versions
    /\ events \in Seq(Files \X Ops) /\ Len(events) <= MaxEvents
    /\ pending \in [Files -> Ops \cup {"none"}]
    /\ hashes \in [Files -> Versions]
    /\ w \in [at : {"off", "scan", "add", "loop", "batch"}, todo : SUBSET Files,
              cur : Files \cup {NoFile}, data : Versions]

NothingPending == [n \in Files |-> "none"]

-----------------------------------------------------------------------------
(***************************************************************************)
(* The files and the resources, changed by others.                         *)
(***************************************************************************)
Watching == w.at \in {"loop", "batch"}

\* An event reaches the watcher only once it has added the directory.
Notify(n, op) ==
    /\ Watching => Len(events) < MaxEvents
    /\ events' = IF Watching THEN Append(events, <<n, op>>) ELSE events

\* The mirror or the user writes a new spec, the same file again or only
\* its status, its attributes, or removes it.
EditFile(n) ==
    /\ serial < MaxVer
    /\ serial' = serial + 1
    /\ disk' = [disk EXCEPT ![n] = serial + 1]
    /\ Notify(n, IF disk[n] = 0 THEN "create" ELSE "write")
    /\ UNCHANGED <<crs, asked, pending, hashes, w>>

TouchFile(n, op) ==
    /\ disk[n] # 0
    /\ serial < MaxVer
    /\ serial' = serial + 1
    /\ Notify(n, op)
    /\ UNCHANGED <<disk, crs, asked, pending, hashes, w>>

RemoveFile(n) ==
    /\ disk[n] # 0
    /\ disk' = [disk EXCEPT ![n] = 0]
    /\ Notify(n, "remove")
    /\ UNCHANGED <<crs, asked, serial, pending, hashes, w>>

\* The HTTP API, kubectl or hiclaw: create, edit, delete.
ApiWrites(n) ==
    /\ serial < MaxVer
    /\ serial' = serial + 1
    /\ crs' = [crs EXCEPT ![n] =
                  IF @.exists THEN NewSpec(@, serial + 1) ELSE NewCR(serial + 1)]
    /\ asked' = IF crs[n].exists THEN asked ELSE asked \cup {n}
    /\ UNCHANGED <<disk, events, pending, hashes, w>>

Deleted(n) ==
    /\ crs' = [crs EXCEPT ![n].deleting = @ \/ crs[n].exists]
    /\ asked' = IF crs[n].exists THEN asked \ {n} ELSE asked

ApiDeletes(n) ==
    /\ crs[n].exists /\ ~crs[n].deleting
    /\ Deleted(n)
    /\ UNCHANGED <<disk, serial, events, pending, hashes, w>>

-----------------------------------------------------------------------------
(***************************************************************************)
(* The watcher.                                                            *)
(***************************************************************************)
\* startEmbedded: InitialSync walks the files that are there.
StartScan ==
    /\ w.at = "off"
    /\ w' = [Off EXCEPT !.at = "scan", !.todo = {n \in Files : disk[n] # 0}]
    /\ UNCHANGED <<disk, crs, asked, serial, events, pending, hashes>>

\* Mutant: the content is not compared with the last one.
SyncFileAlways(n) ==
    /\ w.at \in {"scan", "batch"} /\ w.cur = NoFile /\ n \in w.todo
    /\ pending[n] \notin {"remove", "chmod"}
    /\ IF disk[n] = 0
       THEN w' = [w EXCEPT !.todo = @ \ {n}] /\ UNCHANGED hashes
       ELSE /\ hashes' = [hashes EXCEPT ![n] = disk[n]]
            /\ w' = [w EXCEPT !.cur = n, !.data = disk[n]]
    /\ pending' = [pending EXCEPT ![n] = "none"]
    /\ UNCHANGED <<disk, crs, asked, serial, events>>

\* syncFile up to the upsert: the hash of what was read is stored first.  A
\* file that is gone is a read error.
SyncFile(n) ==
    /\ w.at \in {"scan", "batch"} /\ w.cur = NoFile /\ n \in w.todo
    /\ pending[n] \notin {"remove", "chmod"}
    /\ IF disk[n] \in {0, hashes[n]}
       THEN w' = [w EXCEPT !.todo = @ \ {n}] /\ UNCHANGED hashes
       ELSE /\ hashes' = [hashes EXCEPT ![n] = disk[n]]
            /\ w' = [w EXCEPT !.cur = n, !.data = disk[n]]
    /\ pending' = [pending EXCEPT ![n] = "none"]
    /\ UNCHANGED <<disk, crs, asked, serial, events>>

\* upsertWorker, upsertTeam, upsertHuman.  Every error of Get is taken for
\* "not found", also that of a cache that was not started; Create refuses a
\* name that exists.  An error is logged.  failed: the call is refused, by a
\* failure or because the cached copy is old.
Upsert(started, failed) ==
    /\ w.cur # NoFile
    /\ LET n == w.cur
           create == ~failed /\ ~crs[n].exists
           update == ~failed /\ crs[n].exists /\ started
       IN /\ crs' = [crs EXCEPT ![n] =
                CASE create -> NewCR(w.data)
                  [] update -> NewSpec(@, w.data)
                  [] OTHER -> @]
          /\ asked' = IF create THEN asked \cup {n} ELSE asked
    /\ w' = [w EXCEPT !.todo = @ \ {w.cur}, !.cur = NoFile, !.data = 0]
    /\ UNCHANGED <<disk, serial, events, pending, hashes>>

\* Watch adds the directories after the scan, in a goroutine of its own.
StartWatch ==
    /\ w.at = "scan" /\ w.cur = NoFile /\ w.todo = {}
    /\ w' = [w EXCEPT !.at = "add"]
    /\ UNCHANGED <<disk, crs, asked, serial, events, pending, hashes>>

AddDirs ==
    /\ w.at = "add"
    /\ w' = [w EXCEPT !.at = "loop"]
    /\ UNCHANGED <<disk, crs, asked, serial, events, pending, hashes>>

\* Mutant: the first operation on a path is kept, not the last.
ReadEventKeepsFirst ==
    /\ w.at = "loop" /\ events # <<>>
    /\ pending' = [pending EXCEPT ![Head(events)[1]] = IF @ = "none" THEN Head(events)[2] ELSE @]
    /\ events' = Tail(events)
    /\ UNCHANGED <<disk, crs, asked, serial, hashes, w>>

\* The loop reads an event: the last operation on a path replaces the others.
ReadEvent ==
    /\ w.at = "loop" /\ events # <<>>
    /\ pending' = [pending EXCEPT ![Head(events)[1]] = Head(events)[2]]
    /\ events' = Tail(events)
    /\ UNCHANGED <<disk, crs, asked, serial, hashes, w>>

\* 500 ms without an event.
Debounced ==
    /\ w.at = "loop" /\ events = <<>> /\ pending # NothingPending
    /\ w' = [w EXCEPT !.at = "batch", !.todo = {n \in Files : pending[n] # "none"}]
    /\ UNCHANGED <<disk, crs, asked, serial, events, pending, hashes>>

\* processPending ignores an operation that only changed the attributes.
SkipChmod(n) ==
    /\ w.at = "batch" /\ w.cur = NoFile /\ n \in w.todo
    /\ pending[n] = "chmod"
    /\ w' = [w EXCEPT !.todo = @ \ {n}]
    /\ pending' = [pending EXCEPT ![n] = "none"]
    /\ UNCHANGED <<disk, crs, asked, serial, events, hashes>>

\* handleDelete.
HandleDelete(n, failed) ==
    /\ w.at = "batch" /\ w.cur = NoFile /\ n \in w.todo
    /\ pending[n] = "remove"
    /\ hashes' = [hashes EXCEPT ![n] = 0]
    /\ IF failed THEN UNCHANGED <<crs, asked>> ELSE Deleted(n)
    /\ w' = [w EXCEPT !.todo = @ \ {n}]
    /\ pending' = [pending EXCEPT ![n] = "none"]
    /\ UNCHANGED <<disk, serial, events>>

BatchDone ==
    /\ w.at = "batch" /\ w.cur = NoFile /\ w.todo = {}
    /\ w' = [w EXCEPT !.at = "loop"]
    /\ UNCHANGED <<disk, crs, asked, serial, events, pending, hashes>>

\* The process stops: the hashes and the events are gone.
WatcherStops ==
    /\ events' = <<>>
    /\ pending' = NothingPending
    /\ hashes' = [n \in Files |-> 0]
    /\ w' = Off
    /\ UNCHANGED <<disk, crs, asked, serial>>
=============================================================================
