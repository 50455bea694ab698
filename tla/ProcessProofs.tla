--------------------------- MODULE ProcessProofs ----------------------------
(***************************************************************************)
(* Proofs about ControllerProcess, for every set of names and files, every *)
(* circumstance and every number of restarts and failures.                 *)
(***************************************************************************)
EXTENDS ControllerProcess, SequenceTheorems, TLAPS

-----------------------------------------------------------------------------
(***************************************************************************)
(* Types: the files, the resources and the watcher.                        *)
(***************************************************************************)
LEMMA Constants ==
    /\ Files \subseteq Names /\ NoFile \notin Files /\ 0 \in Versions /\ 1 \in Versions
    /\ Team \in Names /\ Member \in Names /\ RuntimeName \in Names
    /\ Team \notin Files /\ Member \notin Files /\ Team # Member /\ Team # RuntimeName
  BY ConfigAssumption, ProcessAssumption DEF NoFile, Versions

WatcherState == [at : {"off", "scan", "add", "loop", "batch"}, todo : SUBSET Files,
                 cur : Files \cup {NoFile}, data : Versions]

LEMMA CRTypes ==
    /\ NoCR \in CR /\ ~NoCR.exists /\ ~NoCR.deleting /\ NoCR.had = {}
    /\ \A v \in Versions : /\ NewCR(v) \in CR /\ NewCR(v).exists /\ ~NewCR(v).deleting
                           /\ NewCR(v).ver = v /\ NewCR(v).had = {v}
    /\ \A c \in CR, v \in Versions :
          /\ NewSpec(c, v) \in CR /\ NewSpec(c, v).exists
          /\ NewSpec(c, v).deleting = c.deleting
          /\ NewSpec(c, v).ver = v /\ NewSpec(c, v).had = c.had \cup {v}
    /\ \A c \in CR, b \in BOOLEAN :
          LET d == [c EXCEPT !.deleting = b] IN
          /\ d \in CR /\ d.exists = c.exists /\ d.deleting = b
          /\ d.ver = c.ver /\ d.had = c.had
  BY Constants DEF CR, NoCR, NewCR, NewSpec

LEMMA NextVersion ==
    ASSUME serial \in Versions, serial < MaxVer PROVE serial + 1 \in Versions /\ serial + 1 # 0
  BY ConfigAssumption DEF Versions

\* One of the resources is written, marked, made or removed.
LEMMA CrsTypes ==
    ASSUME crs \in [Names -> CR], NEW n \in Names, NEW c \in CR, crs' = [crs EXCEPT ![n] = c]
    PROVE  crs' \in [Names -> CR] /\ crs'[n] = c /\ \A m \in Names : m # n => crs'[m] = crs[m]
  OBVIOUS

\* What the watcher's steps make of where it is.
LEMMA WatcherAt ==
    ASSUME w \in WatcherState, NEW s \in {"off", "scan", "add", "loop", "batch"},
           w' = [w EXCEPT !.at = s]
    PROVE  /\ w' \in WatcherState /\ w'.at = s /\ w'.todo = w.todo /\ w'.cur = w.cur
           /\ w'.data = w.data
  BY DEF WatcherState

LEMMA WatcherTodo ==
    ASSUME w \in WatcherState, NEW t \in SUBSET Files, w' = [w EXCEPT !.todo = t]
    PROVE  /\ w' \in WatcherState /\ w'.at = w.at /\ w'.todo = t /\ w'.cur = w.cur
           /\ w'.data = w.data
  BY DEF WatcherState

LEMMA WatcherReads ==
    ASSUME w \in WatcherState, NEW n \in Files, NEW x \in Versions,
           w' = [w EXCEPT !.cur = n, !.data = x]
    PROVE  /\ w' \in WatcherState /\ w'.at = w.at /\ w'.todo = w.todo /\ w'.cur = n
           /\ w'.data = x
  BY DEF WatcherState

LEMMA WatcherWrote ==
    ASSUME w \in WatcherState, NEW t \in SUBSET Files,
           w' = [w EXCEPT !.todo = t, !.cur = NoFile, !.data = 0]
    PROVE  /\ w' \in WatcherState /\ w'.at = w.at /\ w'.todo = t /\ w'.cur = NoFile
           /\ w'.data = 0
  BY Constants DEF WatcherState

LEMMA WatcherBegins ==
    ASSUME NEW v \in WatcherState, NEW t \in SUBSET Files, NEW s \in {"scan", "batch"},
           w' = [v EXCEPT !.at = s, !.todo = t]
    PROVE  /\ w' \in WatcherState /\ w'.at = s /\ w'.todo = t /\ w'.cur = v.cur
           /\ w'.data = v.data
  BY DEF WatcherState

LEMMA OffTypes == Off \in WatcherState /\ Off.at = "off" /\ Off.todo = {} /\ Off.cur = NoFile /\ Off.data = 0
  BY Constants DEF Off, WatcherState

-----------------------------------------------------------------------------
(***************************************************************************)
(* What the steps of ConfigFiles do.                                       *)
(***************************************************************************)
LEMMA ConfigFacts ==
    ASSUME ConfigTypeOK
    PROVE  /\ disk \in [Files -> Versions] /\ crs \in [Names -> CR] /\ asked \subseteq Names
           /\ serial \in Versions /\ hashes \in [Files -> Versions] /\ w \in WatcherState
           /\ events \in Seq(Files \X Ops) /\ Len(events) <= MaxEvents
           /\ pending \in [Files -> Ops \cup {"none"}]
           /\ w.at \in {"off", "scan", "add", "loop", "batch"} /\ w.todo \subseteq Files
           /\ w.cur \in Files \cup {NoFile} /\ w.data \in Versions
  BY DEF ConfigTypeOK, WatcherState

LEMMA Notified ==
    ASSUME ConfigTypeOK, NEW n \in Files, NEW op \in Ops, Notify(n, op)
    PROVE  events' \in Seq(Files \X Ops) /\ Len(events') <= MaxEvents
  <1>1. CASE Watching
    <2>1. events' = Append(events, <<n, op>>) /\ Len(events) < MaxEvents
      BY <1>1 DEF Notify
    <2>2. events' \in Seq(Files \X Ops) /\ Len(events') = Len(events) + 1 /\ Len(events) \in Nat
      BY <2>1, AppendProperties DEF ConfigTypeOK
    <2> QED BY <2>1, <2>2, ConfigAssumption
  <1>2. CASE ~Watching
    BY <1>2 DEF Notify, ConfigTypeOK
  <1> QED BY <1>1, <1>2

\* Users write files ...
FileStep(n) == EditFile(n) \/ TouchFile(n, "write") \/ TouchFile(n, "chmod") \/ RemoveFile(n)

LEMMA FileEffect ==
    ASSUME ConfigTypeOK, NEW n \in Files, FileStep(n)
    PROVE  /\ ConfigTypeOK' /\ UNCHANGED <<crs, asked, pending, hashes, w>>
           /\ \A m \in Files : m # n => disk'[m] = disk[m]
           /\ serial' = serial \/ serial' = serial + 1
           /\ \/ disk'[n] = serial + 1 /\ serial' = serial + 1 /\ Notify(n, "create")
              \/ disk'[n] = serial + 1 /\ serial' = serial + 1 /\ Notify(n, "write")
              \/ disk'[n] = disk[n] /\ (Notify(n, "write") \/ Notify(n, "chmod"))
              \/ disk'[n] = 0 /\ Notify(n, "remove")
  <1>1. /\ disk \in [Files -> Versions] /\ serial \in Versions
        /\ UNCHANGED <<crs, asked, pending, hashes, w>>
    BY DEF ConfigTypeOK, FileStep, EditFile, TouchFile, RemoveFile
  <1>2. \E op \in Ops : Notify(n, op)
    BY DEF FileStep, EditFile, TouchFile, RemoveFile, Ops
  <1>3. events' \in Seq(Files \X Ops) /\ Len(events') <= MaxEvents
    BY <1>2, Notified
  <1>4. /\ serial' = serial \/ (serial < MaxVer /\ serial' = serial + 1)
        /\ \/ disk' = disk \/ disk' = [disk EXCEPT ![n] = 0]
           \/ disk' = [disk EXCEPT ![n] = serial']
    BY DEF FileStep, EditFile, TouchFile, RemoveFile
  <1>5. serial' \in Versions /\ disk' \in [Files -> Versions]
    BY <1>1, <1>4, NextVersion, Constants
  <1>6. \A m \in Files : m # n => disk'[m] = disk[m]
    BY <1>1, <1>4
  <1>7. \/ disk'[n] = serial + 1 /\ serial' = serial + 1 /\ Notify(n, "create")
        \/ disk'[n] = serial + 1 /\ serial' = serial + 1 /\ Notify(n, "write")
        \/ disk'[n] = disk[n] /\ (Notify(n, "write") \/ Notify(n, "chmod"))
        \/ disk'[n] = 0 /\ Notify(n, "remove")
    <2>1. CASE EditFile(n)
      BY <1>1, <2>1 DEF EditFile
    <2>2. CASE TouchFile(n, "write") \/ TouchFile(n, "chmod")
      BY <1>1, <2>2 DEF TouchFile
    <2>3. CASE RemoveFile(n)
      BY <1>1, <2>3 DEF RemoveFile
    <2> QED BY <2>1, <2>2, <2>3 DEF FileStep
  <1>8. ConfigTypeOK'
    BY <1>1, <1>3, <1>5 DEF ConfigTypeOK
  <1> QED BY <1>1, <1>4, <1>6, <1>7, <1>8

\* ... and resources.
LEMMA ApiWritesEffect ==
    ASSUME ConfigTypeOK, NEW n \in Names, ApiWrites(n)
    PROVE  /\ ConfigTypeOK' /\ UNCHANGED <<disk, events, pending, hashes, w>>
           /\ \A m \in Names : m # n => crs'[m] = crs[m]
           /\ serial' = serial + 1 /\ crs'[n].exists /\ crs'[n].ver = serial + 1
           /\ crs[n].exists => crs'[n].deleting = crs[n].deleting /\ asked' = asked
           /\ ~crs[n].exists => asked' = asked \cup {n}
           /\ crs'[n].had \subseteq crs[n].had \cup {serial + 1}
  <1> DEFINE v == serial + 1
             c == IF crs[n].exists THEN NewSpec(crs[n], v) ELSE NewCR(v)
  <1>1. crs \in [Names -> CR] /\ crs[n] \in CR /\ asked \subseteq Names
    BY DEF ConfigTypeOK
  <1>2. /\ crs' = [crs EXCEPT ![n] = c] /\ serial' = v
        /\ UNCHANGED <<disk, events, pending, hashes, w>>
        /\ crs[n].exists => asked' = asked
        /\ ~crs[n].exists => asked' = asked \cup {n}
    BY DEF ApiWrites
  <1>3. v \in Versions
    BY NextVersion DEF ApiWrites, ConfigTypeOK
  <1> HIDE DEF v
  <1>4. /\ NewSpec(crs[n], v) \in CR /\ NewSpec(crs[n], v).exists
        /\ NewSpec(crs[n], v).deleting = crs[n].deleting
        /\ NewSpec(crs[n], v).ver = v /\ NewSpec(crs[n], v).had = crs[n].had \cup {v}
    BY <1>1, <1>3, CRTypes
  <1>5. /\ NewCR(v) \in CR /\ NewCR(v).exists /\ ~NewCR(v).deleting
        /\ NewCR(v).ver = v /\ NewCR(v).had = {v}
    BY <1>3, CRTypes
  <1>6. /\ c \in CR /\ c.exists /\ c.ver = v /\ c.had \subseteq crs[n].had \cup {v}
        /\ crs[n].exists => c.deleting = crs[n].deleting
    BY <1>4, <1>5
  <1> HIDE DEF c
  <1>7. crs' \in [Names -> CR] /\ crs'[n] = c /\ \A m \in Names : m # n => crs'[m] = crs[m]
    BY <1>1, <1>2, <1>6, CrsTypes
  <1>8. asked' \subseteq Names
    BY <1>1, <1>2
  <1>9. ConfigTypeOK'
    BY <1>2, <1>3, <1>7, <1>8 DEF ConfigTypeOK
  <1> QED BY <1>2, <1>6, <1>7, <1>9 DEF v

LEMMA DeletedEffect ==
    ASSUME ConfigTypeOK, NEW n \in Names, Deleted(n)
    PROVE  /\ crs' \in [Names -> CR] /\ asked' \subseteq asked
           /\ \A m \in Names : m # n => crs'[m] = crs[m] /\ (m \in asked' <=> m \in asked)
           /\ crs'[n].exists = crs[n].exists /\ crs'[n].ver = crs[n].ver
           /\ crs'[n].had = crs[n].had
           /\ crs[n].exists => crs'[n].deleting
           /\ ~crs[n].exists => (n \in asked' <=> n \in asked)
  <1> DEFINE b == crs[n].deleting \/ crs[n].exists
             c == [crs[n] EXCEPT !.deleting = b]
  <1>1. crs \in [Names -> CR] /\ crs[n] \in CR
    BY DEF ConfigTypeOK
  <1>2. crs[n].exists \in BOOLEAN /\ crs[n].deleting \in BOOLEAN /\ b \in BOOLEAN
    BY <1>1 DEF CR
  <1>3. crs' = [crs EXCEPT ![n] = c]
    BY <1>1 DEF Deleted
  <1>4. c \in CR /\ c.exists = crs[n].exists /\ c.deleting = b /\ c.ver = crs[n].ver
        /\ c.had = crs[n].had
    <2> HIDE DEF b
    <2> QED BY <1>1, <1>2, CRTypes
  <1>5. crs[n].exists => b
    OBVIOUS
  <1> HIDE DEF c, b
  <1>6. crs' \in [Names -> CR] /\ crs'[n] = c /\ \A m \in Names : m # n => crs'[m] = crs[m]
    BY <1>1, <1>3, <1>4, CrsTypes
  <1>7. asked' = IF crs[n].exists THEN asked \ {n} ELSE asked
    BY DEF Deleted
  <1> QED BY <1>4, <1>5, <1>6, <1>7

LEMMA ApiDeletesEffect ==
    ASSUME ConfigTypeOK, NEW n \in Names, ApiDeletes(n)
    PROVE  ConfigTypeOK' /\ Deleted(n) /\ UNCHANGED <<disk, serial, events, pending, hashes, w>>
  <1>1. Deleted(n) /\ UNCHANGED <<disk, serial, events, pending, hashes, w>>
    BY DEF ApiDeletes
  <1>2. crs' \in [Names -> CR] /\ asked' \subseteq asked
    BY <1>1, DeletedEffect
  <1>3. asked' \subseteq Names
    BY <1>2 DEF ConfigTypeOK
  <1> QED BY <1>1, <1>2, <1>3 DEF ConfigTypeOK

\* The watcher goes from one part of its work to the next.
LEMMA MoveEffect ==
    ASSUME ConfigTypeOK, StartWatch \/ AddDirs \/ BatchDone
    PROVE  /\ ConfigTypeOK' /\ UNCHANGED <<disk, crs, asked, serial, events, pending, hashes>>
           /\ w'.todo = w.todo /\ w'.cur = w.cur /\ w'.data = w.data
           /\ \/ w.at = "scan" /\ w'.at = "add" /\ w.cur = NoFile /\ w.todo = {}
              \/ w.at = "add" /\ w'.at = "loop"
              \/ w.at = "batch" /\ w'.at = "loop" /\ w.cur = NoFile /\ w.todo = {}
  <1>1. w \in WatcherState
    BY ConfigFacts
  <1>2. UNCHANGED <<disk, crs, asked, serial, events, pending, hashes>>
    BY DEF StartWatch, AddDirs, BatchDone
  <1>3. PICK s \in {"add", "loop"} :
           /\ w' = [w EXCEPT !.at = s]
           /\ \/ w.at = "scan" /\ s = "add" /\ w.cur = NoFile /\ w.todo = {}
              \/ w.at = "add" /\ s = "loop"
              \/ w.at = "batch" /\ s = "loop" /\ w.cur = NoFile /\ w.todo = {}
    BY DEF StartWatch, AddDirs, BatchDone
  <1>4. /\ w' \in WatcherState /\ w'.at = s /\ w'.todo = w.todo /\ w'.cur = w.cur
        /\ w'.data = w.data
    BY <1>1, <1>3, WatcherAt
  <1>5. ConfigTypeOK'
    BY <1>2, <1>4 DEF ConfigTypeOK, WatcherState
  <1> QED BY <1>2, <1>3, <1>4, <1>5

LEMMA StartScanEffect ==
    ASSUME ConfigTypeOK, StartScan
    PROVE  /\ ConfigTypeOK' /\ UNCHANGED <<disk, crs, asked, serial, events, pending, hashes>>
           /\ w.at = "off" /\ w'.at = "scan" /\ w'.todo = {n \in Files : disk[n] # 0}
           /\ w'.cur = NoFile /\ w'.data = 0
  <1> DEFINE t == {n \in Files : disk[n] # 0}
  <1>1. UNCHANGED <<disk, crs, asked, serial, events, pending, hashes>> /\ w.at = "off"
    BY DEF StartScan
  <1>2. w' = [Off EXCEPT !.at = "scan", !.todo = t] /\ t \in SUBSET Files
    BY DEF StartScan
  <1> HIDE DEF t
  <1>3. w' \in WatcherState /\ w'.at = "scan" /\ w'.todo = t /\ w'.cur = NoFile /\ w'.data = 0
    BY <1>2, OffTypes, WatcherBegins
  <1>4. ConfigTypeOK'
    BY <1>1, <1>3 DEF ConfigTypeOK, WatcherState
  <1> QED BY <1>1, <1>3, <1>4 DEF t

LEMMA DebouncedEffect ==
    ASSUME ConfigTypeOK, Debounced
    PROVE  /\ ConfigTypeOK' /\ UNCHANGED <<disk, crs, asked, serial, events, pending, hashes>>
           /\ w.at = "loop" /\ w'.at = "batch" /\ w'.todo = {n \in Files : pending[n] # "none"}
           /\ w'.cur = w.cur /\ w'.data = w.data /\ events = <<>>
  <1> DEFINE t == {n \in Files : pending[n] # "none"}
  <1>1. /\ UNCHANGED <<disk, crs, asked, serial, events, pending, hashes>> /\ w.at = "loop"
        /\ events = <<>>
    BY DEF Debounced
  <1>2. w' = [w EXCEPT !.at = "batch", !.todo = t] /\ t \in SUBSET Files
    BY DEF Debounced
  <1> HIDE DEF t
  <1>3. w' \in WatcherState /\ w'.at = "batch" /\ w'.todo = t /\ w'.cur = w.cur /\ w'.data = w.data
    BY <1>2, ConfigFacts, WatcherBegins
  <1>4. ConfigTypeOK'
    BY <1>1, <1>3 DEF ConfigTypeOK, WatcherState
  <1> QED BY <1>1, <1>3, <1>4 DEF t

\* The three ways a path of the batch is finished with.
LEMMA SyncFileEffect ==
    ASSUME ConfigTypeOK, NEW n \in Files, SyncFile(n)
    PROVE  /\ ConfigTypeOK' /\ UNCHANGED <<disk, crs, asked, serial, events>>
           /\ w.at \in {"scan", "batch"} /\ w.cur = NoFile /\ n \in w.todo
           /\ w'.at = w.at /\ pending[n] # "remove"
           /\ pending'[n] = "none" /\ \A m \in Files : m # n => pending'[m] = pending[m]
           /\ \/ /\ disk[n] \in {0, hashes[n]} /\ hashes' = hashes
                 /\ w'.todo = w.todo \ {n} /\ w'.cur = NoFile /\ w'.data = w.data
              \/ /\ disk[n] \notin {0, hashes[n]} /\ hashes'[n] = disk[n]
                 /\ \A m \in Files : m # n => hashes'[m] = hashes[m]
                 /\ w'.todo = w.todo /\ w'.cur = n /\ w'.data = disk[n]
  <1>1. /\ UNCHANGED <<disk, crs, asked, serial, events>>
        /\ w.at \in {"scan", "batch"} /\ w.cur = NoFile /\ n \in w.todo /\ pending[n] # "remove"
        /\ pending' = [pending EXCEPT ![n] = "none"]
    BY DEF SyncFile
  <1>2. /\ pending' \in [Files -> Ops \cup {"none"}]
        /\ pending'[n] = "none" /\ \A m \in Files : m # n => pending'[m] = pending[m]
    BY <1>1, ConfigFacts
  <1>3. w \in WatcherState /\ disk[n] \in Versions /\ hashes \in [Files -> Versions]
    BY ConfigFacts
  <1>4. CASE disk[n] \in {0, hashes[n]}
    <2>1. w' = [w EXCEPT !.todo = w.todo \ {n}] /\ hashes' = hashes
      BY <1>4 DEF SyncFile
    <2>2. w.todo \ {n} \in SUBSET Files
      BY ConfigFacts
    <2>3. /\ w' \in WatcherState /\ w'.at = w.at /\ w'.todo = w.todo \ {n} /\ w'.cur = w.cur
          /\ w'.data = w.data
      BY <1>3, <2>1, <2>2, WatcherTodo
    <2>4. ConfigTypeOK'
      BY <1>1, <1>2, <2>1, <2>3 DEF ConfigTypeOK, WatcherState
    <2> QED BY <1>1, <1>2, <1>4, <2>1, <2>3, <2>4
  <1>5. CASE disk[n] \notin {0, hashes[n]}
    <2>1. w' = [w EXCEPT !.cur = n, !.data = disk[n]] /\ hashes' = [hashes EXCEPT ![n] = disk[n]]
      BY <1>5 DEF SyncFile
    <2>2. /\ w' \in WatcherState /\ w'.at = w.at /\ w'.todo = w.todo /\ w'.cur = n
          /\ w'.data = disk[n]
      BY <1>3, <2>1, WatcherReads
    <2>3. /\ hashes' \in [Files -> Versions] /\ hashes'[n] = disk[n]
          /\ \A m \in Files : m # n => hashes'[m] = hashes[m]
      BY <1>3, <2>1
    <2>4. ConfigTypeOK'
      BY <1>1, <1>2, <2>2, <2>3 DEF ConfigTypeOK, WatcherState
    <2> QED BY <1>1, <1>2, <1>5, <2>2, <2>3, <2>4
  <1> QED BY <1>4, <1>5

LEMMA SkipChmodEffect ==
    ASSUME ConfigTypeOK, NEW n \in Files, SkipChmod(n)
    PROVE  /\ ConfigTypeOK' /\ UNCHANGED <<disk, crs, asked, serial, events, hashes>>
           /\ w.at = "batch" /\ w.cur = NoFile /\ w'.at = "batch" /\ w'.cur = NoFile
           /\ w'.data = w.data /\ w'.todo = w.todo \ {n}
           /\ pending'[n] = "none" /\ \A m \in Files : m # n => pending'[m] = pending[m]
  <1>1. /\ UNCHANGED <<disk, crs, asked, serial, events, hashes>>
        /\ w.at = "batch" /\ w.cur = NoFile
        /\ pending' = [pending EXCEPT ![n] = "none"]
        /\ w' = [w EXCEPT !.todo = w.todo \ {n}]
    BY DEF SkipChmod
  <1>2. /\ pending' \in [Files -> Ops \cup {"none"}]
        /\ pending'[n] = "none" /\ \A m \in Files : m # n => pending'[m] = pending[m]
    BY <1>1, ConfigFacts
  <1>3. w \in WatcherState /\ w.todo \ {n} \in SUBSET Files
    BY ConfigFacts
  <1>4. /\ w' \in WatcherState /\ w'.at = w.at /\ w'.todo = w.todo \ {n} /\ w'.cur = w.cur
        /\ w'.data = w.data
    BY <1>1, <1>3, WatcherTodo
  <1>5. ConfigTypeOK'
    BY <1>1, <1>2, <1>4 DEF ConfigTypeOK, WatcherState
  <1> QED BY <1>1, <1>2, <1>4, <1>5

LEMMA HandleDeleteEffect ==
    ASSUME ConfigTypeOK, NEW n \in Files, NEW failed \in BOOLEAN, HandleDelete(n, failed)
    PROVE  /\ ConfigTypeOK' /\ UNCHANGED <<disk, serial, events>>
           /\ Deleted(n) \/ UNCHANGED <<crs, asked>>
           /\ w.at = "batch" /\ w.cur = NoFile /\ w'.at = "batch" /\ w'.cur = NoFile
           /\ w'.data = w.data /\ w'.todo = w.todo \ {n} /\ n \in w.todo
           /\ pending[n] = "remove" /\ hashes'[n] = 0
           /\ \A m \in Files : m # n => hashes'[m] = hashes[m]
           /\ pending'[n] = "none" /\ \A m \in Files : m # n => pending'[m] = pending[m]
  <1>1. /\ UNCHANGED <<disk, serial, events>>
        /\ w.at = "batch" /\ w.cur = NoFile /\ n \in w.todo /\ pending[n] = "remove"
        /\ pending' = [pending EXCEPT ![n] = "none"]
        /\ hashes' = [hashes EXCEPT ![n] = 0]
        /\ w' = [w EXCEPT !.todo = w.todo \ {n}]
        /\ Deleted(n) \/ UNCHANGED <<crs, asked>>
    BY DEF HandleDelete
  <1>2. /\ pending' \in [Files -> Ops \cup {"none"}]
        /\ pending'[n] = "none" /\ \A m \in Files : m # n => pending'[m] = pending[m]
        /\ hashes' \in [Files -> Versions]
        /\ hashes'[n] = 0 /\ \A m \in Files : m # n => hashes'[m] = hashes[m]
    BY <1>1, ConfigFacts, Constants
  <1>3. w \in WatcherState /\ w.todo \ {n} \in SUBSET Files
    BY ConfigFacts
  <1>4. /\ w' \in WatcherState /\ w'.at = w.at /\ w'.todo = w.todo \ {n} /\ w'.cur = w.cur
        /\ w'.data = w.data
    BY <1>1, <1>3, WatcherTodo
  <1>5. crs' \in [Names -> CR] /\ asked' \subseteq Names
    BY <1>1, ConfigFacts, DeletedEffect, Constants
  <1>6. ConfigTypeOK'
    BY <1>1, <1>2, <1>4, <1>5 DEF ConfigTypeOK, WatcherState
  <1> QED BY <1>1, <1>2, <1>4, <1>6

LEMMA UpsertEffect ==
    ASSUME ConfigTypeOK, NEW started \in BOOLEAN, NEW failed \in BOOLEAN, Upsert(started, failed)
    PROVE  /\ ConfigTypeOK' /\ UNCHANGED <<disk, serial, events, pending, hashes>>
           /\ w.cur \in Files /\ w'.at = w.at /\ w'.todo = w.todo \ {w.cur}
           /\ w'.cur = NoFile /\ w'.data = 0
           /\ \A m \in Names : m # w.cur => crs'[m] = crs[m]
           /\ \/ crs' = crs /\ asked' = asked
              \/ /\ ~crs[w.cur].exists /\ crs'[w.cur].exists /\ ~crs'[w.cur].deleting
                 /\ crs'[w.cur].ver = w.data /\ crs'[w.cur].had = {w.data}
                 /\ asked' = asked \cup {w.cur}
              \/ /\ crs[w.cur].exists /\ started /\ crs'[w.cur].exists
                 /\ crs'[w.cur].deleting = crs[w.cur].deleting
                 /\ crs'[w.cur].ver = w.data
                 /\ crs'[w.cur].had = crs[w.cur].had \cup {w.data} /\ asked' = asked
  <1> DEFINE n == w.cur
  <1>1. /\ UNCHANGED <<disk, serial, events, pending, hashes>> /\ n # NoFile
        /\ w' = [w EXCEPT !.todo = w.todo \ {n}, !.cur = NoFile, !.data = 0]
    BY DEF Upsert
  <1>2. /\ crs \in [Names -> CR] /\ asked \subseteq Names /\ w \in WatcherState
        /\ w.todo \ {n} \in SUBSET Files /\ w.data \in Versions /\ n \in Files /\ n \in Names
    BY <1>1, ConfigFacts, Constants
  <1>3. /\ w' \in WatcherState /\ w'.at = w.at /\ w'.todo = w.todo \ {n} /\ w'.cur = NoFile
        /\ w'.data = 0
    BY <1>1, <1>2, WatcherWrote
  <1>4. CASE ~failed /\ ~crs[n].exists
    <2> DEFINE c == NewCR(w.data)
    <2>1. crs' = [crs EXCEPT ![n] = c] /\ asked' = asked \cup {n}
      BY <1>2, <1>4 DEF Upsert
    <2>2. c \in CR /\ c.exists /\ ~c.deleting /\ c.ver = w.data /\ c.had = {w.data}
      BY <1>2, CRTypes
    <2> HIDE DEF c
    <2>3. crs' \in [Names -> CR] /\ crs'[n] = c /\ \A m \in Names : m # n => crs'[m] = crs[m]
      BY <1>2, <2>1, <2>2, CrsTypes
    <2>4. asked' \subseteq Names
      BY <1>2, <2>1
    <2>5. ConfigTypeOK'
      BY <1>1, <1>3, <2>3, <2>4 DEF ConfigTypeOK, WatcherState
    <2> QED BY <1>1, <1>2, <1>3, <1>4, <2>1, <2>2, <2>3, <2>5
  <1>5. CASE ~failed /\ crs[n].exists /\ started
    <2> DEFINE c == NewSpec(crs[n], w.data)
    <2>1. crs' = [crs EXCEPT ![n] = c] /\ asked' = asked
      BY <1>2, <1>5 DEF Upsert
    <2>2. /\ c \in CR /\ c.exists /\ c.deleting = crs[n].deleting /\ c.ver = w.data
          /\ c.had = crs[n].had \cup {w.data}
      BY <1>2, CRTypes
    <2> HIDE DEF c
    <2>3. crs' \in [Names -> CR] /\ crs'[n] = c /\ \A m \in Names : m # n => crs'[m] = crs[m]
      BY <1>2, <2>1, <2>2, CrsTypes
    <2>4. ConfigTypeOK'
      BY <1>1, <1>2, <1>3, <2>1, <2>3 DEF ConfigTypeOK, WatcherState
    <2> QED BY <1>1, <1>2, <1>3, <1>5, <2>1, <2>2, <2>3, <2>4
  <1>6. CASE ~(~failed /\ ~crs[n].exists) /\ ~(~failed /\ crs[n].exists /\ started)
    <2>1. crs' = [crs EXCEPT ![n] = crs[n]] /\ asked' = asked
      BY <1>2, <1>6 DEF Upsert
    <2>2. crs' = crs
      BY <1>2, <2>1
    <2>3. ConfigTypeOK'
      BY <1>1, <1>2, <1>3, <2>1, <2>2 DEF ConfigTypeOK, WatcherState
    <2> QED BY <1>1, <1>2, <1>3, <2>1, <2>2, <2>3
  <1> QED BY <1>4, <1>5, <1>6

\* The event read is the first, the others move up.
LEMMA ReadEventEffect ==
    ASSUME ConfigTypeOK, ReadEvent
    PROVE  /\ ConfigTypeOK' /\ UNCHANGED <<disk, crs, asked, serial, hashes, w>>
           /\ w.at = "loop" /\ 1 \in DOMAIN events
           /\ events[1][1] \in Files /\ events[1][2] \in Ops
           /\ pending'[events[1][1]] = events[1][2]
           /\ \A m \in Files : m # events[1][1] => pending'[m] = pending[m]
           /\ \A i \in DOMAIN events' : i \in Nat \ {0} /\ i + 1 \in DOMAIN events
                                         /\ events'[i] = events[i + 1]
           /\ \A i \in DOMAIN events : i # 1 => i - 1 \in DOMAIN events'
  <1>1. /\ UNCHANGED <<disk, crs, asked, serial, hashes, w>> /\ w.at = "loop" /\ events # <<>>
        /\ pending' = [pending EXCEPT ![Head(events)[1]] = Head(events)[2]]
        /\ events' = Tail(events)
    BY DEF ReadEvent
  <1>2. events \in Seq(Files \X Ops) /\ Len(events) <= MaxEvents
    BY ConfigFacts
  <1>3. /\ Head(events) = events[1] /\ 1 \in DOMAIN events /\ events[1] \in Files \X Ops
        /\ Len(events) \in Nat \ {0} /\ DOMAIN events = 1 .. Len(events)
    BY <1>1, <1>2, EmptySeq, ElementOfSeq, HeadTailProperties, LenProperties
  <1>4. /\ events' \in Seq(Files \X Ops) /\ Len(events') = Len(events) - 1
        /\ \A i \in 1 .. Len(events') : events'[i] = events[i + 1]
        /\ DOMAIN events' = 1 .. Len(events')
    BY <1>1, <1>2, HeadTailProperties, LenProperties
  <1>5. events[1][1] \in Files /\ events[1][2] \in Ops
    BY <1>3
  <1>6. /\ pending' \in [Files -> Ops \cup {"none"}]
        /\ pending'[events[1][1]] = events[1][2]
        /\ \A m \in Files : m # events[1][1] => pending'[m] = pending[m]
    <2> DEFINE a == events[1][1]
               b == events[1][2]
    <2>1. pending' = [pending EXCEPT ![a] = b] /\ a \in Files /\ b \in Ops
      BY <1>1, <1>3, <1>5
    <2> HIDE DEF a, b
    <2>2. /\ pending' \in [Files -> Ops \cup {"none"}] /\ pending'[a] = b
          /\ \A m \in Files : m # a => pending'[m] = pending[m]
      BY <2>1, ConfigFacts
    <2> QED BY <2>2 DEF a, b
  <1>7. Len(events') <= MaxEvents
    BY <1>2, <1>3, <1>4, ConfigAssumption
  <1>8. ConfigTypeOK'
    BY <1>1, <1>4, <1>6, <1>7, ConfigFacts DEF ConfigTypeOK
  <1>9. /\ \A i \in DOMAIN events' : i \in Nat \ {0} /\ i + 1 \in DOMAIN events
                                     /\ events'[i] = events[i + 1]
        /\ \A i \in DOMAIN events : i # 1 => i - 1 \in DOMAIN events'
    BY <1>3, <1>4
  <1> QED BY <1>1, <1>3, <1>5, <1>6, <1>8, <1>9

LEMMA StopsEffect ==
    ASSUME ConfigTypeOK, WatcherStops
    PROVE  /\ ConfigTypeOK' /\ UNCHANGED <<disk, crs, asked, serial>>
           /\ events' = <<>> /\ w'.at = "off" /\ w'.cur = NoFile /\ w'.data = 0
           /\ \A n \in Files : pending'[n] = "none"
  <1>1. /\ UNCHANGED <<disk, crs, asked, serial>> /\ events' = <<>> /\ w' = Off
        /\ pending' = [n \in Files |-> "none"] /\ hashes' = [n \in Files |-> 0]
    BY DEF WatcherStops, NothingPending
  <1>2. events' \in Seq(Files \X Ops) /\ Len(events') <= MaxEvents
    BY <1>1, EmptySeq, ConfigAssumption
  <1>3. hashes' \in [Files -> Versions] /\ pending' \in [Files -> Ops \cup {"none"}]
    BY <1>1, Constants
  <1>4. ConfigTypeOK'
    BY <1>1, <1>2, <1>3, OffTypes DEF ConfigTypeOK, WatcherState
  <1> QED BY <1>1, <1>4, OffTypes

-----------------------------------------------------------------------------
(***************************************************************************)
(* The versions: the spec the watcher is about to write is one its         *)
(* resource never had.                                                     *)
(***************************************************************************)
\* No version in use is newer than the last one taken.
SerialInv ==
    /\ \A n \in Files : disk[n] <= serial
    /\ \A n \in Names : \A v \in crs[n].had : v <= serial
    /\ w.data <= serial

\* The resource of the file has not had the spec that is in the file.
Unread(n) == disk[n] = 0 \/ disk[n] \notin crs[n].had

Queued(n) == \E i \in DOMAIN events : events[i][1] = n

\* The last event of a path is a removal only while the file is away ...
RemovalInv ==
    \A i \in DOMAIN events :
        events[i][2] = "remove" =>
            \/ disk[events[i][1]] = 0
            \/ \E j \in DOMAIN events : j > i /\ events[j][1] = events[i][1]

\* ... so when handleDelete forgets the hash of a file, what is in the file
\* is new.
PendingInv ==
    \A n \in Files :
        pending[n] = "remove" => \/ Unread(n)
                                 \/ Queued(n) /\ ~(w.at = "batch" /\ n \in w.todo)

\* The hash of a file that was read is that of what is in it now, or what is
\* in it now is new.
HashInv ==
    \A n \in Files :
        (w.at # "off" /\ (w.at = "scan" => n \notin w.todo \/ w.cur = n))
            => disk[n] = hashes[n] \/ Unread(n)

\* The upsert under way.
UpsertInv ==
    w.cur # NoFile =>
        /\ w.at \in {"scan", "batch"} /\ w.cur \in w.todo /\ pending[w.cur] = "none"
        /\ w.data # 0 /\ hashes[w.cur] = w.data
        /\ w.at = "batch" => w.data \notin crs[w.cur].had

\* Before the directories are added there are no events.
QuietInv == ~Watching => events = <<>> /\ \A n \in Files : pending[n] = "none"

ConfigInv == SerialInv /\ RemovalInv /\ PendingInv /\ HashInv /\ UpsertInv /\ QuietInv

LEMMA ResourcesKeep ==
    ASSUME ConfigTypeOK, ConfigTypeOK', ConfigInv,
           UNCHANGED <<disk, events, pending, hashes, w>>,
           serial' = serial \/ serial' = serial + 1,
           \A n \in Names : \A v \in crs'[n].had :
              v \in crs[n].had \/ v = 0 \/ (serial' = serial + 1 /\ v = serial + 1)
    PROVE  ConfigInv'
  <1>1. /\ serial \in Nat /\ \A n \in Files : n \in Names /\ disk[n] \in Nat
        /\ w.data \in Nat /\ \A n \in Names : \A v \in crs[n].had : v \in Nat
    BY ConfigFacts, Constants DEF Versions, CR
  <1>2. \A n \in Files : Unread(n) => Unread(n)'
    <2> SUFFICES ASSUME NEW n \in Files, Unread(n) PROVE Unread(n)'
      OBVIOUS
    <2>1. n \in Names /\ disk[n] \in Nat /\ disk[n] <= serial /\ disk'[n] = disk[n]
      BY <1>1 DEF ConfigInv, SerialInv
    <2>2. disk[n] # serial + 1
      BY <1>1, <2>1
    <2> QED BY <2>1, <2>2 DEF Unread
  <1>3. SerialInv'
    BY <1>1 DEF ConfigInv, SerialInv
  <1>4. RemovalInv' /\ QuietInv'
    BY DEF ConfigInv, RemovalInv, QuietInv, Watching
  <1>5. PendingInv' /\ HashInv'
    BY <1>2 DEF ConfigInv, PendingInv, HashInv, Queued
  <1>6. UpsertInv'
    <2> SUFFICES ASSUME w.cur # NoFile, w.at = "batch" PROVE w.data \notin crs'[w.cur].had
      BY DEF ConfigInv, UpsertInv
    <2>1. w.cur \in Names /\ w.data \notin crs[w.cur].had /\ w.data # 0
      BY ConfigFacts, Constants DEF ConfigInv, UpsertInv
    <2>2. w.data # serial + 1
      BY <1>1 DEF ConfigInv, SerialInv
    <2> QED BY <2>1, <2>2
  <1> QED BY <1>3, <1>4, <1>5, <1>6 DEF ConfigInv

\* An event that is sent is the last one.
LEMMA NotifyLast ==
    ASSUME ConfigTypeOK, QuietInv, NEW n \in Files, NEW op \in Ops, Notify(n, op)
    PROVE  \/ ~Watching /\ events' = events /\ events = <<>>
           \/ /\ Watching
              /\ \E k \in DOMAIN events' :
                    /\ events'[k] = <<n, op>>
                    /\ \A i \in DOMAIN events : i < k /\ i \in DOMAIN events' /\ events'[i] = events[i]
                    /\ \A i \in DOMAIN events' : i # k => i \in DOMAIN events
  <1>1. CASE Watching
    <2>1. events' = Append(events, <<n, op>>) /\ events \in Seq(Files \X Ops)
      BY <1>1, ConfigFacts DEF Notify
    <2> DEFINE k == Len(events) + 1
    <2>2. /\ events' \in Seq(Files \X Ops) /\ Len(events') = k /\ events'[k] = <<n, op>>
          /\ \A i \in 1 .. Len(events) : events'[i] = events[i]
      BY <2>1, AppendProperties
    <2>3. DOMAIN events = 1 .. Len(events) /\ Len(events) \in Nat /\ DOMAIN events' = 1 .. k
      BY <2>1, <2>2, LenProperties
    <2>4. k \in DOMAIN events' /\ \A i \in DOMAIN events : i < k /\ i \in DOMAIN events'
      BY <2>3
    <2>5. \A i \in DOMAIN events' : i # k => i \in DOMAIN events
      BY <2>3
    <2> HIDE DEF k
    <2> QED BY <1>1, <2>2, <2>3, <2>4, <2>5
  <1>2. CASE ~Watching
    BY <1>2 DEF Notify, QuietInv
  <1> QED BY <1>1, <1>2

LEMMA FilesKeep ==
    ASSUME ConfigTypeOK, ConfigInv, NEW n \in Files, FileStep(n)
    PROVE  ConfigTypeOK' /\ ConfigInv'
  <1>1. /\ ConfigTypeOK' /\ UNCHANGED <<crs, asked, pending, hashes, w>>
        /\ \A m \in Files : m # n => disk'[m] = disk[m]
        /\ serial' = serial \/ serial' = serial + 1
    BY FileEffect
  <1>2. PICK op \in Ops :
           /\ Notify(n, op)
           /\ \/ disk'[n] = serial + 1 /\ serial' = serial + 1 /\ op # "remove"
              \/ disk'[n] = disk[n] /\ op # "remove"
              \/ disk'[n] = 0
    BY FileEffect DEF Ops
  <1>3. /\ serial \in Nat /\ \A m \in Files : m \in Names /\ disk[m] \in Nat
        /\ w.data \in Nat /\ \A m \in Names : \A v \in crs[m].had : v \in Nat
    BY ConfigFacts, Constants DEF Versions, CR
  <1>4. SerialInv'
    BY <1>1, <1>2, <1>3 DEF ConfigInv, SerialInv
  <1>5. \A m \in Files : (Unread(m) => Unread(m)') /\ (disk'[m] = disk[m] \/ Unread(m)')
    <2> TAKE m \in Files
    <2>1. m \in Names /\ \A v \in crs[m].had : v <= serial /\ v \in Nat
      BY <1>3 DEF ConfigInv, SerialInv
    <2>2. serial + 1 \notin crs[m].had
      BY <1>3, <2>1
    <2> QED BY <1>1, <1>2, <2>2 DEF Unread
  <1>6. UpsertInv' /\ HashInv'
    BY <1>1, <1>5 DEF ConfigInv, UpsertInv, HashInv
  <1>7. CASE ~Watching
    <2>1. events' = <<>> /\ events = <<>>
      BY <1>2, <1>7, NotifyLast DEF ConfigInv
    <2>2. QuietInv' /\ PendingInv'
      BY <1>1, <2>1, <1>7 DEF ConfigInv, QuietInv, PendingInv, Watching
    <2>3. RemovalInv'
      BY <2>1 DEF RemovalInv
    <2> QED BY <1>1, <1>4, <1>6, <2>2, <2>3 DEF ConfigInv
  <1>8. CASE Watching
    <2>1. PICK k \in DOMAIN events' :
             /\ events'[k] = <<n, op>>
             /\ \A i \in DOMAIN events : i < k /\ i \in DOMAIN events' /\ events'[i] = events[i]
             /\ \A i \in DOMAIN events' : i # k => i \in DOMAIN events
      BY <1>2, <1>8, NotifyLast DEF ConfigInv
    <2>2. QuietInv'
      BY <1>1, <1>8 DEF QuietInv, Watching
    <2>3. PendingInv'
      <3> SUFFICES ASSUME NEW m \in Files, pending'[m] = "remove"
                   PROVE  Unread(m)' \/ (Queued(m)' /\ ~(w'.at = "batch" /\ m \in w'.todo))
        BY DEF PendingInv
      <3>0. PendingInv /\ pending[m] = "remove"
        BY <1>1 DEF ConfigInv
      <3>1. Unread(m) \/ (Queued(m) /\ ~(w.at = "batch" /\ m \in w.todo))
        BY <3>0 DEF PendingInv
      <3>2. Queued(m) => Queued(m)'
        BY <2>1 DEF Queued
      <3> QED BY <1>1, <1>5, <3>1, <3>2
    <2>4. RemovalInv'
      <3> SUFFICES ASSUME NEW i \in DOMAIN events', events'[i][2] = "remove"
                   PROVE  \/ disk'[events'[i][1]] = 0
                          \/ \E j \in DOMAIN events' : j > i /\ events'[j][1] = events'[i][1]
        BY DEF RemovalInv
      <3>0. events'[k][1] = n /\ events'[k][2] = op
        BY <2>1
      <3>1. CASE i = k
        <4>1. op = "remove"
          BY <3>0, <3>1
        <4>2. disk'[n] = 0
          <5>1. FileStep(n) /\ Watching
            BY <1>8
          <5> QED BY <1>2, <4>1
        <4> QED BY <3>0, <3>1, <4>2
      <3>2. CASE i # k
        <4>1. i \in DOMAIN events /\ events'[i] = events[i] /\ i < k
          BY <2>1, <3>2
        <4>2. CASE events[i][1] = n
          <5>1. k > i
            <6>1. i \in Nat /\ k \in Nat
              BY <1>1, <4>1, ConfigFacts, LenProperties DEF ConfigTypeOK
            <6> QED BY <4>1, <6>1
          <5> QED BY <2>1, <3>0, <4>1, <4>2, <5>1
        <4>3. CASE events[i][1] # n
          <5>1. events[i][1] \in Files
            BY <4>1, ConfigFacts, ElementOfSeq, LenProperties
          <5>2. disk'[events[i][1]] = disk[events[i][1]]
            BY <1>1, <4>3, <5>1
          <5>3. \/ disk[events[i][1]] = 0
                \/ \E j \in DOMAIN events : j > i /\ events[j][1] = events[i][1]
            BY <4>1 DEF ConfigInv, RemovalInv
          <5> QED BY <2>1, <4>1, <5>2, <5>3
        <4> QED BY <4>2, <4>3
      <3> QED BY <3>1, <3>2
    <2> QED BY <1>1, <1>4, <1>6, <2>2, <2>3, <2>4 DEF ConfigInv
  <1> QED BY <1>7, <1>8

\* The steps of the watcher.
LEMMA MovesKeep ==
    ASSUME ConfigTypeOK, ConfigInv, StartWatch \/ AddDirs \/ BatchDone
    PROVE  ConfigTypeOK' /\ ConfigInv'
  <1>1. /\ ConfigTypeOK' /\ UNCHANGED <<disk, crs, asked, serial, events, pending, hashes>>
        /\ w'.todo = w.todo /\ w'.cur = w.cur /\ w'.data = w.data
        /\ \/ w.at = "scan" /\ w'.at = "add" /\ w.cur = NoFile /\ w.todo = {}
           \/ w.at = "add" /\ w'.at = "loop"
           \/ w.at = "batch" /\ w'.at = "loop" /\ w.cur = NoFile /\ w.todo = {}
    BY MoveEffect
  <1>2. SerialInv' /\ RemovalInv'
    BY <1>1 DEF ConfigInv, SerialInv, RemovalInv
  <1>3. PendingInv' /\ UpsertInv' /\ QuietInv'
    BY <1>1 DEF ConfigInv, PendingInv, UpsertInv, QuietInv, Unread, Queued, Watching
  <1>4. HashInv'
    BY <1>1 DEF ConfigInv, HashInv, Unread
  <1> QED BY <1>1, <1>2, <1>3, <1>4 DEF ConfigInv

LEMMA StartScanKeeps ==
    ASSUME ConfigTypeOK, ConfigInv, StartScan
    PROVE  ConfigTypeOK' /\ ConfigInv'
  <1>1. /\ ConfigTypeOK' /\ UNCHANGED <<disk, crs, asked, serial, events, pending, hashes>>
        /\ w.at = "off" /\ w'.at = "scan" /\ w'.todo = {n \in Files : disk[n] # 0}
        /\ w'.cur = NoFile /\ w'.data = 0
    BY StartScanEffect
  <1>2. SerialInv' /\ RemovalInv'
    <2>1. serial \in Nat
      BY ConfigFacts DEF Versions
    <2> QED BY <1>1, <2>1 DEF ConfigInv, SerialInv, RemovalInv
  <1>3. PendingInv' /\ UpsertInv' /\ QuietInv'
    BY <1>1 DEF ConfigInv, PendingInv, UpsertInv, QuietInv, Unread, Queued, Watching
  <1>4. HashInv'
    <2> SUFFICES ASSUME NEW n \in Files, n \notin w'.todo \/ w'.cur = n PROVE Unread(n)'
      BY <1>1 DEF HashInv
    <2>1. disk[n] = 0
      BY <1>1, Constants
    <2> QED BY <1>1, <2>1 DEF Unread
  <1> QED BY <1>1, <1>2, <1>3, <1>4 DEF ConfigInv

LEMMA DebouncedKeeps ==
    ASSUME ConfigTypeOK, ConfigInv, Debounced
    PROVE  ConfigTypeOK' /\ ConfigInv'
  <1>1. /\ ConfigTypeOK' /\ UNCHANGED <<disk, crs, asked, serial, events, pending, hashes>>
        /\ w.at = "loop" /\ w'.at = "batch" /\ w'.todo = {n \in Files : pending[n] # "none"}
        /\ w'.cur = w.cur /\ w'.data = w.data /\ events = <<>>
    BY DebouncedEffect
  <1>2. SerialInv' /\ RemovalInv'
    BY <1>1 DEF ConfigInv, SerialInv, RemovalInv
  <1>3. UpsertInv' /\ QuietInv'
    BY <1>1 DEF ConfigInv, UpsertInv, QuietInv, Watching
  <1>4. PendingInv'
    <2>1. \A n \in Files : ~Queued(n)
      BY <1>1 DEF Queued
    <2>2. \A n \in Files : pending[n] = "remove" => Unread(n)
      BY <2>1 DEF ConfigInv, PendingInv
    <2> QED BY <1>1, <2>2 DEF PendingInv, Unread
  <1>5. HashInv'
    BY <1>1 DEF ConfigInv, HashInv, Unread
  <1> QED BY <1>1, <1>2, <1>3, <1>4, <1>5 DEF ConfigInv

LEMMA ReadEventKeeps ==
    ASSUME ConfigTypeOK, ConfigInv, ReadEvent
    PROVE  ConfigTypeOK' /\ ConfigInv'
  <1> DEFINE a == events[1][1]
  <1>1. /\ ConfigTypeOK' /\ UNCHANGED <<disk, crs, asked, serial, hashes, w>>
        /\ w.at = "loop" /\ 1 \in DOMAIN events /\ a \in Files
        /\ pending'[a] = events[1][2]
        /\ \A m \in Files : m # a => pending'[m] = pending[m]
        /\ \A i \in DOMAIN events' : i \in Nat \ {0} /\ i + 1 \in DOMAIN events
                                      /\ events'[i] = events[i + 1]
        /\ \A i \in DOMAIN events : i # 1 => i - 1 \in DOMAIN events'
    BY ReadEventEffect
  <1>2. \A i \in DOMAIN events : i \in Nat \ {0}
    BY ConfigFacts, LenProperties
  <1>3. SerialInv' /\ HashInv' /\ QuietInv'
    BY <1>1 DEF ConfigInv, SerialInv, HashInv, QuietInv, Unread, Watching
  <1>4. w.cur = NoFile /\ UpsertInv'
    BY <1>1 DEF ConfigInv, UpsertInv
  <1>5. \A j \in DOMAIN events : j > 1 => j - 1 \in DOMAIN events' /\ events'[j - 1] = events[j]
    <2> SUFFICES ASSUME NEW j \in DOMAIN events, j > 1
                 PROVE  j - 1 \in DOMAIN events' /\ events'[j - 1] = events[j]
      OBVIOUS
    <2>1. j - 1 \in DOMAIN events' /\ (j - 1) + 1 = j
      BY <1>1, <1>2
    <2> QED BY <1>1, <2>1
  <1>6. PendingInv'
    <2> SUFFICES ASSUME NEW n \in Files, pending'[n] = "remove" PROVE Unread(n)' \/ Queued(n)'
      BY <1>1 DEF PendingInv
    <2>1. CASE n = a
      <3>1. events[1][2] = "remove"
        BY <1>1, <2>1
      <3>2. disk[a] = 0 \/ \E j \in DOMAIN events : j > 1 /\ events[j][1] = a
        BY <1>1, <3>1 DEF ConfigInv, RemovalInv
      <3> QED BY <1>1, <1>5, <2>1, <3>2 DEF Unread, Queued
    <2>2. CASE n # a
      <3>1. Unread(n) \/ Queued(n)
        BY <1>1, <2>2 DEF ConfigInv, PendingInv
      <3>2. Unread(n) => Unread(n)'
        BY <1>1 DEF Unread
      <3>3. ASSUME NEW j \in DOMAIN events, events[j][1] = n PROVE Queued(n)'
        <4>1. j > 1
          BY <1>2, <2>2, <3>3
        <4> QED BY <1>5, <3>3, <4>1 DEF Queued
      <3> QED BY <3>1, <3>2, <3>3 DEF Queued
    <2> QED BY <2>1, <2>2
  <1>7. RemovalInv'
    <2> SUFFICES ASSUME NEW i \in DOMAIN events', events'[i][2] = "remove"
                 PROVE  \/ disk'[events'[i][1]] = 0
                        \/ \E j \in DOMAIN events' : j > i /\ events'[j][1] = events'[i][1]
      BY DEF RemovalInv
    <2>1. i \in Nat \ {0} /\ i + 1 \in DOMAIN events /\ events'[i] = events[i + 1]
      BY <1>1
    <2>2. \/ disk[events[i + 1][1]] = 0
          \/ \E j \in DOMAIN events : j > i + 1 /\ events[j][1] = events[i + 1][1]
      BY <2>1 DEF ConfigInv, RemovalInv
    <2>3. ASSUME NEW j \in DOMAIN events, j > i + 1, events[j][1] = events[i + 1][1]
          PROVE  \E l \in DOMAIN events' : l > i /\ events'[l][1] = events'[i][1]
      <3>1. j \in Nat /\ j > 1 /\ j - 1 > i
        BY <1>2, <2>1, <2>3
      <3> QED BY <1>5, <2>1, <2>3, <3>1
    <2> QED BY <1>1, <2>1, <2>2, <2>3
  <1> QED BY <1>1, <1>3, <1>4, <1>6, <1>7 DEF ConfigInv

LEMMA SyncFileKeeps ==
    ASSUME ConfigTypeOK, ConfigInv, NEW n \in Files, SyncFile(n)
    PROVE  ConfigTypeOK' /\ ConfigInv'
  <1>1. /\ ConfigTypeOK' /\ UNCHANGED <<disk, crs, asked, serial, events>>
        /\ w.at \in {"scan", "batch"} /\ w.cur = NoFile /\ n \in w.todo
        /\ w'.at = w.at /\ pending[n] # "remove"
        /\ pending'[n] = "none" /\ \A m \in Files : m # n => pending'[m] = pending[m]
        /\ \/ /\ disk[n] \in {0, hashes[n]} /\ hashes' = hashes
              /\ w'.todo = w.todo \ {n} /\ w'.cur = NoFile /\ w'.data = w.data
           \/ /\ disk[n] \notin {0, hashes[n]} /\ hashes'[n] = disk[n]
              /\ \A m \in Files : m # n => hashes'[m] = hashes[m]
              /\ w'.todo = w.todo /\ w'.cur = n /\ w'.data = disk[n]
    BY SyncFileEffect
  <1>2. \A m \in Names : Unread(m)' <=> Unread(m)
    BY <1>1 DEF Unread
  <1>3. SerialInv' /\ RemovalInv'
    BY <1>1 DEF ConfigInv, SerialInv, RemovalInv
  <1>4. QuietInv'
    BY <1>1 DEF ConfigInv, QuietInv, Watching
  <1>5. PendingInv'
    BY <1>1 DEF ConfigInv, PendingInv, Unread, Queued
  <1>6. HashInv'
    BY <1>1, Constants DEF ConfigInv, HashInv, Unread
  <1>7. UpsertInv'
    <2> SUFFICES ASSUME w'.cur # NoFile
                 PROVE  /\ w'.at \in {"scan", "batch"} /\ w'.cur \in w'.todo
                        /\ pending'[w'.cur] = "none" /\ w'.data # 0
                        /\ hashes'[w'.cur] = w'.data
                        /\ w'.at = "batch" => w'.data \notin crs'[w'.cur].had
      BY DEF UpsertInv
    <2>1. disk[n] \notin {0, hashes[n]} /\ w'.cur = n /\ w'.data = disk[n] /\ hashes'[n] = disk[n]
          /\ w'.todo = w.todo
      BY <1>1
    <2>2. w.at = "batch" => disk[n] = hashes[n] \/ Unread(n)
      BY DEF ConfigInv, HashInv
    <2> QED BY <1>1, <2>1, <2>2 DEF Unread
  <1> QED BY <1>1, <1>3, <1>4, <1>5, <1>6, <1>7 DEF ConfigInv

LEMMA SkipChmodKeeps ==
    ASSUME ConfigTypeOK, ConfigInv, NEW n \in Files, SkipChmod(n)
    PROVE  ConfigTypeOK' /\ ConfigInv'
  <1>1. /\ ConfigTypeOK' /\ UNCHANGED <<disk, crs, asked, serial, events, hashes>>
        /\ w.at = "batch" /\ w.cur = NoFile /\ w'.at = "batch" /\ w'.cur = NoFile
        /\ w'.data = w.data /\ w'.todo = w.todo \ {n}
        /\ pending'[n] = "none" /\ \A m \in Files : m # n => pending'[m] = pending[m]
    BY SkipChmodEffect
  <1>2. SerialInv' /\ RemovalInv' /\ QuietInv' /\ UpsertInv'
    BY <1>1 DEF ConfigInv, SerialInv, RemovalInv, QuietInv, UpsertInv, Watching
  <1>3. PendingInv'
    BY <1>1 DEF ConfigInv, PendingInv, Unread, Queued
  <1>4. HashInv'
    BY <1>1 DEF ConfigInv, HashInv, Unread
  <1> QED BY <1>1, <1>2, <1>3, <1>4 DEF ConfigInv

LEMMA HandleDeleteKeeps ==
    ASSUME ConfigTypeOK, ConfigInv, NEW n \in Files, NEW failed \in BOOLEAN,
           HandleDelete(n, failed)
    PROVE  ConfigTypeOK' /\ ConfigInv'
  <1>1. /\ ConfigTypeOK' /\ UNCHANGED <<disk, serial, events>>
        /\ Deleted(n) \/ UNCHANGED <<crs, asked>>
        /\ w.at = "batch" /\ w.cur = NoFile /\ w'.at = "batch" /\ w'.cur = NoFile
        /\ w'.data = w.data /\ w'.todo = w.todo \ {n} /\ n \in w.todo
        /\ pending[n] = "remove" /\ hashes'[n] = 0
        /\ \A m \in Files : m # n => hashes'[m] = hashes[m]
        /\ pending'[n] = "none" /\ \A m \in Files : m # n => pending'[m] = pending[m]
    BY HandleDeleteEffect
  <1>2. \A m \in Names : crs'[m].had = crs[m].had
    BY <1>1, DeletedEffect, Constants
  <1>3. SerialInv'
    BY <1>1, <1>2 DEF ConfigInv, SerialInv
  <1>4. RemovalInv' /\ QuietInv' /\ UpsertInv'
    BY <1>1 DEF ConfigInv, RemovalInv, QuietInv, UpsertInv, Watching
  <1>5. \A m \in Files : Unread(m)' <=> Unread(m)
    BY <1>1, <1>2, Constants DEF Unread
  <1>6. PendingInv'
    BY <1>1, <1>5 DEF ConfigInv, PendingInv, Queued
  <1>7. Unread(n)
    BY <1>1 DEF ConfigInv, PendingInv
  <1>8. HashInv'
    BY <1>1, <1>5, <1>7 DEF ConfigInv, HashInv
  <1> QED BY <1>1, <1>3, <1>4, <1>6, <1>8 DEF ConfigInv

LEMMA UpsertKeeps ==
    ASSUME ConfigTypeOK, ConfigInv, NEW started \in BOOLEAN, NEW failed \in BOOLEAN,
           Upsert(started, failed)
    PROVE  ConfigTypeOK' /\ ConfigInv'
  <1>0. PICK n \in Files : n = w.cur
    BY UpsertEffect
  <1>1. /\ ConfigTypeOK' /\ UNCHANGED <<disk, serial, events, pending, hashes>>
        /\ n \in Files /\ w'.at = w.at /\ w'.todo = w.todo \ {n}
        /\ w'.cur = NoFile /\ w'.data = 0
        /\ \A m \in Names : m # n => crs'[m] = crs[m]
        /\ \A v \in crs'[n].had : v \in crs[n].had \/ v = w.data
    BY <1>0, UpsertEffect
  <1>2. /\ w.at \in {"scan", "batch"} /\ n \in w.todo /\ pending[n] = "none"
        /\ hashes[n] = w.data /\ n # NoFile
    BY <1>0, <1>1, Constants DEF ConfigInv, UpsertInv
  <1>3. SerialInv'
    <2>1. serial \in Nat
      BY ConfigFacts DEF Versions
    <2> QED BY <1>1, <2>1 DEF ConfigInv, SerialInv
  <1>4. RemovalInv' /\ QuietInv' /\ UpsertInv'
    BY <1>1 DEF ConfigInv, RemovalInv, QuietInv, UpsertInv, Watching
  <1>5. \A m \in Files : m # n => (Unread(m)' <=> Unread(m))
    BY <1>1, Constants DEF Unread
  <1>6. PendingInv'
    BY <1>1, <1>2, <1>5 DEF ConfigInv, PendingInv, Queued
  <1>7. disk'[n] = hashes'[n] \/ Unread(n)'
    <2>1. disk[n] = hashes[n] \/ Unread(n)
      BY <1>0, <1>1, <1>2 DEF ConfigInv, HashInv
    <2> QED BY <1>1, <1>2, <2>1 DEF Unread
  <1>8. HashInv'
    <2> SUFFICES ASSUME NEW m \in Files, m # n, w'.at # "off",
                        w'.at = "scan" => m \notin w'.todo \/ w'.cur = m
                 PROVE  disk'[m] = hashes'[m] \/ Unread(m)'
      BY <1>7 DEF HashInv
    <2>1. w.at = "scan" => m \notin w.todo
      BY <1>1, Constants
    <2>2. disk[m] = hashes[m] \/ Unread(m)
      BY <1>1, <2>1 DEF ConfigInv, HashInv
    <2> QED BY <1>1, <1>5, <2>2
  <1> QED BY <1>1, <1>3, <1>4, <1>6, <1>8 DEF ConfigInv

LEMMA StopsKeep ==
    ASSUME ConfigTypeOK, ConfigInv, WatcherStops
    PROVE  ConfigTypeOK' /\ ConfigInv'
  <1>1. /\ ConfigTypeOK' /\ UNCHANGED <<disk, crs, asked, serial>>
        /\ events' = <<>> /\ w'.at = "off" /\ w'.cur = NoFile /\ w'.data = 0
        /\ \A n \in Files : pending'[n] = "none"
    BY StopsEffect
  <1>2. serial \in Nat
    BY ConfigFacts DEF Versions
  <1>3. SerialInv' /\ PendingInv' /\ HashInv' /\ UpsertInv' /\ QuietInv'
    BY <1>1, <1>2 DEF ConfigInv, SerialInv, PendingInv, HashInv, UpsertInv, QuietInv
  <1>4. RemovalInv'
    BY <1>1 DEF RemovalInv
  <1> QED BY <1>1, <1>3, <1>4 DEF ConfigInv

-----------------------------------------------------------------------------
(***************************************************************************)
(* Types: the process.                                                     *)
(***************************************************************************)
RouteState == [exists : BOOLEAN, allowed : SUBSET (Names \cup {"manager"})]

\* TypeOK but for the part of ConfigFiles.
ProcessTypes ==
    /\ env \in Env
    /\ up \in {"down", "new", "up"}
    /\ ipc \in Steps
    /\ svc \in SUBSET {"storage", "matrix", "gateway"}
    /\ made \in SUBSET Objects
    /\ route \in RouteState
    /\ manager \in BOOLEAN
    /\ prov \in SUBSET Names
    /\ reg \in Registry /\ copy \in Registry /\ todo \in Registry
    /\ tpc \in {"idle", "team"}
    /\ overlap \in BOOLEAN
    /\ restarts \in 0 .. MaxRestarts /\ faults \in 0 .. MaxFaults
    /\ ~route.exists => route.allowed = {}
    /\ up = "down" <=> w.at = "off"
    /\ ~Started => ipc = "off" /\ tpc = "idle"
    /\ todo # NoRows => ipc = "create"

LEMMA TypeParts == TypeOK <=> ConfigTypeOK /\ ProcessTypes
  BY DEF TypeOK, ProcessTypes, RouteState

LEMMA TypePartsNext == TypeOK' <=> ConfigTypeOK' /\ ProcessTypes'
  BY DEF TypeOK, ProcessTypes, RouteState, Started

LEMMA FaultCounts ==
    ASSUME ProcessTypes, NEW k, Fault(k) PROVE faults' \in 0 .. MaxFaults /\ k \in env.faults
  BY ProcessAssumption DEF ProcessTypes, Fault

LEMMA RegistryTypes ==
    /\ NoRows \in Registry /\ NoRows.workers = {} /\ NoRows.teams = {}
    /\ \A r \in Registry : r.workers \subseteq Names \ {Team} /\ r.teams \subseteq {Team}
    /\ \A ws \in SUBSET (Names \ {Team}), ts \in SUBSET {Team} :
          [workers |-> ws, teams |-> ts] \in Registry
  BY DEF Registry, NoRows

\* The steps of the initializer before the migration, and its end.
InitStep ==
    \/ waitForOSS \/ ensureOSSStructure \/ waitForMatrix \/ registerAdmin
    \/ waitForGateway \/ EnsureServiceSources \/ EnsureRoutes \/ EnsureStreamIdleTimeout
    \/ EnsureAIProvider \/ GetAIRoute \/ PostAIRoute \/ EnsureManagerCR \/ MigrationDone
    \/ \E s \in {"storage", "matrix", "gateway"} : TimesOut(s)

LEMMA InitStepEffect ==
    ASSUME ProcessTypes, InitStep
    PROVE  /\ UNCHANGED <<config, env, up, svc, prov, reg, copy, todo, tpc, overlap, restarts>>
           /\ ipc # "off" /\ ipc' \in Steps \ {"off"} /\ todo = NoRows
           /\ faults' \in 0 .. MaxFaults
           /\ made' \in SUBSET Objects
           /\ manager' \in BOOLEAN
           /\ route' = route \/ (~route.exists /\ route' = NewRoute)
  <1>1. /\ faults \in 0 .. MaxFaults /\ made \in SUBSET Objects /\ manager \in BOOLEAN
        /\ todo # NoRows => ipc = "create"
    BY DEF ProcessTypes
  <1>2. ASSUME NEW s \in {"storage", "matrix", "gateway"}, NEW x \in Steps \ {"off"},
               WaitFor(s, x) \/ (TimesOut(s) /\ x = "aborted")
        PROVE  /\ UNCHANGED <<config, env, up, svc, prov, reg, copy, todo, tpc, overlap, restarts>>
               /\ ipc # "off" /\ ipc' \in Steps \ {"off"} /\ todo = NoRows
               /\ faults' \in 0 .. MaxFaults
               /\ UNCHANGED <<made, manager, route>>
    BY <1>1, <1>2, FaultCounts DEF WaitFor, TimesOut, Steps
  <1>3. ASSUME NEW a \in {"dirs", "admin"}, NEW x \in Steps \ {"off"}, NEW k, Prepare(a, x, k)
        PROVE  /\ UNCHANGED <<config, env, up, svc, prov, reg, copy, todo, tpc, overlap, restarts>>
               /\ ipc # "off" /\ ipc' \in Steps \ {"off"} /\ todo = NoRows
               /\ faults' \in 0 .. MaxFaults
               /\ UNCHANGED <<made, manager, route>>
    BY <1>1, <1>3, FaultCounts DEF Prepare, Steps
  <1>4. ASSUME NEW o \in Objects, NEW x \in Steps \ {"off"}, Ensure(o, x)
        PROVE  /\ UNCHANGED <<config, env, up, svc, prov, reg, copy, todo, tpc, overlap, restarts>>
               /\ ipc # "off" /\ ipc' \in Steps \ {"off"} /\ todo = NoRows
               /\ faults' \in 0 .. MaxFaults /\ made' \in SUBSET Objects
               /\ UNCHANGED <<manager, route>>
    BY <1>1, <1>4, FaultCounts DEF Ensure, Objects, Steps
  <1>5. CASE waitForOSS \/ waitForMatrix \/ waitForGateway
    BY <1>1, <1>2, <1>5 DEF waitForOSS, waitForMatrix, waitForGateway, Steps
  <1>6. CASE ensureOSSStructure \/ registerAdmin
    BY <1>1, <1>3, <1>6 DEF ensureOSSStructure, registerAdmin, Steps
  <1>7. CASE EnsureServiceSources \/ EnsureRoutes \/ EnsureStreamIdleTimeout \/ EnsureAIProvider
    BY <1>1, <1>4, <1>7 DEF EnsureServiceSources, EnsureRoutes, EnsureStreamIdleTimeout,
       EnsureAIProvider, Steps, Objects
  <1>8. CASE GetAIRoute
    BY <1>1, <1>8, FaultCounts DEF GetAIRoute, Steps
  <1>9. CASE PostAIRoute
    BY <1>1, <1>9, FaultCounts DEF PostAIRoute, Steps
  <1>10. CASE EnsureManagerCR
    BY <1>1, <1>10, FaultCounts DEF EnsureManagerCR, Steps
  <1>11. CASE MigrationDone
    BY <1>1, <1>11 DEF MigrationDone, Steps
  <1>12. CASE \E s \in {"storage", "matrix", "gateway"} : TimesOut(s)
    BY <1>1, <1>2, <1>12 DEF Steps
  <1> QED BY <1>5, <1>6, <1>7, <1>8, <1>9, <1>10, <1>11, <1>12 DEF InitStep

LEMMA NewRouteTypes == NewRoute \in RouteState /\ NewRoute.exists /\ NewRoute.allowed = {}
  BY DEF NewRoute, RouteState

LEMMA InitStepTypes ==
    ASSUME ProcessTypes, InitStep
    PROVE  ProcessTypes'
  <1>1. /\ UNCHANGED <<config, env, up, svc, prov, reg, copy, todo, tpc, overlap, restarts>>
        /\ ipc # "off" /\ ipc' \in Steps \ {"off"} /\ todo = NoRows
        /\ faults' \in 0 .. MaxFaults
        /\ made' \in SUBSET Objects
        /\ manager' \in BOOLEAN
        /\ route' = route \/ (~route.exists /\ route' = NewRoute)
    BY InitStepEffect
  <1>2. w' = w
    BY <1>1 DEF config
  <1>3. route' \in RouteState /\ (~route'.exists => route'.allowed = {})
    BY <1>1, NewRouteTypes DEF ProcessTypes
  <1> QED BY <1>1, <1>2, <1>3 DEF ProcessTypes, Started

\* The route only gains consumers.
LEMMA AuthorizeEffect ==
    ASSUME route \in RouteState, ~route.exists => route.allowed = {},
           NEW c \in Names \cup {"manager"}, Authorize(c)
    PROVE  /\ route' \in RouteState /\ (~route'.exists => route'.allowed = {})
           /\ route.allowed \subseteq route'.allowed
  <1> DEFINE a == IF route.exists THEN route.allowed \cup {c} ELSE route.allowed
  <1>1. route' = [route EXCEPT !.allowed = a] /\ a \in SUBSET (Names \cup {"manager"})
    BY DEF Authorize, RouteState
  <1>2. /\ route.allowed \subseteq a
        /\ ~route.exists => a = {}
    OBVIOUS
  <1> HIDE DEF a
  <1>3. route' \in RouteState /\ route'.exists = route.exists /\ route'.allowed = a
    BY <1>1 DEF RouteState
  <1> QED BY <1>2, <1>3

LEMMA WorkersGrow ==
    ASSUME reg \in Registry, NEW x \in Names \ {Team},
           reg' = [reg EXCEPT !.workers = @ \cup {x}]
    PROVE  reg' \in Registry /\ reg'.workers = reg.workers \cup {x} /\ reg'.teams = reg.teams
  BY DEF Registry

LEMMA TeamsGrow ==
    ASSUME reg \in Registry, reg' = [reg EXCEPT !.teams = @ \cup {Team}]
    PROVE  reg' \in Registry /\ reg'.workers = reg.workers /\ reg'.teams = reg.teams \cup {Team}
  BY DEF Registry

\* The passes of the reconcilers that change no resource.
PassStep == ManagerPass \/ TeamMembers \/ TeamRow \/ \E n \in Names : WorkerPass(n)

LEMMA PassEffect ==
    ASSUME ConfigTypeOK, ProcessTypes, PassStep
    PROVE  /\ UNCHANGED <<config, env, up, ipc, svc, made, manager, copy, todo, overlap, restarts>>
           /\ faults' \in 0 .. MaxFaults /\ prov' \in SUBSET Names /\ reg' \in Registry
           /\ route' \in RouteState /\ (~route'.exists => route'.allowed = {})
           /\ route.allowed \subseteq route'.allowed
           /\ \/ reg' = reg /\ tpc' = tpc
              \/ /\ tpc' = tpc /\ reg'.teams = reg.teams
                 /\ \E n \in Names : /\ crs[n].exists
                                     /\ reg'.workers = reg.workers \cup {Runtime(n)}
              \/ /\ tpc' = "team" /\ crs[Team].exists /\ reg'.teams = reg.teams
                 /\ reg'.workers = reg.workers \cup {Member} \/ reg'.workers = reg.workers
              \/ /\ tpc = "team" /\ tpc' = "idle" /\ reg'.workers = reg.workers
                 /\ reg'.teams = reg.teams \cup {Team}
              \/ tpc = "team" /\ tpc' = "idle" /\ reg' = reg /\ "registry" \in env.faults
           /\ Started \/ tpc = "team"
  <1>1. /\ faults \in 0 .. MaxFaults /\ prov \in SUBSET Names /\ reg \in Registry
        /\ route \in RouteState /\ (~route.exists => route.allowed = {})
    BY DEF ProcessTypes
  <1>2. CASE ManagerPass
    <2>1. /\ UNCHANGED <<config, env, up, ipc, svc, made, manager, prov, reg, copy, todo, tpc,
                         overlap, restarts, faults>>
          /\ Authorize("manager") /\ Started
      BY <1>2 DEF ManagerPass
    <2>2. route' \in RouteState /\ (~route'.exists => route'.allowed = {})
          /\ route.allowed \subseteq route'.allowed
      BY <1>1, <2>1, AuthorizeEffect
    <2> QED BY <1>1, <2>1, <2>2
  <1>3. ASSUME NEW n \in Names, WorkerPass(n)
        PROVE  /\ UNCHANGED <<config, env, up, ipc, svc, made, manager, copy, todo, tpc,
                              overlap, restarts>>
               /\ faults' \in 0 .. MaxFaults /\ prov' \in SUBSET Names /\ reg' \in Registry
               /\ route' \in RouteState /\ (~route'.exists => route'.allowed = {})
               /\ route.allowed \subseteq route'.allowed /\ crs[n].exists /\ Started
               /\ \/ reg' = reg
                  \/ reg'.teams = reg.teams /\ reg'.workers = reg.workers \cup {Runtime(n)}
    <2>1. /\ UNCHANGED <<config, env, up, ipc, svc, made, manager, copy, todo, tpc, overlap,
                         restarts>>
          /\ crs[n].exists /\ Started /\ n # Team /\ prov' = prov \cup {n}
          /\ route' = route \/ Authorize(n)
          /\ \/ UNCHANGED faults /\ reg' = [reg EXCEPT !.workers = @ \cup {Runtime(n)}]
             \/ Fault("registry") /\ UNCHANGED reg
      BY <1>3 DEF WorkerPass
    <2>2. Runtime(n) \in Names \ {Team}
      BY <2>1, Constants DEF Runtime
    <2>3. route' \in RouteState /\ (~route'.exists => route'.allowed = {})
          /\ route.allowed \subseteq route'.allowed
      BY <1>1, <2>1, AuthorizeEffect
    <2>4. faults' \in 0 .. MaxFaults
      BY <1>1, <2>1, FaultCounts
    <2> HIDE DEF Runtime
    <2>5. CASE reg' = [reg EXCEPT !.workers = @ \cup {Runtime(n)}]
      BY <1>1, <2>1, <2>2, <2>3, <2>4, <2>5, WorkersGrow
    <2> QED BY <1>1, <2>1, <2>3, <2>4, <2>5
  <1>4. CASE TeamMembers
    <2>1. /\ UNCHANGED <<config, env, up, ipc, svc, made, route, manager, prov, copy, todo,
                         overlap, restarts>>
          /\ crs[Team].exists /\ Started /\ tpc' = "team"
          /\ \/ UNCHANGED faults /\ reg' = [reg EXCEPT !.workers = @ \cup {Member}]
             \/ Fault("registry") /\ UNCHANGED reg
      BY <1>4 DEF TeamMembers
    <2>2. faults' \in 0 .. MaxFaults
      BY <1>1, <2>1, FaultCounts
    <2>3. /\ reg' \in Registry /\ reg'.teams = reg.teams
          /\ reg'.workers = reg.workers \cup {Member} \/ reg'.workers = reg.workers
      BY <1>1, <2>1, WorkersGrow, Constants
    <2> QED BY <1>1, <2>1, <2>2, <2>3
  <1>5. CASE TeamRow
    <2>1. /\ UNCHANGED <<config, env, up, ipc, svc, made, route, manager, prov, copy, todo,
                         overlap, restarts>>
          /\ tpc = "team" /\ tpc' = "idle"
          /\ \/ UNCHANGED faults /\ reg' = [reg EXCEPT !.teams = @ \cup {Team}]
             \/ Fault("registry") /\ UNCHANGED reg
      BY <1>5 DEF TeamRow
    <2>2. faults' \in 0 .. MaxFaults
      BY <1>1, <2>1, FaultCounts
    <2>3. \/ /\ reg' \in Registry /\ reg'.workers = reg.workers
             /\ reg'.teams = reg.teams \cup {Team}
          \/ reg' = reg /\ "registry" \in env.faults
      BY <1>1, <2>1, TeamsGrow, FaultCounts
    <2> QED BY <1>1, <2>1, <2>2, <2>3
  <1> QED BY <1>2, <1>3, <1>4, <1>5 DEF PassStep

LEMMA PassTypes ==
    ASSUME ConfigTypeOK, ProcessTypes, PassStep
    PROVE  ConfigTypeOK' /\ ProcessTypes'
  <1>1. /\ UNCHANGED <<config, env, up, ipc, svc, made, manager, copy, todo, overlap, restarts>>
        /\ faults' \in 0 .. MaxFaults /\ prov' \in SUBSET Names /\ reg' \in Registry
        /\ route' \in RouteState /\ (~route'.exists => route'.allowed = {})
        /\ tpc' = tpc \/ tpc' = "team" \/ tpc' = "idle"
        /\ Started \/ tpc = "team"
    BY PassEffect
  <1>2. UNCHANGED <<disk, crs, asked, serial, events, pending, hashes, w>>
    BY <1>1 DEF config
  <1>3. Started
    BY <1>1 DEF ProcessTypes
  <1> QED BY <1>1, <1>2, <1>3 DEF ProcessTypes, ConfigTypeOK, Started

LEMMA LoadEffect ==
    ASSUME ProcessTypes, LoadRegistries
    PROVE  /\ UNCHANGED <<config, env, up, svc, made, route, manager, prov, reg, copy, tpc,
                          restarts>>
           /\ ipc = "load" /\ ipc' = "create" /\ overlap' = (overlap \/ tpc = "team")
           /\ faults' \in 0 .. MaxFaults /\ todo' \in Registry
           /\ ~env.mirrored /\ "read" \notin env.faults =>
                 /\ todo'.workers = reg.workers \ teamByWorker(reg.teams)
                 /\ todo'.teams = reg.teams
  <1> DEFINE src == IF env.mirrored THEN copy ELSE reg
  <1>1. /\ UNCHANGED <<config, env, up, svc, made, route, manager, prov, reg, copy, tpc, restarts>>
        /\ ipc = "load" /\ ipc' = "create" /\ overlap' = (overlap \/ tpc = "team")
        /\ \/ /\ todo' = [workers |-> src.workers \ teamByWorker(src.teams),
                          teams |-> src.teams]
              /\ UNCHANGED faults
           \/ /\ todo' = [workers |-> src.workers \ teamByWorker({}), teams |-> {}]
              /\ Fault("read")
           \/ /\ todo' = [workers |-> {} \ teamByWorker(src.teams), teams |-> src.teams]
              /\ Fault("read")
    BY DEF LoadRegistries
  <1>2. src \in Registry /\ (~env.mirrored => src = reg)
    BY DEF ProcessTypes
  <1> HIDE DEF src
  <1>3. src.workers \subseteq Names \ {Team} /\ src.teams \subseteq {Team}
    BY <1>2, RegistryTypes
  <1>4. todo' \in Registry
    <2>1. PICK ws \in SUBSET (Names \ {Team}), ts \in SUBSET {Team} :
             todo' = [workers |-> ws, teams |-> ts]
      BY <1>1, <1>3
    <2> QED BY <2>1, RegistryTypes
  <1>5. faults' \in 0 .. MaxFaults /\ (faults' = faults \/ "read" \in env.faults)
    BY <1>1, FaultCounts DEF ProcessTypes
  <1>6. ASSUME ~env.mirrored, "read" \notin env.faults
        PROVE  /\ todo'.workers = reg.workers \ teamByWorker(reg.teams)
               /\ todo'.teams = reg.teams
    <2>1. ~Fault("read")
      BY <1>6 DEF Fault
    <2> QED BY <1>1, <1>2, <1>6, <2>1
  <1> QED BY <1>1, <1>4, <1>5, <1>6

\* A row is taken; the resource is made unless there is one.
CreateStep(n) == createStandaloneWorkerCR(n) \/ createTeamCR(n)

LEMMA CreateEffect ==
    ASSUME ConfigTypeOK, ProcessTypes, NEW n \in Names, CreateStep(n)
    PROVE  /\ UNCHANGED <<disk, asked, serial, events, pending, hashes, w, env, up, ipc, svc,
                          made, route, manager, prov, reg, copy, tpc, overlap, restarts>>
           /\ ConfigTypeOK' /\ ipc = "create" /\ faults' \in 0 .. MaxFaults
           /\ n \in todo.workers \cup todo.teams
           /\ todo' \in Registry /\ todo'.workers \subseteq todo.workers
           /\ todo'.teams \subseteq todo.teams
           /\ \A m \in Names : m # n => crs'[m] = crs[m]
           /\ \/ crs' = crs
              \/ /\ ~crs[n].exists /\ crs'[n].exists /\ ~crs'[n].deleting
                 /\ crs'[n].had = {0}
  <1>1. /\ crs \in [Names -> CR] /\ todo \in Registry /\ faults \in 0 .. MaxFaults
    BY DEF ConfigTypeOK, ProcessTypes
  <1>2. /\ ipc = "create" /\ Create(n)
        /\ \/ n \in todo.workers /\ todo' = [todo EXCEPT !.workers = @ \ {n}]
           \/ n \in todo.teams /\ todo' = [todo EXCEPT !.teams = @ \ {n}]
    BY DEF CreateStep, createStandaloneWorkerCR, createTeamCR
  <1>3. /\ todo' \in Registry /\ todo'.workers \subseteq todo.workers
        /\ todo'.teams \subseteq todo.teams
    BY <1>1, <1>2 DEF Registry
  <1>4. /\ UNCHANGED <<disk, asked, serial, events, pending, hashes, w, env, up, ipc, svc,
                       made, route, manager, prov, reg, copy, tpc, overlap, restarts>>
        /\ UNCHANGED faults \/ Fault("api")
        /\ crs' = [crs EXCEPT ![n] = IF @.exists THEN @ ELSE NewCR(0)] \/ crs' = crs
    BY <1>2 DEF Create
  <1>5. faults' \in 0 .. MaxFaults
    BY <1>1, <1>4, FaultCounts
  <1>6. NewCR(0) \in CR /\ NewCR(0).exists /\ ~NewCR(0).deleting /\ NewCR(0).had = {0}
    BY CRTypes, Constants
  <1>7. CASE crs' = crs
    <2>1. ConfigTypeOK'
      BY <1>4, <1>7 DEF ConfigTypeOK
    <2> QED BY <1>2, <1>3, <1>4, <1>5, <1>7, <2>1
  <1>8. CASE crs' # crs
    <2>1. crs' = [crs EXCEPT ![n] = NewCR(0)] /\ ~crs[n].exists
      BY <1>1, <1>4, <1>8
    <2> DEFINE c == NewCR(0)
    <2>2. crs' = [crs EXCEPT ![n] = c] /\ c \in CR
      BY <1>6, <2>1
    <2> HIDE DEF c
    <2>3. crs' \in [Names -> CR] /\ crs'[n] = c /\ \A m \in Names : m # n => crs'[m] = crs[m]
      BY <1>1, <2>2, CrsTypes
    <2>4. ConfigTypeOK'
      BY <1>4, <2>3 DEF ConfigTypeOK
    <2> QED BY <1>2, <1>3, <1>4, <1>5, <1>6, <2>1, <2>3, <2>4 DEF c
  <1> QED BY <1>7, <1>8

\* The resource goes with its rows.
LEMMA FinalizeEffect ==
    ASSUME ConfigTypeOK, ProcessTypes, NEW n \in Names, Finalize(n)
    PROVE  /\ UNCHANGED <<disk, asked, serial, events, pending, hashes, w, env, up, ipc, svc,
                          made, manager, copy, todo, tpc, restarts>>
           /\ ConfigTypeOK' /\ Started /\ overlap' = (overlap \/ ipc = "create")
           /\ n = Team => tpc = "idle"
           /\ \A m \in Names : m # n => crs'[m] = crs[m]
           /\ crs[n].deleting /\ ~crs'[n].exists /\ crs'[n].had = {}
           /\ prov' \in SUBSET Names /\ faults' \in 0 .. MaxFaults /\ reg' \in Registry
           /\ route' \in RouteState /\ (~route'.exists => route'.allowed = {})
           /\ route.allowed \ route'.allowed \subseteq {n}
           /\ \/ /\ reg'.workers = reg.workers \ (IF n = Team THEN {Member} ELSE {Runtime(n)})
                 /\ reg'.teams = reg.teams \ ({n} \cap {Team})
              \/ reg' = reg /\ "registry" \in env.faults
  <1>1. /\ crs \in [Names -> CR] /\ reg \in Registry /\ faults \in 0 .. MaxFaults
        /\ prov \in SUBSET Names /\ route \in RouteState
        /\ ~route.exists => route.allowed = {}
    BY DEF ConfigTypeOK, ProcessTypes
  <1>2. /\ UNCHANGED <<disk, asked, serial, events, pending, hashes, w, env, up, ipc, svc,
                       made, manager, copy, todo, tpc, restarts>>
        /\ Started /\ overlap' = (overlap \/ ipc = "create") /\ (n = Team => tpc = "idle")
        /\ crs[n].deleting /\ crs' = [crs EXCEPT ![n] = NoCR]
        /\ prov' = prov \ {n} /\ route' = [route EXCEPT !.allowed = @ \ {n}]
        /\ \/ /\ UNCHANGED faults
              /\ reg' = [workers |-> reg.workers \ RowsOf(n).workers,
                         teams |-> reg.teams \ RowsOf(n).teams]
           \/ Fault("registry") /\ UNCHANGED reg
    BY DEF Finalize
  <1> DEFINE c == NoCR
  <1>3. c \in CR /\ ~c.exists /\ c.had = {} /\ crs' = [crs EXCEPT ![n] = c]
    BY <1>2, CRTypes
  <1> HIDE DEF c
  <1>4. crs' \in [Names -> CR] /\ crs'[n] = c /\ \A m \in Names : m # n => crs'[m] = crs[m]
    BY <1>1, <1>3, CrsTypes
  <1>5. ConfigTypeOK'
    BY <1>2, <1>4 DEF ConfigTypeOK
  <1>6. /\ route' \in RouteState /\ route'.exists = route.exists
        /\ route'.allowed = route.allowed \ {n}
    BY <1>1, <1>2 DEF RouteState
  <1>7. /\ RowsOf(n).workers = (IF n = Team THEN {Member} ELSE {Runtime(n)})
        /\ RowsOf(n).teams = {n} \cap {Team}
    BY DEF RowsOf
  <1>8. /\ reg' \in Registry /\ faults' \in 0 .. MaxFaults
        /\ \/ /\ reg'.workers = reg.workers \ (IF n = Team THEN {Member} ELSE {Runtime(n)})
              /\ reg'.teams = reg.teams \ ({n} \cap {Team})
           \/ reg' = reg /\ "registry" \in env.faults
    <2>1. CASE Fault("registry") /\ UNCHANGED reg
      BY <1>1, <2>1, FaultCounts
    <2>2. CASE /\ UNCHANGED faults
               /\ reg' = [workers |-> reg.workers \ RowsOf(n).workers,
                          teams |-> reg.teams \ RowsOf(n).teams]
      <3>1. /\ reg.workers \ RowsOf(n).workers \in SUBSET (Names \ {Team})
            /\ reg.teams \ RowsOf(n).teams \in SUBSET {Team}
        BY <1>1, RegistryTypes
      <3>2. reg' \in Registry
        BY <2>2, <3>1, RegistryTypes
      <3> QED BY <1>1, <1>7, <2>2, <3>2
    <2> QED BY <1>2, <2>1, <2>2
  <1>9. prov' \in SUBSET Names /\ route.allowed \ route'.allowed \subseteq {n}
        /\ (~route'.exists => route'.allowed = {})
    BY <1>1, <1>2, <1>6
  <1> QED BY <1>2, <1>3, <1>4, <1>5, <1>6, <1>8, <1>9

-----------------------------------------------------------------------------
(***************************************************************************)
(* The invariants are kept by every step.                                  *)
(***************************************************************************)
\* The watcher's steps, by what they change.
WatchStep ==
    \/ StartWatch \/ AddDirs \/ BatchDone \/ ReadEvent \/ Debounced
    \/ \E n \in Files : SyncFile(n) \/ SkipChmod(n) \/ \E failed \in BOOLEAN : HandleDelete(n, failed)
    \/ \E failed \in BOOLEAN : Upsert(Started, failed)

OtherStep == Start \/ Mirror \/ Console \/ \E s \in {"storage", "matrix", "gateway"} : ServiceUp(s)

LEMMA StepCases ==
    ASSUME Next
    PROVE  \/ InitStep \/ PassStep \/ LoadRegistries \/ New \/ Stop \/ OtherStep
           \/ \E n \in Names : CreateStep(n) \/ Finalize(n)
           \/ (\E n \in Files : FileStep(n)) /\ UNCHANGED process
           \/ (\E n \in Names : ApiWrites(n) \/ ApiDeletes(n)) /\ UNCHANGED process
           \/ /\ WatchStep
              /\ UNCHANGED <<env, up, ipc, svc, made, route, manager, prov, reg, copy, todo, tpc,
                             overlap, restarts>>
              /\ UNCHANGED faults \/ Fault("api")
  <1>1. CASE New \/ Start \/ Stop \/ Mirror \/ Console
    BY <1>1 DEF OtherStep
  <1>2. CASE Initialize
    BY <1>2 DEF Initialize, InitStep, CreateStep
  <1>3. CASE Reconcile
    BY <1>3 DEF Reconcile, PassStep
  <1>4. CASE Watcher
    BY <1>4 DEF Watcher, WatchStep, process
  <1>5. CASE Users
    BY <1>5, Constants DEF Users, FileStep
  <1>6. CASE \E s \in {"storage", "matrix", "gateway"} : ServiceUp(s) \/ TimesOut(s)
    BY <1>6 DEF OtherStep, InitStep
  <1> QED BY <1>1, <1>2, <1>3, <1>4, <1>5, <1>6 DEF Next

\* The watcher runs only in a process that New has begun, and its scan ends
\* before Start.
BootInv == Started => w.at # "scan"

ProcessInv == ConfigTypeOK /\ ProcessTypes /\ ConfigInv /\ BootInv

LEMMA WatchStepKeeps ==
    ASSUME ConfigTypeOK, ConfigInv, WatchStep
    PROVE  /\ ConfigTypeOK' /\ ConfigInv'
           /\ w.at = "off" => w'.at = "off"
           /\ w'.at = "off" => w.at = "off"
           /\ w'.at = "scan" => w.at = "scan"
  <1>1. CASE StartWatch \/ AddDirs \/ BatchDone
    BY <1>1, MoveEffect, MovesKeep
  <1>2. CASE ReadEvent
    BY <1>2, ReadEventEffect, ReadEventKeeps
  <1>3. CASE Debounced
    BY <1>3, DebouncedEffect, DebouncedKeeps
  <1>4. ASSUME NEW n \in Files, SyncFile(n)
        PROVE  ConfigTypeOK' /\ ConfigInv' /\ w'.at = w.at
    BY <1>4, SyncFileEffect, SyncFileKeeps
  <1>5. ASSUME NEW n \in Files, SkipChmod(n)
        PROVE  ConfigTypeOK' /\ ConfigInv' /\ w'.at = w.at
    BY <1>5, SkipChmodEffect, SkipChmodKeeps
  <1>6. ASSUME NEW n \in Files, NEW failed \in BOOLEAN, HandleDelete(n, failed)
        PROVE  ConfigTypeOK' /\ ConfigInv' /\ w'.at = w.at
    BY <1>6, HandleDeleteEffect, HandleDeleteKeeps
  <1>7. ASSUME NEW failed \in BOOLEAN, Upsert(Started, failed)
        PROVE  ConfigTypeOK' /\ ConfigInv' /\ w'.at = w.at
    <2>1. Started \in BOOLEAN
      BY DEF Started
    <2> HIDE DEF Started
    <2> QED BY <1>7, <2>1, UpsertEffect, UpsertKeeps
  <1> QED BY <1>1, <1>2, <1>3, <1>4, <1>5, <1>6, <1>7 DEF WatchStep

LEMMA ConfigSame ==
    ASSUME ConfigTypeOK, ConfigInv, UNCHANGED config
    PROVE  ConfigTypeOK' /\ ConfigInv' /\ w' = w
  <1>1. UNCHANGED <<disk, crs, asked, serial, events, pending, hashes, w>>
    BY DEF config
  <1> QED BY <1>1 DEF ConfigTypeOK, ConfigInv, SerialInv, RemovalInv, PendingInv, HashInv,
          UpsertInv, QuietInv, Watching, Unread, Queued

LEMMA OtherTypes ==
    ASSUME ProcessTypes, OtherStep
    PROVE  /\ UNCHANGED config /\ ProcessTypes'
           /\ UNCHANGED <<env, reg, todo, tpc, overlap>>
           /\ up' = up \/ (up' = "up" /\ w.at # "scan")
           /\ route.allowed \subseteq route'.allowed
  <1>1. CASE Start
    <2>1. /\ UNCHANGED <<config, env, svc, made, route, manager, prov, reg, copy, todo, tpc,
                         overlap, restarts, faults>>
          /\ up = "new" /\ w.at \notin {"off", "scan"} /\ up' = "up" /\ ipc' = "storage"
      BY <1>1 DEF Start
    <2>2. w' = w
      BY <2>1 DEF config
    <2>3. todo = NoRows /\ "storage" \in Steps
      BY <2>1 DEF ProcessTypes, Started, Steps
    <2> QED BY <2>1, <2>2, <2>3 DEF ProcessTypes, Started
  <1>2. CASE Mirror
    <2>1. /\ UNCHANGED <<config, env, up, ipc, svc, made, route, manager, prov, reg, todo, tpc,
                         overlap, restarts, faults>>
          /\ copy' = reg
      BY <1>2 DEF Mirror
    <2>2. w' = w
      BY <2>1 DEF config
    <2> QED BY <2>1, <2>2 DEF ProcessTypes, Started
  <1>3. CASE Console
    <2>1. /\ UNCHANGED <<config, env, up, ipc, svc, made, manager, prov, reg, copy, todo, tpc,
                         overlap, restarts, faults>>
          /\ ~route.exists /\ route' = NewRoute
      BY <1>3 DEF Console
    <2>2. w' = w
      BY <2>1 DEF config
    <2>3. route.allowed = {} /\ route' \in RouteState /\ route'.exists
      BY <2>1, NewRouteTypes DEF ProcessTypes
    <2> QED BY <2>1, <2>2, <2>3 DEF ProcessTypes, Started
  <1>4. CASE \E s \in {"storage", "matrix", "gateway"} : ServiceUp(s)
    <2>1. PICK s \in {"storage", "matrix", "gateway"} : ServiceUp(s)
      BY <1>4
    <2>2. /\ UNCHANGED <<config, env, up, ipc, made, route, manager, prov, reg, copy, todo,
                         tpc, overlap, restarts, faults>>
          /\ svc' = svc \cup {s}
      BY <2>1 DEF ServiceUp
    <2>3. w' = w
      BY <2>2 DEF config
    <2> QED BY <2>2, <2>3 DEF ProcessTypes, Started
  <1> QED BY <1>1, <1>2, <1>3, <1>4 DEF OtherStep

\* A step of the watcher, or of a user, leaves the process as it is.
LEMMA SameProcess ==
    ASSUME ProcessTypes, faults' \in 0 .. MaxFaults, w.at = "off" <=> w'.at = "off",
           UNCHANGED <<env, up, ipc, svc, made, route, manager, prov, reg, copy, todo, tpc,
                       overlap, restarts>>
    PROVE  ProcessTypes'
  BY DEF ProcessTypes, Started

LEMMA NewKeeps ==
    ASSUME ProcessInv, New
    PROVE  /\ ProcessInv'
           /\ UNCHANGED <<crs, asked, env, route, reg, todo, tpc, overlap>>
  <1>1. /\ up' = "new" /\ StartScan /\ up = "down"
        /\ UNCHANGED <<env, ipc, svc, made, route, manager, prov, reg, copy, todo, tpc,
                       overlap, restarts, faults>>
    BY DEF New
  <1>2. ConfigTypeOK' /\ ConfigInv' /\ w'.at = "scan" /\ UNCHANGED <<crs, asked>>
    BY <1>1, StartScanEffect, StartScanKeeps DEF ProcessInv
  <1>3. ProcessTypes'
    BY <1>1, <1>2 DEF ProcessInv, ProcessTypes, Started
  <1> QED BY <1>1, <1>2, <1>3 DEF ProcessInv, BootInv, Started

LEMMA StopKeeps ==
    ASSUME ProcessInv, Stop
    PROVE  /\ ProcessInv'
           /\ UNCHANGED <<crs, asked, env, route, reg>> /\ todo' = NoRows /\ tpc' = "idle"
           /\ overlap' = (overlap \/ tpc = "team")
  <1>1. /\ up' = "down" /\ WatcherStops /\ ipc' = "off" /\ tpc' = "idle" /\ todo' = NoRows
        /\ overlap' = (overlap \/ tpc = "team")
        /\ restarts < MaxRestarts /\ restarts' = restarts + 1
        /\ UNCHANGED <<env, svc, made, route, manager, prov, reg, copy, faults>>
    BY DEF Stop
  <1>2. ConfigTypeOK' /\ ConfigInv' /\ w'.at = "off" /\ UNCHANGED <<crs, asked>>
    BY <1>1, StopsEffect, StopsKeep DEF ProcessInv
  <1>3. restarts' \in 0 .. MaxRestarts
    BY <1>1, ProcessAssumption DEF ProcessInv, ProcessTypes
  <1>4. ProcessTypes'
    BY <1>1, <1>2, <1>3, RegistryTypes DEF ProcessInv, ProcessTypes, Started, Steps
  <1> QED BY <1>1, <1>2, <1>4 DEF ProcessInv, BootInv, Started

\* Steps that only change resources.
LEMMA CreateKeeps ==
    ASSUME ProcessInv, NEW n \in Names, CreateStep(n)
    PROVE  ProcessInv'
  <1>1. /\ UNCHANGED <<disk, asked, serial, events, pending, hashes, w, env, up, ipc, svc,
                       made, route, manager, prov, reg, copy, tpc, overlap, restarts>>
        /\ ConfigTypeOK' /\ ipc = "create" /\ faults' \in 0 .. MaxFaults
        /\ todo' \in Registry
        /\ \A m \in Names : m # n => crs'[m] = crs[m]
        /\ crs' = crs \/ crs'[n].had = {0}
    BY CreateEffect DEF ProcessInv
  <1>2. \A m \in Names : \A v \in crs'[m].had : v \in crs[m].had \/ v = 0
    BY <1>1
  <1>3. ConfigInv'
    BY <1>1, <1>2, ResourcesKeep DEF ProcessInv
  <1>4. ProcessTypes'
    BY <1>1 DEF ProcessInv, ProcessTypes, Started
  <1> QED BY <1>1, <1>3, <1>4 DEF ProcessInv, BootInv, Started

LEMMA FinalizeKeeps ==
    ASSUME ProcessInv, NEW n \in Names, Finalize(n)
    PROVE  ProcessInv'
  <1>1. /\ UNCHANGED <<disk, asked, serial, events, pending, hashes, w, env, up, ipc, svc,
                       made, manager, copy, todo, tpc, restarts>>
        /\ ConfigTypeOK' /\ overlap' = (overlap \/ ipc = "create")
        /\ \A m \in Names : m # n => crs'[m] = crs[m]
        /\ crs'[n].had = {}
        /\ prov' \in SUBSET Names /\ faults' \in 0 .. MaxFaults /\ reg' \in Registry
        /\ route' \in RouteState /\ (~route'.exists => route'.allowed = {})
    BY FinalizeEffect DEF ProcessInv
  <1>2. \A m \in Names : \A v \in crs'[m].had : v \in crs[m].had
    BY <1>1
  <1>3. ConfigInv'
    BY <1>1, <1>2, ResourcesKeep DEF ProcessInv
  <1>4. ProcessTypes'
    BY <1>1 DEF ProcessInv, ProcessTypes, Started
  <1> QED BY <1>1, <1>3, <1>4 DEF ProcessInv, BootInv, Started

LEMMA ApiKeeps ==
    ASSUME ConfigTypeOK, ConfigInv, NEW n \in Names, ApiWrites(n) \/ ApiDeletes(n)
    PROVE  ConfigTypeOK' /\ ConfigInv' /\ w' = w
  <1>1. CASE ApiWrites(n)
    <2>1. /\ ConfigTypeOK' /\ UNCHANGED <<disk, events, pending, hashes, w>>
          /\ \A m \in Names : m # n => crs'[m] = crs[m]
          /\ serial' = serial + 1
          /\ crs'[n].had \subseteq crs[n].had \cup {serial + 1}
      BY <1>1, ApiWritesEffect
    <2>2. \A m \in Names : \A v \in crs'[m].had : v \in crs[m].had \/ v = serial + 1
      BY <2>1
    <2> QED BY <2>1, <2>2, ResourcesKeep
  <1>2. CASE ApiDeletes(n)
    <2>1. /\ ConfigTypeOK' /\ UNCHANGED <<disk, serial, events, pending, hashes, w>>
          /\ Deleted(n)
      BY <1>2, ApiDeletesEffect
    <2>2. \A m \in Names : \A v \in crs'[m].had : v \in crs[m].had
      BY <2>1, DeletedEffect
    <2> QED BY <2>1, <2>2, ResourcesKeep
  <1> QED BY <1>1, <1>2

LEMMA ProcessInvKept ==
    ASSUME ProcessInv, [Next]_vars
    PROVE  ProcessInv'
  <1>0. ConfigTypeOK /\ ProcessTypes /\ ConfigInv /\ BootInv
    BY DEF ProcessInv
  <1>1. CASE InitStep
    <2>1. ProcessTypes' /\ UNCHANGED <<config, up>>
      BY <1>0, <1>1, InitStepEffect, InitStepTypes
    <2> QED BY <1>0, <2>1, ConfigSame DEF ProcessInv, BootInv, Started
  <1>2. CASE PassStep
    <2>1. ProcessTypes' /\ UNCHANGED <<config, up>>
      BY <1>0, <1>2, PassEffect, PassTypes
    <2> QED BY <1>0, <2>1, ConfigSame DEF ProcessInv, BootInv, Started
  <1>3. CASE LoadRegistries
    <2>1. /\ UNCHANGED <<config, env, up, svc, made, route, manager, prov, reg, copy, tpc,
                         restarts>>
          /\ ipc = "load" /\ ipc' = "create" /\ overlap' = (overlap \/ tpc = "team")
          /\ faults' \in 0 .. MaxFaults /\ todo' \in Registry
      BY <1>0, <1>3, LoadEffect
    <2>2. ConfigTypeOK' /\ ConfigInv' /\ w' = w
      BY <1>0, <2>1, ConfigSame
    <2>3. ProcessTypes'
      BY <1>0, <2>1, <2>2 DEF ProcessTypes, Started, Steps
    <2> QED BY <1>0, <2>1, <2>2, <2>3 DEF ProcessInv, BootInv, Started
  <1>4. CASE New \/ Stop
    BY <1>4, NewKeeps, StopKeeps
  <1>5. CASE OtherStep
    <2>1. UNCHANGED config /\ ProcessTypes' /\ (up' = up \/ (up' = "up" /\ w.at # "scan"))
      BY <1>0, <1>5, OtherTypes
    <2> QED BY <1>0, <2>1, ConfigSame DEF ProcessInv, BootInv, Started
  <1>6. CASE \E n \in Names : CreateStep(n) \/ Finalize(n)
    BY <1>6, CreateKeeps, FinalizeKeeps
  <1>7. CASE (\E n \in Files : FileStep(n)) /\ UNCHANGED process
    <2>1. ConfigTypeOK' /\ ConfigInv' /\ w' = w
      BY <1>0, <1>7, FilesKeep, FileEffect
    <2>2. ProcessTypes' /\ up' = up
      BY <1>0, <1>7, <2>1 DEF process, ProcessTypes, Started
    <2> QED BY <1>0, <2>1, <2>2 DEF ProcessInv, BootInv, Started
  <1>8. CASE (\E n \in Names : ApiWrites(n) \/ ApiDeletes(n)) /\ UNCHANGED process
    <2>1. ConfigTypeOK' /\ ConfigInv' /\ w' = w
      BY <1>0, <1>8, ApiKeeps
    <2>2. ProcessTypes' /\ up' = up
      BY <1>0, <1>8, <2>1 DEF process, ProcessTypes, Started
    <2> QED BY <1>0, <2>1, <2>2 DEF ProcessInv, BootInv, Started
  <1>9. CASE /\ WatchStep
             /\ UNCHANGED <<env, up, ipc, svc, made, route, manager, prov, reg, copy, todo, tpc,
                            overlap, restarts>>
             /\ UNCHANGED faults \/ Fault("api")
    <2>1. /\ ConfigTypeOK' /\ ConfigInv' /\ (w.at = "off" <=> w'.at = "off")
          /\ w'.at = "scan" => w.at = "scan"
      BY <1>0, <1>9, WatchStepKeeps
    <2>2. faults' \in 0 .. MaxFaults
      BY <1>0, <1>9, FaultCounts DEF ProcessTypes
    <2>3. ProcessTypes'
      BY <1>0, <1>9, <2>1, <2>2, SameProcess
    <2> QED BY <1>0, <1>9, <2>1, <2>3 DEF ProcessInv, BootInv, Started
  <1>10. CASE UNCHANGED vars
    <2>1. UNCHANGED config /\ UNCHANGED process
      BY <1>10 DEF vars
    <2>2. ConfigTypeOK' /\ ConfigInv' /\ w' = w
      BY <1>0, <2>1, ConfigSame
    <2>3. ProcessTypes' /\ up' = up
      BY <1>0, <2>1, <2>2 DEF process, ProcessTypes, Started
    <2> QED BY <1>0, <2>2, <2>3 DEF ProcessInv, BootInv, Started
  <1> QED BY <1>1, <1>2, <1>3, <1>4, <1>5, <1>6, <1>7, <1>8, <1>9, <1>10, StepCases

\* A run starts in circumstances of Env, with nothing running.
LEMMA EnvTypes ==
    ASSUME NEW e \in Envs
    PROVE  /\ e \in Env /\ e.ready \in SUBSET {"storage", "matrix", "gateway"}
           /\ e.before \in Registry /\ e.live \subseteq Names
  BY EnvsAssumption DEF Env, Registry

LEMMA ProcessInvInit ==
    ASSUME Init
    PROVE  ProcessInv
  <1>1. /\ env \in Env /\ env.ready \in SUBSET {"storage", "matrix", "gateway"}
        /\ env.before \in Registry /\ env.live \subseteq Names
    BY EnvTypes DEF Init
  <1>2. env.before.teams \subseteq {Team} /\ env.before.workers \subseteq Names
    BY <1>1, RegistryTypes
  <1>3. disk \in [Files -> Versions] /\ (\A n \in Files : disk[n] = 0 \/ disk[n] = 1)
    <2>1. disk \in [Files -> {0, 1}]
      BY DEF Init
    <2> QED BY <2>1, Constants
  <1>4. NewCR(1) \in CR /\ NewCR(1).had = {1} /\ NoCR \in CR /\ NoCR.had = {}
    BY CRTypes, Constants
  <1>5. crs \in [Names -> CR] /\ (\A n \in Names : crs[n].had \subseteq {1})
    <2>1. crs = [n \in Names |-> IF n \in env.live THEN NewCR(1) ELSE NoCR]
      BY DEF Init
    <2>2. \A n \in Names : crs[n] \in {NewCR(1), NoCR}
      BY <2>1
    <2> QED BY <1>4, <2>1, <2>2
  <1>6. events = <<>> /\ events \in Seq(Files \X Ops) /\ Len(events) <= MaxEvents
    BY EmptySeq, ConfigAssumption DEF Init
  <1>7. asked \subseteq Names
    BY <1>1, <1>2, Constants DEF Init
  <1>8. w \in WatcherState /\ w.at = "off" /\ w.todo = {} /\ w.cur = NoFile /\ w.data = 0
    BY OffTypes DEF Init
  <1>9. /\ pending \in [Files -> Ops \cup {"none"}] /\ (\A n \in Files : pending[n] = "none")
        /\ hashes \in [Files -> Versions] /\ serial = 1
    BY Constants DEF Init, NothingPending
  <1>10. ConfigTypeOK
    BY <1>3, <1>5, <1>6, <1>7, <1>8, <1>9, Constants DEF ConfigTypeOK, WatcherState
  <1>11. ProcessTypes
    <2>1. /\ up = "down" /\ ipc = "off" /\ svc = env.ready /\ made = {}
          /\ route = [exists |-> FALSE, allowed |-> {}] /\ manager = FALSE /\ prov = {}
          /\ reg = env.before /\ copy \in {env.before, NoRows} /\ todo = NoRows
          /\ tpc = "idle" /\ overlap = FALSE /\ restarts = 0 /\ faults = 0
      BY DEF Init
    <2>2. route \in RouteState /\ route.allowed = {}
      BY <2>1 DEF RouteState
    <2>3. restarts \in 0 .. MaxRestarts /\ faults \in 0 .. MaxFaults
      BY <2>1, ProcessAssumption
    <2>4. reg \in Registry /\ copy \in Registry /\ todo \in Registry
      BY <1>1, <2>1, RegistryTypes
    <2>5. /\ env \in Env /\ svc \in SUBSET {"storage", "matrix", "gateway"}
          /\ made \in SUBSET Objects /\ prov \in SUBSET Names
      BY <1>1, <2>1
    <2>6. up = "down" /\ ipc = "off" /\ ipc \in Steps /\ tpc = "idle" /\ todo = NoRows
          /\ manager \in BOOLEAN /\ overlap \in BOOLEAN
      BY <2>1 DEF Steps
    <2> QED BY <1>8, <2>2, <2>3, <2>4, <2>5, <2>6 DEF ProcessTypes, Started
  <1>12. SerialInv
    <2>1. \A n \in Names : \A v \in crs[n].had : v = 1
      BY <1>5
    <2> QED BY <1>3, <1>8, <1>9, <2>1 DEF SerialInv
  <1>13. RemovalInv
    BY <1>6 DEF RemovalInv
  <1>14. PendingInv /\ HashInv /\ UpsertInv /\ QuietInv
    BY <1>6, <1>8, <1>9 DEF PendingInv, HashInv, UpsertInv, QuietInv
  <1>15. BootInv
    BY DEF Init, BootInv, Started
  <1> QED BY <1>10, <1>11, <1>12, <1>13, <1>14, <1>15 DEF ProcessInv, ConfigInv

LEMMA ProcessAlways == Spec => []ProcessInv
  BY ProcessInvInit, ProcessInvKept, PTL DEF Spec

\* The state is typed; nobody is admitted by a route that does not exist,
\* and watcher and initializer run only in a process that has started them.
THEOREM ProcessTypeCorrect == Spec => []TypeOK
  <1>1. ProcessInv => TypeOK
    BY TypeParts DEF ProcessInv
  <1> QED BY <1>1, ProcessAlways, PTL

-----------------------------------------------------------------------------
(***************************************************************************)
(* What a step may not do.                                                 *)
(***************************************************************************)
LEMMA RouteKeeps ==
    ASSUME ProcessInv, Next, NEW c \in route.allowed \ route'.allowed
    PROVE  c \in Names /\ crs[c].deleting
  <1>0. ConfigTypeOK /\ ProcessTypes /\ (~route.exists => route.allowed = {})
    BY DEF ProcessInv, ProcessTypes
  <1>1. CASE InitStep
    BY <1>0, <1>1, InitStepEffect
  <1>2. CASE PassStep
    BY <1>0, <1>2, PassEffect
  <1>3. CASE LoadRegistries
    BY <1>0, <1>3, LoadEffect
  <1>4. CASE New \/ Stop
    BY <1>4, NewKeeps, StopKeeps
  <1>5. CASE OtherStep
    BY <1>0, <1>5, OtherTypes
  <1>6. CASE \E n \in Names : CreateStep(n)
    BY <1>0, <1>6, CreateEffect
  <1>7. CASE \E n \in Names : Finalize(n)
    BY <1>0, <1>7, FinalizeEffect
  <1>8. CASE UNCHANGED route
    BY <1>8
  <1> QED BY <1>1, <1>2, <1>3, <1>4, <1>5, <1>6, <1>7, <1>8, StepCases DEF process

\* A consumer the AI route admits stays admitted until its resource is being
\* deleted: the initializer of a restarted process leaves the route alone if
\* there is one, and no pass takes a consumer off it but that of a deleted
\* resource (EnsureAIRoute, AuthorizeAIRoutes).
THEOREM ConsumersStayAdmitted == Spec => AuthorizationKept
  <1>1. ProcessInv /\ [Next]_vars =>
          [\A c \in route.allowed \ route'.allowed : c \in Names /\ crs[c].deleting]_vars
    BY RouteKeeps
  <1> QED BY <1>1, ProcessAlways, PTL DEF Spec, AuthorizationKept

LEMMA SpecsAreNew ==
    ASSUME ProcessInv, Next, NEW n \in Names,
           crs[n].exists, crs'[n].exists, crs'[n].ver # crs[n].ver
    PROVE  crs'[n].ver \notin crs[n].had
  <1>0. ConfigTypeOK /\ ProcessTypes /\ ConfigInv /\ BootInv
    BY DEF ProcessInv
  <1>1. CASE UNCHANGED crs
    BY <1>1
  <1>2. CASE InitStep \/ PassStep \/ LoadRegistries \/ New \/ Stop \/ OtherStep
    <2>1. UNCHANGED crs
      BY <1>0, <1>2, InitStepEffect, PassEffect, LoadEffect, NewKeeps, StopKeeps, OtherTypes
         DEF config
    <2> QED BY <1>1, <2>1
  <1>3. ASSUME NEW m \in Names, CreateStep(m) \/ Finalize(m) PROVE FALSE
    <2>1. CASE CreateStep(m)
      BY <1>0, <2>1, CreateEffect
    <2>2. CASE Finalize(m)
      BY <1>0, <2>2, FinalizeEffect
    <2> QED BY <1>3, <2>1, <2>2
  <1>4. CASE \E m \in Files : FileStep(m)
    BY <1>0, <1>1, <1>4, FileEffect
  <1>5. ASSUME NEW m \in Names, ApiWrites(m) PROVE crs'[n].ver \notin crs[n].had
    <2>1. m = n /\ crs'[n].ver = serial + 1
      BY <1>0, <1>5, ApiWritesEffect
    <2>2. serial \in Nat /\ (\A v \in crs[n].had : v <= serial)
      BY <1>0, ConfigFacts DEF Versions, ConfigInv, SerialInv
    <2>3. serial + 1 \notin crs[n].had
      BY <2>2
    <2> QED BY <2>1, <2>3
  <1>6. ASSUME NEW m \in Names, ApiDeletes(m) PROVE FALSE
    BY <1>0, <1>6, ApiDeletesEffect, DeletedEffect
  <1>7. ASSUME WatchStep PROVE crs'[n].ver \notin crs[n].had
    <2>1. CASE StartWatch \/ AddDirs \/ BatchDone \/ ReadEvent \/ Debounced
      BY <1>0, <1>1, <2>1, MoveEffect, ReadEventEffect, DebouncedEffect
    <2>2. CASE \E m \in Files : SyncFile(m) \/ SkipChmod(m)
      BY <1>0, <1>1, <2>2, SyncFileEffect, SkipChmodEffect
    <2>3. ASSUME NEW m \in Files, NEW failed \in BOOLEAN, HandleDelete(m, failed) PROVE FALSE
      <3>1. Deleted(m) \/ UNCHANGED <<crs, asked>>
        BY <1>0, <2>3, HandleDeleteEffect
      <3> QED BY <1>0, <3>1, DeletedEffect, Constants
    <2>4. ASSUME NEW failed \in BOOLEAN, Upsert(Started, failed)
          PROVE  crs'[n].ver \notin crs[n].had
      <3>1. Started \in BOOLEAN
        BY DEF Started
      <3>2. n = w.cur /\ w.cur \in Files /\ Started /\ crs'[n].ver = w.data
        <4> HIDE DEF Started
        <4> QED BY <1>0, <2>4, <3>1, UpsertEffect
      <3>3. w.at = "batch" /\ w.data \notin crs[w.cur].had
        BY <1>0, <3>2, Constants DEF ConfigInv, UpsertInv, BootInv
      <3> QED BY <3>2, <3>3
    <2> QED BY <1>7, <2>1, <2>2, <2>3, <2>4 DEF WatchStep
  <1> QED BY <1>2, <1>3, <1>4, <1>5, <1>6, <1>7, StepCases

\* A resource that lives never gets a spec back that it had before: the
\* file watcher writes what is in a file only when it is new, whichever way
\* the events of edits and removals, the scan of a restarted process and the
\* writes of the API are ordered (syncFile's hash, handleDelete, InitialSync).
THEOREM SpecsDoNotReturn == Spec => NoSpecReturns
  <1>1. ProcessInv /\ [Next]_vars =>
          [\A n \in Names :
             (crs[n].exists /\ crs'[n].exists /\ crs'[n].ver # crs[n].ver)
                => crs'[n].ver \notin crs[n].had]_vars
    BY SpecsAreNew
  <1> QED BY <1>1, ProcessAlways, PTL DEF Spec, NoSpecReturns

-----------------------------------------------------------------------------
(***************************************************************************)
(* The registries: every row, and every row the migration has read, is one *)
(* of a resource that exists or was asked for.                             *)
(***************************************************************************)
Backed(n) == n \in asked \/ crs[n].exists

Plain ==
    /\ env.faults \cap {"registry", "read"} = {}
    /\ ~env.renamed /\ ~env.mirrored /\ ~overlap

ResourcesWanted == \A n \in Names : crs[n].exists /\ ~crs[n].deleting => n \in asked

\* A member's row may be there for its Team alone.
RowsWanted ==
    /\ \A n \in reg.workers : \/ Backed(n)
                              \/ n = Member /\ (tpc = "team" \/ Team \in reg.teams)
    /\ \A n \in reg.teams : Backed(n)
    /\ tpc = "team" => Backed(Team)

TodoWanted == \A n \in todo.workers \cup todo.teams : Backed(n)

WantedInv == Plain => ResourcesWanted /\ RowsWanted /\ TodoWanted

\* Somebody asks for a resource, or marks one as deleted.
AskStep(n) ==
    /\ \A m \in Names : m # n => crs'[m] = crs[m] /\ (m \in asked' <=> m \in asked)
    /\ UNCHANGED <<reg, todo, tpc, env, overlap>>
    /\ \/ n \in asked'
       \/ crs'[n].exists /\ crs'[n].deleting
       \/ /\ crs'[n].exists <=> crs[n].exists
          /\ crs'[n].deleting <=> crs[n].deleting
          /\ n \in asked' <=> n \in asked
       \/ ~crs[n].exists /\ ~crs'[n].exists /\ (n \in asked' <=> n \in asked)

LEMMA AskKeeps ==
    ASSUME ProcessInv, WantedInv, NEW n \in Names, AskStep(n)
    PROVE  WantedInv'
  <1> SUFFICES ASSUME Plain' PROVE ResourcesWanted' /\ RowsWanted' /\ TodoWanted'
    BY DEF WantedInv
  <1>1. Plain
    BY DEF Plain, AskStep
  <1>2. ResourcesWanted /\ RowsWanted /\ TodoWanted
    BY <1>1 DEF WantedInv
  <1>3. \A m \in Names : Backed(m) => Backed(m)'
    BY DEF AskStep, Backed
  <1>4. /\ reg.workers \subseteq Names /\ reg.teams \subseteq Names
        /\ todo.workers \subseteq Names /\ todo.teams \subseteq Names
    BY RegistryTypes, Constants DEF ProcessInv, ProcessTypes
  <1>5. ResourcesWanted'
    BY <1>2 DEF AskStep, ResourcesWanted
  <1>6. RowsWanted' /\ TodoWanted'
    BY <1>2, <1>3, <1>4, Constants DEF AskStep, RowsWanted, TodoWanted
  <1> QED BY <1>5, <1>6

LEMMA SameWanted ==
    ASSUME WantedInv, UNCHANGED <<crs, asked, env, reg, todo, tpc, overlap>>
    PROVE  WantedInv'
  BY DEF WantedInv, Plain, ResourcesWanted, RowsWanted, TodoWanted, Backed

LEMMA StopWanted ==
    ASSUME ProcessInv, WantedInv, Stop
    PROVE  WantedInv'
  <1>1. /\ UNCHANGED <<crs, asked, env, route, reg>> /\ todo' = NoRows /\ tpc' = "idle"
        /\ overlap' = (overlap \/ tpc = "team")
    BY StopKeeps
  <1> SUFFICES ASSUME Plain' PROVE ResourcesWanted' /\ RowsWanted' /\ TodoWanted'
    BY DEF WantedInv
  <1>2. Plain /\ tpc # "team"
    BY <1>1 DEF Plain
  <1>3. ResourcesWanted /\ RowsWanted
    BY <1>2 DEF WantedInv
  <1> QED BY <1>1, <1>2, <1>3, RegistryTypes DEF ResourcesWanted, RowsWanted, TodoWanted, Backed

LEMMA LoadWanted ==
    ASSUME ProcessInv, WantedInv, LoadRegistries
    PROVE  WantedInv'
  <1>0. ProcessTypes /\ reg.workers \subseteq Names /\ reg.teams \subseteq {Team}
    BY RegistryTypes DEF ProcessInv, ProcessTypes
  <1>1. /\ UNCHANGED <<config, env, reg, tpc>> /\ overlap' = (overlap \/ tpc = "team")
        /\ ~env.mirrored /\ "read" \notin env.faults =>
              /\ todo'.workers = reg.workers \ teamByWorker(reg.teams)
              /\ todo'.teams = reg.teams
    BY <1>0, LoadEffect
  <1>2. UNCHANGED <<crs, asked>>
    BY <1>1 DEF config
  <1> SUFFICES ASSUME Plain' PROVE ResourcesWanted' /\ RowsWanted' /\ TodoWanted'
    BY DEF WantedInv
  <1>3. Plain /\ tpc # "team" /\ ~env.mirrored /\ "read" \notin env.faults
    BY <1>1 DEF Plain
  <1>4. ResourcesWanted /\ RowsWanted
    BY <1>3 DEF WantedInv
  <1>5. ResourcesWanted' /\ RowsWanted'
    BY <1>1, <1>2, <1>4 DEF ResourcesWanted, RowsWanted, Backed
  <1>6. TodoWanted'
    <2>1. \A n \in todo'.workers : Backed(n)
      BY <1>1, <1>3, <1>4 DEF RowsWanted, teamByWorker
    <2>2. \A n \in todo'.teams : Backed(n)
      BY <1>1, <1>3, <1>4 DEF RowsWanted
    <2> QED BY <1>2, <2>1, <2>2 DEF TodoWanted, Backed
  <1> QED BY <1>5, <1>6

LEMMA CreateWanted ==
    ASSUME ProcessInv, WantedInv, NEW n \in Names, CreateStep(n)
    PROVE  WantedInv'
  <1>1. /\ UNCHANGED <<asked, env, reg, tpc, overlap>>
        /\ n \in todo.workers \cup todo.teams
        /\ todo'.workers \subseteq todo.workers /\ todo'.teams \subseteq todo.teams
        /\ \A m \in Names : m # n => crs'[m] = crs[m]
        /\ crs' = crs \/ (~crs[n].exists /\ crs'[n].exists /\ ~crs'[n].deleting)
    BY CreateEffect DEF ProcessInv
  <1> SUFFICES ASSUME Plain' PROVE ResourcesWanted' /\ RowsWanted' /\ TodoWanted'
    BY DEF WantedInv
  <1>2. ResourcesWanted /\ RowsWanted /\ TodoWanted
    BY <1>1 DEF WantedInv, Plain
  <1>3. \A m \in Names : Backed(m) => Backed(m)'
    BY <1>1 DEF Backed
  <1>4. /\ reg.workers \subseteq Names /\ reg.teams \subseteq Names
        /\ todo.workers \subseteq Names /\ todo.teams \subseteq Names
    BY RegistryTypes, Constants DEF ProcessInv, ProcessTypes
  <1>5. ResourcesWanted'
    <2>1. CASE crs' = crs
      BY <1>1, <1>2, <2>1 DEF ResourcesWanted
    <2>2. CASE ~crs[n].exists
      <3>1. n \in asked
        BY <1>1, <1>2, <2>2 DEF TodoWanted, Backed
      <3> QED BY <1>1, <1>2, <3>1 DEF ResourcesWanted
    <2> QED BY <1>1, <2>1, <2>2
  <1>6. RowsWanted' /\ TodoWanted'
    BY <1>1, <1>2, <1>3, <1>4, Constants DEF RowsWanted, TodoWanted
  <1> QED BY <1>5, <1>6

LEMMA PassWanted ==
    ASSUME ProcessInv, WantedInv, PassStep
    PROVE  WantedInv'
  <1>1. /\ UNCHANGED <<config, env, todo, overlap>>
        /\ \/ reg' = reg /\ tpc' = tpc
           \/ /\ tpc' = tpc /\ reg'.teams = reg.teams
              /\ \E n \in Names : /\ crs[n].exists
                                  /\ reg'.workers = reg.workers \cup {Runtime(n)}
           \/ /\ tpc' = "team" /\ crs[Team].exists /\ reg'.teams = reg.teams
              /\ reg'.workers = reg.workers \cup {Member} \/ reg'.workers = reg.workers
           \/ /\ tpc = "team" /\ tpc' = "idle" /\ reg'.workers = reg.workers
              /\ reg'.teams = reg.teams \cup {Team}
           \/ tpc = "team" /\ tpc' = "idle" /\ reg' = reg /\ "registry" \in env.faults
    BY PassEffect DEF ProcessInv
  <1>2. UNCHANGED <<crs, asked>>
    BY <1>1 DEF config
  <1> SUFFICES ASSUME Plain' PROVE ResourcesWanted' /\ RowsWanted' /\ TodoWanted'
    BY DEF WantedInv
  <1>3. Plain /\ ~env.renamed /\ "registry" \notin env.faults
    BY <1>1 DEF Plain
  <1>4. ResourcesWanted /\ RowsWanted /\ TodoWanted
    BY <1>3 DEF WantedInv
  <1>5. ResourcesWanted' /\ TodoWanted' /\ \A n : Backed(n)' <=> Backed(n)
    BY <1>1, <1>2, <1>4 DEF ResourcesWanted, TodoWanted, Backed
  <1>6. RowsWanted'
    <2>1. CASE reg' = reg /\ tpc' = tpc
      BY <1>4, <1>5, <2>1 DEF RowsWanted
    <2>2. CASE /\ tpc' = tpc /\ reg'.teams = reg.teams
               /\ \E n \in Names : /\ crs[n].exists
                                   /\ reg'.workers = reg.workers \cup {Runtime(n)}
      <3>1. PICK n \in Names : crs[n].exists /\ reg'.workers = reg.workers \cup {n}
        BY <1>3, <2>2 DEF Runtime
      <3>2. Backed(n)
        BY <3>1 DEF Backed
      <3> QED BY <1>4, <1>5, <2>2, <3>1, <3>2 DEF RowsWanted
    <2>3. CASE /\ tpc' = "team" /\ crs[Team].exists /\ reg'.teams = reg.teams
               /\ reg'.workers = reg.workers \cup {Member} \/ reg'.workers = reg.workers
      <3>1. Backed(Team)
        BY <2>3 DEF Backed
      <3> QED BY <1>4, <1>5, <2>3, <3>1 DEF RowsWanted
    <2>4. CASE /\ tpc = "team" /\ tpc' = "idle" /\ reg'.workers = reg.workers
               /\ reg'.teams = reg.teams \cup {Team}
      BY <1>4, <1>5, <2>4 DEF RowsWanted
    <2> QED BY <1>1, <1>3, <2>1, <2>2, <2>3, <2>4
  <1> QED BY <1>5, <1>6

LEMMA FinalizeWanted ==
    ASSUME ProcessInv, WantedInv, NEW n \in Names, Finalize(n)
    PROVE  WantedInv'
  <1>1. /\ UNCHANGED <<asked, env, ipc, todo, tpc>> /\ overlap' = (overlap \/ ipc = "create")
        /\ n = Team => tpc = "idle"
        /\ \A m \in Names : m # n => crs'[m] = crs[m]
        /\ ~crs'[n].exists
        /\ \/ /\ reg'.workers = reg.workers \ (IF n = Team THEN {Member} ELSE {Runtime(n)})
              /\ reg'.teams = reg.teams \ ({n} \cap {Team})
           \/ reg' = reg /\ "registry" \in env.faults
    BY FinalizeEffect DEF ProcessInv
  <1> SUFFICES ASSUME Plain' PROVE ResourcesWanted' /\ RowsWanted' /\ TodoWanted'
    BY DEF WantedInv
  <1>2. Plain /\ ~env.renamed /\ "registry" \notin env.faults /\ ipc # "create"
    BY <1>1 DEF Plain
  <1>3. ResourcesWanted /\ RowsWanted
    BY <1>2 DEF WantedInv
  <1>4. /\ reg.workers \subseteq Names \ {Team} /\ reg.teams \subseteq {Team} /\ todo = NoRows
    BY <1>2, RegistryTypes DEF ProcessInv, ProcessTypes
  <1>5. /\ reg'.workers = reg.workers \ (IF n = Team THEN {Member} ELSE {n})
        /\ reg'.teams = reg.teams \ ({n} \cap {Team})
    BY <1>1, <1>2 DEF Runtime
  <1>6. \A m \in Names : m # n => (Backed(m)' <=> Backed(m))
    BY <1>1 DEF Backed
  <1>7. ResourcesWanted'
    BY <1>1, <1>3 DEF ResourcesWanted
  <1>8. TodoWanted'
    BY <1>1, <1>4, RegistryTypes DEF TodoWanted
  <1>9. RowsWanted'
    <2>1. CASE n = Team
      <3>1. \A m \in reg'.workers : Backed(m)'
        BY <1>1, <1>3, <1>4, <1>5, <1>6, <2>1 DEF RowsWanted
      <3>2. reg'.teams = {} /\ tpc' = "idle"
        BY <1>1, <1>4, <1>5, <2>1
      <3> QED BY <3>1, <3>2 DEF RowsWanted
    <2>2. CASE n # Team
      <3>1. reg'.workers = reg.workers \ {n} /\ reg'.teams = reg.teams /\ tpc' = tpc
        BY <1>1, <1>5, <2>2
      <3>2. Backed(Team)' <=> Backed(Team)
        BY <1>6, <2>2, Constants
      <3> QED BY <1>3, <1>4, <1>6, <3>1, <3>2 DEF RowsWanted
    <2> QED BY <2>1, <2>2
  <1> QED BY <1>7, <1>8, <1>9

LEMMA DeletedAsks ==
    ASSUME ConfigTypeOK, NEW n \in Names, Deleted(n), UNCHANGED <<reg, todo, tpc, env, overlap>>
    PROVE  AskStep(n)
  BY DeletedEffect DEF AskStep

LEMMA WantedKept ==
    ASSUME ProcessInv, WantedInv, [Next]_vars
    PROVE  WantedInv'
  <1>0. ConfigTypeOK /\ ProcessTypes
    BY DEF ProcessInv
  <1>1. CASE InitStep \/ New \/ OtherStep
    BY <1>0, <1>1, InitStepEffect, NewKeeps, OtherTypes, SameWanted DEF config
  <1>2. CASE PassStep \/ LoadRegistries \/ Stop
    BY <1>2, PassWanted, LoadWanted, StopWanted
  <1>3. CASE \E n \in Names : CreateStep(n) \/ Finalize(n)
    BY <1>3, CreateWanted, FinalizeWanted
  <1>4. CASE (\E n \in Files : FileStep(n)) /\ UNCHANGED process
    BY <1>0, <1>4, FileEffect, SameWanted DEF process
  <1>5. CASE (\E n \in Names : ApiWrites(n) \/ ApiDeletes(n)) /\ UNCHANGED process
    <2>1. PICK n \in Names : ApiWrites(n) \/ ApiDeletes(n)
      BY <1>5
    <2>2. UNCHANGED <<reg, todo, tpc, env, overlap>>
      BY <1>5 DEF process
    <2>3. CASE ApiWrites(n)
      <3>1. AskStep(n)
        <4>1. /\ \A m \in Names : m # n => crs'[m] = crs[m]
              /\ crs'[n].exists
              /\ crs[n].exists => crs'[n].deleting = crs[n].deleting /\ asked' = asked
              /\ ~crs[n].exists => asked' = asked \cup {n}
          BY <1>0, <2>3, ApiWritesEffect
        <4>2. CASE crs[n].exists
          BY <2>2, <4>1, <4>2 DEF AskStep
        <4>3. CASE ~crs[n].exists
          BY <2>2, <4>1, <4>3 DEF AskStep
        <4> QED BY <4>2, <4>3
      <3> QED BY <3>1, AskKeeps
    <2>4. CASE ApiDeletes(n)
      BY <1>0, <2>2, <2>4, ApiDeletesEffect, DeletedAsks, AskKeeps
    <2> QED BY <2>1, <2>3, <2>4
  <1>6. ASSUME WatchStep, UNCHANGED <<reg, todo, tpc, env, overlap>>
        PROVE  WantedInv'
    <2>1. CASE StartWatch \/ AddDirs \/ BatchDone \/ ReadEvent \/ Debounced
      BY <1>0, <1>6, <2>1, MoveEffect, ReadEventEffect, DebouncedEffect, SameWanted
    <2>2. CASE \E n \in Files : SyncFile(n) \/ SkipChmod(n)
      BY <1>0, <1>6, <2>2, SyncFileEffect, SkipChmodEffect, SameWanted
    <2>3. ASSUME NEW n \in Files, NEW failed \in BOOLEAN, HandleDelete(n, failed)
          PROVE  WantedInv'
      <3>1. Deleted(n) \/ UNCHANGED <<crs, asked>>
        BY <1>0, <2>3, HandleDeleteEffect
      <3>2. CASE Deleted(n)
        BY <1>0, <1>6, <3>2, DeletedAsks, AskKeeps, Constants
      <3> QED BY <1>6, <3>1, <3>2, SameWanted
    <2>4. ASSUME NEW failed \in BOOLEAN, Upsert(Started, failed)
          PROVE  WantedInv'
      <3>1. PICK n \in Files : n = w.cur
        BY <1>0, <2>4, UpsertEffect DEF Started
      <3>2. AskStep(n)
        <4>1. /\ \A m \in Names : m # n => crs'[m] = crs[m]
              /\ \/ crs' = crs /\ asked' = asked
                 \/ crs'[n].exists /\ asked' = asked \cup {n}
                 \/ /\ crs[n].exists /\ crs'[n].exists
                    /\ crs'[n].deleting = crs[n].deleting /\ asked' = asked
          <5>1. Started \in BOOLEAN
            BY DEF Started
          <5> HIDE DEF Started
          <5> QED BY <1>0, <2>4, <3>1, <5>1, UpsertEffect
        <4> QED BY <1>6, <4>1 DEF AskStep
      <3> QED BY <3>1, <3>2, AskKeeps, Constants
    <2> QED BY <1>6, <2>1, <2>2, <2>3, <2>4 DEF WatchStep
  <1>7. CASE UNCHANGED vars
    BY <1>7, SameWanted DEF vars, config, process
  <1> QED BY <1>1, <1>2, <1>3, <1>4, <1>5, <1>6, <1>7, StepCases

LEMMA WantedInit ==
    ASSUME Init
    PROVE  WantedInv
  <1>1. /\ asked = env.live \cup env.before.teams
                     \cup {n \in env.before.workers : n # Member \/ env.before.teams = {}}
        /\ reg = env.before /\ todo = NoRows /\ tpc = "idle"
    BY DEF Init
  <1>2. env.before.teams \subseteq {Team}
    BY EnvTypes, RegistryTypes DEF Init
  <1>3. ResourcesWanted
    <2>1. crs = [n \in Names |-> IF n \in env.live THEN NewCR(1) ELSE NoCR] /\ ~NoCR.exists
      BY CRTypes DEF Init
    <2> QED BY <1>1, <2>1 DEF ResourcesWanted
  <1>4. RowsWanted
    BY <1>1, <1>2 DEF RowsWanted, Backed
  <1>5. TodoWanted
    BY <1>1, RegistryTypes DEF TodoWanted
  <1> QED BY <1>3, <1>4, <1>5 DEF WantedInv

\* A resource lives only if somebody asked for it: over restarts at any
\* point, the migration that reads the rows the reconcilers keep brings back
\* nothing that was deleted and makes no Worker of a Team's member
\* (Migrator.Run), where rows can be read and removed under the resource's
\* name and the migration meets no deletion and no Team's pass half done.
THEOREM OnlyTheWantedLive == Spec => []OnlyWanted
  <1>1. ProcessInv /\ WantedInv /\ [Next]_vars => WantedInv'
    BY WantedKept
  <1>2. Spec => []WantedInv
    BY <1>1, WantedInit, ProcessAlways, PTL DEF Spec
  <1>3. WantedInv => OnlyWanted
    BY DEF WantedInv, Plain, ResourcesWanted, OnlyWanted
  <1> QED BY <1>2, <1>3, PTL
=============================================================================
