--------------------------- MODULE FileSyncProofs ---------------------------
(***************************************************************************)
(* Proofs about FileSync, whatever order renames, downloads, uploads,       *)
(* adoptions and deletions come in, and wherever the process is stopped: no *)
(* server object is tracked at two paths, rows hold what both sides agreed  *)
(* on, what the user wrote is kept, and an idle client writes nothing       *)
(* unless files got mixed up.                                               *)
(***************************************************************************)
EXTENDS FileSync, TLAPS

(* upsert_file: the row is written and the object's other rows dropped.     *)
LEMMA UpsertKeepsOneRow ==
  ASSUME NEW r, OneRow(r), NEW i, NEW p, NEW h
  PROVE  OneRow(Upsert(r, i, p, h))
BY DEF OneRow, Upsert

(* reparent_files: the row moves, and the destination's own row goes.       *)
LEMMA ReparentKeepsOneRow ==
  ASSUME NEW r, OneRow(r), NEW from \in Path, NEW to
  PROVE  OneRow(Reparent(r, from, to))
BY DEF OneRow, Reparent

(* remove_file: rows only go.                                               *)
LEMMA ForgetKeepsOneRow ==
  ASSUME NEW r, OneRow(r), NEW paths
  PROVE  OneRow(Forget(r, paths))
BY DEF OneRow, Forget

(* follow_remote_move, then record_file when the file already matches.      *)
LEMMA PrepareKeepsOneRow ==
  ASSUME OneRow(row), NEW i \in Id, Prepare(i)
  PROVE  OneRow(row')
<1>1. MustMove(i) => PathOf(i) \in Path
  BY DEF MustMove, PathOf, Tracks
<1>2. OneRow(Followed(i).row)
  <2>1. CASE MustMove(i)
    <3>1. OneRow(Reparent(row, PathOf(i), snap[i].path))
      BY <1>1, <2>1, ReparentKeepsOneRow
    <3>2. Followed(i).row = Upsert(Reparent(row, PathOf(i), snap[i].path),
                                   i, snap[i].path, row[PathOf(i)].hash)
      BY <2>1 DEF Followed
    <3> QED BY <3>1, <3>2, UpsertKeepsOneRow
  <2>2. CASE ~MustMove(i)
    BY <2>2 DEF Followed
  <2> QED BY <2>1, <2>2
<1>3. \A verdict, d : OneRow(Recorded(i, verdict, d, Followed(i).row))
  BY <1>2, UpsertKeepsOneRow DEF Recorded
<1> QED BY <1>3 DEF Prepare

(* Every step keeps one row per object.                                     *)
LEMMA StepKeepsOneRow ==
  ASSUME OneRow(row), [Next]_vars
  PROVE  OneRow(row')
<1>1. CASE UNCHANGED row
  BY <1>1
<1>2. ASSUME NEW i \in Id, Prepare(i) PROVE OneRow(row')
  BY <1>2, PrepareKeepsOneRow
<1>3. ASSUME NEW i \in Id, Collect(i) PROVE OneRow(row')
  BY <1>3, UpsertKeepsOneRow DEF Collect
<1>4. ASSUME NEW i \in Id, RemoveLocal(i) PROVE OneRow(row')
  BY <1>4, ForgetKeepsOneRow DEF RemoveLocal
<1>5. ASSUME NEW p \in Path, SendVersion(p) PROVE OneRow(row')
  BY <1>5, UpsertKeepsOneRow DEF SendVersion
<1>6. ASSUME NEW p \in Path, NEW j \in Id, SendNew(j, p) PROVE OneRow(row')
  BY <1>6, UpsertKeepsOneRow DEF SendNew
<1>7. ASSUME NEW p \in Path, NEW j \in Id, SendAdopted(j, p) PROVE OneRow(row')
  BY <1>7, UpsertKeepsOneRow DEF SendAdopted
<1>8. ASSUME NEW p \in Path, DeleteMissing(p) PROVE OneRow(row')
  BY <1>8, ForgetKeepsOneRow DEF DeleteMissing
<1>9. CASE UNCHANGED vars
  BY <1>1, <1>9 DEF vars
<1>10. CASE OtherClients \/ User \/ Operator \/ StartVerify \/ StartFull
  <2>1. UNCHANGED row
    BY <1>10 DEF OtherClients, RemoteCreate, RemoteEdit, RemoteRename, RemoteDelete,
      User, UserWrite, UserRemove, Operator, Stop, RetryFailed, StartVerify,
      StartFull, Fetch
  <2> QED BY <1>1, <2>1
<1>11. CASE Work
  <2>1. ASSUME NEW i \in Id, SkipQuarantined(i) \/ Download(i) \/ CollectFailed(i)
        PROVE  UNCHANGED row
    BY <2>1 DEF SkipQuarantined, Download, Stream, StreamRefused, Land, CollectFailed
  <2>2. ASSUME EndVerify \/ Scan \/ StartMissing \/ EndPass PROVE UNCHANGED row
    BY <2>2 DEF EndVerify, Scan, StartMissing, EndPass
  <2>3. ASSUME NEW p \in Path,
               \/ BeginSend(p) \/ SkipUnchanged(p) \/ SkipVanished(p) \/ Abort(p)
               \/ SendVersionLost(p) \/ SendRefused(p)
               \/ DeleteMissingLost(p) \/ DeleteMissingRefused(p)
               \/ \E j \in Id : SendNewLost(j, p)
        PROVE  UNCHANGED row
    BY <2>3 DEF BeginSend, SkipUnchanged, SkipVanished, Abort, SendVersionLost,
      SendRefused, DeleteMissingLost, DeleteMissingRefused, SendNewLost
  <2> QED
    BY <1>1, <1>2, <1>3, <1>4, <1>5, <1>6, <1>7, <1>8, <1>11, <2>1, <2>2, <2>3
    DEF Work
<1> QED BY <1>9, <1>10, <1>11 DEF Next

(* One remote object can never be tracked at two paths.                     *)
THEOREM OneRowAlways == Spec => []OneRowPerObject
<1>1. Init => OneRow(row)
  BY DEF Init, OneRow
<1>2. OneRow(row) /\ [Next]_vars => OneRow(row)'
  BY StepKeepsOneRow DEF OneRow
<1> QED BY <1>1, <1>2, PTL DEF Spec, OneRowPerObject
-----------------------------------------------------------------------------
(* The types, and what the recorded hashes stand for.                       *)

(* What was fetched of an object lasts until nothing asks for it any more.  *)
Fetched == \A i \in Id :
  i \in todo \/ flight[i] # "none" => snap[i] # Unlisted

(* Nothing is downloaded once the directory has been scanned, and an upload *)
(* is under way only then.                                                  *)
InPhase ==
  /\ ~Applying => \A i \in Id : flight[i] = "none"
  /\ sending # Nowhere => phase = "push"

(* What the server holds, and what was fetched of it, it has held; a hash   *)
(* it gives is that of the bytes.                                           *)
Held ==
  /\ \A i \in Live : /\ object[i].bytes \in stored[i]
                     /\ object[i].hash \in {object[i].bytes, None}
  /\ \A i \in Id : snap[i] # Unlisted =>
       /\ snap[i].bytes \in stored[i]
       /\ snap[i].hash \in {snap[i].bytes, None}

(* While the user waits for a pass to end, a file is sent as it was hashed. *)
SentAsHashed ==
  ~MidPass /\ sending # Nowhere => disk[sending.path] = sending.bytes

(* Every row of r holds a hash its object is known by, or none.             *)
Backed(r, known) == \A p \in Path :
  r[p] # NoRow => r[p].hash \in known[r[p].id] \cup {None}

(* No two live objects have one path, and no two of a window.               *)
NamesDiffer ==
  /\ \A i, j \in Live : object[i].path = object[j].path => i = j
  /\ \A i, j \in Id :
       snap[i] # Unlisted /\ snap[j] # Unlisted /\ snap[i].path = snap[j].path => i = j

(* The user's work is not at a path a download is going to land on, unless  *)
(* as a conflict copy made since, or if the server has no hash of the file. *)
Known(b) == \E i \in Id : b \in stored[i]
Spare(p) == disk[p] = None \/ Known(disk[p]) \/ ConflictName(p)
Awaited(i) == flight[i] \in {"asked", "streamed"}
Unstarted == \A i \in todo : flight[i] = "none"
AwaitedIsSpare == MidPass \/ \A i \in Id :
  Awaited(i) => Spare(snap[i].path) \/ snap[i].hash = None

(* The disk is what the rows say, but for downloads yet to be recorded.     *)
Landed(p) == \E i \in Id : flight[i] = "landed" /\ snap[i].path = p
DiskFollowsRows ==
  /\ \A p \in Path :
       /\ disk[p] # None => Landed(p) \/ (row[p] # NoRow /\ row[p].hash = disk[p])
       /\ row[p] # NoRow => disk[p] # None
  /\ \A i \in Id : flight[i] = "landed" => disk[snap[i].path] = snap[i].bytes

(* A move was followed before the download was asked for.                   *)
MovedFirst == \A i \in Id, p \in Path :
  flight[i] # "none" /\ row[p].id = i => p = snap[i].path

(* A download is asked for where no file is that is still to be moved.      *)
Cleared == \A i \in Id :
  flight[i] # "none" => \/ row[snap[i].path] = NoRow
                        \/ row[snap[i].path].id \notin todo

(* The scan still holds, and finds nothing to send and nothing missing.     *)
Scanned == phase = "push" => onDisk = Present(disk)
NothingToDo == sending = Nowhere /\ missing = {}

Disks == [Path -> Bytes \cup {None}]
Rows == [Path -> [id : Id, hash : Hash] \cup {NoRow}]
Objects == [Id -> [state : {"live", "deleted"}, path : Path, bytes : Bytes,
                   hash : Hash] \cup {Nothing}]
Snap == [path : Path, bytes : Bytes, hash : Hash]
Sends == [path : Path, bytes : Bytes]
Typed == TypeOK /\ Fetched /\ InPhase
AgreedInv == Held /\ SentAsHashed /\ RowsAgreed
Still == DiskFollowsRows /\ MovedFirst /\ Cleared /\ Scanned /\ NothingToDo
PassiveInv == Passive => Still
KeptInv == NamesDiffer /\ Unstarted /\ AwaitedIsSpare

-----------------------------------------------------------------------------
(* Types.                                                                   *)

(* upsert_file, remove_file and reparent_files write rows.                  *)
LEMMA RowTypes ==
  ASSUME NEW r \in Rows
  PROVE  /\ \A i \in Id, h \in Hash : \A p : Upsert(r, i, p, h) \in Rows
         /\ \A paths : Forget(r, paths) \in Rows
         /\ \A from \in Path : \A to : Reparent(r, from, to) \in Rows
BY DEF Rows, Upsert, Forget, Reparent

(* A file that moves stays a file.                                          *)
LEMMA DiskTypes ==
  ASSUME NEW d \in Disks, NEW p \in Path
  PROVE  /\ MoveAside(d, p) \in Disks
         /\ \A to : Relocate(d, p, to) \in Disks
<1>1. MoveAside(d, p) \in Disks
  BY DEF Disks, MoveAside
<1>2. ASSUME NEW to PROVE Relocate(d, p, to) \in Disks
  <2>1. [d EXCEPT ![p] = None, ![to] = d[p]] \in Disks
    BY DEF Disks
  <2>2. [d EXCEPT ![p] = None] \in Disks
    BY DEF Disks
  <2>3. QED
    BY <1>1, <2>1, <2>2 DEF Relocate
<1>3. QED
  BY <1>1, <1>2

(* What a request or an accident costs.                                     *)
LEMMA Spending ==
  ASSUME TypeOK,
         \/ UNCHANGED spent
         \/ \E kind \in {"remote", "writes", "removals", "failures", "stops"} :
              Spend(kind)
  PROVE  /\ spent' \in [scenario : Scenarios, remote : Nat, writes : Nat,
                        removals : Nat, failures : Nat, stops : Nat]
         /\ spent'.scenario = spent.scenario
BY DEF TypeOK, Spend

(* What becomes of an object.                                               *)
LEMMA Becoming ==
  ASSUME TypeOK, NEW i \in Id, NEW s \in {"live", "deleted"}, NEW p \in Path,
         NEW b \in Bytes, NEW h \in Hash, Becomes(i, s, p, b, h)
  PROVE  /\ object' \in Objects
         /\ news' \in [Id -> {"none", "fresh", "fetched"}]
         /\ stored' \in [Id -> SUBSET Bytes]
         /\ \A j \in Id : stored[j] \subseteq stored'[j]
         /\ object'[i].bytes = b /\ object'[i].hash = h /\ object'[i].state = s
         /\ s = "live" => b \in stored'[i]
         /\ \A j \in Id : j # i => object'[j] = object[j]
<1>1. [state |-> s, path |-> p, bytes |-> b, hash |-> h]
        \in [state : {"live", "deleted"}, path : Path, bytes : Bytes, hash : Hash]
  OBVIOUS
<1>2. object' \in Objects
  BY <1>1 DEF Becomes, TypeOK, Objects
<1>3. news' \in [Id -> {"none", "fresh", "fetched"}]
  BY DEF Becomes, TypeOK
<1>4. /\ stored' \in [Id -> SUBSET Bytes]
      /\ \A j \in Id : stored[j] \subseteq stored'[j]
      /\ s = "live" => b \in stored'[i]
  BY DEF Becomes, TypeOK
<1>5. /\ object'[i].bytes = b /\ object'[i].hash = h /\ object'[i].state = s
      /\ \A j \in Id : j # i => object'[j] = object[j]
  BY DEF Becomes, TypeOK
<1>6. QED
  BY <1>2, <1>3, <1>4, <1>5

(* A live object is one the server knows.                                   *)
LEMMA Living ==
  ASSUME TypeOK, NEW i \in Live
  PROVE  /\ i \in Id /\ object[i].path \in Path
         /\ object[i].bytes \in Bytes /\ object[i].hash \in Hash
BY DEF TypeOK, Live, Nothing

(* What other clients do.                                                   *)
LEMMA OthersChange ==
  ASSUME TypeOK, OtherClients
  PROVE  /\ \E i \in Id, t \in {"live", "deleted"}, p \in Path, b \in Bytes, h \in Hash :
              /\ Becomes(i, t, p, b, h)
              /\ t = "deleted" \/ (i \in Live /\ p = object[i].path) \/ p \notin Taken
              /\ Held => h \in {b, None}
         /\ UNCHANGED <<cursor, disk, row, attempts, pass, mine, mixups>>
         /\ Spend("remote")
<1>1. PICK i \in Id :
        \/ \E b \in Bytes : \E h \in Hashes(b) :
             RemoteEdit(i, b, h) \/ \E f \in File : RemoteCreate(i, Own(f), b, h)
        \/ \E f \in File : RemoteRename(i, Own(f))
        \/ RemoteDelete(i)
  BY DEF OtherClients
<1>2. /\ \A f \in File : Own(f) \in Path
      /\ \A b \in Bytes : Hashes(b) \subseteq {b, None} /\ Hashes(b) \subseteq Hash
  BY DEF Own, Path, Mark, Hashes, Hash
<1>3. CASE \E b \in Bytes : \E h \in Hashes(b) :
             RemoteEdit(i, b, h) \/ \E f \in File : RemoteCreate(i, Own(f), b, h)
  <2>1. PICK b \in Bytes : \E h \in Hashes(b) :
          RemoteEdit(i, b, h) \/ \E f \in File : RemoteCreate(i, Own(f), b, h)
    BY <1>3
  <2>2. PICK h \in Hashes(b) :
          RemoteEdit(i, b, h) \/ \E f \in File : RemoteCreate(i, Own(f), b, h)
    BY <2>1
  <2>3. h \in Hash /\ h \in {b, None}
    BY <1>2
  <2>4. /\ \E p \in Path :
             /\ Becomes(i, "live", p, b, h)
             /\ (i \in Live /\ p = object[i].path) \/ p \notin Taken
        /\ UNCHANGED <<cursor, disk, row, attempts, pass, mine, mixups>>
        /\ Spend("remote")
    BY <1>2, <2>2, Living DEF RemoteEdit, RemoteCreate
  <2> QED
    BY <2>3, <2>4
<1>4. CASE (\E f \in File : RemoteRename(i, Own(f))) \/ RemoteDelete(i)
  <2>1. i \in Live
    BY <1>4 DEF RemoteRename, RemoteDelete
  <2>2. /\ \E t \in {"live", "deleted"}, p \in Path :
             /\ Becomes(i, t, p, object[i].bytes, object[i].hash)
             /\ t = "deleted" \/ (i \in Live /\ p = object[i].path) \/ p \notin Taken
        /\ UNCHANGED <<cursor, disk, row, attempts, pass, mine, mixups>>
        /\ Spend("remote")
    BY <1>2, <1>4, <2>1, Living DEF RemoteRename, RemoteDelete
  <2>3. Held => object[i].hash \in {object[i].bytes, None}
    BY <2>1 DEF Held
  <2> QED
    BY <2>1, <2>2, <2>3, Living
<1> QED
  BY <1>1, <1>3, <1>4

(* Where a tracked object is tracked.                                       *)
LEMMA Tracked ==
  ASSUME TypeOK, NEW i \in Id, MustMove(i)
  PROVE  PathOf(i) \in Path /\ row[PathOf(i)].id = i /\ row[PathOf(i)].hash \in Hash
<1>1. PathOf(i) \in Path /\ row[PathOf(i)].id = i
  BY DEF MustMove, Tracks, PathOf
<1>2. QED
  BY <1>1, NoneAssumption DEF TypeOK, NoRow

(* prepare_remote_file moves files and rows and asks for a download.        *)
LEMMA Preparing ==
  ASSUME Typed, NEW i \in Id, Prepare(i)
  PROVE  /\ disk' \in Disks /\ row' \in Rows
         /\ snap[i] \in Snap
         /\ flight' = flight \/ flight' = [flight EXCEPT ![i] = "asked"]
         /\ \/ row' = Followed(i).row
            \/ row' = Upsert(Followed(i).row, i, snap[i].path, snap[i].hash)
<1> USE DEF Typed
<1> DEFINE p == snap[i].path
           d == Followed(i).disk
           r == Followed(i).row
           v == Verdict(i, d, r)
<1>1. snap[i] \in Snap
  BY DEF Prepare, Fetched, TypeOK, Snap
<1>2. p \in Path /\ snap[i].hash \in Hash
  BY <1>1 DEF Snap
<1>3. disk \in Disks /\ row \in Rows
  BY DEF TypeOK, Disks, Rows
<1>4. d \in Disks /\ r \in Rows
  <2>1. CASE MustMove(i)
    <3>1. PathOf(i) \in Path /\ row[PathOf(i)].hash \in Hash
      BY <2>1, Tracked
    <3>2. /\ d = Relocate(disk, PathOf(i), p)
          /\ r = Upsert(Reparent(row, PathOf(i), p), i, p, row[PathOf(i)].hash)
      BY <2>1 DEF Followed
    <3>3. Reparent(row, PathOf(i), p) \in Rows
      BY <1>3, <3>1, RowTypes
    <3>4. QED
      BY <1>3, <3>1, <3>2, <3>3, DiskTypes, RowTypes
  <2>2. CASE ~MustMove(i)
    BY <1>3, <2>2 DEF Followed
  <2>3. QED
    BY <2>1, <2>2
<1>5. /\ disk' = IF v = "both" THEN MoveAside(d, p) ELSE d
      /\ row' = Recorded(i, v, d, r)
      /\ flight' = IF v \in {"remote", "both"}
                   THEN [flight EXCEPT ![i] = "asked"] ELSE flight
  BY DEF Prepare, Asks
<1>6. v = "same" => d[p] = snap[i].hash
  BY DEF Verdict, Resolve
<1> HIDE DEF d, r, v
<1>7. disk' \in Disks
  BY <1>2, <1>4, <1>5, DiskTypes
<1>8. row' = r \/ row' = Upsert(r, i, p, snap[i].hash)
  BY <1>5, <1>6 DEF Recorded
<1>9. row' \in Rows
  BY <1>2, <1>4, <1>8, RowTypes
<1>10. QED
  BY <1>1, <1>5, <1>7, <1>8, <1>9 DEF r

(* A pass that ends or is cut short leaves nothing under way.               *)
LEMMA Resting ==
  ASSUME Rest
  PROVE  /\ phase' = "idle" /\ todo' = {} /\ gone' = {} /\ onDisk' = {}
         /\ push' = {} /\ missing' = {} /\ held' = FALSE /\ sending' = Nowhere
         /\ snap' \in [Id -> {Unlisted}] /\ flight' \in [Id -> {"none"}]
BY DEF Rest

(* A fetch takes down path, bytes and hash of live objects.                 *)
LEMMA Fetching ==
  ASSUME TypeOK, NEW changed, NEW removed, changed \subseteq Live,
         removed \subseteq Id, Fetch(changed, removed)
  PROVE  /\ todo' \subseteq Id /\ gone' \subseteq Id
         /\ snap' \in [Id -> Snap \cup {Unlisted}]
         /\ \A i \in todo' : snap'[i] # Unlisted
         /\ \A i \in Id : snap'[i] # Unlisted =>
              /\ i \in Live /\ snap'[i].path = object[i].path
              /\ snap'[i].bytes = object[i].bytes /\ snap'[i].hash = object[i].hash
<1>1. \A i \in Live : /\ Listed(i) \in Snap /\ Listed(i).path = object[i].path
                      /\ Listed(i).bytes = object[i].bytes
                      /\ Listed(i).hash = object[i].hash
                      /\ Listed(i).path \in Path
  BY Living DEF Snap, Listed
<1>2. snap' = [i \in Id |-> IF i \in changed THEN Listed(i) ELSE Unlisted]
  BY DEF Fetch
<1>3. Unlisted.path = None /\ None \notin Path /\ Live \subseteq Id
  BY NoneAssumption DEF Unlisted, Live
<1>4. QED
  BY <1>1, <1>2, <1>3 DEF Fetch

(* Every step keeps the types.                                              *)
LEMMA TypedKept ==
  ASSUME Typed, [Next]_vars
  PROVE  Typed'
<1> USE DEF Typed
<1>1. CASE OtherClients
  <2>1. PICK i \in Id, t \in {"live", "deleted"}, p \in Path, b \in Bytes, h \in Hash :
          Becomes(i, t, p, b, h)
    BY <1>1, OthersChange
  <2>2. /\ UNCHANGED <<cursor, disk, row, attempts, pass, mine, mixups>>
        /\ Spend("remote")
    BY <1>1, OthersChange
  <2> QED
    BY <2>1, <2>2, Becoming, Spending
       DEF TypeOK, Fetched, InPhase, Applying, pass, Objects
<1>2. CASE User
  <2>1. PICK p \in Path :
          (\E b \in Bytes : UserWrite(p, b)) \/ UserRemove(p)
    BY <1>2 DEF User, Own, Path, Mark
  <2>2. /\ UNCHANGED <<server, cursor, row, attempts, pass, mixups>>
        /\ Spend("writes") \/ Spend("removals")
        /\ disk' \in Disks /\ mine' \subseteq Bytes
    BY <2>1 DEF UserWrite, UserRemove, TypeOK, Disks
  <2>3. QED
    BY <2>2, Spending DEF TypeOK, Fetched, InPhase, Applying, pass, server, Disks
<1>3. CASE Operator
  <2>1. CASE Stop
    BY <2>1, Resting, Spending DEF Stop, TypeOK, Fetched, InPhase, Unread
  <2>2. CASE RetryFailed
    BY <2>2, Spending DEF RetryFailed, TypeOK, Fetched, InPhase, Applying, pass, server
  <2>3. QED
    BY <1>3, <2>1, <2>2 DEF Operator
<1>4. CASE StartVerify \/ StartFull
  <2>1. PICK changed, removed :
          /\ changed \subseteq Live /\ removed \subseteq Id
          /\ Fetch(changed, removed)
    BY <1>4 DEF StartVerify, StartFull, Live, Deleted
  <2>2. /\ phase' \in {"verify", "files"} /\ phase = "idle" /\ fresh' = FALSE
        /\ news' \in [Id -> {"none", "fresh", "fetched"}]
        /\ UNCHANGED <<object, stored, cursor, disk, row, attempts, flight,
                       onDisk, push, sending, missing, held, spent, mine,
                       mixups>>
    BY <1>4 DEF StartVerify, StartFull, Fetch, TypeOK
  <2>3. /\ todo' \subseteq Id /\ gone' \subseteq Id
        /\ snap' \in [Id -> Snap \cup {Unlisted}]
        /\ \A i \in todo' : snap'[i] # Unlisted
    BY <2>1, Fetching
  <2>4. sending = Nowhere /\ \A i \in Id : flight[i] = "none"
    BY <2>2 DEF InPhase, Applying
  <2>5. TypeOK'
    BY <2>2, <2>3, Spending DEF TypeOK, Snap
  <2>6. QED
    BY <2>2, <2>3, <2>4, <2>5 DEF Fetched, InPhase
<1>5. ASSUME NEW i \in Id, SkipQuarantined(i) \/ CollectFailed(i)
      PROVE  Typed'
  <2>1. CASE SkipQuarantined(i)
    BY <2>1 DEF SkipQuarantined, TypeOK, Fetched, InPhase, Applying, server
  <2>2. CASE CollectFailed(i)
    <3>1. /\ Applying /\ flight' = [flight EXCEPT ![i] = "none"]
          /\ attempts' = [attempts EXCEPT ![i] = @ + 1] /\ held' = TRUE
          /\ UNCHANGED <<server, cursor, disk, row, phase, fresh, todo, snap, gone,
                         onDisk, push, sending, missing, spent, mine, mixups>>
      BY <2>2 DEF CollectFailed, Progress
    <3>2. attempts' \in [Id -> Nat]
      BY <3>1 DEF TypeOK
    <3> QED
      BY <3>1, <3>2 DEF TypeOK, Fetched, InPhase, Applying, server
  <2>3. QED
    BY <1>5, <2>1, <2>2
<1>6. ASSUME NEW i \in Id, Prepare(i) PROVE Typed'
  <2>1. /\ disk' \in Disks /\ row' \in Rows /\ snap[i] \in Snap
        /\ flight' = flight \/ flight' = [flight EXCEPT ![i] = "asked"]
    BY <1>6, Preparing
  <2>2. Applying /\ i \in todo /\ todo' = todo \ {i}
        /\ UNCHANGED <<server, cursor, attempts, phase, fresh, snap, gone, onDisk,
                       push, sending, missing, held, spent, mine>>
    BY <1>6 DEF Prepare
  <2>3. mixups' \subseteq Mixup
    BY <1>6 DEF Prepare, MixesUp, TypeOK
  <2> QED
    BY <2>1, <2>2, <2>3 DEF TypeOK, Fetched, InPhase, Applying, server, Disks, Rows
<1>7. ASSUME NEW i \in Id, Download(i) PROVE Typed'
  <2>1. PICK from \in {"asked", "streamed"}, to \in {"streamed", "failed", "landed"} :
          Progress(i, from, to)
    BY <1>7 DEF Download, Stream, StreamRefused, Land
  <2>2. /\ UNCHANGED <<server, cursor, row, attempts, phase, fresh, todo, gone,
                       onDisk, push, sending, missing, held, mine, mixups>>
        /\ UNCHANGED spent \/ Spend("failures")
        /\ UNCHANGED disk \/ disk' = [disk EXCEPT ![snap[i].path] = snap[i].bytes]
        /\ \/ UNCHANGED snap
           \/ i \in Live /\ snap' = [snap EXCEPT ![i].bytes = object[i].bytes]
    BY <1>7 DEF Download, Stream, StreamRefused, Land, FailsAnyway, Expected
  <2>3. flight[i] # "none" /\ snap[i] \in Snap
    BY <2>1 DEF Progress, Fetched, TypeOK, Snap
  <2>4. disk' \in Disks
    BY <2>2, <2>3 DEF TypeOK, Disks, Snap
  <2>5. /\ snap' \in [Id -> Snap \cup {Unlisted}]
        /\ \A j \in Id : snap[j] # Unlisted => snap'[j] # Unlisted
    <3>1. CASE UNCHANGED snap
      BY <3>1 DEF TypeOK, Snap
    <3>2. CASE i \in Live /\ snap' = [snap EXCEPT ![i].bytes = object[i].bytes]
      <4>1. [snap[i] EXCEPT !.bytes = object[i].bytes] \in Snap
        BY <2>3, <3>2, Living DEF Snap
      <4>2. \A t \in Snap : t # Unlisted
        BY NoneAssumption DEF Snap, Unlisted
      <4> QED
        BY <3>2, <4>1, <4>2 DEF TypeOK, Snap
    <3> QED
      BY <2>2, <3>1, <3>2
  <2> QED
    BY <2>1, <2>2, <2>3, <2>4, <2>5, Spending
       DEF Progress, TypeOK, Fetched, InPhase, Applying, server, Disks, Snap
<1>8. ASSUME NEW i \in Id, Collect(i) PROVE Typed'
  <2>1. /\ Applying /\ flight[i] = "landed"
        /\ flight' = [flight EXCEPT ![i] = "none"]
        /\ row' = Upsert(row, i, snap[i].path, snap[i].hash)
        /\ attempts' = [attempts EXCEPT ![i] = 0]
        /\ mixups' \subseteq Mixup
        /\ UNCHANGED <<server, cursor, disk, phase, fresh, todo, snap, gone, onDisk,
                       push, sending, missing, held, spent, mine>>
    BY <1>8 DEF Collect, Progress, TypeOK, Mixup
  <2>2. row' \in Rows
    BY <2>1, RowTypes DEF TypeOK, Fetched, Rows
  <2> QED
    BY <2>1, <2>2 DEF TypeOK, Fetched, InPhase, Applying, server, Rows
<1>9. ASSUME NEW i \in Id, RemoveLocal(i) PROVE Typed'
  <2>1. row' \in Rows /\ disk' \in Disks
    BY <1>9, RowTypes DEF RemoveLocal, TypeOK, Rows, Disks
  <2>2. QED
    BY <1>9, <2>1 DEF RemoveLocal, TypeOK, Fetched, InPhase, Applying, server,
       Rows, Disks
<1>10. CASE EndVerify
  BY <1>10, Resting DEF EndVerify, TypeOK, Fetched, InPhase, server
<1>11. CASE Scan
  BY <1>11 DEF Scan, FilesDone, Present, TypeOK, Fetched, InPhase, Applying, server
<1>12. CASE StartMissing
  BY <1>12 DEF StartMissing, TrackedPaths, TypeOK, Fetched, InPhase, Applying, server
<1>13. CASE EndPass
  <2>1. news' \in [Id -> {"none", "fresh", "fetched"}] /\ cursor' \in BOOLEAN
    <3>1. /\ Unread \in [Id -> {"none", "fresh", "fetched"}]
          /\ Passed \in [Id -> {"none", "fresh", "fetched"}]
      BY DEF Unread, Passed, TypeOK
    <3>2. CASE held
      BY <1>13, <3>1, <3>2 DEF EndPass, TypeOK
    <3>3. CASE ~held
      BY <1>13, <3>1, <3>3 DEF EndPass
    <3> QED
      BY <3>2, <3>3
  <2>2. QED
    BY <1>13, <2>1, Resting DEF EndPass, TypeOK, Fetched, InPhase
<1>14. ASSUME NEW p \in Path, BeginSend(p) PROVE Typed'
  <2>1. sending' \in Sends
    BY <1>14 DEF BeginSend, TypeOK, Sends
  <2> QED
    BY <1>14, <2>1 DEF BeginSend, Pushing, TypeOK, Fetched, InPhase, Applying,
       server, Sends
<1>15. ASSUME NEW p \in Path, SkipUnchanged(p) \/ SkipVanished(p) PROVE Typed'
  BY <1>15 DEF SkipUnchanged, SkipVanished, TypeOK, Fetched, InPhase, Applying,
     server
<1>16. ASSUME NEW p \in Path, Abort(p) PROVE Typed'
  BY <1>16, Resting DEF Abort, TypeOK, Fetched, InPhase, Unread
<1>b. ASSUME NEW i \in Id, NEW t \in {"live", "deleted"}, NEW q \in Path,
             NEW b \in Bytes, NEW h \in Hash, Becomes(i, t, q, b, h),
             row' \in Rows,
             \/ UNCHANGED spent
             \/ \E kind \in {"failures"} : Spend(kind),
             sending' \in {sending, Nowhere}, missing' \subseteq Path,
             held' \in BOOLEAN,
             UNCHANGED <<cursor, disk, attempts, phase, fresh, todo, snap, flight,
                         gone, onDisk, push, mine, mixups>>
      PROVE  Typed'
  <2>1. /\ object' \in Objects /\ stored' \in [Id -> SUBSET Bytes]
        /\ news' \in [Id -> {"none", "fresh", "fetched"}]
    BY <1>b, Becoming
  <2>2. TypeOK'
    BY <1>b, <2>1, Spending DEF TypeOK, Objects, Rows
  <2>3. QED
    BY <1>b, <2>2 DEF Fetched, InPhase, Applying
<1>c. ASSUME NEW p \in Path, Sending(p)
      PROVE  /\ p = sending.path /\ sending.bytes \in Bytes /\ disk[p] \in Bytes
             /\ Bytes \subseteq Hash
  BY <1>c, NoneAssumption DEF Sending, TypeOK, Nowhere, Hash
<1>d. row \in Rows /\ missing \subseteq Path /\ held \in BOOLEAN
  BY DEF TypeOK, Rows
<1>17. ASSUME NEW p \in Path, SendVersion(p) \/ SendVersionLost(p) PROVE Typed'
  <2>1. /\ row[p].id \in Live /\ Sending(p)
        /\ Becomes(row[p].id, "live", object[row[p].id].path, disk[p], disk[p])
    BY <1>17 DEF SendVersion, SendVersionLost, Version
  <2>2. row' \in Rows
    BY <1>17, <1>c, <1>d, <2>1, Living, RowTypes DEF SendVersion, SendVersionLost
  <2>3. QED
    BY <1>17, <1>b, <1>c, <1>d, <2>1, <2>2, Living
       DEF SendVersion, SendVersionLost, Sent
<1>18. ASSUME NEW p \in Path, NEW j \in Id,
              SendNew(j, p) \/ SendAdopted(j, p) \/ SendNewLost(j, p)
       PROVE  Typed'
  <2>1. Sending(p) /\ Granted(p) \in Path
        /\ \E t \in {"live", "deleted"} : Becomes(j, t, Granted(p), disk[p], disk[p])
    BY <1>18 DEF SendNew, SendAdopted, SendNewLost, Creatable
  <2>2. SendAdopted(j, p) => Holder(p) \in Live
    BY DEF SendAdopted, Adoptable, Holder, Taken
  <2>3. row' \in Rows
    BY <1>18, <1>c, <1>d, <2>1, <2>2, Living, RowTypes
       DEF SendNew, SendAdopted, SendNewLost
  <2>4. QED
    BY <1>18, <1>b, <1>c, <1>d, <2>1, <2>3
       DEF SendNew, SendAdopted, SendNewLost, Sent, FailsAnyway
<1>19. ASSUME NEW p \in Path, SendRefused(p) PROVE Typed'
  BY <1>19, Spending DEF SendRefused, FailsAnyway, Sent, TypeOK, Fetched, InPhase,
     Applying, server
<1>20. ASSUME NEW p \in Path, DeleteMissing(p) \/ DeleteMissingLost(p) PROVE Typed'
  <2>1. /\ row[p].id \in Live /\ missing' = missing \ {p}
        /\ Becomes(row[p].id, "deleted", object[row[p].id].path,
                   object[row[p].id].bytes, object[row[p].id].hash)
    BY <1>20 DEF DeleteMissing, DeleteMissingLost, Handled, Deletes
  <2>2. row' \in Rows
    BY <1>20, <1>d, RowTypes DEF DeleteMissing, DeleteMissingLost
  <2>3. QED
    BY <1>20, <1>b, <1>d, <2>1, <2>2, Living DEF DeleteMissing, DeleteMissingLost
<1>21. ASSUME NEW p \in Path, DeleteMissingRefused(p) PROVE Typed'
  BY <1>21, Spending DEF DeleteMissingRefused, Handled, FailsAnyway, TypeOK,
     Fetched, InPhase, Applying, server
<1>22. CASE UNCHANGED vars
  BY <1>22 DEF vars, pass, server, TypeOK, Fetched, InPhase, Applying
<1>23. QED
  BY <1>1, <1>2, <1>3, <1>4, <1>5, <1>6, <1>7, <1>8, <1>9, <1>10, <1>11, <1>12,
     <1>13, <1>14, <1>15, <1>16, <1>17, <1>18, <1>19, <1>20, <1>21, <1>22
     DEF Next, Work

-----------------------------------------------------------------------------
(* What the recorded hashes stand for.                                      *)

(* A row of an object is no empty row.                                      *)
LEMMA RowsHaveObjects ==
  ASSUME NEW r \in Rows, NEW p \in Path
  PROVE  /\ r[p] # NoRow => r[p].id \in Id /\ r[p].hash \in Hash
         /\ r[p].id \in Id => r[p] # NoRow
BY NoneAssumption DEF Rows, NoRow

(* upsert_file, remove_file and reparent_files keep rows backed.            *)
LEMMA BackedKept ==
  ASSUME NEW r, NEW known, Backed(r, known)
  PROVE  /\ \A i, p, h : h \in known[i] \cup {None} => Backed(Upsert(r, i, p, h), known)
         /\ \A paths : Backed(Forget(r, paths), known)
         /\ \A from \in Path : \A to : Backed(Reparent(r, from, to), known)
BY DEF Backed, Upsert, Forget, Reparent

(* The server only ever learns more versions of an object.                  *)
LEMMA BackedGrows ==
  ASSUME NEW r \in Rows, NEW known, NEW more, Backed(r, known),
         \A i \in Id : known[i] \subseteq more[i]
  PROVE  Backed(r, more)
BY RowsHaveObjects DEF Backed

(* A change of an object leaves the server with what it holds.              *)
LEMMA HeldKept ==
  ASSUME TypeOK, Held, NEW i \in Id, NEW s \in {"live", "deleted"},
         NEW p \in Path, NEW b \in Bytes, NEW h \in Hash, h \in {b, None},
         Becomes(i, s, p, b, h), UNCHANGED snap
  PROVE  Held'
<1>1. /\ \A j \in Id : stored[j] \subseteq stored'[j]
      /\ object'[i].bytes = b /\ object'[i].hash = h /\ object'[i].state = s
      /\ s = "live" => b \in stored'[i]
      /\ \A j \in Id : j # i => object'[j] = object[j]
  BY Becoming
<1>2. \A j \in Live' : /\ object'[j].bytes \in stored'[j]
                       /\ object'[j].hash \in {object'[j].bytes, None}
  BY <1>1 DEF Held, Live
<1>3. \A j \in Id : snap'[j] # Unlisted =>
        snap'[j].bytes \in stored'[j] /\ snap'[j].hash \in {snap'[j].bytes, None}
  BY <1>1 DEF Held
<1> QED
  BY <1>2, <1>3 DEF Held

(* follow_remote_move keeps the hash that was recorded.                     *)
LEMMA FollowedIsBacked ==
  ASSUME Typed, Backed(row, stored), NEW i \in Id
  PROVE  Backed(Followed(i).row, stored)
<1>1. CASE MustMove(i)
  <2>1. PathOf(i) \in Path /\ row[PathOf(i)].id = i
    BY <1>1, Tracked DEF Typed
  <2>2. row[PathOf(i)].hash \in stored[i] \cup {None}
    BY <2>1, RowsHaveObjects DEF Backed, Typed, TypeOK, Rows
  <2>3. Followed(i).row = Upsert(Reparent(row, PathOf(i), snap[i].path),
                                 i, snap[i].path, row[PathOf(i)].hash)
    BY <1>1 DEF Followed
  <2>4. Backed(Reparent(row, PathOf(i), snap[i].path), stored)
    BY <2>1, BackedKept
  <2> QED
    BY <2>2, <2>3, <2>4, BackedKept
<1>2. CASE ~MustMove(i)
  BY <1>2 DEF Followed
<1> QED
  BY <1>1, <1>2

(* prepare_remote_file records what the server has, or what was recorded.   *)
LEMMA PreparedIsBacked ==
  ASSUME Typed, Held, Backed(row, stored), NEW i \in Id, Prepare(i)
  PROVE  Backed(row', stored)
<1>1. /\ snap[i] \in Snap
      /\ \/ row' = Followed(i).row
         \/ row' = Upsert(Followed(i).row, i, snap[i].path, snap[i].hash)
  BY Preparing
<1>2. snap[i].hash \in stored[i] \cup {None}
  BY <1>1, NoneAssumption DEF Held, Snap, Unlisted
<1> QED
  BY <1>1, <1>2, FollowedIsBacked, BackedKept

(* Every step keeps the recorded hashes versions of their own objects.      *)
LEMMA AgreedKept ==
  ASSUME Typed, AgreedInv, [Next]_vars
  PROVE  AgreedInv'
<1> DEFINE SameBounds == spent'.scenario = spent.scenario
<1>a. Held /\ SentAsHashed /\ (MidPass \/ Backed(row, stored))
      /\ row \in Rows /\ TypeOK
  BY DEF AgreedInv, RowsAgreed, Backed, TrackedPaths, Typed, TypeOK, Rows
<1>b. ASSUME Held', SentAsHashed', SameBounds, MidPass \/ Backed(row', stored')
      PROVE  AgreedInv'
  BY <1>b DEF AgreedInv, RowsAgreed, Backed, TrackedPaths, MidPass
<1>c. ASSUME UNCHANGED spent \/ Spend("remote") \/ Spend("writes")
               \/ Spend("removals") \/ Spend("failures") \/ Spend("stops")
      PROVE  SameBounds
  BY <1>a, <1>c, Spending
<1>d. ASSUME SameBounds, sending' = sending \/ sending' = Nowhere,
             sending = Nowhere \/ UNCHANGED disk
      PROVE  SentAsHashed'
  BY <1>a, <1>d DEF SentAsHashed, MidPass
<1>e. ASSUME UNCHANGED <<object, stored, snap>> PROVE Held'
  BY <1>a, <1>e DEF Held, Live
<1>f. ASSUME NEW i \in Id, NEW s \in {"live", "deleted"}, NEW p \in Path,
             NEW b \in Bytes, NEW k \in Hash, k \in {b, None},
             Becomes(i, s, p, b, k), UNCHANGED <<snap, disk>>,
             sending' = sending \/ sending' = Nowhere, SameBounds,
             \/ UNCHANGED row
             \/ \E j \in Id : \E q, h : /\ row' = Upsert(row, j, q, h)
                                        /\ MidPass \/ h \in stored'[j] \cup {None}
             \/ \E paths : row' = Forget(row, paths)
      PROVE  AgreedInv'
  <2>1. Held'
    BY <1>a, <1>f, HeldKept
  <2>2. MidPass \/ Backed(row, stored')
    BY <1>a, <1>f, Becoming, BackedGrows
  <2>3. MidPass \/ Backed(row', stored')
    BY <1>f, <2>2, BackedKept
  <2> QED
    BY <1>b, <1>d, <1>f, <2>1, <2>3
<1>1. CASE OtherClients
  <2>1. PICK i \in Id, t \in {"live", "deleted"}, p \in Path, b \in Bytes, h \in Hash :
          Becomes(i, t, p, b, h) /\ h \in {b, None}
    BY <1>a, <1>1, OthersChange
  <2>2. UNCHANGED <<disk, row, snap, sending>> /\ Spend("remote")
    BY <1>a, <1>1, OthersChange DEF pass
  <2> QED
    BY <1>c, <1>f, <2>1, <2>2
<1>2. CASE User
  <2>1. /\ UNCHANGED <<object, stored, row, snap, sending>> /\ UserTurn
        /\ Spend("writes") \/ Spend("removals")
    BY <1>2 DEF User, UserWrite, UserRemove, server, pass
  <2>2. MidPass \/ sending = Nowhere
    BY <2>1 DEF UserTurn, Typed, InPhase
  <2>3. SameBounds
    BY <1>c, <2>1
  <2>4. SentAsHashed'
    BY <2>1, <2>2, <2>3 DEF SentAsHashed, MidPass
  <2> QED
    BY <1>a, <1>b, <1>e, <2>1, <2>3, <2>4
<1>3. ASSUME Rest, UNCHANGED <<object, stored, row, disk>>,
             UNCHANGED spent \/ Spend("stops")
      PROVE  AgreedInv'
  <2>1. sending' = Nowhere /\ snap' \in [Id -> {Unlisted}]
    BY <1>3, Resting
  <2>2. Held'
    BY <1>a, <1>3, <2>1 DEF Held, Live
  <2> QED
    BY <1>a, <1>b, <1>c, <1>d, <1>3, <2>1, <2>2
<1>4. ASSUME NEW changed, NEW removed, changed \subseteq Live, removed \subseteq Id,
             Fetch(changed, removed)
      PROVE  AgreedInv'
  <2>1. UNCHANGED <<object, stored, row, disk, sending, spent>>
    BY <1>4 DEF Fetch
  <2>2. \A i \in Id : snap'[i] # Unlisted =>
          /\ i \in Live /\ snap'[i].bytes = object[i].bytes
          /\ snap'[i].hash = object[i].hash
    BY <1>a, <1>4, Fetching
  <2>3. Held'
    BY <1>a, <2>1, <2>2 DEF Held, Live
  <2> QED
    BY <1>a, <1>b, <1>c, <1>d, <2>1, <2>3
<1>5. CASE StartVerify \/ StartFull
  BY <1>4, <1>5 DEF StartVerify, StartFull, Live, Deleted
<1>g. ASSUME UNCHANGED <<object, stored, snap, sending>>,
             UNCHANGED spent \/ Spend("failures") \/ Spend("stops"),
             sending = Nowhere \/ UNCHANGED disk,
             MidPass \/ Backed(row', stored)
      PROVE  AgreedInv'
  BY <1>b, <1>c, <1>d, <1>e, <1>g
<1>h. Applying => sending = Nowhere
  BY DEF Applying, Typed, InPhase
<1>6. ASSUME NEW i \in Id, Prepare(i) PROVE AgreedInv'
  <2>1. Applying /\ UNCHANGED <<object, stored, snap, sending, spent>>
    BY <1>6 DEF Prepare, server
  <2>2. MidPass \/ Backed(row', stored)
    BY <1>a, <1>6, PreparedIsBacked
  <2> QED
    BY <1>g, <1>h, <2>1, <2>2
<1>7. ASSUME NEW i \in Id, Download(i) PROVE AgreedInv'
  <2>1. /\ flight[i] # "none" /\ UNCHANGED <<object, stored, row, sending>>
        /\ UNCHANGED spent \/ Spend("failures")
        /\ \/ UNCHANGED snap
           \/ Expected(i) /\ snap' = [snap EXCEPT ![i].bytes = object[i].bytes]
    BY <1>7 DEF Download, Stream, StreamRefused, Land, Progress, FailsAnyway, server
  <2>2. sending = Nowhere
    BY <1>h, <1>7, <2>1 DEF Typed, InPhase
  <2>3. Held'
    <3>1. CASE UNCHANGED snap
      BY <1>e, <2>1, <3>1
    <3>2. CASE Expected(i) /\ snap' = [snap EXCEPT ![i].bytes = object[i].bytes]
      <4>1. /\ snap'[i].bytes = object[i].bytes /\ snap'[i].hash = snap[i].hash
            /\ snap[i].hash \in {None, object[i].bytes} /\ i \in Live
            /\ \A j \in Id : j # i => snap'[j] = snap[j]
        BY <1>a, <2>1, <3>2 DEF Expected, Typed, Fetched, TypeOK
      <4> QED
        BY <1>a, <2>1, <4>1 DEF Held, Live
    <3> QED
      BY <2>1, <3>1, <3>2
  <2>4. SameBounds /\ SentAsHashed'
    BY <1>c, <1>d, <2>1, <2>2 DEF SentAsHashed
  <2> QED
    BY <1>a, <1>b, <2>1, <2>3, <2>4
<1>8. ASSUME NEW i \in Id, Collect(i) PROVE AgreedInv'
  <2>1. /\ flight[i] # "none"
        /\ row' = Upsert(row, i, snap[i].path, snap[i].hash)
        /\ UNCHANGED <<object, stored, snap, sending, spent, disk>>
    BY <1>8 DEF Collect, Progress, server
  <2>2. snap[i].hash \in stored[i] \cup {None}
    BY <1>a, <2>1 DEF Typed, Fetched, Held
  <2>3. MidPass \/ Backed(row', stored)
    BY <1>a, <2>1, <2>2, BackedKept
  <2> QED
    BY <1>g, <2>1, <2>3
<1>9. ASSUME NEW i \in Id, RemoveLocal(i) PROVE AgreedInv'
  <2>1. /\ Applying /\ row' = Forget(row, Tracks(row, i))
        /\ UNCHANGED <<object, stored, snap, sending, spent>>
    BY <1>9 DEF RemoveLocal, FilesDone, server
  <2>2. MidPass \/ Backed(row', stored)
    BY <1>a, <2>1, BackedKept
  <2> QED
    BY <1>g, <1>h, <2>1, <2>2
<1>10. ASSUME UNCHANGED <<object, stored, snap, disk, row>>,
              UNCHANGED spent \/ Spend("failures") \/ Spend("stops"),
              UNCHANGED sending \/ sending' = Nowhere
       PROVE  AgreedInv'
  BY <1>a, <1>b, <1>c, <1>d, <1>e, <1>10
<1>11. CASE Operator \/ EndVerify \/ EndPass \/ \E p \in Path : Abort(p)
  <2>1. CASE RetryFailed
    BY <1>10, <2>1 DEF RetryFailed, server, pass
  <2>2. CASE Stop \/ EndVerify \/ EndPass \/ \E p \in Path : Abort(p)
    BY <1>3, <2>2 DEF Stop, EndVerify, EndPass, Abort, server
  <2> QED
    BY <1>11, <2>1, <2>2 DEF Operator
<1>12. CASE Scan \/ StartMissing
            \/ \E i \in Id : SkipQuarantined(i) \/ CollectFailed(i)
  BY <1>10, <1>12 DEF Scan, StartMissing, SkipQuarantined, CollectFailed, server
<1>13. ASSUME NEW p \in Path,
              \/ SkipUnchanged(p) \/ SkipVanished(p) \/ SendRefused(p)
              \/ DeleteMissingRefused(p)
       PROVE  AgreedInv'
  BY <1>10, <1>13 DEF SkipUnchanged, SkipVanished, SendRefused, Sent,
     DeleteMissingRefused, FailsAnyway, server
<1>14. ASSUME NEW p \in Path, BeginSend(p) PROVE AgreedInv'
  <2>1. /\ sending' = [path |-> p, bytes |-> disk[p]]
        /\ UNCHANGED <<object, stored, snap, disk, row, spent>>
    BY <1>14 DEF BeginSend, server
  <2>2. SentAsHashed'
    BY <2>1 DEF SentAsHashed
  <2> QED
    BY <1>a, <1>b, <1>c, <1>e, <2>1, <2>2
<1>i. ASSUME NEW p \in Path, Sending(p)
      PROVE  /\ sending.bytes \in Bytes /\ disk[p] \in Bytes /\ Bytes \subseteq Hash
             /\ MidPass \/ sending.bytes = disk[p]
  BY <1>a, <1>i, NoneAssumption DEF Sending, TypeOK, Nowhere, SentAsHashed, Hash
<1>15. ASSUME NEW p \in Path, SendVersion(p) \/ SendVersionLost(p)
       PROVE  AgreedInv'
  <2> DEFINE i == row[p].id
  <2>1. /\ i \in Live /\ Sending(p)
        /\ Becomes(i, "live", object[i].path, disk[p], disk[p])
        /\ UNCHANGED row \/ row' = Upsert(row, i, p, sending.bytes)
        /\ UNCHANGED <<snap, disk>> /\ sending' = Nowhere
        /\ UNCHANGED spent \/ Spend("failures")
    BY <1>15 DEF SendVersion, SendVersionLost, Version, Sent
  <2>2. /\ i \in Id /\ object[i].path \in Path
        /\ disk[p] \in Bytes /\ disk[p] \in Hash
    BY <1>a, <1>i, <2>1, Living
  <2> HIDE DEF i
  <2>3. disk[p] \in stored'[i]
    BY <1>a, <2>1, <2>2, Becoming
  <2>4. MidPass \/ sending.bytes \in stored'[i]
    BY <1>i, <2>1, <2>3
  <2> QED
    BY <1>c, <1>f, <2>1, <2>2, <2>4
<1>16. ASSUME NEW p \in Path, NEW j \in Id, SendNew(j, p) \/ SendNewLost(j, p)
       PROVE  AgreedInv'
  <2>1. /\ Sending(p) /\ Granted(p) \in Path
        /\ Becomes(j, "live", Granted(p), disk[p], disk[p])
        /\ UNCHANGED row \/ row' = Upsert(row, j, p, sending.bytes)
        /\ UNCHANGED <<snap, disk>> /\ sending' = Nowhere
        /\ UNCHANGED spent \/ Spend("failures")
    BY <1>16 DEF SendNew, SendNewLost, Creatable, Sent, FailsAnyway
  <2>2. MidPass \/ sending.bytes \in stored'[j]
    BY <1>a, <1>i, <2>1, Becoming
  <2> QED
    BY <1>c, <1>f, <1>i, <2>1, <2>2
<1>17. ASSUME NEW p \in Path, NEW j \in Id, SendAdopted(j, p) PROVE AgreedInv'
  <2> DEFINE i == Holder(p)
  <2>1. /\ Sending(p) /\ Granted(p) \in Path
        /\ Becomes(j, "deleted", Granted(p), disk[p], disk[p])
        /\ row' = Upsert(row, i, p, sending.bytes)
        /\ UNCHANGED <<snap, disk, spent>> /\ sending' = Nowhere
    BY <1>17 DEF SendAdopted, Creatable, Sent
  <2>2. i \in Live /\ object[i].hash = sending.bytes
    BY <1>17 DEF SendAdopted, Adoptable, Taken, Holder
  <2>3. i \in Id
    BY <1>a, <2>2, Living
  <2> HIDE DEF i
  <2>4. sending.bytes \in stored[i]
    BY <1>a, <1>i, <2>1, <2>2, NoneAssumption DEF Held
  <2>5. sending.bytes \in stored'[i]
    BY <1>a, <1>i, <2>1, <2>3, <2>4, Becoming
  <2> QED
    BY <1>c, <1>f, <1>i, <2>1, <2>3, <2>5
<1>18. ASSUME NEW p \in Path, DeleteMissing(p) \/ DeleteMissingLost(p)
       PROVE  AgreedInv'
  <2> DEFINE i == row[p].id
  <2>1. /\ i \in Live
        /\ Becomes(i, "deleted", object[i].path, object[i].bytes, object[i].hash)
        /\ UNCHANGED row \/ row' = Forget(row, {p})
        /\ UNCHANGED <<snap, disk, sending>>
        /\ UNCHANGED spent \/ Spend("failures")
    BY <1>18 DEF DeleteMissing, DeleteMissingLost, Deletes
  <2>2. /\ i \in Id /\ object[i].path \in Path /\ object[i].bytes \in Bytes
        /\ object[i].hash \in Hash /\ object[i].hash \in {object[i].bytes, None}
    BY <1>a, <2>1, Living DEF Held
  <2> HIDE DEF i
  <2> QED
    BY <1>c, <1>f, <2>1, <2>2
<1>19. CASE UNCHANGED vars
  BY <1>10, <1>19 DEF vars, pass, server
<1> QED
  BY <1>1, <1>2, <1>5, <1>6, <1>7, <1>8, <1>9, <1>11, <1>12, <1>13, <1>14, <1>15,
     <1>16, <1>17, <1>18, <1>19 DEF Next, Work

(* A client that has just been set up.                                      *)
LEMMA TypedAtFirst ==
  ASSUME Init PROVE Typed /\ AgreedInv
<1>1. TypeOK
  <2>1. spent \in [scenario : Scenarios, remote : Nat, writes : Nat,
                   removals : Nat, failures : Nat, stops : Nat]
    BY DEF Init
  <2>2. /\ object \in [Id -> {Nothing}] /\ snap \in [Id -> {Unlisted}]
        /\ row \in [Path -> {NoRow}] /\ disk \in [Path -> {None}]
        /\ attempts \in [Id -> Nat] /\ stored \in [Id -> SUBSET Bytes]
        /\ news \in [Id -> {"none"}] /\ flight \in [Id -> {"none"}]
    BY DEF Init
  <2> QED
    BY <2>1, <2>2 DEF Init, TypeOK
<1>2. Fetched /\ InPhase
  BY DEF Init, Fetched, InPhase
<1>3. Held /\ SentAsHashed
  BY DEF Init, Held, SentAsHashed, Live, Nothing
<1>4. RowsAgreed
  BY DEF Init, RowsAgreed, TrackedPaths
<1> QED
  BY <1>1, <1>2, <1>3, <1>4 DEF Typed, AgreedInv

(* The variables hold what the disk, the state database and the server can  *)
(* hold.                                                                    *)
THEOREM TypeCorrect == Spec => []TypeOK
<1>1. Init => Typed
  BY TypedAtFirst
<1>2. Typed /\ [Next]_vars => Typed'
  BY TypedKept
<1>3. Typed => TypeOK
  BY DEF Typed
<1> QED
  BY <1>1, <1>2, <1>3, PTL DEF Spec

(* The hash of a row is always a version the server has held of the row's   *)
(* own object, however moves, downloads, uploads, adoptions, lost answers   *)
(* and restarts follow one another, as long as the user leaves the          *)
(* directory alone while a pass runs.                                       *)
THEOREM RowsAlwaysAgreed == Spec => []RowsAgreed
<1>1. Init => Typed /\ AgreedInv
  BY TypedAtFirst
<1>2. Typed /\ AgreedInv /\ [Next]_vars => Typed' /\ AgreedInv'
  BY TypedKept, AgreedKept
<1>3. AgreedInv => RowsAgreed
  BY DEF AgreedInv
<1> QED
  BY <1>1, <1>2, <1>3, PTL DEF Spec

-----------------------------------------------------------------------------
(* What the user wrote.                                                     *)

(* Everything on disk d is on disk e, at the same path or another.          *)
Carries(d, e) == \A p \in Path : d[p] # None => \E q \in Path : e[q] = d[p]

(* Nothing new is at a path, but for conflict copies and what is moved to.  *)
Spreads(d, e, to) ==
  \A p \in Path \ {to} : e[p] \in {None, d[p]} \/ ConflictName(p)

(* A conflict copy has a name of its own, and one can tell.                 *)
LEMMA ConflictNames ==
  ASSUME NEW p \in Path, NEW m \in ConflictMarks
  PROVE  Derived(p, m) # p /\ ConflictName(Derived(p, m))
<1>1. p[2] \in Seq(Suffix)
  <2>1. \/ p[2] = <<>>
        \/ \E a \in Suffix : p[2] = <<a>>
        \/ \E a, b \in Suffix : p[2] = <<a, b>>
    BY DEF Path, Mark
  <2>2. \A a \in Suffix : <<a>> \in Seq(Suffix)
    OBVIOUS
  <2>3. \A a, b \in Suffix : <<a, b>> \in Seq(Suffix)
    OBVIOUS
  <2>4. <<>> \in Seq(Suffix)
    OBVIOUS
  <2> QED
    BY <2>1, <2>2, <2>3, <2>4
<1>2. m \in Suffix
  BY DEF ConflictMarks, Suffix
<1>3. /\ Len(Append(p[2], m)) = Len(p[2]) + 1
      /\ Append(p[2], m)[Len(p[2]) + 1] = m
      /\ Len(p[2]) \in Nat
  BY <1>1, <1>2
<1>4. Derived(p, m)[2] = Append(p[2], m)
  BY DEF Derived
<1>5. Derived(p, m) # p
  BY <1>3, <1>4
<1>6. Append(p[2], m) # <<>>
  BY <1>3
<1>7. Append(p[2], m)[Len(Append(p[2], m))] \in ConflictMarks
  BY <1>3
<1> QED
  BY <1>4, <1>5, <1>6, <1>7 DEF ConflictName

(* keep_conflict_copy moves the file to a free name.                        *)
LEMMA MovingAside ==
  ASSUME NEW d \in Disks, NEW p \in Path, HasRoom(d, p)
  PROVE  /\ Carries(d, MoveAside(d, p)) /\ MoveAside(d, p)[p] = None
         /\ \A to : Spreads(d, MoveAside(d, p), to)
<1> DEFINE q == UniqueConflictPath(d, p)
<1>1. q \in Path /\ d[q] = None
  BY DEF HasRoom, Present
<1>2. q # p /\ ConflictName(q)
  BY ConflictNames DEF UniqueConflictPath, ConflictMarks
<1> HIDE DEF q
<1>3. /\ MoveAside(d, p)[p] = None /\ MoveAside(d, p)[q] = d[p]
      /\ \A x \in Path \ {p, q} : MoveAside(d, p)[x] = d[x]
  BY <1>1, <1>2 DEF MoveAside, Disks, q
<1> QED
  BY <1>1, <1>2, <1>3 DEF Carries, Spreads

(* relocate_local_file moves the file, removes it where it already is at    *)
(* its destination, or moves it aside.                                      *)
LEMMA Relocating ==
  ASSUME NEW d \in Disks, NEW from \in Path, NEW to \in Path, from # to,
         Collides(d, from, to) => HasRoom(d, from)
  PROVE  Carries(d, Relocate(d, from, to)) /\ Spreads(d, Relocate(d, from, to), to)
<1> DEFINE e == Relocate(d, from, to)
<1>1. CASE d[from] = None
  <2>1. e = d
    BY <1>1 DEF Relocate
  <2> QED
    BY <2>1 DEF Carries, Spreads
<1>2. CASE d[from] # None /\ d[to] = None
  <2>1. e = [d EXCEPT ![from] = None, ![to] = d[from]]
    BY <1>2 DEF Relocate
  <2>2. /\ e[from] = None /\ e[to] = d[from]
        /\ \A x \in Path \ {from, to} : e[x] = d[x]
    BY <2>1 DEF Disks
  <2> HIDE DEF e
  <2> QED
    <3>1. Carries(d, e)
      BY <1>2, <2>2 DEF Carries
    <3>2. Spreads(d, e, to)
      BY <2>2 DEF Spreads
    <3> QED
      BY <3>1, <3>2 DEF e
<1>3. CASE d[from] # None /\ d[to] = d[from]
  <2>1. e = [d EXCEPT ![from] = None]
    BY <1>3 DEF Relocate
  <2>2. e[from] = None /\ \A x \in Path \ {from} : e[x] = d[x]
    BY <2>1 DEF Disks
  <2> HIDE DEF e
  <2> QED
    <3>1. Carries(d, e)
      BY <1>3, <2>2 DEF Carries
    <3>2. Spreads(d, e, to)
      BY <2>2 DEF Spreads
    <3> QED
      BY <3>1, <3>2 DEF e
<1>4. CASE d[from] # None /\ d[to] \notin {None, d[from]}
  <2>1. e = MoveAside(d, from) /\ HasRoom(d, from)
    BY <1>4 DEF Relocate, Collides
  <2> QED
    BY <2>1, MovingAside
<1> QED
  BY <1>1, <1>2, <1>3, <1>4

(* A change of an object gives no name to a second live one.                *)
LEMMA NamesKept ==
  ASSUME TypeOK, NamesDiffer, NEW i \in Id, NEW s \in {"live", "deleted"},
         NEW p \in Path, NEW b \in Bytes, NEW h \in Hash, Becomes(i, s, p, b, h),
         UNCHANGED snap,
         s = "deleted" \/ (i \in Live /\ p = object[i].path) \/ p \notin Taken
  PROVE  NamesDiffer'
<1>1. /\ object'[i].state = s /\ object'[i].path = p
      /\ \A j \in Id : j # i => object'[j] = object[j]
  BY DEF Becomes, TypeOK
<1>2. \A j \in Live' : j # i => j \in Live /\ object'[j].path = object[j].path
  BY <1>1 DEF Live
<1>3. i \in Live' => s = "live"
  BY <1>1 DEF Live
<1>4. \A j \in Live : j # i /\ s = "live" => object[j].path # p
  BY DEF NamesDiffer, Taken
<1>5. \A j, k \in Live' : object'[j].path = object'[k].path => j = k
  BY <1>1, <1>2, <1>3, <1>4 DEF NamesDiffer
<1> QED
  BY <1>5 DEF NamesDiffer

(* prepare_remote_file keeps every content on disk, and puts nothing but    *)
(* conflict copies at other paths.                                          *)
LEMMA PreparingCarries ==
  ASSUME Typed, NEW i \in Id, Prepare(i)
  PROVE  Carries(disk, disk') /\ Spreads(disk, disk', snap[i].path)
<1> DEFINE p == snap[i].path
           d == Followed(i).disk
           v == Verdict(i, d, Followed(i).row)
<1>1. p \in Path /\ disk \in Disks
  BY Preparing DEF Snap, Typed, TypeOK, Disks
<1>2. /\ MustMove(i) /\ Collides(disk, PathOf(i), p) => HasRoom(disk, PathOf(i))
      /\ v = "both" => HasRoom(d, p)
      /\ disk' = IF v = "both" THEN MoveAside(d, p) ELSE d
  BY DEF Prepare, Displaced
<1>3. d \in Disks /\ Carries(disk, d) /\ Spreads(disk, d, p)
  <2>1. CASE MustMove(i)
    <3>1. PathOf(i) \in Path /\ PathOf(i) # p /\ d = Relocate(disk, PathOf(i), p)
      BY <2>1, Tracked DEF Typed, Followed, MustMove
    <3> QED
      BY <1>1, <1>2, <2>1, <3>1, DiskTypes, Relocating
  <2>2. CASE ~MustMove(i)
    <3>1. d = disk
      BY <2>2 DEF Followed
    <3> HIDE DEF d
    <3> QED
      BY <1>1, <3>1 DEF Carries, Spreads
  <2> QED
    BY <2>1, <2>2
<1> HIDE DEF d, v, p
<1>4. CASE v = "both"
  <2>1. Carries(d, disk') /\ Spreads(d, disk', p)
    BY <1>1, <1>2, <1>3, <1>4, MovingAside
  <2>2. Carries(disk, disk')
    BY <1>3, <2>1 DEF Carries
  <2>3. Spreads(disk, disk', p)
    BY <1>3, <2>1 DEF Spreads
  <2> QED
    BY <2>2, <2>3 DEF p
<1>5. CASE v # "both"
  BY <1>2, <1>3, <1>5 DEF p
<1> QED
  BY <1>4, <1>5

(* Where it asks for a download, it leaves nothing but what the server      *)
(* knows, unless there is no hash to compare with.                          *)
LEMMA PreparingSpares ==
  ASSUME Typed, Backed(row, stored), NEW i \in Id, Prepare(i)
  PROVE  \/ flight' = flight
         \/ /\ flight' = [flight EXCEPT ![i] = "asked"]
            /\ \/ snap[i].hash = None \/ disk'[snap[i].path] = None
               \/ Known(disk'[snap[i].path])
<1> DEFINE p == snap[i].path
           d == Followed(i).disk
           r == Followed(i).row
           v == Verdict(i, d, r)
<1>1. p \in Path /\ disk \in Disks /\ row \in Rows
  BY Preparing DEF Snap, Typed, TypeOK, Disks, Rows
<1>2. /\ v = "both" => HasRoom(d, p)
      /\ disk' = IF v = "both" THEN MoveAside(d, p) ELSE d
      /\ flight' = IF v \in {"remote", "both"}
                   THEN [flight EXCEPT ![i] = "asked"] ELSE flight
  BY DEF Prepare, Asks
<1>3. d \in Disks /\ r \in Rows
  <2>1. CASE MustMove(i)
    <3>1. PathOf(i) \in Path /\ row[PathOf(i)].hash \in Hash
      BY <2>1, Tracked DEF Typed
    <3>2. /\ d = Relocate(disk, PathOf(i), p)
          /\ r = Upsert(Reparent(row, PathOf(i), p), i, p, row[PathOf(i)].hash)
      BY <2>1 DEF Followed
    <3>3. Reparent(row, PathOf(i), p) \in Rows
      BY <1>1, <3>1, RowTypes
    <3> QED
      BY <1>1, <3>1, <3>2, <3>3, DiskTypes, RowTypes
  <2>2. CASE ~MustMove(i)
    BY <1>1, <2>2 DEF Followed
  <2> QED
    BY <2>1, <2>2
<1>4. v = "remote" => snap[i].hash = None \/ d[p] = None \/ r[p].hash = d[p]
  BY DEF Verdict, Resolve
<1>5. d[p] = None \/ r[p].hash # d[p] \/ Known(d[p])
  <2>1. Backed(r, stored)
    BY FollowedIsBacked
  <2>2. r[p] = NoRow => r[p].hash = None
    BY DEF NoRow
  <2> HIDE DEF d, r, p
  <2> QED
    BY <1>1, <1>3, <2>1, <2>2, RowsHaveObjects DEF Backed, Known
<1> HIDE DEF d, r, v, p
<1>6. CASE v = "both"
  <2>1. disk'[p] = None
    BY <1>1, <1>2, <1>3, <1>6, MovingAside
  <2> QED
    BY <1>2, <1>6, <2>1 DEF p
<1>7. CASE v # "both"
  BY <1>2, <1>4, <1>5, <1>7 DEF p
<1> QED
  BY <1>6, <1>7

(* The server forgets no version.                                           *)
LEMMA VersionsStay ==
  ASSUME TypeOK, [Next]_vars
  PROVE  \A i \in Id : stored[i] \subseteq stored'[i]
<1>1. \A i, s, p, b, h : Becomes(i, s, p, b, h) =>
        \A j \in Id : stored[j] \subseteq stored'[j]
  BY DEF Becomes, TypeOK
<1>2. CASE OtherClients
  BY <1>1, <1>2 DEF OtherClients, RemoteCreate, RemoteEdit, RemoteRename, RemoteDelete
<1>3. CASE User \/ Operator \/ StartVerify \/ StartFull
  BY <1>3 DEF User, UserWrite, UserRemove, Operator, Stop, RetryFailed, StartVerify,
     StartFull, Fetch, server
<1>4. CASE \E i \in Id : \/ SkipQuarantined(i) \/ Prepare(i) \/ Download(i)
                        \/ Collect(i) \/ CollectFailed(i) \/ RemoveLocal(i)
  BY <1>4 DEF SkipQuarantined, Prepare, Download, Stream, StreamRefused, Land, Collect,
     CollectFailed, RemoveLocal, server
<1>5. CASE EndVerify \/ Scan \/ StartMissing \/ EndPass
  BY <1>5 DEF EndVerify, Scan, StartMissing, EndPass, server
<1>6. CASE \E p \in Path :
             \/ BeginSend(p) \/ SkipUnchanged(p) \/ SkipVanished(p) \/ Abort(p)
             \/ SendRefused(p) \/ DeleteMissingRefused(p)
  BY <1>6 DEF BeginSend, SkipUnchanged, SkipVanished, Abort, SendRefused,
     DeleteMissingRefused, server
<1>7. CASE \E p \in Path :
             \/ SendVersion(p) \/ SendVersionLost(p)
             \/ DeleteMissing(p) \/ DeleteMissingLost(p)
             \/ \E j \in Id : SendNew(j, p) \/ SendAdopted(j, p) \/ SendNewLost(j, p)
  BY <1>1, <1>7 DEF SendVersion, SendVersionLost, Version, DeleteMissing,
     DeleteMissingLost, Deletes, SendNew, SendAdopted, SendNewLost
<1>8. CASE UNCHANGED vars
  BY <1>8 DEF vars, server
<1> QED
  BY <1>2, <1>3, <1>4, <1>5, <1>6, <1>7, <1>8 DEF Next, Work

(* Four steps write the disk.                                               *)
LEMMA DiskStays ==
  ASSUME [Next]_vars
  PROVE  \/ UNCHANGED <<disk, mine>> \/ User
         \/ \E i \in Id : Prepare(i) \/ Land(i) \/ RemoveLocal(i)
<1>1. CASE OtherClients
  BY <1>1 DEF OtherClients, RemoteCreate, RemoteEdit, RemoteRename, RemoteDelete
<1>2. CASE Operator \/ StartVerify \/ StartFull
  BY <1>2 DEF Operator, Stop, RetryFailed, StartVerify, StartFull, Fetch
<1>3. CASE \E i \in Id : \/ SkipQuarantined(i) \/ Stream(i) \/ StreamRefused(i)
                        \/ Collect(i) \/ CollectFailed(i)
  BY <1>3 DEF SkipQuarantined, Stream, StreamRefused, Collect, CollectFailed
<1>4. CASE EndVerify \/ Scan \/ StartMissing \/ EndPass
  BY <1>4 DEF EndVerify, Scan, StartMissing, EndPass
<1>5. CASE \E p \in Path :
             \/ BeginSend(p) \/ SkipUnchanged(p) \/ SkipVanished(p) \/ Abort(p)
             \/ SendRefused(p) \/ DeleteMissingRefused(p)
             \/ SendVersion(p) \/ SendVersionLost(p)
             \/ DeleteMissing(p) \/ DeleteMissingLost(p)
             \/ \E j \in Id : SendNew(j, p) \/ SendAdopted(j, p) \/ SendNewLost(j, p)
  BY <1>5 DEF BeginSend, SkipUnchanged, SkipVanished, Abort, SendRefused,
     DeleteMissingRefused, SendVersion, SendVersionLost, DeleteMissing,
     DeleteMissingLost, SendNew, SendAdopted, SendNewLost
<1>6. CASE UNCHANGED vars
  BY <1>6 DEF vars
<1> QED
  BY <1>1, <1>2, <1>3, <1>4, <1>5, <1>6 DEF Next, Work, Download

(* What the user wrote is lost to a remote deletion or to a download nobody *)
(* compared it with only.                                                   *)
LEMMA StepKeepsWork ==
  ASSUME Typed, AgreedInv, KeptInv, [Next]_vars, Kept
  PROVE  \/ Kept'
         \/ \E i \in Id : RemoveLocal(i) \/ (Land(i) /\ Uncompared(i))
<1>a. /\ \A i \in Id : stored[i] \subseteq stored'[i]
      /\ disk \in Disks /\ TypeOK
  BY VersionsStay DEF Typed, TypeOK, Disks
<1>b. \A b \in mine : b \in Bytes /\ b # None
  BY <1>a, NoneAssumption DEF TypeOK
<1>c. ASSUME UNCHANGED mine, Carries(disk, disk') PROVE Kept'
  BY <1>a, <1>b, <1>c DEF Kept, Carries
<1>1. CASE UNCHANGED <<disk, mine>>
  BY <1>a, <1>1 DEF Kept
<1>2. CASE User
  <2>1. PICK p \in Path : (\E b \in Bytes : UserWrite(p, b)) \/ UserRemove(p)
    BY <1>2 DEF User, Own, Path, Mark
  <2>2. \/ \E b \in Bytes : /\ disk' = [disk EXCEPT ![p] = b]
                             /\ mine' = (mine \ {disk[p]}) \cup {b}
        \/ /\ disk' = [disk EXCEPT ![p] = None]
           /\ mine' = mine \ {disk[p]}
    BY <2>1 DEF UserWrite, UserRemove
  <2>3. /\ \A q \in Path \ {p} : disk'[q] = disk[q]
        /\ \A b \in mine' : b = disk'[p] \/ (b \in mine /\ b # disk[p])
    BY <1>a, <2>2 DEF Disks
  <2> QED
    BY <1>a, <2>3 DEF Kept
<1>3. ASSUME NEW i \in Id, Prepare(i) PROVE Kept'
  BY <1>3, <1>c, PreparingCarries DEF Prepare
<1>4. ASSUME NEW i \in Id, Land(i), ~Uncompared(i) PROVE Kept'
  <2> DEFINE p == snap[i].path
  <2>1. flight[i] = "streamed" /\ disk' = [disk EXCEPT ![p] = snap[i].bytes]
        /\ UNCHANGED mine
    BY <1>4 DEF Land, Progress
  <2>2. disk[p] = None \/ Known(disk[p])
    BY <1>4, <2>1 DEF KeptInv, AwaitedIsSpare, Awaited, Spare, Uncompared
  <2>3. p \in Path
    BY <1>4, <2>1 DEF Typed, Fetched, TypeOK
  <2> HIDE DEF p
  <2>4. \A q \in Path \ {p} : disk'[q] = disk[q]
    BY <1>a, <2>1, <2>3 DEF Disks
  <2> QED
    BY <1>a, <1>b, <2>1, <2>2, <2>3, <2>4 DEF Kept, Known
<1> QED
  BY <1>1, <1>2, <1>3, <1>4, DiskStays

(* Every step keeps the user's work out of the way of downloads.            *)
LEMMA KeptInvKept ==
  ASSUME Typed, AgreedInv, KeptInv, [Next]_vars
  PROVE  KeptInv'
<1> DEFINE SameBounds == spent'.scenario = spent.scenario
<1>a. /\ TypeOK /\ Held /\ NamesDiffer /\ Unstarted /\ AwaitedIsSpare
      /\ MidPass \/ Backed(row, stored)
      /\ disk \in Disks
  BY DEF AgreedInv, KeptInv, RowsAgreed, Backed, TrackedPaths, Typed, TypeOK, Disks
<1>b. ASSUME NamesDiffer', Unstarted', AwaitedIsSpare' PROVE KeptInv'
  BY <1>b DEF KeptInv
<1>c. ASSUME UNCHANGED spent \/ Spend("remote") \/ Spend("writes")
               \/ Spend("removals") \/ Spend("failures") \/ Spend("stops")
      PROVE  SameBounds
  BY <1>a, <1>c, Spending
<1> DEFINE SamePlaces ==
             \A i \in Id :
               /\ snap'[i] = Unlisted <=> snap[i] = Unlisted
               /\ snap'[i].path = snap[i].path /\ snap'[i].hash = snap[i].hash
<1>d. ASSUME UNCHANGED object, SamePlaces PROVE NamesDiffer'
  BY <1>a, <1>d DEF NamesDiffer, Live
<1>e. ASSUME SameBounds, NamesDiffer', SamePlaces,
             \A i \in todo' : i \in todo /\ flight'[i] = flight[i],
             \A i \in Id : flight'[i] \in {"asked", "streamed"} => Awaited(i),
             \A p \in Path : disk'[p] = disk[p] \/ disk'[p] = None \/ Known(disk'[p])
      PROVE  KeptInv'
  <2>1. Unstarted'
    BY <1>a, <1>e DEF Unstarted
  <2>2. \A b : Known(b) => Known(b)'
    BY VersionsStay, <1>a DEF Known
  <2>3. ASSUME ~MidPass, NEW i \in Id, Awaited(i)'
        PROVE  Spare(snap[i].path)' \/ snap'[i].hash = None
    <3>1. Awaited(i) /\ (Spare(snap[i].path) \/ snap[i].hash = None)
      BY <1>a, <1>e, <2>3 DEF Awaited, AwaitedIsSpare
    <3>2. snap[i].path \in Path
      BY <3>1 DEF Awaited, Typed, Fetched, TypeOK
    <3>3. snap'[i].path = snap[i].path /\ snap'[i].hash = snap[i].hash
      BY <1>e
    <3> QED
      BY <1>e, <2>2, <3>1, <3>2, <3>3 DEF Spare
  <2>4. AwaitedIsSpare'
    BY <1>e, <2>3 DEF AwaitedIsSpare, MidPass
  <2> QED
    BY <1>b, <1>e, <2>1, <2>4
<1>f. ASSUME NEW i \in Id, NEW s \in {"live", "deleted"}, NEW p \in Path,
             NEW b \in Bytes, NEW h \in Hash, Becomes(i, s, p, b, h), SameBounds,
             s = "deleted" \/ (i \in Live /\ p = object[i].path) \/ p \notin Taken,
             UNCHANGED <<snap, disk, flight, todo>>
      PROVE  KeptInv'
  <2>1. NamesDiffer'
    BY <1>a, <1>f, NamesKept
  <2> QED
    BY <1>e, <1>f, <2>1 DEF Awaited
<1>1. CASE OtherClients
  <2>1. PICK i \in Id, t \in {"live", "deleted"}, p \in Path, b \in Bytes, h \in Hash :
          /\ Becomes(i, t, p, b, h)
          /\ t = "deleted" \/ (i \in Live /\ p = object[i].path) \/ p \notin Taken
    BY <1>a, <1>1, OthersChange
  <2>2. UNCHANGED <<snap, disk, flight, todo>> /\ Spend("remote")
    BY <1>a, <1>1, OthersChange DEF pass
  <2> QED
    BY <1>c, <1>f, <2>1, <2>2
<1>2. CASE User
  <2>1. /\ UNCHANGED <<object, stored, snap, flight, todo>> /\ UserTurn
        /\ Spend("writes") \/ Spend("removals")
    BY <1>2 DEF User, UserWrite, UserRemove, server, pass
  <2>2. SameBounds
    BY <1>c, <2>1
  <2>3. MidPass \/ \A i \in Id : flight[i] = "none"
    BY <2>1 DEF UserTurn, Typed, InPhase, Applying
  <2>4. AwaitedIsSpare'
    BY <2>1, <2>2, <2>3 DEF AwaitedIsSpare, Awaited, MidPass
  <2>5. Unstarted'
    BY <1>a, <2>1 DEF Unstarted
  <2> QED
    BY <1>b, <1>d, <2>1, <2>4, <2>5
<1>3. ASSUME Rest, UNCHANGED object PROVE KeptInv'
  <2>1. /\ todo' = {} /\ snap' \in [Id -> {Unlisted}]
        /\ flight' \in [Id -> {"none"}]
    BY <1>3, Resting
  <2>2. NamesDiffer'
    BY <1>a, <1>3, <2>1 DEF NamesDiffer, Live
  <2> QED
    BY <1>b, <2>1, <2>2 DEF Unstarted, AwaitedIsSpare, Awaited
<1>4. ASSUME NEW changed, NEW removed, changed \subseteq Live, removed \subseteq Id,
             Fetch(changed, removed)
      PROVE  KeptInv'
  <2>1. phase = "idle" /\ UNCHANGED <<object, flight>>
    BY <1>4 DEF Fetch
  <2>2. /\ todo' \subseteq Id
        /\ \A i \in Id : snap'[i] # Unlisted => i \in Live
    BY <1>a, <1>4, Fetching
  <2>3. \A i \in Id : snap'[i] # Unlisted => snap'[i].path = object[i].path
    BY <1>a, <1>4, Fetching
  <2>4. NamesDiffer'
    BY <1>a, <2>1, <2>2, <2>3 DEF NamesDiffer, Live
  <2>5. \A i \in Id : flight'[i] = "none"
    BY <2>1 DEF Typed, InPhase, Applying
  <2> QED
    BY <1>b, <2>2, <2>4, <2>5 DEF Unstarted, AwaitedIsSpare, Awaited
<1>5. CASE StartVerify \/ StartFull
  BY <1>4, <1>5 DEF StartVerify, StartFull, Live, Deleted
<1>6. ASSUME NEW i \in Id, Prepare(i) PROVE KeptInv'
  <2>1. /\ i \in todo /\ todo' = todo \ {i}
        /\ UNCHANGED <<object, stored, snap, spent>>
    BY <1>6 DEF Prepare, server
  <2>2. /\ Spreads(disk, disk', snap[i].path) /\ snap[i] \in Snap
        /\ flight' = flight \/ flight' = [flight EXCEPT ![i] = "asked"]
    BY <1>6, PreparingCarries, Preparing
  <2>3. flight \in [Id -> {"none", "asked", "streamed", "landed", "failed"}]
        /\ todo \subseteq Id
    BY <1>a DEF TypeOK
  <2>4. Unstarted'
    BY <1>a, <2>1, <2>2, <2>3 DEF Unstarted
  <2>5. ASSUME ~MidPass, NEW j \in Id, Awaited(j)'
        PROVE  Spare(snap[j].path)' \/ snap[j].hash = None
    <3>1. CASE j = i
      <4>1. flight[i] = "none"
        BY <1>a, <2>1 DEF Unstarted
      <4>2. \/ snap[i].hash = None \/ disk'[snap[i].path] = None
            \/ Known(disk'[snap[i].path])
        BY <1>6, <1>a, <2>5, <3>1, <4>1, PreparingSpares DEF Awaited
      <4> QED
        BY <2>1, <3>1, <4>2 DEF Spare, Known
    <3>2. CASE j # i
      <4>1. Awaited(j)
        BY <2>2, <2>3, <2>5, <3>2 DEF Awaited
      <4>2. Spare(snap[j].path) \/ snap[j].hash = None
        BY <1>a, <2>5, <4>1 DEF AwaitedIsSpare
      <4>3. snap[j] \in Snap /\ snap[j] # Unlisted /\ snap[i] # Unlisted
        BY <2>2, <4>1, NoneAssumption
           DEF Awaited, Typed, Fetched, TypeOK, Snap, Unlisted
      <4>4. snap[j].path \in Path \ {snap[i].path}
        BY <1>a, <3>2, <4>3 DEF NamesDiffer, Snap
      <4>5. disk'[snap[j].path] \in {None, disk[snap[j].path]}
            \/ ConflictName(snap[j].path)
        BY <2>2, <4>4 DEF Spreads
      <4> QED
        BY <2>1, <4>2, <4>5 DEF Spare, Known
    <3> QED
      BY <3>1, <3>2
  <2>6. AwaitedIsSpare'
    BY <2>1, <2>5 DEF AwaitedIsSpare, MidPass
  <2> QED
    BY <1>b, <1>d, <2>1, <2>4, <2>6
<1>g. ASSUME UNCHANGED <<object, snap, disk, flight>>, todo' \subseteq todo,
             UNCHANGED spent \/ Spend("failures") \/ Spend("stops")
      PROVE  KeptInv'
  BY <1>c, <1>d, <1>e, <1>g DEF Awaited
<1>h. ASSUME NEW i \in Id, NEW from \in {"asked", "streamed", "landed", "failed"},
             NEW to \in {"streamed", "landed", "failed", "none"},
             Progress(i, from, to), to = "streamed" => from = "asked",
             UNCHANGED <<object, stored, todo>>, SamePlaces,
             UNCHANGED spent \/ Spend("failures"),
             UNCHANGED disk
               \/ /\ i \notin todo
                  /\ disk' = [disk EXCEPT ![snap[i].path] = snap[i].bytes]
      PROVE  KeptInv'
  <2>1. /\ flight[i] = from /\ flight' = [flight EXCEPT ![i] = to]
        /\ flight \in [Id -> {"none", "asked", "streamed", "landed", "failed"}]
        /\ todo \subseteq Id
    BY <1>a, <1>h DEF Progress, TypeOK
  <2>2. i \notin todo
    BY <1>a, <2>1 DEF Unstarted
  <2>3. \A j \in todo' : j \in todo /\ flight'[j] = flight[j]
    BY <1>h, <2>1, <2>2
  <2>4. \A j \in Id : flight'[j] \in {"asked", "streamed"} => Awaited(j)
    BY <1>h, <2>1 DEF Awaited
  <2>5. snap[i].bytes \in stored[i] /\ snap[i].path \in Path
    BY <1>a, <2>1 DEF Typed, Fetched, Held, TypeOK
  <2>6. \A p \in Path : disk'[p] = disk[p] \/ disk'[p] = None \/ Known(disk'[p])
    BY <1>a, <1>h, <2>5 DEF Known, Disks
  <2> QED
    BY <1>c, <1>d, <1>e, <1>h, <2>3, <2>4, <2>6
<1>7. ASSUME NEW i \in Id, Download(i) PROVE KeptInv'
  <2>1. i \notin todo
    BY <1>7, <1>a DEF Download, Stream, StreamRefused, Land, Progress, Unstarted
  <2>2. CASE Stream(i)
    <3>1. /\ flight[i] = "asked" /\ Expected(i)
          /\ snap' = [snap EXCEPT ![i].bytes = object[i].bytes]
      BY <2>2 DEF Stream, Progress
    <3>2. \A j \in Id : j # i => snap'[j] = snap[j]
      BY <1>a, <3>1 DEF TypeOK
    <3>3. /\ snap[i] \in Snap /\ snap'[i].path = snap[i].path
          /\ snap'[i].hash = snap[i].hash
      BY <1>a, <3>1 DEF TypeOK, Typed, Fetched, Snap
    <3>4. snap'[i] \in Snap
      BY <1>a, <3>1, <3>3, Living DEF Expected, TypeOK, Snap
    <3>5. \A t \in Snap : t # Unlisted
      BY NoneAssumption DEF Snap, Unlisted
    <3>6. SamePlaces
      BY <3>2, <3>3, <3>4, <3>5
    <3> QED
      BY <1>h, <2>2, <3>6 DEF Stream, server
  <2>3. CASE StreamRefused(i)
    BY <1>h, <2>3 DEF StreamRefused, FailsAnyway, server
  <2>4. CASE Land(i)
    BY <1>h, <2>1, <2>4 DEF Land, server
  <2> QED
    BY <1>7, <2>2, <2>3, <2>4 DEF Download
<1>8. ASSUME NEW i \in Id, Collect(i) \/ CollectFailed(i) PROVE KeptInv'
  BY <1>8, <1>h DEF Collect, CollectFailed, server
<1>9. ASSUME NEW i \in Id, RemoveLocal(i) PROVE KeptInv'
  <2>1. /\ disk' = [p \in Path |-> IF row[p].id = i THEN None ELSE disk[p]]
        /\ UNCHANGED <<object, snap, flight, todo, spent>>
    BY <1>9 DEF RemoveLocal, server
  <2> QED
    BY <1>c, <1>d, <1>e, <2>1 DEF Awaited
<1>10. ASSUME NEW i \in Id, SkipQuarantined(i) PROVE KeptInv'
  BY <1>10, <1>g DEF SkipQuarantined, server
<1>11. CASE Operator \/ EndVerify \/ EndPass \/ \E p \in Path : Abort(p)
  <2>1. CASE RetryFailed
    BY <1>g, <2>1 DEF RetryFailed, server, pass
  <2>2. CASE Stop \/ EndVerify \/ EndPass \/ \E p \in Path : Abort(p)
    BY <1>3, <2>2 DEF Stop, EndVerify, EndPass, Abort, server
  <2> QED
    BY <1>11, <2>1, <2>2 DEF Operator
<1>12. CASE Scan \/ StartMissing
  BY <1>12, <1>g DEF Scan, StartMissing, server
<1>13. ASSUME NEW p \in Path,
              \/ BeginSend(p) \/ SkipUnchanged(p) \/ SkipVanished(p)
              \/ SendRefused(p) \/ DeleteMissingRefused(p)
       PROVE  KeptInv'
  BY <1>13, <1>g DEF BeginSend, SkipUnchanged, SkipVanished, SendRefused,
     DeleteMissingRefused, FailsAnyway, server
<1>i. ASSUME NEW p \in Path, Sending(p) PROVE disk[p] \in Bytes /\ disk[p] \in Hash
  BY <1>a, <1>i DEF Sending, Disks, Hash
<1>14. ASSUME NEW p \in Path,
              \/ SendVersion(p) \/ SendVersionLost(p)
              \/ DeleteMissing(p) \/ DeleteMissingLost(p)
       PROVE  KeptInv'
  <2> DEFINE i == row[p].id
  <2>1. /\ i \in Live
        /\ \/ Sending(p) /\ Becomes(i, "live", object[i].path, disk[p], disk[p])
           \/ Becomes(i, "deleted", object[i].path, object[i].bytes, object[i].hash)
        /\ UNCHANGED <<snap, disk, flight, todo>>
        /\ UNCHANGED spent \/ Spend("failures")
    BY <1>14 DEF SendVersion, SendVersionLost, Version, DeleteMissing,
       DeleteMissingLost, Deletes
  <2>2. /\ i \in Id /\ object[i].path \in Path /\ object[i].bytes \in Bytes
        /\ object[i].hash \in Hash
    BY <1>a, <2>1, Living
  <2> HIDE DEF i
  <2> QED
    BY <1>c, <1>f, <1>i, <2>1, <2>2
<1>15. ASSUME NEW p \in Path, NEW j \in Id,
              SendNew(j, p) \/ SendAdopted(j, p) \/ SendNewLost(j, p)
       PROVE  KeptInv'
  <2>1. /\ Sending(p) /\ Granted(p) \in Path \ Taken
        /\ \E t \in {"live", "deleted"} : Becomes(j, t, Granted(p), disk[p], disk[p])
        /\ UNCHANGED <<snap, disk, flight, todo>>
        /\ UNCHANGED spent \/ Spend("failures")
    BY <1>15 DEF SendNew, SendAdopted, SendNewLost, Creatable, FailsAnyway
  <2> QED
    BY <1>c, <1>f, <1>i, <2>1
<1>16. CASE UNCHANGED vars
  BY <1>16, <1>g DEF vars, pass, server
<1> QED
  BY <1>1, <1>2, <1>5, <1>6, <1>7, <1>8, <1>9, <1>10, <1>11, <1>12, <1>13, <1>14,
     <1>15, <1>16 DEF Next, Work

(* What the user wrote stays on his disk or among the server's versions; it *)
(* can be lost to two kinds of steps only: a remote deletion, and a download*)
(* that lands on a conflict copy, on what he wrote while the pass was       *)
(* running, or for a file the server gave no hash of.                       *)
THEOREM WorkAlwaysKept == Spec => WorkIsKept
<1> DEFINE I == Typed /\ AgreedInv /\ KeptInv
<1>1. Init => I
  <2>1. ASSUME Init PROVE KeptInv
    BY <2>1 DEF Init, KeptInv, NamesDiffer, Unstarted, AwaitedIsSpare, Awaited, Live,
       Nothing
  <2> QED
    BY <2>1, TypedAtFirst
<1>2. I /\ [Next]_vars => I'
  BY TypedKept, AgreedKept, KeptInvKept
<1>3. I /\ [Next]_vars =>
        [Kept => \/ Kept'
                 \/ \E i \in Id : \/ RemoveLocal(i)
                                  \/ Land(i) /\ Uncompared(i)]_vars
  BY StepKeepsWork
<1> HIDE DEF I
<1> QED
  BY <1>1, <1>2, <1>3, PTL DEF Spec, WorkIsKept

-----------------------------------------------------------------------------
(* A user who does nothing.                                                 *)

(* He has done nothing before, and does nothing now.                        *)
LEMMA PassiveBefore ==
  ASSUME TypeOK, [Next]_vars, Passive'
  PROVE  Passive /\ ~User /\ ~Operator
<1>1. ASSUME UNCHANGED spent \/ Spend("remote") \/ Spend("failures"),
             mixups \subseteq mixups'
      PROVE  Passive
  BY <1>1 DEF Passive, Spend, TypeOK
<1>2. ASSUME Spend("writes") \/ Spend("removals") \/ Spend("stops") PROVE FALSE
  <2>1. /\ spent.writes \in Nat /\ spent.removals \in Nat /\ spent.stops \in Nat
        /\ spent' \in [scenario : Scenarios, remote : Nat, writes : Nat,
                        removals : Nat, failures : Nat, stops : Nat]
    BY <1>2, Spending DEF TypeOK
  <2>2. \/ spent'.writes = spent.writes + 1 \/ spent'.removals = spent.removals + 1
        \/ spent'.stops = spent.stops + 1
    BY <1>2 DEF Spend, TypeOK
  <2>3. spent'.writes \in Nat /\ spent'.removals \in Nat /\ spent'.stops \in Nat
    BY <2>1
  <2> QED
    BY <2>1, <2>2, <2>3 DEF Passive
<1>3. ~User /\ ~Operator
  BY <1>2 DEF User, UserWrite, UserRemove, Operator, Stop, RetryFailed
<1>4. CASE OtherClients
  BY <1>1, <1>3, <1>4
     DEF OtherClients, RemoteCreate, RemoteEdit, RemoteRename, RemoteDelete
<1>5. CASE StartVerify \/ StartFull
  BY <1>1, <1>3, <1>5 DEF StartVerify, StartFull, Fetch
<1>6. CASE \E i \in Id : \/ SkipQuarantined(i) \/ Prepare(i) \/ Download(i)
                        \/ Collect(i) \/ CollectFailed(i) \/ RemoveLocal(i)
  BY <1>1, <1>3, <1>6 DEF SkipQuarantined, Prepare, Download, Stream, StreamRefused,
     FailsAnyway, Land, Collect, CollectFailed, RemoveLocal
<1>7. CASE EndVerify \/ Scan \/ StartMissing \/ EndPass
  BY <1>1, <1>3, <1>7 DEF EndVerify, Scan, StartMissing, EndPass
<1>8. CASE \E p \in Path :
             \/ BeginSend(p) \/ SkipUnchanged(p) \/ SkipVanished(p) \/ Abort(p)
             \/ SendRefused(p) \/ DeleteMissingRefused(p)
             \/ SendVersion(p) \/ SendVersionLost(p)
             \/ DeleteMissing(p) \/ DeleteMissingLost(p)
             \/ \E j \in Id : SendNew(j, p) \/ SendAdopted(j, p) \/ SendNewLost(j, p)
  BY <1>1, <1>3, <1>8 DEF BeginSend, SkipUnchanged, SkipVanished, Abort, SendRefused,
     DeleteMissingRefused, SendVersion, SendVersionLost, DeleteMissing, FailsAnyway,
     DeleteMissingLost, SendNew, SendAdopted, SendNewLost
<1>9. CASE UNCHANGED vars
  BY <1>1, <1>3, <1>9 DEF vars
<1> QED
  BY <1>3, <1>4, <1>5, <1>6, <1>7, <1>8, <1>9 DEF Next, Work

(* prepare_remote_file then moves a file with its row to where no other     *)
(* bytes are, or leaves the file alone; and it asks for a download only     *)
(* where no file is that is still to be moved.                              *)
LEMMA PreparingInPeace ==
  ASSUME Typed, NamesDiffer, Unstarted, OneRow(row), DiskFollowsRows, Cleared,
         NEW i \in Id, Prepare(i), mixups' \subseteq {"borrowed"}
  PROVE  LET p == snap[i].path IN
         /\ \A q \in Path \ {p} :
              \/ row'[q] = row[q] /\ disk'[q] = disk[q]
              \/ row'[q] = NoRow /\ disk'[q] = None /\ row[q].id = i
         /\ \A q \in Path : row'[q].id = i => q = p
         /\ disk'[p] # None => row'[p].hash = disk'[p]
         /\ disk'[p] # None <=> row'[p] # NoRow
         /\ row'[p] = row[p] \/ row'[p].id = i
         /\ flight' # flight => row'[p] = NoRow \/ row'[p].id \notin todo'
<1> DEFINE p == snap[i].path
           t == snap[i].hash
           d == Followed(i).disk
           r == Followed(i).row
           v == Verdict(i, d, r)
<1>1. /\ p \in Path /\ snap[i] \in Snap /\ snap[i] # Unlisted
      /\ disk \in Disks /\ row \in Rows
  BY Preparing, NoneAssumption DEF Snap, Unlisted, Typed, TypeOK, Disks, Rows
<1>2. /\ disk' = IF v = "both" THEN MoveAside(d, p) ELSE d
      /\ row' = Recorded(i, v, d, r)
      /\ flight' = IF v \in {"remote", "both"}
                   THEN [flight EXCEPT ![i] = "asked"] ELSE flight
      /\ todo' = todo \ {i} /\ i \in todo
  BY DEF Prepare, Asks
<1>3. /\ ~Displaced(i)
      /\ v \in {"remote", "both"} => r[p].id \notin todo \ {i}
  BY DEF Prepare, MixesUp, Mixup, Asks
<1>4. flight[i] = "none"
  BY <1>2 DEF Unstarted
<1>5. \A j \in Id : flight[j] # "none" => j # i /\ snap[j].path # p
  BY <1>1, <1>4 DEF NamesDiffer, Typed, Fetched
<1>6. ~Landed(p)
  BY <1>5 DEF Landed
<1>7. CASE MustMove(i)
  <2> DEFINE from == PathOf(i)
             h == row[from].hash
  <2>1. from \in Path /\ row[from].id = i /\ from # p
    BY <1>7, Tracked DEF Typed, MustMove
  <2>2. row[from] # NoRow
    BY <1>1, <2>1, RowsHaveObjects
  <2>3. ~Landed(from)
    BY <1>2, <2>1, <2>2 DEF Landed, Cleared
  <2>4. disk[from] = h /\ h # None
    BY <2>1, <2>2, <2>3 DEF DiskFollowsRows
  <2>5. disk[p] \in {None, h}
    BY <1>3, <1>7, <2>4 DEF Displaced, Collides
  <2>6. /\ d = Relocate(disk, from, p)
        /\ r = Upsert(Reparent(row, from, p), i, p, h)
    BY <1>7 DEF Followed
  <2> HIDE DEF from
  <2>7. /\ d[from] = None /\ d[p] = h
        /\ \A q \in Path \ {from, p} : d[q] = disk[q]
    <3>1. CASE disk[p] = None
      <4>1. d = [disk EXCEPT ![from] = None, ![p] = h]
        BY <2>4, <2>6, <3>1 DEF Relocate
      <4> QED
        BY <1>1, <2>1, <4>1 DEF Disks
    <3>2. CASE disk[p] = h
      <4>1. d = [disk EXCEPT ![from] = None]
        BY <2>4, <2>6, <3>2 DEF Relocate
      <4> QED
        BY <1>1, <2>1, <3>2, <4>1 DEF Disks
    <3> QED
      BY <2>5, <3>1, <3>2
  <2>8. \A q \in Path \ {from} : row[q].id # i
    BY <1>1, <2>1, <2>2, RowsHaveObjects DEF OneRow
  <2>9. /\ r[p] = [id |-> i, hash |-> h] /\ r[from] = NoRow
        /\ \A q \in Path \ {from, p} : r[q] = row[q]
    BY <1>1, <2>1, <2>6, <2>8 DEF Upsert, Reparent
  <2>10. v \in {"settled", "remote"}
    BY <1>7, <2>7, <2>9 DEF Verdict, Resolve
  <2>11. disk' = d /\ row' = r
    BY <1>2, <2>10 DEF Recorded
  <2>12. r[p] # NoRow /\ NoRow.id # i
    BY <2>9, NoneAssumption DEF NoRow
  <2> HIDE DEF d, r, v, p, h, t
  <2> QED
    BY <1>1, <1>2, <2>1, <2>4, <2>7, <2>8, <2>9, <2>11, <2>12 DEF p
<1>8. CASE ~MustMove(i)
  <2>1. d = disk /\ r = row
    BY <1>8 DEF Followed
  <2>2. \A q \in Path : row[q].id = i => q = p
    <3>1. ASSUME NEW q \in Path, row[q].id = i PROVE q = p
      <4>1. PathOf(i) = p
        BY <1>8, <3>1 DEF MustMove, Tracks
      <4>2. row[p].id = i
        BY <3>1, <4>1 DEF PathOf
      <4> QED
        BY <1>1, <3>1, <4>2, RowsHaveObjects DEF OneRow
    <3> QED
      BY <3>1
  <2>3. disk[p] # None => row[p] # NoRow /\ row[p].hash = disk[p]
    BY <1>1, <1>6 DEF DiskFollowsRows
  <2>4. row[p] # NoRow => disk[p] # None
    BY <1>1 DEF DiskFollowsRows
  <2>5. v \in {"remote", "same"} /\ (v = "same" => disk[p] # None)
    BY <1>1, <1>8, <2>1, <2>3 DEF Verdict, Resolve
  <2>6. disk' = disk
    BY <1>2, <2>1, <2>5
  <2>7. CASE v = "remote"
    <3>1. row' = row /\ row[p].id \notin todo'
      BY <1>2, <1>3, <2>1, <2>7 DEF Recorded
    <3> HIDE DEF d, r, v, p, t
    <3> QED
      BY <1>1, <2>2, <2>3, <2>4, <2>6, <3>1 DEF p
  <2>8. CASE v = "same"
    <3>1. row' = Upsert(row, i, p, disk[p]) /\ disk[p] # None /\ flight' = flight
      BY <1>2, <2>1, <2>5, <2>8 DEF Recorded
    <3> HIDE DEF d, r, v, p, t
    <3>2. row'[p] = [id |-> i, hash |-> disk[p]] /\ row'[p] # NoRow
      BY <1>1, <3>1, NoneAssumption DEF Upsert, NoRow
    <3>3. \A q \in Path \ {p} : row'[q] = row[q]
      BY <1>1, <2>2, <3>1 DEF Upsert
    <3> QED
      BY <1>1, <2>2, <2>6, <3>1, <3>2, <3>3 DEF p
  <2> QED
    BY <2>5, <2>7, <2>8
<1> QED
  BY <1>7, <1>8

(* While the user does nothing and nothing is mixed up, disk and rows stay  *)
(* in step.                                                                 *)
LEMMA StillKept ==
  ASSUME Typed, Held, NamesDiffer, Unstarted, OneRow(row), PassiveInv,
         [Next]_vars, Passive'
  PROVE  Still'
<1>a. /\ Passive /\ ~User /\ ~Operator /\ TypeOK
      /\ mixups' \subseteq {"borrowed"}
      /\ DiskFollowsRows /\ MovedFirst /\ Cleared /\ Scanned /\ NothingToDo
      /\ disk \in Disks /\ row \in Rows
  BY PassiveBefore DEF Typed, PassiveInv, Passive, Still, TypeOK, Disks, Rows
<1>b. ~Applying => \A i \in Id : flight[i] = "none"
  BY DEF Typed, InPhase
<1>c. \A i \in Id : flight[i] # "none" =>
        /\ snap[i] # Unlisted
        /\ snap[i].path \in Path /\ snap[i].bytes \in Bytes /\ snap[i].bytes # None
  BY <1>a, NoneAssumption DEF Typed, Fetched, TypeOK
<1>d. ASSUME UNCHANGED <<snap, row, disk, flight, sending, missing>>,
             todo' \subseteq todo, phase' = "push" => onDisk' = Present(disk)
      PROVE  Still'
  BY <1>a, <1>d DEF Still, DiskFollowsRows, Landed, MovedFirst, Cleared,
     Scanned, NothingToDo, Present
<1>1. CASE OtherClients
  <2>1. UNCHANGED <<disk, row, snap, flight, todo, phase, onDisk, sending, missing>>
    BY <1>a, <1>1, OthersChange DEF pass
  <2> QED
    BY <1>a, <1>d, <2>1 DEF Scanned
<1>2. ASSUME UNCHANGED <<row, disk>>, phase' # "push", sending' = Nowhere,
             missing' = {}, \A i \in Id : flight[i] = "none" /\ flight'[i] = "none"
      PROVE  Still'
  <2>1. DiskFollowsRows' /\ MovedFirst' /\ Cleared'
    BY <1>a, <1>2 DEF DiskFollowsRows, Landed, MovedFirst, Cleared
  <2> QED
    BY <1>2, <2>1 DEF Still, Scanned, NothingToDo
<1>3. CASE StartVerify \/ StartFull
  <2>1. PICK changed, removed : Fetch(changed, removed)
    BY <1>3 DEF StartVerify, StartFull
  <2>2. phase = "idle" /\ UNCHANGED <<row, disk, flight, sending, missing>>
    BY <2>1 DEF Fetch
  <2>3. phase' # "push"
    BY <1>3 DEF StartVerify, StartFull
  <2> QED
    BY <1>2, <1>a, <1>b, <2>2, <2>3 DEF Applying, NothingToDo
<1>4. ASSUME Rest, UNCHANGED <<row, disk>>, \A i \in Id : flight[i] = "none"
      PROVE  Still'
  BY <1>2, <1>4, Resting
<1>5. CASE EndVerify \/ EndPass \/ \E p \in Path : Abort(p)
  <2>1. \A i \in Id : flight[i] = "none"
    BY <1>5, <1>b DEF EndVerify, EndPass, Abort, Pushing, FilesDone, Applying
  <2> QED
    BY <1>4, <1>5, <2>1 DEF EndVerify, EndPass, Abort
<1>6. ASSUME NEW i \in Id, Prepare(i) PROVE Still'
  <2> DEFINE p == snap[i].path
  <2>1. /\ UNCHANGED <<snap, phase, onDisk, sending, missing>>
        /\ Applying /\ flight[i] = "none" /\ i \in todo /\ todo' = todo \ {i}
    BY <1>6 DEF Prepare, Unstarted
  <2>2. /\ flight' = flight \/ flight' = [flight EXCEPT ![i] = "asked"]
        /\ p \in Path /\ row' \in Rows /\ snap[i] \in Snap
    BY <1>6, Preparing DEF Snap
  <2>3. /\ \A q \in Path \ {p} :
             \/ row'[q] = row[q] /\ disk'[q] = disk[q]
             \/ row'[q] = NoRow /\ disk'[q] = None /\ row[q].id = i
        /\ \A q \in Path : row'[q].id = i => q = p
        /\ disk'[p] # None => row'[p].hash = disk'[p]
        /\ disk'[p] # None <=> row'[p] # NoRow
        /\ row'[p] = row[p] \/ row'[p].id = i
        /\ flight' # flight => row'[p] = NoRow \/ row'[p].id \notin todo'
    BY <1>6, <1>a, PreparingInPeace
  <2>4. flight \in [Id -> {"none", "asked", "streamed", "landed", "failed"}]
    BY <1>a DEF TypeOK
  <2>5. \A j \in Id : /\ flight'[j] = "landed" <=> flight[j] = "landed"
                      /\ flight'[j] # "none" => flight[j] # "none" \/ j = i
    BY <2>1, <2>2, <2>4
  <2>6. \A q \in Path : row'[q] = NoRow => row'[q].id \notin Id
    BY NoneAssumption DEF NoRow
  <2>7. snap[i] # Unlisted
    BY <2>2, NoneAssumption DEF Snap, Unlisted
  <2>8. \A j \in Id : flight[j] # "none" => j # i /\ snap[j].path \in Path \ {p}
    BY <1>c, <2>1, <2>7 DEF NamesDiffer
  <2> HIDE DEF p
  <2>9. \A j \in Id : flight[j] = "landed" => row[snap[j].path].id # i
    BY <2>1, <2>8, <1>a, RowsHaveObjects DEF Cleared
  <2>10. DiskFollowsRows'
    <3>1. \A j \in Id : flight'[j] = "landed" => disk'[snap'[j].path] = snap'[j].bytes
      BY <1>a, <2>1, <2>3, <2>5, <2>8, <2>9 DEF DiskFollowsRows
    <3>2. \A q \in Path : Landed(q) => Landed(q)'
      BY <2>1, <2>5 DEF Landed
    <3>3. \A q \in Path : row'[q] # NoRow => disk'[q] # None
      BY <1>a, <2>3 DEF DiskFollowsRows
    <3>4. ASSUME NEW q \in Path, disk'[q] # None
          PROVE  Landed(q)' \/ (row'[q] # NoRow /\ row'[q].hash = disk'[q])
      <4>1. CASE q = p
        BY <2>3, <3>4, <4>1
      <4>2. CASE q # p
        BY <1>a, <2>3, <3>2, <3>4, <4>2 DEF DiskFollowsRows
      <4> QED
        BY <4>1, <4>2
    <3> QED
      BY <3>1, <3>3, <3>4 DEF DiskFollowsRows
  <2>11. MovedFirst'
    <3>1. ASSUME NEW j \in Id, NEW q \in Path, flight'[j] # "none", row'[q].id = j
          PROVE  q = snap[j].path
      <4>1. CASE j = i
        BY <2>3, <3>1, <4>1 DEF p
      <4>2. CASE j # i
        <5>1. row[q].id = j
          BY <2>2, <2>3, <2>6, <3>1, <4>2
        <5> QED
          BY <1>a, <2>5, <3>1, <4>2, <5>1 DEF MovedFirst
      <4> QED
        BY <4>1, <4>2
    <3> QED
      BY <2>1, <3>1 DEF MovedFirst
  <2>12. Cleared'
    <3>1. ASSUME NEW j \in Id, flight'[j] # "none", row'[snap[j].path] # NoRow
          PROVE  row'[snap[j].path].id \notin todo'
      <4>1. CASE j = i
        BY <2>1, <2>2, <2>3, <3>1, <4>1 DEF p
      <4>2. CASE j # i
        BY <1>a, <2>1, <2>3, <2>5, <2>8, <3>1, <4>2 DEF Cleared
      <4> QED
        BY <4>1, <4>2
    <3> QED
      BY <2>1, <3>1 DEF Cleared
  <2> QED
    BY <1>a, <2>1, <2>10, <2>11, <2>12 DEF Still, Scanned, Applying, NothingToDo
<1>7. ASSUME NEW i \in Id, Stream(i) \/ StreamRefused(i) \/ CollectFailed(i)
      PROVE  Still'
  <2>1. /\ UNCHANGED <<row, disk, phase, onDisk, sending, missing, todo>>
        /\ flight[i] \in {"asked", "failed"}
        /\ \E to \in {"streamed", "failed", "none"} :
             flight' = [flight EXCEPT ![i] = to]
        /\ flight \in [Id -> {"none", "asked", "streamed", "landed", "failed"}]
        /\ UNCHANGED snap \/ snap' = [snap EXCEPT ![i].bytes = object[i].bytes]
    BY <1>7, <1>a DEF Stream, StreamRefused, CollectFailed, Progress, TypeOK, server
  <2>2. \A j \in Id : /\ flight'[j] = "landed" <=> flight[j] = "landed"
                      /\ flight'[j] # "none" => flight[j] # "none"
    BY <2>1
  <2>3. \A j \in Id : /\ flight[j] # "none" => snap'[j].path = snap[j].path
                      /\ j # i => snap'[j] = snap[j]
    BY <1>a, <1>c, <2>1 DEF TypeOK
  <2>4. DiskFollowsRows'
    <3>1. \A j \in Id : flight[j] = "landed" => snap'[j] = snap[j]
      BY <2>1, <2>3
    <3>2. \A q \in Path : Landed(q)' <=> Landed(q)
      BY <2>2, <3>1 DEF Landed
    <3> QED
      BY <1>a, <2>1, <2>2, <3>1, <3>2 DEF DiskFollowsRows
  <2>5. MovedFirst' /\ Cleared'
    BY <1>a, <2>1, <2>2, <2>3 DEF MovedFirst, Cleared
  <2> QED
    BY <1>a, <2>1, <2>4, <2>5 DEF Still, Scanned, NothingToDo, Present
<1>8. ASSUME NEW i \in Id, Land(i) PROVE Still'
  <2> DEFINE p == snap[i].path
             b == snap[i].bytes
  <2>1. /\ UNCHANGED <<snap, row, todo, phase, onDisk, sending, missing>>
        /\ flight[i] = "streamed" /\ flight' = [flight EXCEPT ![i] = "landed"]
        /\ disk' = [disk EXCEPT ![p] = b]
    BY <1>8 DEF Land, Progress
  <2>2. p \in Path /\ b # None /\ phase # "push"
    BY <1>b, <1>c, <2>1 DEF Applying
  <2>3. /\ \A j \in Id : /\ flight'[j] = "landed" <=> flight[j] = "landed" \/ j = i
                         /\ flight'[j] # "none" => flight[j] # "none"
        /\ \A j \in Id : flight[j] = "landed" => snap[j].path # p
        /\ disk'[p] = b /\ \A q \in Path \ {p} : disk'[q] = disk[q]
    <3>1. flight \in [Id -> {"none", "asked", "streamed", "landed", "failed"}]
      BY <1>a DEF TypeOK
    <3>2. \A j \in Id : flight[j] = "landed" => snap[j].path # p
      BY <1>c, <2>1 DEF NamesDiffer
    <3> HIDE DEF p, b
    <3> QED
      BY <1>a, <2>1, <2>2, <3>1, <3>2 DEF Disks
  <2>4. DiskFollowsRows'
    <3>1. \A j \in Id : flight'[j] = "landed" => disk'[snap[j].path] = snap[j].bytes
      BY <1>a, <1>c, <2>3 DEF DiskFollowsRows
    <3>2. \A q \in Path : Landed(q)' <=> Landed(q) \/ q = p
      BY <2>1, <2>3 DEF Landed
    <3>3. \A q \in Path : row[q] # NoRow => disk'[q] # None
      BY <1>a, <2>2, <2>3 DEF DiskFollowsRows
    <3> HIDE DEF p, b
    <3> QED
      BY <1>a, <2>1, <2>3, <3>1, <3>2, <3>3 DEF DiskFollowsRows
  <2>5. MovedFirst' /\ Cleared'
    BY <1>a, <2>1, <2>3 DEF MovedFirst, Cleared
  <2> QED
    BY <1>a, <2>1, <2>2, <2>4, <2>5 DEF Still, Scanned, NothingToDo
<1>9. ASSUME NEW i \in Id, Collect(i) PROVE Still'
  <2> DEFINE p == snap[i].path
             b == snap[i].bytes
  <2>1. /\ UNCHANGED <<snap, disk, todo, phase, onDisk, sending, missing>>
        /\ flight[i] = "landed" /\ flight' = [flight EXCEPT ![i] = "none"]
        /\ row' = Upsert(row, i, p, snap[i].hash) /\ todo = {}
        /\ mixups' = mixups \cup {m \in {"unhashed"} : snap[i].hash = None}
    BY <1>9 DEF Collect, Progress
  <2>2. snap[i].hash = b
    <3>1. snap[i].hash # None
      BY <1>a, <2>1
    <3> QED
      BY <1>c, <2>1, <3>1 DEF Held
  <2>3. p \in Path /\ b # None /\ phase # "push" /\ disk[p] = b
    BY <1>a, <1>b, <1>c, <2>1 DEF Applying, DiskFollowsRows
  <2>4. \A q \in Path : row[q].id = i => q = p
    BY <1>a, <2>1 DEF MovedFirst
  <2>5. /\ row'[p].id = i /\ row'[p].hash = b
        /\ \A q \in Path \ {p} : row'[q] = row[q]
    BY <2>1, <2>2, <2>3, <2>4 DEF Upsert
  <2>6. /\ row'[p] # NoRow
        /\ \A j \in Id : j # i => /\ flight'[j] = flight[j]
                                  /\ flight[j] # "none" => snap[j].path # p
        /\ flight'[i] = "none"
    <3>1. \A j \in Id : j # i /\ flight[j] # "none" => snap[j].path # p
      BY <1>c, <2>1 DEF NamesDiffer
    <3> QED
      BY <1>a, <2>1, <2>5, <3>1, NoneAssumption DEF NoRow, TypeOK
  <2> HIDE DEF p, b
  <2>7. \A q \in Path \ {p} : Landed(q) => Landed(q)'
    BY <2>1, <2>6 DEF Landed, p
  <2>8. DiskFollowsRows'
    BY <1>a, <2>1, <2>3, <2>5, <2>6, <2>7 DEF DiskFollowsRows
  <2>9. MovedFirst'
    <3>1. ASSUME NEW j \in Id, NEW q \in Path, flight'[j] # "none", row'[q].id = j
          PROVE  q = snap[j].path
      BY <1>a, <2>5, <2>6, <3>1 DEF MovedFirst
    <3> QED
      BY <2>1, <3>1 DEF MovedFirst
  <2>10. Cleared'
    BY <2>1 DEF Cleared
  <2> QED
    BY <1>a, <2>1, <2>3, <2>8, <2>9, <2>10 DEF Still, Scanned, NothingToDo
<1>10. ASSUME NEW i \in Id, RemoveLocal(i) PROVE Still'
  <2>1. /\ UNCHANGED <<snap, flight, phase, onDisk, sending, missing>>
        /\ disk' = [q \in Path |-> IF row[q].id = i THEN None ELSE disk[q]]
        /\ row' = Forget(row, Tracks(row, i)) /\ phase = "files"
        /\ \A j \in Id : flight[j] = "none"
    BY <1>10 DEF RemoveLocal, FilesDone
  <2>2. \A q \in Path :
          \/ row'[q] = row[q] /\ disk'[q] = disk[q]
          \/ row'[q] = NoRow /\ disk'[q] = None
    BY <2>1 DEF Forget, Tracks
  <2>3. DiskFollowsRows' /\ MovedFirst' /\ Cleared'
    BY <1>a, <2>1, <2>2 DEF DiskFollowsRows, Landed, MovedFirst, Cleared
  <2> QED
    BY <1>a, <2>1, <2>3 DEF Still, Scanned, NothingToDo
<1>11. CASE Scan \/ StartMissing \/ \E i \in Id : SkipQuarantined(i)
  <2>1. CASE Scan
    BY <1>d, <2>1 DEF Scan, server
  <2>2. CASE StartMissing
    <3>1. TrackedPaths \subseteq onDisk
      BY <1>a, <2>2 DEF StartMissing, TrackedPaths, DiskFollowsRows, Scanned, Present
    <3>2. missing' = {} /\ missing = {}
      BY <1>a, <2>2, <3>1 DEF StartMissing, NothingToDo
    <3> QED
      BY <1>d, <2>2, <3>2 DEF StartMissing, server
  <2>3. CASE \E i \in Id : SkipQuarantined(i)
    BY <1>a, <1>d, <2>3 DEF SkipQuarantined, Scanned, server
  <2> QED
    BY <1>11, <2>1, <2>2, <2>3
<1>12. ASSUME NEW p \in Path, SkipUnchanged(p) \/ SkipVanished(p) PROVE Still'
  BY <1>12, <1>a, <1>d DEF SkipUnchanged, SkipVanished, Scanned, server
<1>13. ASSUME NEW p \in Path PROVE ~BeginSend(p)
  <2>1. SUFFICES ASSUME BeginSend(p) PROVE FALSE
    OBVIOUS
  <2>2. ~Landed(p) /\ disk[p] # None /\ row[p].hash # disk[p]
    BY <1>b, <2>1 DEF BeginSend, Pushing, Landed, Applying
  <2> QED
    BY <1>a, <2>2 DEF DiskFollowsRows
<1>14. ASSUME NEW p \in Path PROVE sending.path # p /\ p \notin missing
  BY <1>a, NoneAssumption DEF NothingToDo, Nowhere
<1>15. ASSUME NEW p \in Path
       PROVE  /\ ~SendVersion(p) /\ ~SendVersionLost(p) /\ ~SendRefused(p)
              /\ ~DeleteMissing(p) /\ ~DeleteMissingLost(p) /\ ~DeleteMissingRefused(p)
              /\ \A j \in Id : ~SendNew(j, p) /\ ~SendAdopted(j, p) /\ ~SendNewLost(j, p)
  BY <1>14 DEF SendVersion, SendVersionLost, Version, SendRefused, Sending,
     DeleteMissing, DeleteMissingLost, DeleteMissingRefused, Handled, SendNew,
     SendAdopted, SendNewLost, Creatable
<1>16. CASE UNCHANGED vars
  BY <1>16, <1>a, <1>d DEF vars, pass, server, Scanned
<1> QED
  BY <1>a, <1>1, <1>3, <1>5, <1>6, <1>7, <1>8, <1>9, <1>10, <1>11, <1>12, <1>13,
     <1>15, <1>16 DEF Next, Work, Download

(* Nothing to send and nothing missing: only others change the server.      *)
LEMMA OthersWrite ==
  ASSUME Typed, PassiveInv, Passive, [Next]_vars, object' # object
  PROVE  OtherClients
<1>1. ASSUME NEW p \in Path PROVE sending.path # p /\ p \notin missing
  BY NoneAssumption DEF PassiveInv, Still, NothingToDo, Nowhere
<1>2. ASSUME NEW p \in Path
      PROVE  /\ ~SendVersion(p) /\ ~SendVersionLost(p)
             /\ ~DeleteMissing(p) /\ ~DeleteMissingLost(p)
             /\ \A j \in Id : ~SendNew(j, p) /\ ~SendAdopted(j, p) /\ ~SendNewLost(j, p)
  BY <1>1 DEF SendVersion, SendVersionLost, Version, Sending, DeleteMissing,
     DeleteMissingLost, Handled, SendNew, SendAdopted, SendNewLost, Creatable
<1>3. CASE User \/ Operator \/ StartVerify \/ StartFull
  BY <1>3 DEF User, UserWrite, UserRemove, Operator, Stop, RetryFailed, StartVerify,
     StartFull, Fetch, server
<1>4. CASE \E i \in Id : \/ SkipQuarantined(i) \/ Prepare(i) \/ Download(i)
                        \/ Collect(i) \/ CollectFailed(i) \/ RemoveLocal(i)
  BY <1>4 DEF SkipQuarantined, Prepare, Download, Stream, StreamRefused, Land, Collect,
     CollectFailed, RemoveLocal, server
<1>5. CASE EndVerify \/ Scan \/ StartMissing \/ EndPass
  BY <1>5 DEF EndVerify, Scan, StartMissing, EndPass, server
<1>6. CASE \E p \in Path :
             \/ BeginSend(p) \/ SkipUnchanged(p) \/ SkipVanished(p) \/ Abort(p)
             \/ SendRefused(p) \/ DeleteMissingRefused(p)
  BY <1>6 DEF BeginSend, SkipUnchanged, SkipVanished, Abort, SendRefused,
     DeleteMissingRefused, server
<1>7. CASE UNCHANGED vars
  BY <1>7 DEF vars, server
<1> QED
  BY <1>2, <1>3, <1>4, <1>5, <1>6, <1>7 DEF Next, Work

(* While its user changes nothing and its process goes on, a client changes *)
(* nothing on the server, whatever other clients create, edit, rename and   *)
(* delete and whichever downloads fail, as long as no file had to move onto *)
(* another one, no download was asked for over a file still to be moved,    *)
(* and no row was left without a hash.                                      *)
THEOREM PassiveWritesNothing == Spec => PassiveClientWritesNothing
<1> DEFINE I == Typed /\ AgreedInv /\ KeptInv /\ OneRow(row) /\ PassiveInv
<1>1. Init => I
  <2> SUFFICES ASSUME Init PROVE I
    OBVIOUS
  <2>1. KeptInv
    BY DEF Init, KeptInv, NamesDiffer, Unstarted, AwaitedIsSpare, Awaited, Live, Nothing
  <2>2. OneRow(row)
    BY DEF Init, OneRow
  <2>3. PassiveInv
    BY NoneAssumption DEF Init, PassiveInv, Still, DiskFollowsRows, MovedFirst, Cleared,
       Scanned, NothingToDo, NoRow
  <2> QED
    BY <2>1, <2>2, <2>3, TypedAtFirst
<1>2. I /\ [Next]_vars => I'
  <2> SUFFICES ASSUME I, [Next]_vars PROVE I'
    OBVIOUS
  <2>1. Typed' /\ AgreedInv' /\ KeptInv'
    BY TypedKept, AgreedKept, KeptInvKept
  <2>2. OneRow(row')
    BY StepKeepsOneRow
  <2>3. OneRow(row)'
    BY <2>2 DEF OneRow
  <2>4. Passive' => Still'
    BY StillKept DEF KeptInv, AgreedInv
  <2> QED
    BY <2>1, <2>3, <2>4 DEF PassiveInv
<1>3. I /\ [Next]_vars => [Passive /\ object' # object => OtherClients]_vars
  BY OthersWrite
<1> HIDE DEF I
<1> QED
  BY <1>1, <1>2, <1>3, PTL DEF Spec, PassiveClientWritesNothing
=============================================================================
