------------------------- MODULE LocalChangesProofs -------------------------
(***************************************************************************)
(* What TLAPS proves of LocalChanges for every set of directories, names,   *)
(* contents and ids, and whatever the scenarios allow: the types, and that  *)
(* the rows mirror the server for a user who takes nothing away while       *)
(* batches wait.                                                            *)
(***************************************************************************)
EXTENDS LocalChanges, TLAPS

Rows == [Path -> [id : Id, hash : Bytes] \cup {NoRow}]
Object == [state : {"live", "deleted"}, path : Path \cup {None},
           copy : BOOLEAN, bytes : Bytes \cup {None}]
Spent == [scenario : Scenarios, files : Nat, dirs : Nat, removals : Nat,
          failures : Nat, stops : Nat]

-----------------------------------------------------------------------------
(* Sequences of batches.                                                    *)

(* A batch goes to the end of the queue.                                    *)
LEMMA Appending ==
  ASSUME NEW q \in Seq(SUBSET Entry), NEW b \in SUBSET Entry
  PROVE  /\ Append(q, b) \in Seq(SUBSET Entry)
         /\ Len(q) \in Nat /\ Len(Append(q, b)) = Len(q) + 1
         /\ Append(q, b)[Len(q) + 1] = b
         /\ \A k \in 1..Len(q) : Append(q, b)[k] = q[k]
OBVIOUS

(* The first batch is taken off.                                            *)
LEMMA Taking ==
  ASSUME NEW q \in Seq(SUBSET Entry), q # <<>>
  PROVE  /\ Tail(q) \in Seq(SUBSET Entry) /\ Head(q) \subseteq Entry
         /\ Len(q) \in Nat \ {0} /\ Len(Tail(q)) = Len(q) - 1
         /\ Head(q) = q[1]
         /\ \A k \in 1..Len(Tail(q)) : Tail(q)[k] = q[k + 1]
OBVIOUS

-----------------------------------------------------------------------------
(* Types.                                                                   *)

(* The scenario stays, and no failure is taken back.                        *)
LEMMA Spending ==
  ASSUME TypeOK,
         \/ UNCHANGED spent
         \/ \E kind \in {"files", "dirs", "removals", "failures", "stops"} : Spend(kind)
  PROVE  spent' \in Spent /\ spent'.scenario = spent.scenario
         /\ spent.failures <= spent'.failures
BY DEF TypeOK, Spend, Spent

(* An upload goes to a path.                                                *)
LEMMA Placing ==
  ASSUME TypeOK, NEW p \in Path
  PROVE  Place(p) \in Path
BY DEF TypeOK, Place, FolderOf, Path, Parent

(* A tracked file has a whole row.                                          *)
LEMMA RowOf ==
  ASSUME TypeOK, NEW p \in Tracked
  PROVE  row[p] \in [id : Id, hash : Bytes]
BY DEF TypeOK, Tracked

(* A live object is an object.                                              *)
LEMMA LiveOne ==
  ASSUME TypeOK, NEW i \in Live
  PROVE  object[i] \in Object /\ object[i].state = "live"
BY DEF TypeOK, Live, Object, NoObject

(* What a request leaves behind.                                            *)
Tables ==
  /\ known' \subseteq Dir /\ folders' \subseteq Dir
  /\ row' \in Rows /\ object' \in [Id -> Object \cup {NoObject}]

(* The rows with one recorded are rows.                                     *)
LEMMA Recording ==
  ASSUME TypeOK, NEW p \in Path, NEW i \in Id, NEW b \in Bytes
  PROVE  Recorded(p, i, b) \in Rows
BY DEF TypeOK, Recorded, Rows

(* An upload adopts the object that bears the name, or makes one.           *)
Adopts(p, i) == i \in Holding(Place(p)) /\ UNCHANGED object
Creates(p, i) ==
  /\ object[i].state = "absent"
  /\ object' = Stored(i, Place(p), disk[p], Holding(Place(p)) # {})

(* An upload is one of the two, whatever the server holds.                  *)
LEMMA Uploading ==
  ASSUME TypeOK, NEW p \in Present, Upload(p)
  PROVE  /\ UNCHANGED <<known, folders>>
         /\ \E i \in Id : /\ row' = Recorded(p, i, disk[p])
                          /\ Adopts(p, i) \/ Creates(p, i)
<1>1. PICK i \in Id : Upload(p)!(i)
  BY DEF Upload
<1> DEFINE same == {j \in Holding(Place(p)) : object[j].bytes = disk[p]}
<1>2. CASE same # {}
  BY <1>1, <1>2 DEF Adopts, Holding, Live, Upload
<1>3. CASE same = {}
  BY <1>1, <1>3 DEF Creates, NextId
<1>. QED BY <1>2, <1>3, <1>1 DEF Upload

(* Upload keeps the tables.                                                 *)
LEMMA UploadTypes ==
  ASSUME TypeOK, NEW p \in Present, Upload(p)
  PROVE  Tables
<1>1. disk[p] \in Bytes /\ p \in Path
  BY DEF Present, TypeOK
<1>2. PICK i \in Id : row' = Recorded(p, i, disk[p]) /\ (Adopts(p, i) \/ Creates(p, i))
  BY Uploading
<1>3. row' \in Rows
  BY <1>1, <1>2, Recording
<1>4. object' \in [Id -> Object \cup {NoObject}]
  <2>1. CASE Adopts(p, i)
    BY <2>1 DEF Adopts, TypeOK, Object
  <2>2. CASE Creates(p, i)
    <3>1. ASSUME NEW c \in BOOLEAN
          PROVE  Stored(i, Place(p), disk[p], c) \in [Id -> Object \cup {NoObject}]
      <4>1. [state |-> "live", path |-> Place(p), copy |-> c, bytes |-> disk[p]] \in Object
        BY <1>1, Placing DEF Object
      <4>. QED BY <4>1 DEF Stored, TypeOK, Object
    <3>2. (Holding(Place(p)) # {}) \in BOOLEAN
      OBVIOUS
    <3>. QED BY <2>2, <3>1, <3>2 DEF Creates
  <2>. QED BY <1>2, <2>1, <2>2
<1>. QED BY <1>3, <1>4, Uploading DEF Tables, TypeOK

(* Version keeps the tables.                                                *)
LEMMA VersionTypes ==
  ASSUME TypeOK, NEW p \in Present \cap Tracked, Version(p)
  PROVE  Tables
<1>1. disk[p] \in Bytes /\ p \in Path /\ row[p].id \in Id
  BY RowOf DEF Present, TypeOK
<1>2. row' \in Rows
  BY <1>1, RowOf DEF Version, Rows, TypeOK
<1>3. object' \in [Id -> Object \cup {NoObject}]
  BY <1>1, LiveOne DEF Version, TypeOK, Object
<1>. QED BY <1>2, <1>3 DEF Version, Tables, TypeOK

(* Objects marked deleted are objects.                                      *)
LEMMA DeletedTypes ==
  ASSUME TypeOK, NEW ids \in SUBSET Live
  PROVE  Deleted(ids) \in [Id -> Object \cup {NoObject}]
BY LiveOne DEF Deleted, TypeOK, Object

(* Deletions and a new folder keep the tables.                              *)
LEMMA DropTypes ==
  ASSUME TypeOK, \/ \E p \in Tracked : DropFile(p)
                 \/ \E d \in Dir : DropFolder(d)
                 \/ \E d \in Dir : MakeKnown(d)
  PROVE  Tables
<1>1. ASSUME NEW p \in Tracked, DropFile(p) PROVE Tables
  <2>1. row' \in Rows
    BY <1>1 DEF DropFile, Rows, TypeOK
  <2>. QED BY <1>1, <2>1, DeletedTypes DEF DropFile, Tables, TypeOK
<1>2. ASSUME NEW d \in Dir, DropFolder(d) PROVE Tables
  BY <1>2, DeletedTypes DEF DropFolder, Tables, TypeOK, Rows
<1>3. ASSUME NEW d \in Dir, MakeKnown(d) PROVE Tables
  BY <1>3 DEF MakeKnown, Tables, TypeOK, Rows, Object
<1>. QED BY <1>1, <1>2, <1>3

Disks == [Path -> Bytes \cup {None}]
LocalOK == made \subseteq Dir /\ disk \in Disks
EventsOK == watching \in BOOLEAN /\ pending \subseteq Entry /\ queue \in Seq(SUBSET Entry)
WorkOK ==
  /\ phase \in {"start", "idle", "batch", "folders", "files"}
  /\ todo \subseteq Entry /\ children \subseteq Path /\ missing \subseteq Entry
TablesOK ==
  /\ known \subseteq Dir /\ folders \subseteq Dir
  /\ row \in Rows /\ object \in [Id -> Object \cup {NoObject}]

(* TypeOK, part by part.                                                    *)
LEMMA TypeParts ==
  TypeOK <=> LocalOK /\ TablesOK /\ EventsOK /\ WorkOK /\ spent \in Spent
BY DEF TypeOK, LocalOK, TablesOK, EventsOK, WorkOK, Spent, Disks, Rows, Object

(* The same of the next state.                                              *)
LEMMA TypePartsNext ==
  LocalOK' /\ TablesOK' /\ EventsOK' /\ WorkOK' /\ spent' \in Spent => TypeOK'
BY DEF TypeOK, LocalOK, TablesOK, EventsOK, WorkOK, Spent, Disks, Rows, Object

(* The types, after a step of the user.                                     *)
LEMMA UserTypes ==
  ASSUME TypeOK, User
  PROVE  TypeOK'
<1>1. UNCHANGED <<rows, server, watching, queue, work>>
  BY DEF User, Write, Remove, Rename, MakeDir, RemoveDir, RenameDir, Unseen
<1>2. spent' \in Spent
  <2>1. \E kind \in {"files", "dirs", "removals", "failures", "stops"} : Spend(kind)
    BY DEF User, Write, Remove, Rename, MakeDir, RemoveDir, RenameDir
  <2>. QED BY <2>1, Spending
<1>3. pending' \subseteq Entry /\ LocalOK'
  <2>. USE DEF Entry, TypeOK, Notice, LocalOK, Present, Disks
  <2>1. ASSUME NEW p \in Path, NEW b \in Bytes, Write(p, b)
        PROVE  pending' \subseteq Entry /\ LocalOK'
    BY <2>1 DEF Write
  <2>2. ASSUME NEW p \in Path, Remove(p)
        PROVE  pending' \subseteq Entry /\ LocalOK'
    BY <2>2 DEF Remove
  <2>3. ASSUME NEW p \in Path, NEW q \in Path, Rename(p, q)
        PROVE  pending' \subseteq Entry /\ LocalOK'
    BY <2>3 DEF Rename
  <2>4. ASSUME NEW d \in Dir, MakeDir(d)
        PROVE  pending' \subseteq Entry /\ LocalOK'
    BY <2>4 DEF MakeDir
  <2>5. ASSUME NEW d \in Dir, RemoveDir(d)
        PROVE  pending' \subseteq Entry /\ LocalOK'
    BY <2>5 DEF RemoveDir
  <2>6. ASSUME NEW d \in Dir, NEW e \in Dir, RenameDir(d, e)
        PROVE  pending' \subseteq Entry /\ LocalOK'
    <3>1. \A p \in Path : <<d, p[2]>> \in Path
      BY DEF Path
    <3>. QED BY <2>6, <3>1 DEF RenameDir
  <2>. QED BY <2>1, <2>2, <2>3, <2>4, <2>5, <2>6 DEF User
<1>. QED
  BY <1>1, <1>2, <1>3, TypeParts, TypePartsNext
     DEF rows, server, work, TablesOK, EventsOK, WorkOK, Rows

(* The types, after a step of the watcher or of the loop that waits.        *)
LEMMA LoopTypes ==
  ASSUME TypeOK, Watcher \/ Stop \/ Receive \/ Poll
  PROVE  TypeOK'
<1>1. ASSUME NEW batch \in SUBSET pending, Debounce(batch)
      PROVE  TypeOK'
  <2>1. EventsOK'
    BY <1>1, Appending DEF Debounce, TypeOK, EventsOK
  <2>. QED BY <1>1, <2>1, TypeParts, TypePartsNext
           DEF Debounce, rows, server, work, local, TablesOK, WorkOK, LocalOK
<1>2. CASE Stop
  <2>1. EventsOK' /\ WorkOK'
    <3>1. <<>> \in Seq(SUBSET Entry)
      OBVIOUS
    <3>. QED BY <1>2, <3>1 DEF Stop, EventsOK, WorkOK
  <2>2. spent' \in Spent
    BY <1>2, Spending DEF Stop
  <2>. QED BY <1>2, <2>1, <2>2, TypeParts, TypePartsNext
           DEF Stop, rows, server, local, TablesOK, LocalOK
<1>3. CASE Receive
  <2>1. EventsOK' /\ WorkOK'
    BY <1>3, Taking DEF Receive, TypeOK, EventsOK, WorkOK
  <2>. QED BY <1>3, <2>1, TypeParts, TypePartsNext
           DEF Receive, rows, server, local, TablesOK, LocalOK
<1>4. CASE Poll
  <2>1. WorkOK'
    BY <1>4 DEF Poll, TypeOK, WorkOK, Entry
  <2>. QED BY <1>4, <2>1, TypeParts, TypePartsNext
           DEF Poll, rows, server, local, events, TablesOK, LocalOK, EventsOK
<1>. QED BY <1>1, <1>2, <1>3, <1>4 DEF Watcher

(* The types, after a step of a batch.                                      *)
LEMMA BatchTypes ==
  ASSUME TypeOK, Batch
  PROVE  TypeOK'
<1>. USE DEF TablesOK, LocalOK, EventsOK, WorkOK
<1>1. ASSUME Steady, Tables, todo' \subseteq Entry, children' \subseteq Path,
             missing' \subseteq Entry
      PROVE  TypeOK'
  BY <1>1, TypeParts, TypePartsNext DEF Steady, Tables, local, events
<1>2. ASSUME UNCHANGED <<rows, server>> PROVE Tables
  BY <1>2, TypeParts DEF Tables, rows, server, Rows
<1>3. ASSUME NEW p \in Path, PushChild(p) PROVE TypeOK'
  <2>1. Tables
    BY <1>2, <1>3, UploadTypes DEF PushChild
  <2>. QED BY <1>1, <1>3, <2>1, TypeParts DEF PushChild
<1>4. ASSUME NEW p \in Path, PushChanged(p) PROVE TypeOK'
  BY <1>1, <1>4, VersionTypes, TypeParts DEF PushChanged, Through
<1>5. ASSUME NEW p \in Path, PushNew(p) PROVE TypeOK'
  BY <1>1, <1>5, UploadTypes, TypeParts DEF PushNew, Through
<1>6. ASSUME NEW p \in Path, NEW q \in Path, Move(p, q) PROVE TypeOK'
  <2>1. /\ row[q].id \in Live /\ disk[p] \in Bytes /\ q \in Tracked
        /\ UNCHANGED <<known, folders>>
    BY <1>6 DEF Move, Alike, Present, TypeOK
  <2>2. row' \in Rows
    <3>1. [id |-> row[q].id, hash |-> disk[p]] \in [id : Id, hash : Bytes]
      BY <2>1 DEF Live
    <3>. QED BY <1>6, <3>1 DEF Move, TypeOK, Rows
  <2>3. object' \in [Id -> Object \cup {NoObject}]
    <3>1. PICK c \in BOOLEAN :
            object' = [object EXCEPT ![row[q].id].path = Place(p), ![row[q].id].copy = c]
      BY <1>6 DEF Move
    <3>2. [object[row[q].id] EXCEPT !.path = Place(p), !.copy = c] \in Object
      BY <2>1, LiveOne, Placing DEF Object
    <3>3. object' = [object EXCEPT ![row[q].id] =
                       [object[row[q].id] EXCEPT !.path = Place(p), !.copy = c]]
      BY <2>1, <3>1 DEF TypeOK, Live
    <3>. QED BY <2>1, <3>2, <3>3, TypeParts DEF TablesOK
  <2>4. Tables
    BY <2>1, <2>2, <2>3, TypeParts DEF Tables
  <2>. QED BY <1>1, <1>6, <2>4, TypeParts DEF Move, Through
<1>7. ASSUME NEW d \in Dir, NewDir(d) PROVE TypeOK'
  <2>1. children' \subseteq Path /\ MakeKnown(d)
    BY <1>7 DEF NewDir, Present
  <2>. QED BY <1>1, <1>7, <2>1, DropTypes, TypeParts DEF NewDir, Through
<1>8. ASSUME NEW x \in Entry, SkipKnown(x) PROVE TypeOK'
  BY <1>1, <1>2, <1>8, TypeParts DEF SkipKnown, Through
<1>9. ASSUME NEW x \in Entry, DeletePath(x) PROVE TypeOK'
  <2>1. Tables
    BY <1>2, <1>9, DropTypes, TypeParts DEF DeletePath
  <2>. QED BY <1>1, <1>9, <2>1, TypeParts DEF DeletePath
<1>10. CASE EndBatch \/ \E x \in Entry : BatchFails(x)
  <2>1. Resting /\ UNCHANGED <<local, rows, server, events>>
    BY <1>10 DEF EndBatch, BatchFails
  <2>2. UNCHANGED spent \/ Spend("failures")
    BY <1>10 DEF EndBatch, BatchFails
  <2>. QED BY <2>1, <2>2, Spending, TypeParts, TypePartsNext
           DEF Resting, local, rows, server, events
<1>. QED
  BY <1>3, <1>4, <1>5, <1>6, <1>7, <1>8, <1>9, <1>10 DEF Batch

(* The types, after a step of a pass.                                       *)
LEMMA PassTypes ==
  ASSUME TypeOK, Pass
  PROVE  TypeOK'
<1>. USE DEF TablesOK, LocalOK, EventsOK, WorkOK
<1>1. ASSUME UNCHANGED <<rows, server>> PROVE Tables
  BY <1>1, TypeParts DEF Tables, rows, server, Rows
<1>2. ASSUME NEW d \in Dir, PollFolder(d) PROVE TypeOK'
  <2>1. Tables /\ made' \subseteq Dir
    BY <1>1, <1>2, DropTypes, TypeParts DEF PollFolder
  <2>2. spent' \in Spent
    BY <1>2, Spending DEF PollFolder
  <2>. QED BY <1>2, <2>1, <2>2, TypeParts, TypePartsNext
           DEF PollFolder, Through, events, Tables
<1>3. ASSUME NEW p \in Path, PollFile(p) PROVE TypeOK'
  <2>1. Tables
    BY <1>1, <1>3, UploadTypes, VersionTypes DEF PollFile, Push
  <2>2. spent' \in Spent
    BY <1>3, Spending DEF PollFile
  <2>. QED BY <1>3, <2>1, <2>2, TypeParts, TypePartsNext
           DEF PollFile, Through, events, local, Tables
<1>4. ASSUME NEW p \in Path, PollVanished(p) PROVE TypeOK'
  <2>1. EventsOK' /\ WorkOK'
    BY <1>4, TypeParts DEF PollVanished, EndsWork, Resting, Through
  <2>. QED BY <1>4, <2>1, TypeParts, TypePartsNext
           DEF PollVanished, rows, server, local
<1>5. ASSUME NEW p \in Path, PollMissing(p) PROVE TypeOK'
  <2>1. Tables
    BY <1>1, <1>5, DropTypes DEF PollMissing
  <2>2. spent' \in Spent
    BY <1>5, Spending DEF PollMissing
  <2>. QED BY <1>5, <2>1, <2>2, TypeParts, TypePartsNext
           DEF PollMissing, events, local, Tables
<1>6. CASE ScanFiles
  <2>1. WorkOK'
    BY <1>6, TypeParts DEF ScanFiles, Present, Tracked, Entry
  <2>. QED BY <1>6, <2>1, TypeParts, TypePartsNext
           DEF ScanFiles, rows, server, local, events
<1>7. CASE EndPass
  <2>1. EventsOK' /\ WorkOK'
    BY <1>7, TypeParts DEF EndPass, EndsWork, Resting
  <2>. QED BY <1>7, <2>1, TypeParts, TypePartsNext
           DEF EndPass, rows, server, local
<1>. QED
  BY <1>2, <1>3, <1>4, <1>5, <1>6, <1>7 DEF Pass

(* The types, at the start.                                                 *)
LEMMA InitTypes == Init => TypeOK
<1>. SUFFICES ASSUME Init PROVE TypeOK
  OBVIOUS
<1>1. LocalOK /\ TablesOK /\ EventsOK /\ WorkOK
  <2>1. <<>> \in Seq(SUBSET Entry)
    OBVIOUS
  <2>. QED
    BY <2>1 DEF Init, LocalOK, TablesOK, EventsOK, WorkOK, Disks, Rows
<1>2. spent \in Spent
  BY DEF Init, Spent
<1>. QED BY <1>1, <1>2, TypeParts

(* The types, after any step.                                               *)
LEMMA TypesKept == TypeOK /\ [Next]_vars => TypeOK'
<1>. SUFFICES ASSUME TypeOK, [Next]_vars PROVE TypeOK'
  OBVIOUS
<1>1. CASE UNCHANGED vars
  BY <1>1, TypeParts, TypePartsNext
     DEF vars, local, rows, server, events, work,
         LocalOK, TablesOK, EventsOK, WorkOK, Rows
<1>2. CASE Next
  BY <1>2, UserTypes, LoopTypes, BatchTypes, PassTypes DEF Next
<1>. QED BY <1>1, <1>2

(* The disk, the state database, the server and the loop hold what they can *)
(* hold, whatever the user, the watcher and the timer do.                   *)
THEOREM TypeCorrect == Spec => []TypeOK
BY InitTypes, TypesKept, PTL DEF Spec

-----------------------------------------------------------------------------
(* The rows mirror the server: what one request does.                       *)

(* A file goes where it lies if its directory has a row.                    *)
LEMMA PlacedAsIs ==
  ASSUME NEW p \in Path, Parent(p) \in known \cup {Top}
  PROVE  Place(p) = p
BY DEF Place, FolderOf, Parent, Path

(* Two rows name two objects.                                               *)
LEMMA RowsDiffer ==
  ASSUME RowsMirrorServer, NEW p \in Tracked, NEW q \in Tracked, row[p].id = row[q].id
  PROVE  p = q
BY DEF RowsMirrorServer

(* A tracked file has a live object.                                        *)
LEMMA TrackedLive ==
  ASSUME TypeOK, RowsMirrorServer, NEW p \in Tracked
  PROVE  row[p].id \in Live
BY RowOf DEF RowsMirrorServer, Live

(* An upload of an untracked file makes its object and its row.             *)
LEMMA UploadMirrors ==
  ASSUME TypeOK, RowsMirrorServer, NEW p \in Present \ Tracked,
         Parent(p) \in known \cup {Top}, Upload(p)
  PROVE  RowsMirrorServer'
<1>1. p \in Path /\ disk[p] \in Bytes /\ disk[p] # None
  BY DirAssumption DEF Present, TypeOK
<1>2. Holding(p) = {}
  BY DEF Holding, RowsMirrorServer
<1>3. PICK i \in Id : row' = Recorded(p, i, disk[p]) /\ Creates(p, i)
  BY <1>1, <1>2, Uploading, PlacedAsIs DEF Adopts
<1>4. object' = [object EXCEPT ![i] =
                   [state |-> "live", path |-> p, copy |-> FALSE, bytes |-> disk[p]]]
  BY <1>1, <1>2, <1>3, PlacedAsIs DEF Creates, Stored
<1>5. /\ object'[i] = [state |-> "live", path |-> p, copy |-> FALSE, bytes |-> disk[p]]
      /\ \A j \in Id \ {i} : object'[j] = object[j]
  BY <1>4 DEF TypeOK
<1>6. i \notin Live
  BY <1>3 DEF Creates, Live
<1>7. Tracked' = Tracked \cup {p} /\ row'[p] = [id |-> i, hash |-> disk[p]]
      /\ \A q \in Tracked : row'[q] = row[q] /\ row[q].id # i
  <2>1. \A q \in Tracked : row[q].id # i
    BY <1>6, TrackedLive
  <2>2. \A q \in Path \ {p} : row'[q] = row[q]
    BY <1>3, <2>1 DEF Recorded, Tracked
  <2>3. row'[p] = [id |-> i, hash |-> disk[p]] /\ row'[p] # NoRow
    BY <1>1, <1>3 DEF Recorded, NoRow
  <2>. QED BY <1>1, <2>1, <2>2, <2>3 DEF Tracked
<1>8. Live' = Live \cup {i}
  BY <1>5 DEF Live
<1>9. ASSUME NEW q \in Tracked'
      PROVE  LET o == object'[row'[q].id] IN o.state = "live" /\ o.path = q /\ ~o.copy
  <2>1. CASE q = p
    BY <1>5, <1>7, <2>1
  <2>2. CASE q # p
    <3>1. q \in Tracked /\ row'[q] = row[q] /\ row[q].id \in Id \ {i}
      BY <1>7, <2>2, RowOf
    <3>. QED BY <1>5, <3>1 DEF RowsMirrorServer
  <2>. QED BY <2>1, <2>2
<1>10. ASSUME NEW j \in Live' PROVE \E q \in Tracked' : row'[q].id = j
  BY <1>7, <1>8 DEF RowsMirrorServer
<1>. QED BY <1>9, <1>10 DEF RowsMirrorServer

(* A new version keeps names, ids and the other rows.                       *)
LEMMA VersionMirrors ==
  ASSUME TypeOK, RowsMirrorServer, NEW p \in Present \cap Tracked, Version(p)
  PROVE  RowsMirrorServer'
<1>1. disk[p] # None /\ p \in Path
  BY DEF Present
<1>2. Tracked' = Tracked /\ \A q \in Tracked : row'[q].id = row[q].id
  <2>1. row'[p] # NoRow /\ row'[p].id = row[p].id
    BY <1>1, RowOf DEF Version, TypeOK, NoRow
  <2>2. \A q \in Path \ {p} : row'[q] = row[q]
    BY DEF Version, TypeOK
  <2>. QED BY <1>1, <2>1, <2>2 DEF Tracked
<1>3. \A j \in Id : /\ object'[j].state = object[j].state
                    /\ object'[j].path = object[j].path
                    /\ object'[j].copy = object[j].copy
  BY DEF Version, TypeOK, NoObject
<1>4. Live' = Live
  BY <1>3 DEF Live
<1>. QED BY <1>2, <1>3, <1>4, RowOf DEF RowsMirrorServer

(* A deleted file takes its object and its row along.                       *)
LEMMA DropFileMirrors ==
  ASSUME TypeOK, RowsMirrorServer, NEW p \in Tracked, DropFile(p)
  PROVE  RowsMirrorServer'
<1>1. Tracked' = Tracked \ {p} /\ \A q \in Tracked \ {p} : row'[q] = row[q]
  BY DEF DropFile, Tracked, TypeOK
<1>2. \A j \in Id \ {row[p].id} : object'[j] = object[j]
  BY DEF DropFile, Deleted
<1>3. Live' = Live \ {row[p].id}
  BY <1>2, RowOf DEF DropFile, Deleted, Live, TypeOK, NoObject
<1>4. \A q \in Tracked \ {p} : row[q].id \in Id \ {row[p].id}
  BY RowOf, RowsDiffer
<1>. QED BY <1>1, <1>2, <1>3, <1>4 DEF RowsMirrorServer

(* A folder without tracked files takes no object along.                    *)
LEMMA DropFolderMirrors ==
  ASSUME TypeOK, RowsMirrorServer, NEW d \in Dir, ~StillTracked(d), DropFolder(d)
  PROVE  RowsMirrorServer'
<1>1. {i \in Live : object[i].path[1] = d} = {}
  BY DEF StillTracked, Parent, RowsMirrorServer
<1>2. object' = object
  BY <1>1 DEF DropFolder, Deleted, TypeOK
<1>. QED BY <1>2 DEF DropFolder, RowsMirrorServer, Tracked, Live

(* A move takes the object and the row to the new name.                     *)
LEMMA MoveMirrors ==
  ASSUME TypeOK, RowsMirrorServer, NEW p \in Present \ Tracked, NEW q \in Path,
         Parent(p) \in known \cup {Top}, Move(p, q)
  PROVE  RowsMirrorServer'
<1>1. p \in Path /\ disk[p] # None /\ q \in Tracked /\ p # q
  BY DEF Present, Move, Alike
<1>. DEFINE i == row[q].id
<1>2. i \in Live /\ i \in Id
  BY DEF Move, Live
<1>3. Holding(p) = {}
  BY DEF Holding, RowsMirrorServer
<1>4. /\ object'[i].path = p /\ ~object'[i].copy /\ object'[i].state = "live"
      /\ \A j \in Id \ {i} : object'[j] = object[j]
  <2>1. object' = [object EXCEPT ![i].path = p, ![i].copy = FALSE]
    BY <1>1, <1>3, PlacedAsIs DEF Move
  <2>. QED BY <1>2, <2>1, LiveOne DEF TypeOK, Object
<1>5. /\ Tracked' = (Tracked \ {q}) \cup {p}
      /\ row'[p].id = i
      /\ \A x \in Tracked \ {q} : row'[x] = row[x]
  <2>1. /\ row'[q] = NoRow /\ row'[p] = [id |-> i, hash |-> disk[p]]
        /\ \A x \in Path \ {p, q} : row'[x] = row[x]
    BY <1>1 DEF Move, TypeOK
  <2>2. row'[p] # NoRow
    BY <1>1, <2>1 DEF NoRow
  <2>. QED BY <1>1, <2>1, <2>2 DEF Tracked
<1>6. Live' = Live
  BY <1>2, <1>4 DEF Live
<1>7. \A x \in Tracked \ {q} : row[x].id \in Id \ {i}
  BY <1>1, RowOf, RowsDiffer
<1>8. ASSUME NEW x \in Tracked'
      PROVE  LET o == object'[row'[x].id] IN o.state = "live" /\ o.path = x /\ ~o.copy
  <2>1. CASE x = p
    BY <1>4, <1>5, <2>1
  <2>2. CASE x # p
    BY <1>4, <1>5, <1>7, <2>2 DEF RowsMirrorServer
  <2>. QED BY <2>1, <2>2
<1>9. ASSUME NEW j \in Live' PROVE \E x \in Tracked' : row'[x].id = j
  <2>1. PICK x \in Tracked : row[x].id = j
    BY <1>6 DEF RowsMirrorServer
  <2>. QED BY <1>5, <2>1
<1>. QED BY <1>8, <1>9 DEF RowsMirrorServer

-----------------------------------------------------------------------------
(* The inductive invariant.                                                 *)

(* What Mirrored speaks of.                                                 *)
Tidy == Sorted /\ ~Hasty /\ spent.failures = 0

(* A file lies in a directory.                                              *)
InTree == \A p \in Present : Parent(p) \in made \cup {Top}

(* The loop watches while it waits and pushes, and hears nothing before.    *)
Watched ==
  /\ phase \in {"idle", "batch"} => watching
  /\ ~watching => pending = {} /\ queue = <<>>
  /\ phase # "batch" => children = {}

(* What the loop has before it is still so on the disk.                     *)
Lists ==
  /\ phase \in {"start", "idle"} => todo = {} /\ missing = {}
  /\ phase = "folders" => made \ known \subseteq todo /\ todo \subseteq made
  /\ phase = "files" => made \subseteq known /\ todo \subseteq Present
  /\ phase = "batch" =>
       /\ \A x \in todo : Exists(x)
       /\ children \subseteq Present /\ \A p \in children : Parent(p) \in known
       /\ todo \cap missing = {}

(* A directory on the disk that has its row and keeps it, one the batch is  *)
(* going to make known, and one that is on its way to the loop.             *)
Sure(d) == d \in made \cap known /\ ~(phase = "batch" /\ d \in missing)
InHand(d) == phase = "batch" /\ d \in todo
Waits(d, n) == \E k \in 1..n : d \in queue[k]

(* Every directory on the disk is one of these.                             *)
Heard ==
  watching => \A d \in made :
    Sure(d) \/ InHand(d) \/ d \in pending \/ Waits(d, Len(queue))

(* A batch with a file of a directory that is gone has the directory too.   *)
GoneTogether == \A p \in Path : Parent(p) \notin made \cup {Top} =>
  /\ p \in pending => Parent(p) \in pending
  /\ \A k \in 1..Len(queue) : p \in queue[k] => Parent(p) \in queue[k]

(* No file comes before its directory.                                      *)
DirsFirst == \A p \in Path : Parent(p) # Top =>
  /\ \A k \in 1..Len(queue) : p \in queue[k] =>
       Sure(Parent(p)) \/ InHand(Parent(p)) \/ Waits(Parent(p), k)
  /\ phase = "batch" /\ p \in todo => Parent(p) \in known \/ Parent(p) \in todo

Order == Heard /\ GoneTogether /\ DirsFirst
TidyInv == Lists /\ Order /\ RowsMirrorServer
MirrorInv == InTree /\ Watched /\ (Tidy => TidyInv)

(* A scenario stays the same, and failures are not taken back.              *)
LEMMA TidyBefore ==
  ASSUME TypeOK, [Next]_vars, Tidy'
  PROVE  Tidy /\ ~Spend("failures")
<1>1. \/ UNCHANGED spent
      \/ \E kind \in {"files", "dirs", "removals", "failures", "stops"} : Spend(kind)
  <2>1. CASE User
    BY <2>1 DEF User, Write, Remove, Rename, MakeDir, RemoveDir, RenameDir
  <2>2. CASE Watcher \/ Stop \/ Receive \/ Poll
    BY <2>2 DEF Watcher, Debounce, Stop, Receive, Poll
  <2>3. CASE Batch
    BY <2>3 DEF Batch, PushChild, PushChanged, PushNew, Move, NewDir, SkipKnown,
                DeletePath, BatchFails, EndBatch, Steady
  <2>4. CASE Pass
    BY <2>4 DEF Pass, PollFolder, PollFile, PollVanished, PollMissing, ScanFiles, EndPass
  <2>5. CASE UNCHANGED vars
    BY <2>5 DEF vars
  <2>. QED BY <2>1, <2>2, <2>3, <2>4, <2>5 DEF Next
<1>2. spent' \in Spent /\ spent'.scenario = spent.scenario
      /\ spent.failures <= spent'.failures
  BY <1>1, Spending
<1>3. spent.failures \in Nat
  BY DEF TypeOK
<1>4. spent.failures = 0 /\ Tidy
  BY <1>2, <1>3 DEF Tidy, Sorted, Hasty
<1>5. ~Spend("failures")
  <2>1. SUFFICES ASSUME Spend("failures") PROVE FALSE
    OBVIOUS
  <2>2. spent'.failures = spent.failures + 1
    BY <2>1 DEF Spend, TypeOK
  <2>. QED BY <1>4, <2>2 DEF Tidy
<1>. QED BY <1>4, <1>5

(* Every step keeps files in directories, and the watch.                    *)
LEMMA TreeKept ==
  ASSUME TypeOK, InTree, Watched, [Next]_vars
  PROVE  InTree' /\ Watched'
<1>. USE DEF InTree, Present, Watched
<1>1. CASE User
  <2>. USE DEF Unseen, Notice, work
  <2>1. ASSUME NEW p \in Path, NEW b \in Bytes, Write(p, b) PROVE InTree' /\ Watched'
    BY <2>1 DEF Write, TypeOK
  <2>2. ASSUME NEW p \in Path, Remove(p) PROVE InTree' /\ Watched'
    BY <2>2 DEF Remove, TypeOK
  <2>3. ASSUME NEW p \in Path, NEW q \in Path, Rename(p, q) PROVE InTree' /\ Watched'
    BY <2>3 DEF Rename, TypeOK
  <2>4. ASSUME NEW d \in Dir, MakeDir(d) PROVE InTree' /\ Watched'
    BY <2>4 DEF MakeDir, TypeOK
  <2>5. ASSUME NEW d \in Dir, RemoveDir(d) PROVE InTree' /\ Watched'
    BY <2>5 DEF RemoveDir, TypeOK
  <2>6. ASSUME NEW d \in Dir, NEW e \in Dir, RenameDir(d, e) PROVE InTree' /\ Watched'
    BY <2>6 DEF RenameDir, TypeOK
  <2>. QED BY <1>1, <2>1, <2>2, <2>3, <2>4, <2>5, <2>6 DEF User
<1>2. CASE Watcher \/ Stop \/ Receive \/ Poll
  BY <1>2 DEF Watcher, Debounce, Stop, Receive, Poll, local, work, events, Resting
<1>3. CASE Batch
  <2>1. /\ UNCHANGED <<local, events>> /\ phase = "batch"
        /\ phase' = "batch" \/ (phase' = "idle" /\ children' = {})
    BY <1>3 DEF Batch, PushChild, PushChanged, PushNew, Move, NewDir, SkipKnown,
                DeletePath, BatchFails, EndBatch, Steady, NextPath, Settled, Resting
  <2>. QED BY <2>1 DEF local, events
<1>4. CASE Pass
  <2>1. disk' = disk /\ made \subseteq made'
    BY <1>4 DEF Pass, PollFolder, PollFile, PollVanished, PollMissing, ScanFiles,
                EndPass, local
  <2>2. /\ UNCHANGED <<pending, queue>> /\ phase # "batch" /\ children' = {}
        /\ \/ watching' = watching /\ phase' \in {"folders", "files"}
           \/ watching' = TRUE
    BY <1>4 DEF Pass, PollFolder, PollFile, PollVanished, PollMissing, ScanFiles,
                EndPass, EndsWork, Resting, events
  <2>. QED BY <2>1, <2>2
<1>5. CASE UNCHANGED vars
  BY <1>5 DEF vars, local, events, work
<1>. QED BY <1>1, <1>2, <1>3, <1>4, <1>5 DEF Next

-----------------------------------------------------------------------------
(* The user.                                                                *)

(* The user adds at any time, and takes away when no batch waits.           *)
LEMMA UserKeepsOrder ==
  ASSUME TypeOK, MirrorInv, Tidy, User, Tidy'
  PROVE  TidyInv'
<1>1. /\ phase \in {"start", "idle", "batch"}
      /\ UNCHANGED <<rows, server, watching, queue, work>>
  BY DEF User, Write, Remove, Rename, MakeDir, RemoveDir, RenameDir, Unseen, Tidy, TypeOK
<1>2. RowsMirrorServer'
  BY <1>1 DEF MirrorInv, TidyInv, RowsMirrorServer, Tracked, Live, rows, server
<1>3. Lists /\ Order /\ InTree /\ Watched
  BY DEF MirrorInv, TidyInv
<1>4. UNCHANGED <<known, row, watching, queue, phase, todo, children, missing>>
  BY <1>1 DEF rows, work
(* What adds to the disk does no harm at any time.                          *)
<1>5. ASSUME made \subseteq made', Present \subseteq Present', pending \subseteq pending',
             watching => made' \ made \subseteq pending',
             \A p \in Path : p \in pending' \ pending => Parent(p) \in made' \cup {Top}
      PROVE  Lists' /\ Order'
  <2>1. Lists'
    BY <1>1, <1>3, <1>4, <1>5 DEF Lists, Exists
  <2>2. \A d : /\ Sure(d) => Sure(d)'
               /\ InHand(d) <=> InHand(d)'
               /\ \A n : Waits(d, n) <=> Waits(d, n)'
    BY <1>4, <1>5 DEF Sure, InHand, Waits
  <2>3. Heard'
    BY <1>3, <1>4, <1>5, <2>2 DEF Order, Heard
  <2>4. GoneTogether'
    BY <1>3, <1>4, <1>5 DEF Order, GoneTogether
  <2>5. DirsFirst'
    BY <1>3, <1>4, <2>2 DEF Order, DirsFirst
  <2>. QED BY <2>1, <2>3, <2>4, <2>5 DEF Order
(* Nothing is taken away while batches wait.                                *)
<1>6. ASSUME TakenAway, pending \subseteq pending',
             watching => (made' \ made) \cup (made \ made') \subseteq pending',
             \A p \in Path : p \in pending' \ pending =>
               Parent(p) \in made' \cup {Top} \/ Parent(p) \in pending'
      PROVE  Lists' /\ Order'
  <2>1. phase \in {"start", "idle"} /\ queue = <<>>
    BY <1>6 DEF TakenAway, Tidy
  <2>2. Lists'
    BY <1>3, <1>4, <2>1 DEF Lists
  <2>3. 1..Len(queue') = {}
    BY <1>4, <2>1
  <2>4. Heard'
    BY <1>3, <1>4, <1>6, <2>1, <2>3 DEF Order, Heard, Sure, InHand, Waits
  <2>5. GoneTogether'
    <3>1. ASSUME NEW p \in Path, Parent(p) \notin made' \cup {Top}, p \in pending'
          PROVE  Parent(p) \in pending'
      <4>1. CASE p \notin pending
        BY <1>6, <3>1, <4>1
      <4>2. CASE p \in pending
        <5>1. watching
          BY <1>3, <4>2 DEF Watched
        <5>. QED BY <1>3, <1>6, <3>1, <4>2, <5>1 DEF Order, GoneTogether
      <4>. QED BY <4>1, <4>2
    <3>. QED BY <2>3, <3>1 DEF GoneTogether
  <2>6. DirsFirst'
    BY <1>4, <2>1, <2>3 DEF DirsFirst
  <2>. QED BY <2>2, <2>4, <2>5, <2>6 DEF Order
<1>. USE DEF Notice, Present, TypeOK, Watched, InTree
<1>7. ASSUME NEW p \in Path, NEW b \in Bytes, Write(p, b) PROVE Lists' /\ Order'
  BY <1>3, <1>5, <1>7, DirAssumption DEF Write
<1>8. ASSUME NEW p \in Path, Remove(p) PROVE Lists' /\ Order'
  BY <1>3, <1>6, <1>8 DEF Remove
<1>9. ASSUME NEW p \in Path, NEW q \in Path, Rename(p, q) PROVE Lists' /\ Order'
  BY <1>3, <1>6, <1>9 DEF Rename
<1>10. ASSUME NEW d \in Dir, MakeDir(d) PROVE Lists' /\ Order'
  BY <1>3, <1>5, <1>10, EntryAssumption DEF MakeDir
<1>11. ASSUME NEW d \in Dir, RemoveDir(d) PROVE Lists' /\ Order'
  BY <1>3, <1>6, <1>11, EntryAssumption DEF RemoveDir
<1>12. ASSUME NEW d \in Dir, NEW e \in Dir, RenameDir(d, e) PROVE Lists' /\ Order'
  BY <1>3, <1>6, <1>12, EntryAssumption DEF RenameDir
<1>. QED
  BY <1>2, <1>7, <1>8, <1>9, <1>10, <1>11, <1>12 DEF User, TidyInv

-----------------------------------------------------------------------------
(* The watcher and the loop.                                                *)

(* A batch leaves the watcher whole, and goes to the end.                   *)
LEMMA DebounceKeepsOrder ==
  ASSUME TypeOK, MirrorInv, Tidy, NEW batch \in SUBSET pending, Debounce(batch), Tidy'
  PROVE  TidyInv'
<1>1. /\ batch = pending /\ pending' = {} /\ queue' = Append(queue, pending)
      /\ UNCHANGED <<local, rows, server, watching, work>>
  BY DEF Debounce, Tidy
<1>2. Lists /\ Order /\ InTree /\ Watched /\ RowsMirrorServer
  BY DEF MirrorInv, TidyInv
<1>3. pending # {}
  BY <1>1 DEF Debounce
<1>4. watching
  BY <1>2, <1>3 DEF Watched
<1>p. PICK n \in Nat : n = Len(queue)
  BY DEF TypeOK
<1>5. /\ Len(queue') = n + 1 /\ queue'[n + 1] = pending
      /\ \A k \in 1..n : queue'[k] = queue[k]
  BY <1>1, <1>p, Appending DEF TypeOK
<1>6. RowsMirrorServer' /\ Lists'
  BY <1>1, <1>2
     DEF RowsMirrorServer, Tracked, Live, Lists, Exists, Present, rows, server, local, work
<1>7. \A d : /\ Sure(d) <=> Sure(d)'
             /\ InHand(d) <=> InHand(d)'
  BY <1>1 DEF Sure, InHand, local, rows, work
<1>8. \A d : \A k \in 1..n : Waits(d, k) => Waits(d, k)'
  BY <1>5 DEF Waits
<1>9. \A d : (d \in pending => Waits(d, n + 1)') /\ (Waits(d, n) => Waits(d, n + 1)')
  BY <1>5 DEF Waits
<1>10. Heard'
  BY <1>1, <1>p, <1>2, <1>5, <1>7, <1>9 DEF Order, Heard, local
<1>11. GoneTogether'
  <2>1. ASSUME NEW p \in Path, Parent(p) \notin made' \cup {Top},
               NEW k \in 1..Len(queue'), p \in queue'[k]
        PROVE  Parent(p) \in queue'[k]
    BY <1>1, <1>p, <1>2, <1>5, <2>1 DEF Order, GoneTogether, local
  <2>. QED BY <1>1, <2>1 DEF GoneTogether
<1>12. DirsFirst'
  <2>1. ASSUME NEW p \in Path, Parent(p) # Top, NEW k \in 1..Len(queue'), p \in queue'[k]
        PROVE  Sure(Parent(p))' \/ InHand(Parent(p))' \/ Waits(Parent(p), k)'
    <3>1. CASE k \in 1..n
      BY <1>p, <1>2, <1>5, <1>7, <1>8, <2>1, <3>1 DEF Order, DirsFirst
    <3>2. CASE k = n + 1
      <4>1. p \in pending
        BY <1>5, <2>1, <3>2
      <4>2. CASE Parent(p) \in made
        BY <1>p, <1>2, <1>4, <1>7, <1>9, <3>2, <4>2 DEF Order, Heard
      <4>3. CASE Parent(p) \notin made
        BY <1>1, <1>2, <1>9, <2>1, <3>2, <4>1, <4>3 DEF local, Order, GoneTogether
      <4>. QED BY <4>2, <4>3
    <3>. QED BY <1>5, <2>1, <3>1, <3>2
  <2>2. ASSUME NEW p \in Path, Parent(p) # Top, phase' = "batch", p \in todo'
        PROVE  Parent(p) \in known' \/ Parent(p) \in todo'
    BY <1>1, <1>2, <2>2 DEF Order, DirsFirst, rows, work
  <2>. QED BY <2>1, <2>2 DEF DirsFirst
<1>. QED BY <1>6, <1>10, <1>11, <1>12 DEF TidyInv, Order

(* The loop takes the first batch in hand.                                  *)
LEMMA ReceiveKeepsOrder ==
  ASSUME TypeOK, MirrorInv, Tidy, Receive, Tidy'
  PROVE  TidyInv'
<1>1. /\ phase = "idle" /\ phase' = "batch"
      /\ todo' = {x \in queue[1] : Exists(x)}
      /\ missing' = {x \in queue[1] : ~Exists(x)}
      /\ UNCHANGED <<local, rows, server, watching, pending, children>>
  BY Taking DEF Receive, TypeOK
<1>2. Lists /\ Order /\ InTree /\ Watched /\ RowsMirrorServer
  BY DEF MirrorInv, TidyInv
<1>3. watching /\ children = {}
  BY <1>1, <1>2 DEF Watched
<1>p. PICK n \in Nat : n = Len(queue)
  BY DEF TypeOK
<1>4. /\ n \in Nat \ {0} /\ Len(queue') = n - 1
      /\ \A k \in 1..(n - 1) : queue'[k] = queue[k + 1]
  BY <1>p, Taking DEF Receive, TypeOK
<1>5. RowsMirrorServer' /\ Lists'
  BY <1>1, <1>2, <1>3
     DEF RowsMirrorServer, Tracked, Live, Lists, Exists, Present, rows, server, local
<1>6. \A d \in made : Exists(d)
  BY DEF Exists
<1>7. \A d : Sure(d) => Sure(d)'
  BY <1>1, <1>6 DEF Sure, local, rows
<1>8. \A d : ~InHand(d)
  BY <1>1 DEF InHand
(* A directory in the first batch is now in hand; the others are one nearer.*)
<1>9. \A d \in made : d \in queue[1] => InHand(d)'
  BY <1>1, <1>6 DEF InHand
<1>10. ASSUME NEW d \in made, NEW k \in 1..n, Waits(d, k)
       PROVE  InHand(d)' \/ (k # 1 /\ Waits(d, k - 1)')
  <2>1. PICK j \in 1..k : d \in queue[j]
    BY <1>10 DEF Waits
  <2>2. CASE j = 1
    BY <1>9, <2>1, <2>2
  <2>3. CASE j # 1
    <3>1. j - 1 \in 1..(k - 1) /\ j - 1 \in 1..(n - 1) /\ (j - 1) + 1 = j
      BY <1>4, <2>1, <2>3
    <3>2. d \in queue'[j - 1]
      BY <1>4, <2>1, <3>1
    <3>. QED BY <3>1, <3>2 DEF Waits
  <2>. QED BY <2>2, <2>3
<1>11. Heard'
  <2>1. ASSUME NEW d \in made
        PROVE  Sure(d)' \/ InHand(d)' \/ d \in pending' \/ Waits(d, n - 1)'
    <3>1. Sure(d) \/ d \in pending \/ Waits(d, n)
      BY <1>p, <1>2, <1>3, <1>8 DEF Order, Heard
    <3>2. n \in 1..n
      BY <1>4
    <3>. QED BY <1>1, <1>7, <1>10, <3>1, <3>2
  <2>. QED BY <1>1, <1>4, <2>1 DEF Heard, local
<1>12. GoneTogether'
  <2>1. ASSUME NEW p \in Path, Parent(p) \notin made' \cup {Top},
               NEW k \in 1..Len(queue'), p \in queue'[k]
        PROVE  Parent(p) \in queue'[k]
    <3>1. k \in 1..(n - 1) /\ k + 1 \in 1..n /\ Parent(p) \notin made \cup {Top}
      BY <1>1, <1>4, <2>1 DEF local
    <3>2. queue'[k] = queue[k + 1]
      BY <1>4, <3>1
    <3>. QED BY <1>p, <1>2, <2>1, <3>1, <3>2 DEF Order, GoneTogether
  <2>2. ASSUME NEW p \in Path, Parent(p) \notin made' \cup {Top}, p \in pending'
        PROVE  Parent(p) \in pending'
    BY <1>1, <1>2, <2>2 DEF Order, GoneTogether, local
  <2>. QED BY <2>1, <2>2 DEF GoneTogether
<1>13. DirsFirst'
  <2>1. ASSUME NEW p \in Path, Parent(p) # Top, NEW k \in 1..Len(queue'), p \in queue'[k]
        PROVE  Sure(Parent(p))' \/ InHand(Parent(p))' \/ Waits(Parent(p), k)'
    <3>1. k \in 1..(n - 1) /\ k + 1 \in 1..n /\ (k + 1) - 1 = k
      BY <1>4, <2>1
    <3>2. queue'[k] = queue[k + 1]
      BY <1>4, <3>1
    <3>3. CASE Parent(p) \in made
      <4>1. Sure(Parent(p)) \/ Waits(Parent(p), k + 1)
        BY <1>p, <1>2, <1>8, <2>1, <3>1, <3>2 DEF Order, DirsFirst
      <4>. QED BY <1>7, <1>10, <3>1, <3>3, <4>1
    <3>4. CASE Parent(p) \notin made
      <4>1. Parent(p) \in queue'[k]
        BY <1>p, <1>2, <2>1, <3>1, <3>2, <3>4 DEF Order, GoneTogether
      <4>. QED BY <2>1, <4>1, <3>1 DEF Waits
    <3>. QED BY <3>3, <3>4
  <2>2. ASSUME NEW p \in Path, Parent(p) # Top, p \in todo'
        PROVE  Parent(p) \in known' \/ Parent(p) \in todo'
    <3>1. p \in queue[1] /\ p \in Present
      BY <1>1, <2>2, EntryAssumption DEF Exists, TypeOK
    <3>2. Parent(p) \in made
      BY <1>2, <2>2, <3>1 DEF InTree
    <3>3. Sure(Parent(p)) \/ Parent(p) \in queue[1]
      BY <1>p, <1>2, <1>4, <1>8, <2>2, <3>1 DEF Order, DirsFirst, Waits
    <3>. QED BY <1>1, <1>6, <3>2, <3>3 DEF Sure, rows
  <2>. QED BY <2>1, <2>2 DEF DirsFirst
<1>. QED BY <1>5, <1>11, <1>12, <1>13 DEF TidyInv, Order

(* While the loop works, directories only become known.                     *)
LEMMA WorkKeepsOrder ==
  ASSUME TypeOK, Order, Watched, UNCHANGED <<made, watching, pending, queue>>,
         \A d \in Dir : Sure(d) => Sure(d)',
         \A d \in Dir : InHand(d) => InHand(d)' \/ Sure(d)',
         phase' = "batch" => phase = "batch" /\ todo' \subseteq todo,
         \A d \in Dir : phase' = "batch" /\ todo' # {} /\ d \in known \cup todo
                          => d \in known' \cup todo'
  PROVE  Order'
<1>1. \A p \in Path : Parent(p) # Top => Parent(p) \in Dir
  BY DEF Path, Parent
<1>2. \A d : \A k : Waits(d, k) => Waits(d, k)'
  BY DEF Waits
<1>p. PICK n \in Nat : n = Len(queue) /\ n = Len(queue')
  BY DEF TypeOK
<1>3. Heard'
  BY <1>2, <1>p DEF Order, Heard, TypeOK
<1>4. GoneTogether'
  BY DEF Order, GoneTogether
<1>5. DirsFirst'
  <2>1. ASSUME NEW p \in Path, Parent(p) # Top, NEW k \in 1..Len(queue'), p \in queue'[k]
        PROVE  Sure(Parent(p))' \/ InHand(Parent(p))' \/ Waits(Parent(p), k)'
    BY <1>1, <1>2, <2>1 DEF Order, DirsFirst
  <2>2. ASSUME NEW p \in Path, Parent(p) # Top, phase' = "batch", p \in todo'
        PROVE  Parent(p) \in known' \/ Parent(p) \in todo'
    BY <1>1, <2>2 DEF Order, DirsFirst
  <2>. QED BY <2>1, <2>2 DEF DirsFirst
<1>. QED BY <1>3, <1>4, <1>5 DEF Order

(* A batch makes directories known before it sends their files.             *)
LEMMA BatchKeepsOrder ==
  ASSUME TypeOK, MirrorInv, Tidy, Batch, Tidy', ~Spend("failures")
  PROVE  TidyInv'
<1>1. Lists /\ Order /\ InTree /\ Watched /\ RowsMirrorServer
  BY DEF MirrorInv, TidyInv
<1>2. phase = "batch"
  BY <1>1 DEF Batch, PushChild, PushChanged, PushNew, Move, NewDir, SkipKnown,
              DeletePath, BatchFails, EndBatch, NextPath, Settled, Watched
<1>3. \A x \in todo \cup children : Exists(x)
  BY <1>1, <1>2 DEF Lists, Exists
<1>4. todo \cap missing = {}
  BY <1>1, <1>2 DEF Lists
(* A step through the list of what exists.                                  *)
<1>5. ASSUME Steady, known \subseteq known', missing' \subseteq missing,
             todo' \subseteq todo, todo \ todo' \subseteq known' \cup Path,
             children' \subseteq Present, \A p \in children' : Parent(p) \in known'
      PROVE  Lists' /\ Order'
  <2>1. UNCHANGED <<made, disk, watching, pending, queue, phase>>
    BY <1>5 DEF Steady, local, events
  <2>2. Lists'
    BY <1>1, <1>2, <1>5, <2>1 DEF Lists, Exists, Present
  <2>3. \A d \in Dir : Sure(d) => Sure(d)'
    BY <1>5, <2>1 DEF Sure
  <2>4. \A d \in Dir : InHand(d) => InHand(d)' \/ Sure(d)'
    <3>1. \A d \in Dir : d \in todo => d \in made /\ d \notin missing
      BY <1>3, <1>4, EntryAssumption DEF Exists, Present
    <3>. QED BY <1>5, <2>1, <3>1, EntryAssumption DEF Sure, InHand
  <2>5. Order'
    BY <1>1, <1>2, <1>5, <2>1, <2>3, <2>4, WorkKeepsOrder, EntryAssumption
  <2>. QED BY <2>2, <2>5
<1>6. ASSUME UNCHANGED <<rows, server>> PROVE RowsMirrorServer' /\ known' = known
  BY <1>1, <1>6 DEF RowsMirrorServer, Tracked, Live, rows, server
<1>7. \A p \in children : Parent(p) \in known
  BY <1>1, <1>2 DEF Lists
(* A file is only pushed once its directory has its row.                    *)
<1>8. ASSUME NEW p \in Path, NextPath(p) PROVE Parent(p) \in known \cup {Top}
  <2>1. p \in todo /\ todo \cap Dir = {}
    BY <1>8 DEF NextPath, Tidy
  <2>2. Parent(p) # Top => Parent(p) \in Dir
    BY DEF Path, Parent
  <2>. QED BY <1>1, <1>2, <2>1, <2>2 DEF Order, DirsFirst
<1>9. ASSUME NEW p \in Path, PushChild(p) PROVE TidyInv'
  <2>1. RowsMirrorServer' /\ known' = known
    <3>1. CASE p \in Present \ Tracked
      BY <1>1, <1>7, <1>9, <3>1, UploadMirrors DEF PushChild, Upload
    <3>2. CASE p \notin Present \ Tracked
      BY <1>6, <1>9, <3>2 DEF PushChild
    <3>. QED BY <3>1, <3>2
  <2>2. Lists' /\ Order'
    BY <1>1, <1>2, <1>5, <1>9, <2>1 DEF PushChild, Lists
  <2>. QED BY <2>1, <2>2 DEF TidyInv
<1>10. ASSUME NEW p \in Path, PushChanged(p) PROVE TidyInv'
  <2>1. RowsMirrorServer' /\ known' = known
    BY <1>1, <1>10, VersionMirrors DEF PushChanged, Version
  <2>2. Lists' /\ Order'
    BY <1>1, <1>2, <1>5, <1>10, <2>1 DEF PushChanged, Through, Lists
  <2>. QED BY <2>1, <2>2 DEF TidyInv
<1>11. ASSUME NEW p \in Path, PushNew(p) PROVE TidyInv'
  <2>1. RowsMirrorServer' /\ known' = known
    BY <1>1, <1>8, <1>11, UploadMirrors DEF PushNew, Upload
  <2>2. Lists' /\ Order'
    BY <1>1, <1>2, <1>5, <1>11, <2>1 DEF PushNew, Through, Lists
  <2>. QED BY <2>1, <2>2 DEF TidyInv
<1>12. ASSUME NEW p \in Path, NEW q \in Path, Move(p, q) PROVE TidyInv'
  <2>1. RowsMirrorServer' /\ known' = known
    <3>1. p \in Present \ Tracked /\ Parent(p) \in known \cup {Top}
      BY <1>8, <1>12 DEF Move
    <3>. QED BY <1>1, <1>12, <3>1, MoveMirrors DEF Move
  <2>2. Lists' /\ Order'
    BY <1>1, <1>2, <1>5, <1>12, <2>1 DEF Move, Through, Lists
  <2>. QED BY <2>1, <2>2 DEF TidyInv
<1>13. ASSUME NEW d \in Dir, NewDir(d) PROVE TidyInv'
  <2>1. RowsMirrorServer' /\ known' = known \cup {d}
    BY <1>1, <1>13 DEF NewDir, MakeKnown, RowsMirrorServer, Tracked, Live
  <2>2. Lists' /\ Order'
    BY <1>1, <1>2, <1>5, <1>13, <2>1 DEF NewDir, Through
  <2>. QED BY <2>1, <2>2 DEF TidyInv
<1>14. ASSUME NEW x \in Entry, SkipKnown(x) PROVE TidyInv'
  <2>1. RowsMirrorServer' /\ known' = known
    BY <1>6, <1>14 DEF SkipKnown
  <2>2. todo \ todo' \subseteq known' \cup Path
    BY <1>14, <2>1 DEF SkipKnown, Through, Present
  <2>3. Lists' /\ Order'
    BY <1>1, <1>2, <1>5, <1>14, <2>1, <2>2 DEF SkipKnown, Through, Lists
  <2>. QED BY <2>1, <2>3 DEF TidyInv
<1>15. ASSUME NEW x \in Entry, DeletePath(x) PROVE TidyInv'
  <2>1. RowsMirrorServer' /\ known \ {x} \subseteq known'
    <3>1. CASE x \in Tracked
      BY <1>1, <1>15, <3>1, DropFileMirrors DEF DeletePath, DropFile
    <3>2. CASE x \notin Tracked /\ x \in known /\ ~StillTracked(x)
      <4>1. x \in Dir /\ DropFolder(x)
        BY <1>15, <3>2 DEF DeletePath, TypeOK
      <4>. QED BY <1>1, <3>2, <4>1, DropFolderMirrors DEF DropFolder
    <3>3. CASE x \notin Tracked /\ ~(x \in known /\ ~StillTracked(x))
      BY <1>6, <1>15, <3>3 DEF DeletePath
    <3>. QED BY <3>1, <3>2, <3>3
  <2>2. /\ UNCHANGED <<made, disk, watching, pending, queue, phase, todo, children>>
        /\ todo = {} /\ children = {} /\ x \in missing /\ missing' = missing \ {x}
    BY <1>15 DEF DeletePath, Settled, Steady, local, events
  <2>3. Lists'
    BY <1>1, <1>2, <2>2 DEF Lists
  <2>4. \A d \in Dir : (Sure(d) => Sure(d)') /\ ~InHand(d)
    BY <1>2, <2>1, <2>2 DEF Sure, InHand
  <2>5. Order'
    BY <1>1, <1>2, <2>2, <2>4, WorkKeepsOrder
  <2>. QED BY <2>1, <2>3, <2>5 DEF TidyInv
(* Nothing fails: what existed exists, and what a row names is live.        *)
<1>16. ASSUME NEW x \in Entry, BatchFails(x) PROVE FALSE
  <2>1. ~Hopeless(x)
    BY <1>1, TrackedLive DEF Hopeless, Alike
  <2>2. ~(~Settled /\ ~Exists(x))
    BY <1>3, <1>16 DEF BatchFails, NextPath
  <2>. QED BY <1>16, <2>1, <2>2 DEF BatchFails
<1>17. CASE EndBatch
  <2>1. /\ UNCHANGED <<made, disk, watching, pending, queue, known>> /\ todo = {}
        /\ phase' = "idle" /\ todo' = {} /\ children' = {} /\ missing' = {}
    BY <1>17 DEF EndBatch, Settled, Resting, local, rows, events
  <2>2. RowsMirrorServer' /\ Lists'
    BY <1>6, <1>17, <2>1 DEF EndBatch, Lists
  <2>3. \A d \in Dir : (Sure(d) => Sure(d)') /\ ~InHand(d)
    BY <2>1 DEF Sure, InHand
  <2>4. Order'
    BY <1>1, <2>1, <2>3, WorkKeepsOrder
  <2>. QED BY <2>2, <2>4 DEF TidyInv
<1>. QED
  BY <1>9, <1>10, <1>11, <1>12, <1>13, <1>14, <1>15, <1>16, <1>17 DEF Batch

(* A pass makes every directory known before it sends files.                *)
LEMMA PassKeepsOrder ==
  ASSUME TypeOK, MirrorInv, Tidy, Stop \/ Poll \/ Pass, Tidy', ~Spend("failures")
  PROVE  TidyInv'
<1>1. Lists /\ Order /\ InTree /\ Watched /\ RowsMirrorServer
  BY DEF MirrorInv, TidyInv
<1>2. ASSUME UNCHANGED <<rows, server>> PROVE RowsMirrorServer' /\ known' = known
  BY <1>1, <1>2 DEF RowsMirrorServer, Tracked, Live, rows, server
(* Outside of a batch a known directory stays one.                          *)
<1>3. ASSUME phase # "batch", phase' # "batch",
             UNCHANGED <<made, pending, queue>>,
             watching' = watching \/ (watching' /\ made \subseteq known'),
             known \subseteq known'
      PROVE  Order'
  <2>1. \A d \in Dir : Sure(d) => Sure(d)'
    BY <1>3 DEF Sure
  <2>2. \A d \in Dir : ~InHand(d)
    BY <1>3 DEF InHand
  <2>3. CASE watching' = watching
    BY <1>1, <1>3, <2>1, <2>2, <2>3, WorkKeepsOrder
  <2>4. CASE watching' # watching
    <3>1. watching' /\ made \subseteq known' /\ ~watching
      BY <1>3, <2>4 DEF TypeOK
    <3>2. queue = <<>> /\ pending = {}
      BY <1>1, <3>1 DEF Watched
    <3>3. 1..Len(queue') = {}
      BY <1>3, <3>2
    <3>4. Heard'
      BY <1>3, <3>1 DEF Heard, Sure
    <3>5. GoneTogether' /\ DirsFirst'
      BY <1>3, <3>2, <3>3 DEF GoneTogether, DirsFirst
    <3>. QED BY <3>4, <3>5 DEF Order
  <2>. QED BY <2>3, <2>4
<1>4. CASE Stop
  <2>1. /\ phase' = "start" /\ todo' = {} /\ missing' = {}
        /\ watching' = FALSE /\ pending' = {} /\ queue' = <<>>
        /\ UNCHANGED <<rows, server>>
    BY <1>4 DEF Stop
  <2>2. 1..Len(queue') = {}
    BY <2>1
  <2>3. Heard' /\ GoneTogether' /\ DirsFirst'
    BY <2>1, <2>2 DEF Heard, GoneTogether, DirsFirst
  <2>4. Lists'
    BY <2>1 DEF Lists
  <2>. QED BY <1>2, <2>1, <2>3, <2>4 DEF TidyInv, Order
<1>5. CASE Poll
  <2>1. /\ phase \in {"start", "idle"} /\ phase' = "folders" /\ todo' = made \ known
        /\ UNCHANGED <<made, known, pending, queue, watching>>
        /\ UNCHANGED <<rows, server>>
    BY <1>5 DEF Poll, local, events, rows
  <2>. QED BY <1>2, <1>3, <2>1 DEF TidyInv, Lists
<1>6. ASSUME NEW d \in Dir, PollFolder(d) PROVE TidyInv'
  <2>1. /\ phase = "folders" /\ phase' = "folders" /\ todo' = todo \ {d} /\ d \in todo
        /\ MakeKnown(d) /\ made' = made \cup {d}
        /\ UNCHANGED <<pending, queue, watching>>
    BY <1>6 DEF PollFolder, Through, events
  <2>2. made' = made
    BY <1>1, <2>1 DEF Lists
  <2>3. known' = known \cup {d} /\ RowsMirrorServer'
    BY <1>1, <2>1 DEF MakeKnown, RowsMirrorServer, Tracked, Live
  <2>4. Lists'
    BY <1>1, <2>1, <2>2, <2>3 DEF Lists
  <2>. QED BY <1>3, <2>1, <2>2, <2>3, <2>4 DEF TidyInv
<1>7. CASE ScanFiles
  <2>1. /\ phase = "folders" /\ phase' = "files" /\ todo = {} /\ todo' = Present
        /\ UNCHANGED <<made, disk, known, pending, queue, watching>>
        /\ UNCHANGED <<rows, server>>
    BY <1>7 DEF ScanFiles, local, events, rows
  <2>2. Lists'
    BY <1>1, <2>1 DEF Lists, Present
  <2>. QED BY <1>2, <1>3, <2>1, <2>2 DEF TidyInv
<1>8. ASSUME NEW p \in Path, PollFile(p) PROVE TidyInv'
  <2>1. /\ phase = "files" /\ phase' = "files" /\ p \in Present /\ todo' = todo \ {p}
        /\ UNCHANGED <<made, disk, pending, queue, watching>>
    BY <1>8 DEF PollFile, Through, local, events
  <2>2. made \subseteq known /\ Parent(p) \in known \cup {Top}
    BY <1>1, <2>1 DEF Lists, InTree
  <2>3. RowsMirrorServer' /\ known' = known
    <3>1. CASE UNCHANGED <<rows, server>>
      BY <1>2, <3>1
    <3>2. CASE Push(p) /\ p \in Tracked
      BY <1>1, <2>1, <3>2, VersionMirrors DEF Push, Version
    <3>3. CASE Push(p) /\ p \notin Tracked
      BY <1>1, <2>1, <2>2, <3>3, UploadMirrors DEF Push, Upload
    <3>. QED BY <1>8, <3>1, <3>2, <3>3 DEF PollFile
  <2>4. Lists'
    BY <1>1, <2>1, <2>3 DEF Lists, Present
  <2>. QED BY <1>3, <2>1, <2>3, <2>4 DEF TidyInv
<1>9. ASSUME NEW p \in Path, PollVanished(p) PROVE FALSE
  BY <1>1, <1>9 DEF PollVanished, Lists
<1>10. ASSUME NEW p \in Path, PollMissing(p) PROVE TidyInv'
  <2>1. /\ phase = "files" /\ phase' = "files" /\ todo' = todo
        /\ UNCHANGED <<made, disk, pending, queue, watching>>
    BY <1>10 DEF PollMissing, local, events
  <2>2. RowsMirrorServer' /\ known' = known
    <3>1. CASE UNCHANGED <<rows, server>>
      BY <1>2, <3>1
    <3>2. CASE p \in Tracked /\ DropFile(p)
      BY <1>1, <3>2, DropFileMirrors DEF DropFile
    <3>. QED BY <1>10, <3>1, <3>2 DEF PollMissing
  <2>3. Lists'
    BY <1>1, <2>1, <2>2 DEF Lists, Present
  <2>. QED BY <1>3, <2>1, <2>2, <2>3 DEF TidyInv
<1>11. CASE EndPass
  <2>1. /\ phase = "files" /\ phase' = "idle" /\ todo' = {} /\ missing' = {}
        /\ watching' = TRUE
        /\ UNCHANGED <<made, pending, queue>>
        /\ UNCHANGED <<rows, server>>
    BY <1>11 DEF EndPass, EndsWork, Resting, local
  <2>2. Lists' /\ made \subseteq known
    BY <1>1, <2>1 DEF Lists
  <2>. QED BY <1>2, <1>3, <2>1, <2>2 DEF TidyInv
<1>. QED
  BY <1>4, <1>5, <1>6, <1>7, <1>8, <1>9, <1>10, <1>11 DEF Pass

(* Every step keeps the invariant.                                          *)
LEMMA MirrorKept == TypeOK /\ MirrorInv /\ [Next]_vars => MirrorInv'
<1>. SUFFICES ASSUME TypeOK, MirrorInv, [Next]_vars PROVE MirrorInv'
  OBVIOUS
<1>1. InTree' /\ Watched'
  BY TreeKept DEF MirrorInv
<1>2. ASSUME Tidy' PROVE TidyInv'
  <2>1. Tidy /\ ~Spend("failures")
    BY <1>2, TidyBefore
  <2>2. CASE User
    BY <1>2, <2>1, <2>2, UserKeepsOrder
  <2>3. CASE Watcher
    BY <1>2, <2>1, <2>3, DebounceKeepsOrder DEF Watcher
  <2>4. CASE Receive
    BY <1>2, <2>1, <2>4, ReceiveKeepsOrder
  <2>5. CASE Batch
    BY <1>2, <2>1, <2>5, BatchKeepsOrder
  <2>6. CASE Stop \/ Poll \/ Pass
    BY <1>2, <2>1, <2>6, PassKeepsOrder
  <2>7. CASE UNCHANGED vars
    <3>1. TidyInv
      BY <2>1 DEF MirrorInv
    <3>2. UNCHANGED <<made, disk, known, row, object, watching, pending, queue,
                      phase, todo, children, missing>>
      BY <2>7 DEF vars, local, rows, server, events, work
    <3>3. RowsMirrorServer'
      BY <3>1, <3>2 DEF TidyInv, RowsMirrorServer, Tracked, Live
    <3>4. Lists'
      BY <3>1, <3>2 DEF TidyInv, Lists, Exists, Present
    <3>5. Order'
      BY <3>1, <3>2
         DEF TidyInv, Order, Heard, GoneTogether, DirsFirst, Sure, InHand, Waits
    <3>. QED BY <3>3, <3>4, <3>5 DEF TidyInv
  <2>. QED BY <2>2, <2>3, <2>4, <2>5, <2>6, <2>7 DEF Next
<1>. QED BY <1>1, <1>2 DEF MirrorInv

(* The invariant, at the start.                                             *)
LEMMA InitMirrors == Init => MirrorInv
<1>. SUFFICES ASSUME Init PROVE MirrorInv
  OBVIOUS
<1>1. /\ Present = {} /\ Tracked = {} /\ made = {} /\ pending = {} /\ queue = <<>>
      /\ phase = "start" /\ todo = {} /\ children = {} /\ missing = {} /\ ~watching
  BY DEF Init, Present, Tracked
<1>2. Live = {}
  BY DEF Init, Live, NoObject
<1>3. 1..Len(queue) = {}
  BY <1>1
<1>. QED
  BY <1>1, <1>2, <1>3
     DEF MirrorInv, InTree, Watched, TidyInv, RowsMirrorServer, Lists, Order, Heard,
         GoneTogether, DirsFirst

(* Whatever batches and passes come between a user's calls, as long as they *)
(* hold all that happened, nothing fails, and he takes nothing away while   *)
(* they wait, every row names the object that is live under its own path,   *)
(* and every live object has its row.                                       *)
THEOREM RowsAreMirrored == Spec => []Mirrored
<1>1. Spec => [](TypeOK /\ MirrorInv)
  BY InitTypes, InitMirrors, TypesKept, MirrorKept, PTL DEF Spec
<1>2. MirrorInv => Mirrored
  BY DEF MirrorInv, TidyInv, Tidy, Mirrored
<1>. QED BY <1>1, <1>2, PTL
=============================================================================
