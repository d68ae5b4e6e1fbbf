-------------------------- MODULE SwapUpdateProofs --------------------------
(***************************************************************************)
(* What TLAPS proves of SwapUpdate for every supply of object ids, every    *)
(* number of edits and every number of accidents: the types, that the       *)
(* user's latest content is never lost, that the server holds the file      *)
(* throughout, and that one refusal never hides it.                         *)
(***************************************************************************)
EXTENDS SwapUpdate, TLAPS

-----------------------------------------------------------------------------
(* The inductive invariant.                                                 *)

(* Nothing is newer than the user's latest edit.                            *)
Bounded ==
  /\ edits <= MaxEdits
  /\ \A i \in Id : object[i].bytes <= edits
  /\ row # NoRow => row.hash <= edits

(* The server never shows two objects of one name.                          *)
OneOwn == \A i, j \in Named("own") : i = j

(* The disk has the latest edit, or what the row says, or nothing at all.   *)
DiskExplained ==
  \/ disk = edits
  \/ row # NoRow /\ disk = row.hash
  \/ row = NoRow /\ disk = Removed

(* Only a neighbour's sweep takes the object the row names, and that object *)
(* is never older than the row.                                             *)
RowHeld ==
  row # NoRow =>
    /\ neighbour \/ row.id \in Live
    /\ object[row.id].state # "absent"
    /\ object[row.id].bytes >= row.hash

(* An object that took the name without the row knowing it is newer.        *)
TakerIsNewer ==
  row # NoRow =>
    \A i \in Named("own") \ {row.id} : object[i].bytes > row.hash

(* What a client never has to fetch back.                                   *)
KeptLocally == neighbour \/ edits = disk \/ edits \in kept

(* Where the swap stands: the bytes it carries are the latest, the old      *)
(* object lives until its removal, the new one from its upload on.          *)
Carried == step # "idle" => disk = edits /\ old \in Live
Replacing ==
  step \in {"version", "fresh", "aside", "name", "restore", "discard", "untrack"}
    => row # NoRow /\ row.id = old /\ row.hash < disk
Uploading ==
  step \in {"aside", "name", "restore", "discard", "untrack", "record", "remove"}
    => new \in Live /\ new # old /\ object[new].bytes = disk
Committing ==
  /\ step = "version" => Named("own") \subseteq {old}
  /\ step \in {"untrack", "record", "remove"} => new \in Named("own")
  /\ step = "record" => row = NoRow
  /\ step = "remove" => row = [id |-> new, hash |-> disk]

(* Who bears the name while no answer was lost and the process never died.  *)
OneRefusal == faults.refused <= 1 /\ faults.lost = 0 /\ faults.crash = 0
Borne ==
  OneRefusal =>
    /\ step = "idle" => Named("own") # {}
    /\ step \in {"version", "fresh", "aside", "discard"} => old \in Named("own")
    /\ step = "restore" => faults.refused = 1 /\ Named("own") = {}
    /\ step = "name" => Named("own") = {}

IInv ==
  /\ Bounded /\ OneOwn /\ DiskExplained /\ RowHeld /\ TakerIsNewer
  /\ KeptLocally /\ Carried /\ Replacing /\ Uploading /\ Committing /\ Borne

-----------------------------------------------------------------------------
(* The types lean on three parts of the invariant: the swap holds real ids, *)
(* and bytes to send.                                                       *)
Held ==
  /\ step # "idle" => disk \in Bytes /\ old \in Id
  /\ step \in {"aside", "name", "restore", "discard", "untrack", "record", "remove"}
       => new \in Id

(* Every variable holds what the disk, the state database and the server    *)
(* can hold, and a swap under way holds real ids and bytes to send.         *)
THEOREM TypeCorrect == Spec => [](TypeOK /\ Held)
<1> USE IdAssumption, BoundAssumption DEF Bytes, NoId, NoRow, Removed
<1>1. Init => TypeOK /\ Held
  BY DEF Init, TypeOK, Held
<1>2. TypeOK /\ Held /\ [Next]_vars => (TypeOK /\ Held)'
  <2> SUFFICES ASSUME TypeOK, Held, [Next]_vars PROVE (TypeOK /\ Held)'
    OBVIOUS
  <2> USE DEF TypeOK, Held, Live, Named, Absent, Delete, Rename, Goto, Create,
              Outcome, Idle, swap, world
  <2>0. ASSUME NEW kind \in {"refused", "lost", "crash"}, Accident(kind)
        PROVE  faults' \in [{"refused", "lost", "crash"} -> Nat]
    BY <2>0 DEF Accident
  <2>a. ASSUME NEW outcome \in Outcome, NEW possible, Ends(outcome, possible)
        PROVE  faults' \in [{"refused", "lost", "crash"} -> Nat]
    BY <2>a, <2>0 DEF Ends
  <2>1. CASE Edit
    BY <2>1 DEF Edit
  <2>2. CASE Begin
    BY <2>2 DEF Begin
  <2>3. ASSUME NEW outcome \in Outcome, VersionInPlace(outcome)
        PROVE  (TypeOK /\ Held)'
    BY <2>3, <2>a DEF VersionInPlace, Served
  <2>4. ASSUME NEW i \in Id, NEW outcome \in Outcome, NEW otherwise \in {"fresh", "idle"},
               step \in {"version", "fresh"}, Uploaded(i, outcome, otherwise)
        PROVE  (TypeOK /\ Held)'
    <3>1. disk \in Bytes
      BY <2>4
    <3>2. object' \in [Id -> [state : {"absent", "live", "deleted"},
                              bytes : Bytes, name : {"own", "copy", "aside"}]]
      BY <2>4, <3>1 DEF Uploaded
    <3>3. faults' \in [{"refused", "lost", "crash"} -> Nat]
      BY <2>4, <2>a DEF Uploaded
    <3>4. step' \in {"aside", "fresh", "idle"} /\ old' = old /\ disk' = disk
          /\ (step' = "aside" => new' = i) /\ new' \in {i, new}
      BY <2>4 DEF Uploaded
    <3>5. UNCHANGED <<aged, kept, row, edits, versions, neighbour>>
      BY <2>4 DEF Uploaded
    <3>6. QED
      BY <2>4, <3>1, <3>2, <3>3, <3>4, <3>5
  <2>5. ASSUME NEW outcome \in Outcome, MoveAside(outcome)
        PROVE  (TypeOK /\ Held)'
    BY <2>5, <2>a DEF MoveAside, Served
  <2>6. ASSUME NEW outcome \in Outcome, RenameUpload(outcome)
        PROVE  (TypeOK /\ Held)'
    BY <2>6, <2>a DEF RenameUpload, Served, AfterName
  <2>7. ASSUME NEW outcome \in Outcome, RestoreName(outcome)
        PROVE  (TypeOK /\ Held)'
    BY <2>7, <2>a DEF RestoreName, Served
  <2>8. ASSUME NEW outcome \in Outcome, Discard(outcome)
        PROVE  (TypeOK /\ Held)'
    BY <2>8, <2>a DEF Discard, Served
  <2>9. ASSUME NEW outcome \in Outcome, RemoveOld(outcome)
        PROVE  (TypeOK /\ Held)'
    BY <2>9, <2>a DEF RemoveOld, Served
  <2>10. CASE Untrack
    BY <2>10 DEF Untrack
  <2>11. CASE Record
    BY <2>11 DEF Record
  <2>12. CASE Crash
    BY <2>12, <2>0 DEF Crash
  <2>13. CASE Depart
    BY <2>13 DEF Depart
  <2>14. ASSUME NEW i \in Id, Arrive(i) PROVE (TypeOK /\ Held)'
    BY <2>14 DEF Arrive
  <2>15. ASSUME NEW i \in Id, UploadUntracked(i) PROVE (TypeOK /\ Held)'
    BY <2>15 DEF UploadUntracked
  <2>16. ASSUME NEW i \in Id, Age(i) \/ Sweep(i) \/ SweepNextDoor(i)
         PROVE  (TypeOK /\ Held)'
    BY <2>16 DEF Age, Sweep, SweepNextDoor
  <2>17. CASE UNCHANGED vars
    BY <2>17 DEF vars
  <2>18. QED
    BY <2>1, <2>2, <2>3, <2>4, <2>5, <2>6, <2>7, <2>8, <2>9, <2>10, <2>11,
       <2>12, <2>13, <2>14, <2>15, <2>16, <2>17
       DEF Next, Swap, Passes, Sweeps, VersionAsSecond, UploadFresh
<1>3. QED
  BY <1>1, <1>2, PTL DEF Spec
-----------------------------------------------------------------------------
(* The user edits and the swap begins: the edit is the latest content, and  *)
(* where it begins nobody else bears the name.                              *)
LEMMA BeginKeepsIInv ==
  ASSUME TypeOK, Held, IInv, Edit \/ Begin
  PROVE  IInv'
<1> USE IdAssumption, BoundAssumption DEF Bytes, NoId, NoRow, Removed, TypeOK,
        Held, IInv, Bounded, OneOwn, DiskExplained, RowHeld, TakerIsNewer,
        KeptLocally, Carried, Replacing, Uploading, Committing, Borne,
        OneRefusal, Live, Named
<1>1. CASE Edit
  BY <1>1 DEF Edit, swap, world
<1>2. CASE Begin
  <2>1. /\ step = "idle" /\ step' = "version" /\ old' = row.id /\ row # NoRow
        /\ disk # Removed /\ disk # row.hash /\ row.id \in Live
        /\ UNCHANGED <<object, disk, kept, row, edits, neighbour, faults>>
    BY <1>2 DEF Begin, world
  <2>2. disk = edits /\ row.hash < disk
    BY <2>1
  <2>3. \A i \in Named("own") : i = row.id
    <3> SUFFICES ASSUME NEW i \in Named("own"), i # row.id PROVE FALSE
      OBVIOUS
    <3>1. row # [id |-> i, hash |-> object[i].bytes] /\ object[i].bytes > row.hash
      BY <2>1
    <3>2. ~Differs(i)
      BY <1>2 DEF Begin
    <3>3. QED
      BY <2>1, <3>1, <3>2 DEF Differs
  <2>4. OneRefusal' => old' \in Named("own")'
    BY <2>1, <2>3
  <2>5. QED
    BY <2>1, <2>2, <2>3, <2>4
<1>3. QED
  BY <1>1, <1>2

(* The upload, into the old object or beside it.                            *)
LEMMA UploadKeepsIInv ==
  ASSUME TypeOK, Held, IInv, NEW outcome \in Outcome,
         \/ VersionInPlace(outcome)
         \/ \E i \in Id : VersionAsSecond(i, outcome) \/ UploadFresh(i, outcome)
  PROVE  IInv'
<1> USE IdAssumption, BoundAssumption DEF Bytes, NoId, NoRow, Removed, TypeOK,
        Held, Live, Named, world
<1>1. CASE VersionInPlace(outcome)
  <2>1. step = "version" /\ old \in Live /\ disk = edits /\ row.id = old
        /\ row # NoRow /\ row.hash < disk /\ Named("own") \subseteq {old}
    BY <1>1 DEF VersionInPlace, IInv, Carried, Replacing, Committing
  <2>2. UNCHANGED <<disk, kept, edits, versions, neighbour, old, new>>
    BY <1>1 DEF VersionInPlace, Goto
  <2>3. \/ outcome = "done" /\ step' = "idle" /\ row' = [id |-> old, hash |-> disk]
        \/ outcome # "done" /\ step' = "fresh" /\ row' = row
    BY <1>1 DEF VersionInPlace, Goto
  <2>4. object' \in {object, [object EXCEPT ![old].bytes = disk]}
        /\ (outcome = "done" => object' = [object EXCEPT ![old].bytes = disk])
    BY <1>1 DEF VersionInPlace, Served
  <2>5. \A i \in Id : /\ object'[i].state = object[i].state
                      /\ object'[i].name = object[i].name
                      /\ i # old => object'[i].bytes = object[i].bytes
                      /\ object'[i].bytes \in {object[i].bytes, disk}
    BY <2>4
  <2>6. Live' = Live /\ Named("own")' = Named("own")
    BY <2>5
  <2>7. OneRefusal' => OneRefusal
    BY <1>1 DEF Ends, Accident, OneRefusal, VersionInPlace
  <2>8. Borne'
    BY <2>1, <2>2, <2>3, <2>6, <2>7 DEF IInv, Borne
  <2>9. Bounded' /\ OneOwn' /\ DiskExplained' /\ TakerIsNewer' /\ KeptLocally'
    BY <2>1, <2>2, <2>3, <2>5, <2>6
       DEF IInv, Bounded, OneOwn, DiskExplained, TakerIsNewer, KeptLocally
  <2>10. RowHeld'
    BY <2>1, <2>2, <2>3, <2>4, <2>5, <2>6 DEF IInv, RowHeld
  <2>11. Carried' /\ Replacing' /\ Uploading' /\ Committing'
    BY <2>1, <2>2, <2>3, <2>6 DEF Carried, Replacing, Uploading, Committing
  <2>12. QED
    BY <2>8, <2>9, <2>10, <2>11 DEF IInv
<1>2. ASSUME NEW i \in Id, NEW otherwise \in {"fresh", "idle"},
             step \in {"version", "fresh"},
             Uploaded(i, outcome, otherwise)
      PROVE  IInv'
  <2>1. old \in Live /\ disk = edits /\ row.id = old
        /\ row # NoRow /\ row.hash < disk
    BY <1>2 DEF IInv, Carried, Replacing
  <2>2. UNCHANGED <<disk, kept, edits, row, versions, neighbour, old>>
    BY <1>2 DEF Uploaded
  <2>3. CASE outcome = "refused"
    <3>1. object' = object /\ step' = otherwise
      BY <1>2, <2>3 DEF Uploaded
    <3>2. OneRefusal' => OneRefusal
      BY <1>2 DEF Ends, Accident, OneRefusal, Uploaded
    <3>3. QED
      BY <1>2, <2>1, <2>2, <3>1, <3>2
         DEF IInv, Bounded, OneOwn, DiskExplained, RowHeld, TakerIsNewer,
             KeptLocally, Carried, Replacing, Uploading, Committing, Borne
  <2>4. CASE outcome # "refused"
    <3>1. i \in Absent /\ \E n \in {"own", "copy"} :
             /\ object' = [object EXCEPT ![i] =
                             [state |-> "live", bytes |-> disk, name |-> n]]
             /\ n = "own" <=> Named("own") = {}
      BY <1>2, <2>4 DEF Uploaded, Create
    <3>2. i \notin Live /\ i # old
      BY <3>1, <2>1 DEF Absent
    <3>3. /\ object'[i].state = "live" /\ object'[i].bytes = disk
          /\ object'[i].name \in {"own", "copy"}
          /\ object'[i].name = "own" <=> Named("own") = {}
          /\ \A j \in Id \ {i} : object'[j] = object[j]
      BY <3>1
    <3>4. /\ Live' = Live \cup {i}
          /\ Named("own")' = IF Named("own") = {} THEN {i} ELSE Named("own")
      <4>1. Live' = Live \cup {i}
        BY <3>2, <3>3
      <4>2. \A j \in Live : j # i /\ object'[j] = object[j]
        BY <3>2, <3>3
      <4>3. CASE Named("own") = {}
        <5>1. i \in Named("own")'
          BY <3>3, <4>1, <4>3
        <5>2. \A j \in Live : j \notin Named("own")'
          BY <4>2, <4>3
        <5>3. QED
          BY <4>1, <4>3, <5>1, <5>2
      <4>4. CASE Named("own") # {}
        <5>1. i \notin Named("own")'
          BY <3>3, <4>4
        <5>2. \A j \in Live : j \in Named("own")' <=> j \in Named("own")
          BY <4>1, <4>2
        <5>3. QED
          BY <4>1, <4>4, <5>1, <5>2
      <4>5. QED
        BY <4>1, <4>3, <4>4
    <3>5. OneRefusal' => OneRefusal /\ outcome # "lost"
      BY <1>2 DEF Ends, Accident, OneRefusal, Uploaded
    <3>6. \/ outcome = "done" /\ step' = "aside" /\ new' = i
          \/ outcome = "lost" /\ step' = otherwise /\ new' = new
      BY <1>2, <2>4 DEF Uploaded, Outcome
    <3>7. Bounded' /\ OneOwn' /\ DiskExplained' /\ KeptLocally'
      BY <2>1, <2>2, <3>3, <3>4
         DEF IInv, Bounded, OneOwn, DiskExplained, KeptLocally
    <3>8. RowHeld' /\ TakerIsNewer'
      BY <2>1, <2>2, <3>2, <3>3, <3>4 DEF IInv, RowHeld, TakerIsNewer
    <3>9. Carried' /\ Replacing' /\ Uploading' /\ Committing'
      BY <2>1, <2>2, <3>2, <3>3, <3>4, <3>6
         DEF Carried, Replacing, Uploading, Committing
    <3>10. Borne'
      BY <1>2, <2>1, <2>2, <3>2, <3>4, <3>5, <3>6 DEF IInv, Borne
    <3>11. QED
      BY <3>7, <3>8, <3>9, <3>10 DEF IInv
  <2>5. QED
    BY <2>3, <2>4
<1>3. QED
  BY <1>1, <1>2 DEF VersionAsSecond, UploadFresh

(* A request of the swap that changes no bytes: what it does to the names   *)
(* is all there is to look at.                                              *)
LEMMA RenamingKeepsIInv ==
  ASSUME TypeOK, Held, IInv,
         UNCHANGED <<disk, kept, row, edits, versions, neighbour, old, new>>,
         step \in {"aside", "name", "restore", "discard"},
         step' \in {"name", "restore", "discard", "untrack", "idle"},
         \A i \in Id : object'[i].bytes = object[i].bytes
                       /\ (object[i].state # "absent" => object'[i].state # "absent"),
         Live \ {new} \subseteq Live', Live' \subseteq Live,
         step' # "idle" => new \in Live',
         Named("own")' \subseteq Named("own") \cup {old, new},
         OneOwn', step' = "untrack" => new \in Named("own")',
         Borne'
  PROVE  IInv'
<1> USE DEF Held, TypeOK
<1>1. row # NoRow /\ row.id = old /\ row.hash < disk /\ disk = edits
      /\ old \in Live /\ new \in Live /\ new # old /\ object[new].bytes = disk
  BY DEF IInv, Carried, Replacing, Uploading
<1>2. Bounded' /\ DiskExplained' /\ KeptLocally'
  BY DEF IInv, Bounded, DiskExplained, KeptLocally
<1>3. old \in Live' /\ new \in Id /\ old \in Id
  BY <1>1
<1>4. RowHeld'
  BY <1>1, <1>3 DEF IInv, RowHeld, Live
<1>5. TakerIsNewer'
  BY <1>1, <1>3 DEF IInv, TakerIsNewer, Named, Live
<1>6. Carried' /\ Replacing' /\ Uploading' /\ Committing'
  BY <1>1, <1>3 DEF Carried, Replacing, Uploading, Committing
<1>7. QED
  BY <1>2, <1>4, <1>5, <1>6 DEF IInv

(* The requests that move the names about, and the one that gives up.       *)
LEMMA SwapKeepsIInv ==
  ASSUME TypeOK, Held, IInv, NEW outcome \in Outcome,
         \/ MoveAside(outcome) \/ RenameUpload(outcome) \/ RestoreName(outcome)
         \/ Discard(outcome)
  PROVE  IInv'
<1> USE DEF TypeOK, Held, Live, Named, Goto, world, Outcome
<1>0. step \in {"aside", "name", "restore", "discard"}
  BY DEF MoveAside, RenameUpload, RestoreName, Discard
<1>1. old \in Live /\ new \in Live /\ new # old
  BY <1>0 DEF IInv, Carried, Uploading
<1>2. CASE MoveAside(outcome)
  <2>1. \/ outcome = "refused" /\ object' = object /\ step' = "discard"
        \/ outcome = "lost" /\ object' = Rename(old, "aside") /\ step' = "discard"
        \/ outcome = "done" /\ object' = Rename(old, "aside") /\ step' = "name"
    BY <1>2 DEF MoveAside, Served
  <2>2. /\ Live' = Live
        /\ Named("own")' \in {Named("own"), Named("own") \ {old}}
        /\ outcome = "refused" => Named("own")' = Named("own")
        /\ outcome # "refused" => Named("own")' = Named("own") \ {old}
        /\ \A i \in Id : object'[i].bytes = object[i].bytes /\ object'[i].state = object[i].state
    BY <1>1, <2>1 DEF Rename
  <2>3. OneRefusal' => OneRefusal /\ outcome # "lost"
    BY <1>2 DEF Ends, Accident, OneRefusal, MoveAside
  <2>4. UNCHANGED <<disk, kept, row, edits, versions, neighbour, old, new>>
    BY <1>2 DEF MoveAside
  <2>5. step = "aside"
    BY <1>2 DEF MoveAside
  <2>6. Borne'
    BY <2>1, <2>2, <2>3, <2>4, <2>5 DEF IInv, Borne, OneOwn
  <2>7. OneOwn'
    BY <2>2 DEF IInv, OneOwn
  <2>8. QED
    BY <1>1, <2>1, <2>2, <2>4, <2>5, <2>6, <2>7, RenamingKeepsIInv
<1>3. CASE RenameUpload(outcome)
  <2>1. /\ step = "name"
        /\ step' = IF outcome = "done" THEN "untrack" ELSE "restore"
        /\ UNCHANGED <<disk, kept, row, edits, versions, neighbour, old, new>>
    BY <1>3 DEF RenameUpload, AfterName
  <2>2. CASE object' = object
    <3>1. outcome = "done" => new \in Named("own")
      BY <1>1, <1>3, <2>2 DEF RenameUpload, Served, Rename
    <3>2. OneRefusal' => OneRefusal
      BY <1>3 DEF RenameUpload, Ends, Accident, OneRefusal
    <3>3. Borne'
      <4> SUFFICES ASSUME OneRefusal', outcome # "done"
          PROVE  faults'.refused = 1 /\ Named("own")' = {}
        BY <2>1 DEF Borne
      <4>1. OneRefusal /\ Named("own") = {}
        BY <3>2, <2>1 DEF IInv, Borne
      <4>2. Ends(outcome, Free(new, "own")) /\ Free(new, "own")
        BY <1>1, <1>3, <4>1 DEF RenameUpload, Free
      <4>3. outcome = "refused" /\ faults'.refused = 1
        BY <4>2 DEF Ends, Accident, OneRefusal
      <4>4. QED
        BY <4>1, <4>3, <2>2
    <3>4. QED
      BY <1>1, <2>1, <2>2, <3>1, <3>3, RenamingKeepsIInv DEF IInv, OneOwn
  <2>3. CASE object' # object
    <3>1. /\ object' = Rename(new, "own") /\ outcome # "refused"
          /\ Ends(outcome, Free(new, "own"))
      BY <1>3, <2>3 DEF RenameUpload, Served
    <3>2. Named("own") \subseteq {new}
      BY <3>1 DEF Ends, Accident, OneRefusal, Free
    <3>3. /\ Live' = Live /\ Named("own")' = {new}
          /\ \A i \in Id : object'[i].bytes = object[i].bytes /\ object'[i].state = object[i].state
      BY <1>1, <3>1, <3>2 DEF Rename
    <3>4. OneRefusal' => outcome # "lost"
      BY <3>1 DEF Ends, Accident, OneRefusal
    <3>5. Borne'
      BY <2>1, <3>1, <3>4 DEF Borne
    <3>6. QED
      BY <1>1, <2>1, <3>3, <3>5, RenamingKeepsIInv DEF OneOwn
  <2>4. QED
    BY <2>2, <2>3
<1>4. CASE RestoreName(outcome)
  <2>1. /\ step = "restore" /\ step' = "discard"
        /\ UNCHANGED <<disk, kept, row, edits, versions, neighbour, old, new>>
        /\ Ends(outcome, Free(old, "own"))
    BY <1>4 DEF RestoreName
  <2>2. CASE outcome = "refused"
    <3>1. object' = object
      BY <1>4, <2>2 DEF RestoreName, Served
    <3>2. ~OneRefusal'
      <4> SUFFICES ASSUME OneRefusal' PROVE FALSE
        OBVIOUS
      <4>1. OneRefusal
        BY <2>1 DEF Ends, Accident, OneRefusal
      <4>2. faults.refused = 1 /\ Named("own") = {}
        BY <4>1, <2>1 DEF IInv, Borne
      <4>3. Free(old, "own")
        BY <4>2, <1>1 DEF Free
      <4>4. faults'.refused = 2
        BY <4>2, <4>3, <2>1, <2>2 DEF Ends, Accident
      <4>5. QED
        BY <4>4 DEF OneRefusal
    <3>3. QED
      BY <1>1, <2>1, <3>1, <3>2, RenamingKeepsIInv DEF IInv, OneOwn, Borne
  <2>3. CASE outcome # "refused"
    <3>1. object' = Rename(old, "own") /\ Named("own") \subseteq {old}
      BY <1>4, <2>1, <2>3 DEF RestoreName, Served, Free, Ends
    <3>2. /\ Live' = Live /\ Named("own")' = {old}
          /\ \A i \in Id : object'[i].bytes = object[i].bytes /\ object'[i].state = object[i].state
      BY <1>1, <3>1 DEF Rename
    <3>3. Borne'
      BY <2>1, <3>2 DEF Borne
    <3>4. QED
      BY <1>1, <2>1, <3>2, <3>3, RenamingKeepsIInv DEF OneOwn
  <2>4. QED
    BY <2>2, <2>3
<1>5. CASE Discard(outcome)
  <2>1. /\ step = "discard" /\ step' = "idle"
        /\ UNCHANGED <<disk, kept, row, edits, versions, neighbour, old, new>>
        /\ Ends(outcome, new \in Live)
        /\ object' \in {object, Delete(new)}
    BY <1>5 DEF Discard, Served
  <2>2. /\ Live' \in {Live, Live \ {new}}
        /\ Named("own")' \in {Named("own"), Named("own") \ {new}}
        /\ \A i \in Id : object'[i].bytes = object[i].bytes
                         /\ (object[i].state # "absent" => object'[i].state # "absent")
    BY <1>1, <2>1 DEF Delete
  <2>3. OneRefusal' => OneRefusal
    BY <2>1 DEF Ends, Accident, OneRefusal
  <2>4. Borne'
    BY <1>1, <2>1, <2>2, <2>3 DEF IInv, Borne
  <2>5. OneOwn'
    BY <2>2 DEF IInv, OneOwn
  <2>6. QED
    BY <1>1, <2>1, <2>2, <2>4, <2>5, RenamingKeepsIInv
<1>6. QED
  BY <1>2, <1>3, <1>4, <1>5

(* The commit, and the death of the process.                                *)
LEMMA CommitKeepsIInv ==
  ASSUME TypeOK, Held, IInv,
         Untrack \/ Record \/ Crash \/ \E outcome \in Outcome : RemoveOld(outcome)
  PROVE  IInv'
<1> USE IdAssumption, BoundAssumption DEF Bytes, NoId, NoRow, Removed, TypeOK,
        Held, IInv, Bounded, OneOwn, DiskExplained, RowHeld, TakerIsNewer,
        KeptLocally, Carried, Replacing, Uploading, Committing, Borne,
        Live, Named, Goto, world
<1>1. CASE Untrack
  BY <1>1 DEF Untrack, OneRefusal
<1>2. CASE Record
  BY <1>2 DEF Record, OneRefusal
<1>3. CASE Crash
  BY <1>3 DEF Crash, Accident, OneRefusal
<1>4. ASSUME NEW outcome \in Outcome, RemoveOld(outcome) PROVE IInv'
  BY <1>4 DEF RemoveOld, Served, Delete, Outcome
<1>5. QED
  BY <1>1, <1>2, <1>3, <1>4

(* The passes and the sweeps between swaps.                                 *)
LEMMA IdleKeepsIInv ==
  ASSUME TypeOK, Held, IInv, Passes \/ Sweeps
  PROVE  IInv'
<1> USE IdAssumption, BoundAssumption DEF Bytes, NoId, NoRow, Removed, TypeOK,
        Held, IInv, Bounded, OneOwn, DiskExplained, RowHeld, TakerIsNewer,
        KeptLocally, Carried, Replacing, Uploading, Committing, Borne,
        OneRefusal, Live, Named, world, swap, Idle
<1>1. CASE Depart
  BY <1>1 DEF Depart
<1>2. ASSUME NEW i \in Id, Arrive(i) PROVE IInv'
  BY <1>2 DEF Arrive, Differs
<1>3. ASSUME NEW i \in Id, UploadUntracked(i) PROVE IInv'
  BY <1>3 DEF UploadUntracked, Create, Absent
<1>4. ASSUME NEW i \in Id, Age(i) PROVE IInv'
  BY <1>4 DEF Age
<1>5. ASSUME NEW i \in Id, Sweep(i) PROVE IInv'
  BY <1>5 DEF Sweep, Sweepable, Abandoned, Delete
<1>6. ASSUME NEW i \in Id, SweepNextDoor(i) PROVE IInv'
  BY <1>6 DEF SweepNextDoor, Abandoned, Delete
<1>7. QED
  BY <1>1, <1>2, <1>3, <1>4, <1>5, <1>6 DEF Passes, Sweeps
-----------------------------------------------------------------------------
(* The invariant holds throughout.                                          *)
LEMMA Invariance == Spec => []IInv
<1>1. Init => IInv
  <2> SUFFICES ASSUME Init PROVE IInv
    OBVIOUS
  <2>1. Live = {First} /\ Named("own") = {First}
    BY IdAssumption DEF Init, Live, Named
  <2>2. /\ step = "idle" /\ disk = 0 /\ edits = 0 /\ row.id = First
        /\ row.hash = 0 /\ object[First].state = "live"
        /\ \A i \in Id : object[i].bytes = 0
    BY IdAssumption DEF Init
  <2>3. Bounded
    BY <2>2, BoundAssumption DEF Bounded
  <2>4. OneOwn /\ TakerIsNewer
    BY <2>1, <2>2 DEF OneOwn, TakerIsNewer
  <2>5. RowHeld
    BY <2>1, <2>2, IdAssumption DEF RowHeld
  <2>6. DiskExplained /\ KeptLocally
    BY <2>2 DEF DiskExplained, KeptLocally
  <2>7. Carried /\ Replacing /\ Uploading /\ Committing
    BY <2>2 DEF Carried, Replacing, Uploading, Committing
  <2>8. Borne
    BY <2>1, <2>2 DEF Borne
  <2>9. QED
    BY <2>3, <2>4, <2>5, <2>6, <2>7, <2>8 DEF IInv
<1>2. TypeOK /\ Held /\ IInv /\ [Next]_vars => IInv'
  <2> SUFFICES ASSUME TypeOK, Held, IInv, [Next]_vars PROVE IInv'
    OBVIOUS
  <2>1. CASE Edit \/ Begin
    BY <2>1, BeginKeepsIInv
  <2>2. CASE \E outcome \in Outcome :
               \/ VersionInPlace(outcome)
               \/ \E i \in Id : VersionAsSecond(i, outcome) \/ UploadFresh(i, outcome)
    BY <2>2, UploadKeepsIInv
  <2>3. CASE \E outcome \in Outcome :
               \/ MoveAside(outcome) \/ RenameUpload(outcome)
               \/ RestoreName(outcome) \/ Discard(outcome)
    BY <2>3, SwapKeepsIInv
  <2>4. CASE Untrack \/ Record \/ Crash \/ \E outcome \in Outcome : RemoveOld(outcome)
    BY <2>4, CommitKeepsIInv
  <2>5. CASE Passes \/ Sweeps
    BY <2>5, IdleKeepsIInv
  <2>6. CASE UNCHANGED vars
    BY <2>6 DEF vars, swap, world, IInv, Bounded, OneOwn, DiskExplained,
       RowHeld, TakerIsNewer, KeptLocally, Carried, Replacing, Uploading,
       Committing, Borne, OneRefusal, Live, Named
  <2>7. QED
    BY <2>1, <2>2, <2>3, <2>4, <2>5, <2>6 DEF Next, Swap
<1>3. QED
  BY <1>1, <1>2, TypeCorrect, PTL DEF Spec

(* The user's latest content is never only a memory, whichever requests of  *)
(* the swap fail and wherever the process dies (no neighbour sweeping): it  *)
(* is on the disk or in a conflict copy, which KeptLocally says, and        *)
(* ContentSurvives asks for less.                                           *)
THEOREM LatestContentSurvives == Spec => [](KeptLocally /\ ContentSurvives)
<1>1. IInv => KeptLocally /\ ContentSurvives
  BY DEF IInv, KeptLocally, ContentSurvives
<1>2. QED
  BY <1>1, Invariance, PTL

(* At every moment the server has a live object with the content last       *)
(* agreed on or a later one: the one the row names.                         *)
THEOREM ServerNeverWithout == Spec => []ServerHoldsTheFile
<1>1. TypeOK /\ IInv => ServerHoldsTheFile
  BY DEF TypeOK, IInv, RowHeld, ServerHoldsTheFile, Live
<1>2. QED
  BY <1>1, TypeCorrect, Invariance, PTL

(* One refused request never leaves the file hidden under the aside name    *)
(* once the swap is over, whatever the request.                             *)
THEOREM RefusalHidesNothing == Spec => []NeverHidden
<1>1. IInv => NeverHidden
  BY DEF IInv, Borne, OneRefusal, NeverHidden
<1>2. QED
  BY <1>1, Invariance, PTL
=============================================================================
