----------------------------- MODULE SwapUpdate -----------------------------
(***************************************************************************)
(* Replacing a file too large for one request (sync/update.rs), on a        *)
(* server that may or may not version an object in place: every request of  *)
(* the swap may be refused, or served with its answer lost, and the         *)
(* process may die between any two of them.  What such an accident leaves   *)
(* under the aside name is swept later (sync/remote_delete.rs), by this     *)
(* client or by another one of the same space.                              *)
(*                                                                          *)
(* One file, already tracked.  The user edits it between passes; the race   *)
(* of an edit with an upload is in FileSync.                                *)
(***************************************************************************)
EXTENDS Naturals

CONSTANTS
  Id,          \* server object ids, given in order; the file starts as First
  First,
  MaxEdits,    \* bound: edits by the user
  MaxFaults    \* bound: how many accidents

ASSUME IdAssumption == Id \subseteq Nat \ {0} /\ First \in Id
ASSUME BoundAssumption == MaxEdits \in Nat /\ MaxFaults \in Nat

Bytes == 0 .. MaxEdits          \* one content per edit
NoId == 0
NoRow == [id |-> NoId, hash |-> 0]
Removed == MaxEdits + 1         \* no local file

VARIABLES
  object,  \* per id: its state, bytes and name: "own", "copy" or "aside"
  aged,    \* ids that have been aside for ARTIFACT_GRACE_MINUTES
  disk,    \* the bytes of the local file
  kept,    \* the bytes of its conflict copies
  row,     \* the files row at the file's path
  step,    \* the next request or write of the swap, or "idle"
  old,     \* replacement.old_id
  new,     \* uploaded.id
  edits,   \* the user's latest content
  versions,   \* whether the server knows a targeted upload
  neighbour,  \* whether another client sweeps the same space
  faults   \* how many requests were refused, how many answers lost, how
           \* many times the process died

swap == <<step, old, new>>
world == <<versions, neighbour>>
vars == <<object, aged, disk, kept, row, swap, edits, world, faults>>

Live == {i \in Id : object[i].state = "live"}
Named(n) == {i \in Live : object[i].name = n}
Absent == {i \in Id : object[i].state = "absent"}

Init ==
  /\ object = [i \in Id |->
       IF i = First THEN [state |-> "live", bytes |-> 0, name |-> "own"]
       ELSE [state |-> "absent", bytes |-> 0, name |-> "own"]]
  /\ aged = {}
  /\ disk = 0
  /\ kept = {}
  /\ row = [id |-> First, hash |-> 0]
  /\ step = "idle" /\ old = NoId /\ new = NoId
  /\ edits = 0
  /\ versions \in BOOLEAN /\ neighbour \in BOOLEAN
  /\ faults = [refused |-> 0, lost |-> 0, crash |-> 0]

(* How a request ends: one the server cannot serve is refused, one it can   *)
(* serve is done but for an accident.                                       *)
Outcome == {"done", "refused", "lost"}
Accidents == faults.refused + faults.lost + faults.crash
Accident(kind) ==
  /\ Accidents < MaxFaults
  /\ faults' = [faults EXCEPT ![kind] = @ + 1]
Ends(outcome, possible) ==
  CASE outcome = "done" -> possible /\ UNCHANGED faults
    [] outcome = "refused" /\ ~possible -> UNCHANGED faults
    [] OTHER -> possible /\ Accident(outcome)

Served(outcome, after) == object' = IF outcome = "refused" THEN object ELSE after

Create(i, b) ==
  /\ i \in Absent /\ \A j \in Absent : i <= j
  /\ object' = [object EXCEPT ![i] = [state |-> "live", bytes |-> b,
                  name |-> IF Named("own") = {} THEN "own" ELSE "copy"]]

Delete(i) == [object EXCEPT ![i].state = "deleted"]
Rename(i, n) == [object EXCEPT ![i].name = n]
Free(i, n) == i \in Live /\ (n = "own" => Named("own") \subseteq {i})

(* The file's object is not what the row records, and not because only the  *)
(* local copy has changed.                                                  *)
Differs(i) ==
  /\ row # [id |-> i, hash |-> object[i].bytes]
  /\ row # NoRow /\ row.hash = object[i].bytes => disk \in {row.hash, Removed}

-----------------------------------------------------------------------------
(* The user, between passes.                                                *)

Edit ==
  /\ step = "idle"
  /\ edits < MaxEdits
  /\ edits' = edits + 1
  /\ disk' = edits + 1
  /\ UNCHANGED <<object, aged, kept, row, swap, world, faults>>

-----------------------------------------------------------------------------
(* update_remote_file: the bytes go up, into the object if the server can.  *)

Goto(s) == step' = s /\ UNCHANGED <<old, new>>

(* A pass pushes only after it has applied what the server had to tell.     *)
BeginWhenListed ==
  /\ step = "idle"
  /\ row # NoRow /\ disk # Removed /\ disk # row.hash
  /\ row.id \in Named("own")
  /\ step' = "version" /\ old' = row.id /\ new' = NoId
  /\ UNCHANGED <<object, aged, disk, kept, row, edits, world, faults>>
Begin ==
  /\ step = "idle"
  /\ row # NoRow /\ disk # Removed /\ disk # row.hash
  /\ object[row.id].state = "live"
  /\ \A i \in Named("own") : ~Differs(i)
  /\ step' = "version"
  /\ old' = row.id
  /\ new' = NoId
  /\ UNCHANGED <<object, aged, disk, kept, row, edits, world, faults>>

VersionInPlace(outcome) ==
  /\ step = "version" /\ versions
  /\ Ends(outcome, old \in Live)
  /\ Served(outcome, [object EXCEPT ![old].bytes = disk])
  /\ row' = IF outcome = "done" THEN [id |-> old, hash |-> disk] ELSE row
  /\ Goto(IF outcome = "done" THEN "idle" ELSE "fresh")
  /\ UNCHANGED <<aged, disk, kept, edits, world>>

(* An answer without a usable object has the bytes sent a second time.      *)
Uploaded(i, outcome, otherwise) ==
  /\ Ends(outcome, TRUE)
  /\ IF outcome = "refused" THEN UNCHANGED object ELSE Create(i, disk)
  /\ UNCHANGED old
  /\ IF outcome = "done" THEN step' = "aside" /\ new' = i
     ELSE step' = otherwise /\ UNCHANGED new
  /\ UNCHANGED <<aged, disk, kept, row, edits, world>>

VersionAsSecond(i, outcome) ==
  step = "version" /\ ~versions /\ Uploaded(i, outcome, "fresh")
UploadFresh(i, outcome) == step = "fresh" /\ Uploaded(i, outcome, "idle")

-----------------------------------------------------------------------------
(* swap_in_new_object.                                                      *)

MoveAsideByDeleting(outcome) ==
  /\ step = "aside"
  /\ Ends(outcome, old \in Live)
  /\ Served(outcome, Delete(old))
  /\ Goto(IF outcome = "done" THEN "name" ELSE "discard")
  /\ UNCHANGED <<aged, disk, kept, row, edits, world>>
MoveAside(outcome) ==
  /\ step = "aside"
  /\ Ends(outcome, old \in Live)
  /\ Served(outcome, Rename(old, "aside"))
  /\ Goto(IF outcome = "done" THEN "name" ELSE "discard")
  /\ UNCHANGED <<aged, disk, kept, row, edits, world>>

AfterNameWithoutRestore(outcome) == IF outcome = "done" THEN "untrack" ELSE "discard"
AfterName(outcome) == IF outcome = "done" THEN "untrack" ELSE "restore"

(* rename_upload asks nothing of a server that gave the name already.       *)
RenameUpload(outcome) ==
  /\ step = "name"
  /\ IF new \in Named("own") THEN outcome = "done" /\ UNCHANGED <<object, faults>>
     ELSE /\ Ends(outcome, Free(new, "own"))
          /\ Served(outcome, Rename(new, "own"))
  /\ Goto(AfterName(outcome))
  /\ UNCHANGED <<aged, disk, kept, row, edits, world>>

RestoreName(outcome) ==
  /\ step = "restore"
  /\ Ends(outcome, Free(old, "own"))
  /\ Served(outcome, Rename(old, "own"))
  /\ Goto("discard")
  /\ UNCHANGED <<aged, disk, kept, row, edits, world>>

Discard(outcome) ==
  /\ step = "discard"
  /\ Ends(outcome, new \in Live)
  /\ Served(outcome, Delete(new))
  /\ Goto("idle")
  /\ UNCHANGED <<aged, disk, kept, row, edits, world>>

(* commit_swap: two writes of the state database, then the old object.      *)
Untrack ==
  /\ step = "untrack"
  /\ row' = NoRow
  /\ Goto("record")
  /\ UNCHANGED <<object, aged, disk, kept, edits, world, faults>>

Record ==
  /\ step = "record"
  /\ row' = [id |-> new, hash |-> disk]
  /\ Goto("remove")
  /\ UNCHANGED <<object, aged, disk, kept, edits, world, faults>>

RemoveOld(outcome) ==
  /\ step = "remove"
  /\ Ends(outcome, old \in Live)
  /\ Served(outcome, Delete(old))
  /\ Goto("idle")
  /\ UNCHANGED <<aged, disk, kept, row, edits, world>>

Crash ==
  /\ step # "idle"
  /\ Accident("crash")
  /\ Goto("idle")
  /\ UNCHANGED <<object, aged, disk, kept, row, edits, world>>

-----------------------------------------------------------------------------
(* The passes between swaps, as far as they concern this file (FileSync     *)
(* has them in full).  An object under an aside name is skipped by all.     *)

Idle == step = "idle" /\ UNCHANGED <<swap, edits, world, faults>>

(* remote_version_wins for an object found at the file's path.              *)
Arrive(i) ==
  /\ Idle
  /\ i \in Named("own") /\ Differs(i)
  /\ LET theirs == object[i].bytes
     IN /\ disk' = theirs
        /\ kept' = IF disk \in {theirs, Removed} \/ (row # NoRow /\ row.hash = disk)
                   THEN kept ELSE kept \cup {disk}
        /\ row' = [id |-> i, hash |-> theirs]
  /\ UNCHANGED <<object, aged>>

(* handle_deleted_remote_file.                                              *)
DepartDetaching ==
  /\ Idle
  /\ row # NoRow /\ object[row.id].state = "deleted"
  /\ disk' = Removed
  /\ row' = [row EXCEPT !.id = NoId]
  /\ UNCHANGED <<object, aged, kept>>
Depart ==
  /\ Idle
  /\ row # NoRow /\ object[row.id].state = "deleted"
  /\ disk' = Removed
  /\ row' = NoRow
  /\ UNCHANGED <<object, aged, kept>>

(* upload_new_file, for a file no row tracks.                               *)
UploadUntracked(i) ==
  /\ Idle
  /\ row = NoRow /\ disk # Removed
  /\ Named("own") = {}
  /\ Create(i, disk)
  /\ row' = [id |-> i, hash |-> disk]
  /\ UNCHANGED <<aged, disk, kept>>

(* A swap in flight is seconds old: only what one left behind grows old.    *)
Age(i) ==
  /\ Idle
  /\ i \in Named("aside") \ aged
  /\ aged' = aged \cup {i}
  /\ UNCHANGED <<object, disk, kept, row>>

Abandoned(i) == i \in aged \cap Named("aside")

(* sweep_one_artifact, in a verification of this client ...                 *)
SweepableUnread(i) == Abandoned(i)
Sweepable(i) == Abandoned(i) /\ row.id # i
Sweep(i) ==
  /\ Idle
  /\ Sweepable(i)
  /\ object' = Delete(i)
  /\ UNCHANGED <<aged, disk, kept, row>>

(* ... and in one of a client that has never seen the file.                 *)
SweepNextDoor(i) ==
  /\ neighbour /\ Idle
  /\ Abandoned(i)
  /\ object' = Delete(i)
  /\ UNCHANGED <<aged, disk, kept, row>>

-----------------------------------------------------------------------------
Swap ==
  \/ Begin \/ Untrack \/ Record
  \/ \E outcome \in Outcome :
       \/ VersionInPlace(outcome) \/ MoveAside(outcome) \/ RenameUpload(outcome)
       \/ RestoreName(outcome) \/ Discard(outcome) \/ RemoveOld(outcome)
       \/ \E i \in Id : VersionAsSecond(i, outcome) \/ UploadFresh(i, outcome)

Passes == Depart \/ \E i \in Id : Arrive(i) \/ UploadUntracked(i)

Sweeps == \E i \in Id : Age(i) \/ Sweep(i) \/ SweepNextDoor(i)

Next == Edit \/ Swap \/ Crash \/ Passes \/ Sweeps

Spec == Init /\ [][Next]_vars

(* A pass goes on to its end and another one follows; nobody promises a     *)
(* restart, and with it a sweep.                                            *)
LiveSpec == Spec /\ WF_vars(Swap \/ Passes)

-----------------------------------------------------------------------------
(* Properties.                                                              *)

(* Every variable holds what the disk, the state database and the server    *)
(* can hold.                                                                *)
TypeOK ==
  /\ object \in [Id -> [state : {"absent", "live", "deleted"}, bytes : Bytes,
                        name : {"own", "copy", "aside"}]]
  /\ aged \subseteq Id
  /\ disk \in Bytes \cup {Removed}
  /\ kept \subseteq Bytes
  /\ row \in [id : Id, hash : Bytes] \cup {NoRow}
  /\ step \in {"idle", "version", "fresh", "aside", "name", "restore",
               "discard", "untrack", "record", "remove"}
  /\ old \in Id \cup {NoId} /\ new \in Id \cup {NoId}
  /\ edits \in Nat /\ versions \in BOOLEAN /\ neighbour \in BOOLEAN
  /\ faults \in [{"refused", "lost", "crash"} -> Nat]

(* The user's latest content is never only a memory, whatever request       *)
(* fails and wherever the process dies: it is on the disk, in a conflict    *)
(* copy, or in a live object of the server.  A client that never saw the    *)
(* file may sweep it away, though (SweepNextDoor).                          *)
ContentSurvives ==
  neighbour \/ edits \in {disk} \cup kept \cup {object[i].bytes : i \in Live}

(* A single refused request never leaves the file hidden under the aside    *)
(* name: once the swap is over, an object bears the file's own name.        *)
NeverHidden ==
  step = "idle" /\ faults.refused <= 1 /\ faults.lost = 0 /\ faults.crash = 0
    => Named("own") # {}

(* The server holds the file throughout: at every moment a live object has  *)
(* the content last agreed on or a later one.                               *)
ServerHoldsTheFile ==
  neighbour \/ row = NoRow \/ \E i \in Live : object[i].bytes >= row.hash

(* After the last accident the passes bring the edit home: the object of    *)
(* the file's own name holds what the disk holds, and the row names it.     *)
(* This is where no other client sweeps, and where the server knows         *)
(* targeted uploads two accidents may leave the file hidden instead.        *)
Home == \E i \in Named("own") :
  object[i].bytes = disk /\ row = [id |-> i, hash |-> disk]
Hidden == versions /\ Accidents > 1 /\ Named("own") = {}
Recovers == ~neighbour => <>[](Home \/ Hidden)

(* "A failure never leaves the file hidden under the aside name"            *)
(* (move_and_name), or at least not for good.                               *)
HiddenNeverForGood == ~neighbour => <>[](Named("own") # {})
=============================================================================
