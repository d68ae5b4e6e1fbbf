---------------------------- MODULE LocalChanges ----------------------------
(***************************************************************************)
(* The loop of `nuage watch` and of the daemon, seen from the user's side:  *)
(* the watcher's events are batched and a batch is pushed path by path,     *)
(* between passes that compare the whole directory with the rows            *)
(* (commands/supervisor.rs, sync/watcher.rs, apply_local.rs, push.rs,       *)
(* reconcile.rs, deletions.rs).                                             *)
(*                                                                          *)
(* No other client writes here, and only the half of a pass that pushes is  *)
(* in it: FileSync and FolderTree have what a pass fetches.  A file is      *)
(* hashed and sent in one step (FileSync takes the two apart); directories  *)
(* lie side by side in the sync directory (FolderTree nests them).          *)
(***************************************************************************)
EXTENDS Naturals, FiniteSets, Sequences

CONSTANTS
  Top,      \* the sync directory
  Dir,      \* directories in it
  Name,     \* file names
  Bytes,    \* contents
  Id,       \* server object ids, given in order
  None,     \* nothing there
  Guard,    \* how many files may go missing at once: DELETE_GUARD_FLOOR
  Scenarios \* bounds: see Scenario

ASSUME DirAssumption == None \notin Dir \cup Bytes /\ Top \notin Dir \cup {None}
ASSUME IdAssumption == Id \subseteq Nat
ASSUME GuardAssumption == Guard \in Nat

(* What a behaviour may hold: whether a batch is all that happened,         *)
(* directories first, whether the user is hasty (he acts while a pass runs, *)
(* and takes paths away while batches wait or are pushed), how often he     *)
(* changes files and directories and removes either, how many requests fail *)
(* and how often the process ends.                                          *)
Scenario == [sorted : BOOLEAN, hasty : BOOLEAN, files : Nat, dirs : Nat,
             removals : Nat, failures : Nat, stops : Nat]
ASSUME ScenariosAssumption == Scenarios \subseteq Scenario

Path == (Dir \cup {Top}) \X Name
Parent(p) == p[1]
Entry == Dir \cup Path

ASSUME EntryAssumption == Dir \cap Path = {}

VARIABLES
  made,     \* the local directories
  disk,     \* per path: what the file there holds, or None
  known,    \* directories with a folders row
  row,      \* per path: the id and hash of its files row
  folders,  \* live folders of the server, by name
  object,   \* per id: where the server has it and what it holds
  watching, \* the watcher is set up
  pending,  \* changed paths still being debounced
  queue,    \* batches the loop has not received
  phase,    \* what the loop is doing
  todo,     \* paths to push
  children, \* entries of a directory just made known, to push first
  missing,  \* paths to delete from the server
  spent     \* the scenario, and how much of each of its bounds is used

local == <<made, disk>>
rows == <<known, row>>
server == <<folders, object>>
events == <<watching, pending, queue>>
work == <<phase, todo, children, missing>>
vars == <<local, rows, server, events, work, spent>>

Sorted == spent.scenario.sorted
Hasty == spent.scenario.hasty

NoRow == [id |-> None, hash |-> None]
NoObject == [state |-> "absent", path |-> None, copy |-> FALSE, bytes |-> None]

Tracked == {p \in Path : row[p] # NoRow}
Present == {p \in Path : disk[p] # None}
Live == {i \in Id : object[i].state = "live"}

Init ==
  /\ made = {}
  /\ disk = [p \in Path |-> None]
  /\ known = {}
  /\ row = [p \in Path |-> NoRow]
  /\ folders = {}
  /\ object = [i \in Id |-> NoObject]
  /\ watching = FALSE /\ pending = {} /\ queue = <<>>
  /\ phase = "start"
  /\ todo = {} /\ children = {} /\ missing = {}
  /\ \E s \in Scenarios :
       spent = [scenario |-> s, files |-> 0, dirs |-> 0, removals |-> 0,
                failures |-> 0, stops |-> 0]

Spend(kind) ==
  /\ spent[kind] < spent.scenario[kind]
  /\ spent' = [spent EXCEPT ![kind] = @ + 1]

-----------------------------------------------------------------------------
(* The user, while a batch is pushed too.  The kernel tells the watcher of  *)
(* every path a call names, and of nothing below a directory that is moved. *)

Notice(paths) == pending' = IF watching THEN pending \cup paths ELSE pending
Unseen ==
  /\ Hasty \/ phase \notin {"folders", "files"}
  /\ UNCHANGED <<rows, server, watching, queue, work>>

(* Only a hasty user takes a path away that a batch may name.               *)
TakenAway == Hasty \/ (phase \in {"start", "idle"} /\ queue = <<>>)

Write(p, b) ==
  /\ Spend("files")
  /\ Parent(p) \in made \cup {Top} /\ disk[p] # b
  /\ disk' = [disk EXCEPT ![p] = b]
  /\ Notice({p})
  /\ UNCHANGED made /\ Unseen

Remove(p) ==
  /\ Spend("removals")
  /\ TakenAway
  /\ p \in Present
  /\ disk' = [disk EXCEPT ![p] = None]
  /\ Notice({p})
  /\ UNCHANGED made /\ Unseen

Rename(p, q) ==
  /\ Spend(IF q \in Present THEN "removals" ELSE "files")
  /\ TakenAway
  /\ p # q /\ p \in Present /\ Parent(q) \in made \cup {Top}
  /\ disk' = [disk EXCEPT ![p] = None, ![q] = disk[p]]
  /\ Notice({p, q})
  /\ UNCHANGED made /\ Unseen

MakeDir(d) ==
  /\ Spend("dirs")
  /\ d \notin made
  /\ made' = made \cup {d}
  /\ Notice({d})
  /\ UNCHANGED disk /\ Unseen

RemoveDir(d) ==
  /\ Spend("removals")
  /\ TakenAway
  /\ d \in made
  /\ made' = made \ {d}
  /\ disk' = [p \in Path |-> IF Parent(p) = d THEN None ELSE disk[p]]
  /\ Notice({d} \cup {p \in Present : Parent(p) = d})
  /\ Unseen

RenameDir(d, e) ==
  /\ Spend("dirs")
  /\ TakenAway
  /\ d \in made /\ e \notin made
  /\ made' = (made \ {d}) \cup {e}
  /\ disk' = [p \in Path |-> IF Parent(p) = e THEN disk[<<d, p[2]>>]
                             ELSE IF Parent(p) = d THEN None ELSE disk[p]]
  /\ Notice({d, e})
  /\ Unseen

-----------------------------------------------------------------------------
(* The debouncer: what has been quiet for two seconds goes out as a batch.  *)

Debounce(batch) ==
  /\ batch # {}
  /\ Sorted => batch = pending
  /\ pending' = pending \ batch
  /\ queue' = Append(queue, batch)
  /\ UNCHANGED <<local, rows, server, watching, work, spent>>

(* The first pass of a process ends, and only then does it watch.           *)
Resting == phase' = "idle" /\ todo' = {} /\ children' = {} /\ missing' = {}
EndsWork == Resting /\ watching' = TRUE

Stop ==
  /\ Spend("stops")
  /\ phase # "start"
  /\ phase' = "start" /\ todo' = {} /\ children' = {} /\ missing' = {}
  /\ watching' = FALSE /\ pending' = {} /\ queue' = <<>>
  /\ UNCHANGED <<local, rows, server>>

-----------------------------------------------------------------------------
(* What one request and the row that goes with it do.                       *)

NextId(i) ==
  /\ object[i].state = "absent"
  /\ \A j \in Id : object[j].state = "absent" => i <= j

(* find_parent_folder_id: a directory no row has is as good as the root.    *)
FolderOf(p) == IF Parent(p) \in known THEN Parent(p) ELSE Top
Place(p) == <<FolderOf(p), p[2]>>
Holding(q) == {i \in Live : object[i].path = q /\ ~object[i].copy}

Stored(i, q, b, copy) ==
  [object EXCEPT ![i] = [state |-> "live", path |-> q, copy |-> copy, bytes |-> b]]
Deleted(ids) ==
  [i \in Id |-> IF i \in ids THEN [object[i] EXCEPT !.state = "deleted"] ELSE object[i]]

(* upsert_file: the object's other rows go.                                 *)
RecordedUnhashed(p, i, b) ==
  [q \in Path |-> IF q = p THEN [id |-> i, hash |-> None] ELSE row[q]]
Recorded(p, i, b) ==
  [q \in Path |-> IF q = p THEN [id |-> i, hash |-> b]
                  ELSE IF row[q].id = i THEN NoRow ELSE row[q]]

(* upload_new_file: the server gives a name that is taken a "(1)"; the      *)
(* upload is dropped again where the taken one holds the same.              *)
Upload(p) ==
  \E i \in Id :
    /\ NextId(i)
    /\ LET q == Place(p)
           same == {j \in Holding(q) : object[j].bytes = disk[p]}
       IN IF same # {}
          THEN \E j \in same :
                 /\ UNCHANGED object
                 /\ row' = Recorded(p, j, disk[p])
          ELSE /\ object' = Stored(i, q, disk[p], Holding(q) # {})
               /\ row' = Recorded(p, i, disk[p])
  /\ UNCHANGED <<known, folders>>

(* update_remote_file: a new version of the row's object.                   *)
Version(p) ==
  LET i == row[p].id
  IN /\ i \in Live
     /\ object' = [object EXCEPT ![i].bytes = disk[p]]
     /\ row' = [row EXCEPT ![p].hash = disk[p]]
     /\ UNCHANGED <<known, folders>>

(* push_local_file.                                                         *)
Push(p) == IF p \in Tracked THEN Version(p) ELSE Upload(p)

(* ensure_remote_folder creates the folder, or adopts the server's.         *)
MakeKnown(d) ==
  /\ known' = known \cup {d}
  /\ folders' = folders \cup {d}
  /\ UNCHANGED <<row, object>>

(* handle_local_delete, as the watcher and the pass both call it.           *)
DropFile(p) ==
  /\ row[p].id \in Live
  /\ object' = Deleted({row[p].id})
  /\ row' = [row EXCEPT ![p] = NoRow]
  /\ UNCHANGED <<known, folders>>

NeverTracked(d) == FALSE
StillTracked(d) == \E p \in Tracked : Parent(p) = d
DropFolder(d) ==
  /\ object' = Deleted({i \in Live : object[i].path[1] = d})
  /\ folders' = folders \ {d}
  /\ known' = known \ {d}
  /\ UNCHANGED row

-----------------------------------------------------------------------------
(* process_local_changes.                                                   *)

Exists(x) == x \in made \cup Present

Receive ==
  /\ phase = "idle" /\ queue # <<>>
  /\ phase' = "batch"
  /\ todo' = {x \in Head(queue) : Exists(x)}
  /\ missing' = {x \in Head(queue) : ~Exists(x)}
  /\ queue' = Tail(queue)
  /\ UNCHANGED <<local, rows, server, watching, pending, children, spent>>

(* changed_paths keeps the order of the events, which is the debouncer's.   *)
NextPath(x) ==
  /\ phase = "batch" /\ children = {}
  /\ x \in todo
  /\ Sorted /\ x \in Path => todo \cap Dir = {}
Through(x) == todo' = todo \ {x}
Steady == UNCHANGED <<local, events, phase, spent>>

SkipKnown(x) ==
  /\ NextPath(x)
  /\ \/ x \in known
     \/ x \in Present \cap Tracked /\ row[x].hash = disk[x]
  /\ Through(x)
  /\ UNCHANGED <<rows, server, children, missing>> /\ Steady

NewDir(d) ==
  /\ NextPath(d) /\ d \in made \ known
  /\ MakeKnown(d)
  /\ children' = {p \in Present : Parent(p) = d}
  /\ Through(d)
  /\ UNCHANGED missing /\ Steady

(* sync_folder_contents: an entry with no row is pushed.                    *)
PushChild(p) ==
  /\ p \in children
  /\ IF p \in Present \ Tracked THEN Upload(p) ELSE UNCHANGED <<rows, server>>
  /\ children' = children \ {p}
  /\ UNCHANGED <<todo, missing>> /\ Steady

PushChanged(p) ==
  /\ NextPath(p) /\ p \in Present \cap Tracked /\ row[p].hash # disk[p]
  /\ Version(p)
  /\ Through(p)
  /\ UNCHANGED <<children, missing>> /\ Steady

(* try_move_tracked_file asks for one row with these bytes, and the file    *)
(* has moved if that one's path is empty.                                   *)
Alike(p) == {q \in Tracked : row[q].hash = disk[p]}

Move(p, q) ==
  /\ NextPath(p) /\ p \in Present \ Tracked
  /\ q \in Alike(p) \ Present
  /\ LET i == row[q].id
     IN /\ i \in Live
        /\ object' = [object EXCEPT ![i].path = Place(p),
                                    ![i].copy = Holding(Place(p)) \ {i} # {}]
        /\ row' = [row EXCEPT ![q] = NoRow, ![p] = [id |-> i, hash |-> disk[p]]]
  /\ missing' = missing \ {q}
  /\ Through(p)
  /\ UNCHANGED <<known, folders, children>> /\ Steady

PushNew(p) ==
  /\ NextPath(p) /\ p \in Present \ Tracked
  /\ Alike(p) = {} \/ Alike(p) \cap Present # {}
  /\ Upload(p)
  /\ Through(p)
  /\ UNCHANGED <<children, missing>> /\ Steady

Settled == phase = "batch" /\ todo = {} /\ children = {}

(* A path that had gone when the batch was received is deleted, whether or  *)
(* not it is still gone.                                                    *)
DeletePath(x) ==
  /\ Settled /\ x \in missing
  /\ IF x \in Tracked THEN DropFile(x)
     ELSE IF x \in known /\ ~StillTracked(x) THEN DropFolder(x)
     ELSE UNCHANGED <<rows, server>>
  /\ missing' = missing \ {x}
  /\ UNCHANGED <<todo, children>> /\ Steady

(* The first error ends the batch: a request fails, a path has gone since,  *)
(* the server no longer has the row's object.                               *)
Hopeless(x) ==
  \/ x \in Tracked /\ row[x].id \notin Live
  \/ x \in Present \ Tracked /\ \E q \in Alike(x) \ Present : row[q].id \notin Live
BatchFails(x) ==
  /\ \/ NextPath(x)
     \/ x \in children
     \/ Settled /\ x \in missing
  /\ IF Hopeless(x) \/ (~Settled /\ ~Exists(x)) THEN UNCHANGED spent ELSE Spend("failures")
  /\ Resting
  /\ UNCHANGED <<local, rows, server, events>>

EndBatch ==
  /\ Settled /\ missing = {}
  /\ Resting
  /\ UNCHANGED <<local, rows, server, events, spent>>

-----------------------------------------------------------------------------
(* reconcile_local, in the pass of the poll timer and in the first one.     *)

Poll ==
  /\ phase \in {"start", "idle"}
  /\ phase' = "folders"
  /\ todo' = made \ known
  /\ UNCHANGED <<local, rows, server, events, children, missing, spent>>

PollFolder(d) ==
  /\ phase = "folders" /\ d \in todo
  /\ \/ MakeKnown(d) /\ made' = made \cup {d} /\ UNCHANGED spent
     \/ Spend("failures") /\ UNCHANGED <<rows, server, made>>
  /\ Through(d)
  /\ UNCHANGED <<disk, events, phase, children, missing>>

ScanUntrackedFiles ==
  /\ phase = "folders" /\ todo = {}
  /\ phase' = "files"
  /\ todo' = Present \ Tracked
  /\ missing' = IF Present = {} THEN {} ELSE Tracked \ Present
  /\ UNCHANGED <<local, rows, server, events, children, spent>>

ScanFiles ==
  /\ phase = "folders" /\ todo = {}
  /\ phase' = "files"
  /\ todo' = Present
  /\ missing' = LET lost == Tracked \ Present
                IN IF Present = {} \/ Cardinality(lost) > Guard THEN {} ELSE lost
  /\ UNCHANGED <<local, rows, server, events, children, spent>>

PollFile(p) ==
  /\ phase = "files" /\ p \in todo \cap Present
  /\ \/ row[p].hash = disk[p] /\ UNCHANGED <<rows, server, spent>>
     \/ row[p].hash # disk[p] /\ Push(p) /\ UNCHANGED spent
     \/ /\ row[p].hash # disk[p]
        /\ IF Hopeless(p) THEN UNCHANGED spent ELSE Spend("failures")
        /\ UNCHANGED <<rows, server>>
  /\ Through(p)
  /\ UNCHANGED <<local, events, phase, children, missing>>

(* It has gone since the scan: one more error, or, with a row, the end of   *)
(* the pass.                                                                *)
PollVanished(p) ==
  /\ phase = "files" /\ p \in todo \ Present
  /\ IF p \in Tracked THEN EndsWork
     ELSE Through(p) /\ UNCHANGED <<phase, children, missing, watching>>
  /\ UNCHANGED <<local, rows, server, pending, queue, spent>>

PollMissing(p) ==
  /\ phase = "files" /\ todo = {} /\ p \in missing
  /\ \/ p \in Tracked /\ DropFile(p) /\ UNCHANGED spent
     \/ p \notin Tracked /\ UNCHANGED <<rows, server, spent>>
     \/ /\ IF Hopeless(p) THEN UNCHANGED spent ELSE Spend("failures")
        /\ UNCHANGED <<rows, server>>
  /\ missing' = missing \ {p}
  /\ UNCHANGED <<local, events, phase, todo, children>>

EndPass ==
  /\ phase = "files" /\ todo = {} /\ missing = {}
  /\ EndsWork
  /\ UNCHANGED <<local, rows, server, pending, queue, spent>>

-----------------------------------------------------------------------------
User ==
  \/ \E p \in Path : \/ \E b \in Bytes : Write(p, b)
                     \/ Remove(p)
                     \/ \E q \in Path : Rename(p, q)
  \/ \E d \in Dir : MakeDir(d) \/ RemoveDir(d) \/ \E e \in Dir : RenameDir(d, e)

Batch ==
  \/ \E p \in Path : PushChild(p) \/ PushChanged(p) \/ PushNew(p) \/ \E q \in Path : Move(p, q)
  \/ \E d \in Dir : NewDir(d)
  \/ \E x \in Entry : SkipKnown(x) \/ DeletePath(x) \/ BatchFails(x)
  \/ EndBatch

Pass ==
  \/ \E d \in Dir : PollFolder(d)
  \/ \E p \in Path : PollFile(p) \/ PollVanished(p) \/ PollMissing(p)
  \/ ScanFiles \/ EndPass

Watcher == \E batch \in SUBSET pending : Debounce(batch)

Next == User \/ Watcher \/ Stop \/ Receive \/ Batch \/ Poll \/ Pass
Spec == Init /\ [][Next]_vars

(* Passes end and the timer fires again and again.                          *)
LiveSpec == Spec /\ WF_vars(Batch \/ Pass) /\ SF_vars(Poll)

-----------------------------------------------------------------------------
(* Properties.                                                              *)

(* Every variable holds what the disk, the state database and the server    *)
(* can hold.                                                                *)
TypeOK ==
  /\ made \subseteq Dir /\ known \subseteq Dir /\ folders \subseteq Dir
  /\ disk \in [Path -> Bytes \cup {None}]
  /\ row \in [Path -> [id : Id, hash : Bytes] \cup {NoRow}]
  /\ object \in [Id -> [state : {"live", "deleted"}, path : Path \cup {None},
                        copy : BOOLEAN, bytes : Bytes \cup {None}] \cup {NoObject}]
  /\ watching \in BOOLEAN
  /\ pending \subseteq Entry
  /\ queue \in Seq(SUBSET Entry)
  /\ phase \in {"start", "idle", "batch", "folders", "files"}
  /\ todo \subseteq Entry /\ children \subseteq Path /\ missing \subseteq Entry
  /\ spent \in [scenario : Scenarios, files : Nat, dirs : Nat, removals : Nat,
               failures : Nat, stops : Nat]

(* The rows mirror the server: a row's object is live under the row's own   *)
(* path, and every live object has its row.  A file the server has in       *)
(* another folder than the user is moved there on his disk by the next      *)
(* pass.                                                                    *)
RowsMirrorServer ==
  /\ \A p \in Tracked : LET o == object[row[p].id]
                        IN o.state = "live" /\ o.path = p /\ ~o.copy
  /\ \A i \in Live : \E p \in Tracked : row[p].id = i

(* They do so whatever batches and passes come between the user's calls, if *)
(* a batch holds all that happened, directories first, no request fails,    *)
(* and the user is not hasty: a batch that ends early, or names files of a  *)
(* directory that was removed and made again, leaves a directory without a  *)
(* row, and find_parent_folder_id then puts its files at the top.           *)
Mirrored == Sorted /\ ~Hasty /\ spent.failures = 0 => RowsMirrorServer

(* Whatever the watcher misses, splits or drops on an error, what lies on   *)
(* the disk ends up on the server.                                          *)
Uploaded ==
  \A p \in Present : /\ p \in Tracked
                      /\ object[row[p].id].state = "live"
                      /\ object[row[p].id].bytes = disk[p]
EverythingIsUploaded == <>[]Uploaded
=============================================================================
