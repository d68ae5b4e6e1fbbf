------------------------------ MODULE FileSync ------------------------------
(***************************************************************************)
(* One engine keeping one flat directory and one space in agreement: what   *)
(* a pass does to the disk, to the tracking rows and to the server, step    *)
(* by step, while other clients change the server and the user changes the  *)
(* disk (sync/remote_apply.rs, relocate.rs, resolver.rs, remote_delete.rs,  *)
(* reconcile.rs, push.rs, deletions.rs, transfer.rs, state/*.rs).           *)
(*                                                                          *)
(* The feed's clock is abstracted to what the engine asks of it: has an     *)
(* object changed since the cursor (ChangeFeed has the clock).  Bytes are   *)
(* their hash, which the server may not have.  Folders and names too long   *)
(* for the filesystem are not modelled here; a download is streamed and     *)
(* landed in two steps, an upload hashed and sent in two steps, as in the   *)
(* code.                                                                    *)
(***************************************************************************)
EXTENDS Naturals, Sequences, FiniteSets

CONSTANTS
  File,        \* names a user gives
  Id,          \* server object ids, given in order
  Bytes,       \* contents
  None,        \* no file, no row, no hash
  Threshold,   \* QUARANTINE_THRESHOLD
  GuardFloor,  \* DELETE_GUARD_FLOOR
  Scenarios    \* bounds: see Scenario

ASSUME IdAssumption == Id \subseteq Nat
ASSUME ThresholdAssumption == Threshold \in Nat \ {0} /\ GuardFloor \in Nat

(* What a behaviour may hold: whether the user acts while a pass runs,      *)
(* whether the server may have no hash of what other clients put there, how *)
(* often they change the server, how often the user writes and removes, how *)
(* many requests fail and how often the process ends.                       *)
Scenario == [midpass : BOOLEAN, bare : BOOLEAN, remote : Nat, writes : Nat,
             removals : Nat, failures : Nat, stops : Nat]
ASSUME ScenariosAssumption == Scenarios \subseteq Scenario

(* A path is a user's name and what was appended to it: the server's        *)
(* "name (1)", this client's conflict copies, at most two of them.          *)
Suffix == {"(1)", "conflict", "conflict-2"}
Mark == {<<>>} \cup {<<m>> : m \in Suffix} \cup {<<m, n>> : m, n \in Suffix}

Path == File \X Mark
ASSUME NoneAssumption == None \notin Id \cup Bytes \cup Path
Own(f) == <<f, <<>>>>
Derived(p, m) == <<p[1], Append(p[2], m)>>
Nowhere == [path |-> None, bytes |-> None]
Unlisted == [path |-> None, bytes |-> None, hash |-> None]
Nothing == [state |-> "absent", path |-> None, bytes |-> None, hash |-> None]
NoRow == [id |-> None, hash |-> None]
Hash == Bytes \cup {None}

(* What can go wrong between files that the server renames or replaces: a   *)
(* file has to move to where other bytes stand ("displaced"), a download is *)
(* asked for over a file that is still to be moved ("overtaken"), a local   *)
(* copy is kept for what another object's row says ("borrowed"), a row is   *)
(* recorded without a hash ("unhashed").                                    *)
Mixup == {"displaced", "overtaken", "borrowed", "unhashed"}

VARIABLES
  object,   \* per id: its state, path, bytes and hash on the server
  news,     \* per id: "none", or a change "fresh" or "fetched" since the
            \* cursor
  cursor,   \* whether the sync_cursor row exists
  disk,     \* per path: the bytes of the local file, or None
  row,      \* per path: the facile_id and hash of its files row
  attempts, \* the sync_quarantine table
  phase,    \* what the pass is doing
  fresh,    \* the process has not fetched anything yet
  todo,     \* fetched ids not yet prepared
  snap,     \* per id: its path and hash when it was fetched, and its bytes,
            \* then or when they were streamed
  flight,   \* per id: how far its download is
  gone,     \* deleted ids to handle
  onDisk,   \* paths scan_local_files found
  push,     \* scanned paths not yet reconciled
  sending,  \* the path and hash of the upload under way
  missing,  \* tracked paths the scan did not find, not yet deleted
  held,     \* report.errors > 0 or report.skipped > 0
  spent,    \* the scenario, and how much of each of its bounds is used
  mine,     \* history: bytes the user wrote and has not given up himself
  stored,   \* history: per id, the bytes the server has held for it
  mixups    \* history: how files got mixed up, see Mixup

server == <<object, news, stored>>
pass == <<phase, fresh, todo, snap, flight, gone, onDisk, push, sending,
          missing, held>>
vars == <<server, cursor, disk, row, attempts, pass, spent, mine, mixups>>

MidPass == spent.scenario.midpass
Bare == spent.scenario.bare

Absent == {i \in Id : object[i].state = "absent"}
Live == {i \in Id : object[i].state = "live"}
Deleted == {i \in Id : object[i].state = "deleted"}
Taken == {object[i].path : i \in Live}
Quarantined == {i \in Id : attempts[i] >= Threshold}
Present(d) == {p \in Path : d[p] # None}
Tracks(r, i) == {p \in Path : r[p].id = i}
TrackedPaths == {p \in Path : row[p] # NoRow}
PathOf(i) == CHOOSE p \in Path : row[p].id = i

Init ==
  /\ object = [i \in Id |-> Nothing]
  /\ news = [i \in Id |-> "none"]
  /\ cursor = FALSE
  /\ disk = [p \in Path |-> None]
  /\ row = [p \in Path |-> NoRow]
  /\ attempts = [i \in Id |-> 0]
  /\ phase = "idle"
  /\ fresh = TRUE
  /\ todo = {} /\ gone = {} /\ onDisk = {} /\ push = {} /\ missing = {}
  /\ snap = [i \in Id |-> Unlisted]
  /\ flight = [i \in Id |-> "none"]
  /\ sending = Nowhere
  /\ held = FALSE
  /\ \E s \in Scenarios :
       spent = [scenario |-> s, remote |-> 0, writes |-> 0, removals |-> 0,
                failures |-> 0, stops |-> 0]
  /\ mine = {}
  /\ stored = [i \in Id |-> {}]
  /\ mixups = {}

Spend(kind) ==
  /\ spent[kind] < spent.scenario[kind]
  /\ spent' = [spent EXCEPT ![kind] = @ + 1]

(* A request that has to fail costs nothing, one that need not is charged.  *)
FailsAnyway(hopeless) ==
  IF hopeless THEN UNCHANGED spent ELSE Spend("failures")

-----------------------------------------------------------------------------
(* Other clients.  A live path belongs to one object.                       *)

Becomes(i, s, p, b, h) ==
  /\ object' = [object EXCEPT
       ![i] = [state |-> s, path |-> p, bytes |-> b, hash |-> h]]
  /\ news' = [news EXCEPT ![i] = "fresh"]
  /\ stored' = IF s = "live" THEN [stored EXCEPT ![i] = @ \cup {b}] ELSE stored

NextId(i) == i \in Absent /\ \A j \in Absent : i <= j

Hashes(b) == IF Bare THEN {b, None} ELSE {b}

RemoteCreate(i, p, b, h) ==
  /\ Spend("remote")
  /\ NextId(i)
  /\ p \notin Taken
  /\ Becomes(i, "live", p, b, h)
  /\ UNCHANGED <<cursor, disk, row, attempts, pass, mine, mixups>>

RemoteEdit(i, b, h) ==
  /\ Spend("remote")
  /\ i \in Live /\ object[i].bytes # b
  /\ Becomes(i, "live", object[i].path, b, h)
  /\ UNCHANGED <<cursor, disk, row, attempts, pass, mine, mixups>>

RemoteRename(i, p) ==
  /\ Spend("remote")
  /\ i \in Live
  /\ p \notin Taken
  /\ Becomes(i, "live", p, object[i].bytes, object[i].hash)
  /\ UNCHANGED <<cursor, disk, row, attempts, pass, mine, mixups>>

RemoteDelete(i) ==
  /\ Spend("remote")
  /\ i \in Live
  /\ Becomes(i, "deleted", object[i].path, object[i].bytes, object[i].hash)
  /\ UNCHANGED <<cursor, disk, row, attempts, pass, mine, mixups>>

-----------------------------------------------------------------------------
(* The user, at the names he gives.                                         *)

UserTurn == phase = "idle" \/ MidPass

UserWrite(p, b) ==
  /\ Spend("writes")
  /\ UserTurn
  /\ disk[p] # b
  /\ disk' = [disk EXCEPT ![p] = b]
  /\ mine' = (mine \ {disk[p]}) \cup {b}
  /\ UNCHANGED <<server, cursor, row, attempts, pass, mixups>>

UserRemove(p) ==
  /\ Spend("removals")
  /\ UserTurn
  /\ disk[p] # None
  /\ disk' = [disk EXCEPT ![p] = None]
  /\ mine' = mine \ {disk[p]}
  /\ UNCHANGED <<server, cursor, row, attempts, pass, mixups>>

-----------------------------------------------------------------------------
(* Pure steps on disk and rows.                                             *)

(* upsert_file: one row per object, one object per path.                    *)
UpsertByPath(r, i, p, h) == [r EXCEPT ![p] = [id |-> i, hash |-> h]]
Upsert(r, i, p, h) ==
  [q \in Path |-> IF q = p THEN [id |-> i, hash |-> h]
                  ELSE IF r[q].id = i THEN NoRow ELSE r[q]]

(* remove_file.                                                             *)
Forget(r, paths) == [q \in Path |-> IF q \in paths THEN NoRow ELSE r[q]]

(* reparent_files for a single file: the destination's row is cleared.      *)
Reparent(r, from, to) ==
  [q \in Path |-> IF q = to THEN r[from]
                  ELSE IF q = from THEN NoRow ELSE r[q]]

(* unique_conflict_path: the first sibling name that is not taken on disk.  *)
(* The code goes on counting; HasRoom bounds the copies of one file.        *)
ConflictMarks == {"conflict", "conflict-2"}
ConflictName(p) == p[2] # <<>> /\ p[2][Len(p[2])] \in ConflictMarks
UniqueConflictPath(d, p) ==
  LET first == Derived(p, "conflict")
  IN IF first \in Present(d) THEN Derived(p, "conflict-2") ELSE first
HasRoom(d, p) == UniqueConflictPath(d, p) \in Path \ Present(d)

MoveAside(d, p) ==
  [d EXCEPT ![p] = None, ![UniqueConflictPath(d, p)] = d[p]]

(* relocate_local_file and clear_collision: nothing at the destination is   *)
(* overwritten.                                                             *)
Collides(d, from, to) == d[from] # None /\ d[to] \notin {None, d[from]}
Relocate(d, from, to) ==
  CASE d[from] = None -> d
    [] d[from] # None /\ d[to] = None ->
         [d EXCEPT ![from] = None, ![to] = d[from]]
    [] d[from] # None /\ d[to] = d[from] -> [d EXCEPT ![from] = None]
    [] OTHER -> MoveAside(d, from)

(* resolve_conflict.                                                        *)
ResolveForTheServer(ours, theirs, known) ==
  IF ours = theirs THEN "same"
  ELSE IF known = theirs THEN "local" ELSE "remote"
Resolve(ours, theirs, known) ==
  CASE ours = theirs -> "same"
    [] ours # theirs /\ known = ours -> "remote"
    [] ours # theirs /\ known = theirs -> "local"
    [] OTHER -> "both"

-----------------------------------------------------------------------------
(* Starting and ending a pass.                                              *)

Unread == [i \in Id |-> IF news[i] = "fetched" THEN "fresh" ELSE news[i]]

Rest ==
  /\ phase' = "idle"
  /\ todo' = {} /\ gone' = {} /\ onDisk' = {} /\ push' = {} /\ missing' = {}
  /\ snap' = [i \in Id |-> Unlisted]
  /\ flight' = [i \in Id |-> "none"]
  /\ sending' = Nowhere
  /\ held' = FALSE

(* The process ends, and another one is started in its place.               *)
Stop ==
  /\ Spend("stops")
  /\ Rest
  /\ fresh' = TRUE
  /\ news' = Unread
  /\ UNCHANGED <<object, stored, cursor, disk, row, attempts, mine, mixups>>

(* `nuage sync --retry-failed`.                                             *)
RetryFailed ==
  /\ Spend("stops")
  /\ phase = "idle"
  /\ attempts' = [i \in Id |-> 0]
  /\ UNCHANGED <<server, cursor, disk, row, pass, mine, mixups>>

Listed(i) == [path |-> object[i].path, bytes |-> object[i].bytes,
              hash |-> object[i].hash]
Fetch(changed, removed) ==
  /\ phase = "idle"
  /\ fresh' = FALSE
  /\ todo' = changed
  /\ gone' = removed
  /\ snap' = [i \in Id |-> IF i \in changed THEN Listed(i) ELSE Unlisted]
  /\ UNCHANGED <<object, stored, cursor, disk, row, attempts, flight, onDisk,
                 push, sending, missing, held, spent, mine, mixups>>

(* verify_remote, which the daemon runs before its first full pass.         *)
StartVerify ==
  /\ fresh
  /\ Fetch(Live, {})
  /\ phase' = "verify"
  /\ UNCHANGED news

(* full_sync.  Without a cursor the answer is the whole tree and no list    *)
(* of deletions.                                                            *)
StartFull ==
  /\ IF cursor
     THEN Fetch({i \in Live : news[i] # "none"},
                {i \in Deleted : news[i] # "none"})
     ELSE Fetch(Live, {})
  /\ phase' = "files"
  /\ news' = [i \in Id |-> IF news[i] = "fresh" THEN "fetched" ELSE news[i]]

-----------------------------------------------------------------------------
(* Remote files.                                                            *)

Applying == phase \in {"verify", "files"}

SkipQuarantined(i) ==
  /\ Applying /\ i \in todo
  /\ i \in Quarantined
  /\ todo' = todo \ {i}
  /\ held' = TRUE
  /\ UNCHANGED <<server, cursor, disk, row, attempts, phase, fresh, snap,
                 flight, gone, onDisk, push, sending, missing, spent, mine,
                 mixups>>

MustMove(i) == Tracks(row, i) # {} /\ PathOf(i) # snap[i].path

(* follow_remote_move: the file goes where the server has it, the row       *)
(* follows with the hash both sides last agreed on.                         *)
FollowedWithoutItsRow(i) ==
  [disk |-> IF MustMove(i) THEN Relocate(disk, PathOf(i), snap[i].path)
            ELSE disk,
   row |-> row]
Followed(i) ==
  IF MustMove(i)
  THEN [disk |-> Relocate(disk, PathOf(i), snap[i].path),
        row |-> Upsert(Reparent(row, PathOf(i), snap[i].path),
                       i, snap[i].path, row[PathOf(i)].hash)]
  ELSE [disk |-> disk, row |-> row]

(* What is left to do once the move has been followed.  A file the server   *)
(* has no hash of is left at that when it moved, and else downloaded over   *)
(* whatever is there.                                                       *)
Verdict(i, d, r) ==
  LET p == snap[i].path
      theirs == snap[i].hash
      blank == None \in {d[p], theirs}
  IN CASE MustMove(i) /\ (blank \/ d[p] = theirs) -> "settled"
       [] ~MustMove(i) /\ blank -> "remote"
       [] OTHER -> Resolve(d[p], theirs, r[p].hash)

(* A file that already is what the server has is recorded at once.          *)
RecordedAlsoWhenKept(i, verdict, d, r) ==
  IF verdict \in {"same", "local"}
  THEN Upsert(r, i, snap[i].path, d[snap[i].path]) ELSE r
Recorded(i, verdict, d, r) ==
  IF verdict = "same" THEN Upsert(r, i, snap[i].path, d[snap[i].path]) ELSE r

Asks(verdict) == verdict \in {"remote", "both"}
Displaced(i) == MustMove(i) /\ Collides(disk, PathOf(i), snap[i].path)
MixesUp(i, verdict, r) == {m \in Mixup :
  \/ m = "displaced" /\ Displaced(i)
  \/ m = "overtaken" /\ Asks(verdict) /\ r[snap[i].path].id \in todo \ {i}
  \/ m = "borrowed" /\ verdict = "local" /\ r[snap[i].path].id # i}

(* prepare_remote_file.                                                     *)
Prepare(i) ==
  /\ Applying /\ i \in todo
  /\ i \notin Quarantined
  /\ todo' = todo \ {i}
  /\ LET p == snap[i].path
         d == Followed(i).disk
         r == Followed(i).row
         verdict == Verdict(i, d, r)
     IN /\ Displaced(i) => HasRoom(disk, PathOf(i))
        /\ verdict = "both" => HasRoom(d, p)
        /\ disk' = IF verdict = "both" THEN MoveAside(d, p) ELSE d
        /\ row' = Recorded(i, verdict, d, r)
        /\ flight' = IF Asks(verdict) THEN [flight EXCEPT ![i] = "asked"]
                     ELSE flight
        /\ mixups' = mixups \cup MixesUp(i, verdict, r)
  /\ UNCHANGED <<server, cursor, attempts, phase, fresh, snap, gone, onDisk,
                 push, sending, missing, held, spent, mine>>

Progress(i, from, to) ==
  /\ flight[i] = from
  /\ flight' = [flight EXCEPT ![i] = to]

(* The bytes arrive beside their place, and only if they are the ones the   *)
(* window promised, where it promised any.                                  *)
Expected(i) == i \in Live /\ snap[i].hash \in {None, object[i].bytes}
Stream(i) ==
  /\ Progress(i, "asked", "streamed")
  /\ Expected(i)
  /\ snap' = [snap EXCEPT ![i].bytes = object[i].bytes]
  /\ UNCHANGED <<server, cursor, disk, row, attempts, phase, fresh, todo,
                 gone, onDisk, push, sending, missing, held, spent, mine,
                 mixups>>

StreamRefused(i) ==
  /\ Progress(i, "asked", "failed")
  /\ FailsAnyway(~Expected(i))
  /\ UNCHANGED <<server, cursor, disk, row, attempts, phase, fresh, todo,
                 snap, gone, onDisk, push, sending, missing, held, mine,
                 mixups>>

(* The temp file is renamed over whatever the path holds by now.            *)
Land(i) ==
  /\ Progress(i, "streamed", "landed")
  /\ disk' = [disk EXCEPT ![snap[i].path] = snap[i].bytes]
  /\ UNCHANGED <<server, cursor, row, attempts, phase, fresh, todo, snap,
                 gone, onDisk, push, sending, missing, held, spent, mine,
                 mixups>>

(* collect_downloads, once every file of the window has been prepared: the  *)
(* row has the hash the window had, if any.                                 *)
Collect(i) ==
  /\ Applying /\ todo = {}
  /\ Progress(i, "landed", "none")
  /\ row' = Upsert(row, i, snap[i].path, snap[i].hash)
  /\ attempts' = [attempts EXCEPT ![i] = 0]
  /\ mixups' = mixups \cup {m \in {"unhashed"} : snap[i].hash = None}
  /\ UNCHANGED <<server, cursor, disk, phase, fresh, todo, snap, gone,
                 onDisk, push, sending, missing, held, spent, mine>>

CollectFailed(i) ==
  /\ Applying /\ todo = {}
  /\ Progress(i, "failed", "none")
  /\ attempts' = [attempts EXCEPT ![i] = @ + 1]
  /\ held' = TRUE
  /\ UNCHANGED <<server, cursor, disk, row, phase, fresh, todo, snap, gone,
                 onDisk, push, sending, missing, spent, mine, mixups>>

FilesDone == Applying /\ todo = {} /\ \A i \in Id : flight[i] = "none"

EndVerify ==
  /\ FilesDone /\ phase = "verify"
  /\ Rest
  /\ UNCHANGED <<server, cursor, disk, row, attempts, fresh, spent, mine,
                 mixups>>

-----------------------------------------------------------------------------
(* Remote deletions: the local file goes, whatever it holds, and the row.   *)

RemoveLocal(i) ==
  /\ FilesDone /\ phase = "files" /\ i \in gone
  /\ gone' = gone \ {i}
  /\ disk' = [p \in Path |-> IF row[p].id = i THEN None ELSE disk[p]]
  /\ row' = Forget(row, Tracks(row, i))
  /\ UNCHANGED <<server, cursor, attempts, phase, fresh, todo, snap, flight,
                 onDisk, push, sending, missing, held, spent, mine, mixups>>

(* scan_local_files.                                                        *)
Scan ==
  /\ FilesDone /\ phase = "files" /\ gone = {}
  /\ phase' = "push"
  /\ onDisk' = Present(disk)
  /\ push' = Present(disk)
  /\ UNCHANGED <<server, cursor, disk, row, attempts, fresh, todo, snap,
                 flight, gone, sending, missing, held, spent, mine, mixups>>

-----------------------------------------------------------------------------
(* reconcile_local: each scanned file against its row.                      *)

Pushing(p) == phase = "push" /\ sending = Nowhere /\ p \in push

BeginSendUnseen(p) ==
  /\ Pushing(p)
  /\ row[p].hash # disk[p]
  /\ push' = push \ {p}
  /\ sending' = [path |-> p, bytes |-> disk[p]]
  /\ UNCHANGED <<server, cursor, disk, row, attempts, phase, fresh, todo,
                 snap, flight, gone, onDisk, missing, held, spent, mine,
                 mixups>>

(* An untracked file, or one whose bytes are not the recorded ones: it is   *)
(* hashed now and read again when it is sent.                               *)
BeginSend(p) ==
  /\ Pushing(p)
  /\ disk[p] # None /\ row[p].hash # disk[p]
  /\ push' = push \ {p}
  /\ sending' = [path |-> p, bytes |-> disk[p]]
  /\ UNCHANGED <<server, cursor, disk, row, attempts, phase, fresh, todo,
                 snap, flight, gone, onDisk, missing, held, spent, mine,
                 mixups>>

SkipUnchanged(p) ==
  /\ Pushing(p)
  /\ disk[p] # None /\ row[p].hash = disk[p]
  /\ push' = push \ {p}
  /\ UNCHANGED <<server, cursor, disk, row, attempts, phase, fresh, todo,
                 snap, flight, gone, onDisk, sending, missing, held, spent,
                 mine, mixups>>

(* Scanned, and gone since: an untracked file is one failed upload, a       *)
(* tracked one ends the whole pass with an error.                           *)
SkipVanished(p) ==
  /\ Pushing(p)
  /\ disk[p] = None /\ row[p] = NoRow
  /\ push' = push \ {p}
  /\ held' = TRUE
  /\ UNCHANGED <<server, cursor, disk, row, attempts, phase, fresh, todo,
                 snap, flight, gone, onDisk, sending, missing, spent, mine,
                 mixups>>

Abort(p) ==
  /\ Pushing(p)
  /\ disk[p] = None /\ row[p] # NoRow
  /\ Rest
  /\ news' = Unread
  /\ UNCHANGED <<object, stored, cursor, disk, row, attempts, fresh, spent,
                 mine, mixups>>

Sent == sending' = Nowhere
Sending(p) == phase = "push" /\ sending.path = p /\ disk[p] # None

(* reupload: the bytes go into the object the row names, wherever the       *)
(* server has it by now.                                                    *)
Version(p) ==
  /\ Sending(p)
  /\ row[p].id \in Live
  /\ Becomes(row[p].id, "live", object[row[p].id].path, disk[p], disk[p])

SendVersion(p) ==
  /\ Version(p)
  /\ row' = Upsert(row, row[p].id, p, sending.bytes)
  /\ Sent
  /\ UNCHANGED <<cursor, disk, attempts, phase, fresh, todo, snap, flight,
                 gone, onDisk, push, missing, held, spent, mine, mixups>>

SendVersionLost(p) ==
  /\ Spend("failures")
  /\ Version(p)
  /\ Sent
  /\ held' = TRUE
  /\ UNCHANGED <<cursor, disk, row, attempts, phase, fresh, todo, snap,
                 flight, gone, onDisk, push, missing, mine, mixups>>

(* upload_new_file.  The server gives a name that is taken another one.     *)
Granted(p) == IF p \notin Taken THEN p ELSE Derived(p, "(1)")
Creatable(j, p) ==
  /\ Sending(p) /\ row[p] = NoRow
  /\ NextId(j)
  /\ Granted(p) \in Path \ Taken
Holder(p) == CHOOSE i \in Live : object[i].path = p
Adoptable(p) == p \in Taken /\ object[Holder(p)].hash = sending.bytes

SendNew(j, p) ==
  /\ Creatable(j, p)
  /\ FailsAnyway(~Adoptable(p))
  /\ Becomes(j, "live", Granted(p), disk[p], disk[p])
  /\ row' = Upsert(row, j, p, sending.bytes)
  /\ Sent
  /\ UNCHANGED <<cursor, disk, attempts, phase, fresh, todo, snap, flight,
                 gone, onDisk, push, missing, held, mine, mixups>>

(* adopt_existing_file: the copy just created is deleted again, and the     *)
(* object that already held the name takes the path.                        *)
SendAdopted(j, p) ==
  /\ Creatable(j, p)
  /\ Adoptable(p)
  /\ Becomes(j, "deleted", Granted(p), disk[p], disk[p])
  /\ row' = Upsert(row, Holder(p), p, sending.bytes)
  /\ Sent
  /\ UNCHANGED <<cursor, disk, attempts, phase, fresh, todo, snap, flight,
                 gone, onDisk, push, missing, held, spent, mine, mixups>>

SendNewLost(j, p) ==
  /\ Spend("failures")
  /\ Creatable(j, p)
  /\ Becomes(j, "live", Granted(p), disk[p], disk[p])
  /\ Sent
  /\ held' = TRUE
  /\ UNCHANGED <<cursor, disk, row, attempts, phase, fresh, todo, snap,
                 flight, gone, onDisk, push, missing, mine, mixups>>

(* The object is gone from the server, the file from the disk, or the       *)
(* server has no room (or the request fails).                               *)
Hopeless(p) ==
  \/ disk[p] = None
  \/ row[p] # NoRow /\ row[p].id \notin Live
  \/ row[p] = NoRow /\ \A j \in Id : ~Creatable(j, p)

SendRefused(p) ==
  /\ phase = "push" /\ sending.path = p
  /\ FailsAnyway(Hopeless(p))
  /\ Sent
  /\ held' = TRUE
  /\ UNCHANGED <<server, cursor, disk, row, attempts, phase, fresh, todo,
                 snap, flight, gone, onDisk, push, missing, mine, mixups>>

-----------------------------------------------------------------------------
(* propagate_local_deletions.                                               *)

Larger(a, b) == IF a >= b THEN a ELSE b
GuardBlocks(scanned) ==
  \/ scanned = {}
  \/ Cardinality(TrackedPaths \ scanned)
       > Larger(GuardFloor, Cardinality(TrackedPaths) \div 10)

StartMissing ==
  /\ phase = "push" /\ push = {} /\ sending = Nowhere
  /\ phase' = "delete"
  /\ missing' = IF GuardBlocks(onDisk) THEN {} ELSE TrackedPaths \ onDisk
  /\ UNCHANGED <<server, cursor, disk, row, attempts, fresh, todo, snap,
                 flight, gone, onDisk, push, sending, held, spent, mine,
                 mixups>>

Deletes(i) ==
  Becomes(i, "deleted", object[i].path, object[i].bytes, object[i].hash)
Handled(p) == phase = "delete" /\ p \in missing /\ missing' = missing \ {p}

DeleteMissing(p) ==
  /\ Handled(p)
  /\ row[p].id \in Live
  /\ Deletes(row[p].id)
  /\ row' = Forget(row, {p})
  /\ UNCHANGED <<cursor, disk, attempts, phase, fresh, todo, snap, flight,
                 gone, onDisk, push, sending, held, spent, mine, mixups>>

DeleteMissingLost(p) ==
  /\ Spend("failures")
  /\ Handled(p)
  /\ row[p].id \in Live
  /\ Deletes(row[p].id)
  /\ held' = TRUE
  /\ UNCHANGED <<cursor, disk, row, attempts, phase, fresh, todo, snap,
                 flight, gone, onDisk, push, sending, mine, mixups>>

(* An object the server no longer has is an error like any other.           *)
DeleteMissingRefused(p) ==
  /\ Handled(p)
  /\ FailsAnyway(row[p].id \notin Live)
  /\ held' = TRUE
  /\ UNCHANGED <<server, cursor, disk, row, attempts, phase, fresh, todo,
                 snap, flight, gone, onDisk, push, sending, mine, mixups>>

(* advance_cursor, to the server_time the window was fetched at.            *)
PassedAtTheEnd == [i \in Id |-> "none"]
Passed == [i \in Id |-> IF news[i] = "fetched" THEN "none" ELSE news[i]]
EndPass ==
  /\ phase = "delete" /\ missing = {}
  /\ Rest
  /\ IF held
     THEN news' = Unread /\ UNCHANGED cursor
     ELSE news' = Passed /\ cursor' = TRUE
  /\ UNCHANGED <<object, stored, disk, row, attempts, fresh, spent, mine,
                 mixups>>

-----------------------------------------------------------------------------
OtherClients ==
  \E i \in Id :
    \/ \E b \in Bytes : \E h \in Hashes(b) :
         RemoteEdit(i, b, h) \/ \E f \in File : RemoteCreate(i, Own(f), b, h)
    \/ \E f \in File : RemoteRename(i, Own(f))
    \/ RemoteDelete(i)

User == \E f \in File :
  \/ \E b \in Bytes : UserWrite(Own(f), b)
  \/ UserRemove(Own(f))

Operator == Stop \/ RetryFailed

Download(i) == Stream(i) \/ StreamRefused(i) \/ Land(i)

Work ==
  \/ \E i \in Id : \/ SkipQuarantined(i) \/ Prepare(i) \/ Download(i)
                   \/ Collect(i) \/ CollectFailed(i) \/ RemoveLocal(i)
  \/ EndVerify \/ Scan \/ StartMissing \/ EndPass
  \/ \E p \in Path :
       \/ BeginSend(p) \/ SkipUnchanged(p) \/ SkipVanished(p) \/ Abort(p)
       \/ SendVersion(p) \/ SendVersionLost(p) \/ SendRefused(p)
       \/ DeleteMissing(p) \/ DeleteMissingLost(p) \/ DeleteMissingRefused(p)
       \/ \E j \in Id : SendNew(j, p) \/ SendAdopted(j, p) \/ SendNewLost(j, p)

Next == OtherClients \/ User \/ Operator \/ StartVerify \/ StartFull \/ Work

Spec == Init /\ [][Next]_vars

(* The daemon polls for ever and a pass goes on to its end.                 *)
LiveSpec == Spec /\ WF_vars(StartFull) /\ WF_vars(Work)

-----------------------------------------------------------------------------
(* Properties.                                                              *)

(* Every variable holds what the disk, the state database and the server    *)
(* can hold.                                                                *)
TypeOK ==
  /\ object \in [Id -> [state : {"live", "deleted"}, path : Path,
                       bytes : Bytes, hash : Hash] \cup {Nothing}]
  /\ news \in [Id -> {"none", "fresh", "fetched"}]
  /\ cursor \in BOOLEAN
  /\ disk \in [Path -> Bytes \cup {None}]
  /\ row \in [Path -> [id : Id, hash : Hash] \cup {NoRow}]
  /\ attempts \in [Id -> Nat]
  /\ phase \in {"idle", "verify", "files", "push", "delete"}
  /\ fresh \in BOOLEAN /\ held \in BOOLEAN
  /\ todo \subseteq Id /\ gone \subseteq Id
  /\ snap \in [Id -> [path : Path, bytes : Bytes, hash : Hash]
                     \cup {Unlisted}]
  /\ flight \in [Id -> {"none", "asked", "streamed", "landed", "failed"}]
  /\ onDisk \subseteq Path /\ push \subseteq Path /\ missing \subseteq Path
  /\ sending \in [path : Path, bytes : Bytes] \cup {Nowhere}
  /\ spent \in [scenario : Scenarios, remote : Nat, writes : Nat,
               removals : Nat, failures : Nat, stops : Nat]
  /\ mine \subseteq Bytes
  /\ stored \in [Id -> SUBSET Bytes]
  /\ mixups \subseteq Mixup

(* One remote object is never tracked at two paths, whatever the server     *)
(* renames and whichever upload is adopted (upsert_file, reparent_files).   *)
OneRow(r) == \A p, q \in Path :
  r[p] # NoRow /\ r[q] # NoRow /\ r[p].id = r[q].id => p = q
OneRowPerObject == OneRow(row)

(* The recorded hash, where there is one, is a version of the row's own     *)
(* object: what both sides last agreed on, the base every later conflict is *)
(* judged from.                                                             *)
RowsAgreed ==
  MidPass \/ \A p \in TrackedPaths :
               row[p].hash \in stored[row[p].id] \cup {None}

(* What the user wrote is on his disk or among the server's versions.       *)
Kept == \A b \in mine :
  \/ \E p \in Path : disk[p] = b
  \/ \E i \in Id : b \in stored[i]

(* What the user wrote is discarded by two kinds of steps only: applying a  *)
(* remote deletion, and a download that lands on work nobody compared it    *)
(* with: on a conflict copy put under its path after the path was judged,   *)
(* for a file the server gave no hash of, or, if he acts while a pass runs, *)
(* on what he wrote there.  Conflicts, moves on the server, uploads, lost   *)
(* answers and local deletions never discard any.                           *)
Uncompared(i) == MidPass \/ ConflictName(snap[i].path) \/ snap[i].hash = None
WorkIsKept ==
  [][Kept => \/ Kept'
             \/ \E i \in Id : \/ RemoveLocal(i)
                              \/ Land(i) /\ Uncompared(i)]_vars

(* While its user changes nothing and its process goes on, a client changes *)
(* nothing on the server, whatever others create, edit, rename and delete,  *)
(* as long as no files got mixed up: no file had to move to a name where    *)
(* other bytes stood, no download was asked for over a file that was still  *)
(* to be moved, and no row was left without a hash.  (A process that ends   *)
(* between a landed download and its row leaves a file that looks new: if   *)
(* the object was renamed or deleted meanwhile, it is uploaded.)            *)
Passive ==
  /\ spent.writes + spent.removals + spent.stops = 0
  /\ mixups \subseteq {"borrowed"}
PassiveClientWritesNothing ==
  [][Passive /\ object' # object => OtherClients]_vars

(* An engine deletes from the server only what its user removed.            *)
DeletesOnlyWhatTheUserRemoved ==
  [][spent.removals = 0 => Live \cap Deleted' = {} \/ OtherClients]_vars

(* Once everybody else is done, directory, rows and space come to agree;    *)
(* but for what is quarantined, what the guard holds back, a file the       *)
(* server still has no hash of (renamed and edited at once it is not        *)
(* downloaded), and the copy of an object whose deletion no window told of  *)
(* (ChangeFeed has why).                                                    *)
Withheld ==
  IF GuardBlocks(Present(disk)) THEN TrackedPaths \ Present(disk) ELSE {}
Agrees(i) ==
  LET p == object[i].path
  IN \/ p \in Withheld
     \/ object[i].hash = None
     \/ disk[p] = object[i].bytes /\ row[p] = [id |-> i, hash |-> disk[p]]
Accounted(p) ==
  LET i == row[p].id
  IN \/ i \in Live
     \/ i \in Deleted /\ (news[i] = "none" \/ ~cursor)
Agree ==
  /\ \A i \in Live \ Quarantined : Agrees(i)
  /\ \A p \in Present(disk) : Accounted(p)
Converges == <>[](Agree \/ "borrowed" \in mixups)
=============================================================================
