----------------------------- MODULE ChangeFeed -----------------------------
(***************************************************************************)
(* The incremental half of the sync engine: the change feed a pass reads    *)
(* from its cursor, the fate of every item of that window, the quarantine,  *)
(* and the rule that moves the cursor (sync/pass.rs, sync/remote.rs,        *)
(* sync/remote_apply.rs, sync/state/{cursor,quarantine}.rs,                 *)
(* commands/repair.rs).                                                     *)
(*                                                                          *)
(* An item is one server object.  What it holds is abstracted to the        *)
(* server's stamp of its latest change; where it lies locally and what two  *)
(* diverged copies do to each other is the subject of FileSync.             *)
(*                                                                          *)
(* Several engines may run on one directory: the daemon, and the            *)
(* `nuage sync --retry-failed` its own warnings tell the user to run.       *)
(* They share the state database and nothing else.                          *)
(***************************************************************************)
EXTENDS Naturals, FiniteSets

CONSTANTS Item,       \* the objects the server may come to hold
          Engine,     \* the processes syncing this directory
          Threshold,  \* QUARANTINE_THRESHOLD
          MaxClock,   \* bound: how many changes the server stamps
          MaxFaults   \* bound: how many process restarts and local I/O faults

ASSUME ThresholdAssumption == Threshold \in Nat \ {0}
ASSUME BoundAssumption == MaxClock \in Nat /\ MaxFaults \in Nat

VARIABLES
  clock,     \* the server's clock
  status,    \* per item: "absent", "live" or "deleted" on the server
  stamp,     \* per item: its updated_at, or when it was deleted
  content,   \* per item: the stamp at which its bytes last changed
  cursor,    \* the sync_cursor row; 0 when there is none
  attempts,  \* the sync_quarantine table
  tracked,   \* items with a row in the files table
  local,     \* items whose local copy is where its row says
  applied,   \* per item: the stamp of the last version the client handled
  phase,     \* per engine: what its current pass is doing
  fresh,     \* per engine: a new process that has not fetched anything yet
  window,    \* per engine: fetched items it has not prepared yet
  seen,      \* per engine: the stamp each item had when it was fetched
  flight,    \* per engine: items being downloaded
  gone,      \* per engine: deleted ids it has not handled yet
  horizon,   \* per engine: the server_time its fetch answered
  held,      \* per engine: report.errors > 0 or report.skipped > 0
  faults,    \* restarts and local faults so far
  dropped,   \* history: items whose row repair dropped and no pass re-read
  untold     \* history: tracked items a fetch without a cursor left out

server == <<clock, status, stamp, content>>
store == <<cursor, attempts, tracked, local>>
pass == <<phase, fresh, window, seen, flight, gone, horizon, held>>
history == <<applied, dropped, untold>>
vars == <<server, store, pass, history, faults>>

Live == {i \in Item : status[i] = "live"}
Deleted == {i \in Item : status[i] = "deleted"}
Quarantined == {i \in Item : attempts[i] >= Threshold}

Phases == {"idle", "repair", "verify", "files", "deletes", "reconcile"}

Init ==
  /\ clock = 0
  /\ status = [i \in Item |-> "absent"]
  /\ stamp = [i \in Item |-> 0]
  /\ content = [i \in Item |-> 0]
  /\ cursor = 0
  /\ attempts = [i \in Item |-> 0]
  /\ tracked = {}
  /\ local = {}
  /\ applied = [i \in Item |-> 0]
  /\ phase = [e \in Engine |-> "idle"]
  /\ fresh = [e \in Engine |-> TRUE]
  /\ window = [e \in Engine |-> {}]
  /\ seen = [e \in Engine |-> [i \in Item |-> 0]]
  /\ flight = [e \in Engine |-> {}]
  /\ gone = [e \in Engine |-> {}]
  /\ horizon = [e \in Engine |-> 0]
  /\ held = [e \in Engine |-> FALSE]
  /\ faults = 0
  /\ dropped = {}
  /\ untold = {}

-----------------------------------------------------------------------------
(* The server and the user.  Every change stamps the item anew.             *)

(* Another client uploads the item, or a new version of it.                 *)
RemoteWrite(i) ==
  /\ clock < MaxClock
  /\ status[i] # "deleted"
  /\ clock' = clock + 1
  /\ status' = [status EXCEPT ![i] = "live"]
  /\ stamp' = [stamp EXCEPT ![i] = clock']
  /\ content' = [content EXCEPT ![i] = clock']
  /\ UNCHANGED <<store, pass, history, faults>>

(* Another client renames or moves the item: its bytes stay what they were. *)
RemoteRename(i) ==
  /\ clock < MaxClock
  /\ i \in Live
  /\ clock' = clock + 1
  /\ stamp' = [stamp EXCEPT ![i] = clock']
  /\ UNCHANGED <<status, content, store, pass, history, faults>>

RemoteDelete(i) ==
  /\ clock < MaxClock
  /\ i \in Live
  /\ clock' = clock + 1
  /\ status' = [status EXCEPT ![i] = "deleted"]
  /\ stamp' = [stamp EXCEPT ![i] = clock']
  /\ UNCHANGED <<content, store, pass, history, faults>>

(* The user deletes the local copy.                                         *)
LocalRemove(i) ==
  /\ i \in local
  /\ local' = local \ {i}
  /\ UNCHANGED <<server, cursor, attempts, tracked, pass, history, faults>>

-----------------------------------------------------------------------------
(* Starting a process and what its flags do before the first pass.          *)

Rest(e) ==
  /\ phase' = [phase EXCEPT ![e] = "idle"]
  /\ window' = [window EXCEPT ![e] = {}]
  /\ flight' = [flight EXCEPT ![e] = {}]
  /\ gone' = [gone EXCEPT ![e] = {}]
  /\ UNCHANGED <<seen, horizon, held>>

(* The process dies, or is stopped, wherever its pass stands, and another   *)
(* one takes its place.  An error a pass returns early with ends it the     *)
(* same way, except that the daemon then goes on without a new start.       *)
Restart(e) ==
  /\ faults < MaxFaults
  /\ faults' = faults + 1
  /\ Rest(e)
  /\ \E again \in BOOLEAN : fresh' = [fresh EXCEPT ![e] = again]
  /\ UNCHANGED <<server, store, history>>

(* `nuage sync --retry-failed`.                                             *)
ClearQuarantine(e) ==
  /\ phase[e] = "idle" /\ fresh[e]
  /\ Quarantined # {}
  /\ attempts' = [i \in Item |-> 0]
  /\ UNCHANGED <<server, cursor, tracked, local, pass, applied, dropped,
                 untold, faults>>

(* `nuage sync --repair-state`: the stale rows are listed first ...         *)
StartRepair(e) ==
  /\ phase[e] = "idle" /\ fresh[e]
  /\ tracked \ local # {}
  /\ phase' = [phase EXCEPT ![e] = "repair"]
  /\ window' = [window EXCEPT ![e] = tracked \ local]
  /\ UNCHANGED <<server, store, history, fresh, seen, flight, gone, horizon,
                 held, faults>>

(* ... dropped one by one, each in a transaction of its own ...             *)
DropStaleRow(e, i) ==
  /\ phase[e] = "repair"
  /\ i \in window[e]
  /\ window' = [window EXCEPT ![e] = @ \ {i}]
  /\ tracked' = tracked \ {i}
  /\ dropped' = dropped \cup {i}
  /\ UNCHANGED <<server, cursor, attempts, local, applied, untold,
                 phase, fresh, seen, flight, gone, horizon, held, faults>>

(* ... and the cursor is forgotten last.                                    *)
ForgetCursor(e) ==
  /\ phase[e] = "repair"
  /\ window[e] = {}
  /\ phase' = [phase EXCEPT ![e] = "idle"]
  /\ cursor' = 0
  /\ UNCHANGED <<server, attempts, tracked, local, history, fresh, window,
                 seen, flight, gone, horizon, held, faults>>

-----------------------------------------------------------------------------
(* Reading the window.                                                      *)

Fetch(e, items, removed) ==
  /\ window' = [window EXCEPT ![e] = items]
  /\ seen' = [seen EXCEPT ![e] = stamp]
  /\ gone' = [gone EXCEPT ![e] = removed]
  /\ horizon' = [horizon EXCEPT ![e] = clock]
  /\ held' = [held EXCEPT ![e] = FALSE]

(* verify_remote reads the whole tree, whatever the cursor says.            *)
StartVerify(e) ==
  /\ phase[e] = "idle" /\ fresh[e]
  /\ phase' = [phase EXCEPT ![e] = "verify"]
  /\ fresh' = [fresh EXCEPT ![e] = FALSE]
  /\ Fetch(e, Live, {})
  /\ UNCHANGED <<server, store, history, flight, faults>>

(* What a fetch without a cursor does not mention: the deletions.           *)
Unmentioned == tracked \cap Deleted

(* full_sync reads what changed since the cursor, or, when there is none,   *)
(* the whole tree, whose answer has no list of deletions.                   *)
StartFull(e) ==
  /\ phase[e] = "idle"
  /\ phase' = [phase EXCEPT ![e] = "files"]
  /\ fresh' = [fresh EXCEPT ![e] = FALSE]
  /\ Fetch(e, {i \in Live : stamp[i] > cursor},
              IF cursor = 0 THEN {} ELSE {i \in Deleted : stamp[i] > cursor})
  /\ untold' = IF cursor = 0 THEN untold \cup Unmentioned ELSE untold
  /\ UNCHANGED <<server, store, flight, applied, dropped, faults>>

-----------------------------------------------------------------------------
(* Applying it, one item at a time.                                         *)

Applying(e) == phase[e] \in {"verify", "files"}

(* prepare_remote_file on a quarantined file: counted, and left alone.      *)
SkipQuarantined(e, i) ==
  /\ Applying(e) /\ i \in window[e]
  /\ i \in Quarantined
  /\ window' = [window EXCEPT ![e] = @ \ {i}]
  /\ held' = [held EXCEPT ![e] = TRUE]
  /\ UNCHANGED <<server, store, history, phase, fresh, seen, flight, gone,
                 horizon, faults>>

Handled(e, i) ==
  /\ applied' = [applied EXCEPT ![i] = seen[e][i]]
  /\ dropped' = dropped \ {i}
  /\ tracked' = tracked \cup {i}
  /\ UNCHANGED untold

(* The local copy is already the remote version, has only to be renamed,    *)
(* or holds the only change: a row is written or kept, nothing is fetched.  *)
(* A row whose file is missing follows a rename all the same.  A snapshot   *)
(* older than what another engine handled settles only while its bytes are  *)
(* current.  The quarantine row of the item is not cleared on this path.    *)
SettleWithoutDownload(e, i) ==
  /\ Applying(e) /\ i \in window[e]
  /\ i \notin Quarantined
  /\ i \in local \/ (i \in tracked /\ seen[e][i] > applied[i])
  /\ seen[e][i] < applied[i] => content[i] <= seen[e][i]
  /\ window' = [window EXCEPT ![e] = @ \ {i}]
  /\ Handled(e, i)
  /\ UNCHANGED <<server, cursor, attempts, local, phase, fresh, seen, flight,
                 gone, horizon, held, faults>>

(* note_failure.                                                            *)
NoteFailure(e, i) ==
  /\ held' = [held EXCEPT ![e] = TRUE]
  /\ attempts' = [attempts EXCEPT ![i] = @ + 1]

(* The target path cannot be resolved, or its name is too long.             *)
RefuseItem(e, i) ==
  /\ Applying(e) /\ i \in window[e]
  /\ i \notin Quarantined
  /\ window' = [window EXCEPT ![e] = @ \ {i}]
  /\ NoteFailure(e, i)
  /\ UNCHANGED <<server, cursor, tracked, local, applied, dropped, untold,
                 phase, fresh, seen, flight, gone, horizon, faults>>

(* The remote version wins.  A diverged local copy is moved aside first,    *)
(* which leaves its place empty until the download lands.                   *)
SpawnDownload(e, i) ==
  /\ Applying(e) /\ i \in window[e]
  /\ i \notin Quarantined
  /\ window' = [window EXCEPT ![e] = @ \ {i}]
  /\ flight' = [flight EXCEPT ![e] = @ \cup {i}]
  /\ \E aside \in BOOLEAN : local' = IF aside THEN local \ {i} ELSE local
  /\ UNCHANGED <<server, cursor, attempts, tracked, history, phase, fresh,
                 seen, gone, horizon, held, faults>>

(* download_verified succeeds only while the object still holds the bytes   *)
(* whose hash the window named.                                             *)
CollectDownload(e, i) ==
  /\ Applying(e) /\ window[e] = {} /\ i \in flight[e]
  /\ i \in Live /\ content[i] <= seen[e][i]
  /\ flight' = [flight EXCEPT ![e] = @ \ {i}]
  /\ local' = local \cup {i}
  /\ attempts' = [attempts EXCEPT ![i] = 0]
  /\ Handled(e, i)
  /\ UNCHANGED <<server, cursor, phase, fresh, window, seen, gone, horizon,
                 held, faults>>

CollectFailure(e, i) ==
  /\ Applying(e) /\ window[e] = {} /\ i \in flight[e]
  /\ flight' = [flight EXCEPT ![e] = @ \ {i}]
  /\ NoteFailure(e, i)
  /\ UNCHANGED <<server, cursor, tracked, local, applied, dropped, untold,
                 phase, fresh, window, seen, gone, horizon, faults>>

(* Everything fetched has been dealt with: a verification ends here, a      *)
(* full pass turns to the deletions.                                        *)
EndFiles(e) ==
  /\ Applying(e) /\ window[e] = {} /\ flight[e] = {}
  /\ phase' = [phase EXCEPT ![e] = IF @ = "verify" THEN "idle" ELSE "deletes"]
  /\ UNCHANGED <<server, store, history, fresh, window, seen, flight, gone,
                 horizon, held, faults>>

-----------------------------------------------------------------------------
(* Remote deletions, the local half of the pass, and the cursor.            *)

(* handle_deleted_remote_file: the local copy goes when there is one, and   *)
(* the row goes in any case.                                                *)
RowsOnlyWithTheirCopy(i) == IF i \in local THEN tracked \ {i} ELSE tracked
RowsAfterRemoval(i) == tracked \ {i}

RemoveLocal(e, i) ==
  /\ phase[e] = "deletes" /\ i \in gone[e]
  /\ gone' = [gone EXCEPT ![e] = @ \ {i}]
  /\ local' = IF i \in tracked THEN local \ {i} ELSE local
  /\ tracked' = RowsAfterRemoval(i)
  /\ UNCHANGED <<server, cursor, attempts, history, phase, fresh, window,
                 seen, flight, horizon, held, faults>>

RemoveLocalFails(e, i) ==
  /\ phase[e] = "deletes" /\ i \in gone[e]
  /\ i \in tracked
  /\ faults < MaxFaults
  /\ faults' = faults + 1
  /\ gone' = [gone EXCEPT ![e] = @ \ {i}]
  /\ held' = [held EXCEPT ![e] = TRUE]
  /\ UNCHANGED <<server, store, history, phase, fresh, window, seen, flight,
                 horizon>>

EndDeletes(e) ==
  /\ phase[e] = "deletes" /\ gone[e] = {}
  /\ phase' = [phase EXCEPT ![e] = "reconcile"]
  /\ UNCHANGED <<server, store, history, fresh, window, seen, flight, gone,
                 horizon, held, faults>>

(* reconcile_known_file: the user changed the file, its bytes go to the     *)
(* object its row names and the row takes the answer.                       *)
Push(e, i) ==
  /\ phase[e] = "reconcile"
  /\ i \in tracked \cap local \cap Live
  /\ clock < MaxClock
  /\ clock' = clock + 1
  /\ stamp' = [stamp EXCEPT ![i] = clock']
  /\ content' = [content EXCEPT ![i] = clock']
  /\ applied' = [applied EXCEPT ![i] = clock']
  /\ dropped' = dropped \ {i}
  /\ UNCHANGED <<status, store, pass, untold, faults>>

(* propagate_local_deletions: a tracked file that is not there any more.    *)
DeleteMissing(e, i) ==
  /\ phase[e] = "reconcile"
  /\ i \in (tracked \ local) \cap Live
  /\ clock < MaxClock
  /\ clock' = clock + 1
  /\ status' = [status EXCEPT ![i] = "deleted"]
  /\ stamp' = [stamp EXCEPT ![i] = clock']
  /\ tracked' = tracked \ {i}
  /\ UNCHANGED <<content, cursor, attempts, local, pass, history, faults>>

(* A push or a deletion the server refuses is one more error of the pass.   *)
ReconcileFails(e) ==
  /\ phase[e] = "reconcile"
  /\ ~held[e]
  /\ held' = [held EXCEPT ![e] = TRUE]
  /\ UNCHANGED <<server, store, history, phase, fresh, window, seen, flight,
                 gone, horizon, faults>>

(* advance_cursor's rule, after three ways to get it wrong: ignoring the    *)
(* skipped and failed items, reading the clock when the pass ends, running  *)
(* ahead of the server.                                                     *)
NextCursorAlways(e) == horizon[e]
NextCursorAtEnd(e) == IF held[e] THEN cursor ELSE clock
NextCursorAhead(e) == IF held[e] THEN cursor ELSE horizon[e] + 1
NextCursor(e) == IF held[e] THEN cursor ELSE horizon[e]

EndPass(e) ==
  /\ phase[e] = "reconcile"
  /\ phase' = [phase EXCEPT ![e] = "idle"]
  /\ cursor' = NextCursor(e)
  /\ UNCHANGED <<server, attempts, tracked, local, history, fresh, window,
                 seen, flight, gone, horizon, held, faults>>

-----------------------------------------------------------------------------
Environment ==
  \E i \in Item :
    RemoteWrite(i) \/ RemoteRename(i) \/ RemoteDelete(i) \/ LocalRemove(i)

Launch(e) ==
  Restart(e) \/ ClearQuarantine(e) \/ StartRepair(e) \/ StartVerify(e)

Advance(e) ==
  \/ StartFull(e) \/ ForgetCursor(e)
  \/ EndFiles(e) \/ EndDeletes(e) \/ EndPass(e) \/ ReconcileFails(e)
  \/ \E i \in Item :
       \/ DropStaleRow(e, i)
       \/ SkipQuarantined(e, i) \/ RefuseItem(e, i)
       \/ SettleWithoutDownload(e, i) \/ SpawnDownload(e, i)
       \/ CollectDownload(e, i) \/ CollectFailure(e, i)
       \/ RemoveLocal(e, i) \/ RemoveLocalFails(e, i)
       \/ Push(e, i) \/ DeleteMissing(e, i)

Next == Environment \/ \E e \in Engine : Launch(e) \/ Advance(e)

Spec == Init /\ [][Next]_vars

(* The daemon polls forever and every request ends, well or badly; nobody   *)
(* promises a restart, a flag of the command line or a change.              *)
Fairness == \A e \in Engine : WF_vars(Advance(e))
LiveSpec == Spec /\ Fairness

-----------------------------------------------------------------------------
(* Properties.                                                              *)

(* Every variable holds what the code can store in it.                      *)
TypeOK ==
  /\ clock \in Nat
  /\ status \in [Item -> {"absent", "live", "deleted"}]
  /\ stamp \in [Item -> 0 .. clock]
  /\ content \in [Item -> 0 .. clock]
  /\ cursor \in 0 .. clock
  /\ attempts \in [Item -> Nat]
  /\ tracked \subseteq Item
  /\ local \subseteq Item
  /\ applied \in [Item -> 0 .. clock]
  /\ phase \in [Engine -> Phases]
  /\ fresh \in [Engine -> BOOLEAN]
  /\ window \in [Engine -> SUBSET Item]
  /\ seen \in [Engine -> [Item -> 0 .. clock]]
  /\ flight \in [Engine -> SUBSET Item]
  /\ gone \in [Engine -> SUBSET Item]
  /\ horizon \in [Engine -> 0 .. clock]
  /\ held \in [Engine -> BOOLEAN]
  /\ faults \in Nat
  /\ dropped \subseteq Item
  /\ untold \subseteq Item

(* advance_cursor's promise: the feed answers from the cursor onwards, so a *)
(* live object the cursor has passed is one the client handled at exactly   *)
(* that version, through failures, skips, changes that land during the      *)
(* pass and restarts.  Rows that repair dropped are set apart: until a pass *)
(* reads them again nothing tracks them, and the cursor is forgotten last.  *)
NothingHidden ==
  \A i \in Live \ dropped : stamp[i] <= cursor => applied[i] = stamp[i]

(* The same for deletions: once the cursor has passed a deletion, no row    *)
(* tracks the object any more.  Objects deleted before a fetch without a    *)
(* cursor are set apart: the tree such a fetch reads cannot mention them.   *)
DeletionsTaken ==
  \A i \in Deleted \ untold : stamp[i] <= cursor => i \notin tracked

(* One process at a time on this directory, which the code does not         *)
(* enforce: with two, the cursor of one hides what the other had in hand.   *)
OneEngine == \A e, f \in Engine : e = f

(* Why both hold with one engine.  A pass that has fetched and not yet set  *)
(* the cursor knows the stamp of everything it fetched that has not moved   *)
(* since, has nothing left over from an earlier phase, and every object     *)
(* below its horizon is handled, still in its hands, or holds the cursor.   *)
InFull(e) == phase[e] \in {"files", "deletes", "reconcile"}

SnapshotCurrent ==
  \A e \in Engine : InFull(e) \/ phase[e] = "verify" =>
    /\ cursor <= horizon[e]
    /\ \A i \in Item : stamp[i] <= horizon[e] => seen[e][i] = stamp[i]
    /\ \A i \in (window[e] \cup flight[e]) \cap Deleted : stamp[i] > horizon[e]

PhasesDrained ==
  \A e \in Engine :
    /\ phase[e] \in {"deletes", "reconcile"} => window[e] = {}
    /\ ~Applying(e) => flight[e] = {}
    /\ phase[e] = "reconcile" => gone[e] = {}

WindowCovers ==
  \A e \in Engine : InFull(e) /\ ~held[e] =>
    \A i \in (Live \ dropped) \ (window[e] \cup flight[e]) :
      stamp[i] <= horizon[e] => applied[i] = stamp[i]

DeletionsCovered ==
  \A e \in Engine : InFull(e) /\ ~held[e] =>
    \A i \in (Deleted \ untold) \ gone[e] :
      stamp[i] <= horizon[e] => i \notin tracked

IInv ==
  /\ SnapshotCurrent
  /\ PhasesDrained
  /\ WindowCovers
  /\ DeletionsCovered
  /\ NothingHidden
  /\ DeletionsTaken

(* What all of this amounts to: the cursor is the mark of a reader that      *)
(* owes nothing behind it.  Owed is a live object not handled at its stamp, *)
(* or a deleted one that a row still tracks; excused are the two cases set  *)
(* apart above.                                                             *)
Owed == {i \in Live : applied[i] # stamp[i]} \cup (Deleted \cap tracked)
Feed == INSTANCE Delivery
          WITH owed <- Owed, mark <- cursor, excused <- dropped \cup untold
Delivers == Feed!Spec

(* Polling settles every item again and again: a live one is handled at     *)
(* its latest version or quarantined, a deleted one has lost its row.       *)
Settled(i) ==
  /\ i \in Live \ dropped => applied[i] = stamp[i] \/ i \in Quarantined
  /\ i \in Deleted \ untold => i \notin tracked
Settles == \A i \in Item : []<>Settled(i)
=============================================================================
