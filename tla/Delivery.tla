------------------------------ MODULE Delivery ------------------------------
(***************************************************************************)
(* What the reader of a change feed promises, without its passes, failures  *)
(* and restarts: a mark that only moves to where nothing is owed behind it. *)
(* ChangeFeed implements it (sync/pass.rs, sync/state/cursor.rs).           *)
(***************************************************************************)
EXTENDS Naturals

CONSTANT Item

VARIABLES
  clock,    \* the publisher's clock
  stamp,    \* per item: the clock of its latest change
  owed,     \* items whose latest change the reader has not dealt with
  mark,     \* the feed answers from here onwards
  excused   \* items the mark does not answer for

vars == <<clock, stamp, owed, mark, excused>>

Init ==
  /\ clock = 0
  /\ stamp = [i \in Item |-> 0]
  /\ owed = {} /\ excused = {}
  /\ mark = 0

(* An item changes: a change of somebody else is owed, one the reader made, *)
(* or one it has no use for, is not.                                        *)
Publish(i) ==
  /\ clock' = clock + 1
  /\ stamp' = [stamp EXCEPT ![i] = clock']
  /\ owed' \in {owed \cup {i}, owed \ {i}}
  /\ excused' \in {excused, excused \ {i}}
  /\ UNCHANGED mark

(* The reader works on one item, and may find at the end that it is out of  *)
(* date once more; but never an item the mark has left behind.              *)
Handle(i) ==
  /\ owed' \in {owed \cup {i}, owed \ {i}}
  /\ excused' \in {excused, excused \cup {i}, excused \ {i}}
  /\ i \in owed' \ excused' => stamp[i] > mark
  /\ UNCHANGED <<clock, stamp, mark>>

Excuse ==
  /\ excused' \in SUBSET Item /\ excused \subseteq excused'
  /\ UNCHANGED <<clock, stamp, owed, mark>>

Advance ==
  /\ mark' \in mark .. clock
  /\ \A i \in owed \ excused : stamp[i] > mark'
  /\ UNCHANGED <<clock, stamp, owed, excused>>

(* To read everything again is always safe.                                 *)
Forget == mark' = 0 /\ UNCHANGED <<clock, stamp, owed, excused>>

Next == (\E i \in Item : Publish(i) \/ Handle(i)) \/ Excuse \/ Advance \/ Forget

Spec == Init /\ [][Next]_vars

-----------------------------------------------------------------------------
(* Clock and mark are times; what is owed or excused are items.             *)
TypeOK ==
  /\ clock \in Nat /\ mark \in 0 .. clock
  /\ stamp \in [Item -> 0 .. clock]
  /\ owed \subseteq Item /\ excused \subseteq Item

(* Why the promise is worth keeping: nothing that is still owed lies behind *)
(* the mark, so whoever reads from the mark onwards is told of every change *)
(* it has not dealt with (advance_cursor's comment).                        *)
Covered == \A i \in owed \ excused : stamp[i] > mark
=============================================================================
