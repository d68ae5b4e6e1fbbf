--------------------------- MODULE MCLocalChanges ---------------------------
(* Small instances of LocalChanges for TLC.                                 *)
EXTENDS LocalChanges, TLC

LOCAL With(sorted, hasty, files, dirs, removals, failures, stops) ==
  [sorted |-> sorted, hasty |-> hasty, files |-> files, dirs |-> dirs,
   removals |-> removals, failures |-> failures, stops |-> stops]

(* Two changes of files and two of directories around whole batches, the    *)
(* same with a process that ends; then batches split anywhere, failed       *)
(* requests and a hasty user.                                               *)
MCScenarios ==
  { With(TRUE, FALSE, 2, 2, 1, 0, 0),
    With(TRUE, FALSE, 1, 1, 1, 0, 1),
    With(FALSE, TRUE, 1, 2, 0, 1, 0),
    With(FALSE, TRUE, 1, 1, 1, 1, 0),
    With(TRUE, TRUE, 2, 0, 1, 1, 1),
    With(TRUE, TRUE, 1, 1, 0, 1, 1) }
=============================================================================
