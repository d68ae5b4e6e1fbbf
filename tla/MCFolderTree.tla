---------------------------- MODULE MCFolderTree ----------------------------
(* Small instances of FolderTree for TLC.                                   *)
EXTENDS FolderTree

LOCAL With(verify, midpass, files, instep, made, remote, user, removals, failures, stops) ==
  [verify |-> verify, midpass |-> midpass, files |-> files,
   instep |-> instep, made |-> made, remote |-> remote, user |-> user,
   removals |-> removals, failures |-> failures, stops |-> stops]

(* Everything at once, with a death of the process; directories made on     *)
(* both sides of a folder already in step, without files, the user's before *)
(* or in between; a user alone, with a failed request; other clients alone. *)
MCScenarios ==
  { With(TRUE, TRUE, TRUE, FALSE, FALSE, 2, 1, 1, 0, 1),
    With(FALSE, FALSE, FALSE, TRUE, TRUE, 2, 2, 0, 2, 0),
    With(FALSE, FALSE, FALSE, TRUE, FALSE, 1, 2, 0, 1, 0),
    With(FALSE, FALSE, TRUE, FALSE, FALSE, 0, 3, 0, 1, 0),
    With(FALSE, FALSE, TRUE, FALSE, FALSE, 4, 0, 0, 0, 0) }
=============================================================================
