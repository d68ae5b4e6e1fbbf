----------------------------- MODULE MCFileSync -----------------------------
(* Small instances of FileSync for TLC.                                     *)
EXTENDS FileSync, TLC

LOCAL With(midpass, bare, remote, writes, removals, failures, stops) ==
  [midpass |-> midpass, bare |-> bare, remote |-> remote, writes |-> writes,
   removals |-> removals, failures |-> failures, stops |-> stops]

(* Two-sided edits, a long remote history, removals and lost requests, and  *)
(* then everything at once, with the user at work while passes run.         *)
MCScenarios ==
  { With(FALSE, FALSE, 2, 2, 0, 0, 0),
    With(FALSE, FALSE, 4, 0, 0, 0, 0),
    With(FALSE, FALSE, 3, 1, 0, 0, 0),
    With(FALSE, FALSE, 2, 1, 1, 1, 0),
    With(FALSE, TRUE, 2, 1, 0, 0, 0),
    With(TRUE, FALSE, 2, 2, 0, 0, 0),
    With(TRUE, FALSE, 1, 1, 1, 1, 1) }

(* Everybody else comes to rest: renames without a user, removals, files    *)
(* without a hash, lost requests.                                           *)
MCLiveScenarios ==
  { With(FALSE, FALSE, 3, 0, 0, 0, 0),
    With(FALSE, FALSE, 2, 1, 1, 0, 0),
    With(FALSE, FALSE, 1, 2, 1, 0, 0),
    With(FALSE, FALSE, 1, 1, 1, 1, 0),
    With(FALSE, TRUE, 2, 1, 0, 0, 0) }

(* The user removes nothing.                                                *)
MCMissingScenarios == { With(FALSE, FALSE, 3, 2, 0, 0, 0) }

Symmetry == Permutations(File) \cup Permutations(Bytes)
=============================================================================
