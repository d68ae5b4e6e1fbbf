---------------------------- MODULE MCSettings ----------------------------
(* Small instances of Settings for TLC.                                     *)
EXTENDS Settings

LOCAL With(installed, logins, sso, calm, strays, lost, faults, spaces, hand, starts) ==
  [installed |-> installed, logins |-> logins, sso |-> sso, calm |-> calm,
   strays |-> strays, lost |-> lost, faults |-> faults, spaces |-> spaces, hand |-> hand,
   starts |-> starts]

(* A first login through the browser, in two shells; commands one at a      *)
(* time, with two directories mapped by hand; two shells at once, with an   *)
(* accident.                                                                *)
MCScenarios ==
  { With(FALSE, 2, TRUE, FALSE, 1, 1, 0, 0, 0, 0),
    With(TRUE, 1, FALSE, TRUE, 0, 0, 0, 1, 2, 1),
    With(TRUE, 0, FALSE, FALSE, 0, 0, 1, 1, 1, 1) }
MCOverlapScenarios == { With(FALSE, 1, FALSE, FALSE, 0, 0, 0, 0, 1, 0) }
=============================================================================
