------------------------------ MODULE MCBmLib ------------------------------
(* Instances of BmLib for TLC: two callbacks; scans without a limit, with  *)
(* a limit of 1, or without parameters.                                    *)
EXTENDS BmLib

CONSTANTS c1, c2

Limits         == {0, 1}
LimitOrNothing == {NoParams, 1}
=============================================================================
