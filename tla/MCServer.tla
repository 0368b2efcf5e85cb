------------------------------ MODULE MCServer ------------------------------
(***************************************************************************)
(* Two requests on a pool of one connection, and three on a pool of two.   *)
(***************************************************************************)
EXTENDS Server

CONSTANTS r1, r2, r3

TwoRequests == {r1, r2}
ThreeRequests == {r1, r2, r3}

=============================================================================
