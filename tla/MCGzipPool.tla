----------------------------- MODULE MCGzipPool -----------------------------
(***************************************************************************)
(* Three requests, which may all be in flight at once, and a writer for    *)
(* each of them.                                                           *)
(***************************************************************************)
EXTENDS GzipPool, TLC

CONSTANTS r1, r2, r3, w1, w2, w3

MCRequest == {r1, r2, r3}
MCWriter == {w1, w2, w3}

\* Requests are alike, and so are writers.
Alike == Permutations(MCRequest) \union Permutations(MCWriter)

=============================================================================
