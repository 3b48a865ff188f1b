--------------------------- MODULE MCCardSession ---------------------------
(* A small instance of CardSession: two tags the terminal reads, one it   *)
(* does not support, and two blocks, enough for a write to be torn.        *)
EXTENDS CardSession
CONSTANTS t1, t2, t3
MCTags == {t1, t2, t3}
NoHits == {FALSE}
=============================================================================
