------------------------------ MODULE MCMalloc ------------------------------
(* Malloc for TLC: two segments of two pages, block sizes of 2 and 4.      *)
EXTENDS Malloc
=============================================================================
