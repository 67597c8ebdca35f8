----------------------------- MODULE MCVMSpace -----------------------------
(* VMSpace for TLC: large pages of 4 small pages, directories of 16; the   *)
(* image has a text and a data segment.                                    *)
EXTENDS VMSpace

MCSegments == <<[start |-> 2, end |-> 4], [start |-> 4, end |-> 5]>>
=============================================================================
