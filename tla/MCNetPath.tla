----------------------------- MODULE MCNetPath -----------------------------
(* NetPath for TLC: two clients, indices that wrap after four buffers and  *)
(* packets of up to two frames.                                            *)
EXTENDS NetPath, TLC

CONSTANTS c1, c2, d1
MCClients == {c1, c2}
MCData == {d1}
=============================================================================
