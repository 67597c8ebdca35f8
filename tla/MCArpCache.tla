----------------------------- MODULE MCArpCache -----------------------------
(* ArpCache for TLC: three entries, four addresses of which three collide. *)
EXTENDS ArpCache

CONSTANTS a1, a2, a3, a4, m1, m2
MCIps == {a1, a2, a3, a4}
MCMacs == {m1, m2}
MCHash == [a \in MCIps \union {AnyIp} |-> IF a = a1 THEN 0 ELSE IF a = AnyIp THEN 1 ELSE 2]
=============================================================================
