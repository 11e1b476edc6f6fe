---------------------------- MODULE MCRedisLock -----------------------------
(* Two instances: la renews itself, acquires up to twice and may have two  *)
(* auto-extend goroutines (an old one in a call, and the current one); lb  *)
(* competes with one acquisition and no auto-extension.                    *)
EXTENDS RedisLock, TLC

CONSTANTS la, lb, s1, s2
MCLock == {la, lb}
MCSlot == {s1, s2}
MCAutoExtend == [l \in MCLock |-> l = la]
Symmetry == Permutations(MCSlot)
MCMaxValue == [l \in MCLock |-> IF l = la THEN 2 ELSE 1]

(* The liveness run: one instance, whose own lost commands and expired     *)
(* keys are enough to make its acquisitions fail.                          *)
MCAlone == {la}
MCAutoExtendAlone == [l \in MCAlone |-> TRUE]
MCMaxValueAlone == [l \in MCAlone |-> 2]
=============================================================================
