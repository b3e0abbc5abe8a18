---------------------------- MODULE MCOrderClaim ----------------------------
(* Constants of the OrderClaim runs: two orders of different shops, one of  *)
(* them urgent and one old enough to be archived, two upserters, two        *)
(* claimers and two batches.                                                *)
EXTENDS OrderClaim, TLC

CONSTANTS o1, o2, s1, s2

MCOrders == {o1, o2}
MCShops == {s1, s2}
MCShopOf == (o1 :> s1) @@ (o2 :> s2)
MCUrgent == {o1}
MCAncient == {o2}

(* Tasks of one kind and batch ids are interchangeable.                     *)
Symmetry == Permutations(Upserters) \cup Permutations(Claimers)
            \cup Permutations(BatchIds)
=============================================================================
