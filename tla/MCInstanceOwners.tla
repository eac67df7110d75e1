--------------------------- MODULE MCInstanceOwners ---------------------------
(* Instances of InstanceOwners for TLC. *)
EXTENDS InstanceOwners, TLC

CONSTANTS u1, u2, s1, s2

TwoUsers   == {u1, u2}
OneOwner   == {u1}
TwoOwners  == {u1, u2}
TwoSlots   == {s1, s2}

Changes  == {"assign", "remove"}
AllKinds == {"assign", "remove", "purge", "byId"}

\* What an idle slot did last makes no difference.
Busy(s) == IF pc[s] = "idle" THEN <<"idle">> ELSE <<pc[s], check[s], req[s], seen[s]>>
IdleView == <<owners, everOwner, caches, deaths, [s \in Slots |-> Busy(s)]>>

SlotSymmetry == Permutations(Slots)
=============================================================================
