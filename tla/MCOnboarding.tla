----------------------------- MODULE MCOnboarding -----------------------------
(* Instances of Onboarding for TLC. *)
EXTENDS Onboarding, TLC

CONSTANTS p1, p2, o1, o2, s1, s2

TwoPeople == {p1, p2}
OnePerson == {p1}
OneOrg    == {o1}
TwoOrgs   == {o1, o2}
OneSlot   == {s1}
TwoSlots  == {s1, s2}

SlotSymmetry == Permutations(Slots)
=============================================================================
