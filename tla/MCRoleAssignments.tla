--------------------------- MODULE MCRoleAssignments ---------------------------
(* Instances of RoleAssignments for TLC. *)
EXTENDS RoleAssignments, TLC

CONSTANTS u1, u2, s1, s2

OneUser  == {u2}
TwoSlots == {s1, s2}

ThreeRoles  == {"Admin", "Member", "Editor"}
SystemRoles == {"Admin", "Member"}

AllKinds == {"check", "assign", "unassign", "invite", "leave", "delete", "orgDelete",
             "elsewhere", "purge"}

\* What an idle slot did last makes no difference, nor does the role that a
\* request has read once it has removed it.
Busy(s) ==
  IF pc[s] = "idle" THEN <<"idle">>
  ELSE <<pc[s], req[s], listed[s],
         IF pc[s] \in {"set", "findOld", "remove"} THEN old[s] ELSE "none">>
IdleView ==
  <<roles, members, held, cache, dropped, misled, deaths, [s \in Slots |-> Busy(s)]>>

SlotSymmetry == Permutations(Slots)
=============================================================================
