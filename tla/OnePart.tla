-------------------------------- MODULE OnePart --------------------------------
(***************************************************************************)
(* Components that share no state are composed so that a behaviour is one  *)
(* of a single component, the part, chosen in the initial state, while the *)
(* others stand still: every property is asked of its own component.       *)
(***************************************************************************)
CONSTANT Parts  \* the components that are run

VARIABLE part
=============================================================================
