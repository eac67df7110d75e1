--------------------------- MODULE ExperimentBoard ---------------------------
(***************************************************************************)
(* What the experiment feature promises a reader of its results page: an   *)
(* experiment is opened once, its cells (one per dataset row) go from      *)
(* absent to pending to done and never back, and an experiment that was    *)
(* discarded stays empty for ever.  ExperimentRun implements it.           *)
(***************************************************************************)
CONSTANTS Experiments, Rows

VARIABLES
  phase,   \* [Experiments -> {"new", "open", "gone"}]
  board    \* [Experiments \X Rows -> {"absent", "pending", "done"}]

bvars == <<phase, board>>

Cells == Experiments \X Rows

Init ==
  /\ phase = [e \in Experiments |-> "new"]
  /\ board = [p \in Cells |-> "absent"]

\* An experiment is created, with no cell yet.
Open(e) ==
  /\ phase[e] = "new"
  /\ phase' = [phase EXCEPT ![e] = "open"]
  /\ UNCHANGED board

\* Cells of an open experiment are announced; those that already have
\* a result keep it.
Post(e, S) ==
  /\ phase[e] = "open"
  /\ board' = [p \in Cells |->
                 IF p[1] = e /\ p[2] \in S /\ board[p] = "absent"
                   THEN "pending" ELSE board[p]]
  /\ UNCHANGED phase

\* A cell of an open experiment gets its result.
Settle(p) ==
  /\ phase[p[1]] = "open"
  /\ board' = [board EXCEPT ![p] = "done"]
  /\ UNCHANGED phase

\* Open experiments are deleted, with every cell.
Discard(D) ==
  /\ \A e \in D : phase[e] = "open"
  /\ phase' = [e \in Experiments |-> IF e \in D THEN "gone" ELSE phase[e]]
  /\ board' = [p \in Cells |-> IF p[1] \in D THEN "absent" ELSE board[p]]

Next ==
  \/ \E e \in Experiments : Open(e)
  \/ \E e \in Experiments, S \in SUBSET Rows : Post(e, S)
  \/ \E p \in Cells : Settle(p)
  \/ \E D \in SUBSET Experiments : Discard(D)

Spec == Init /\ [][Next]_bvars
=============================================================================
