----------------------------- MODULE ScoreBoard -----------------------------
(***************************************************************************)
(* What the evaluation feature promises a reader of its results: the cells *)
(* of an evaluation (one per score and target) go from absent to pending   *)
(* to done and never back, whoever answers them; they disappear only with  *)
(* their evaluation or their score.  Deleting what was scored erases no    *)
(* score.  EvaluationRun implements it.                                    *)
(***************************************************************************)
CONSTANTS Evaluations, Scores, Targets

VARIABLES
  phase,     \* [Evaluations -> {"new", "open", "gone"}]
  offered,   \* scores that exist
  board      \* [Cells -> {"absent", "pending", "done"}]

bvars == <<phase, offered, board>>

Cells == Evaluations \X Scores \X Targets

Init ==
  /\ phase = [e \in Evaluations |-> "new"]
  /\ offered = Scores
  /\ board = [c \in Cells |-> "absent"]

Open(e) ==
  /\ phase[e] = "new"
  /\ phase' = [phase EXCEPT ![e] = "open"]
  /\ UNCHANGED <<offered, board>>

\* Cells of an open evaluation and of scores that exist.
Standing == {c \in Cells : phase[c[1]] = "open" /\ c[2] \in offered}

\* Cells are announced; those that have a result keep it.
Post(C) ==
  /\ C \subseteq Standing
  /\ board' = [c \in Cells |-> IF c \in C /\ board[c] = "absent"
                                 THEN "pending" ELSE board[c]]
  /\ UNCHANGED <<phase, offered>>

\* Cells get their result.
Settle(C) ==
  /\ C \subseteq Standing
  /\ board' = [c \in Cells |-> IF c \in C THEN "done" ELSE board[c]]
  /\ UNCHANGED <<phase, offered>>

Discard(D) ==
  /\ \A e \in D : phase[e] = "open"
  /\ phase' = [e \in Evaluations |-> IF e \in D THEN "gone" ELSE phase[e]]
  /\ board' = [c \in Cells |-> IF c[1] \in D THEN "absent" ELSE board[c]]
  /\ UNCHANGED offered

Withdraw(s) ==
  /\ offered' = offered \ {s}
  /\ board' = [c \in Cells |-> IF c[2] = s THEN "absent" ELSE board[c]]
  /\ UNCHANGED phase

Next ==
  \/ \E e \in Evaluations : Open(e)
  \/ \E C \in SUBSET Cells : Post(C) \/ Settle(C)
  \/ \E D \in SUBSET Evaluations : Discard(D)
  \/ \E s \in Scores : Withdraw(s)

Spec == Init /\ [][Next]_bvars
=============================================================================
