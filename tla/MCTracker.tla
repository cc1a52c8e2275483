------------------------------- MODULE MCTracker -------------------------------
(* Small instance of ChangeTracker for TLC: two directories with a file each. *)
EXTENDS ChangeTracker, Integers, Sequences, TLC

S == INSTANCE SequencesExt

CONSTANTS t1, t2

MCPaths == {<<"d">>, <<"d", "f">>, <<"e">>, <<"e", "f">>}
MCBelow == [p \in Paths |-> {x \in Paths : S!IsStrictPrefix(p, x)}]
MCMoved(x, p, q) == q \o SubSeq(x, Len(p) + 1, Len(x))
MCTasks == {t1, t2}
TaskSymmetry == Permutations(MCTasks)

(* The bounds of the run: two tasks, resets and other programs change the two files, while   *)
(* their directories stay; or one task changes all four paths, with at most two of them in   *)
(* the report and no change but the run's.                                                   *)
TwoTasks ==
    /\ Paths \ Files \subseteq disk \cap before
    /\ Reported \cup rough \cup Busy \subseteq Files /\ swept = {}

OneTask == (Idle(t1) \/ Idle(t2)) /\ Cardinality(Reported) <= 2 /\ rough = {}

Bounds == TwoTasks \/ OneTask
=============================================================================
