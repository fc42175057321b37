----------------------------- MODULE MCIteration -----------------------------
EXTENDS Iteration

\* Any statement may fail but the two that give a round its task: a round
\* without one does not hold back the next.
Failing == (ReviewPC \ {"none", "review", "over", "enqueue", "record"})
           \cup {"push", "final", "round", "session"}

\* The repair whose executions may come to an error.
FirstRepair == {<<1, 1>>}

\* Bound: after a fault or a push amid the loop no third review is asked for.
TwoReviewsAfterFault == faults > 0 => \A r \in Reviews : r > 2 => ReviewAt(r, "none")
=============================================================================
