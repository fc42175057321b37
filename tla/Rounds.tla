-------------------------------- MODULE Rounds --------------------------------
(***************************************************************************)
(* What the iteration loop promises of its sessions: the rounds of repair  *)
(* of a pull request follow one another.  A round starts when those before *)
(* it are settled, is settled once and for good, and only so many of them  *)
(* count.                                                                  *)
(***************************************************************************)
EXTENDS Naturals, Sequences, FiniteSets

CONSTANTS
  Sessions,
  MaxRounds   \* rounds that count; recoveries from a failure do not

VARIABLE rounds   \* [Sessions -> Seq of rounds: a recovery or not, settled or not]

Round == [recovery : BOOLEAN, settled : BOOLEAN]

Counting(s) == {n \in DOMAIN rounds[s] : ~rounds[s][n].recovery}

Init == rounds = [s \in Sessions |-> << >>]

Start(s) ==
  \E recovery \in BOOLEAN :
    /\ \A n \in DOMAIN rounds[s] : rounds[s][n].settled
    /\ recovery \/ Cardinality(Counting(s)) < MaxRounds
    /\ rounds' = [rounds EXCEPT ![s] = Append(@, [recovery |-> recovery, settled |-> FALSE])]

Settle(s) ==
  \E n \in DOMAIN rounds[s] :
    /\ ~rounds[s][n].settled
    /\ rounds' = [rounds EXCEPT ![s][n].settled = TRUE]

\* Stated first, the change spares the search for an action that explains none.
Next == rounds' # rounds /\ \E s \in Sessions : Start(s) \/ Settle(s)
Spec == Init /\ [][Next]_rounds
=============================================================================
