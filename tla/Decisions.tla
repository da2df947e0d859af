----------------------------- MODULE Decisions ------------------------------
(***************************************************************************)
(* What the engines of one validator set promise to the nodes that run     *)
(* them, with nothing said of votes, locks, timers or messages: a block is *)
(* decided in a height and round only after a correct validator executed   *)
(* it there with success, no two blocks are decided in one height and      *)
(* round, each engine decides one block per height and in the order of     *)
(* heights, and no decision is ever taken back.                            *)
(***************************************************************************)
EXTENDS Naturals

VARIABLES
  executed,   \* [height, round, hash]: executed with success by someone correct
  decided     \* [validator, height, round, hash]: decided by that validator

SameSlot(x, y) == x.height = y.height /\ x.round = y.round

Init == executed = {} /\ decided = {}

\* A proposal passes validation.
Execute == \E x \in executed' : executed' = executed \cup {x}

\* An engine decides.  The validation that completes the quorum may be its own,
\* in the same step.
Decide ==
  \E d \in decided' :
    /\ decided' = decided \cup {d}
    /\ \E x \in executed' : SameSlot(x, d) /\ x.hash = d.hash
    /\ \A c \in decided : SameSlot(c, d) => c.hash = d.hash
    /\ \A c \in decided : c.validator = d.validator => c.height < d.height

Next ==
  /\ Execute \/ UNCHANGED executed
  /\ Decide \/ UNCHANGED decided

Spec == Init /\ [][Next]_<<executed, decided>>
=============================================================================
