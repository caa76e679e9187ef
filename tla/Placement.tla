-------------------------------- MODULE Placement --------------------------------
(***************************************************************************)
(* What scheduling promises, whatever decides and however it fails.        *)
(*                                                                         *)
(* A scheduler announces, for one attempt at a pod, the set of nodes it    *)
(* accepts; a placement discharges one announcement of one scheduler, on a *)
(* node of it, and a pod is placed at most once and never moved. A         *)
(* scheduler that stops leaves each announcement discharged or withdrawn.  *)
(***************************************************************************)
CONSTANTS Scheduler, Pod, Node, NoNode

VARIABLES
    offer,     \* offer[i][p]: the nodes scheduler i currently accepts for p
    placed     \* placed[p]: the node p runs on

Init == /\ offer = [i \in Scheduler |-> [p \in Pod |-> {}]]
        /\ placed = [p \in Pod |-> NoNode]

Announce(i, p) ==
    /\ offer[i][p] = {}
    /\ \E W \in (SUBSET Node) \ {{}} : offer' = [offer EXCEPT ![i][p] = W]
    /\ UNCHANGED placed

\* Every announcement of scheduler i about a pod of P is over; those of Q are kept by a placement.
Settle(i, P, Q) ==
    /\ \A p \in P : offer[i][p] # {}
    /\ \A p \in Q : placed[p] = NoNode
    /\ offer' = [offer EXCEPT ![i] = [p \in Pod |-> IF p \in P THEN {} ELSE offer[i][p]]]
    /\ \E place \in [Q -> Node] :
          /\ \A p \in Q : place[p] \in offer[i][p]
          /\ placed' = [p \in Pod |-> IF p \in Q THEN place[p] ELSE placed[p]]

Next == \E i \in Scheduler :
            \/ \E p \in Pod : Announce(i, p)
            \/ \E P \in (SUBSET Pod) \ {{}} : \E Q \in SUBSET P : Settle(i, P, Q)

Spec == Init /\ [][Next]_<<offer, placed>>
=============================================================================
