------------------------------ MODULE Routing -------------------------------
(***************************************************************************)
(* What both programs of mp3 promise: for the topology that was read, and  *)
(* again after each line of the changes file, they report for every pair   *)
(* of nodes the cost of the cheapest path between them.                    *)
(***************************************************************************)
EXTENDS Topology

CONSTANT NotReported

VARIABLES
  links,
  changesLeft,
  costs             \* what was reported for links, or NotReported

Init ==
  /\ links \in Topologies
  /\ changesLeft = MaxChanges
  /\ costs = NotReported

Report ==
  /\ costs = NotReported
  /\ costs' # NotReported
  /\ costs' = ShortestCosts(links)
  /\ UNCHANGED <<links, changesLeft>>

Change ==
  /\ costs # NotReported
  /\ changesLeft > 0
  /\ changesLeft' = changesLeft - 1
  /\ costs' = NotReported
  /\ \E a, b \in Nodes, cost \in Costs \cup {NoLink} :
       a # b /\ links' = WithLink(links, a, b, cost)

Next == Report \/ Change

Spec == Init /\ [][Next]_<<links, changesLeft, costs>>
=============================================================================
