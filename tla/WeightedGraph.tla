---------------------------- MODULE WeightedGraph ----------------------------
(***************************************************************************)
(* What a StateNetwork promises its users: a set of nodes, and a weight    *)
(* for each ordered pair of them that is linked.                           *)
(***************************************************************************)
EXTENDS WeightMaps

CONSTANTS Ids,     \* the node ids in use
          Weights  \* the weights of single links

VARIABLES nodes,  \* the nodes of the network
          weight  \* linked ordered pair -> the weight of the link

graph == <<nodes, weight>>

Init ==
  /\ nodes = {}
  /\ weight = <<>>

AddNode(id) == nodes' = nodes \cup {id} /\ UNCHANGED weight

\* A repeated link adds to the weight of the first.
AddLink(s, t, w) ==
  /\ nodes' = nodes \cup {s, t}
  /\ weight' = Plus(weight, Only(<<s, t>>, w))

RemoveLink(s, t) ==
  /\ nodes' = nodes
  /\ <<s, t>> \in DOMAIN weight
  /\ weight' = Restrict(weight, (DOMAIN weight) \ {<<s, t>>})

\* Every link but a self-link is answered by its opposite.
Symmetrise ==
  LET opposites == {<<p[2], p[1]>> : p \in {q \in DOMAIN weight : q[1] # q[2]}}
  IN  /\ nodes' = nodes
      /\ weight' = Plus(weight, [p \in opposites |-> weight[<<p[2], p[1]>>]])

ClearLinks == nodes' = nodes /\ weight' = <<>>

Clear == nodes' = {} /\ weight' = <<>>

Next ==
  \/ \E id \in Ids : AddNode(id)
  \/ \E s, t \in Ids : RemoveLink(s, t) \/ \E w \in Weights \ {0} : AddLink(s, t, w)
  \/ Symmetrise
  \/ ClearLinks
  \/ Clear

Spec == Init /\ [][Next]_graph
=============================================================================
