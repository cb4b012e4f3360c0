----------------------------- MODULE MCNetworks -----------------------------
(***************************************************************************)
(* Small active networks: a triangle of directed links with a pendant      *)
(* node, and the same graph with undirected links.                         *)
(***************************************************************************)
EXTENDS Partition

DirectedLinks ==
  [l \in Nodes \X Nodes |->
    CASE l = <<0, 1>> -> 3 [] l = <<1, 2>> -> 2 [] l = <<2, 0>> -> 4
      [] l = <<2, 3>> -> 1 [] OTHER -> 0]

UndirectedLinks ==
  [l \in Nodes \X Nodes |->
    CASE l = <<0, 1>> -> 4 [] l = <<1, 2>> -> 2 [] l = <<0, 2>> -> 6
      [] l = <<2, 3>> -> 2 [] OTHER -> 0]

Flows == [n \in Nodes |-> n + 2]
Teleports == [n \in Nodes |-> IF n = 3 THEN 5 ELSE n + 1]
Weights == [n \in Nodes |-> 4 - n]

\* The pendant node is a state of the same physical node as one it is not linked to.
SharedPhysical == [n \in Nodes |-> IF n = 3 THEN {0} ELSE {n}]
NoPhysical == [n \in Nodes |-> {}]

\* Two modules, as before fine-tuning.  In the first the last node joins a module
\* just emptied; in the second it does so after another module has emptied.
GivenPairs == [n \in Nodes |-> n \div 2]
GivenTriple == [n \in Nodes |-> n \div 3]
SomeGivenModules == {GivenPairs, GivenTriple}
OneGivenModules == {GivenTriple}
=============================================================================
