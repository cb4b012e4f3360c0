---------------------------- MODULE MCTreeSearch ----------------------------
EXTENDS TreeSearch

\* Every partition of n nodes, numbered in the order of first occurrence.
AllPartitions(n) == {f \in [1..n -> 0..n - 1] : InOrder(f) = f}

\* Some of them: apart, all together, two pairs, one pair, three and one; two have a
\* module that is not a run of neighbours, so that modules re-order the leaves.
SomePartitions(n) ==
  {f \in AllPartitions(n) :
     f \in {<<0>>, <<0, 0>>, <<0, 1>>, <<0, 1, 0>>, <<0, 1, 1>>, <<0, 1, 2>>,
            <<0, 0, 0, 0>>, <<0, 1, 0, 1>>, <<0, 1, 1, 2>>, <<0, 1, 0, 0>>}}

\* 8, 4, 2, 1: no two sets of leaves have the same flow.
Flows == <<1, 8, 2, 4>>

Given(kind, module) == [kind |-> kind, module |-> module]

\* A ragged tree without leaf 3.
Rows0 == <<[id |-> 2, path |-> <<1, 1, 1>>], [id |-> 4, path |-> <<1, 2, 1>>],
           [id |-> 1, path |-> <<2, 1>>]>>

Givens == {Given("none", <<>>), Given("soft", <<0, 0, 1, 2>>), Given("hard", <<0, 1, 1, 2>>),
           [kind |-> "tree", rows |-> Rows0]}

AllStarts ==
  {s \in [twoLevel : BOOLEAN, fast : 0..2, given : Givens, priorOnly : BOOLEAN] :
     /\ s.twoLevel => s.fast = 0
     /\ s.fast = 1 => s.given.kind \in {"none", "hard"}
     /\ s.fast = 2 => s.given.kind = "tree"
     /\ s.given.kind = "soft" => ~s.twoLevel
     /\ s.priorOnly => s.given.kind = "none" /\ s.fast = 0}

\* A node by what hangs under it, and by its index where a later step reads it.
Picture(t) ==
  LET index(c) == IF pc = "coarse" THEN t.node[c].index ELSE 0
      picture[c \in Nodes] ==
        LET seen(d) == picture[d] IN
          <<index(c), t.node[c].id, c \in HeapCells,
            [i \in DOMAIN Children(t, c) |-> seen(Children(t, c)[i])],
            LET hidden == ChainFrom(t, t.node[c].collapsedFirst)
            IN  [i \in DOMAIN hidden |-> seen(hidden[i])]>>
  IN  picture[Root]

\* What the steps to come depend on: not the addresses of a sound tree, nor the
\* variables of a part of the search that is over.
Seen ==
  IF ~TreeIsSound \/ tree.thrown THEN vars
  ELSE <<Picture(tree), [i \in DOMAIN leafNodes |-> Ids(tree, leafNodes[i])],
         IF originals = <<>> THEN 0 ELSE IF pc = "trial" THEN 1 ELSE originals,
         IF pc = "idle" THEN 0 ELSE shape, IF pc = "coarse" THEN former ELSE 0,
         start, run, trial,
         IF pc \in {"top", "tune", "eval", "coarse"} THEN loop ELSE 0, best, pc>>
=============================================================================
