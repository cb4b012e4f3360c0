------------------------------ MODULE RoundMap ------------------------------
(***************************************************************************)
(* What VectorMap promises the optimiser: a map from module indices to     *)
(* values that is emptied at the start of a round, adds to the value of an *)
(* index that is already there and creates it otherwise.                   *)
(***************************************************************************)
EXTENDS Integers

CONSTANTS Capacity,   \* m_capacity: the indices are 0..Capacity - 1
          Values,     \* the values of type T
          Plus(_, _)  \* T::operator+=

Indices == 0..(Capacity - 1)

VARIABLE content  \* index -> value, for the indices of this round

NoContent == [i \in {} |-> {}]

Init == content = NoContent

StartRound == content' = NoContent

\* The map with v added to the value of index i.
Added(map, i, v) ==
  [j \in DOMAIN map \cup {i} |->
     IF j # i THEN map[j] ELSE IF i \in DOMAIN map THEN Plus(map[i], v) ELSE v]

Add(i, v) == content' = Added(content, i, v)

\* A write through the reference that operator[] returns.
Assign(i, v) ==
  /\ i \in DOMAIN content
  /\ content' = [content EXCEPT ![i] = v]

Next == \/ StartRound
        \/ \E i \in Indices, v \in Values : Add(i, v) \/ Assign(i, v)

Spec == Init /\ [][Next]_content
=============================================================================
