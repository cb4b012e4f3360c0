----------------------------- MODULE VectorMap ------------------------------
(***************************************************************************)
(* utils/VectorMap.h: a map from module indices to values that is emptied  *)
(* in constant time.  m_redirect holds, for every index, m_offset plus the *)
(* slot of the index's value; entries below m_offset are left over from    *)
(* earlier rounds and mean "not set".  The offset grows with every round   *)
(* that used the map and starts again from 1 before it can overflow.       *)
(***************************************************************************)
EXTENDS Integers

CONSTANTS Capacity,    \* m_capacity
          Width,       \* 2^32: unsigned int arithmetic is modulo Width
          Values,      \* the values of type T
          Plus(_, _),  \* T::operator+=
          Default      \* T()

ASSUME CapacityAssumption ==
  /\ Width \in Nat
  /\ Capacity \in 1..(Width - 3)

ASSUME ValueAssumption ==
  /\ Default \in Values
  /\ \A a, b \in Values : Plus(a, b) \in Values

Indices == 0..(Capacity - 1)
UInt == 0..(Width - 1)

VARIABLES redirect, \* m_redirect
          values,   \* m_values
          offset,   \* m_offset
          size      \* m_size

vars == <<redirect, values, offset, size>>

\* m_maxOffset: numeric_limits<unsigned int>::max() - 1 - capacity.
MaxOffset == (Width - 2 - Capacity) % Width

Init ==
  /\ redirect = [i \in Indices |-> 0]
  /\ values = [i \in Indices |-> Default]
  /\ offset = 1
  /\ size = 0

\* Mutation: a round of n values moves the offset by n - 1.
NextOffsetShort(o, n) == IF n > 0 THEN (o + n - 1) % Width ELSE o

\* `m_offset += m_capacity' if the round was used.
NextOffset(o, n) == IF n > 0 THEN (o + Capacity) % Width ELSE o

StartRound ==
  /\ size' = 0
  /\ IF NextOffset(offset, size) > MaxOffset
       THEN redirect' = [i \in Indices |-> 0] /\ offset' = 1
       ELSE offset' = NextOffset(offset, size) /\ UNCHANGED redirect
  /\ UNCHANGED values

IsSet(i) == redirect[i] >= offset

Slot(i) == redirect[i] - offset

Add(i, v) ==
  /\ IF IsSet(i)
       THEN /\ values' = [values EXCEPT ![Slot(i)] = Plus(@, v)]
            /\ UNCHANGED <<redirect, size>>
       ELSE /\ redirect' = [redirect EXCEPT ![i] = (offset + size) % Width]
            /\ values' = [values EXCEPT ![size] = v]
            /\ size' = size + 1
  /\ UNCHANGED offset

\* A write through the reference operator[] returns; the optimiser asks only
\* for indices it has added.
Assign(i, v) ==
  /\ IsSet(i)
  /\ values' = [values EXCEPT ![Slot(i)] = v]
  /\ UNCHANGED <<redirect, offset, size>>

Next == \/ StartRound
        \/ \E i \in Indices, v \in Values : Add(i, v) \/ Assign(i, v)

Spec == Init /\ [][Next]_vars

-----------------------------------------------------------------------------
TypeOK ==
  /\ redirect \in [Indices -> UInt]
  /\ values \in [Indices -> Values]
  /\ offset \in 1..MaxOffset
  /\ size \in 0..Capacity

(***************************************************************************)
(* values() is read slot by slot up to size(): every slot below size()     *)
(* belongs to exactly one index of this round, and no index of this round  *)
(* is outside.                                                             *)
(***************************************************************************)
SlotsMatchIndices ==
  /\ \A i \in Indices : IsSet(i) => Slot(i) \in 0..(size - 1)
  /\ \A k \in 0..(size - 1) : \E i \in Indices : IsSet(i) /\ Slot(i) = k
  /\ \A i, j \in Indices : IsSet(i) /\ IsSet(j) /\ Slot(i) = Slot(j) => i = j

(***************************************************************************)
(* The map of the round, as a caller of isSet and operator[] sees it: what *)
(* earlier rounds left in m_redirect never shows, however often the offset *)
(* has started again.                                                      *)
(***************************************************************************)
Content == [i \in {j \in Indices : IsSet(j)} |-> values[Slot(i)]]

Promise == INSTANCE RoundMap WITH content <- Content

ImplementsRoundMap == Promise!Spec
=============================================================================
