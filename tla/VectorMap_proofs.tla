-------------------------- MODULE VectorMap_proofs --------------------------
(***************************************************************************)
(* Proofs about VectorMap, for every capacity, every width of the unsigned *)
(* type that leaves room for a round, and every type of values.            *)
(***************************************************************************)
EXTENDS VectorMap, FiniteSetTheorems, TLAPS

\* A remainder that changes nothing, and the bounds that keep a round from
\* wrapping.
LEMMA SmallRemainder ==
  ASSUME NEW w \in Nat, NEW a \in 0..(w - 1)
  PROVE  a % w = a
  OBVIOUS

LEMMA Bounds ==
  /\ Width \in Nat /\ Capacity \in Nat /\ Capacity >= 1
  /\ MaxOffset = Width - 2 - Capacity
  /\ MaxOffset \in Nat /\ MaxOffset >= 1
<1>1. Width \in Nat /\ Capacity \in Nat /\ Capacity >= 1 /\ Capacity <= Width - 3
  BY CapacityAssumption
<1>2. Width - 2 - Capacity \in 0..(Width - 1)
  BY <1>1
<1>3. MaxOffset = Width - 2 - Capacity
  BY <1>1, <1>2, SmallRemainder DEF MaxOffset
<1> QED  BY <1>1, <1>3

(***************************************************************************)
(* The inductive invariant: types, and the slots below size are in         *)
(* one-to-one correspondence with the indices of the round.                *)
(***************************************************************************)
IInv == TypeOK /\ SlotsMatchIndices

\* As long as an index is not set there is a free slot for it: the slots are
\* taken by distinct other indices.
LEMMA RoomForAnother ==
  ASSUME IInv, NEW i \in Indices, ~IsSet(i)
  PROVE  size < Capacity
<1> DEFINE K == 0..(size - 1)
           T == Indices \ {i}
           owner == [k \in K |-> CHOOSE j \in Indices : IsSet(j) /\ Slot(j) = k]
<1>1. size \in Nat /\ Capacity \in Nat /\ Capacity >= 1
  BY Bounds DEF IInv, TypeOK
<1>2. \A k \in K : owner[k] \in T /\ Slot(owner[k]) = k
  BY DEF IInv, SlotsMatchIndices
<1>3. owner \in [K -> T]
  BY <1>2
<1>4. IsFiniteSet(K) /\ Cardinality(K) = size
  BY <1>1, FS_Interval
<1>5. IsFiniteSet(Indices) /\ Cardinality(Indices) = Capacity
  BY <1>1, FS_Interval DEF Indices
<1>6. IsFiniteSet(T) /\ Cardinality(T) = Capacity - 1
  BY <1>5, FS_RemoveElement
<1>7. SUFFICES ASSUME ~(size < Capacity) PROVE FALSE
  OBVIOUS
<1>8. \E x, y \in K : x # y /\ owner[x] = owner[y]
  <2>1. Cardinality(T) < Cardinality(K)
    BY <1>1, <1>4, <1>6, <1>7
  <2> HIDE DEF K, T, owner
  <2> QED  BY <1>3, <1>4, <1>6, <2>1, FS_PigeonHole
<1> QED  BY <1>2, <1>8

\* A new round starts without indices: what is left in m_redirect lies below
\* the new offset.
LEMMA NewRoundIsEmpty ==
  ASSUME IInv, StartRound
  PROVE  /\ TypeOK'
         /\ \A i \in Indices : ~IsSet(i)'
<1> USE Bounds
<1>1. \A i \in Indices : redirect[i] < offset + size
  BY DEF IInv, TypeOK, SlotsMatchIndices, IsSet, Slot, UInt
<1>2. CASE NextOffset(offset, size) > MaxOffset
  BY <1>2 DEF StartRound, IInv, TypeOK, IsSet, UInt
<1>3. CASE ~(NextOffset(offset, size) > MaxOffset)
  <2>1. offset + Capacity \in 0..(Width - 1)
    BY DEF IInv, TypeOK
  <2>2. (offset + Capacity) % Width = offset + Capacity
    BY <2>1, SmallRemainder
  <2>3. offset' = (IF size > 0 THEN offset + Capacity ELSE offset) /\ offset' <= MaxOffset
        /\ redirect' = redirect /\ size' = 0 /\ values' = values
    BY <1>3, <2>2 DEF StartRound, NextOffset, IInv, TypeOK
  <2>4. offset' >= offset + size /\ offset' \in 1..MaxOffset
    BY <2>3 DEF IInv, TypeOK
  <2> QED  BY <1>1, <2>3, <2>4 DEF IInv, TypeOK, IsSet, UInt
<1> QED  BY <1>2, <1>3

\* What adding an index that is not set does.
LEMMA NewIndex ==
  ASSUME IInv, NEW i \in Indices, NEW v \in Values, Add(i, v), ~IsSet(i)
  PROVE  /\ redirect' = [redirect EXCEPT ![i] = offset + size]
         /\ offset + size \in UInt
         /\ values' = [values EXCEPT ![size] = v]
         /\ size \in Indices /\ size' = size + 1 /\ offset' = offset
<1> USE Bounds
<1>1. size < Capacity
  BY RoomForAnother
<1>2. offset + size \in 0..(Width - 1)
  BY <1>1 DEF IInv, TypeOK
<1>3. (offset + size) % Width = offset + size
  BY <1>2, SmallRemainder
<1> QED  BY <1>1, <1>2, <1>3 DEF Add, IInv, TypeOK, Indices, UInt

\* Writing to an index of the round leaves the correspondence alone.
LEMMA WriteKeeps ==
  ASSUME IInv, NEW i \in Indices, IsSet(i), NEW w \in Values,
         values' = [values EXCEPT ![Slot(i)] = w],
         UNCHANGED <<redirect, offset, size>>
  PROVE  IInv'
<1> USE Bounds
<1>1. Slot(i) \in Indices
  BY DEF IInv, TypeOK, SlotsMatchIndices, Indices
<1>2. TypeOK'
  BY <1>1 DEF IInv, TypeOK
<1>3. SlotsMatchIndices'
  BY DEF IInv, SlotsMatchIndices, IsSet, Slot
<1> QED  BY <1>2, <1>3 DEF IInv

LEMMA NewIndexKeeps ==
  ASSUME IInv, NEW i \in Indices, NEW v \in Values, Add(i, v), ~IsSet(i)
  PROVE  IInv'
<1> USE Bounds
<1>1. /\ redirect' = [redirect EXCEPT ![i] = offset + size]
      /\ offset + size \in UInt
      /\ values' = [values EXCEPT ![size] = v]
      /\ size \in Indices /\ size' = size + 1 /\ offset' = offset
  BY NewIndex
<1>2. TypeOK'
  BY <1>1 DEF IInv, TypeOK, Indices
<1>3. \A j \in Indices : IsSet(j)' <=> IsSet(j) \/ j = i
  BY <1>1 DEF IInv, TypeOK, IsSet
<1>4. \A j \in Indices : Slot(j)' = IF j = i THEN size ELSE Slot(j)
  BY <1>1 DEF IInv, TypeOK, Slot, UInt
<1>5. SlotsMatchIndices'
  <2>1. \A j \in Indices : IsSet(j)' => Slot(j)' \in 0..(size' - 1)
    BY <1>1, <1>3, <1>4 DEF IInv, TypeOK, SlotsMatchIndices
  <2>2. \A k \in 0..(size' - 1) : \E j \in Indices : IsSet(j)' /\ Slot(j)' = k
    <3> TAKE k \in 0..(size' - 1)
    <3>1. CASE k = size
      BY <3>1, <1>3, <1>4
    <3>2. CASE k # size
      <4>1. k \in 0..(size - 1)
        BY <3>2, <1>1 DEF IInv, TypeOK
      <4>2. PICK j \in Indices : IsSet(j) /\ Slot(j) = k
        BY <4>1 DEF IInv, SlotsMatchIndices
      <4>3. j # i
        BY <4>2
      <4> QED  BY <4>2, <4>3, <1>3, <1>4
    <3> QED  BY <3>1, <3>2
  <2>3. \A j, l \in Indices : IsSet(j)' /\ IsSet(l)' /\ Slot(j)' = Slot(l)' => j = l
    BY <1>3, <1>4 DEF IInv, TypeOK, SlotsMatchIndices
  <2> QED  BY <2>1, <2>2, <2>3 DEF SlotsMatchIndices, IsSet, Slot
<1> QED  BY <1>2, <1>5 DEF IInv

LEMMA IInvInductive ==
  /\ Init => IInv
  /\ IInv /\ [Next]_vars => IInv'
<1> USE Bounds
<1>1. Init => IInv
  BY ValueAssumption DEF Init, IInv, TypeOK, SlotsMatchIndices, IsSet, Slot, Indices, UInt
<1>2. ASSUME IInv, [Next]_vars PROVE IInv'
  <2>1. CASE StartRound
    <3>1. TypeOK' /\ size' = 0 /\ \A i \in Indices : ~IsSet(i)'
      BY <1>2, <2>1, NewRoundIsEmpty DEF StartRound
    <3> QED  BY <3>1 DEF IInv, SlotsMatchIndices, IsSet, Slot
  <2>2. ASSUME NEW i \in Indices, NEW v \in Values, Add(i, v) PROVE IInv'
    <3>1. CASE IsSet(i)
      <4>1. Slot(i) \in Indices
        BY <1>2, <3>1 DEF IInv, TypeOK, SlotsMatchIndices, Indices
      <4>2. Plus(values[Slot(i)], v) \in Values
        BY <1>2, <4>1, ValueAssumption DEF IInv, TypeOK
      <4> QED  BY <1>2, <2>2, <3>1, <4>2, WriteKeeps DEF Add
    <3>2. CASE ~IsSet(i)
      BY <1>2, <2>2, <3>2, NewIndexKeeps
    <3> QED  BY <3>1, <3>2
  <2>3. ASSUME NEW i \in Indices, NEW v \in Values, Assign(i, v) PROVE IInv'
    BY <1>2, <2>3, WriteKeeps DEF Assign
  <2>4. CASE UNCHANGED vars
    BY <1>2, <2>4 DEF IInv, TypeOK, SlotsMatchIndices, IsSet, Slot, vars
  <2> QED  BY <1>2, <2>1, <2>2, <2>3, <2>4 DEF Next
<1> QED  BY <1>1, <1>2

LEMMA Invariance == Spec => []IInv
<1> QED  BY IInvInductive, PTL DEF Spec

(***************************************************************************)
(* The fields of VectorMap stay in their ranges: the offset never wraps    *)
(* and the values of a round never outgrow m_values.                       *)
(***************************************************************************)
THEOREM TypeCorrect == Spec => []TypeOK
<1>1. IInv => TypeOK
  BY DEF IInv
<1> QED  BY <1>1, Invariance, PTL

(***************************************************************************)
(* Slots and indices of a round correspond one to one, whatever earlier    *)
(* rounds left behind and however often the offset has started again.      *)
(***************************************************************************)
THEOREM SlotsCorrect == Spec => []SlotsMatchIndices
<1>1. IInv => SlotsMatchIndices
  BY DEF IInv
<1> QED  BY <1>1, Invariance, PTL

-----------------------------------------------------------------------------
(***************************************************************************)
(* Refinement of RoundMap.                                                 *)
(***************************************************************************)
\* No index is set: the map of the round is empty.
LEMMA EmptyContent ==
  ASSUME \A i \in Indices : ~IsSet(i)
  PROVE  Content = Promise!NoContent
<1>1. {j \in Indices : IsSet(j)} = {}
  OBVIOUS
<1> QED  BY <1>1 DEF Content, Promise!NoContent

LEMMA EmptyContentPrime ==
  ASSUME \A i \in Indices : ~IsSet(i)'
  PROVE  Content' = Promise!NoContent
<1>1. {j \in Indices : IsSet(j)'} = {}
  OBVIOUS
<1>2. Content' = [i \in {j \in Indices : IsSet(j)'} |-> values'[Slot(i)']]
  BY DEF Content
<1> QED  BY <1>1, <1>2 DEF Promise!NoContent

\* A write to the slot of an index of the round changes the map there only,
\* since no other index has that slot.
LEMMA WriteContent ==
  ASSUME IInv, NEW i \in Indices, IsSet(i), NEW w \in Values,
         values' = [values EXCEPT ![Slot(i)] = w],
         UNCHANGED <<redirect, offset, size>>
  PROVE  /\ i \in DOMAIN Content
         /\ Content' = [Content EXCEPT ![i] = w]
<1> DEFINE D == {j \in Indices : IsSet(j)}
<1> USE Bounds
<1>1. \A j \in Indices : (IsSet(j)' <=> IsSet(j)) /\ Slot(j)' = Slot(j)
  BY DEF IsSet, Slot
<1>2. \A j \in D : Slot(j) \in Indices /\ (Slot(j) = Slot(i) => j = i)
  BY DEF IInv, TypeOK, SlotsMatchIndices, Indices
<1>3. Content = [j \in D |-> values[Slot(j)]]
  BY DEF Content
<1>4. Content' = [j \in D |-> values'[Slot(j)]]
  BY <1>1 DEF Content
<1>5. \A j \in D : values'[Slot(j)] = IF j = i THEN w ELSE values[Slot(j)]
  BY <1>2 DEF IInv, TypeOK
<1> QED  BY <1>3, <1>4, <1>5

\* Adding an index that is not set extends the map.
LEMMA NewContent ==
  ASSUME IInv, NEW i \in Indices, NEW v \in Values, Add(i, v), ~IsSet(i)
  PROVE  Content' = Promise!Added(Content, i, v)
<1> DEFINE D == {j \in Indices : IsSet(j)}
<1> USE Bounds
<1>1. /\ redirect' = [redirect EXCEPT ![i] = offset + size]
      /\ offset + size \in UInt
      /\ values' = [values EXCEPT ![size] = v]
      /\ size \in Indices /\ size' = size + 1 /\ offset' = offset
  BY NewIndex
<1>2. \A j \in Indices : IsSet(j)' <=> IsSet(j) \/ j = i
  BY <1>1 DEF IInv, TypeOK, IsSet
<1>3. \A j \in Indices : Slot(j)' = IF j = i THEN size ELSE Slot(j)
  BY <1>1 DEF IInv, TypeOK, Slot, UInt
<1>4. \A j \in D : Slot(j) \in 0..(size - 1) /\ j # i
  BY DEF IInv, SlotsMatchIndices
<1>5. Content = [j \in D |-> values[Slot(j)]]
  BY DEF Content
<1>6. {j \in Indices : IsSet(j)'} = D \cup {i}
  BY <1>2
<1>7. Content' = [j \in D \cup {i} |-> values'[Slot(j)']]
  BY <1>6 DEF Content
<1>8. \A j \in D \cup {i} : values'[Slot(j)'] = IF j = i THEN v ELSE values[Slot(j)]
  BY <1>1, <1>3, <1>4 DEF IInv, TypeOK, Indices
<1>9. i \notin D
  OBVIOUS
<1> QED  BY <1>5, <1>7, <1>8, <1>9 DEF Promise!Added

\* Adding to an index of the round adds to its value.
LEMMA OldContent ==
  ASSUME IInv, NEW i \in Indices, NEW v \in Values, Add(i, v), IsSet(i)
  PROVE  Content' = Promise!Added(Content, i, v)
<1> DEFINE w == Plus(values[Slot(i)], v)
<1>1. Slot(i) \in Indices
  BY Bounds DEF IInv, TypeOK, SlotsMatchIndices, Indices
<1>2. w \in Values
  BY <1>1, ValueAssumption DEF IInv, TypeOK
<1>3. values' = [values EXCEPT ![Slot(i)] = w] /\ UNCHANGED <<redirect, offset, size>>
  BY DEF Add
<1>4. i \in DOMAIN Content /\ Content[i] = values[Slot(i)]
  BY DEF Content
<1>5. Content' = [Content EXCEPT ![i] = w]
  <2> HIDE DEF w
  <2> QED  BY <1>2, <1>3, WriteContent
<1>6. DOMAIN Content \cup {i} = DOMAIN Content
  BY <1>4
<1>7. Content = [j \in DOMAIN Content |-> Content[j]]
  BY DEF Content
<1>8. Promise!Added(Content, i, v) =
        [j \in DOMAIN Content |-> IF j # i THEN Content[j] ELSE w]
  BY <1>4, <1>6 DEF Promise!Added
<1> QED  BY <1>4, <1>5, <1>7, <1>8

(***************************************************************************)
(* VectorMap implements the map of a round: every step is a step of        *)
(* RoundMap or leaves its map alone.                                       *)
(***************************************************************************)
THEOREM Refinement == Spec => ImplementsRoundMap
<1>1. Init => Promise!Init
  <2>1. Init => \A i \in Indices : ~IsSet(i)
    BY DEF Init, IsSet
  <2> QED  BY <2>1, EmptyContent DEF Promise!Init
<1>2. IInv /\ [Next]_vars => [Promise!Next]_Content
  <2> SUFFICES ASSUME IInv, [Next]_vars PROVE [Promise!Next]_Content
    OBVIOUS
  <2>1. CASE StartRound
    BY <2>1, NewRoundIsEmpty, EmptyContentPrime DEF Promise!Next, Promise!StartRound
  <2>2. ASSUME NEW i \in Indices, NEW v \in Values, Add(i, v) PROVE Promise!Next
    <3>1. Promise!Add(i, v)
      BY <2>2, NewContent, OldContent DEF Promise!Add
    <3> QED  BY <3>1 DEF Promise!Next, Promise!Indices, Indices
  <2>3. ASSUME NEW i \in Indices, NEW v \in Values, Assign(i, v) PROVE Promise!Next
    <3>1. Promise!Assign(i, v)
      BY <2>3, WriteContent DEF Assign, Promise!Assign
    <3> QED  BY <3>1 DEF Promise!Next, Promise!Indices, Indices
  <2>4. CASE UNCHANGED vars
    BY <2>4 DEF vars, Content, IsSet, Slot
  <2> QED  BY <2>1, <2>2, <2>3, <2>4 DEF Next
<1> QED  BY <1>1, <1>2, Invariance, PTL DEF Spec, ImplementsRoundMap, Promise!Spec
=============================================================================
