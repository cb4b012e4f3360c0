---------------------------- MODULE StateNetwork ----------------------------
(***************************************************************************)
(* StateNetwork: the state nodes and links of a network under              *)
(* construction, with its two representations of links -- a flat buffer of *)
(* arrivals that is sorted and merged when somebody looks (mode A) and a   *)
(* nested map (mode B) -- and the compressed rows both are turned into.    *)
(* Every call of the public interface is an action; reading is one too,    *)
(* because in mode A it finalises the links.                               *)
(*                                                                         *)
(* Weights are naturals, so sums do not depend on the order of arrival,    *)
(* which the code takes care to keep.  Physical nodes, names, node         *)
(* weights, the flow of the rows, the counters of ignored, repeated and    *)
(* self-links and the out-weights that mode A derives for the bindings are *)
(* left out.                                                               *)
(***************************************************************************)
EXTENDS Sequences, FiniteSets, WeightMaps

CONSTANTS Ids,         \* state ids in use
          Weights,     \* weights of added links
          Threshold,   \* Config::weightThreshold
          NoSelfLinks, \* Config::noSelfLinks
          MaxSize      \* bound: nodes times the total weight of the links

ASSUME NetworkAssumption ==
  /\ Ids \subseteq Nat /\ IsFiniteSet(Ids)
  /\ Weights \subseteq Nat
  /\ Threshold \in Nat
  /\ NoSelfLinks \in BOOLEAN
  /\ MaxSize \in Nat

VARIABLES
  nodes,      \* the keys of m_nodes
  useMap,     \* m_useMapBuild: mode B
  finalized,  \* m_linksFinalized
  buffer,     \* m_linkBuffer: <<source, target, weight>> in order of arrival
  linkMap,    \* m_nodeLinkMap: <<source, target>> -> weight
  outWeights, \* m_outWeights of mode B: source -> weight
  rows,       \* m_nodeIds, m_linkOffsets, m_linkTargets, m_linkWeights
  stats,      \* m_numLinks, m_sumLinkWeight, m_sumSelfLinkWeight
  released,   \* history: clearLinks() was called since clear()
  behind      \* history: the rows are older than the last new node or removal

links == <<useMap, finalized, buffer, linkMap, outWeights, rows, stats>>
history == <<released, behind>>
vars == <<nodes, links, history>>

NoRows == [ids |-> <<>>, offsets |-> <<>>, targets |-> <<>>, weights |-> <<>>]
NoStats == [links |-> 0, sum |-> 0, selfSum |-> 0]

\* The networks of the layers are built in mode B, all others in mode A.
Init ==
  /\ nodes = {}
  /\ useMap \in BOOLEAN /\ finalized = FALSE
  /\ buffer = <<>> /\ linkMap = <<>> /\ outWeights = <<>>
  /\ rows = NoRows /\ stats = NoStats
  /\ released = FALSE /\ behind = FALSE

Pairs(buf) == {<<buf[k][1], buf[k][2]>> : k \in DOMAIN buf}

\* The bound.
Fits(nodeSet, sum) == Cardinality(nodeSet) * sum <= MaxSize
-----------------------------------------------------------------------------
(* Nodes. *)

\* addNode, addStateNode: a node that comes alone does not re-open finalised links.
AddStateNode(id) ==
  /\ nodes' = nodes \cup {id}
  /\ Fits(nodes', stats.sum)
  /\ behind' = (behind \/ (finalized /\ id \notin nodes))
  /\ UNCHANGED <<links, released>>
-----------------------------------------------------------------------------
(* Rows.  Links sorted by source and target become rows named by position in m_nodeIds. *)

\* indexOfId: std::lower_bound.
IndexOfId(seq, id) == Cardinality({k \in DOMAIN seq : seq[k] < id}) + 1

IdOrder == {l \in Ids \X Ids : l[1] < l[2]}

\* By source, then by target.
PairOrder ==
  {l \in (Ids \X Ids) \X (Ids \X Ids) :
     \/ l[1][1] < l[2][1]
     \/ l[1][1] = l[2][1] /\ l[1][2] < l[2][2]}

\* S in a strict total order: x comes after as many as are before it.
Sorted(S, order) ==
  [k \in 1..Cardinality(S) |->
     CHOOSE x \in S : Cardinality({y \in S : <<y, x>> \in order}) = k - 1]

RowsOf(weightOf, nodeSet) ==
  LET order == Sorted(DOMAIN weightOf, PairOrder)
      ids   == Sorted(nodeSet, IdOrder)
  IN  [ids |-> ids,
       offsets |-> [k \in 1..(Len(ids) + 1) |->
          1 + Cardinality({p \in DOMAIN weightOf : IndexOfId(ids, p[1]) < k})],
       targets |-> [e \in DOMAIN order |-> IndexOfId(ids, order[e][2])],
       weights |-> [e \in DOMAIN order |-> weightOf[order[e]]]]

\* buildCsrFromBuffer's merge of repeated links.
Merged(buf) ==
  [p \in Pairs(buf) |->
     SumOver({k \in DOMAIN buf : <<buf[k][1], buf[k][2]>> = p}, [k \in DOMAIN buf |-> buf[k][3]])]

\* What forEachLink shows of rows, with the ids that its callers look up in m_nodeIds.
LinksOfRows(r) ==
  LET pairOf == [e \in DOMAIN r.targets |->
                   <<r.ids[Cardinality({k \in DOMAIN r.offsets : r.offsets[k] <= e})],
                     r.ids[r.targets[e]]>>]
  IN  [p \in Range(pairOf) |-> r.weights[CHOOSE e \in DOMAIN pairOf : pairOf[e] = p]]

\* Rows and numLinks after ensureFinalized: a buffer is merged and counted, a map
\* only copied, and finalised rows are never built again.
FinalRows ==
  IF finalized THEN rows ELSE RowsOf(IF useMap THEN linkMap ELSE Merged(buffer), nodes)

FinalStats ==
  IF finalized \/ useMap THEN stats
                         ELSE [stats EXCEPT !.links = Cardinality(Pairs(buffer))]

\* forEachLink in either mode; numLinks and the like in mode A.
ReadLinks ==
  /\ finalized' = TRUE
  /\ rows' = FinalRows
  /\ stats' = FinalStats
  /\ buffer' = IF finalized \/ useMap THEN buffer ELSE <<>>
  /\ behind' = (finalized /\ behind)
  /\ UNCHANGED <<nodes, useMap, linkMap, outWeights, released>>

RowSums(weightOf) ==
  [s \in {p[1] : p \in DOMAIN weightOf} |->
     SumOver({p \in DOMAIN weightOf : p[1] = s}, weightOf)]
-----------------------------------------------------------------------------
(* Links. *)

\* Links that are filtered out change nothing but counters of their own.
Accepts(s, t, w) == w >= Threshold /\ w # 0 /\ (s = t => ~NoSelfLinks)

ArrivalsOf(old) ==
  LET order == Sorted(DOMAIN old, PairOrder)
  IN  [k \in DOMAIN order |-> <<order[k][1], order[k][2], old[order[k]]>>]

\* Mutation: positions are looked up among the nodes of now, not in m_nodeIds.
DefinalizedOfNow == ArrivalsOf(LinksOfRows([rows EXCEPT !.ids = Sorted(nodes, IdOrder)]))

\* definalize: the rows become arrivals again.
Definalized == ArrivalsOf(LinksOfRows(rows))

\* The end of addLink in mode A; the node ids of re-opened rows stay behind.
AppendToBuffer(s, t, w) ==
  /\ buffer' = Append(IF finalized THEN Definalized ELSE buffer, <<s, t, w>>)
  /\ rows' = IF finalized THEN [NoRows EXCEPT !.ids = rows.ids] ELSE rows
  /\ UNCHANGED <<linkMap, outWeights>>

\* addLinkToMap.
AddLinkToMap(s, t, w) ==
  /\ linkMap' = Plus(linkMap, Only(<<s, t>>, w))
  /\ outWeights' = Plus(outWeights, Only(s, w))
  /\ UNCHANGED <<buffer, rows>>

\* Mutation: only a buffer is re-opened, rows made from a map stand.
ReopenBuffer == finalized' = (finalized /\ useMap) /\ behind' = (finalized' /\ behind)

\* A new link takes finalised rows back.
Reopen == finalized' = FALSE /\ behind' = FALSE

AddLink(s, t, w) ==
  /\ Accepts(s, t, w)
  /\ nodes' = nodes \cup {s, t}
  /\ Fits(nodes', stats.sum + w)
  /\ stats' = [links   |-> stats.links + (IF useMap /\ <<s, t>> \notin DOMAIN linkMap THEN 1 ELSE 0),
               sum     |-> stats.sum + w,
               selfSum |-> stats.selfSum + (IF s = t THEN w ELSE 0)]
  /\ IF useMap THEN AddLinkToMap(s, t, w) ELSE AppendToBuffer(s, t, w)
  /\ Reopen
  /\ UNCHANGED <<useMap, released>>

\* ensureMapBuild: map, out-weights and counters of mode B, copied from mode A's rows.
AsMap == IF useMap THEN linkMap ELSE LinksOfRows(FinalRows)
OutWeightsWith(map) == IF useMap THEN outWeights ELSE RowSums(map)
AsStats == IF useMap THEN stats ELSE FinalStats

\* The rest of ensureMapBuild.
EnsureMapBuild ==
  /\ useMap' = TRUE
  /\ buffer' = IF useMap THEN buffer ELSE <<>>
  /\ rows' = IF useMap THEN rows ELSE FinalRows

\* Mutation: the sum of self-link weights is left alone.
WithoutTotalOnly(s, t, w) ==
  LET old == AsStats
  IN  [links |-> old.links - 1, sum |-> old.sum - w, selfSum |-> old.selfSum]

Without(s, t, w) ==
  LET old == AsStats
  IN  [links   |-> old.links - 1,
       sum     |-> old.sum - w,
       selfSum |-> old.selfSum - (IF s = t THEN w ELSE 0)]

\* removeLink: rows finalised in mode B are not taken back.
RemoveLink(s, t) ==
  LET map   == AsMap
      found == <<s, t>> \in DOMAIN map
      w     == ValueAt(map, <<s, t>>)
      out   == OutWeightsWith(map)
  IN  /\ EnsureMapBuild
      /\ linkMap' = Restrict(map, (DOMAIN map) \ {<<s, t>>})
      /\ outWeights' = IF found THEN [out EXCEPT ![s] = @ - w] ELSE out
      /\ stats' = IF found THEN Without(s, t, w) ELSE AsStats
      /\ finalized' = (useMap /\ finalized)
      /\ behind' = (finalized' /\ (behind \/ found))
      /\ UNCHANGED <<nodes, released>>

\* undirectedToDirected: every link but a self-link is added again the other way.
\* The opposites were collected before, so those added now are not answered.
UndirectedToDirected ==
  LET map       == AsMap
      out       == OutWeightsWith(map)
      old       == AsStats
      opposites == {<<p[2], p[1]>> : p \in {q \in DOMAIN map : q[1] # q[2]}}
      answer    == [p \in opposites |-> map[<<p[2], p[1]>>]]
  IN  /\ Fits(nodes, stats.sum + Total(answer))
      /\ EnsureMapBuild
      /\ linkMap' = Plus(map, answer)
      /\ outWeights' = Plus(out, RowSums(answer))
      /\ stats' = [links   |-> old.links + Cardinality(opposites \ DOMAIN map),
                   sum     |-> old.sum + Total(answer),
                   selfSum |-> old.selfSum]
      /\ finalized' = (useMap /\ finalized /\ opposites = {})
      /\ behind' = (finalized' /\ behind)
      /\ UNCHANGED <<nodes, released>>

\* clearLinks: nothing left and nothing to finalise; the statistics stay.
ClearLinks ==
  /\ buffer' = <<>> /\ linkMap' = <<>> /\ outWeights' = <<>> /\ rows' = NoRows
  /\ finalized' = TRUE
  /\ released' = TRUE
  /\ behind' = TRUE
  /\ UNCHANGED <<nodes, useMap, stats>>

Clear ==
  /\ nodes' = {}
  /\ useMap' = FALSE /\ finalized' = FALSE
  /\ buffer' = <<>> /\ linkMap' = <<>> /\ outWeights' = <<>>
  /\ rows' = NoRows /\ stats' = NoStats
  /\ released' = FALSE /\ behind' = FALSE

Next ==
  \/ \E id \in Ids : AddStateNode(id)
  \/ \E s, t \in Ids : RemoveLink(s, t) \/ \E w \in Weights : AddLink(s, t, w)
  \/ UndirectedToDirected
  \/ ReadLinks
  \/ ClearLinks
  \/ Clear

Spec == Init /\ [][Next]_vars
-----------------------------------------------------------------------------
\* The links as whoever adds, removes or merges them next will find them.
Content ==
  CASE useMap -> linkMap
    [] ~useMap /\ finalized -> LinksOfRows(rows)
    [] OTHER -> Merged(buffer)

(***************************************************************************)
(* Whatever the order of additions, reads, removals and conversions, and   *)
(* however often links move between buffer, rows and map on the way, the   *)
(* network holds every accepted weight under its own ordered pair: a       *)
(* repeated link is merged once, a read changes nothing, a removal takes   *)
(* one link, undirectedToDirected answers each link once.                  *)
(***************************************************************************)
Graph == INSTANCE WeightedGraph WITH
  nodes <- nodes,
  weight <- Content

ImplementsWeightedGraph == Graph!Spec

(***************************************************************************)
(* The statistics that are kept by hand in four places agree with the      *)
(* links, as long as those were not released: total and self-link weight   *)
(* always, the number of links whenever numLinks() would return, the       *)
(* out-weights in map mode.                                                *)
(***************************************************************************)
StatisticsExact ==
  LET content == Content
      sums    == RowSums(content)
  IN  ~released =>
        /\ stats.sum = Total(content)
        /\ stats.selfSum = SumOver({p \in DOMAIN content : p[1] = p[2]}, content)
        /\ useMap \/ finalized => stats.links = Cardinality(DOMAIN content)
        /\ useMap => \A s \in nodes : ValueAt(outWeights, s) = ValueAt(sums, s)

(***************************************************************************)
(* The flow is computed on finalised rows, by position.  They name every   *)
(* node in order and hold exactly the links, unless a node was added by    *)
(* itself or a link was removed while they stood: neither re-opens them.   *)
(***************************************************************************)
RowsAreTheLinks ==
  finalized /\ ~behind =>
    rows.ids = Sorted(nodes, IdOrder) /\ LinksOfRows(rows) = Content
=============================================================================
