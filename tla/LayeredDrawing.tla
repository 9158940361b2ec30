--------------------------- MODULE LayeredDrawing ---------------------------
(***************************************************************************)
(* How EntityTopology.tsx lays a layered graph out: every edge that spans   *)
(* more than one layer gets a lane (a virtual node) in each layer it        *)
(* crosses, and the layers are reordered by the mean position of their      *)
(* neighbours, downward and upward in turn, keeping the order with the      *)
(* fewest crossings.  A layering is a sequence of sequences of nodes, a     *)
(* node is any value, an edge a pair of nodes.                              *)
(***************************************************************************)
EXTENDS Integers, FiniteSets, SequencesExt

\* The sweeps tried before the best order is taken.
Passes == 8

\* A node's place in an ordered layer.
PositionIn(layer) == [n \in Range(layer) |-> CHOOSE i \in DOMAIN layer : layer[i] = n]

\* Pairs of edges between two adjacent layers whose ends are in opposite order.
CountCrossings(upper, lower, edges) ==
  LET up == PositionIn(upper)
      low == PositionIn(lower)
      between == {<<up[e[1]], low[e[2]]>> :
                    e \in {x \in edges : x[1] \in DOMAIN up /\ x[2] \in DOMAIN low}}
  IN Cardinality({p \in between \X between : p[1][1] < p[2][1] /\ p[1][2] > p[2][2]})

TotalCrossings(order, edges) ==
  MapThenSumSet(LAMBDA i : CountCrossings(order[i], order[i + 1], edges), 1 .. Len(order) - 1)

-----------------------------------------------------------------------------
(* Crossing reduction *)

\* The mean position of a node's neighbours in the adjacent layer, as a
\* fraction; a node without one keeps its own position.
Barycentre(n, self, adjacent, neighbours) ==
  LET at == PositionIn(adjacent)
      found == neighbours \cap DOMAIN at
  IN IF found = {} THEN [sum |-> self, of |-> 1]
     ELSE [sum |-> MapThenSumSet(LAMBDA m : at[m], found), of |-> Cardinality(found)]

Precedes(a, b) == a.sum * b.of < b.sum * a.of

\* One layer reordered by its barycentres, a tie broken by the place a node had in
\* the order the layers came in.
Reordered(layer, adjacent, neighbours, seed) ==
  LET rank == PositionIn(seed)
      keyed == [k \in DOMAIN layer |->
                  [node |-> layer[k], seed |-> rank[layer[k]],
                   bary |-> Barycentre(layer[k], k, adjacent, neighbours[layer[k]])]]
      sorted == SortSeq(keyed, LAMBDA a, b : \/ Precedes(a.bary, b.bary)
                                             \/ ~Precedes(b.bary, a.bary) /\ a.seed < b.seed)
  IN [k \in DOMAIN layer |-> sorted[k].node]

\* One pass over all the layers: each is reordered against the one before it in
\* the direction of the sweep, which has been reordered already.
Sweep(order, down, edges, seed) ==
  LET end == IF down THEN 2 ELSE 1
      neighbours == [n \in UNION {Range(order[i]) : i \in DOMAIN order} |->
                       {e[3 - end] : e \in {x \in edges : x[end] = n}}]
      path == IF down THEN [k \in 1 .. Len(order) - 1 |-> k + 1]
                      ELSE [k \in 1 .. Len(order) - 1 |-> Len(order) - k]
      Step(next, i) == [next EXCEPT ![i] =
        Reordered(next[i], next[IF down THEN i - 1 ELSE i + 1], neighbours, seed[i])]
  IN FoldLeft(Step, order, path)

\* The order of the sweeps that crossed least.
ReduceCrossings(layers, edges) ==
  LET Try(state, p) ==
        IF state.score = 0 THEN state
        ELSE LET next == Sweep(state.order, p % 2 = 1, edges, layers)
                 score == TotalCrossings(next, edges)
             IN IF score < state.score
                THEN [order |-> next, best |-> next, score |-> score]
                ELSE [state EXCEPT !.order = next]
      start == [order |-> layers, best |-> layers, score |-> TotalCrossings(layers, edges)]
  IN IF Len(layers) < 2 THEN layers
     ELSE FoldLeft(Try, start, [p \in 1 .. Passes |-> p]).best

-----------------------------------------------------------------------------
(* Lanes *)

LayerOf(layers, n) == CHOOSE i \in DOMAIN layers : n \in Range(layers[i])

Lane(e, l) == <<"lane", e[1], e[2], l>>

IsLane(n) == Len(n) = 4

\* Mutant: the lane of the layer before the edge's end is forgotten.
CrossedShort(layers, e) == LayerOf(layers, e[1]) + 1 .. LayerOf(layers, e[2]) - 2

\* The layers an edge crosses between its ends; none for an edge to the next
\* layer, to its own or to an earlier one.
Crossed(layers, e) == LayerOf(layers, e[1]) + 1 .. LayerOf(layers, e[2]) - 1

Route(layers, e) ==
  [k \in 1 .. Cardinality(Crossed(layers, e)) |-> Lane(e, LayerOf(layers, e[1]) + k)]

\* The layers with a lane appended for every edge that crosses them.
WithLanes(layers, edges) ==
  FoldSet(LAMBDA e, ls :
            FoldSet(LAMBDA i, l : [l EXCEPT ![i] = Append(@, Lane(e, i))], ls, Crossed(layers, e)),
          layers, edges)

\* An edge as the chain of its hops from node to lane to node.
Hops(layers, e) ==
  LET chain == <<e[1]>> \o Route(layers, e) \o <<e[2]>>
  IN {<<chain[k], chain[k + 1]>> : k \in 1 .. Len(chain) - 1}

Segments(layers, edges) == UNION {Hops(layers, e) : e \in edges}

-----------------------------------------------------------------------------
(* Coordinates: doubled, so that a row can be centred without a fraction *)

NodeWidth == 150
LaneWidth == 14
ColGap == 22

WidthOf(n) == IF IsLane(n) THEN LaneWidth ELSE NodeWidth

RowWidth(row) ==
  FoldLeft(LAMBDA sum, n : sum + WidthOf(n), 0, row) + ColGap * Max({Len(row) - 1, 0})

\* The left edge of every node of every row, each row centred on the widest.
LeftEdges(layers) ==
  LET content == Max({NodeWidth} \cup {RowWidth(layers[i]) : i \in DOMAIN layers})
      In(row, k) == 2 * (RowWidth(SubSeq(row, 1, k)) - WidthOf(row[k]))
  IN [n \in UNION {Range(layers[i]) : i \in DOMAIN layers} |->
        LET row == layers[LayerOf(layers, n)]
        IN content - RowWidth(row) + In(row, PositionIn(row)[n])]

\* The edges that leave a node (end 1) or reach it (end 2), in the order of their
\* ports along its side: by where the other end is, a tie in a fixed order.
PortsAt(n, end, edges, left) ==
  LET here == {e \in edges : e[end] = n}
  IN SortSeq(SetToSeq(here), LAMBDA a, b : left[a[3 - end]] < left[b[3 - end]])
=============================================================================
