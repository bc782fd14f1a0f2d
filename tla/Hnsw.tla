-------------------------------- MODULE Hnsw --------------------------------
(***************************************************************************)
(* The navigable graphs of a vector index: how rows are linked in, what a  *)
(* search walks, and the check a saved graph must pass.                    *)
(*                                                                         *)
(* A vector is a point of an arc, and the closer two points are, the higher *)
(* their cosine: scores are negated distances.  This is the float32        *)
(* encoding: under sq8 a shard is cut by the scores of a quantised query,  *)
(* and what is left is scored again.  The level a row draws from its       *)
(* number's hash is any of Levels.  Graphs are worked on under their lock, *)
(* so an insertion or a search is one step.                                *)
(***************************************************************************)
EXTENDS Integers, Sequences, FiniteSets, SequencesExt

CONSTANTS
  Points,      \* vectors
  Levels,      \* what deterministicLevel returns
  M, M0,       \* edges of a node on the upper layers and on layer 0; M0 >= M >= 1
  EfUpper,     \* breadth of an insertion's search on the upper layers
  EfConstruct, \* and on layer 0; at least M0
  EfSearch,    \* breadth of a search
  MinFetch,    \* what VSEARCH asks of a shard at least
  Shards,      \* hnswShards
  MaxRows,     \* bound: rows of the index
  MaxMoves     \* bound: replacements, deletions and rebuilds

VARIABLES
  graphs,   \* one graph per shard
  vec,      \* row -> its point
  dead,     \* rows with a tombstone
  moves

vars == <<graphs, vec, dead, moves>>

Count == Len(vec)
Abs(n) == IF n < 0 THEN -n ELSE n

-----------------------------------------------------------------------------
(* The heaps of a search, arrays with the best (w = 1) or the worst         *)
(* (w = -1) node first.                                                     *)

\* s without what comes after its first k.
Cut(s, k) == SubSeq(s, 1, Min({k, Len(s)}))

Swap(h, i, j) == [h EXCEPT ![i] = h[j], ![j] = h[i]]

RECURSIVE up(_, _, _)
up(h, i, w) ==
  LET p == i \div 2
  IN  IF i > 1 /\ w * h[p].score < w * h[i].score THEN up(Swap(h, i, p), p, w) ELSE h

RECURSIVE down(_, _, _)
down(h, i, w) ==
  LET l == 2 * i
      j == IF l < Len(h) /\ w * h[l + 1].score > w * h[l].score THEN l + 1 ELSE l
  IN  IF l <= Len(h) /\ w * h[i].score < w * h[j].score THEN down(Swap(h, i, j), j, w) ELSE h

push(h, n, w) == up(Append(h, n), Len(h) + 1, w)

\* The heap without its first node.
pop(h, w) == IF Len(h) = 1 THEN <<>> ELSE down([Front(h) EXCEPT ![1] = Last(h)], 1, w)

RECURSIVE Drained(_)
Drained(h) == IF h = <<>> THEN <<>> ELSE <<h[1]>> \o Drained(pop(h, -1))

\* sort.Slice by descending score, for the few nodes of an instance an
\* insertion sort.
Sorted(s) ==
  FoldLeft(LAMBDA acc, x :
             InsertAt(acc, 1 + Cardinality({i \in DOMAIN acc : acc[i].score >= x.score}), x),
           <<>>, s)

-----------------------------------------------------------------------------
(* One graph.  A node has a layer and a list of edges for each layer; a    *)
(* layer without a list and one with an empty list are the same.           *)

Node(l) == [layer |-> l, edges |-> [lc \in 1..(Max(Levels) + 1) |-> <<>>]]
NoNode == Node(-1)

NewHNSWGraph ==
  [nodes |-> [r \in 1..MaxRows |-> NoNode], entry |-> -1, maxLayer |-> -1, size |-> 0]

Nodes(g) == {r \in DOMAIN g.nodes : g.nodes[r] # NoNode}
Edges(g, r, lc) == g.nodes[r].edges[lc + 1]
WithEdges(g, r, lc, e) == [g EXCEPT !.nodes[r].edges[lc + 1] = e]

\* Score of every row against a point.
Scores(v, p) == [r \in 1..Len(v) |-> -Abs(v[r] - p)]

Scored(r, sc) == [id |-> r, score |-> sc[r]]

\* A neighbour is marked, and kept when it is among the ef best so far.
Consider(s, r, sc, ef) ==
  LET n == Scored(r, sc)
      near == push(s.near, n, -1)
      t == [s EXCEPT !.seen = @ \cup {r}]
  IN  IF r \in s.seen THEN s
      ELSE IF Len(s.near) < ef \/ n.score > s.near[1].score
        THEN [t EXCEPT !.cand = push(@, n, 1),
                       !.near = IF Len(near) > ef THEN pop(near, -1) ELSE near]
        ELSE t

\* The best candidate is expanded until it is worse than the worst kept.
RECURSIVE Walk(_, _, _, _, _)
Walk(g, s, sc, ef, lc) ==
  IF s.cand = <<>> THEN s.near
  ELSE LET c == s.cand[1]
           t == [s EXCEPT !.cand = pop(@, 1)]
       IN  IF Len(t.near) >= ef /\ c.score < t.near[1].score THEN t.near
           ELSE Walk(g, FoldLeft(LAMBDA a, r : Consider(a, r, sc, ef), t, Edges(g, c.id, lc)),
                     sc, ef, lc)

\* The search of one layer from an entry point; only rows that pass count.
searchLayer(g, sc, ep, ef, lc, pass) ==
  LET n == <<Scored(ep, sc)>>
      near == Walk(g, [cand |-> n, near |-> n, seen |-> {ep}], sc, ef, lc)
  IN  Sorted(SelectSeq(Drained(near), LAMBDA x : x.id \in pass))

\* a, a - 1, ..., b
Downto(a, b) == [i \in 1..(IF a < b THEN 0 ELSE a - b + 1) |-> a - i + 1]

\* The entry point for layer `to' - 1: the best node of each layer above.
Descend(g, sc, to) ==
  FoldLeft(LAMBDA ep, lc : searchLayer(g, sc, ep, 1, lc, Nodes(g))[1].id,
           g.entry, Downto(g.maxLayer, to))

\* Mutant of revLimit: a node's list is cut where its own choice was.
revLimit_Same(lc) == IF lc = 0 THEN M0 ELSE M

\* Edges a node holds at most after others have linked back to it.
revLimit(lc) == IF lc = 0 THEN 2 * M0 ELSE M

\* insertNeighborID: by bisection before the first edge that is not better,
\* also when a replaced vector has put the list out of order.
insertNeighborID(owner, edges, r, limit, v) ==
  LET sc == Scores(v, v[owner])
      n == Len(edges)
      in[lo \in 0..n, hi \in 0..n] ==
        IF lo >= hi THEN lo
        ELSE LET h == (lo + hi) \div 2
             IN  IF sc[edges[h + 1]] <= sc[r] THEN in[lo, h] ELSE in[h + 1, hi]
  IN  IF r = owner \/ r \in ToSet(edges) \/ (n >= limit /\ in[0, n] = n) THEN edges
      ELSE Cut(InsertAt(edges, in[0, n] + 1, r), limit)

selectClosestNeighbors(r, found, limit) ==
  LET closest == Cut(SelectSeq(found, LAMBDA x : x.id # r), limit)
  IN  [i \in DOMAIN closest |-> closest[i].id]

\* One layer of Insert: the row's edges, the edges back, the next entry point.
Linked(acc, r, lc, sc, v) ==
  LET found == searchLayer(acc.g, sc, acc.ep, IF lc > 0 THEN EfUpper ELSE EfConstruct, lc, Nodes(acc.g))
      edges == selectClosestNeighbors(r, found, IF lc = 0 THEN M0 ELSE M)
      back(h, n) == WithEdges(h, n, lc, insertNeighborID(n, Edges(h, n, lc), r, revLimit(lc), v))
  IN  [g |-> FoldLeft(back, WithEdges(acc.g, r, lc, edges), edges),
       ep |-> IF found = <<>> THEN acc.ep ELSE found[1].id]

Grown(g, r, l) == [g EXCEPT !.entry = IF l > g.maxLayer THEN r ELSE @,
                            !.maxLayer = IF l > @ THEN l ELSE @,
                            !.size = @ + 1]

\* Mutant of Insert: the row is linked on all its layers, those above the
\* graph's included.
Insert_Above(g, r, l, v) ==
  LET sc == Scores(v, v[r])
      with == [g EXCEPT !.nodes[r] = Node(l)]
      linked == FoldLeft(LAMBDA acc, lc : Linked(acc, r, lc, sc, v),
                         [g |-> with, ep |-> Descend(with, sc, l + 1)], Downto(l, 0)).g
  IN  Grown(IF g.size = 0 THEN with ELSE linked, r, l)

\* Insert of row r at level l, with the vectors v.
Insert(g, r, l, v) ==
  LET sc == Scores(v, v[r])
      with == [g EXCEPT !.nodes[r] = Node(l)]
      top == IF g.maxLayer < l THEN g.maxLayer ELSE l
      linked == FoldLeft(LAMBDA acc, lc : Linked(acc, r, lc, sc, v),
                         [g |-> with, ep |-> Descend(with, sc, l + 1)], Downto(top, 0)).g
  IN  Grown(IF g.size = 0 THEN with ELSE linked, r, l)

Search(g, p, k, ef, pass, v) ==
  LET sc == Scores(v, p)
      breadth == IF k > ef THEN k ELSE ef
  IN  IF g.size = 0 THEN <<>>
      ELSE Cut(searchLayer(g, sc, Descend(g, sc, 1), breadth, 0, pass), k)

\* What a saved graph must satisfy to be loaded.
Validate(g, expectedSize) ==
  /\ g.size = expectedSize /\ Cardinality(Nodes(g)) = expectedSize
  /\ IF expectedSize = 0 THEN g.entry = -1 ELSE g.entry \in Nodes(g)
  /\ \A r \in Nodes(g), lc \in 0..Max(Levels) :
       LET e == Edges(g, r, lc)
       IN  /\ e # <<>> => lc <= g.nodes[r].layer
           /\ Len(e) <= 2 * (IF lc = 0 THEN M0 ELSE M)
           /\ \A i \in DOMAIN e : e[i] \in Nodes(g) \ {r} /\ g.nodes[e[i]].layer >= lc

-----------------------------------------------------------------------------
(* The index: rows are dealt out to the graphs in turn.                    *)

shardIndex(r) == ((r - 1) % Shards) + 1

shardExpectedSize(count, s) == IF count < s THEN 0 ELSE (count - s + Shards) \div Shards

validateShards(gs, count) ==
  \A s \in DOMAIN gs : Validate(gs[s], shardExpectedSize(count, s))

Live == {r \in 1..Count : r \notin dead}

\* Every shard's best are merged, scored again, which in this encoding gives the
\* score the shard found them by, and the k best are returned.
VSearchOpts(p, k, fetch, pass) ==
  Cut(Sorted(FlattenSeq([s \in 1..Shards |-> Search(graphs[s], p, fetch, EfSearch, pass, vec)])), k)

VSearch(p, k) == VSearchOpts(p, k, IF k < MinFetch THEN MinFetch ELSE k, Live)

\* What is fetched by a search that may drop some of it.
Widened(k) == CASE 8 * k < 32 -> 32 [] 8 * k > 256 -> 256 [] OTHER -> 8 * k

\* The rows most like row r, without r.
VSim(r, k) == VSearchOpts(vec[r], k, Widened(k), Live \ {r})

\* Searches of two spaces, which here hold the same vectors: their scores are
\* weighed and added, and a row one of them has not found gets nothing from it.
VFuse(p, q, w, k) ==
  LET ofP == ToSet(VSearchOpts(p, Widened(k), Widened(k), Live))
      ofQ == ToSet(VSearchOpts(q, Widened(k), Widened(k), Live))
      part(hits, r) == MapThenSumSet(LAMBDA h : h.score, {h \in hits : h.id = r})
      merged == {[id |-> r, score |-> w[1] * part(ofP, r) + w[2] * part(ofQ, r)] :
                   r \in {h.id : h \in ofP \cup ofQ}}
      first(x, y) == x.score > y.score \/ (x.score = y.score /\ x.id < y.id)
  IN  Cut(SetToSortSeq(merged, first), k)

Init == graphs = [s \in 1..Shards |-> NewHNSWGraph] /\ vec = <<>> /\ dead = {} /\ moves = 0

\* VADD of a new id.
Add ==
  /\ Count < MaxRows
  /\ \E p \in Points, l \in Levels :
       LET r == Count + 1
           v == Append(vec, p)
       IN  /\ vec' = v
           /\ graphs' = [graphs EXCEPT ![shardIndex(r)] = Insert(@, r, l, v)]
  /\ UNCHANGED <<dead, moves>>

Move == moves < MaxMoves /\ moves' = moves + 1

\* VADD of an id that has a row: the vector is overwritten, the graph is not
\* touched.
Replace ==
  /\ Move
  /\ \E r \in 1..Count, p \in Points :
       /\ vec' = [vec EXCEPT ![r] = p]
       /\ dead' = dead \ {r}
  /\ UNCHANGED graphs

\* VDEL.
Delete ==
  /\ Move
  /\ \E r \in Live : dead' = dead \cup {r}
  /\ UNCHANGED <<graphs, vec>>

\* rebuildGraph: every row is inserted again, tombstones included, at the
\* level its number stands for.
rebuildGraph ==
  LET level(r) == graphs[shardIndex(r)].nodes[r].layer
      again(gs, r) == [gs EXCEPT ![shardIndex(r)] = Insert(@, r, level(r), vec)]
  IN  /\ Move
      /\ graphs' = FoldLeft(again, [s \in 1..Shards |-> NewHNSWGraph], [r \in 1..Count |-> r])
      /\ UNCHANGED <<vec, dead>>

Next == Add \/ Replace \/ Delete \/ rebuildGraph

Spec == Init /\ [][Next]_vars

-----------------------------------------------------------------------------
(* Properties.                                                             *)

\* Whatever is added, replaced and deleted in between, the graphs pass the
\* check of loadHNSWGraphs: a saved cache is never thrown away, and no edge
\* leads to a row that does not reach up to its layer.
GraphValid == validateShards(graphs, Count)

\* got is k of the rows, or all if they are fewer, and none is better.
Best(got, k, rows, sc) ==
  /\ Len(got) = IF k < Cardinality(rows) THEN k ELSE Cardinality(rows)
  /\ \A i \in DOMAIN got : /\ got[i].id \in rows
                           /\ Cardinality({r \in rows : sc[r] > got[i].score}) < i
  /\ Cardinality({got[i].id : i \in DOMAIN got}) = Len(got)

\* A small index is exact.  As long as no list of edges has been cut, layer 0
\* is connected and a search as broad as the shard sees it whole; and with
\* M0 + 1 rows every row is every other's neighbour.  VSEARCH, VSIM and VFUSE
\* then return the live rows with the k best scores, wherever the graphs' top
\* layers lead them and wherever vectors have moved since they were linked.
SearchExact ==
  LET small == \A s \in 1..Shards :
                 \/ graphs[s].size <= 2 * M0 + 1 /\ graphs[s].size <= EfSearch
                 \/ graphs[s].size <= M0 + 1 /\ dead = {}
      fused(p, q) == [r \in 1..Count |-> -3 * Abs(vec[r] - p) - Abs(vec[r] - q)]
  IN  small =>
        /\ \A p \in Points, k \in 1..2 : Best(VSearch(p, k), k, Live, Scores(vec, p))
        /\ \A r \in Live, k \in 1..2 : Best(VSim(r, k), k, Live \ {r}, Scores(vec, vec[r]))
        /\ \A p, q \in Points : p # q => Best(VFuse(p, q, <<3, 1>>, 2), 2, Live, fused(p, q))

=============================================================================
