---------------------------- MODULE FilterProofs ----------------------------
(***************************************************************************)
(* Proofs about applyNewGraphicalMethod(), for every matrix of readings    *)
(* and every number of rounds; and that it computes what Clusters says.    *)
(***************************************************************************)
EXTENDS Filter, SumsProofs

-----------------------------------------------------------------------------
(* Ranges and the readings in them: X is a set of readings, pos says where they
   lie and sz how large they are *)

Pieces == [item : Nat, low : Int, high : Int, count : Nat, saved : Nat,
           ids : SUBSET (Nat \cup {Unknown})]

Within(v, e) == e.low <= v /\ v <= e.high

\* In half units, as in Cover.
Spans(p, e) == 2 * e.low <= p /\ p <= 2 * e.high

Ranged(list) == \A k \in DOMAIN list : list[k].low <= list[k].high

Ordered(list) ==
  /\ Ranged(list)
  /\ \A j, k \in DOMAIN list : j <= k => list[j].low <= list[k].low /\ list[j].high <= list[k].high

Spread(list) ==
  /\ Ranged(list)
  /\ \A j, k \in DOMAIN list : j < k => list[j].high < list[k].low

\* What an element counts, now or once it is restored.
Whole(e) == IF e.count > 0 THEN e.count ELSE e.saved

InElement(X, pos, e) == {x \in X : Within(pos[x], e)}

\* The list consists of ranges that are apart and stand for the readings X.
Exact(list, X, pos) ==
  /\ list \in Seq(Pieces) /\ list # <<>> /\ Spread(list)
  /\ \A x \in X : \E k \in DOMAIN list : Within(pos[x], list[k])
  /\ \A k \in DOMAIN list :
       /\ InElement(X, pos, list[k]) # {}
       /\ Whole(list[k]) = Cardinality(InElement(X, pos, list[k]))
       /\ list[k].ids \ {Unknown} = {x[1] : x \in InElement(X, pos, list[k])}

Settled(list) == \A k \in DOMAIN list : list[k].count > 0

\* After n rounds the low end has moved by n steps of the least reading, the high
\* end by n steps of readings in between.
Grown(e, x, y, X, sz, n) ==
  /\ x \in X /\ y \in X /\ sz[x] <= sz[y]
  /\ e.low = sz[x] * (FuzzRounds - n)
  /\ sz[y] * FuzzRounds + n * sz[x] <= e.high
  /\ e.high <= sz[y] * (FuzzRounds + n)

Middling(list, X, sz, n) == \A k \in DOMAIN list : \E x, y \in X : Grown(list[k], x, y, X, sz, n)

\* In a base set it is the element's item that it grows by.
Fuzzed(list, X, sz, n) ==
  /\ \A k \in DOMAIN list :
       \E x, y \in X : Grown(list[k], x, y, X, sz, n) /\ list[k].item = sz[x]
  /\ \A j, k \in DOMAIN list : j <= k => list[j].item <= list[k].item

-----------------------------------------------------------------------------
(* The union underway *)

\* The elements of a list that the union has come to.
Past(list, at) == {k \in DOMAIN list : k < at \/ (k = at /\ list[k].count = 0)}

Counted(list, at, X, pos) ==
  {x \in X : \E k \in Past(list, at) : Within(pos[x], list[k])}

\* Every reading of X is counted in one element.
Grouped(list, X, pos, own) ==
  /\ own \in [X -> DOMAIN list]
  /\ \A x \in X : Within(pos[x], list[own[x]]) /\ x[1] \in list[own[x]].ids
  /\ \A k \in DOMAIN list : list[k].count = Cardinality({x \in X : own[x] = k})

\* No identifier without a reading.
Evident(list, X, pos) ==
  \A k \in DOMAIN list : \A id \in list[k].ids \ {Unknown} :
    \E x \in X : x[1] = id /\ Within(pos[x], list[k])

Cursor(list, at) ==
  /\ at \in 1 .. Len(list) + 1
  /\ \A k \in DOMAIN list : k # at => list[k].count > 0

\* The last piece lies in a range that is still open ...
Ahead(a, i, b, j, end) ==
  /\ i <= Len(a) /\ end <= a[i].high
  /\ j <= Len(b) => a[i].low <= b[j].high

\* ... or ends before all that is to come.
Beyond(a, i, end) == i <= Len(a) => end < a[i].low

FrontierAt(a, i, b, j, last) ==
  LET beyond == Beyond(a, i, last.high) /\ Beyond(b, j, last.high)
  IN /\ i <= Len(a) => last.low <= a[i].low
     /\ j <= Len(b) => last.low <= b[j].low
     /\ beyond \/ Ahead(a, i, b, j, last.high) \/ Ahead(b, j, a, i, last.high)
     /\ Unknown \notin last.ids => beyond

Frontier(a, i, b, j, pieces) == pieces # <<>> => FrontierAt(a, i, b, j, pieces[Len(pieces)])

\* Pieces that are no unions do not reach the next one.
Singles(pieces) ==
  \A q \in 1 .. Len(pieces) - 1 : Unknown \notin pieces[q].ids => pieces[q].high < pieces[q + 1].low

SameCover(pieces, a, i, b, j) ==
  \A p \in Int :
    (\E k \in DOMAIN pieces : Spans(p, pieces[k])) <=>
      \/ \E k \in Past(a, i) : Spans(p, a[k])
      \/ \E k \in Past(b, j) : Spans(p, b[k])

Uniting(a, i, X, b, j, Y, pieces, pos) ==
  /\ Exact(a, X, pos) /\ Exact(b, Y, pos) /\ Cursor(a, i) /\ Cursor(b, j)
  /\ pieces \in Seq(Pieces) /\ Ordered(pieces)
  /\ \E own : Grouped(pieces, Counted(a, i, X, pos) \cup Counted(b, j, Y, pos), pos, own)
  /\ Evident(pieces, X \cup Y, pos)
  /\ SameCover(pieces, a, i, b, j)
  /\ Frontier(a, i, b, j, pieces) /\ Singles(pieces)

-----------------------------------------------------------------------------
(* The invariant *)

\* A reading is a pair of the number of its set and its place there.
Numbers(rd) == 0 .. Len(rd) - 1
Points(rd, sets) == {x \in sets \X Nat : x[2] \in DOMAIN rd[x[1] + 1]}

\* How large the readings are, and where they lie.
Size(rd) == [x \in Points(rd, Numbers(rd)) |-> rd[x[1] + 1][x[2]]]
Place(rd) == [x \in Points(rd, Numbers(rd)) |-> rd[x[1] + 1][x[2]] * FuzzRounds]

RowsAscend(rd) ==
  /\ rd \in Seq(Seq(Nat \ {0}))
  /\ \A s \in DOMAIN rd : /\ rd[s] # <<>>
                          /\ \A j, k \in DOMAIN rd[s] : j <= k => rd[s][j] <= rd[s][k]

\* What Clusters sees of a list: ranges, and the steps they widen by.
Extents(list) == {[low |-> list[k].low, high |-> list[k].high] : k \in DOMAIN list}

Shapes(list) ==
  {[low |-> list[k].low, high |-> list[k].high, step |-> list[k].item] : k \in DOMAIN list}

\* The ranges a row starts with, and what becomes of ranges at a try.
RowPoints(row) == {C!Point(row[j]) : j \in DOMAIN row}
GrownTogether(Rs) == C!Joined({C!Widened(r) : r \in Rs})

\* The ranges of a row at the n-th try, as in Clusters.
RangesAt(row, n) ==
  LET After[k \in 0 .. n] ==
        IF k = 0 THEN RowPoints(row)
        ELSE GrownTogether(After[k - 1])
  IN After[n]

\* What the n-th widening leaves of set s.
BaseSet(list, s, n, rd) ==
  IF n = 0 THEN list = CreateSet(rd[s + 1], s)
  ELSE /\ Exact(list, Points(rd, {s}), Place(rd)) /\ Fuzzed(list, Points(rd, {s}), Size(rd), n)
       /\ Shapes(list) = RangesAt(rd[s + 1], n)

\* The list unites the sets, and covers what they cover.
Unites(list, sets, ls, n, rd) ==
  /\ Exact(list, Points(rd, sets), Place(rd)) /\ Middling(list, Points(rd, sets), Size(rd), n)
  /\ \A p \in Int : (\E k \in DOMAIN list : Spans(p, list[k])) <=>
                      \E s \in sets : \E k \in DOMAIN ls[s] : Spans(p, ls[s][k])

Begun(ls, rd) == DOMAIN ls = Numbers(rd) \cup {Merged} /\ Len(rd) >= 2

RoundInv(ls, n, rd) ==
  /\ Begun(ls, rd) /\ ls[Merged] = <<>>
  /\ \A s \in Numbers(rd) : BaseSet(ls[s], s, n, rd) /\ Settled(ls[s])

\* How often set s has been widened in the n-th round.
Level(s, nx, n) == IF s >= nx THEN n - 1 ELSE n

UnionInv(ls, nx, n, rd, a, i, b, j, pieces) ==
  /\ Begun(ls, rd) /\ nx \in 2 .. Len(rd) /\ n >= 1
  /\ b = nx - 1 /\ a = (IF nx = 2 THEN 0 ELSE Merged)
  /\ Uniting(ls[a], i, Points(rd, 0 .. nx - 2), ls[b], j, Points(rd, {nx - 1}), pieces, Place(rd))
  /\ Middling(pieces, Points(rd, 0 .. nx - 1), Size(rd), n)
  /\ Unites(ls[a], 0 .. nx - 2, ls, n, rd)
  /\ \A s \in Numbers(rd) : BaseSet(ls[s], s, Level(s, nx, n), rd)
  /\ \A s \in Numbers(rd) \ {a, b} : Settled(ls[s])
  /\ nx = 2 => ls[Merged] = <<>>

MergeInv(ls, nx, n, rd) ==
  /\ Begun(ls, rd) /\ nx \in 2 .. Len(rd) /\ n >= 1
  /\ \A s \in Numbers(rd) : BaseSet(ls[s], s, Level(s, nx, n), rd) /\ Settled(ls[s])
  /\ Unites(ls[Merged], 0 .. nx - 1, ls, n, rd) /\ Settled(ls[Merged])

\* The peak is a range that has grown from readings.
PeakInv(p, n, rd) ==
  /\ p.low \in Int /\ p.high \in Int /\ p.count \in Nat \ {0}
  /\ \E x, y \in Points(rd, Numbers(rd)) : Grown(p, x, y, Points(rd, Numbers(rd)), Size(rd), n)

MethodInv ==
  /\ RowsAscend(readings)
  /\ pc \in {"round", "union", "merge", "destroy", "done"}
  /\ redoLimit \in 0 .. FuzzRounds
  /\ pc = "round" => RoundInv(lists, redoLimit, readings)
  /\ pc = "union" => UnionInv(lists, next, redoLimit, readings, one, left, other, right, out)
  /\ pc = "merge" => MergeInv(lists, next, redoLimit, readings)
  /\ pc \in {"round", "union", "merge"} => peak = NoPeak
  /\ peak # NoPeak => PeakInv(peak, redoLimit, readings)

-----------------------------------------------------------------------------
(* Selected members *)

LEMMA SelectedMembers ==
  ASSUME NEW list, NEW S \in SUBSET Nat, IsFiniteSet(S)
  PROVE  /\ DOMAIN Selected(list, S) = 1 .. Cardinality(S)
         /\ \A n \in 1 .. Cardinality(S) :
              \E m \in S : Selected(list, S)[n] = list[m] /\ Rank(S, m) = n - 1
<1>1. Cardinality(S) \in Nat
  BY FS_CardinalityType
<1>2. Selected(list, S)
        = [k \in 1 .. Cardinality(S) |-> list[CHOOSE m \in S : Rank(S, m) = k - 1]]
  BY DEF Selected, Rank
<1>3. ASSUME NEW n \in 1 .. Cardinality(S)
      PROVE  \E m \in S : Rank(S, m) = n - 1
  <2>1. n - 1 \in 0 .. Cardinality(S) - 1
    BY <1>1
  <2> QED BY <2>1, RankExists
<1> QED BY <1>2, <1>3

LEMMA SelectedAscend ==
  ASSUME NEW list, NEW S \in SUBSET Nat, IsFiniteSet(S),
         NEW n \in 1 .. Cardinality(S), NEW l \in 1 .. Cardinality(S), n < l
  PROVE  \E a, b \in S : /\ a < b /\ Selected(list, S)[n] = list[a]
                         /\ Selected(list, S)[l] = list[b]
<1>1. PICK a \in S : Selected(list, S)[n] = list[a] /\ Rank(S, a) = n - 1
  BY SelectedMembers
<1>2. PICK b \in S : Selected(list, S)[l] = list[b] /\ Rank(S, b) = l - 1
  BY SelectedMembers
<1>3. Rank(S, a) < Rank(S, b)
  BY <1>1, <1>2, FS_CardinalityType
<1>4. a < b
  BY <1>3, RanksAscend
<1> QED BY <1>1, <1>2, <1>4

-----------------------------------------------------------------------------
(* Coalescing *)

\* CoalesceSet adds element after element.
LEMMA CoalesceSteps ==
  ASSUME NEW set, Len(set) \in Nat
  PROVE  \E f : /\ f[0] = <<>>
                /\ \A n \in 1 .. Len(set) : f[n] = AddCoalescing(f[n - 1], set[n])
                /\ CoalesceSet(set) = f[Len(set)]
<1> DEFINE N == Len(set)
           Value(g, n) == IF n = 0 THEN <<>> ELSE AddCoalescing(g[n - 1], set[n])
           P == {n \in Nat : n <= N => \E g : g = [m \in 0 .. n |-> Value(g, m)]}
<1>1. 0 \in P
  <2> DEFINE g == [m \in 0 .. 0 |-> <<>>]
  <2>1. g = [m \in 0 .. 0 |-> Value(g, m)]
    OBVIOUS
  <2> QED BY <2>1
<1>2. ASSUME NEW n \in Nat, n \in P PROVE n + 1 \in P
  <2> SUFFICES ASSUME n + 1 <= N PROVE \E g : g = [m \in 0 .. n + 1 |-> Value(g, m)]
    OBVIOUS
  <2>1. PICK g : g = [m \in 0 .. n |-> Value(g, m)]
    BY <1>2
  <2> DEFINE h == [m \in 0 .. n + 1 |-> IF m = n + 1 THEN Value(g, m) ELSE g[m]]
  <2>2. ASSUME NEW m \in 0 .. n + 1 PROVE h[m] = Value(h, m)
    <3>1. CASE m = n + 1
      <4>1. m # 0 /\ m - 1 \in 0 .. n + 1 /\ m - 1 # n + 1
        BY <3>1
      <4>2. h[m - 1] = g[m - 1]
        BY <4>1
      <4> QED BY <3>1, <4>1, <4>2
    <3>2. CASE m # n + 1 /\ m # 0
      <4>1. m \in 0 .. n /\ m - 1 \in 0 .. n + 1 /\ m - 1 # n + 1
        BY <3>2
      <4>2. h[m] = g[m] /\ h[m - 1] = g[m - 1]
        BY <3>2, <4>1
      <4> QED BY <2>1, <3>2, <4>1, <4>2
    <3>3. CASE m # n + 1 /\ m = 0
      <4>1. h[m] = g[m] /\ m \in 0 .. n
        BY <3>3
      <4> QED BY <2>1, <3>3, <4>1
    <3> QED BY <3>1, <3>2, <3>3
  <2>3. h = [m \in 0 .. n + 1 |-> Value(h, m)]
    BY <2>2
  <2> QED BY <2>3
<1>3. N \in P
  <2> HIDE DEF P
  <2> QED BY <1>1, <1>2, AllNaturals
<1> DEFINE f == CHOOSE g : g = [m \in 0 .. N |-> Value(g, m)]
<1>4. f = [m \in 0 .. N |-> Value(f, m)]
  BY <1>3
<1>5. CoalesceSet(set) = f[N]
  BY DEF CoalesceSet
<1> HIDE DEF f
<1>6. f[0] = <<>> /\ \A n \in 1 .. N : f[n] = AddCoalescing(f[n - 1], set[n])
  BY <1>4
<1> QED BY <1>5, <1>6

\* What a list of m elements becomes when e is added to it: its last element is
\* widened, or it grows.
Widened(list, m, e, r) ==
  /\ m # 0 /\ list[m].high >= e.low
  /\ r \in Seq(Pieces) /\ Len(r) = m
  /\ \A k \in 1 .. m : k # m => r[k] = list[k]
  /\ r[m].high = e.high /\ r[m].low = list[m].low /\ r[m].item = list[m].item
  /\ r[m].ids = list[m].ids \cup e.ids
  /\ r[m].count = list[m].count + e.count

Lengthened(list, m, e, r) ==
  /\ ~(m # 0 /\ list[m].high >= e.low)
  /\ r \in Seq(Pieces) /\ Len(r) = m + 1
  /\ \A k \in 1 .. m : r[k] = list[k]
  /\ r[m + 1] = e

LEMMA AddedElement ==
  ASSUME NEW list \in Seq(Pieces), NEW e \in Pieces, NEW r, r = AddCoalescing(list, e),
         NEW m, m = Len(list)
  PROVE  Widened(list, m, e, r) \/ Lengthened(list, m, e, r)
<1>1. m \in Nat /\ (list = <<>> <=> m = 0)
  OBVIOUS
<1>2. Swallows(list, e) <=> m # 0 /\ list[m].high >= e.low
  BY <1>1 DEF Swallows, Last
<1>3. CASE Swallows(list, e)
  <2> DEFINE a == [list[m] EXCEPT !.high = e.high, !.count = @ + e.count,
                                  !.ids = @ \cup e.ids]
  <2>1. r = [list EXCEPT ![m] = a]
    BY <1>3 DEF AddCoalescing, Absorb
  <2>2. a \in Pieces
    <3>1. list[m] \in Pieces
      BY <1>1, <1>2, <1>3
    <3>2. \A l \in Pieces : [l EXCEPT !.high = e.high, !.count = @ + e.count,
                                      !.ids = @ \cup e.ids] \in Pieces
      <4> SUFFICES ASSUME NEW l \in Pieces
                   PROVE  [l EXCEPT !.high = e.high, !.count = @ + e.count,
                                    !.ids = @ \cup e.ids] \in Pieces
        OBVIOUS
      <4>1. l.count + e.count \in Nat
        BY DEF Pieces
      <4>2. l.ids \cup e.ids \in SUBSET (Nat \cup {Unknown})
        BY DEF Pieces
      <4> HIDE DEF Pieces
      <4>3. e.high \in Int
        BY DEF Pieces
      <4> QED BY <4>1, <4>2, <4>3 DEF Pieces
    <3> QED BY <3>1, <3>2
  <2> HIDE DEF a
  <2>3. /\ r \in Seq(Pieces) /\ Len(r) = m /\ r[m] = a
        /\ \A k \in 1 .. m : k # m => r[k] = list[k]
    BY <1>1, <1>2, <1>3, <2>1, <2>2
  <2>4. /\ a.high = e.high /\ a.low = list[m].low /\ a.item = list[m].item
        /\ a.ids = list[m].ids \cup e.ids /\ a.count = list[m].count + e.count
    <3>1. list[m] \in Pieces
      BY <1>1, <1>2, <1>3
    <3> QED BY <3>1 DEF a, Pieces
  <2> QED BY <1>2, <1>3, <2>3, <2>4 DEF Widened
<1>4. CASE ~Swallows(list, e)
  <2>1. r = Append(list, e)
    BY <1>4 DEF AddCoalescing
  <2> QED BY <1>1, <1>2, <1>4, <2>1 DEF Lengthened
<1> QED BY <1>3, <1>4

LEMMA PieceFields ==
  ASSUME NEW list \in Seq(Pieces), NEW k \in DOMAIN list
  PROVE  /\ list[k] \in Pieces
         /\ list[k].item \in Nat /\ list[k].low \in Int /\ list[k].high \in Int
         /\ list[k].count \in Nat /\ list[k].saved \in Nat
         /\ list[k].ids \in SUBSET (Nat \cup {Unknown})
<1>1. list[k] \in Pieces
  OBVIOUS
<1> QED BY <1>1 DEF Pieces

\* The range of e lies in the range of d.
Inside(e, d) == d.low <= e.low /\ e.high <= d.high

ItemsAscend(list) == \A j, k \in DOMAIN list : j <= k => list[j].item <= list[k].item

\* The last element reaches as far as the n-th element of the set.
LastOf(c, set, n) ==
  n > 0 => /\ c # <<>> /\ c[Len(c)].high = set[n].high
           /\ Inside(set[n], c[Len(c)])
           /\ set[n].ids \subseteq c[Len(c)].ids

\* Every element begins with one and ends with one of the first n of the set ...
EndsOf(c, set, n) ==
  \A k \in DOMAIN c : \E i, j \in 1 .. n :
    /\ i <= j /\ c[k].high = set[j].high
    /\ c[k].low = set[i].low /\ c[k].item = set[i].item

\* ... and has no gaps.
CoverOf(c, set, n) ==
  /\ \A i \in 1 .. n : \E k \in DOMAIN c : Inside(set[i], c[k])
  /\ \A p \in Int : \A k \in DOMAIN c : Spans(p, c[k]) => \E i \in 1 .. n : Spans(p, set[i])

\* It has the identifiers of the elements that it comprises.
IdsOf(c, set, n) ==
  \A k \in DOMAIN c :
    /\ \A id \in c[k].ids : \E i \in 1 .. n : id \in set[i].ids /\ Inside(set[i], c[k])
    /\ \A i \in 1 .. n : Inside(set[i], c[k]) => set[i].ids \subseteq c[k].ids

\* Its items ascend if they did, and each is the least that the element comprises.
ItemsOf(c, set, n) ==
  ItemsAscend(set) =>
    /\ ItemsAscend(c)
    /\ n > 0 => c[Len(c)].item <= set[n].item
    /\ \A k \in DOMAIN c : \A i \in 1 .. n : Inside(set[i], c[k]) => c[k].item <= set[i].item

\* c is what the first n elements of set coalesce to.
Coalesced(c, set, n) ==
  /\ c \in Seq(Pieces) /\ Len(c) <= n /\ Spread(c) /\ LastOf(c, set, n)
  /\ EndsOf(c, set, n) /\ CoverOf(c, set, n) /\ IdsOf(c, set, n) /\ ItemsOf(c, set, n)

\* The list grows by e, or its last element, which reaches e, is widened.
Grows(c, m, e, r, q) ==
  /\ r \in Seq(Pieces) /\ Len(r) = q /\ DOMAIN r = 1 .. q /\ q > 0
  /\ \A k \in 1 .. q : k # q => /\ k \in 1 .. m /\ r[k] = c[k]
                                /\ r[k].high < e.low /\ r[k].high < r[q].low
  /\ r[q].high = e.high /\ r[q].low <= e.low /\ e.ids \subseteq r[q].ids
  /\ \/ /\ m = q /\ e.low <= c[q].high /\ c[q].high <= e.high
        /\ r[q].low = c[q].low /\ r[q].item = c[q].item /\ r[q].ids = c[q].ids \cup e.ids
        /\ r[q].count = c[q].count + e.count
     \/ m = q - 1 /\ r[q] = e

LEMMA ElementGrows ==
  ASSUME NEW c \in Seq(Pieces), Spread(c), NEW m, m = Len(c), NEW e \in Pieces,
         e.low <= e.high, m # 0 => c[m].high <= e.high /\ c[m].low <= e.low,
         NEW r, r = AddCoalescing(c, e)
  PROVE  \E q \in 1 .. m + 1 : Grows(c, m, e, r, q)
<1>1. m \in Nat /\ DOMAIN c = 1 .. m /\ e.low \in Int /\ e.high \in Int
  BY DEF Pieces
<1>2. \A k \in 1 .. m : c[k].low \in Int /\ c[k].high \in Int /\ c[k].low <= c[k].high
  BY <1>1, PieceFields DEF Spread, Ranged
<1>3. \A k \in 1 .. m : k # m => /\ c[k].high < c[m].low /\ c[k].high < c[m].high
  <2> SUFFICES ASSUME NEW k \in 1 .. m, k # m
               PROVE  c[k].high < c[m].low /\ c[k].high < c[m].high
    OBVIOUS
  <2>1. k < m /\ m \in 1 .. m
    BY <1>1
  <2>2. c[k].high < c[m].low
    BY <1>1, <2>1 DEF Spread
  <2> QED BY <1>2, <2>1, <2>2
<1>4. CASE Widened(c, m, e, r)
  <2>1. /\ m # 0 /\ c[m].high >= e.low
        /\ r \in Seq(Pieces) /\ Len(r) = m
        /\ \A k \in 1 .. m : k # m => r[k] = c[k]
        /\ r[m].high = e.high /\ r[m].low = c[m].low /\ r[m].item = c[m].item
        /\ r[m].ids = c[m].ids \cup e.ids /\ r[m].count = c[m].count + e.count
    BY <1>4 DEF Widened
  <2>2. m \in 1 .. m /\ DOMAIN r = 1 .. m
    BY <1>1, <1>4, <2>1
  <2>4. ASSUME NEW k \in 1 .. m, k # m
        PROVE  /\ r[k] = c[k] /\ r[k].high < e.low /\ r[k].high < r[m].low
    BY <1>1, <1>2, <1>3, <1>4, <2>1, <2>2, <2>4
  <2>5. Grows(c, m, e, r, m)
    BY <1>1, <1>4, <2>1, <2>2, <2>4 DEF Grows
  <2> QED BY <1>1, <2>2, <2>5
<1>5. CASE Lengthened(c, m, e, r)
  <2>1. /\ ~(m # 0 /\ c[m].high >= e.low)
        /\ r \in Seq(Pieces) /\ Len(r) = m + 1
        /\ \A k \in 1 .. m : r[k] = c[k]
        /\ r[m + 1] = e
    BY <1>5 DEF Lengthened
  <2>2. DOMAIN r = 1 .. m + 1 /\ m + 1 \in 1 .. m + 1
    BY <1>1, <2>1
  <2>3. ASSUME NEW k \in 1 .. m + 1, k # m + 1
        PROVE  /\ k \in 1 .. m /\ r[k] = c[k] /\ r[k].high < e.low /\ r[k].high < r[m + 1].low
    <3>1. k \in 1 .. m /\ m \in 1 .. m
      BY <1>1, <2>3
    <3>2. c[m].high < e.low /\ c[k].high <= c[m].high
      BY <1>1, <1>2, <1>3, <2>1, <3>1
    <3> QED BY <1>1, <1>2, <2>1, <3>1, <3>2
  <2>4. Grows(c, m, e, r, m + 1)
    BY <1>1, <2>1, <2>2, <2>3 DEF Grows
  <2> QED BY <2>2, <2>4
<1> QED BY <1>4, <1>5, AddedElement

LEMMA InsideInside ==
  ASSUME NEW e, NEW d, NEW f, Inside(e, d), Inside(d, f),
         e.low \in Int, e.high \in Int, d.low \in Int, d.high \in Int,
         f.low \in Int, f.high \in Int
  PROVE  Inside(e, f)
BY DEF Inside

LEMMA CoalescedStep ==
  ASSUME NEW set \in Seq(Pieces), Ordered(set), NEW n \in Nat, n + 1 <= Len(set),
         NEW c, Coalesced(c, set, n), NEW r, r = AddCoalescing(c, set[n + 1]),
         NEW m, m = Len(c), NEW e, e = set[n + 1]
  PROVE  \E q \in 1 .. n + 1 : Grows(c, m, e, r, q) /\ Coalesced(r, set, n + 1)
<1>1. /\ c \in Seq(Pieces) /\ m \in Nat /\ m <= n /\ DOMAIN c = 1 .. m /\ Spread(c)
      /\ LastOf(c, set, n) /\ EndsOf(c, set, n) /\ CoverOf(c, set, n) /\ IdsOf(c, set, n)
      /\ ItemsOf(c, set, n)
  BY DEF Coalesced
<1>2. /\ DOMAIN set = 1 .. Len(set) /\ n + 1 \in DOMAIN set /\ n + 1 \in 1 .. n + 1
      /\ \A i \in 1 .. n : i \in 1 .. n + 1 /\ i \in DOMAIN set
      /\ \A i \in 1 .. n + 1 : i \in DOMAIN set /\ (i \in 1 .. n \/ i = n + 1)
  OBVIOUS
<1>3. /\ e \in Pieces /\ e.low \in Int /\ e.high \in Int /\ e.item \in Nat /\ e.low <= e.high
  BY <1>2, PieceFields DEF Ordered, Ranged
<1>4. \A i \in 1 .. n + 1 : /\ set[i].low \in Int /\ set[i].high \in Int
                           /\ set[i].low <= set[i].high
                           /\ set[i].low <= e.low /\ set[i].high <= e.high
                           /\ set[i].item \in Nat
  <2> SUFFICES ASSUME NEW i \in 1 .. n + 1
               PROVE  /\ set[i].low \in Int /\ set[i].high \in Int
                      /\ set[i].low <= set[i].high
                      /\ set[i].low <= e.low /\ set[i].high <= e.high
                      /\ set[i].item \in Nat
    OBVIOUS
  <2>1. i \in DOMAIN set /\ i <= n + 1
    BY <1>2
  <2> QED BY <1>2, <2>1, PieceFields DEF Ordered, Ranged
<1>5. \A k \in 1 .. m : /\ c[k].low \in Int /\ c[k].high \in Int /\ c[k].low <= c[k].high
                       /\ c[k].item \in Nat /\ k \in DOMAIN c
  BY <1>1, PieceFields DEF Spread, Ranged
<1>6. m # 0 => /\ m \in 1 .. m /\ n > 0 /\ n \in 1 .. n
               /\ c[m].high = set[n].high /\ c[m].low <= set[n].low
               /\ c[m].high <= e.high /\ c[m].low <= e.low
  <2> SUFFICES ASSUME m # 0
               PROVE  /\ m \in 1 .. m /\ n > 0 /\ n \in 1 .. n
                      /\ c[m].high = set[n].high /\ c[m].low <= set[n].low
                      /\ c[m].high <= e.high /\ c[m].low <= e.low
    OBVIOUS
  <2>1. m \in 1 .. m /\ n > 0 /\ n \in 1 .. n /\ n \in 1 .. n + 1
    BY <1>1
  <2>2. c[m].high = set[n].high /\ c[m].low <= set[n].low
    BY <1>1, <2>1 DEF LastOf, Inside
  <2> QED BY <1>3, <1>4, <1>5, <2>1, <2>2
<1>7. PICK q \in 1 .. m + 1 : Grows(c, m, e, r, q)
  BY <1>1, <1>3, <1>6, ElementGrows
<1>8. /\ q \in 1 .. n + 1 /\ r \in Seq(Pieces) /\ Len(r) = q /\ DOMAIN r = 1 .. q
      /\ q \in 1 .. q
      /\ r[q].high = e.high /\ r[q].low <= e.low /\ e.ids \subseteq r[q].ids
      /\ \A k \in 1 .. q : k # q => /\ k \in 1 .. m /\ r[k] = c[k]
                                    /\ r[k].high < e.low /\ r[k].high < r[q].low
  BY <1>1, <1>7 DEF Grows
<1>9. \/ /\ m = q /\ e.low <= c[q].high /\ c[q].high <= e.high /\ n > 0 /\ n \in 1 .. n
         /\ r[q].low = c[q].low /\ r[q].item = c[q].item /\ r[q].ids = c[q].ids \cup e.ids
      \/ m = q - 1 /\ r[q] = e
  BY <1>1, <1>6, <1>7 DEF Grows
<1>10. r[q].low \in Int /\ r[q].high \in Int /\ r[q].item \in Nat
  BY <1>8, PieceFields
<1>11. Spread(r)
  <2>1. \A k \in 1 .. q : r[k].low <= r[k].high
    BY <1>3, <1>5, <1>8, <1>10, SMTT(30)
  <2>2. ASSUME NEW j \in 1 .. q, NEW k \in 1 .. q, j < k PROVE r[j].high < r[k].low
    <3>1. j # q
      BY <1>8, <2>2
    <3>2. CASE k = q
      BY <1>8, <3>1, <3>2
    <3>3. CASE k # q
      BY <1>1, <1>5, <1>8, <2>2, <3>1, <3>3 DEF Spread
    <3> QED BY <3>2, <3>3
  <2> QED BY <1>8, <2>1, <2>2 DEF Spread, Ranged
<1>12. Inside(e, r[q]) /\ LastOf(r, set, n + 1)
  BY <1>3, <1>8, <1>10 DEF LastOf, Inside
\* An element that was there lies in one that is there, with its identifiers.
<1>13. ASSUME NEW k \in 1 .. m
       PROVE  /\ k \in 1 .. q /\ Inside(c[k], r[k]) /\ c[k].ids \subseteq r[k].ids
  <2>1. k \in 1 .. q
    BY <1>1, <1>8, <1>9
  <2>2. CASE k = q
    BY <1>1, <1>5, <1>8, <1>9, <2>2 DEF Inside
  <2>3. CASE k # q
    BY <1>5, <1>8, <2>1, <2>3 DEF Inside
  <2> QED BY <2>1, <2>2, <2>3
<1>14. EndsOf(r, set, n + 1)
  <2> SUFFICES ASSUME NEW k \in 1 .. q
               PROVE  \E i, j \in 1 .. n + 1 :
                        /\ i <= j /\ r[k].high = set[j].high
                        /\ r[k].low = set[i].low /\ r[k].item = set[i].item
    BY <1>8 DEF EndsOf
  <2>1. CASE k # q
    <3>1. PICK i \in 1 .. n, j \in 1 .. n :
            /\ i <= j /\ c[k].high = set[j].high
            /\ c[k].low = set[i].low /\ c[k].item = set[i].item
      BY <1>1, <1>8, <2>1 DEF EndsOf
    <3> QED BY <1>2, <1>8, <2>1, <3>1
  <2>2. CASE k = q /\ m = q - 1
    BY <1>2, <1>8, <1>9, <2>2
  <2>3. CASE k = q /\ m = q
    <3>1. PICK i \in 1 .. n : c[q].low = set[i].low /\ c[q].item = set[i].item
      BY <1>1, <1>8, <2>3 DEF EndsOf
    <3>2. i <= n + 1 /\ i \in 1 .. n + 1
      BY <1>2
    <3>3. r[q].low = set[i].low /\ r[q].item = set[i].item /\ r[q].high = set[n + 1].high
      BY <1>1, <1>8, <1>9, <2>3, <3>1
    <3> QED BY <1>2, <2>3, <3>2, <3>3
  <2> QED BY <1>1, <1>9, <2>1, <2>2, <2>3
<1>15. \A i \in 1 .. n + 1 : \E k \in 1 .. q : Inside(set[i], r[k])
  <2> SUFFICES ASSUME NEW i \in 1 .. n + 1 PROVE \E k \in 1 .. q : Inside(set[i], r[k])
    OBVIOUS
  <2>1. CASE i = n + 1
    BY <1>8, <1>12, <2>1
  <2>2. CASE i \in 1 .. n
    <3>1. PICK k \in 1 .. m : Inside(set[i], c[k])
      BY <1>1, <2>2 DEF CoverOf
    <3>2. k \in 1 .. q /\ Inside(c[k], r[k])
      BY <1>13
    <3>3. r[k].low \in Int /\ r[k].high \in Int
      BY <1>8, <3>2, PieceFields
    <3>4. Inside(set[i], r[k])
      BY <1>4, <1>5, <3>1, <3>2, <3>3, InsideInside
    <3> QED BY <3>2, <3>4
  <2> QED BY <1>2, <2>1, <2>2
<1>16. ASSUME NEW p \in Int, NEW k \in 1 .. q, Spans(p, r[k])
       PROVE  \E i \in 1 .. n + 1 : Spans(p, set[i])
  <2>1. CASE k # q
    BY <1>1, <1>2, <1>8, <1>16, <2>1 DEF CoverOf
  <2>2. CASE k = q /\ m = q - 1
    BY <1>2, <1>9, <1>16, <2>2
  <2>3. CASE k = q /\ m = q /\ p <= 2 * c[q].high
    <3>1. Spans(p, c[q])
      BY <1>1, <1>5, <1>9, <1>16, <2>3 DEF Spans
    <3> QED BY <1>1, <1>2, <1>8, <2>3, <3>1 DEF CoverOf
  <2>4. CASE k = q /\ m = q /\ p > 2 * c[q].high
    <3>1. Spans(p, e)
      BY <1>1, <1>3, <1>5, <1>8, <1>9, <1>16, <2>4, SMTT(30) DEF Spans
    <3> QED BY <1>2, <3>1
  <2> QED BY <1>1, <1>5, <1>9, <2>1, <2>2, <2>3, <2>4
<1>17. CoverOf(r, set, n + 1)
  BY <1>8, <1>15, <1>16 DEF CoverOf
<1>18. ASSUME NEW k \in 1 .. q, NEW id \in r[k].ids
       PROVE  \E i \in 1 .. n + 1 : id \in set[i].ids /\ Inside(set[i], r[k])
  <2>1. CASE k # q
    BY <1>1, <1>2, <1>8, <2>1 DEF IdsOf
  <2>2. CASE k = q /\ id \in e.ids
    BY <1>2, <1>12, <2>2
  <2>3. CASE k = q /\ m = q /\ id \in c[q].ids
    <3>1. PICK i \in 1 .. n : id \in set[i].ids /\ Inside(set[i], c[q])
      BY <1>1, <1>8, <2>3 DEF IdsOf
    <3>2. q \in 1 .. m /\ Inside(c[q], r[q]) /\ i \in 1 .. n + 1
      BY <1>2, <1>8, <1>13, <2>3
    <3>3. Inside(set[i], r[q])
      BY <1>4, <1>5, <1>10, <3>1, <3>2, InsideInside
    <3> QED BY <2>3, <3>1, <3>2, <3>3
  <2> QED BY <1>9, <2>1, <2>2, <2>3
\* The new element lies in the last one only; what lies in the last one lay there.
<1>19. ASSUME NEW k \in 1 .. q, Inside(e, r[k]) PROVE k = q
  <2> SUFFICES ASSUME k # q PROVE FALSE
    OBVIOUS
  <2> QED BY <1>3, <1>5, <1>8, <1>19, SMTT(30) DEF Inside
<1>20. ASSUME NEW i \in 1 .. n, Inside(set[i], r[q]) PROVE q \in 1 .. m /\ Inside(set[i], c[q])
  <2>1. PICK l \in 1 .. m : Inside(set[i], c[l])
    BY <1>1 DEF CoverOf
  <2>2. l \in 1 .. q
    BY <1>13
  <2>3. l = q
    <3> SUFFICES ASSUME l # q PROVE FALSE
      OBVIOUS
    <3>1. r[l] = c[l] /\ r[l].high < r[q].low
      BY <1>8, <2>2
    <3>2. /\ c[l].high < r[q].low /\ set[i].high <= c[l].high /\ r[q].low <= set[i].low
          /\ set[i].low <= set[i].high
      BY <1>2, <1>4, <1>20, <2>1, <3>1 DEF Inside
    <3>3. set[i].low \in Int /\ set[i].high \in Int /\ c[l].high \in Int
      BY <1>2, <1>4, <1>5
    <3> QED BY <1>10, <3>2, <3>3, SMTT(30)
  <2> QED BY <2>1, <2>3
<1>21. ASSUME NEW k \in 1 .. q, NEW i \in 1 .. n + 1, Inside(set[i], r[k])
       PROVE  set[i].ids \subseteq r[k].ids
  <2>1. CASE i = n + 1
    BY <1>8, <1>21, <1>19, <2>1
  <2>2. CASE i \in 1 .. n /\ k # q
    BY <1>1, <1>8, <1>21, <2>2 DEF IdsOf
  <2>3. CASE i \in 1 .. n /\ k = q
    <3>1. q \in 1 .. m /\ Inside(set[i], c[q])
      BY <1>21, <1>20, <2>3
    <3>2. set[i].ids \subseteq c[q].ids
      BY <1>1, <2>3, <3>1 DEF IdsOf
    <3> QED BY <1>13, <2>3, <3>1, <3>2
  <2> QED BY <1>2, <2>1, <2>2, <2>3
<1>22. IdsOf(r, set, n + 1)
  BY <1>8, <1>18, <1>21 DEF IdsOf
<1>23. ItemsOf(r, set, n + 1)
  <2> SUFFICES ASSUME ItemsAscend(set)
               PROVE  /\ ItemsAscend(r) /\ r[q].item <= set[n + 1].item
                      /\ \A k \in 1 .. q : \A i \in 1 .. n + 1 :
                           Inside(set[i], r[k]) => r[k].item <= set[i].item
    BY <1>8 DEF ItemsOf
  <2>1. m # 0 => c[m].item <= e.item
    <3> SUFFICES ASSUME m # 0 PROVE c[m].item <= e.item
      OBVIOUS
    <3>1. c[m].item <= set[n].item
      BY <1>1, <1>6 DEF ItemsOf
    <3>2. set[n].item <= e.item
      BY <1>2, <1>6 DEF ItemsAscend
    <3>3. set[n].item \in Nat
      BY <1>2, <1>4, <1>6
    <3> QED BY <1>3, <1>5, <1>6, <3>1, <3>2, <3>3
  <2>2. ItemsAscend(c)
    BY <1>1 DEF ItemsOf
  <2>3. r[q].item <= e.item
    BY <1>1, <1>3, <1>8, <1>9, <2>1
  <2>4. ASSUME NEW j \in 1 .. q, NEW k \in 1 .. q, j <= k PROVE r[j].item <= r[k].item
    <3>1. CASE k # q
      <4>1. j # q
        BY <1>8, <2>4, <3>1
      <4> QED BY <1>1, <1>8, <2>2, <2>4, <3>1, <4>1 DEF ItemsAscend
    <3>2. CASE k = q /\ j = q
      BY <1>10, <3>2
    <3>3. CASE k = q /\ j # q
      <4>1. j \in 1 .. m /\ m \in 1 .. m /\ j <= m
        BY <1>1, <1>8, <3>3
      <4>2. r[j].item = c[j].item /\ c[j].item <= c[m].item
        BY <1>1, <1>8, <2>2, <3>3, <4>1 DEF ItemsAscend
      <4>3. c[m].item <= r[q].item
        BY <1>3, <1>5, <1>9, <2>1, <4>1
      <4> QED BY <1>5, <1>10, <3>3, <4>1, <4>2, <4>3
    <3> QED BY <3>1, <3>2, <3>3
  <2>5. ASSUME NEW k \in 1 .. q, NEW i \in 1 .. n + 1, Inside(set[i], r[k])
        PROVE  r[k].item <= set[i].item
    <3>1. \A l \in 1 .. m : \A h \in 1 .. n : Inside(set[h], c[l]) => c[l].item <= set[h].item
      BY <1>1 DEF ItemsOf
    <3>2. CASE i = n + 1
      <4>1. k = q
        BY <1>19, <2>5, <3>2
      <4> QED BY <2>3, <3>2, <4>1
    <3>3. CASE i \in 1 .. n /\ k # q
      BY <1>8, <2>5, <3>1, <3>3
    <3>4. CASE i \in 1 .. n /\ k = q
      <4>1. q \in 1 .. m /\ Inside(set[i], c[q])
        BY <1>20, <2>5, <3>4
      <4>2. m = q /\ r[q].item = c[q].item
        BY <1>1, <1>9, <4>1
      <4> QED BY <3>1, <3>4, <4>1, <4>2
    <3> QED BY <1>2, <3>2, <3>3, <3>4
  <2> QED BY <1>8, <2>3, <2>4, <2>5 DEF ItemsAscend
<1> QED BY <1>7, <1>8, <1>11, <1>12, <1>14, <1>17, <1>22, <1>23 DEF Coalesced

\* The elements count the readings in their ranges, of those of the first n elements.
CountsOf(c, X, pos, own, n) ==
  \A k \in DOMAIN c :
    c[k].count = Cardinality({x \in X : own[x] <= n /\ Within(pos[x], c[k])})

LEMMA DisjointCardinality ==
  ASSUME NEW S, NEW T, IsFiniteSet(S), IsFiniteSet(T), S \cap T = {}
  PROVE  /\ IsFiniteSet(S \cup T)
         /\ Cardinality(S \cup T) = Cardinality(S) + Cardinality(T)
<1>1. Cardinality(S) \in Nat /\ Cardinality(T) \in Nat /\ Cardinality(S \cap T) = 0
  BY FS_CardinalityType, FS_EmptySet
<1>2. /\ IsFiniteSet(S \cup T)
      /\ Cardinality(S \cup T) = Cardinality(S) + Cardinality(T) - Cardinality(S \cap T)
  BY FS_Union
<1> QED BY <1>1, <1>2

LEMMA CountsStep ==
  ASSUME NEW set \in Seq(Pieces), NEW n \in Nat, n + 1 <= Len(set), Ranged(set),
         NEW X, IsFiniteSet(X), NEW pos, \A x \in X : pos[x] \in Int,
         NEW own, Grouped(set, X, pos, own),
         NEW c, Coalesced(c, set, n), CountsOf(c, X, pos, own, n),
         NEW m, m = Len(c), NEW e, e = set[n + 1],
         NEW r, NEW q \in 1 .. n + 1, Grows(c, m, e, r, q)
  PROVE  CountsOf(r, X, pos, own, n + 1)
<1> DEFINE Fiber == {x \in X : own[x] = n + 1}
           Before(k) == {x \in X : own[x] <= n /\ Within(pos[x], c[k])}
           After(k) == {x \in X : own[x] <= n + 1 /\ Within(pos[x], r[k])}
<1>1. /\ c \in Seq(Pieces) /\ m \in Nat /\ DOMAIN c = 1 .. m /\ CoverOf(c, set, n) /\ Spread(c)
      /\ DOMAIN set = 1 .. Len(set) /\ n + 1 \in DOMAIN set
  BY DEF Coalesced
<1>2. /\ r \in Seq(Pieces) /\ DOMAIN r = 1 .. q /\ q \in 1 .. q
      /\ r[q].high = e.high /\ r[q].low <= e.low
      /\ \A k \in 1 .. q : k # q => /\ k \in 1 .. m /\ r[k] = c[k]
                                    /\ r[k].high < e.low /\ r[k].high < r[q].low
      /\ \/ /\ m = q /\ e.low <= c[q].high /\ c[q].high <= e.high
            /\ r[q].low = c[q].low /\ r[q].count = c[q].count + e.count
         \/ m = q - 1 /\ r[q] = e
  BY DEF Grows
<1>3. /\ e.low \in Int /\ e.high \in Int /\ e.low <= e.high /\ e.count \in Nat
      /\ e.count = Cardinality(Fiber)
  BY <1>1, PieceFields DEF Grouped, Ranged
<1>4. \A k \in 1 .. m : c[k].low \in Int /\ c[k].high \in Int /\ c[k].low <= c[k].high
  BY <1>1, PieceFields DEF Spread, Ranged
<1>5. \A x \in X : own[x] \in Nat /\ own[x] \in 1 .. Len(set) /\ Within(pos[x], set[own[x]])
  BY <1>1 DEF Grouped
<1>6. r[q].low \in Int /\ r[q].high \in Int
  BY <1>2, PieceFields
<1>7. ASSUME NEW x \in X, own[x] = n + 1 PROVE Within(pos[x], e) /\ Within(pos[x], r[q])
  BY <1>2, <1>3, <1>5, <1>6, <1>7 DEF Within
<1>8. ASSUME NEW x \in X, own[x] <= n PROVE \E l \in 1 .. m : Within(pos[x], c[l])
  <2>1. own[x] \in 1 .. n /\ own[x] \in DOMAIN set
    BY <1>1, <1>5, <1>8
  <2>2. PICK l \in 1 .. m : Inside(set[own[x]], c[l])
    BY <1>1, <2>1 DEF CoverOf
  <2>3. set[own[x]].low \in Int /\ set[own[x]].high \in Int
    BY <2>1, PieceFields
  <2>4. Within(pos[x], c[l])
    BY <1>4, <1>5, <2>2, <2>3, SMTT(30) DEF Within, Inside
  <2> QED BY <2>4
\* A reading that lay in an element before and lies in the last one lay in that one.
<1>9. ASSUME NEW x \in X, own[x] <= n, Within(pos[x], r[q])
      PROVE  m = q /\ Within(pos[x], c[q])
  <2>1. PICK l \in 1 .. m : Within(pos[x], c[l])
    BY <1>8, <1>9
  <2>2. l \in 1 .. q
    BY <1>1, <1>2, <2>1
  <2>3. CASE l # q
    <3>1. r[l] = c[l] /\ r[l].high < r[q].low
      BY <1>2, <2>2, <2>3
    <3>2. pos[x] <= c[l].high /\ r[q].low <= pos[x]
      BY <1>9, <2>1 DEF Within
    <3> QED BY <1>4, <1>6, <3>1, <3>2
  <2>4. CASE l = q
    BY <1>1, <1>2, <2>1, <2>4
  <2> QED BY <2>3, <2>4
<1>10. \A k \in 1 .. m : IsFiniteSet(Before(k)) /\ c[k].count = Cardinality(Before(k))
  <2> SUFFICES ASSUME NEW k \in 1 .. m
               PROVE  IsFiniteSet(Before(k)) /\ c[k].count = Cardinality(Before(k))
    OBVIOUS
  <2>1. Before(k) \in SUBSET X
    OBVIOUS
  <2> QED BY <1>1, <2>1, FS_Subset DEF CountsOf
<1>11. IsFiniteSet(Fiber)
  <2>1. Fiber \in SUBSET X
    OBVIOUS
  <2> QED BY <2>1, FS_Subset
<1>12. ASSUME NEW k \in 1 .. q, k # q PROVE r[k].count = Cardinality(After(k))
  <2>1. k \in 1 .. m /\ r[k] = c[k] /\ r[k].high < e.low
    BY <1>2, <1>12
  <2>2. ASSUME NEW x \in X, own[x] = n + 1 PROVE ~Within(pos[x], r[k])
    BY <1>3, <1>4, <1>7, <2>1, <2>2 DEF Within
  <2>3. \A x \in X : own[x] <= n + 1 <=> own[x] <= n \/ own[x] = n + 1
    BY <1>5
  <2>4. After(k) = Before(k)
    BY <2>1, <2>2, <2>3
  <2> HIDE DEF After, Before
  <2> QED BY <1>10, <2>1, <2>4
<1>13. r[q].count = Cardinality(After(q))
  <2>1. \A x \in X : own[x] <= n + 1 <=> own[x] <= n \/ own[x] = n + 1
    BY <1>5
  <2>2. CASE m = q - 1 /\ r[q] = e
    <3>1. \A x \in X : own[x] <= n => ~Within(pos[x], r[q])
      BY <1>1, <1>9, <2>2
    <3>2. After(q) = Fiber
      BY <1>7, <2>1, <3>1
    <3> HIDE DEF After, Fiber
    <3> QED BY <1>3, <2>2, <3>2
  <2>3. CASE m = q /\ r[q].count = c[q].count + e.count
    <3>1. \A x \in X : own[x] <= n /\ Within(pos[x], c[q]) => Within(pos[x], r[q])
      <4>1. c[q].high <= r[q].high /\ r[q].low <= c[q].low
        BY <1>1, <1>2, <1>4, <2>3
      <4> QED BY <1>4, <1>6, <2>3, <4>1 DEF Within
    <3>2. After(q) = Before(q) \cup Fiber
      BY <1>7, <1>9, <2>1, <3>1
    <3>3. Before(q) \cap Fiber = {}
      BY <1>5
    <3>4. IsFiniteSet(Before(q)) /\ c[q].count = Cardinality(Before(q))
      BY <1>2, <1>10, <2>3
    <3> HIDE DEF After, Before, Fiber
    <3> QED BY <1>3, <1>11, <2>3, <3>2, <3>3, <3>4, DisjointCardinality, ZenonT(60)
  <2> QED BY <1>1, <1>2, <2>2, <2>3
<1> HIDE DEF After
<1>14. \A k \in 1 .. q : r[k].count = Cardinality(After(k))
  BY <1>12, <1>13
<1> QED BY <1>2, <1>14 DEF CountsOf, After

LEMMA CoalescedStart ==
  ASSUME NEW set
  PROVE  /\ Coalesced(<<>>, set, 0)
         /\ \A X, pos, own : CountsOf(<<>>, X, pos, own, 0)
<1>1. <<>> \in Seq(Pieces) /\ Len(<<>>) = 0 /\ DOMAIN <<>> = {}
  OBVIOUS
<1>2. Spread(<<>>) /\ EndsOf(<<>>, set, 0) /\ IdsOf(<<>>, set, 0)
  BY <1>1 DEF Spread, Ranged, EndsOf, IdsOf
<1>3. LastOf(<<>>, set, 0)
  BY DEF LastOf
<1>4. CoverOf(<<>>, set, 0)
  BY <1>1 DEF CoverOf
<1>5. ItemsOf(<<>>, set, 0)
  BY <1>1 DEF ItemsOf, ItemsAscend
<1>6. Coalesced(<<>>, set, 0)
  BY <1>1, <1>2, <1>3, <1>4, <1>5 DEF Coalesced
<1> QED BY <1>1, <1>6 DEF CountsOf

\* What CoalesceSet() returns, and what its elements count.
LEMMA CoalesceIs ==
  ASSUME NEW set \in Seq(Pieces), Ordered(set)
  PROVE  Coalesced(CoalesceSet(set), set, Len(set))
<1> DEFINE N == Len(set)
<1>1. N \in Nat
  OBVIOUS
<1>2. PICK f : /\ f[0] = <<>>
               /\ \A n \in 1 .. N : f[n] = AddCoalescing(f[n - 1], set[n])
               /\ CoalesceSet(set) = f[N]
  BY <1>1, CoalesceSteps
<1> DEFINE P == {n \in Nat : n <= N => Coalesced(f[n], set, n)}
<1>3. 0 \in P
  BY <1>2, CoalescedStart
<1>4. ASSUME NEW n \in Nat, n \in P PROVE n + 1 \in P
  <2> SUFFICES ASSUME n + 1 <= N PROVE Coalesced(f[n + 1], set, n + 1)
    OBVIOUS
  <2>1. Coalesced(f[n], set, n)
    BY <1>1, <1>4
  <2>2. n + 1 \in 1 .. N /\ (n + 1) - 1 = n
    BY <1>1
  <2>3. f[n + 1] = AddCoalescing(f[n], set[n + 1])
    BY <1>2, <2>2
  <2> QED BY <2>1, <2>3, CoalescedStep
<1>5. N \in P
  <2> HIDE DEF P
  <2> QED BY <1>1, <1>3, <1>4, AllNaturals
<1> QED BY <1>2, <1>5

LEMMA CoalesceCounts ==
  ASSUME NEW set \in Seq(Pieces), Ordered(set),
         NEW X, IsFiniteSet(X), NEW pos, \A x \in X : pos[x] \in Int,
         NEW own, Grouped(set, X, pos, own)
  PROVE  CountsOf(CoalesceSet(set), X, pos, own, Len(set))
<1> DEFINE N == Len(set)
<1>1. N \in Nat
  OBVIOUS
<1>2. PICK f : /\ f[0] = <<>>
               /\ \A n \in 1 .. N : f[n] = AddCoalescing(f[n - 1], set[n])
               /\ CoalesceSet(set) = f[N]
  BY <1>1, CoalesceSteps
<1> DEFINE P == {n \in Nat : n <= N => Coalesced(f[n], set, n) /\ CountsOf(f[n], X, pos, own, n)}
<1>3. 0 \in P
  BY <1>2, CoalescedStart
<1>4. ASSUME NEW n \in Nat, n \in P PROVE n + 1 \in P
  <2> SUFFICES ASSUME n + 1 <= N
               PROVE  Coalesced(f[n + 1], set, n + 1) /\ CountsOf(f[n + 1], X, pos, own, n + 1)
    OBVIOUS
  <2>1. Coalesced(f[n], set, n) /\ CountsOf(f[n], X, pos, own, n)
    BY <1>1, <1>4
  <2>2. n + 1 \in 1 .. N /\ (n + 1) - 1 = n
    BY <1>1
  <2>3. f[n + 1] = AddCoalescing(f[n], set[n + 1])
    BY <1>2, <2>2
  <2>4. PICK q \in 1 .. n + 1 : /\ Grows(f[n], Len(f[n]), set[n + 1], f[n + 1], q)
                                /\ Coalesced(f[n + 1], set, n + 1)
    BY <2>1, <2>3, CoalescedStep
  <2>5. Ranged(set)
    BY DEF Ordered
  <2>6. CountsOf(f[n + 1], X, pos, own, n + 1)
    BY <2>1, <2>4, <2>5, CountsStep
  <2> QED BY <2>4, <2>6
<1>5. N \in P
  <2> HIDE DEF P
  <2> QED BY <1>1, <1>3, <1>4, AllNaturals
<1> QED BY <1>2, <1>5

\* If every element of a set has identifiers by right and a reading in its range,
\* and every reading is counted once, then coalescing makes the counts exact.
LEMMA CoalesceExact ==
  ASSUME NEW set \in Seq(Pieces), Ordered(set), set # <<>>,
         NEW X, IsFiniteSet(X), NEW pos, \A x \in X : pos[x] \in Int /\ x[1] \in Nat,
         NEW own, Grouped(set, X, pos, own), Evident(set, X, pos),
         \A i \in DOMAIN set : InElement(X, pos, set[i]) # {}
  PROVE  Exact(CoalesceSet(set), X, pos) /\ Settled(CoalesceSet(set))
<1> DEFINE N == Len(set)
           c == CoalesceSet(set)
<1>1. /\ N \in Nat /\ N > 0 /\ DOMAIN set = 1 .. N
  OBVIOUS
<1>2. /\ c \in Seq(Pieces) /\ Spread(c) /\ LastOf(c, set, N) /\ EndsOf(c, set, N)
      /\ CoverOf(c, set, N) /\ IdsOf(c, set, N)
  BY CoalesceIs DEF Coalesced
<1>3. CountsOf(c, X, pos, own, N)
  BY CoalesceCounts
<1> HIDE DEF c
<1>4. c # <<>>
  BY <1>1, <1>2 DEF LastOf
<1>5. \A i \in 1 .. N : set[i].low \in Int /\ set[i].high \in Int
  BY <1>1, PieceFields
<1>6. \A k \in DOMAIN c : c[k].low \in Int /\ c[k].high \in Int /\ c[k].count \in Nat
  BY <1>2, PieceFields
<1>7. ASSUME NEW i \in 1 .. N, NEW k \in DOMAIN c, Inside(set[i], c[k]),
             NEW x \in X, Within(pos[x], set[i])
      PROVE  Within(pos[x], c[k])
  BY <1>5, <1>6, <1>7 DEF Inside, Within
<1>8. \A x \in X : /\ own[x] \in 1 .. N /\ Within(pos[x], set[own[x]])
                   /\ x[1] \in set[own[x]].ids
  BY <1>1 DEF Grouped
<1>9. \A x \in X : \E k \in DOMAIN c : Inside(set[own[x]], c[k]) /\ Within(pos[x], c[k])
  <2> SUFFICES ASSUME NEW x \in X
               PROVE  \E k \in DOMAIN c : Inside(set[own[x]], c[k]) /\ Within(pos[x], c[k])
    OBVIOUS
  <2>1. PICK k \in DOMAIN c : Inside(set[own[x]], c[k])
    BY <1>2, <1>8 DEF CoverOf
  <2> QED BY <1>7, <1>8, <2>1
<1>10. \A k \in DOMAIN c : c[k].count = Cardinality(InElement(X, pos, c[k]))
  <2> SUFFICES ASSUME NEW k \in DOMAIN c
               PROVE  c[k].count = Cardinality(InElement(X, pos, c[k]))
    OBVIOUS
  <2>1. \A x \in X : own[x] <= N
    BY <1>1, <1>8
  <2>2. {x \in X : own[x] <= N /\ Within(pos[x], c[k])} = InElement(X, pos, c[k])
    BY <2>1 DEF InElement
  <2> QED BY <1>3, <2>2 DEF CountsOf
<1>11. \A k \in DOMAIN c : InElement(X, pos, c[k]) # {}
  <2> SUFFICES ASSUME NEW k \in DOMAIN c PROVE \E x \in X : Within(pos[x], c[k])
    BY DEF InElement
  <2>1. PICK i \in 1 .. N : c[k].low = set[i].low
    BY <1>2 DEF EndsOf
  <2>2. PICK l \in DOMAIN c : Inside(set[i], c[l])
    BY <1>2 DEF CoverOf
  <2>3. l = k
    <3>1. c[l].low <= c[k].low /\ c[k].low <= c[l].high /\ set[i].low <= set[i].high
      BY <1>1, <1>5, <1>6, <2>1, <2>2 DEF Inside, Ordered, Ranged
    <3>2. l < k \/ k < l \/ l = k
      BY <1>2
    <3>3. c[k].low <= c[k].high /\ c[l].low <= c[l].high
      BY <1>2 DEF Spread, Ranged
    <3> QED BY <1>2, <1>6, <3>1, <3>2, <3>3 DEF Spread
  <2>4. PICK x \in X : Within(pos[x], set[i])
    BY <1>1 DEF InElement
  <2> QED BY <1>7, <2>2, <2>3, <2>4
<1>12. \A k \in DOMAIN c : c[k].count > 0
  <2> SUFFICES ASSUME NEW k \in DOMAIN c PROVE c[k].count > 0
    OBVIOUS
  <2>1. InElement(X, pos, c[k]) \in SUBSET X
    BY DEF InElement
  <2>2. IsFiniteSet(InElement(X, pos, c[k]))
    BY <2>1, FS_Subset
  <2>3. Cardinality(InElement(X, pos, c[k])) # 0
    BY <1>11, <2>2, FS_EmptySet
  <2> QED BY <1>6, <1>10, <2>3
<1>13. ASSUME NEW k \in DOMAIN c
       PROVE  c[k].ids \ {Unknown} = {x[1] : x \in InElement(X, pos, c[k])}
  <2>1. ASSUME NEW id \in c[k].ids \ {Unknown}
        PROVE  \E x \in InElement(X, pos, c[k]) : x[1] = id
    <3>1. PICK i \in 1 .. N : id \in set[i].ids /\ Inside(set[i], c[k])
      BY <1>2 DEF IdsOf
    <3>2. PICK x \in X : x[1] = id /\ Within(pos[x], set[i])
      BY <1>1, <2>1, <3>1 DEF Evident
    <3> QED BY <1>7, <3>1, <3>2 DEF InElement
  <2>2. ASSUME NEW x \in InElement(X, pos, c[k])
        PROVE  x[1] \in c[k].ids \ {Unknown}
    <3>1. x \in X /\ Within(pos[x], c[k])
      BY DEF InElement
    <3>2. PICK l \in DOMAIN c : Inside(set[own[x]], c[l]) /\ Within(pos[x], c[l])
      BY <1>9, <3>1
    <3>3. l = k
      <4>1. l < k \/ k < l \/ l = k
        BY <1>2
      <4> QED BY <1>2, <1>6, <3>1, <3>2, <4>1 DEF Spread, Within
    <3>4. x[1] \in c[k].ids
      BY <1>2, <1>8, <3>1, <3>2, <3>3 DEF IdsOf
    <3> QED BY <3>1, <3>4, FilterAssumption
  <2> QED BY <2>1, <2>2
<1>14. Settled(c)
  BY <1>12 DEF Settled
<1>15. \A k \in DOMAIN c : Whole(c[k]) = c[k].count
  BY <1>12 DEF Whole
<1>16. \A x \in X : \E k \in DOMAIN c : Within(pos[x], c[k])
  BY <1>9
<1>17. Exact(c, X, pos)
  BY <1>2, <1>4, <1>10, <1>11, <1>13, <1>15, <1>16 DEF Exact
<1> QED BY <1>14, <1>17 DEF c

-----------------------------------------------------------------------------
(* Clusters: a list of ranges that are apart consists of the clusters of all
   ranges that cover the same *)

LEMMA LowestIs ==
  ASSUME NEW S \in SUBSET Int, NEW x \in S, \A y \in S : x <= y
  PROVE  C!Lowest(S) = x
<1>1. C!Lowest(S) = CHOOSE z \in S : \A y \in S : z <= y
  BY Zenon DEF C!Lowest
<1>2. \E z \in S : \A y \in S : z <= y
  OBVIOUS
<1>3. C!Lowest(S) \in S /\ \A y \in S : C!Lowest(S) <= y
  BY <1>1, <1>2, Zenon
<1> DEFINE l == C!Lowest(S)
<1> HIDE DEF l
<1>4. l \in S /\ \A y \in S : l <= y
  BY <1>3 DEF l
<1>5. l = x
  BY <1>4
<1> QED BY <1>5 DEF l

LEMMA ClustersAre ==
  ASSUME NEW Rs, \A r \in Rs : r.low \in Int /\ r.high \in Int /\ r.low <= r.high,
         NEW list \in Seq(Pieces), Spread(list),
         \A p \in Int : (\E k \in DOMAIN list : Spans(p, list[k])) <=> \E r \in Rs : Spans(p, r)
  PROVE  C!ClustersOf(Rs) = Extents(list)
<1> DEFINE K == DOMAIN list
<1>1. \A k \in K : list[k].low \in Int /\ list[k].high \in Int /\ list[k].low <= list[k].high
  BY PieceFields DEF Spread, Ranged
<1>2. K \subseteq Int /\ \A j, k \in K : j < k => list[j].high < list[k].low
  BY DEF Spread
\* Elements do not touch.
<1>3. ASSUME NEW j \in K, NEW k \in K
      PROVE  j = k \/ list[j].high < list[k].low \/ list[k].high < list[j].low
  BY <1>2
<1>4. \A p \in Int : (\E k \in K : Spans(p, list[k])) <=> \E r \in Rs : Spans(p, r)
  OBVIOUS
<1> HIDE DEF K
\* No range that begins before an element reaches it, none goes beyond its end.
<1>5. ASSUME NEW k \in K, NEW r \in Rs, r.low < list[k].low PROVE r.high < list[k].low
  <2> SUFFICES ASSUME ~(r.high < list[k].low) PROVE FALSE
    OBVIOUS
  <2> DEFINE p == 2 * list[k].low - 1
  <2>1. p \in Int /\ Spans(p, r)
    BY <1>1, <1>5 DEF Spans
  <2>2. PICK j \in K : Spans(p, list[j])
    BY <1>4, <2>1
  <2>3. 2 * list[j].low <= p /\ p <= 2 * list[j].high
    BY <2>2 DEF Spans
  <2>4. list[j].low < list[k].low /\ ~(list[j].high < list[k].low)
    <3>1. /\ list[j].low \in Int /\ list[j].high \in Int /\ list[k].low \in Int
          /\ p = 2 * list[k].low - 1
      BY <1>1
    <3> HIDE DEF p
    <3> QED BY <2>3, <3>1, SMTT(30)
  <2> QED BY <1>1, <1>3, <2>4
<1>6. ASSUME NEW k \in K, NEW r \in Rs, r.high > list[k].high PROVE r.low > list[k].high
  <2> SUFFICES ASSUME ~(r.low > list[k].high) PROVE FALSE
    OBVIOUS
  <2> DEFINE p == 2 * list[k].high + 1
  <2>1. p \in Int /\ Spans(p, r)
    BY <1>1, <1>6 DEF Spans
  <2>2. PICK j \in K : Spans(p, list[j])
    BY <1>4, <2>1
  <2>3. 2 * list[j].low <= p /\ p <= 2 * list[j].high
    BY <2>2 DEF Spans
  <2>4. list[j].high > list[k].high /\ ~(list[k].high < list[j].low)
    <3>1. /\ list[j].low \in Int /\ list[j].high \in Int /\ list[k].high \in Int
          /\ p = 2 * list[k].high + 1
      BY <1>1
    <3> HIDE DEF p
    <3> QED BY <2>3, <3>1, SMTT(30)
  <2> QED BY <1>1, <1>3, <2>4
<1>7. ASSUME NEW k \in K PROVE \E r \in Rs : r.low = list[k].low
  <2>1. 2 * list[k].low \in Int /\ Spans(2 * list[k].low, list[k])
    BY <1>1 DEF Spans
  <2>2. PICK r \in Rs : Spans(2 * list[k].low, r)
    BY <1>4, <2>1
  <2>3. r.low <= list[k].low /\ list[k].low <= r.high
    BY <1>1, <2>2 DEF Spans
  <2> QED BY <1>1, <1>5, <2>3
<1>8. ASSUME NEW k \in K PROVE \E r \in Rs : r.high = list[k].high
  <2>1. 2 * list[k].high \in Int /\ Spans(2 * list[k].high, list[k])
    BY <1>1 DEF Spans
  <2>2. PICK r \in Rs : Spans(2 * list[k].high, r)
    BY <1>4, <2>1
  <2>3. r.low <= list[k].high /\ list[k].high <= r.high
    BY <1>1, <2>2 DEF Spans
  <2> QED BY <1>1, <1>6, <2>3
<1>9. \A k \in K : list[k].low \in C!Begins(Rs)
  BY <1>5, <1>7 DEF C!Begins
<1>10. \A k \in K : list[k].high \in C!Ends(Rs)
  BY <1>6, <1>8 DEF C!Ends
\* Where a cluster begins, an element does.
<1>11. ASSUME NEW l \in C!Begins(Rs) PROVE \E k \in K : l = list[k].low
  <2>1. PICK r \in Rs : l = r.low /\ \A q \in Rs : q.low < r.low => q.high < r.low
    BY DEF C!Begins
  <2>2. r.low \in Int /\ r.high \in Int /\ r.low <= r.high
    OBVIOUS
  <2>3. 2 * r.low \in Int /\ Spans(2 * r.low, r)
    BY <2>2 DEF Spans
  <2>4. PICK k \in K : Spans(2 * r.low, list[k])
    BY <1>4, <2>3
  <2>5. list[k].low <= r.low /\ r.low <= list[k].high
    BY <1>1, <2>2, <2>4 DEF Spans
  <2>6. ASSUME list[k].low < r.low PROVE FALSE
    <3> DEFINE p == 2 * r.low - 1
    <3>1. p \in Int /\ Spans(p, list[k])
      BY <1>1, <2>2, <2>5, <2>6 DEF Spans
    <3>2. PICK q \in Rs : Spans(p, q)
      BY <1>4, <3>1
    <3>3. q.low \in Int /\ q.high \in Int
      OBVIOUS
    <3>4. q.low < r.low /\ ~(q.high < r.low)
      BY <2>2, <3>2, <3>3 DEF Spans
    <3> QED BY <2>1, <3>4
  <2> QED BY <1>1, <2>1, <2>2, <2>5, <2>6
<1>12. ASSUME NEW k \in K
       PROVE  C!Lowest({h \in C!Ends(Rs) : h >= list[k].low}) = list[k].high
  <2> DEFINE S == {h \in C!Ends(Rs) : h >= list[k].low}
  <2>1. S \in SUBSET Int
    BY DEF C!Ends
  <2>2. list[k].high \in S
    BY <1>1, <1>10
  <2>3. ASSUME NEW h \in S PROVE list[k].high <= h
    <3> SUFFICES ASSUME h < list[k].high PROVE FALSE
      BY <1>1, <2>1
    <3>1. h \in Int /\ h >= list[k].low
      BY <2>1
    <3>2. PICK r \in Rs : h = r.high /\ \A q \in Rs : q.high > r.high => q.low > r.high
      BY DEF C!Ends
    <3> DEFINE p == 2 * h + 1
    <3>3. p \in Int /\ Spans(p, list[k])
      BY <1>1, <3>1 DEF Spans
    <3>4. PICK q \in Rs : Spans(p, q)
      BY <1>4, <3>3
    <3>5. q.low \in Int /\ q.high \in Int
      OBVIOUS
    <3>6. q.high > h /\ ~(q.low > h)
      BY <3>1, <3>4, <3>5 DEF Spans
    <3> QED BY <3>2, <3>6
  <2> HIDE DEF S
  <2>4. C!Lowest(S) = list[k].high
    BY <2>1, <2>2, <2>3, LowestIs
  <2> QED BY <2>4 DEF S
<1>13. C!ClustersOf(Rs)
         = {[low |-> l, high |-> C!Lowest({h \in C!Ends(Rs) : h >= l})] : l \in C!Begins(Rs)}
  BY DEF C!ClustersOf
<1>14. ASSUME NEW d \in C!ClustersOf(Rs) PROVE d \in Extents(list)
  <2>1. PICK l \in C!Begins(Rs) : d = [low |-> l, high |-> C!Lowest({h \in C!Ends(Rs) : h >= l})]
    BY <1>13
  <2>2. PICK k \in K : l = list[k].low
    BY <1>11
  <2>3. d = [low |-> list[k].low, high |-> list[k].high]
    BY <1>12, <2>1, <2>2
  <2> QED BY <2>3 DEF Extents, K
<1>15. ASSUME NEW d \in Extents(list) PROVE d \in C!ClustersOf(Rs)
  <2>1. PICK k \in K : d = [low |-> list[k].low, high |-> list[k].high]
    BY DEF Extents, K
  <2>2. d = [low |-> list[k].low, high |-> C!Lowest({h \in C!Ends(Rs) : h >= list[k].low})]
    BY <1>12, <2>1
  <2> QED BY <1>9, <1>13, <2>2
<1> QED BY <1>14, <1>15

\* The elements of a coalesced set are the ranges that grew together.
LEMMA CoalesceJoins ==
  ASSUME NEW set \in Seq(Pieces), Ordered(set), ItemsAscend(set)
  PROVE  Shapes(CoalesceSet(set)) = C!Joined(Shapes(set))
<1> DEFINE c == CoalesceSet(set)
           N == Len(set)
           Rs == Shapes(set)
           Under(d) == {r \in Rs : d.low <= r.low /\ r.high <= d.high}
<1>1. /\ c \in Seq(Pieces) /\ Spread(c) /\ EndsOf(c, set, N) /\ CoverOf(c, set, N)
      /\ ItemsOf(c, set, N)
  BY CoalesceIs DEF Coalesced
<1>2. N \in Nat /\ DOMAIN set = 1 .. N
  OBVIOUS
<1>3. \A i \in 1 .. N : /\ set[i].low \in Int /\ set[i].high \in Int /\ set[i].item \in Nat
                       /\ set[i].low <= set[i].high
  BY <1>2, PieceFields DEF Ordered, Ranged
<1> HIDE DEF c, N
<1>4. \A k \in DOMAIN c : c[k].low \in Int /\ c[k].high \in Int
  BY <1>1, PieceFields
<1>5. \A r \in Rs : \E i \in 1 .. N : /\ r.low = set[i].low /\ r.high = set[i].high
                                    /\ r.step = set[i].item
  BY <1>2 DEF Shapes
<1>6. ASSUME NEW i \in 1 .. N
      PROVE  \E r \in Rs : r.low = set[i].low /\ r.high = set[i].high /\ r.step = set[i].item
  <2> DEFINE r == [low |-> set[i].low, high |-> set[i].high, step |-> set[i].item]
  <2>1. r \in Rs
    BY <1>2 DEF Shapes
  <2>2. r.low = set[i].low /\ r.high = set[i].high /\ r.step = set[i].item
    OBVIOUS
  <2> HIDE DEF r
  <2> QED BY <2>1, <2>2
<1> HIDE DEF Rs
<1>7. \A r \in Rs : r.low \in Int /\ r.high \in Int /\ r.low <= r.high
  BY <1>3, <1>5
<1>8. ASSUME NEW p \in Int
      PROVE  (\E k \in DOMAIN c : Spans(p, c[k])) <=> \E r \in Rs : Spans(p, r)
  <2>1. ASSUME NEW k \in DOMAIN c, Spans(p, c[k]) PROVE \E r \in Rs : Spans(p, r)
    <3>1. PICK i \in 1 .. N : Spans(p, set[i])
      BY <1>1, <2>1 DEF CoverOf
    <3> QED BY <1>6, <3>1 DEF Spans
  <2>2. ASSUME NEW r \in Rs, Spans(p, r) PROVE \E k \in DOMAIN c : Spans(p, c[k])
    <3>1. PICK i \in 1 .. N : r.low = set[i].low /\ r.high = set[i].high
      BY <1>5
    <3>2. PICK k \in DOMAIN c : Inside(set[i], c[k])
      BY <1>1 DEF CoverOf
    <3>3. /\ c[k].low <= r.low /\ r.high <= c[k].high
          /\ 2 * r.low <= p /\ p <= 2 * r.high
      BY <2>2, <3>1, <3>2 DEF Inside, Spans
    <3>4. 2 * c[k].low <= p /\ p <= 2 * c[k].high
      BY <1>4, <1>7, <3>3
    <3> QED BY <3>4 DEF Spans
  <2> QED BY <2>1, <2>2
<1>9. C!ClustersOf(Rs) = Extents(c)
  BY <1>1, <1>7, <1>8, ClustersAre
\* Each widens by the step of its least one.
<1>10. ASSUME NEW k \in DOMAIN c
       PROVE  C!Lowest({r.step : r \in Under(c[k])}) = c[k].item
  <2> DEFINE S == {r.step : r \in Under(c[k])}
  <2>1. PICK i \in 1 .. N, j \in 1 .. N :
          /\ i <= j /\ c[k].high = set[j].high
          /\ c[k].low = set[i].low /\ c[k].item = set[i].item
    BY <1>1 DEF EndsOf
  <2>2. set[i].high <= set[j].high
    BY <1>2, <2>1 DEF Ordered
  <2>3. PICK r \in Rs : r.low = set[i].low /\ r.high = set[i].high /\ r.step = set[i].item
    BY <1>6
  <2>4. c[k].low <= r.low /\ r.high <= c[k].high
    BY <1>3, <2>1, <2>2, <2>3
  <2>5. c[k].item \in S
    BY <2>1, <2>3, <2>4
  <2>6. S \in SUBSET Int
    BY <1>3, <1>5
  <2>7. ASSUME NEW q \in Rs, c[k].low <= q.low, q.high <= c[k].high PROVE c[k].item <= q.step
    <3>1. PICK l \in 1 .. N : q.low = set[l].low /\ q.high = set[l].high /\ q.step = set[l].item
      BY <1>5
    <3>2. Inside(set[l], c[k])
      BY <2>7, <3>1 DEF Inside
    <3> QED BY <1>1, <3>1, <3>2 DEF ItemsOf
  <2>8. \A x \in S : c[k].item <= x
    BY <2>7
  <2> HIDE DEF S, Under
  <2>9. C!Lowest(S) = c[k].item
    BY <2>5, <2>6, <2>8, LowestIs
  <2> QED BY <2>9 DEF S
<1>11. C!Joined(Rs) = {[low |-> d.low, high |-> d.high, step |-> C!Lowest({r.step : r \in Under(d)})] :
                        d \in C!ClustersOf(Rs)}
  BY DEF C!Joined
<1> HIDE DEF Under
<1>12. \A x : x \in C!Joined(Rs) <=>
                \E k \in DOMAIN c :
                  x = [low |-> c[k].low, high |-> c[k].high, step |-> c[k].item]
  <2>1. ASSUME NEW x \in C!Joined(Rs)
        PROVE  \E k \in DOMAIN c : x = [low |-> c[k].low, high |-> c[k].high, step |-> c[k].item]
    <3>1. PICK d \in Extents(c) :
            x = [low |-> d.low, high |-> d.high, step |-> C!Lowest({r.step : r \in Under(d)})]
      BY <1>9, <1>11
    <3>2. PICK k \in DOMAIN c : d = [low |-> c[k].low, high |-> c[k].high]
      BY DEF Extents
    <3>3. d.low = c[k].low /\ d.high = c[k].high /\ Under(d) = Under(c[k])
      BY <3>2 DEF Under
    <3> QED BY <1>10, <3>1, <3>3
  <2>2. ASSUME NEW k \in DOMAIN c
        PROVE  [low |-> c[k].low, high |-> c[k].high, step |-> c[k].item] \in C!Joined(Rs)
    <3> DEFINE d == [low |-> c[k].low, high |-> c[k].high]
    <3>1. d \in Extents(c)
      BY DEF Extents
    <3>2. d.low = c[k].low /\ d.high = c[k].high /\ Under(d) = Under(c[k])
      BY DEF Under
    <3> HIDE DEF d
    <3> QED BY <1>9, <1>10, <1>11, <3>1, <3>2
  <2> QED BY <2>1, <2>2
<1>13. \A x : x \in Shapes(c) <=>
                \E k \in DOMAIN c :
                  x = [low |-> c[k].low, high |-> c[k].high, step |-> c[k].item]
  BY DEF Shapes
<1>14. Shapes(c) = C!Joined(Rs)
  BY <1>12, <1>13
<1> QED BY <1>14 DEF c, Rs

LEMMA RangesSteps ==
  ASSUME NEW row, NEW N \in Nat
  PROVE  \E f : /\ f[0] = RowPoints(row)
                /\ \A k \in 1 .. N : f[k] = GrownTogether(f[k - 1])
                /\ RangesAt(row, N) = f[N]
<1> DEFINE Value(g, k) == IF k = 0 THEN RowPoints(row)
                          ELSE GrownTogether(g[k - 1])
           P == {n \in Nat : \E g : g = [m \in 0 .. n |-> Value(g, m)]}
<1>1. 0 \in P
  <2> DEFINE g == [m \in 0 .. 0 |-> RowPoints(row)]
  <2>1. g = [m \in 0 .. 0 |-> Value(g, m)]
    OBVIOUS
  <2> QED BY <2>1
<1>2. ASSUME NEW n \in Nat, n \in P PROVE n + 1 \in P
  <2>1. PICK g : g = [m \in 0 .. n |-> Value(g, m)]
    BY <1>2
  <2> DEFINE h == [m \in 0 .. n + 1 |-> IF m = n + 1 THEN Value(g, m) ELSE g[m]]
  <2>2. ASSUME NEW m \in 0 .. n + 1 PROVE h[m] = Value(h, m)
    <3>1. CASE m = n + 1
      <4>1. m # 0 /\ m - 1 \in 0 .. n + 1 /\ m - 1 # n + 1
        BY <3>1
      <4>2. h[m - 1] = g[m - 1]
        BY <4>1
      <4> QED BY <3>1, <4>1, <4>2
    <3>2. CASE m # n + 1 /\ m # 0
      <4>1. m \in 0 .. n /\ m - 1 \in 0 .. n + 1 /\ m - 1 # n + 1
        BY <3>2
      <4>2. h[m] = g[m] /\ h[m - 1] = g[m - 1]
        BY <3>2, <4>1
      <4> QED BY <2>1, <3>2, <4>1, <4>2
    <3>3. CASE m # n + 1 /\ m = 0
      <4>1. h[m] = g[m] /\ m \in 0 .. n
        BY <3>3
      <4> QED BY <2>1, <3>3, <4>1
    <3> QED BY <3>1, <3>2, <3>3
  <2>3. h = [m \in 0 .. n + 1 |-> h[m]]
    OBVIOUS
  <2> HIDE DEF h, Value
  <2>4. h = [m \in 0 .. n + 1 |-> Value(h, m)]
    BY <2>2, <2>3
  <2> QED BY <2>4
<1>3. N \in P
  <2> HIDE DEF P
  <2> QED BY <1>1, <1>2, AllNaturals
<1> DEFINE f == CHOOSE g : g = [m \in 0 .. N |-> Value(g, m)]
<1>4. f = [m \in 0 .. N |-> Value(f, m)]
  BY <1>3
<1>5. RangesAt(row, N) = f[N]
  BY DEF RangesAt
<1> HIDE DEF f
<1>6. f[0] = Value(f, 0) /\ \A k \in 1 .. N : f[k] = Value(f, k)
  BY <1>4
<1> QED BY <1>5, <1>6

LEMMA RangesGrow ==
  ASSUME NEW row
  PROVE  /\ RangesAt(row, 0) = RowPoints(row)
         /\ \A n \in Nat : RangesAt(row, n + 1) = GrownTogether(RangesAt(row, n))
<1>1. RangesAt(row, 0) = RowPoints(row)
  BY RangesSteps
<1>2. ASSUME NEW n \in Nat
      PROVE  RangesAt(row, n + 1) = GrownTogether(RangesAt(row, n))
  <2>1. PICK f : /\ f[0] = RowPoints(row)
                 /\ \A k \in 1 .. n : f[k] = GrownTogether(f[k - 1])
                 /\ RangesAt(row, n) = f[n]
    BY RangesSteps
  <2>2. PICK g : /\ g[0] = RowPoints(row)
                 /\ \A k \in 1 .. n + 1 : g[k] = GrownTogether(g[k - 1])
                 /\ RangesAt(row, n + 1) = g[n + 1]
    <3>1. n + 1 \in Nat
      OBVIOUS
    <3> QED BY <3>1, RangesSteps
  <2> DEFINE P == {k \in Nat : k <= n => g[k] = f[k]}
  <2>3. 0 \in P
    BY <2>1, <2>2
  <2>4. ASSUME NEW k \in Nat, k \in P PROVE k + 1 \in P
    <3> SUFFICES ASSUME k + 1 <= n PROVE g[k + 1] = f[k + 1]
      OBVIOUS
    <3>1. k + 1 \in 1 .. n /\ k + 1 \in 1 .. n + 1 /\ (k + 1) - 1 = k /\ g[k] = f[k]
      BY <2>4
    <3>2. g[k + 1] = GrownTogether(g[k])
      BY <2>2, <3>1
    <3>3. f[k + 1] = GrownTogether(f[k])
      BY <2>1, <3>1
    <3> QED BY <3>1, <3>2, <3>3
  <2>5. n \in P
    <3> HIDE DEF P
    <3> QED BY <2>3, <2>4, AllNaturals
  <2>6. n + 1 \in 1 .. n + 1 /\ (n + 1) - 1 = n /\ g[n] = f[n]
    BY <2>5
  <2>7. g[n + 1] = GrownTogether(g[n])
    BY <2>2, <2>6
  <2> QED BY <2>1, <2>2, <2>6, <2>7
<1> QED BY <1>1, <1>2

LEMMA RangesAre ==
  ASSUME NEW s, NEW n
  PROVE  C!Ranges(s, n) = RangesAt(readings[s], n)
BY DEF C!Ranges, RangesAt, RowPoints, GrownTogether, C!Point, C!Joined, C!Widened

-----------------------------------------------------------------------------
(* Widening *)

LEMMA ProductsGrow ==
  ASSUME NEW a \in Nat, NEW b \in Nat, a <= b, NEW c \in Nat
  PROVE  a * c <= b * c /\ c * a <= c * b /\ a * c \in Nat /\ c * a \in Nat
<1>1. PICK d \in Nat : b = a + d
  <2>1. b - a \in Nat /\ b = a + (b - a)
    OBVIOUS
  <2> QED BY <2>1
<1>2. b * c = a * c + d * c /\ c * b = c * a + c * d
  BY <1>1
<1>3. a * c \in Nat /\ d * c \in Nat /\ c * a \in Nat /\ c * d \in Nat
  OBVIOUS
<1> QED BY <1>2, <1>3

\* The least reading lies in the range, whatever it has grown to.
LEMMA GrownContains ==
  ASSUME NEW X, NEW sz, \A x \in X : sz[x] \in Nat, NEW n \in 0 .. FuzzRounds,
         NEW e, e.low \in Int, e.high \in Int, NEW x, NEW y, Grown(e, x, y, X, sz, n)
  PROVE  Within(sz[x] * FuzzRounds, e) /\ Within(sz[y] * FuzzRounds, e) /\ e.low \in Nat
<1> DEFINE a == sz[x]
           b == sz[y]
           F == FuzzRounds
<1>1. /\ a \in Nat /\ b \in Nat /\ a <= b
      /\ e.low = a * (F - n) /\ b * F + n * a <= e.high
  BY DEF Grown
<1>2. F \in Nat /\ F - n \in Nat /\ n \in Nat /\ F - n <= F
  BY FuzzAssumption
<1> HIDE DEF a, b, F
<1>3. a * (F - n) <= a * F /\ a * (F - n) \in Nat
  BY <1>1, <1>2, ProductsGrow
<1>4. a * F <= b * F /\ a * F \in Nat
  BY <1>1, <1>2, ProductsGrow
<1>5. n * a \in Nat /\ b * F \in Nat
  BY <1>1, <1>2
<1>6. Within(a * F, e) /\ Within(b * F, e) /\ e.low \in Nat
  BY <1>1, <1>3, <1>4, <1>5 DEF Within
<1> QED BY <1>6 DEF a, b, F

\* One more step for a range whose item is its least reading.
LEMMA GrownWidened ==
  ASSUME NEW X, NEW sz, \A x \in X : sz[x] \in Nat, NEW n \in Nat, n < FuzzRounds,
         NEW e, e.high \in Int, NEW x, NEW y, Grown(e, x, y, X, sz, n),
         NEW w, w.low = e.low - sz[x], w.high = e.high + sz[x]
  PROVE  Grown(w, x, y, X, sz, n + 1)
<1> DEFINE a == sz[x]
           b == sz[y]
           F == FuzzRounds
<1>1. /\ x \in X /\ y \in X /\ a \in Nat /\ b \in Nat /\ a <= b
      /\ e.low = a * (F - n) /\ b * F + n * a <= e.high /\ e.high <= b * (F + n)
  BY DEF Grown
<1>2. F \in Nat /\ F - n \in Nat /\ F - (n + 1) \in Nat /\ F - n = (F - (n + 1)) + 1
  BY FuzzAssumption
<1>3. w.low = e.low - a /\ w.high = e.high + a
  OBVIOUS
<1> HIDE DEF a, b, F
<1>4. a * (F - n) = a * (F - (n + 1)) + a /\ a * (F - (n + 1)) \in Int
  BY <1>1, <1>2
<1>5. (n + 1) * a = n * a + a /\ n * a \in Int /\ b * F \in Int
  BY <1>1, <1>2
<1>6. b * (F + (n + 1)) = b * (F + n) + b /\ b * (F + n) \in Int
  BY <1>1, <1>2
<1>7. /\ w.low = a * (F - (n + 1)) /\ b * F + (n + 1) * a <= w.high
      /\ w.high <= b * (F + (n + 1))
  BY <1>1, <1>3, <1>4, <1>5, <1>6
<1> QED BY <1>1, <1>7 DEF Grown, a, b, F

\* The hull of two ranges that have grown.
LEMMA GrownHull ==
  ASSUME NEW X, NEW sz, \A x \in X : sz[x] \in Nat, NEW n \in 0 .. FuzzRounds,
         NEW e, NEW x, NEW y, Grown(e, x, y, X, sz, n), e.high \in Int,
         NEW d, NEW u, NEW v, Grown(d, u, v, X, sz, n), d.high \in Int,
         sz[x] <= sz[u],
         NEW h, h.low = e.low, h.high = d.high
  PROVE  Grown(h, x, v, X, sz, n)
<1>1. /\ x \in X /\ v \in X /\ sz[x] \in Nat /\ sz[u] \in Nat /\ sz[v] \in Nat
      /\ sz[u] <= sz[v] /\ FuzzRounds \in Nat /\ n \in Nat
      /\ e.low = sz[x] * (FuzzRounds - n)
      /\ sz[v] * FuzzRounds + n * sz[u] <= d.high /\ d.high <= sz[v] * (FuzzRounds + n)
  BY FuzzAssumption DEF Grown
<1>2. n * sz[x] <= n * sz[u] /\ n * sz[x] \in Nat /\ n * sz[u] \in Nat
  BY <1>1, ProductsGrow
<1>3. sz[v] * FuzzRounds \in Nat
  BY <1>1
<1>4. sz[v] * FuzzRounds + n * sz[x] <= d.high /\ sz[x] <= sz[v]
  BY <1>1, <1>2, <1>3
<1> QED BY <1>1, <1>4 DEF Grown

Moved(e) == [e EXCEPT !.low = @ - e.item, !.high = @ + e.item]

LEMMA AdjustFuzzIs ==
  ASSUME NEW list
  PROVE  AdjustFuzz(list) = CoalesceSet([k \in DOMAIN list |-> Moved(list[k])])
BY DEF AdjustFuzz, Moved

LEMMA MovedPiece ==
  ASSUME NEW e \in Pieces
  PROVE  /\ Moved(e) \in Pieces /\ Moved(e).low = e.low - e.item
         /\ Moved(e).high = e.high + e.item
         /\ Moved(e).item = e.item /\ Moved(e).count = e.count /\ Moved(e).ids = e.ids
<1>1. e.low - e.item \in Int /\ e.high + e.item \in Int
  BY DEF Pieces
<1> QED BY <1>1 DEF Moved, Pieces

LEMMA ShapeMoved ==
  ASSUME NEW e \in Pieces
  PROVE  [low |-> Moved(e).low, high |-> Moved(e).high, step |-> Moved(e).item]
           = C!Widened([low |-> e.low, high |-> e.high, step |-> e.item])
<1> DEFINE r == [low |-> e.low, high |-> e.high, step |-> e.item]
<1>1. r.low = e.low /\ r.high = e.high /\ r.step = e.item
  OBVIOUS
<1>2. C!Widened(r) = [r EXCEPT !.low = @ - r.step, !.high = @ + r.step]
  BY DEF C!Widened
<1>3. C!Widened(r) = [low |-> r.low - r.step, high |-> r.high + r.step, step |-> r.step]
  BY <1>2
<1>4. Moved(e).low = e.low - e.item /\ Moved(e).high = e.high + e.item /\ Moved(e).item = e.item
  BY MovedPiece
<1> HIDE DEF r
<1>5. [low |-> Moved(e).low, high |-> Moved(e).high, step |-> Moved(e).item] = C!Widened(r)
  BY <1>1, <1>3, <1>4
<1> QED BY <1>5 DEF r

LEMMA ShapesMoved ==
  ASSUME NEW list \in Seq(Pieces), NEW N, DOMAIN list = 1 .. N
  PROVE  Shapes([k \in 1 .. N |-> Moved(list[k])]) = {C!Widened(r) : r \in Shapes(list)}
<1> DEFINE W == [k \in 1 .. N |-> Moved(list[k])]
           Shape(e) == [low |-> e.low, high |-> e.high, step |-> e.item]
<1>1. \A k \in 1 .. N : list[k] \in Pieces
  BY PieceFields
<1>2. \A k \in 1 .. N : W[k] = Moved(list[k])
  OBVIOUS
<1>3. \A k \in 1 .. N : Shape(W[k]) = C!Widened(Shape(list[k]))
  BY <1>1, <1>2, ShapeMoved
<1>4. DOMAIN W = 1 .. N
  OBVIOUS
<1> HIDE DEF W
<1>5. Shapes(W) = {Shape(W[k]) : k \in 1 .. N}
  BY <1>4 DEF Shapes
<1>6. Shapes(list) = {Shape(list[k]) : k \in 1 .. N}
  BY DEF Shapes
<1> HIDE DEF Shape
<1>7. \A x : x \in Shapes(W) <=> x \in {C!Widened(r) : r \in Shapes(list)}
  BY <1>3, <1>5, <1>6
<1> QED BY <1>7 DEF W

\* A round widens a set by one step and leaves its counts exact.
LEMMA AdjustFuzzExact ==
  ASSUME NEW X, IsFiniteSet(X), NEW sz, NEW pos,
         \A x \in X : sz[x] \in Nat /\ pos[x] = sz[x] * FuzzRounds /\ x[1] \in Nat,
         NEW n \in Nat, n < FuzzRounds,
         NEW list \in Seq(Pieces), list # <<>>, Ordered(list), Fuzzed(list, X, sz, n),
         NEW own, Grouped(list, X, pos, own), Evident(list, X, pos)
  PROVE  /\ Exact(AdjustFuzz(list), X, pos) /\ Settled(AdjustFuzz(list))
         /\ Fuzzed(AdjustFuzz(list), X, sz, n + 1)
         /\ Len(AdjustFuzz(list)) <= Len(list)
         /\ Shapes(AdjustFuzz(list)) = GrownTogether(Shapes(list))
<1> DEFINE N == Len(list)
           W == [k \in 1 .. N |-> Moved(list[k])]
           c == AdjustFuzz(list)
<1>1. N \in Nat /\ N > 0 /\ DOMAIN list = 1 .. N
  OBVIOUS
<1>2. \A k \in 1 .. N : /\ W[k] \in Pieces /\ W[k].low = list[k].low - list[k].item
                       /\ W[k].high = list[k].high + list[k].item
                       /\ W[k].item = list[k].item /\ W[k].count = list[k].count
                       /\ W[k].ids = list[k].ids
                       /\ list[k].low \in Int /\ list[k].high \in Int /\ list[k].item \in Nat
  BY <1>1, MovedPiece, PieceFields
<1>3. W \in Seq(Pieces) /\ Len(W) = N /\ DOMAIN W = 1 .. N /\ W # <<>>
  <2>1. W \in [1 .. N -> Pieces]
    BY <1>2
  <2> HIDE DEF W
  <2> QED BY <1>1, <2>1
<1>4. c = CoalesceSet(W)
  BY <1>1, AdjustFuzzIs
<1>19. Shapes(W) = {C!Widened(r) : r \in Shapes(list)}
  BY <1>1, ShapesMoved
<1> HIDE DEF W
<1>5. \A k \in 1 .. N : \E x, y \in X : /\ Grown(list[k], x, y, X, sz, n)
                                       /\ list[k].item = sz[x]
  BY <1>1 DEF Fuzzed
<1>6. \A k \in 1 .. N : \E x, y \in X : /\ Grown(W[k], x, y, X, sz, n + 1)
                                       /\ W[k].item = sz[x]
  <2> SUFFICES ASSUME NEW k \in 1 .. N
               PROVE  \E x, y \in X : Grown(W[k], x, y, X, sz, n + 1) /\ W[k].item = sz[x]
    OBVIOUS
  <2>1. PICK x \in X, y \in X : Grown(list[k], x, y, X, sz, n) /\ list[k].item = sz[x]
    BY <1>5
  <2>2. Grown(W[k], x, y, X, sz, n + 1)
    BY <1>2, <2>1, GrownWidened
  <2> QED BY <1>2, <2>1, <2>2
<1>7. n \in 0 .. FuzzRounds /\ n + 1 \in 0 .. FuzzRounds
      /\ FuzzRounds - (n + 1) \in Nat
  BY FuzzAssumption
<1>8. \A j, k \in 1 .. N : j <= k => W[j].item <= W[k].item
  BY <1>1, <1>2 DEF Fuzzed
<1>9. Ordered(W)
  <2>1. ASSUME NEW k \in 1 .. N PROVE W[k].low <= W[k].high
    BY <1>1, <1>2 DEF Ordered, Ranged
  <2>2. ASSUME NEW j \in 1 .. N, NEW k \in 1 .. N, j <= k
        PROVE  W[j].low <= W[k].low /\ W[j].high <= W[k].high
    <3>1. W[j].low = W[j].item * (FuzzRounds - (n + 1))
          /\ W[k].low = W[k].item * (FuzzRounds - (n + 1))
      BY <1>6 DEF Grown
    <3>2. W[j].item <= W[k].item /\ W[j].item \in Nat /\ W[k].item \in Nat
      BY <1>2, <1>8, <2>2
    <3>3. W[j].low <= W[k].low
      BY <1>7, <3>1, <3>2, ProductsGrow
    <3>4. list[j].high <= list[k].high
      BY <1>1, <2>2 DEF Ordered
    <3> QED BY <1>2, <3>2, <3>3, <3>4
  <2> QED BY <1>3, <2>1, <2>2 DEF Ordered, Ranged
<1>10. Grouped(W, X, pos, own)
  <2>1. own \in [X -> DOMAIN W]
    BY <1>1, <1>3 DEF Grouped
  <2>2. ASSUME NEW x \in X
        PROVE  Within(pos[x], W[own[x]]) /\ x[1] \in W[own[x]].ids
    <3>1. /\ own[x] \in 1 .. N /\ Within(pos[x], list[own[x]]) /\ x[1] \in list[own[x]].ids
      BY <1>1 DEF Grouped
    <3>2. pos[x] \in Int
      BY FuzzAssumption
    <3>3. PICK k \in 1 .. N : k = own[x]
      BY <3>1
    <3>4. list[k].low <= pos[x] /\ pos[x] <= list[k].high
      BY <3>1, <3>3 DEF Within
    <3>5. W[k].low <= pos[x] /\ pos[x] <= W[k].high
      BY <1>2, <3>2, <3>4, SMTT(30)
    <3> QED BY <1>2, <3>1, <3>3, <3>5 DEF Within
  <2>3. \A k \in 1 .. N : W[k].count = Cardinality({x \in X : own[x] = k})
    BY <1>1, <1>2 DEF Grouped
  <2> QED BY <1>3, <2>1, <2>2, <2>3 DEF Grouped
<1>11. Evident(W, X, pos)
  <2> SUFFICES ASSUME NEW k \in 1 .. N, NEW id \in W[k].ids \ {Unknown}
               PROVE  \E x \in X : x[1] = id /\ Within(pos[x], W[k])
    BY <1>3 DEF Evident
  <2>1. PICK x \in X : x[1] = id /\ Within(pos[x], list[k])
    BY <1>1, <1>2 DEF Evident
  <2>2. pos[x] \in Int
    BY FuzzAssumption
  <2> QED BY <1>2, <2>1, <2>2 DEF Within
<1>12. \A k \in 1 .. N : InElement(X, pos, W[k]) # {}
  <2> SUFFICES ASSUME NEW k \in 1 .. N PROVE \E x \in X : Within(pos[x], W[k])
    BY DEF InElement
  <2>1. PICK x \in X, y \in X : Grown(W[k], x, y, X, sz, n + 1)
    BY <1>6
  <2>2. W[k].low \in Int /\ W[k].high \in Int
    BY <1>3, PieceFields
  <2>3. Within(sz[x] * FuzzRounds, W[k])
    BY <1>7, <2>1, <2>2, GrownContains
  <2> QED BY <2>3
<1>13. \A x \in X : pos[x] \in Int
  BY FuzzAssumption
<1>14. Exact(c, X, pos) /\ Settled(c)
  BY <1>3, <1>4, <1>9, <1>10, <1>11, <1>12, <1>13, CoalesceExact
<1>15. /\ c \in Seq(Pieces) /\ Len(c) <= N /\ EndsOf(c, W, N) /\ ItemsOf(c, W, N)
  BY <1>3, <1>4, <1>9, CoalesceIs DEF Coalesced
<1>16. ItemsAscend(W)
  BY <1>3, <1>8 DEF ItemsAscend
<1>20. Shapes(c) = GrownTogether(Shapes(list))
  BY <1>3, <1>4, <1>9, <1>16, <1>19, CoalesceJoins DEF GrownTogether
<1> HIDE DEF c
<1>17. ASSUME NEW k \in DOMAIN c
       PROVE  \E x, y \in X : Grown(c[k], x, y, X, sz, n + 1) /\ c[k].item = sz[x]
  <2>1. PICK i \in 1 .. N, j \in 1 .. N :
          /\ i <= j /\ c[k].high = W[j].high /\ c[k].low = W[i].low /\ c[k].item = W[i].item
    BY <1>15 DEF EndsOf
  <2>2. PICK x \in X, y \in X : Grown(W[i], x, y, X, sz, n + 1) /\ W[i].item = sz[x]
    BY <1>6
  <2>3. PICK u \in X, v \in X : Grown(W[j], u, v, X, sz, n + 1) /\ W[j].item = sz[u]
    BY <1>6
  <2>4. sz[x] <= sz[u]
    BY <1>8, <2>1, <2>2, <2>3
  <2>5. W[i].high \in Int /\ W[j].high \in Int
    BY <1>3, PieceFields
  <2>6. Grown(c[k], x, v, X, sz, n + 1)
    BY <1>7, <2>1, <2>2, <2>3, <2>4, <2>5, GrownHull
  <2> QED BY <2>1, <2>2, <2>6
<1>18. Fuzzed(c, X, sz, n + 1)
  BY <1>15, <1>16, <1>17 DEF Fuzzed, ItemsOf, ItemsAscend
<1> QED BY <1>14, <1>15, <1>18, <1>20 DEF c

-----------------------------------------------------------------------------
(* Base sets *)

\* A set that can be widened: every reading is counted in one element.
Ready(list, X, sz, pos, n) ==
  /\ list \in Seq(Pieces) /\ list # <<>> /\ Ordered(list) /\ Fuzzed(list, X, sz, n)
  /\ Evident(list, X, pos)
  /\ \E own : Grouped(list, X, pos, own)

LEMMA ReadyWidened ==
  ASSUME NEW X, IsFiniteSet(X), NEW sz, NEW pos,
         \A x \in X : sz[x] \in Nat /\ pos[x] = sz[x] * FuzzRounds /\ x[1] \in Nat,
         NEW n \in Nat, n < FuzzRounds, NEW list, Ready(list, X, sz, pos, n)
  PROVE  /\ Exact(AdjustFuzz(list), X, pos) /\ Settled(AdjustFuzz(list))
         /\ Fuzzed(AdjustFuzz(list), X, sz, n + 1)
         /\ Len(AdjustFuzz(list)) <= Len(list)
         /\ Shapes(AdjustFuzz(list)) = GrownTogether(Shapes(list))
BY AdjustFuzzExact DEF Ready

\* A list is as good as another with the same ranges for all that is said of them.
LEMMA SpreadOrdered ==
  ASSUME NEW list \in Seq(Pieces), Spread(list)
  PROVE  Ordered(list)
<1>1. \A k \in DOMAIN list : list[k].low \in Int /\ list[k].high \in Int /\ list[k].low <= list[k].high
  BY PieceFields DEF Spread, Ranged
<1>2. DOMAIN list \subseteq Int
  OBVIOUS
<1>3. ASSUME NEW j \in DOMAIN list, NEW k \in DOMAIN list, j <= k
      PROVE  list[j].low <= list[k].low /\ list[j].high <= list[k].high
  <2>1. CASE j = k
    BY <1>1, <2>1
  <2>2. CASE j # k
    <3>1. j < k
      BY <1>2, <1>3, <2>2
    <3>2. list[j].high < list[k].low
      BY <3>1 DEF Spread
    <3> QED BY <1>1, <3>2
  <2> QED BY <2>1, <2>2
<1> QED BY <1>3 DEF Ordered, Spread

\* A reading lies in one of ranges that are apart.
LEMMA SpreadOnce ==
  ASSUME NEW list \in Seq(Pieces), Spread(list), NEW v \in Int,
         NEW j \in DOMAIN list, NEW k \in DOMAIN list, Within(v, list[j]), Within(v, list[k])
  PROVE  j = k
<1>1. /\ list[j].low \in Int /\ list[j].high \in Int
      /\ list[k].low \in Int /\ list[k].high \in Int
  BY PieceFields
<1>2. list[j].low <= v /\ v <= list[j].high /\ list[k].low <= v /\ v <= list[k].high
  BY DEF Within
<1>3. ~(list[j].high < list[k].low) /\ ~(list[k].high < list[j].low)
  BY <1>1, <1>2
<1>4. ~(j < k) /\ ~(k < j)
  BY <1>3 DEF Spread
<1> QED BY <1>4

LEMMA SettledReady ==
  ASSUME NEW X, IsFiniteSet(X), NEW sz, NEW pos, \A x \in X : pos[x] \in Int /\ x[1] \in Nat,
         NEW n, NEW list, Exact(list, X, pos), Settled(list), Fuzzed(list, X, sz, n)
  PROVE  Ready(list, X, sz, pos, n)
<1>1. /\ list \in Seq(Pieces) /\ list # <<>> /\ Spread(list)
      /\ \A x \in X : \E k \in DOMAIN list : Within(pos[x], list[k])
      /\ \A k \in DOMAIN list :
           /\ Whole(list[k]) = Cardinality(InElement(X, pos, list[k]))
           /\ list[k].ids \ {Unknown} = {x[1] : x \in InElement(X, pos, list[k])}
  BY DEF Exact
<1> DEFINE own == [x \in X |-> CHOOSE k \in DOMAIN list : Within(pos[x], list[k])]
<1>2. \A x \in X : own[x] \in DOMAIN list /\ Within(pos[x], list[own[x]])
  BY <1>1
<1>3. own \in [X -> DOMAIN list]
  BY <1>2
<1> HIDE DEF own
<1>4. ASSUME NEW x \in X PROVE x[1] \in list[own[x]].ids
  <2>1. PICK k \in DOMAIN list : k = own[x]
    BY <1>2
  <2>2. x \in InElement(X, pos, list[k])
    BY <1>2, <2>1 DEF InElement
  <2>3. x[1] \in list[k].ids
    BY <1>1, <2>2
  <2> QED BY <2>1, <2>3
<1>5. ASSUME NEW k \in DOMAIN list
      PROVE  list[k].count = Cardinality({x \in X : own[x] = k})
  <2>1. ASSUME NEW x \in X PROVE own[x] = k <=> Within(pos[x], list[k])
    BY <1>1, <1>2, SpreadOnce
  <2>2. {x \in X : own[x] = k} = InElement(X, pos, list[k])
    BY <2>1 DEF InElement
  <2>3. list[k].count > 0
    BY DEF Settled
  <2> QED BY <1>1, <2>2, <2>3 DEF Whole
<1>6. Grouped(list, X, pos, own)
  BY <1>2, <1>3, <1>4, <1>5 DEF Grouped
<1>7. Evident(list, X, pos)
  <2> SUFFICES ASSUME NEW k \in DOMAIN list, NEW id \in list[k].ids \ {Unknown}
               PROVE  \E x \in X : x[1] = id /\ Within(pos[x], list[k])
    BY DEF Evident
  <2>1. id \in {x[1] : x \in InElement(X, pos, list[k])}
    BY <1>1
  <2> QED BY <2>1 DEF InElement
<1>8. Ordered(list)
  BY <1>1, SpreadOrdered
<1> QED BY <1>1, <1>6, <1>7, <1>8 DEF Ready

\* The points that createSet() makes of readings in ascending order.
LEMMA CreatedReady ==
  ASSUME NEW row \in Seq(Nat \ {0}), row # <<>>,
         \A j, k \in DOMAIN row : j <= k => row[j] <= row[k],
         NEW s \in Nat, NEW X, X = {x \in {s} \X Nat : x[2] \in DOMAIN row},
         NEW sz, NEW pos, \A x \in X : sz[x] = row[x[2]] /\ pos[x] = sz[x] * FuzzRounds,
         NEW list, list = CreateSet(row, s)
  PROVE  Ready(list, X, sz, pos, 0)
<1> DEFINE N == Len(row)
<1>1. N \in Nat /\ N > 0 /\ DOMAIN row = 1 .. N /\ \A k \in 1 .. N : row[k] \in Nat
  OBVIOUS
<1>2. FuzzRounds \in Nat
  BY FuzzAssumption
<1>3. \A k \in 1 .. N : /\ list[k] = BaseElement(row[k], s)
  BY <1>1 DEF CreateSet
<1>4. DOMAIN list = 1 .. N
  BY <1>1 DEF CreateSet
<1>5. \A k \in 1 .. N : /\ list[k].item = row[k] /\ list[k].low = row[k] * FuzzRounds
                       /\ list[k].high = row[k] * FuzzRounds
                       /\ list[k].count = 1 /\ list[k].ids = {s} /\ list[k] \in Pieces
  <2> SUFFICES ASSUME NEW k \in 1 .. N
               PROVE  /\ list[k].item = row[k] /\ list[k].low = row[k] * FuzzRounds
                      /\ list[k].high = row[k] * FuzzRounds
                      /\ list[k].count = 1 /\ list[k].ids = {s} /\ list[k] \in Pieces
    OBVIOUS
  <2>1. PICK v \in Nat : v = row[k]
    BY <1>1
  <2>2. v * FuzzRounds \in Int /\ {s} \in SUBSET (Nat \cup {Unknown})
    BY <1>2
  <2>3. /\ BaseElement(v, s).item = v /\ BaseElement(v, s).low = v * FuzzRounds
        /\ BaseElement(v, s).high = v * FuzzRounds
        /\ BaseElement(v, s).count = 1 /\ BaseElement(v, s).ids = {s}
        /\ BaseElement(v, s) \in Pieces
    BY <2>2 DEF BaseElement, Pieces
  <2> QED BY <1>3, <2>1, <2>3
<1>7. list \in Seq(Pieces) /\ list # <<>>
  <2>1. list \in [1 .. N -> Pieces]
    BY <1>1, <1>5 DEF CreateSet
  <2> QED BY <1>1, <2>1
<1>8. \A k \in 1 .. N : /\ <<s, k>> \in X /\ sz[<<s, k>>] = row[k]
                       /\ pos[<<s, k>>] = row[k] * FuzzRounds /\ <<s, k>>[1] = s
  <2> SUFFICES ASSUME NEW k \in 1 .. N
               PROVE  /\ <<s, k>> \in X /\ sz[<<s, k>>] = row[k]
                      /\ pos[<<s, k>>] = row[k] * FuzzRounds /\ <<s, k>>[1] = s
    OBVIOUS
  <2>1. <<s, k>> \in X /\ <<s, k>>[2] = k
    BY <1>1
  <2>2. sz[<<s, k>>] = row[k]
    BY <2>1
  <2> QED BY <2>1, <2>2
<1>9. \A x \in X : /\ x[2] \in 1 .. N /\ x[1] = s /\ x = <<s, x[2]>>
                   /\ pos[x] = row[x[2]] * FuzzRounds
  BY <1>1
<1>10. ASSUME NEW j \in 1 .. N, NEW k \in 1 .. N, j <= k
       PROVE  row[j] <= row[k] /\ row[j] * FuzzRounds <= row[k] * FuzzRounds
  <2>1. row[j] <= row[k] /\ row[j] \in Nat /\ row[k] \in Nat
    BY <1>1, <1>10
  <2> QED BY <1>2, <2>1, ProductsGrow
<1>11. \A k \in 1 .. N : row[k] * FuzzRounds \in Int
  BY <1>1, <1>2
<1>12. Ordered(list)
  BY <1>4, <1>5, <1>10, <1>11 DEF Ordered, Ranged
<1>13. Fuzzed(list, X, sz, 0)
  <2>1. ASSUME NEW k \in 1 .. N
        PROVE  \E x, y \in X : Grown(list[k], x, y, X, sz, 0) /\ list[k].item = sz[x]
    <3> DEFINE x == <<s, k>>
    <3>1. x \in X /\ sz[x] = row[k] /\ row[k] \in Nat
      BY <1>1, <1>8
    <3>2. list[k].low = row[k] * FuzzRounds /\ list[k].high = row[k] * FuzzRounds
          /\ list[k].item = row[k]
      BY <1>5
    <3> HIDE DEF x
    <3>3. /\ FuzzRounds - 0 = FuzzRounds /\ FuzzRounds + 0 = FuzzRounds
          /\ row[k] * FuzzRounds + 0 * row[k] = row[k] * FuzzRounds
          /\ row[k] * FuzzRounds \in Int
      BY <1>2, <3>1
    <3>4. Grown(list[k], x, x, X, sz, 0)
      BY <3>1, <3>2, <3>3 DEF Grown
    <3> QED BY <3>1, <3>2, <3>4
  <2>2. \A j, k \in 1 .. N : j <= k => list[j].item <= list[k].item
    BY <1>5, <1>10
  <2> QED BY <1>4, <2>1, <2>2 DEF Fuzzed
<1>14. ASSUME NEW x \in X PROVE Within(pos[x], list[x[2]])
  <2>1. PICK k \in 1 .. N : k = x[2]
    BY <1>9
  <2>2. pos[x] = row[k] * FuzzRounds
    BY <1>9, <2>1
  <2>3. Within(pos[x], list[k])
    BY <1>5, <1>11, <2>2 DEF Within
  <2> QED BY <2>1, <2>3
<1> DEFINE own == [x \in X |-> x[2]]
<1>15. own \in [X -> 1 .. N]
  BY <1>9
<1>16. ASSUME NEW k \in 1 .. N PROVE list[k].count = Cardinality({x \in X : own[x] = k})
  <2>1. {x \in X : own[x] = k} = {<<s, k>>}
    BY <1>8, <1>9
  <2>2. Cardinality({<<s, k>>}) = 1 /\ list[k].count = 1
    BY <1>5, FS_Singleton
  <2> QED BY <2>1, <2>2
<1>17. Grouped(list, X, pos, own)
  BY <1>4, <1>5, <1>9, <1>14, <1>15, <1>16, ZenonT(60) DEF Grouped
<1>18. Evident(list, X, pos)
  <2> SUFFICES ASSUME NEW k \in 1 .. N, NEW id \in list[k].ids
               PROVE  \E x \in X : x[1] = id /\ Within(pos[x], list[k])
    BY <1>4 DEF Evident
  <2>1. id = s
    BY <1>5
  <2>2. pos[<<s, k>>] = row[k] * FuzzRounds /\ <<s, k>> \in X /\ <<s, k>>[1] = s
    BY <1>8
  <2>3. Within(row[k] * FuzzRounds, list[k])
    BY <1>5, <1>11 DEF Within
  <2> QED BY <2>1, <2>2, <2>3
<1> QED BY <1>7, <1>12, <1>13, <1>17, <1>18 DEF Ready

-----------------------------------------------------------------------------
(* Going through a list *)

SameRanges(a, r) ==
  /\ r \in Seq(Pieces) /\ Len(r) = Len(a) /\ DOMAIN r = DOMAIN a
  /\ \A k \in DOMAIN a : /\ r[k].low = a[k].low /\ r[k].high = a[k].high
                         /\ r[k].item = a[k].item /\ r[k].ids = a[k].ids

\* The list with e at position i stands for the same readings.
Stands(a, i, e, X, pos, r) ==
  /\ Exact(r, X, pos) /\ SameRanges(a, r)
  /\ r[i] = e /\ \A k \in DOMAIN a : k # i => r[k] = a[k]

\* An element is changed in its counts, but not in what it stands for.
LEMMA Touched ==
  ASSUME NEW X, NEW pos, NEW a, Exact(a, X, pos), NEW i \in DOMAIN a,
         NEW e \in Pieces, e.low = a[i].low, e.high = a[i].high, e.item = a[i].item,
         e.ids = a[i].ids, Whole(e) = Whole(a[i]),
         NEW r, r = [a EXCEPT ![i] = e]
  PROVE  Stands(a, i, e, X, pos, r)
<1>1. /\ a \in Seq(Pieces) /\ a # <<>> /\ Spread(a) /\ DOMAIN a = 1 .. Len(a) /\ Len(a) \in Nat
      /\ \A x \in X : \E k \in DOMAIN a : Within(pos[x], a[k])
      /\ \A k \in DOMAIN a :
           /\ InElement(X, pos, a[k]) # {}
           /\ Whole(a[k]) = Cardinality(InElement(X, pos, a[k]))
           /\ a[k].ids \ {Unknown} = {x[1] : x \in InElement(X, pos, a[k])}
  BY DEF Exact
<1>2. /\ r \in Seq(Pieces) /\ Len(r) = Len(a) /\ DOMAIN r = DOMAIN a /\ r # <<>>
      /\ r[i] = e /\ \A k \in DOMAIN a : k # i => r[k] = a[k]
  BY <1>1
<1>3. \A k \in DOMAIN a : /\ r[k].low = a[k].low /\ r[k].high = a[k].high
                         /\ r[k].item = a[k].item /\ r[k].ids = a[k].ids
                         /\ Whole(r[k]) = Whole(a[k])
  <2> SUFFICES ASSUME NEW k \in DOMAIN a
               PROVE  /\ r[k].low = a[k].low /\ r[k].high = a[k].high
                      /\ r[k].item = a[k].item /\ r[k].ids = a[k].ids
                      /\ Whole(r[k]) = Whole(a[k])
    OBVIOUS
  <2>1. CASE k = i
    BY <1>2, <2>1
  <2>2. CASE k # i
    BY <1>2, <2>2
  <2> QED BY <2>1, <2>2
<1>4. SameRanges(a, r)
  BY <1>2, <1>3 DEF SameRanges
<1>5. Spread(r)
  BY <1>1, <1>2, <1>3 DEF Spread, Ranged
<1>6. \A k \in DOMAIN a : InElement(X, pos, r[k]) = InElement(X, pos, a[k])
  BY <1>3 DEF InElement, Within
<1>7. \A x \in X : \E k \in DOMAIN r : Within(pos[x], r[k])
  BY <1>1, <1>2, <1>3 DEF Within
<1>8. \A k \in DOMAIN r :
        /\ InElement(X, pos, r[k]) # {}
        /\ Whole(r[k]) = Cardinality(InElement(X, pos, r[k]))
        /\ r[k].ids \ {Unknown} = {x[1] : x \in InElement(X, pos, r[k])}
  <2> SUFFICES ASSUME NEW k \in DOMAIN a
               PROVE  /\ InElement(X, pos, r[k]) # {}
                      /\ Whole(r[k]) = Cardinality(InElement(X, pos, r[k]))
                      /\ r[k].ids \ {Unknown} = {x[1] : x \in InElement(X, pos, r[k])}
    BY <1>2
  <2> QED BY <1>1, <1>3, <1>6
<1>9. Exact(r, X, pos)
  BY <1>2, <1>5, <1>7, <1>8 DEF Exact
<1> QED BY <1>2, <1>4, <1>9 DEF Stands

\* An element that a union has come to is among those past.
Advanced(a, i, X, pos, r, at) ==
  /\ Exact(r, X, pos) /\ Cursor(r, at) /\ SameRanges(a, r)
  /\ Past(r, at) = Past(a, i) \cup {i}

\* An element counts something, now or once restored.
LEMMA WholePositive ==
  ASSUME NEW X, IsFiniteSet(X), NEW pos, NEW a, Exact(a, X, pos), NEW k \in DOMAIN a
  PROVE  a[k].count > 0 \/ a[k].saved > 0
<1>1. /\ InElement(X, pos, a[k]) # {} /\ a \in Seq(Pieces)
      /\ Whole(a[k]) = Cardinality(InElement(X, pos, a[k]))
  BY DEF Exact
<1>2. InElement(X, pos, a[k]) \in SUBSET X
  BY DEF InElement
<1>3. IsFiniteSet(InElement(X, pos, a[k]))
  BY <1>2, FS_Subset
<1>4. Cardinality(InElement(X, pos, a[k])) \in Nat /\ Cardinality(InElement(X, pos, a[k])) # 0
  BY <1>1, <1>3, FS_EmptySet, FS_CardinalityType
<1>5. Whole(a[k]) > 0
  BY <1>1, <1>4
<1> QED BY <1>5 DEF Whole

LEMMA RestoredPiece ==
  ASSUME NEW e \in Pieces, e.count > 0 \/ e.saved > 0, NEW r, r = RestoreElementCount(e)
  PROVE  /\ r \in Pieces /\ r.low = e.low /\ r.high = e.high /\ r.item = e.item
         /\ r.ids = e.ids /\ Whole(r) = Whole(e) /\ r.count > 0
<1>1. e.count \in Nat /\ e.saved \in Nat
  BY DEF Pieces
<1>2. CASE e.count = 0
  <2>1. r = [e EXCEPT !.count = e.saved]
    BY <1>1, <1>2 DEF RestoreElementCount
  <2>2. r \in Pieces /\ r.low = e.low /\ r.high = e.high /\ r.item = e.item
        /\ r.ids = e.ids /\ r.count = e.saved
    BY <1>1, <2>1 DEF Pieces
  <2> QED BY <1>1, <1>2, <2>2 DEF Whole
<1>3. CASE e.count # 0
  <2>1. r = e
    BY <1>3 DEF RestoreElementCount
  <2> QED BY <1>1, <1>3, <2>1
<1> QED BY <1>2, <1>3

LEMMA SavedPiece ==
  ASSUME NEW e \in Pieces, NEW r, r = SaveElementCount(e)
  PROVE  /\ r \in Pieces /\ r.low = e.low /\ r.high = e.high /\ r.item = e.item
         /\ r.ids = e.ids /\ Whole(r) = Whole(e) /\ r.count = 0
<1>1. e.count \in Nat /\ e.saved \in Nat
  BY DEF Pieces
<1>2. CASE e.count > 0
  <2>1. r = [e EXCEPT !.saved = e.count, !.count = 0]
    BY <1>1, <1>2 DEF SaveElementCount
  <2>2. /\ e.item \in Nat /\ e.low \in Int /\ e.high \in Int
        /\ e.ids \in SUBSET (Nat \cup {Unknown})
    BY DEF Pieces
  <2>3. r = [item |-> e.item, low |-> e.low, high |-> e.high, count |-> 0,
             saved |-> e.count, ids |-> e.ids]
    BY <2>1 DEF Pieces
  <2>4. r \in Pieces
    BY <1>1, <2>2, <2>3 DEF Pieces
  <2> QED BY <1>1, <1>2, <2>3, <2>4 DEF Whole
<1>3. CASE ~(e.count > 0)
  <2>1. r = e /\ e.count = 0
    BY <1>1, <1>3 DEF SaveElementCount
  <2> QED BY <1>1, <2>1
<1> QED BY <1>2, <1>3

LEMMA Dropped ==
  ASSUME NEW X, IsFiniteSet(X), NEW pos, NEW a, Exact(a, X, pos), NEW i, Cursor(a, i),
         i <= Len(a), NEW r, r = [a EXCEPT ![i] = RestoreElementCount(a[i])]
  PROVE  Advanced(a, i, X, pos, r, i + 1)
<1>1. /\ a \in Seq(Pieces) /\ Len(a) \in Nat /\ DOMAIN a = 1 .. Len(a) /\ i \in DOMAIN a
      /\ i \in Nat /\ \A k \in DOMAIN a : k # i => a[k].count > 0
  BY DEF Exact, Cursor
<1> DEFINE e == RestoreElementCount(a[i])
<1>2. a[i].count > 0 \/ a[i].saved > 0
  BY <1>1, WholePositive
<1>3. /\ e \in Pieces /\ e.low = a[i].low /\ e.high = a[i].high /\ e.item = a[i].item
      /\ e.ids = a[i].ids /\ Whole(e) = Whole(a[i]) /\ e.count > 0
  BY <1>1, <1>2, PieceFields, RestoredPiece
<1> HIDE DEF e
<1>4. r = [a EXCEPT ![i] = e]
  BY DEF e
<1>5. /\ Exact(r, X, pos) /\ SameRanges(a, r)
      /\ r[i] = e /\ \A k \in DOMAIN a : k # i => r[k] = a[k]
  <2>1. Stands(a, i, e, X, pos, r)
    BY <1>1, <1>3, <1>4, Touched
  <2> QED BY <2>1 DEF Stands
<1>6. DOMAIN r = 1 .. Len(a) /\ Len(r) = Len(a)
  BY <1>1, <1>5 DEF SameRanges
<1>7. \A k \in DOMAIN r : r[k].count > 0
  BY <1>1, <1>3, <1>5, <1>6
<1>8. Cursor(r, i + 1)
  BY <1>1, <1>6, <1>7 DEF Cursor
<1>9. Past(r, i + 1) = {k \in 1 .. Len(a) : k <= i}
  <2>1. \A k \in 1 .. Len(a) : r[k].count # 0
    BY <1>6, <1>7
  <2> QED BY <1>1, <1>6, <2>1 DEF Past
<1>10. Past(a, i) \cup {i} = {k \in 1 .. Len(a) : k <= i}
  BY <1>1 DEF Past
<1> QED BY <1>5, <1>8, <1>9, <1>10 DEF Advanced

LEMMA Kept ==
  ASSUME NEW X, IsFiniteSet(X), NEW pos, NEW a, Exact(a, X, pos), NEW i, Cursor(a, i),
         i <= Len(a), NEW r, r = [a EXCEPT ![i] = SaveElementCount(a[i])]
  PROVE  Advanced(a, i, X, pos, r, i)
<1>1. /\ a \in Seq(Pieces) /\ Len(a) \in Nat /\ DOMAIN a = 1 .. Len(a) /\ i \in DOMAIN a
      /\ i \in Nat /\ \A k \in DOMAIN a : k # i => a[k].count > 0
  BY DEF Exact, Cursor
<1> DEFINE e == SaveElementCount(a[i])
<1>2. /\ e \in Pieces /\ e.low = a[i].low /\ e.high = a[i].high /\ e.item = a[i].item
      /\ e.ids = a[i].ids /\ Whole(e) = Whole(a[i]) /\ e.count = 0
  BY <1>1, PieceFields, SavedPiece
<1> HIDE DEF e
<1>3. r = [a EXCEPT ![i] = e]
  BY DEF e
<1>4. /\ Exact(r, X, pos) /\ SameRanges(a, r)
      /\ r[i] = e /\ \A k \in DOMAIN a : k # i => r[k] = a[k]
  <2>1. Stands(a, i, e, X, pos, r)
    BY <1>1, <1>2, <1>3, Touched
  <2> QED BY <2>1 DEF Stands
<1>5. DOMAIN r = 1 .. Len(a) /\ Len(r) = Len(a)
  BY <1>1, <1>4 DEF SameRanges
<1>6. Cursor(r, i)
  BY <1>1, <1>4, <1>5 DEF Cursor
<1>7. Past(r, i) = {k \in 1 .. Len(a) : k <= i}
  BY <1>1, <1>2, <1>4, <1>5 DEF Past
<1>8. Past(a, i) \cup {i} = {k \in 1 .. Len(a) : k <= i}
  BY <1>1 DEF Past
<1> QED BY <1>4, <1>6, <1>7, <1>8 DEF Advanced

\* The readings that are counted when the union comes to an element.
Fresh(a, i, X, pos) == IF a[i].count = 0 THEN {} ELSE InElement(X, pos, a[i])

LEMMA FreshCounted ==
  ASSUME NEW X, IsFiniteSet(X), NEW pos, \A x \in X : pos[x] \in Int,
         NEW a, Exact(a, X, pos), NEW i, Cursor(a, i), i <= Len(a),
         NEW r, NEW at, Advanced(a, i, X, pos, r, at)
  PROVE  /\ Counted(r, at, X, pos) = Counted(a, i, X, pos) \cup Fresh(a, i, X, pos)
         /\ Counted(a, i, X, pos) \cap Fresh(a, i, X, pos) = {}
         /\ IsFiniteSet(Fresh(a, i, X, pos))
         /\ Cardinality(Fresh(a, i, X, pos)) = a[i].count
         /\ \A x \in Fresh(a, i, X, pos) : /\ x \in X /\ Within(pos[x], a[i])
                                           /\ x[1] \in a[i].ids
<1>1. /\ a \in Seq(Pieces) /\ Len(a) \in Nat /\ DOMAIN a = 1 .. Len(a) /\ i \in DOMAIN a
      /\ i \in Nat /\ Spread(a)
      /\ Whole(a[i]) = Cardinality(InElement(X, pos, a[i]))
      /\ a[i].ids \ {Unknown} = {x[1] : x \in InElement(X, pos, a[i])}
      /\ a[i].count \in Nat
  <2>1. /\ a \in Seq(Pieces) /\ Len(a) \in Nat /\ DOMAIN a = 1 .. Len(a) /\ i \in DOMAIN a
        /\ i \in Nat /\ Spread(a)
    BY DEF Exact, Cursor
  <2>2. a[i].count \in Nat
    BY <2>1, PieceFields
  <2> QED BY <2>1, <2>2 DEF Exact
<1>2. /\ DOMAIN r = DOMAIN a /\ Past(r, at) = Past(a, i) \cup {i}
      /\ \A k \in DOMAIN a : r[k].low = a[k].low /\ r[k].high = a[k].high
  BY DEF Advanced, SameRanges
<1>3. \A x \in X : \A k \in DOMAIN a : Within(pos[x], r[k]) <=> Within(pos[x], a[k])
  BY <1>2 DEF Within
<1>4. Past(a, i) \subseteq DOMAIN a
  BY DEF Past
<1>5. Counted(r, at, X, pos) = Counted(a, i, X, pos) \cup InElement(X, pos, a[i])
  <2>1. ASSUME NEW x \in X
        PROVE  (\E k \in Past(r, at) : Within(pos[x], r[k]))
                 <=> (\E k \in Past(a, i) : Within(pos[x], a[k])) \/ Within(pos[x], a[i])
    BY <1>1, <1>2, <1>3, <1>4
  <2> QED BY <2>1 DEF Counted, InElement
<1>6. InElement(X, pos, a[i]) \in SUBSET X
  BY DEF InElement
<1>7. IsFiniteSet(InElement(X, pos, a[i]))
  BY <1>6, FS_Subset
<1>8. CASE a[i].count = 0
  <2>1. Fresh(a, i, X, pos) = {}
    BY <1>8 DEF Fresh
  <2>2. i \in Past(a, i)
    BY <1>1, <1>8 DEF Past
  <2>3. InElement(X, pos, a[i]) \subseteq Counted(a, i, X, pos)
    BY <2>2 DEF InElement, Counted
  <2> QED BY <1>5, <1>8, <2>1, <2>3, FS_EmptySet
<1>9. CASE a[i].count # 0
  <2>1. Fresh(a, i, X, pos) = InElement(X, pos, a[i])
    BY <1>9 DEF Fresh
  <2>2. Whole(a[i]) = a[i].count
    BY <1>1, <1>9 DEF Whole
  <2>3. ASSUME NEW x \in InElement(X, pos, a[i])
        PROVE  x \in X /\ Within(pos[x], a[i]) /\ x[1] \in a[i].ids /\ x \notin Counted(a, i, X, pos)
    <3>1. x \in X /\ Within(pos[x], a[i])
      BY DEF InElement
    <3>2. x[1] \in a[i].ids
      BY <1>1
    <3>3. ASSUME NEW k \in Past(a, i), Within(pos[x], a[k]) PROVE FALSE
      <4>1. k \in DOMAIN a /\ k # i
        BY <1>1, <1>9 DEF Past
      <4>2. pos[x] \in Int
        BY <3>1
      <4> QED BY <1>1, <3>1, <3>3, <4>1, <4>2, SpreadOnce
    <3> QED BY <3>1, <3>2, <3>3 DEF Counted
  <2> QED BY <1>1, <1>5, <1>7, <2>1, <2>2, <2>3
<1> QED BY <1>8, <1>9

\* A further piece counts readings that are not counted yet.
LEMMA GroupedFurther ==
  ASSUME NEW pieces \in Seq(Pieces), NEW Z, NEW pos, NEW own, Grouped(pieces, Z, pos, own),
         NEW F, IsFiniteSet(F), Z \cap F = {}, NEW e \in Pieces, e.count = Cardinality(F),
         \A x \in F : Within(pos[x], e) /\ x[1] \in e.ids
  PROVE  \E mine : Grouped(Append(pieces, e), Z \cup F, pos, mine)
<1> DEFINE n == Len(pieces)
           r == Append(pieces, e)
           mine == [x \in Z \cup F |-> IF x \in F THEN n + 1 ELSE own[x]]
<1>1. /\ n \in Nat /\ DOMAIN pieces = 1 .. n /\ DOMAIN r = 1 .. n + 1 /\ r[n + 1] = e
      /\ \A k \in 1 .. n : r[k] = pieces[k] /\ k # n + 1 /\ k \in 1 .. n + 1
      /\ \A k \in 1 .. n + 1 : k \in 1 .. n \/ k = n + 1
      /\ n + 1 \in 1 .. n + 1 /\ n + 1 \notin 1 .. n
  OBVIOUS
<1>2. \A x \in Z : own[x] \in 1 .. n /\ Within(pos[x], pieces[own[x]]) /\ x[1] \in pieces[own[x]].ids
  BY <1>1 DEF Grouped
<1>3. /\ \A x \in F : mine[x] = n + 1
      /\ \A x \in Z : mine[x] = own[x]
  OBVIOUS
<1>4. mine \in [Z \cup F -> 1 .. n + 1]
  BY <1>1, <1>2
<1> HIDE DEF mine, r
<1>5. \A x \in Z \cup F : Within(pos[x], r[mine[x]]) /\ x[1] \in r[mine[x]].ids
  BY <1>1, <1>2, <1>3
<1>6. ASSUME NEW k \in 1 .. n + 1
      PROVE  r[k].count = Cardinality({x \in Z \cup F : mine[x] = k})
  <2>1. CASE k = n + 1
    <3>1. {x \in Z \cup F : mine[x] = k} = F
      BY <1>1, <1>2, <1>3, <2>1
    <3> QED BY <1>1, <2>1, <3>1
  <2>2. CASE k \in 1 .. n
    <3>1. {x \in Z \cup F : mine[x] = k} = {x \in Z : own[x] = k}
      BY <1>1, <1>2, <1>3, <2>2
    <3>2. pieces[k].count = Cardinality({x \in Z : own[x] = k})
      BY <1>1, <2>2 DEF Grouped
    <3> QED BY <1>1, <2>2, <3>1, <3>2
  <2> QED BY <1>1, <2>1, <2>2
<1>7. Grouped(r, Z \cup F, pos, mine)
  BY <1>1, <1>4, <1>5, <1>6 DEF Grouped
<1> QED BY <1>7 DEF r

-----------------------------------------------------------------------------
(* A piece more *)

LEMMA OrderedFurther ==
  ASSUME NEW pieces \in Seq(Pieces), Ordered(pieces), Singles(pieces),
         NEW e \in Pieces, e.low <= e.high,
         pieces # <<>> =>
           LET last == pieces[Len(pieces)]
           IN /\ last.low <= e.low /\ last.high <= e.high
              /\ Unknown \notin last.ids => last.high < e.low
  PROVE  Append(pieces, e) \in Seq(Pieces) /\ Ordered(Append(pieces, e)) /\ Singles(Append(pieces, e))
<1> DEFINE n == Len(pieces)
           r == Append(pieces, e)
<1>1. /\ n \in Nat /\ DOMAIN pieces = 1 .. n /\ DOMAIN r = 1 .. n + 1 /\ r[n + 1] = e
      /\ \A k \in 1 .. n : r[k] = pieces[k]
      /\ r \in Seq(Pieces) /\ Len(r) = n + 1
  OBVIOUS
<1>2. n > 0 => /\ n \in 1 .. n /\ pieces[n].low <= e.low /\ pieces[n].high <= e.high
               /\ Unknown \notin pieces[n].ids => pieces[n].high < e.low
  BY <1>1
<1> HIDE DEF r
<1>3. \A k \in 1 .. n : /\ pieces[k].low \in Int /\ pieces[k].high \in Int
                       /\ pieces[k].low <= pieces[k].high
  BY <1>1, PieceFields DEF Ordered, Ranged
<1>4. e.low \in Int /\ e.high \in Int
  BY DEF Pieces
<1>5. ASSUME NEW k \in 1 .. n PROVE pieces[k].low <= e.low /\ pieces[k].high <= e.high
  <2>1. n \in 1 .. n /\ k <= n /\ n > 0
    BY <1>1
  <2>2. pieces[k].low <= pieces[n].low /\ pieces[k].high <= pieces[n].high
    BY <1>1, <2>1 DEF Ordered
  <2> QED BY <1>2, <1>3, <1>4, <2>1, <2>2
<1>6. Ranged(r)
  <2> SUFFICES ASSUME NEW k \in 1 .. n + 1 PROVE r[k].low <= r[k].high
    BY <1>1 DEF Ranged
  <2>1. k \in 1 .. n \/ k = n + 1
    BY <1>1
  <2> QED BY <1>1, <1>3, <2>1
<1>7. ASSUME NEW j \in 1 .. n + 1, NEW k \in 1 .. n + 1, j <= k
      PROVE  r[j].low <= r[k].low /\ r[j].high <= r[k].high
  <2>1. CASE k \in 1 .. n
    <3>1. j \in 1 .. n
      BY <1>1, <1>7, <2>1
    <3> QED BY <1>1, <1>7, <2>1, <3>1 DEF Ordered
  <2>2. CASE k = n + 1 /\ j = n + 1
    BY <1>1, <1>4, <2>2
  <2>3. CASE k = n + 1 /\ j \in 1 .. n
    BY <1>1, <1>5, <2>3
  <2> QED BY <1>1, <2>1, <2>2, <2>3
<1>8. Ordered(r)
  BY <1>1, <1>6, <1>7 DEF Ordered
<1>9. Singles(r)
  <2> SUFFICES ASSUME NEW q \in 1 .. n, Unknown \notin r[q].ids PROVE r[q].high < r[q + 1].low
    BY <1>1 DEF Singles
  <2>1. CASE q = n
    BY <1>1, <1>2, <2>1
  <2>2. CASE q # n
    <3> HIDE DEF n
    <3>1. n \in Nat
      BY <1>1
    <3>2. q \in 1 .. n - 1 /\ q + 1 \in 1 .. n
      BY <2>2, <3>1
    <3>3. pieces[q].ids = r[q].ids /\ pieces[q].high = r[q].high /\ pieces[q + 1].low = r[q + 1].low
      BY <1>1, <3>2
    <3> QED BY <3>2, <3>3 DEF Singles, n
  <2> QED BY <2>1, <2>2
<1> QED BY <1>1, <1>8, <1>9 DEF r

LEMMA EvidentFurther ==
  ASSUME NEW pieces \in Seq(Pieces), NEW Z, NEW pos, Evident(pieces, Z, pos), NEW e,
         \A id \in e.ids \ {Unknown} : \E x \in Z : x[1] = id /\ Within(pos[x], e)
  PROVE  Evident(Append(pieces, e), Z, pos)
<1> DEFINE r == Append(pieces, e)
<1>1. /\ DOMAIN r = DOMAIN pieces \cup {Len(pieces) + 1} /\ r[Len(pieces) + 1] = e
      /\ \A k \in DOMAIN pieces : r[k] = pieces[k]
  OBVIOUS
<1> HIDE DEF r
<1>2. Evident(r, Z, pos)
  BY <1>1 DEF Evident
<1> QED BY <1>2 DEF r

\* Piece e covers what the elements at P of a and at Q of b cover.
Joins(e, a, P, b, Q) ==
  /\ P \subseteq DOMAIN a /\ Q \subseteq DOMAIN b
  /\ \A p \in Int : Spans(p, e) <=> \/ \E k \in P : Spans(p, a[k])
                                   \/ \E k \in Q : Spans(p, b[k])

LEMMA CoverFurther ==
  ASSUME NEW pieces \in Seq(Pieces), NEW a, NEW i, NEW b, NEW j, SameCover(pieces, a, i, b, j),
         NEW r, NEW at, SameRanges(a, r), NEW P, Past(r, at) = Past(a, i) \cup P,
         NEW t, NEW to, SameRanges(b, t), NEW Q, Past(t, to) = Past(b, j) \cup Q,
         NEW e, Joins(e, a, P, b, Q)
  PROVE  SameCover(Append(pieces, e), r, at, t, to)
<1> DEFINE w == Append(pieces, e)
<1>1. /\ DOMAIN w = DOMAIN pieces \cup {Len(pieces) + 1} /\ w[Len(pieces) + 1] = e
      /\ \A k \in DOMAIN pieces : w[k] = pieces[k]
  OBVIOUS
<1> HIDE DEF w
<1>2. \A p \in Int : \A k \in DOMAIN a : Spans(p, r[k]) <=> Spans(p, a[k])
  BY DEF SameRanges, Spans
<1>3. \A p \in Int : \A k \in DOMAIN b : Spans(p, t[k]) <=> Spans(p, b[k])
  BY DEF SameRanges, Spans
<1>4. Past(a, i) \subseteq DOMAIN a /\ Past(b, j) \subseteq DOMAIN b
  BY DEF Past
<1>5. ASSUME NEW p \in Int
      PROVE  (\E k \in DOMAIN w : Spans(p, w[k])) <=>
                \/ \E k \in Past(r, at) : Spans(p, r[k])
                \/ \E k \in Past(t, to) : Spans(p, t[k])
  <2>1. (\E k \in DOMAIN w : Spans(p, w[k]))
          <=> (\E k \in DOMAIN pieces : Spans(p, pieces[k])) \/ Spans(p, e)
    BY <1>1
  <2>2. (\E k \in DOMAIN pieces : Spans(p, pieces[k]))
          <=> \/ \E k \in Past(a, i) : Spans(p, a[k])
              \/ \E k \in Past(b, j) : Spans(p, b[k])
    BY DEF SameCover
  <2> USE DEF Joins
  <2>3. (\E k \in Past(r, at) : Spans(p, r[k]))
          <=> (\E k \in Past(a, i) : Spans(p, a[k])) \/ (\E k \in P : Spans(p, a[k]))
    BY <1>2, <1>4
  <2>4. (\E k \in Past(t, to) : Spans(p, t[k]))
          <=> (\E k \in Past(b, j) : Spans(p, b[k])) \/ (\E k \in Q : Spans(p, b[k]))
    BY <1>3, <1>4
  <2> QED BY <2>1, <2>2, <2>3, <2>4
<1> QED BY <1>5 DEF SameCover, w

LEMMA UnitingSwaps ==
  ASSUME NEW a, NEW i, NEW X, NEW b, NEW j, NEW Y, NEW pieces, NEW pos,
         Uniting(a, i, X, b, j, Y, pieces, pos)
  PROVE  Uniting(b, j, Y, a, i, X, pieces, pos)
<1>1. Counted(a, i, X, pos) \cup Counted(b, j, Y, pos) = Counted(b, j, Y, pos) \cup Counted(a, i, X, pos)
      /\ X \cup Y = Y \cup X
  OBVIOUS
<1>2. SameCover(pieces, b, j, a, i)
  BY DEF Uniting, SameCover
<1>3. Frontier(b, j, a, i, pieces)
  BY DEF Uniting, Frontier, FrontierAt
<1> QED BY <1>1, <1>2, <1>3 DEF Uniting

LEMMA CopiedPiece ==
  ASSUME NEW e \in Pieces, NEW r, r = CopyElement(e)
  PROVE  /\ r \in Pieces /\ r.low = e.low /\ r.high = e.high /\ r.item = e.item
         /\ r.ids = e.ids /\ r.count = e.count
<1>1. /\ e.item \in Nat /\ e.low \in Int /\ e.high \in Int /\ e.count \in Nat
      /\ e.ids \in SUBSET (Nat \cup {Unknown})
  BY DEF Pieces
<1>2. r = [item |-> e.item, low |-> e.low, high |-> e.high, count |-> e.count,
           saved |-> e.count, ids |-> e.ids]
  BY DEF Pieces, CopyElement
<1>3. r \in Pieces
  BY <1>1, <1>2 DEF Pieces
<1> QED BY <1>2, <1>3

-----------------------------------------------------------------------------
(* The steps of unionSets() *)

\* The facts about the element that a union comes to.
LEMMA ElementAt ==
  ASSUME NEW X, NEW pos, NEW a, Exact(a, X, pos), NEW i, Cursor(a, i)
  PROVE  /\ a \in Seq(Pieces) /\ i \in Nat /\ Len(a) \in Nat /\ DOMAIN a = 1 .. Len(a)
         /\ i <= Len(a) => /\ i \in DOMAIN a /\ a[i] \in Pieces
                           /\ a[i].low \in Int /\ a[i].high \in Int /\ a[i].low <= a[i].high
                           /\ a[i].count \in Nat
                           /\ \A id \in a[i].ids \ {Unknown} :
                                \E x \in X : x[1] = id /\ Within(pos[x], a[i])
         /\ i + 1 <= Len(a) => /\ i + 1 \in DOMAIN a /\ a[i].high < a[i + 1].low
                               /\ a[i + 1].low \in Int /\ a[i + 1].high \in Int
                               /\ a[i + 1].low <= a[i + 1].high
<1>1. a \in Seq(Pieces) /\ i \in Nat /\ Len(a) \in Nat /\ DOMAIN a = 1 .. Len(a) /\ i >= 1 /\ Spread(a)
  BY DEF Exact, Cursor
<1>2. \A k \in DOMAIN a : /\ a[k] \in Pieces /\ a[k].low \in Int /\ a[k].high \in Int
                         /\ a[k].low <= a[k].high /\ a[k].count \in Nat
  BY <1>1, PieceFields DEF Spread, Ranged
<1>3. ASSUME i <= Len(a)
      PROVE  \A id \in a[i].ids \ {Unknown} : \E x \in X : x[1] = id /\ Within(pos[x], a[i])
  <2>1. i \in DOMAIN a
    BY <1>1, <1>3
  <2>2. a[i].ids \ {Unknown} = {x[1] : x \in InElement(X, pos, a[i])}
    BY <2>1 DEF Exact
  <2> QED BY <2>2 DEF InElement
<1>4. ASSUME i + 1 <= Len(a) PROVE i + 1 \in DOMAIN a /\ a[i].high < a[i + 1].low
  <2>1. i \in DOMAIN a /\ i + 1 \in DOMAIN a /\ i < i + 1
    BY <1>1, <1>4
  <2> QED BY <1>1, <2>1 DEF Spread
<1>5. i <= Len(a) => i \in DOMAIN a
  BY <1>1
<1> QED BY <1>1, <1>2, <1>3, <1>4, <1>5

LEMMA CountedTwice ==
  ASSUME NEW X, IsFiniteSet(X), NEW Y, IsFiniteSet(Y), X \cap Y = {},
         NEW pos, \A x \in X \cup Y : pos[x] \in Int,
         NEW a, NEW i, Exact(a, X, pos), Cursor(a, i), i <= Len(a),
         NEW r, NEW at, Advanced(a, i, X, pos, r, at),
         NEW b, NEW j, NEW pieces \in Seq(Pieces),
         \E own : Grouped(pieces, Counted(a, i, X, pos) \cup Counted(b, j, Y, pos), pos, own),
         NEW e \in Pieces, e.low = a[i].low, e.high = a[i].high, e.ids = a[i].ids,
         e.count = a[i].count
  PROVE  \E own : Grouped(Append(pieces, e),
                          Counted(r, at, X, pos) \cup Counted(b, j, Y, pos), pos, own)
<1> DEFINE F == Fresh(a, i, X, pos)
           Z == Counted(a, i, X, pos) \cup Counted(b, j, Y, pos)
<1>1. \A x \in X : pos[x] \in Int
  OBVIOUS
<1>2. /\ Counted(r, at, X, pos) = Counted(a, i, X, pos) \cup F
      /\ Counted(a, i, X, pos) \cap F = {}
      /\ IsFiniteSet(F) /\ Cardinality(F) = a[i].count
      /\ \A x \in F : x \in X /\ Within(pos[x], a[i]) /\ x[1] \in a[i].ids
  BY <1>1, FreshCounted
<1>3. PICK own : Grouped(pieces, Z, pos, own)
  OBVIOUS
<1>4. Counted(b, j, Y, pos) \cap F = {}
  BY <1>2 DEF Counted
<1>5. \A x \in F : Within(pos[x], e) /\ x[1] \in e.ids
  BY <1>2 DEF Within
<1> HIDE DEF F
<1>6. Z \cap F = {} /\ Counted(r, at, X, pos) \cup Counted(b, j, Y, pos) = Z \cup F
  BY <1>2, <1>4
<1> HIDE DEF Z
<1>7. \E mine : Grouped(Append(pieces, e), Z \cup F, pos, mine)
  BY <1>2, <1>3, <1>5, <1>6, GroupedFurther
<1> QED BY <1>6, <1>7

\* An element is copied.
LEMMA Carried ==
  ASSUME NEW X, IsFiniteSet(X), NEW Y, IsFiniteSet(Y), X \cap Y = {},
         NEW pos, \A x \in X \cup Y : pos[x] \in Int,
         NEW a, NEW i, NEW b, NEW j, NEW pieces, Uniting(a, i, X, b, j, Y, pieces, pos),
         i <= Len(a), j <= Len(b) => a[i].high < b[j].low,
         NEW r, r = [a EXCEPT ![i] = RestoreElementCount(a[i])],
         NEW e, e = CopyElement(a[i])
  PROVE  Uniting(r, i + 1, X, b, j, Y, Append(pieces, e), pos)
<1>1. /\ Exact(a, X, pos) /\ Exact(b, Y, pos) /\ Cursor(a, i) /\ Cursor(b, j)
      /\ pieces \in Seq(Pieces) /\ Ordered(pieces)
      /\ \E own : Grouped(pieces, Counted(a, i, X, pos) \cup Counted(b, j, Y, pos), pos, own)
      /\ Evident(pieces, X \cup Y, pos) /\ SameCover(pieces, a, i, b, j)
      /\ Frontier(a, i, b, j, pieces) /\ Singles(pieces)
  BY DEF Uniting
<1>2. Advanced(a, i, X, pos, r, i + 1)
  BY <1>1, Dropped
<1>3. /\ Len(r) = Len(a) /\ Exact(r, X, pos) /\ Cursor(r, i + 1) /\ SameRanges(a, r)
      /\ Past(r, i + 1) = Past(a, i) \cup {i}
      /\ \A k \in DOMAIN a : r[k].low = a[k].low /\ r[k].high = a[k].high
  BY <1>2 DEF Advanced, SameRanges
<1>4. /\ a \in Seq(Pieces) /\ i \in Nat /\ Len(a) \in Nat
      /\ i \in DOMAIN a /\ a[i] \in Pieces
      /\ a[i].low \in Int /\ a[i].high \in Int /\ a[i].low <= a[i].high
      /\ \A id \in a[i].ids \ {Unknown} : \E x \in X : x[1] = id /\ Within(pos[x], a[i])
      /\ i + 1 <= Len(a) => /\ i + 1 \in DOMAIN a /\ a[i].high < a[i + 1].low
                            /\ a[i + 1].low \in Int
  BY <1>1, ElementAt
<1>5. /\ b \in Seq(Pieces)
      /\ j <= Len(b) => b[j].low \in Int /\ b[j].high \in Int /\ b[j].low <= b[j].high
  BY <1>1, ElementAt
<1>6. /\ e \in Pieces /\ e.low = a[i].low /\ e.high = a[i].high
      /\ e.ids = a[i].ids /\ e.count = a[i].count
  BY <1>4, CopiedPiece
<1>7. ASSUME pieces # <<>>
      PROVE  LET last == pieces[Len(pieces)]
             IN /\ last.low <= e.low /\ last.high <= e.high
                /\ Unknown \notin last.ids => last.high < e.low
  <2> DEFINE last == pieces[Len(pieces)]
  <2>1. FrontierAt(a, i, b, j, last)
    BY <1>1, <1>7 DEF Frontier
  <2>2. last.low \in Int /\ last.high \in Int
    <3>1. Len(pieces) \in DOMAIN pieces
      BY <1>1, <1>7
    <3> QED BY <1>1, <3>1, PieceFields
  <2> HIDE DEF last
  <2>3. last.low <= a[i].low
    BY <2>1 DEF FrontierAt
  <2>4. Beyond(a, i, last.high) => last.high < a[i].low
    BY DEF Beyond
  <2>5. Ahead(a, i, b, j, last.high) => last.high <= a[i].high
    BY DEF Ahead
  <2>6. ~Ahead(b, j, a, i, last.high)
    <3> SUFFICES ASSUME Ahead(b, j, a, i, last.high) PROVE FALSE
      OBVIOUS
    <3>1. j <= Len(b) /\ b[j].low <= a[i].high
      BY DEF Ahead
    <3> QED BY <1>4, <1>5, <3>1
  <2>7. Beyond(a, i, last.high) \/ Ahead(a, i, b, j, last.high)
    BY <2>1, <2>6 DEF FrontierAt
  <2>8. last.high <= a[i].high
    BY <1>4, <2>2, <2>4, <2>5, <2>7
  <2>9. Unknown \notin last.ids => last.high < a[i].low
    BY <2>1, <2>4 DEF FrontierAt
  <2> QED BY <1>6, <2>3, <2>8, <2>9 DEF last
<1>8. Append(pieces, e) \in Seq(Pieces) /\ Ordered(Append(pieces, e)) /\ Singles(Append(pieces, e))
  <2>1. e.low <= e.high
    BY <1>4, <1>6
  <2> QED BY <1>1, <1>6, <1>7, <2>1, OrderedFurther
<1>9. \E own : Grouped(Append(pieces, e),
                       Counted(r, i + 1, X, pos) \cup Counted(b, j, Y, pos), pos, own)
  BY <1>1, <1>2, <1>6, CountedTwice
<1>10. Evident(Append(pieces, e), X \cup Y, pos)
  <2>1. \A id \in e.ids \ {Unknown} : \E x \in X \cup Y : x[1] = id /\ Within(pos[x], e)
    BY <1>4, <1>6 DEF Within
  <2> QED BY <1>1, <2>1, EvidentFurther
<1>11. SameCover(Append(pieces, e), r, i + 1, b, j)
  <2>1. Joins(e, a, {i}, b, {})
    BY <1>4, <1>6 DEF Spans, Joins
  <2>2. SameRanges(b, b) /\ Past(b, j) = Past(b, j) \cup {}
    BY <1>4, <1>5 DEF SameRanges
  <2> QED BY <1>1, <1>3, <2>1, <2>2, CoverFurther
<1>12. Frontier(r, i + 1, b, j, Append(pieces, e))
  <2>1. Append(pieces, e)[Len(Append(pieces, e))] = e
    BY <1>1
  <2>2. i + 1 <= Len(r) => e.low <= r[i + 1].low
    BY <1>3, <1>4, <1>6
  <2>3. j <= Len(b) => e.low <= b[j].low
    BY <1>4, <1>5, <1>6
  <2>4. Beyond(r, i + 1, e.high) /\ Beyond(b, j, e.high)
    BY <1>3, <1>4, <1>6 DEF Beyond
  <2>5. FrontierAt(r, i + 1, b, j, e)
    BY <2>2, <2>3, <2>4 DEF FrontierAt
  <2> QED BY <2>1, <2>5 DEF Frontier
<1> QED BY <1>1, <1>3, <1>8, <1>9, <1>10, <1>11, <1>12 DEF Uniting

LEMMA UnitedPiece ==
  ASSUME NEW e \in Pieces, NEW f \in Pieces, NEW u, u = UnionElements(e, f)
  PROVE  /\ u \in Pieces /\ u.low = Least(e.low, f.low) /\ u.high = Greatest(e.high, f.high)
         /\ u.ids = {Unknown} \cup e.ids \cup f.ids /\ u.count = e.count + f.count
<1>1. /\ e.low \in Int /\ e.high \in Int /\ e.count \in Nat
      /\ e.ids \in SUBSET (Nat \cup {Unknown})
      /\ f.low \in Int /\ f.high \in Int /\ f.count \in Nat
      /\ f.ids \in SUBSET (Nat \cup {Unknown})
  BY DEF Pieces
<1>2. u = [item |-> 0, low |-> Least(e.low, f.low), high |-> Greatest(e.high, f.high),
           count |-> e.count + f.count, saved |-> 0, ids |-> {Unknown} \cup e.ids \cup f.ids]
  BY DEF UnionElements
<1>3. Least(e.low, f.low) \in Int /\ Greatest(e.high, f.high) \in Int
  BY <1>1 DEF Least, Greatest
<1>4. e.count + f.count \in Nat
  BY <1>1
<1>5. u \in Pieces
  BY <1>1, <1>2, <1>3, <1>4 DEF Pieces
<1> QED BY <1>2, <1>5

\* The list and the position that MergeOverlapping leaves, if the element is done
\* with or if it stays.
Left(a, i, drop) ==
  [a EXCEPT ![i] = IF drop THEN RestoreElementCount(a[i]) ELSE SaveElementCount(a[i])]
At(i, drop) == IF drop THEN i + 1 ELSE i

LEMMA Leaves ==
  ASSUME NEW X, IsFiniteSet(X), NEW pos, NEW a, Exact(a, X, pos), NEW i, Cursor(a, i),
         i <= Len(a), NEW drop \in BOOLEAN
  PROVE  Advanced(a, i, X, pos, Left(a, i, drop), At(i, drop))
<1>1. CASE drop
  <2>1. Left(a, i, drop) = [a EXCEPT ![i] = RestoreElementCount(a[i])] /\ At(i, drop) = i + 1
    BY <1>1 DEF Left, At
  <2> QED BY <2>1, Dropped
<1>2. CASE ~drop
  <2>1. Left(a, i, drop) = [a EXCEPT ![i] = SaveElementCount(a[i])] /\ At(i, drop) = i
    BY <1>2 DEF Left, At
  <2> QED BY <2>1, Kept
<1> QED BY <1>1, <1>2

\* Element e comprises c and d.
Comprises(e, c, d, Z, pos) ==
  /\ c.ids \cup d.ids \subseteq e.ids
  /\ \A x \in Z : Within(pos[x], c) \/ Within(pos[x], d) => Within(pos[x], e)

\* Readings of two elements at once.
LEMMA CountedBoth ==
  ASSUME NEW X, IsFiniteSet(X), NEW Y, IsFiniteSet(Y), X \cap Y = {},
         NEW pos, \A x \in X \cup Y : pos[x] \in Int,
         NEW a, NEW i, Exact(a, X, pos), Cursor(a, i), i <= Len(a),
         NEW r, NEW at, Advanced(a, i, X, pos, r, at),
         NEW b, NEW j, Exact(b, Y, pos), Cursor(b, j), j <= Len(b),
         NEW t, NEW to, Advanced(b, j, Y, pos, t, to),
         NEW pieces \in Seq(Pieces),
         \E own : Grouped(pieces, Counted(a, i, X, pos) \cup Counted(b, j, Y, pos), pos, own),
         NEW e \in Pieces, e.count = a[i].count + b[j].count,
         Comprises(e, a[i], b[j], X \cup Y, pos)
  PROVE  \E own : Grouped(Append(pieces, e),
                          Counted(r, at, X, pos) \cup Counted(t, to, Y, pos), pos, own)
<1> DEFINE F == Fresh(a, i, X, pos)
           G == Fresh(b, j, Y, pos)
           Z == Counted(a, i, X, pos) \cup Counted(b, j, Y, pos)
<1>1. (\A x \in X : pos[x] \in Int) /\ (\A x \in Y : pos[x] \in Int)
  OBVIOUS
<1>2. /\ Counted(r, at, X, pos) = Counted(a, i, X, pos) \cup F
      /\ Counted(a, i, X, pos) \cap F = {}
      /\ IsFiniteSet(F) /\ Cardinality(F) = a[i].count
      /\ \A x \in F : x \in X /\ Within(pos[x], a[i]) /\ x[1] \in a[i].ids
  BY <1>1, FreshCounted
<1>3. /\ Counted(t, to, Y, pos) = Counted(b, j, Y, pos) \cup G
      /\ Counted(b, j, Y, pos) \cap G = {}
      /\ IsFiniteSet(G) /\ Cardinality(G) = b[j].count
      /\ \A x \in G : x \in Y /\ Within(pos[x], b[j]) /\ x[1] \in b[j].ids
  BY <1>1, FreshCounted
<1>4. PICK own : Grouped(pieces, Z, pos, own)
  OBVIOUS
<1>5. Counted(a, i, X, pos) \subseteq X /\ Counted(b, j, Y, pos) \subseteq Y
  BY DEF Counted
<1> HIDE DEF F, G
<1>6. F \cap G = {}
  BY <1>2, <1>3
<1>7. IsFiniteSet(F \cup G) /\ Cardinality(F \cup G) = e.count
  BY <1>2, <1>3, <1>6, DisjointCardinality
<1>8. \A x \in F \cup G : Within(pos[x], e) /\ x[1] \in e.ids
  BY <1>2, <1>3 DEF Comprises
<1>9. /\ Z \cap (F \cup G) = {}
      /\ Counted(r, at, X, pos) \cup Counted(t, to, Y, pos) = Z \cup (F \cup G)
  BY <1>2, <1>3, <1>5
<1> HIDE DEF Z
<1>10. \E mine : Grouped(Append(pieces, e), Z \cup (F \cup G), pos, mine)
  BY <1>4, <1>7, <1>8, <1>9, GroupedFurther
<1> QED BY <1>9, <1>10

\* The hull of two intervals that meet covers what they cover.
LEMMA HullCovers ==
  ASSUME NEW al \in Int, NEW ah \in Int, NEW bl \in Int, NEW bh \in Int,
         NEW el \in Int, NEW eh \in Int, NEW p \in Int,
         al <= ah, bl <= bh, el <= al, el <= bl, el = al \/ el = bl,
         ah <= eh, bh <= eh, eh = ah \/ eh = bh, al <= bh, bl <= ah
  PROVE  2 * el <= p /\ p <= 2 * eh <=> (2 * al <= p /\ p <= 2 * ah) \/ (2 * bl <= p /\ p <= 2 * bh)
OBVIOUS

\* Two elements become one.
LEMMA Met ==
  ASSUME NEW X, IsFiniteSet(X), NEW Y, IsFiniteSet(Y), X \cap Y = {},
         NEW pos, \A x \in X \cup Y : pos[x] \in Int,
         NEW a, NEW i, NEW b, NEW j, NEW pieces, Uniting(a, i, X, b, j, Y, pieces, pos),
         i <= Len(a), j <= Len(b), Overlap(a[i], b[j]),
         NEW dropA \in BOOLEAN, dropA <=> a[i].high <= b[j].high,
         NEW dropB \in BOOLEAN, dropB <=> b[j].high <= a[i].high,
         NEW e, e = UnionElements(a[i], b[j])
  PROVE  Uniting(Left(a, i, dropA), At(i, dropA), X, Left(b, j, dropB), At(j, dropB), Y,
                 Append(pieces, e), pos)
<1> DEFINE r == Left(a, i, dropA)
           at == At(i, dropA)
           t == Left(b, j, dropB)
           to == At(j, dropB)
<1>1. /\ Exact(a, X, pos) /\ Exact(b, Y, pos) /\ Cursor(a, i) /\ Cursor(b, j)
      /\ pieces \in Seq(Pieces) /\ Ordered(pieces)
      /\ \E own : Grouped(pieces, Counted(a, i, X, pos) \cup Counted(b, j, Y, pos), pos, own)
      /\ Evident(pieces, X \cup Y, pos) /\ SameCover(pieces, a, i, b, j)
      /\ Frontier(a, i, b, j, pieces) /\ Singles(pieces)
  BY DEF Uniting
<1>2. Advanced(a, i, X, pos, r, at) /\ Advanced(b, j, Y, pos, t, to)
  <2>1. Advanced(a, i, X, pos, r, at)
    BY <1>1, Leaves
  <2>2. Advanced(b, j, Y, pos, t, to)
    BY <1>1, Leaves
  <2> QED BY <2>1, <2>2
<1> HIDE DEF r, t
<1>3. /\ Len(r) = Len(a) /\ Exact(r, X, pos) /\ Cursor(r, at) /\ SameRanges(a, r)
      /\ Past(r, at) = Past(a, i) \cup {i}
      /\ \A k \in DOMAIN a : r[k].low = a[k].low /\ r[k].high = a[k].high
      /\ Len(t) = Len(b) /\ Exact(t, Y, pos) /\ Cursor(t, to) /\ SameRanges(b, t)
      /\ Past(t, to) = Past(b, j) \cup {j}
      /\ \A k \in DOMAIN b : t[k].low = b[k].low /\ t[k].high = b[k].high
  BY <1>2 DEF Advanced, SameRanges
<1>4. /\ a \in Seq(Pieces) /\ i \in Nat /\ Len(a) \in Nat
      /\ i \in DOMAIN a /\ a[i] \in Pieces
      /\ a[i].low \in Int /\ a[i].high \in Int /\ a[i].low <= a[i].high
      /\ \A id \in a[i].ids \ {Unknown} : \E x \in X : x[1] = id /\ Within(pos[x], a[i])
      /\ i + 1 <= Len(a) => /\ i + 1 \in DOMAIN a /\ a[i].high < a[i + 1].low
                            /\ a[i + 1].low \in Int /\ a[i + 1].high \in Int
                            /\ a[i + 1].low <= a[i + 1].high
  BY <1>1, ElementAt
<1>5. /\ b \in Seq(Pieces) /\ j \in Nat /\ Len(b) \in Nat
      /\ j \in DOMAIN b /\ b[j] \in Pieces
      /\ b[j].low \in Int /\ b[j].high \in Int /\ b[j].low <= b[j].high
      /\ \A id \in b[j].ids \ {Unknown} : \E x \in Y : x[1] = id /\ Within(pos[x], b[j])
      /\ j + 1 <= Len(b) => /\ j + 1 \in DOMAIN b /\ b[j].high < b[j + 1].low
                            /\ b[j + 1].low \in Int /\ b[j + 1].high \in Int
                            /\ b[j + 1].low <= b[j + 1].high
  BY <1>1, ElementAt
<1>6. /\ e \in Pieces /\ e.low = Least(a[i].low, b[j].low) /\ e.high = Greatest(a[i].high, b[j].high)
      /\ e.ids = {Unknown} \cup a[i].ids \cup b[j].ids /\ e.count = a[i].count + b[j].count
  BY <1>4, <1>5, UnitedPiece
<1> HIDE DEF at, to
<1>7. /\ e.low \in Int /\ e.high \in Int
      /\ e.low <= a[i].low /\ e.low <= b[j].low /\ (e.low = a[i].low \/ e.low = b[j].low)
      /\ e.high >= a[i].high /\ e.high >= b[j].high /\ (e.high = a[i].high \/ e.high = b[j].high)
      /\ a[i].low <= b[j].high /\ b[j].low <= a[i].high
  BY <1>4, <1>5, <1>6 DEF Least, Greatest, Overlap
<1>8. ASSUME pieces # <<>>
      PROVE  LET last == pieces[Len(pieces)]
             IN /\ last.low <= e.low /\ last.high <= e.high
                /\ Unknown \notin last.ids => last.high < e.low
  <2> DEFINE last == pieces[Len(pieces)]
  <2>1. FrontierAt(a, i, b, j, last)
    BY <1>1, <1>8 DEF Frontier
  <2>2. last.low \in Int /\ last.high \in Int
    <3>1. Len(pieces) \in DOMAIN pieces
      BY <1>1, <1>8
    <3> QED BY <1>1, <3>1, PieceFields
  <2> HIDE DEF last
  <2>3. last.low <= a[i].low /\ last.low <= b[j].low
    BY <2>1 DEF FrontierAt
  <2>4. Beyond(a, i, last.high) /\ Beyond(b, j, last.high) => last.high < a[i].low /\ last.high < b[j].low
    BY DEF Beyond
  <2>5. Ahead(a, i, b, j, last.high) => last.high <= a[i].high
    BY DEF Ahead
  <2>6. Ahead(b, j, a, i, last.high) => last.high <= b[j].high
    BY DEF Ahead
  <2>7. last.high < a[i].low \/ last.high <= a[i].high \/ last.high <= b[j].high
    BY <2>1, <2>4, <2>5, <2>6 DEF FrontierAt
  <2>8. last.low <= e.low /\ last.high <= e.high
    BY <1>4, <1>5, <1>7, <2>2, <2>3, <2>7, SMTT(30)
  <2>9. Unknown \notin last.ids => last.high < a[i].low /\ last.high < b[j].low
    BY <2>1, <2>4 DEF FrontierAt
  <2>10. Unknown \notin last.ids => last.high < e.low
    BY <1>7, <2>9
  <2> QED BY <2>8, <2>10 DEF last
<1>9. Append(pieces, e) \in Seq(Pieces) /\ Ordered(Append(pieces, e)) /\ Singles(Append(pieces, e))
  <2>1. e.low <= e.high
    BY <1>4, <1>7
  <2> QED BY <1>1, <1>6, <1>8, <2>1, OrderedFurther
<1>10. \A x \in X \cup Y : Within(pos[x], a[i]) \/ Within(pos[x], b[j]) => Within(pos[x], e)
  BY <1>4, <1>5, <1>7, SMTT(30) DEF Within
<1>11. \E own : Grouped(Append(pieces, e),
                        Counted(r, at, X, pos) \cup Counted(t, to, Y, pos), pos, own)
  <2>1. Comprises(e, a[i], b[j], X \cup Y, pos)
    BY <1>6, <1>10 DEF Comprises
  <2> QED BY <1>1, <1>2, <1>6, <2>1, CountedBoth, ZenonT(60)
<1>12. Evident(Append(pieces, e), X \cup Y, pos)
  <2> SUFFICES ASSUME NEW id \in e.ids \ {Unknown}
               PROVE  \E x \in X \cup Y : x[1] = id /\ Within(pos[x], e)
    BY <1>1, EvidentFurther
  <2>1. PICK x \in X \cup Y : x[1] = id /\ (Within(pos[x], a[i]) \/ Within(pos[x], b[j]))
    BY <1>4, <1>5, <1>6
  <2> QED BY <1>10, <2>1
<1>13. SameCover(Append(pieces, e), r, at, t, to)
  <2>1. ASSUME NEW p \in Int
        PROVE  Spans(p, e) <=> Spans(p, a[i]) \/ Spans(p, b[j])
    <3>1. PICK al \in Int, ah \in Int, bl \in Int, bh \in Int :
            al = a[i].low /\ ah = a[i].high /\ bl = b[j].low /\ bh = b[j].high
      BY <1>4, <1>5
    <3>2. PICK el \in Int, eh \in Int : el = e.low /\ eh = e.high
      BY <1>7
    <3>3. /\ al <= ah /\ bl <= bh /\ el <= al /\ el <= bl /\ (el = al \/ el = bl)
          /\ ah <= eh /\ bh <= eh /\ (eh = ah \/ eh = bh) /\ al <= bh /\ bl <= ah
      BY <1>4, <1>5, <1>7, <3>1, <3>2
    <3>4. 2 * el <= p /\ p <= 2 * eh
            <=> (2 * al <= p /\ p <= 2 * ah) \/ (2 * bl <= p /\ p <= 2 * bh)
      BY <3>3, HullCovers
    <3> QED BY <3>1, <3>2, <3>4 DEF Spans
  <2>2. Joins(e, a, {i}, b, {j})
    BY <1>4, <1>5, <2>1 DEF Joins
  <2> QED BY <1>1, <1>3, <2>2, CoverFurther
<1>14. FrontierAt(r, at, t, to, e)
  <2>1. Unknown \in e.ids
    BY <1>6
  <2>6. /\ r[i].low = a[i].low /\ r[i].high = a[i].high
        /\ i + 1 <= Len(a) => r[i + 1].low = a[i + 1].low /\ r[i + 1].high = a[i + 1].high
        /\ t[j].low = b[j].low /\ t[j].high = b[j].high
        /\ j + 1 <= Len(b) => t[j + 1].low = b[j + 1].low /\ t[j + 1].high = b[j + 1].high
        /\ Len(r) = Len(a) /\ Len(t) = Len(b)
    BY <1>3, <1>4, <1>5
  <2>7. (dropA <=> a[i].high <= b[j].high) /\ (dropB <=> b[j].high <= a[i].high)
    OBVIOUS
  <2>8. at = (IF dropA THEN i + 1 ELSE i) /\ to = (IF dropB THEN j + 1 ELSE j)
    BY DEF at, to, At
  <2>2. CASE dropA /\ dropB
    <3>1. at = i + 1 /\ to = j + 1 /\ e.high = a[i].high /\ e.high = b[j].high
      BY <1>4, <1>5, <1>7, <2>2, <2>7, <2>8
    <3>2. (at <= Len(r) => e.low <= r[at].low) /\ (to <= Len(t) => e.low <= t[to].low)
      BY <1>4, <1>5, <1>7, <2>6, <3>1
    <3>3. Beyond(r, at, e.high) /\ Beyond(t, to, e.high)
      BY <1>4, <1>5, <2>6, <3>1 DEF Beyond
    <3> QED BY <3>2, <3>3 DEF FrontierAt
  <2>3. CASE dropA /\ ~dropB
    <3>1. at = i + 1 /\ to = j /\ e.high = b[j].high
      BY <1>4, <1>5, <1>7, <2>3, <2>7, <2>8
    <3>2. (at <= Len(r) => e.low <= r[at].low) /\ (to <= Len(t) => e.low <= t[to].low)
      BY <1>4, <1>5, <1>7, <2>6, <3>1
    <3>3. at <= Len(r) => t[to].low <= r[at].high
      BY <1>4, <1>5, <1>7, <2>6, <3>1, SMTT(30)
    <3>4. to <= Len(t) /\ e.high <= t[to].high
      BY <1>5, <1>7, <2>6, <3>1
    <3>5. Ahead(t, to, r, at, e.high)
      BY <3>3, <3>4 DEF Ahead
    <3> QED BY <2>1, <3>2, <3>5 DEF FrontierAt
  <2>4. CASE ~dropA /\ dropB
    <3>1. at = i /\ to = j + 1 /\ e.high = a[i].high
      BY <1>4, <1>5, <1>7, <2>4, <2>7, <2>8
    <3>2. (at <= Len(r) => e.low <= r[at].low) /\ (to <= Len(t) => e.low <= t[to].low)
      BY <1>4, <1>5, <1>7, <2>6, <3>1, SMTT(30)
    <3>3. to <= Len(t) => r[at].low <= t[to].high
      BY <1>4, <1>5, <1>7, <2>6, <3>1, SMTT(30)
    <3>4. at <= Len(r) /\ e.high <= r[at].high
      BY <1>4, <1>7, <2>6, <3>1
    <3>5. Ahead(r, at, t, to, e.high)
      BY <3>3, <3>4 DEF Ahead
    <3> QED BY <2>1, <3>2, <3>5 DEF FrontierAt
  <2>5. dropA \/ dropB
    BY <1>4, <1>5, <2>7
  <2> QED BY <2>2, <2>3, <2>4, <2>5
<1>15. Frontier(r, at, t, to, Append(pieces, e))
  <2>1. Append(pieces, e)[Len(Append(pieces, e))] = e
    BY <1>1
  <2> QED BY <1>14, <2>1 DEF Frontier
<1>16. Uniting(r, at, X, t, to, Y, Append(pieces, e), pos)
  BY <1>3, <1>9, <1>11, <1>12, <1>13, <1>15 DEF Uniting
<1> QED BY <1>16 DEF r, at, t, to

-----------------------------------------------------------------------------
(* Ranges that have grown *)

HasGrown(e, X, sz, n) == \E x, y \in X : Grown(e, x, y, X, sz, n)

LEMMA GrownJoined ==
  ASSUME NEW X, NEW sz, \A x \in X : sz[x] \in Nat, NEW n \in 0 .. FuzzRounds,
         NEW e, HasGrown(e, X, sz, n), e.high \in Int,
         NEW d, HasGrown(d, X, sz, n), d.high \in Int, e.low <= d.low,
         NEW h, h.low = e.low, h.high = d.high
  PROVE  HasGrown(h, X, sz, n)
<1>1. PICK x \in X, y \in X : Grown(e, x, y, X, sz, n)
  BY DEF HasGrown
<1>2. PICK u \in X, v \in X : Grown(d, u, v, X, sz, n)
  BY DEF HasGrown
<1>3. CASE sz[x] <= sz[u]
  <2>1. Grown(h, x, v, X, sz, n)
    BY <1>1, <1>2, <1>3, GrownHull
  <2> QED BY <2>1 DEF HasGrown
<1>4. CASE ~(sz[x] <= sz[u])
  <2>1. /\ sz[u] \in Nat /\ sz[x] \in Nat /\ sz[u] <= sz[x] /\ FuzzRounds - n \in Nat
        /\ e.low = sz[x] * (FuzzRounds - n) /\ d.low = sz[u] * (FuzzRounds - n)
    BY <1>1, <1>2, <1>4, FuzzAssumption DEF Grown
  <2>2. /\ sz[u] * (FuzzRounds - n) <= sz[x] * (FuzzRounds - n)
        /\ sz[u] * (FuzzRounds - n) \in Nat /\ sz[x] * (FuzzRounds - n) \in Nat
    BY <2>1, ProductsGrow
  <2>3. h.low = d.low
    BY <2>1, <2>2
  <2>4. Grown(h, u, v, X, sz, n)
    BY <1>2, <2>3 DEF Grown
  <2> QED BY <2>4 DEF HasGrown
<1> QED BY <1>3, <1>4

\* What two elements become has grown as they have.
LEMMA UnitedGrown ==
  ASSUME NEW X, NEW sz, \A x \in X : sz[x] \in Nat, NEW n \in 0 .. FuzzRounds,
         NEW e \in Pieces, HasGrown(e, X, sz, n), NEW f \in Pieces, HasGrown(f, X, sz, n)
  PROVE  HasGrown(UnionElements(e, f), X, sz, n)
<1> DEFINE u == UnionElements(e, f)
<1>1. u.low = Least(e.low, f.low) /\ u.high = Greatest(e.high, f.high)
  BY UnitedPiece
<1>2. e.low \in Int /\ e.high \in Int /\ f.low \in Int /\ f.high \in Int
  BY DEF Pieces
<1> HIDE DEF u
<1>3. CASE e.low <= f.low /\ e.high >= f.high
  <2>1. u.low = e.low /\ u.high = e.high
    BY <1>1, <1>3 DEF Least, Greatest
  <2> QED BY <2>1 DEF HasGrown, Grown, u
<1>4. CASE e.low <= f.low /\ ~(e.high >= f.high)
  <2>1. u.low = e.low /\ u.high = f.high
    BY <1>1, <1>4 DEF Least, Greatest
  <2> QED BY <1>2, <1>4, <2>1, GrownJoined DEF u
<1>5. CASE ~(e.low <= f.low) /\ e.high >= f.high
  <2>1. u.low = f.low /\ u.high = e.high /\ f.low <= e.low
    BY <1>1, <1>2, <1>5 DEF Least, Greatest
  <2> QED BY <1>2, <2>1, GrownJoined DEF u
<1>6. CASE ~(e.low <= f.low) /\ ~(e.high >= f.high)
  <2>1. u.low = f.low /\ u.high = f.high
    BY <1>1, <1>6 DEF Least, Greatest
  <2> QED BY <2>1 DEF HasGrown, Grown, u
<1> QED BY <1>3, <1>4, <1>5, <1>6

LEMMA MiddlingFurther ==
  ASSUME NEW pieces \in Seq(Pieces), NEW X, NEW sz, NEW n, Middling(pieces, X, sz, n),
         NEW e, HasGrown(e, X, sz, n)
  PROVE  Middling(Append(pieces, e), X, sz, n)
<1> DEFINE r == Append(pieces, e)
<1>1. /\ DOMAIN r = DOMAIN pieces \cup {Len(pieces) + 1} /\ r[Len(pieces) + 1] = e
      /\ \A k \in DOMAIN pieces : r[k] = pieces[k]
  OBVIOUS
<1> HIDE DEF r
<1>2. \A k \in DOMAIN r : HasGrown(r[k], X, sz, n)
  BY <1>1 DEF Middling, HasGrown
<1>3. Middling(r, X, sz, n)
  BY <1>2 DEF Middling, HasGrown
<1> QED BY <1>3 DEF r

LEMMA MiddlingKept ==
  ASSUME NEW X, NEW Y, X \subseteq Y, NEW sz, NEW n, NEW a, Middling(a, X, sz, n),
         NEW r, SameRanges(a, r)
  PROVE  Middling(r, Y, sz, n)
BY DEF Middling, Grown, SameRanges

LEMMA MiddlingCoalesced ==
  ASSUME NEW X, NEW sz, \A x \in X : sz[x] \in Nat, NEW n \in 0 .. FuzzRounds,
         NEW set \in Seq(Pieces), Ordered(set), Middling(set, X, sz, n)
  PROVE  Middling(CoalesceSet(set), X, sz, n)
<1> DEFINE c == CoalesceSet(set)
           N == Len(set)
<1>1. EndsOf(c, set, N) /\ DOMAIN set = 1 .. N
  BY CoalesceIs DEF Coalesced
<1> HIDE DEF c
<1>2. ASSUME NEW k \in DOMAIN c PROVE HasGrown(c[k], X, sz, n)
  <2>1. PICK i \in 1 .. N, j \in 1 .. N :
          i <= j /\ c[k].high = set[j].high /\ c[k].low = set[i].low
    BY <1>1 DEF EndsOf
  <2>2. HasGrown(set[i], X, sz, n) /\ HasGrown(set[j], X, sz, n)
    BY <1>1 DEF Middling, HasGrown
  <2>3. set[i].high \in Int /\ set[j].high \in Int
    BY <1>1, PieceFields
  <2>4. set[i].low <= set[j].low
    BY <1>1, <2>1 DEF Ordered
  <2> QED BY <2>1, <2>2, <2>3, <2>4, GrownJoined
<1> QED BY <1>2 DEF Middling, HasGrown, c

-----------------------------------------------------------------------------
(* The end of a union *)

\* c is the union of a and b.
Completes(c, a, X, b, Y, sz, n, pos) ==
  /\ Exact(c, X \cup Y, pos) /\ Settled(c) /\ Middling(c, X \cup Y, sz, n)
  /\ Settled(a) /\ Settled(b)
  /\ \A p \in Int : (\E k \in DOMAIN c : Spans(p, c[k])) <=>
                      \/ \E k \in DOMAIN a : Spans(p, a[k])
                      \/ \E k \in DOMAIN b : Spans(p, b[k])

\* All of a list is past at its end.
LEMMA AllPast ==
  ASSUME NEW X, NEW pos, NEW a, Exact(a, X, pos), NEW i, Cursor(a, i), ~(i <= Len(a))
  PROVE  Past(a, i) = DOMAIN a /\ Settled(a) /\ Counted(a, i, X, pos) = X /\ X # {}
<1>1. /\ a \in Seq(Pieces) /\ a # <<>> /\ Len(a) \in Nat /\ DOMAIN a = 1 .. Len(a)
      /\ i \in 1 .. Len(a) + 1
      /\ \A k \in DOMAIN a : k # i => a[k].count > 0
      /\ \A x \in X : \E k \in DOMAIN a : Within(pos[x], a[k])
      /\ \A k \in DOMAIN a : InElement(X, pos, a[k]) # {}
  BY DEF Exact, Cursor
<1>2. \A k \in DOMAIN a : k < i /\ k # i
  BY <1>1
<1>3. Past(a, i) = DOMAIN a /\ Settled(a)
  BY <1>1, <1>2 DEF Past, Settled
<1>4. X # {}
  <2>1. 1 \in DOMAIN a
    BY <1>1
  <2> QED BY <1>1, <2>1 DEF InElement
<1> QED BY <1>1, <1>3, <1>4 DEF Counted

LEMMA Completed ==
  ASSUME NEW X, IsFiniteSet(X), NEW Y, IsFiniteSet(Y), NEW sz, NEW pos,
         \A x \in X \cup Y : sz[x] \in Nat /\ pos[x] = sz[x] * FuzzRounds /\ x[1] \in Nat,
         NEW n \in 0 .. FuzzRounds,
         NEW a, NEW i, NEW b, NEW j, NEW pieces, Uniting(a, i, X, b, j, Y, pieces, pos),
         ~(i <= Len(a)), ~(j <= Len(b)), Middling(pieces, X \cup Y, sz, n)
  PROVE  Completes(CoalesceSet(pieces), a, X, b, Y, sz, n, pos)
<1> DEFINE c == CoalesceSet(pieces)
           Z == X \cup Y
<1>1. /\ Exact(a, X, pos) /\ Exact(b, Y, pos) /\ Cursor(a, i) /\ Cursor(b, j)
      /\ pieces \in Seq(Pieces) /\ Ordered(pieces)
      /\ Evident(pieces, Z, pos) /\ SameCover(pieces, a, i, b, j)
  BY DEF Uniting
<1>2. /\ Past(a, i) = DOMAIN a /\ Settled(a) /\ Counted(a, i, X, pos) = X /\ X # {}
      /\ Past(b, j) = DOMAIN b /\ Settled(b) /\ Counted(b, j, Y, pos) = Y
  BY <1>1, AllPast
<1>3. PICK own : Grouped(pieces, Z, pos, own)
  BY <1>2 DEF Uniting
<1>4. pieces # <<>>
  <2>1. PICK x \in Z : TRUE
    BY <1>2
  <2>2. own[x] \in DOMAIN pieces
    BY <1>3 DEF Grouped
  <2> QED BY <2>2
<1>5. IsFiniteSet(Z)
  BY FS_Union
<1>6. \A x \in Z : pos[x] \in Int /\ x[1] \in Nat /\ sz[x] \in Nat
  BY FuzzAssumption
<1> HIDE DEF Z
<1>7. \A k \in DOMAIN pieces : InElement(Z, pos, pieces[k]) # {}
  <2> SUFFICES ASSUME NEW k \in DOMAIN pieces PROVE \E x \in Z : Within(pos[x], pieces[k])
    BY DEF InElement
  <2>1. PICK x \in Z, y \in Z : Grown(pieces[k], x, y, Z, sz, n)
    BY DEF Middling, Z
  <2>2. pieces[k].low \in Int /\ pieces[k].high \in Int
    BY <1>1, PieceFields
  <2>3. Within(sz[x] * FuzzRounds, pieces[k])
    BY <1>6, <2>1, <2>2, GrownContains
  <2>4. pos[x] = sz[x] * FuzzRounds
    BY DEF Z
  <2> QED BY <2>3, <2>4
<1>8. Exact(c, Z, pos) /\ Settled(c)
  BY <1>1, <1>3, <1>4, <1>5, <1>6, <1>7, CoalesceExact
<1>9. Middling(c, Z, sz, n)
  BY <1>1, <1>6, MiddlingCoalesced DEF Z
<1>10. CoverOf(c, pieces, Len(pieces)) /\ c \in Seq(Pieces)
  BY <1>1, CoalesceIs DEF Coalesced
<1> HIDE DEF c
<1>11. DOMAIN pieces = 1 .. Len(pieces)
  BY <1>1
<1>12. ASSUME NEW p \in Int
       PROVE  (\E k \in DOMAIN c : Spans(p, c[k])) <=> (\E k \in DOMAIN pieces : Spans(p, pieces[k]))
  <2>1. ASSUME NEW i0 \in DOMAIN pieces, Spans(p, pieces[i0])
        PROVE  \E k \in DOMAIN c : Spans(p, c[k])
    <3>1. PICK k \in DOMAIN c : Inside(pieces[i0], c[k])
      BY <1>10, <1>11 DEF CoverOf
    <3>2. /\ pieces[i0].low \in Int /\ pieces[i0].high \in Int
          /\ c[k].low \in Int /\ c[k].high \in Int
      BY <1>1, <1>10, PieceFields
    <3>3. Spans(p, c[k])
      BY <2>1, <3>1, <3>2 DEF Spans, Inside
    <3> QED BY <3>3
  <2> QED BY <1>10, <1>11, <2>1 DEF CoverOf
<1>13. \A p \in Int : (\E k \in DOMAIN c : Spans(p, c[k])) <=>
                        \/ \E k \in DOMAIN a : Spans(p, a[k])
                        \/ \E k \in DOMAIN b : Spans(p, b[k])
  BY <1>1, <1>2, <1>12 DEF SameCover
<1> QED BY <1>2, <1>8, <1>9, <1>13 DEF Completes, c, Z

\* A union begins with nothing.
LEMMA UnionBegins ==
  ASSUME NEW X, NEW Y, NEW pos, NEW a, Exact(a, X, pos), Settled(a),
         NEW b, Exact(b, Y, pos), Settled(b)
  PROVE  Uniting(a, 1, X, b, 1, Y, <<>>, pos)
<1>1. a \in Seq(Pieces) /\ b \in Seq(Pieces)
  BY DEF Exact
<1>2. Past(a, 1) = {} /\ Past(b, 1) = {}
  BY <1>1 DEF Past, Settled
<1>3. Cursor(a, 1) /\ Cursor(b, 1)
  BY <1>1 DEF Cursor, Settled
<1>4. Counted(a, 1, X, pos) \cup Counted(b, 1, Y, pos) = {}
  BY <1>2 DEF Counted
<1>5. /\ <<>> \in Seq(Pieces) /\ DOMAIN <<>> = {} /\ Len(<<>>) = 0
  OBVIOUS
<1>6. Grouped(<<>>, {}, pos, [x \in {} |-> 1])
  BY <1>5 DEF Grouped
<1>7. /\ Ordered(<<>>) /\ Evident(<<>>, X \cup Y, pos) /\ SameCover(<<>>, a, 1, b, 1)
      /\ Frontier(a, 1, b, 1, <<>>) /\ Singles(<<>>)
  BY <1>2, <1>5 DEF Ordered, Ranged, Evident, SameCover, Frontier, Singles
<1> QED BY <1>1, <1>3, <1>4, <1>5, <1>6, <1>7 DEF Uniting

-----------------------------------------------------------------------------
(* The readings of a matrix *)

LEMMA PointsFacts ==
  ASSUME NEW rd, RowsAscend(rd), NEW T \in SUBSET Numbers(rd)
  PROVE  /\ IsFiniteSet(Points(rd, T)) /\ Points(rd, T) \subseteq Points(rd, Numbers(rd))
         /\ \A x \in Points(rd, T) :
              /\ x[1] \in T /\ x[1] \in Nat
              /\ Size(rd)[x] \in Nat /\ Place(rd)[x] = Size(rd)[x] * FuzzRounds
              /\ Place(rd)[x] \in Int
              /\ Size(rd)[x] = rd[x[1] + 1][x[2]]
<1>1. rd \in Seq(Seq(Nat \ {0})) /\ Len(rd) \in Nat
  BY DEF RowsAscend
<1>2. IsFiniteSet(T)
  <2>1. IsFiniteSet(Numbers(rd))
    BY <1>1, FS_Interval DEF Numbers
  <2> QED BY <2>1, FS_Subset
<1>3. \A s \in Numbers(rd) : s \in Nat /\ s + 1 \in DOMAIN rd /\ rd[s + 1] \in Seq(Nat \ {0})
  BY <1>1 DEF Numbers
<1> DEFINE Part == [s \in T |-> DOMAIN rd[s + 1]]
           f == [s \in T |-> Cardinality(Part[s])]
<1>4. \A s \in T : Part[s] \in SUBSET Nat /\ IsFiniteSet(Part[s])
  <2> SUFFICES ASSUME NEW s \in T PROVE DOMAIN rd[s + 1] \in SUBSET Nat /\ IsFiniteSet(DOMAIN rd[s + 1])
    OBVIOUS
  <2>1. DOMAIN rd[s + 1] = 1 .. Len(rd[s + 1]) /\ Len(rd[s + 1]) \in Nat
    BY <1>3
  <2> QED BY <2>1, FS_Interval
<1>5. Points(rd, T) = PairsOver(T, Part)
  BY DEF Points, PairsOver
<1>6. \A s \in T : f[s] = Cardinality(Part[s])
  OBVIOUS
<1> HIDE DEF Part, f
<1>7. IsFiniteSet(Points(rd, T))
  BY <1>2, <1>4, <1>5, <1>6, SumOfPairs
<1>8. Points(rd, T) \subseteq Points(rd, Numbers(rd))
  BY DEF Points
<1>9. ASSUME NEW x \in Points(rd, T)
      PROVE  /\ x[1] \in T /\ x[1] \in Nat
             /\ Size(rd)[x] \in Nat /\ Place(rd)[x] = Size(rd)[x] * FuzzRounds
             /\ Place(rd)[x] \in Int
             /\ Size(rd)[x] = rd[x[1] + 1][x[2]]
  <2>1. x \in Points(rd, Numbers(rd)) /\ x[1] \in T /\ x[2] \in DOMAIN rd[x[1] + 1]
    BY <1>8 DEF Points
  <2>2. Size(rd)[x] = rd[x[1] + 1][x[2]] /\ Place(rd)[x] = rd[x[1] + 1][x[2]] * FuzzRounds
    BY <2>1 DEF Size, Place
  <2>3. rd[x[1] + 1][x[2]] \in Nat /\ x[1] \in Nat
    BY <1>3, <2>1
  <2>4. rd[x[1] + 1][x[2]] * FuzzRounds \in Int
    BY <2>3, FuzzAssumption
  <2> QED BY <2>1, <2>2, <2>3, <2>4
<1> QED BY <1>7, <1>8, <1>9

LEMMA PointsSplit ==
  ASSUME NEW rd, NEW m \in Nat
  PROVE  /\ Points(rd, 0 .. m) = Points(rd, 0 .. m - 1) \cup Points(rd, {m})
         /\ Points(rd, 0 .. m - 1) \cap Points(rd, {m}) = {}
<1>1. 0 .. m = (0 .. m - 1) \cup {m} /\ m \notin 0 .. m - 1
  OBVIOUS
<1> QED BY <1>1 DEF Points

LEMMA BaseSetShapes ==
  ASSUME NEW rd, RowsAscend(rd), NEW s \in Numbers(rd), NEW n \in Nat,
         NEW list, BaseSet(list, s, n, rd)
  PROVE  Shapes(list) = RangesAt(rd[s + 1], n)
<1>1. CASE n = 0
  <2> DEFINE row == rd[s + 1]
  <2>1. list = [k \in DOMAIN row |-> BaseElement(row[k], s)]
    BY <1>1 DEF BaseSet, CreateSet
  <2> HIDE DEF row
  <2>2. \A k \in DOMAIN row :
          [low |-> list[k].low, high |-> list[k].high, step |-> list[k].item] = C!Point(row[k])
    BY <2>1 DEF BaseElement, C!Point
  <2>3. Shapes(list) = RowPoints(row)
    BY <2>1, <2>2 DEF Shapes, RowPoints
  <2> QED BY <1>1, <2>3, RangesGrow DEF row
<1>2. CASE n # 0
  BY <1>2 DEF BaseSet
<1> QED BY <1>1, <1>2

\* A base set can be widened, and is exact then.
LEMMA BaseSetReady ==
  ASSUME NEW rd, RowsAscend(rd), NEW s \in Numbers(rd), NEW n \in Nat,
         NEW list, BaseSet(list, s, n, rd), Settled(list)
  PROVE  Ready(list, Points(rd, {s}), Size(rd), Place(rd), n)
<1>1. {s} \in SUBSET Numbers(rd)
  OBVIOUS
<1>2. /\ IsFiniteSet(Points(rd, {s}))
      /\ \A x \in Points(rd, {s}) :
           /\ x[1] \in {s} /\ x[1] \in Nat
           /\ Size(rd)[x] \in Nat /\ Place(rd)[x] = Size(rd)[x] * FuzzRounds
           /\ Place(rd)[x] \in Int
           /\ Size(rd)[x] = rd[x[1] + 1][x[2]]
  BY <1>1, PointsFacts
<1>3. CASE n = 0
  <2> DEFINE row == rd[s + 1]
  <2>1. s \in Nat /\ s + 1 \in DOMAIN rd
    BY DEF Numbers, RowsAscend
  <2>2. /\ row \in Seq(Nat \ {0}) /\ row # <<>>
        /\ \A j, k \in DOMAIN row : j <= k => row[j] <= row[k]
    BY <2>1 DEF RowsAscend
  <2>3. Points(rd, {s}) = {x \in {s} \X Nat : x[2] \in DOMAIN row}
    BY DEF Points
  <2>4. \A x \in Points(rd, {s}) : Size(rd)[x] = row[x[2]] /\ Place(rd)[x] = Size(rd)[x] * FuzzRounds
    BY <1>2
  <2>5. list = CreateSet(row, s)
    BY <1>3 DEF BaseSet
  <2> HIDE DEF row
  <2> QED BY <1>3, <2>1, <2>2, <2>3, <2>4, <2>5, CreatedReady
<1>4. CASE n # 0
  <2>1. Exact(list, Points(rd, {s}), Place(rd)) /\ Fuzzed(list, Points(rd, {s}), Size(rd), n)
    BY <1>4 DEF BaseSet
  <2> QED BY <1>2, <2>1, SettledReady
<1> QED BY <1>3, <1>4

LEMMA BaseSetWidens ==
  ASSUME NEW rd, RowsAscend(rd), NEW s \in Numbers(rd), NEW n \in Nat, n < FuzzRounds,
         NEW list, BaseSet(list, s, n, rd), Settled(list)
  PROVE  /\ BaseSet(AdjustFuzz(list), s, n + 1, rd) /\ Settled(AdjustFuzz(list))
         /\ Exact(AdjustFuzz(list), Points(rd, {s}), Place(rd))
         /\ Len(AdjustFuzz(list)) <= Len(list)
<1>1. {s} \in SUBSET Numbers(rd)
  OBVIOUS
<1>2. /\ IsFiniteSet(Points(rd, {s}))
      /\ \A x \in Points(rd, {s}) :
           /\ Size(rd)[x] \in Nat /\ Place(rd)[x] = Size(rd)[x] * FuzzRounds /\ x[1] \in Nat
  BY <1>1, PointsFacts
<1>3. Ready(list, Points(rd, {s}), Size(rd), Place(rd), n)
  BY BaseSetReady
<1>4. /\ Exact(AdjustFuzz(list), Points(rd, {s}), Place(rd)) /\ Settled(AdjustFuzz(list))
      /\ Fuzzed(AdjustFuzz(list), Points(rd, {s}), Size(rd), n + 1)
      /\ Len(AdjustFuzz(list)) <= Len(list)
      /\ Shapes(AdjustFuzz(list)) = GrownTogether(Shapes(list))
  BY <1>2, <1>3, ReadyWidened
<1>5. n + 1 # 0
  OBVIOUS
<1>6. Shapes(AdjustFuzz(list)) = RangesAt(rd[s + 1], n + 1)
  BY <1>4, BaseSetShapes, RangesGrow
<1> QED BY <1>4, <1>5, <1>6 DEF BaseSet

LEMMA BaseSetMiddling ==
  ASSUME NEW rd, NEW s, NEW n \in Nat, n # 0, NEW list, BaseSet(list, s, n, rd)
  PROVE  Middling(list, Points(rd, {s}), Size(rd), n)
BY DEF BaseSet, Fuzzed, Middling

\* Counts do not matter for what a base set is.
LEMMA BaseSetKept ==
  ASSUME NEW rd, NEW s, NEW n \in Nat, n # 0, NEW a, BaseSet(a, s, n, rd),
         NEW r, SameRanges(a, r), Exact(r, Points(rd, {s}), Place(rd))
  PROVE  BaseSet(r, s, n, rd)
<1>1. Fuzzed(a, Points(rd, {s}), Size(rd), n)
  BY DEF BaseSet
<1>2. Fuzzed(r, Points(rd, {s}), Size(rd), n)
  BY <1>1, ZenonT(60) DEF Fuzzed, SameRanges, Grown
<1>3. Shapes(r) = Shapes(a)
  BY DEF Shapes, SameRanges
<1> QED BY <1>2, <1>3 DEF BaseSet

-----------------------------------------------------------------------------
(* A step of a union *)

\* Where the lists are, and what they unite.
LEMMA UnionFacts ==
  ASSUME NEW rd, RowsAscend(rd), NEW ls, NEW nx, NEW n, NEW a, NEW i, NEW b, NEW j,
         NEW pieces, UnionInv(ls, nx, n, rd, a, i, b, j, pieces)
  PROVE  /\ nx \in 2 .. Len(rd) /\ nx \in Nat /\ Len(rd) \in Nat
         /\ a # b /\ a \in DOMAIN ls /\ b \in DOMAIN ls /\ b \in Numbers(rd)
         /\ a = Merged <=> nx # 2
         /\ 0 .. nx - 2 \in SUBSET Numbers(rd) /\ {nx - 1} \in SUBSET Numbers(rd)
         /\ 0 .. nx - 1 \in SUBSET Numbers(rd)
         /\ Points(rd, 0 .. nx - 1) = Points(rd, 0 .. nx - 2) \cup Points(rd, {nx - 1})
         /\ Points(rd, 0 .. nx - 2) \cap Points(rd, {nx - 1}) = {}
<1>1. /\ nx \in 2 .. Len(rd) /\ b = nx - 1 /\ a = (IF nx = 2 THEN 0 ELSE Merged)
      /\ DOMAIN ls = Numbers(rd) \cup {Merged}
  BY DEF UnionInv, Begun
<1>2. Len(rd) \in Nat
  BY DEF RowsAscend
<1>3. nx - 1 \in Nat /\ nx \in Nat /\ (nx - 1) - 1 = nx - 2
  BY <1>1, <1>2
<1>4. /\ Points(rd, 0 .. nx - 1) = Points(rd, 0 .. nx - 2) \cup Points(rd, {nx - 1})
      /\ Points(rd, 0 .. nx - 2) \cap Points(rd, {nx - 1}) = {}
  <2>1. /\ Points(rd, 0 .. nx - 1) = Points(rd, 0 .. (nx - 1) - 1) \cup Points(rd, {nx - 1})
        /\ Points(rd, 0 .. (nx - 1) - 1) \cap Points(rd, {nx - 1}) = {}
    BY <1>3, PointsSplit
  <2> QED BY <1>3, <2>1
<1>5. a # b /\ a \in DOMAIN ls /\ b \in DOMAIN ls /\ b \in Numbers(rd) /\ (a = Merged <=> nx # 2)
  BY <1>1, <1>2 DEF Numbers, Merged
<1>6. /\ 0 .. nx - 2 \in SUBSET Numbers(rd) /\ {nx - 1} \in SUBSET Numbers(rd)
      /\ 0 .. nx - 1 \in SUBSET Numbers(rd)
  BY <1>1, <1>2 DEF Numbers
<1> QED BY <1>1, <1>2, <1>3, <1>4, <1>5, <1>6

\* What an element spans does not change with its counts.
LEMMA SpansSame ==
  ASSUME NEW a, NEW r, SameRanges(a, r), NEW p
  PROVE  (\E k \in DOMAIN r : Spans(p, r[k])) <=> (\E k \in DOMAIN a : Spans(p, a[k]))
BY DEF SameRanges, Spans

\* The two lists are changed in their counts, and another piece is added.
LEMMA UnionGoesOn ==
  ASSUME NEW rd, RowsAscend(rd), NEW ls, NEW nx, NEW n \in Nat, NEW a, NEW i, NEW b, NEW j,
         NEW pieces, UnionInv(ls, nx, n, rd, a, i, b, j, pieces),
         NEW new, DOMAIN new = DOMAIN ls, \A s \in DOMAIN ls \ {a, b} : new[s] = ls[s],
         SameRanges(ls[a], new[a]), SameRanges(ls[b], new[b]),
         NEW e, HasGrown(e, Points(rd, 0 .. nx - 1), Size(rd), n),
         NEW i2, NEW j2,
         Uniting(new[a], i2, Points(rd, 0 .. nx - 2), new[b], j2, Points(rd, {nx - 1}),
                 Append(pieces, e), Place(rd))
  PROVE  UnionInv(new, nx, n, rd, a, i2, b, j2, Append(pieces, e))
<1>1. /\ Begun(ls, rd) /\ nx \in 2 .. Len(rd) /\ n >= 1
      /\ b = nx - 1 /\ a = (IF nx = 2 THEN 0 ELSE Merged)
      /\ Uniting(ls[a], i, Points(rd, 0 .. nx - 2), ls[b], j, Points(rd, {nx - 1}), pieces, Place(rd))
      /\ Middling(pieces, Points(rd, 0 .. nx - 1), Size(rd), n)
      /\ Unites(ls[a], 0 .. nx - 2, ls, n, rd)
      /\ \A s \in Numbers(rd) : BaseSet(ls[s], s, Level(s, nx, n), rd)
      /\ \A s \in Numbers(rd) \ {a, b} : Settled(ls[s])
      /\ nx = 2 => ls[Merged] = <<>>
  BY DEF UnionInv
<1>2. /\ nx \in Nat /\ Len(rd) \in Nat
      /\ a # b /\ a \in DOMAIN ls /\ b \in DOMAIN ls /\ b \in Numbers(rd)
      /\ a = Merged <=> nx # 2
      /\ 0 .. nx - 2 \in SUBSET Numbers(rd)
  BY UnionFacts, ZenonT(60)
<1>3. DOMAIN ls = Numbers(rd) \cup {Merged}
  BY <1>1 DEF Begun
<1>4. Begun(new, rd)
  BY <1>1 DEF Begun
<1>5. nx = 2 => new[Merged] = <<>>
  <2> SUFFICES ASSUME nx = 2 PROVE new[Merged] = <<>>
    OBVIOUS
  <2>1. Merged # a /\ Merged # b /\ Merged \in DOMAIN ls
    BY <1>1, <1>3 DEF Merged
  <2> QED BY <1>1, <2>1
<1>6. \A s \in Numbers(rd) \ {a, b} : new[s] = ls[s]
  BY <1>3
<1>7. /\ Exact(new[a], Points(rd, 0 .. nx - 2), Place(rd))
      /\ Exact(new[b], Points(rd, {nx - 1}), Place(rd))
      /\ pieces \in Seq(Pieces)
  BY <1>1 DEF Uniting
<1>8. Middling(Append(pieces, e), Points(rd, 0 .. nx - 1), Size(rd), n)
  BY <1>1, <1>7, MiddlingFurther
<1>9. Unites(new[a], 0 .. nx - 2, new, n, rd)
  <2>1. /\ Middling(ls[a], Points(rd, 0 .. nx - 2), Size(rd), n)
        /\ \A p \in Int : (\E k \in DOMAIN ls[a] : Spans(p, ls[a][k])) <=>
                            \E s \in 0 .. nx - 2 : \E k \in DOMAIN ls[s] : Spans(p, ls[s][k])
    BY <1>1 DEF Unites
  <2>2. Middling(new[a], Points(rd, 0 .. nx - 2), Size(rd), n)
    BY <2>1, MiddlingKept
  <2>3. \A s \in DOMAIN ls : \A p \in Int :
          (\E k \in DOMAIN new[s] : Spans(p, new[s][k])) <=> (\E k \in DOMAIN ls[s] : Spans(p, ls[s][k]))
    <3> SUFFICES ASSUME NEW s \in DOMAIN ls, NEW p \in Int
                 PROVE  (\E k \in DOMAIN new[s] : Spans(p, new[s][k]))
                          <=> (\E k \in DOMAIN ls[s] : Spans(p, ls[s][k]))
      OBVIOUS
    <3>1. CASE s \in {a, b}
      BY <3>1, SpansSame
    <3>2. CASE s \notin {a, b}
      BY <3>2
    <3> QED BY <3>1, <3>2
  <2>4. \A s \in 0 .. nx - 2 : s \in DOMAIN ls
    BY <1>2, <1>3
  <2>5. \A p \in Int : (\E k \in DOMAIN new[a] : Spans(p, new[a][k])) <=>
                          \E s \in 0 .. nx - 2 : \E k \in DOMAIN new[s] : Spans(p, new[s][k])
    <3> TAKE p \in Int
    <3>1. (\E k \in DOMAIN new[a] : Spans(p, new[a][k])) <=> (\E k \in DOMAIN ls[a] : Spans(p, ls[a][k]))
      BY <1>2, <2>3
    <3>2. \A s \in 0 .. nx - 2 : (\E k \in DOMAIN new[s] : Spans(p, new[s][k]))
                                   <=> (\E k \in DOMAIN ls[s] : Spans(p, ls[s][k]))
      BY <2>3, <2>4
    <3> QED BY <2>1, <3>1, <3>2
  <2> QED BY <1>7, <2>2, <2>5 DEF Unites
<1>10. n # 0 /\ Level(b, nx, n) = n
  BY <1>1, <1>2 DEF Level
<1>11. \A s \in Numbers(rd) : BaseSet(new[s], s, Level(s, nx, n), rd)
  <2> SUFFICES ASSUME NEW s \in Numbers(rd) PROVE BaseSet(new[s], s, Level(s, nx, n), rd)
    OBVIOUS
  <2>1. CASE s = b
    BY <1>1, <1>7, <1>10, <2>1, BaseSetKept
  <2>2. CASE s = a
    <3>1. nx = 2 /\ s = 0
      BY <1>1, <2>2 DEF Numbers, Merged
    <3>2. Level(s, nx, n) = n /\ 0 .. nx - 2 = {s}
      BY <3>1 DEF Level
    <3> QED BY <1>1, <1>7, <1>10, <2>2, <3>2, BaseSetKept
  <2>3. CASE s \notin {a, b}
    BY <1>1, <1>6, <2>3
  <2> QED BY <2>1, <2>2, <2>3
<1>12. \A s \in Numbers(rd) \ {a, b} : Settled(new[s])
  BY <1>1, <1>6
<1> QED BY <1>1, <1>4, <1>5, <1>8, <1>9, <1>11, <1>12 DEF UnionInv

\* Both elements that a union has come to have grown from its readings.
LEMMA ElementsGrown ==
  ASSUME NEW rd, RowsAscend(rd), NEW ls, NEW nx, NEW n \in Nat, NEW a, NEW i, NEW b, NEW j,
         NEW pieces, UnionInv(ls, nx, n, rd, a, i, b, j, pieces)
  PROVE  /\ i <= Len(ls[a]) => /\ i \in DOMAIN ls[a] /\ ls[a][i] \in Pieces
                               /\ HasGrown(ls[a][i], Points(rd, 0 .. nx - 1), Size(rd), n)
                               /\ ls[a][i].low <= ls[a][i].high
         /\ j <= Len(ls[b]) => /\ j \in DOMAIN ls[b] /\ ls[b][j] \in Pieces
                               /\ HasGrown(ls[b][j], Points(rd, 0 .. nx - 1), Size(rd), n)
                               /\ ls[b][j].low <= ls[b][j].high
<1>1. /\ n >= 1 /\ b = nx - 1
      /\ Uniting(ls[a], i, Points(rd, 0 .. nx - 2), ls[b], j, Points(rd, {nx - 1}), pieces, Place(rd))
      /\ Unites(ls[a], 0 .. nx - 2, ls, n, rd)
      /\ \A s \in Numbers(rd) : BaseSet(ls[s], s, Level(s, nx, n), rd)
  BY DEF UnionInv
<1>2. /\ nx \in Nat /\ b \in Numbers(rd)
      /\ Points(rd, 0 .. nx - 1) = Points(rd, 0 .. nx - 2) \cup Points(rd, {nx - 1})
  BY UnionFacts
<1>3. Level(b, nx, n) = n /\ n # 0
  BY <1>1, <1>2 DEF Level
<1>4. Middling(ls[a], Points(rd, 0 .. nx - 2), Size(rd), n)
  BY <1>1 DEF Unites
<1>5. BaseSet(ls[b], nx - 1, n, rd)
  BY <1>1, <1>2, <1>3
<1>6. Middling(ls[b], Points(rd, {nx - 1}), Size(rd), n)
  BY <1>3, <1>5, BaseSetMiddling
<1>7. /\ Cursor(ls[a], i) /\ Cursor(ls[b], j)
      /\ ls[a] \in Seq(Pieces) /\ ls[b] \in Seq(Pieces)
      /\ Ranged(ls[a]) /\ Ranged(ls[b])
  BY <1>1 DEF Uniting, Exact, Spread
<1>8. ASSUME i <= Len(ls[a])
      PROVE  /\ i \in DOMAIN ls[a] /\ ls[a][i] \in Pieces
             /\ HasGrown(ls[a][i], Points(rd, 0 .. nx - 1), Size(rd), n)
             /\ ls[a][i].low <= ls[a][i].high
  <2>1. i \in DOMAIN ls[a]
    BY <1>7, <1>8 DEF Cursor
  <2>2. HasGrown(ls[a][i], Points(rd, 0 .. nx - 1), Size(rd), n)
    BY <1>2, <1>4, <2>1 DEF Middling, HasGrown, Grown
  <2> QED BY <1>7, <2>1, <2>2 DEF Ranged
<1>9. ASSUME j <= Len(ls[b])
      PROVE  /\ j \in DOMAIN ls[b] /\ ls[b][j] \in Pieces
             /\ HasGrown(ls[b][j], Points(rd, 0 .. nx - 1), Size(rd), n)
             /\ ls[b][j].low <= ls[b][j].high
  <2>1. j \in DOMAIN ls[b]
    BY <1>7, <1>9 DEF Cursor
  <2>2. HasGrown(ls[b][j], Points(rd, 0 .. nx - 1), Size(rd), n)
    BY <1>2, <1>6, <2>1 DEF Middling, HasGrown, Grown
  <2> QED BY <1>7, <2>1, <2>2 DEF Ranged
<1> QED BY <1>8, <1>9

\* What the lemmas about two lists ask of the readings.
LEMMA UnionReadings ==
  ASSUME NEW rd, RowsAscend(rd), NEW ls, NEW nx, NEW n, NEW a, NEW i, NEW b, NEW j,
         NEW pieces, UnionInv(ls, nx, n, rd, a, i, b, j, pieces)
  PROVE  /\ IsFiniteSet(Points(rd, 0 .. nx - 2)) /\ IsFiniteSet(Points(rd, {nx - 1}))
         /\ Points(rd, 0 .. nx - 2) \cap Points(rd, {nx - 1}) = {}
         /\ \A x \in Points(rd, 0 .. nx - 2) \cup Points(rd, {nx - 1}) : Place(rd)[x] \in Int
<1>1. /\ 0 .. nx - 2 \in SUBSET Numbers(rd) /\ {nx - 1} \in SUBSET Numbers(rd)
      /\ Points(rd, 0 .. nx - 2) \cap Points(rd, {nx - 1}) = {}
  BY UnionFacts
<1>2. IsFiniteSet(Points(rd, 0 .. nx - 2)) /\ \A x \in Points(rd, 0 .. nx - 2) : Place(rd)[x] \in Int
  BY <1>1, PointsFacts
<1>3. IsFiniteSet(Points(rd, {nx - 1})) /\ \A x \in Points(rd, {nx - 1}) : Place(rd)[x] \in Int
  BY <1>1, PointsFacts
<1> QED BY <1>1, <1>2, <1>3

\* A list in which one element is restored or put aside.
LEMMA LeftRanges ==
  ASSUME NEW X, IsFiniteSet(X), NEW pos, NEW a, Exact(a, X, pos), NEW i, Cursor(a, i),
         i <= Len(a), NEW drop \in BOOLEAN
  PROVE  SameRanges(a, Left(a, i, drop))
BY Leaves DEF Advanced

LEMMA SameAsItIs ==
  ASSUME NEW a \in Seq(Pieces)
  PROVE  SameRanges(a, a)
BY DEF SameRanges

LEMMA CarriesLeft ==
  ASSUME NEW rd, RowsAscend(rd), NEW ls, NEW nx, NEW n \in Nat, NEW a, NEW i, NEW b, NEW j,
         NEW pieces, UnionInv(ls, nx, n, rd, a, i, b, j, pieces),
         i <= Len(ls[a]), j <= Len(ls[b]) => ls[a][i].high < ls[b][j].low,
         NEW new, new = [ls EXCEPT ![a][i] = RestoreElementCount(ls[a][i])]
  PROVE  UnionInv(new, nx, n, rd, a, i + 1, b, j, Append(pieces, CopyElement(ls[a][i])))
<1> DEFINE e == CopyElement(ls[a][i])
           X == Points(rd, 0 .. nx - 2)
           Y == Points(rd, {nx - 1})
<1>1. /\ a # b /\ a \in DOMAIN ls /\ b \in DOMAIN ls
  BY UnionFacts
<1>2. /\ DOMAIN new = DOMAIN ls /\ new[a] = [ls[a] EXCEPT ![i] = RestoreElementCount(ls[a][i])]
      /\ new[b] = ls[b] /\ \A s \in DOMAIN ls \ {a, b} : new[s] = ls[s]
  BY <1>1
<1>3. Uniting(ls[a], i, X, ls[b], j, Y, pieces, Place(rd))
  BY DEF UnionInv
<1>4. Exact(ls[a], X, Place(rd)) /\ Cursor(ls[a], i) /\ ls[b] \in Seq(Pieces)
  BY <1>3 DEF Uniting, Exact
<1>5. /\ IsFiniteSet(X) /\ IsFiniteSet(Y) /\ X \cap Y = {}
      /\ \A x \in X \cup Y : Place(rd)[x] \in Int
  BY UnionReadings
<1>6. ls[a][i] \in Pieces /\ HasGrown(ls[a][i], Points(rd, 0 .. nx - 1), Size(rd), n)
  BY ElementsGrown
<1>7. HasGrown(e, Points(rd, 0 .. nx - 1), Size(rd), n)
  <2>1. e.low = ls[a][i].low /\ e.high = ls[a][i].high
    BY <1>6, CopiedPiece
  <2> QED BY <1>6, <2>1 DEF HasGrown, Grown
<1>8. Uniting(new[a], i + 1, X, new[b], j, Y, Append(pieces, e), Place(rd))
  BY <1>2, <1>3, <1>5, Carried
<1>9. SameRanges(ls[a], new[a])
  <2>1. new[a] = Left(ls[a], i, TRUE)
    BY <1>2 DEF Left
  <2> QED BY <1>4, <1>5, <2>1, LeftRanges
<1>10. SameRanges(ls[b], new[b])
  BY <1>2, <1>4, SameAsItIs
<1> HIDE DEF e
<1> QED BY <1>2, <1>7, <1>8, <1>9, <1>10, UnionGoesOn DEF e

LEMMA CarriesRight ==
  ASSUME NEW rd, RowsAscend(rd), NEW ls, NEW nx, NEW n \in Nat, NEW a, NEW i, NEW b, NEW j,
         NEW pieces, UnionInv(ls, nx, n, rd, a, i, b, j, pieces),
         j <= Len(ls[b]), i <= Len(ls[a]) => ls[b][j].high < ls[a][i].low,
         NEW new, new = [ls EXCEPT ![b][j] = RestoreElementCount(ls[b][j])]
  PROVE  UnionInv(new, nx, n, rd, a, i, b, j + 1, Append(pieces, CopyElement(ls[b][j])))
<1> DEFINE e == CopyElement(ls[b][j])
           X == Points(rd, 0 .. nx - 2)
           Y == Points(rd, {nx - 1})
<1>1. /\ a # b /\ a \in DOMAIN ls /\ b \in DOMAIN ls
  BY UnionFacts
<1>2. /\ DOMAIN new = DOMAIN ls /\ new[b] = [ls[b] EXCEPT ![j] = RestoreElementCount(ls[b][j])]
      /\ new[a] = ls[a] /\ \A s \in DOMAIN ls \ {a, b} : new[s] = ls[s]
  BY <1>1
<1>3. Uniting(ls[a], i, X, ls[b], j, Y, pieces, Place(rd))
  BY DEF UnionInv
<1>4. Exact(ls[b], Y, Place(rd)) /\ Cursor(ls[b], j) /\ ls[a] \in Seq(Pieces)
  BY <1>3 DEF Uniting, Exact
<1>5. /\ IsFiniteSet(X) /\ IsFiniteSet(Y) /\ Y \cap X = {}
      /\ \A x \in Y \cup X : Place(rd)[x] \in Int
  BY UnionReadings
<1>6. ls[b][j] \in Pieces /\ HasGrown(ls[b][j], Points(rd, 0 .. nx - 1), Size(rd), n)
  BY ElementsGrown
<1>7. HasGrown(e, Points(rd, 0 .. nx - 1), Size(rd), n)
  <2>1. e.low = ls[b][j].low /\ e.high = ls[b][j].high
    BY <1>6, CopiedPiece
  <2> QED BY <1>6, <2>1 DEF HasGrown, Grown
<1>8. Uniting(ls[b], j, Y, ls[a], i, X, pieces, Place(rd))
  BY <1>3, UnitingSwaps
<1>9. Uniting(new[b], j + 1, Y, new[a], i, X, Append(pieces, e), Place(rd))
  BY <1>2, <1>5, <1>8, Carried
<1>10. Uniting(new[a], i, X, new[b], j + 1, Y, Append(pieces, e), Place(rd))
  BY <1>9, UnitingSwaps
<1>11. SameRanges(ls[b], new[b])
  <2>1. new[b] = Left(ls[b], j, TRUE)
    BY <1>2 DEF Left
  <2> QED BY <1>4, <1>5, <2>1, LeftRanges
<1>12. SameRanges(ls[a], new[a])
  BY <1>2, <1>4, SameAsItIs
<1> HIDE DEF e
<1> QED BY <1>2, <1>7, <1>10, <1>11, <1>12, UnionGoesOn DEF e

LEMMA MergesBoth ==
  ASSUME NEW rd, RowsAscend(rd), NEW ls, NEW nx, NEW n \in 0 .. FuzzRounds,
         NEW a, NEW i, NEW b, NEW j, NEW pieces, UnionInv(ls, nx, n, rd, a, i, b, j, pieces),
         i <= Len(ls[a]), j <= Len(ls[b]), Overlap(ls[a][i], ls[b][j]),
         NEW dropA \in BOOLEAN, dropA <=> ls[a][i].high <= ls[b][j].high,
         NEW dropB \in BOOLEAN, dropB <=> ls[b][j].high <= ls[a][i].high,
         NEW new, DOMAIN new = DOMAIN ls, \A s \in DOMAIN ls \ {a, b} : new[s] = ls[s],
         new[a] = Left(ls[a], i, dropA), new[b] = Left(ls[b], j, dropB)
  PROVE  UnionInv(new, nx, n, rd, a, At(i, dropA), b, At(j, dropB),
                  Append(pieces, UnionElements(ls[a][i], ls[b][j])))
<1> DEFINE e == UnionElements(ls[a][i], ls[b][j])
           X == Points(rd, 0 .. nx - 2)
           Y == Points(rd, {nx - 1})
<1>1. Uniting(ls[a], i, X, ls[b], j, Y, pieces, Place(rd))
  BY DEF UnionInv
<1>2. /\ Exact(ls[a], X, Place(rd)) /\ Cursor(ls[a], i)
      /\ Exact(ls[b], Y, Place(rd)) /\ Cursor(ls[b], j)
  BY <1>1 DEF Uniting
<1>3. /\ IsFiniteSet(X) /\ IsFiniteSet(Y) /\ X \cap Y = {}
      /\ \A x \in X \cup Y : Place(rd)[x] \in Int
  BY UnionReadings
<1>4. n \in Nat
  BY FuzzAssumption
<1>5. /\ ls[a][i] \in Pieces /\ HasGrown(ls[a][i], Points(rd, 0 .. nx - 1), Size(rd), n)
      /\ ls[b][j] \in Pieces /\ HasGrown(ls[b][j], Points(rd, 0 .. nx - 1), Size(rd), n)
  BY <1>4, ElementsGrown
<1>6. 0 .. nx - 1 \in SUBSET Numbers(rd)
  BY UnionFacts
<1>7. \A x \in Points(rd, 0 .. nx - 1) : Size(rd)[x] \in Nat
  BY <1>6, PointsFacts
<1>8. HasGrown(e, Points(rd, 0 .. nx - 1), Size(rd), n)
  BY <1>5, <1>7, UnitedGrown
<1>9. Uniting(new[a], At(i, dropA), X, new[b], At(j, dropB), Y, Append(pieces, e), Place(rd))
  <2>1. Uniting(Left(ls[a], i, dropA), At(i, dropA), X, Left(ls[b], j, dropB), At(j, dropB), Y,
                Append(pieces, e), Place(rd))
    <3> HIDE DEF X, Y, e
    <3>1. e = UnionElements(ls[a][i], ls[b][j])
      BY DEF e
    <3> QED BY <1>1, <1>3, <3>1, Met
  <2> QED BY <2>1
<1>10. SameRanges(ls[a], new[a]) /\ SameRanges(ls[b], new[b])
  BY <1>2, <1>3, LeftRanges
<1> HIDE DEF e
<1> QED BY <1>4, <1>8, <1>9, <1>10, UnionGoesOn DEF e

-----------------------------------------------------------------------------
(* From union to union *)

\* A round begins with the two sets of largest probes.
LEMMA RoundBegins ==
  ASSUME NEW rd, RowsAscend(rd), NEW n \in Nat, n < FuzzRounds, NEW ls, RoundInv(ls, n, rd),
         NEW new, new = [ls EXCEPT ![0] = AdjustFuzz(ls[0]), ![1] = AdjustFuzz(ls[1])]
  PROVE  UnionInv(new, 2, n + 1, rd, 0, 1, 1, 1, <<>>)
<1>1. /\ Begun(ls, rd) /\ ls[Merged] = <<>>
      /\ \A s \in Numbers(rd) : BaseSet(ls[s], s, n, rd) /\ Settled(ls[s])
      /\ DOMAIN ls = Numbers(rd) \cup {Merged} /\ Len(rd) >= 2
  BY DEF RoundInv, Begun
<1>2. Len(rd) \in Nat /\ 2 \in 2 .. Len(rd) /\ 0 \in Numbers(rd) /\ 1 \in Numbers(rd)
  BY <1>1 DEF RowsAscend, Numbers
<1>3. /\ DOMAIN new = DOMAIN ls /\ new[0] = AdjustFuzz(ls[0]) /\ new[1] = AdjustFuzz(ls[1])
      /\ \A s \in DOMAIN ls \ {0, 1} : new[s] = ls[s]
  BY <1>1, <1>2
<1>4. \A s \in {0, 1} : /\ BaseSet(new[s], s, n + 1, rd) /\ Settled(new[s])
                        /\ Exact(new[s], Points(rd, {s}), Place(rd))
  <2> SUFFICES ASSUME NEW s \in {0, 1}
               PROVE  /\ BaseSet(new[s], s, n + 1, rd) /\ Settled(new[s])
                      /\ Exact(new[s], Points(rd, {s}), Place(rd))
    OBVIOUS
  <2>1. s \in Numbers(rd) /\ new[s] = AdjustFuzz(ls[s])
    BY <1>2, <1>3
  <2>2. BaseSet(ls[s], s, n, rd) /\ Settled(ls[s])
    BY <1>1, <2>1
  <2> QED BY <2>1, <2>2, BaseSetWidens
<1>5. Begun(new, rd)
  BY <1>1, <1>3 DEF Begun
<1>6. new[Merged] = <<>>
  BY <1>1, <1>3 DEF Merged
<1>7. \A s \in Numbers(rd) : BaseSet(new[s], s, Level(s, 2, n + 1), rd) /\ Settled(new[s])
  <2> SUFFICES ASSUME NEW s \in Numbers(rd)
               PROVE  BaseSet(new[s], s, Level(s, 2, n + 1), rd) /\ Settled(new[s])
    OBVIOUS
  <2>1. CASE s \in {0, 1}
    <3>1. Level(s, 2, n + 1) = n + 1
      BY <2>1 DEF Level
    <3> QED BY <1>4, <2>1, <3>1
  <2>2. CASE s \notin {0, 1}
    <3>1. s >= 2 /\ s \in DOMAIN ls
      BY <1>1, <2>2 DEF Numbers
    <3>2. Level(s, 2, n + 1) = n
      BY <3>1 DEF Level
    <3> QED BY <1>1, <1>3, <2>2, <3>1, <3>2
  <2> QED BY <2>1, <2>2
<1>8. 0 .. 2 - 2 = {0} /\ {2 - 1} = {1} /\ 2 - 1 = 1
  OBVIOUS
<1>9. Uniting(new[0], 1, Points(rd, {0}), new[1], 1, Points(rd, {1}), <<>>, Place(rd))
  BY <1>4, UnionBegins
<1>10. Middling(<<>>, Points(rd, 0 .. 2 - 1), Size(rd), n + 1)
  BY DEF Middling
<1>11. Unites(new[0], {0}, new, n + 1, rd)
  <2>1. n + 1 \in Nat /\ n + 1 # 0
    OBVIOUS
  <2>2. Middling(new[0], Points(rd, {0}), Size(rd), n + 1)
    BY <1>4, <2>1, BaseSetMiddling
  <2> QED BY <1>4, <2>2 DEF Unites
<1>12. n + 1 >= 1
  OBVIOUS
<1> QED BY <1>2, <1>5, <1>6, <1>7, <1>8, <1>9, <1>10, <1>11, <1>12 DEF UnionInv

\* The merged set is united with the set of the next smaller probes.
LEMMA MergeGoesOn ==
  ASSUME NEW rd, RowsAscend(rd), NEW n \in 1 .. FuzzRounds, NEW nx, NEW ls,
         MergeInv(ls, nx, n, rd), nx < Len(rd),
         NEW new, new = [ls EXCEPT ![nx] = AdjustFuzz(ls[nx])]
  PROVE  UnionInv(new, nx + 1, n, rd, Merged, 1, nx, 1, <<>>)
<1>1. /\ Begun(ls, rd) /\ nx \in 2 .. Len(rd) /\ n >= 1
      /\ \A s \in Numbers(rd) : BaseSet(ls[s], s, Level(s, nx, n), rd) /\ Settled(ls[s])
      /\ Unites(ls[Merged], 0 .. nx - 1, ls, n, rd) /\ Settled(ls[Merged])
      /\ DOMAIN ls = Numbers(rd) \cup {Merged}
  BY DEF MergeInv, Begun
<1>2. /\ Len(rd) \in Nat /\ nx \in Nat /\ nx + 1 \in 2 .. Len(rd) /\ nx \in Numbers(rd)
      /\ nx # Merged /\ (nx + 1) - 1 = nx /\ (nx + 1) - 2 = nx - 1 /\ nx + 1 # 2
      /\ n - 1 \in Nat /\ n - 1 < FuzzRounds /\ (n - 1) + 1 = n
  BY <1>1, FuzzAssumption DEF RowsAscend, Numbers, Merged
<1>3. /\ DOMAIN new = DOMAIN ls /\ new[nx] = AdjustFuzz(ls[nx])
      /\ \A s \in DOMAIN ls \ {nx} : new[s] = ls[s]
  BY <1>1, <1>2
<1>4. /\ BaseSet(new[nx], nx, n, rd) /\ Settled(new[nx])
      /\ Exact(new[nx], Points(rd, {nx}), Place(rd))
  <2>1. BaseSet(ls[nx], nx, n - 1, rd) /\ Settled(ls[nx])
    <3>1. Level(nx, nx, n) = n - 1
      BY <1>2 DEF Level
    <3> QED BY <1>1, <1>2, <3>1
  <2>2. /\ BaseSet(AdjustFuzz(ls[nx]), nx, (n - 1) + 1, rd) /\ Settled(AdjustFuzz(ls[nx]))
        /\ Exact(AdjustFuzz(ls[nx]), Points(rd, {nx}), Place(rd))
    BY <1>2, <2>1, BaseSetWidens
  <2> QED BY <1>2, <1>3, <2>2
<1>5. Begun(new, rd)
  BY <1>1, <1>3 DEF Begun
<1>6. \A s \in Numbers(rd) : BaseSet(new[s], s, Level(s, nx + 1, n), rd) /\ Settled(new[s])
  <2> SUFFICES ASSUME NEW s \in Numbers(rd)
               PROVE  BaseSet(new[s], s, Level(s, nx + 1, n), rd) /\ Settled(new[s])
    OBVIOUS
  <2>1. CASE s = nx
    <3>1. Level(s, nx + 1, n) = n
      BY <1>2, <2>1 DEF Level
    <3> QED BY <1>4, <2>1, <3>1
  <2>2. CASE s # nx
    <3>1. s \in DOMAIN ls /\ s \in Nat
      BY <1>1 DEF Numbers
    <3>2. Level(s, nx + 1, n) = Level(s, nx, n)
      BY <1>2, <2>2, <3>1 DEF Level
    <3> QED BY <1>1, <1>3, <2>2, <3>1, <3>2
  <2> QED BY <2>1, <2>2
<1>7. /\ Exact(ls[Merged], Points(rd, 0 .. nx - 1), Place(rd))
      /\ Middling(ls[Merged], Points(rd, 0 .. nx - 1), Size(rd), n)
      /\ \A p \in Int : (\E k \in DOMAIN ls[Merged] : Spans(p, ls[Merged][k])) <=>
                          \E s \in 0 .. nx - 1 : \E k \in DOMAIN ls[s] : Spans(p, ls[s][k])
  BY <1>1 DEF Unites
<1>8. new[Merged] = ls[Merged] /\ \A s \in 0 .. nx - 1 : new[s] = ls[s]
  BY <1>1, <1>2, <1>3 DEF Numbers
<1>9. Unites(new[Merged], 0 .. nx - 1, new, n, rd)
  BY <1>7, <1>8 DEF Unites
<1>10. Uniting(new[Merged], 1, Points(rd, 0 .. nx - 1), new[nx], 1, Points(rd, {nx}), <<>>, Place(rd))
  BY <1>1, <1>4, <1>7, <1>8, UnionBegins
<1>11. Middling(<<>>, Points(rd, 0 .. nx), Size(rd), n)
  BY DEF Middling
<1> QED BY <1>1, <1>2, <1>5, <1>6, <1>9, <1>10, <1>11 DEF UnionInv

\* A union that is through unites one set more.
LEMMA UnionEnds ==
  ASSUME NEW rd, RowsAscend(rd), NEW ls, NEW nx, NEW n \in 0 .. FuzzRounds,
         NEW a, NEW i, NEW b, NEW j, NEW pieces, UnionInv(ls, nx, n, rd, a, i, b, j, pieces),
         ~(i <= Len(ls[a])), ~(j <= Len(ls[b])),
         NEW new, new = [ls EXCEPT ![Merged] = CoalesceSet(pieces)]
  PROVE  MergeInv(new, nx, n, rd)
<1> DEFINE c == CoalesceSet(pieces)
           X == Points(rd, 0 .. nx - 2)
           Y == Points(rd, {nx - 1})
<1>1. /\ Begun(ls, rd) /\ nx \in 2 .. Len(rd) /\ n >= 1
      /\ b = nx - 1 /\ a = (IF nx = 2 THEN 0 ELSE Merged)
      /\ Uniting(ls[a], i, X, ls[b], j, Y, pieces, Place(rd))
      /\ Middling(pieces, Points(rd, 0 .. nx - 1), Size(rd), n)
      /\ Unites(ls[a], 0 .. nx - 2, ls, n, rd)
      /\ \A s \in Numbers(rd) : BaseSet(ls[s], s, Level(s, nx, n), rd)
      /\ \A s \in Numbers(rd) \ {a, b} : Settled(ls[s])
      /\ DOMAIN ls = Numbers(rd) \cup {Merged}
  BY DEF UnionInv, Begun
<1>2. /\ nx \in Nat /\ Len(rd) \in Nat /\ b \in Numbers(rd)
      /\ 0 .. nx - 1 \in SUBSET Numbers(rd)
      /\ Points(rd, 0 .. nx - 1) = X \cup Y
  BY UnionFacts
<1>3. IsFiniteSet(X) /\ IsFiniteSet(Y)
  BY UnionReadings
<1>4. \A x \in X \cup Y : /\ Size(rd)[x] \in Nat /\ x[1] \in Nat
                          /\ Place(rd)[x] = Size(rd)[x] * FuzzRounds
  <2>1. \A x \in Points(rd, 0 .. nx - 1) : /\ Size(rd)[x] \in Nat /\ x[1] \in Nat
                                           /\ Place(rd)[x] = Size(rd)[x] * FuzzRounds
    BY <1>2, PointsFacts
  <2> QED BY <1>2, <2>1
<1>5. Middling(pieces, X \cup Y, Size(rd), n)
  BY <1>1, <1>2
<1>6. Completes(c, ls[a], X, ls[b], Y, Size(rd), n, Place(rd))
  <2> HIDE DEF X, Y
  <2> QED BY <1>1, <1>3, <1>4, <1>5, Completed
<1> HIDE DEF c
<1>7. /\ Exact(c, X \cup Y, Place(rd)) /\ Settled(c) /\ Middling(c, X \cup Y, Size(rd), n)
      /\ Settled(ls[a]) /\ Settled(ls[b])
      /\ \A p \in Int : (\E k \in DOMAIN c : Spans(p, c[k])) <=>
                          \/ \E k \in DOMAIN ls[a] : Spans(p, ls[a][k])
                          \/ \E k \in DOMAIN ls[b] : Spans(p, ls[b][k])
  BY <1>6 DEF Completes
<1>8. /\ DOMAIN new = DOMAIN ls /\ new[Merged] = c
      /\ \A s \in Numbers(rd) : new[s] = ls[s]
  BY <1>1 DEF Numbers, Merged, c
<1>9. Begun(new, rd)
  BY <1>1, <1>8 DEF Begun
<1>10. \A s \in Numbers(rd) : BaseSet(new[s], s, Level(s, nx, n), rd) /\ Settled(new[s])
  BY <1>1, <1>7, <1>8
<1>11. \A p \in Int : (\E k \in DOMAIN c : Spans(p, c[k])) <=>
                        \E s \in 0 .. nx - 1 : \E k \in DOMAIN new[s] : Spans(p, new[s][k])
  <2> TAKE p \in Int
  <2>1. (\E k \in DOMAIN ls[a] : Spans(p, ls[a][k])) <=>
           \E s \in 0 .. nx - 2 : \E k \in DOMAIN ls[s] : Spans(p, ls[s][k])
    BY <1>1 DEF Unites
  <2>2. 0 .. nx - 1 = (0 .. nx - 2) \cup {b}
    BY <1>1, <1>2
  <2>3. \A s \in 0 .. nx - 1 : new[s] = ls[s]
    BY <1>2, <1>8
  <2> QED BY <1>7, <2>1, <2>2, <2>3
<1>12. Unites(new[Merged], 0 .. nx - 1, new, n, rd)
  BY <1>2, <1>7, <1>8, <1>11 DEF Unites
<1> QED BY <1>1, <1>7, <1>8, <1>9, <1>10, <1>12 DEF MergeInv

\* The merged set is given up, the others go into the next round.
LEMMA RoundIsOver ==
  ASSUME NEW rd, RowsAscend(rd), NEW ls, NEW nx, NEW n, MergeInv(ls, nx, n, rd),
         nx \notin Numbers(rd), NEW new, new = [ls EXCEPT ![Merged] = <<>>]
  PROVE  RoundInv(new, n, rd)
<1>1. /\ Begun(ls, rd) /\ nx \in 2 .. Len(rd) /\ Len(rd) \in Nat
      /\ \A s \in Numbers(rd) : BaseSet(ls[s], s, Level(s, nx, n), rd) /\ Settled(ls[s])
      /\ DOMAIN ls = Numbers(rd) \cup {Merged}
  BY DEF MergeInv, Begun, RowsAscend
<1>2. nx = Len(rd) /\ \A s \in Numbers(rd) : Level(s, nx, n) = n
  BY <1>1 DEF Numbers, Level
<1>3. /\ DOMAIN new = DOMAIN ls /\ new[Merged] = <<>> /\ \A s \in Numbers(rd) : new[s] = ls[s]
  BY <1>1 DEF Numbers, Merged
<1> QED BY <1>1, <1>2, <1>3 DEF RoundInv, Begun

-----------------------------------------------------------------------------
(* The peak *)

LEMMA GreatestCount ==
  ASSUME NEW set \in Seq(Pieces), set # <<>>
  PROVE  \E m \in DOMAIN set : \A k \in DOMAIN set : set[k].count <= set[m].count
<1> DEFINE P == {n \in Nat : n + 1 <= Len(set) =>
                   \E m \in 1 .. n + 1 : \A k \in 1 .. n + 1 : set[k].count <= set[m].count}
<1>1. Len(set) \in Nat /\ Len(set) # 0 /\ DOMAIN set = 1 .. Len(set)
  OBVIOUS
<1>2. \A k \in 1 .. Len(set) : set[k].count \in Nat
  BY <1>1, PieceFields
<1>3. 0 \in P
  <2>1. 1 .. 0 + 1 = {1} /\ set[1].count \in Nat
    BY <1>1, <1>2
  <2> QED BY <2>1
<1>4. ASSUME NEW n \in Nat, n \in P PROVE n + 1 \in P
  <2> SUFFICES ASSUME (n + 1) + 1 <= Len(set)
               PROVE  \E m \in 1 .. (n + 1) + 1 :
                        \A k \in 1 .. (n + 1) + 1 : set[k].count <= set[m].count
    OBVIOUS
  <2>1. n + 1 <= Len(set)
    BY <1>1
  <2>2. PICK m \in 1 .. n + 1 : \A k \in 1 .. n + 1 : set[k].count <= set[m].count
    BY <1>4, <2>1
  <2> DEFINE l == n + 2
  <2>3. 1 .. (n + 1) + 1 = (1 .. n + 1) \cup {l} /\ l \in 1 .. Len(set) /\ m \in 1 .. Len(set)
    BY <1>1, <2>1
  <2>4. set[l].count \in Nat /\ set[m].count \in Nat /\ \A k \in 1 .. n + 1 : set[k].count \in Nat
    BY <1>2, <2>1, <2>3
  <2> HIDE DEF l
  <2>5. CASE set[l].count <= set[m].count
    BY <2>2, <2>3, <2>4, <2>5
  <2>6. CASE ~(set[l].count <= set[m].count)
    <3>1. \A k \in 1 .. n + 1 : set[k].count <= set[l].count
      BY <2>2, <2>4, <2>6
    <3>2. l \in 1 .. (n + 1) + 1
      BY <2>3
    <3>3. set[l].count <= set[l].count
      BY <2>4
    <3>4. \A k \in 1 .. (n + 1) + 1 : set[k].count <= set[l].count
      BY <2>3, <3>1, <3>3
    <3> QED BY <3>2, <3>4
  <2> QED BY <2>5, <2>6
<1> HIDE DEF P
<1>5. \A n \in Nat : n \in P
  BY <1>3, <1>4, AllNaturals
<1>6. Len(set) - 1 \in P /\ (Len(set) - 1) + 1 = Len(set)
  BY <1>1, <1>5
<1> QED BY <1>1, <1>6, SMTT(30) DEF P

\* The set of peaks begins with an element of the set.
LEMMA PeakSetIs ==
  ASSUME NEW set \in Seq(Pieces), set # <<>>
  PROVE  /\ Len(PeakSet(set)) \in Nat
         /\ Len(PeakSet(set)) = Cardinality({k \in DOMAIN set : set[k].count = PeakSize(set)})
         /\ \A k \in DOMAIN set : set[k].count <= PeakSize(set)
         /\ \E m \in DOMAIN set : Head(PeakSet(set)) = set[m] /\ set[m].count = PeakSize(set)
<1> DEFINE counts == {set[k].count : k \in DOMAIN set}
           S == {k \in DOMAIN set : set[k].count = PeakSize(set)}
<1>1. PICK m \in DOMAIN set : \A k \in DOMAIN set : set[k].count <= set[m].count
  BY GreatestCount
<1>2. set[m].count \in counts /\ \A k \in DOMAIN set : set[k].count <= set[m].count
  BY <1>1
<1>3. PeakSize(set) \in counts /\ \A k \in DOMAIN set : set[k].count <= PeakSize(set)
  BY <1>2 DEF PeakSize
<1>4. DOMAIN set = 1 .. Len(set) /\ Len(set) \in Nat
  OBVIOUS
<1>5. IsFiniteSet(DOMAIN set)
  BY <1>4, FS_Interval
<1>6. S \in SUBSET DOMAIN set
  OBVIOUS
<1>7. IsFiniteSet(S) /\ S \in SUBSET Nat
  BY <1>4, <1>5, <1>6, FS_Subset
<1>8. S # {}
  BY <1>3
<1> HIDE DEF S, counts
<1>9. Cardinality(S) \in Nat /\ Cardinality(S) # 0
  BY <1>7, <1>8, FS_EmptySet, FS_CardinalityType
<1>10. PeakSet(set) = Selected(set, S)
  BY DEF PeakSet, S
<1>11. DOMAIN PeakSet(set) = 1 .. Cardinality(S)
  BY <1>7, <1>10, SelectedMembers
<1>12. PICK l \in S : PeakSet(set)[1] = set[l]
  <2>1. 1 \in 1 .. Cardinality(S)
    BY <1>9
  <2> QED BY <1>7, <1>10, <2>1, SelectedMembers
<1>13. \A k \in 1 .. Cardinality(S) : PeakSet(set)[k] \in Pieces
  <2> TAKE k \in 1 .. Cardinality(S)
  <2>1. PICK l2 \in S : PeakSet(set)[k] = set[l2]
    BY <1>7, <1>10, SelectedMembers
  <2>2. l2 \in DOMAIN set
    BY <1>6, <2>1
  <2> QED BY <2>1, <2>2
<1>14. PeakSet(set) \in Seq(Pieces) /\ Len(PeakSet(set)) = Cardinality(S)
  <2>1. PeakSet(set) = [k \in 1 .. Cardinality(S) |-> PeakSet(set)[k]]
    BY <1>10, <1>11 DEF Selected
  <2> HIDE DEF PeakSet
  <2>2. PeakSet(set) \in [1 .. Cardinality(S) -> Pieces]
    BY <1>13, <2>1
  <2> QED BY <1>9, <2>2
<1>15. Head(PeakSet(set)) = set[l]
  BY <1>9, <1>12, <1>14
<1>16. l \in DOMAIN set /\ set[l].count = PeakSize(set)
  BY <1>12 DEF S
<1> QED BY <1>3, <1>9, <1>14, <1>15, <1>16 DEF S

-----------------------------------------------------------------------------
(* The readings that the method starts from *)

LEMMA SelectedSorted ==
  ASSUME NEW list, NEW S \in SUBSET Nat, IsFiniteSet(S), \A k \in S : list[k] \in Nat,
         \A a, b \in S : a < b => list[a] <= list[b]
  PROVE  \A j, k \in 1 .. Cardinality(S) :
           j <= k => Selected(list, S)[j] <= Selected(list, S)[k]
<1> SUFFICES ASSUME NEW j \in 1 .. Cardinality(S), NEW k \in 1 .. Cardinality(S), j <= k
             PROVE  Selected(list, S)[j] <= Selected(list, S)[k]
  OBVIOUS
<1>1. CASE j = k
  <2>1. PICK m \in S : Selected(list, S)[j] = list[m]
    BY SelectedMembers
  <2> QED BY <1>1, <2>1
<1>2. CASE j # k
  <2>1. j < k
    BY <1>2, FS_CardinalityType
  <2>2. \E a, b \in S : /\ a < b /\ Selected(list, S)[j] = list[a]
                        /\ Selected(list, S)[k] = list[b]
    BY <2>1, SelectedAscend
  <2> QED BY <2>2
<1> QED BY <1>1, <1>2

LEMMA ReadingsOfRow ==
  ASSUME NEW row \in Seq(Nat), \A j, k \in DOMAIN row : j < k => row[j] >= row[k]
  PROVE  /\ Readings(row) \in Seq(Nat \ {0})
         /\ \A j, k \in DOMAIN Readings(row) : j <= k => Readings(row)[j] <= Readings(row)[k]
<1> DEFINE rev == Reverse(row)
           S == {k \in DOMAIN row : rev[k] > 0}
           N == Cardinality(S)
<1>1. Len(row) \in Nat /\ DOMAIN row = 1 .. Len(row) /\ \A k \in DOMAIN row : row[k] \in Nat
  OBVIOUS
<1>2. /\ \A k \in DOMAIN row : rev[k] = row[Len(row) - k + 1]
      /\ \A k \in DOMAIN row : Len(row) - k + 1 \in DOMAIN row
  BY <1>1, SMTT(30) DEF Reverse
<1>3. S \in SUBSET Nat /\ S \in SUBSET DOMAIN row /\ IsFiniteSet(S)
  <2>1. IsFiniteSet(DOMAIN row)
    BY <1>1, FS_Interval
  <2>2. S \in SUBSET DOMAIN row
    OBVIOUS
  <2> QED BY <1>1, <2>1, <2>2, FS_Subset
<1>4. \A k \in S : rev[k] \in Nat \ {0}
  BY <1>1, <1>2
<1>5. \A a, b \in S : a < b => rev[a] <= rev[b]
  <2> SUFFICES ASSUME NEW a \in S, NEW b \in S, a < b PROVE rev[a] <= rev[b]
    OBVIOUS
  <2> DEFINE i == Len(row) - b + 1
             j == Len(row) - a + 1
  <2>1. i \in DOMAIN row /\ j \in DOMAIN row /\ rev[a] = row[j] /\ rev[b] = row[i]
    BY <1>2, <1>3
  <2>2. i < j
    BY <1>1, <1>3
  <2> HIDE DEF i, j
  <2>3. row[i] >= row[j] /\ row[i] \in Nat /\ row[j] \in Nat
    BY <1>1, <2>1, <2>2
  <2> QED BY <2>1, <2>3
<1>6. Readings(row) = Selected(rev, S)
  BY DEF Readings
<1> HIDE DEF rev, S
<1>7. N \in Nat
  BY <1>3, FS_CardinalityType
<1> DEFINE r == Selected(rev, S)
<1>8. /\ DOMAIN r = 1 .. N
      /\ \A n \in 1 .. N : \E m \in S : r[n] = rev[m]
  BY <1>3, SelectedMembers
<1>9. \A n \in 1 .. N : r[n] \in Nat \ {0}
  BY <1>4, <1>8
<1>10. r \in Seq(Nat \ {0})
  <2>1. r = [n \in 1 .. N |-> r[n]]
    BY <1>8 DEF Selected
  <2> HIDE DEF r
  <2>2. r \in [1 .. N -> Nat \ {0}]
    BY <1>9, <2>1
  <2> HIDE DEF N
  <2> QED BY <1>7, <2>2
<1>11. \A j, k \in 1 .. N : j <= k => r[j] <= r[k]
  BY <1>3, <1>4, <1>5, SelectedSorted
<1> QED BY <1>6, <1>8, <1>10, <1>11

LEMMA ReadingsAscend ==
  ASSUME NEW m \in Matrices
  PROVE  RowsAscend(RowsWithReadings(m))
<1> DEFINE all == [r \in DOMAIN m |-> Readings(m[r])]
           sets == Reverse(all)
           S == {k \in DOMAIN m : sets[k] # <<>>}
           N == Cardinality(S)
           rd == Selected(sets, S)
           Row(row) == /\ row \in Seq(Nat \ {0})
                       /\ \A j, k \in DOMAIN row : j <= k => row[j] <= row[k]
<1>1. /\ m \in Seq(Seq(Nat)) /\ DOMAIN m = 1 .. Len(m) /\ Len(m) \in Nat
      /\ \A r \in DOMAIN m : \A j, k \in DOMAIN m[r] : j < k => m[r][j] >= m[r][k]
  BY FilterAssumption
<1>2. \A r \in DOMAIN m : Row(Readings(m[r]))
  <2> SUFFICES ASSUME NEW r \in DOMAIN m PROVE Row(Readings(m[r]))
    OBVIOUS
  <2>1. m[r] \in Seq(Nat) /\ \A j, k \in DOMAIN m[r] : j < k => m[r][j] >= m[r][k]
    BY <1>1
  <2> QED BY <2>1, ReadingsOfRow
<1>3. all \in Seq(Seq(Nat \ {0})) /\ Len(all) = Len(m)
  BY <1>1, <1>2
<1>4. /\ \A k \in DOMAIN m : sets[k] = all[Len(m) - k + 1]
      /\ \A k \in DOMAIN m : Len(m) - k + 1 \in DOMAIN m
  BY <1>1, <1>3 DEF Reverse
<1>5. S \in SUBSET Nat /\ IsFiniteSet(S)
  <2>1. IsFiniteSet(DOMAIN m)
    BY <1>1, FS_Interval
  <2>2. S \in SUBSET DOMAIN m
    OBVIOUS
  <2>3. DOMAIN m \in SUBSET Nat
    BY <1>1
  <2> HIDE DEF S
  <2>4. IsFiniteSet(S)
    BY <2>1, <2>2, FS_Subset
  <2> QED BY <2>2, <2>3, <2>4
<1>6. \A k \in S : Row(sets[k]) /\ sets[k] # <<>>
  BY <1>2, <1>4
<1>7. RowsWithReadings(m) = rd
  BY DEF RowsWithReadings
<1> HIDE DEF sets, S, Row
<1>8. N \in Nat
  BY <1>5, FS_CardinalityType
<1>9. /\ DOMAIN rd = 1 .. N
      /\ \A n \in 1 .. N : \E k \in S : rd[n] = sets[k]
  BY <1>5, SelectedMembers
<1>10. \A n \in 1 .. N : Row(rd[n]) /\ rd[n] # <<>>
  <2> TAKE n \in 1 .. N
  <2>1. PICK k \in S : rd[n] = sets[k]
    BY <1>9
  <2> QED BY <1>6, <2>1
<1>11. rd \in Seq(Seq(Nat \ {0}))
  <2>1. rd = [n \in 1 .. N |-> rd[n]]
    BY <1>9 DEF Selected
  <2> HIDE DEF rd
  <2>2. rd \in [1 .. N -> Seq(Nat \ {0})]
    BY <1>10, <2>1 DEF Row
  <2> HIDE DEF N
  <2> QED BY <1>8, <2>2
<1> QED BY <1>7, <1>9, <1>10, <1>11 DEF RowsAscend, Row

-----------------------------------------------------------------------------
(* The invariant holds *)

\* Elements of created sets count.
LEMMA CreatedSettles ==
  ASSUME NEW row, NEW s
  PROVE  Settled(CreateSet(row, s)) /\ DOMAIN CreateSet(row, s) = DOMAIN row
BY DEF Settled, CreateSet, BaseElement

LEMMA MethodBegins == Init => MethodInv
<1> SUFFICES ASSUME Init PROVE MethodInv
  OBVIOUS
<1>1. PICK m \in Matrices : readings = RowsWithReadings(m)
  BY DEF Init
<1>2. RowsAscend(readings)
  BY <1>1, ReadingsAscend
<1>3. Len(readings) \in Nat
  BY <1>2 DEF RowsAscend
<1>4. redoLimit = 0 /\ peak = NoPeak /\ redoLimit \in 0 .. FuzzRounds
  BY FuzzAssumption DEF Init
<1>5. ASSUME pc = "round" PROVE RoundInv(lists, redoLimit, readings)
  <2>1. Len(readings) >= 2
    BY <1>3, <1>5 DEF Init, initialSetCount
  <2>2. DOMAIN lists = Numbers(readings) \cup {Merged}
    BY DEF Init, SetNumbers, Numbers, initialSetCount
  <2>3. lists[Merged] = <<>>
    BY DEF Init
  <2>4. \A s \in Numbers(readings) : lists[s] = CreateSet(readings[s + 1], s)
    BY DEF Init, SetNumbers, Numbers, initialSetCount, Merged
  <2>5. \A s \in Numbers(readings) : BaseSet(lists[s], s, redoLimit, readings) /\ Settled(lists[s])
    BY <1>4, <2>4, CreatedSettles DEF BaseSet
  <2> QED BY <2>1, <2>2, <2>3, <2>5 DEF RoundInv, Begun
<1>6. pc \in {"round", "done"}
  BY DEF Init
<1> QED BY <1>2, <1>4, <1>5, <1>6 DEF MethodInv

LEMMA MethodBeginsRound ==
  ASSUME MethodInv, BeginRound
  PROVE  MethodInv'
<1>1. /\ RowsAscend(readings) /\ redoLimit \in Nat /\ redoLimit < FuzzRounds
      /\ RoundInv(lists, redoLimit, readings) /\ peak = NoPeak
  BY FuzzAssumption DEF MethodInv, BeginRound, RoundsLeft
<1>2. lists' = [lists EXCEPT ![0] = AdjustFuzz(lists[0]), ![1] = AdjustFuzz(lists[1])]
  BY DEF BeginRound
<1>3. UnionInv(lists', 2, redoLimit + 1, readings, 0, 1, 1, 1, <<>>)
  BY <1>1, <1>2, RoundBegins
<1>4. /\ pc' = "union" /\ next' = 2 /\ redoLimit' = redoLimit + 1 /\ one' = 0 /\ other' = 1
      /\ left' = 1 /\ right' = 1 /\ out' = <<>> /\ readings' = readings /\ peak' = peak
  BY DEF BeginRound, Unite
<1>5. redoLimit' \in 0 .. FuzzRounds
  BY <1>1, <1>4, FuzzAssumption
<1> QED BY <1>1, <1>3, <1>4, <1>5 DEF MethodInv

LEMMA MethodGivesUp ==
  ASSUME MethodInv, GiveUp
  PROVE  MethodInv'
BY DEF MethodInv, GiveUp

LEMMA MethodMergesNext ==
  ASSUME MethodInv, MergeNext
  PROVE  MethodInv'
<1>1. /\ RowsAscend(readings) /\ redoLimit \in 0 .. FuzzRounds
      /\ MergeInv(lists, next, redoLimit, readings) /\ peak = NoPeak
      /\ next \in SetNumbers
  BY DEF MethodInv, MergeNext
<1>2. Len(readings) \in Nat /\ redoLimit \in 1 .. FuzzRounds /\ next < Len(readings)
  BY <1>1, FuzzAssumption DEF RowsAscend, MergeInv, SetNumbers, initialSetCount
<1>3. lists' = [lists EXCEPT ![next] = AdjustFuzz(lists[next])]
  BY DEF MergeNext
<1>4. UnionInv(lists', next + 1, redoLimit, readings, Merged, 1, next, 1, <<>>)
  BY <1>1, <1>2, <1>3, MergeGoesOn
<1>5. /\ pc' = "union" /\ next' = next + 1 /\ redoLimit' = redoLimit /\ one' = Merged /\ other' = next
      /\ left' = 1 /\ right' = 1 /\ out' = <<>> /\ readings' = readings /\ peak' = peak
  BY DEF MergeNext, Unite
<1> QED BY <1>1, <1>4, <1>5 DEF MethodInv

LEMMA MethodFindsPeak ==
  ASSUME MethodInv, PeakFound
  PROVE  MethodInv'
<1>1. /\ RowsAscend(readings) /\ redoLimit \in 0 .. FuzzRounds
      /\ MergeInv(lists, next, redoLimit, readings)
  BY DEF MethodInv, PeakFound
<1>2. /\ Exact(lists[Merged], Points(readings, 0 .. next - 1), Place(readings))
      /\ Middling(lists[Merged], Points(readings, 0 .. next - 1), Size(readings), redoLimit)
      /\ next \in 2 .. Len(readings) /\ Len(readings) \in Nat
  BY <1>1 DEF MergeInv, Unites, RowsAscend
<1>3. lists[Merged] \in Seq(Pieces) /\ lists[Merged] # <<>>
  BY <1>2 DEF Exact
<1>4. PICK m \in DOMAIN lists[Merged] : Head(PeakSet(lists[Merged])) = lists[Merged][m]
  BY <1>3, PeakSetIs
<1>5. /\ peak'.low = lists[Merged][m].low /\ peak'.high = lists[Merged][m].high
      /\ pc' = "destroy" /\ redoLimit' = redoLimit /\ readings' = readings
  BY <1>4 DEF PeakFound
<1>6. 0 .. next - 1 \in SUBSET Numbers(readings)
  BY <1>2 DEF Numbers
<1>7. Points(readings, 0 .. next - 1) \subseteq Points(readings, Numbers(readings))
  BY <1>1, <1>6, PointsFacts
<1>8. PICK x \in Points(readings, 0 .. next - 1), y \in Points(readings, 0 .. next - 1) :
        Grown(lists[Merged][m], x, y, Points(readings, 0 .. next - 1), Size(readings), redoLimit)
  BY <1>2 DEF Middling
<1>9. Grown(peak', x, y, Points(readings, Numbers(readings)), Size(readings), redoLimit)
  BY <1>5, <1>7, <1>8 DEF Grown
<1>10. peak'.low \in Int /\ peak'.high \in Int /\ peak'.count \in Nat \ {0}
  <2>1. lists[Merged][m].count > 0 /\ lists[Merged][m] \in Pieces
    BY <1>1, <1>3 DEF MergeInv, Settled
  <2>2. peak'.count = lists[Merged][m].count
    BY <1>4 DEF PeakFound
  <2> QED BY <1>5, <2>1, <2>2 DEF Pieces
<1>11. PeakInv(peak', redoLimit, readings)
  BY <1>7, <1>9, <1>10 DEF PeakInv
<1> QED BY <1>1, <1>5, <1>11 DEF MethodInv

LEMMA MethodFindsNoPeak ==
  ASSUME MethodInv, NoPeakFound
  PROVE  MethodInv'
<1>1. /\ RowsAscend(readings) /\ redoLimit \in 0 .. FuzzRounds
      /\ MergeInv(lists, next, redoLimit, readings) /\ peak = NoPeak
      /\ next \notin Numbers(readings)
  BY DEF MethodInv, NoPeakFound, SetNumbers, initialSetCount, Numbers
<1>2. lists' = [lists EXCEPT ![Merged] = <<>>]
  BY DEF NoPeakFound
<1>3. RoundInv(lists', redoLimit, readings)
  BY <1>1, <1>2, RoundIsOver
<1>4. pc' = "round" /\ redoLimit' = redoLimit /\ readings' = readings /\ peak' = peak
  BY DEF NoPeakFound
<1> QED BY <1>1, <1>3, <1>4 DEF MethodInv

LEMMA MethodDestroys ==
  ASSUME MethodInv, DestroySets
  PROVE  MethodInv'
BY DEF MethodInv, DestroySets

LEMMA MethodMerges ==
  ASSUME MethodInv, MergeOverlapping
  PROVE  MethodInv'
<1> DEFINE dropLeft == L.high <= R.high
           dropRight == R.high <= L.high
<1>1. /\ RowsAscend(readings) /\ redoLimit \in 0 .. FuzzRounds /\ peak = NoPeak
      /\ UnionInv(lists, next, redoLimit, readings, one, left, other, right, out)
  BY DEF MethodInv, MergeOverlapping
<1>2. one # other /\ one \in DOMAIN lists /\ other \in DOMAIN lists
  BY <1>1, UnionFacts
<1>3. /\ left <= Len(lists[one]) /\ right <= Len(lists[other])
      /\ Overlap(lists[one][left], lists[other][right])
      /\ left' = At(left, dropLeft) /\ right' = At(right, dropRight)
      /\ out' = Append(out, UnionElements(lists[one][left], lists[other][right]))
      /\ pc' = "union" /\ redoLimit' = redoLimit /\ readings' = readings /\ peak' = peak
      /\ next' = next /\ one' = one /\ other' = other
  BY DEF MergeOverlapping, LeftRemains, RightRemains, L, R, At
<1>4. lists' = [lists EXCEPT
             ![one][left] = IF dropLeft THEN RestoreElementCount(L) ELSE SaveElementCount(L),
             ![other][right] = IF dropRight THEN RestoreElementCount(R) ELSE SaveElementCount(R)]
  BY DEF MergeOverlapping
<1>5. /\ DOMAIN lists' = DOMAIN lists /\ \A s \in DOMAIN lists \ {one, other} : lists'[s] = lists[s]
      /\ lists'[one] = Left(lists[one], left, dropLeft)
      /\ lists'[other] = Left(lists[other], right, dropRight)
  BY <1>2, <1>4 DEF Left, L, R
<1>6. /\ dropLeft \in BOOLEAN /\ dropRight \in BOOLEAN
      /\ dropLeft <=> lists[one][left].high <= lists[other][right].high
      /\ dropRight <=> lists[other][right].high <= lists[one][left].high
  BY DEF L, R
<1> HIDE DEF dropLeft, dropRight
<1>7. UnionInv(lists', next, redoLimit, readings, one, At(left, dropLeft), other, At(right, dropRight),
               Append(out, UnionElements(lists[one][left], lists[other][right])))
  BY <1>1, <1>3, <1>5, <1>6, MergesBoth
<1> QED BY <1>1, <1>3, <1>7 DEF MethodInv

LEMMA MethodCarriesLeft ==
  ASSUME MethodInv, CarryLeft
  PROVE  MethodInv'
<1>1. /\ RowsAscend(readings) /\ redoLimit \in 0 .. FuzzRounds /\ redoLimit \in Nat /\ peak = NoPeak
      /\ UnionInv(lists, next, redoLimit, readings, one, left, other, right, out)
  BY FuzzAssumption DEF MethodInv, CarryLeft
<1>2. /\ left <= Len(lists[one])
      /\ right <= Len(lists[other]) => lists[one][left].high < lists[other][right].low
      /\ out' = Append(out, CopyElement(lists[one][left]))
      /\ lists' = [lists EXCEPT ![one][left] = RestoreElementCount(lists[one][left])]
      /\ left' = left + 1
      /\ pc' = "union" /\ redoLimit' = redoLimit /\ readings' = readings /\ peak' = peak
      /\ next' = next /\ one' = one /\ other' = other /\ right' = right
  BY DEF CarryLeft, LeftRemains, RightRemains, L, R
<1>3. UnionInv(lists', next, redoLimit, readings, one, left + 1, other, right,
               Append(out, CopyElement(lists[one][left])))
  BY <1>1, <1>2, CarriesLeft
<1> QED BY <1>1, <1>2, <1>3 DEF MethodInv

LEMMA MethodCarriesRight ==
  ASSUME MethodInv, CarryRight
  PROVE  MethodInv'
<1>1. /\ RowsAscend(readings) /\ redoLimit \in 0 .. FuzzRounds /\ redoLimit \in Nat /\ peak = NoPeak
      /\ UnionInv(lists, next, redoLimit, readings, one, left, other, right, out)
  BY FuzzAssumption DEF MethodInv, CarryRight
<1>2. /\ right <= Len(lists[other])
      /\ left <= Len(lists[one]) => ~Overlap(L, R) /\ ~(L.high < R.low)
      /\ out' = Append(out, CopyElement(lists[other][right]))
      /\ lists' = [lists EXCEPT ![other][right] = RestoreElementCount(lists[other][right])]
      /\ right' = right + 1
      /\ pc' = "union" /\ redoLimit' = redoLimit /\ readings' = readings /\ peak' = peak
      /\ next' = next /\ one' = one /\ other' = other /\ left' = left
  BY DEF CarryRight, LeftRemains, RightRemains, L, R
<1>3. left <= Len(lists[one]) => lists[other][right].high < lists[one][left].low
  <2> SUFFICES ASSUME left <= Len(lists[one]) PROVE R.high < L.low
    BY DEF L, R
  <2>1. L \in Pieces /\ L.low <= L.high /\ R \in Pieces /\ R.low <= R.high
    BY <1>1, <1>2, ElementsGrown DEF L, R
  <2>2. ~Overlap(L, R) /\ ~(L.high < R.low)
    BY <1>2
  <2>3. L.low \in Int /\ L.high \in Int /\ R.low \in Int /\ R.high \in Int
    BY <2>1 DEF Pieces
  <2> QED BY <2>1, <2>2, <2>3 DEF Overlap, Least, Greatest
<1>4. UnionInv(lists', next, redoLimit, readings, one, left, other, right + 1,
               Append(out, CopyElement(lists[other][right])))
  BY <1>1, <1>2, <1>3, CarriesRight
<1> QED BY <1>1, <1>2, <1>4 DEF MethodInv

LEMMA MethodEndsUnion ==
  ASSUME MethodInv, EndUnion
  PROVE  MethodInv'
<1>1. /\ RowsAscend(readings) /\ redoLimit \in 0 .. FuzzRounds /\ peak = NoPeak
      /\ UnionInv(lists, next, redoLimit, readings, one, left, other, right, out)
  BY DEF MethodInv, EndUnion
<1>2. /\ ~(left <= Len(lists[one])) /\ ~(right <= Len(lists[other]))
      /\ lists' = [lists EXCEPT ![Merged] = CoalesceSet(out)]
      /\ pc' = "merge" /\ redoLimit' = redoLimit /\ readings' = readings /\ peak' = peak
      /\ next' = next
  BY DEF EndUnion, LeftRemains, RightRemains
<1>3. MergeInv(lists', next, redoLimit, readings)
  BY <1>1, <1>2, UnionEnds
<1> QED BY <1>1, <1>2, <1>3 DEF MethodInv

\* The invariant of the method: what the lists stand for, at every point of a union.
THEOREM MethodCorrect == Spec => []MethodInv
<1>1. Init => MethodInv
  BY MethodBegins
<1>2. MethodInv /\ [Next]_vars => MethodInv'
  <2> SUFFICES ASSUME MethodInv, [Next]_vars PROVE MethodInv'
    OBVIOUS
  <2>1. CASE UNCHANGED vars
    BY <2>1 DEF vars, cursors, MethodInv
  <2> QED
    BY <2>1, MethodBeginsRound, MethodGivesUp, MethodMergesNext, MethodFindsPeak,
       MethodFindsNoPeak, MethodDestroys, MethodMerges, MethodCarriesLeft,
       MethodCarriesRight, MethodEndsUnion DEF Next, Finished
<1> QED BY <1>1, <1>2, PTL DEF Spec

-----------------------------------------------------------------------------
(* What follows for the readings *)

\* The readings of a set in an element, as the properties name them.
LEMMA ReadingsAreElements ==
  ASSUME RowsAscend(readings), NEW T \in SUBSET Numbers(readings), NEW e, NEW Part,
         Part = [s \in T |-> ReadingsIn(s, e)]
  PROVE  /\ InElement(Points(readings, T), Place(readings), e) = PairsOver(T, Part)
         /\ IsFiniteSet(T) /\ \A s \in T : Part[s] \in SUBSET Nat /\ IsFiniteSet(Part[s])
<1>1. readings \in Seq(Seq(Nat \ {0})) /\ Len(readings) \in Nat
  BY DEF RowsAscend
<1>2. IsFiniteSet(T)
  <2>1. 0 \in Int /\ Len(readings) - 1 \in Int
    BY <1>1
  <2>2. IsFiniteSet(0 .. Len(readings) - 1)
    BY <2>1, FS_Interval
  <2> QED BY <2>2, FS_Subset DEF Numbers
<1>3. ASSUME NEW s \in T
      PROVE  /\ DOMAIN readings[s + 1] \in SUBSET Nat /\ IsFiniteSet(DOMAIN readings[s + 1])
             /\ ReadingsIn(s, e) \in SUBSET DOMAIN readings[s + 1]
  <2>1. s + 1 \in DOMAIN readings
    BY <1>1 DEF Numbers
  <2>2. readings[s + 1] \in Seq(Nat \ {0})
    BY <1>1, <2>1
  <2>3. DOMAIN readings[s + 1] = 1 .. Len(readings[s + 1]) /\ Len(readings[s + 1]) \in Nat
    BY <2>2
  <2> DEFINE N == Len(readings[s + 1])
  <2>6. 1 \in Int /\ N \in Int
    BY <2>3
  <2> HIDE DEF N
  <2>7. IsFiniteSet(1 .. N)
    BY <2>6, FS_Interval
  <2>4. IsFiniteSet(1 .. Len(readings[s + 1]))
    BY <2>7 DEF N
  <2>5. ReadingsIn(s, e) \in SUBSET DOMAIN readings[s + 1]
    BY DEF ReadingsIn
  <2> QED BY <2>3, <2>4, <2>5
<1>4. \A s \in T : Part[s] \in SUBSET Nat /\ IsFiniteSet(Part[s])
  <2> SUFFICES ASSUME NEW s \in T
               PROVE  ReadingsIn(s, e) \in SUBSET Nat /\ IsFiniteSet(ReadingsIn(s, e))
    OBVIOUS
  <2> QED BY <1>3, FS_Subset
<1>5. ASSUME NEW x \in Points(readings, T)
      PROVE  Within(Place(readings)[x], e) <=> x[2] \in ReadingsIn(x[1], e)
  <2>1. x[1] \in T /\ x[2] \in DOMAIN readings[x[1] + 1] /\ x \in Points(readings, Numbers(readings))
    BY DEF Points
  <2>2. Place(readings)[x] = readings[x[1] + 1][x[2]] * FuzzRounds
    BY <2>1 DEF Place
  <2> QED BY <2>1, <2>2 DEF Within, ReadingsIn
<1>6. \A x \in PairsOver(T, Part) : x \in Points(readings, T) /\ x[2] \in ReadingsIn(x[1], e)
  BY DEF PairsOver, Points, ReadingsIn
<1>7. \A x \in Points(readings, T) : x[2] \in ReadingsIn(x[1], e) => x \in PairsOver(T, Part)
  BY DEF PairsOver, Points
<1>8. InElement(Points(readings, T), Place(readings), e) = PairsOver(T, Part)
  BY <1>5, <1>6, <1>7 DEF InElement
<1> QED BY <1>2, <1>4, <1>8

\* The counts of the elements of a set, and of the merged set.
LEMMA InputsFollow == MethodInv => InputsRestored
<1> SUFFICES ASSUME MethodInv, pc = "merge", NEW s \in UnitedSets, NEW k \in DOMAIN lists[s]
             PROVE  lists[s][k].count = Cardinality(ReadingsIn(s, lists[s][k]))
  BY DEF InputsRestored
<1>1. RowsAscend(readings) /\ MergeInv(lists, next, redoLimit, readings)
  BY DEF MethodInv
<1>2. /\ next \in 2 .. Len(readings) /\ redoLimit >= 1 /\ Len(readings) \in Nat
      /\ \A t \in Numbers(readings) :
           BaseSet(lists[t], t, Level(t, next, redoLimit), readings) /\ Settled(lists[t])
  BY <1>1 DEF MergeInv, RowsAscend
<1>3. s \in Numbers(readings) /\ s \in Nat /\ Level(s, next, redoLimit) = redoLimit /\ redoLimit # 0
  BY <1>2 DEF UnitedSets, Numbers, Level
<1>4. Exact(lists[s], Points(readings, {s}), Place(readings)) /\ Settled(lists[s])
  BY <1>2, <1>3 DEF BaseSet
<1> DEFINE e == lists[s][k]
           Q == [t \in {s} |-> ReadingsIn(t, e)]
<1>5. e.count = Cardinality(InElement(Points(readings, {s}), Place(readings), e))
  BY <1>4 DEF Exact, Settled, Whole
<1> HIDE DEF e
<1>6. {s} \in SUBSET Numbers(readings)
  BY <1>3
<1>7. /\ InElement(Points(readings, {s}), Place(readings), e) = PairsOver({s}, Q)
      /\ Q[s] \in SUBSET Nat /\ IsFiniteSet(Q[s]) /\ Q[s] = ReadingsIn(s, e)
  BY <1>1, <1>6, ReadingsAreElements
<1> HIDE DEF Q
<1>8. Cardinality(PairsOver({s}, Q)) = Cardinality(Q[s])
  BY <1>7, PairsOfOne
<1> QED BY <1>5, <1>7, <1>8 DEF e

\* Theorem: after every union the sets count what they counted, clearing and
\* restoring having undone each other (saveElementCount, restoreElementCount).
THEOREM InputsSurvive == Spec => []InputsRestored
BY MethodCorrect, InputsFollow, PTL

LEMMA CountsFollow == MethodInv => MergedCountsExact
<1> SUFFICES ASSUME MethodInv, pc = "merge", NEW k \in DOMAIN lists[Merged], NEW e,
                    e = lists[Merged][k]
             PROVE  /\ e.count = SumFunction([s \in UnitedSets |-> Cardinality(ReadingsIn(s, e))])
                    /\ e.ids \ {Unknown} = {s \in UnitedSets : ReadingsIn(s, e) # {}}
  BY DEF MergedCountsExact
<1>1. RowsAscend(readings) /\ MergeInv(lists, next, redoLimit, readings)
  BY DEF MethodInv
<1>2. /\ next \in 2 .. Len(readings) /\ Len(readings) \in Nat
      /\ Exact(lists[Merged], Points(readings, UnitedSets), Place(readings)) /\ Settled(lists[Merged])
  BY <1>1 DEF MergeInv, RowsAscend, Unites, UnitedSets
<1>3. UnitedSets \in SUBSET Numbers(readings)
  BY <1>2 DEF UnitedSets, Numbers
<1> DEFINE Q == [s \in UnitedSets |-> ReadingsIn(s, e)]
           f == [s \in UnitedSets |-> Cardinality(ReadingsIn(s, e))]
           In == InElement(Points(readings, UnitedSets), Place(readings), e)
<1>4. e.count = Cardinality(In) /\ e.ids \ {Unknown} = {x[1] : x \in In}
  BY <1>2 DEF Exact, Settled, Whole
<1>5. /\ In = PairsOver(UnitedSets, Q)
      /\ IsFiniteSet(UnitedSets) /\ \A s \in UnitedSets : Q[s] \in SUBSET Nat /\ IsFiniteSet(Q[s])
  BY <1>1, <1>3, ReadingsAreElements
<1>6. \A s \in UnitedSets : f[s] = Cardinality(Q[s]) /\ Q[s] = ReadingsIn(s, e)
  OBVIOUS
<1>7. DOMAIN f = UnitedSets
  OBVIOUS
<1> HIDE DEF Q, f, In
<1>8. Cardinality(PairsOver(UnitedSets, Q)) = SumFunctionOnSet(f, UnitedSets)
  BY <1>5, <1>6, SumOfPairs
<1>9. e.count = SumFunction(f)
  BY <1>4, <1>5, <1>7, <1>8 DEF SumFunction
<1>10. {x[1] : x \in PairsOver(UnitedSets, Q)} = {s \in UnitedSets : Q[s] # {}}
  <2>1. \A x \in PairsOver(UnitedSets, Q) : x[1] \in UnitedSets /\ Q[x[1]] # {}
    BY DEF PairsOver
  <2>2. ASSUME NEW s \in UnitedSets, Q[s] # {}
        PROVE  \E x \in PairsOver(UnitedSets, Q) : x[1] = s
    <3>1. PICK l \in Q[s] : TRUE
      BY <2>2
    <3>2. <<s, l>> \in PairsOver(UnitedSets, Q)
      BY <1>5, <3>1 DEF PairsOver
    <3> QED BY <3>2
  <2> QED BY <2>1, <2>2
<1>11. e.ids \ {Unknown} = {s \in UnitedSets : ReadingsIn(s, e) # {}}
  BY <1>4, <1>5, <1>6, <1>10
<1> QED BY <1>9, <1>11 DEF f

\* Theorem: every range of a union counts exactly the readings that lie in it, and
\* names exactly the sets they come from (unionElements, coalesceSet).
THEOREM MergedCountsCorrect == Spec => []MergedCountsExact
BY MethodCorrect, CountsFollow, PTL

LEMMA RecoverableFollows == MethodInv => CountsRecoverable
<1> SUFFICES ASSUME MethodInv, pc = "union"
             PROVE  /\ LeftRemains => L.count > 0 \/ L.saved > 0
                    /\ RightRemains => R.count > 0 \/ R.saved > 0
  BY DEF CountsRecoverable
<1>1. /\ RowsAscend(readings)
      /\ UnionInv(lists, next, redoLimit, readings, one, left, other, right, out)
  BY DEF MethodInv
<1>2. Uniting(lists[one], left, Points(readings, 0 .. next - 2),
              lists[other], right, Points(readings, {next - 1}), out, Place(readings))
  BY <1>1 DEF UnionInv
<1>3. /\ Exact(lists[one], Points(readings, 0 .. next - 2), Place(readings))
      /\ Exact(lists[other], Points(readings, {next - 1}), Place(readings))
      /\ Cursor(lists[one], left) /\ Cursor(lists[other], right)
  BY <1>2 DEF Uniting
<1>4. lists[one] \in Seq(Pieces) /\ lists[other] \in Seq(Pieces)
  BY <1>3 DEF Exact
<1>5. /\ LeftRemains => left \in DOMAIN lists[one]
      /\ RightRemains => right \in DOMAIN lists[other]
  BY <1>3, <1>4 DEF Cursor, LeftRemains, RightRemains
<1>6. /\ IsFiniteSet(Points(readings, 0 .. next - 2)) /\ IsFiniteSet(Points(readings, {next - 1}))
  BY <1>1, UnionReadings
<1>7. LeftRemains => L.count > 0 \/ L.saved > 0
  BY <1>3, <1>5, <1>6, WholePositive DEF L
<1>8. RightRemains => R.count > 0 \/ R.saved > 0
  BY <1>3, <1>5, <1>6, WholePositive DEF R
<1> QED BY <1>7, <1>8

\* Theorem: restoreElementCount() never has nothing to restore.
THEOREM AlwaysRecoverable == Spec => []CountsRecoverable
BY MethodCorrect, RecoverableFollows, PTL

LEMMA ComponentsFollow == MethodInv => UnionIsComponents
<1> SUFFICES ASSUME MethodInv, pc = "merge"
             PROVE  /\ Apart(lists[Merged])
                    /\ Cover(lists[Merged]) = UNION {Cover(lists[s]) : s \in UnitedSets}
  BY DEF UnionIsComponents
<1>1. MergeInv(lists, next, redoLimit, readings)
  BY DEF MethodInv
<1>2. Unites(lists[Merged], UnitedSets, lists, redoLimit, readings)
  BY <1>1 DEF MergeInv, UnitedSets
<1>3. /\ lists[Merged] \in Seq(Pieces) /\ Spread(lists[Merged])
      /\ \A p \in Int : (\E k \in DOMAIN lists[Merged] : Spans(p, lists[Merged][k])) <=>
                          \E s \in UnitedSets : \E k \in DOMAIN lists[s] : Spans(p, lists[s][k])
  BY <1>2 DEF Unites, Exact
<1>4. Apart(lists[Merged])
  BY <1>3 DEF Apart, Spread
<1>5. \A list : \A p : p \in Cover(list) <=> p \in Int /\ \E k \in DOMAIN list : Spans(p, list[k])
  BY DEF Cover, Spans
<1>6. \A p : p \in Cover(lists[Merged]) <=> \E s \in UnitedSets : p \in Cover(lists[s])
  BY <1>3, <1>5
<1> QED BY <1>4, <1>6

\* Theorem: a union consists of the connected components of the sets united.
THEOREM UnionsAreComponents == Spec => []UnionIsComponents
BY MethodCorrect, ComponentsFollow, PTL

\* At the end of a union no identifier is added to a list without a smaller one.
LEMMA NoneAtEnd ==
  ASSUME NEW pieces \in Seq(Pieces), Ordered(pieces), Singles(pieces)
  PROVE  ~AddsAtEnd(pieces)
<1> SUFFICES ASSUME NEW n \in 1 .. Len(pieces) - 1,
                    Swallows(CoalesceSet(SubSeq(pieces, 1, n)), pieces[n + 1]),
                    Unknown \notin Last(CoalesceSet(SubSeq(pieces, 1, n))).ids
             PROVE  FALSE
  BY DEF AddsAtEnd
<1> DEFINE p == SubSeq(pieces, 1, n)
           c == CoalesceSet(p)
<1>1. Len(pieces) \in Nat /\ DOMAIN pieces = 1 .. Len(pieces) /\ n \in DOMAIN pieces /\ n \in Nat /\ n > 0
  OBVIOUS
<1>2. /\ p \in Seq(Pieces) /\ Len(p) = n /\ DOMAIN p = 1 .. n
      /\ \A k \in 1 .. n : p[k] = pieces[k] /\ k \in DOMAIN pieces
  BY <1>1
<1> HIDE DEF p
<1>3. Ordered(p)
  BY <1>2 DEF Ordered, Ranged
<1>4. LastOf(c, p, n) /\ c \in Seq(Pieces)
  BY <1>2, <1>3, CoalesceIs DEF Coalesced
<1>5. Swallows(c, pieces[n + 1]) /\ Unknown \notin Last(c).ids
  BY DEF p
<1> HIDE DEF c
<1>6. Last(c) = c[Len(c)]
  BY DEF Last
<1>7. n \in 1 .. n /\ p[n] = pieces[n]
  BY <1>1, <1>2
<1>8. /\ c[Len(c)].high = pieces[n].high
      /\ pieces[n].ids \subseteq c[Len(c)].ids
  BY <1>1, <1>4, <1>7 DEF LastOf
<1>9. pieces[n].high < pieces[n + 1].low
  BY <1>5, <1>6, <1>8 DEF Singles
<1>10. pieces[n].high >= pieces[n + 1].low
  BY <1>5, <1>6, <1>8 DEF Swallows
<1>11. n + 1 \in DOMAIN pieces
  BY <1>1
<1>12. pieces[n].high \in Int /\ pieces[n + 1].low \in Int
  BY <1>1, <1>11, PieceFields
<1> QED BY <1>9, <1>10, <1>12

LEMMA NeverAddsFollows == MethodInv => NeverAddsAtEnd
<1> SUFFICES ASSUME MethodInv, pc = "union" PROVE ~AddsAtEnd(out)
  BY DEF NeverAddsAtEnd
<1>1. UnionInv(lists, next, redoLimit, readings, one, left, other, right, out)
  BY DEF MethodInv
<1>2. out \in Seq(Pieces) /\ Ordered(out) /\ Singles(out)
  BY <1>1 DEF UnionInv, Uniting
<1> QED BY <1>2, NoneAtEnd

\* Theorem: addSetIDToList() does not reach its "this should never happen".
THEOREM NeverHappens == Spec => []NeverAddsAtEnd
BY MethodCorrect, NeverAddsFollows, PTL

\* The middle of a range that has grown lies between the readings it has grown from.
LEMMA GrownMiddle ==
  ASSUME NEW F \in Nat \ {0}, NEW n \in 0 .. F, NEW x \in Nat, NEW y \in Nat, x <= y,
         NEW low, low = x * (F - n), NEW high \in Int,
         y * F + n * x <= high, high <= y * (F + n)
  PROVE  /\ 2 * x * F <= low + high /\ low + high <= 2 * y * F
<1>1. low = x * F - n * x
  OBVIOUS
<1>2. x * F <= y * F /\ x * F \in Int /\ y * F \in Int /\ n * x \in Int /\ n * y \in Int /\ n * x <= n * y
  OBVIOUS
<1>3. 2 * x * F = x * F + x * F /\ 2 * y * F = y * F + y * F /\ y * (F + n) = y * F + n * y
  OBVIOUS
<1>4. 2 * x * F <= low + high
  BY <1>1, <1>2, <1>3
<1>5. F - n \in Nat /\ x * (F - n) <= y * (F - n)
  <2>1. F - n \in Nat
    OBVIOUS
  <2> QED BY <2>1, ProductsGrow
<1>6. y * (F - n) = y * F - n * y /\ y * (F - n) \in Int
  OBVIOUS
<1>7. low + high <= 2 * y * F
  BY <1>2, <1>3, <1>5, <1>6
<1> QED BY <1>4, <1>7

LEMMA EstimateFollows == MethodInv => EstimateAmongReadings
<1> SUFFICES ASSUME MethodInv, peak # NoPeak,
                    NEW inside, inside = UNION {{readings[s + 1][k] : k \in ReadingsIn(s, peak)} :
                                                  s \in SetNumbers}
             PROVE  /\ \E v \in inside : 2 * v * FuzzRounds <= peak.low + peak.high
                    /\ \E v \in inside : peak.low + peak.high <= 2 * v * FuzzRounds
  BY DEF EstimateAmongReadings
<1> DEFINE all == Points(readings, Numbers(readings))
           sz == Size(readings)
<1>1. RowsAscend(readings) /\ PeakInv(peak, redoLimit, readings) /\ redoLimit \in 0 .. FuzzRounds
  BY DEF MethodInv
<1>2. PICK x \in all, y \in all : Grown(peak, x, y, all, sz, redoLimit)
  BY <1>1 DEF PeakInv
<1>3. \A u \in all : /\ sz[u] \in Nat /\ sz[u] = readings[u[1] + 1][u[2]]
                     /\ u[1] \in Numbers(readings) /\ u[2] \in DOMAIN readings[u[1] + 1]
  <2>1. Numbers(readings) \in SUBSET Numbers(readings)
    OBVIOUS
  <2>2. \A u \in all : sz[u] \in Nat /\ sz[u] = readings[u[1] + 1][u[2]]
    BY <1>1, <2>1, PointsFacts
  <2> QED BY <2>2 DEF Points
<1>4. sz[x] \in Nat /\ sz[y] \in Nat
  BY <1>3
<1>5. /\ sz[x] <= sz[y] /\ peak.low = sz[x] * (FuzzRounds - redoLimit)
      /\ sz[y] * FuzzRounds + redoLimit * sz[x] <= peak.high
      /\ peak.high <= sz[y] * (FuzzRounds + redoLimit)
  BY <1>2 DEF Grown
<1> HIDE DEF all, sz
<1>6. peak.high \in Int /\ peak.low \in Int
  BY <1>1 DEF PeakInv
<1>7. 2 * sz[x] * FuzzRounds <= peak.low + peak.high /\ peak.low + peak.high <= 2 * sz[y] * FuzzRounds
  BY <1>1, <1>4, <1>5, <1>6, FuzzAssumption, GrownMiddle
<1>8. ASSUME NEW u \in all, Within(sz[u] * FuzzRounds, peak) PROVE sz[u] \in inside
  <2>1. /\ u[1] \in SetNumbers /\ u[2] \in DOMAIN readings[u[1] + 1] /\ sz[u] = readings[u[1] + 1][u[2]]
    BY <1>3 DEF SetNumbers, Numbers, initialSetCount
  <2>2. u[2] \in ReadingsIn(u[1], peak)
    BY <1>8, <2>1 DEF ReadingsIn, Within
  <2> QED BY <2>1, <2>2
<1>9. Within(sz[x] * FuzzRounds, peak) /\ Within(sz[y] * FuzzRounds, peak)
  BY <1>1, <1>2, <1>3, <1>6, GrownContains
<1> QED BY <1>7, <1>8, <1>9

\* Theorem: the middle of the peak is no less than its least and no more than its
\* greatest reading, whatever the number of rounds (adjustFuzz, filter.c).
THEOREM EstimateCorrect == Spec => []EstimateAmongReadings
BY MethodCorrect, EstimateFollows, PTL

-----------------------------------------------------------------------------
(* Types *)

Typed(list, rd) ==
  /\ list \in Seq(Pieces)
  /\ \A k \in DOMAIN list : /\ list[k].low \in Nat /\ list[k].low <= list[k].high
                            /\ list[k].ids \subseteq Numbers(rd) \cup {Unknown}

ListsTyped(ls, rd) ==
  DOMAIN ls = Numbers(rd) \cup {Merged} /\ \A s \in DOMAIN ls : Typed(ls[s], rd)

LEMMA GrownTyped ==
  ASSUME NEW rd, RowsAscend(rd), NEW T \in SUBSET Numbers(rd), NEW n \in 0 .. FuzzRounds,
         NEW list \in Seq(Pieces), Ranged(list), Middling(list, Points(rd, T), Size(rd), n),
         Evident(list, Points(rd, T), Place(rd))
  PROVE  Typed(list, rd)
<1>1. \A x \in Points(rd, T) : Size(rd)[x] \in Nat /\ x[1] \in T
  BY PointsFacts
<1> SUFFICES ASSUME NEW k \in DOMAIN list
             PROVE  /\ list[k].low \in Nat
                    /\ list[k].ids \subseteq Numbers(rd) \cup {Unknown}
  BY DEF Typed, Ranged
<1>2. list[k].low \in Int /\ list[k].high \in Int
  BY PieceFields
<1>3. PICK x \in Points(rd, T), y \in Points(rd, T) :
        Grown(list[k], x, y, Points(rd, T), Size(rd), n)
  BY DEF Middling
<1>4. list[k].low \in Nat
  BY <1>1, <1>2, <1>3, GrownContains
<1>5. \A id \in list[k].ids \ {Unknown} : id \in Numbers(rd)
  BY <1>1 DEF Evident
<1> QED BY <1>4, <1>5

LEMMA ExactTyped ==
  ASSUME NEW rd, RowsAscend(rd), NEW T \in SUBSET Numbers(rd), NEW n \in 0 .. FuzzRounds,
         NEW list, Exact(list, Points(rd, T), Place(rd)), Middling(list, Points(rd, T), Size(rd), n)
  PROVE  Typed(list, rd)
<1>1. /\ list \in Seq(Pieces) /\ Ranged(list)
      /\ \A k \in DOMAIN list : list[k].ids \ {Unknown}
           = {x[1] : x \in InElement(Points(rd, T), Place(rd), list[k])}
  BY DEF Exact, Spread
<1>2. Evident(list, Points(rd, T), Place(rd))
  BY <1>1 DEF Evident, InElement
<1> QED BY <1>1, <1>2, GrownTyped

LEMMA CreatedTyped ==
  ASSUME NEW rd, RowsAscend(rd), NEW s \in Numbers(rd)
  PROVE  Typed(CreateSet(rd[s + 1], s), rd)
<1> DEFINE row == rd[s + 1]
           list == CreateSet(row, s)
<1>1. s \in Nat /\ s + 1 \in DOMAIN rd
  BY DEF Numbers, RowsAscend
<1>2. row \in Seq(Nat \ {0})
  BY <1>1 DEF RowsAscend
<1> HIDE DEF row
<1>3. DOMAIN row = 1 .. Len(row) /\ Len(row) \in Nat /\ \A k \in DOMAIN row : row[k] \in Nat
  BY <1>2
<1>4. DOMAIN list = DOMAIN row /\ \A k \in DOMAIN row : list[k] = BaseElement(row[k], s)
  BY DEF CreateSet
<1>5. \A v \in Nat : /\ BaseElement(v, s) \in Pieces
                     /\ BaseElement(v, s).low \in Nat
                     /\ BaseElement(v, s).low <= BaseElement(v, s).high
                     /\ BaseElement(v, s).ids = {s}
  <2> TAKE v \in Nat
  <2>1. v * FuzzRounds \in Nat
    BY FuzzAssumption
  <2> QED BY <1>1, <2>1 DEF BaseElement, Pieces
<1>6. list \in Seq(Pieces)
  <2>1. list = [k \in 1 .. Len(row) |-> list[k]]
    BY <1>3 DEF CreateSet
  <2>2. \A k \in 1 .. Len(row) : list[k] \in Pieces
    BY <1>3, <1>4, <1>5
  <2> HIDE DEF list
  <2>3. list \in [1 .. Len(row) -> Pieces]
    BY <2>1, <2>2
  <2> QED BY <1>3, <2>3
<1> QED BY <1>3, <1>4, <1>5, <1>6 DEF Typed, row

LEMMA BaseSetTyped ==
  ASSUME NEW rd, RowsAscend(rd), NEW s \in Numbers(rd), NEW n \in 0 .. FuzzRounds,
         NEW list, BaseSet(list, s, n, rd)
  PROVE  Typed(list, rd)
<1>1. CASE n = 0
  BY <1>1, CreatedTyped DEF BaseSet
<1>2. CASE n # 0
  <2>1. Exact(list, Points(rd, {s}), Place(rd))
    BY <1>2 DEF BaseSet
  <2>2. Middling(list, Points(rd, {s}), Size(rd), n)
    BY <1>2, FuzzAssumption, BaseSetMiddling
  <2>3. {s} \in SUBSET Numbers(rd)
    OBVIOUS
  <2> QED BY <2>1, <2>2, <2>3, ExactTyped
<1> QED BY <1>1, <1>2

LEMMA EmptyTyped ==
  ASSUME NEW rd
  PROVE  Typed(<<>>, rd)
BY DEF Typed

LEMMA LevelType ==
  ASSUME NEW s, NEW nx, NEW n \in 1 .. FuzzRounds
  PROVE  Level(s, nx, n) \in 0 .. FuzzRounds
BY FuzzAssumption DEF Level

LEMMA RoundTyped ==
  ASSUME NEW rd, RowsAscend(rd), NEW n \in 0 .. FuzzRounds, NEW ls, RoundInv(ls, n, rd)
  PROVE  ListsTyped(ls, rd)
<1>1. /\ DOMAIN ls = Numbers(rd) \cup {Merged} /\ ls[Merged] = <<>>
      /\ \A s \in Numbers(rd) : BaseSet(ls[s], s, n, rd)
  BY DEF RoundInv, Begun
<1>2. \A s \in Numbers(rd) : Typed(ls[s], rd)
  BY <1>1, BaseSetTyped
<1>3. Typed(ls[Merged], rd)
  BY <1>1, EmptyTyped
<1> QED BY <1>1, <1>2, <1>3 DEF ListsTyped

LEMMA MergeTyped ==
  ASSUME NEW rd, RowsAscend(rd), NEW n \in 0 .. FuzzRounds, NEW nx, NEW ls, MergeInv(ls, nx, n, rd)
  PROVE  ListsTyped(ls, rd) /\ nx \in 2 .. Len(rd)
<1>1. /\ DOMAIN ls = Numbers(rd) \cup {Merged} /\ nx \in 2 .. Len(rd) /\ n >= 1
      /\ \A s \in Numbers(rd) : BaseSet(ls[s], s, Level(s, nx, n), rd)
      /\ Exact(ls[Merged], Points(rd, 0 .. nx - 1), Place(rd))
      /\ Middling(ls[Merged], Points(rd, 0 .. nx - 1), Size(rd), n)
  BY DEF MergeInv, Begun, Unites
<1>2. n \in 1 .. FuzzRounds /\ Len(rd) \in Nat
  BY <1>1, FuzzAssumption DEF RowsAscend
<1>3. \A s \in Numbers(rd) : Typed(ls[s], rd)
  BY <1>1, <1>2, LevelType, BaseSetTyped
<1>4. 0 .. nx - 1 \in SUBSET Numbers(rd)
  BY <1>1, <1>2 DEF Numbers
<1>5. Typed(ls[Merged], rd)
  BY <1>1, <1>4, ExactTyped
<1> QED BY <1>1, <1>3, <1>5 DEF ListsTyped

LEMMA UnionTyped ==
  ASSUME NEW rd, RowsAscend(rd), NEW n \in 0 .. FuzzRounds, NEW nx, NEW ls,
         NEW a, NEW i, NEW b, NEW j, NEW pieces, UnionInv(ls, nx, n, rd, a, i, b, j, pieces)
  PROVE  /\ ListsTyped(ls, rd) /\ Typed(pieces, rd) /\ nx \in 2 .. Len(rd)
         /\ a \in DOMAIN ls /\ b \in DOMAIN ls
<1>1. /\ DOMAIN ls = Numbers(rd) \cup {Merged} /\ nx \in 2 .. Len(rd) /\ n >= 1
      /\ a = (IF nx = 2 THEN 0 ELSE Merged)
      /\ \A s \in Numbers(rd) : BaseSet(ls[s], s, Level(s, nx, n), rd)
      /\ Exact(ls[a], Points(rd, 0 .. nx - 2), Place(rd))
      /\ Middling(ls[a], Points(rd, 0 .. nx - 2), Size(rd), n)
      /\ nx = 2 => ls[Merged] = <<>>
      /\ Middling(pieces, Points(rd, 0 .. nx - 1), Size(rd), n)
      /\ pieces \in Seq(Pieces) /\ Ranged(pieces)
      /\ Evident(pieces, Points(rd, 0 .. nx - 2) \cup Points(rd, {nx - 1}), Place(rd))
  BY DEF UnionInv, Begun, Unites, Uniting, Ordered
<1>2. /\ 0 .. nx - 2 \in SUBSET Numbers(rd) /\ 0 .. nx - 1 \in SUBSET Numbers(rd)
      /\ Points(rd, 0 .. nx - 1) = Points(rd, 0 .. nx - 2) \cup Points(rd, {nx - 1})
      /\ a \in DOMAIN ls /\ b \in DOMAIN ls /\ (a = Merged <=> nx # 2)
  BY UnionFacts
<1>3. n \in 1 .. FuzzRounds
  BY <1>1, FuzzAssumption
<1>4. \A s \in Numbers(rd) : Typed(ls[s], rd)
  BY <1>1, <1>3, LevelType, BaseSetTyped
<1>5. Typed(ls[Merged], rd)
  <2>1. CASE nx = 2
    BY <1>1, <2>1, EmptyTyped
  <2>2. CASE nx # 2
    <3>1. Typed(ls[a], rd)
      BY <1>1, <1>2, ExactTyped
    <3> QED BY <1>2, <2>2, <3>1
  <2> QED BY <2>1, <2>2
<1>6. Typed(pieces, rd)
  <2>1. Evident(pieces, Points(rd, 0 .. nx - 1), Place(rd))
    BY <1>1, <1>2
  <2> QED BY <1>1, <1>2, <2>1, GrownTyped
<1> QED BY <1>1, <1>2, <1>4, <1>5, <1>6 DEF ListsTyped

-----------------------------------------------------------------------------
(* Storage *)

\* What the sets take up.
Held(ls, rd) == SumFunctionOnSet([s \in Numbers(rd) |-> Blocks(ls[s])], Numbers(rd))

LEMMA TypedBlocks ==
  ASSUME NEW rd, NEW list, Typed(list, rd)
  PROVE  Len(list) \in Nat /\ Blocks(list) \in Nat /\ Blocks(list) = 1 + Len(list)
<1>1. Len(list) \in Nat
  BY DEF Typed
<1> QED BY <1>1 DEF Blocks

LEMMA HeldType ==
  ASSUME NEW rd, RowsAscend(rd), NEW ls, ListsTyped(ls, rd)
  PROVE  /\ Held(ls, rd) \in Nat /\ IsFiniteSet(Numbers(rd))
         /\ \A s \in DOMAIN ls : Len(ls[s]) \in Nat /\ Blocks(ls[s]) \in Nat /\ Blocks(ls[s]) = 1 + Len(ls[s])
<1>1. \A s \in DOMAIN ls : Len(ls[s]) \in Nat /\ Blocks(ls[s]) \in Nat /\ Blocks(ls[s]) = 1 + Len(ls[s])
  BY TypedBlocks DEF ListsTyped
<1>2. IsFiniteSet(Numbers(rd))
  <2>1. 0 \in Int /\ Len(rd) - 1 \in Int
    BY DEF RowsAscend
  <2> QED BY <2>1, FS_Interval DEF Numbers
<1> DEFINE f == [s \in Numbers(rd) |-> Blocks(ls[s])]
<1>3. \A s \in Numbers(rd) : f[s] \in Nat
  BY <1>1 DEF ListsTyped
<1> HIDE DEF f
<1>4. SumFunctionOnSet(f, Numbers(rd)) \in Nat
  BY <1>2, <1>3, SumNat
<1> QED BY <1>1, <1>2, <1>4 DEF Held, f

SameElsewhere(ls, new, t, rd) == \A s \in Numbers(rd) \ {t} : Len(new[s]) = Len(ls[s])

\* One list takes up more or less, the others what they did.
LEMMA HeldChanges ==
  ASSUME NEW rd, RowsAscend(rd), NEW ls, ListsTyped(ls, rd), NEW new, ListsTyped(new, rd),
         NEW t \in Numbers(rd), SameElsewhere(ls, new, t, rd)
  PROVE  Held(new, rd) + Blocks(ls[t]) = Held(ls, rd) + Blocks(new[t])
<1> DEFINE f == [s \in Numbers(rd) |-> Blocks(ls[s])]
           g == [s \in Numbers(rd) |-> Blocks(new[s])]
           Rest == Numbers(rd) \ {t}
<1>1. /\ IsFiniteSet(Numbers(rd))
      /\ \A s \in DOMAIN ls : Len(ls[s]) \in Nat /\ Blocks(ls[s]) \in Nat /\ Blocks(ls[s]) = 1 + Len(ls[s])
  BY HeldType
<1>2. \A s \in DOMAIN new : Len(new[s]) \in Nat /\ Blocks(new[s]) \in Nat /\ Blocks(new[s]) = 1 + Len(new[s])
  BY HeldType
<1>3. \A s \in Numbers(rd) : /\ f[s] = 1 + Len(ls[s]) /\ Len(ls[s]) \in Nat
                             /\ g[s] = 1 + Len(new[s]) /\ Len(new[s]) \in Nat
  BY <1>1, <1>2 DEF ListsTyped
<1> HIDE DEF f, g
<1>4. \A s \in Numbers(rd) : f[s] \in Int /\ g[s] \in Int
  BY <1>3
<1>5. /\ SumFunctionOnSet(f, Numbers(rd)) = f[t] + SumFunctionOnSet(f, Rest)
      /\ SumFunctionOnSet(g, Numbers(rd)) = g[t] + SumFunctionOnSet(g, Rest)
  BY <1>1, <1>4, SumRemove
<1>6. IsFiniteSet(Rest)
  <2>1. Rest \in SUBSET Numbers(rd)
    OBVIOUS
  <2> QED BY <1>1, <2>1, FS_Subset
<1>7. SumFunctionOnSet(g, Rest) = SumFunctionOnSet(f, Rest)
  <2>1. \A s \in Rest : g[s] \in Int /\ g[s] = f[s]
    BY <1>3, <1>4 DEF SameElsewhere
  <2> HIDE DEF Rest
  <2> QED BY <1>6, <2>1, SumAgrees
<1>8. SumFunctionOnSet(f, Rest) \in Int
  <2>1. \A s \in Rest : f[s] \in Int
    BY <1>4
  <2> HIDE DEF Rest
  <2> QED BY <1>6, <2>1, SumType
<1>9. f[t] \in Int /\ g[t] \in Int
  BY <1>4
<1>10. SumFunctionOnSet(g, Numbers(rd)) + f[t] = SumFunctionOnSet(f, Numbers(rd)) + g[t]
  <2> HIDE DEF Rest
  <2> QED BY <1>5, <1>7, <1>8, <1>9
<1>11. f[t] = Blocks(ls[t]) /\ g[t] = Blocks(new[t])
  BY DEF f, g
<1> QED BY <1>10, <1>11 DEF Held, f, g

LEMMA HeldStays ==
  ASSUME NEW rd, RowsAscend(rd), NEW ls, ListsTyped(ls, rd), NEW new, ListsTyped(new, rd),
         \A s \in Numbers(rd) : Len(new[s]) = Len(ls[s])
  PROVE  Held(new, rd) = Held(ls, rd)
<1> DEFINE f == [s \in Numbers(rd) |-> Blocks(ls[s])]
           g == [s \in Numbers(rd) |-> Blocks(new[s])]
<1>1. /\ IsFiniteSet(Numbers(rd))
      /\ \A s \in DOMAIN ls : Blocks(ls[s]) \in Nat /\ Blocks(ls[s]) = 1 + Len(ls[s])
  BY HeldType
<1>2. \A s \in Numbers(rd) : f[s] \in Int /\ f[s] = g[s]
  BY <1>1 DEF ListsTyped, Blocks
<1> HIDE DEF f, g
<1>3. SumFunctionOnSet(f, Numbers(rd)) = SumFunctionOnSet(g, Numbers(rd))
  BY <1>1, <1>2, SumAgrees
<1> QED BY <1>3 DEF Held, f, g

\* A list changed in place is as long as it was.
LEMMA SameLengths ==
  ASSUME NEW rd, NEW a, Typed(a, rd), NEW r, Typed(r, rd), DOMAIN r = DOMAIN a
  PROVE  Len(r) = Len(a)
BY DEF Typed

LEMMA BlocksAreHeld ==
  BlocksOfSets(SetNumbers) = Held(lists, readings)
BY DEF BlocksOfSets, SumFunction, Held, SetNumbers, Numbers, initialSetCount

-----------------------------------------------------------------------------
(* The state *)

\* What is allocated at each point.
BlocksInv ==
  /\ pc = "round" => blocks = Held(lists, readings)
  /\ pc = "union" =>
       blocks = Held(lists, readings) + Len(out)
                  + (IF one = Merged THEN Blocks(lists[Merged]) ELSE 0)
  /\ pc = "merge" => blocks = Held(lists, readings) + Blocks(lists[Merged])
  /\ pc = "destroy" =>
       blocks = Held(lists, readings)
                  + (IF peak = NoPeak THEN 0
                     ELSE Blocks(lists[Merged]) + Blocks(PeakSet(lists[Merged])))
  /\ pc = "done" => blocks \in Nat /\ (initialSetCount # 1 => blocks = 0)

StateInv ==
  /\ ListsTyped(lists, readings) /\ Typed(out, readings)
  /\ next \in 0 .. Len(readings) /\ one \in DOMAIN lists /\ other \in DOMAIN lists
  /\ peak # NoPeak => lists[Merged] # <<>> \/ pc = "done"

\* The state at a point where the lists are known.
LEMMA MethodTyped ==
  ASSUME NEW rd, RowsAscend(rd), NEW n \in 0 .. FuzzRounds, NEW nx, NEW ls,
         NEW a, NEW i, NEW b, NEW j, NEW pieces,
         \/ RoundInv(ls, n, rd) \/ MergeInv(ls, nx, n, rd)
         \/ UnionInv(ls, nx, n, rd, a, i, b, j, pieces)
  PROVE  ListsTyped(ls, rd)
BY RoundTyped, MergeTyped, UnionTyped

LEMMA StateBegins == Init => StateInv
<1> SUFFICES ASSUME Init PROVE StateInv
  OBVIOUS
<1>1. PICK m \in Matrices : readings = RowsWithReadings(m)
  BY DEF Init
<1>2. RowsAscend(readings)
  BY <1>1, ReadingsAscend
<1>3. /\ DOMAIN lists = Numbers(readings) \cup {Merged} /\ lists[Merged] = <<>>
      /\ \A s \in Numbers(readings) : lists[s] = CreateSet(readings[s + 1], s)
  BY DEF Init, SetNumbers, Numbers, initialSetCount, Merged
<1>4. \A s \in Numbers(readings) : Typed(lists[s], readings)
  BY <1>2, <1>3, CreatedTyped
<1>5. ListsTyped(lists, readings)
  BY <1>3, <1>4, EmptyTyped DEF ListsTyped
<1>6. Typed(out, readings) /\ next = 0 /\ one = Merged /\ other = Merged /\ peak = NoPeak
  BY EmptyTyped DEF Init
<1>7. 0 \in 0 .. Len(readings)
  BY <1>2 DEF RowsAscend
<1> QED BY <1>3, <1>5, <1>6, <1>7 DEF StateInv

LEMMA StateGoesOn ==
  ASSUME MethodInv, MethodInv', StateInv, [Next]_vars
  PROVE  StateInv'
<1>1. /\ RowsAscend(readings') /\ redoLimit' \in 0 .. FuzzRounds /\ readings' = readings
      /\ Len(readings) \in Nat
  <2>1. readings' = readings
    BY DEF Next, BeginRound, GiveUp, MergeNext, PeakFound, NoPeakFound, DestroySets,
           MergeOverlapping, CarryLeft, CarryRight, EndUnion, Finished, vars
  <2> QED BY <2>1 DEF MethodInv, RowsAscend
<1>2. /\ ListsTyped(lists, readings) /\ Typed(out, readings)
      /\ next \in 0 .. Len(readings) /\ one \in DOMAIN lists /\ other \in DOMAIN lists
      /\ DOMAIN lists = Numbers(readings) \cup {Merged}
      /\ peak # NoPeak => lists[Merged] # <<>> \/ pc = "done"
  BY DEF StateInv, ListsTyped
<1>3. CASE pc' = "union"
  <2>1. UnionInv(lists', next', redoLimit', readings', one', left', other', right', out')
    BY <1>3 DEF MethodInv
  <2>2. /\ ListsTyped(lists', readings') /\ Typed(out', readings') /\ next' \in 2 .. Len(readings')
        /\ one' \in DOMAIN lists' /\ other' \in DOMAIN lists'
    BY <1>1, <2>1, UnionTyped
  <2>3. peak' = NoPeak
    BY <1>3 DEF MethodInv
  <2> QED BY <1>1, <2>2, <2>3 DEF StateInv
<1>4. CASE pc' = "merge"
  <2>1. MergeInv(lists', next', redoLimit', readings')
    BY <1>4 DEF MethodInv
  <2>2. ListsTyped(lists', readings') /\ next' \in 2 .. Len(readings')
    BY <1>1, <2>1, MergeTyped
  <2>3. peak' = NoPeak
    BY <1>4 DEF MethodInv
  <2>4. UNCHANGED cursors
    BY <1>4 DEF Next, BeginRound, GiveUp, MergeNext, PeakFound, NoPeakFound, DestroySets,
           MergeOverlapping, CarryLeft, CarryRight, EndUnion, Finished, vars, Unite
  <2>5. DOMAIN lists' = DOMAIN lists
    BY <1>1, <1>2, <2>2 DEF ListsTyped
  <2> QED BY <1>1, <1>2, <2>2, <2>3, <2>4, <2>5 DEF StateInv, cursors
<1>5. CASE pc' = "round"
  <2>1. RoundInv(lists', redoLimit', readings')
    BY <1>5 DEF MethodInv
  <2>2. ListsTyped(lists', readings')
    BY <1>1, <2>1, RoundTyped
  <2>3. peak' = NoPeak
    BY <1>5 DEF MethodInv
  <2>4. UNCHANGED <<cursors, next>>
    BY <1>5 DEF Next, BeginRound, GiveUp, MergeNext, PeakFound, NoPeakFound, DestroySets,
           MergeOverlapping, CarryLeft, CarryRight, EndUnion, Finished, vars, Unite
  <2>5. DOMAIN lists' = DOMAIN lists
    BY <1>1, <1>2, <2>2 DEF ListsTyped
  <2> QED BY <1>1, <1>2, <2>2, <2>3, <2>4, <2>5 DEF StateInv, cursors
<1>6. CASE pc' \in {"destroy", "done"}
  <2>1. UNCHANGED <<cursors, next>>
    BY <1>6 DEF Next, BeginRound, GiveUp, MergeNext, PeakFound, NoPeakFound, DestroySets,
           MergeOverlapping, CarryLeft, CarryRight, EndUnion, Finished, vars, Unite, MethodInv
  <2>5. GiveUp \/ PeakFound \/ DestroySets \/ UNCHANGED vars
    <3>1. pc # "union"
      BY <1>6, <2>1 DEF MethodInv, cursors, Next, MergeOverlapping, CarryLeft, CarryRight, EndUnion,
         BeginRound, GiveUp, MergeNext, PeakFound, NoPeakFound, DestroySets, Finished, vars
    <3> QED BY <1>6, <3>1 DEF Next, BeginRound, MergeNext, NoPeakFound, Unite,
         MergeOverlapping, CarryLeft, CarryRight, EndUnion, Finished
  <2>2. lists' = lists \/ (lists' = [s \in DOMAIN lists |-> <<>>] /\ pc' = "done")
    BY <2>5 DEF GiveUp, PeakFound, DestroySets, vars
  <2>3. ListsTyped(lists', readings') /\ DOMAIN lists' = DOMAIN lists
    BY <1>1, <1>2, <2>2, EmptyTyped DEF ListsTyped
  <2>4. peak' # NoPeak => (lists'[Merged] # <<>> \/ pc' = "done")
    <3>1. CASE PeakFound
      <4>1. MergeInv(lists, next, redoLimit, readings) /\ lists' = lists
        BY <3>1 DEF PeakFound, MethodInv
      <4>2. lists[Merged] # <<>>
        BY <4>1 DEF MergeInv, Unites, Exact
      <4> QED BY <4>1, <4>2
    <3>2. CASE ~PeakFound
      <4>1. peak' = peak
        BY <2>5, <3>2 DEF GiveUp, DestroySets, vars
      <4>2. pc' = "done" \/ (lists' = lists /\ pc # "done")
        BY <2>5, <3>2, <1>6 DEF GiveUp, DestroySets, vars
      <4> QED BY <1>2, <4>1, <4>2
    <3> QED BY <3>1, <3>2
  <2> QED BY <1>1, <1>2, <2>1, <2>3, <2>4 DEF StateInv, cursors
<1>7. pc' \in {"round", "union", "merge", "destroy", "done"}
  BY DEF MethodInv
<1> QED BY <1>3, <1>4, <1>5, <1>6, <1>7

-----------------------------------------------------------------------------
(* Nothing leaks *)

\* The numbers that accounting is about.
LEMMA StateNumbers ==
  ASSUME MethodInv, StateInv
  PROVE  /\ RowsAscend(readings) /\ ListsTyped(lists, readings) /\ Held(lists, readings) \in Nat
         /\ DOMAIN lists = Numbers(readings) \cup {Merged} /\ Merged \in DOMAIN lists
         /\ Merged \notin Numbers(readings)
         /\ \A s \in DOMAIN lists : /\ Len(lists[s]) \in Nat /\ Blocks(lists[s]) = 1 + Len(lists[s])
                                    /\ Typed(lists[s], readings)
         /\ Len(out) \in Nat /\ out \in Seq(Pieces)
<1>1. RowsAscend(readings) /\ ListsTyped(lists, readings) /\ Typed(out, readings)
  BY DEF MethodInv, StateInv
<1>2. /\ Held(lists, readings) \in Nat
      /\ \A s \in DOMAIN lists : Len(lists[s]) \in Nat /\ Blocks(lists[s]) = 1 + Len(lists[s])
  BY <1>1, HeldType
<1>3. Len(out) \in Nat /\ out \in Seq(Pieces)
  BY <1>1 DEF Typed
<1> QED BY <1>1, <1>2, <1>3 DEF ListsTyped, Numbers, Merged

LEMMA BlocksBegin == Init => BlocksInv
<1> SUFFICES ASSUME Init PROVE BlocksInv
  OBVIOUS
<1>1. MethodInv /\ StateInv
  BY MethodBegins, StateBegins
<1>2. Held(lists, readings) \in Nat
  BY <1>1, StateNumbers
<1>3. blocks = Held(lists, readings)
  BY BlocksAreHeld DEF Init
<1>4. pc = "done" => initialSetCount < 2
  BY DEF Init
<1>5. pc = "done" /\ initialSetCount # 1 => blocks = 0
  <2> SUFFICES ASSUME pc = "done", initialSetCount # 1 PROVE blocks = 0
    OBVIOUS
  <2>3. Len(readings) \in Nat
    BY <1>1 DEF MethodInv, RowsAscend
  <2> DEFINE N == Len(readings)
  <2>4. N \in Nat /\ N < 2 /\ N # 1
    BY <1>4, <2>3 DEF initialSetCount
  <2> HIDE DEF N
  <2>5. N = 0
    BY <2>4
  <2>1. Len(readings) = 0
    BY <2>5 DEF N
  <2>2. Numbers(readings) = {}
    BY <2>1 DEF Numbers
  <2> QED BY <1>3, <2>2, SumEmpty DEF Held
<1>6. pc \in {"round", "done"}
  BY DEF Init
<1> QED BY <1>2, <1>3, <1>5, <1>6 DEF BlocksInv

LEMMA BlocksBeginRound ==
  ASSUME MethodInv, StateInv, StateInv', BlocksInv, BeginRound
  PROVE  BlocksInv'
<1> DEFINE mid == [lists EXCEPT ![0] = lists'[0]]
<1>1. /\ RowsAscend(readings) /\ ListsTyped(lists, readings) /\ Held(lists, readings) \in Nat
      /\ DOMAIN lists = Numbers(readings) \cup {Merged}
      /\ Merged \notin Numbers(readings)
  BY StateNumbers
<1>2. /\ readings' = readings /\ ListsTyped(lists', readings)
      /\ pc' = "union" /\ one' = 0 /\ out' = <<>>
      /\ blocks' = blocks - (Len(lists[0]) - Len(lists'[0])) - (Len(lists[1]) - Len(lists'[1]))
      /\ blocks = Held(lists, readings)
  BY DEF StateInv, BlocksInv, BeginRound, Unite
<1>3. 0 \in Numbers(readings) /\ 1 \in Numbers(readings)
  BY DEF MethodInv, BeginRound, RoundInv, Begun, Numbers, RowsAscend
<1>4. /\ DOMAIN lists' = DOMAIN lists
      /\ \A s \in DOMAIN lists \ {0, 1} : lists'[s] = lists[s]
  BY DEF BeginRound
<1>5. /\ DOMAIN mid = DOMAIN lists /\ mid[0] = lists'[0]
      /\ \A s \in DOMAIN lists \ {0} : mid[s] = lists[s]
  BY <1>1, <1>3
<1>6. \A s \in DOMAIN mid : Typed(mid[s], readings)
  <2> SUFFICES ASSUME NEW s \in DOMAIN mid PROVE Typed(mid[s], readings)
    OBVIOUS
  <2>1. CASE s = 0
    BY <1>2, <1>4, <1>5, <2>1 DEF ListsTyped
  <2>2. CASE s # 0
    BY <1>1, <1>5, <2>2 DEF ListsTyped
  <2> QED BY <2>1, <2>2
<1> HIDE DEF mid
<1>7. ListsTyped(mid, readings)
  BY <1>1, <1>5, <1>6 DEF ListsTyped
<1> DEFINE h == Held(lists, readings)
           g == Held(mid, readings)
           k == Held(lists', readings)
<1>8. g + Blocks(lists[0]) = h + Blocks(mid[0])
  <2>1. SameElsewhere(lists, mid, 0, readings)
    BY <1>1, <1>5 DEF SameElsewhere
  <2> QED BY <1>1, <1>3, <1>7, <2>1, HeldChanges
<1>9. k + Blocks(mid[1]) = g + Blocks(lists'[1])
  <2>1. SameElsewhere(mid, lists', 1, readings)
    BY <1>1, <1>4, <1>5 DEF SameElsewhere
  <2> QED BY <1>1, <1>2, <1>3, <1>7, <2>1, HeldChanges
<1>10. mid[1] = lists[1] /\ mid[0] = lists'[0]
  BY <1>1, <1>3, <1>5
<1>11. h \in Nat /\ g \in Nat /\ k \in Nat
  BY <1>1, <1>2, <1>7, HeldType
<1>12. ASSUME NEW s \in {0, 1}
       PROVE  /\ Len(lists[s]) \in Nat /\ Blocks(lists[s]) = 1 + Len(lists[s])
              /\ Len(lists'[s]) \in Nat /\ Blocks(lists'[s]) = 1 + Len(lists'[s])
  <2>1. s \in DOMAIN lists /\ s \in DOMAIN lists'
    BY <1>1, <1>3, <1>4
  <2> QED BY <1>1, <1>2, <2>1, HeldType
<1> DEFINE a0 == Len(lists[0])
           b0 == Len(lists'[0])
           a1 == Len(lists[1])
           b1 == Len(lists'[1])
<1>13. /\ a0 \in Nat /\ b0 \in Nat /\ a1 \in Nat /\ b1 \in Nat
       /\ g + (1 + a0) = h + (1 + b0) /\ k + (1 + a1) = g + (1 + b1)
       /\ blocks' = h - (a0 - b0) - (a1 - b1)
  BY <1>2, <1>8, <1>9, <1>10, <1>12
<1> HIDE DEF h, g, k, a0, b0, a1, b1
<1>14. blocks' = k
  BY <1>11, <1>13
<1>15. one' # Merged /\ Len(out') = 0
  BY <1>2 DEF Merged
<1>16. blocks' = k + Len(out') + (IF one' = Merged THEN Blocks(lists'[Merged]) ELSE 0)
  BY <1>11, <1>14, <1>15
<1> QED BY <1>2, <1>16 DEF BlocksInv, k

LEMMA BlocksMergeNext ==
  ASSUME MethodInv, StateInv, StateInv', BlocksInv, MergeNext
  PROVE  BlocksInv'
<1>1. /\ RowsAscend(readings) /\ ListsTyped(lists, readings) /\ Held(lists, readings) \in Nat
      /\ DOMAIN lists = Numbers(readings) \cup {Merged}
      /\ Merged \notin Numbers(readings)
      /\ \A s \in DOMAIN lists : Len(lists[s]) \in Nat /\ Blocks(lists[s]) = 1 + Len(lists[s])
  BY StateNumbers
<1>2. /\ readings' = readings /\ ListsTyped(lists', readings)
      /\ pc' = "union" /\ one' = Merged /\ out' = <<>>
      /\ blocks' = blocks - (Len(lists[next]) - Len(lists'[next]))
      /\ blocks = Held(lists, readings) + Blocks(lists[Merged])
      /\ next \in Numbers(readings)
  BY DEF StateInv, BlocksInv, MergeNext, Unite, SetNumbers, initialSetCount, Numbers
<1>3. \A s \in DOMAIN lists \ {next} : lists'[s] = lists[s]
  BY DEF MergeNext
<1>4. lists'[Merged] = lists[Merged]
  BY <1>1, <1>2, <1>3
<1> DEFINE h == Held(lists, readings)
           k == Held(lists', readings)
           m == Blocks(lists[Merged])
<1>5. k + Blocks(lists[next]) = h + Blocks(lists'[next])
  <2>1. SameElsewhere(lists, lists', next, readings)
    BY <1>1, <1>3 DEF SameElsewhere
  <2> QED BY <1>1, <1>2, <2>1, HeldChanges
<1>6. h \in Nat /\ k \in Nat
  BY <1>1, <1>2, HeldType
<1>7. /\ Len(lists[next]) \in Nat /\ Blocks(lists[next]) = 1 + Len(lists[next])
      /\ Len(lists'[next]) \in Nat /\ Blocks(lists'[next]) = 1 + Len(lists'[next])
      /\ m \in Nat
  <2>1. next \in DOMAIN lists /\ next \in DOMAIN lists' /\ Merged \in DOMAIN lists
    BY <1>1, <1>2 DEF ListsTyped
  <2> QED BY <1>1, <1>2, <2>1, HeldType
<1> DEFINE a == Len(lists[next])
           b == Len(lists'[next])
<1>8. /\ a \in Nat /\ b \in Nat /\ k + (1 + a) = h + (1 + b)
      /\ blocks' = (h + m) - (a - b)
  BY <1>2, <1>5, <1>7
<1> HIDE DEF h, k, m, a, b
<1>9. blocks' = k + m
  BY <1>6, <1>7, <1>8
<1>10. Len(out') = 0
  BY <1>2
<1>11. blocks' = k + Len(out') + m
  BY <1>6, <1>7, <1>9, <1>10
<1> QED BY <1>2, <1>4, <1>11 DEF BlocksInv, k, m

\* A step of a union adds a piece, the lists stay as long as they are.
LEMMA BlocksInUnion ==
  ASSUME MethodInv, StateInv, StateInv', BlocksInv,
         pc = "union", pc' = "union", readings' = readings, one' = one,
         \A s \in DOMAIN lists : DOMAIN lists'[s] = DOMAIN lists[s],
         blocks' = blocks + 1, Len(out') = Len(out) + 1
  PROVE  BlocksInv'
<1>1. /\ RowsAscend(readings) /\ ListsTyped(lists, readings) /\ Held(lists, readings) \in Nat
      /\ DOMAIN lists = Numbers(readings) \cup {Merged} /\ Merged \in DOMAIN lists
      /\ \A s \in DOMAIN lists : Len(lists[s]) \in Nat /\ Blocks(lists[s]) = 1 + Len(lists[s])
      /\ Len(out) \in Nat
  BY StateNumbers
<1>2. /\ ListsTyped(lists', readings)
      /\ blocks = Held(lists, readings) + Len(out)
                    + (IF one = Merged THEN Blocks(lists[Merged]) ELSE 0)
  BY DEF StateInv, BlocksInv
<1>3. \A s \in DOMAIN lists : Len(lists'[s]) = Len(lists[s])
  BY <1>1, <1>2, SameLengths DEF ListsTyped
<1>4. Held(lists', readings) = Held(lists, readings)
  BY <1>1, <1>2, <1>3, HeldStays
<1>5. Blocks(lists'[Merged]) = Blocks(lists[Merged]) /\ Blocks(lists[Merged]) \in Nat
  BY <1>1, <1>3 DEF Blocks
<1>6. blocks' = Held(lists', readings) + Len(out')
                  + (IF one' = Merged THEN Blocks(lists'[Merged]) ELSE 0)
  BY <1>1, <1>2, <1>4, <1>5
<1> QED BY <1>6 DEF BlocksInv

LEMMA BlocksEndUnion ==
  ASSUME MethodInv, StateInv, StateInv', BlocksInv, EndUnion
  PROVE  BlocksInv'
<1>1. /\ RowsAscend(readings) /\ ListsTyped(lists, readings) /\ Held(lists, readings) \in Nat
      /\ DOMAIN lists = Numbers(readings) \cup {Merged} /\ Merged \in DOMAIN lists
      /\ Merged \notin Numbers(readings)
      /\ \A s \in DOMAIN lists : Len(lists[s]) \in Nat /\ Blocks(lists[s]) = 1 + Len(lists[s])
      /\ Len(out) \in Nat
  BY StateNumbers
<1>2. /\ ListsTyped(lists', readings) /\ readings' = readings /\ pc' = "merge"
      /\ blocks = Held(lists, readings) + Len(out)
                    + (IF one = Merged THEN Blocks(lists[Merged]) ELSE 0)
      /\ blocks' = blocks - Len(out) + Blocks(lists'[Merged])
                     - (IF one = Merged THEN Blocks(lists[Merged]) ELSE 0)
      /\ \A s \in DOMAIN lists \ {Merged} : lists'[s] = lists[s]
  BY DEF StateInv, BlocksInv, EndUnion
<1>3. \A s \in Numbers(readings) : Len(lists'[s]) = Len(lists[s])
  BY <1>1, <1>2
<1>4. Held(lists', readings) = Held(lists, readings)
  BY <1>1, <1>2, <1>3, HeldStays
<1>5. Blocks(lists[Merged]) \in Nat /\ Blocks(lists'[Merged]) \in Nat
  <2>1. Blocks(lists[Merged]) \in Nat
    BY <1>1
  <2>2. Merged \in DOMAIN lists'
    BY <1>2 DEF ListsTyped
  <2> QED BY <1>1, <1>2, <2>1, <2>2, HeldType
<1>6. blocks' = Held(lists', readings) + Blocks(lists'[Merged])
  BY <1>1, <1>2, <1>4, <1>5
<1> QED BY <1>2, <1>6 DEF BlocksInv

LEMMA BlocksNoPeak ==
  ASSUME MethodInv, StateInv, StateInv', BlocksInv, NoPeakFound
  PROVE  BlocksInv'
<1>1. /\ RowsAscend(readings) /\ ListsTyped(lists, readings) /\ Held(lists, readings) \in Nat
      /\ DOMAIN lists = Numbers(readings) \cup {Merged} /\ Merged \in DOMAIN lists
      /\ Merged \notin Numbers(readings)
      /\ \A s \in DOMAIN lists : Len(lists[s]) \in Nat /\ Blocks(lists[s]) = 1 + Len(lists[s])
  BY StateNumbers
<1>2. /\ ListsTyped(lists', readings) /\ readings' = readings /\ pc' = "round"
      /\ blocks = Held(lists, readings) + Blocks(lists[Merged])
      /\ blocks' = blocks - Blocks(lists[Merged])
      /\ \A s \in DOMAIN lists \ {Merged} : lists'[s] = lists[s]
  BY DEF StateInv, BlocksInv, NoPeakFound
<1>3. Held(lists', readings) = Held(lists, readings)
  <2>1. \A s \in Numbers(readings) : Len(lists'[s]) = Len(lists[s])
    BY <1>1, <1>2
  <2> QED BY <1>1, <1>2, <2>1, HeldStays
<1>4. Blocks(lists[Merged]) \in Nat
  BY <1>1
<1>5. blocks' = Held(lists', readings)
  BY <1>1, <1>2, <1>3, <1>4
<1> QED BY <1>2, <1>5 DEF BlocksInv

LEMMA BlocksPeak ==
  ASSUME MethodInv, MethodInv', BlocksInv, PeakFound
  PROVE  BlocksInv'
<1>1. /\ lists' = lists /\ readings' = readings /\ pc' = "destroy"
      /\ blocks = Held(lists, readings) + Blocks(lists[Merged])
      /\ blocks' = blocks + Blocks(PeakSet(lists[Merged]))
  BY DEF BlocksInv, PeakFound
<1>2. MergeInv(lists, next, redoLimit, readings)
  BY DEF MethodInv, PeakFound
<1>3. lists[Merged] \in Seq(Pieces) /\ lists[Merged] # <<>> /\ Settled(lists[Merged])
  BY <1>2 DEF MergeInv, Unites, Exact
<1>4. PICK m \in DOMAIN lists[Merged] : Head(PeakSet(lists[Merged])) = lists[Merged][m]
  BY <1>3, PeakSetIs
<1>5. peak'.count = lists[Merged][m].count
  BY <1>4 DEF PeakFound
<1>6. peak'.count > 0
  BY <1>3, <1>5 DEF Settled
<1>7. peak' # NoPeak
  BY <1>6 DEF NoPeak
<1>8. /\ Blocks(PeakSet(lists[Merged])) \in Nat /\ Blocks(lists[Merged]) \in Nat
  BY <1>3, PeakSetIs DEF Blocks
<1>9. Held(lists, readings) \in Nat
  <2>1. RowsAscend(readings) /\ redoLimit \in 0 .. FuzzRounds
    BY DEF MethodInv
  <2> QED BY <1>2, <2>1, MergeTyped, HeldType
<1>10. blocks' = Held(lists, readings) + (Blocks(lists[Merged]) + Blocks(PeakSet(lists[Merged])))
  BY <1>1, <1>8, <1>9
<1> QED BY <1>1, <1>7, <1>10 DEF BlocksInv

LEMMA BlocksDestroyed ==
  ASSUME MethodInv, StateInv, BlocksInv, DestroySets
  PROVE  BlocksInv'
<1>1. /\ Held(lists, readings) \in Nat
      /\ Merged \in DOMAIN lists
      /\ \A s \in DOMAIN lists : Len(lists[s]) \in Nat /\ Blocks(lists[s]) = 1 + Len(lists[s])
  BY StateNumbers
<1>2. /\ pc = "destroy" /\ pc' = "done"
      /\ blocks = Held(lists, readings)
                    + (IF peak = NoPeak THEN 0
                       ELSE Blocks(lists[Merged]) + Blocks(PeakSet(lists[Merged])))
      /\ blocks' = blocks - Held(lists, readings)
                     - (IF peak = NoPeak THEN 0
                        ELSE Blocks(lists[Merged]) + Blocks(PeakSet(lists[Merged])))
  BY BlocksAreHeld DEF BlocksInv, DestroySets
<1>3. Blocks(lists[Merged]) \in Nat
  BY <1>1
<1>4. peak # NoPeak => Blocks(PeakSet(lists[Merged])) \in Nat
  <2> SUFFICES ASSUME peak # NoPeak PROVE Blocks(PeakSet(lists[Merged])) \in Nat
    OBVIOUS
  <2>1. lists[Merged] # <<>>
    BY <1>2 DEF StateInv
  <2>2. lists[Merged] \in Seq(Pieces)
    BY <1>1 DEF StateInv, ListsTyped, Typed
  <2> QED BY <2>1, <2>2, PeakSetIs DEF Blocks
<1>5. blocks' = 0
  BY <1>1, <1>2, <1>3, <1>4
<1> QED BY <1>2, <1>5 DEF BlocksInv

LEMMA BlocksGoOn ==
  ASSUME MethodInv, MethodInv', StateInv, StateInv', BlocksInv, [Next]_vars
  PROVE  BlocksInv'
<1>1. CASE GiveUp
  <2>1. peak = NoPeak /\ peak' = peak
    BY <1>1 DEF GiveUp, MethodInv
  <2>2. Held(lists, readings) \in Nat
    BY StateNumbers
  <2> QED BY <1>1, <2>1, <2>2 DEF GiveUp, BlocksInv
<1>2. CASE MergeOverlapping \/ CarryLeft \/ CarryRight
  <2>1. /\ pc = "union" /\ pc' = "union" /\ readings' = readings /\ one' = one
        /\ \A s \in DOMAIN lists : DOMAIN lists'[s] = DOMAIN lists[s]
        /\ blocks' = blocks + 1
    BY <1>2 DEF MergeOverlapping, CarryLeft, CarryRight
  <2>2. \E e : out' = Append(out, e)
    BY <1>2 DEF MergeOverlapping, CarryLeft, CarryRight
  <2>3. out \in Seq(Pieces) /\ out' \in Seq(Pieces)
    BY DEF StateInv, Typed
  <2>4. Len(out') = Len(out) + 1
    BY <2>2, <2>3
  <2> QED BY <2>1, <2>4, BlocksInUnion
<1>3. CASE UNCHANGED vars
  BY <1>3 DEF vars, cursors, BlocksInv, initialSetCount
<1> QED
  BY <1>1, <1>2, <1>3, BlocksBeginRound, BlocksMergeNext, BlocksPeak, BlocksNoPeak,
     BlocksDestroyed, BlocksEndUnion DEF Next, Finished

\* The three invariants together are inductive.
THEOREM StateCorrect == Spec => [](MethodInv /\ StateInv /\ BlocksInv)
<1>1. Init => MethodInv /\ StateInv /\ BlocksInv
  BY MethodBegins, StateBegins, BlocksBegin
<1>2. MethodInv /\ MethodInv' /\ StateInv /\ BlocksInv /\ [Next]_vars => StateInv' /\ BlocksInv'
  BY StateGoesOn, BlocksGoOn
<1>3. Spec => []MethodInv
  BY MethodCorrect
<1> QED BY <1>1, <1>2, <1>3, PTL DEF Spec

LEMMA TypesFollow == MethodInv /\ StateInv /\ BlocksInv => TypeOK
<1> SUFFICES ASSUME MethodInv, StateInv, BlocksInv PROVE TypeOK
  OBVIOUS
<1>1. /\ RowsAscend(readings) /\ redoLimit \in 0 .. FuzzRounds
      /\ pc \in {"round", "union", "merge", "destroy", "done"}
  BY DEF MethodInv
<1>2. readings \in Seq(Seq(Nat))
  <2>1. readings \in Seq(Seq(Nat \ {0}))
    BY <1>1 DEF RowsAscend
  <2>2. DOMAIN readings = 1 .. Len(readings) /\ Len(readings) \in Nat
    BY <2>1
  <2>3. \A s \in DOMAIN readings : readings[s] \in Seq(Nat)
    <3> SUFFICES ASSUME NEW s \in DOMAIN readings PROVE readings[s] \in Seq(Nat)
      OBVIOUS
    <3>1. readings[s] \in Seq(Nat \ {0})
      BY <2>1
    <3> QED BY <3>1
  <2> QED BY <2>1, <2>2, <2>3
<1>3. ASSUME NEW list, Typed(list, readings), NEW k \in DOMAIN list
      PROVE  Elements(list[k])
  <2>1. /\ list[k] \in Pieces /\ list[k].low \in Nat /\ list[k].low <= list[k].high
        /\ list[k].ids \subseteq Numbers(readings) \cup {Unknown}
    BY <1>3 DEF Typed
  <2>2. list[k].high \in Int
    BY <2>1 DEF Pieces
  <2>3. list[k].high \in Nat
    BY <2>1, <2>2
  <2> QED BY <2>1, <2>3 DEF Elements, Pieces, Numbers, SetNumbers, initialSetCount
<1>4. \A s \in DOMAIN lists : \A k \in DOMAIN lists[s] : Elements(lists[s][k])
  BY <1>3 DEF StateInv, ListsTyped
<1>5. \A k \in DOMAIN out : Elements(out[k])
  BY <1>3 DEF StateInv
<1>6. next \in 0 .. initialSetCount /\ {one, other} \subseteq DOMAIN lists
  BY DEF StateInv, initialSetCount
<1>7. blocks \in Nat
  <2> DEFINE h == Held(lists, readings)
             m == Blocks(lists[Merged])
             p == Blocks(PeakSet(lists[Merged]))
             o == Len(out)
  <2>1. h \in Nat /\ m \in Nat /\ o \in Nat
    BY StateNumbers
  <2>2. pc = "destroy" /\ peak # NoPeak => p \in Nat
    <3> SUFFICES ASSUME pc = "destroy", peak # NoPeak PROVE p \in Nat
      OBVIOUS
    <3>1. lists[Merged] # <<>>
      BY DEF StateInv
    <3>2. lists[Merged] \in Seq(Pieces)
      BY DEF StateInv, ListsTyped, Typed
    <3> QED BY <3>1, <3>2, PeakSetIs DEF Blocks
  <2>3. /\ pc = "round" => blocks = h
        /\ pc = "union" => blocks = h + o + (IF one = Merged THEN m ELSE 0)
        /\ pc = "merge" => blocks = h + m
        /\ pc = "destroy" => blocks = h + (IF peak = NoPeak THEN 0 ELSE m + p)
        /\ pc = "done" => blocks \in Nat
    BY DEF BlocksInv
  <2> HIDE DEF h, m, p, o
  <2> QED BY <1>1, <2>1, <2>2, <2>3
<1> QED BY <1>1, <1>2, <1>4, <1>5, <1>6, <1>7 DEF TypeOK

\* Theorem: the variables have their types; the low end of a range never falls
\* below zero (adjustFuzz), nor the number of blocks.
THEOREM TypeCorrect == Spec => []TypeOK
BY StateCorrect, TypesFollow, PTL

LEMMA NoLeaksFollow == BlocksInv => NothingLeaks
BY BlocksAreHeld DEF BlocksInv, NothingLeaks

\* Theorem: what a round allocates it frees, and at the end all is free.
THEOREM NothingIsLeaked == Spec => []NothingLeaks
BY StateCorrect, NoLeaksFollow, PTL

-----------------------------------------------------------------------------
(* An estimate whenever there is enough data, within reach *)

LEMMA PointsCounted ==
  ASSUME NEW rd, RowsAscend(rd)
  PROVE  /\ Cardinality(Points(rd, Numbers(rd)))
              = SumFunction([s \in Numbers(rd) |-> Len(rd[s + 1])])
         /\ IsFiniteSet(Numbers(rd)) /\ Cardinality(Numbers(rd)) = Len(rd)
<1>1. rd \in Seq(Seq(Nat \ {0})) /\ Len(rd) \in Nat
  BY DEF RowsAscend
<1> DEFINE f == [s \in Numbers(rd) |-> Len(rd[s + 1])]
           Q == [s \in Numbers(rd) |-> DOMAIN rd[s + 1]]
<1>2. ASSUME NEW s \in Numbers(rd)
      PROVE  /\ Q[s] \in SUBSET Nat /\ IsFiniteSet(Q[s]) /\ f[s] = Cardinality(Q[s])
  <2>1. s + 1 \in DOMAIN rd
    BY <1>1 DEF Numbers
  <2>2. rd[s + 1] \in Seq(Nat \ {0})
    BY <1>1, <2>1
  <2> DEFINE n == Len(rd[s + 1])
  <2>3. DOMAIN rd[s + 1] = 1 .. n /\ n \in Nat
    BY <2>2
  <2>4. Q[s] = 1 .. n /\ f[s] = n
    BY <2>3
  <2> HIDE DEF n, Q, f
  <2>5. 1 \in Int /\ n \in Int /\ 1 .. n \in SUBSET Nat
    BY <2>3
  <2>6. IsFiniteSet(1 .. n) /\ Cardinality(1 .. n) = IF 1 > n THEN 0 ELSE n - 1 + 1
    BY <2>5, FS_Interval
  <2> QED BY <2>3, <2>4, <2>5, <2>6
<1> DEFINE N == Len(rd)
<1>3. IsFiniteSet(Numbers(rd)) /\ Cardinality(Numbers(rd)) = N
  <2>1. N \in Nat
    BY <1>1
  <2> HIDE DEF N
  <2>2. 0 \in Int /\ N - 1 \in Int
    BY <2>1
  <2>3. IsFiniteSet(0 .. N - 1) /\ Cardinality(0 .. N - 1) = IF 0 > N - 1 THEN 0 ELSE (N - 1) - 0 + 1
    BY <2>2, FS_Interval
  <2>4. Cardinality(0 .. N - 1) = N
    BY <2>1, <2>3
  <2> QED BY <2>3, <2>4 DEF Numbers, N
<1>4. Points(rd, Numbers(rd)) = PairsOver(Numbers(rd), Q)
  BY DEF Points, PairsOver
<1>5. DOMAIN f = Numbers(rd)
  OBVIOUS
<1> HIDE DEF f, Q
<1>6. Cardinality(PairsOver(Numbers(rd), Q)) = SumFunctionOnSet(f, Numbers(rd))
  BY <1>2, <1>3, SumOfPairs
<1>7. Cardinality(Points(rd, Numbers(rd))) = SumFunction(f)
  BY <1>4, <1>5, <1>6 DEF SumFunction
<1> QED BY <1>3, <1>7 DEF f, N

LEMMA StepsMeet ==
  ASSUME NEW F \in Nat, NEW x \in Nat, NEW v \in Nat, NEW w \in Nat,
         v <= w, x <= (2 * F - 1) * v
  PROVE  x * (F - (F - 1)) <= w * F + (F - 1) * v
<1>1. x * (F - (F - 1)) = x
  <2>1. F - (F - 1) = 1
    OBVIOUS
  <2> QED BY <2>1
<1>2. v * F <= w * F
  BY ProductsGrow
<1>3. (2 * F - 1) * v = v * F + (F - 1) * v
  OBVIOUS
<1> DEFINE vF == v * F
           wF == w * F
           rest == (F - 1) * v
<1>4. vF \in Int /\ wF \in Int /\ rest \in Int
  OBVIOUS
<1> HIDE DEF vF, wF, rest
<1>5. x <= vF + rest /\ vF <= wF
  BY <1>2, <1>3 DEF vF, wF, rest
<1>6. x <= wF + rest
  BY <1>4, <1>5
<1> QED BY <1>1, <1>6 DEF wF, rest

\* After all tries but one, readings within reach of each other are in one range.
LEMMA OneInReach ==
  ASSUME NEW X, NEW sz, \A x \in X : sz[x] \in Nat,
         \A x, y \in X : sz[x] <= (2 * FuzzRounds - 1) * sz[y],
         NEW pos, NEW list, Exact(list, X, pos), Middling(list, X, sz, FuzzRounds - 1)
  PROVE  DOMAIN list = {1} /\ InElement(X, pos, list[1]) = X
<1>1. /\ list \in Seq(Pieces) /\ list # <<>>
      /\ \A k \in DOMAIN list : list[k].low <= list[k].high
      /\ \A j, k \in DOMAIN list : j < k => list[j].high < list[k].low
      /\ \A x \in X : \E k \in DOMAIN list : Within(pos[x], list[k])
  BY DEF Exact, Spread, Ranged
<1>2. DOMAIN list = 1 .. Len(list) /\ Len(list) \in Nat /\ 1 \in DOMAIN list
  BY <1>1
\* The low end of one has come down to one step, the high end of the other is up
\* by all its steps but one.
<1>3. \A k \in DOMAIN list : list[k].low <= list[1].high
  <2> SUFFICES ASSUME NEW k \in DOMAIN list PROVE list[k].low <= list[1].high
    OBVIOUS
  <2>1. PICK x \in X : list[k].low = sz[x] * (FuzzRounds - (FuzzRounds - 1))
    BY DEF Middling, Grown
  <2>2. PICK v, w \in X : /\ sz[v] <= sz[w]
                          /\ sz[w] * FuzzRounds + (FuzzRounds - 1) * sz[v] <= list[1].high
    BY <1>2 DEF Middling, Grown
  <2>3. /\ sz[x] \in Nat /\ sz[v] \in Nat /\ sz[w] \in Nat
        /\ sz[x] <= (2 * FuzzRounds - 1) * sz[v]
    OBVIOUS
  <2>4. list[1].high \in Int /\ list[k].low \in Int
    BY <1>1, <1>2, PieceFields
  <2>5. FuzzRounds \in Nat
    BY FuzzAssumption
  <2> QED BY <2>1, <2>2, <2>3, <2>4, <2>5, StepsMeet
<1>4. \A k \in DOMAIN list : k = 1
  <2> SUFFICES ASSUME NEW k \in DOMAIN list, k # 1 PROVE FALSE
    OBVIOUS
  <2>1. 1 < k
    BY <1>2
  <2>2. list[1].high < list[k].low /\ list[k].low <= list[1].high
    BY <1>1, <1>2, <1>3, <2>1
  <2>3. list[1].high \in Int /\ list[k].low \in Int
    BY <1>1, <1>2, PieceFields
  <2> QED BY <2>2, <2>3
<1>5. DOMAIN list = {1}
  BY <1>2, <1>4
<1> QED BY <1>1, <1>5 DEF InElement

DataInv ==
  /\ peak # NoPeak => Enough
  /\ Enough /\ WithinReach =>
       /\ redoLimit < FuzzRounds
       /\ pc = "round" => redoLimit < FuzzRounds - 1
       /\ pc \in {"destroy", "done"} => peak # NoPeak

\* What the merged set counts at most.
LEMMA PeakNeedsEnough ==
  ASSUME MethodInv, pc = "merge", Resolved(lists[Merged])
  PROVE  Enough
<1> DEFINE list == lists[Merged]
           X == Points(readings, 0 .. next - 1)
           all == Points(readings, Numbers(readings))
<1>1. /\ RowsAscend(readings) /\ MergeInv(lists, next, redoLimit, readings)
      /\ Len(readings) \in Nat
  BY DEF MethodInv, RowsAscend
<1>2. /\ next \in 2 .. Len(readings)
      /\ Exact(list, X, Place(readings)) /\ Settled(list)
  BY <1>1 DEF MergeInv, Unites
<1>3. list \in Seq(Pieces) /\ list # <<>>
  BY <1>2 DEF Exact
<1>4. PICK m \in DOMAIN list : Head(PeakSet(list)) = list[m] /\ list[m].count = PeakSize(list)
  BY <1>3, PeakSetIs
<1>5. /\ list[m].count = Cardinality(InElement(X, Place(readings), list[m]))
      /\ list[m].ids \ {Unknown} = {x[1] : x \in InElement(X, Place(readings), list[m])}
  BY <1>2 DEF Exact, Settled, Whole
<1>6. 0 .. next - 1 \in SUBSET Numbers(readings) /\ Numbers(readings) \in SUBSET Numbers(readings)
  BY <1>1, <1>2 DEF Numbers
<1>7. X \subseteq all /\ IsFiniteSet(all) /\ \A x \in X : x[1] \in Numbers(readings)
  BY <1>1, <1>6, PointsFacts
<1>8. /\ Cardinality(all) = SumFunction([s \in Numbers(readings) |-> Len(readings[s + 1])])
      /\ IsFiniteSet(Numbers(readings)) /\ Cardinality(Numbers(readings)) = Len(readings)
  BY <1>1, PointsCounted
<1>9. PeakSize(list) >= MinPeakSize /\ Cardinality(list[m].ids \ {Unknown}) >= MinNumSets
  BY <1>4 DEF Resolved, CountBaseSets
<1> HIDE DEF list, X, all
<1> DEFINE S == InElement(X, Place(readings), list[m])
           ids == list[m].ids \ {Unknown}
<1>10. S \in SUBSET all /\ ids \in SUBSET Numbers(readings)
  BY <1>5, <1>7 DEF InElement
<1>11. S \in SUBSET all /\ S = InElement(X, Place(readings), list[m])
  BY <1>10
<1> HIDE DEF S, ids
<1>12. /\ Cardinality(S) \in Nat /\ Cardinality(all) \in Nat /\ Cardinality(S) <= Cardinality(all)
  BY <1>7, <1>10, FS_Subset, FS_CardinalityType
<1>13. /\ Cardinality(ids) \in Nat /\ Cardinality(ids) <= Cardinality(Numbers(readings))
  BY <1>8, <1>10, FS_Subset, FS_CardinalityType
<1>14. /\ Cardinality(S) >= MinPeakSize /\ Cardinality(ids) >= MinNumSets
  BY <1>4, <1>5, <1>9, <1>11 DEF ids
<1>15. MinPeakSize \in Nat /\ MinNumSets \in Nat
  BY FilterAssumption
<1>16. Cardinality(all) >= MinPeakSize
  BY <1>12, <1>14, <1>15
<1>17. Len(readings) >= MinNumSets
  <2>1. Cardinality(ids) <= Cardinality(Numbers(readings)) /\ Cardinality(Numbers(readings)) \in Nat
    BY <1>8, <1>13, FS_CardinalityType
  <2>2. Cardinality(Numbers(readings)) >= MinNumSets
    BY <1>13, <1>14, <1>15, <2>1
  <2> QED BY <1>8, <2>2
<1>18. Len(readings) >= 2
  BY <1>1, <1>2
<1> QED BY <1>8, <1>16, <1>17, <1>18 DEF Enough, initialSetCount, SetNumbers, Numbers

LEMMA EnoughMakesPeak ==
  ASSUME MethodInv, pc = "merge", next \notin SetNumbers, redoLimit = FuzzRounds - 1,
         Enough, WithinReach
  PROVE  Resolved(lists[Merged])
<1> DEFINE list == lists[Merged]
           all == Points(readings, Numbers(readings))
<1>1. /\ RowsAscend(readings) /\ MergeInv(lists, next, redoLimit, readings)
      /\ Len(readings) \in Nat
  BY DEF MethodInv, RowsAscend
<1>2. /\ next \in 2 .. Len(readings) /\ Settled(list)
      /\ Exact(list, Points(readings, 0 .. next - 1), Place(readings))
      /\ Middling(list, Points(readings, 0 .. next - 1), Size(readings), FuzzRounds - 1)
  BY <1>1 DEF MergeInv, Unites
<1>3. 0 .. next - 1 = Numbers(readings)
  BY <1>1, <1>2 DEF Numbers, SetNumbers, initialSetCount
<1>4. Exact(list, all, Place(readings)) /\ Middling(list, all, Size(readings), FuzzRounds - 1)
  BY <1>2, <1>3
<1>5. Numbers(readings) \in SUBSET Numbers(readings)
  OBVIOUS
<1>6. \A x \in all : Size(readings)[x] \in Nat /\ x[1] \in Numbers(readings)
  BY <1>1, <1>5, PointsFacts
<1>7. DOMAIN list = {1} /\ InElement(all, Place(readings), list[1]) = all
  <2>1. \A x, y \in all : Size(readings)[x] <= (2 * FuzzRounds - 1) * Size(readings)[y]
    <3> SUFFICES ASSUME NEW x \in all, NEW y \in all
                 PROVE  Size(readings)[x] <= (2 * FuzzRounds - 1) * Size(readings)[y]
      OBVIOUS
    <3>1. /\ x[1] \in Numbers(readings) /\ x[2] \in DOMAIN readings[x[1] + 1]
          /\ y[1] \in Numbers(readings) /\ y[2] \in DOMAIN readings[y[1] + 1]
      BY DEF Points
    <3>2. /\ Size(readings)[x] = readings[x[1] + 1][x[2]]
          /\ Size(readings)[y] = readings[y[1] + 1][y[2]]
      BY DEF Size
    <3> QED BY <3>1, <3>2 DEF WithinReach, SetNumbers, initialSetCount, Numbers
  <2> HIDE DEF list, all
  <2> QED BY <1>4, <1>6, <2>1, OneInReach
<1>8. list[1].count = Cardinality(all) /\ list[1].ids \ {Unknown} = {x[1] : x \in all}
  BY <1>2, <1>4, <1>7 DEF Exact, Settled, Whole
<1>9. {x[1] : x \in all} = Numbers(readings)
  <2>1. ASSUME NEW s \in Numbers(readings)
        PROVE  \E x \in all : x[1] = s
    <3>1. s + 1 \in DOMAIN readings
      BY <1>1 DEF Numbers
    <3>2. readings[s + 1] \in Seq(Nat \ {0}) /\ readings[s + 1] # <<>>
      BY <1>1, <3>1 DEF RowsAscend
    <3>3. 1 \in DOMAIN readings[s + 1]
      BY <3>2
    <3>4. <<s, 1>> \in all
      BY <3>3 DEF Points
    <3> QED BY <3>4
  <2> QED BY <1>6, <2>1
<1>10. list \in Seq(Pieces) /\ list # <<>>
  BY <1>4 DEF Exact
<1>11. /\ Cardinality(all) = SumFunction([s \in Numbers(readings) |-> Len(readings[s + 1])])
       /\ Cardinality(Numbers(readings)) = Len(readings)
  BY <1>1, PointsCounted
<1>12. /\ Cardinality(all) >= MinPeakSize /\ Cardinality(Numbers(readings)) >= MinNumSets
  BY <1>11 DEF Enough, initialSetCount, SetNumbers, Numbers
<1>13. PICK m \in DOMAIN list : Head(PeakSet(list)) = list[m] /\ list[m].count = PeakSize(list)
  BY <1>10, PeakSetIs
<1>14. m = 1 /\ Head(PeakSet(list)) = list[1] /\ PeakSize(list) = list[1].count
  BY <1>7, <1>13
<1>15. Len(PeakSet(list)) = 1
  <2>1. {k \in DOMAIN list : list[k].count = PeakSize(list)} = {1}
    BY <1>7, <1>14
  <2>2. Cardinality({1}) = 1
    BY FS_Singleton
  <2> QED BY <1>10, <2>1, <2>2, PeakSetIs
<1> QED BY <1>8, <1>9, <1>12, <1>14, <1>15 DEF Resolved, CountBaseSets

LEMMA DataBegins == Init => DataInv
<1> SUFFICES ASSUME Init PROVE DataInv
  OBVIOUS
<1>1. MethodInv
  BY MethodBegins
<1>2. Len(readings) \in Nat
  BY <1>1 DEF MethodInv, RowsAscend
<1>3. redoLimit < FuzzRounds - 1 /\ redoLimit < FuzzRounds /\ peak = NoPeak /\ pc = (IF initialSetCount < 2 THEN "done" ELSE "round")
  BY FuzzAssumption DEF Init
<1> DEFINE N == Len(readings)
<1>4. pc = "done" => N < 2
  BY <1>3 DEF initialSetCount
<1>5. pc = "done" => ~(N >= 2)
  <2> HIDE DEF N
  <2>1. N \in Nat
    BY <1>2 DEF N
  <2> QED BY <1>4, <2>1
<1> QED BY <1>3, <1>5 DEF DataInv, Enough, initialSetCount

LEMMA DataGoesOn ==
  ASSUME MethodInv, DataInv, [Next]_vars
  PROVE  DataInv'
<1>1. readings' = readings
  BY DEF Next, BeginRound, GiveUp, MergeNext, PeakFound, NoPeakFound, DestroySets,
         MergeOverlapping, CarryLeft, CarryRight, EndUnion, Finished, vars
<1>2. (Enough' <=> Enough) /\ (WithinReach' <=> WithinReach)
  BY <1>1 DEF Enough, WithinReach, initialSetCount, SetNumbers
<1>0. redoLimit \in Nat /\ FuzzRounds \in Nat
  BY FuzzAssumption DEF MethodInv
<1>9. CASE BeginRound
  <2>1. peak' = peak /\ pc = "round" /\ pc' = "union" /\ redoLimit' = redoLimit + 1
    BY <1>9 DEF BeginRound, Unite
  <2>2. Enough /\ WithinReach => redoLimit' < FuzzRounds
    BY <1>0, <2>1 DEF DataInv
  <2> QED BY <1>2, <2>1, <2>2 DEF DataInv
<1>3. CASE MergeNext \/ MergeOverlapping \/ CarryLeft \/ CarryRight \/ EndUnion
  <2>1. peak' = peak /\ pc' \in {"union", "merge"} /\ redoLimit' = redoLimit
    BY <1>3 DEF MergeNext, Unite, MergeOverlapping, CarryLeft, CarryRight, EndUnion
  <2> QED BY <1>2, <2>1 DEF DataInv
<1>4. CASE GiveUp
  <2>1. pc = "round" /\ ~(redoLimit < FuzzRounds) /\ peak' = peak
    BY <1>4 DEF GiveUp, RoundsLeft
  <2> QED BY <1>2, <2>1 DEF DataInv
<1>5. CASE PeakFound
  <2>1. Enough
    BY <1>5, PeakNeedsEnough DEF PeakFound
  <2>2. peak' # NoPeak
    <3>1. MergeInv(lists, next, redoLimit, readings)
      BY <1>5 DEF MethodInv, PeakFound
    <3>2. lists[Merged] \in Seq(Pieces) /\ lists[Merged] # <<>> /\ Settled(lists[Merged])
      BY <3>1 DEF MergeInv, Unites, Exact
    <3>3. PICK m \in DOMAIN lists[Merged] : Head(PeakSet(lists[Merged])) = lists[Merged][m]
      BY <3>2, PeakSetIs
    <3>4. peak'.count = lists[Merged][m].count
      BY <1>5, <3>3 DEF PeakFound
    <3>5. peak'.count > 0
      BY <3>2, <3>4 DEF Settled
    <3> QED BY <3>5 DEF NoPeak
  <2>3. pc' = "destroy" /\ redoLimit' = redoLimit
    BY <1>5 DEF PeakFound
  <2> QED BY <1>2, <2>1, <2>2, <2>3 DEF DataInv
<1>6. CASE NoPeakFound
  <2>1. /\ pc = "merge" /\ next \notin SetNumbers /\ ~Resolved(lists[Merged])
        /\ pc' = "round" /\ redoLimit' = redoLimit /\ peak' = peak
    BY <1>6 DEF NoPeakFound
  <2>2. Enough /\ WithinReach => redoLimit # FuzzRounds - 1
    BY <2>1, EnoughMakesPeak
  <2>3. Enough /\ WithinReach => redoLimit < FuzzRounds - 1
    BY <1>0, <2>2 DEF DataInv
  <2> QED BY <1>2, <2>1, <2>3 DEF DataInv
<1>7. CASE DestroySets
  <2>1. pc = "destroy" /\ pc' = "done" /\ peak' = peak /\ redoLimit' = redoLimit
    BY <1>7 DEF DestroySets
  <2> QED BY <1>2, <2>1 DEF DataInv
<1>8. CASE UNCHANGED vars
  <2>1. peak' = peak /\ pc' = pc /\ redoLimit' = redoLimit
    BY <1>8 DEF vars
  <2> QED BY <1>2, <2>1 DEF DataInv
<1> QED BY <1>3, <1>4, <1>5, <1>6, <1>7, <1>8, <1>9 DEF Next, Finished

LEMMA EnoughFollows == DataInv => EnoughDataSuffices
BY DEF DataInv, EnoughDataSuffices

\* Theorem: there is no estimate without readings enough, of sets enough; with
\* them there is, and a try to spare, unless the readings are too far apart.
THEOREM EstimateWhenever == Spec => []EnoughDataSuffices
<1>1. Init => DataInv
  BY DataBegins
<1>2. MethodInv /\ DataInv /\ [Next]_vars => DataInv'
  BY DataGoesOn
<1>3. Spec => []MethodInv
  BY MethodCorrect
<1>4. DataInv => EnoughDataSuffices
  BY EnoughFollows
<1> QED BY <1>1, <1>2, <1>3, <1>4, PTL DEF Spec

-----------------------------------------------------------------------------
(* Filter implements Clusters *)

\* When all sets are united the merged set consists of the clusters of all ranges.
LEMMA UnitedClusters ==
  ASSUME NEW rd, RowsAscend(rd), NEW ls, NEW nx, NEW n \in Nat, MergeInv(ls, nx, n, rd),
         nx \notin Numbers(rd)
  PROVE  C!ClustersOf(UNION {RangesAt(rd[s], n) : s \in DOMAIN rd}) = Extents(ls[Merged])
<1> DEFINE list == ls[Merged]
           Rs == UNION {RangesAt(rd[s], n) : s \in DOMAIN rd}
<1>1. /\ nx \in 2 .. Len(rd) /\ n >= 1 /\ Len(rd) \in Nat /\ DOMAIN rd = 1 .. Len(rd)
      /\ \A s \in Numbers(rd) : BaseSet(ls[s], s, Level(s, nx, n), rd)
      /\ Unites(list, 0 .. nx - 1, ls, n, rd)
  BY DEF MergeInv, RowsAscend
<1>2. nx = Len(rd) /\ 0 .. nx - 1 = Numbers(rd) /\ \A s \in Numbers(rd) : Level(s, nx, n) = n
  <2>1. nx = Len(rd)
    <3> DEFINE N == Len(rd)
    <3>1. N \in Nat /\ nx \in 2 .. N /\ nx \notin 0 .. N - 1
      BY <1>1 DEF Numbers
    <3> HIDE DEF N
    <3>2. nx = N
      BY <3>1
    <3> QED BY <3>2 DEF N
  <2>2. \A s \in Numbers(rd) : ~(s >= nx)
    BY <1>1, <2>1 DEF Numbers
  <2> QED BY <2>1, <2>2 DEF Numbers, Level
<1>3. /\ list \in Seq(Pieces) /\ Spread(list)
      /\ \A p \in Int : (\E k \in DOMAIN list : Spans(p, list[k])) <=>
                          \E s \in Numbers(rd) : \E k \in DOMAIN ls[s] : Spans(p, ls[s][k])
  BY <1>1, <1>2 DEF Unites, Exact
<1> HIDE DEF list
<1>4. ASSUME NEW s \in Numbers(rd)
      PROVE  /\ s + 1 \in DOMAIN rd /\ RangesAt(rd[s + 1], n) = Shapes(ls[s])
             /\ ls[s] \in Seq(Pieces) /\ Ranged(ls[s])
  <2>1. BaseSet(ls[s], s, n, rd) /\ n # 0
    BY <1>1, <1>2
  <2>2. RangesAt(rd[s + 1], n) = Shapes(ls[s])
    BY <2>1, BaseSetShapes
  <2>3. s + 1 \in DOMAIN rd
    BY <1>1 DEF Numbers
  <2> QED BY <2>1, <2>2, <2>3 DEF BaseSet, Exact, Spread
<1>5. \A s \in DOMAIN rd : s - 1 \in Numbers(rd) /\ (s - 1) + 1 = s
  BY <1>1 DEF Numbers
\* A range is an element of one of the sets.
<1>6. ASSUME NEW r \in Rs
      PROVE  \E s \in Numbers(rd) : \E k \in DOMAIN ls[s] :
               r.low = ls[s][k].low /\ r.high = ls[s][k].high
  <2>1. PICK t \in DOMAIN rd : r \in RangesAt(rd[t], n)
    OBVIOUS
  <2>2. PICK s \in Numbers(rd) : s + 1 = t
    BY <1>5
  <2>3. r \in Shapes(ls[s])
    BY <1>4, <2>1, <2>2
  <2> QED BY <2>3 DEF Shapes
<1>7. ASSUME NEW s \in Numbers(rd), NEW k \in DOMAIN ls[s]
      PROVE  \E r \in Rs : r.low = ls[s][k].low /\ r.high = ls[s][k].high
  <2> DEFINE r == [low |-> ls[s][k].low, high |-> ls[s][k].high, step |-> ls[s][k].item]
  <2>1. r \in Shapes(ls[s])
    BY DEF Shapes
  <2>2. r \in Rs
    BY <1>4, <2>1
  <2>3. r.low = ls[s][k].low /\ r.high = ls[s][k].high
    OBVIOUS
  <2> HIDE DEF r
  <2> QED BY <2>2, <2>3
<1> HIDE DEF Rs
<1>8. \A r \in Rs : r.low \in Int /\ r.high \in Int /\ r.low <= r.high
  BY <1>4, <1>6, PieceFields DEF Ranged
<1>9. ASSUME NEW p \in Int
      PROVE  (\E k \in DOMAIN list : Spans(p, list[k])) <=> \E r \in Rs : Spans(p, r)
  <2>1. ASSUME NEW s \in Numbers(rd), NEW k \in DOMAIN ls[s], Spans(p, ls[s][k])
        PROVE  \E r \in Rs : Spans(p, r)
    BY <1>7, <2>1 DEF Spans
  <2>2. ASSUME NEW r \in Rs, Spans(p, r)
        PROVE  \E s \in Numbers(rd) : \E k \in DOMAIN ls[s] : Spans(p, ls[s][k])
    BY <1>6, <2>2 DEF Spans
  <2> QED BY <1>3, <2>1, <2>2
<1>10. C!ClustersOf(Rs) = Extents(list)
  BY <1>3, <1>8, <1>9, ClustersAre
<1> QED BY <1>10 DEF Rs, list

\* The operators of the standard modules are the same in Clusters and here.
LEMMA SameCardinality == ASSUME NEW S PROVE C!Cardinality(S) = Cardinality(S)
BY DEF C!Cardinality, Cardinality

LEMMA SameSums == ASSUME NEW f, NEW S PROVE C!SumFunctionOnSet(f, S) = SumFunctionOnSet(f, S)
BY DEF C!SumFunctionOnSet, SumFunctionOnSet, C!FoldFunctionOnSet, FoldFunctionOnSet,
       C!MapThenFoldSet, MapThenFoldSet

\* A cluster has the readings that its element counts, from as many sizes.
LEMMA CountIsExact ==
  ASSUME MethodInv, pc = "merge", next \notin SetNumbers,
         NEW k \in DOMAIN lists[Merged], NEW c,
         c.low = lists[Merged][k].low, c.high = lists[Merged][k].high
  PROVE  /\ C!CountIn(c) = lists[Merged][k].count
         /\ C!Cardinality({s \in C!Sizes : C!Inside(s, c) # {}}) = CountBaseSets(lists[Merged][k])
<1> DEFINE e == lists[Merged][k]
           N == Len(readings)
           f == [s \in 0 .. N - 1 |-> Cardinality(ReadingsIn(s, e))]
           g == [s \in 1 .. N |-> Cardinality(C!Inside(s, c))]
           place == [s \in 0 .. N - 1 |-> s + 1]
<1>1. RowsAscend(readings) /\ MergeInv(lists, next, redoLimit, readings) /\ MergedCountsExact
  BY CountsFollow DEF MethodInv
<1>2. N \in Nat /\ DOMAIN readings = 1 .. N /\ next \in 2 .. N
  BY <1>1 DEF MergeInv, RowsAscend
<1>3. next = N /\ UnitedSets = 0 .. N - 1 /\ 0 .. N - 1 = Numbers(readings)
  BY <1>2 DEF SetNumbers, initialSetCount, UnitedSets, Numbers
<1>4. /\ e.count = SumFunction(f)
      /\ e.ids \ {Unknown} = {s \in 0 .. N - 1 : ReadingsIn(s, e) # {}}
  BY <1>1, <1>3 DEF MergedCountsExact
<1>5. c.low = e.low /\ c.high = e.high
  OBVIOUS
<1> HIDE DEF e
<1>6. \A s \in 0 .. N - 1 : C!Inside(s + 1, c) = ReadingsIn(s, e)
  BY <1>5 DEF C!Inside, ReadingsIn
<1> DEFINE Part == [s \in 0 .. N - 1 |-> ReadingsIn(s, e)]
<1>7. IsFiniteSet(0 .. N - 1) /\ \A s \in 0 .. N - 1 : IsFiniteSet(Part[s])
  BY <1>1, <1>3, ReadingsAreElements
<1>8. \A s \in 0 .. N - 1 : f[s] = Cardinality(Part[s])
  OBVIOUS
<1>9. \A s \in 0 .. N - 1 : f[s] \in Nat
  BY <1>7, <1>8, FS_CardinalityType
<1>10. \A s \in 0 .. N - 1 : place[s] = s + 1 /\ place[s] \in 1 .. N /\ g[place[s]] = f[s]
  BY <1>2, <1>6
<1>11. /\ place \in [0 .. N - 1 -> 1 .. N]
       /\ \A r \in 1 .. N : r - 1 \in 0 .. N - 1 /\ place[r - 1] = r
  BY <1>2
<1>12. DOMAIN f = 0 .. N - 1 /\ DOMAIN g = 1 .. N
  OBVIOUS
<1> HIDE DEF f, g, place, Part, N
<1>13. ASSUME NEW x \in 0 .. N - 1, NEW y \in 0 .. N - 1, place[x] = place[y] PROVE x = y
  <2>1. x + 1 = y + 1
    BY <1>10, <1>13
  <2> QED BY <1>2, <2>1
<1>14. SumFunctionOnSet(g, 1 .. N) = SumFunctionOnSet(f, 0 .. N - 1)
  <2> DEFINE S == 0 .. N - 1
             T == 1 .. N
  <2>1. /\ IsFiniteSet(S) /\ place \in [S -> T]
        /\ \A x, y \in S : place[x] = place[y] => x = y
        /\ \A x \in S : f[x] \in Int /\ g[place[x]] = f[x]
    BY <1>7, <1>9, <1>10, <1>11, <1>13
  <2>2. \A r \in T : \E x \in S : place[x] = r
    BY <1>11
  <2> HIDE DEF S, T
  <2>3. SumFunctionOnSet(g, T) = SumFunctionOnSet(f, S)
    BY <2>1, <2>2, SumReindexed
  <2> QED BY <2>3 DEF S, T
<1>15. C!CountIn(c) = SumFunction(g)
  <2> DEFINE count == [s \in C!Sizes |-> C!Cardinality(C!Inside(s, c))]
  <2>1. C!CountIn(c) = C!SumFunction(count)
    BY Zenon DEF C!CountIn
  <2>2. count = g
    BY <1>2, SameCardinality DEF C!Sizes, g
  <2> HIDE DEF count
  <2> QED BY <2>1, <2>2, SameSums DEF C!SumFunction, SumFunction
<1>16. C!CountIn(c) = e.count
  BY <1>4, <1>12, <1>14, <1>15 DEF SumFunction
<1> DEFINE A == {s \in 0 .. N - 1 : ReadingsIn(s, e) # {}}
           B == {s \in 1 .. N : C!Inside(s, c) # {}}
           h == [s \in A |-> s + 1]
<1>17. ASSUME NEW s \in A PROVE s + 1 \in B
  BY <1>2, <1>6
<1>18. ASSUME NEW t \in B PROVE t - 1 \in A /\ (t - 1) + 1 = t
  <2>1. t - 1 \in 0 .. N - 1 /\ (t - 1) + 1 = t
    BY <1>2
  <2> QED BY <1>6, <2>1
<1>19. h \in Bijection(A, B)
  <2>1. h \in [A -> B]
    BY <1>17
  <2>2. ASSUME NEW x \in A, NEW y \in A, h[x] = h[y] PROVE x = y
    <3>1. x + 1 = y + 1 /\ x \in Int /\ y \in Int
      BY <1>2, <2>2
    <3> QED BY <3>1
  <2>3. ASSUME NEW t \in B PROVE \E x \in A : h[x] = t
    <3>1. t - 1 \in A /\ h[t - 1] = t
      BY <1>18
    <3> QED BY <3>1
  <2> HIDE DEF h, A, B
  <2> QED BY <2>1, <2>2, <2>3 DEF Bijection, Injection, Surjection, IsInjective
<1>20. IsFiniteSet(A)
  BY <1>7, FS_Subset
<1>21. Cardinality(B) = Cardinality(A)
  BY <1>19, <1>20, FS_Bijection DEF ExistsBijection
<1>22. {s \in C!Sizes : C!Inside(s, c) # {}} = B
  BY <1>2 DEF C!Sizes
<1> QED BY <1>4, <1>16, <1>21, <1>22, SameCardinality DEF CountBaseSets, e

\* The clusters that Clusters looks at when the union is complete.
LEMMA ClustersOfRound ==
  ASSUME MethodInv, pc = "merge", next \notin SetNumbers
  PROVE  C!AllClusters(redoLimit) = Extents(lists[Merged])
<1>1. RowsAscend(readings) /\ MergeInv(lists, next, redoLimit, readings) /\ redoLimit \in Nat
  BY FuzzAssumption DEF MethodInv
<1>2. next \notin Numbers(readings)
  BY DEF SetNumbers, initialSetCount, Numbers
<1>3. C!ClustersOf(UNION {RangesAt(readings[s], redoLimit) : s \in DOMAIN readings})
        = Extents(lists[Merged])
  BY <1>1, <1>2, UnitedClusters
<1>4. C!AllClusters(redoLimit) = C!ClustersOf(UNION {C!Ranges(s, redoLimit) : s \in C!Sizes})
  BY Zenon DEF C!AllClusters
<1>5. \A s \in DOMAIN readings : C!Ranges(s, redoLimit) = RangesAt(readings[s], redoLimit)
  BY RangesAre
<1>6. {C!Ranges(s, redoLimit) : s \in C!Sizes}
        = {RangesAt(readings[s], redoLimit) : s \in DOMAIN readings}
  BY <1>5 DEF C!Sizes
<1> QED BY <1>3, <1>4, <1>6

Extent(e) == [low |-> e.low, high |-> e.high]

\* Another element of the merged set is another cluster.
LEMMA ExtentsApart ==
  ASSUME NEW list \in Seq(Pieces), Spread(list),
         NEW j \in DOMAIN list, NEW k \in DOMAIN list, j # k
  PROVE  Extent(list[j]) # Extent(list[k])
<1>1. j \in Int /\ k \in Int
  OBVIOUS
<1>2. /\ list[j].low \in Int /\ list[j].high \in Int /\ list[j].low <= list[j].high
      /\ list[k].low \in Int /\ list[k].high \in Int /\ list[k].low <= list[k].high
  BY PieceFields DEF Spread, Ranged
<1>3. list[j].high < list[k].low \/ list[k].high < list[j].low
  <2>1. j < k \/ k < j
    BY <1>1
  <2> QED BY <2>1 DEF Spread
<1>4. list[j].low # list[k].low
  BY <1>2, <1>3
<1>5. Extent(list[j]).low = list[j].low /\ Extent(list[k]).low = list[k].low
  BY DEF Extent
<1> QED BY <1>4, <1>5

\* One peak, high enough and from enough sets, is a cluster that wins.
LEMMA WinnerIsPeak ==
  ASSUME MethodInv, pc = "merge", next \notin SetNumbers,
         NEW k \in DOMAIN lists[Merged]
  PROVE  C!Wins(Extent(lists[Merged][k]), C!AllClusters(redoLimit))
           <=> Resolved(lists[Merged]) /\ Head(PeakSet(lists[Merged])) = lists[Merged][k]
<1> DEFINE list == lists[Merged]
           all == C!AllClusters(redoLimit)
           c == Extent(list[k])
           S == {j \in DOMAIN list : list[j].count = PeakSize(list)}
<1>1. list \in Seq(Pieces) /\ list # <<>> /\ Spread(list)
  BY DEF MethodInv, MergeInv, Unites, Exact
<1>2. all = {Extent(list[j]) : j \in DOMAIN list}
  BY ClustersOfRound DEF Extents, Extent
<1>3. ASSUME NEW j \in DOMAIN list
      PROVE  /\ C!CountIn(Extent(list[j])) = list[j].count
             /\ C!Cardinality({s \in C!Sizes : C!Inside(s, Extent(list[j])) # {}})
                  = CountBaseSets(list[j])
  <2>1. Extent(list[j]).low = list[j].low /\ Extent(list[j]).high = list[j].high
    BY DEF Extent
  <2> QED BY <2>1, CountIsExact
<1>4. PICK m \in DOMAIN list : Head(PeakSet(list)) = list[m] /\ list[m].count = PeakSize(list)
  BY <1>1, PeakSetIs
<1>5. /\ Len(PeakSet(list)) = Cardinality(S)
      /\ \A j \in DOMAIN list : list[j].count <= PeakSize(list)
  BY <1>1, PeakSetIs
<1>6. \A j \in DOMAIN list : list[j].count \in Nat
  BY <1>1, PieceFields
<1>7. \A j \in DOMAIN list : Extent(list[j]) = c => j = k
  BY <1>1, ExtentsApart
<1> HIDE DEF list, all
\* It has the greatest count by itself.
<1>8. (\A d \in all \ {c} : C!CountIn(d) < C!CountIn(c)) <=> \A j \in DOMAIN list \ {k} : list[j].count < list[k].count
  <2>1. k \in DOMAIN list
    BY DEF list
  <2>2. C!CountIn(c) = list[k].count
    BY <1>3, <2>1
  <2>3. ASSUME NEW j \in DOMAIN list \ {k}, \A d \in all \ {c} : C!CountIn(d) < C!CountIn(c)
        PROVE  list[j].count < list[k].count
    <3>1. Extent(list[j]) \in all \ {c}
      BY <1>2, <1>7
    <3> QED BY <1>3, <2>2, <2>3, <3>1
  <2>4. ASSUME NEW d \in all \ {c}, \A j \in DOMAIN list \ {k} : list[j].count < list[k].count
        PROVE  C!CountIn(d) < C!CountIn(c)
    <3>1. PICK j \in DOMAIN list : d = Extent(list[j])
      BY <1>2
    <3>2. j # k
      BY <3>1
    <3> QED BY <1>3, <2>2, <2>4, <3>1, <3>2
  <2> QED BY <2>3, <2>4
<1>9. (\A j \in DOMAIN list \ {k} : list[j].count < list[k].count) <=> S = {k}
  <2>1. k \in DOMAIN list
    BY DEF list
  <2>2. ASSUME \A j \in DOMAIN list \ {k} : list[j].count < list[k].count PROVE S = {k}
    <3>1. m = k
      <4>1. list[k].count <= list[m].count /\ list[k].count \in Nat /\ list[m].count \in Nat
        BY <1>4, <1>5, <1>6, <2>1
      <4> QED BY <2>2, <4>1
    <3>2. \A j \in DOMAIN list : list[j].count = PeakSize(list) => j = k
      BY <1>4, <1>6, <2>1, <2>2, <3>1
    <3> QED BY <1>4, <2>1, <3>1, <3>2
  <2>3. ASSUME S = {k}, NEW j \in DOMAIN list \ {k} PROVE list[j].count < list[k].count
    <3>1. list[k].count = PeakSize(list) /\ list[j].count # PeakSize(list)
      BY <2>3
    <3> QED BY <1>5, <1>6, <2>1, <3>1
  <2> QED BY <2>2, <2>3
<1>10. S = {k} <=> Len(PeakSet(list)) = 1 /\ Head(PeakSet(list)) = list[k]
  <2>1. k \in DOMAIN list /\ m \in S
    BY <1>4 DEF list
  <2>2. ASSUME S = {k} PROVE Len(PeakSet(list)) = 1 /\ Head(PeakSet(list)) = list[k]
    BY <1>4, <1>5, <2>1, <2>2, FS_Singleton
  <2>3. ASSUME Len(PeakSet(list)) = 1, Head(PeakSet(list)) = list[k] PROVE S = {k}
    <3>1. m = k
      BY <1>4, <1>7, <2>3
    <3>2. IsFiniteSet(S)
      <4>1. DOMAIN list = 1 .. Len(list) /\ Len(list) \in Nat
        BY <1>1
      <4>2. IsFiniteSet(DOMAIN list)
        BY <4>1, FS_Interval
      <4> QED BY <4>2, FS_Subset
    <3>3. Cardinality(S) = 1
      BY <1>5, <2>3
    <3> HIDE DEF S
    <3>4. PICK x : S = {x}
      BY <3>2, <3>3, FS_Singleton
    <3> QED BY <2>1, <3>1, <3>4
  <2> QED BY <2>2, <2>3
<1>11. C!CountIn(c) = list[k].count
       /\ C!Cardinality({s \in C!Sizes : C!Inside(s, c) # {}}) = CountBaseSets(list[k])
  BY <1>3 DEF list
<1> DEFINE numSets == C!Cardinality({s \in C!Sizes : C!Inside(s, c) # {}})
           beatsAll == \A d \in all \ {c} : C!CountIn(d) < C!CountIn(c)
<1>12. C!Wins(c, all) <=> beatsAll /\ C!CountIn(c) >= MinPeakSize /\ numSets >= MinNumSets
  BY DEF C!Wins
<1>13. Resolved(list) <=> /\ Len(PeakSet(list)) = 1 /\ PeakSize(list) >= MinPeakSize
                          /\ CountBaseSets(Head(PeakSet(list))) >= MinNumSets
  BY DEF Resolved
<1>14. S = {k} => list[k].count = PeakSize(list)
  OBVIOUS
<1> HIDE DEF S, c, beatsAll, numSets
<1>15. C!Wins(c, all) <=> Resolved(list) /\ Head(PeakSet(list)) = list[k]
  BY <1>8, <1>9, <1>10, <1>11, <1>12, <1>13, <1>14 DEF beatsAll, numSets
<1> QED BY <1>15 DEF c, all, list

\* Of what Clusters has for variables, two are not variables of Filter.
Tries == IF pc \in {"union", "merge"} THEN redoLimit - 1 ELSE redoLimit
Over == pc \in {"destroy", "done"}

LEMMA RefineInit == Init => C!Init
<1> SUFFICES ASSUME Init PROVE C!Init
  OBVIOUS
<1>1. readings \in Seq(Seq(Nat))
  BY StateBegins, MethodBegins, BlocksBegin, TypesFollow DEF TypeOK
<1>2. redoLimit = 0 /\ peak = C!None
  BY DEF Init, NoPeak, C!None
<1>3. pc = IF Len(readings) < 2 THEN "done" ELSE "round"
  BY DEF Init, initialSetCount
<1>4. Tries = 0 /\ Over = (Len(readings) < 2)
  <2>1. CASE Len(readings) < 2
    BY <1>2, <1>3, <2>1 DEF Tries, Over
  <2>2. CASE ~(Len(readings) < 2)
    BY <1>2, <1>3, <2>2 DEF Tries, Over
  <2> QED BY <2>1, <2>2
<1> QED BY <1>1, <1>2, <1>4 DEF C!Init, Tries, Over

\* The peak that is found is the cluster that wins.
LEMMA PeakSucceeds ==
  ASSUME MethodInv, PeakFound
  PROVE  C!Succeed
<1> DEFINE list == lists[Merged]
           all == C!AllClusters(redoLimit)
<1>1. pc = "merge" /\ next \notin SetNumbers /\ Resolved(list)
  BY DEF PeakFound
<1>2. list \in Seq(Pieces) /\ list # <<>> /\ redoLimit \in 0 .. FuzzRounds
  BY <1>1 DEF MethodInv, MergeInv, Unites, Exact
<1>3. PICK m \in DOMAIN list : Head(PeakSet(list)) = list[m]
  BY <1>2, PeakSetIs
<1> DEFINE c == Extent(list[m])
<1>4. C!Wins(c, all)
  BY <1>1, <1>3, WinnerIsPeak
<1>5. c \in all
  BY <1>1, ClustersOfRound DEF Extents, Extent
<1>6. c.low = list[m].low /\ c.high = list[m].high
  BY DEF Extent
<1>7. C!CountIn(c) = list[m].count
  BY <1>1, <1>6, CountIsExact
<1>8. peak' = [low |-> c.low, high |-> c.high, count |-> C!CountIn(c)]
  BY <1>3, <1>6, <1>7 DEF PeakFound
<1> HIDE DEF c, all
<1>9. pc' = "destroy" /\ redoLimit' = redoLimit /\ readings' = readings
  BY DEF PeakFound
<1>10. /\ Tries = redoLimit - 1 /\ Tries' = redoLimit /\ ~Over /\ Over'
       /\ Tries < FuzzRounds /\ Tries + 1 = redoLimit
  BY <1>1, <1>2, <1>9, FuzzAssumption DEF Tries, Over
<1>11. all = C!AllClusters(Tries + 1)
  BY <1>10 DEF all
<1>12. \E d \in C!AllClusters(Tries + 1) :
         /\ C!Wins(d, C!AllClusters(Tries + 1))
         /\ peak' = [low |-> d.low, high |-> d.high, count |-> C!CountIn(d)]
  BY <1>4, <1>5, <1>8, <1>11
<1> QED BY <1>9, <1>10, <1>12 DEF C!Succeed, Tries, Over

\* Without one, no cluster wins.
LEMMA NoPeakFails ==
  ASSUME MethodInv, NoPeakFound
  PROVE  C!Fail
<1> DEFINE list == lists[Merged]
           all == C!AllClusters(redoLimit)
<1>1. pc = "merge" /\ next \notin SetNumbers /\ ~Resolved(list)
  BY DEF NoPeakFound
<1>2. redoLimit \in 0 .. FuzzRounds
  BY DEF MethodInv
<1>3. ASSUME NEW c \in all PROVE ~C!Wins(c, all)
  <2>1. PICK k \in DOMAIN list : c = Extent(list[k])
    BY <1>1, ClustersOfRound DEF Extents, Extent
  <2> QED BY <1>1, <2>1, WinnerIsPeak
<1> HIDE DEF all
<1>4. pc' = "round" /\ redoLimit' = redoLimit /\ readings' = readings /\ peak' = peak
  BY DEF NoPeakFound
<1>5. /\ Tries = redoLimit - 1 /\ Tries' = redoLimit /\ ~Over /\ ~Over'
      /\ Tries < FuzzRounds /\ Tries + 1 = redoLimit
  BY <1>1, <1>2, <1>4, FuzzAssumption DEF Tries, Over
<1>6. all = C!AllClusters(Tries + 1)
  BY <1>5 DEF all
<1>7. \A c \in C!AllClusters(Tries + 1) : ~C!Wins(c, C!AllClusters(Tries + 1))
  BY <1>3, <1>6
<1>8. Over' = Over
  BY <1>5 DEF Over
<1> QED BY <1>4, <1>5, <1>7, <1>8 DEF C!Fail, Tries, Over

\* Every step of the method completes a try, gives up, or is invisible to Clusters.
LEMMA RefineNext == MethodInv /\ [Next]_vars => [C!Next]_C!vars
<1> SUFFICES ASSUME MethodInv, [Next]_vars
             PROVE  C!Next \/ (readings' = readings /\ Tries' = Tries /\ peak' = peak /\ Over' = Over)
  BY DEF C!vars, Tries, Over
<1>1. redoLimit \in 0 .. FuzzRounds /\ FuzzRounds \in Nat
  BY FuzzAssumption DEF MethodInv
<1>2. CASE BeginRound
  <2>1. /\ pc = "round" /\ pc' = "union" /\ redoLimit' = redoLimit + 1
        /\ readings' = readings /\ peak' = peak
    BY <1>2 DEF BeginRound, Unite
  <2> QED BY <1>1, <2>1 DEF Tries, Over
<1>3. CASE GiveUp
  <2>1. /\ pc = "round" /\ pc' = "destroy" /\ ~(redoLimit < FuzzRounds)
        /\ redoLimit' = redoLimit /\ readings' = readings /\ peak' = peak
    BY <1>3 DEF GiveUp, RoundsLeft
  <2>2. Tries = FuzzRounds /\ Tries' = Tries /\ ~Over /\ Over'
    BY <1>1, <2>1 DEF Tries, Over
  <2>3. C!GiveUp
    BY <2>1, <2>2 DEF C!GiveUp, Tries, Over
  <2> QED BY <2>3 DEF C!Next
<1>4. CASE PeakFound
  BY <1>4, PeakSucceeds DEF C!Next
<1>5. CASE NoPeakFound
  BY <1>5, NoPeakFails DEF C!Next
\* Steps that stay within a try, or clean up.
<1>6. CASE /\ readings' = readings /\ redoLimit' = redoLimit /\ peak' = peak
           /\ \/ pc' = pc
              \/ pc = "merge" /\ pc' = "union"
              \/ pc = "union" /\ pc' = "merge"
              \/ pc = "destroy" /\ pc' = "done"
  <2>1. CASE pc' = pc
    BY <1>6, <2>1 DEF Tries, Over
  <2>2. CASE pc = "merge" /\ pc' = "union"
    BY <1>6, <2>2 DEF Tries, Over
  <2>3. CASE pc = "union" /\ pc' = "merge"
    BY <1>6, <2>3 DEF Tries, Over
  <2>4. CASE pc = "destroy" /\ pc' = "done"
    BY <1>6, <2>4 DEF Tries, Over
  <2> QED BY <1>6, <2>1, <2>2, <2>3, <2>4
<1>7. CASE MergeNext
  BY <1>6, <1>7 DEF MergeNext, Unite
<1>8. CASE DestroySets
  BY <1>6, <1>8 DEF DestroySets
<1>9. CASE MergeOverlapping
  BY <1>6, <1>9 DEF MergeOverlapping
<1>10. CASE CarryLeft
  BY <1>6, <1>10 DEF CarryLeft
<1>11. CASE CarryRight
  BY <1>6, <1>11 DEF CarryRight
<1>12. CASE EndUnion
  BY <1>6, <1>12 DEF EndUnion
<1>13. CASE UNCHANGED vars
  BY <1>6, <1>13 DEF vars
<1>14. CASE Finished
  BY <1>13, <1>14 DEF Finished
<1> QED
  BY <1>2, <1>3, <1>4, <1>5, <1>7, <1>8, <1>9, <1>10, <1>11, <1>12, <1>13, <1>14 DEF Next

\* Theorem: the unions of applyNewGraphicalMethod(), set by set and piece by piece,
\* with counts put aside and lists changed underway, find at every try the clusters
\* of all readings, and end at the try and with the range that Clusters says.
THEOREM Refinement == Spec => ImplementsClusters
<1>1. Spec => []MethodInv
  BY MethodCorrect
<1> QED BY <1>1, RefineInit, RefineNext, PTL DEF Spec, ImplementsClusters, C!Spec

=============================================================================
