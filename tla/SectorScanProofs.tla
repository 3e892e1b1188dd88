-------------------------- MODULE SectorScanProofs --------------------------
(***************************************************************************)
(* The loop of find_free_sectors computes the relation IsFreeSlot, for     *)
(* every table and every request.  After n iterations the cursor is where  *)
(* the relation puts it for the first n runs, and none of them had a gap   *)
(* in front of it; the runs come in the order of their first sectors       *)
(* because those of a table that meets nowhere differ.                     *)
(***************************************************************************)
EXTENDS SectorScan, OrderingTheorems

(* A chunk table as validate_region_entries accepts it.                    *)
Table(T) ==
    /\ IsFiniteSet(T)
    /\ \A e \in T : e.off \in Nat /\ e.size \in Nat /\ e.size > 0 /\ e.off >= FirstDataSector
    /\ \A d, e \in T : d = e \/ Disjoint(d, e)

Starts == {p \in used \X used : p[1].off < p[2].off}

LEMMA RunsInOrder ==
    ASSUME Table(used)
    PROVE  /\ Cardinality(used) \in Nat /\ Len(SortedRuns) = Cardinality(used)
           /\ Enumerates(SortedRuns, Starts, used)
  <1> DEFINE n == Cardinality(used)
  <1>1. Orders(Starts, used)
    <2>1. \A d, e \in used : d # e => d.off < e.off \/ e.off < d.off
      BY DEF Table, Disjoint, End
    <2>2. \A d, e \in used : <<d, e>> \in Starts <=> d.off < e.off
      BY DEF Starts
    <2> QED  BY <2>1, <2>2 DEF Orders, Table
  <1>2. n \in Nat /\ IsFiniteSet(used)
    BY FS_CardinalityType DEF Table
  <1> DEFINE front(x) == {y \in used : y.off < x.off}
             at(i) == CHOOSE x \in used : Cardinality(front(x)) = i - 1
  <1>3. \A x \in used : front(x) = Before(Starts, used, x)
    BY DEF Before, Starts
  <1>4. SortedRuns = [i \in 1 .. n |-> at(i)]
    BY DEF SortedRuns, InOrder
  <1>5. ASSUME NEW i \in 1 .. n
        PROVE  at(i) \in used /\ Cardinality(Before(Starts, used, at(i))) = i - 1
    <2>1. PICK x \in used : Cardinality(Before(Starts, used, x)) = i - 1
      BY <1>1, <1>2, RankedElement
    <2>2. Cardinality(front(x)) = i - 1
      BY <1>3, <2>1
    <2> HIDE DEF front
    <2>3. at(i) \in used /\ Cardinality(front(at(i))) = i - 1
      BY <2>2
    <2> QED  BY <1>3, <2>3
  <1> HIDE DEF front, at
  <1>6. /\ SortedRuns = [i \in 1 .. n |-> SortedRuns[i]]
        /\ \A i \in 1 .. n : SortedRuns[i] = at(i)
    BY <1>4
  <1>7. Enumerates(SortedRuns, Starts, used)
    <2>1. \A i \in 1 .. n : SortedRuns[i] \in used
                            /\ Cardinality(Before(Starts, used, SortedRuns[i])) = i - 1
      BY <1>5, <1>6
    <2> QED  BY <1>1, <1>2, <1>6, <2>1, RanksEnumerate
  <1>8. Len(SortedRuns) = n
    BY <1>2, <1>4
  <1> QED  BY <1>2, <1>7, <1>8

LEMMA StepTyped ==
    ASSUME NEW e, e.off \in Nat, e.size \in Nat, request \in Nat, NEW v \in [cursor : Nat, found : BOOLEAN]
    PROVE  /\ ScanStep(e, v) \in [cursor : Nat, found : BOOLEAN]
           /\ ScanStep(e, v) = IF v.found \/ e.off >= v.cursor + request
                               THEN [cursor |-> v.cursor, found |-> TRUE]
                               ELSE [cursor |-> IF End(e) > v.cursor THEN End(e) ELSE v.cursor, found |-> v.found]
  <1>1. End(e) \in Nat /\ v.cursor \in Nat /\ v.found \in BOOLEAN
    BY DEF End
  <1>2. CASE v.found \/ e.off >= v.cursor + request
    <2>1. ScanStep(e, v) = [v EXCEPT !.found = TRUE]
      BY <1>2 DEF ScanStep
    <2> QED  BY <1>1, <1>2, <2>1
  <1>3. CASE ~ (v.found \/ e.off >= v.cursor + request)
    <2> DEFINE c == IF End(e) > v.cursor THEN End(e) ELSE v.cursor
    <2>1. ScanStep(e, v) = [v EXCEPT !.cursor = c]
      BY <1>3 DEF ScanStep
    <2>2. c \in Nat
      BY <1>1
    <2> HIDE DEF c
    <2>3. ScanStep(e, v) = [cursor |-> c, found |-> v.found]
      BY <2>1
    <2> QED  BY <1>1, <1>3, <2>2, <2>3 DEF c
  <1> QED  BY <1>2, <1>3

LEMMA ScanUnfolds ==
    ASSUME Len(SortedRuns) \in Nat, request \in Nat,
           \A i \in 1 .. Len(SortedRuns) : SortedRuns[i].off \in Nat /\ SortedRuns[i].size \in Nat
    PROVE  /\ Scan[0] = [cursor |-> FirstDataSector, found |-> FALSE]
           /\ \A n \in 1 .. Len(SortedRuns) :
                 /\ Scan[n - 1] \in [cursor : Nat, found : BOOLEAN]
                 /\ Scan[n] = ScanStep(SortedRuns[n], Scan[n - 1])
  <1> DEFINE V == [cursor : Nat, found : BOOLEAN]
             N == Len(SortedRuns)
             a == [cursor |-> FirstDataSector, found |-> FALSE]
             Rec(f) == f = [n \in 0 .. N |-> IF n = 0 THEN a ELSE ScanStep(SortedRuns[n], f[n - 1])]
             g == [n \in 1 .. N |-> [v \in V |-> ScanStep(SortedRuns[n], v)]]
  <1>1. Scan = CHOOSE f : Rec(f)
    BY DEF Scan
  <1>2. N \in Nat /\ a \in V
    BY FirstDataSectorAssumption
  <1>3. \A n \in 1 .. N, v \in V : ScanStep(SortedRuns[n], v) \in V
    BY StepTyped
  <1>4. \A n \in 1 .. N, v \in V : g[n][v] = ScanStep(SortedRuns[n], v)
    OBVIOUS
  <1>5. Steps(g, a, N, V)
    BY <1>2, <1>3 DEF Steps
  <1> HIDE DEF a, V, N, g
  <1>6. PICK f : Solves(f, g, a, N, V)
    BY <1>5, Recursion
  <1>7. f \in [0 .. N -> V] /\ f[0] = a /\ \A n \in 1 .. N : f[n] = g[n][f[n - 1]]
    BY <1>6 DEF Solves
  <1>8. ASSUME NEW n \in 1 .. N PROVE f[n] = ScanStep(SortedRuns[n], f[n - 1])
    <2>1. f[n - 1] \in V
      BY <1>2, <1>7
    <2> QED  BY <1>4, <1>7, <2>1
  <1>9. Rec(f)
    BY <1>2, <1>7, <1>8
  <1>10. Rec(Scan)
    BY <1>1, <1>9
  <1>11. Scan[0] = a /\ \A n \in 1 .. N : Scan[n] = ScanStep(SortedRuns[n], Scan[n - 1])
    BY <1>2, <1>10
  <1>12. \A n \in 0 .. N : Scan[n] \in V
    <2> DEFINE G == {n \in 0 .. N : Scan[n] \in V}
    <2>1. 0 \in G
      BY <1>2, <1>11
    <2>2. ASSUME NEW n \in 0 .. (N - 1), n \in G PROVE n + 1 \in G
      <3>1. n + 1 \in 1 .. N /\ n + 1 - 1 = n /\ Scan[n] \in V /\ n + 1 \in 0 .. N
        BY <1>2, <2>2
      <3>2. Scan[n + 1] \in V
        BY <1>3, <1>11, <3>1
      <3> QED  BY <3>1, <3>2
    <2> HIDE DEF G
    <2>3. \A n \in 0 .. N : n \in G
      BY <1>2, <2>1, <2>2, UpTo
    <2> QED  BY <2>3 DEF G
  <1> QED  BY <1>2, <1>11, <1>12 DEF a, V, N

-----------------------------------------------------------------------------
(* The runs behind the cursor after n iterations.                          *)
Passed(n) == {SortedRuns[i] : i \in 1 .. n}

GapAt(i, s) == IsCursor(s, Passed(i - 1)) /\ SortedRuns[i].off >= s + request
NoGapAt(i) == \A s : ~ GapAt(i, s)

Progress(n) ==
    /\ ~ Scan[n].found => IsCursor(Scan[n].cursor, Passed(n)) /\ \A i \in 1 .. n : NoGapAt(i)
    /\ Scan[n].found => \E i \in 1 .. n : GapAt(i, Scan[n].cursor) /\ \A j \in 1 .. (i - 1) : NoGapAt(j)

LEMMA OneCursor ==
    ASSUME NEW P, \A e \in P : End(e) \in Nat, NEW s, IsCursor(s, P), NEW t, IsCursor(t, P)
    PROVE  s = t /\ s \in Nat
  BY FirstDataSectorAssumption DEF IsCursor

LEMMA CursorMoves ==
    ASSUME NEW P, \A e \in P : End(e) \in Nat, NEW s \in Nat, IsCursor(s, P), NEW d, End(d) \in Nat
    PROVE  IsCursor(IF End(d) > s THEN End(d) ELSE s, P \cup {d})
  BY FirstDataSectorAssumption DEF IsCursor

LEMMA PassedFacts ==
    ASSUME Table(used)
    PROVE  /\ \A i \in 1 .. Len(SortedRuns) :
                 /\ SortedRuns[i] \in used
                 /\ RunsBefore(used, SortedRuns[i]) = Passed(i - 1)
                 /\ Passed(i) = Passed(i - 1) \cup {SortedRuns[i]}
           /\ Passed(0) = {} /\ Passed(Len(SortedRuns)) = used
           /\ \A i \in 0 .. Len(SortedRuns) : Passed(i) \subseteq used
           /\ \A e \in used : \E i \in 1 .. Len(SortedRuns) : SortedRuns[i] = e
           /\ \A i, j \in 0 .. Len(SortedRuns) : i <= j => Passed(i) \subseteq Passed(j)
  <1> DEFINE n == Len(SortedRuns)
  <1>1. /\ n \in Nat /\ \A i \in 1 .. n : SortedRuns[i] \in used
        /\ \A e \in used : \E i \in 1 .. n : SortedRuns[i] = e
        /\ \A i, j \in 1 .. n : i < j => SortedRuns[i].off < SortedRuns[j].off
    BY RunsInOrder DEF Enumerates, Starts
  <1>2. \A e \in used : e.off \in Nat
    BY DEF Table
  <1>3. ASSUME NEW i \in 1 .. n PROVE RunsBefore(used, SortedRuns[i]) = Passed(i - 1)
    <2>1. ASSUME NEW e \in used, e.off < SortedRuns[i].off PROVE e \in Passed(i - 1)
      <3>1. PICK j \in 1 .. n : SortedRuns[j] = e
        BY <1>1
      <3>2. ~ (i < j) /\ i # j
        BY <1>1, <1>2, <2>1, <3>1
      <3>3. j \in 1 .. (i - 1)
        BY <1>1, <3>2
      <3> QED  BY <3>1, <3>3 DEF Passed
    <2>2. ASSUME NEW e \in Passed(i - 1) PROVE e \in used /\ e.off < SortedRuns[i].off
      <3>1. PICK j \in 1 .. (i - 1) : e = SortedRuns[j]
        BY DEF Passed
      <3>2. j \in 1 .. n /\ j < i
        BY <1>1, <3>1
      <3> QED  BY <1>1, <3>1, <3>2
    <2> QED  BY <2>1, <2>2 DEF RunsBefore
  <1>4. ASSUME NEW i \in 1 .. n PROVE Passed(i) = Passed(i - 1) \cup {SortedRuns[i]}
    <2>1. 1 .. i = (1 .. (i - 1)) \cup {i}
      BY <1>1
    <2> QED  BY <2>1 DEF Passed
  <1>5. Passed(0) = {} /\ Passed(n) = used
    BY <1>1 DEF Passed
  <1>6. \A i, j \in 0 .. n : i <= j => Passed(i) \subseteq Passed(j)
    BY <1>1 DEF Passed
  <1>7. \A i \in 0 .. n : Passed(i) \subseteq used
    BY <1>1, <1>5, <1>6
  <1> QED  BY <1>1, <1>3, <1>4, <1>5, <1>6, <1>7

LEMMA ScanProgresses ==
    ASSUME Table(used), request \in Nat
    PROVE  /\ Progress(Len(SortedRuns))
           /\ Scan[Len(SortedRuns)] \in [cursor : Nat, found : BOOLEAN]
  <1> DEFINE N == Len(SortedRuns)
             V == [cursor : Nat, found : BOOLEAN]
             G == {n \in 0 .. N : Progress(n) /\ Scan[n] \in V}
  <1>1. /\ N \in Nat
        /\ \A i \in 1 .. N : SortedRuns[i].off \in Nat /\ SortedRuns[i].size \in Nat
        /\ \A e \in used : End(e) \in Nat
    BY RunsInOrder, PassedFacts DEF Table, End
  <1>2. /\ Scan[0] = [cursor |-> FirstDataSector, found |-> FALSE]
        /\ \A n \in 1 .. N : Scan[n] = ScanStep(SortedRuns[n], Scan[n - 1])
    BY <1>1, ScanUnfolds
  <1>3. 0 \in G
    <2>1. Scan[0].cursor = FirstDataSector /\ Scan[0].found = FALSE /\ Scan[0] \in V
      BY <1>2, FirstDataSectorAssumption
    <2>2. IsCursor(FirstDataSector, Passed(0))
      BY PassedFacts, FirstDataSectorAssumption DEF IsCursor
    <2>3. Progress(0)
      BY <2>1, <2>2 DEF Progress
    <2> QED  BY <1>1, <2>1, <2>3
  <1>4. ASSUME NEW m \in 0 .. (N - 1), m \in G PROVE m + 1 \in G
    <2> DEFINE n == m + 1
               e == SortedRuns[n]
               v == Scan[m]
    <2>1. n \in 1 .. N /\ n \in 0 .. N /\ n - 1 = m /\ v \in V /\ Progress(m)
      BY <1>1, <1>4
    <2>2. /\ e \in used /\ e.off \in Nat /\ e.size \in Nat /\ End(e) \in Nat
          /\ Passed(n) = Passed(m) \cup {e} /\ \A d \in Passed(m) : End(d) \in Nat
      BY <1>1, <2>1, PassedFacts
    <2>3. v.cursor \in Nat /\ v.found \in BOOLEAN
      BY <2>1
    <2> DEFINE c == IF End(e) > v.cursor THEN End(e) ELSE v.cursor
    <2>4. /\ Scan[n] \in V
          /\ v.found \/ e.off >= v.cursor + request =>
                 Scan[n].cursor = v.cursor /\ Scan[n].found = TRUE
          /\ ~ (v.found \/ e.off >= v.cursor + request) =>
                 Scan[n].cursor = c /\ Scan[n].found = v.found
      <3>1. Scan[n] = ScanStep(e, v)
        BY <1>2, <2>1
      <3> HIDE DEF e, v, n, V
      <3>2. v \in [cursor : Nat, found : BOOLEAN]
        BY <2>1 DEF V
      <3>3. /\ ScanStep(e, v) \in [cursor : Nat, found : BOOLEAN]
            /\ ScanStep(e, v) = IF v.found \/ e.off >= v.cursor + request
                               THEN [cursor |-> v.cursor, found |-> TRUE]
                               ELSE [cursor |-> c, found |-> v.found]
        BY <2>2, <3>2, StepTyped
      <3> HIDE DEF c
      <3>4. Scan[n] \in V
        BY <3>1, <3>3 DEF V
      <3>5. CASE v.found \/ e.off >= v.cursor + request
        <4>1. ScanStep(e, v) = [cursor |-> v.cursor, found |-> TRUE]
          BY <3>3, <3>5
        <4>2. Scan[n].cursor = v.cursor /\ Scan[n].found = TRUE
          BY <3>1, <4>1
        <4> QED  BY <3>4, <3>5, <4>2
      <3>6. CASE ~ (v.found \/ e.off >= v.cursor + request)
        <4>1. ScanStep(e, v) = [cursor |-> c, found |-> v.found]
          BY <3>3, <3>6
        <4>2. Scan[n].cursor = c /\ Scan[n].found = v.found
          BY <3>1, <4>1
        <4> QED  BY <3>4, <3>6, <4>2
      <3> QED  BY <3>5, <3>6
    <2>5. CASE v.found
      <3>1. Scan[n].cursor = v.cursor /\ Scan[n].found = TRUE
        BY <2>4, <2>5
      <3>2. PICK i \in 1 .. m : GapAt(i, v.cursor) /\ \A j \in 1 .. (i - 1) : NoGapAt(j)
        BY <2>1, <2>5 DEF Progress
      <3>3. i \in 1 .. n
        BY <2>1
      <3>4. Progress(n)
        BY <3>1, <3>2, <3>3 DEF Progress
      <3> QED  BY <2>1, <2>4, <3>4
    <2>6. CASE ~ v.found /\ e.off >= v.cursor + request
      <3>1. Scan[n].cursor = v.cursor /\ Scan[n].found = TRUE
        BY <2>4, <2>6
      <3>2. IsCursor(v.cursor, Passed(n - 1)) /\ \A j \in 1 .. (n - 1) : NoGapAt(j)
        BY <2>1, <2>6 DEF Progress
      <3>3. GapAt(n, v.cursor)
        BY <2>6, <3>2 DEF GapAt
      <3>4. Progress(n)
        BY <2>1, <3>1, <3>2, <3>3 DEF Progress
      <3> QED  BY <2>1, <2>4, <3>4
    <2>7. CASE ~ v.found /\ ~ (e.off >= v.cursor + request)
      <3>1. Scan[n].cursor = c /\ Scan[n].found = v.found
        <4> HIDE DEF c
        <4> QED  BY <2>4, <2>7
      <3>2. IsCursor(v.cursor, Passed(m)) /\ \A j \in 1 .. m : NoGapAt(j)
        BY <2>1, <2>7 DEF Progress
      <3>3. IsCursor(Scan[n].cursor, Passed(n))
        <4>1. IsCursor(c, Passed(m) \cup {e})
          <5> HIDE DEF e, v
          <5> QED  BY <2>2, <2>3, <3>2, CursorMoves
        <4> HIDE DEF c
        <4> QED  BY <2>2, <3>1, <4>1
      <3>4. NoGapAt(n)
        <4> SUFFICES ASSUME NEW s, GapAt(n, s) PROVE FALSE
          BY DEF NoGapAt
        <4>1. IsCursor(s, Passed(m)) /\ e.off >= s + request
          BY <2>1 DEF GapAt
        <4>2. s = v.cursor
          BY <2>2, <3>2, <4>1, OneCursor
        <4> QED  BY <2>7, <4>1, <4>2
      <3>5. \A j \in 1 .. n : NoGapAt(j)
        <4>1. 1 .. n = (1 .. m) \cup {n}
          BY <1>1
        <4> QED  BY <3>2, <3>4, <4>1
      <3>6. Progress(n)
        BY <2>7, <3>1, <3>3, <3>5 DEF Progress
      <3> QED  BY <2>1, <2>4, <3>6
    <2> QED  BY <2>5, <2>6, <2>7
  <1> HIDE DEF G
  <1>5. \A n \in 0 .. N : n \in G
    <2>1. \A m \in 0 .. (N - 1) : m \in G => m + 1 \in G
      BY <1>4
    <2> QED  BY <1>1, <1>3, <2>1, UpTo
  <1>6. N \in G
    BY <1>1, <1>5
  <1> QED  BY <1>6 DEF G

-----------------------------------------------------------------------------
(* The loop's answer is a free slot, and there is only one.                *)

LEMMA LoopFindsSlot ==
    ASSUME Table(used), request \in Nat, fileSectors \in Nat
    PROVE  IsFreeSlot(ScanResult, used, request, fileSectors)
  <1> DEFINE N == Len(SortedRuns)
             end == Scan[N]
             cursor == end.cursor
  <1>1. N \in Nat /\ \A e \in used : End(e) \in Nat /\ e.off \in Nat
    BY RunsInOrder DEF Table, End
  <1>2. Progress(N) /\ cursor \in Nat /\ end.found \in BOOLEAN
    BY ScanProgresses
  <1>3. ScanResult = IF end.found \/ cursor > fileSectors THEN cursor ELSE fileSectors
    BY DEF ScanResult
  <1>4. ASSUME NEW t, IsGap(t, used, request)
        PROVE  \E j \in 1 .. N : GapAt(j, t)
    <2>1. PICK e \in used : IsCursor(t, RunsBefore(used, e)) /\ e.off >= t + request
      BY <1>4 DEF IsGap
    <2>2. PICK j \in 1 .. N : SortedRuns[j] = e
      BY PassedFacts
    <2>3. RunsBefore(used, SortedRuns[j]) = Passed(j - 1)
      BY PassedFacts
    <2> QED  BY <2>1, <2>2, <2>3 DEF GapAt
  <1>5. CASE end.found
    <2>1. PICK i \in 1 .. N : GapAt(i, cursor) /\ \A j \in 1 .. (i - 1) : NoGapAt(j)
      BY <1>2, <1>5 DEF Progress
    <2>2. SortedRuns[i] \in used /\ RunsBefore(used, SortedRuns[i]) = Passed(i - 1)
      BY PassedFacts
    <2>3. IsGap(cursor, used, request)
      BY <2>1, <2>2 DEF IsGap, GapAt
    <2>4. ASSUME NEW t \in Cursors(used), IsGap(t, used, request) PROVE cursor <= t
      <3>1. PICK j \in 1 .. N : GapAt(j, t)
        BY <1>4, <2>4
      <3>2. ~ (j \in 1 .. (i - 1))
        BY <2>1, <3>1 DEF NoGapAt
      <3>3. i - 1 <= j - 1 /\ i - 1 \in 0 .. N /\ j - 1 \in 0 .. N
        BY <1>1, <3>2
      <3>4. Passed(i - 1) \subseteq Passed(j - 1)
        BY <3>3, PassedFacts
      <3>5. IsCursor(t, Passed(j - 1)) /\ IsCursor(cursor, Passed(i - 1))
        BY <2>1, <3>1 DEF GapAt
      <3> HIDE DEF cursor
      <3> QED  BY <3>4, <3>5 DEF IsCursor
    <2>5. ScanResult = cursor
      BY <1>3, <1>5
    <2> QED  BY <2>3, <2>4, <2>5 DEF IsFreeSlot
  <1>6. CASE ~ end.found
    <2>1. IsCursor(cursor, used) /\ \A i \in 1 .. N : NoGapAt(i)
      BY <1>2, <1>6, PassedFacts DEF Progress
    <2>2. \A t \in Cursors(used) : ~ IsGap(t, used, request)
      BY <1>4, <2>1 DEF NoGapAt
    <2>3. cursor \in Cursors(used)
      BY <2>1 DEF IsCursor, Cursors
    <2>4. ScanResult = IF cursor >= fileSectors THEN cursor ELSE fileSectors
      BY <1>2, <1>3, <1>6
    <2> HIDE DEF cursor
    <2> QED  BY <2>1, <2>2, <2>3, <2>4 DEF IsFreeSlot
  <1> QED  BY <1>2, <1>5, <1>6

LEMMA OneFreeSlot ==
    ASSUME Table(used), request \in Nat, fileSectors \in Nat,
           NEW s, IsFreeSlot(s, used, request, fileSectors),
           NEW t, IsFreeSlot(t, used, request, fileSectors)
    PROVE  s = t
  <1>1. \A e \in used : End(e) \in Nat
    BY DEF Table, End
  <1>2. ASSUME NEW r, IsGap(r, used, request) PROVE r \in Cursors(used) /\ r \in Nat
    BY <1>1, <1>2, FirstDataSectorAssumption DEF IsGap, IsCursor, RunsBefore, Cursors
  <1>3. CASE \E r \in Cursors(used) : IsGap(r, used, request)
    <2>1. /\ IsGap(s, used, request) /\ \A r \in Cursors(used) : IsGap(r, used, request) => s <= r
          /\ IsGap(t, used, request) /\ \A r \in Cursors(used) : IsGap(r, used, request) => t <= r
      BY <1>3 DEF IsFreeSlot
    <2>2. s \in Cursors(used) /\ t \in Cursors(used) /\ s \in Nat /\ t \in Nat
      BY <1>2, <2>1
    <2>3. s <= t /\ t <= s
      BY <2>1, <2>2
    <2> QED  BY <2>2, <2>3
  <1>4. CASE ~ \E r \in Cursors(used) : IsGap(r, used, request)
    <2>1. ~ IsGap(s, used, request) /\ ~ IsGap(t, used, request)
      BY <1>2, <1>4
    <2>2. PICK a \in Cursors(used) : IsCursor(a, used) /\ s = IF a >= fileSectors THEN a ELSE fileSectors
      BY <2>1 DEF IsFreeSlot
    <2>3. PICK b \in Cursors(used) : IsCursor(b, used) /\ t = IF b >= fileSectors THEN b ELSE fileSectors
      BY <2>1 DEF IsFreeSlot
    <2>4. a = b
      BY <1>1, <2>2, <2>3, OneCursor
    <2> QED  BY <2>2, <2>3, <2>4
  <1> QED  BY <1>3, <1>4

(* A free slot meets no run of the table.                                  *)
LEMMA SlotIsFree ==
    ASSUME Table(used), request \in Nat, fileSectors \in Nat,
           NEW s, IsFreeSlot(s, used, request, fileSectors)
    PROVE  /\ s \in Nat /\ s >= FirstDataSector
           /\ \A e \in used : s + request <= e.off \/ End(e) <= s
  <1>1. \A e \in used : End(e) \in Nat /\ e.off \in Nat /\ e.size \in Nat /\ End(e) = e.off + e.size
    BY DEF Table, End
  <1>2. CASE IsGap(s, used, request)
    <2>1. PICK e \in used : IsCursor(s, RunsBefore(used, e)) /\ e.off >= s + request
      BY <1>2 DEF IsGap
    <2>2. s \in Nat /\ s >= FirstDataSector
      BY <1>1, <2>1, FirstDataSectorAssumption DEF IsCursor, RunsBefore
    <2>3. ASSUME NEW d \in used PROVE s + request <= d.off \/ End(d) <= s
      <3>1. CASE d.off < e.off
        BY <2>1, <3>1 DEF IsCursor, RunsBefore
      <3>2. CASE ~ (d.off < e.off)
        BY <1>1, <2>1, <2>2, <3>2
      <3> QED  BY <3>1, <3>2
    <2> QED  BY <2>2, <2>3
  <1>3. CASE ~ IsGap(s, used, request)
    <2>1. PICK t \in Cursors(used) : IsCursor(t, used) /\ s = IF t >= fileSectors THEN t ELSE fileSectors
      BY <1>3 DEF IsFreeSlot
    <2>2. t \in Nat /\ t >= FirstDataSector /\ \A e \in used : End(e) <= t
      BY <1>1, <2>1, FirstDataSectorAssumption DEF IsCursor
    <2>3. s \in Nat /\ s >= t
      BY <2>1, <2>2
    <2> QED  BY <1>1, <2>2, <2>3, FirstDataSectorAssumption
  <1> QED  BY <1>2, <1>3

-----------------------------------------------------------------------------
(* The inductive invariant: the runs of the table are finitely many, lie   *)
(* behind the header and meet nowhere.                                     *)
ScanInv == Table(used) /\ request \in Nat \ {0} /\ fileSectors \in Nat

LEMMA ScanInvHolds == ScanSpec => []ScanInv
  <1>1. ScanInit => ScanInv
    <2> SUFFICES ASSUME ScanInit PROVE ScanInv
      OBVIOUS
    <2>1. fileSectors \in Nat /\ request \in Nat \ {0}
      BY FirstDataSectorAssumption, ScanAssumption DEF ScanInit
    <2>2. used \subseteq {g \in Runs : ValidEntry(g, fileSectors)}
      BY DEF ScanInit
    <2>3. \A e \in used : e.off \in Nat /\ e.size \in Nat /\ e.size > 0 /\ e.off >= FirstDataSector
      BY <2>2, FirstDataSectorAssumption, ScanAssumption DEF Runs, ValidEntry
    <2>4. IsFiniteSet(used)
      <3>1. CASE used = {}
        BY <3>1, FS_EmptySet
      <3>2. CASE used # {}
        <4> DEFINE A == {g \in Runs : ValidEntry(g, fileSectors)}
        <4>0. used \in {{d, e, f} : d, e, f \in A}
          BY <3>2 DEF ScanInit
        <4> HIDE DEF A
        <4>1. PICK d, e, f \in A : used = {d, e, f}
          BY <4>0
        <4>2. used = (({} \cup {d}) \cup {e}) \cup {f}
          BY <4>1
        <4> QED  BY <4>2, FS_EmptySet, FS_AddElement
      <3> QED  BY <3>1, <3>2
    <2>5. \A d, e \in used : d = e \/ Disjoint(d, e)
      BY DEF ScanInit
    <2> QED  BY <2>1, <2>3, <2>4, <2>5 DEF ScanInv, Table
  <1>2. ScanInv /\ [Claim]_scan => ScanInv'
    <2> SUFFICES ASSUME ScanInv, [Claim]_scan PROVE ScanInv'
      OBVIOUS
    <2>1. CASE Claim
      <3> DEFINE run == [off |-> ScanResult, size |-> request]
      <3>1. IsFreeSlot(ScanResult, used, request, fileSectors)
        BY LoopFindsSlot DEF ScanInv
      <3>2. /\ ScanResult \in Nat /\ ScanResult >= FirstDataSector
            /\ \A e \in used : ScanResult + request <= e.off \/ End(e) <= ScanResult
        BY <3>1, SlotIsFree DEF ScanInv
      <3>3. /\ run.off = ScanResult /\ run.size = request /\ End(run) = ScanResult + request
            /\ used' = used \cup {run}
            /\ fileSectors' = IF End(run) > fileSectors THEN End(run) ELSE fileSectors
            /\ request' \in 1 .. MaxRequest
        BY <2>1 DEF Claim, End
      <3> HIDE DEF run
      <3>4. \A e \in used : Disjoint(run, e) /\ Disjoint(e, run)
        BY <3>2, <3>3 DEF Disjoint
      <3>5. \A d, e \in used' : d = e \/ Disjoint(d, e)
        BY <3>3, <3>4 DEF ScanInv, Table
      <3>6. IsFiniteSet(used')
        BY <3>3, FS_AddElement DEF ScanInv, Table
      <3>7. \A e \in used' : e.off \in Nat /\ e.size \in Nat /\ e.size > 0 /\ e.off >= FirstDataSector
        BY <3>2, <3>3 DEF ScanInv, Table
      <3>8. Table(used')
        BY <3>5, <3>6, <3>7 DEF Table
      <3>9. request' \in Nat \ {0} /\ fileSectors' \in Nat
        BY <3>2, <3>3, ScanAssumption DEF ScanInv
      <3>10. Table(used)' = Table(used')
        BY DEF Table, Disjoint, End
      <3> QED  BY <3>8, <3>9, <3>10 DEF ScanInv
    <2>2. CASE UNCHANGED scan
      BY <2>2 DEF ScanInv, scan, Table, Disjoint, End
    <2> QED  BY <2>1, <2>2
  <1> QED  BY <1>1, <1>2, PTL DEF ScanSpec

(* The loop of find_free_sectors computes the relation RegionFiles uses in *)
(* its place, for a table of any size and a request of any size: it stops  *)
(* at the lowest gap wide enough, and appends when there is none.          *)
THEOREM ScanIsTheRelation == ScanSpec => []ScanAgreesWithRelation
  <1>1. ScanInv => ScanAgreesWithRelation
    <2> SUFFICES ASSUME ScanInv, NEW s \in FirstDataSector .. (LastSector + 1)
                 PROVE  IsFreeSlot(s, used, request, fileSectors) <=> s = ScanResult
      BY DEF ScanAgreesWithRelation
    <2>1. IsFreeSlot(ScanResult, used, request, fileSectors)
      BY LoopFindsSlot DEF ScanInv
    <2>2. ASSUME IsFreeSlot(s, used, request, fileSectors) PROVE s = ScanResult
      BY <2>1, <2>2, OneFreeSlot DEF ScanInv
    <2> QED  BY <2>1, <2>2
  <1> QED  BY <1>1, ScanInvHolds, PTL

(* The run find_free_sectors hands to save_chunk_data lies behind the      *)
(* header and meets no run of the table, however many saves claimed runs   *)
(* before.                                                                 *)
THEOREM ScanHandsOutFreeRuns == ScanSpec => []ScanResultIsFree
  <1>1. ScanInv => ScanResultIsFree
    <2> SUFFICES ASSUME ScanInv PROVE ScanResultIsFree
      OBVIOUS
    <2>1. IsFreeSlot(ScanResult, used, request, fileSectors)
      BY LoopFindsSlot DEF ScanInv
    <2>2. /\ ScanResult \in Nat /\ ScanResult >= FirstDataSector
          /\ \A e \in used : ScanResult + request <= e.off \/ End(e) <= ScanResult
      BY <2>1, SlotIsFree DEF ScanInv
    <2> HIDE DEF ScanResult
    <2> QED  BY <2>2 DEF ScanResultIsFree, Disjoint, End
  <1> QED  BY <1>1, ScanInvHolds, PTL
=============================================================================
