-------------------------- MODULE PortalRows_proofs --------------------------
(***************************************************************************)
(* What the pages of the portals show, for every number of rows, contracts *)
(* and changes: the type invariant of Portals and the four promises its    *)
(* run checks.                                                             *)
(*                                                                         *)
(* Each promise is an implication: when a page is at rest and nothing has  *)
(* disturbed what it lists, the list is the server's, for what the page is *)
(* asked to show.  It is not inductive, because it says nothing of a page  *)
(* whose calls are on their way.  What is inductive says of each row what  *)
(* it rests on: every answer that is still to be taken in has the row as   *)
(* the server has it; when none is to come the page shows it so, unless    *)
(* one write about it is in flight, and then the row is what that write    *)
(* will set right (Promise).  The proof goes row by row: each action is    *)
(* shown to keep what is known of one arbitrary row.  For the figure,      *)
(* which all writes change, there is one call that bears on it, or none.   *)
(***************************************************************************)
EXTENDS Portals_proofs

-----------------------------------------------------------------------------
(* The elements of a finite set of numbers, in order.                      *)
UpTo(S, k) == {j \in S : j <= k}

Rank(S, k) == Cardinality(UpTo(S, k))

Indices(S) == \E N \in Nat : S \subseteq 1 .. N

LEMMA RankIs ==
  ASSUME NEW S, Indices(S)
  PROVE  /\ IsFiniteSet(S) /\ Cardinality(S) \in Nat
         /\ \A k \in S : Rank(S, k) \in 1 .. Cardinality(S)
         /\ \A j, k \in S : Rank(S, j) = Rank(S, k) => j = k
<1> PICK N \in Nat : S \subseteq 1 .. N
  BY DEF Indices
<1>1. IsFiniteSet(S) /\ Cardinality(S) \in Nat
  <2>1. IsFiniteSet(1 .. N)
    BY FS_Interval
  <2>2. IsFiniteSet(S)
    BY <2>1, FS_Subset
  <2> QED BY <2>2, FS_CardinalityType
<1>2. ASSUME NEW k \in S
      PROVE  /\ IsFiniteSet(UpTo(S, k)) /\ Rank(S, k) \in Nat
             /\ Rank(S, k) <= Cardinality(S) /\ Rank(S, k) # 0
  <2>1. UpTo(S, k) \in SUBSET S /\ k \in UpTo(S, k)
    BY DEF UpTo
  <2>2. IsFiniteSet(UpTo(S, k)) /\ Cardinality(UpTo(S, k)) <= Cardinality(S)
    BY <1>1, <2>1, FS_Subset
  <2>3. Cardinality(UpTo(S, k)) \in Nat /\ Cardinality(UpTo(S, k)) # 0
    BY <2>1, <2>2, FS_CardinalityType, FS_EmptySet
  <2> QED BY <2>2, <2>3 DEF Rank
<1>3. ASSUME NEW j \in S, NEW k \in S, j < k PROVE Rank(S, j) # Rank(S, k)
  <2>0. j \in Nat /\ k \in Nat /\ \A i \in S : i \in Nat
    OBVIOUS
  <2>10. \A i \in S : i <= j => i <= k
    BY <1>3, <2>0
  <2>11. k <= k /\ ~(k <= j)
    BY <1>3, <2>0
  <2>1. UpTo(S, j) \in SUBSET UpTo(S, k) /\ k \in UpTo(S, k) /\ k \notin UpTo(S, j)
    BY <2>10, <2>11 DEF UpTo
  <2>2. IsFiniteSet(UpTo(S, k)) /\ UpTo(S, k) # UpTo(S, j)
    BY <1>2, <2>1
  <2>3. Cardinality(UpTo(S, k)) # Cardinality(UpTo(S, j))
    BY <2>1, <2>2, FS_Subset
  <2> QED BY <2>3 DEF Rank
<1>4. \A j, k \in S : Rank(S, j) = Rank(S, k) => j = k
  <2> SUFFICES ASSUME NEW j \in S, NEW k \in S, j # k PROVE Rank(S, j) # Rank(S, k)
    OBVIOUS
  <2>1. j < k \/ k < j
    OBVIOUS
  <2> QED BY <1>3, <2>1
<1> QED BY <1>1, <1>2, <1>4

LEMMA NthIs ==
  ASSUME NEW S, Indices(S)
  PROVE  /\ Cardinality(S) \in Nat
         /\ \A n \in 1 .. Cardinality(S) : Nth(S, n) \in S /\ Rank(S, Nth(S, n)) = n
         /\ \A k \in S : Rank(S, k) \in 1 .. Cardinality(S) /\ Nth(S, Rank(S, k)) = k
<1>1. /\ IsFiniteSet(S) /\ Cardinality(S) \in Nat
      /\ \A k \in S : Rank(S, k) \in 1 .. Cardinality(S)
      /\ \A j, k \in S : Rank(S, j) = Rank(S, k) => j = k
  BY RankIs
<1> PICK m \in Nat : m = Cardinality(S)
  BY <1>1
<1> DEFINE f == [k \in S |-> Rank(S, k)]
<1>2. f \in Injection(S, 1 .. m)
  BY <1>1 DEF Injection, IsInjective
<1>3. IsFiniteSet(1 .. m) /\ Cardinality(1 .. m) = m
  BY FS_Interval
<1>4. f \in Surjection(S, 1 .. m)
  BY <1>2, <1>3, FS_Injection
<1>5. \A n \in 1 .. m : \E k \in S : Rank(S, k) = n
  BY <1>4 DEF Surjection
<1>6. \A n \in 1 .. m : Nth(S, n) \in S /\ Rank(S, Nth(S, n)) = n
  BY <1>5 DEF Nth, Rank, UpTo
<1>7. \A k \in S : Nth(S, Rank(S, k)) = k
  BY <1>1, <1>6
<1> QED BY <1>1, <1>6, <1>7

-----------------------------------------------------------------------------
(* What rows say of an id: it is absent, or there once.                    *)
Absent(rows, r) == \A k \in DOMAIN rows : rows[k].id # r

OnceAt(rows, r, k) ==
  k \in DOMAIN rows /\ rows[k].id = r /\ \A j \in DOMAIN rows : rows[j].id = r => j = k

OnceAs(rows, r, v) == \E k \in DOMAIN rows : OnceAt(rows, r, k) /\ rows[k] = Row(r, v)

Once(rows, r) == \E k \in DOMAIN rows : OnceAt(rows, r, k)

(* r is as the server has it when it says v.                               *)
Matches(rows, r, v) == IF v = 0 THEN Absent(rows, r) ELSE OnceAs(rows, r, v)

SameRow(rows, next, r) ==
  /\ Absent(rows, r) => Absent(next, r)
  /\ \A v : OnceAs(rows, r, v) => OnceAs(next, r, v)

LEMMA RowFields == \A r, v : Row(r, v).id = r /\ Row(r, v).ver = v
BY DEF Row

LEMMA PickedIs ==
  ASSUME NEW S, Indices(S), NEW rows
  PROVE  /\ \A n \in DOMAIN Picked(rows, S) : \E k \in S : Picked(rows, S)[n] = rows[k]
         /\ \A k \in S : /\ Rank(S, k) \in DOMAIN Picked(rows, S)
                         /\ Picked(rows, S)[Rank(S, k)] = rows[k]
                         /\ \A n \in DOMAIN Picked(rows, S) :
                              n # Rank(S, k) => \E j \in S : j # k /\ Picked(rows, S)[n] = rows[j]
<1> PICK m \in Nat : m = Cardinality(S)
  BY NthIs
<1> PICK p : p = Picked(rows, S)
  OBVIOUS
<1>1. p = [n \in 1 .. m |-> rows[Nth(S, n)]]
  BY DEF Picked
<1>2. /\ \A n \in 1 .. m : Nth(S, n) \in S /\ Rank(S, Nth(S, n)) = n
      /\ \A k \in S : Rank(S, k) \in 1 .. m /\ Nth(S, Rank(S, k)) = k
  BY NthIs
<1>4. DOMAIN p = 1 .. m /\ \A n \in 1 .. m : p[n] = rows[Nth(S, n)]
  BY <1>1
<1> QED BY <1>2, <1>4

LEMMA PickedTyped ==
  ASSUME NEW S, Indices(S), NEW T, NEW rows, \A k \in S : rows[k] \in T
  PROVE  Picked(rows, S) \in Seq(T)
<1> PICK m \in Nat : m = Cardinality(S)
  BY NthIs
<1> PICK p : p = Picked(rows, S)
  OBVIOUS
<1>1. p = [n \in 1 .. m |-> rows[Nth(S, n)]]
  BY DEF Picked
<1>2. \A n \in 1 .. m : Nth(S, n) \in S
  BY NthIs
<1>3. p \in [1 .. m -> T]
  BY <1>1, <1>2
<1> QED BY <1>3

LEMMA PickedAbsent ==
  ASSUME NEW S, Indices(S), NEW rows, NEW r, \A k \in S : rows[k].id # r
  PROVE  Absent(Picked(rows, S), r)
<1>2. \A n \in DOMAIN Picked(rows, S) : \E k \in S : Picked(rows, S)[n] = rows[k]
  BY PickedIs
<1> QED BY <1>2 DEF Absent

LEMMA PickedOnce ==
  ASSUME NEW S, Indices(S), NEW rows, NEW r, NEW k \in S,
         rows[k].id = r, \A j \in S : rows[j].id = r => j = k
  PROVE  /\ OnceAt(Picked(rows, S), r, Rank(S, k))
         /\ Picked(rows, S)[Rank(S, k)] = rows[k]
<1>2. /\ Rank(S, k) \in DOMAIN Picked(rows, S)
      /\ Picked(rows, S)[Rank(S, k)] = rows[k]
      /\ \A n \in DOMAIN Picked(rows, S) :
           n # Rank(S, k) => \E j \in S : j # k /\ Picked(rows, S)[n] = rows[j]
  BY PickedIs
<1> QED BY <1>2 DEF OnceAt

(* What a list that answers q says of r.                                   *)
Says(table, q, r) == IF Lists(q, r, table[r]) THEN table[r] ELSE 0

(* The server's list has every row it should once, as it is.               *)
LEMMA ListingMatches ==
  ASSUME NEW table \in [Ids -> Versions \cup {0}], NEW q
  PROVE  /\ Listing(table, q) \in Seq(RowType)
         /\ \A r \in Ids : Matches(Listing(table, q), r, Says(table, q, r))
<1> PICK rows : rows = [r \in Ids |-> Row(r, table[r])]
  OBVIOUS
<1> PICK S : S = {r \in Ids : Lists(q, r, table[r])}
  OBVIOUS
<1>1. Listing(table, q) = Picked(rows, S)
  BY DEF Listing
<1>2. Indices(S)
  BY RowBoundsAssumption DEF Ids, Indices
<1>3. \A r \in S : rows[r] = Row(r, table[r]) /\ rows[r] \in RowType /\ rows[r].id = r
  BY DEF Row, RowType, Lists
<1>4. Listing(table, q) \in Seq(RowType)
  <2> PICK T : T = RowType
    OBVIOUS
  <2>1. \A r \in S : rows[r] \in T
    BY <1>3
  <2>2. Picked(rows, S) \in Seq(T)
    BY <1>2, <2>1, PickedTyped
  <2> QED BY <1>1, <2>2
<1>5. ASSUME NEW r \in Ids PROVE Matches(Listing(table, q), r, Says(table, q, r))
  <2>1. CASE r \notin S
    <3>1. \A k \in S : rows[k].id # r
      BY <1>3, <2>1
    <3>2. Absent(Picked(rows, S), r)
      BY <1>2, <3>1, PickedAbsent
    <3> QED BY <1>1, <2>1, <3>2 DEF Matches, Says
  <2>2. CASE r \in S
    <3>1. OnceAt(Picked(rows, S), r, Rank(S, r)) /\ Picked(rows, S)[Rank(S, r)] = rows[r]
      BY <1>2, <1>3, <2>2, PickedOnce
    <3>2. Says(table, q, r) = table[r] /\ table[r] # 0
      BY <2>2 DEF Says, Lists
    <3> QED BY <1>1, <1>3, <2>2, <3>1, <3>2 DEF Matches, OnceAs, OnceAt
  <2> QED BY <2>1, <2>2
<1> QED BY <1>4, <1>5

Rows == Seq(RowType)

LEMMA RowOf == ASSUME NEW row \in RowType
               PROVE  row.id \in Ids /\ row.ver \in Versions /\ row = Row(row.id, row.ver)
BY DEF RowType, Row

LEMMA RowTyped == ASSUME NEW r \in Ids, NEW v \in Versions PROVE Row(r, v) \in RowType
BY DEF RowType, Row

LEMMA RowsIndices ==
  ASSUME NEW rows \in Rows
  PROVE  /\ Len(rows) \in Nat /\ DOMAIN rows = 1 .. Len(rows)
         /\ \A k \in DOMAIN rows : rows[k] \in RowType
         /\ Indices(DOMAIN rows)
BY DEF Rows, Indices

LEMMA OnceAsIs ==
  ASSUME NEW rows, NEW r, NEW v, OnceAs(rows, r, v)
  PROVE  Once(rows, r) /\ ~Absent(rows, r)
BY DEF OnceAs, Once, OnceAt, Absent

LEMMA SameRowKeeps ==
  ASSUME NEW rows, NEW next, NEW r, SameRow(rows, next, r), NEW v, Matches(rows, r, v)
  PROVE  Matches(next, r, v)
BY DEF SameRow, Matches

LEMMA WithoutRows ==
  ASSUME NEW rows \in Rows, NEW r
  PROVE  /\ Without(rows, r) \in Rows
         /\ Absent(Without(rows, r), r)
         /\ \A q : q # r => SameRow(rows, Without(rows, r), q)
<1> PICK S : S = {k \in DOMAIN rows : rows[k].id # r}
  OBVIOUS
<1>1. Without(rows, r) = Picked(rows, S)
  BY DEF Without
<1>2. Indices(S) /\ \A k \in S : k \in DOMAIN rows /\ rows[k] \in RowType /\ rows[k].id # r
  BY RowsIndices DEF Indices
<1>3. Without(rows, r) \in Rows
  BY <1>1, <1>2, PickedTyped DEF Rows
<1>4. Absent(Without(rows, r), r)
  BY <1>1, <1>2, PickedAbsent
<1>5. ASSUME NEW q, q # r PROVE SameRow(rows, Picked(rows, S), q)
  <2>1. ASSUME Absent(rows, q) PROVE Absent(Picked(rows, S), q)
    <3>1. \A k \in S : rows[k].id # q
      BY <1>2, <2>1 DEF Absent
    <3> QED BY <1>2, <3>1, PickedAbsent
  <2>2. ASSUME NEW v, OnceAs(rows, q, v) PROVE OnceAs(Picked(rows, S), q, v)
    <3>1. PICK k \in DOMAIN rows : OnceAt(rows, q, k) /\ rows[k] = Row(q, v)
      BY <2>2 DEF OnceAs
    <3>2. k \in S /\ rows[k].id = q /\ \A j \in S : rows[j].id = q => j = k
      BY <1>2, <1>5, <3>1 DEF OnceAt
    <3>3. OnceAt(Picked(rows, S), q, Rank(S, k)) /\ Picked(rows, S)[Rank(S, k)] = rows[k]
      BY <1>2, <3>2, PickedOnce
    <3> QED BY <3>1, <3>3 DEF OnceAs, OnceAt
  <2> QED BY <2>1, <2>2 DEF SameRow
<1> QED BY <1>1, <1>3, <1>4, <1>5

LEMMA ReplacedRows ==
  ASSUME NEW rows \in Rows, NEW row \in RowType
  PROVE  /\ Replaced(rows, row) \in Rows
         /\ Once(rows, row.id) => OnceAs(Replaced(rows, row), row.id, row.ver)
         /\ \A q : q # row.id => SameRow(rows, Replaced(rows, row), q)
<1> PICK next : next = Replaced(rows, row)
  OBVIOUS
<1>1. /\ DOMAIN next = DOMAIN rows /\ next \in Rows
      /\ \A k \in DOMAIN rows : next[k] = IF rows[k].id = row.id THEN row ELSE rows[k]
  BY DEF Replaced, Rows
<1>2. Once(rows, row.id) => OnceAs(next, row.id, row.ver)
  BY <1>1, RowOf DEF Once, OnceAs, OnceAt
<1>3. \A q : q # row.id => SameRow(rows, next, q)
  BY <1>1 DEF SameRow, Absent, OnceAs, OnceAt
<1> QED BY <1>1, <1>2, <1>3

LEMMA AllReadRows ==
  ASSUME NEW rows \in Rows, NEW r
  PROVE  /\ AllRead(rows) \in Rows
         /\ Absent(rows, r) => Absent(AllRead(rows), r)
         /\ Once(rows, r) => OnceAs(AllRead(rows), r, 1)
<1> PICK next : next = AllRead(rows)
  OBVIOUS
<1>1. DOMAIN next = DOMAIN rows /\ \A k \in DOMAIN rows : next[k] = [rows[k] EXCEPT !.ver = 1]
  BY DEF AllRead
<1>2. \A k \in DOMAIN rows : next[k] = Row(rows[k].id, 1) /\ next[k] \in RowType
  BY <1>1, RowsIndices DEF RowType, Row, Versions
<1>3. next \in Rows
  <2>1. next \in [1 .. Len(rows) -> RowType]
    BY <1>1, <1>2, RowsIndices DEF AllRead
  <2> QED BY <2>1, RowsIndices DEF Rows
<1>4. \A k \in DOMAIN rows : next[k].id = rows[k].id
  BY <1>2, RowFields
<1>5. Once(rows, r) => OnceAs(next, r, 1)
  BY <1>1, <1>2, <1>4 DEF Once, OnceAs, OnceAt
<1>6. Absent(rows, r) => Absent(next, r)
  BY <1>1, <1>4 DEF Absent
<1> QED BY <1>3, <1>5, <1>6

(* next is rows with row put in at k.                                      *)
Inserted(rows, next, k, row) ==
  /\ k \in 1 .. Len(rows) + 1
  /\ DOMAIN next = 1 .. Len(rows) + 1
  /\ \A j \in 1 .. Len(rows) : j < k => next[j] = rows[j]
  /\ \A j \in 1 .. Len(rows) : j >= k => next[j + 1] = rows[j]
  /\ next[k] = row

LEMMA InsertedRows ==
  ASSUME NEW rows \in Rows, NEW next, NEW k, NEW row \in RowType, Inserted(rows, next, k, row)
  PROVE  /\ Absent(rows, row.id) => OnceAs(next, row.id, row.ver)
         /\ \A q : q # row.id => SameRow(rows, next, q)
<1> PICK n \in Nat : n = Len(rows) /\ DOMAIN rows = 1 .. n
  BY RowsIndices
<1> PICK h \in Nat : h = k /\ h \in 1 .. n + 1
  BY DEF Inserted
<1>1. /\ DOMAIN next = 1 .. n + 1
      /\ \A j \in 1 .. n : j < h => next[j] = rows[j]
      /\ \A j \in 1 .. n : j >= h => next[j + 1] = rows[j]
      /\ next[h] = row /\ h \in DOMAIN next
  BY DEF Inserted
<1>2. \A i \in 1 .. n + 1 : i # h => \E j \in 1 .. n : next[i] = rows[j] /\ (i = j \/ i = j + 1)
  <2> SUFFICES ASSUME NEW i \in 1 .. n + 1, i # h
               PROVE  \E j \in 1 .. n : next[i] = rows[j] /\ (i = j \/ i = j + 1)
    OBVIOUS
  <2>1. CASE i < h
    BY <1>1, <2>1
  <2>2. CASE i > h
    <3>1. i - 1 \in 1 .. n /\ i - 1 >= h /\ (i - 1) + 1 = i
      BY <2>2
    <3> QED BY <1>1, <3>1
  <2> QED BY <2>1, <2>2
<1>3. ASSUME Absent(rows, row.id) PROVE OnceAs(next, row.id, row.ver)
  BY <1>1, <1>2, <1>3, RowOf DEF Absent, OnceAs, OnceAt
<1>4. ASSUME NEW q, q # row.id PROVE SameRow(rows, next, q)
  <2>1. Absent(rows, q) => Absent(next, q)
    BY <1>1, <1>2, <1>4 DEF Absent
  <2>2. ASSUME NEW v, OnceAs(rows, q, v) PROVE OnceAs(next, q, v)
    <3>1. PICK j \in 1 .. n : OnceAt(rows, q, j) /\ rows[j] = Row(q, v)
      BY <2>2 DEF OnceAs
    <3>2. PICK i \in 1 .. n + 1 : next[i] = rows[j] /\ i = IF j < h THEN j ELSE j + 1
      BY <1>1
    <3>3. \A m \in 1 .. n + 1 : next[m].id = q => m = i
      <4> SUFFICES ASSUME NEW m \in 1 .. n + 1, next[m].id = q PROVE m = i
        OBVIOUS
      <4>0. m # h
        BY <1>1, <1>4
      <4>1. CASE m < h
        <5>1. m \in 1 .. n /\ next[m] = rows[m]
          BY <1>1, <4>1
        <5> QED BY <3>1, <3>2, <4>1, <5>1 DEF OnceAt
      <4>2. CASE m > h
        <5>1. m - 1 \in 1 .. n /\ m - 1 >= h /\ next[(m - 1) + 1] = rows[m - 1] /\ (m - 1) + 1 = m
          BY <1>1, <4>2
        <5>2. m - 1 = j
          BY <3>1, <5>1 DEF OnceAt
        <5> QED BY <3>2, <5>1, <5>2
      <4> QED BY <4>0, <4>1, <4>2
    <3> QED BY <1>1, <3>1, <3>2, <3>3 DEF OnceAs, OnceAt
  <2> QED BY <2>1, <2>2 DEF SameRow
<1> QED BY <1>3, <1>4

LEMMA PutInRows ==
  ASSUME NEW rows \in Rows, NEW row \in RowType
  PROVE  /\ Append(rows, row) \in Rows /\ Inserted(rows, Append(rows, row), Len(rows) + 1, row)
         /\ rows \o <<row>> \in Rows /\ Inserted(rows, rows \o <<row>>, Len(rows) + 1, row)
         /\ <<row>> \o rows \in Rows /\ Inserted(rows, <<row>> \o rows, 1, row)
<1> PICK n \in Nat : n = Len(rows) /\ DOMAIN rows = 1 .. n
  BY RowsIndices
<1>1. <<row>> \in Rows /\ Len(<<row>>) = 1
  BY DEF Rows
<1>2. Append(rows, row) \in Rows /\ Inserted(rows, Append(rows, row), Len(rows) + 1, row)
  BY DEF Rows, Inserted
<1>3. rows \o <<row>> \in Rows /\ Inserted(rows, rows \o <<row>>, Len(rows) + 1, row)
  BY <1>1 DEF Rows, Inserted
<1>4. <<row>> \o rows \in Rows /\ Inserted(rows, <<row>> \o rows, 1, row)
  BY <1>1 DEF Rows, Inserted
<1> QED BY <1>2, <1>3, <1>4

LEMMA JoinedRows ==
  ASSUME NEW head \in Rows, NEW tail \in Rows
  PROVE  /\ head \o tail \in Rows /\ Len(head \o tail) = Len(head) + Len(tail)
         /\ \A i \in 1 .. Len(head) : (head \o tail)[i] = head[i]
         /\ \A i \in 1 .. Len(head) + Len(tail) :
              i > Len(head) => (head \o tail)[i] = tail[i - Len(head)]
BY DEF Rows

LEMMA SplicedRows ==
  ASSUME NEW n \in Nat, NEW k \in 1 .. n, NEW rows \in Rows, Len(rows) = n, NEW row \in RowType,
         NEW head \in Rows, Len(head) = k, head[k] = row,
         \A i \in 1 .. k - 1 : head[i] = rows[i],
         NEW tail \in Rows, Len(tail) = (n - k) + 1,
         \A i \in 1 .. (n - k) + 1 : tail[i] = rows[(k + i) - 1]
  PROVE  head \o tail \in Rows /\ Inserted(rows, head \o tail, k, row)
<1>1. Len(head) + Len(tail) = n + 1
  OBVIOUS
<1>2. /\ head \o tail \in Rows /\ Len(head \o tail) = n + 1
      /\ \A i \in 1 .. k : (head \o tail)[i] = head[i]
      /\ \A i \in 1 .. n + 1 : i > k => (head \o tail)[i] = tail[i - k]
  <2>1. /\ head \o tail \in Rows /\ Len(head \o tail) = Len(head) + Len(tail)
        /\ \A i \in 1 .. Len(head) : (head \o tail)[i] = head[i]
        /\ \A i \in 1 .. Len(head) + Len(tail) :
             i > Len(head) => (head \o tail)[i] = tail[i - Len(head)]
    BY JoinedRows
  <2> QED BY <1>1, <2>1
<1>3. ASSUME NEW j \in 1 .. n, j >= k PROVE (head \o tail)[j + 1] = rows[j]
  <2> PICK i \in Int : i = (j - k) + 1
    OBVIOUS
  <2>1. /\ i \in 1 .. (n - k) + 1 /\ (k + i) - 1 = j /\ j + 1 \in 1 .. n + 1
        /\ j + 1 > k /\ (j + 1) - k = i
    BY <1>3
  <2>2. tail[i] = rows[j]
    BY <2>1
  <2>3. (head \o tail)[j + 1] = tail[i]
    BY <1>2, <2>1
  <2> QED BY <2>2, <2>3
<1>4. \A j \in 1 .. n : j < k => (head \o tail)[j] = rows[j]
  <2> SUFFICES ASSUME NEW j \in 1 .. n, j < k PROVE (head \o tail)[j] = rows[j]
    OBVIOUS
  <2>1. j \in 1 .. k /\ j \in 1 .. k - 1
    OBVIOUS
  <2> QED BY <1>2, <2>1
<1>5. DOMAIN (head \o tail) = 1 .. n + 1
  BY <1>2, RowsIndices
<1> QED BY <1>2, <1>3, <1>4, <1>5 DEF Inserted

LEMMA InsertedAtRows ==
  ASSUME NEW rows \in Rows, NEW row \in RowType, NEW k \in Nat \ {0}
  PROVE  /\ InsertedAt(rows, k, row) \in Rows
         /\ \E j : Inserted(rows, InsertedAt(rows, k, row), j, row) /\ (k <= Len(rows) + 1 => j = k)
<1> PICK n \in Nat : n = Len(rows) /\ DOMAIN rows = 1 .. n
  BY RowsIndices
<1>1. CASE k > n
  <2>1. InsertedAt(rows, k, row) = Append(rows, row)
    BY <1>1 DEF InsertedAt
  <2>2. Inserted(rows, Append(rows, row), n + 1, row) /\ Append(rows, row) \in Rows
    BY PutInRows
  <2>3. k <= n + 1 => n + 1 = k
    BY <1>1
  <2> QED BY <2>1, <2>2, <2>3
<1>2. CASE k <= n
  <2>1. /\ SubSeq(rows, 1, k - 1) \o <<row>> \in Rows
        /\ Len(SubSeq(rows, 1, k - 1) \o <<row>>) = k
        /\ (SubSeq(rows, 1, k - 1) \o <<row>>)[k] = row
        /\ \A i \in 1 .. k - 1 : (SubSeq(rows, 1, k - 1) \o <<row>>)[i] = rows[i]
    BY <1>2 DEF Rows
  <2>2. /\ SubSeq(rows, k, n) \in Rows /\ Len(SubSeq(rows, k, n)) = (n - k) + 1
        /\ \A i \in 1 .. (n - k) + 1 : SubSeq(rows, k, n)[i] = rows[(k + i) - 1]
    BY <1>2 DEF Rows
  <2>3. k \in 1 .. n
    BY <1>2
  <2>4. /\ (SubSeq(rows, 1, k - 1) \o <<row>>) \o SubSeq(rows, k, n) \in Rows
        /\ Inserted(rows, (SubSeq(rows, 1, k - 1) \o <<row>>) \o SubSeq(rows, k, n), k, row)
    <3> PICK head : head = SubSeq(rows, 1, k - 1) \o <<row>>
      OBVIOUS
    <3> PICK tail : tail = SubSeq(rows, k, n)
      OBVIOUS
    <3> QED BY <2>1, <2>2, <2>3, SplicedRows
  <2>5. InsertedAt(rows, k, row) = (SubSeq(rows, 1, k - 1) \o <<row>>) \o SubSeq(rows, k, n)
    BY <1>2 DEF InsertedAt
  <2> QED BY <2>4, <2>5
<1> QED BY <1>1, <1>2

LEMMA IndexOfIs ==
  ASSUME NEW rows, NEW r, NEW j \in DOMAIN rows, rows[j].id = r
  PROVE  /\ IndexOf(r, rows) \in DOMAIN rows /\ rows[IndexOf(r, rows)].id = r
         /\ Once(rows, r) => OnceAt(rows, r, IndexOf(r, rows))
         /\ \A v : OnceAs(rows, r, v) => rows[IndexOf(r, rows)] = Row(r, v)
<1>1. IndexOf(r, rows) \in DOMAIN rows /\ rows[IndexOf(r, rows)].id = r
  BY DEF IndexOf
<1> QED BY <1>1 DEF Once, OnceAt, OnceAs

LEMMA SameRows ==
  ASSUME NEW rows \in Rows, NEW next \in Rows, Len(rows) = Len(next),
         \A i \in 1 .. Len(rows) : rows[i] = next[i]
  PROVE  rows = next
BY DEF Rows

LEMMA UpToInterval ==
  ASSUME NEW n \in Nat
  PROVE  IsFiniteSet(1 .. n) /\ Cardinality(1 .. n) = n
<1>1. IsFiniteSet(1 .. n) /\ Cardinality(1 .. n) = IF 1 > n THEN 0 ELSE n - 1 + 1
  BY FS_Interval
<1> QED BY <1>1

AllBut(S, n, k) == S = (1 .. n) \ {k}

LEMMA RankOfGap ==
  ASSUME NEW n \in Nat, NEW k \in 1 .. n, NEW S, AllBut(S, n, k)
  PROVE  /\ Indices(S) /\ Cardinality(S) = n - 1
         /\ \A j \in S : Rank(S, j) = IF j < k THEN j ELSE j - 1
<1>0. S = (1 .. n) \ {k}
  BY DEF AllBut
<1>1. Indices(S)
  BY <1>0 DEF Indices
<1>2. Cardinality(S) = n - 1
  BY <1>0, UpToInterval, FS_RemoveElement
<1>3. ASSUME NEW j \in S PROVE Rank(S, j) = IF j < k THEN j ELSE j - 1
  <2>0. j \in Nat /\ j \in 1 .. n /\ j # k
    BY <1>0
  <2>1. CASE j < k
    <3>1. UpTo(S, j) = 1 .. j
      BY <1>0, <2>0, <2>1 DEF UpTo
    <3> QED BY <2>0, <2>1, <3>1, UpToInterval DEF Rank
  <2>2. CASE j > k
    <3>1. UpTo(S, j) = (1 .. j) \ {k} /\ k \in 1 .. j
      BY <1>0, <2>0, <2>2 DEF UpTo
    <3>2. Cardinality((1 .. j) \ {k}) = j - 1
      <4> PICK T : T = 1 .. j
        OBVIOUS
      <4>1. IsFiniteSet(T) /\ Cardinality(T) = j
        BY <2>0, UpToInterval
      <4> QED BY <3>1, <4>1, FS_RemoveElement
    <3> QED BY <2>0, <2>2, <3>1, <3>2 DEF Rank
  <2> QED BY <2>0, <2>1, <2>2
<1> QED BY <1>1, <1>2, <1>3

LEMMA WithoutOne ==
  ASSUME NEW rows \in Rows, NEW r, NEW k, OnceAt(rows, r, k)
  PROVE  /\ Without(rows, r) \in Rows /\ Len(Without(rows, r)) = Len(rows) - 1
         /\ \A m \in 1 .. Len(rows) - 1 :
              Without(rows, r)[m] = IF m < k THEN rows[m] ELSE rows[m + 1]
<1> PICK n \in Nat : n = Len(rows) /\ DOMAIN rows = 1 .. n
  BY RowsIndices
<1>0. \A T : AllBut(T, n, k) =>
        /\ Indices(T) /\ Cardinality(T) = n - 1
        /\ \A j \in T : Rank(T, j) = IF j < k THEN j ELSE j - 1
  BY RankOfGap DEF OnceAt
<1> PICK S : S = {i \in DOMAIN rows : rows[i].id # r}
  OBVIOUS
<1>1. k \in 1 .. n /\ S = (1 .. n) \ {k} /\ AllBut(S, n, k)
  BY DEF OnceAt, AllBut
<1> PICK p : p = Picked(rows, S)
  OBVIOUS
<1>2. p = Without(rows, r)
  BY DEF Without
<1>3. p \in Rows
  BY <1>2, WithoutRows
<1>4. /\ Indices(S) /\ Cardinality(S) = n - 1
      /\ \A j \in S : Rank(S, j) = IF j < k THEN j ELSE j - 1
  BY <1>0, <1>1
<1>5. DOMAIN p = 1 .. n - 1
  BY <1>4 DEF Picked
<1>6. Len(p) = n - 1
  <2>1. n - 1 \in Nat /\ DOMAIN p = 1 .. Len(p) /\ Len(p) \in Nat
    BY <1>1, <1>3, RowsIndices
  <2>2. ASSUME NEW a \in Nat, NEW b \in Nat, 1 .. a = 1 .. b PROVE a = b
    <3>1. IF a = 0 THEN b = 0 ELSE a \in 1 .. b
      BY <2>2
    <3>2. IF b = 0 THEN a = 0 ELSE b \in 1 .. a
      BY <2>2
    <3> QED BY <3>1, <3>2
  <2> QED BY <1>5, <2>1, <2>2
<1>7. \A j \in S : p[Rank(S, j)] = rows[j]
  BY <1>4, PickedIs
<1>8. ASSUME NEW m \in 1 .. n - 1 PROVE p[m] = IF m < k THEN rows[m] ELSE rows[m + 1]
  <2>0. m \in Nat /\ m + 1 \in 1 .. n /\ m \in 1 .. n /\ k \in Nat /\ (m + 1) - 1 = m
    BY <1>1
  <2>1. CASE m < k
    <3>1. m \in S /\ Rank(S, m) = m
      BY <1>1, <1>4, <2>0, <2>1
    <3> QED BY <1>7, <2>1, <3>1
  <2>2. CASE ~(m < k)
    <3>1. m + 1 \in S /\ ~(m + 1 < k)
      BY <1>1, <2>0, <2>2
    <3>2. Rank(S, m + 1) = m
      BY <1>4, <2>0, <3>1
    <3>3. p[Rank(S, m + 1)] = rows[m + 1]
      BY <1>7, <3>1
    <3> QED BY <2>2, <3>2, <3>3
  <2> QED BY <2>1, <2>2
<1> QED BY <1>2, <1>3, <1>6, <1>8

(* Each undo puts back what was there.                                     *)
LEMMA SplicedBack ==
  ASSUME NEW rows \in Rows, NEW r, NEW k, OnceAt(rows, r, k)
  PROVE  InsertedAt(Without(rows, r), k, rows[k]) = rows
<1> PICK n \in Nat : n = Len(rows) /\ DOMAIN rows = 1 .. n
  BY RowsIndices
<1>1. k \in 1 .. n /\ k \in Nat \ {0} /\ rows[k] \in RowType
  BY RowsIndices DEF OnceAt
<1> PICK w : w = Without(rows, r)
  OBVIOUS
<1>2. /\ w \in Rows /\ Len(w) = n - 1
      /\ \A m \in 1 .. n - 1 : w[m] = IF m < k THEN rows[m] ELSE rows[m + 1]
  BY WithoutOne
<1> PICK next : next = InsertedAt(w, k, rows[k])
  OBVIOUS
<1>3. next \in Rows /\ Inserted(w, next, k, rows[k])
  <2>1. k <= Len(w) + 1
    BY <1>1, <1>2
  <2> PICK row \in RowType : row = rows[k]
    BY <1>1
  <2>2. InsertedAt(w, k, row) \in Rows /\ \E j : Inserted(w, InsertedAt(w, k, row), j, row) /\ j = k
    BY <1>1, <1>2, <2>1, InsertedAtRows
  <2> QED BY <2>2
<1>4. /\ DOMAIN next = 1 .. n /\ next[k] = rows[k]
      /\ \A j \in 1 .. n - 1 : j < k => next[j] = w[j]
      /\ \A j \in 1 .. n - 1 : j >= k => next[j + 1] = w[j]
  BY <1>2, <1>3 DEF Inserted
<1>5. ASSUME NEW i \in 1 .. n PROVE rows[i] = next[i]
  <2>1. CASE i < k
    BY <1>1, <1>2, <1>4, <2>1
  <2>2. CASE i > k
    <3>1. i - 1 \in 1 .. n - 1 /\ i - 1 >= k /\ (i - 1) + 1 = i /\ ~(i - 1 < k)
      BY <1>1, <2>2
    <3>2. next[(i - 1) + 1] = w[i - 1] /\ w[i - 1] = rows[(i - 1) + 1]
      BY <1>2, <1>4, <3>1
    <3> QED BY <3>1, <3>2
  <2> QED BY <1>1, <1>4, <2>1, <2>2
<1>6. rows \in [1 .. n -> RowType] /\ next \in [1 .. n -> RowType]
  BY <1>3, <1>4, RowsIndices DEF Rows
<1> QED BY <1>5, <1>6

LEMMA DroppedBack ==
  ASSUME NEW rows \in Rows, NEW r \in Ids, NEW v \in Versions, Absent(rows, r)
  PROVE  Without(Append(rows, Row(r, v)), r) = rows
<1> PICK n \in Nat : n = Len(rows) /\ DOMAIN rows = 1 .. n
  BY RowsIndices
<1> PICK next : next = Append(rows, Row(r, v))
  OBVIOUS
<1>1. /\ next \in Rows /\ Len(next) = n + 1 /\ DOMAIN next = 1 .. n + 1
      /\ \A i \in 1 .. n : next[i] = rows[i]
      /\ next[n + 1] = Row(r, v)
  BY RowTyped DEF Rows
<1>2. OnceAt(next, r, n + 1)
  BY <1>1, RowFields DEF OnceAt, Absent
<1>3. /\ Without(next, r) \in Rows /\ Len(Without(next, r)) = Len(next) - 1
      /\ \A m \in 1 .. Len(next) - 1 :
           Without(next, r)[m] = IF m < n + 1 THEN next[m] ELSE next[m + 1]
  BY <1>1, <1>2, WithoutOne
<1>4. Len(Without(next, r)) = n /\ \A m \in 1 .. n : Without(next, r)[m] = rows[m]
  BY <1>1, <1>3
<1> PICK w : w = Without(next, r)
  OBVIOUS
<1> QED BY <1>3, <1>4, SameRows

LEMMA ReplacedBack ==
  ASSUME NEW rows \in Rows, NEW r, NEW v, NEW k, OnceAt(rows, r, k)
  PROVE  Replaced(Replaced(rows, Row(r, v)), rows[k]) = rows
<1> PICK row : row = Row(r, v)
  OBVIOUS
<1> PICK mid : mid = Replaced(rows, row)
  OBVIOUS
<1> PICK next : next = Replaced(mid, rows[k])
  OBVIOUS
<1>0. row.id = r /\ rows[k].id = r /\ k \in DOMAIN rows
  BY RowFields DEF OnceAt
<1>1. mid = [j \in DOMAIN rows |-> IF rows[j].id = r THEN row ELSE rows[j]]
  BY <1>0 DEF Replaced
<1>2. next = [j \in DOMAIN mid |-> IF mid[j].id = r THEN rows[k] ELSE mid[j]]
  BY <1>0 DEF Replaced
<1>3. DOMAIN mid = DOMAIN rows /\ DOMAIN next = DOMAIN rows
  BY <1>1, <1>2
<1>4. \A j \in DOMAIN rows : next[j] = rows[j]
  <2>1. \A j \in DOMAIN rows : mid[j] = IF rows[j].id = r THEN row ELSE rows[j]
    BY <1>1
  <2>2. \A j \in DOMAIN rows : next[j] = IF mid[j].id = r THEN rows[k] ELSE mid[j]
    BY <1>2, <1>3
  <2>3. \A j \in DOMAIN rows : rows[j].id = r => j = k
    BY DEF OnceAt
  <2> QED BY <1>0, <2>1, <2>2, <2>3
<1>5. rows \in [1 .. Len(rows) -> RowType] /\ DOMAIN rows = 1 .. Len(rows)
  BY RowsIndices DEF Rows
<1>6. next = [j \in DOMAIN next |-> next[j]]
  BY <1>2
<1> QED BY <1>3, <1>4, <1>5, <1>6

-----------------------------------------------------------------------------
(* What calls are made of.                                                 *)
Traits == {"latest", "blank", "silent", "kept", "aside", "figure", "url", "held", "none"}

SlotNames == Slots \cup {"none"}

Ops == {"load", "figure", "create", "update", "delete", "all"}

Thens == {"keep", "replace", "prepend", "append", "drop", "rows"}

Undos == {"keep", "drop", "restore", "splice", "snapshot"}

CallType ==
  [n : Nat, op : Ops, id : All, ver : Versions \cup {0}, slot : SlotNames, then : Thens,
   undo : Undos, load : SUBSET Traits, seen : Rows, side : Nat, query : Queries,
   phase : {"sent", "answered"}, got : Rows, figure : Nat, alone : BOOLEAN,
   cancelled : BOOLEAN]

(* Pages whose loads cancel the one before.                                *)
LatestPages ==
  {"templates", "knowledge", "clauses", "integrations", "workflow", "pending", "dashboard",
   "contracts", "inquiries"}

(* A load of rows that follows a write.                                    *)
ListAfter(load) ==
  /\ load \in SUBSET Traits /\ "none" \notin load
  /\ "figure" \notin load /\ "held" \notin load /\ "url" \notin load
  /\ "latest" \in load <=> page \in LatestPages
  /\ "latest" \in load => "aside" \notin load

FigureAfter == {NoLoad, Figure, {"figure", "held"}}

(* The writes of the pages: what continues them, what undoes them.         *)
Creates(c) ==
  /\ c.op = "create" /\ c.id \in Ids /\ c.ver = 1 /\ c.undo = "keep"
  /\ \/ c.then \in {"prepend", "append"} /\ c.load = NoLoad
     \/ c.then = "keep" /\ ListAfter(c.load)

CreatesAhead(c) ==
  /\ c.op = "create" /\ c.id \in Ids /\ c.ver = 1 /\ c.undo = "drop"
  /\ c.then = "rows" /\ c.load \in {NoLoad, {"none", "url"}} /\ c.slot = "create"

Updates(c) ==
  /\ c.op = "update" /\ c.id \in Ids /\ c.ver \in Versions /\ c.undo = "keep"
  /\ \/ c.then = "replace" /\ c.load \in FigureAfter
     \/ c.then = "keep" /\ ListAfter(c.load)

Saves(c) ==
  /\ c.op = "update" /\ c.id \in Ids /\ c.ver \in Versions /\ c.undo = "keep"
  /\ c.then = "rows" /\ c.load = NoLoad

UpdatesAhead(c) ==
  /\ c.op = "update" /\ c.id \in Ids /\ c.ver \in Versions /\ c.undo = "restore"
  /\ c.then \in {"keep", "replace"} /\ c.load \in FigureAfter

Deletes(c) ==
  /\ c.op = "delete" /\ c.id \in Ids /\ c.ver = 0 /\ c.undo = "keep"
  /\ \/ c.then = "drop" /\ c.load \in FigureAfter
     \/ c.then = "keep" /\ ListAfter(c.load)

DeletesAhead(c) ==
  /\ c.op = "delete" /\ c.id \in Ids /\ c.ver = 0 /\ c.undo = "splice"
  /\ c.then = "keep" /\ c.load = NoLoad

Marks(c) ==
  /\ c.op = "update" /\ c.id \in Ids /\ c.ver = 1 /\ c.undo = "snapshot"
  /\ c.then = "replace" /\ c.load = NoLoad

MarksAll(c) ==
  /\ c.op = "all" /\ c.id = 0 /\ c.ver = 1 /\ c.undo = "snapshot"
  /\ c.then = "keep" /\ c.load = NoLoad

WriteShape(c) ==
  /\ CASE page = "conversation" -> CreatesAhead(c)
       [] page = "contract" -> Saves(c)
       [] page = "bell" -> Marks(c) \/ MarksAll(c)
       [] page = "dashboard" -> FALSE
       [] OTHER -> \/ Creates(c) \/ Updates(c) \/ UpdatesAhead(c) \/ Deletes(c)
                   \/ DeletesAhead(c)

(* What a page does, whichever page it is: it begins a call, or loads.     *)
NewCall(c) ==
  /\ c.seen = IF c.undo = "keep" THEN << >> ELSE shown
  /\ c.side = aside /\ c.query = query
  /\ c.phase = "sent" /\ c.got = << >> /\ c.figure = 0
  /\ c.alone = (calls = {}) /\ c.cancelled = FALSE

RowsAhead(c) ==
  CASE c.undo = "drop" -> Append(shown, Row(c.id, c.ver))
    [] c.undo = "restore" -> Replaced(shown, Row(c.id, c.ver))
    [] c.undo = "splice" -> Without(shown, c.id)
    [] c.undo = "snapshot" /\ c.op = "update" -> Replaced(shown, Row(c.id, c.ver))
    [] c.undo = "snapshot" /\ c.op = "all" -> AllRead(shown)
    [] OTHER -> shown

FigureAhead(c) ==
  IF c.undo # "snapshot" THEN aside ELSE IF c.op = "all" THEN 0 ELSE OneLess

(* A page that shows a figure asks for it after a write that may change it. *)
FigureMinded(op, r, v, load) ==
  CASE page = "bell" -> op = "update" => ShownRow(r).ver = 2
    [] page \in FigurePages \ {"bell"} ->
         \/ LoadsFigure({load}) \/ op = "create"
         \/ op = "update" /\ v # 2 /\ ShownRow(r).ver = 1
    [] OTHER -> TRUE

Offered(c) ==
  /\ NewCall(c) /\ WriteShape(c)
  /\ c.op = "create" => NewId(c.id)
  /\ c.op \in {"update", "delete"} => c.id \in ShownIds \/ page = "contract"
  /\ c.undo = "drop" => busy["create"] = 0
  /\ FigureMinded(c.op, c.id, c.ver, c.load)

IsFigureLoad(load) == {"figure", "aside"} \cap load # {}

Effects(loads, q) ==
  /\ loads \in SUBSET SUBSET Traits /\ q \in Queries
  /\ \A load \in loads : "held" \notin load
  /\ ListsRows(loads) \/ q = query
  /\ \A load \in loads : "figure" \notin load => ("latest" \in load <=> page \in LatestPages)
  /\ \A load \in loads : IsFigureLoad(load) /\ "latest" \in load => page = "dashboard"
  /\ page = "dashboard" => LoadsFigure(loads)
  /\ page \in {"conversation", "contract"} => loads = {Plain}
  /\ page = "approvals" => loads = {{"blank", "aside"}}
  /\ \A a, b \in loads : IsFigureLoad(a) /\ IsFigureLoad(b) => a = b
  /\ \A a, b \in loads : "url" \in a => "url" \in b

PageAct ==
  \/ \E c \in CallType : Offered(c) /\ Begin(c, RowsAhead(c), FigureAhead(c))
  \/ \E loads, q : Effects(loads, q) /\ Reload(loads, q)
  \/ StartNewConversation

PageTyped ==
  /\ page \in Pages \cup {"none"} /\ query \in Queries /\ shownFor \in Queries
  /\ shown \in Rows /\ status \in {"loading", "ready", "error"}
  /\ busy \in [Slots -> All] /\ calls \subseteq CallType /\ aside \in Nat
  /\ server \in [Ids -> Versions \cup {0}]
  /\ sent \in 0 .. MaxSent /\ disturbed \subseteq All

LEMMA LoadPut ==
  ASSUME NEW k \in CallType, NEW load \in SUBSET Traits
  PROVE  /\ [k EXCEPT !.load = load] \in CallType
         /\ [k EXCEPT !.load = load].load = load
         /\ \A f \in DOMAIN k : f # "load" => [k EXCEPT !.load = load][f] = k[f]
BY DEF CallType

LEMMA CallIs ==
  ASSUME PageTyped, NEW op \in Ops, NEW r \in All, NEW v \in Versions \cup {0},
         NEW slot \in SlotNames, NEW then \in Thens, NEW undo \in Undos,
         NEW load \in SUBSET Traits, NEW c,
         \/ c = Reloading(Call(op, r, v, slot, then, undo), load)
         \/ c = Call(op, r, v, slot, then, undo) /\ load = NoLoad
  PROVE  /\ c \in CallType /\ NewCall(c)
         /\ c.op = op /\ c.id = r /\ c.ver = v /\ c.slot = slot /\ c.then = then
         /\ c.undo = undo /\ c.load = load
<1> PICK m \in Nat : m = sent + 1
  BY RowBoundsAssumption DEF PageTyped
<1>0. << >> \in Rows /\ shown \in Rows
  BY DEF PageTyped, Rows
<1> PICK seen \in Rows : seen = IF undo = "keep" THEN << >> ELSE shown
  <2>1. CASE undo = "keep"
    BY <1>0, <2>1
  <2>2. CASE undo # "keep"
    BY <1>0, <2>2
  <2> QED BY <2>1, <2>2
<1> PICK alone \in BOOLEAN : alone = (calls = {})
  OBVIOUS
<1> PICK k : k = [n |-> m, op |-> op, id |-> r, ver |-> v, slot |-> slot, then |-> then,
                  undo |-> undo, load |-> NoLoad, seen |-> seen, side |-> aside,
                  query |-> query, phase |-> "sent", got |-> << >>, figure |-> 0,
                  alone |-> alone, cancelled |-> FALSE]
  OBVIOUS
<1>1. k = Call(op, r, v, slot, then, undo)
  BY DEF Call
<1>2. NoLoad \in SUBSET Traits /\ aside \in Nat /\ query \in Queries
  BY DEF NoLoad, Traits, PageTyped
<1>3. k \in CallType
  BY <1>0, <1>2 DEF CallType
<1>4. c = [k EXCEPT !.load = load] \/ (c = k /\ load = NoLoad)
  BY <1>1 DEF Reloading
<1>5. c \in CallType
  <2>1. [k EXCEPT !.load = load] \in CallType
    BY <1>3, LoadPut
  <2> QED BY <1>3, <1>4, <2>1
<1>6. /\ c.op = op /\ c.id = r /\ c.ver = v /\ c.slot = slot /\ c.then = then
      /\ c.undo = undo /\ c.load = load
      /\ c.seen = seen /\ c.side = aside /\ c.query = query /\ c.phase = "sent"
      /\ c.got = << >> /\ c.figure = 0 /\ c.alone = alone /\ c.cancelled = FALSE
  BY <1>4
<1> QED BY <1>5, <1>6 DEF NewCall

(* A page whose rows are neither messages, notifications nor looked at only. *)
Ordinary == page \notin {"conversation", "contract", "bell", "dashboard"}

(* What follows a write that is not shown ahead.                           *)
AfterCreate(then, load) ==
  \/ then \in {"prepend", "append"} /\ load = NoLoad
  \/ then = "keep" /\ ListAfter(load)

AfterUpdate(then, load) ==
  \/ then = "replace" /\ load \in FigureAfter
  \/ then = "keep" /\ ListAfter(load)

AfterDelete(then, load) ==
  \/ then = "drop" /\ load \in FigureAfter
  \/ then = "keep" /\ ListAfter(load)

LEMMA AfterTyped ==
  ASSUME NEW then, NEW load,
         \/ AfterCreate(then, load) \/ AfterUpdate(then, load) \/ AfterDelete(then, load)
         \/ then \in Thens /\ load \in FigureAfter
  PROVE  then \in Thens /\ load \in SUBSET Traits
BY DEF AfterCreate, AfterUpdate, AfterDelete, ListAfter, FigureAfter, Thens, Traits, NoLoad, Figure

LEMMA Begins ==
  ASSUME NEW c \in CallType, NewCall(c), WriteShape(c),
         c.op = "create" => NewId(c.id),
         c.op \in {"update", "delete"} => c.id \in ShownIds \/ page = "contract",
         c.undo = "drop" => busy["create"] = 0,
         FigureMinded(c.op, c.id, c.ver, c.load),
         NEW rows, NEW figure, rows = RowsAhead(c), figure = FigureAhead(c),
         Begin(c, rows, figure)
  PROVE  PageAct
BY DEF PageAct, Offered

LEMMA CreateActs ==
  ASSUME PageTyped, Ordinary, NEW slot \in SlotNames, NEW then, NEW load,
         AfterCreate(then, load), Create(slot, then, load)
  PROVE  PageAct
<1> PICK r \in Ids : /\ NewId(r)
                     /\ Begin(Reloading(Call("create", r, 1, slot, then, "keep"), load), shown, aside)
  BY DEF Create
<1> PICK c : c = Reloading(Call("create", r, 1, slot, then, "keep"), load)
  OBVIOUS
<1>1. /\ then \in Thens /\ load \in SUBSET Traits /\ r \in All
      /\ 1 \in Versions \cup {0} /\ "create" \in Ops /\ "keep" \in Undos
  BY AfterTyped DEF Versions, Ops, Undos, All
<1>2. /\ c \in CallType /\ NewCall(c)
      /\ c.op = "create" /\ c.id = r /\ c.ver = 1 /\ c.slot = slot /\ c.then = then
      /\ c.undo = "keep" /\ c.load = load
  BY <1>1, CallIs
<1>3. WriteShape(c)
  BY <1>2 DEF WriteShape, Ordinary, Creates, AfterCreate
<1>4. FigureMinded(c.op, c.id, c.ver, c.load)
  BY <1>2 DEF FigureMinded
<1>5. shown = RowsAhead(c) /\ aside = FigureAhead(c)
  BY <1>2 DEF RowsAhead, FigureAhead
<1> QED BY <1>2, <1>3, <1>4, <1>5, Begins

LEMMA UpdateActs ==
  ASSUME PageTyped, Ordinary, NEW slot \in SlotNames, NEW then, NEW load,
         NEW r \in Ids, NEW v \in Versions, r \in ShownIds,
         AfterUpdate(then, load), FigureMinded("update", r, v, load),
         Update(r, v, slot, then, load)
  PROVE  PageAct
<1> PICK c : c = Reloading(Call("update", r, v, slot, then, "keep"), load)
  OBVIOUS
<1>1. /\ then \in Thens /\ load \in SUBSET Traits /\ r \in All
      /\ v \in Versions \cup {0} /\ "update" \in Ops /\ "keep" \in Undos
  BY AfterTyped DEF Versions, Ops, Undos, All
<1>2. /\ c \in CallType /\ NewCall(c)
      /\ c.op = "update" /\ c.id = r /\ c.ver = v /\ c.slot = slot /\ c.then = then
      /\ c.undo = "keep" /\ c.load = load
  BY <1>1, CallIs
<1>3. WriteShape(c)
  BY <1>2 DEF WriteShape, Ordinary, Updates, AfterUpdate
<1>4. Begin(c, shown, aside)
  BY DEF Update
<1>5. shown = RowsAhead(c) /\ aside = FigureAhead(c)
  BY <1>2 DEF RowsAhead, FigureAhead
<1> QED BY <1>2, <1>3, <1>4, <1>5, Begins

LEMMA UpdateAheadActs ==
  ASSUME PageTyped, Ordinary, NEW slot \in SlotNames, NEW then, NEW load,
         NEW r \in Ids, NEW v \in Versions, r \in ShownIds,
         then \in {"keep", "replace"}, load \in FigureAfter,
         FigureMinded("update", r, v, load), UpdateAhead(r, v, slot, then, load)
  PROVE  PageAct
<1> PICK c : c = Reloading(Call("update", r, v, slot, then, "restore"), load)
  OBVIOUS
<1>1. /\ then \in Thens /\ load \in SUBSET Traits /\ r \in All
      /\ v \in Versions \cup {0} /\ "update" \in Ops /\ "restore" \in Undos
  BY AfterTyped DEF Versions, Ops, Undos, All, Thens
<1>2. /\ c \in CallType /\ NewCall(c)
      /\ c.op = "update" /\ c.id = r /\ c.ver = v /\ c.slot = slot /\ c.then = then
      /\ c.undo = "restore" /\ c.load = load
  BY <1>1, CallIs
<1>3. WriteShape(c)
  BY <1>2 DEF WriteShape, Ordinary, UpdatesAhead
<1>4. Begin(c, Replaced(shown, Row(r, v)), aside)
  BY DEF UpdateAhead
<1>5. Replaced(shown, Row(r, v)) = RowsAhead(c) /\ aside = FigureAhead(c)
  BY <1>2 DEF RowsAhead, FigureAhead
<1> QED BY <1>2, <1>3, <1>4, <1>5, Begins

LEMMA DeleteActs ==
  ASSUME PageTyped, Ordinary, NEW slot \in SlotNames, NEW then, NEW load,
         NEW r \in Ids, r \in ShownIds,
         AfterDelete(then, load), FigureMinded("delete", r, 0, load),
         Delete(r, slot, then, load)
  PROVE  PageAct
<1> PICK c : c = Reloading(Call("delete", r, 0, slot, then, "keep"), load)
  OBVIOUS
<1>1. /\ then \in Thens /\ load \in SUBSET Traits /\ r \in All
      /\ 0 \in Versions \cup {0} /\ "delete" \in Ops /\ "keep" \in Undos
  BY AfterTyped DEF Versions, Ops, Undos, All
<1>2. /\ c \in CallType /\ NewCall(c)
      /\ c.op = "delete" /\ c.id = r /\ c.ver = 0 /\ c.slot = slot /\ c.then = then
      /\ c.undo = "keep" /\ c.load = load
  BY <1>1, CallIs
<1>3. WriteShape(c)
  BY <1>2 DEF WriteShape, Ordinary, Deletes, AfterDelete
<1>4. Begin(c, shown, aside)
  BY DEF Delete
<1>5. shown = RowsAhead(c) /\ aside = FigureAhead(c)
  BY <1>2 DEF RowsAhead, FigureAhead
<1> QED BY <1>2, <1>3, <1>4, <1>5, Begins

LEMMA DeleteAheadActs ==
  ASSUME PageTyped, Ordinary, NEW slot \in SlotNames,
         NEW r \in Ids, r \in ShownIds, FigureMinded("delete", r, 0, NoLoad),
         DeleteAhead(r, slot)
  PROVE  PageAct
<1> PICK c : c = Call("delete", r, 0, slot, "keep", "splice")
  OBVIOUS
<1>1. /\ "keep" \in Thens /\ NoLoad \in SUBSET Traits /\ r \in All
      /\ 0 \in Versions \cup {0} /\ "delete" \in Ops /\ "splice" \in Undos
  BY DEF Versions, Ops, Undos, All, Thens, NoLoad, Traits
<1>2. /\ c \in CallType /\ NewCall(c)
      /\ c.op = "delete" /\ c.id = r /\ c.ver = 0 /\ c.slot = slot /\ c.then = "keep"
      /\ c.undo = "splice" /\ c.load = NoLoad
  <2> PICK op \in Ops, v \in Versions \cup {0}, then \in Thens, undo \in Undos :
        op = "delete" /\ v = 0 /\ then = "keep" /\ undo = "splice"
    BY <1>1
  <2> QED BY <1>1, CallIs
<1>3. WriteShape(c)
  BY <1>2 DEF WriteShape, Ordinary, DeletesAhead
<1>4. Begin(c, Without(shown, r), aside)
  BY DEF DeleteAhead
<1>5. Without(shown, r) = RowsAhead(c) /\ aside = FigureAhead(c)
  BY <1>2 DEF RowsAhead, FigureAhead
<1> QED BY <1>2, <1>3, <1>4, <1>5, Begins

LEMMA SaveActs ==
  ASSUME PageTyped, page = "contract", NEW slot \in SlotNames, Save(slot)
  PROVE  PageAct
<1> PICK r \in Ids : r = Record
  BY RowBoundsAssumption DEF Record, Ids
<1> PICK v \in {1, 2} : v = Flipped(shown[1].id)
  BY DEF Flipped
<1> PICK c : c = Reloading(Call("update", r, v, slot, "rows", "keep"), NoLoad)
  OBVIOUS
<1>1. /\ "rows" \in Thens /\ NoLoad \in SUBSET Traits /\ r \in All
      /\ v \in Versions \cup {0} /\ "update" \in Ops /\ "keep" \in Undos
  BY DEF Versions, Ops, Undos, All, Thens, NoLoad, Traits
<1>2. /\ c \in CallType /\ NewCall(c)
      /\ c.op = "update" /\ c.id = r /\ c.ver = v /\ c.slot = slot /\ c.then = "rows"
      /\ c.undo = "keep" /\ c.load = NoLoad
  BY <1>1, CallIs
<1>3. WriteShape(c) /\ FigureMinded(c.op, c.id, c.ver, c.load)
  BY <1>2 DEF WriteShape, Saves, FigureMinded, FigurePages, Versions
<1>4. Begin(c, shown, aside)
  BY DEF Save, Update
<1>5. shown = RowsAhead(c) /\ aside = FigureAhead(c)
  BY <1>2 DEF RowsAhead, FigureAhead
<1> QED BY <1>2, <1>3, <1>4, <1>5, Begins

LEMMA SendActs ==
  ASSUME PageTyped, page = "conversation", busy["create"] = 0,
         NEW load \in {NoLoad, {"none", "url"}}, CreateAhead("create", "rows", load)
  PROVE  PageAct
<1> PICK r \in Ids : /\ NewId(r)
                     /\ Begin(Reloading(Call("create", r, 1, "create", "rows", "drop"), load),
                              Append(shown, Row(r, 1)), aside)
  BY DEF CreateAhead
<1> PICK c : c = Reloading(Call("create", r, 1, "create", "rows", "drop"), load)
  OBVIOUS
<1>1. /\ "rows" \in Thens /\ load \in SUBSET Traits /\ r \in All /\ "create" \in SlotNames
      /\ 1 \in Versions \cup {0} /\ "create" \in Ops /\ "drop" \in Undos
  BY DEF Versions, Ops, Undos, All, Thens, NoLoad, Traits, SlotNames, Slots
<1>2. /\ c \in CallType /\ NewCall(c)
      /\ c.op = "create" /\ c.id = r /\ c.ver = 1 /\ c.slot = "create" /\ c.then = "rows"
      /\ c.undo = "drop" /\ c.load = load
  BY <1>1, CallIs
<1>3. WriteShape(c) /\ FigureMinded(c.op, c.id, c.ver, c.load)
  BY <1>2 DEF WriteShape, CreatesAhead, FigureMinded
<1>4. Append(shown, Row(r, 1)) = RowsAhead(c) /\ aside = FigureAhead(c)
  BY <1>2 DEF RowsAhead, FigureAhead
<1> QED BY <1>2, <1>3, <1>4, Begins

LEMMA MarkReadActs ==
  ASSUME PageTyped, NEW r \in Ids, BellHandleMarkRead(r)
  PROVE  PageAct
<1> PICK c : c = Call("update", r, 1, "none", "replace", "snapshot")
  OBVIOUS
<1>1. /\ "replace" \in Thens /\ NoLoad \in SUBSET Traits /\ r \in All /\ "none" \in SlotNames
      /\ 1 \in Versions \cup {0} /\ "update" \in Ops /\ "snapshot" \in Undos
  BY DEF Versions, Ops, Undos, All, Thens, NoLoad, Traits, SlotNames, Slots
<1>2. /\ c \in CallType /\ NewCall(c)
      /\ c.op = "update" /\ c.id = r /\ c.ver = 1 /\ c.slot = "none" /\ c.then = "replace"
      /\ c.undo = "snapshot" /\ c.load = NoLoad
  BY <1>1, CallIs
<1>3. /\ page = "bell" /\ r \in ShownIds /\ ShownRow(r).ver = 2
      /\ Begin(c, Replaced(shown, Row(r, 1)), OneLess)
  BY DEF BellHandleMarkRead, BellOffersRow, At
<1>4. WriteShape(c) /\ FigureMinded(c.op, c.id, c.ver, c.load)
  BY <1>2, <1>3 DEF WriteShape, Marks, FigureMinded
<1>5. Replaced(shown, Row(r, 1)) = RowsAhead(c) /\ OneLess = FigureAhead(c)
  BY <1>2 DEF RowsAhead, FigureAhead
<1> QED BY <1>2, <1>3, <1>4, <1>5, Begins

LEMMA MarkAllReadActs ==
  ASSUME PageTyped, BellHandleMarkAllRead
  PROVE  PageAct
<1> PICK c : c = Call("all", 0, 1, "none", "keep", "snapshot")
  OBVIOUS
<1>1. /\ "keep" \in Thens /\ NoLoad \in SUBSET Traits /\ 0 \in All /\ "none" \in SlotNames
      /\ 1 \in Versions \cup {0} /\ "all" \in Ops /\ "snapshot" \in Undos
  BY DEF Versions, Ops, Undos, All, Thens, NoLoad, Traits, SlotNames, Slots
<1>2. /\ c \in CallType /\ NewCall(c)
      /\ c.op = "all" /\ c.id = 0 /\ c.ver = 1 /\ c.slot = "none" /\ c.then = "keep"
      /\ c.undo = "snapshot" /\ c.load = NoLoad
  BY <1>1, CallIs
<1>3. page = "bell" /\ Begin(c, AllRead(shown), 0)
  BY DEF BellHandleMarkAllRead, At
<1>4. WriteShape(c) /\ FigureMinded(c.op, c.id, c.ver, c.load)
  BY <1>2, <1>3 DEF WriteShape, MarksAll, FigureMinded
<1>5. AllRead(shown) = RowsAhead(c) /\ 0 = FigureAhead(c)
  BY <1>2 DEF RowsAhead, FigureAhead
<1> QED BY <1>2, <1>3, <1>4, <1>5, Begins

LEMMA ReloadActs ==
  ASSUME NEW loads, NEW q, Effects(loads, q), Reload(loads, q)
  PROVE  PageAct
BY DEF PageAct

LEMMA RetryActs ==
  ASSUME NEW p, NEW loads, page = p => Effects(loads, query), Retry(p, loads)
  PROVE  PageAct
BY ReloadActs DEF Retry

(* The usual loads are effects of the pages they are loads of.             *)
LEMMA EffectsOf ==
  ASSUME NEW q \in Queries, NEW load, load \in SUBSET Traits,
         "held" \notin load, "figure" \notin load,
         "latest" \in load <=> page \in LatestPages,
         "latest" \in load => "aside" \notin load,
         page \notin {"dashboard", "conversation"}, page = "contract" => load = Plain,
         page = "approvals" => load = {"blank", "aside"}
  PROVE  Effects({load}, q)
BY DEF Effects, ListsRows, IsFigureLoad

LEMMA OtherQueryIs == OtherQuery \in Queries
BY DEF OtherQuery, Queries

LEMMA Names ==
  /\ \A s \in {"create", "save", "row", "status", "deadline", "none"} : s \in SlotNames
  /\ 1 \in Ids /\ {1, 2, 3} = Versions /\ {"q1", "q2"} \subseteq Queries
  /\ \A r : Flipped(r) \in Versions
BY RowBoundsAssumption DEF SlotNames, Slots, Ids, Versions, Flipped, Queries

LEMMA Afterwards ==
  /\ AfterCreate("prepend", NoLoad) /\ AfterCreate("append", NoLoad)
  /\ AfterUpdate("replace", NoLoad) /\ AfterUpdate("replace", Figure)
  /\ AfterUpdate("replace", {"figure", "held"})
  /\ AfterDelete("drop", NoLoad) /\ AfterDelete("drop", Figure)
  /\ NoLoad \in FigureAfter /\ Figure \in FigureAfter
  /\ LoadsFigure({Figure}) /\ LoadsFigure({{"figure", "held"}})
  /\ \A load : ListAfter(load) => /\ AfterCreate("keep", load) /\ AfterUpdate("keep", load)
                                  /\ AfterDelete("keep", load)
BY DEF AfterCreate, AfterUpdate, AfterDelete, FigureAfter, LoadsFigure, Figure

LEMMA NoFigure ==
  ASSUME page \notin FigurePages
  PROVE  \A op, r, v, load : FigureMinded(op, r, v, load)
BY DEF FigureMinded, FigurePages

(* A load that a page starts again after a write, and on "Retry".          *)
LEMMA ListLoad ==
  ASSUME PageTyped, NEW load, page \notin {"dashboard", "conversation"},
         page = "contract" => load = Plain, page = "approvals" => load = {"blank", "aside"},
         \/ load = Guarded /\ page \in LatestPages
         \/ /\ load \in {Plain, {"blank", "aside"}, {}, {"silent"}, {"kept"}}
            /\ page \notin LatestPages
  PROVE  /\ ListAfter(load)
         /\ \A q \in Queries : Effects({load}, q)
<1>1. /\ load \in SUBSET Traits /\ "none" \notin load
      /\ "figure" \notin load /\ "held" \notin load /\ "url" \notin load
      /\ "latest" \in load <=> page \in LatestPages
      /\ "latest" \in load => "aside" \notin load
  BY DEF Guarded, Plain, NoLoad, Traits
<1> QED BY <1>1, EffectsOf DEF ListAfter

LEMMA TemplatesActs == ASSUME PageTyped, Templates PROVE PageAct
<1>1. page = "templates" => /\ Ordinary /\ ListAfter(TemplatesLoad) /\ page \notin FigurePages
                                /\ \A q \in Queries : Effects({TemplatesLoad}, q)
  BY ListLoad DEF TemplatesLoad, Ordinary, LatestPages, FigurePages
<1>2. CASE Retry("templates", {TemplatesLoad})
  BY <1>1, <1>2, RetryActs DEF PageTyped
<1>3. CASE TemplatesHandleUpload
  BY <1>1, <1>3, CreateActs, Names, Afterwards DEF TemplatesHandleUpload, TemplatesOffersUpload, At, Ready
<1>4. ASSUME NEW r \in Ids, TemplatesHandleDelete(r) PROVE PageAct
  BY <1>1, <1>4, DeleteActs, Names, Afterwards, NoFigure
     DEF TemplatesHandleDelete, TemplatesOffersRow, Listed, Ready
<1>5. ASSUME NEW r \in Ids, TemplatesHandleSaveEdit(r) PROVE PageAct
  BY <1>1, <1>5, UpdateActs, Names, Afterwards, NoFigure
     DEF TemplatesHandleSaveEdit, TemplatesOffersRow, Listed, Ready
<1> QED BY <1>2, <1>3, <1>4, <1>5 DEF Templates

LEMMA KnowledgeActs == ASSUME PageTyped, Knowledge PROVE PageAct
<1>1. page = "knowledge" => /\ Ordinary /\ ListAfter(KnowledgeLoad) /\ page \notin FigurePages
                                /\ \A q \in Queries : Effects({KnowledgeLoad}, q)
  BY ListLoad DEF KnowledgeLoad, Ordinary, LatestPages, FigurePages
<1>2. CASE Retry("knowledge", {KnowledgeLoad})
  BY <1>1, <1>2, RetryActs DEF PageTyped
<1>3. CASE KnowledgeHandleCreate
  BY <1>1, <1>3, CreateActs, Names, Afterwards DEF KnowledgeHandleCreate, KnowledgeOffersForm, At, Ready
<1>4. ASSUME NEW r \in Ids, KnowledgeHandleSaveEdit(r) PROVE PageAct
  BY <1>1, <1>4, UpdateActs, Names, Afterwards, NoFigure
     DEF KnowledgeHandleSaveEdit, KnowledgeOffersRow, Listed, Ready
<1>5. ASSUME NEW r \in Ids, KnowledgeHandleTogglePublish(r) PROVE PageAct
  BY <1>1, <1>5, UpdateActs, Names, Afterwards, NoFigure
     DEF KnowledgeHandleTogglePublish, KnowledgeOffersRow, Listed, Ready
<1>6. ASSUME NEW r \in Ids, KnowledgeHandleDelete(r) PROVE PageAct
  BY <1>1, <1>6, DeleteActs, Names, Afterwards, NoFigure
     DEF KnowledgeHandleDelete, KnowledgeOffersRow, Listed, Ready
<1> QED BY <1>2, <1>3, <1>4, <1>5, <1>6 DEF Knowledge

LEMMA ClausesActs == ASSUME PageTyped, Clauses PROVE PageAct
<1>1. page = "clauses" => /\ Ordinary /\ ListAfter(ClausesLoad) /\ page \notin FigurePages
                              /\ \A q \in Queries : Effects({ClausesLoad}, q)
  BY ListLoad DEF ClausesLoad, Ordinary, LatestPages, FigurePages
<1>2. CASE Retry("clauses", {ClausesLoad})
  BY <1>1, <1>2, RetryActs DEF PageTyped
<1>3. CASE ClausesHandleCreate
  BY <1>1, <1>3, CreateActs, Names, Afterwards DEF ClausesHandleCreate, ClausesOffersForm, At, Ready
<1>4. ASSUME NEW r \in Ids, ClausesHandleDelete(r) PROVE PageAct
  BY <1>1, <1>4, DeleteActs, Names, Afterwards, NoFigure
     DEF ClausesHandleDelete, ClausesOffersRow, Listed, Ready
<1>5. ASSUME NEW r \in Ids, ClausesHandleSaveEdit(r) PROVE PageAct
  BY <1>1, <1>5, UpdateActs, Names, Afterwards, NoFigure
     DEF ClausesHandleSaveEdit, ClausesOffersRow, Listed, Ready
<1> QED BY <1>2, <1>3, <1>4, <1>5 DEF Clauses

LEMMA IntegrationsActs == ASSUME PageTyped, Integrations PROVE PageAct
<1>1. page = "integrations" => /\ Ordinary /\ ListAfter(IntegrationsLoad) /\ page \notin FigurePages
                                   /\ \A q \in Queries : Effects({IntegrationsLoad}, q)
  BY ListLoad DEF IntegrationsLoad, Ordinary, LatestPages, FigurePages
<1>2. CASE Retry("integrations", {IntegrationsLoad})
  BY <1>1, <1>2, RetryActs DEF PageTyped
<1>3. ASSUME NEW r \in Ids, IntegrationsHandleSaveCredentials(r) PROVE PageAct
  BY <1>1, <1>3, UpdateActs, Names, Afterwards, NoFigure
     DEF IntegrationsHandleSaveCredentials, IntegrationsOffersForm, Listed, Ready
<1>4. ASSUME NEW r \in Ids, IntegrationsHandleDisable(r) PROVE PageAct
  BY <1>1, <1>4, UpdateActs, Names, Afterwards, NoFigure
     DEF IntegrationsHandleDisable, IntegrationsOffersRow, Listed, Ready
<1>5. ASSUME NEW r \in Ids, IntegrationsHandleRemove(r) PROVE PageAct
  BY <1>1, <1>5, UpdateActs, Names, Afterwards, NoFigure
     DEF IntegrationsHandleRemove, IntegrationsOffersRow, Listed, Ready
<1> QED BY <1>2, <1>3, <1>4, <1>5 DEF Integrations

LEMMA StaffActs == ASSUME PageTyped, Staff PROVE PageAct
<1>1. page = "staff" => /\ Ordinary /\ ListAfter(StaffLoad) /\ page \notin FigurePages
                            /\ \A q \in Queries : Effects({StaffLoad}, q)
  BY ListLoad DEF StaffLoad, Ordinary, LatestPages, FigurePages
<1>2. CASE Retry("staff", {StaffLoad})
  BY <1>1, <1>2, RetryActs DEF PageTyped
<1>3. CASE StaffHandleInvite
  BY <1>1, <1>3, CreateActs, Names, Afterwards DEF StaffHandleInvite, StaffOffersInvite, At, Ready
<1>4. ASSUME NEW r \in Ids, StaffHandleToggleStatus(r) PROVE PageAct
  BY <1>1, <1>4, UpdateActs, Names, Afterwards, NoFigure
     DEF StaffHandleToggleStatus, StaffOffersRow, Listed, Ready
<1> QED BY <1>2, <1>3, <1>4 DEF Staff

LEMMA SubmissionsActs == ASSUME PageTyped, Submissions PROVE PageAct
<1>1. page = "submissions" => /\ Ordinary /\ ListAfter(SubmissionsLoad) /\ page \notin FigurePages
                                  /\ \A q \in Queries : Effects({SubmissionsLoad}, q)
  BY ListLoad DEF SubmissionsLoad, Ordinary, LatestPages, FigurePages
<1>2. CASE Retry("submissions", {SubmissionsLoad})
  BY <1>1, <1>2, RetryActs DEF PageTyped
<1>3. CASE SubmissionsHandleSubmitNewRequest
  BY <1>1, <1>3, CreateActs, Names, Afterwards DEF SubmissionsHandleSubmitNewRequest, SubmissionsOffersForm, At, Ready
<1>4. ASSUME NEW r \in Ids, SubmissionsHandleStatusChange(r) PROVE PageAct
  BY <1>1, <1>4, UpdateActs, Names, Afterwards, NoFigure
     DEF SubmissionsHandleStatusChange, SubmissionsOffersRow, Listed, Ready
<1>5. ASSUME NEW r \in Ids, SubmissionsHandleConvert(r) PROVE PageAct
  BY <1>1, <1>5, UpdateActs, Names, Afterwards, NoFigure
     DEF SubmissionsHandleConvert, SubmissionsOffersRow, Listed, Ready
<1> QED BY <1>2, <1>3, <1>4, <1>5 DEF Submissions

LEMMA FormsActs == ASSUME PageTyped, Forms PROVE PageAct
<1>1. page = "forms" => /\ Ordinary /\ ListAfter(FormsLoad) /\ page \notin FigurePages
                            /\ \A q \in Queries : Effects({FormsLoad}, q)
  BY ListLoad DEF FormsLoad, Ordinary, LatestPages, FigurePages
<1>2. CASE Retry("forms", {FormsLoad})
  BY <1>1, <1>2, RetryActs DEF PageTyped
<1>3. CASE FormsHandleCreateForm
  BY <1>1, <1>3, CreateActs, Names, Afterwards DEF FormsHandleCreateForm, FormsOffersNew, At, Ready
<1>4. ASSUME NEW r \in Ids, FormsHandleSaveFormEdit(r) PROVE PageAct
  BY <1>1, <1>4, UpdateActs, Names, Afterwards, NoFigure
     DEF FormsHandleSaveFormEdit, FormsOffersRow, Listed, Ready
<1>5. ASSUME NEW r \in Ids, FormsHandleDeleteForm(r) PROVE PageAct
  BY <1>1, <1>5, DeleteActs, Names, Afterwards, NoFigure
     DEF FormsHandleDeleteForm, FormsOffersRow, Listed, Ready
<1>6. ASSUME NEW r \in Ids, FormsHandleTogglePublish(r) PROVE PageAct
  BY <1>1, <1>6, UpdateActs, Names, Afterwards, NoFigure
     DEF FormsHandleTogglePublish, FormsOffersRow, Listed, Ready
<1> QED BY <1>2, <1>3, <1>4, <1>5, <1>6 DEF Forms

LEMMA FieldsActs == ASSUME PageTyped, Fields PROVE PageAct
<1>1. page = "fields" => /\ Ordinary /\ ListAfter(FormsLoad) /\ page \notin FigurePages
                         /\ \A q \in Queries : Effects({FormsLoad}, q)
  BY ListLoad DEF FormsLoad, Ordinary, LatestPages, FigurePages
<1>2. CASE Retry("fields", {FormsLoad})
  BY <1>1, <1>2, RetryActs DEF PageTyped
<1>3. CASE FieldsHandleAddField
  BY <1>1, <1>3, CreateActs, Names, Afterwards DEF FieldsHandleAddField, FieldsOffersNew, Ready
<1>4. ASSUME NEW r \in Ids, FieldsHandleSaveFieldEdit(r) PROVE PageAct
  BY <1>1, <1>4, UpdateActs, Names, Afterwards, NoFigure
     DEF FieldsHandleSaveFieldEdit, FieldsOffersRow, Listed, Ready
<1>5. ASSUME NEW r \in Ids, FieldsHandleDeleteField(r) PROVE PageAct
  BY <1>1, <1>5, DeleteActs, Names, Afterwards, NoFigure
     DEF FieldsHandleDeleteField, FieldsOffersRow, Listed, Ready
<1> QED BY <1>2, <1>3, <1>4, <1>5 DEF Fields

LEMMA SignedActs == ASSUME PageTyped, Signed PROVE PageAct
<1>1. page = "signed" => /\ Ordinary /\ ListAfter(SignedLoad) /\ page \in FigurePages
                         /\ \A q \in Queries : Effects({SignedLoad}, q)
  BY ListLoad DEF SignedLoad, Ordinary, LatestPages, FigurePages
<1>2. CASE Retry("signed", {SignedLoad})
  BY <1>1, <1>2, RetryActs DEF PageTyped
<1>3. CASE SignedHandleUpload
  BY <1>1, <1>3, CreateActs, Names, Afterwards DEF SignedHandleUpload, SignedOffersUpload, At
<1>4. ASSUME NEW r \in Ids, SignedHandleToggleArchive(r) PROVE PageAct
  <2>1. page = "signed" => FigureMinded("update", r, Flipped(r), Figure)
    BY Afterwards DEF FigureMinded, FigurePages
  <2> QED BY <1>1, <1>4, <2>1, UpdateActs, Names, Afterwards
          DEF SignedHandleToggleArchive, SignedOffersRow, Listed, Ready
<1> QED BY <1>2, <1>3, <1>4 DEF Signed

LEMMA ConversationEffects ==
  ASSUME page = "conversation", NEW q \in Queries
  PROVE  Effects({Plain}, q) /\ ListsRows({Plain})
<1>1. {Plain} \in SUBSET SUBSET Traits /\ "held" \notin Plain /\ "figure" \notin Plain
  BY DEF Plain, Traits
<1>2. page \notin LatestPages /\ "latest" \notin Plain
  BY DEF LatestPages, Plain
<1> QED BY <1>1, <1>2 DEF Effects, ListsRows, IsFigureLoad

LEMMA ConversationActs == ASSUME PageTyped, Conversation PROVE PageAct
<1>1. CASE ConversationHandleSubmit
  <2> PICK load \in {NoLoad, {"none", "url"}} : CreateAhead("create", "rows", load)
    BY <1>1 DEF ConversationHandleSubmit
  <2> QED BY <1>1, SendActs DEF ConversationHandleSubmit, ConversationOffersSend, At, Idle
<1>2. OpenConversation => PageAct
  BY ConversationEffects, ReloadActs DEF OpenConversation, ConversationLoad, At
<1>3. StartNewConversation => PageAct
  BY DEF PageAct
<1> QED BY <1>1, <1>2, <1>3 DEF Conversation

LEMMA WorkflowActs == ASSUME PageTyped, Workflow PROVE PageAct
<1>1. page \in {"workflow", "pending"} =>
        /\ Ordinary /\ ListAfter(WorkflowLoad) /\ page \notin FigurePages
        /\ \A q \in Queries : Effects({WorkflowLoad}, q)
  BY ListLoad DEF WorkflowLoad, Ordinary, LatestPages, FigurePages
<1>2. CASE Retry("workflow", {WorkflowLoad}) \/ Retry("pending", {WorkflowLoad})
  BY <1>1, <1>2, RetryActs DEF PageTyped
<1>3. CASE MoveGatedContract
  BY <1>1, <1>3, CreateActs, Names, Afterwards DEF MoveGatedContract, Ready
<1>4. ASSUME NEW r \in Ids, MoveContract(r) PROVE PageAct
  BY <1>1, <1>4, UpdateAheadActs, Names, Afterwards, NoFigure
     DEF MoveContract, WorkflowOffersMove, Listed, Ready
<1> QED BY <1>2, <1>3, <1>4 DEF Workflow

LEMMA SettingsActs == ASSUME PageTyped, Settings PROVE PageAct
<1>1. page = "settings" => /\ Ordinary /\ ListAfter(SettingsLoad) /\ page \notin FigurePages
                           /\ \A q \in Queries : Effects({SettingsLoad}, q)
  BY ListLoad DEF SettingsLoad, Ordinary, LatestPages, FigurePages
<1>2. CASE Retry("settings", {SettingsLoad})
  BY <1>1, <1>2, RetryActs DEF PageTyped
<1>3. CASE SettingsHandleSave
  BY <1>1, <1>3, UpdateActs, Names, Afterwards, NoFigure
     DEF SettingsHandleSave, SettingsOffersSave, Listed, Ready
<1> QED BY <1>2, <1>3 DEF Settings

LEMMA ReportingActs == ASSUME PageTyped, Reporting PROVE PageAct
<1>1. page = "reporting" =>
        /\ Ordinary /\ ListAfter({"silent"}) /\ page \notin FigurePages
  BY ListLoad DEF Ordinary, LatestPages, FigurePages
<1>2. ASSUME NEW r \in Ids, HandleUpdateCapacity(r) PROVE PageAct
  BY <1>1, <1>2, UpdateActs, Names, Afterwards, NoFigure
     DEF HandleUpdateCapacity, ReportingOffersRow, Listed, Ready
<1> QED BY <1>2 DEF Reporting

LEMMA DashboardEffects ==
  ASSUME page = "dashboard", NEW q \in Queries
  PROVE  /\ Effects(DashboardLoads, q) /\ ListsRows(DashboardLoads)
         /\ LoadsFigure(DashboardLoads)
<1>1. /\ DashboardLoads \in SUBSET SUBSET Traits
      /\ \A load \in DashboardLoads : /\ "held" \notin load /\ "url" \notin load
                                      /\ "latest" \in load /\ "aside" \notin load
      /\ \A load \in DashboardLoads : "figure" \in load <=> load = {"figure", "latest"}
      /\ {"figure", "latest"} \in DashboardLoads /\ Guarded \in DashboardLoads
      /\ "figure" \notin Guarded
  BY DEF DashboardLoads, Guarded, Traits
<1>2. page \in LatestPages /\ page \notin {"conversation", "contract"}
  BY DEF LatestPages
<1>3. \A a, b \in DashboardLoads : IsFigureLoad(a) /\ IsFigureLoad(b) => a = b
  <2>1. \A a \in DashboardLoads : IsFigureLoad(a) => "figure" \in a
    BY <1>1 DEF IsFigureLoad
  <2> QED BY <1>1, <2>1
<1>4. LoadsFigure(DashboardLoads) /\ ListsRows(DashboardLoads)
  BY <1>1 DEF LoadsFigure, ListsRows
<1> QED BY <1>1, <1>2, <1>3, <1>4 DEF Effects

LEMMA DashboardActs == ASSUME PageTyped, Dashboard PROVE PageAct
BY DashboardEffects, RetryActs DEF Dashboard, PageTyped

LEMMA ContractsActs == ASSUME PageTyped, Contracts PROVE PageAct
<1>1. page = "contracts" => \A q \in Queries : Effects({ContractsLoad}, q)
  BY ListLoad DEF ContractsLoad, LatestPages
<1> QED BY <1>1, RetryActs DEF Contracts, PageTyped

LEMMA CalendarActs == ASSUME PageTyped, Calendar PROVE PageAct
<1>1. page = "calendar" => \A q \in Queries : Effects({CalendarLoad}, q)
  BY ListLoad DEF CalendarLoad, LatestPages
<1> QED BY <1>1, RetryActs, ReloadActs, OtherQueryIs DEF Calendar, SetRangeDays, At, PageTyped

LEMMA SearchActs == ASSUME PageTyped, SearchHandleSubmit PROVE PageAct
<1>1. page = "search" => \A q \in Queries : Effects({SearchLoad}, q)
  BY ListLoad DEF SearchLoad, LatestPages
<1> QED BY <1>1, ReloadActs, Names DEF SearchHandleSubmit, At

(* The loads of the pages that keep a page number in the URL.              *)
LEMMA UrlEffects ==
  ASSUME PageTyped, NEW q \in Queries, page \in {"auditlog", "owneraudit", "errors"}
  PROVE  Effects({{"blank", "url"}}, q) /\ Effects({Plain}, q)
<1>1. page \notin {"dashboard", "conversation", "contract"} /\ page \notin LatestPages
  BY DEF LatestPages
<1>2. /\ {"blank", "url"} \in SUBSET Traits /\ Plain \in SUBSET Traits
      /\ \A load \in {{"blank", "url"}, Plain} :
           "held" \notin load /\ "figure" \notin load /\ "latest" \notin load
  BY DEF Traits, Plain
<1> QED BY <1>1, <1>2, EffectsOf

LEMMA AuditLogActs == ASSUME PageTyped, AuditLog PROVE PageAct
BY UrlEffects, RetryActs, ReloadActs, OtherQueryIs
   DEF AuditLog, LoadPage, Ready, AuditLogLoad, PageTyped

LEMMA FigureEffects ==
  ASSUME PageTyped, page \in {"bell", "inquiries"}
  PROVE  Effects({Figure}, query)
<1>1. /\ {Figure} \in SUBSET SUBSET Traits /\ "held" \notin Figure /\ "figure" \in Figure
      /\ "latest" \notin Figure
  BY DEF Figure, Traits
<1> QED BY <1>1 DEF Effects, PageTyped

LEMMA BellActs == ASSUME PageTyped, Bell PROVE PageAct
<1>1. CASE BellPoll
  BY <1>1, FigureEffects, ReloadActs DEF BellPoll, At
<1>2. CASE BellHandleToggle
  <2>1. page = "bell" => page \notin {"dashboard", "conversation", "contract"} /\ page \notin LatestPages
    BY DEF LatestPages
  <2>2. page = "bell" => Effects({BellList}, query)
    BY <2>1, ListLoad DEF PageTyped, BellList
  <2> QED BY <1>2, <2>2, ReloadActs DEF BellHandleToggle, At
<1> QED BY <1>1, <1>2, MarkReadActs, MarkAllReadActs DEF Bell

LEMMA StaffStepActs == ASSUME PageTyped, StaffStep PROVE PageAct
BY TemplatesActs, KnowledgeActs, ClausesActs, IntegrationsActs, StaffActs, SignedActs,
   SubmissionsActs, FormsActs, FieldsActs, ConversationActs, WorkflowActs, SettingsActs,
   ReportingActs, DashboardActs, ContractsActs, CalendarActs, SearchActs, AuditLogActs, BellActs
   DEF StaffStep

(* The contract's page.                                                    *)
LEMMA ContractLoad ==
  ASSUME PageTyped, page \in ContractLists
  PROVE  /\ page # "contract" => Ordinary
         /\ page \notin LatestPages
         /\ page \in FigurePages => page = "approvals"
         /\ \A q \in Queries : Effects({LoadAll}, q)
<1>1. /\ page \notin LatestPages /\ (page # "contract" => Ordinary) /\ page \notin {"dashboard", "conversation"}
      /\ page \in FigurePages => page = "approvals"
  BY DEF ContractLists, LatestPages, FigurePages, Ordinary
<1>2. /\ LoadAll \in {Plain, {"blank", "aside"}} /\ (page = "contract" => LoadAll = Plain)
      /\ page = "approvals" => LoadAll = {"blank", "aside"}
  BY DEF LoadAll
<1> QED BY <1>1, <1>2, ListLoad

LEMMA ContractPages ==
  \A p \in {"contract", "documents", "tasks", "messages", "signatures", "assignments", "approvals"} :
    p \in ContractLists
BY DEF ContractLists

LEMMA ContractRows ==
  ASSUME PageTyped, page \in ContractLists \ {"approvals", "contract"}
  PROVE  Ordinary /\ page \notin FigurePages
BY ContractLoad

LEMMA ContractCreates ==
  ASSUME PageTyped,
         \/ HandleRequestApproval \/ HandleAssign \/ HandleUpload \/ HandleCreateTask
         \/ HandleSendMessage \/ HandleSendForSignature
  PROVE  PageAct
<1>1. page \in ContractLists \ {"contract"} /\ \E slot \in {"status", "create"} : \E then \in {"prepend", "append"} :
        Create(slot, then, NoLoad)
  BY ContractPages
     DEF HandleRequestApproval, OffersRequest, HandleAssign, OffersAssign, HandleUpload, OffersUpload,
         HandleCreateTask, OffersNewTask, HandleSendMessage, OffersCompose, HandleSendForSignature,
         OffersSignature, Ready
<1> QED BY <1>1, ContractLoad, CreateActs, Names, Afterwards

LEMMA ContractSaves ==
  ASSUME PageTyped, HandleSaveDetails \/ HandleStatusSave \/ HandleDeadlineSave
  PROVE  PageAct
<1> PICK slot \in {"save", "status", "deadline"} : Save(slot)
  BY DEF HandleSaveDetails, HandleStatusSave, HandleDeadlineSave
<1> QED BY SaveActs, Names DEF Save, OffersSave, Ready

LEMMA ContractVoids ==
  ASSUME PageTyped, NEW r \in Ids, HandleVoidSignature(r)
  PROVE  PageAct
<1>1. /\ page \in ContractLists \ {"approvals", "contract"}
      /\ r \in ShownIds /\ Update(r, 3, "row", "replace", NoLoad)
  BY ContractPages DEF HandleVoidSignature, OffersVoid, Listed, Ready
<1> QED BY <1>1, ContractRows, NoFigure, UpdateActs, Names, Afterwards

LEMMA ContractAhead ==
  ASSUME PageTyped, NEW r \in Ids,
         \/ HandleDeleteDocument(r) \/ HandleTaskStatusChange(r) \/ HandleDeleteTask(r)
         \/ HandleDeleteMessage(r)
  PROVE  PageAct
<1>1. page \in ContractLists \ {"approvals", "contract"} /\ r \in ShownIds
  BY ContractPages
     DEF HandleDeleteDocument, OffersDocument, HandleTaskStatusChange, OffersTask,
         HandleDeleteTask, HandleDeleteMessage, OffersMessage, Listed, Ready
<1>2. \/ DeleteAhead(r, "row")
      \/ UpdateAhead(r, Flipped(r), "row", "replace", NoLoad)
  BY DEF HandleDeleteDocument, HandleTaskStatusChange, HandleDeleteTask, HandleDeleteMessage
<1> QED BY <1>1, <1>2, ContractRows, NoFigure, UpdateAheadActs, DeleteAheadActs, Names, Afterwards

LEMMA ContractDecides ==
  ASSUME PageTyped, NEW r \in Ids, HandleDecideApproval(r)
  PROVE  PageAct
<1>1. page = "approvals" /\ r \in ShownIds /\ ShownRow(r).ver = 1
  BY DEF HandleDecideApproval, OffersDecision, Ready, Pending
<1>2. Ordinary /\ page \in ContractLists
  BY <1>1, ContractPages DEF Ordinary
<1>3. /\ FigureMinded("update", r, 2, {"figure", "held"}) /\ FigureMinded("update", r, 3, NoLoad)
  BY <1>1, Afterwards DEF FigureMinded, FigurePages
<1> QED BY <1>1, <1>2, <1>3, UpdateActs, Names, Afterwards DEF HandleDecideApproval

LEMMA ContractStepActs == ASSUME PageTyped, ContractStep PROVE PageAct
<1>1. CASE OtherContract
  BY <1>1, ContractLoad, OtherQueryIs, ReloadActs DEF OtherContract
<1>2. CASE RetryAll
  BY <1>2, ContractLoad, RetryActs DEF RetryAll, PageTyped
<1> QED BY <1>1, <1>2, ContractCreates, ContractSaves, ContractVoids, ContractAhead, ContractDecides
        DEF ContractStep

-----------------------------------------------------------------------------
(* The owner's console.                                                    *)
LEMMA InquiriesActs == ASSUME PageTyped, Inquiries PROVE PageAct
<1>1. page = "inquiries" => /\ Ordinary /\ page \in FigurePages /\ page \in LatestPages
                            /\ \A q \in Queries : Effects({InquiriesLoad}, q)
  BY ListLoad DEF InquiriesLoad, Ordinary, LatestPages, FigurePages
<1>2. CASE Retry("inquiries", {InquiriesLoad}) \/ SetFilter
  BY <1>1, <1>2, RetryActs, ReloadActs, OtherQueryIs DEF SetFilter, At, PageTyped
<1>3. CASE RefreshSummary
  BY <1>3, FigureEffects, ReloadActs DEF RefreshSummary, At
<1>4. CASE SilentRefresh
  <2>1. /\ SilentLoads \in SUBSET SUBSET Traits
        /\ \A load \in SilentLoads : /\ "held" \notin load /\ "url" \notin load
                                     /\ "aside" \notin load
                                     /\ "figure" \in load <=> load = Figure
                                     /\ "figure" \notin load <=> "latest" \in load
    BY DEF SilentLoads, Figure, Traits
  <2>2. \A load \in SilentLoads : IsFigureLoad(load) => load = Figure
    BY <2>1 DEF IsFigureLoad
  <2>3. page = "inquiries" => Effects(SilentLoads, query)
    BY <1>1, <2>1, <2>2 DEF Effects, PageTyped, ListsRows
  <2> QED BY <1>4, <2>3, ReloadActs DEF SilentRefresh, At
<1>5. ASSUME NEW r \in Ids, PatchInquiry(r) \/ InquiryHandleDelete(r) PROVE PageAct
  <2>1. page = "inquiries" /\ r \in ShownIds
    BY <1>5 DEF PatchInquiry, InquiryHandleDelete, OffersInquiry, At
  <2>2. /\ FigureMinded("update", r, Flipped(r), Figure)
        /\ FigureMinded("delete", r, 0, Figure)
    BY <2>1, Afterwards DEF FigureMinded, FigurePages
  <2> QED BY <1>1, <1>5, <2>1, <2>2, UpdateAheadActs, DeleteActs, Names, Afterwards
          DEF PatchInquiry, InquiryHandleDelete
<1> QED BY <1>2, <1>3, <1>4, <1>5 DEF Inquiries

LEMMA OrganizationsActs == ASSUME PageTyped, Organizations PROVE PageAct
<1>1. page = "organizations" =>
        /\ Ordinary /\ ListAfter(OrganizationsLoad) /\ page \notin FigurePages
        /\ \A q \in Queries : Effects({OrganizationsLoad}, q)
  BY ListLoad DEF OrganizationsLoad, Ordinary, LatestPages, FigurePages
<1>2. CASE Retry("organizations", {OrganizationsLoad})
  BY <1>1, <1>2, RetryActs DEF PageTyped
<1>3. CASE OnboardOrganization
  BY <1>1, <1>3, CreateActs, Names, Afterwards DEF OnboardOrganization, At
<1>4. ASSUME NEW r \in Ids, OrganizationToggleStatus(r) PROVE PageAct
  BY <1>1, <1>4, UpdateActs, Names, Afterwards, NoFigure
     DEF OrganizationToggleStatus, OffersOrganization, Listed, Ready
<1>5. ASSUME NEW r \in Ids, HandleDeleteOrganization(r) PROVE PageAct
  BY <1>1, <1>5, DeleteActs, Names, Afterwards, NoFigure
     DEF HandleDeleteOrganization, OffersOrganization, Listed, Ready
<1> QED BY <1>2, <1>3, <1>4, <1>5 DEF Organizations

LEMMA AnnouncementsActs == ASSUME PageTyped, Announcements PROVE PageAct
<1>1. page = "announcements" =>
        /\ Ordinary /\ ListAfter(AnnouncementsLoad) /\ page \notin FigurePages
        /\ \A q \in Queries : Effects({AnnouncementsLoad}, q)
  BY ListLoad DEF AnnouncementsLoad, Ordinary, LatestPages, FigurePages
<1>2. CASE Retry("announcements", {AnnouncementsLoad})
  BY <1>1, <1>2, RetryActs DEF PageTyped
<1>3. CASE HandleCreateAnnouncement
  BY <1>1, <1>3, CreateActs, Names, Afterwards
     DEF HandleCreateAnnouncement, OffersAnnouncementForm, At
<1>4. ASSUME NEW r \in Ids, HandleToggleAnnouncementActive(r) PROVE PageAct
  BY <1>1, <1>4, UpdateAheadActs, Names, Afterwards, NoFigure
     DEF HandleToggleAnnouncementActive, OffersAnnouncement, Listed, Ready
<1>5. ASSUME NEW r \in Ids, HandleDeleteAnnouncement(r) PROVE PageAct
  BY <1>1, <1>5, DeleteActs, Names, Afterwards, NoFigure
     DEF HandleDeleteAnnouncement, OffersAnnouncement, Listed, Ready
<1> QED BY <1>2, <1>3, <1>4, <1>5 DEF Announcements

LEMMA OwnerAuditActs == ASSUME PageTyped, OwnerAudit PROVE PageAct
<1>1. OwnerAuditLoad = Plain /\ OwnerAuditLoad \cup {"url"} = {"blank", "url"}
  BY DEF OwnerAuditLoad, Plain
<1> QED BY <1>1, UrlEffects, RetryActs, ReloadActs, OtherQueryIs
        DEF OwnerAudit, OwnerAuditFilter, LoadAudit, Ready, At, PageTyped

LEMMA HealthActs == ASSUME PageTyped, Health PROVE PageAct
<1>1. page = "health" => Effects({Plain}, query) /\ Effects({{"blank", "url"}}, query)
  <2>1. page = "health" => page \notin {"dashboard", "conversation", "contract"} /\ page \notin LatestPages
    BY DEF LatestPages
  <2>2. /\ {"blank", "url"} \in SUBSET Traits /\ Plain \in SUBSET Traits
        /\ \A load \in {{"blank", "url"}, Plain} :
             "held" \notin load /\ "figure" \notin load /\ "latest" \notin load
    BY DEF Traits, Plain
  <2> QED BY <2>1, <2>2, EffectsOf DEF PageTyped
<1>2. page = "errors" => \A q \in Queries : Effects({Plain}, q) /\ Effects({ErrorsLoad}, q)
  BY UrlEffects DEF ErrorsLoad
<1>3. CASE Retry("errors", {ErrorsLoad}) \/ Retry("health", {Plain})
  BY <1>1, <1>2, <1>3, RetryActs DEF PageTyped
<1>4. CASE LoadErrors
  BY <1>2, <1>4, ReloadActs, OtherQueryIs DEF LoadErrors, Ready
<1>5. CASE HealthRefresh
  BY <1>1, <1>2, <1>5, ReloadActs DEF HealthRefresh, ErrorsLoad, PageTyped
<1> QED BY <1>3, <1>4, <1>5 DEF Health

LEMMA OverviewActs == ASSUME PageTyped, Overview PROVE PageAct
<1>1. page = "overview" => \A q \in Queries : Effects({Plain}, q)
  BY ListLoad DEF LatestPages
<1> QED BY <1>1, RetryActs DEF Overview, PageTyped

LEMMA OwnerStepActs == ASSUME PageTyped, OwnerStep PROVE PageAct
BY InquiriesActs, OrganizationsActs, AnnouncementsActs, OwnerAuditActs, HealthActs, OverviewActs
   DEF OwnerStep

(* Whichever page it is, a step of it is one of these.                     *)
LEMMA PageStepIs ==
  ASSUME PageTyped, PageStep
  PROVE  PageAct \/ CallStep \/ \E r \in Ids : Elsewhere(r)
BY StaffStepActs, ContractStepActs, OwnerStepActs DEF PageStep

(* A call after a step that only accompanies it, or cuts it off.           *)
Lasting == {"n", "op", "id", "ver", "slot", "then", "undo", "load", "seen", "side", "query",
            "phase", "got", "figure"}

Heir(d, c) ==
  /\ d \in CallType
  /\ d.op = c.op /\ d.id = c.id /\ d.ver = c.ver /\ d.slot = c.slot /\ d.then = c.then
  /\ d.undo = c.undo /\ d.load = c.load /\ d.seen = c.seen /\ d.side = c.side
  /\ d.query = c.query /\ d.phase = c.phase /\ d.got = c.got /\ d.figure = c.figure
  /\ d.alone = FALSE

Cut(c, loads) == ~IsWrite(c) /\ "latest" \in c.load /\ ListsRows(loads)

From(d, c, loads) == Heir(d, c) /\ (d.cancelled <=> c.cancelled \/ Cut(c, loads))

Inherits(C, D, loads) ==
  /\ \A d \in D : \E c \in C : From(d, c, loads)
  /\ \A c \in C : \E d \in D : From(d, c, loads)
  /\ \A d, e \in D : d # e => \E b, c \in C : b # c /\ From(d, b, loads) /\ From(e, c, loads)

LEMMA AgedIs ==
  ASSUME NEW c \in CallType, NEW e \in BOOLEAN, NEW d,
         d = [[c EXCEPT !.alone = FALSE] EXCEPT !.cancelled = e]
  PROVE  Heir(d, c) /\ d.cancelled = e
BY DEF CallType, Heir

LEMMA AgedOnce ==
  ASSUME NEW c \in CallType, NEW d, d = [c EXCEPT !.alone = FALSE]
  PROVE  Heir(d, c) /\ d.cancelled = c.cancelled
BY DEF CallType, Heir

LEMMA AccompaniedInherits ==
  ASSUME NEW C, \A c \in C : c \in CallType
  PROVE  Inherits(C, Accompanied(C), {})
<1> DEFINE aged(c) == [c EXCEPT !.alone = FALSE]
<1>1. Accompanied(C) = {aged(c) : c \in C}
  BY DEF Accompanied
<1>2. \A c : ~Cut(c, {})
  BY DEF Cut, ListsRows
<1>3. \A c \in C : From(aged(c), c, {})
  BY <1>2, AgedOnce DEF From, CallType
<1> HIDE DEF aged
<1> QED BY <1>1, <1>3 DEF Inherits

LEMMA SupersededInherits ==
  ASSUME NEW C, \A c \in C : c \in CallType, NEW loads
  PROVE  Inherits(C, Superseded(Accompanied(C), loads), loads)
<1> DEFINE once(c) == [c EXCEPT !.alone = FALSE]
<1> DEFINE cut(b) == b.cancelled \/ (~IsWrite(b) /\ "latest" \in b.load /\ ListsRows(loads))
<1> DEFINE aged(c) == [once(c) EXCEPT !.cancelled = cut(once(c))]
<1>1. Superseded(Accompanied(C), loads) = {aged(c) : c \in C}
  BY DEF Accompanied, Superseded
<1>2. ASSUME NEW c \in C PROVE From(aged(c), c, loads)
  <2> PICK b : b = once(c)
    OBVIOUS
  <2>1. Heir(b, c) /\ b.cancelled = c.cancelled
    BY AgedOnce
  <2>2. IsWrite(b) = IsWrite(c)
    BY <2>1 DEF Heir, IsWrite
  <2> PICK e \in BOOLEAN : e = cut(b)
    BY <2>1 DEF Heir, CallType
  <2>3. e <=> c.cancelled \/ Cut(c, loads)
    BY <2>1, <2>2 DEF Cut, Heir
  <2>4. Heir([once(c) EXCEPT !.cancelled = e], c) /\ [once(c) EXCEPT !.cancelled = e].cancelled = e
    BY AgedIs
  <2> QED BY <2>3, <2>4 DEF From
<1> HIDE DEF aged
<1> QED BY <1>1, <1>2 DEF Inherits

(* A load that starts.                                                     *)
NewLoad(k, load, q) ==
  /\ k \in CallType
  /\ k.op = IF "figure" \in load THEN "figure" ELSE "load"
  /\ k.then = "keep" /\ k.undo = "keep" /\ k.load = load /\ k.query = q
  /\ k.phase = "sent" /\ k.alone = FALSE /\ k.cancelled = FALSE

LEMMA LoadingIs ==
  ASSUME NEW load \in SUBSET Traits, NEW q \in Queries, NEW n \in Nat
  PROVE  NewLoad(Loading(load, q, n), load, q)
<1>1. << >> \in Rows /\ 0 \in All /\ 0 \in Versions \cup {0} /\ "none" \in SlotNames
  BY DEF Rows, All, SlotNames
<1> PICK op \in Ops : op = IF "figure" \in load THEN "figure" ELSE "load"
  BY DEF Ops
<1>2. Loading(load, q, n) =
        [n |-> n, op |-> op, id |-> 0, ver |-> 0, slot |-> "none", then |-> "keep",
         undo |-> "keep", load |-> load, seen |-> << >>, side |-> 0, query |-> q,
         phase |-> "sent", got |-> << >>, figure |-> 0, alone |-> FALSE, cancelled |-> FALSE]
  BY DEF Loading
<1>3. "keep" \in Thens /\ "keep" \in Undos
  BY DEF Thens, Undos
<1> QED BY <1>1, <1>2, <1>3 DEF NewLoad, CallType

(* One whose handler's control stays disabled until it has come in.        *)
HeldAs(d, k) ==
  /\ d.op = k.op /\ d.then = k.then /\ d.undo = k.undo /\ d.load = k.load /\ d.query = k.query
  /\ d.phase = k.phase /\ d.alone = k.alone /\ d.cancelled = k.cancelled

LEMMA HoldsControl ==
  ASSUME NEW k \in CallType, NEW slot \in SlotNames, NEW r \in All
  PROVE  /\ [k EXCEPT !.slot = slot, !.id = r] \in CallType
         /\ HeldAs([k EXCEPT !.slot = slot, !.id = r], k)
BY DEF CallType, HeldAs

LEMMA FollowingIs ==
  ASSUME NEW c \in CallType, query \in Queries
  PROVE  \E k : /\ Following(c) = {k}
                /\ NewLoad(k, c.load, IF "held" \in c.load THEN c.query ELSE query)
<1> PICK load \in SUBSET Traits : load = c.load
  BY DEF CallType
<1> PICK n \in Nat : n = c.n
  BY DEF CallType
<1> PICK q \in Queries : q = IF "held" \in load THEN c.query ELSE query
  BY DEF CallType
<1> PICK k : k = Loading(load, q, n)
  OBVIOUS
<1>1. NewLoad(k, load, q)
  BY LoadingIs
<1>2. CASE "held" \notin load
  BY <1>1, <1>2 DEF Following
<1>3. CASE "held" \in load
  <2> PICK slot \in SlotNames, r \in All : slot = c.slot /\ r = c.id
    BY DEF CallType
  <2> PICK d : d = [k EXCEPT !.slot = slot, !.id = r]
    OBVIOUS
  <2>3. NewLoad(d, load, q)
    <3>1. d \in CallType /\ HeldAs(d, k)
      BY <1>1, HoldsControl DEF NewLoad
    <3> QED BY <1>1, <3>1 DEF NewLoad, HeldAs
  <2>2. Following(c) = {d}
    BY <1>3 DEF Following
  <2> QED BY <2>2, <2>3
<1> QED BY <1>2, <1>3

(* A call that is served.                                                  *)
Served(d, c, got, figure) ==
  /\ d \in CallType
  /\ d.op = c.op /\ d.id = c.id /\ d.ver = c.ver /\ d.slot = c.slot /\ d.then = c.then
  /\ d.undo = c.undo /\ d.load = c.load /\ d.seen = c.seen /\ d.side = c.side
  /\ d.query = c.query /\ d.phase = "answered" /\ d.got = got /\ d.figure = figure
  /\ d.alone = c.alone /\ d.cancelled = c.cancelled

LEMMA ServedIs ==
  ASSUME NEW c \in CallType, NEW got \in Rows, NEW figure \in Nat
  PROVE  Served([c EXCEPT !.phase = "answered", !.got = got, !.figure = figure], c, got, figure)
BY DEF Served, CallType

(* What is true of every call in flight, by the page it is on.             *)
LoadShape(c) ==
  /\ c.op = IF "figure" \in c.load THEN "figure" ELSE "load"
  /\ c.then = "keep" /\ c.undo = "keep" /\ c.alone = FALSE
  /\ c.op = "load" => ("latest" \in c.load <=> page \in LatestPages)
  /\ IsFigureLoad(c.load) /\ "latest" \in c.load => page = "dashboard"
  /\ page \in {"conversation", "contract"} => c.load = Plain
  /\ page = "approvals" => "url" \notin c.load

WriteSound(c) ==
  /\ WriteShape(c) /\ c.cancelled = FALSE
  /\ c.phase = "answered" /\ c.op \in {"create", "update"} /\ c.then # "rows" =>
       c.got = <<Row(c.id, c.ver)>>
  /\ c.undo \in {"restore", "splice"} => ~Absent(c.seen, c.id)

CallShape(c) == IF IsWrite(c) THEN WriteSound(c) ELSE LoadShape(c)

(* One message is sent at a time.                                          *)
OneMessage ==
  page = "conversation" =>
    \A c \in calls : IsWrite(c) => busy["create"] # 0 /\ \A d \in calls : IsWrite(d) => d = c

Base ==
  /\ PageTyped
  /\ \A c \in calls : CallShape(c)
  /\ OneMessage
  /\ page = "none" => status = "loading" /\ calls = {}

LEMMA ShapeStays ==
  ASSUME page' = page, NEW d, CallShape(d)
  PROVE  CallShape(d)'
BY DEF CallShape, LoadShape, WriteSound, WriteShape, Creates, CreatesAhead, Updates,
       Saves, UpdatesAhead, Deletes, DeletesAhead, Marks, MarksAll, ListAfter

LEMMA WriteFields ==
  ASSUME NEW c, NEW d, d.op = c.op, d.id = c.id, d.ver = c.ver, d.slot = c.slot,
         d.then = c.then, d.undo = c.undo, d.load = c.load
  PROVE  /\ WriteShape(c) => WriteShape(d)
         /\ IsWrite(c) <=> IsWrite(d)
         /\ Fetches(c) <=> Fetches(d)
         /\ FetchesFigure(c) <=> FetchesFigure(d)
BY DEF WriteShape, Creates, CreatesAhead, Updates, Saves, UpdatesAhead, Deletes, DeletesAhead,
       Marks, MarksAll, IsWrite, Fetches, FetchesFigure

LEMMA ShapeFrom ==
  ASSUME NEW c, NEW d, NEW loads, From(d, c, loads), CallShape(c)
  PROVE  CallShape(d)
<1>1. Heir(d, c) /\ (WriteShape(c) => WriteShape(d)) /\ (IsWrite(c) <=> IsWrite(d))
  BY WriteFields DEF From, Heir
<1>2. CASE IsWrite(c)
  <2>1. d.cancelled = FALSE
    BY <1>1, <1>2 DEF From, Cut, CallShape, WriteSound, Heir, CallType
  <2> QED BY <1>1, <1>2, <2>1 DEF CallShape, WriteSound, Heir
<1>3. CASE ~IsWrite(c)
  BY <1>1, <1>3 DEF CallShape, LoadShape, Heir
<1> QED BY <1>2, <1>3

LEMMA WritesAre ==
  ASSUME NEW c, WriteShape(c)
  PROVE  /\ IsWrite(c) /\ c.op \in {"create", "update", "delete", "all"}
         /\ c.then \in Thens /\ c.undo \in Undos
         /\ c.op # "all" => c.id \in Ids
         /\ c.op = "all" => c.id = 0 /\ c.then = "keep" /\ c.undo = "snapshot" /\ c.ver = 1
         /\ c.op \in {"create", "update"} => c.ver \in Versions
         /\ c.op = "create" => c.ver = 1 /\ c.undo \in {"keep", "drop"}
         /\ c.op = "update" => c.undo \in {"keep", "restore", "snapshot"}
         /\ c.op = "delete" => c.ver = 0 /\ c.undo \in {"keep", "splice"}
         /\ c.then = "replace" => c.op = "update"
         /\ c.then \in {"prepend", "append"} => c.op = "create" /\ c.undo = "keep"
         /\ c.then = "drop" => c.op = "delete" /\ c.undo = "keep"
         /\ c.then = "rows" <=> page \in {"conversation", "contract"}
         /\ c.undo = "drop" <=> page = "conversation"
         /\ page = "conversation" => c.op = "create" /\ c.slot = "create"
         /\ page = "contract" => c.op = "update" /\ c.undo = "keep"
         /\ c.undo = "snapshot" <=> page = "bell"
         /\ c.undo \in {"restore", "splice"} => c.op \in {"update", "delete"}
         /\ page # "dashboard"
BY DEF WriteShape, Creates, CreatesAhead, Updates, Saves, UpdatesAhead, Deletes, DeletesAhead,
       Marks, MarksAll, IsWrite, Thens, Undos, Versions

LEMMA FollowsWrite ==
  ASSUME NEW c, WriteShape(c)
  PROVE  /\ \/ "none" \in c.load /\ c.load \subseteq {"none", "url"}
            \/ ListAfter(c.load) /\ c.then = "keep" /\ c.undo = "keep"
            \/ c.load \in {Figure, {"figure", "held"}} /\ "none" \notin c.load
         /\ "url" \in c.load => page = "conversation"
BY DEF WriteShape, Creates, CreatesAhead, Updates, Saves, UpdatesAhead, Deletes, DeletesAhead,
       Marks, MarksAll, FigureAfter, ListAfter, NoLoad,
       Figure

(* The shapes of what starts.                                              *)
LEMMA OfferedShape ==
  ASSUME PageTyped, NEW c, Offered(c)
  PROVE  CallShape(c) /\ WriteShape(c) /\ IsWrite(c)
<1>1. WriteShape(c) /\ IsWrite(c) /\ c.phase = "sent" /\ c.cancelled = FALSE
  BY WritesAre DEF Offered, NewCall
<1>2. ASSUME c.undo \in {"restore", "splice"} PROVE ~Absent(c.seen, c.id)
  <2>1. c.op \in {"update", "delete"} /\ c.seen = shown /\ page # "contract"
    BY <1>1, <1>2, WritesAre DEF Offered, NewCall
  <2>2. c.id \in ShownIds
    BY <2>1 DEF Offered
  <2> QED BY <2>1, <2>2 DEF ShownIds, Absent
<1> QED BY <1>1, <1>2 DEF CallShape, WriteSound

LEMMA LoadedShape ==
  ASSUME NEW loads, NEW q, Effects(loads, q), NEW load \in loads, NEW k, NewLoad(k, load, q)
  PROVE  CallShape(k) /\ ~IsWrite(k)
BY DEF Effects, NewLoad, CallShape, LoadShape, IsWrite

LEMMA FollowingShape ==
  ASSUME NEW c, WriteShape(c), "none" \notin c.load, NEW k, NEW q, NewLoad(k, c.load, q)
  PROVE  CallShape(k) /\ ~IsWrite(k)
<1>1. ~IsWrite(k) /\ k.load = c.load /\ k.op = IF "figure" \in c.load THEN "figure" ELSE "load"
  BY DEF NewLoad, IsWrite
<1>2. page \notin {"conversation", "contract"}
  BY DEF WriteShape, CreatesAhead, Saves, NoLoad
<1>3. CASE ListAfter(c.load)
  <2>1. IsFigureLoad(c.load) => "aside" \in c.load
    BY <1>3 DEF ListAfter, IsFigureLoad
  <2> QED BY <1>1, <1>2, <1>3, <2>1 DEF ListAfter, CallShape, LoadShape, NewLoad
<1>4. CASE c.load \in {Figure, {"figure", "held"}}
  <2>1. "figure" \in c.load /\ "latest" \notin c.load /\ "url" \notin c.load
    BY <1>4 DEF Figure
  <2> QED BY <1>1, <1>2, <2>1 DEF CallShape, LoadShape, NewLoad
<1> QED BY <1>3, <1>4, FollowsWrite

LEMMA DerivedTyped ==
  ASSUME NEW table, NEW q
  PROVE  Derived(table, q) \in Nat
<1> PICK S : S = {r \in Under(q) : table[r] = 2}
  OBVIOUS
<1>1. IsFiniteSet(Ids) /\ S \subseteq Ids
  BY RowBoundsAssumption, FS_Interval DEF Ids, Under
<1>2. IsFiniteSet(S) /\ Cardinality(S) \in Nat
  BY <1>1, FS_Subset, FS_CardinalityType
<1> QED BY <1>2 DEF Derived

LEMMA BaseCalls ==
  ASSUME Base, NEW c \in calls
  PROVE  /\ c \in CallType /\ CallShape(c)
         /\ IsWrite(c) => WriteShape(c) /\ WriteSound(c)
         /\ ~IsWrite(c) => LoadShape(c)
         /\ \A d \in Others(c) : d \in calls /\ d # c
BY DEF Base, PageTyped, CallShape, WriteSound, Others

(* What one step may leave.                                                *)
LEMMA BaseKept ==
  ASSUME Base, page # "none", PageTyped', page' = page, \A d \in calls' : CallShape(d), OneMessage'
  PROVE  Base'
BY ShapeStays DEF Base

(* The writes that stay are writes that were; a message holds its button.  *)
LEMMA OneMessageKept ==
  ASSUME Base, page' = page, NEW D, NEW C, C \subseteq calls, NEW loads, Inherits(C, D, loads),
         NEW K, \A k \in K : ~IsWrite(k), calls' = D \cup K,
         busy' = busy \/ \A c \in C : ~IsWrite(c)
  PROVE  OneMessage'
<1> SUFFICES ASSUME page = "conversation", NEW c \in calls', IsWrite(c)
             PROVE  busy'["create"] # 0 /\ \A d \in calls' : IsWrite(d) => d = c
  BY DEF OneMessage, IsWrite
<1>1. \A d \in D : \E b \in C : From(d, b, loads) /\ (IsWrite(d) <=> IsWrite(b))
  BY WriteFields DEF Inherits, From, Heir
<1>2. c \in D /\ \E b \in C : IsWrite(b)
  BY <1>1
<1>3. busy'["create"] # 0
  BY <1>2 DEF Base, OneMessage
<1>4. ASSUME NEW d \in calls', IsWrite(d) PROVE d = c
  <2>1. d \in D
    BY <1>4
  <2>2. ASSUME d # c PROVE FALSE
    <3>1. PICK a, b \in C : a # b /\ From(d, a, loads) /\ From(c, b, loads)
      BY <1>2, <2>1, <2>2 DEF Inherits
    <3>2. IsWrite(a) /\ IsWrite(b)
      BY <1>4, <3>1, WriteFields DEF From, Heir
    <3> QED BY <3>1, <3>2 DEF Base, OneMessage
  <2> QED BY <2>2
<1> QED BY <1>3, <1>4

LEMMA ShapesKept ==
  ASSUME Base, NEW D, NEW C, C \subseteq calls, NEW loads, Inherits(C, D, loads)
  PROVE  \A d \in D : d \in CallType /\ CallShape(d)
<1> SUFFICES ASSUME NEW d \in D PROVE d \in CallType /\ CallShape(d)
  OBVIOUS
<1>1. PICK c \in C : From(d, c, loads)
  BY DEF Inherits
<1>2. CallShape(c)
  BY BaseCalls
<1> QED BY <1>1, <1>2, ShapeFrom DEF From, Heir

LEMMA DisturbedTyped ==
  ASSUME PageTyped, NEW c, c.id \in All
  PROVE  /\ DisturbedBy(c) \subseteq All /\ Touched(c) \subseteq All
<1>1. Touched(c) \subseteq All
  BY DEF Touched, All
<1>2. \A d \in calls : Touched(d) \subseteq All
  BY DEF PageTyped, CallType, Touched, All
<1>3. UNION {Touched(d) : d \in {e \in calls : IsWrite(e)}} \subseteq All
  BY <1>2
<1> QED BY <1>1, <1>3 DEF DisturbedBy, All

LEMMA DisturbedLoads ==
  ASSUME PageTyped, NEW C, \A c \in C : c.id \in All, NEW loads
  PROVE  DisturbedByLoads(loads, C) \subseteq All
BY DEF PageTyped, DisturbedByLoads, RowsDisturbed, FigureDisturbed, Touched, All

-----------------------------------------------------------------------------
LEMMA BeginBase ==
  ASSUME Base, page # "none", NEW c \in CallType, Offered(c),
         Begin(c, RowsAhead(c), FigureAhead(c))
  PROVE  Base'
<1>1. /\ sent < MaxSent /\ sent' = sent + 1 /\ calls' = Accompanied(calls) \cup {c}
      /\ shown' = RowsAhead(c) /\ aside' = FigureAhead(c)
      /\ busy' = (IF c.slot = "none" THEN busy ELSE [busy EXCEPT ![c.slot] = c.id])
      /\ disturbed' = disturbed \cup DisturbedBy(c)
      /\ UNCHANGED <<page, query, shownFor, status, server>>
  BY DEF Begin
<1>2. CallShape(c) /\ WriteShape(c) /\ IsWrite(c)
  BY OfferedShape DEF Base
<1>3. Inherits(calls, Accompanied(calls), {})
  BY AccompaniedInherits DEF Base, PageTyped
<1>4. \A d \in Accompanied(calls) : d \in CallType /\ CallShape(d)
  BY <1>3, ShapesKept
<1>5. shown' \in Rows
  <2>1. shown \in Rows
    BY DEF Base, PageTyped
  <2>2. CASE c.undo \in {"drop", "restore"} \/ (c.undo = "snapshot" /\ c.op = "update")
    <3>1. c.id \in Ids /\ c.ver \in Versions
      BY <1>2, <2>2, WritesAre
    <3> PICK row \in RowType : row = Row(c.id, c.ver)
      BY <3>1, RowTyped
    <3>2. Append(shown, row) \in Rows /\ Replaced(shown, row) \in Rows
      BY <2>1, PutInRows, ReplacedRows
    <3> QED BY <1>1, <2>2, <3>2 DEF RowsAhead
  <2>3. CASE c.undo = "splice"
    BY <1>1, <2>1, <2>3, WithoutRows DEF RowsAhead
  <2>4. CASE c.undo = "snapshot" /\ c.op = "all"
    BY <1>1, <2>1, <2>4, AllReadRows DEF RowsAhead
  <2>5. CASE c.undo = "keep" \/ (c.undo = "snapshot" /\ c.op \notin {"update", "all"})
    BY <1>1, <2>1, <2>5 DEF RowsAhead
  <2> QED BY <1>2, <2>2, <2>3, <2>4, <2>5, WritesAre DEF Undos
<1>6. aside' \in Nat
  <2>1. aside \in Nat
    BY DEF Base, PageTyped
  <2>2. OneLess \in Nat
    BY <2>1 DEF OneLess
  <2> QED BY <1>1, <2>1, <2>2 DEF FigureAhead
<1>7. c.id \in All /\ c.slot \in SlotNames
  BY DEF CallType
<1>8. busy' \in [Slots -> All] /\ sent' \in 0 .. MaxSent /\ disturbed' \subseteq All
  <2>1. busy' \in [Slots -> All]
    BY <1>1, <1>7 DEF Base, PageTyped, SlotNames
  <2>2. sent' \in 0 .. MaxSent
    BY <1>1, RowBoundsAssumption DEF Base, PageTyped
  <2>3. disturbed' \subseteq All
    BY <1>1, <1>7, DisturbedTyped DEF Base, PageTyped
  <2> QED BY <2>1, <2>2, <2>3
<1>9. PageTyped'
  BY <1>1, <1>4, <1>5, <1>6, <1>8 DEF Base, PageTyped
<1>10. OneMessage'
  <2> SUFFICES ASSUME page = "conversation" PROVE OneMessage'
    BY <1>1 DEF OneMessage
  <2>1. c.op = "create" /\ c.undo = "drop" /\ c.slot = "create" /\ c.id \in Ids
    BY <1>2, WritesAre
  <2>2. busy["create"] = 0
    BY <2>1 DEF Offered
  <2>3. \A b \in calls : ~IsWrite(b)
    BY <2>2 DEF Base, OneMessage
  <2>4. \A d \in Accompanied(calls) : ~IsWrite(d)
    BY <1>3, <2>3, WriteFields DEF Inherits, From, Heir
  <2>5. busy'["create"] = c.id /\ c.id # 0
    BY <1>1, <2>1, RowBoundsAssumption DEF Base, PageTyped, Slots, Ids
  <2>6. \A d \in calls' : IsWrite(d) => d = c
    BY <1>1, <2>4
  <2> QED BY <2>5, <2>6 DEF OneMessage, IsWrite
<1> QED BY <1>1, <1>2, <1>4, <1>9, <1>10, BaseKept

LEMMA ReloadBase ==
  ASSUME Base, page # "none", NEW loads, NEW q, Effects(loads, q), Reload(loads, q)
  PROVE  Base'
<1> DEFINE K == {Loading(load, q, sent + 1) : load \in loads}
<1>1. /\ sent < MaxSent /\ sent' = sent + 1
      /\ calls' = Superseded(Accompanied(calls), loads) \cup K
      /\ query' \in {query, q} /\ status' = StatusDuring(loads)
      /\ disturbed' = DisturbedByLoads(loads, calls)
      /\ UNCHANGED <<page, shown, shownFor, busy, aside, server>>
  BY DEF Reload, Joined
<1> PICK m \in Nat : m = sent + 1
  BY RowBoundsAssumption DEF Base, PageTyped
<1>2. \A k \in K : \E load \in loads : NewLoad(k, load, q)
  BY LoadingIs DEF Effects
<1>3. \A k \in K : k \in CallType /\ CallShape(k) /\ ~IsWrite(k)
  BY <1>2, LoadedShape DEF NewLoad
<1> HIDE DEF K
<1>4. Inherits(calls, Superseded(Accompanied(calls), loads), loads)
  BY SupersededInherits DEF Base, PageTyped
<1>5. \A d \in Superseded(Accompanied(calls), loads) : d \in CallType /\ CallShape(d)
  BY <1>4, ShapesKept
<1>6. /\ query' \in Queries /\ status' \in {"loading", "ready", "error"}
      /\ disturbed' \subseteq All /\ sent' \in 0 .. MaxSent
  <2>1. query' \in Queries
    BY <1>1 DEF Base, PageTyped, Effects
  <2>2. disturbed' \subseteq All
    BY <1>1, BaseCalls, DisturbedLoads DEF Base, CallType
  <2>3. sent' \in 0 .. MaxSent
    BY <1>1, RowBoundsAssumption DEF Base, PageTyped
  <2>4. status' \in {"loading", "ready", "error"}
    BY <1>1 DEF Base, PageTyped, StatusDuring
  <2> QED BY <2>1, <2>2, <2>3, <2>4
<1>7. PageTyped'
  BY <1>1, <1>3, <1>5, <1>6 DEF Base, PageTyped
<1>8. OneMessage'
  BY <1>1, <1>3, <1>4, OneMessageKept
<1> QED BY <1>1, <1>3, <1>5, <1>7, <1>8, BaseKept

LEMMA StartBase ==
  ASSUME Base, page # "none", StartNewConversation
  PROVE  Base'
<1>1. /\ sent < MaxSent /\ sent' = sent + 1 /\ calls' = Accompanied(calls)
      /\ query' = "new" /\ shown' = << >> /\ shownFor' = "new" /\ status' = "ready"
      /\ disturbed' \subseteq disturbed \cup Ids
      /\ UNCHANGED <<page, busy, aside, server>>
  BY DEF StartNewConversation
<1>2. Inherits(calls, Accompanied(calls), {})
  BY AccompaniedInherits DEF Base, PageTyped
<1>3. \A d \in calls' : d \in CallType /\ CallShape(d)
  BY <1>1, <1>2, ShapesKept
<1>4. sent' \in 0 .. MaxSent /\ "new" \in Queries /\ << >> \in Rows /\ disturbed' \subseteq All
  BY <1>1, RowBoundsAssumption DEF Base, PageTyped, Queries, Rows, All
<1>5. PageTyped'
  BY <1>1, <1>3, <1>4 DEF Base, PageTyped
<1>6. OneMessage'
  <2> PICK D : D = Accompanied(calls)
    OBVIOUS
  <2> PICK K : K = {}
    OBVIOUS
  <2>1. /\ calls' = D \cup K /\ calls \subseteq calls /\ Inherits(calls, D, {})
        /\ \A k \in K : ~IsWrite(k)
    BY <1>1, <1>2
  <2> QED BY <1>1, <2>1, OneMessageKept
<1> QED BY <1>1, <1>3, <1>5, <1>6, BaseKept

-----------------------------------------------------------------------------
(* A write of one row, and of all.                                         *)
ServeIs(c, d, table, got) ==
  /\ c.phase = "sent" /\ server' = table /\ calls' = Others(c) \cup {d}
  /\ Served(d, c, got, Derived(table, c.query))
  /\ ~IsWrite(c) => table = server /\ got = Listing(table, c.query)
  /\ c.op \in {"create", "update", "delete"} =>
       /\ c.id \in Ids
       /\ \A r \in Ids : table[r] = IF r = c.id THEN c.ver ELSE server[r]
       /\ c.op # "create" => server[c.id] # 0
  /\ c.op \in {"create", "update"} =>
       got = IF Fetches(c) THEN Listing(table, c.query) ELSE <<Row(c.id, c.ver)>>
  /\ c.op = "all" => \A r \in Ids : table[r] = IF server[r] = 0 THEN 0 ELSE c.ver
  /\ UNCHANGED <<page, query, shown, shownFor, status, busy, aside, sent, disturbed>>

LEMMA ServeForm ==
  ASSUME Base, NEW c \in calls, Serve(c)
  PROVE  \E table \in [Ids -> Versions \cup {0}] : \E got \in Rows : \E d : ServeIs(c, d, table, got)
<1>0. c \in CallType /\ CallShape(c) /\ (IsWrite(c) => WriteShape(c))
  BY BaseCalls
<1>1. server \in [Ids -> Versions \cup {0}]
  BY DEF Base, PageTyped
<1>2. ASSUME NEW table \in [Ids -> Versions \cup {0}], NEW got \in Rows, Answer(c, table, got)
      PROVE  \E d : /\ server' = table /\ calls' = Others(c) \cup {d}
                    /\ Served(d, c, got, Derived(table, c.query))
  <2> PICK figure \in Nat : figure = Derived(table, c.query)
    BY DerivedTyped
  <2> QED BY <1>0, <1>2, ServedIs DEF Answer
<1>3. /\ c.phase = "sent"
      /\ UNCHANGED <<page, query, shown, shownFor, status, busy, aside, sent, disturbed>>
  BY DEF Serve
<1>4. CASE ~IsWrite(c)
  <2>1. Answer(c, server, Listing(server, c.query)) /\ c.op \in {"load", "figure"}
    BY <1>4 DEF Serve, IsWrite
  <2>2. Listing(server, c.query) \in Rows
    BY <1>1, ListingMatches DEF Rows
  <2> PICK got \in Rows : got = Listing(server, c.query)
    BY <2>2
  <2>3. PICK d : /\ server' = server /\ calls' = Others(c) \cup {d}
                 /\ Served(d, c, got, Derived(server, c.query))
    BY <1>1, <1>2, <2>1
  <2> PICK table \in [Ids -> Versions \cup {0}] : table = server
    BY <1>1
  <2>4. ServeIs(c, d, table, got)
    BY <1>3, <1>4, <2>1, <2>3 DEF ServeIs
  <2> QED BY <2>4
<1>5. CASE c.op \in {"create", "update", "delete"}
  <2>1. IsWrite(c) /\ WriteShape(c)
    BY <1>0, <1>5 DEF IsWrite
  <2>2. c.id \in Ids /\ c.ver \in Versions \cup {0}
    BY <2>1, <1>5, WritesAre DEF CallType
  <2> PICK table : table = Put(c)
    OBVIOUS
  <2>3. /\ table \in [Ids -> Versions \cup {0}]
        /\ \A r \in Ids : table[r] = IF r = c.id THEN c.ver ELSE server[r]
    BY <1>1, <2>2 DEF Put
  <2>4. PICK got : /\ Answer(c, table, got)
                   /\ c.op # "create" => server[c.id] # 0
                   /\ got = IF c.op = "delete" THEN << >> ELSE Written(c, table)
    BY <1>5, <2>1 DEF Serve
  <2>5. got \in Rows
    <3>1. << >> \in Rows /\ Listing(table, c.query) \in Rows
      BY <2>3, ListingMatches DEF Rows
    <3>2. c.op \in {"create", "update"} => <<Row(c.id, c.ver)>> \in Rows
      <4>1. c.op \in {"create", "update"} => Row(c.id, c.ver) \in RowType
        BY <2>1, <2>2, WritesAre, RowTyped
      <4> QED BY <4>1 DEF Rows
    <3> QED BY <1>5, <2>4, <3>1, <3>2 DEF Written
  <2>6. PICK d : /\ server' = table /\ calls' = Others(c) \cup {d}
                 /\ Served(d, c, got, Derived(table, c.query))
    BY <1>2, <2>3, <2>4, <2>5
  <2>7. ServeIs(c, d, table, got)
    BY <1>3, <1>5, <2>1, <2>2, <2>3, <2>4, <2>6 DEF ServeIs, Written
  <2> QED BY <2>3, <2>5, <2>7
<1>6. CASE c.op = "all"
  <2>1. c.ver = 1
    BY <1>0, <1>6, WritesAre DEF IsWrite
  <2> PICK table : table = [r \in Ids |-> IF server[r] = 0 THEN 0 ELSE c.ver]
    OBVIOUS
  <2>2. /\ table \in [Ids -> Versions \cup {0}]
        /\ \A r \in Ids : table[r] = IF server[r] = 0 THEN 0 ELSE c.ver
    BY <1>1, <2>1 DEF Versions
  <2>10. << >> \in Rows
    BY DEF Rows
  <2> PICK got \in Rows : got = << >>
    BY <2>10
  <2>3. Answer(c, table, got)
    BY <1>6 DEF Serve, IsWrite
  <2>4. PICK d : /\ server' = table /\ calls' = Others(c) \cup {d}
                 /\ Served(d, c, got, Derived(table, c.query))
    BY <1>2, <2>2, <2>3
  <2>5. ServeIs(c, d, table, got)
    BY <1>3, <1>6, <2>2, <2>4 DEF ServeIs, IsWrite
  <2> QED BY <2>2, <2>5
<1> QED BY <1>0, <1>4, <1>5, <1>6, WritesAre

LEMMA ServedFields ==
  ASSUME NEW c, NEW d, NEW got, NEW figure, Served(d, c, got, figure)
  PROVE  /\ WriteShape(c) => WriteShape(d)
         /\ IsWrite(c) <=> IsWrite(d)
         /\ Fetches(c) <=> Fetches(d)
         /\ FetchesFigure(c) <=> FetchesFigure(d)
BY WriteFields DEF Served

LEMMA ServeBase ==
  ASSUME Base, page # "none", NEW c \in calls, Serve(c)
  PROVE  Base'
<1> PICK table \in [Ids -> Versions \cup {0}], got \in Rows : \E d : ServeIs(c, d, table, got)
  BY ServeForm
<1> PICK d : ServeIs(c, d, table, got)
  OBVIOUS
<1>1. /\ server' = table /\ calls' = Others(c) \cup {d} /\ Served(d, c, got, Derived(table, c.query))
      /\ UNCHANGED <<page, query, shown, shownFor, status, busy, aside, sent, disturbed>>
  BY DEF ServeIs
<1>2. c \in CallType /\ CallShape(c) /\ \A b \in Others(c) : b \in calls /\ b # c
  BY BaseCalls
<1>3. CallShape(d)
  <2>1. /\ IsWrite(c) <=> IsWrite(d)
        /\ Fetches(c) <=> Fetches(d)
        /\ WriteShape(c) => WriteShape(d)
    BY <1>1, ServedFields
  <2>2. CASE IsWrite(c)
    <3>1. c.op \in {"create", "update"} /\ c.then # "rows" => got = <<Row(c.id, c.ver)>>
      BY <2>2 DEF ServeIs, Fetches, IsWrite
    <3> QED BY <1>1, <1>2, <2>1, <2>2, <3>1 DEF CallShape, WriteSound, Served
  <2>3. CASE ~IsWrite(c)
    BY <1>1, <1>2, <2>1, <2>3 DEF CallShape, LoadShape, Served
  <2> QED BY <2>2, <2>3
<1>4. d \in CallType
  BY <1>1 DEF Served
<1>5. PageTyped'
  BY <1>1, <1>2, <1>4 DEF Base, PageTyped
<1>6. OneMessage'
  <2>1. IsWrite(d) <=> IsWrite(c)
    BY <1>1, ServedFields
  <2>2. \A b \in Others(c) : IsWrite(c) /\ page = "conversation" => ~IsWrite(b)
    BY <1>2 DEF Base, OneMessage
  <2> QED BY <1>1, <1>2, <2>1, <2>2 DEF Base, OneMessage, IsWrite
<1>7. \A e \in calls' : CallShape(e)
  BY <1>1, <1>2, <1>3 DEF Base
<1> QED BY <1>1, <1>5, <1>6, <1>7, BaseKept

LEMMA EndInherits ==
  ASSUME Base, NEW c \in calls
  PROVE  /\ \A loads : Inherits(Others(c), Superseded(Accompanied(Others(c)), loads), loads)
         /\ Inherits(Others(c), Accompanied(Others(c)), {})
         /\ Others(c) \subseteq calls
BY AccompaniedInherits, SupersededInherits DEF Base, PageTyped, Others

LEMMA EndBase ==
  ASSUME Base, page # "none", NEW c \in calls, calls' = Accompanied(Others(c)), busy' = (IF c.op = "load" THEN busy ELSE Released(c)),
         UNCHANGED <<page, server, sent>>,
         query' \in Queries, shown' \in Rows, shownFor' \in Queries, aside' \in Nat,
         status' \in {"loading", "ready", "error"}, disturbed' \subseteq All
  PROVE  Base'
<1>1. c \in CallType /\ CallShape(c) /\ (IsWrite(c) => WriteShape(c))
  BY BaseCalls
<1>2. Inherits(Others(c), Accompanied(Others(c)), {}) /\ Others(c) \subseteq calls
  BY EndInherits
<1>3. \A d \in calls' : d \in CallType /\ CallShape(d)
  BY <1>2, ShapesKept
<1>4. busy' \in [Slots -> All]
  BY <1>1 DEF Released, Base, PageTyped, CallType, SlotNames, All
<1>5. PageTyped'
  BY <1>3, <1>4 DEF Base, PageTyped
<1>6. OneMessage'
  <2>1. page = "conversation" => busy' = busy \/ \A b \in Others(c) : ~IsWrite(b)
    <3>1. page = "conversation" /\ IsWrite(c) => \A b \in Others(c) : ~IsWrite(b)
      BY DEF Base, OneMessage, Others
    <3>2. page = "conversation" /\ ~IsWrite(c) => busy' = busy
      BY <1>1 DEF CallShape, LoadShape, Plain
    <3> QED BY <3>1, <3>2
  <2>2. page # "conversation" => OneMessage'
    BY DEF OneMessage
  <2>3. calls' = Accompanied(Others(c)) \cup {}
    OBVIOUS
  <2> QED BY <1>2, <2>1, <2>2, <2>3, OneMessageKept
<1> QED BY <1>3, <1>5, <1>6, BaseKept

LEMMA UndoneRows ==
  ASSUME Base, NEW c \in calls, IsWrite(c)
  PROVE  /\ RowsAfterFailure(c) \in Rows
         /\ c.undo \in {"restore", "splice"} =>
              /\ IndexOf(c.id, c.seen) \in DOMAIN c.seen /\ IndexOf(c.id, c.seen) \in Nat \ {0}
              /\ c.seen[IndexOf(c.id, c.seen)] \in RowType
              /\ c.seen[IndexOf(c.id, c.seen)].id = c.id
<1>1. c \in CallType /\ WriteShape(c) /\ WriteSound(c) /\ shown \in Rows /\ c.seen \in Rows
  BY BaseCalls DEF Base, PageTyped, CallType
<1>2. ASSUME c.undo \in {"restore", "splice"}
      PROVE  /\ IndexOf(c.id, c.seen) \in DOMAIN c.seen /\ IndexOf(c.id, c.seen) \in Nat \ {0}
             /\ c.seen[IndexOf(c.id, c.seen)] \in RowType
             /\ c.seen[IndexOf(c.id, c.seen)].id = c.id
  <2>1. PICK j \in DOMAIN c.seen : c.seen[j].id = c.id
    BY <1>1, <1>2 DEF WriteSound, Absent
  <2>2. IndexOf(c.id, c.seen) \in DOMAIN c.seen /\ c.seen[IndexOf(c.id, c.seen)].id = c.id
    BY <2>1, IndexOfIs
  <2> PICK k : k = IndexOf(c.id, c.seen)
    OBVIOUS
  <2>3. k \in DOMAIN c.seen /\ DOMAIN c.seen = 1 .. Len(c.seen) /\ Len(c.seen) \in Nat
        /\ c.seen[k] \in RowType
    BY <1>1, <2>2, RowsIndices
  <2> QED BY <2>2, <2>3
<1>3. RowsAfterFailure(c) \in Rows
  <2> PICK k : k = IndexOf(c.id, c.seen)
    OBVIOUS
  <2>1. CASE c.undo = "restore"
    <3>1. Replaced(shown, c.seen[k]) \in Rows
      BY <1>1, <1>2, <2>1, ReplacedRows
    <3> QED BY <2>1, <3>1 DEF RowsAfterFailure
  <2>2. CASE c.undo = "splice"
    <3>1. InsertedAt(shown, k, c.seen[k]) \in Rows
      BY <1>1, <1>2, <2>2, InsertedAtRows
    <3> QED BY <2>2, <3>1 DEF RowsAfterFailure
  <2>3. CASE c.undo \notin {"restore", "splice"}
    BY <1>1, <2>3, WithoutRows DEF RowsAfterFailure
  <2> QED BY <2>1, <2>2, <2>3
<1> QED BY <1>2, <1>3

LEMMA DoneRows ==
  ASSUME Base, NEW c \in calls, IsWrite(c), c.phase = "answered"
  PROVE  /\ RowsAfter(c) \in Rows
         /\ c.then \in {"replace", "prepend", "append"} =>
              /\ c.got = <<Row(c.id, c.ver)>> /\ c.got[1] = Row(c.id, c.ver)
              /\ Row(c.id, c.ver) \in RowType
<1>1. c \in CallType /\ WriteShape(c) /\ WriteSound(c) /\ shown \in Rows /\ c.got \in Rows
  BY BaseCalls DEF Base, PageTyped, CallType
<1>2. ASSUME c.then \in {"replace", "prepend", "append"}
      PROVE  /\ c.got = <<Row(c.id, c.ver)>> /\ c.got[1] = Row(c.id, c.ver)
             /\ Row(c.id, c.ver) \in RowType
  <2>1. c.op \in {"create", "update"} /\ c.id \in Ids /\ c.ver \in Versions
    BY <1>1, <1>2, WritesAre
  <2>2. c.got = <<Row(c.id, c.ver)>>
    BY <1>1, <1>2, <2>1 DEF WriteSound
  <2> QED BY <2>1, <2>2, RowTyped
<1>3. RowsAfter(c) \in Rows
  <2>1. CASE c.then = "replace"
    BY <1>1, <1>2, <2>1, ReplacedRows DEF RowsAfter
  <2>2. CASE c.then \in {"prepend", "append"}
    <3>1. c.got \o shown \in Rows /\ shown \o c.got \in Rows
      BY <1>1, JoinedRows
    <3> QED BY <2>2, <3>1 DEF RowsAfter
  <2>3. CASE c.then \notin {"replace", "prepend", "append"}
    BY <1>1, <2>3, WithoutRows DEF RowsAfter
  <2> QED BY <2>1, <2>2, <2>3
<1> QED BY <1>2, <1>3

LEMMA LoadEndsBase ==
  ASSUME Base, page # "none", NEW c \in calls,
         Loaded(c) \/ LoadFailed(c) \/ FigureLoaded(c) \/ FigureFailed(c)
  PROVE  Base'
<1>1. c \in CallType
  BY BaseCalls
<1>2. /\ calls' = Accompanied(Others(c)) /\ busy' = (IF c.op = "load" THEN busy ELSE Released(c))
      /\ UNCHANGED <<page, server, sent>>
  BY DEF Loaded, LoadFailed, FigureLoaded, FigureFailed
<1>3. Ids \subseteq All /\ 0 \in All
  BY OneIsAnId
<1>4. /\ query' \in Queries /\ shownFor' \in Queries
      /\ shown' \in Rows /\ aside' \in Nat
  BY <1>1 DEF Base, PageTyped, Loaded, LoadFailed, FigureLoaded, FigureFailed, CallType
<1>5. status' \in {"loading", "ready", "error"} /\ disturbed' \subseteq All
  BY <1>3 DEF Base, PageTyped, Loaded, LoadFailed, FigureLoaded, FigureFailed, StatusAfterFailure
<1> QED BY <1>2, <1>4, <1>5, EndBase

LEMMA FailedBase ==
  ASSUME Base, page # "none", NEW c \in calls, Failed(c)
  PROVE  Base'
<1>1. c \in CallType
  BY BaseCalls
<1>2. /\ calls' = Accompanied(Others(c)) /\ busy' = Released(c) /\ IsWrite(c)
      /\ UNCHANGED <<page, query, shownFor, status, server, sent>>
      /\ shown' = RowsAfterFailure(c)
  BY DEF Failed
<1>3. shown' \in Rows
  BY <1>2, UndoneRows
<1>4. aside' \in Nat /\ disturbed' \subseteq All
  BY <1>1, DisturbedTyped DEF Failed, Base, PageTyped, CallType
<1>5. busy' = (IF c.op = "load" THEN busy ELSE Released(c))
  BY <1>2 DEF IsWrite
<1>6. query' \in Queries /\ shownFor' \in Queries /\ status' \in {"loading", "ready", "error"}
  BY <1>2 DEF Base, PageTyped
<1> QED BY <1>2, <1>3, <1>4, <1>5, <1>6, EndBase

LEMMA DoneBase ==
  ASSUME Base, page # "none", NEW c \in calls, Done(c)
  PROVE  Base'
<1>1. /\ c \in CallType /\ IsWrite(c) /\ WriteShape(c) /\ c.phase = "answered"
      /\ \A b \in Others(c) : b \in calls
  BY BaseCalls DEF Done
<1>2. /\ shown' = RowsAfter(c) /\ UNCHANGED <<page, aside, server, sent>>
      /\ shownFor' = (IF Fetches(c) THEN c.query ELSE shownFor)
      /\ query' = (IF "url" \in c.load THEN c.query ELSE query)
      /\ busy' = IF "held" \in c.load THEN busy ELSE Released(c)
  BY DEF Done
<1>3. shown' \in Rows /\ shownFor' \in Queries /\ aside' \in Nat /\ query' \in Queries
  BY <1>1, <1>2, DoneRows DEF Base, PageTyped, CallType
<1>10. Departed(c) \subseteq All /\ Outdated(c) \subseteq All
  BY <1>1 DEF Departed, Outdated, CallType, All
<1>4. CASE "none" \in c.load
  <2>1. /\ calls' = Accompanied(Others(c)) /\ UNCHANGED status
        /\ disturbed' = disturbed \cup Departed(c)
    BY <1>4 DEF Done
  <2>2. busy' = (IF c.op = "load" THEN busy ELSE Released(c))
    <3>1. "held" \notin c.load
      BY <1>1, <1>4, FollowsWrite DEF ListAfter
    <3> QED BY <1>1, <1>2, <3>1 DEF IsWrite
  <2>3. status' \in {"loading", "ready", "error"} /\ disturbed' \subseteq All
    BY <1>10, <2>1 DEF Base, PageTyped
  <2> QED BY <1>2, <1>3, <2>1, <2>2, <2>3, EndBase
<1>5. CASE "none" \notin c.load
  <2>1. /\ calls' = Superseded(Accompanied(Others(c)), {c.load}) \cup Following(c)
        /\ status' = StatusDuring({c.load})
        /\ disturbed' = DisturbedByLoads({c.load}, Others(c)) \cup Departed(c) \cup Outdated(c)
    BY <1>5 DEF Done
  <2>2. PICK k : /\ Following(c) = {k}
                 /\ NewLoad(k, c.load, IF "held" \in c.load THEN c.query ELSE query)
    BY <1>1, FollowingIs DEF Base, PageTyped
  <2>3. k \in CallType /\ CallShape(k) /\ ~IsWrite(k)
    BY <1>1, <1>5, <2>2, FollowingShape DEF NewLoad
  <2>4. /\ Inherits(Others(c), Superseded(Accompanied(Others(c)), {c.load}), {c.load})
        /\ Others(c) \subseteq calls
    BY EndInherits
  <2>5. \A d \in Superseded(Accompanied(Others(c)), {c.load}) : d \in CallType /\ CallShape(d)
    BY <2>4, ShapesKept
  <2>6. busy' \in [Slots -> All]
    BY <1>1, <1>2 DEF Released, Base, PageTyped, CallType, SlotNames, All
  <2>7. status' \in {"loading", "ready", "error"} /\ disturbed' \subseteq All
    <3>1. disturbed' \subseteq All
      <4>1. DisturbedByLoads({c.load}, Others(c)) \subseteq All
        BY <1>1, BaseCalls, DisturbedLoads DEF Base, CallType
      <4> QED BY <1>10, <2>1, <4>1
    <3> QED BY <2>1, <3>1 DEF StatusDuring, Base, PageTyped
  <2>8. \A d \in calls' : d \in CallType /\ CallShape(d)
    BY <2>1, <2>2, <2>3, <2>5
  <2>9. PageTyped'
    BY <1>2, <1>3, <2>6, <2>7, <2>8 DEF Base, PageTyped
  <2>10. OneMessage'
    <3>1. page # "conversation"
      BY <1>1, <1>5 DEF WriteShape, CreatesAhead, NoLoad
    <3> QED BY <1>2, <3>1 DEF OneMessage
  <2> QED BY <1>2, <2>8, <2>9, <2>10, BaseKept
<1> QED BY <1>4, <1>5

LEMMA ElsewhereBase ==
  ASSUME Base, page # "none", NEW r \in Ids, Elsewhere(r)
  PROVE  Base'
<1>1. UNCHANGED <<page, query, shown, shownFor, status, busy, calls, aside, sent>>
  BY DEF Elsewhere
<1>2. PICK v \in {0, 1, 2} : server' = [server EXCEPT ![r] = v]
  BY DEF Elsewhere
<1>3. server' \in [Ids -> Versions \cup {0}] /\ disturbed' \subseteq All
  BY <1>2, OneIsAnId DEF Elsewhere, Base, PageTyped, Versions
<1>4. PageTyped'
  BY <1>1, <1>3 DEF Base, PageTyped
<1>5. OneMessage' /\ \A d \in calls' : CallShape(d)
  BY <1>1 DEF Base, OneMessage, IsWrite
<1> QED BY <1>1, <1>4, <1>5, BaseKept

(* The types, and the shapes of the calls, last.                           *)
LEMMA StepBase ==
  ASSUME Base, page # "none", PageStep
  PROVE  Base'
<1>1. CASE PageAct
  BY <1>1, BeginBase, ReloadBase, StartBase DEF PageAct
<1>2. CASE CallStep
  BY <1>2, ServeBase, LoadEndsBase, DoneBase, FailedBase DEF CallStep
<1>3. CASE \E r \in Ids : Elsewhere(r)
  BY <1>3, ElsewhereBase
<1> QED BY <1>1, <1>2, <1>3, PageStepIs DEF Base

(* What each page starts with.                                             *)
LEMMA LoadsAre ==
  ASSUME page \in Pages
  PROVE  \/ LoadsOf(page) = {Guarded} /\ page \in LatestPages \ FigurePages
         \/ LoadsOf(page) = {Guarded, Figure} /\ page = "inquiries"
         \/ LoadsOf(page) = DashboardLoads /\ page = "dashboard"
         \/ LoadsOf(page) = {Plain} /\ page \notin LatestPages \cup FigurePages
         \/ LoadsOf(page) = {{}} /\ page \notin LatestPages \cup FigurePages
         \/ LoadsOf(page) = {{"blank", "url"}} /\ page \notin LatestPages \cup FigurePages
         \/ LoadsOf(page) = {{"blank", "aside"}} /\ page \in {"signed", "approvals"}
         \/ LoadsOf(page) = {BellList, Figure} /\ page = "bell"
         \/ LoadsOf(page) = {Plain, Figure} /\ page = "overview"
<1>1. CASE page \in ContractLists
  <2>1. LoadsOf(page) = {LoadAll}
    BY <1>1 DEF LoadsOf
  <2>2. CASE page = "approvals"
    BY <2>1, <2>2 DEF LoadAll
  <2>3. CASE page # "approvals"
    BY <1>1, <2>1, <2>3 DEF LoadAll, ContractLists, LatestPages, FigurePages
  <2> QED BY <2>2, <2>3
<1>2. CASE page \in DOMAIN StaffLoads /\ page \notin ContractLists
  <2>1. LoadsOf(page) = StaffLoads[page]
    BY <1>2 DEF LoadsOf
  <2>2. CASE page \in {"templates", "knowledge", "clauses", "integrations", "workflow", "pending",
                       "contracts"}
    <3>1. StaffLoads[page] = {Guarded}
      BY <2>2 DEF StaffLoads, TemplatesLoad, KnowledgeLoad, ClausesLoad, IntegrationsLoad,
                  WorkflowLoad, ContractsLoad
    <3>2. page \in LatestPages \ FigurePages
      BY <2>2 DEF LatestPages, FigurePages
    <3> QED BY <2>1, <3>1, <3>2
  <2>3. CASE page \in {"staff", "submissions", "forms", "fields", "conversation", "settings",
                       "calendar", "search"}
    <3>1. StaffLoads[page] = {Plain}
      BY <2>3 DEF StaffLoads, StaffLoad, SubmissionsLoad, FormsLoad, ConversationLoad,
                  SettingsLoad, CalendarLoad, SearchLoad
    <3>2. page \notin LatestPages \cup FigurePages
      BY <2>3 DEF LatestPages, FigurePages
    <3> QED BY <2>1, <3>1, <3>2
  <2>4. CASE page \in {"reporting", "auditlog", "signed", "dashboard", "bell"}
    <3>1. /\ page = "reporting" => StaffLoads[page] = {{}}
          /\ page = "auditlog" => StaffLoads[page] = {{"blank", "url"}}
          /\ page = "signed" => StaffLoads[page] = {{"blank", "aside"}}
          /\ page = "dashboard" => StaffLoads[page] = DashboardLoads
          /\ page = "bell" => StaffLoads[page] = {BellList, Figure}
      BY DEF StaffLoads, ReportingLoad, AuditLogLoad, SignedLoad
    <3>2. page \in {"reporting", "auditlog"} => page \notin LatestPages \cup FigurePages
      BY DEF LatestPages, FigurePages
    <3> QED BY <2>1, <2>4, <3>1, <3>2
  <2> QED BY <1>2, <2>2, <2>3, <2>4 DEF StaffLoads
<1>3. CASE page \in DOMAIN OwnerLoads /\ page \notin ContractLists /\ page \notin DOMAIN StaffLoads
  <2>1. LoadsOf(page) = OwnerLoads[page]
    BY <1>3 DEF LoadsOf
  <2>2. /\ page = "inquiries" => OwnerLoads[page] = {Guarded, Figure}
        /\ page = "organizations" => OwnerLoads[page] = {{}}
        /\ page \in {"announcements", "owneraudit", "health"} => OwnerLoads[page] = {Plain}
        /\ page = "errors" => OwnerLoads[page] = {{"blank", "url"}}
        /\ page = "overview" => OwnerLoads[page] = {Plain, Figure}
    BY DEF OwnerLoads, InquiriesLoad, OrganizationsLoad, AnnouncementsLoad, OwnerAuditLoad,
           ErrorsLoad, OverviewLoads
  <2>3. page \in {"organizations", "announcements", "owneraudit", "health", "errors"} =>
          page \notin LatestPages \cup FigurePages
    BY DEF LatestPages, FigurePages
  <2>4. page \in {"inquiries", "organizations", "announcements", "owneraudit", "health", "errors",
                  "overview"}
    BY <1>3 DEF OwnerLoads
  <2> QED BY <2>1, <2>2, <2>3, <2>4
<1> QED BY <1>1, <1>2, <1>3 DEF Pages

LEMMA WithFigure ==
  ASSUME NEW q \in Queries, NEW load \in {Guarded, Plain, BellList},
         page \notin {"dashboard", "conversation", "contract", "approvals"},
         load = Guarded => page \in LatestPages, load # Guarded => page \notin LatestPages
  PROVE  /\ Effects({load, Figure}, q) /\ ListsRows({load, Figure}) /\ LoadsFigure({load, Figure})
<1>1. /\ load \in SUBSET Traits /\ Figure \in SUBSET Traits
      /\ "held" \notin load /\ "held" \notin Figure /\ "url" \notin load /\ "url" \notin Figure
      /\ "figure" \notin load /\ "figure" \in Figure /\ "latest" \notin Figure /\ "aside" \notin load
      /\ "latest" \in load <=> load = Guarded
  BY DEF Guarded, Plain, BellList, Figure, Traits
<1>2. ListsRows({load, Figure}) /\ LoadsFigure({load, Figure}) /\ ~IsFigureLoad(load)
  BY <1>1 DEF ListsRows, LoadsFigure, IsFigureLoad
<1> QED BY <1>1, <1>2 DEF Effects

LEMMA OpenEffects ==
  ASSUME page \in Pages, NEW q \in Queries
  PROVE  /\ Effects(LoadsOf(page), q) /\ ListsRows(LoadsOf(page))
         /\ page \in FigurePages => LoadsFigure(LoadsOf(page))
<1>1. CASE LoadsOf(page) = {Guarded, Figure} /\ page = "inquiries"
  <2>1. page \in LatestPages /\ page \notin {"dashboard", "conversation", "contract", "approvals"}
    BY <1>1 DEF LatestPages
  <2> QED BY <1>1, <2>1, WithFigure
<1>2. CASE LoadsOf(page) = {BellList, Figure} /\ page = "bell"
  <2>1. page \notin LatestPages /\ page \notin {"dashboard", "conversation", "contract", "approvals"} /\ BellList # Guarded
    BY <1>2 DEF LatestPages, BellList, Guarded
  <2> QED BY <1>2, <2>1, WithFigure
<1>3. CASE LoadsOf(page) = {Plain, Figure} /\ page = "overview"
  <2>1. page \notin LatestPages /\ page \notin {"dashboard", "conversation", "contract", "approvals"} /\ Plain # Guarded
    BY <1>3 DEF LatestPages, Plain, Guarded
  <2> QED BY <1>3, <2>1, WithFigure
<1>4. CASE LoadsOf(page) = DashboardLoads /\ page = "dashboard"
  BY <1>4, DashboardEffects
<1>5. CASE page = "conversation"
  <2>1. page \notin FigurePages /\ page \notin ContractLists
    BY <1>5 DEF FigurePages, ContractLists
  <2>2. LoadsOf(page) = {Plain}
    BY <1>5, <2>1 DEF LoadsOf, StaffLoads, ConversationLoad
  <2> QED BY <1>5, <2>1, <2>2, ConversationEffects
<1>6. CASE /\ page \notin {"inquiries", "dashboard", "bell", "overview", "conversation"}
  <2>1. \E load : /\ LoadsOf(page) = {load}
                  /\ \/ load = Guarded /\ page \in LatestPages \ FigurePages
                     \/ load \in {Plain, {}, {"blank", "url"}} /\ page \notin LatestPages \cup FigurePages
                     \/ load = {"blank", "aside"} /\ page \in {"signed", "approvals"}
    BY <1>6, LoadsAre
  <2> PICK load : /\ LoadsOf(page) = {load}
                  /\ \/ load = Guarded /\ page \in LatestPages \ FigurePages
                     \/ load \in {Plain, {}, {"blank", "url"}} /\ page \notin LatestPages \cup FigurePages
                     \/ load = {"blank", "aside"} /\ page \in {"signed", "approvals"}
    BY <2>1
  <2>2. page \in {"signed", "approvals"} => page \notin LatestPages
    BY DEF LatestPages
  <2>3. /\ load \in SUBSET Traits /\ "held" \notin load /\ "figure" \notin load
        /\ "latest" \in load <=> page \in LatestPages
        /\ "latest" \in load => "aside" \notin load
    BY <2>2 DEF Guarded, Plain, Traits
  <2>4. ListsRows({load}) /\ (page \in FigurePages => LoadsFigure({load}))
    BY <2>3 DEF ListsRows, LoadsFigure
  <2>7. page = "contract" => load = Plain
    <3>1. page = "contract" => LoadsOf(page) = {Plain}
      BY DEF LoadsOf, ContractLists, LoadAll
    <3> QED BY <3>1
  <2>8. page = "approvals" => load = {"blank", "aside"}
    <3>1. page = "approvals" => LoadsOf(page) = {{"blank", "aside"}}
      BY DEF LoadsOf, ContractLists, LoadAll
    <3> QED BY <3>1
  <2>5. Effects({load}, q)
    BY <1>6, <2>3, <2>7, <2>8, EffectsOf
  <2>6. LoadsOf(page) = {load}
    OBVIOUS
  <2> QED BY <2>4, <2>5, <2>6, Zenon
<1> QED BY <1>1, <1>2, <1>3, <1>4, <1>5, <1>6, LoadsAre DEF FigurePages

LEMMA OpenBase ==
  ASSUME Init
  PROVE  /\ Base
         /\ page # "none" =>
              /\ calls = {Loading(load, "q1", 0) : load \in LoadsOf(page)}
              /\ query = "q1" /\ Effects(LoadsOf(page), query) /\ ListsRows(LoadsOf(page))
              /\ page \in FigurePages => LoadsFigure(LoadsOf(page))
<1>1. PICK loads : /\ Open(loads)
                   /\ \/ page \in Pages /\ loads = LoadsOf(page)
                      \/ page = "none" /\ loads = {}
  BY DEF Init
<1>2. /\ query = "q1" /\ shown = << >> /\ shownFor = "q1" /\ status = "loading"
      /\ busy = [s \in Slots |-> 0] /\ aside = 0 /\ sent = 0 /\ disturbed = {}
      /\ server = [r \in Ids |-> IF r <= 2 THEN r ELSE 0]
      /\ calls = {Loading(load, "q1", 0) : load \in loads}
  BY <1>1 DEF Open
<1>3. "q1" \in Queries /\ << >> \in Rows /\ 0 \in All /\ 0 \in 0 .. MaxSent
  BY RowBoundsAssumption, OneIsAnId DEF Queries, Rows
<1>4. server \in [Ids -> Versions \cup {0}]
  BY <1>2, RowBoundsAssumption DEF Ids, Versions
<1>5. "none" \notin Pages
  BY DEF Pages, StaffLoads, OwnerLoads, ContractLists
<1>6. page # "none" => /\ Effects(loads, query) /\ ListsRows(loads) /\ loads = LoadsOf(page)
                       /\ page \in FigurePages => LoadsFigure(loads)
  BY <1>1, <1>2, <1>3, OpenEffects
<1>7. page = "none" => loads = {} /\ calls = {}
  BY <1>1, <1>2, <1>5
<1>8. \A c \in calls : c \in CallType /\ CallShape(c) /\ ~IsWrite(c)
  <2> SUFFICES ASSUME NEW load \in loads
               PROVE  /\ Loading(load, "q1", 0) \in CallType /\ CallShape(Loading(load, "q1", 0))
                      /\ ~IsWrite(Loading(load, "q1", 0))
    BY <1>2
  <2>1. Effects(loads, "q1")
    BY <1>2, <1>6, <1>7
  <2>2. NewLoad(Loading(load, "q1", 0), load, "q1")
    BY <1>3, <2>1, LoadingIs DEF Effects
  <2> QED BY <2>1, <2>2, LoadedShape DEF NewLoad
<1>9. PageTyped
  BY <1>1, <1>2, <1>3, <1>4, <1>8 DEF PageTyped
<1>10. OneMessage
  BY <1>8 DEF OneMessage
<1> QED BY <1>2, <1>6, <1>7, <1>8, <1>9, <1>10 DEF Base

LEMMA BaseStays ==
  ASSUME Base, UNCHANGED pageVars
  PROVE  Base'
<1>1. \A d \in calls' : CallShape(d)'
  BY ShapeStays DEF pageVars, Base
<1> QED BY <1>1 DEF pageVars, Base, PageTyped, OneMessage, IsWrite

Live(c) == c.op = "load" /\ ~c.cancelled

Awaited(c) == Fetches(c) /\ ~c.cancelled

Touches(c, r) == IsWrite(c) /\ r \in Touched(c)

LEMMA FromFields ==
  ASSUME NEW c, NEW d, NEW loads, From(d, c, loads)
  PROVE  /\ IsWrite(c) <=> IsWrite(d)
         /\ Fetches(c) <=> Fetches(d)
         /\ FetchesFigure(c) <=> FetchesFigure(d)
         /\ \A r : Touches(c, r) <=> Touches(d, r)
         /\ d.cancelled <=> c.cancelled \/ Cut(c, loads)
         /\ d.alone = FALSE /\ d \in CallType
         /\ ~ListsRows(loads) => (Live(c) <=> Live(d)) /\ (Awaited(c) <=> Awaited(d))
<1>1. /\ IsWrite(c) <=> IsWrite(d)
      /\ Fetches(c) <=> Fetches(d)
      /\ FetchesFigure(c) <=> FetchesFigure(d)
  BY WriteFields DEF From, Heir
<1>2. Touched(c) = Touched(d)
  BY DEF From, Heir, Touched
<1>3. ~ListsRows(loads) => (Live(c) <=> Live(d))
  BY DEF From, Heir, Cut, Live
<1>4. ~ListsRows(loads) => (Awaited(c) <=> Awaited(d))
  BY <1>1 DEF From, Cut, Awaited
<1> QED BY <1>1, <1>2, <1>3, <1>4 DEF From, Heir, Touches

LEMMA ServedKeeps ==
  ASSUME NEW c, NEW d, NEW got, NEW figure, Served(d, c, got, figure)
  PROVE  /\ IsWrite(c) <=> IsWrite(d)
         /\ Fetches(c) <=> Fetches(d)
         /\ FetchesFigure(c) <=> FetchesFigure(d)
         /\ \A r : Touches(c, r) <=> Touches(d, r)
         /\ Live(c) <=> Live(d)
         /\ Awaited(c) <=> Awaited(d)
<1>1. /\ IsWrite(c) <=> IsWrite(d)
      /\ Fetches(c) <=> Fetches(d)
      /\ FetchesFigure(c) <=> FetchesFigure(d)
  BY ServedFields
<1>2. Touched(c) = Touched(d)
  BY DEF Served, Touched
<1> QED BY <1>1, <1>2 DEF Served, Touches, Live, Awaited

(* When the rows are loaded again, no earlier answer counts any more, and   *)
(* no write about a row that the page then knows is in flight.              *)
ListLoads(loads) ==
  /\ ListsRows(loads)
  /\ \A load \in loads : "figure" \notin load => ("latest" \in load <=> page \in LatestPages)

LEMMA StartsAfresh ==
  ASSUME Base, NEW C, C \subseteq calls, NEW loads, ListLoads(loads), NEW D, Inherits(C, D, loads),
         NEW r \in Ids, r \notin DisturbedByLoads(loads, C), NEW d \in D
  PROVE  ~Awaited(d) /\ ~Touches(d, r)
<1> PICK c \in C : From(d, c, loads)
  BY DEF Inherits
<1>1. CallShape(c) /\ (IsWrite(c) => WriteShape(c)) /\ (~IsWrite(c) => LoadShape(c))
  BY BaseCalls
<1>2. r \notin RowsDisturbed(loads, C) /\ r # 0
  BY RowBoundsAssumption DEF DisturbedByLoads, Ids
<1>3. ~((\E load \in loads : "latest" \notin load) /\ (\E b \in C : Fetches(b)))
  BY <1>2 DEF RowsDisturbed, ListLoads
<1> PICK T : T = UNION {Touched(b) : b \in {e \in C : IsWrite(e)}}
  OBVIOUS
<1>4. RowsDisturbed(loads, C) = T \ {0}
  <2>1. ListsRows(loads)
    BY DEF ListLoads
  <2> QED BY <1>3, <2>1 DEF RowsDisturbed
<1>5. ~Touches(c, r)
  BY <1>2, <1>4 DEF Touches
<1>6. ASSUME Fetches(c) PROVE d.cancelled
  <2>1. \A load \in loads : "latest" \in load
    BY <1>3, <1>6
  <2>2. page \in LatestPages
    BY <2>1 DEF ListLoads, ListsRows
  <2>3. ~IsWrite(c)
    <3>1. page \notin {"conversation", "contract"}
      BY <2>2 DEF LatestPages
    <3> QED BY <1>1, <1>6, <3>1, WritesAre DEF Fetches, IsWrite
  <2>4. "latest" \in c.load
    BY <1>1, <1>6, <2>2, <2>3 DEF LoadShape, Fetches
  <2> QED BY <2>3, <2>4 DEF From, Cut, ListLoads
<1> QED BY <1>5, <1>6, FromFields DEF Awaited

-----------------------------------------------------------------------------
(* The answers in flight are to what the page asks, until rows are missed.  *)
QueryKnown ==
  \/ Ids \subseteq disturbed
  \/ /\ (\A c \in calls : ~Live(c)) => shownFor = query
     /\ \A c \in calls : Awaited(c) => "url" \in c.load \/ c.query = query
     /\ \A c, d \in calls : Awaited(c) /\ Awaited(d) => c.query = d.query

LEMMA QueryKept ==
  ASSUME QueryKnown, NEW C, C \subseteq calls, \A c \in calls : c \in C \/ ~Live(c),
         NEW loads, ~ListsRows(loads), NEW D, Inherits(C, D, loads),
         NEW K, \A k \in K : ~Awaited(k), calls' = D \cup K,
         UNCHANGED <<query, shownFor>>, Ids \subseteq disturbed => Ids \subseteq disturbed'
  PROVE  QueryKnown'
<1> SUFFICES ASSUME ~(Ids \subseteq disturbed)
             PROVE  /\ (\A c \in calls' : ~Live(c)) => shownFor = query
                    /\ \A c \in calls' : Awaited(c) => "url" \in c.load \/ c.query = query
                    /\ \A c, d \in calls' : Awaited(c) /\ Awaited(d) => c.query = d.query
  BY DEF QueryKnown, Live, Awaited, Fetches
<1>1. \A d \in calls' : Awaited(d) => \E c \in calls : Awaited(c) /\ d.query = c.query /\ d.load = c.load
  <2> SUFFICES ASSUME NEW d \in D, Awaited(d)
               PROVE  \E c \in calls : Awaited(c) /\ d.query = c.query /\ d.load = c.load
    OBVIOUS
  <2> PICK c \in C : From(d, c, loads)
    BY DEF Inherits
  <2> QED BY FromFields DEF From, Heir
<1>2. ASSUME \A d \in calls' : ~Live(d) PROVE \A c \in calls : ~Live(c)
  <2> SUFFICES ASSUME NEW c \in C PROVE ~Live(c)
    OBVIOUS
  <2> PICK d \in D : From(d, c, loads)
    BY DEF Inherits
  <2> QED BY <1>2, FromFields
<1> QED BY <1>1, <1>2 DEF QueryKnown

LEMMA QueryLeft ==
  ASSUME QueryKnown, NEW C, C \subseteq calls, \A c \in calls : c \in C \/ ~Live(c),
         Inherits(C, Accompanied(C), {}), calls' = Accompanied(C) \cup {},
         UNCHANGED <<query, shownFor>>, disturbed \subseteq disturbed'
  PROVE  QueryKnown'
<1> PICK D : D = Accompanied(C)
  OBVIOUS
<1> PICK loads : loads = {}
  OBVIOUS
<1> PICK K : K = {}
  OBVIOUS
<1>1. Inherits(C, D, loads) /\ ~ListsRows(loads) /\ calls' = D \cup K /\ \A k \in K : ~Awaited(k)
  BY DEF ListsRows
<1>2. Ids \subseteq disturbed => Ids \subseteq disturbed'
  OBVIOUS
<1> QED BY <1>1, <1>2, QueryKept

(* Loads that start when the calls of C are in flight, K being the loads.  *)
Starts(C, D, K, loads, q) ==
  /\ C \subseteq calls /\ Inherits(C, D, loads)
  /\ \A k \in K : \E load \in loads : NewLoad(k, load, q)
  /\ \A load \in loads : \E k \in K : NewLoad(k, load, q)
  /\ calls' = D \cup K /\ DisturbedByLoads(loads, C) \subseteq disturbed'

OneFigure(K) == \A j, k \in K : FetchesFigure(j) /\ FetchesFigure(k) => j = k

LEMMA QueryAsked ==
  ASSUME Base, NEW C, NEW D, NEW K, NEW loads, NEW q, Starts(C, D, K, loads, q), ListLoads(loads),
         query' = q \/ \A load \in loads : "url" \in load
  PROVE  QueryKnown'
<1>0. /\ C \subseteq calls /\ Inherits(C, D, loads)
      /\ \A k \in K : \E load \in loads : NewLoad(k, load, q)
      /\ \A load \in loads : \E k \in K : NewLoad(k, load, q)
      /\ calls' = D \cup K /\ DisturbedByLoads(loads, C) \subseteq disturbed'
  BY DEF Starts
<1> SUFFICES ASSUME NEW r \in Ids, r \notin disturbed'
             PROVE  /\ ~(\A c \in calls' : ~Live(c))
                    /\ \A c \in calls' : Awaited(c) => "url" \in c.load \/ c.query = query'
                    /\ \A c, d \in calls' : Awaited(c) /\ Awaited(d) => c.query = d.query
  BY DEF QueryKnown, Live, Awaited, Fetches
<1>1. \A d \in D : ~Awaited(d)
  BY <1>0, StartsAfresh
<1>2. PICK load \in loads, k \in K : "figure" \notin load /\ NewLoad(k, load, q)
  BY <1>0 DEF ListLoads, ListsRows
<1>3. Live(k)
  BY <1>2 DEF Live, NewLoad
<1>4. \A d \in calls' : Awaited(d) => d \in K
  BY <1>0, <1>1
<1>5. \A d \in K : d.query = q /\ d.load \in loads
  BY <1>0 DEF NewLoad
<1> QED BY <1>0, <1>3, <1>4, <1>5

LEMMA QueryReload ==
  ASSUME Base, QueryKnown, NEW loads, NEW q, Effects(loads, q), Reload(loads, q)
  PROVE  QueryKnown'
<1> DEFINE K == {Loading(load, q, sent + 1) : load \in loads}
<1>1. /\ calls' = Superseded(Accompanied(calls), loads) \cup K
      /\ query' = (IF \E load \in loads : "url" \in load THEN query ELSE q)
      /\ disturbed' = DisturbedByLoads(loads, calls) /\ shownFor' = shownFor
  BY DEF Reload, Joined
<1> PICK m \in Nat : m = sent + 1
  BY RowBoundsAssumption DEF Base, PageTyped
<1>2. \A load \in loads : NewLoad(Loading(load, q, m), load, q)
  BY LoadingIs DEF Effects
<1>3. /\ \A k \in K : \E load \in loads : NewLoad(k, load, q)
      /\ \A load \in loads : \E k \in K : NewLoad(k, load, q)
  BY <1>2
<1> HIDE DEF K
<1>4. Inherits(calls, Superseded(Accompanied(calls), loads), loads)
  BY SupersededInherits DEF Base, PageTyped
<1>5. CASE ListsRows(loads)
  <2>1. ListLoads(loads)
    BY <1>5 DEF ListLoads, Effects
  <2>2. query' = q \/ \A load \in loads : "url" \in load
    BY <1>1 DEF Effects
  <2> PICK D : D = Superseded(Accompanied(calls), loads)
    OBVIOUS
  <2>3. Starts(calls, D, K, loads, q)
    BY <1>1, <1>3, <1>4 DEF Starts
  <2> QED BY <2>1, <2>2, <2>3, QueryAsked
<1>6. CASE ~ListsRows(loads)
  <2>1. query' = query
    BY <1>1, <1>6 DEF Effects
  <2>2. \A k \in K : ~Awaited(k)
    BY <1>3, <1>6 DEF NewLoad, ListsRows, Awaited, Fetches
  <2>3. Ids \subseteq disturbed => Ids \subseteq disturbed'
    BY <1>1, <1>6, RowBoundsAssumption DEF DisturbedByLoads, RowsDisturbed, Ids
  <2> QED BY <1>1, <1>4, <1>6, <2>1, <2>2, <2>3, QueryKept
<1> QED BY <1>5, <1>6

LEMMA QueryBegin ==
  ASSUME Base, QueryKnown, page # "none", NEW c \in CallType, Offered(c),
         Begin(c, RowsAhead(c), FigureAhead(c))
  PROVE  QueryKnown'
<1>1. /\ calls' = Accompanied(calls) \cup {c} /\ UNCHANGED <<query, shownFor>>
      /\ disturbed' = disturbed \cup DisturbedBy(c)
  BY DEF Begin
<1>2. Inherits(calls, Accompanied(calls), {}) /\ ~ListsRows({})
  BY AccompaniedInherits DEF Base, PageTyped, ListsRows
<1>3. WriteShape(c) /\ IsWrite(c) /\ c.query = query
  BY OfferedShape DEF Base, Offered, NewCall
<1> PICK D : D = Accompanied(calls)
  OBVIOUS
<1> PICK K : K = {c}
  OBVIOUS
<1> PICK loads : loads = {}
  OBVIOUS
<1>4. CASE ~Awaited(c)
  <2>1. Inherits(calls, D, loads) /\ ~ListsRows(loads) /\ calls' = D \cup K
    BY <1>1, <1>2
  <2>2. \A k \in K : ~Awaited(k)
    BY <1>4
  <2>3. Ids \subseteq disturbed => Ids \subseteq disturbed'
    BY <1>1
  <2> QED BY <1>1, <2>1, <2>2, <2>3, QueryKept
<1>5. CASE Awaited(c)
  <2> SUFFICES ASSUME ~(Ids \subseteq disturbed)
               PROVE  /\ (\A d \in calls' : ~Live(d)) => shownFor = query
                      /\ \A d \in calls' : Awaited(d) => d.query = query
    BY <1>1 DEF QueryKnown, Live, Awaited, Fetches
  <2>1. page \in {"conversation", "contract"} /\ (c.undo = "drop" <=> page = "conversation")
    BY <1>3, <1>5, WritesAre DEF Awaited, Fetches, IsWrite
  <2>2. ASSUME NEW d \in calls PROVE "url" \notin d.load
    <3>1. CASE IsWrite(d)
      <4>1. page # "conversation"
        <5>1. page = "conversation" => busy["create"] # 0
          BY <3>1 DEF Base, OneMessage
        <5> QED BY <2>1, <5>1 DEF Offered
      <4> QED BY <3>1, <4>1, BaseCalls, FollowsWrite
    <3>2. CASE ~IsWrite(d)
      <4>1. d.load = Plain
        BY <2>1, <3>2, BaseCalls DEF LoadShape
      <4> QED BY <4>1 DEF Plain
    <3> QED BY <3>1, <3>2
  <2>3. ASSUME NEW d \in D, Awaited(d) PROVE d.query = query
    <3>1. PICK b \in calls : From(d, b, {})
      BY <1>2 DEF Inherits
    <3>2. Awaited(b) /\ d.query = b.query
      BY <1>2, <2>3, <3>1, FromFields DEF From, Heir
    <3> QED BY <2>2, <3>2 DEF QueryKnown
  <2>4. ASSUME \A d \in D : ~Live(d), NEW b \in calls PROVE ~Live(b)
    <3>1. PICK d \in D : From(d, b, {})
      BY <1>2 DEF Inherits
    <3> QED BY <1>2, <2>4, <3>1, FromFields
  <2>5. (\A d \in calls' : ~Live(d)) => shownFor = query
    BY <1>1, <2>4 DEF QueryKnown
  <2> QED BY <1>1, <1>3, <2>3, <2>5
<1> QED BY <1>4, <1>5

LEMMA QueryServe ==
  ASSUME Base, QueryKnown, NEW c \in calls, Serve(c)
  PROVE  QueryKnown'
<1> PICK table \in [Ids -> Versions \cup {0}], got \in Rows : \E d : ServeIs(c, d, table, got)
  BY ServeForm
<1> PICK d : ServeIs(c, d, table, got)
  OBVIOUS
<1>1. /\ calls' = Others(c) \cup {d} /\ Served(d, c, got, Derived(table, c.query))
      /\ UNCHANGED <<query, shownFor, disturbed>>
  BY DEF ServeIs
<1>2. (Live(c) <=> Live(d)) /\ (Awaited(c) <=> Awaited(d)) /\ d.query = c.query /\ d.load = c.load
  BY <1>1, ServedKeeps DEF Served
<1>3. \A b \in calls' : \E a \in calls :
        (Live(a) <=> Live(b)) /\ (Awaited(a) <=> Awaited(b)) /\ b.query = a.query /\ b.load = a.load
  BY <1>1, <1>2 DEF Others
<1>4. \A a \in calls : \E b \in calls' : Live(a) <=> Live(b)
  BY <1>1, <1>2 DEF Others
<1> SUFFICES ASSUME ~(Ids \subseteq disturbed)
             PROVE  /\ (\A b \in calls' : ~Live(b)) => shownFor = query
                    /\ \A b \in calls' : Awaited(b) => "url" \in b.load \/ b.query = query
                    /\ \A a, b \in calls' : Awaited(a) /\ Awaited(b) => a.query = b.query
  BY <1>1 DEF QueryKnown, Live, Awaited, Fetches
<1> QED BY <1>3, <1>4 DEF QueryKnown

LEMMA QueryLoaded ==
  ASSUME Base, QueryKnown, NEW c \in calls, Loaded(c)
  PROVE  QueryKnown'
<1>1. calls' = Accompanied(Others(c)) \cup {} /\ disturbed' = disturbed /\ c.op = "load"
  BY DEF Loaded
<1>2. /\ Inherits(Others(c), Accompanied(Others(c)), {}) /\ Others(c) \subseteq calls
      /\ ~ListsRows({})
  BY EndInherits DEF ListsRows
<1>3. CASE Stale(c)
  <2>1. UNCHANGED <<query, shownFor>>
    BY <1>3 DEF Loaded
  <2>2. \A b \in calls : b \in Others(c) \/ ~Live(b)
    BY <1>3 DEF Stale, Live, Others
  <2> QED BY <1>1, <1>2, <2>1, <2>2, QueryLeft
<1>4. CASE ~Stale(c)
  <2>1. shownFor' = c.query /\ query' = (IF "url" \in c.load THEN c.query ELSE query)
    BY <1>4 DEF Loaded
  <2>2. Awaited(c)
    BY <1>1, <1>4 DEF Stale, Awaited, Fetches
  <2>3. ASSUME NEW d \in Accompanied(Others(c)), Awaited(d)
        PROVE  \E b \in calls : Awaited(b) /\ d.query = b.query
    <3>1. PICK b \in Others(c) : From(d, b, {})
      BY <1>2 DEF Inherits
    <3>2. Awaited(b) /\ d.query = b.query
      BY <1>2, <2>3, <3>1, FromFields DEF From, Heir
    <3> QED BY <1>2, <3>2
  <2> SUFFICES ASSUME ~(Ids \subseteq disturbed)
               PROVE  /\ shownFor' = query'
                      /\ \A d \in calls' : Awaited(d) => d.query = query'
    BY <1>1 DEF QueryKnown, Live, Awaited, Fetches
  <2>4. query' = c.query
    BY <2>1, <2>2 DEF QueryKnown
  <2>5. \A b \in calls : Awaited(b) => b.query = c.query
    BY <2>2 DEF QueryKnown
  <2> QED BY <1>1, <2>1, <2>3, <2>4, <2>5
<1> QED BY <1>3, <1>4

LEMMA QueryEnds ==
  ASSUME Base, QueryKnown, NEW c \in calls,
         LoadFailed(c) \/ FigureLoaded(c) \/ FigureFailed(c) \/ Failed(c)
  PROVE  QueryKnown'
<1>1. /\ calls' = Accompanied(Others(c)) \cup {} /\ UNCHANGED <<query, shownFor>>
      /\ disturbed \subseteq disturbed'
  BY DEF LoadFailed, FigureLoaded, FigureFailed, Failed
<1>2. /\ Inherits(Others(c), Accompanied(Others(c)), {}) /\ Others(c) \subseteq calls
      /\ ~ListsRows({})
  BY EndInherits DEF ListsRows
<1>3. CASE LoadFailed(c) /\ ~Stale(c)
  BY <1>3 DEF LoadFailed, QueryKnown
<1>4. CASE ~(LoadFailed(c) /\ ~Stale(c))
  <2>1. ~Live(c)
    BY <1>4 DEF LoadFailed, FigureLoaded, FigureFailed, Failed, Live, Stale, IsWrite
  <2>2. \A b \in calls : b \in Others(c) \/ ~Live(b)
    BY <2>1 DEF Others
  <2> QED BY <1>1, <1>2, <2>2, QueryLeft
<1> QED BY <1>3, <1>4

(* No load follows a write that fetches the rows.                          *)
LEMMA FetchingWrite ==
  ASSUME NEW c, WriteShape(c), c.then = "rows"
  PROVE  "none" \in c.load
BY FollowsWrite DEF WriteShape, CreatesAhead, Saves, Creates, Updates, UpdatesAhead, Deletes,
                    DeletesAhead, Marks, MarksAll, NoLoad

LEMMA QueryDone ==
  ASSUME Base, QueryKnown, page # "none", NEW c \in calls, Done(c)
  PROVE  QueryKnown'
<1>1. /\ c \in CallType /\ IsWrite(c) /\ WriteShape(c) /\ WriteSound(c)
  BY BaseCalls DEF Done
<1>2. /\ query' = (IF "url" \in c.load THEN c.query ELSE query)
      /\ shownFor' = (IF Fetches(c) THEN c.query ELSE shownFor)
      /\ "url" \in c.load => Fetches(c)
  BY <1>1, FollowsWrite, WritesAre DEF Done, Fetches
<1>3. /\ \A loads : Inherits(Others(c), Superseded(Accompanied(Others(c)), loads), loads)
      /\ Inherits(Others(c), Accompanied(Others(c)), {})
      /\ Others(c) \subseteq calls /\ ~ListsRows({})
      /\ \A b \in calls : b \in Others(c) \/ ~Live(b)
  BY <1>1, EndInherits DEF ListsRows, Others, Live, IsWrite
<1>4. CASE "none" \in c.load /\ ~Fetches(c)
  <2>1. /\ calls' = Accompanied(Others(c)) \cup {} /\ disturbed \subseteq disturbed'
        /\ shownFor' = shownFor /\ query' = query
    BY <1>2, <1>4 DEF Done
  <2> QED BY <1>3, <2>1, QueryLeft
<1>5. CASE Fetches(c)
  <2>1. "none" \in c.load
    BY <1>1, <1>5, WritesAre, FetchingWrite DEF Fetches, IsWrite
  <2>2. calls' = Accompanied(Others(c)) /\ disturbed \subseteq disturbed' /\ shownFor' = c.query
    BY <1>2, <1>5, <2>1 DEF Done
  <2>3. Awaited(c)
    BY <1>1, <1>5 DEF Awaited, WriteSound
  <2>4. ASSUME NEW d \in Accompanied(Others(c)), Awaited(d)
        PROVE  \E b \in calls : Awaited(b) /\ d.query = b.query
    <3>1. PICK b \in Others(c) : From(d, b, {})
      BY <1>3 DEF Inherits
    <3>2. Awaited(b) /\ d.query = b.query
      BY <1>3, <2>4, <3>1, FromFields DEF From, Heir
    <3> QED BY <1>3, <3>2
  <2> SUFFICES ASSUME ~(Ids \subseteq disturbed)
               PROVE  /\ shownFor' = query'
                      /\ \A d \in calls' : Awaited(d) => d.query = query'
    BY <2>2 DEF QueryKnown, Live, Awaited, Fetches
  <2>5. c.query = query' /\ \A b \in calls : Awaited(b) => b.query = c.query
    BY <1>2, <2>3 DEF QueryKnown
  <2> QED BY <1>2, <2>2, <2>4, <2>5
<1>6. CASE "none" \notin c.load /\ ~Fetches(c)
  <2>1. /\ calls' = Superseded(Accompanied(Others(c)), {c.load}) \cup Following(c)
        /\ DisturbedByLoads({c.load}, Others(c)) \subseteq disturbed'
        /\ shownFor' = shownFor /\ query' = query
    BY <1>2, <1>6 DEF Done
  <2>2. PICK k : /\ Following(c) = {k}
                 /\ NewLoad(k, c.load, IF "held" \in c.load THEN c.query ELSE query)
    BY <1>1, FollowingIs DEF Base, PageTyped
  <2>3. CASE ListAfter(c.load)
    <3> PICK loads : loads = {c.load}
      OBVIOUS
    <3> PICK K : K = {k}
      OBVIOUS
    <3>1. ListLoads(loads) /\ NewLoad(k, c.load, query)
      BY <2>2, <2>3 DEF ListLoads, ListAfter, ListsRows
    <3>2. /\ \A j \in K : \E load \in loads : NewLoad(j, load, query)
          /\ \A load \in loads : \E j \in K : NewLoad(j, load, query)
      BY <3>1
    <3>3. /\ calls' = Superseded(Accompanied(Others(c)), loads) \cup K
          /\ DisturbedByLoads(loads, Others(c)) \subseteq disturbed'
      BY <2>1, <2>2
    <3> PICK D : D = Superseded(Accompanied(Others(c)), loads)
      OBVIOUS
    <3> PICK q : q = query
      OBVIOUS
    <3> PICK C : C = Others(c)
      OBVIOUS
    <3>4. C \subseteq calls /\ Inherits(C, D, loads) /\ calls' = D \cup K
      BY <1>3, <3>3
    <3>5. DisturbedByLoads(loads, C) \subseteq disturbed'
      BY <3>3
    <3>6. query' = q
      BY <2>1
    <3>7. Starts(C, D, K, loads, q)
      BY <3>2, <3>4, <3>5 DEF Starts
    <3> QED BY <3>1, <3>6, <3>7, QueryAsked
  <2>4. CASE c.load \in {Figure, {"figure", "held"}}
    <3>1. "figure" \in c.load
      BY <2>4 DEF Figure
    <3>2. ~Awaited(k)
      BY <2>2, <3>1 DEF NewLoad, Awaited, Fetches
    <3>3. ~ListsRows({c.load})
      BY <3>1 DEF ListsRows
    <3>4. Ids \subseteq disturbed => Ids \subseteq disturbed'
      BY <2>1, <3>3, RowBoundsAssumption DEF DisturbedByLoads, RowsDisturbed, Ids
    <3> PICK loads : loads = {c.load}
      OBVIOUS
    <3> PICK K : K = {k}
      OBVIOUS
    <3> PICK D : D = Superseded(Accompanied(Others(c)), loads)
      OBVIOUS
    <3>5. Inherits(Others(c), D, loads) /\ ~ListsRows(loads) /\ calls' = D \cup K
      BY <1>3, <2>1, <2>2, <3>3
    <3>6. \A j \in K : ~Awaited(j)
      BY <3>2
    <3> QED BY <1>3, <2>1, <3>4, <3>5, <3>6, QueryKept
  <2> QED BY <1>1, <1>6, <2>3, <2>4, FollowsWrite
<1> QED BY <1>4, <1>5, <1>6

LEMMA QueryElsewhere ==
  ASSUME Base, QueryKnown, NEW r \in Ids, Elsewhere(r)
  PROVE  QueryKnown'
<1>1. disturbed \subseteq {0} /\ UNCHANGED <<query, shownFor, calls>>
  BY DEF Elsewhere
<1>2. ~(Ids \subseteq disturbed)
  BY <1>1, RowBoundsAssumption DEF Ids
<1> QED BY <1>1, <1>2 DEF QueryKnown, Live, Awaited, Fetches

LEMMA QueryStart ==
  ASSUME Base, QueryKnown, page # "none", StartNewConversation
  PROVE  QueryKnown'
<1>1. /\ query' = "new" /\ shownFor' = "new" /\ calls' = Accompanied(calls)
      /\ (\E c \in calls : Fetches(c)) => Ids \subseteq disturbed'
  BY DEF StartNewConversation
<1>2. CASE \E c \in calls : Fetches(c)
  BY <1>1, <1>2 DEF QueryKnown, Ids
<1>3. CASE \A c \in calls : ~Fetches(c)
  <2>1. \A d \in calls' : \E c \in calls : From(d, c, {})
    BY <1>1, AccompaniedInherits DEF Base, PageTyped, Inherits
  <2>2. \A d \in calls' : ~Awaited(d)
    BY <1>3, <2>1, FromFields DEF Awaited
  <2> QED BY <1>1, <2>2 DEF QueryKnown, Awaited, Fetches
<1> QED BY <1>2, <1>3

LEMMA QueryStep ==
  ASSUME Base, QueryKnown, page # "none", PageStep
  PROVE  QueryKnown'
<1>1. CASE PageAct
  BY <1>1, QueryBegin, QueryReload, QueryStart DEF PageAct
<1>2. CASE CallStep
  BY <1>2, QueryServe, QueryLoaded, QueryEnds, QueryDone DEF CallStep
<1>3. CASE \E r \in Ids : Elsewhere(r)
  BY <1>3, QueryElsewhere
<1> QED BY <1>1, <1>2, <1>3, PageStepIs DEF Base

LEMMA QueryOpens ==
  ASSUME Init
  PROVE  QueryKnown
<1>1. shownFor = query
  BY DEF Init, Open
<1>2. \A c \in calls : c.query = query
  <2>1. \E loads : calls = {Loading(load, "q1", 0) : load \in loads} /\ query = "q1"
    BY DEF Init, Open
  <2> QED BY <2>1 DEF Loading
<1> QED BY <1>1, <1>2 DEF QueryKnown

-----------------------------------------------------------------------------
(* What the page knows of the row r, unless it has missed something.       *)
Due(r) == Says(server, shownFor, r)

Agrees(rows, r) == Matches(rows, r, Due(r))

Belongs(r) == r \in Under(shownFor)

IsListed(r) == Lists(shownFor, r, server[r])

(* What is true of r while the write c, which is about r, is in flight.    *)
CreateKept(c, r) ==
  /\ server[r] = IF c.phase = "sent" THEN 0 ELSE c.ver
  /\ c.undo = "keep" => Absent(shown, r) /\ Belongs(r)

UpdateKept(c, r) ==
  /\ c.undo = "keep" /\ c.phase = "sent" => Agrees(shown, r)
  /\ c.undo = "keep" /\ c.phase # "sent" /\ c.then # "rows" => \E v \in Versions : OnceAs(shown, r, v)
  /\ c.then # "rows" => Belongs(r)
  /\ c.then # "rows" /\ c.phase = "sent" => IsListed(r)
  /\ c.undo # "keep" => OnceAs(shown, r, c.ver)
  /\ c.undo = "restore" /\ c.phase = "sent" => Agrees(c.seen, r)
  /\ c.phase # "sent" => server[r] = c.ver

DeleteKept(c, r) ==
  /\ c.undo = "keep" /\ c.phase = "sent" => Agrees(shown, r)
  /\ c.undo # "keep" => Absent(shown, r)
  /\ c.undo # "keep" /\ c.phase = "sent" => IsListed(r) /\ Agrees(c.seen, r)
  /\ c.phase # "sent" => server[r] = 0

AllKept(c, r) ==
  /\ server[r] = 0 => Absent(shown, r)
  /\ server[r] # 0 => OnceAs(shown, r, c.ver)
  /\ c.phase # "sent" /\ server[r] # 0 => server[r] = c.ver

Promise(c, r) ==
  /\ c.op = "create" => CreateKept(c, r)
  /\ c.op = "update" => UpdateKept(c, r)
  /\ c.op = "delete" => DeleteKept(c, r)
  /\ c.op = "all" => AllKept(c, r)

AnswersRow(r) ==
  \A c \in calls : Awaited(c) /\ c.phase = "answered" => Matches(c.got, r, Says(server, c.query, r))

ShowsRow(r) ==
  (\A c \in calls : ~Live(c)) =>
    /\ (\A c \in calls : ~Touches(c, r)) => Agrees(shown, r)
    /\ \A c \in calls : Touches(c, r) => Promise(c, r)

ApartFrom(r) == \A c, d \in calls : Touches(c, r) /\ Fetches(d) => c = d

OneToucher(r) ==
  \A c, d \in calls : Touches(c, r) /\ Touches(d, r) => c = d \/ page = "bell"

SnapsRow(r) ==
  \A c \in calls : c.alone /\ c.undo = "snapshot" /\ (c.phase = "sent" \/ ~Touches(c, r)) =>
                     Agrees(c.seen, r)

RowKnown(r) ==
  AnswersRow(r) /\ ShowsRow(r) /\ ApartFrom(r) /\ OneToucher(r) /\ SnapsRow(r)

RowsKnown == \A r \in Ids \ disturbed : RowKnown(r)

(* A call that nothing accompanies, and how it can be undone.              *)
Lone(c) ==
  /\ calls = {c}
  /\ c.undo # "snapshot" => aside = c.side
  /\ c.undo = "restore" => shown = Replaced(c.seen, Row(c.id, c.ver))
  /\ c.undo = "splice" => shown = Without(c.seen, c.id)
  /\ c.undo = "drop" => shown = Append(c.seen, Row(c.id, c.ver)) /\ Absent(c.seen, c.id)
  /\ c.undo \in {"restore", "splice"} /\ c.id \notin disturbed => Once(c.seen, c.id)

LoneKnown == \A c \in calls : c.alone => Lone(c)

PageKnown == Base /\ LoneKnown /\ (page # "none" => RowsKnown)

-----------------------------------------------------------------------------
(* The page answers the same query, and the server's r is as it was.       *)
Unmoved(r) == page' = page /\ shownFor' = shownFor /\ server'[r] = server[r]

LEMMA UnmovedIs ==
  ASSUME NEW r, Unmoved(r)
  PROVE  /\ Due(r)' = Due(r) /\ Belongs(r)' = Belongs(r) /\ IsListed(r)' = IsListed(r)
         /\ server'[r] = server[r]
<1>1. Under(shownFor)' = Under(shownFor)
  BY DEF Unmoved, Under
<1>2. Fits(shownFor, server[r])' = Fits(shownFor, server[r])
  BY DEF Unmoved, Fits
<1>3. IsListed(r)' = IsListed(r)
  BY <1>1, <1>2 DEF Unmoved, IsListed, Lists
<1>4. Due(r)' = Due(r)
  <2>1. Due(r) = IF IsListed(r) THEN server[r] ELSE 0
    BY DEF Due, Says, IsListed
  <2>2. Due(r)' = IF IsListed(r)' THEN server'[r] ELSE 0
    BY DEF Due, Says, IsListed
  <2> QED BY <1>3, <2>1, <2>2 DEF Unmoved
<1> QED BY <1>1, <1>3, <1>4 DEF Unmoved, Belongs

LEMMA PromiseKept ==
  ASSUME NEW c, NEW d, NEW r, Promise(c, r), d.op = c.op, d.undo = c.undo, d.ver = c.ver,
         d.then = c.then, d.phase = c.phase, d.seen = c.seen, Unmoved(r),
         SameRow(shown, shown', r)
  PROVE  Promise(d, r)'
<1>0. Due(r)' = Due(r) /\ Belongs(r)' = Belongs(r) /\ IsListed(r)' = IsListed(r) /\ server'[r] = server[r]
  BY UnmovedIs
<1>1. CreateKept(c, r) => CreateKept(d, r)'
  BY <1>0 DEF CreateKept, SameRow
<1>2. UpdateKept(c, r) => UpdateKept(d, r)'
  BY <1>0 DEF UpdateKept, SameRow, Agrees, Matches
<1>3. DeleteKept(c, r) => DeleteKept(d, r)'
  BY <1>0 DEF DeleteKept, SameRow, Agrees, Matches
<1>4. AllKept(c, r) => AllKept(d, r)'
  BY <1>0 DEF AllKept, SameRow
<1> QED BY <1>1, <1>2, <1>3, <1>4 DEF Promise

LEMMA SameRowsAgree ==
  ASSUME NEW rows, NEW next, NEW r, SameRow(rows, next, r), Unmoved(r), Agrees(rows, r)
  PROVE  Matches(next, r, Due(r)')
BY SameRowKeeps, UnmovedIs DEF Agrees

(* The calls of C live on, and calls that neither fetch nor write join.    *)
Carried(C, D, K, loads) ==
  /\ C \subseteq calls /\ Inherits(C, D, loads) /\ calls' = D \cup K
  /\ \A k \in K : ~Fetches(k) /\ ~IsWrite(k) /\ ~Live(k) /\ k.alone = FALSE

LEMMA RowCarried ==
  ASSUME NEW r, RowKnown(r), NEW C, NEW D, NEW K, NEW loads, Carried(C, D, K, loads),
         page' = page, server'[r] = server[r]
  PROVE  AnswersRow(r)' /\ ApartFrom(r)' /\ OneToucher(r)' /\ SnapsRow(r)'
<1>0. /\ C \subseteq calls /\ Inherits(C, D, loads) /\ calls' = D \cup K
      /\ \A k \in K : ~Fetches(k) /\ ~IsWrite(k) /\ ~Live(k) /\ k.alone = FALSE
  BY DEF Carried
<1>1. AnswersRow(r)'
  <2> SUFFICES ASSUME NEW d \in calls', Awaited(d), d.phase = "answered"
               PROVE  Matches(d.got, r, Says(server, d.query, r)')
    BY DEF AnswersRow, Awaited, Fetches
  <2>1. d \in D
    BY <1>0 DEF Awaited
  <2>2. PICK c \in C : From(d, c, loads)
    BY <1>0, <2>1 DEF Inherits
  <2>3. Awaited(c) /\ c.phase = "answered" /\ d.got = c.got /\ d.query = c.query
    BY <2>2, FromFields DEF Awaited, From, Heir
  <2>4. Matches(c.got, r, Says(server, c.query, r))
    BY <1>0, <2>3 DEF RowKnown, AnswersRow
  <2> PICK q : q = c.query
    OBVIOUS
  <2>5. Says(server, q, r)' = Says(server, q, r)
    BY DEF Says, Lists, Under, Fits
  <2> QED BY <2>3, <2>4, <2>5
<1>2. ASSUME NEW d \in calls', NEW e \in calls', Touches(d, r), d # e, Fetches(e) \/ Touches(e, r)
      PROVE  \E b, c \in calls : /\ b # c /\ Touches(b, r) /\ (Fetches(e) => Fetches(c))
                                 /\ Touches(e, r) => Touches(c, r)
  <2>1. d \in D /\ e \in D
    BY <1>0, <1>2 DEF Touches
  <2>2. PICK b, c \in C : b # c /\ From(d, b, loads) /\ From(e, c, loads)
    BY <1>0, <1>2, <2>1 DEF Inherits
  <2>3. Touches(b, r) /\ (Fetches(e) => Fetches(c)) /\ (Touches(e, r) => Touches(c, r))
    BY <1>2, <2>2, FromFields
  <2> QED BY <1>0, <2>2, <2>3
<1>3. ApartFrom(r)'
  <2> SUFFICES ASSUME NEW d \in calls', NEW e \in calls', Touches(d, r), Fetches(e) PROVE d = e
    BY DEF ApartFrom, Touches, IsWrite, Touched, Fetches, All
  <2> QED BY <1>2 DEF RowKnown, ApartFrom
<1>4. OneToucher(r)'
  <2> SUFFICES ASSUME NEW d \in calls', NEW e \in calls', Touches(d, r), Touches(e, r)
               PROVE  d = e \/ page = "bell"
    BY DEF OneToucher, Touches, IsWrite, Touched, All
  <2> QED BY <1>2 DEF RowKnown, OneToucher
<1>5. SnapsRow(r)'
  <2>1. \A d \in calls' : d.alone = FALSE
    BY <1>0 DEF Inherits, From, Heir
  <2> QED BY <2>1 DEF SnapsRow
<1> QED BY <1>1, <1>3, <1>4, <1>5

LEMMA ShowsKept ==
  ASSUME NEW r, ShowsRow(r), NEW C, NEW D, NEW K, NEW loads, Carried(C, D, K, loads),
         ~ListsRows(loads), \A c \in calls : c \in C \/ (~Live(c) /\ ~Touches(c, r)),
         Unmoved(r), SameRow(shown, shown', r)
  PROVE  ShowsRow(r)'
<1>0. /\ C \subseteq calls /\ Inherits(C, D, loads) /\ calls' = D \cup K
      /\ \A k \in K : ~Fetches(k) /\ ~IsWrite(k) /\ ~Live(k) /\ k.alone = FALSE
  BY DEF Carried
<1> SUFFICES ASSUME \A d \in calls' : ~Live(d)
             PROVE  /\ (\A d \in calls' : ~Touches(d, r)) => Matches(shown', r, Due(r)')
                    /\ \A d \in calls' : Touches(d, r) => Promise(d, r)'
  BY DEF ShowsRow, Agrees, Live, Touches, IsWrite, Touched, All
<1>1. ASSUME NEW c \in calls PROVE ~Live(c)
  <2> SUFFICES ASSUME c \in C PROVE ~Live(c)
    OBVIOUS
  <2> PICK d \in D : From(d, c, loads)
    BY <1>0 DEF Inherits
  <2> QED BY <1>0, FromFields
<1>2. ASSUME \A d \in calls' : ~Touches(d, r) PROVE Matches(shown', r, Due(r)')
  <2>1. ASSUME NEW c \in calls PROVE ~Touches(c, r)
    <3> SUFFICES ASSUME c \in C PROVE ~Touches(c, r)
      OBVIOUS
    <3> PICK d \in D : From(d, c, loads)
      BY <1>0 DEF Inherits
    <3> QED BY <1>0, <1>2, FromFields
  <2>2. Agrees(shown, r)
    BY <1>1, <2>1 DEF ShowsRow
  <2> QED BY <2>2, SameRowsAgree
<1>3. ASSUME NEW d \in calls', Touches(d, r) PROVE Promise(d, r)'
  <2>1. d \in D
    BY <1>0, <1>3 DEF Touches
  <2>2. PICK c \in C : From(d, c, loads)
    BY <1>0, <2>1 DEF Inherits
  <2>3. Touches(c, r) /\ c \in calls
    BY <1>0, <1>3, <2>2, FromFields
  <2>4. Promise(c, r)
    BY <1>1, <2>3 DEF ShowsRow
  <2> QED BY <2>2, <2>4, PromiseKept DEF From, Heir
<1> QED BY <1>2, <1>3

LEMMA RowKept ==
  ASSUME NEW r, RowKnown(r), NEW C, NEW D, NEW K, NEW loads, Carried(C, D, K, loads),
         ~ListsRows(loads), \A c \in calls : c \in C \/ (~Live(c) /\ ~Touches(c, r)),
         Unmoved(r), SameRow(shown, shown', r)
  PROVE  RowKnown(r)'
<1>1. ShowsRow(r)'
  BY ShowsKept DEF RowKnown
<1> QED BY <1>1, RowCarried DEF RowKnown, Unmoved

(* The rows are asked for again.                                           *)
LEMMA RowAsked ==
  ASSUME Base, NEW C, NEW D, NEW K, NEW loads, NEW q, Starts(C, D, K, loads, q), ListLoads(loads),
         NEW r \in Ids, r \notin disturbed'
  PROVE  RowKnown(r)'
<1>0. /\ C \subseteq calls /\ Inherits(C, D, loads)
      /\ \A k \in K : \E load \in loads : NewLoad(k, load, q)
      /\ \A load \in loads : \E k \in K : NewLoad(k, load, q)
      /\ calls' = D \cup K /\ DisturbedByLoads(loads, C) \subseteq disturbed'
  BY DEF Starts
<1>1. \A d \in D : ~Awaited(d) /\ ~Touches(d, r)
  BY <1>0, StartsAfresh
<1>2. PICK load \in loads, k \in K : "figure" \notin load /\ NewLoad(k, load, q)
  BY <1>0 DEF ListLoads, ListsRows
<1>3. Live(k) /\ k \in calls'
  BY <1>0, <1>2 DEF Live, NewLoad
<1>4. \A j \in K : ~IsWrite(j) /\ j.phase = "sent" /\ j.alone = FALSE
  BY <1>0 DEF NewLoad, IsWrite
<1>5. \A d \in calls' : ~Touches(d, r) /\ ~(Awaited(d) /\ d.phase = "answered") /\ d.alone = FALSE
  BY <1>0, <1>1, <1>4 DEF Touches, Inherits, From, Heir
<1>6. AnswersRow(r)' /\ SnapsRow(r)'
  BY <1>5 DEF AnswersRow, SnapsRow, Awaited, Fetches
<1>7. ApartFrom(r)' /\ OneToucher(r)'
  BY <1>5 DEF ApartFrom, OneToucher, Touches, IsWrite, Touched, All
<1>8. ShowsRow(r)'
  BY <1>3 DEF ShowsRow, Live
<1> QED BY <1>6, <1>7, <1>8 DEF RowKnown

LEMMA SameRowItself == \A rows, r : SameRow(rows, rows, r)
BY DEF SameRow

LEMMA TouchedIs ==
  ASSUME NEW c, NEW r \in Ids
  PROVE  r \in Touched(c) <=> c.op = "all" \/ c.id = r
BY RowBoundsAssumption DEF Touched, All, Ids

(* A handler shows at once what it is about, and nothing else.             *)
LEMMA AheadElsewhere ==
  ASSUME Base, NEW c \in CallType, WriteShape(c), NEW r \in Ids, ~Touches(c, r)
  PROVE  SameRow(shown, RowsAhead(c), r)
<1>1. IsWrite(c) /\ c.op # "all" /\ c.id # r /\ c.undo \in Undos
  BY WritesAre, TouchedIs DEF Touches
<1>2. shown \in Rows
  BY DEF Base, PageTyped
<1>3. CASE c.undo \in {"drop", "restore"} \/ (c.undo = "snapshot" /\ c.op = "update")
  <2>1. c.id \in Ids /\ c.ver \in Versions
    BY <1>3, WritesAre
  <2> PICK row \in RowType : row = Row(c.id, c.ver)
    BY <2>1, RowTyped
  <2>2. row.id = c.id
    BY RowFields
  <2>3. SameRow(shown, Replaced(shown, row), r)
    BY <1>1, <1>2, <2>2, ReplacedRows
  <2>4. SameRow(shown, Append(shown, row), r)
    BY <1>1, <1>2, <2>2, PutInRows, InsertedRows
  <2> QED BY <1>3, <2>3, <2>4 DEF RowsAhead
<1>4. CASE c.undo = "splice"
  BY <1>1, <1>2, <1>4, WithoutRows DEF RowsAhead
<1>5. CASE c.undo = "keep" \/ (c.undo = "snapshot" /\ c.op # "update")
  BY <1>1, <1>5, SameRowItself DEF RowsAhead
<1> QED BY <1>1, <1>3, <1>4, <1>5 DEF Undos

LEMMA AheadHere ==
  ASSUME Base, NEW c \in CallType, WriteShape(c), NEW r \in Ids, c.id = r
  PROVE  /\ c.undo = "keep" => RowsAhead(c) = shown
         /\ c.undo = "splice" => Absent(RowsAhead(c), r)
         /\ c.op = "update" /\ c.undo # "keep" =>
              \A v : OnceAs(shown, r, v) => OnceAs(RowsAhead(c), r, c.ver)
<1>1. shown \in Rows
  BY DEF Base, PageTyped
<1>2. c.undo = "splice" => Absent(RowsAhead(c), r)
  BY <1>1, WithoutRows DEF RowsAhead
<1>3. ASSUME c.op = "update", c.undo # "keep", NEW v, OnceAs(shown, r, v)
      PROVE  OnceAs(RowsAhead(c), r, c.ver)
  <2>1. c.undo \in {"restore", "snapshot"} /\ c.ver \in Versions
    BY <1>3, WritesAre
  <2> PICK row \in RowType : row = Row(c.id, c.ver)
    BY <2>1, RowTyped
  <2>2. OnceAs(Replaced(shown, row), r, c.ver)
    BY <1>1, <1>3, OnceAsIs, ReplacedRows, RowFields
  <2> QED BY <1>3, <2>1, <2>2 DEF RowsAhead
<1> QED BY <1>2, <1>3 DEF RowsAhead

(* A row that is shown once, or not at all, can be looked up.              *)
LEMMA ShownAgrees ==
  ASSUME NEW r, Agrees(shown, r), r \in ShownIds
  PROVE  server[r] # 0 /\ IsListed(r) /\ Belongs(r) /\ OnceAs(shown, r, server[r]) /\ Once(shown, r)
<1>1. ~Absent(shown, r)
  BY DEF ShownIds, Absent
<1>2. Due(r) # 0 /\ OnceAs(shown, r, Due(r))
  BY <1>1 DEF Agrees, Matches
<1>3. IsListed(r) /\ Due(r) = server[r]
  BY <1>2 DEF Due, Says, IsListed
<1> QED BY <1>2, <1>3, OnceAsIs DEF IsListed, Lists, Belongs

(* What the list on the screen should say of a row the server does not have. *)
LEMMA DueOf ==
  ASSUME NEW r
  PROVE  /\ server[r] = 0 => Due(r) = 0
         /\ IsListed(r) => Due(r) = server[r] /\ server[r] # 0
BY DEF Due, Says, IsListed, Lists

(* The bell lists whatever there is.                                       *)
LEMMA OnBell ==
  ASSUME page = "bell", page' = page, NEW r \in Ids
  PROVE  /\ Belongs(r) /\ (IsListed(r) <=> server[r] # 0) /\ Due(r) = server[r]
         /\ Belongs(r)' /\ (IsListed(r)' <=> server'[r] # 0) /\ Due(r)' = server'[r]
<1>1. page \notin ContractLists \cup {"conversation"} /\ page # "inquiries"
  BY DEF ContractLists
<1>2. Ids' = Ids /\ ContractLists' = ContractLists
  BY DEF Ids, ContractLists
<1>3. Belongs(r) /\ (IsListed(r) <=> server[r] # 0)
  BY <1>1 DEF Belongs, IsListed, Lists, Under, Fits
<1>4. Belongs(r)' /\ (IsListed(r)' <=> server'[r] # 0)
  BY <1>1, <1>2 DEF Belongs, IsListed, Lists, Under, Fits
<1> QED BY <1>3, <1>4 DEF Due, Says, IsListed

(* Nothing is in flight that is about a row a call can be sent for.        *)
LEMMA NothingElse ==
  ASSUME Base, RowsKnown, NEW c, WriteShape(c), NEW r \in Ids, r \notin disturbed \cup DisturbedBy(c),
         Touches(c, r)
  PROVE  /\ \A d \in calls : ~Live(d) /\ ~Fetches(d) /\ d.op # "all" /\ d.id # c.id
         /\ ShowsRow(r)
         /\ c.op # "all" => (\A d \in calls : ~Touches(d, r)) /\ Agrees(shown, r) /\ c.id = r
         /\ Fetches(c) => calls = {}
<1>1. r \in Touched(c)
  BY DEF Touches
<1>2. ~(\E d \in calls : Fetches(d) \/ d.op = "all" \/ d.id = c.id)
  BY <1>1 DEF DisturbedBy
<1>3. ShowsRow(r)
  BY DEF RowsKnown, RowKnown
<1>4. \A d \in calls : ~Live(d)
  BY <1>2 DEF Live, Fetches
<1>5. ASSUME c.op # "all" PROVE (\A d \in calls : ~Touches(d, r)) /\ Agrees(shown, r) /\ c.id = r
  <2>1. c.id = r
    BY <1>1, <1>5, TouchedIs
  <2>2. \A d \in calls : ~Touches(d, r)
    BY <1>2, <2>1, TouchedIs DEF Touches
  <2> QED BY <1>3, <1>4, <2>1, <2>2 DEF ShowsRow
<1>6. Fetches(c) => calls = {}
  BY <1>1 DEF DisturbedBy
<1> QED BY <1>2, <1>3, <1>4, <1>5, <1>6

LEMMA PromiseGiven ==
  ASSUME Base, RowsKnown, QueryKnown, NEW c \in CallType, Offered(c), NEW r \in Ids,
         r \notin disturbed \cup DisturbedBy(c), Touches(c, r),
         shown' = RowsAhead(c), UNCHANGED <<page, server, shownFor>>
  PROVE  Promise(c, r)'
<1>0. WriteShape(c) /\ IsWrite(c) /\ c.phase = "sent" /\ (c.undo # "keep" => c.seen = shown)
  BY OfferedShape DEF Base, Offered, NewCall
<1>1. ASSUME c.op # "all"
      PROVE  /\ c.id = r /\ Agrees(shown, r)
             /\ c.op # "create" /\ c.then # "rows" =>
                  server[r] # 0 /\ IsListed(r) /\ Belongs(r) /\ OnceAs(shown, r, server[r])
             /\ c.op = "create" => server[r] = 0 /\ Absent(shown, r) /\ Belongs(r)
  <2>1. c.id = r /\ Agrees(shown, r)
    BY <1>0, <1>1, NothingElse
  <2>2. c.op # "create" /\ c.then # "rows" => c.id \in ShownIds
    BY <1>0, <1>1, WritesAre DEF Offered
  <2>3. c.op = "create" => server[r] = 0 /\ r \in Under(query)
    BY <2>1 DEF Offered, NewId, Unused
  <2>4. shownFor = query
    <3>1. \A d \in calls : ~Live(d)
      BY <1>0, <1>1, NothingElse
    <3> QED BY <3>1 DEF QueryKnown
  <2>5. c.op = "create" => Belongs(r) /\ Absent(shown, r)
    BY <2>1, <2>3, <2>4, DueOf DEF Belongs, Agrees, Matches
  <2> QED BY <2>1, <2>2, <2>3, <2>5, ShownAgrees
<1>6. /\ Due(r)' = Due(r) /\ Belongs(r)' = Belongs(r) /\ IsListed(r)' = IsListed(r)
      /\ server'[r] = server[r]
  BY UnmovedIs DEF Unmoved
<1>2. c.op = "create" => CreateKept(c, r)'
  <2>1. c.op = "create" /\ c.undo = "keep" => shown' = shown
    BY <1>0, <1>1, AheadHere
  <2> QED BY <1>0, <1>1, <1>6, <2>1 DEF CreateKept
<1>3. c.op = "update" => UpdateKept(c, r)'
  <2>1. c.op = "update" /\ c.undo = "keep" => shown' = shown
    BY <1>0, <1>1, AheadHere
  <2>2. c.op = "update" /\ c.undo # "keep" => OnceAs(shown', r, c.ver)
    BY <1>0, <1>1, AheadHere, WritesAre
  <2> QED BY <1>0, <1>1, <1>6, <2>1, <2>2 DEF UpdateKept, Agrees
<1>4. c.op = "delete" => DeleteKept(c, r)'
  <2>1. c.op = "delete" /\ c.undo = "keep" => shown' = shown
    BY <1>0, <1>1, AheadHere
  <2>2. c.op = "delete" /\ c.undo # "keep" => Absent(shown', r)
    BY <1>0, <1>1, WritesAre, AheadHere
  <2>3. c.op = "delete" => c.then # "rows"
    BY <1>0, WritesAre
  <2> QED BY <1>0, <1>1, <1>6, <2>1, <2>2, <2>3 DEF DeleteKept, Agrees
<1>5. c.op = "all" => AllKept(c, r)'
  <2> SUFFICES ASSUME c.op = "all" PROVE AllKept(c, r)'
    OBVIOUS
  <2>1. /\ \A d \in calls : ~Live(d) /\ d.op # "all"
        /\ ShowsRow(r)
    BY <1>0, NothingElse
  <2>2. shown' = AllRead(shown) /\ c.ver = 1 /\ page = "bell"
    BY <1>0, WritesAre DEF RowsAhead
  <2>3. shown \in Rows
    BY DEF Base, PageTyped
  <2>4. /\ server[r] = 0 => Absent(shown, r)
        /\ server[r] # 0 => \E v : OnceAs(shown, r, v)
    <3>1. CASE \A d \in calls : ~Touches(d, r)
      <4>1. Agrees(shown, r)
        BY <2>1, <3>1 DEF ShowsRow
      <4> QED BY <2>2, <4>1, OnBell DEF Agrees, Matches
    <3>2. CASE \E d \in calls : Touches(d, r)
      <4>1. PICK d \in calls : Touches(d, r)
        BY <3>2
      <4>2. WriteShape(d) /\ Promise(d, r)
        BY <2>1, <4>1, BaseCalls DEF ShowsRow, Touches
      <4>3. d.op = "update" /\ d.undo = "snapshot" /\ d.ver = 1 /\ d.then = "replace"
        BY <2>1, <2>2, <4>2 DEF WriteShape, Marks, MarksAll
      <4>4. UpdateKept(d, r)
        BY <4>2, <4>3 DEF Promise
      <4> QED BY <2>2, <4>3, <4>4, OnBell DEF UpdateKept
    <3> QED BY <3>1, <3>2
  <2>5. /\ server[r] = 0 => Absent(shown', r)
        /\ server[r] # 0 => OnceAs(shown', r, 1)
    BY <2>2, <2>3, <2>4, AllReadRows, OnceAsIs
  <2> QED BY <1>0, <2>2, <2>5 DEF AllKept
<1> QED BY <1>2, <1>3, <1>4, <1>5 DEF Promise

(* All writes of the bell say 1, so that one does not undo another.        *)
LEMMA PromiseOnBell ==
  ASSUME page = "bell", page' = page, NEW d, NEW e, NEW r \in Ids, WriteShape(d), Promise(d, r),
         e.op = d.op, e.undo = d.undo, e.ver = d.ver, e.phase = d.phase,
         \/ server'[r] = 0 /\ server[r] = 0 /\ (Absent(shown, r) => Absent(shown', r))
         \/ /\ server'[r] = server[r] \/ server'[r] = 1
            /\ server[r] # 0 /\ server'[r] # 0
            /\ OnceAs(shown', r, 1)
  PROVE  Promise(e, r)'
<1>1. /\ d.ver = 1 /\ d.undo = "snapshot" /\ d.op \in {"update", "all"}
      /\ d.op = "update" => d.then = "replace"
  BY DEF WriteShape, Marks, MarksAll
<1>2. d.op = "update" => UpdateKept(e, r)'
  <2>1. d.op = "update" => UpdateKept(d, r)
    BY DEF Promise
  <2> QED BY <1>1, <2>1, OnBell DEF UpdateKept
<1>3. d.op = "all" => AllKept(e, r)'
  <2>1. d.op = "all" => AllKept(d, r)
    BY DEF Promise
  <2> QED BY <1>1, <2>1 DEF AllKept
<1> QED BY <1>1, <1>2, <1>3 DEF Promise

(* A handler sends c.                                                      *)
LEMMA BeginCarries ==
  ASSUME Base, NEW c \in CallType, Begin(c, RowsAhead(c), FigureAhead(c))
  PROVE  \E D : /\ Inherits(calls, D, {}) /\ calls' = D \cup {c}
                /\ UNCHANGED <<page, server, query, shownFor>> /\ shown' = RowsAhead(c)
                /\ aside' = FigureAhead(c) /\ disturbed' = disturbed \cup DisturbedBy(c)
                /\ \A d \in D : d.alone = FALSE
<1> PICK D : D = Accompanied(calls)
  OBVIOUS
<1>1. Inherits(calls, D, {})
  BY AccompaniedInherits DEF Base, PageTyped
<1>2. \A d \in D : d.alone = FALSE
  BY <1>1 DEF Inherits, From, Heir
<1>3. calls' = D \cup {c}
  BY DEF Begin
<1>4. /\ UNCHANGED <<page, server, query, shownFor>> /\ shown' = RowsAhead(c)
      /\ aside' = FigureAhead(c) /\ disturbed' = disturbed \cup DisturbedBy(c)
  BY DEF Begin
<1> QED BY <1>1, <1>2, <1>3, <1>4

LEMMA RowBegin ==
  ASSUME Base, RowsKnown, QueryKnown, page # "none", NEW c \in CallType, Offered(c),
         Begin(c, RowsAhead(c), FigureAhead(c)), NEW r \in Ids, r \notin disturbed'
  PROVE  RowKnown(r)'
<1> PICK D : /\ Inherits(calls, D, {}) /\ calls' = D \cup {c}
             /\ UNCHANGED <<page, server, query, shownFor>> /\ shown' = RowsAhead(c)
             /\ aside' = FigureAhead(c) /\ disturbed' = disturbed \cup DisturbedBy(c)
             /\ \A d \in D : d.alone = FALSE
  BY BeginCarries
<1>1. /\ WriteShape(c) /\ IsWrite(c) /\ c.phase = "sent" /\ c.alone = (calls = {})
      /\ (c.undo # "keep" => c.seen = shown) /\ ~Live(c)
  BY OfferedShape DEF Base, Offered, NewCall, Live, IsWrite
<1>2. RowKnown(r) /\ r \notin disturbed \cup DisturbedBy(c)
  BY DEF RowsKnown
<1>3. \A d \in D : \E b \in calls : From(d, b, {})
  BY DEF Inherits
<1>4. ~ListsRows({})
  BY DEF ListsRows
<1>5. AnswersRow(r)'
  <2> SUFFICES ASSUME NEW d \in calls', Awaited(d), d.phase = "answered"
               PROVE  Matches(d.got, r, Says(server, d.query, r)')
    BY DEF AnswersRow, Awaited, Fetches
  <2>1. d \in D
    BY <1>1
  <2>2. PICK b \in calls : From(d, b, {})
    BY <1>3, <2>1
  <2>3. Awaited(b) /\ b.phase = "answered" /\ d.got = b.got /\ d.query = b.query
    BY <1>4, <2>2, FromFields DEF From, Heir
  <2> PICK q : q = d.query
    OBVIOUS
  <2>4. Says(server, q, r)' = Says(server, q, r)
    BY DEF Says, Lists, Under, Fits
  <2> QED BY <1>2, <2>3, <2>4 DEF RowKnown, AnswersRow
<1>6. ASSUME NEW b \in calls, Touches(b, r), Touches(c, r)
      PROVE  page = "bell" /\ c.op = "all"
  <2>1. c.op = "all"
    BY <1>1, <1>2, <1>6, NothingElse
  <2> QED BY <1>1, <2>1, WritesAre
<1>7. ASSUME NEW b \in calls, Fetches(b) PROVE ~Touches(c, r)
  BY <1>1, <1>2, <1>7, NothingElse
<1>8. ASSUME NEW b \in calls, Touches(b, r) PROVE ~Fetches(c)
  <2> SUFFICES ASSUME Fetches(c) PROVE FALSE
    OBVIOUS
  <2> PICK S : S = UNION {Touched(d) : d \in {e \in calls : IsWrite(e)}}
    OBVIOUS
  <2>1. r \in S
    BY <1>8 DEF Touches
  <2>2. S \subseteq DisturbedBy(c)
    BY DEF DisturbedBy
  <2> QED BY <1>2, <2>1, <2>2
<1>9. ApartFrom(r)'
  <2> SUFFICES ASSUME NEW d \in calls', NEW e \in calls', Touches(d, r), Fetches(e) PROVE d = e
    BY DEF ApartFrom, Touches, IsWrite, Touched, Fetches, All
  <2> SUFFICES ASSUME d # e PROVE FALSE
    OBVIOUS
  <2>1. CASE d \in D /\ e \in D
    <3>1. PICK a, b \in calls : a # b /\ From(d, a, {}) /\ From(e, b, {})
      BY <2>1 DEF Inherits
    <3>2. Touches(a, r) /\ Fetches(b)
      BY <3>1, FromFields
    <3> QED BY <1>2, <3>1, <3>2 DEF RowKnown, ApartFrom
  <2>2. CASE d = c /\ e \in D
    <3>1. PICK b \in calls : From(e, b, {})
      BY <1>3, <2>2
    <3> QED BY <1>7, <2>2, <3>1, FromFields
  <2>3. CASE d \in D /\ e = c
    <3>1. PICK b \in calls : From(d, b, {})
      BY <1>3, <2>3
    <3> QED BY <1>8, <2>3, <3>1, FromFields
  <2> QED BY <2>1, <2>2, <2>3
<1>10. OneToucher(r)'
  <2> SUFFICES ASSUME NEW d \in calls', NEW e \in calls', Touches(d, r), Touches(e, r), d # e
               PROVE  page = "bell"
    BY DEF OneToucher, Touches, IsWrite, Touched, All
  <2>1. CASE d \in D /\ e \in D
    <3>1. PICK a, b \in calls : a # b /\ From(d, a, {}) /\ From(e, b, {})
      BY <2>1 DEF Inherits
    <3>2. Touches(a, r) /\ Touches(b, r)
      BY <3>1, FromFields
    <3> QED BY <1>2, <3>1, <3>2 DEF RowKnown, OneToucher
  <2>2. CASE ~(d \in D /\ e \in D)
    <3>1. PICK f \in D : Touches(f, r) /\ Touches(c, r)
      BY <2>2
    <3>2. PICK b \in calls : From(f, b, {})
      BY <1>3
    <3> QED BY <1>6, <3>1, <3>2, FromFields
  <2> QED BY <2>1, <2>2
<1>14. Unmoved(r) /\ Due(r)' = Due(r)
  BY UnmovedIs DEF Unmoved
<1>11. SnapsRow(r)'
  <2> SUFFICES ASSUME NEW d \in calls', d.alone, d.undo = "snapshot"
               PROVE  Matches(d.seen, r, Due(r)')
    BY DEF SnapsRow, Agrees, Touches, IsWrite, Touched, All
  <2>1. d = c
    OBVIOUS
  <2>2. calls = {} /\ c.seen = shown
    BY <1>1, <2>1
  <2>3. Agrees(shown, r)
    BY <1>2, <2>2 DEF RowKnown, ShowsRow
  <2> QED BY <1>14, <2>1, <2>2, <2>3 DEF Agrees
<1>12. CASE Touches(c, r)
  <2>1. /\ \A d \in calls : ~Live(d)
        /\ ShowsRow(r)
    BY <1>1, <1>2, <1>12, NothingElse
  <2>2. Promise(c, r)'
    BY <1>2, <1>12, PromiseGiven
  <2>3. ASSUME NEW d \in D, Touches(d, r) PROVE Promise(d, r)'
    <3>1. PICK b \in calls : From(d, b, {})
      BY <1>3
    <3>2. Touches(b, r)
      BY <2>3, <3>1, FromFields
    <3>3. page = "bell" /\ c.op = "all" /\ c.ver = 1
      BY <1>1, <1>6, <1>12, <3>2, WritesAre
    <3>4. Promise(b, r) /\ WriteShape(b)
      BY <2>1, <3>2, BaseCalls DEF ShowsRow, Touches
    <3>5. AllKept(c, r)'
      BY <2>2, <3>3 DEF Promise
    <3>6. \/ server'[r] = 0 /\ server[r] = 0 /\ (Absent(shown, r) => Absent(shown', r))
          \/ server'[r] = server[r] /\ server[r] # 0 /\ server'[r] # 0 /\ OnceAs(shown', r, 1)
      BY <3>3, <3>5 DEF AllKept
    <3> QED BY <3>1, <3>3, <3>4, <3>6, PromiseOnBell DEF From, Heir
  <2>4. ShowsRow(r)'
    <3> SUFFICES ASSUME TRUE
                 PROVE  /\ ~(\A d \in calls' : ~Touches(d, r))
                        /\ \A d \in calls' : Touches(d, r) => Promise(d, r)'
      BY DEF ShowsRow, Live, Touches, IsWrite, Touched, All
    <3>1. c \in calls'
      OBVIOUS
    <3>2. ASSUME NEW d \in calls', Touches(d, r) PROVE Promise(d, r)'
      BY <2>2, <2>3, <3>2
    <3> QED BY <1>12, <3>1, <3>2
  <2> QED BY <1>5, <1>9, <1>10, <1>11, <2>4 DEF RowKnown
<1>13. CASE ~Touches(c, r)
  <2>1. SameRow(shown, shown', r)
    BY <1>1, <1>13, AheadElsewhere
  <2>2. ShowsRow(r)'
    <3> SUFFICES ASSUME \A d \in calls' : ~Live(d)
                 PROVE  /\ (\A d \in calls' : ~Touches(d, r)) => Matches(shown', r, Due(r)')
                        /\ \A d \in calls' : Touches(d, r) => Promise(d, r)'
      BY DEF ShowsRow, Agrees, Live, Touches, IsWrite, Touched, All
    <3>1. ASSUME NEW b \in calls PROVE ~Live(b)
      <4> PICK d \in D : From(d, b, {})
        BY DEF Inherits
      <4> QED BY <1>4, FromFields
    <3>2. ASSUME \A d \in calls' : ~Touches(d, r) PROVE Matches(shown', r, Due(r)')
      <4>1. ASSUME NEW b \in calls PROVE ~Touches(b, r)
        <5> PICK d \in D : From(d, b, {})
          BY DEF Inherits
        <5> QED BY <3>2, FromFields
      <4>2. Agrees(shown, r)
        BY <1>2, <3>1, <4>1 DEF RowKnown, ShowsRow
      <4> QED BY <1>14, <2>1, <4>2, SameRowsAgree
    <3>3. ASSUME NEW d \in calls', Touches(d, r) PROVE Promise(d, r)'
      <4>1. PICK b \in calls : From(d, b, {})
        BY <1>3, <1>13, <3>3
      <4>2. Promise(b, r)
        BY <1>2, <3>1, <3>3, <4>1, FromFields DEF RowKnown, ShowsRow
      <4> QED BY <1>14, <2>1, <4>1, <4>2, PromiseKept DEF From, Heir
    <3> QED BY <3>2, <3>3
  <2> QED BY <1>5, <1>9, <1>10, <1>11, <2>2 DEF RowKnown
<1> QED BY <1>12, <1>13

(* Only what a call touches changes when the server serves it.             *)
LEMMA ServeElsewhere ==
  ASSUME Base, NEW c \in calls, NEW d, NEW table, NEW got, ServeIs(c, d, table, got),
         NEW r \in Ids, ~Touches(c, r)
  PROVE  server'[r] = server[r]
<1>1. CASE ~IsWrite(c)
  BY <1>1 DEF ServeIs
<1>2. CASE IsWrite(c)
  <2>1. c.op # "all" /\ c.id # r /\ c.op \in {"create", "update", "delete"}
    BY <1>2, TouchedIs, BaseCalls, WritesAre DEF Touches
  <2>2. table[r] = IF r = c.id THEN c.ver ELSE server[r]
    BY <2>1 DEF ServeIs
  <2> QED BY <2>1, <2>2 DEF ServeIs
<1> QED BY <1>1, <1>2

LEMMA PromiseServed ==
  ASSUME Base, NEW c \in calls, NEW d, NEW table \in [Ids -> Versions \cup {0}], NEW got,
         ServeIs(c, d, table, got), NEW r \in Ids, Touches(c, r), Promise(c, r)
  PROVE  Promise(d, r)'
<1>1. /\ c.phase = "sent" /\ d.phase = "answered" /\ d.op = c.op /\ d.undo = c.undo
      /\ d.ver = c.ver /\ d.then = c.then /\ server' = table
      /\ UNCHANGED <<page, shown, shownFor>> /\ WriteShape(c) /\ IsWrite(c)
  BY BaseCalls DEF ServeIs, Served, Touches
<1>6. Belongs(r)' = Belongs(r)
  BY <1>1 DEF Belongs, Under
<1>2. c.op = "create" => CreateKept(d, r)'
  <2> SUFFICES ASSUME c.op = "create" PROVE CreateKept(d, r)'
    OBVIOUS
  <2>1. c.id = r /\ table[r] = c.ver
    BY TouchedIs DEF ServeIs, Touches
  <2>2. CreateKept(c, r)
    BY DEF Promise
  <2> QED BY <1>1, <1>6, <2>1, <2>2 DEF CreateKept
<1>3. c.op = "update" => UpdateKept(d, r)'
  <2> SUFFICES ASSUME c.op = "update" PROVE UpdateKept(d, r)'
    OBVIOUS
  <2>1. c.id = r /\ table[r] = c.ver /\ server[r] # 0
    BY TouchedIs DEF ServeIs, Touches
  <2>2. UpdateKept(c, r)
    BY DEF Promise
  <2>3. server[r] \in Versions
    BY <2>1 DEF Base, PageTyped
  <2>4. IsListed(r) => Due(r) = server[r]
    BY DueOf
  <2> QED BY <1>1, <1>6, <2>1, <2>2, <2>3, <2>4 DEF UpdateKept, Agrees, Matches
<1>4. c.op = "delete" => DeleteKept(d, r)'
  <2> SUFFICES ASSUME c.op = "delete" PROVE DeleteKept(d, r)'
    OBVIOUS
  <2>1. c.id = r /\ table[r] = 0
    BY <1>1, WritesAre, TouchedIs DEF ServeIs, Touches
  <2>2. DeleteKept(c, r)
    BY DEF Promise
  <2> QED BY <1>1, <2>1, <2>2 DEF DeleteKept
<1>5. c.op = "all" => AllKept(d, r)'
  <2> SUFFICES ASSUME c.op = "all" PROVE AllKept(d, r)'
    OBVIOUS
  <2>1. table[r] = IF server[r] = 0 THEN 0 ELSE c.ver
    BY DEF ServeIs
  <2>2. AllKept(c, r) /\ c.ver = 1
    BY <1>1, WritesAre DEF Promise
  <2> QED BY <1>1, <2>1, <2>2 DEF AllKept
<1> QED BY <1>1, <1>2, <1>3, <1>4, <1>5 DEF Promise

(* Another write of the bell is served.                                    *)
LEMMA PromiseBeside ==
  ASSUME Base, page = "bell", NEW c \in calls, NEW d, NEW table \in [Ids -> Versions \cup {0}],
         NEW got, ServeIs(c, d, table, got), NEW r \in Ids, Touches(c, r), Promise(c, r),
         NEW e \in calls, Touches(e, r), Promise(e, r)
  PROVE  Promise(e, r)'
<1>1. /\ c.phase = "sent" /\ server' = table /\ shown' = shown /\ page' = page
      /\ WriteShape(c) /\ WriteShape(e)
  BY BaseCalls DEF ServeIs, Touches
<1>2. CASE c.op = "update"
  <2>1. c.id = r /\ table[r] = c.ver /\ server[r] # 0 /\ c.ver = 1 /\ c.undo = "snapshot"
    BY <1>1, <1>2, TouchedIs DEF ServeIs, Touches, WriteShape, Marks, MarksAll
  <2>2. OnceAs(shown, r, 1)
    BY <1>2, <2>1 DEF Promise, UpdateKept
  <2> QED BY <1>1, <2>1, <2>2, PromiseOnBell
<1>3. CASE c.op = "all"
  <2>1. table[r] = (IF server[r] = 0 THEN 0 ELSE 1) /\ AllKept(c, r) /\ c.ver = 1
    BY <1>1, <1>3, WritesAre DEF ServeIs, Promise
  <2> QED BY <1>1, <2>1, PromiseOnBell DEF AllKept
<1> QED BY <1>1, <1>2, <1>3 DEF WriteShape, Marks, MarksAll

LEMMA RowServe ==
  ASSUME Base, RowsKnown, LoneKnown, NEW c \in calls, Serve(c), NEW r \in Ids, r \notin disturbed'
  PROVE  RowKnown(r)'
<1> PICK table \in [Ids -> Versions \cup {0}], got \in Rows : \E d : ServeIs(c, d, table, got)
  BY ServeForm
<1> PICK d : ServeIs(c, d, table, got)
  OBVIOUS
<1>1. /\ calls' = Others(c) \cup {d} /\ Served(d, c, got, Derived(table, c.query))
      /\ server' = table /\ c.phase = "sent" /\ UNCHANGED <<page, shown, shownFor, disturbed>>
  BY DEF ServeIs
<1>2. RowKnown(r)
  BY <1>1 DEF RowsKnown
<1>3. /\ IsWrite(c) <=> IsWrite(d)
      /\ Fetches(c) <=> Fetches(d)
      /\ Touches(c, r) <=> Touches(d, r)
      /\ Live(c) <=> Live(d)
      /\ Awaited(c) <=> Awaited(d)
  BY <1>1, ServedKeeps
<1>4. \A b \in Others(c) : b \in calls /\ b # c
  BY DEF Others
<1>5. \A b \in calls : b = c \/ b \in Others(c)
  BY DEF Others
<1>6. ~Touches(c, r) => Unmoved(r) /\ Due(r)' = Due(r) /\ server'[r] = server[r]
  BY <1>1, ServeElsewhere, UnmovedIs DEF Unmoved
<1>7. AnswersRow(r)'
  <2> SUFFICES ASSUME NEW e \in calls', Awaited(e), e.phase = "answered"
               PROVE  Matches(e.got, r, Says(server, e.query, r)')
    BY DEF AnswersRow, Awaited, Fetches
  <2> PICK q : q = e.query
    OBVIOUS
  <2>1. CASE e \in Others(c)
    <3>1. e \in calls /\ e # c
      BY <1>4, <2>1
    <3>2. ~Touches(c, r)
      BY <1>2, <3>1 DEF RowKnown, ApartFrom, Awaited
    <3>3. Says(server, q, r)' = Says(server, q, r)
      BY <1>1, <1>6, <3>2 DEF Says, Lists, Under, Fits
    <3> QED BY <1>2, <3>1, <3>3 DEF RowKnown, AnswersRow
  <2>2. CASE e = d
    <3>1. Fetches(c) /\ e.got = got /\ q = c.query
      BY <1>1, <1>3, <2>2 DEF Awaited, Served
    <3>2. got = Listing(table, q)
      <4>1. CASE ~IsWrite(c)
        BY <1>1, <3>1, <4>1 DEF ServeIs
      <4>2. CASE IsWrite(c)
        <5>1. page \in {"conversation", "contract"} /\ WriteShape(c)
          BY <3>1, <4>2, BaseCalls, WritesAre DEF Fetches, IsWrite
        <5>2. c.op \in {"create", "update"}
          BY <5>1, WritesAre
        <5> QED BY <3>1, <5>2 DEF ServeIs
      <4> QED BY <4>1, <4>2
    <3>3. Says(server, q, r)' = Says(table, q, r)
      BY <1>1 DEF Says, Lists, Under, Fits
    <3> QED BY <1>1, <3>1, <3>2, <3>3, ListingMatches
  <2> QED BY <1>1, <2>1, <2>2
<1>8. ApartFrom(r)'
  <2> SUFFICES ASSUME NEW e \in calls', NEW f \in calls', Touches(e, r), Fetches(f) PROVE e = f
    BY DEF ApartFrom, Touches, IsWrite, Touched, Fetches, All
  <2> QED BY <1>1, <1>2, <1>3, <1>4 DEF RowKnown, ApartFrom
<1>9. OneToucher(r)'
  <2> SUFFICES ASSUME NEW e \in calls', NEW f \in calls', Touches(e, r), Touches(f, r)
               PROVE  e = f \/ page = "bell"
    BY <1>1 DEF OneToucher, Touches, IsWrite, Touched, All
  <2> QED BY <1>1, <1>2, <1>3, <1>4 DEF RowKnown, OneToucher
<1>10. SnapsRow(r)'
  <2> SUFFICES ASSUME NEW e \in calls', e.alone, e.undo = "snapshot",
                      e.phase = "sent" \/ ~Touches(e, r)
               PROVE  Matches(e.seen, r, Due(r)')
    BY DEF SnapsRow, Agrees, Touches, IsWrite, Touched, All
  <2>1. e = d
    <3>1. ASSUME e \in Others(c) PROVE FALSE
      BY <1>4, <3>1 DEF LoneKnown, Lone
    <3> QED BY <1>1, <3>1
  <2>2. ~Touches(c, r) /\ c.alone /\ c.undo = "snapshot" /\ e.seen = c.seen
    BY <1>1, <1>3, <2>1 DEF Served
  <2> QED BY <1>1, <1>2, <1>6, <2>2 DEF RowKnown, SnapsRow, Agrees
<1>11. ShowsRow(r)'
  <2> SUFFICES ASSUME \A e \in calls' : ~Live(e)
               PROVE  /\ (\A e \in calls' : ~Touches(e, r)) => Matches(shown, r, Due(r)')
                      /\ \A e \in calls' : Touches(e, r) => Promise(e, r)'
    BY <1>1 DEF ShowsRow, Agrees, Live, Touches, IsWrite, Touched, All
  <2>1. \A b \in calls : ~Live(b)
    BY <1>1, <1>3, <1>5
  <2>2. ASSUME \A e \in calls' : ~Touches(e, r) PROVE Matches(shown, r, Due(r)')
    <3>1. \A b \in calls : ~Touches(b, r)
      BY <1>1, <1>3, <1>5, <2>2
    <3> QED BY <1>2, <1>6, <2>1, <3>1 DEF RowKnown, ShowsRow, Agrees
  <2>3. ASSUME NEW e \in calls', Touches(e, r) PROVE Promise(e, r)'
    <3>1. CASE e = d
      <4>1. Touches(c, r) /\ Promise(c, r)
        BY <1>2, <1>3, <2>1, <2>3, <3>1 DEF RowKnown, ShowsRow
      <4> QED BY <3>1, <4>1, PromiseServed
    <3>2. CASE e \in Others(c)
      <4>1. e \in calls /\ e # c /\ Promise(e, r)
        BY <1>2, <1>4, <2>1, <2>3, <3>2 DEF RowKnown, ShowsRow
      <4>2. CASE ~Touches(c, r)
        BY <1>1, <1>6, <4>1, <4>2, PromiseKept, SameRowItself
      <4>3. CASE Touches(c, r)
        <5>1. page = "bell" /\ Promise(c, r)
          BY <1>2, <2>1, <2>3, <4>1, <4>3 DEF RowKnown, OneToucher, ShowsRow
        <5> QED BY <2>3, <4>1, <4>3, <5>1, PromiseBeside
      <4> QED BY <4>2, <4>3
    <3> QED BY <1>1, <3>1, <3>2
  <2> QED BY <2>2, <2>3
<1> QED BY <1>7, <1>8, <1>9, <1>10, <1>11 DEF RowKnown

(* A call ends, and no other starts.                                       *)
LEMMA EndCarries ==
  ASSUME Base, NEW c \in calls, calls' = Accompanied(Others(c))
  PROVE  \E C, D, K, loads : Carried(C, D, K, loads) /\ ~ListsRows(loads) /\ C = Others(c)
<1> PICK C : C = Others(c)
  OBVIOUS
<1> PICK D : D = Accompanied(Others(c))
  OBVIOUS
<1> PICK K : K = {}
  OBVIOUS
<1> PICK loads : loads = {}
  OBVIOUS
<1>1. Inherits(C, D, loads) /\ C \subseteq calls
  BY EndInherits
<1>2. ~ListsRows(loads)
  BY DEF ListsRows
<1>3. Carried(C, D, K, loads)
  BY <1>1 DEF Carried
<1> QED BY <1>2, <1>3

(* What must hold of r when c ends.                                        *)
EndsWell(c, r) ==
  \/ ~Live(c) /\ ~Touches(c, r) /\ shownFor' = shownFor /\ SameRow(shown, shown', r)
  \/ (\A b \in Others(c) : ~Touches(b, r)) /\ Matches(shown', r, Due(r)')
  \/ /\ \A b \in calls : ~Live(b)
     /\ shownFor' = shownFor /\ SameRow(shown, shown', r) /\ Matches(shown', r, Due(r)')
  \/ page = "bell" /\ (\A b \in calls : ~Live(b)) /\ server[r] = 1 /\ OnceAs(shown', r, 1)

LEMMA RowEnds ==
  ASSUME Base, NEW r \in Ids, RowKnown(r), NEW c \in calls, page' = page, server' = server,
         NEW C, NEW D, NEW K, NEW loads, Carried(C, D, K, loads), ~ListsRows(loads), C = Others(c),
         EndsWell(c, r)
  PROVE  RowKnown(r)'
<1>0. /\ C \subseteq calls /\ Inherits(C, D, loads) /\ calls' = D \cup K
      /\ \A k \in K : ~Fetches(k) /\ ~IsWrite(k) /\ ~Live(k) /\ k.alone = FALSE
  BY DEF Carried
<1>1. AnswersRow(r)' /\ ApartFrom(r)' /\ OneToucher(r)' /\ SnapsRow(r)'
  BY RowCarried
<1>2. ASSUME NEW d \in calls', Touches(d, r)
      PROVE  \E b \in Others(c) : From(d, b, loads) /\ Touches(b, r)
  <2>1. d \in D
    BY <1>0, <1>2 DEF Touches
  <2>2. PICK b \in C : From(d, b, loads)
    BY <1>0, <2>1 DEF Inherits
  <2> QED BY <1>2, <2>2, FromFields
<1>3. CASE ~Live(c) /\ ~Touches(c, r) /\ shownFor' = shownFor /\ SameRow(shown, shown', r)
  <2>1. \A b \in calls : b \in C \/ (~Live(b) /\ ~Touches(b, r))
    BY <1>3 DEF Others
  <2>2. Unmoved(r)
    BY <1>3 DEF Unmoved
  <2> QED BY <1>3, <2>1, <2>2, RowKept
<1>4. CASE (\A b \in Others(c) : ~Touches(b, r)) /\ Matches(shown', r, Due(r)')
  <2>1. \A d \in calls' : ~Touches(d, r)
    BY <1>2, <1>4
  <2>2. Agrees(shown, r)'
    BY <1>4 DEF Agrees
  <2>3. ShowsRow(r)'
    BY <2>1, <2>2 DEF ShowsRow, Touches, IsWrite, Touched, All, Agrees
  <2> QED BY <1>1, <2>3 DEF RowKnown
<1>5. ASSUME \A b \in calls : ~Live(b), Matches(shown', r, Due(r)'),
             \/ shownFor' = shownFor /\ SameRow(shown, shown', r)
             \/ page = "bell" /\ server[r] = 1 /\ OnceAs(shown', r, 1)
      PROVE  RowKnown(r)'
  <2>1. ASSUME NEW d \in calls', Touches(d, r) PROVE Promise(d, r)'
    <3>1. PICK b \in Others(c) : From(d, b, loads) /\ Touches(b, r)
      BY <1>2, <2>1
    <3>2. b \in calls
      BY DEF Others
    <3>3. Promise(b, r) /\ WriteShape(b)
      BY <1>5, <3>1, <3>2, BaseCalls DEF RowKnown, ShowsRow, Touches
    <3>4. CASE shownFor' = shownFor /\ SameRow(shown, shown', r)
      <4>1. Unmoved(r)
        BY <3>4 DEF Unmoved
      <4> QED BY <3>1, <3>3, <3>4, <4>1, PromiseKept DEF From, Heir
    <3>5. CASE page = "bell" /\ server[r] = 1 /\ OnceAs(shown', r, 1)
      <4>1. server'[r] = server[r] /\ server[r] # 0 /\ server'[r] # 0
        BY <3>5
      <4> QED BY <3>1, <3>3, <3>5, <4>1, PromiseOnBell DEF From, Heir
    <3> QED BY <1>5, <3>4, <3>5
  <2>2. Matches(shown', r, Due(r)')
    BY <1>5
  <2>3. ShowsRow(r)'
    <3> SUFFICES ASSUME TRUE
                 PROVE  /\ Matches(shown', r, Due(r)')
                        /\ \A d \in calls' : Touches(d, r) => Promise(d, r)'
      BY DEF ShowsRow, Touches, IsWrite, Touched, All, Agrees
    <3> QED BY <2>1, <2>2
  <2> QED BY <1>1, <2>3 DEF RowKnown
<1>6. CASE /\ \A b \in calls : ~Live(b)
           /\ shownFor' = shownFor /\ SameRow(shown, shown', r) /\ Matches(shown', r, Due(r)')
  BY <1>5, <1>6
<1>7. CASE page = "bell" /\ (\A b \in calls : ~Live(b)) /\ server[r] = 1 /\ OnceAs(shown', r, 1)
  <2>1. Matches(shown', r, Due(r)')
    BY <1>7, OnBell DEF Matches
  <2> QED BY <1>5, <1>7, <2>1
<1> QED BY <1>3, <1>4, <1>6, <1>7 DEF EndsWell

LEMMA RowEnd ==
  ASSUME Base, NEW r \in Ids, RowKnown(r), NEW c \in calls, calls' = Accompanied(Others(c)),
         page' = page, server' = server, EndsWell(c, r)
  PROVE  RowKnown(r)'
BY EndCarries, RowEnds

(* A list that is shown is what the server has for its query.              *)
LEMMA AnswerShown ==
  ASSUME NEW q, NEW r, NEW rows, Matches(rows, r, Says(server, q, r)),
         page' = page, server' = server, shown' = rows, shownFor' = q
  PROVE  Matches(shown', r, Due(r)')
<1>1. Due(r)' = Says(server, q, r)
  BY DEF Due, Says, Lists, Under, Fits
<1> QED BY <1>1

LEMMA RowLoaded ==
  ASSUME Base, RowsKnown, NEW c \in calls,
         Loaded(c) \/ LoadFailed(c) \/ FigureLoaded(c) \/ FigureFailed(c),
         NEW r \in Ids, r \notin disturbed'
  PROVE  RowKnown(r)'
<1>1. /\ calls' = Accompanied(Others(c)) /\ page' = page /\ server' = server
      /\ disturbed \subseteq disturbed' /\ ~IsWrite(c)
  BY DEF Loaded, LoadFailed, FigureLoaded, FigureFailed, IsWrite
<1>2. RowKnown(r) /\ ~Touches(c, r)
  BY <1>1 DEF RowsKnown, Touches
<1>3. CASE Loaded(c) /\ ~Stale(c)
  <2>1. /\ shown' = c.got /\ shownFor' = c.query
        /\ Awaited(c) /\ c.phase = "answered" /\ Fetches(c)
    BY <1>3 DEF Loaded, Stale, Awaited, Fetches
  <2>2. Matches(shown', r, Due(r)')
    BY <1>1, <1>2, <2>1, AnswerShown DEF RowKnown, AnswersRow
  <2>3. \A b \in Others(c) : ~Touches(b, r)
    BY <1>2, <2>1 DEF RowKnown, ApartFrom, Others
  <2> QED BY <1>1, <1>2, <2>2, <2>3, RowEnd DEF EndsWell
<1>4. CASE ~(Loaded(c) /\ ~Stale(c))
  <2>1. shown' = shown /\ shownFor' = shownFor
    BY <1>4 DEF Loaded, LoadFailed, FigureLoaded, FigureFailed
  <2>2. ~Live(c)
    <3>1. LoadFailed(c) => Stale(c)
      BY DEF LoadFailed
    <3> QED BY <1>4, <3>1 DEF Live, Stale, FigureLoaded, FigureFailed
  <2> QED BY <1>1, <1>2, <2>1, <2>2, RowEnd, SameRowItself DEF EndsWell
<1> QED BY <1>3, <1>4

(* A write fails.                                                          *)
LEMMA UndoneElsewhere ==
  ASSUME Base, NEW c \in calls, IsWrite(c), c.undo # "snapshot", NEW r \in Ids, ~Touches(c, r)
  PROVE  SameRow(shown, RowsAfterFailure(c), r)
<1> PICK k : k = IndexOf(c.id, c.seen)
  OBVIOUS
<1>1. c.id # r /\ shown \in Rows /\ c.undo \in Undos
  BY TouchedIs, BaseCalls, WritesAre DEF Touches, Base, PageTyped
<1>2. c.undo \in {"restore", "splice"} =>
         c.seen[k] \in RowType /\ c.seen[k].id = c.id /\ k \in Nat \ {0}
  BY UndoneRows
<1>3. CASE c.undo = "restore"
  <2>1. SameRow(shown, Replaced(shown, c.seen[k]), r)
    BY <1>1, <1>2, <1>3, ReplacedRows
  <2> QED BY <1>3, <2>1 DEF RowsAfterFailure
<1>4. CASE c.undo = "splice"
  <2>1. PICK j : Inserted(shown, InsertedAt(shown, k, c.seen[k]), j, c.seen[k])
    BY <1>1, <1>2, <1>4, InsertedAtRows
  <2>2. SameRow(shown, InsertedAt(shown, k, c.seen[k]), r)
    BY <1>1, <1>2, <1>4, <2>1, InsertedRows
  <2> QED BY <1>4, <2>2 DEF RowsAfterFailure
<1>5. CASE c.undo = "drop"
  BY <1>1, <1>5, WithoutRows DEF RowsAfterFailure
<1>6. CASE c.undo = "keep"
  BY <1>6, SameRowItself DEF RowsAfterFailure
<1> QED BY <1>1, <1>3, <1>4, <1>5, <1>6 DEF Undos

LEMMA UndoneHere ==
  ASSUME Base, NEW c \in calls, IsWrite(c), c.undo # "snapshot", NEW r \in Ids, Touches(c, r),
         c.phase = "sent", Promise(c, r)
  PROVE  Matches(RowsAfterFailure(c), r, Due(r))
<1> PICK k : k = IndexOf(c.id, c.seen)
  OBVIOUS
<1>1. /\ shown \in Rows /\ c.undo \in Undos /\ WriteShape(c)
      /\ c.op \in {"create", "update", "delete"} /\ c.id = r
      /\ server[r] \in Versions \cup {0}
  BY TouchedIs, BaseCalls, WritesAre DEF Touches, Base, PageTyped
<1>2. c.undo \in {"restore", "splice"} =>
         /\ c.seen[k] \in RowType /\ c.seen[k].id = c.id /\ k \in Nat \ {0} /\ k \in DOMAIN c.seen
  BY UndoneRows
<1>3. CASE c.undo = "keep"
  <2>1. Agrees(shown, r)
    BY <1>1, <1>3, DueOf DEF Promise, CreateKept, UpdateKept, DeleteKept, Agrees, Matches
  <2> QED BY <1>3, <2>1 DEF RowsAfterFailure, Agrees
<1>4. CASE c.undo = "drop"
  <2>1. server[r] = 0
    BY <1>1, <1>4, WritesAre DEF Promise, CreateKept
  <2>2. Absent(Without(shown, c.id), r)
    BY <1>1, WithoutRows
  <2> QED BY <1>4, <2>1, <2>2, DueOf DEF RowsAfterFailure, Matches
<1>5. CASE c.undo \in {"restore", "splice"}
  <2>1. /\ server[r] # 0 /\ Agrees(c.seen, r) /\ Due(r) = server[r]
        /\ c.undo = "restore" => OnceAs(shown, r, c.ver)
        /\ c.undo = "splice" => Absent(shown, r)
    BY <1>1, <1>5, WritesAre, DueOf DEF Promise, UpdateKept, DeleteKept
  <2>2. c.seen[k] = Row(r, server[r])
    <3>1. OnceAs(c.seen, r, server[r]) /\ c.seen[k].id = r /\ k \in DOMAIN c.seen
      BY <1>1, <1>2, <1>5, <2>1 DEF Agrees, Matches
    <3>2. k = IndexOf(r, c.seen)
      BY <1>1
    <3> QED BY <3>1, <3>2, IndexOfIs
  <2> PICK row \in RowType : row = c.seen[k] /\ row.id = r /\ row.ver = server[r]
    BY <1>1, <1>2, <1>5, <2>2, RowFields
  <2>3. CASE c.undo = "restore"
    <3>1. OnceAs(Replaced(shown, row), r, server[r])
      BY <1>1, <2>1, <2>3, OnceAsIs, ReplacedRows
    <3> QED BY <2>1, <2>3, <3>1 DEF RowsAfterFailure, Matches
  <2>4. CASE c.undo = "splice"
    <3>1. PICK j : Inserted(shown, InsertedAt(shown, k, row), j, row)
      BY <1>1, <1>2, <2>4, InsertedAtRows
    <3>2. OnceAs(InsertedAt(shown, k, row), r, server[r])
      BY <1>1, <2>1, <2>4, <3>1, InsertedRows
    <3> QED BY <2>1, <2>4, <3>2 DEF RowsAfterFailure, Matches
  <2> QED BY <1>5, <2>3, <2>4
<1> QED BY <1>1, <1>3, <1>4, <1>5 DEF Undos

LEMMA RowFailed ==
  ASSUME Base, RowsKnown, LoneKnown, NEW c \in calls, Failed(c), NEW r \in Ids, r \notin disturbed'
  PROVE  RowKnown(r)'
<1>1. /\ calls' = Accompanied(Others(c)) /\ UNCHANGED <<page, server, shownFor>> /\ IsWrite(c)
      /\ shown' = RowsAfterFailure(c) /\ r \notin disturbed
      /\ c.phase = "answered" => r \notin Touched(c)
      /\ c.undo = "snapshot" => c.alone
  <2>1. r \in All
    BY DEF All
  <2> QED BY <2>1 DEF Failed
<1>2. RowKnown(r) /\ c \in CallType /\ WriteShape(c)
  BY <1>1, BaseCalls DEF RowsKnown
<1>6. Due(r)' = Due(r)
  BY <1>1, UnmovedIs DEF Unmoved
<1>3. CASE c.undo = "snapshot"
  <2>1. calls = {c} /\ shown' = c.seen
    BY <1>1, <1>3 DEF LoneKnown, Lone, RowsAfterFailure
  <2>2. c.phase = "sent" \/ ~Touches(c, r)
    BY <1>1, <1>2 DEF CallType, Touches
  <2>3. Matches(shown', r, Due(r)')
    BY <1>1, <1>2, <1>3, <1>6, <2>1, <2>2 DEF RowKnown, SnapsRow, Agrees
  <2>4. \A b \in Others(c) : ~Touches(b, r)
    BY <2>1 DEF Others
  <2> QED BY <1>1, <1>2, <2>3, <2>4, RowEnd DEF EndsWell
<1>4. CASE c.undo # "snapshot" /\ ~Touches(c, r)
  <2>1. SameRow(shown, shown', r)
    BY <1>1, <1>4, UndoneElsewhere
  <2>2. ~Live(c)
    BY <1>1 DEF Live, IsWrite
  <2> QED BY <1>1, <1>2, <1>4, <2>1, <2>2, RowEnd DEF EndsWell
<1>5. CASE c.undo # "snapshot" /\ Touches(c, r)
  <2>1. c.phase = "sent"
    BY <1>1, <1>2, <1>5 DEF CallType, Touches
  <2>2. \A b \in calls : ~Live(b)
    BY <1>1, <1>2, <1>5 DEF RowKnown, ApartFrom, Live, Fetches, IsWrite
  <2>3. Promise(c, r)
    BY <1>2, <1>5, <2>2 DEF RowKnown, ShowsRow
  <2>4. Matches(shown', r, Due(r)')
    BY <1>1, <1>5, <1>6, <2>1, <2>3, UndoneHere
  <2>5. \A b \in Others(c) : ~Touches(b, r)
    <3>1. page # "bell"
      BY <1>2, <1>5, WritesAre
    <3> QED BY <1>2, <1>5, <3>1 DEF RowKnown, OneToucher, Others
  <2> QED BY <1>1, <1>2, <2>4, <2>5, RowEnd DEF EndsWell
<1> QED BY <1>3, <1>4, <1>5

(* A write's answer comes in.                                              *)
LEMMA AfterElsewhere ==
  ASSUME Base, NEW c \in calls, IsWrite(c), c.phase = "answered", c.then # "rows",
         NEW r \in Ids, ~Touches(c, r)
  PROVE  SameRow(shown, RowsAfter(c), r)
<1>1. /\ c.id # r /\ shown \in Rows /\ c.then \in Thens
      /\ c.then \in {"replace", "prepend", "append"} =>
           /\ c.got = <<Row(c.id, c.ver)>> /\ c.got[1] = Row(c.id, c.ver)
           /\ Row(c.id, c.ver) \in RowType
  BY TouchedIs, BaseCalls, WritesAre, DoneRows DEF Touches, Base, PageTyped
<1>2. CASE c.then \in {"replace", "prepend", "append"}
  <2> PICK row \in RowType : row = Row(c.id, c.ver) /\ row.id = c.id
    BY <1>1, <1>2, RowFields
  <2>1. c.got = <<row>> /\ c.got[1] = row
    BY <1>1, <1>2
  <2>2. SameRow(shown, Replaced(shown, row), r)
    BY <1>1, ReplacedRows
  <2>3. SameRow(shown, <<row>> \o shown, r) /\ SameRow(shown, shown \o <<row>>, r)
    BY <1>1, PutInRows, InsertedRows
  <2> QED BY <1>2, <2>1, <2>2, <2>3 DEF RowsAfter
<1>3. CASE c.then = "drop"
  BY <1>1, <1>3, WithoutRows DEF RowsAfter
<1>4. CASE c.then = "keep"
  BY <1>4, SameRowItself DEF RowsAfter
<1> QED BY <1>1, <1>2, <1>3, <1>4 DEF Thens

LEMMA BellDue == ASSUME page = "bell", NEW r \in Ids PROVE Due(r) = server[r]
BY DEF Due, Says, Lists, Under, Fits, ContractLists

LEMMA AfterHere ==
  ASSUME Base, NEW c \in calls, IsWrite(c), c.phase = "answered", c.then # "rows",
         c.then # "keep" \/ c.undo # "keep",
         NEW r \in Ids, Touches(c, r), Promise(c, r), r \notin Departed(c)
  PROVE  Matches(RowsAfter(c), r, Due(r))
<1>1. /\ shown \in Rows /\ c.then \in Thens /\ WriteShape(c)
      /\ c.then \in {"replace", "prepend", "append"} =>
           /\ c.got = <<Row(c.id, c.ver)>> /\ c.got[1] = Row(c.id, c.ver)
           /\ Row(c.id, c.ver) \in RowType
  BY BaseCalls, WritesAre, DoneRows DEF Base, PageTyped
<1>2. CASE c.op = "create"
  <2>1. c.id = r /\ c.then \in {"prepend", "append"} /\ c.undo = "keep"
    BY <1>1, <1>2, TouchedIs, WritesAre DEF Touches, Thens
  <2>2. server[r] = c.ver /\ Absent(shown, r) /\ c.ver \in Versions /\ Belongs(r) /\ c.ver = 1
    BY <1>1, <1>2, <2>1, WritesAre DEF Promise, CreateKept
  <2>5. IsListed(r)
    BY <2>2 DEF IsListed, Lists, Fits, Belongs
  <2> PICK row \in RowType : row = Row(c.id, c.ver) /\ row.id = r /\ row.ver = c.ver
    BY <1>1, <2>1, RowFields
  <2>3. OnceAs(<<row>> \o shown, r, c.ver) /\ OnceAs(shown \o <<row>>, r, c.ver)
    BY <1>1, <2>2, PutInRows, InsertedRows
  <2>4. OnceAs(RowsAfter(c), r, c.ver)
    BY <1>1, <2>1, <2>3 DEF RowsAfter
  <2> QED BY <2>2, <2>4, <2>5, DueOf DEF Matches, Versions
<1>3. CASE c.op = "update"
  <2>1. /\ c.id = r /\ c.ver \in Versions /\ server[r] = c.ver /\ c.then \in {"keep", "replace"}
        /\ \E v \in Versions : OnceAs(shown, r, v)
        /\ c.undo # "keep" => OnceAs(shown, r, c.ver)
        /\ Belongs(r)
    BY <1>1, <1>3, TouchedIs, WritesAre DEF Touches, Promise, UpdateKept, Thens
  <2>4. IsListed(r)
    <3>1. {"none", "figure"} \cap c.load # {}
      BY <1>1, FollowsWrite DEF Figure
    <3>2. Fits(shownFor, c.ver)
      BY <1>3, <2>1, <3>1 DEF Departed
    <3> QED BY <2>1, <3>2 DEF IsListed, Lists, Belongs, Versions
  <2> PICK row \in RowType : row = Row(c.id, c.ver) /\ row.id = r /\ row.ver = c.ver
    BY <2>1, RowTyped, RowFields
  <2>2. OnceAs(Replaced(shown, row), r, c.ver)
    BY <1>1, <2>1, OnceAsIs, ReplacedRows
  <2>3. OnceAs(RowsAfter(c), r, c.ver)
    BY <1>1, <2>1, <2>2 DEF RowsAfter
  <2> QED BY <2>1, <2>3, <2>4, DueOf DEF Matches, Versions
<1>4. CASE c.op = "delete"
  <2>1. c.id = r /\ server[r] = 0 /\ c.then \in {"keep", "drop"} /\ (c.undo # "keep" => Absent(shown, r))
    BY <1>1, <1>4, TouchedIs, WritesAre DEF Touches, Promise, DeleteKept, Thens
  <2>2. Absent(RowsAfter(c), r)
    <3>1. Absent(Without(shown, r), r)
      BY <1>1, WithoutRows
    <3>2. c.then = "keep" => RowsAfter(c) = shown
      BY DEF RowsAfter
    <3>3. c.then = "drop" => RowsAfter(c) = Without(shown, r)
      BY <2>1 DEF RowsAfter
    <3>4. c.then = "keep" => c.undo # "keep"
      OBVIOUS
    <3> QED BY <2>1, <3>1, <3>2, <3>3, <3>4
  <2> QED BY <2>1, <2>2, DueOf DEF Matches
<1>5. CASE c.op = "all"
  <2>1. RowsAfter(c) = shown /\ AllKept(c, r)
    BY <1>1, <1>5, WritesAre DEF RowsAfter, Promise
  <2>2. page = "bell"
    BY <1>1, <1>5, WritesAre
  <2> QED BY <2>1, <2>2, BellDue DEF AllKept, Matches
<1> QED BY <1>1, <1>2, <1>3, <1>4, <1>5, WritesAre

(* A write ends, and its load, if any, is the figure's.                    *)
LEMMA DoneShows ==
  ASSUME Base, NEW c \in calls, Done(c), NEW r \in Ids, RowKnown(r),
         c.then # "keep" \/ c.undo # "keep", r \notin Departed(c)
  PROVE  EndsWell(c, r)
<1>1. IsWrite(c) /\ c.phase = "answered" /\ shown' = RowsAfter(c) /\ WriteShape(c) /\ WriteSound(c)
  BY BaseCalls DEF Done
<1>5. page' = page /\ server' = server /\ shownFor' = IF Fetches(c) THEN c.query ELSE shownFor
  BY DEF Done
<1>6. c.then # "rows" => shownFor' = shownFor /\ Due(r)' = Due(r)
  BY <1>1, <1>5, UnmovedIs DEF Unmoved, Fetches, IsWrite
<1>2. CASE c.then = "rows"
  <2>1. shown' = c.got /\ Awaited(c) /\ shownFor' = c.query
    BY <1>1, <1>2, <1>5 DEF RowsAfter, Awaited, Fetches, WriteSound
  <2>2. Matches(shown', r, Due(r)')
    BY <1>1, <1>5, <2>1, AnswerShown DEF RowKnown, AnswersRow
  <2>3. \A b \in Others(c) : ~Touches(b, r)
    BY <2>1 DEF RowKnown, ApartFrom, Awaited, Others
  <2> QED BY <2>2, <2>3 DEF EndsWell
<1>3. CASE c.then # "rows" /\ ~Touches(c, r)
  BY <1>1, <1>3, <1>6, AfterElsewhere DEF EndsWell, Live, IsWrite
<1>4. CASE c.then # "rows" /\ Touches(c, r)
  <2>1. \A b \in calls : ~Live(b)
    BY <1>1, <1>4 DEF RowKnown, ApartFrom, Live, Fetches, IsWrite
  <2>2. Promise(c, r)
    BY <1>4, <2>1 DEF RowKnown, ShowsRow
  <2>3. Matches(shown', r, Due(r)')
    BY <1>1, <1>4, <1>6, <2>2, AfterHere
  <2>4. CASE page # "bell"
    BY <1>4, <2>3, <2>4 DEF RowKnown, OneToucher, Others, EndsWell
  <2>5. CASE page = "bell"
    <3>1. CASE c.op = "update"
      <4>1. c.ver = 1 /\ server[r] = 1
        BY <1>1, <2>2, <2>5, <3>1 DEF Promise, UpdateKept, WriteShape, Marks, MarksAll
      <4>2. Due(r)' = 1
        BY <1>4, <1>6, <2>5, <4>1, BellDue
      <4> QED BY <2>1, <2>3, <2>5, <4>1, <4>2 DEF Matches, EndsWell
    <3>2. CASE c.op = "all"
      <4>1. shown' = shown
        BY <1>1, <3>2, WritesAre DEF RowsAfter
      <4> QED BY <1>4, <1>6, <2>1, <2>3, <4>1, SameRowItself DEF EndsWell
    <3> QED BY <1>1, <2>5, <3>1, <3>2 DEF WriteShape, Marks, MarksAll
  <2> QED BY <2>4, <2>5
<1> QED BY <1>2, <1>3, <1>4

LEMMA ReloadsRows ==
  ASSUME NEW c, WriteShape(c)
  PROVE  \/ ListAfter(c.load) /\ "none" \notin c.load
         \/ (c.then # "keep" \/ c.undo # "keep") /\ "none" \in c.load
         \/ (c.then # "keep" \/ c.undo # "keep") /\ c.load \in {Figure, {"figure", "held"}}
BY DEF WriteShape, Creates, CreatesAhead, Updates, UpdatesAhead, Saves, Deletes, DeletesAhead,
       Marks, MarksAll, FigureAfter, ListAfter, NoLoad

(* The loads that follow a write.                                          *)
LEMMA DoneLoads ==
  ASSUME Base, page # "none", NEW c \in calls, Done(c), "none" \notin c.load
  PROVE  \E C, D, K, loads, q :
           /\ C = Others(c) /\ loads = {c.load}
           /\ q = (IF "held" \in c.load THEN c.query ELSE query) /\ Starts(C, D, K, loads, q)
           /\ OneFigure(K)
<1>1. c \in CallType /\ IsWrite(c) /\ WriteShape(c)
  BY BaseCalls DEF Done
<1> PICK C : C = Others(c)
  OBVIOUS
<1> PICK loads : loads = {c.load}
  OBVIOUS
<1> PICK q : q = IF "held" \in c.load THEN c.query ELSE query
  OBVIOUS
<1> PICK D : D = Superseded(Accompanied(Others(c)), loads)
  OBVIOUS
<1>2. PICK k : Following(c) = {k} /\ NewLoad(k, c.load, q)
  BY <1>1, FollowingIs DEF Base, PageTyped
<1> PICK K : K = {k}
  OBVIOUS
<1>3. Inherits(C, D, loads) /\ C \subseteq calls
  BY EndInherits
<1>4. calls' = D \cup K /\ DisturbedByLoads(loads, C) \subseteq disturbed'
  BY <1>2 DEF Done
<1>5. /\ \A j \in K : \E load \in loads : NewLoad(j, load, q)
      /\ \A load \in loads : \E j \in K : NewLoad(j, load, q)
  BY <1>2
<1>6. Starts(C, D, K, loads, q)
  BY <1>3, <1>4, <1>5 DEF Starts
<1>7. OneFigure(K)
  BY DEF OneFigure
<1> QED BY <1>6, <1>7

(* A load of the figure carries the calls on.                              *)
LEMMA FigureCarries ==
  ASSUME Base, NEW C, NEW D, NEW K, NEW loads, NEW q, Starts(C, D, K, loads, q), ~ListsRows(loads)
  PROVE  Carried(C, D, K, loads) /\ disturbed \cap Ids \subseteq disturbed'
<1>1. \A k \in K : ~Fetches(k) /\ ~IsWrite(k) /\ ~Live(k) /\ k.alone = FALSE
  BY DEF Starts, NewLoad, ListsRows, Fetches, IsWrite, Live
<1>2. disturbed \cap Ids \subseteq disturbed'
  BY RowBoundsAssumption DEF Starts, DisturbedByLoads, RowsDisturbed, Ids
<1> QED BY <1>1, <1>2 DEF Starts, Carried

LEMMA RowDone ==
  ASSUME Base, RowsKnown, page # "none", NEW c \in calls, Done(c), NEW r \in Ids, r \notin disturbed'
  PROVE  RowKnown(r)'
<1>1. /\ c \in CallType /\ IsWrite(c) /\ WriteShape(c) /\ page' = page /\ server' = server
  BY BaseCalls DEF Done
<1>4. r \notin Departed(c)
  BY DEF Done
<1>2. CASE "none" \in c.load
  <2>1. calls' = Accompanied(Others(c)) /\ disturbed \subseteq disturbed'
    BY <1>2 DEF Done
  <2>2. RowKnown(r)
    BY <2>1 DEF RowsKnown
  <2>3. c.then # "keep" \/ c.undo # "keep"
    BY <1>1, <1>2, ReloadsRows
  <2>4. EndsWell(c, r)
    BY <1>4, <2>2, <2>3, DoneShows
  <2> QED BY <1>1, <2>1, <2>2, <2>4, RowEnd
<1>3. CASE "none" \notin c.load
  <2> PICK C, D, K, loads, q :
        C = Others(c) /\ loads = {c.load} /\ Starts(C, D, K, loads, q)
    BY <1>3, DoneLoads
  <2>1. CASE ListAfter(c.load)
    <3>1. ListLoads(loads)
      BY <2>1 DEF ListLoads, ListAfter, ListsRows
    <3> QED BY <3>1, RowAsked
  <2>2. CASE ~ListAfter(c.load)
    <3>1. (c.then # "keep" \/ c.undo # "keep") /\ c.load \in {Figure, {"figure", "held"}}
      BY <1>1, <1>3, <2>2, ReloadsRows
    <3>2. ~ListsRows(loads)
      BY <3>1 DEF Figure, ListsRows
    <3>3. Carried(C, D, K, loads) /\ disturbed \cap Ids \subseteq disturbed'
      BY <3>2, FigureCarries
    <3>4. RowKnown(r)
      BY <3>3 DEF RowsKnown
    <3>5. EndsWell(c, r)
      BY <1>4, <3>1, <3>4, DoneShows
    <3> QED BY <1>1, <3>2, <3>3, <3>4, <3>5, RowEnds
  <2> QED BY <2>1, <2>2
<1> QED BY <1>2, <1>3

LEMMA ReloadStarts ==
  ASSUME Base, NEW loads, NEW q, Effects(loads, q), Reload(loads, q)
  PROVE  \E C, D, K : C = calls /\ Starts(C, D, K, loads, q) /\ OneFigure(K)
<1> DEFINE L == {Loading(load, q, sent + 1) : load \in loads}
<1>1. /\ calls' = Superseded(Accompanied(calls), loads) \cup L
      /\ DisturbedByLoads(loads, calls) \subseteq disturbed'
  BY DEF Reload, Joined
<1> PICK m \in Nat : m = sent + 1
  BY RowBoundsAssumption DEF Base, PageTyped
<1>2. \A load \in loads : NewLoad(Loading(load, q, m), load, q)
  BY LoadingIs DEF Effects
<1> PICK K : K = L
  OBVIOUS
<1>3. /\ \A k \in K : \E load \in loads : NewLoad(k, load, q)
      /\ \A load \in loads : \E k \in K : NewLoad(k, load, q)
  BY <1>2
<1>4. calls' = Superseded(Accompanied(calls), loads) \cup K
  BY <1>1
<1>7. OneFigure(K)
  <2> SUFFICES ASSUME NEW a \in loads, NEW b \in loads, NEW j, NEW k, j = Loading(a, q, m),
                      k = Loading(b, q, m), FetchesFigure(j), FetchesFigure(k)
               PROVE  a = b
    BY DEF OneFigure
  <2>1. j.load = a /\ k.load = b
    BY DEF Loading
  <2> QED BY <2>1 DEF Effects, IsFigureLoad, FetchesFigure
<1> HIDE DEF L
<1> PICK C : C = calls
  OBVIOUS
<1> PICK D : D = Superseded(Accompanied(calls), loads)
  OBVIOUS
<1>5. Inherits(C, D, loads) /\ C \subseteq calls
  BY SupersededInherits DEF Base, PageTyped
<1>6. Starts(C, D, K, loads, q)
  BY <1>1, <1>3, <1>4, <1>5 DEF Starts
<1> QED BY <1>6, <1>7

LEMMA RowReload ==
  ASSUME Base, RowsKnown, NEW loads, NEW q, Effects(loads, q), Reload(loads, q),
         NEW r \in Ids, r \notin disturbed'
  PROVE  RowKnown(r)'
<1> PICK C, D, K : C = calls /\ Starts(C, D, K, loads, q)
  BY ReloadStarts
<1>1. CASE ListsRows(loads)
  <2>1. ListLoads(loads)
    BY <1>1 DEF ListLoads, Effects
  <2> QED BY <2>1, RowAsked
<1>2. CASE ~ListsRows(loads)
  <2>1. Carried(C, D, K, loads) /\ disturbed \cap Ids \subseteq disturbed'
    BY <1>2, FigureCarries
  <2>2. RowKnown(r)
    BY <2>1 DEF RowsKnown
  <2>3. UNCHANGED <<page, server, shown, shownFor>>
    BY DEF Reload
  <2>4. Unmoved(r) /\ SameRow(shown, shown', r)
    BY <2>3, SameRowItself DEF Unmoved
  <2>5. \A c \in calls : c \in C \/ (~Live(c) /\ ~Touches(c, r))
    OBVIOUS
  <2> QED BY <1>2, <2>1, <2>2, <2>3, <2>4, <2>5, RowKept
<1> QED BY <1>1, <1>2

(* Someone else changes a row: what the page knows of the others stays.    *)
LEMMA RowStays ==
  ASSUME UNCHANGED <<page, shown, shownFor, calls>>, NEW r \in Ids, server'[r] = server[r], RowKnown(r)
  PROVE  RowKnown(r)'
<1>0. Unmoved(r) /\ Due(r)' = Due(r)
  BY UnmovedIs DEF Unmoved
<1>3. ApartFrom(r)' /\ OneToucher(r)'
  BY DEF RowKnown, ApartFrom, OneToucher, Fetches, Touches, IsWrite, Touched, All
<1>4. AnswersRow(r)'
  BY DEF RowKnown, AnswersRow, Awaited, Fetches, Says, Lists, Under, Fits
<1>5. SnapsRow(r)'
  BY <1>0 DEF RowKnown, SnapsRow, Touches, IsWrite, Touched, All, Agrees
<1>2. ShowsRow(r)'
  <2> SUFFICES ASSUME \A c \in calls : ~Live(c)
               PROVE  /\ (\A c \in calls : ~Touches(c, r)) => Matches(shown, r, Due(r)')
                      /\ \A c \in calls : Touches(c, r) => Promise(c, r)'
    BY DEF ShowsRow, Live, Touches, IsWrite, Touched, All, Agrees
  <2>1. ASSUME NEW c \in calls, Touches(c, r) PROVE Promise(c, r)'
    <3>1. Promise(c, r)
      BY <2>1 DEF RowKnown, ShowsRow
    <3> QED BY <1>0, <3>1, PromiseKept, SameRowItself
  <2> QED BY <1>0, <2>1 DEF RowKnown, ShowsRow, Agrees
<1> QED BY <1>2, <1>3, <1>4, <1>5 DEF RowKnown

LEMMA RowElsewhere ==
  ASSUME Base, RowsKnown, NEW q \in Ids, Elsewhere(q), NEW r \in Ids, r \notin disturbed'
  PROVE  RowKnown(r)'
<1>1. r # q /\ r \notin disturbed /\ UNCHANGED <<page, shown, shownFor, calls>>
  BY RowBoundsAssumption DEF Elsewhere, Ids
<1>2. server'[r] = server[r]
  <2>1. PICK v : server' = [server EXCEPT ![q] = v]
    BY DEF Elsewhere
  <2> QED BY <1>1, <2>1 DEF Base, PageTyped
<1>3. RowKnown(r)
  BY <1>1 DEF RowsKnown
<1> QED BY <1>1, <1>2, <1>3, RowStays

LEMMA LoneBegin ==
  ASSUME Base, RowsKnown, page # "none", NEW c \in CallType, Offered(c),
         Begin(c, RowsAhead(c), FigureAhead(c))
  PROVE  LoneKnown'
<1> PICK D : /\ Inherits(calls, D, {}) /\ calls' = D \cup {c}
             /\ UNCHANGED <<page, server, query, shownFor>> /\ shown' = RowsAhead(c)
             /\ aside' = FigureAhead(c) /\ disturbed' = disturbed \cup DisturbedBy(c)
             /\ \A d \in D : d.alone = FALSE
  BY BeginCarries
<1>1. /\ WriteShape(c) /\ c.alone = (calls = {}) /\ c.side = aside
      /\ c.undo # "keep" => c.seen = shown
  BY OfferedShape DEF Base, Offered, NewCall
<1> SUFFICES ASSUME calls = {} PROVE Lone(c)'
  BY <1>1 DEF LoneKnown
<1>2. calls' = {c}
  BY DEF Inherits
<1>3. c.undo # "snapshot" => aside' = c.side
  BY <1>1 DEF FigureAhead
<1>4. /\ c.undo = "restore" => shown' = Replaced(c.seen, Row(c.id, c.ver))
      /\ c.undo = "splice" => shown' = Without(c.seen, c.id)
      /\ c.undo = "drop" => shown' = Append(c.seen, Row(c.id, c.ver))
  BY <1>1 DEF RowsAhead
<1>5. ASSUME c.undo = "drop" PROVE Absent(c.seen, c.id)
  <2>1. c.op = "create"
    BY <1>1, <1>5, WritesAre DEF Undos, WriteShape, CreatesAhead
  <2>2. c.id \notin ShownIds
    BY <2>1 DEF Offered, NewId, Unused
  <2> QED BY <1>1, <1>5, <2>2 DEF ShownIds, Absent
<1>6. ASSUME c.undo \in {"restore", "splice"}, c.id \notin disturbed' PROVE Once(c.seen, c.id)
  <2>1. c.op \in {"update", "delete"} /\ c.id \in Ids /\ c.id \in ShownIds
    <3>1. page # "contract" /\ c.op \in {"update", "delete"} /\ c.op # "all"
      BY <1>1, <1>6, WritesAre
    <3> QED BY <1>1, <3>1, WritesAre DEF Offered
  <2>2. ShowsRow(c.id)
    BY <1>6, <2>1 DEF RowsKnown, RowKnown
  <2>3. Agrees(shown, c.id)
    BY <2>2 DEF ShowsRow
  <2> QED BY <1>1, <1>6, <2>1, <2>3, ShownAgrees
<1> QED BY <1>2, <1>3, <1>4, <1>5, <1>6 DEF Lone

LEMMA LoneServe ==
  ASSUME Base, LoneKnown, NEW c \in calls, Serve(c)
  PROVE  LoneKnown'
<1> PICK table \in [Ids -> Versions \cup {0}], got \in Rows : \E d : ServeIs(c, d, table, got)
  BY ServeForm
<1> PICK d : ServeIs(c, d, table, got)
  OBVIOUS
<1>1. /\ calls' = Others(c) \cup {d} /\ Served(d, c, got, Derived(table, c.query))
      /\ UNCHANGED <<shown, aside, disturbed>>
  BY DEF ServeIs
<1> SUFFICES ASSUME NEW e \in calls', e.alone PROVE Lone(e)'
  BY DEF LoneKnown
<1>2. e = d
  <2>1. ASSUME e \in Others(c) PROVE FALSE
    BY <2>1 DEF LoneKnown, Lone, Others
  <2> QED BY <1>1, <2>1
<1>3. Lone(c)
  BY <1>1, <1>2 DEF LoneKnown, Served
<1>4. calls' = {d}
  BY <1>1, <1>3 DEF Lone, Others
<1>5. d.undo = c.undo /\ d.side = c.side /\ d.seen = c.seen /\ d.id = c.id /\ d.ver = c.ver
  BY <1>1 DEF Served
<1> QED BY <1>1, <1>2, <1>3, <1>4, <1>5 DEF Lone

(* Calls that are accompanied are not alone.                               *)
LEMMA NoneAlone ==
  ASSUME NEW C, NEW D, NEW loads, Inherits(C, D, loads), NEW K, \A k \in K : k.alone = FALSE,
         calls' = D \cup K
  PROVE  LoneKnown'
BY DEF Inherits, From, Heir, LoneKnown

LEMMA LoneEnds ==
  ASSUME Base, page # "none", NEW c \in calls,
         \/ Loaded(c) \/ LoadFailed(c) \/ FigureLoaded(c) \/ FigureFailed(c) \/ Done(c) \/ Failed(c)
  PROVE  LoneKnown'
<1>1. CASE calls' = Accompanied(Others(c))
  <2> PICK C, D, K, loads : Carried(C, D, K, loads) /\ ~ListsRows(loads) /\ C = Others(c)
    BY <1>1, EndCarries
  <2> QED BY NoneAlone DEF Carried
<1>2. CASE Done(c) /\ "none" \notin c.load
  <2> PICK C, D, K, loads, q :
        /\ C = Others(c) /\ loads = {c.load} /\ Starts(C, D, K, loads, q)
    BY <1>2, DoneLoads
  <2>1. Inherits(C, D, loads) /\ calls' = D \cup K
    BY DEF Starts
  <2>2. \A k \in K : k.alone = FALSE
    BY DEF Starts, NewLoad
  <2> QED BY <2>1, <2>2, NoneAlone
<1> QED BY <1>1, <1>2 DEF Loaded, LoadFailed, FigureLoaded, FigureFailed, Done, Failed

LEMMA LoneReload ==
  ASSUME Base, NEW loads, NEW q, Effects(loads, q), Reload(loads, q)
  PROVE  LoneKnown'
<1> PICK C, D, K : C = calls /\ Starts(C, D, K, loads, q)
  BY ReloadStarts
<1>1. Inherits(C, D, loads) /\ calls' = D \cup K
  BY DEF Starts
<1>2. \A k \in K : k.alone = FALSE
  BY DEF Starts, NewLoad
<1> QED BY <1>1, <1>2, NoneAlone

LEMMA LoneElsewhere ==
  ASSUME LoneKnown, NEW r \in Ids, Elsewhere(r)
  PROVE  LoneKnown'
<1>1. UNCHANGED <<shown, aside, calls>> /\ disturbed \subseteq disturbed'
  BY DEF Elsewhere
<1>2. ASSUME NEW c \in calls, Lone(c) PROVE Lone(c)'
  BY <1>1, <1>2 DEF Lone
<1> QED BY <1>1, <1>2 DEF LoneKnown

(* A conversation that is started says nothing yet.                        *)
LEMMA MessagesFetch ==
  ASSUME Base, page = "conversation", NEW c \in calls
  PROVE  Fetches(c)
<1>1. CASE IsWrite(c)
  <2>1. WriteShape(c)
    BY <1>1, BaseCalls
  <2> QED BY <2>1, WritesAre DEF Fetches
<1>2. CASE ~IsWrite(c)
  <2>1. LoadShape(c)
    BY <1>2, BaseCalls
  <2>2. c.load = Plain
    BY <2>1 DEF LoadShape
  <2> QED BY <2>1, <2>2 DEF LoadShape, Plain, Fetches
<1> QED BY <1>1, <1>2

LEMMA RowStart ==
  ASSUME Base, page # "none", StartNewConversation, NEW r \in Ids, r \notin disturbed'
  PROVE  RowKnown(r)'
<1>1. /\ page = "conversation" /\ page' = page /\ server' = server
      /\ shown' = << >> /\ shownFor' = "new" /\ calls' = Accompanied(calls)
      /\ Under("new") \subseteq Unused
      /\ (\E c \in calls : Fetches(c)) => Ids \subseteq disturbed'
  BY DEF StartNewConversation, At
<1>2. calls' = {}
  BY <1>1, MessagesFetch DEF Accompanied
<1>3. Due(r)' = 0
  <2>1. Under("new")' = Under("new")
    BY <1>1 DEF Under
  <2>2. r \in Under("new") => server[r] = 0
    BY <1>1 DEF Unused
  <2> QED BY <1>1, <2>1, <2>2 DEF Due, Says, Lists
<1>4. Agrees(shown, r)'
  BY <1>1, <1>3 DEF Agrees, Matches, Absent
<1> QED BY <1>2, <1>4
        DEF RowKnown, AnswersRow, ShowsRow, ApartFrom, OneToucher, SnapsRow

LEMMA LoneStart ==
  ASSUME Base, StartNewConversation
  PROVE  LoneKnown'
<1>1. calls' = Accompanied(calls)
  BY DEF StartNewConversation
<1>2. Inherits(calls, Accompanied(calls), {})
  BY AccompaniedInherits DEF Base, PageTyped
<1> PICK D : D = Accompanied(calls)
  OBVIOUS
<1> PICK K : K = {}
  OBVIOUS
<1> PICK loads : loads = {}
  OBVIOUS
<1>3. Inherits(calls, D, loads) /\ calls' = D \cup K /\ \A k \in K : k.alone = FALSE
  BY <1>1, <1>2
<1> QED BY <1>3, NoneAlone

-----------------------------------------------------------------------------
(* What a page knows.                                                      *)
LEMMA KnownStep ==
  ASSUME PageKnown, QueryKnown, page # "none", PageStep
  PROVE  PageKnown'
<1>1. Base /\ RowsKnown /\ LoneKnown
  BY DEF PageKnown
<1>2. Base'
  BY <1>1, StepBase
<1>3. CASE PageAct
  <2>1. CASE \E c \in CallType : Offered(c) /\ Begin(c, RowsAhead(c), FigureAhead(c))
    <3> PICK c \in CallType : Offered(c) /\ Begin(c, RowsAhead(c), FigureAhead(c))
      BY <2>1
    <3>1. LoneKnown'
      BY <1>1, LoneBegin
    <3>2. RowsKnown'
      BY <1>1, RowBegin DEF RowsKnown, Ids
    <3> QED BY <1>2, <3>1, <3>2 DEF PageKnown
  <2>2. CASE \E loads, q : Effects(loads, q) /\ Reload(loads, q)
    <3> PICK loads, q : Effects(loads, q) /\ Reload(loads, q)
      BY <2>2
    <3>1. LoneKnown'
      BY <1>1, LoneReload
    <3>2. RowsKnown'
      BY <1>1, RowReload DEF RowsKnown, Ids
    <3> QED BY <1>2, <3>1, <3>2 DEF PageKnown
  <2>3. CASE StartNewConversation
    <3>1. LoneKnown'
      BY <1>1, <2>3, LoneStart
    <3>2. RowsKnown'
      BY <1>1, <2>3, RowStart DEF RowsKnown, Ids
    <3> QED BY <1>2, <3>1, <3>2 DEF PageKnown
  <2> QED BY <1>3, <2>1, <2>2, <2>3 DEF PageAct
<1>4. CASE CallStep
  <2> PICK c \in calls : \/ Serve(c) \/ Loaded(c) \/ LoadFailed(c) \/ FigureLoaded(c)
                         \/ FigureFailed(c) \/ Done(c) \/ Failed(c)
    BY <1>4 DEF CallStep
  <2>1. LoneKnown'
    BY <1>1, LoneServe, LoneEnds
  <2>2. RowsKnown'
    <3> SUFFICES ASSUME NEW r \in Ids, r \notin disturbed' PROVE RowKnown(r)'
      BY DEF RowsKnown, Ids
    <3> QED BY <1>1, RowServe, RowLoaded, RowDone, RowFailed
  <2> QED BY <1>2, <2>1, <2>2 DEF PageKnown
<1>5. CASE \E r \in Ids : Elsewhere(r)
  <2> PICK r \in Ids : Elsewhere(r)
    BY <1>5
  <2>1. LoneKnown'
    BY <1>1, LoneElsewhere
  <2>2. RowsKnown'
    BY <1>1, RowElsewhere DEF RowsKnown, Ids
  <2> QED BY <1>2, <2>1, <2>2 DEF PageKnown
<1> QED BY <1>1, <1>3, <1>4, <1>5, PageStepIs DEF Base

LEMMA KnownOpens ==
  ASSUME Init
  PROVE  PageKnown
<1>1. /\ Base
      /\ page # "none" => /\ calls = {Loading(load, "q1", 0) : load \in LoadsOf(page)}
                          /\ ListsRows(LoadsOf(page))
  BY OpenBase
<1>2. \A c \in calls : c.alone = FALSE /\ c.phase = "sent" /\ ~IsWrite(c)
  <2>1. \E loads : calls = {Loading(load, "q1", 0) : load \in loads}
    BY DEF Init, Open
  <2> QED BY <2>1 DEF Loading, IsWrite
<1>3. LoneKnown
  BY <1>2 DEF LoneKnown
<1>4. ASSUME page # "none", NEW r \in Ids PROVE ShowsRow(r)
  <2>1. PICK load \in LoadsOf(page) : "figure" \notin load
    BY <1>1, <1>4 DEF ListsRows
  <2>2. Loading(load, "q1", 0) \in calls
    BY <1>1, <1>4
  <2>3. Live(Loading(load, "q1", 0))
    BY <2>1 DEF Live, Loading
  <2> QED BY <2>2, <2>3 DEF ShowsRow
<1>5. page # "none" => \A r \in Ids : RowKnown(r)
  BY <1>2, <1>4 DEF RowKnown, AnswersRow, ApartFrom, OneToucher, SnapsRow, Touches
<1> QED BY <1>1, <1>3, <1>5 DEF PageKnown, RowsKnown

-----------------------------------------------------------------------------
(* The whole system: a page, while no form is open, or a form.             *)
LEMMA KnownStays ==
  ASSUME PageKnown, UNCHANGED pageVars
  PROVE  PageKnown'
<1>1. Base'
  BY BaseStays DEF PageKnown
<1>2. UNCHANGED <<page, shown, shownFor, calls, server, aside, disturbed>>
  BY DEF pageVars
<1>3. page # "none" => RowsKnown'
  <2> SUFFICES ASSUME page # "none", NEW r \in Ids \ disturbed PROVE RowKnown(r)'
    BY <1>2 DEF RowsKnown, Ids
  <2>1. RowKnown(r)
    BY DEF PageKnown, RowsKnown
  <2> QED BY <1>2, <2>1, RowStays
<1>4. LoneKnown'
  BY <1>2 DEF PageKnown, LoneKnown, Lone
<1> QED BY <1>1, <1>2, <1>3, <1>4 DEF PageKnown

LEMMA QueryStays ==
  ASSUME QueryKnown, UNCHANGED pageVars
  PROVE  QueryKnown'
BY DEF QueryKnown, pageVars, Live, Awaited, Fetches, Ids

LEMMA KnownNext ==
  ASSUME PageKnown, QueryKnown, [Next]_vars
  PROVE  PageKnown' /\ QueryKnown'
<1>1. PageKnown'
  BY KnownStep, KnownStays DEF Next, vars
<1>2. QueryKnown'
  BY QueryStep, QueryStays DEF Next, vars, PageKnown
<1> QED BY <1>1, <1>2

LEMMA KnownAlways == Spec => [](PageKnown /\ QueryKnown)
<1>1. Init => PageKnown /\ QueryKnown
  BY KnownOpens, QueryOpens
<1>2. PageKnown /\ QueryKnown /\ [Next]_vars => (PageKnown /\ QueryKnown)'
  BY KnownNext
<1> QED BY <1>1, <1>2, PTL DEF Spec

(* A page at rest shows the rows of the query it is asked for.             *)
LEMMA AtRest ==
  ASSUME PageKnown, QueryKnown, Settled, NEW r \in Ids, r \notin disturbed
  PROVE  shownFor = query /\ Matches(shown, r, Says(server, query, r))
<1>1. page # "none" /\ calls = {}
  BY DEF PageKnown, Base, Settled
<1>2. shownFor = query
  BY <1>1 DEF QueryKnown
<1>3. Agrees(shown, r)
  BY <1>1 DEF PageKnown, RowsKnown, RowKnown, ShowsRow
<1> QED BY <1>2, <1>3 DEF Agrees, Due

(* How often a row is shown.                                               *)
LEMMA TimesIs ==
  ASSUME NEW r \in Ids
  PROVE  /\ Absent(shown, r) => Times(r) = 0
         /\ \A v : OnceAs(shown, r, v) => Times(r) = 1 /\ ShownRow(r).ver = v
<1> DEFINE S == {k \in DOMAIN shown : shown[k].id = r}
<1>1. ASSUME Absent(shown, r) PROVE Times(r) = 0
  <2>1. S = {}
    BY <1>1 DEF Absent
  <2> QED BY <2>1, FS_EmptySet DEF Times
<1>2. ASSUME NEW v, OnceAs(shown, r, v) PROVE Times(r) = 1 /\ ShownRow(r).ver = v
  <2> PICK k \in DOMAIN shown : OnceAt(shown, r, k) /\ shown[k] = Row(r, v)
    BY <1>2 DEF OnceAs
  <2>1. S = {k}
    BY DEF OnceAt
  <2>2. Times(r) = 1
    BY <2>1, FS_Singleton DEF Times
  <2>3. ShownRow(r) = Row(r, v)
    BY <1>2, IndexOfIs DEF OnceAt, ShownRow
  <2> QED BY <2>2, <2>3, RowFields
<1> QED BY <1>1, <1>2

(* A page that has settled shows every row of what it is asked for as the  *)
(* server has it, once, and none that is gone or of something else, for    *)
(* every handler of every page and any number of rows and of acts,         *)
(* whatever calls failed.  Excepted are the rows that overlapping calls, a *)
(* lost answer or another user have touched, and a row whose answer says   *)
(* that it left the filter, until the list is loaded again.                *)
THEOREM PagesShowTheServer == Spec => []SettledView
<1>1. PageKnown /\ QueryKnown => SettledView
  <2> SUFFICES ASSUME PageKnown, QueryKnown, Settled, NEW r \in Ids \ disturbed
               PROVE  IF Lists(query, r, server[r])
                      THEN Times(r) = 1 /\ ShownRow(r).ver = server[r]
                      ELSE Times(r) = 0
    BY DEF SettledView
  <2>1. Matches(shown, r, Says(server, query, r))
    BY AtRest
  <2>2. Lists(query, r, server[r]) => server[r] # 0
    BY DEF Lists
  <2> QED BY <2>1, <2>2, TimesIs DEF Matches, Says
<1> QED BY <1>1, KnownAlways, PTL

(* A page that has settled shows rows of the filter, the number or the id  *)
(* it is asked for and no others, whatever the order in which the answers  *)
(* came: the "cancelled" flag and the sequence numbers of the effects.     *)
(* Excepted are the row of a write in flight as the page was asked for     *)
(* something else; on a page that does not cancel its loads, all rows when *)
(* a load, a save or a message was in flight then; a row that left the     *)
(* filter since the last load; and all rows when that failed.              *)
THEOREM PagesAnswerTheQuery == Spec => []AnswersQuery
<1>1. PageKnown /\ QueryKnown => AnswersQuery
  <2> SUFFICES ASSUME PageKnown, QueryKnown, Settled PROVE AnswersQuery
    BY DEF AnswersQuery
  <2>1. ~(Ids \subseteq disturbed) => shownFor = query
    BY AtRest
  <2>2. ASSUME NEW k \in DOMAIN shown, shown[k].id \notin disturbed
        PROVE  Lists(query, shown[k].id, shown[k].ver)
    <3> PICK r : r = shown[k].id
      OBVIOUS
    <3>1. r \in Ids
      BY RowOf, RowsIndices DEF PageKnown, Base, PageTyped
    <3>2. Matches(shown, r, Says(server, query, r))
      BY <2>2, <3>1, AtRest
    <3>3. Lists(query, r, server[r]) /\ OnceAs(shown, r, server[r])
      BY <3>2 DEF Matches, Says, Absent
    <3>4. shown[k] = Row(r, server[r])
      BY <3>3 DEF OnceAs, OnceAt
    <3> QED BY <3>3, <3>4, RowFields
  <2> QED BY <2>1, <2>2 DEF AnswersQuery
<1> QED BY <1>1, KnownAlways, PTL

(* A refused change that was shown ahead is taken back to exactly the rows *)
(* and the figure there were, the place in the list included, when nothing *)
(* overlapped: the catch of each optimistic handler.                       *)
LEMMA RolledBackExactly ==
  ASSUME PageKnown, NEW c \in calls, RolledBack(c)
  PROVE  shown' = c.seen /\ aside' = c.side
<1>1. Lone(c) /\ IsWrite(c) /\ c.id \notin disturbed /\ c.undo # "keep"
  BY DEF RolledBack, Failed, PageKnown, LoneKnown
<1>2. WriteShape(c) /\ WriteSound(c) /\ c \in CallType
  BY <1>1 DEF PageKnown, Base, PageTyped, CallShape, WriteSound
<1>3. c.seen \in Rows
  BY <1>2 DEF CallType, Rows
<1>4. shown' = RowsAfterFailure(c) /\ aside' = IF c.undo = "snapshot" THEN c.side ELSE aside
  BY DEF RolledBack, Failed
<1>5. aside' = c.side
  BY <1>1, <1>4 DEF Lone
<1>6. CASE c.undo = "snapshot"
  BY <1>4, <1>5, <1>6 DEF RowsAfterFailure
<1>7. CASE c.undo \in {"restore", "splice"}
  <2>1. Once(c.seen, c.id)
    BY <1>1, <1>7 DEF Lone
  <2> PICK k \in DOMAIN c.seen : OnceAt(c.seen, c.id, k)
    BY <2>1 DEF Once
  <2>2. OnceAt(c.seen, c.id, IndexOf(c.id, c.seen))
    BY <2>1, IndexOfIs DEF OnceAt
  <2>3. k = IndexOf(c.id, c.seen)
    BY <2>2 DEF OnceAt
  <2>4. CASE c.undo = "restore"
    <3>1. shown' = Replaced(Replaced(c.seen, Row(c.id, c.ver)), c.seen[k])
      BY <1>1, <1>4, <2>3, <2>4 DEF Lone, RowsAfterFailure
    <3> QED BY <1>3, <1>5, <3>1, ReplacedBack
  <2>5. CASE c.undo = "splice"
    <3>1. shown' = InsertedAt(Without(c.seen, c.id), k, c.seen[k])
      BY <1>1, <1>4, <2>3, <2>5 DEF Lone, RowsAfterFailure
    <3> QED BY <1>3, <1>5, <3>1, SplicedBack
  <2> QED BY <1>7, <2>4, <2>5
<1>8. CASE c.undo = "drop"
  <2>1. shown' = Without(Append(c.seen, Row(c.id, c.ver)), c.id)
    BY <1>1, <1>4, <1>8 DEF Lone, RowsAfterFailure
  <2>2. c.op = "create" /\ c.id \in Ids /\ c.ver \in Versions
    BY <1>2, <1>8, WritesAre
  <2> QED BY <1>1, <1>3, <1>5, <1>8, <2>1, <2>2, DroppedBack DEF Lone
<1> QED BY <1>1, <1>2, <1>6, <1>7, <1>8, WritesAre DEF Undos

THEOREM RefusedChangesAreTakenBack == Spec => RollbackExact
<1>1. PageKnown => [\A c \in calls : RolledBack(c) => shown' = c.seen /\ aside' = c.side]_vars
  BY RolledBackExactly
<1> QED BY <1>1, KnownAlways, PTL DEF RollbackExact

-----------------------------------------------------------------------------
(* The figure.                                                             *)

LEMMA UnderIs ==
  ASSUME NEW q
  PROVE  /\ Under(q) \subseteq Ids
         /\ page \in FigurePages \ {"approvals"} => Under(q) = Ids
BY DEF Under, FigurePages, ContractLists

LEMMA DerivedSame ==
  ASSUME NEW table, NEW next, NEW q, \A r \in Ids : table[r] = 2 <=> next[r] = 2
  PROVE  Derived(next, q) = Derived(table, q)
<1>1. {r \in Under(q) : table[r] = 2} = {r \in Under(q) : next[r] = 2}
  BY UnderIs
<1> QED BY <1>1 DEF Derived

LEMMA DerivedLess ==
  ASSUME NEW table, NEW next, NEW q, NEW k \in Under(q), table[k] = 2, next[k] # 2,
         \A r \in Ids : r # k => next[r] = table[r]
  PROVE  Derived(next, q) = Derived(table, q) - 1
<1> PICK S : S = {r \in Under(q) : table[r] = 2}
  OBVIOUS
<1>1. IsFiniteSet(S)
  <2>1. IsFiniteSet(Ids)
    BY RowBoundsAssumption, FS_Interval DEF Ids
  <2> QED BY <2>1, FS_Subset, UnderIs
<1>2. {r \in Under(q) : next[r] = 2} = S \ {k}
  BY UnderIs
<1>3. Cardinality(S \ {k}) = Cardinality(S) - 1
  BY <1>1, FS_RemoveElement
<1> QED BY <1>2, <1>3 DEF Derived

LEMMA DerivedNone ==
  ASSUME NEW table, NEW q, \A r \in Ids : table[r] # 2
  PROVE  Derived(table, q) = 0
<1>1. {r \in Under(q) : table[r] = 2} = {}
  BY UnderIs
<1> QED BY <1>1, FS_EmptySet DEF Derived

LEMMA DerivedSome ==
  ASSUME NEW table, NEW q, NEW k \in Under(q), table[k] = 2
  PROVE  Derived(table, q) > 0
<1> PICK S : S = {r \in Under(q) : table[r] = 2}
  OBVIOUS
<1>1. IsFiniteSet(S) /\ Cardinality(S) \in Nat
  <2>1. IsFiniteSet(Ids)
    BY RowBoundsAssumption, FS_Interval DEF Ids
  <2> QED BY <2>1, FS_Subset, FS_CardinalityType, UnderIs
<1>2. Cardinality(S) # 0
  BY <1>1, FS_EmptySet
<1> QED BY <1>1, <1>2 DEF Derived

(* What the figure should say; it depends on what is looked at only        *)
(* through the rows that are looked at.                                    *)
Right == Derived(server, query)

Steady == page' = page /\ Under(query)' = Under(query)

LEMMA DerivedUnder ==
  ASSUME NEW table, NEW q, NEW p, Under(q) = Under(p)
  PROVE  Derived(table, q) = Derived(table, p)
BY DEF Derived

LEMMA UnderStays ==
  ASSUME page' = page, NEW q
  PROVE  Under(q)' = Under(q)
BY DEF Under

LEMMA RightStays ==
  ASSUME Steady, server' = server
  PROVE  Right' = Right
BY DEF Steady, Right, Derived

(* The calls that bear on the figure, and what holds while one is in       *)
(* flight: the bell counts before the answer, the other pages after it.    *)
Figured(c) == IsWrite(c) \/ FetchesFigure(c)

FigureFresh(c) ==
  ~c.cancelled /\ Under(c.query) = Under(query) /\ (c.phase = "answered" => c.figure = Right)

CountedAhead(c) ==
  /\ c.op = "update" /\ c.phase = "sent" => server[c.id] = 2 /\ aside = Right - 1
  /\ c.op = "update" /\ c.phase # "sent" => aside = Right
  /\ c.op = "all" => aside = 0 /\ (c.phase # "sent" => Right = 0)
  /\ c.alone /\ c.phase = "sent" => c.side = Right

CountedAfter(c) ==
  /\ c.phase = "sent" \/ ~LoadsFigure({c.load}) => aside = Right
  /\ c.phase = "sent" => \/ LoadsFigure({c.load})
                         \/ c.op = "create" /\ c.ver = 1 /\ server[c.id] = 0
                         \/ c.op = "update" /\ c.ver # 2 /\ server[c.id] = 1

FigurePromise(c) == IF page = "bell" THEN CountedAhead(c) ELSE CountedAfter(c)

OneFigured == \A c, d \in calls : Figured(c) /\ Figured(d) => c = d

FigureFacts ==
  /\ OneFigured
  /\ \A c \in calls : FetchesFigure(c) => FigureFresh(c)
  /\ (\A c \in calls : ~Figured(c)) => aside = Right
  /\ \A c \in calls : IsWrite(c) => FigurePromise(c)

FigureKnown == page \in FigurePages /\ 0 \notin disturbed => FigureFacts

(* When nothing that bears on the figure is in flight it is right.         *)
LEMMA FigureQuiet ==
  ASSUME \A c \in calls' : ~Figured(c), aside' = Right'
  PROVE  FigureFacts'
BY DEF FigureFacts, OneFigured, Figured, IsWrite, FetchesFigure

LEMMA FreshStays ==
  ASSUME Steady, server' = server, NEW c, FigureFresh(c), NEW d, ~d.cancelled,
         d.query = c.query, d.phase = c.phase, d.figure = c.figure
  PROVE  FigureFresh(d)'
<1> PICK q : q = c.query
  OBVIOUS
<1>1. Under(q)' = Under(q) /\ Right' = Right
  BY UnderStays, RightStays DEF Steady
<1>2. Under(q)' = Under(query)'
  BY <1>1 DEF Steady, FigureFresh
<1> QED BY <1>1, <1>2 DEF FigureFresh

LEMMA HeirsFigured ==
  ASSUME NEW C, NEW D, NEW loads, Inherits(C, D, loads), \A c \in C : ~Figured(c)
  PROVE  \A d \in D : ~Figured(d)
BY FromFields DEF Inherits, Figured

(* The heirs of calls of which one bears on the figure.                    *)
LEMMA FigureCarried ==
  ASSUME Base, FigureFacts, page \in FigurePages, Steady, server' = server, aside' = aside,
         NEW C, NEW D, NEW K, NEW loads, Inherits(C, D, loads), C \subseteq calls,
         \A c \in calls : c \in C \/ ~Figured(c),
         ~ListsRows(loads) \/ page # "dashboard", \A k \in K : ~Figured(k), calls' = D \cup K
  PROVE  FigureFacts'
<1>0. Right' = Right /\ page' = page
  BY RightStays DEF Steady
<1>1. ASSUME NEW d \in calls', Figured(d)
      PROVE  \E c \in C : From(d, c, loads) /\ Figured(c) /\ c \in calls
  <2>1. d \in D
    BY <1>1
  <2>2. PICK c \in C : From(d, c, loads)
    BY <2>1 DEF Inherits
  <2> QED BY <1>1, <2>2, FromFields DEF Figured
<1>2. OneFigured'
  <2> SUFFICES ASSUME NEW d \in calls', NEW e \in calls', Figured(d), Figured(e), d # e PROVE FALSE
    BY DEF OneFigured, Figured, IsWrite, FetchesFigure
  <2>1. PICK b, c \in C : b # c /\ From(d, b, loads) /\ From(e, c, loads)
    BY DEF Inherits
  <2>2. Figured(b) /\ Figured(c)
    BY <2>1, FromFields DEF Figured
  <2> QED BY <2>1, <2>2 DEF FigureFacts, OneFigured
<1>3. ASSUME NEW d \in calls', FetchesFigure(d) PROVE FigureFresh(d)'
  <2> PICK c \in C : From(d, c, loads) /\ Figured(c) /\ c \in calls
    BY <1>1, <1>3 DEF Figured
  <2>1. FetchesFigure(c)
    BY <1>3, FromFields
  <2>2. FigureFresh(c)
    BY <2>1 DEF FigureFacts
  <2>3. ~Cut(c, loads)
    <3>1. LoadShape(c) /\ IsFigureLoad(c.load)
      BY <2>1, BaseCalls DEF FetchesFigure, IsFigureLoad
    <3> QED BY <3>1 DEF LoadShape, Cut
  <2>4. /\ ~d.cancelled /\ d.query = c.query /\ d.phase = c.phase /\ d.figure = c.figure
    BY <2>2, <2>3 DEF FigureFresh, From, Heir
  <2> QED BY <2>2, <2>4, FreshStays
<1>4. ASSUME \A d \in calls' : ~Figured(d) PROVE aside = Right
  <2>1. \A c \in C : ~Figured(c)
    <3> SUFFICES ASSUME NEW c \in C PROVE ~Figured(c)
      OBVIOUS
    <3> PICK d \in D : From(d, c, loads)
      BY DEF Inherits
    <3> QED BY <1>4, FromFields DEF Figured
  <2> QED BY <2>1 DEF FigureFacts
<1>5. ASSUME NEW d \in calls', IsWrite(d) PROVE FigurePromise(d)'
  <2> PICK c \in C : From(d, c, loads) /\ Figured(c) /\ c \in calls
    BY <1>1, <1>5 DEF Figured
  <2>1. IsWrite(c)
    BY <1>5, FromFields
  <2>2. FigurePromise(c)
    BY <2>1 DEF FigureFacts
  <2> QED BY <1>0, <2>2 DEF FigurePromise, CountedAhead, CountedAfter, From, Heir
<1> QED BY <1>0, <1>2, <1>3, <1>4, <1>5 DEF FigureFacts, Figured, IsWrite, FetchesFigure

(* A call ends that either bears on the figure, which is then right, or    *)
(* leaves it alone.                                                        *)
LEMMA FigureEnds ==
  ASSUME Base, FigureFacts, page \in FigurePages, Steady, server' = server,
         NEW c \in calls, calls' = Accompanied(Others(c)),
         \/ ~Figured(c) /\ aside' = aside
         \/ Figured(c) /\ aside' = Right
  PROVE  FigureFacts'
<1> PICK C : C = Others(c)
  OBVIOUS
<1> PICK D : D = Accompanied(Others(c))
  OBVIOUS
<1> PICK K : K = {}
  OBVIOUS
<1> PICK loads : loads = {}
  OBVIOUS
<1>1. Inherits(C, D, loads) /\ C \subseteq calls /\ ~ListsRows(loads) /\ calls' = D \cup K
  BY EndInherits DEF ListsRows
<1>2. CASE ~Figured(c) /\ aside' = aside
  <2>1. \A b \in calls : b \in C \/ ~Figured(b)
    BY <1>2 DEF Others
  <2> QED BY <1>1, <1>2, <2>1, FigureCarried
<1>3. CASE Figured(c) /\ aside' = Right
  <2>1. \A b \in C : ~Figured(b)
    BY <1>3 DEF Others, FigureFacts, OneFigured
  <2>2. \A d \in calls' : ~Figured(d)
    BY <1>1, <2>1, HeirsFigured
  <2>3. aside' = Right'
    BY <1>3, RightStays
  <2> QED BY <2>2, <2>3, FigureQuiet
<1> QED BY <1>2, <1>3

(* A write is about a row the page knows when the figure stays known.      *)
LEMMA KnownRow ==
  ASSUME Base, RowsKnown, page \in FigurePages, NEW c \in CallType, Offered(c),
         0 \notin disturbed \cup DisturbedBy(c), c.op \in {"update", "delete"}
  PROVE  c.id \in Ids /\ server[c.id] = ShownRow(c.id).ver
<1>1. WriteShape(c) /\ IsWrite(c) /\ c.id \in ShownIds /\ c.id \in Ids
  BY WritesAre DEF Offered, FigurePages
<1>2. Touched(c) = {c.id, 0}
  BY DEF Touched
<1>3. c.id \notin disturbed \cup DisturbedBy(c)
  BY <1>2 DEF DisturbedBy
<1>4. Touches(c, c.id)
  BY <1>1, <1>2 DEF Touches
<1>5. Agrees(shown, c.id)
  BY <1>1, <1>3, <1>4, NothingElse
<1>6. OnceAs(shown, c.id, server[c.id])
  BY <1>1, <1>5, ShownAgrees
<1> PICK r \in Ids : r = c.id
  BY <1>1
<1> PICK k \in DOMAIN shown : OnceAt(shown, r, k)
  BY <1>6 DEF OnceAs
<1>7. ShownRow(r) = Row(r, server[r])
  <2>1. shown[k].id = r /\ OnceAs(shown, r, server[r])
    BY <1>6 DEF OnceAt
  <2> QED BY <2>1, IndexOfIs DEF ShownRow
<1> QED BY <1>1, <1>7, RowFields

LEMMA FigureBegin ==
  ASSUME Base, RowsKnown, FigureKnown, NEW c \in CallType, Offered(c),
         Begin(c, RowsAhead(c), FigureAhead(c))
  PROVE  FigureKnown'
<1>1. /\ page' = page /\ server' = server /\ query' = query /\ aside' = FigureAhead(c)
      /\ disturbed' = disturbed \cup DisturbedBy(c)
  BY DEF Begin
<1>0. Steady /\ Right' = Right
  <2>1. Steady
    BY <1>1, UnderStays DEF Steady, Under
  <2> QED BY <1>1, <2>1, RightStays
<1> SUFFICES ASSUME page \in FigurePages, 0 \notin disturbed \cup DisturbedBy(c)
             PROVE  FigureFacts'
  BY <1>1 DEF FigureKnown, FigurePages
<1> PICK D : Inherits(calls, D, {}) /\ calls' = D \cup {c}
  BY BeginCarries
<1>2. WriteShape(c) /\ IsWrite(c) /\ NewCall(c)
  BY WritesAre DEF Offered
<1>3. \A b \in calls : ~Figured(b)
  BY DEF DisturbedBy, Figured
<1>4. aside = Right
  BY <1>3 DEF FigureKnown, FigureFacts
<1>5. \A d \in D : ~Figured(d)
  BY <1>3, HeirsFigured
<1>6. FigurePromise(c)'
  <2>1. CASE page = "bell"
    <3>1. c.op \in {"update", "all"} /\ c.undo = "snapshot" /\ c.phase = "sent" /\ c.side = aside
      BY <1>2, <2>1 DEF WriteShape, Marks, MarksAll, NewCall
    <3>2. ASSUME c.op = "update"
          PROVE  server[c.id] = 2 /\ FigureAhead(c) = Right - 1
      <4>1. ShownRow(c.id).ver = 2
        BY <2>1, <3>2 DEF Offered, FigureMinded
      <4>2. c.id \in Ids /\ server[c.id] = 2
        BY <3>2, <4>1, KnownRow
      <4>3. aside > 0 /\ aside \in Nat
        <5>1. c.id \in Under(query)
          BY <2>1, <4>2, UnderIs DEF FigurePages
        <5> QED BY <1>4, <4>2, <5>1, DerivedSome DEF Right, Base, PageTyped
      <4> QED BY <1>4, <3>1, <3>2, <4>2, <4>3 DEF FigureAhead, OneLess
    <3>3. ASSUME c.op = "all" PROVE FigureAhead(c) = 0
      BY <3>1, <3>3 DEF FigureAhead
    <3> QED BY <1>0, <1>1, <1>4, <2>1, <3>1, <3>2, <3>3 DEF FigurePromise, CountedAhead
  <2>2. CASE page # "bell"
    <3>1. c.phase = "sent" /\ c.undo # "snapshot"
      BY <1>2, <2>2, WritesAre DEF NewCall
    <3>2. FigureAhead(c) = aside
      BY <3>1 DEF FigureAhead
    <3>3. \/ LoadsFigure({c.load})
          \/ c.op = "create" /\ c.ver = 1 /\ server[c.id] = 0
          \/ c.op = "update" /\ c.ver # 2 /\ server[c.id] = 1
      <4>1. \/ LoadsFigure({c.load}) \/ c.op = "create"
            \/ c.op = "update" /\ c.ver # 2 /\ ShownRow(c.id).ver = 1
        BY <2>2 DEF Offered, FigureMinded, FigurePages
      <4>2. c.op = "create" => c.ver = 1 /\ server[c.id] = 0
        BY <1>2, WritesAre DEF Offered, NewId, Unused
      <4> QED BY <4>1, <4>2, KnownRow
    <3> QED BY <1>0, <1>1, <1>4, <2>2, <3>1, <3>2, <3>3 DEF FigurePromise, CountedAfter
  <2> QED BY <2>1, <2>2
<1>7. \A d \in calls' : Figured(d) => d = c
  BY <1>5
<1>8. OneFigured'
  BY <1>7 DEF OneFigured, Figured, IsWrite, FetchesFigure
<1>9. ~FetchesFigure(c) /\ Figured(c)
  BY <1>2 DEF FetchesFigure, Figured
<1> QED BY <1>6, <1>7, <1>8, <1>9 DEF FigureFacts, Figured, IsWrite, FetchesFigure

-----------------------------------------------------------------------------
(* What a write does to what the server derives.                           *)
LEMMA FigureWritten ==
  ASSUME Base, page \in FigurePages, NEW c \in calls, IsWrite(c), FigurePromise(c),
         NEW table \in [Ids -> Versions \cup {0}], NEW got, NEW d, ServeIs(c, d, table, got)
  PROVE  FigurePromise(d)'
<1>1. /\ page' = page /\ aside' = aside /\ server' = table /\ c.phase = "sent"
      /\ Served(d, c, got, Derived(table, c.query)) /\ WriteShape(c)
  BY BaseCalls DEF ServeIs
<1>0. Right' = Derived(table, query)
  <2>1. query' = query
    BY DEF ServeIs
  <2>2. Under(query)' = Under(query)
    BY <1>1, <2>1 DEF Under
  <2> QED BY <1>1, <2>2 DEF Right, Derived
<1>2. d.op = c.op /\ d.id = c.id /\ d.ver = c.ver /\ d.load = c.load /\ d.phase = "answered"
  BY <1>1 DEF Served
<1>3. CASE page = "bell"
  <2>1. c.ver = 1 /\ c.op \in {"update", "all"}
    BY <1>1, <1>3 DEF WriteShape, Marks, MarksAll
  <2>2. CASE c.op = "update"
    <3>1. server[c.id] = 2 /\ aside = Right - 1
      BY <1>1, <1>3, <2>2 DEF FigurePromise, CountedAhead
    <3>2. c.id \in Ids /\ \A r \in Ids : table[r] = IF r = c.id THEN 1 ELSE server[r]
      BY <2>1, <2>2 DEF ServeIs
    <3>3. Derived(table, query) = Right - 1
      <4>1. c.id \in Under(query)
        BY <1>3, <3>2, UnderIs DEF FigurePages
      <4> QED BY <3>1, <3>2, <4>1, DerivedLess DEF Right
    <3> QED BY <1>0, <1>1, <1>2, <1>3, <2>2, <3>1, <3>3 DEF FigurePromise, CountedAhead
  <2>3. CASE c.op = "all"
    <3>1. \A r \in Ids : table[r] # 2
      BY <2>1, <2>3 DEF ServeIs
    <3>2. Derived(table, query) = 0 /\ aside = 0
      BY <1>3, <2>3, <3>1, DerivedNone DEF FigurePromise, CountedAhead
    <3> QED BY <1>0, <1>1, <1>2, <1>3, <2>3, <3>2 DEF FigurePromise, CountedAhead
  <2> QED BY <2>1, <2>2, <2>3
<1>4. CASE page # "bell"
  <2>1. CASE LoadsFigure({c.load})
    BY <1>0, <1>1, <1>2, <1>4, <2>1 DEF FigurePromise, CountedAfter
  <2>2. CASE ~LoadsFigure({c.load})
    <3>1. /\ aside = Right
          /\ \/ c.op = "create" /\ c.ver = 1 /\ server[c.id] = 0
             \/ c.op = "update" /\ c.ver # 2 /\ server[c.id] = 1
      BY <1>1, <1>4, <2>2 DEF FigurePromise, CountedAfter
    <3>2. c.id \in Ids /\ \A r \in Ids : table[r] = IF r = c.id THEN c.ver ELSE server[r]
      BY <3>1 DEF ServeIs
    <3>3. Derived(table, query) = Right
      BY <3>1, <3>2, DerivedSame DEF Right
    <3> QED BY <1>0, <1>1, <1>2, <1>4, <2>2, <3>1, <3>3 DEF FigurePromise, CountedAfter
  <2> QED BY <2>1, <2>2
<1> QED BY <1>3, <1>4

LEMMA FigureServe ==
  ASSUME Base, FigureKnown, NEW c \in calls, Serve(c)
  PROVE  FigureKnown'
<1> PICK table \in [Ids -> Versions \cup {0}], got \in Rows : \E d : ServeIs(c, d, table, got)
  BY ServeForm
<1> PICK d : ServeIs(c, d, table, got)
  OBVIOUS
<1>1. /\ calls' = Others(c) \cup {d} /\ Served(d, c, got, Derived(table, c.query))
      /\ server' = table /\ UNCHANGED <<page, query, aside, disturbed>> /\ (~IsWrite(c) => table = server)
  BY DEF ServeIs
<1> SUFFICES ASSUME page \in FigurePages, FigureFacts PROVE FigureFacts'
  BY <1>1 DEF FigureKnown, FigurePages
<1>0. Steady /\ (table = server => Right' = Right)
  <2>1. Steady
    BY <1>1, UnderStays DEF Steady, Under
  <2> QED BY <1>1, <2>1, RightStays
<1>2. /\ IsWrite(c) <=> IsWrite(d)
      /\ FetchesFigure(c) <=> FetchesFigure(d)
      /\ Figured(c) <=> Figured(d)
  BY <1>1, ServedKeeps DEF Figured
<1>3. \A e \in Others(c) : Figured(e) => ~Figured(c)
  BY DEF FigureFacts, OneFigured, Others
<1>4. \A e \in Others(c) : e \in calls
  BY DEF Others
<1>5. OneFigured'
  <2> SUFFICES ASSUME NEW e \in calls', NEW f \in calls', Figured(e), Figured(f) PROVE e = f
    BY DEF OneFigured, Figured, IsWrite, FetchesFigure
  <2> QED BY <1>1, <1>2, <1>3, <1>4 DEF FigureFacts, OneFigured
<1>6. ASSUME NEW e \in calls', FetchesFigure(e) PROVE FigureFresh(e)'
  <2>1. CASE e = d
    <3>1. FigureFresh(c) /\ table = server
      BY <1>1, <1>2, <1>6, <2>1 DEF FigureFacts, FetchesFigure
    <3>2. /\ d.query = c.query /\ ~d.cancelled
          /\ Under(c.query) = Under(query) /\ d.figure = Derived(server, c.query)
      BY <1>1, <3>1 DEF FigureFresh, Served
    <3>3. d.figure = Right
      BY <3>2, DerivedUnder DEF Right
    <3>4. Right' = Right /\ server' = server
      BY <1>0, <1>1, <3>1
    <3> PICK q : q = d.query
      OBVIOUS
    <3>5. Under(q)' = Under(query)'
      BY <1>0, <3>2, UnderStays DEF Steady
    <3> QED BY <2>1, <3>2, <3>3, <3>4, <3>5 DEF FigureFresh
  <2>2. CASE e \in Others(c)
    <3>1. ~IsWrite(c) /\ FigureFresh(e)
      BY <1>3, <1>4, <1>6, <2>2 DEF FigureFacts, Figured
    <3>2. server' = server
      BY <1>1, <3>1
    <3>3. ~e.cancelled
      BY <3>1 DEF FigureFresh
    <3> QED BY <1>0, <3>1, <3>2, <3>3, FreshStays
  <2> QED BY <1>1, <2>1, <2>2
<1>7. ASSUME \A e \in calls' : ~Figured(e) PROVE aside = Right'
  <2>1. \A e \in calls : ~Figured(e)
    BY <1>1, <1>2, <1>7 DEF Others
  <2>2. table = server
    BY <1>1, <2>1 DEF Figured
  <2> QED BY <1>0, <2>1, <2>2 DEF FigureFacts
<1>8. ASSUME NEW e \in calls', IsWrite(e) PROVE FigurePromise(e)'
  <2>1. CASE e = d
    <3>1. FigurePromise(c) /\ IsWrite(c)
      BY <1>2, <1>8, <2>1 DEF FigureFacts
    <3> QED BY <2>1, <3>1, FigureWritten
  <2>2. CASE e \in Others(c)
    <3>1. table = server /\ FigurePromise(e)
      BY <1>1, <1>3, <1>4, <1>8, <2>2 DEF FigureFacts, Figured
    <3> QED BY <1>0, <1>1, <3>1 DEF FigurePromise, CountedAhead, CountedAfter
  <2> QED BY <1>1, <2>1, <2>2
<1> QED BY <1>1, <1>5, <1>6, <1>7, <1>8 DEF FigureFacts, Figured, IsWrite, FetchesFigure

(* Loads start: of the figure, when nothing that bears on it is in flight, *)
(* or of rows only.                                                        *)
LEMMA FigureStarts ==
  ASSUME Base, page \in FigurePages, 0 \notin disturbed', UNCHANGED <<page, server, aside>>,
         NEW C, NEW D, NEW K, NEW loads, NEW q,
         Starts(C, D, K, loads, q), OneFigure(K), LoadsFigure(loads),
         Under(query)' = Under(q)
  PROVE  FigureFacts'
<1>1. /\ C \subseteq calls /\ Inherits(C, D, loads)
      /\ \A k \in K : \E load \in loads : NewLoad(k, load, q)
      /\ \A load \in loads : \E k \in K : NewLoad(k, load, q)
      /\ calls' = D \cup K /\ DisturbedByLoads(loads, C) \subseteq disturbed'
  BY DEF Starts
<1>2. \A c \in C : ~Figured(c)
  <2>1. 0 \notin FigureDisturbed(loads, C)
    BY <1>1 DEF DisturbedByLoads
  <2> QED BY <2>1 DEF FigureDisturbed, Figured
<1>3. \A d \in D : ~Figured(d)
  BY <1>1, <1>2, HeirsFigured
<1>4. \A k \in K : ~IsWrite(k) /\ k.phase = "sent" /\ ~k.cancelled /\ k.query = q
  BY <1>1 DEF NewLoad, IsWrite
<1>5. \E k \in K : Figured(k)
  <2> PICK load \in loads : {"figure", "aside"} \cap load # {}
    BY DEF LoadsFigure
  <2> PICK k \in K : NewLoad(k, load, q)
    BY <1>1
  <2>1. k.load = load
    BY DEF NewLoad
  <2> QED BY <1>4, <2>1 DEF Figured, FetchesFigure
<1>6. OneFigured'
  <2> SUFFICES ASSUME NEW e \in calls', NEW f \in calls', Figured(e), Figured(f) PROVE e = f
    BY DEF OneFigured, Figured, IsWrite, FetchesFigure
  <2>1. e \in K /\ f \in K
    BY <1>1, <1>3
  <2> QED BY <1>4, <2>1 DEF OneFigure, Figured
<1>7. ASSUME NEW e \in calls', FetchesFigure(e) PROVE FigureFresh(e)'
  <2>1. e \in K
    BY <1>1, <1>3, <1>7 DEF Figured
  <2>2. Under(q)' = Under(query)'
    BY UnderStays
  <2> QED BY <1>4, <2>1, <2>2 DEF FigureFresh
<1>8. \A e \in calls' : ~IsWrite(e)
  BY <1>1, <1>3, <1>4 DEF Figured
<1> QED BY <1>1, <1>5, <1>6, <1>7, <1>8 DEF FigureFacts, Figured, IsWrite, FetchesFigure

LEMMA RowsStart ==
  ASSUME NEW C, NEW D, NEW K, NEW loads, NEW q, Starts(C, D, K, loads, q), ~LoadsFigure(loads),
         0 \notin disturbed'
  PROVE  0 \notin disturbed /\ \A k \in K : ~Figured(k)
<1>1. \A k \in K : ~Figured(k)
  <2> SUFFICES ASSUME NEW k \in K PROVE ~Figured(k)
    OBVIOUS
  <2> PICK load \in loads : NewLoad(k, load, q)
    BY DEF Starts
  <2>1. k.load = load /\ ~IsWrite(k)
    BY DEF NewLoad, IsWrite
  <2>2. {"figure", "aside"} \cap load = {}
    BY DEF LoadsFigure
  <2> QED BY <2>1, <2>2 DEF Figured, FetchesFigure
<1>2. 0 \notin disturbed
  BY DEF Starts, DisturbedByLoads, FigureDisturbed
<1> QED BY <1>1, <1>2

(* Only on the contract's page do figures depend on what is looked at.     *)
LEMMA SteadyElsewhere ==
  ASSUME page \in FigurePages \ {"approvals"}, page' = page, NEW q
  PROVE  Steady /\ Under(query)' = Under(q)
BY DEF Steady, Under, FigurePages, ContractLists

LEMMA SteadyQuery ==
  ASSUME page' = page, query' = query
  PROVE  Steady
BY DEF Steady, Under

LEMMA FigureReload ==
  ASSUME Base, FigureKnown, NEW loads, NEW q, Effects(loads, q), Reload(loads, q)
  PROVE  FigureKnown'
<1>1. UNCHANGED <<page, server, aside>>
  BY DEF Reload
<1> SUFFICES ASSUME page \in FigurePages, 0 \notin disturbed' PROVE FigureFacts'
  BY <1>1 DEF FigureKnown, FigurePages
<1> PICK C, D, K : C = calls /\ Starts(C, D, K, loads, q) /\ OneFigure(K)
  BY ReloadStarts
<1>2. CASE LoadsFigure(loads)
  <2>1. Under(query)' = Under(q)
    <3>1. CASE page = "approvals"
      <4>1. query' = q
        BY <3>1 DEF Effects, Reload
      <4> QED BY <1>1, <4>1 DEF Under
    <3> QED BY <1>1, <3>1, SteadyElsewhere
  <2> QED BY <1>1, <1>2, <2>1, FigureStarts
<1>3. CASE ~LoadsFigure(loads)
  <2>1. 0 \notin disturbed /\ \A k \in K : ~Figured(k)
    BY <1>3, RowsStart
  <2>2. page # "dashboard" /\ FigureFacts
    BY <1>3, <2>1 DEF Effects, FigureKnown
  <2>3. Inherits(C, D, loads) /\ calls' = D \cup K /\ C \subseteq calls
    BY DEF Starts
  <2>4. \A c \in calls : c \in C \/ ~Figured(c)
    OBVIOUS
  <2>5. Steady
    <3>1. page # "approvals"
      <4>1. {"blank", "aside"} \in loads => LoadsFigure(loads)
        BY DEF LoadsFigure
      <4> QED BY <1>3, <4>1 DEF Effects
    <3> QED BY <1>1, <3>1, SteadyElsewhere
  <2> QED BY <1>1, <2>1, <2>2, <2>3, <2>4, <2>5, FigureCarried
<1> QED BY <1>2, <1>3

LEMMA FigureLoads ==
  ASSUME Base, FigureKnown, NEW c \in calls, Loaded(c) \/ LoadFailed(c)
  PROVE  FigureKnown'
<1>1. /\ UNCHANGED <<page, server>> /\ calls' = Accompanied(Others(c)) /\ disturbed \subseteq disturbed'
      /\ c.op = "load" /\ LoadShape(c)
  BY BaseCalls DEF Loaded, LoadFailed, IsWrite
<1>2. "figure" \notin c.load /\ ~IsWrite(c)
  BY <1>1 DEF LoadShape, IsWrite
<1>3. Figured(c) <=> "aside" \in c.load
  BY <1>2 DEF Figured, FetchesFigure
<1> SUFFICES ASSUME page \in FigurePages, 0 \notin disturbed' PROVE FigureFacts'
  BY <1>1 DEF FigureKnown, FigurePages
<1>4. FigureFacts
  BY <1>1 DEF FigureKnown
<1>0. Steady
  <2>1. CASE page = "approvals"
    <3>1. query' = query
      BY <1>1, <2>1 DEF LoadShape, Loaded, LoadFailed
    <3> QED BY <1>1, <3>1, SteadyQuery
  <2> QED BY <1>1, <2>1, SteadyElsewhere
<1>5. CASE ~Figured(c)
  <2>1. aside' = aside
    BY <1>3, <1>5 DEF Loaded, LoadFailed
  <2> QED BY <1>0, <1>1, <1>4, <1>5, <2>1, FigureEnds
<1>6. CASE Figured(c)
  <2>1. FetchesFigure(c)
    BY <1>2, <1>6 DEF Figured
  <2>2. Loaded(c)
    BY <2>1 DEF LoadFailed
  <2>3. c.phase = "answered" /\ FigureFresh(c)
    BY <1>4, <2>1, <2>2 DEF Loaded, FigureFacts
  <2>4. aside' = Right
    BY <1>3, <1>6, <2>2, <2>3 DEF Loaded, FigureFresh, Stale
  <2> QED BY <1>0, <1>1, <1>4, <1>6, <2>4, FigureEnds
<1> QED BY <1>5, <1>6

LEMMA FigureComes ==
  ASSUME Base, FigureKnown, NEW c \in calls, FigureLoaded(c) \/ FigureFailed(c)
  PROVE  FigureKnown'
<1>1. /\ UNCHANGED <<page, server>> /\ calls' = Accompanied(Others(c)) /\ disturbed \subseteq disturbed'
      /\ c.op = "figure" /\ LoadShape(c)
  BY BaseCalls DEF FigureLoaded, FigureFailed, IsWrite
<1>2. FetchesFigure(c) /\ Figured(c)
  BY <1>1 DEF LoadShape, IsWrite, FetchesFigure, Figured
<1> SUFFICES ASSUME page \in FigurePages, 0 \notin disturbed' PROVE FigureFacts'
  BY <1>1 DEF FigureKnown, FigurePages
<1>0. Steady
  BY <1>1, SteadyQuery DEF FigureLoaded, FigureFailed
<1>3. FigureFacts /\ FigureLoaded(c)
  BY <1>1 DEF FigureKnown, FigureFailed
<1>4. aside' = Right
  BY <1>2, <1>3 DEF FigureFacts, FigureLoaded, FigureFresh, Stale
<1> QED BY <1>0, <1>1, <1>2, <1>3, <1>4, FigureEnds

LEMMA FigureDone ==
  ASSUME Base, FigureKnown, page # "none", NEW c \in calls, Done(c)
  PROVE  FigureKnown'
<1>1. /\ UNCHANGED <<page, server, aside>> /\ IsWrite(c) /\ WriteShape(c) /\ Figured(c)
      /\ c.phase = "answered"
  BY BaseCalls DEF Done, Figured
<1> SUFFICES ASSUME page \in FigurePages, 0 \notin disturbed' PROVE FigureFacts'
  BY <1>1 DEF FigureKnown, FigurePages
<1>0. query' = query /\ Steady
  <2>1. page # "conversation"
    BY DEF FigurePages
  <2>2. query' = query
    BY <1>1, <2>1, FollowsWrite DEF Done
  <2> QED BY <1>1, <2>2, SteadyQuery
<1>2. ASSUME 0 \notin disturbed, ~LoadsFigure({c.load}) PROVE FigureFacts /\ aside = Right
  <2>1. FigureFacts /\ FigurePromise(c)
    BY <1>1, <1>2 DEF FigureKnown, FigureFacts
  <2>2. page = "bell" => c.op \in {"update", "all"}
    BY <1>1 DEF WriteShape, Marks, MarksAll
  <2> QED BY <1>1, <1>2, <2>1, <2>2 DEF FigurePromise, CountedAhead, CountedAfter
<1>3. CASE "none" \in c.load
  <2>1. calls' = Accompanied(Others(c)) /\ disturbed \subseteq disturbed'
    BY <1>3 DEF Done
  <2>2. c.load \subseteq {"none", "url"}
    BY <1>1, <1>3, FollowsWrite DEF ListAfter
  <2>3. ~LoadsFigure({c.load})
    BY <2>2 DEF LoadsFigure
  <2> QED BY <1>0, <1>1, <1>2, <2>1, <2>3, FigureEnds
<1>4. CASE "none" \notin c.load
  <2> PICK C, D, K, loads, q :
        /\ C = Others(c) /\ loads = {c.load}
        /\ q = (IF "held" \in c.load THEN c.query ELSE query)
        /\ Starts(C, D, K, loads, q) /\ OneFigure(K)
    BY <1>4, DoneLoads
  <2>1. CASE LoadsFigure(loads)
    <3>1. q = query
      BY <1>4 DEF Done, Outdated
    <3>2. Under(query)' = Under(q)
      BY <1>0, <3>1 DEF Steady
    <3> QED BY <1>1, <2>1, <3>2, FigureStarts
  <2>2. CASE ~LoadsFigure(loads)
    <3>1. 0 \notin disturbed /\ \A k \in K : ~Figured(k)
      BY <2>2, RowsStart
    <3>2. FigureFacts /\ aside = Right
      BY <1>2, <2>2, <3>1
    <3>3. Inherits(C, D, loads) /\ calls' = D \cup K
      BY DEF Starts
    <3>4. \A b \in C : ~Figured(b)
      BY <1>1, <3>2 DEF FigureFacts, OneFigured, Others
    <3>5. \A d \in calls' : ~Figured(d)
      BY <3>1, <3>3, <3>4, HeirsFigured
    <3>6. aside' = Right'
      BY <1>0, <1>1, <3>2, RightStays
    <3> QED BY <3>5, <3>6, FigureQuiet
  <2> QED BY <2>1, <2>2
<1> QED BY <1>3, <1>4

LEMMA FigureRefused ==
  ASSUME Base, FigureKnown, NEW c \in calls, Failed(c)
  PROVE  FigureKnown'
<1>1. /\ UNCHANGED <<page, server>> /\ calls' = Accompanied(Others(c)) /\ disturbed \subseteq disturbed'
      /\ IsWrite(c) /\ WriteShape(c) /\ Figured(c) /\ c \in CallType
  BY BaseCalls DEF Failed, Figured
<1> SUFFICES ASSUME page \in FigurePages, 0 \notin disturbed' PROVE FigureFacts'
  BY <1>1 DEF FigureKnown, FigurePages
<1>2. FigureFacts /\ FigurePromise(c)
  BY <1>1 DEF FigureKnown, FigureFacts
<1>3. c.phase = "sent"
  <2>1. 0 \in Touched(c)
    BY DEF Touched, All
  <2> QED BY <1>1, <2>1 DEF Failed, CallType
<1>0. Steady
  BY <1>1, SteadyQuery DEF Failed
<1>4. aside' = Right
  <2>1. CASE page = "bell"
    <3>1. c.undo = "snapshot"
      BY <1>1, <2>1, WritesAre
    <3>2. c.alone
      BY <3>1 DEF Failed, All
    <3> QED BY <1>2, <1>3, <2>1, <3>1, <3>2 DEF Failed, FigurePromise, CountedAhead
  <2>2. CASE page # "bell"
    <3>1. c.undo # "snapshot"
      BY <1>1, <2>2, WritesAre
    <3> QED BY <1>2, <1>3, <2>2, <3>1 DEF Failed, FigurePromise, CountedAfter
  <2> QED BY <2>1, <2>2
<1> QED BY <1>0, <1>1, <1>2, <1>4, FigureEnds

LEMMA FigureStep ==
  ASSUME PageKnown, FigureKnown, page # "none", PageStep
  PROVE  FigureKnown'
<1>1. Base /\ RowsKnown
  BY DEF PageKnown
<1>2. CASE \E c \in CallType : Offered(c) /\ Begin(c, RowsAhead(c), FigureAhead(c))
  BY <1>1, <1>2, FigureBegin
<1>3. CASE \E loads, q : Effects(loads, q) /\ Reload(loads, q)
  BY <1>1, <1>3, FigureReload
<1>4. CASE CallStep
  <2> PICK c \in calls : \/ Serve(c) \/ Loaded(c) \/ LoadFailed(c) \/ FigureLoaded(c)
                         \/ FigureFailed(c) \/ Done(c) \/ Failed(c)
    BY <1>4 DEF CallStep
  <2> QED BY <1>1, FigureServe, FigureLoads, FigureComes, FigureDone, FigureRefused
<1>5. CASE \E r \in Ids : Elsewhere(r)
  BY <1>5 DEF Elsewhere, FigureKnown
<1>6. CASE StartNewConversation
  <2>1. page = "conversation" /\ page' = page
    BY <1>6 DEF StartNewConversation, At
  <2> QED BY <2>1 DEF FigureKnown, FigurePages
<1> QED BY <1>1, <1>2, <1>3, <1>4, <1>5, <1>6, PageStepIs DEF Base, PageAct

LEMMA FigureOpens ==
  ASSUME Init
  PROVE  FigureKnown
<1> SUFFICES ASSUME page \in FigurePages PROVE FigureFacts
  BY DEF FigureKnown
<1>0. page # "none"
  BY DEF FigurePages
<1> PICK loads : loads = LoadsOf(page)
  OBVIOUS
<1>1. /\ calls = {Loading(load, "q1", 0) : load \in loads}
      /\ Effects(loads, "q1") /\ LoadsFigure(loads) /\ query = "q1"
  BY <1>0, OpenBase
<1>2. \A load \in loads : LET k == Loading(load, "q1", 0) IN
        ~IsWrite(k) /\ k.load = load /\ ~k.cancelled /\ k.phase = "sent" /\ k.query = "q1"
  BY DEF Loading, IsWrite
<1>3. \A c \in calls : ~IsWrite(c) /\ ~c.cancelled /\ c.phase = "sent" /\ c.query = query
  BY <1>1, <1>2
<1>4. \E c \in calls : Figured(c)
  BY <1>1, <1>2 DEF LoadsFigure, Figured, FetchesFigure
<1>5. OneFigured
  <2> SUFFICES ASSUME NEW a \in loads, NEW b \in loads, NEW j, NEW k, j = Loading(a, "q1", 0),
                      k = Loading(b, "q1", 0), Figured(j), Figured(k)
               PROVE  a = b
    BY <1>1 DEF OneFigured
  <2>1. IsFigureLoad(a) /\ IsFigureLoad(b)
    BY <1>2 DEF Figured, FetchesFigure, IsFigureLoad
  <2> QED BY <1>1, <2>1 DEF Effects
<1> QED BY <1>3, <1>4, <1>5 DEF FigureFacts, FigureFresh

(* The figure beside the rows of a page that has settled is what the       *)
(* server derives: the badge of the bell, the summaries, the status of the *)
(* contract beside its approvals; it is counted ahead and taken back, or   *)
(* fetched after the write.  Excepted is what overlapping calls, a lost    *)
(* answer or another user have touched.                                    *)
THEOREM FiguresShowTheServer == Spec => []SettledFigure
<1>1. FigureKnown => SettledFigure
  BY DEF FigureKnown, FigureFacts, SettledFigure, Settled, Right
<1>2. Init => FigureKnown
  BY FigureOpens
<1>3. PageKnown /\ FigureKnown /\ [Next]_vars => FigureKnown'
  <2>1. ASSUME FigureKnown, UNCHANGED pageVars PROVE FigureKnown'
    <3>1. Steady /\ server' = server /\ UNCHANGED <<page, aside, calls, disturbed>>
      BY <2>1, SteadyQuery DEF pageVars
    <3>2. Right' = Right
      BY <3>1, RightStays
    <3> SUFFICES ASSUME FigureFacts PROVE FigureFacts'
      BY <2>1, <3>1 DEF FigureKnown, FigurePages
    <3>3. ASSUME NEW c \in calls, FetchesFigure(c) PROVE FigureFresh(c)'
      <4>1. FigureFresh(c)
        BY <3>3 DEF FigureFacts
      <4> QED BY <3>1, <4>1, FreshStays DEF FigureFresh
    <3> QED BY <3>1, <3>2, <3>3 DEF FigureFacts, OneFigured, FigurePromise, CountedAhead,
               CountedAfter, Figured, IsWrite, FetchesFigure
  <2> QED BY <2>1, FigureStep DEF Next, vars
<1> QED BY <1>1, <1>2, <1>3, KnownAlways, PTL DEF Spec

-----------------------------------------------------------------------------
(* The bounds of what a form holds: a visit has not shown more errors than *)
(* there were submissions, one of them still in flight or not.             *)
TaskBounded(t) == t.record <= Len(made) /\ t.phase \in {"sent", "answered"}

ErrorsBounded(v) ==
  /\ ui[v].errors <= tries
  /\ \A t \in tasks : t.visit = v /\ t.at = "create" => ui[v].errors < tries

FormBounded ==
  /\ form \in FormKinds \cup {"none"} /\ tries \in 0 .. MaxTries
  /\ done \subseteq (1 .. Len(made)) \X FollowUps
  /\ \A t \in tasks : TaskBounded(t)
  /\ \A v \in Visits : ui[v].record <= Len(made) /\ ErrorsBounded(v)

LEMMA FormTypesBounded ==
  ASSUME FormInv, FormBounded
  PROVE  FormTypeOK
<1>1. Len(made) \in Nat /\ MaxTries \in Nat /\ tries \in 0 .. MaxTries
  BY FormBoundsAssumption DEF FormInv, FormTyped, FormBounded
<1>2. ASSUME NEW t \in tasks PROVE TaskTypeOK(t)
  BY <1>1 DEF FormInv, FormTyped, TaskSound, FormBounded, TaskBounded, TaskTypeOK
<1> DEFINE T == [working : BOOLEAN, record : 0 .. Len(made), failed : SUBSET FollowUps,
                 error : BOOLEAN, asked : SUBSET FollowUps, errors : 0 .. MaxTries]
<1>3. ASSUME NEW v \in Visits PROVE ui[v] \in T
  <2> PICK x : x = ui[v]
    OBVIOUS
  <2>1. x \in UiType /\ x.record <= Len(made) /\ x.errors <= tries
    BY DEF FormInv, FormTyped, FormBounded, ErrorsBounded
  <2>2. x.record \in 0 .. Len(made) /\ x.errors \in 0 .. MaxTries
    BY <1>1, <2>1, UiFields
  <2> QED BY <2>1, <2>2 DEF UiType
<1>4. ui \in [Visits -> T]
  <2> HIDE DEF T
  <2> QED BY <1>3 DEF FormInv, FormTyped
<1> QED BY <1>1, <1>2, <1>4 DEF FormTypeOK, FormBounded, FormInv, FormTyped

(* The screen of one visit moves, its handler with it.                     *)
LEMMA ScreenBounded ==
  ASSUME FormInv, FormBounded, UNCHANGED <<form, made, done>>,
         tries' \in 0 .. MaxTries, tries <= tries',
         NEW v \in Visits, NEW x \in UiType, ui'[v] = x, \A u \in Visits \ {v} : ui'[u] = ui[u],
         x.record <= Len(made), x.errors <= tries',
         \A t \in tasks' : \/ t \in tasks /\ t.visit # v
                           \/ /\ t.visit = v /\ TaskBounded(t)
                              /\ t.at = "create" => x.errors < tries'
  PROVE  FormBounded'
<1>0. tries \in 0 .. MaxTries /\ MaxTries \in Nat
  BY FormBoundsAssumption DEF FormBounded
<1>1. \A t \in tasks' : TaskBounded(t)'
  BY DEF FormBounded, TaskBounded
<1>2. ASSUME NEW u \in Visits PROVE ui'[u].record <= Len(made) /\ ErrorsBounded(u)'
  <2>1. CASE u = v
    BY <2>1 DEF ErrorsBounded
  <2>2. CASE u # v
    <3>1. ui'[u] = ui[u] /\ ui[u].errors \in Nat /\ ErrorsBounded(u) /\ ui[u].record <= Len(made)
      BY <2>2, UiFields DEF FormInv, FormTyped, FormBounded
    <3>2. \A t \in tasks' : t.visit = u => t \in tasks
      BY <2>2
    <3> QED BY <1>0, <3>1, <3>2 DEF ErrorsBounded
  <2> QED BY <2>1, <2>2
<1> QED BY <1>1, <1>2 DEF FormBounded

LEMMA SubmitBounded ==
  ASSUME FormInv, FormBounded, NEW todo, Submit(todo)
  PROVE  FormBounded'
<1> PICK v \in Visits : v = visit
  BY DEF FormInv, FormTyped
<1>1. ui[v] \in UiType /\ ui \in [Visits -> UiType] /\ Len(made) \in Nat /\ MaxTries \in Nat
  BY FormBoundsAssumption DEF FormInv, FormTyped
<1> PICK x : x = [ui[v] EXCEPT !.working = TRUE, !.error = FALSE, !.failed = {}]
  OBVIOUS
<1>2. x \in UiType /\ x.record = ui[v].record /\ x.errors = ui[v].errors
  BY <1>1 DEF UiType
<1>3. ui' = [ui EXCEPT ![v] = x]
  BY <1>1 DEF Submit
<1>4. ui'[v] = x /\ \A u \in Visits \ {v} : ui'[u] = ui[u]
  BY <1>1, <1>3
<1>5. /\ x.record <= Len(made) /\ x.errors < tries' /\ x.errors <= tries'
      /\ tries' \in 0 .. MaxTries /\ tries <= tries'
  <2>1. ui[v].errors \in Nat /\ ui[v].errors <= tries /\ ui[v].record <= Len(made)
    BY <1>1, UiFields DEF FormBounded, ErrorsBounded
  <2> QED BY <1>1, <1>2, <2>1 DEF Submit, FormBounded
<1> PICK k : k = Task("create", todo, 0)
  OBVIOUS
<1>6. k.visit = v /\ TaskBounded(k)
  BY <1>1 DEF Task, TaskBounded
<1>7. tasks' = tasks \cup {k} /\ UNCHANGED <<form, made, done>>
  BY DEF Submit
<1>8. \A t \in tasks' : \/ t \in tasks /\ t.visit # v
                        \/ /\ t.visit = v /\ TaskBounded(t)
                           /\ t.at = "create" => x.errors < tries'
  BY <1>5, <1>6, <1>7 DEF FormBounded
<1> QED BY <1>2, <1>4, <1>5, <1>7, <1>8, ScreenBounded

LEMMA RetryLinkBounded ==
  ASSUME FormInv, FormBounded, RetryLink
  PROVE  FormBounded'
<1> PICK v \in Visits : v = visit
  BY DEF FormInv, FormTyped
<1>1. ui[v] \in UiType /\ ui \in [Visits -> UiType] /\ tries \in 0 .. MaxTries /\ MaxTries \in Nat
  BY FormBoundsAssumption DEF FormInv, FormTyped, FormBounded
<1> PICK x : x = [ui[v] EXCEPT !.working = TRUE]
  OBVIOUS
<1>2. x \in UiType /\ x.record = ui[v].record /\ x.errors = ui[v].errors
  BY <1>1 DEF UiType
<1>3. ui' = [ui EXCEPT ![v] = x]
  BY <1>1 DEF RetryLink
<1>4. ui'[v] = x /\ \A u \in Visits \ {v} : ui'[u] = ui[u]
  BY <1>1, <1>3
<1>5. x.record <= Len(made) /\ x.errors <= tries
  BY <1>2 DEF FormBounded, ErrorsBounded
<1> PICK k : k = Task("link", << >>, ui[v].record)
  OBVIOUS
<1>6. k.visit = v /\ k.at = "link" /\ TaskBounded(k)
  BY <1>2, <1>5 DEF Task, TaskBounded
<1>7. tasks' = tasks \cup {k} /\ UNCHANGED <<form, made, done, tries>>
  BY DEF RetryLink
<1>8. \A t \in tasks' : \/ t \in tasks /\ t.visit # v
                        \/ /\ t.visit = v /\ TaskBounded(t)
                           /\ t.at = "create" => x.errors < tries'
  BY <1>2, <1>6, <1>7 DEF FormBounded, ErrorsBounded
<1>9. tries' \in 0 .. MaxTries /\ tries <= tries' /\ x.errors <= tries'
  BY <1>1, <1>5, <1>7
<1> QED BY <1>2, <1>4, <1>5, <1>7, <1>8, <1>9, ScreenBounded

(* The handler's next call is about the record it holds.                   *)
LEMMA OnwardBounded ==
  ASSUME NEW t, TaskSound(t), t.record # 0, t.record <= Len(made), NEW failed
  PROVE  \A u \in Onward(t, failed) : u.visit = t.visit /\ TaskBounded(u) /\ u.at # "create"
<1>1. CASE t.todo = << >>
  BY <1>1 DEF Onward
<1>2. CASE t.todo # << >>
  <2>1. t.todo \in Seq(FollowUps)
    BY DEF TaskSound
  <2> PICK at : at = Head(t.todo)
    OBVIOUS
  <2> PICK todo : todo = Tail(t.todo)
    OBVIOUS
  <2>2. at # "create"
    BY <1>2, <2>1 DEF FollowUps
  <2> PICK u : u = [t EXCEPT !.at = at, !.todo = todo, !.failed = failed, !.phase = "sent"]
    OBVIOUS
  <2>3. Onward(t, failed) = {u}
    BY <1>2 DEF Onward
  <2>4. u.at = at /\ u.visit = t.visit /\ u.record = t.record /\ u.phase = "sent"
    BY DEF TaskSound, TaskFields
  <2> QED BY <2>2, <2>3, <2>4 DEF TaskBounded
<1> QED BY <1>1, <1>2

(* A handler goes on and says what it has to say, or only goes on.         *)
LEMMA GoesOnBounded ==
  ASSUME FormInv, FormBounded, NEW t \in tasks, t.record # 0, NEW failed \in SUBSET FollowUps,
         UNCHANGED <<form, made, done, tries>>, tasks' = OtherTasks(t) \cup Onward(t, failed),
         \/ ui' = ui
         \/ ui' = Finished(t, failed)
         \/ ui' = [ui EXCEPT ![t.visit].record = t.record, ![t.visit].asked = t.asked]
  PROVE  FormBounded'
<1>1. /\ TaskSound(t) /\ ui[t.visit] \in UiType /\ ui \in [Visits -> UiType]
      /\ \A u \in OtherTasks(t) : u \in tasks /\ u.visit # t.visit
      /\ t.record \in Nat /\ t.asked \subseteq FollowUps
  BY HandlerKnown DEF FormInv, FormTyped, TaskSound
<1> PICK v \in Visits : v = t.visit
  BY HandlerKnown
<1>2. t.record <= Len(made) /\ ui[v].record <= Len(made) /\ ui[v].errors <= tries
  BY DEF FormBounded, TaskBounded, ErrorsBounded
<1>3. PICK x \in UiType : /\ ui' = [ui EXCEPT ![v] = x] /\ x.errors = ui[v].errors
                          /\ x.record <= Len(made)
  <2>1. CASE ui' = ui
    BY <1>1, <1>2, <2>1
  <2>2. CASE ui' = Finished(t, failed)
    <3> PICK x : x = [ui[v] EXCEPT !.working = FALSE, !.record = t.record,
                                   !.failed = failed, !.asked = t.asked]
      OBVIOUS
    <3>1. x \in UiType /\ x.record = t.record /\ x.errors = ui[v].errors
      BY <1>1 DEF UiType
    <3>2. ui' = [ui EXCEPT ![v] = x]
      BY <1>1, <2>2 DEF Finished
    <3> QED BY <1>2, <3>1, <3>2
  <2>3. CASE ui' = [ui EXCEPT ![t.visit].record = t.record, ![t.visit].asked = t.asked]
    <3> PICK x : x = [ui[v] EXCEPT !.record = t.record, !.asked = t.asked]
      OBVIOUS
    <3>1. x \in UiType /\ x.record = t.record /\ x.errors = ui[v].errors
      BY <1>1 DEF UiType
    <3>2. ui' = [ui EXCEPT ![v] = x]
      BY <1>1, <2>3
    <3> QED BY <1>2, <3>1, <3>2
  <2> QED BY <2>1, <2>2, <2>3
<1>4. ui'[v] = x /\ \A u \in Visits \ {v} : ui'[u] = ui[u]
  BY <1>1, <1>3
<1>5. \A u \in Onward(t, failed) : u.visit = v /\ TaskBounded(u) /\ u.at # "create"
  BY <1>1, <1>2, OnwardBounded
<1>6. \A u \in tasks' : \/ u \in tasks /\ u.visit # v
                        \/ /\ u.visit = v /\ TaskBounded(u)
                           /\ u.at = "create" => x.errors < tries'
  BY <1>1, <1>5
<1>7. tries' \in 0 .. MaxTries /\ tries <= tries' /\ x.errors <= tries'
  BY <1>2, <1>3, FormBoundsAssumption DEF FormBounded
<1> QED BY <1>3, <1>4, <1>6, <1>7, ScreenBounded

LEMMA CreateFailedBounded ==
  ASSUME FormInv, FormBounded, NEW t \in tasks, CreateFailed(t)
  PROVE  FormBounded'
<1>1. /\ ui[t.visit] \in UiType /\ ui \in [Visits -> UiType]
      /\ \A u \in OtherTasks(t) : u \in tasks /\ u.visit # t.visit
  BY HandlerKnown DEF FormInv, FormTyped
<1> PICK v \in Visits : v = t.visit
  BY HandlerKnown
<1>2. /\ tasks' = OtherTasks(t) /\ UNCHANGED <<form, made, done, tries>>
      /\ t.at = "create"
  BY DEF CreateFailed
<1> PICK n \in Nat : n = ui[v].errors + 1
  BY <1>1, UiFields
<1> PICK x : x = [ui[v] EXCEPT !.working = FALSE, !.error = TRUE, !.errors = n]
  OBVIOUS
<1>3. x \in UiType /\ x.errors = n /\ x.record = ui[v].record
  BY <1>1 DEF UiType
<1>4. ui' = [ui EXCEPT ![v] = x]
  BY <1>1 DEF CreateFailed
<1>5. ui'[v] = x /\ \A u \in Visits \ {v} : ui'[u] = ui[u]
  BY <1>1, <1>4
<1>6. /\ x.record <= Len(made) /\ x.errors <= tries'
      /\ tries' \in 0 .. MaxTries /\ tries <= tries'
  <2>1. ui[v].errors < tries /\ tries \in 0 .. MaxTries /\ MaxTries \in Nat
    BY <1>2, FormBoundsAssumption DEF FormBounded, ErrorsBounded
  <2>2. ui[v].errors \in Nat /\ ui[v].record <= Len(made)
    BY <1>1, UiFields DEF FormBounded
  <2> QED BY <1>2, <1>3, <2>1, <2>2
<1> QED BY <1>1, <1>2, <1>3, <1>5, <1>6, ScreenBounded

LEMMA ServeTaskBounded ==
  ASSUME FormInv, FormBounded, NEW t \in tasks, ServeTask(t)
  PROVE  FormBounded'
<1>1. /\ TaskSound(t) /\ t.phase = "sent" /\ UNCHANGED <<form, ui, tries>>
      /\ t.record \in Nat /\ t.record <= Len(made) /\ made \in Seq(Visits) /\ t.visit \in Visits
  BY HandlerKnown DEF ServeTask, FormInv, FormTyped, TaskSound, FormBounded, TaskBounded
<1>2. PICK k :
        /\ tasks' = OtherTasks(t) \cup {k} /\ k.visit = t.visit /\ k.at = t.at
        /\ Len(made') \in Nat /\ Len(made) <= Len(made') /\ TaskBounded(k)'
        /\ done' \subseteq (1 .. Len(made')) \X FollowUps
  <2>1. CASE t.at = "create"
    <3> PICK n : n = Len(made) + 1
      OBVIOUS
    <3> PICK k : k = [t EXCEPT !.record = n, !.phase = "answered"]
      OBVIOUS
    <3>1. k.visit = t.visit /\ k.at = t.at /\ k.record = n /\ k.phase = "answered"
      BY <1>1 DEF TaskSound, TaskFields
    <3>2. tasks' = OtherTasks(t) \cup {k} /\ made' = Append(made, t.visit) /\ done' = done
      BY <2>1 DEF ServeTask
    <3>3. /\ Len(made') = Len(made) + 1 /\ Len(made) \in Nat /\ Len(made') \in Nat
          /\ Len(made) <= Len(made')
      BY <1>1, <3>2
    <3>4. done' \subseteq (1 .. Len(made')) \X FollowUps
      BY <3>2, <3>3 DEF FormBounded
    <3>5. TaskBounded(k)'
      BY <3>1, <3>3 DEF TaskBounded
    <3> QED BY <3>1, <3>2, <3>3, <3>4, <3>5
  <2>2. CASE t.at # "create"
    <3> PICK k : k = [t EXCEPT !.phase = "answered"]
      OBVIOUS
    <3>1. k.visit = t.visit /\ k.at = t.at /\ k.record = t.record /\ k.phase = "answered"
      BY <1>1 DEF TaskSound, TaskFields
    <3>2. tasks' = OtherTasks(t) \cup {k} /\ made' = made /\ done' = Noted(t)
      BY <2>2 DEF ServeTask
    <3>3. t.record \in 1 .. Len(made) /\ t.at \in FollowUps
      BY <1>1, <2>2 DEF TaskSound, InCreate
    <3>4. done' \subseteq (1 .. Len(made')) \X FollowUps
      BY <3>2, <3>3 DEF FormBounded, Noted, FollowUps
    <3>5. TaskBounded(k)'
      BY <1>1, <3>1, <3>2 DEF TaskBounded
    <3>6. Len(made') \in Nat /\ Len(made) <= Len(made')
      BY <1>1, <3>2
    <3> QED BY <3>1, <3>2, <3>4, <3>5, <3>6
  <2> QED BY <2>1, <2>2
<1>3. Len(made) \in Nat /\ Len(made) <= Len(made')
  BY <1>1, <1>2
<1>4. \A u \in OtherTasks(t) : u \in tasks /\ u.record \in Nat
  BY DEF OtherTasks, FormInv, FormTyped, TaskSound
<1>5. \A u \in tasks' : TaskBounded(u)'
  <2> SUFFICES ASSUME NEW u \in OtherTasks(t) PROVE TaskBounded(u)'
    BY <1>2
  <2>1. TaskBounded(u) /\ u.record \in Nat
    BY <1>4 DEF FormBounded
  <2> QED BY <1>2, <1>3, <2>1 DEF TaskBounded
<1>6. ASSUME NEW v \in Visits PROVE ui[v].record <= Len(made') /\ ErrorsBounded(v)'
  <2>1. ui[v].record \in Nat /\ ui[v].record <= Len(made) /\ ErrorsBounded(v)
    BY UiFields DEF FormInv, FormTyped, FormBounded
  <2>2. \A u \in tasks' : u.visit = v /\ u.at = "create" => ui[v].errors < tries
    BY <1>2, <1>4, <2>1 DEF ErrorsBounded
  <2> QED BY <1>1, <1>2, <1>3, <2>1, <2>2 DEF ErrorsBounded
<1> QED BY <1>1, <1>2, <1>5, <1>6 DEF FormBounded

LEMMA FormStepBounded ==
  ASSUME FormInv, FormBounded, FormStep
  PROVE  FormBounded'
<1>1. CASE \E todo : Submit(todo)
  BY <1>1, SubmitBounded
<1>2. CASE RetryLink
  BY <1>2, RetryLinkBounded
<1>3. CASE LeaveAndReturn
  BY <1>3 DEF LeaveAndReturn, FormBounded, TaskBounded, ErrorsBounded
<1>4. CASE \E t \in tasks : Created(t)
  <2> PICK t \in tasks : Created(t)
    BY <1>4
  <2>1. t.record # 0
    BY HandlerKnown DEF Created, TaskSound, InCreate
  <2>2. {} \in SUBSET FollowUps
    OBVIOUS
  <2> PICK failed \in SUBSET FollowUps : failed = {}
    BY <2>2
  <2>3. /\ tasks' = OtherTasks(t) \cup Onward(t, failed)
        /\ \/ ui' = ui
           \/ ui' = Finished(t, failed)
           \/ ui' = [ui EXCEPT ![t.visit].record = t.record, ![t.visit].asked = t.asked]
        /\ UNCHANGED <<form, made, done, tries>>
    BY DEF Created
  <2> QED BY <2>1, <2>3, GoesOnBounded
<1>5. CASE \E t \in tasks : FollowedUp(t)
  <2> PICK t \in tasks : FollowedUp(t)
    BY <1>5
  <2>1. TaskSound(t) /\ t.record # 0
    BY HandlerKnown DEF FollowedUp, TaskSound, InCreate, FollowUps
  <2>2. PICK ok \in BOOLEAN :
          /\ tasks' = OtherTasks(t) \cup Onward(t, FailuresAfter(t, ok))
          /\ ui' = IF t.todo = << >> THEN Finished(t, FailuresAfter(t, ok)) ELSE ui
    BY DEF FollowedUp
  <2> PICK failed \in SUBSET FollowUps : failed = FailuresAfter(t, ok)
    BY <2>1 DEF FailuresAfter, TaskSound, FollowedUp
  <2>3. /\ tasks' = OtherTasks(t) \cup Onward(t, failed)
        /\ ui' = ui \/ ui' = Finished(t, failed)
        /\ UNCHANGED <<form, made, done, tries>>
    BY <2>2 DEF FollowedUp
  <2> QED BY <2>1, <2>3, GoesOnBounded
<1>6. CASE \E t \in tasks : ServeTask(t) \/ CreateFailed(t)
  BY <1>6, ServeTaskBounded, CreateFailedBounded
<1>7. CASE \/ NewContractHandleSubmit \/ OnboardHandleSubmit \/ RegisterHandleSubmit
           \/ ContactHandleSubmit \/ ResetPasswordHandleSubmit \/ AcceptStaffInviteHandleSubmit
           \/ LoginHandleSubmit \/ HandleForgotSubmit
  <2>1. \E todo : Submit(todo)
    BY <1>7 DEF NewContractHandleSubmit, OnboardHandleSubmit, RegisterHandleSubmit,
                ContactHandleSubmit, ResetPasswordHandleSubmit, AcceptStaffInviteHandleSubmit,
                LoginHandleSubmit, HandleForgotSubmit
  <2> QED BY <2>1, <1>1
<1> QED BY <1>2, <1>3, <1>4, <1>5, <1>6, <1>7 DEF FormStep, HandlerStep

LEMMA FormOpens ==
  ASSUME FormInit \/ (form = "none" /\ NoForm)
  PROVE  FormBounded
<1>1. /\ Fresh.record = 0 /\ Fresh.errors = 0
  BY DEF Fresh
<1>2. Len(made) = 0 /\ tasks = {} /\ done = {} /\ tries = 0 /\ \A v \in Visits : ui[v] = Fresh
  BY DEF FormInit, NoForm
<1>3. form \in FormKinds \cup {"none"} /\ tries \in 0 .. MaxTries
  BY <1>2, FormBoundsAssumption DEF FormInit
<1> QED BY <1>1, <1>2, <1>3 DEF FormBounded, ErrorsBounded

LEMMA CallTypesOK ==
  ASSUME NEW c \in CallType
  PROVE  CallTypeOK(c)
BY DEF CallType, CallTypeOK, Ops, SlotNames, Rows

(* Every variable keeps its type, of the pages and of the forms; a form    *)
(* never claims a record that the server has not made, and never shows     *)
(* more errors than it was submitted.                                      *)
THEOREM PortalsTyped == Spec => []TypeOK
<1>1. PageKnown /\ FormInv /\ FormBounded => TypeOK
  <2> SUFFICES ASSUME PageKnown, FormInv, FormBounded PROVE TypeOK
    OBVIOUS
  <2>1. PageTyped /\ FormTypeOK
    BY FormTypesBounded DEF PageKnown, Base
  <2>2. \A c \in calls : CallTypeOK(c)
    BY <2>1, CallTypesOK DEF PageTyped
  <2> QED BY <2>1, <2>2 DEF TypeOK, PageTyped, Rows
<1>2. Init => FormInv /\ FormBounded
  BY FormBegins, FormOpens DEF Init
<1>3. FormInv /\ FormBounded /\ [Next]_vars => (FormInv /\ FormBounded)'
  <2>1. ASSUME FormInv, FormBounded, UNCHANGED formVars PROVE FormInv' /\ FormBounded'
    <3>1. FormInv'
      BY <2>1 DEF formVars, FormInv, FormTyped, Single, CountSound, Count
    <3>2. FormBounded'
      BY <2>1 DEF formVars, FormBounded, TaskBounded, ErrorsBounded
    <3> QED BY <3>1, <3>2
  <2> QED BY <2>1, FormStepKeeps, FormStepBounded DEF Next, vars
<1> QED BY <1>1, <1>2, <1>3, KnownAlways, PTL DEF Spec

=============================================================================
