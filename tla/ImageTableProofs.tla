-------------------------- MODULE ImageTableProofs --------------------------
(***************************************************************************)
(* Proofs about ImageTable, for any images (of which podman may list any   *)
(* number), references and times, and any number of names.                 *)
(***************************************************************************)
EXTENDS ImageTable, FiniteSetTheorems, FunctionTheorems, TLAPS

\* Where x is in the sequence s, and how often.
At(s, x) == {k \in DOMAIN s : s[k] = x}
Count(s, x) == Cardinality(At(s, x))

-----------------------------------------------------------------------------
(* Counting in sequences. *)

LEMMA AtFinite ==
  ASSUME NEW S, NEW s \in Seq(S), NEW x
  PROVE  IsFiniteSet(At(s, x)) /\ Count(s, x) \in Nat
<1>1. At(s, x) \in SUBSET (1..Len(s)) /\ Len(s) \in Int
  BY DEF At
<1>2. IsFiniteSet(1..Len(s))
  BY <1>1, FS_Interval
<1>3. IsFiniteSet(At(s, x))
  BY <1>1, <1>2, FS_Subset
<1> QED BY <1>3, FS_CardinalityType DEF Count

LEMMA CountZero ==
  ASSUME NEW S, NEW s \in Seq(S), NEW x
  PROVE  Count(s, x) = 0 <=> \A k \in DOMAIN s : s[k] # x
<1>1. Count(s, x) = 0 <=> At(s, x) = {}
  BY AtFinite, FS_EmptySet DEF Count
<1> QED BY <1>1 DEF At

LEMMA Appended ==
  ASSUME NEW S, NEW s \in Seq(S), NEW e \in S
  PROVE  /\ Append(s, e) \in Seq(S)
         /\ Len(Append(s, e)) = Len(s) + 1
         /\ \A k \in DOMAIN Append(s, e) : \/ Append(s, e)[k] = e
                                           \/ k \in DOMAIN s /\ Append(s, e)[k] = s[k]
OBVIOUS

LEMMA CountAppend ==
  ASSUME NEW S, NEW s \in Seq(S), NEW e \in S, NEW x
  PROVE  Count(Append(s, e), x) = IF e = x THEN Count(s, x) + 1 ELSE Count(s, x)
<1> DEFINE n == Len(s) + 1
<1>1. n \notin At(s, x)
  BY DEF At
<1>2. At(Append(s, e), x) = IF e = x THEN At(s, x) \cup {n} ELSE At(s, x)
  BY DEF At
<1> HIDE DEF n
<1>3. IsFiniteSet(At(s, x)) /\ Cardinality(At(s, x)) = Count(s, x)
  BY AtFinite DEF Count
<1>4. Cardinality(At(s, x) \cup {n}) = Count(s, x) + 1
  BY <1>1, <1>3, FS_AddElement
<1> QED BY <1>2, <1>3, <1>4 DEF Count

LEMMA CountConcat ==
  ASSUME NEW S, NEW s \in Seq(S), NEW t \in Seq(S), NEW x
  PROVE  Count(s \o t, x) = Count(s, x) + Count(t, x)
<1> DEFINE T == {k \in (Len(s) + 1)..(Len(s) + Len(t)) : t[k - Len(s)] = x}
           shift == [k \in At(t, x) |-> k + Len(s)]
<1>1. At(s \o t, x) = At(s, x) \cup T
  BY DEF At
<1>2. At(s, x) \cap T = {}
  BY DEF At
<1>3. shift \in Bijection(At(t, x), T)
  <2>1. shift \in [At(t, x) -> T]
    BY DEF At
  <2>2. \A a, b \in At(t, x) : shift[a] = shift[b] => a = b
    BY DEF At
  <2>3. ASSUME NEW c \in T PROVE \E a \in At(t, x) : shift[a] = c
    <3>1. c - Len(s) \in At(t, x)
      BY DEF At
    <3>2. shift[c - Len(s)] = c
      BY <3>1
    <3> QED BY <3>1, <3>2
  <2> QED BY <2>1, <2>2, <2>3, Fun_IsBij
<1>4. IsFiniteSet(T) /\ Cardinality(T) = Count(t, x)
  BY <1>3, AtFinite, FS_Bijection DEF Count, ExistsBijection
<1> HIDE DEF T
<1>5. Cardinality(At(s, x) \cap T) = 0
  BY <1>2, FS_EmptySet
<1>6. Count(s, x) \in Nat /\ Count(t, x) \in Nat /\ IsFiniteSet(At(s, x))
  BY AtFinite
<1>7. Cardinality(At(s, x) \cup T) = Count(s, x) + Count(t, x) - Cardinality(At(s, x) \cap T)
  BY <1>4, <1>6, FS_Union DEF Count
<1> QED BY <1>1, <1>5, <1>6, <1>7 DEF Count

\* Sorting loses and repeats nothing.
LEMMA CountSorted ==
  ASSUME NEW S, NEW s \in Seq(S), NEW order \in Bijection(DOMAIN s, DOMAIN s), NEW x
  PROVE  Count([k \in DOMAIN s |-> s[order[k]]], x) = Count(s, x)
<1> DEFINE t == [k \in DOMAIN s |-> s[order[k]]]
           moved == [k \in At(t, x) |-> order[k]]
<1>1. order \in [DOMAIN s -> DOMAIN s]
  BY Fun_BijectionProperties
<1>2. moved \in Bijection(At(t, x), At(s, x))
  <2>1. moved \in [At(t, x) -> At(s, x)]
    BY <1>1 DEF At
  <2>2. \A a, b \in At(t, x) : moved[a] = moved[b] => a = b
    <3>1. \A a, b \in DOMAIN s : order[a] = order[b] => a = b
      BY DEF Bijection, Injection, IsInjective
    <3> QED BY <3>1 DEF At
  <2>3. ASSUME NEW c \in At(s, x) PROVE \E a \in At(t, x) : moved[a] = c
    <3>1. PICK a \in DOMAIN s : order[a] = c
      BY DEF Bijection, Surjection, At
    <3>2. a \in At(t, x)
      BY <3>1 DEF At
    <3> QED BY <3>1, <3>2
  <2> QED BY <2>1, <2>2, <2>3, Fun_IsBij
<1>3. ExistsBijection(At(s, x), At(t, x))
  BY <1>2, Fun_ExistsBijSymmetric DEF ExistsBijection
<1> QED BY <1>3, AtFinite, FS_Bijection DEF Count

-----------------------------------------------------------------------------
(* The loops. *)

TableRow == [id : Ids, ref : Tagged \cup {"none"}]

TableTypes ==
  /\ todo \in SUBSET Ids
  /\ names \in [Ids -> Seq(TableRefs)]
  /\ rows \in Seq(TableRow)
  /\ tagged \in Seq(TableRow)
  /\ untagged \in Seq(TableRow)
  /\ tableStep \in {"images", "names", "done", "error"}

\* Where a name r is among the first n of image i.
Places(i, r, n) == {k \in 1..n : names[i][k] = r}

\* The inner loop: each name read is in one of the lists, and only the current
\* image's are.
Reading ==
  tableStep = "names" =>
    /\ current \in Ids \ todo
    /\ next \in 1..(Len(names[current]) + 1)
    /\ names[current] # <<>>
    /\ Len(tagged) + Len(untagged) = next - 1
    /\ \A k \in DOMAIN tagged : tagged[k].id = current /\ tagged[k].ref \in Tagged
    /\ \A k \in DOMAIN untagged : untagged[k] = Row(current, "none")
    /\ \A r \in Tagged : Count(tagged, Row(current, r)) = Cardinality(Places(current, r, next - 1))

\* Between two images the lists are as the inner loop starts with them.
Fresh == tableStep = "images" => next = 1 /\ tagged = <<>> /\ untagged = <<>>

\* Image i is not in the table yet.
Awaited(i) == i \in todo \/ (tableStep = "names" /\ i = current)

\* The outer loop: an image is in the table completely or not at all.
Listed ==
  tableStep # "error" =>
    \A i \in Ids : IF Awaited(i) THEN \A k \in DOMAIN rows : rows[k].id # i
                                 ELSE Complete(i)

TableInv == TableTypes /\ Reading /\ Fresh /\ Listed /\ (tableStep = "done" => todo = {})

LEMMA CountRows ==
  ASSUME NEW i, NEW r
  PROVE  Cardinality(RowsWith(i, r)) = Count(rows, Row(i, r))
BY DEF RowsWith, Count, At

LEMMA TableStarts == TableInit => TableInv
<1> SUFFICES ASSUME TableInit PROVE TableInv
  OBVIOUS
<1>1. names \in [Ids -> Seq(TableRefs)]
  <2>1. \A k \in 0..MaxTags : [1..k -> TableRefs] \subseteq Seq(TableRefs)
    BY RefsAssumption
  <2> QED BY <2>1 DEF TableInit
<1> QED BY <1>1 DEF TableInit, TableInv, TableTypes, Reading, Fresh, Listed, Awaited

\* No image has a row yet that the current one, or one to come, will have.
LEMMA NoneCounted ==
  ASSUME TableTypes, NEW i \in Ids, \A k \in DOMAIN rows : rows[k].id # i, NEW r
  PROVE  Count(rows, Row(i, r)) = 0
BY CountZero DEF TableTypes, Row

\* After rows of image i were appended, what is so of the others stays so.
LEMMA OthersListed ==
  ASSUME TableTypes, NEW t \in Seq(TableRow), NEW i \in Ids,
         \A k \in DOMAIN t : t[k].id = i, rows' = rows \o t, names' = names,
         NEW j \in Ids, j # i
  PROVE  /\ Complete(j) => Complete(j)'
         /\ (\A k \in DOMAIN rows : rows[k].id # j) => \A k \in DOMAIN rows' : rows'[k].id # j
<1>1. rows \in Seq(TableRow)
  BY DEF TableTypes
<1>2. \A r : Count(t, Row(j, r)) = 0
  BY CountZero DEF Row
<1>3. \A r : Count(rows', Row(j, r)) = Count(rows, Row(j, r))
  <2> TAKE r
  <2>1. Count(rows \o t, Row(j, r)) = Count(rows, Row(j, r)) + Count(t, Row(j, r))
    BY <1>1, CountConcat
  <2>2. Count(rows, Row(j, r)) \in Nat
    BY <1>1, AtFinite
  <2> QED BY <1>2, <2>1, <2>2
<1>4. \A r : RowsWith(j, r)' = At(rows', Row(j, r)) /\ RowsWith(j, r) = At(rows, Row(j, r))
  BY DEF RowsWith, At
<1>5. Complete(j) => Complete(j)'
  BY <1>3, <1>4 DEF Complete, NamesOf, Count
<1>6. ASSUME \A k \in DOMAIN rows : rows[k].id # j, NEW k \in DOMAIN rows'
      PROVE  rows'[k].id # j
  <2>1. CASE k <= Len(rows)
    BY <1>1, <1>6, <2>1
  <2>2. CASE k > Len(rows)
    <3>1. k - Len(rows) \in DOMAIN t /\ rows'[k] = t[k - Len(rows)]
      BY <1>1, <2>2
    <3> QED BY <3>1
  <2> QED BY <1>1, <2>1, <2>2
<1> QED BY <1>5, <1>6

\* The rows of image i that are appended make the table complete for it.
LEMMA NowListed ==
  ASSUME TableTypes, NEW t \in Seq(TableRow), NEW i \in Ids,
         \A k \in DOMAIN rows : rows[k].id # i, rows' = rows \o t, names' = names,
         \A r \in Tagged : Count(t, Row(i, r)) = Cardinality({k \in DOMAIN names[i] : names[i][k] = r}),
         Count(t, Row(i, "none")) = IF NamesOf(i) \cap Tagged = {} THEN 1 ELSE 0
  PROVE  Complete(i)'
<1>1. rows \in Seq(TableRow)
  BY DEF TableTypes
<1>2. ASSUME NEW r PROVE Cardinality(RowsWith(i, r)') = Count(t, Row(i, r))
  <2>1. Count(rows \o t, Row(i, r)) = Count(rows, Row(i, r)) + Count(t, Row(i, r))
    BY <1>1, CountConcat
  <2>2. Count(rows, Row(i, r)) = 0 /\ Count(t, Row(i, r)) \in Nat
    BY NoneCounted, AtFinite
  <2>3. RowsWith(i, r)' = At(rows', Row(i, r))
    BY DEF RowsWith, At
  <2> QED BY <2>1, <2>2, <2>3 DEF Count
<1>3. NamesOf(i)' = NamesOf(i)
  BY DEF NamesOf
<1> QED BY <1>2, <1>3 DEF Complete

\* One more name of an image is read.
LEMMA PlacesGrow ==
  ASSUME NEW i, NEW r, NEW n \in Nat
  PROVE  Cardinality(Places(i, r, n + 1)) =
           IF names[i][n + 1] = r THEN Cardinality(Places(i, r, n)) + 1 ELSE Cardinality(Places(i, r, n))
<1>1. Places(i, r, n) \in SUBSET (1..n)
  BY DEF Places
<1>2. IsFiniteSet(1..n)
  BY FS_Interval
<1>3. IsFiniteSet(Places(i, r, n))
  BY <1>1, <1>2, FS_Subset
<1> DEFINE m == n + 1
<1>4. Places(i, r, m) = IF names[i][m] = r THEN Places(i, r, n) \cup {m} ELSE Places(i, r, n)
  BY DEF Places
<1>5. m \notin Places(i, r, n)
  BY DEF Places
<1> HIDE DEF m
<1>6. Cardinality(Places(i, r, n) \cup {m}) = Cardinality(Places(i, r, n)) + 1
  BY <1>3, <1>5, FS_AddElement
<1> QED BY <1>4, <1>6 DEF m

LEMMA TakeUnnamedKeeps ==
  ASSUME TableInv, NEW i \in Ids, TakeUnnamed(i)
  PROVE  TableInv'
<1> DEFINE t == <<Row(i, "none")>>
<1>1. TableTypes /\ rows \in Seq(TableRow) /\ Row(i, "none") \in TableRow
  BY DEF TableInv, TableTypes, Row, TableRow
<1>2. t \in Seq(TableRow) /\ rows' = rows \o t /\ names' = names /\ DOMAIN t = {1} /\ t[1] = Row(i, "none")
  BY <1>1 DEF TakeUnnamed
<1>3. rows' \in Seq(TableRow)
  BY <1>1, <1>2
<1>4. \A r : Count(t, Row(i, r)) = IF r = "none" THEN 1 ELSE 0
  <2> TAKE r
  <2>1. At(t, Row(i, r)) = IF r = "none" THEN {1} ELSE {}
    BY <1>2 DEF At, Row
  <2> QED BY <2>1, FS_EmptySet, FS_Singleton DEF Count
<1>5. \A k \in DOMAIN rows : rows[k].id # i
  BY DEF TableInv, Listed, Awaited, TakeUnnamed
<1>6. Complete(i)'
  <2>1. \A r : {k \in DOMAIN names[i] : names[i][k] = r} = {}
    BY DEF TakeUnnamed
  <2>2. NamesOf(i) = {}
    BY DEF TakeUnnamed, NamesOf
  <2>3. \A r \in Tagged : r # "none"
    BY RefsAssumption DEF TableRefs
  <2> HIDE DEF t
  <2> QED BY <1>1, <1>2, <1>4, <1>5, <2>1, <2>2, <2>3, NowListed, FS_EmptySet
<1>7. \A k \in DOMAIN t : t[k].id = i
  BY <1>2 DEF Row
<1> HIDE DEF t
<1>8. \A j \in Ids : j # i =>
        /\ Complete(j) => Complete(j)'
        /\ (\A k \in DOMAIN rows : rows[k].id # j) => \A k \in DOMAIN rows' : rows'[k].id # j
  BY <1>1, <1>2, <1>7, OthersListed
<1>9. Listed'
  BY <1>6, <1>8 DEF TableInv, Listed, Awaited, TakeUnnamed
<1> QED BY <1>3, <1>9 DEF TableInv, TableTypes, Reading, Fresh, TakeUnnamed, loopVars

LEMMA TakeNamedKeeps ==
  ASSUME TableInv, NEW i \in Ids, TakeNamed(i)
  PROVE  TableInv'
<1>1. next = 1 /\ tagged = <<>> /\ untagged = <<>>
  BY DEF TakeNamed, TableInv, Fresh
<1>2. names \in [Ids -> Seq(TableRefs)]
  BY DEF TableInv, TableTypes
<1>3. \A r : Count(<<>>, Row(i, r)) = 0 /\ Cardinality(Places(i, r, 0)) = 0
  BY FS_EmptySet DEF Count, At, Places
<1>4. Reading'
  BY <1>1, <1>2, <1>3 DEF Reading, TakeNamed, Places
<1>5. Listed'
  <2>1. \A j \in Ids : Awaited(j)' <=> Awaited(j)
    BY DEF TakeNamed, Awaited
  <2>2. \A j \in Ids : Complete(j)' <=> Complete(j)
    BY DEF TakeNamed, Complete, RowsWith, NamesOf
  <2> QED BY <2>1, <2>2 DEF TakeNamed, TableInv, Listed
<1> QED BY <1>4, <1>5 DEF TakeNamed, TableInv, TableTypes, Fresh

LEMMA ReadNameKeeps ==
  ASSUME TableInv, ReadName
  PROVE  TableInv'
<1> DEFINE r == names[current][next]
<1>1. /\ current \in Ids \ todo /\ next \in 1..Len(names[current]) /\ r \in TableRefs
      /\ names[current] \in Seq(TableRefs)
      /\ tagged \in Seq(TableRow) /\ untagged \in Seq(TableRow)
  BY DEF ReadName, TableInv, Reading, TableTypes
<1>2. Row(current, "none") \in TableRow /\ (r \in Tagged => Row(current, r) \in TableRow)
  BY <1>1 DEF Row, TableRow
<1> HIDE DEF r
<1>3. \/ r \in Tagged /\ tagged' = Append(tagged, Row(current, r)) /\ untagged' = untagged
      \/ r \notin Tagged /\ untagged' = Append(untagged, Row(current, "none")) /\ tagged' = tagged
  BY DEF ReadName, HasTag, r
<1>4. /\ tagged' \in Seq(TableRow) /\ untagged' \in Seq(TableRow)
      /\ Len(tagged') + Len(untagged') = Len(tagged) + Len(untagged) + 1
  <2>1. \A s, e : s \in Seq(TableRow) /\ e \in TableRow =>
                  Append(s, e) \in Seq(TableRow) /\ Len(Append(s, e)) = Len(s) + 1
    BY Appended
  <2>2. Len(tagged) \in Nat /\ Len(untagged) \in Nat
    BY <1>1
  <2>3. CASE r \in Tagged
    <3>1. tagged' = Append(tagged, Row(current, r)) /\ untagged' = untagged /\ Row(current, r) \in TableRow
      BY <1>2, <1>3, <2>3
    <3>2. tagged' \in Seq(TableRow) /\ Len(tagged') = Len(tagged) + 1
      BY <1>1, <2>1, <3>1
    <3> QED BY <1>1, <2>2, <3>1, <3>2
  <2>4. CASE r \notin Tagged
    <3>1. untagged' = Append(untagged, Row(current, "none")) /\ tagged' = tagged
      BY <1>3, <2>4
    <3>2. untagged' \in Seq(TableRow) /\ Len(untagged') = Len(untagged) + 1
      BY <1>1, <1>2, <2>1, <3>1
    <3> QED BY <1>1, <2>2, <3>1, <3>2
  <2> QED BY <2>3, <2>4
<1>5. Len(tagged') + Len(untagged') = next
  BY <1>1, <1>4 DEF TableInv, Reading, ReadName
<1>6. \A k \in DOMAIN tagged' : tagged'[k].id = current /\ tagged'[k].ref \in Tagged
  <2>1. \A k \in DOMAIN tagged : tagged[k].id = current /\ tagged[k].ref \in Tagged
    BY DEF TableInv, Reading, ReadName
  <2>2. CASE r \in Tagged
    <3>1. Row(current, r).id = current /\ Row(current, r).ref \in Tagged
      BY <2>2 DEF Row
    <3>2. tagged' = Append(tagged, Row(current, r)) /\ Row(current, r) \in TableRow
      BY <1>2, <1>3, <2>2
    <3> QED BY <1>1, <2>1, <3>1, <3>2, Appended
  <2> QED BY <1>3, <2>1, <2>2
<1>7. \A k \in DOMAIN untagged' : untagged'[k] = Row(current, "none")
  <2>1. \A k \in DOMAIN untagged : untagged[k] = Row(current, "none")
    BY DEF TableInv, Reading, ReadName
  <2> QED BY <1>1, <1>2, <1>3, <2>1, Appended
<1>8. ASSUME NEW q \in Tagged
      PROVE  Count(tagged', Row(current, q)) = Cardinality(Places(current, q, next))
  <2>1. Count(tagged', Row(current, q)) =
          IF r = q THEN Count(tagged, Row(current, q)) + 1 ELSE Count(tagged, Row(current, q))
    <3>1. Row(current, r) = Row(current, q) <=> r = q
      BY DEF Row
    <3>2. CASE r \in Tagged
      <4>1. tagged' = Append(tagged, Row(current, r)) /\ Row(current, r) \in TableRow
        BY <1>2, <1>3, <3>2
      <4> QED BY <1>1, <3>1, <4>1, CountAppend
    <3> QED BY <1>3, <3>2
  <2>2. next - 1 \in Nat /\ next - 1 + 1 = next
    BY <1>1
  <2>3. Cardinality(Places(current, q, next)) =
          IF r = q THEN Cardinality(Places(current, q, next - 1)) + 1 ELSE Cardinality(Places(current, q, next - 1))
    <3> DEFINE n == next - 1
    <3>1. n \in Nat /\ n + 1 = next
      BY <2>2
    <3> HIDE DEF n
    <3>2. Cardinality(Places(current, q, n + 1)) =
            IF names[current][n + 1] = q THEN Cardinality(Places(current, q, n)) + 1 ELSE Cardinality(Places(current, q, n))
      BY <3>1, PlacesGrow
    <3> QED BY <3>1, <3>2 DEF n, r
  <2> QED BY <2>1, <2>3 DEF TableInv, Reading, ReadName
<1>9. Reading'
  BY <1>1, <1>5, <1>6, <1>7, <1>8 DEF ReadName, Reading, TableInv, Places
<1>10. Listed'
  BY DEF ReadName, TableInv, Listed, Awaited, Complete, RowsWith, NamesOf
<1> QED BY <1>4, <1>9, <1>10 DEF ReadName, TableInv, TableTypes, Fresh

\* When all names were read, one of the lists has an element.
LEMMA SomeName == TableInv => FirstUntaggedThere
<1> SUFFICES ASSUME TableInv, tableStep = "names", next > Len(names[current]), tagged = <<>>
             PROVE  untagged # <<>>
  BY DEF FirstUntaggedThere
<1>1. names[current] \in Seq(TableRefs) /\ names[current] # <<>>
  BY DEF TableInv, TableTypes, Reading
<1>2. Len(names[current]) \in Nat /\ Len(names[current]) > 0
  BY <1>1
<1>3. Len(tagged) + Len(untagged) = next - 1 /\ Len(tagged) = 0
  BY DEF TableInv, Reading
<1>4. next \in Int /\ Len(untagged) \in Nat
  BY DEF TableInv, TableTypes, Reading
<1> QED BY <1>2, <1>3, <1>4

\* The rows of the inner loop are those the image should have.
LEMMA LoopRows ==
  ASSUME TableInv, EndNames
  PROVE  /\ RowsOf \in Seq(TableRow)
         /\ \A k \in DOMAIN RowsOf : RowsOf[k].id = current
         /\ \A r \in Tagged : Count(RowsOf, Row(current, r)) =
                                Cardinality({k \in DOMAIN names[current] : names[current][k] = r})
         /\ Count(RowsOf, Row(current, "none")) = IF NamesOf(current) \cap Tagged = {} THEN 1 ELSE 0
<1> DEFINE Here(r) == {k \in DOMAIN names[current] : names[current][k] = r}
<1>1. Reading /\ tagged \in Seq(TableRow) /\ untagged \in Seq(TableRow) /\ tableStep = "names"
  BY DEF TableInv, TableTypes, EndNames
<1>2. current \in Ids /\ next - 1 = Len(names[current]) /\ names[current] \in Seq(TableRefs)
  BY DEF TableInv, TableTypes, Reading, EndNames
<1>3. \A r \in Tagged : Count(tagged, Row(current, r)) = Cardinality(Here(r))
  <2>1. \A r : Places(current, r, next - 1) = Here(r)
    BY <1>2 DEF Places
  <2> QED BY <1>1, <2>1 DEF Reading
<1>4. \A k \in DOMAIN tagged : tagged[k].id = current /\ tagged[k].ref \in Tagged
  BY <1>1 DEF Reading
<1>5. \A r \in Tagged : r # "none"
  BY RefsAssumption DEF TableRefs
<1>6. CASE tagged # <<>>
  <2>1. RowsOf = tagged /\ 1 \in DOMAIN tagged
    BY <1>1, <1>6 DEF RowsOf
  <2>2. Count(tagged, Row(current, "none")) = 0
    BY <1>1, <1>4, <1>5, CountZero DEF Row
  <2>3. PICK r \in Tagged : tagged[1] = Row(current, r)
    <3>1. tagged[1] \in TableRow /\ tagged[1].id = current /\ tagged[1].ref \in Tagged
      BY <1>1, <1>4, <2>1
    <3> QED BY <3>1 DEF TableRow, Row
  <2>4. Count(tagged, Row(current, r)) # 0
    BY <1>1, <2>1, <2>3, CountZero
  <2>5. Here(r) # {}
    BY <1>3, <2>4, FS_EmptySet
  <2>6. NamesOf(current) \cap Tagged # {}
    BY <2>5 DEF NamesOf
  <2> QED BY <1>1, <1>3, <1>4, <2>1, <2>2, <2>6
<1>7. CASE tagged = <<>>
  <2>1. RowsOf = <<untagged[1]>> /\ 1 \in DOMAIN untagged
    BY <1>1, <1>7, SomeName DEF RowsOf, FirstUntaggedThere, EndNames
  <2>2. untagged[1] = Row(current, "none") /\ Row(current, "none") \in TableRow
    BY <1>1, <1>2, <2>1 DEF Reading, TableRow, Row
  <2>3. RowsOf \in Seq(TableRow) /\ DOMAIN RowsOf = {1} /\ RowsOf[1] = Row(current, "none")
    BY <2>1, <2>2
  <2>4. \A r \in Tagged : Count(RowsOf, Row(current, r)) = 0
    BY <1>5, <2>3, CountZero DEF Row
  <2>5. Count(RowsOf, Row(current, "none")) = 1
    <3>1. At(RowsOf, Row(current, "none")) = {1}
      BY <2>3 DEF At
    <3> QED BY <3>1, FS_Singleton DEF Count
  <2>6. \A r \in Tagged : Cardinality(Here(r)) = 0 /\ Here(r) = {}
    <3> TAKE r \in Tagged
    <3>1. Cardinality(Here(r)) = 0
      <4>1. At(tagged, Row(current, r)) = {}
        BY <1>7 DEF At
      <4> QED BY <1>3, <4>1, FS_EmptySet DEF Count
    <3>2. IsFiniteSet(Here(r))
      BY <1>2, AtFinite DEF At
    <3> QED BY <3>1, <3>2, FS_EmptySet
  <2>7. NamesOf(current) \cap Tagged = {}
    BY <2>6 DEF NamesOf
  <2>8. RowsOf[1].id = current
    BY <2>3 DEF Row
  <2> QED BY <2>3, <2>4, <2>5, <2>6, <2>7, <2>8
<1> QED BY <1>6, <1>7

LEMMA EndNamesKeeps ==
  ASSUME TableInv, EndNames
  PROVE  TableInv'
<1>1. TableTypes /\ rows \in Seq(TableRow) /\ current \in Ids \ todo
  BY DEF TableInv, TableTypes, Reading, EndNames
<1>2. rows' = rows \o RowsOf /\ names' = names /\ RowsOf \in Seq(TableRow)
  BY LoopRows DEF EndNames
<1>3. rows' \in Seq(TableRow)
  BY <1>1, <1>2
<1>4. \A k \in DOMAIN rows : rows[k].id # current
  BY <1>1 DEF TableInv, Listed, Awaited, EndNames
<1>5. ASSUME NEW j \in Ids, j = current PROVE Complete(j)'
  <2>1. \A k \in DOMAIN rows : rows[k].id # j
    BY <1>4, <1>5
  <2> QED BY <1>1, <1>2, <1>5, <2>1, LoopRows, NowListed
<1>6. \A j \in Ids : j # current =>
        /\ Complete(j) => Complete(j)'
        /\ (\A k \in DOMAIN rows : rows[k].id # j) => \A k \in DOMAIN rows' : rows'[k].id # j
  BY <1>1, <1>2, LoopRows, OthersListed
<1>7. Listed'
  BY <1>5, <1>6, <1>1 DEF TableInv, Listed, Awaited, EndNames
<1> QED BY <1>3, <1>7 DEF TableInv, TableTypes, Reading, Fresh, EndNames

LEMMA SortKeeps ==
  ASSUME TableInv, Sort
  PROVE  TableInv'
<1>1. PICK order \in Bijection(DOMAIN rows, DOMAIN rows) :
        /\ rows' = [k \in DOMAIN rows |-> rows[order[k]]]
        /\ \A j, k \in DOMAIN rows : j < k => NotBefore(rows'[j], rows'[k])
  BY DEF Sort
<1>2. rows \in Seq(TableRow) /\ order \in [DOMAIN rows -> DOMAIN rows]
  BY Fun_BijectionProperties DEF TableInv, TableTypes
<1>3. rows' \in Seq(TableRow) /\ DOMAIN rows' = DOMAIN rows
  <2>1. DOMAIN rows' = DOMAIN rows
    BY <1>1
  <2>2. PICK n \in Nat : DOMAIN rows = 1..n /\ rows \in [1..n -> TableRow]
    BY <1>2
  <2>3. \A k \in 1..n : rows[order[k]] \in TableRow
    BY <1>2, <2>2
  <2>4. rows' \in [1..n -> TableRow]
    BY <1>1, <2>2, <2>3
  <2> QED BY <2>1, <2>4
<1>4. \A r : \A j \in Ids : Cardinality(RowsWith(j, r)') = Cardinality(RowsWith(j, r))
  <2> TAKE r
  <2> TAKE j \in Ids
  <2>1. Count(rows', Row(j, r)) = Count(rows, Row(j, r))
    BY <1>1, <1>2, CountSorted
  <2>2. RowsWith(j, r)' = At(rows', Row(j, r)) /\ RowsWith(j, r) = At(rows, Row(j, r))
    BY DEF RowsWith, At
  <2> QED BY <2>1, <2>2 DEF Count
<1>5. \A j \in Ids : Complete(j) => Complete(j)'
  BY <1>4 DEF Complete, NamesOf, Sort
<1>6. \A j \in Ids : ~Awaited(j) /\ ~Awaited(j)'
  BY DEF Awaited, Sort
<1>7. Listed'
  BY <1>5, <1>6 DEF TableInv, Listed, Sort
<1> QED BY <1>3, <1>7 DEF TableInv, TableTypes, Reading, Fresh, Sort, loopVars

THEOREM TableInvariant == TableSpec => []TableInv
<1>1. TableInv /\ [TableNext]_tableVars => TableInv'
  <2> SUFFICES ASSUME TableInv, [TableNext]_tableVars PROVE TableInv'
    OBVIOUS
  <2>1. ASSUME RefuseName PROVE TableInv'
    BY <2>1 DEF RefuseName, TableInv, TableTypes, Reading, Fresh, Listed, loopVars
  <2>2. CASE UNCHANGED tableVars
    <3>1. TableTypes' /\ Fresh' /\ (tableStep' = "done" => todo' = {})
      BY <2>2 DEF tableVars, loopVars, TableInv, TableTypes, Fresh
    <3>2. Reading'
      BY <2>2 DEF tableVars, loopVars, TableInv, Reading, Places
    <3>3. \A i \in Ids : (Awaited(i)' <=> Awaited(i)) /\ (Complete(i)' <=> Complete(i))
      BY <2>2 DEF tableVars, loopVars, Awaited, Complete, RowsWith, NamesOf
    <3>4. Listed'
      BY <2>2, <3>3 DEF tableVars, TableInv, Listed
    <3> QED BY <3>1, <3>2, <3>4 DEF TableInv
  <2> QED BY <2>1, <2>2, TakeUnnamedKeeps, TakeNamedKeeps, ReadNameKeeps, EndNamesKeeps, SortKeeps DEF TableNext
<1> QED BY <1>1, TableStarts, PTL DEF TableSpec

\* The table has every tagged name of every image as often as podman reports
\* it, and one "<none>" for an image that has none.
THEOREM TableCorrect == TableSpec => []TableComplete
<1>1. TableInv => TableComplete
  <2> SUFFICES ASSUME TableInv, tableStep = "done", NEW i \in Ids
               PROVE  Complete(i) /\ \A r \in Untagged : RowsWith(i, r) = {}
    BY DEF TableComplete
  <2>1. Complete(i)
    BY DEF TableInv, Listed, Awaited
  <2>2. \A k \in DOMAIN rows : rows[k].ref \in Tagged \cup {"none"}
    <3>1. \A k \in DOMAIN rows : rows[k] \in TableRow
      BY DEF TableInv, TableTypes
    <3> QED BY <3>1 DEF TableRow
  <2>3. \A r \in Untagged : r \notin Tagged \cup {"none"}
    BY RefsAssumption DEF TableRefs
  <2> QED BY <2>1, <2>2, <2>3 DEF RowsWith, Row
<1> QED BY <1>1, TableInvariant, PTL

\* sortImages reads untagged[0] only when there is one.
THEOREM FirstUntaggedCorrect == TableSpec => []FirstUntaggedThere
BY SomeName, TableInvariant, PTL
=============================================================================
