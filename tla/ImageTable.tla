----------------------------- MODULE ImageTable -----------------------------
(***************************************************************************)
(* The table that podman-bootc images prints (sortImages and tokenRepoTag  *)
(* in cmd/images.go): a row for every name of an image that has a tag, one *)
(* row "<none>" for an image without such a name, newest image first.      *)
(***************************************************************************)
EXTENDS Integers, Sequences, FiniteSets, Functions

CONSTANTS Ids,       \* images
          Tagged,    \* references with a name and a tag
          Untagged,  \* <none>:<none>, names with a digest only, bare names
          Invalid,   \* what reference.Parse does not accept
          Times,     \* when an image was created
          MaxTags    \* bounds how many names an image has

TableRefs == Tagged \cup Untagged \cup Invalid

ASSUME RefsAssumption == /\ Tagged \cap Untagged = {}
                         /\ Invalid \cap (Tagged \cup Untagged) = {}
                         /\ "none" \notin TableRefs \cup Ids
                         /\ MaxTags \in Nat

VARIABLES todo,       \* the images podman listed that the outer loop has to do
          created,    \* created[i]: when image i was created
          names,      \* names[i]: RepoTags of image i
          current,    \* the image whose names are read, or "none"
          next,       \* the name to read next
          tagged,     \* the rows of its names with a tag so far
          untagged,   \* a row "<none>" for each of its other names so far
          rows,       \* the table (imgs)
          tableStep   \* "images", "names", "done" or "error"

loopVars == <<current, next, tagged, untagged>>

tableVars == <<todo, created, names, loopVars, rows, tableStep>>

\* A row: an image and one of its names, or "none".
Row(i, r) == [id |-> i, ref |-> r]

\* tokenRepoTag, as far as it matters: a tag or "<none>".
HasTag(r) == r \in Tagged

\* podman lists the images in any order.  One without names gets its row.
TakeUnnamed(i) ==
  /\ tableStep = "images" /\ i \in todo
  /\ names[i] = <<>>
  /\ rows' = Append(rows, Row(i, "none"))
  /\ todo' = todo \ {i}
  /\ UNCHANGED <<created, names, loopVars, tableStep>>

\* Mutant: the length of RepoTags is not asked for.
TakeAny(i) ==
  /\ tableStep = "images" /\ i \in todo
  /\ todo' = todo \ {i}
  /\ tableStep' = "names"
  /\ current' = i
  /\ UNCHANGED <<created, names, next, tagged, untagged, rows>>

\* One with names has them read.
TakeNamed(i) ==
  /\ tableStep = "images" /\ i \in todo
  /\ names[i] # <<>>
  /\ todo' = todo \ {i}
  /\ tableStep' = "names"
  /\ current' = i
  /\ UNCHANGED <<created, names, next, tagged, untagged, rows>>

\* One round of the inner loop.
ReadName ==
  /\ tableStep = "names" /\ next <= Len(names[current])
  /\ LET r == names[current][next]
     IN  /\ r \notin Invalid
         /\ IF HasTag(r) THEN /\ tagged' = Append(tagged, Row(current, r))
                              /\ UNCHANGED untagged
                         ELSE /\ untagged' = Append(untagged, Row(current, "none"))
                              /\ UNCHANGED tagged
  /\ next' = next + 1
  /\ UNCHANGED <<todo, created, names, current, rows, tableStep>>

\* A name that cannot be parsed ends everything.
RefuseName ==
  /\ tableStep = "names" /\ next <= Len(names[current])
  /\ names[current][next] \in Invalid
  /\ tableStep' = "error"
  /\ UNCHANGED <<todo, created, names, loopVars, rows>>

\* Mutant: "<none>" is shown beside the names that have a tag.
RowsOfBoth == untagged \o tagged

\* The rows of the image whose names were read.
RowsOf == IF Len(tagged) > 0 THEN tagged ELSE <<untagged[1]>>

\* The inner loop is through, and its rows are appended.
EndNames ==
  /\ tableStep = "names" /\ next > Len(names[current])
  /\ rows' = rows \o RowsOf
  /\ tableStep' = "images"
  /\ current' = "none" /\ next' = 1 /\ tagged' = <<>> /\ untagged' = <<>>
  /\ UNCHANGED <<todo, created, names>>

\* The order sortFunc asks for.
NotBefore(a, b) == created[a.id] >= created[b.id]

\* sort.Slice is not stable: rows of the same time come in any order.
Sort ==
  /\ tableStep = "images" /\ todo = {}
  /\ \E order \in Bijection(DOMAIN rows, DOMAIN rows) :
       /\ rows' = [k \in DOMAIN rows |-> rows[order[k]]]
       /\ \A j, k \in DOMAIN rows : j < k => NotBefore(rows'[j], rows'[k])
  /\ tableStep' = "done"
  /\ UNCHANGED <<todo, created, names, loopVars>>

TableInit ==
  /\ todo = Ids
  /\ created \in [Ids -> Times]
  /\ names \in [Ids -> UNION {[1..k -> TableRefs] : k \in 0..MaxTags}]
  /\ current = "none" /\ next = 1 /\ tagged = <<>> /\ untagged = <<>>
  /\ rows = <<>>
  /\ tableStep = "images"

TableNext ==
  \/ \E i \in Ids : TakeUnnamed(i) \/ TakeNamed(i)
  \/ ReadName \/ RefuseName \/ EndNames \/ Sort

TableSpec == TableInit /\ [][TableNext]_tableVars

-----------------------------------------------------------------------------
\* Where r is in the table, as a name of i.
RowsWith(i, r) == {k \in DOMAIN rows : rows[k] = Row(i, r)}

NamesOf(i) == {names[i][k] : k \in DOMAIN names[i]}

\* The table has each tagged name of i as often as podman reports it, and
\* "<none>" once if there is none.
Complete(i) ==
  /\ \A r \in Tagged : Cardinality(RowsWith(i, r)) =
                         Cardinality({k \in DOMAIN names[i] : names[i][k] = r})
  /\ Cardinality(RowsWith(i, "none")) = IF NamesOf(i) \cap Tagged = {} THEN 1 ELSE 0

\* Every tagged name of an image is in the table as often as podman reports
\* it, and "<none>" stands there once, for images without one, under whatever
\* names podman knows them; sorting loses and repeats nothing.
TableComplete ==
  tableStep = "done" =>
    \A i \in Ids : Complete(i) /\ \A r \in Untagged : RowsWith(i, r) = {}

\* untagged[0] is there when it is read: the loop has seen a name, and put it
\* into one of the two lists.
FirstUntaggedThere ==
  tableStep = "names" /\ next > Len(names[current]) /\ tagged = <<>> => untagged # <<>>
=============================================================================
