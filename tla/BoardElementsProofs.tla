------------------------ MODULE BoardElementsProofs ------------------------
(***************************************************************************)
(* Facts about the last-writer-wins algebra, for every set of edits.       *)
(***************************************************************************)
EXTENDS BoardElements, TLAPS

\* The fields of an edit.
LEMMA EditFields ==
  ASSUME NEW e \in Edits
  PROVE  e.ver \in Nat /\ e.nonce \in Int /\ e.del \in BOOLEAN
  BY EditsAssumption

LEMMA NothingType == Nothing \in PageMap /\ \A id \in Ids : Nothing[id] = NoEdit
  BY DEF Nothing, PageMap, Slot

\* Two edits are the same or exactly one beats the other: a winner is never a
\* matter of who looks.
LEMMA BeatsTotal ==
  ASSUME NEW e \in Edits, NEW f \in Edits
  PROVE  /\ e = f \/ Beats(e, f) \/ Beats(f, e)
         /\ ~(Beats(e, f) /\ Beats(f, e))
         /\ ~Beats(e, e)
  BY EditFields, EditsAssumption DEF Beats

\* Beating is transitive: what a chain of merges kept beats all it dropped.
LEMMA BeatsTransitive ==
  ASSUME NEW e \in Edits, NEW f \in Edits, NEW g \in Edits,
         Beats(e, f), Beats(f, g)
  PROVE  Beats(e, g)
  BY EditFields DEF Beats

\* The rule is written twice, in Go for the buffer and in SQL for the table:
\* the two copies decide alike for every pair of edits.
THEOREM SqlAgreesWithGo ==
  \A row, new \in Edits : SqlReplaces(row, new) <=> Beats(new, row)
  BY EditFields DEF SqlReplaces, Beats

\* So one upsert leaves what one turn of elementBuffer.add leaves.
LEMMA UpsertIsLater ==
  ASSUME NEW row \in Slot, NEW new \in Slot
  PROVE  Upsert(row, new) = Later(row, new)
  BY SqlAgreesWithGo DEF Upsert, Later, Slot

LEMMA LaterType ==
  ASSUME NEW a \in Slot, NEW b \in Slot
  PROVE  Later(a, b) \in {a, b} /\ Later(a, b) \in Slot
  BY DEF Later, Slot

LEMMA MergeType ==
  ASSUME NEW m \in PageMap, NEW els \in PageMap
  PROVE  /\ Merge(m, els) \in PageMap
         /\ \A id \in Ids : Merge(m, els)[id] = Later(m[id], els[id])
  BY LaterType DEF Merge, PageMap

\* A batch of upserts is a merge.
LEMMA MergeElementsIsMerge ==
  ASSUME NEW table \in PageMap, NEW els \in PageMap
  PROVE  MergeElements(table, els) = Merge(table, els)
  <1>1. \A id \in Ids : Upsert(table[id], els[id]) = Later(table[id], els[id])
    BY UpsertIsLater DEF PageMap
  <1>2. QED
    BY <1>1 DEF MergeElements, Merge

\* Merging loses nothing: what either side covered, the result covers.
LEMMA LaterCovers ==
  ASSUME NEW a \in Slot, NEW b \in Slot, NEW e \in Edits,
         Covers(a, e) \/ Covers(b, e)
  PROVE  Covers(Later(a, b), e)
  <1>1. CASE a = NoEdit \/ b = NoEdit
    BY <1>1 DEF Covers, Later
  <1>2. CASE a # NoEdit /\ b # NoEdit
    <2>1. a \in Edits /\ b \in Edits
      BY <1>2 DEF Slot
    <2>2. CASE Beats(b, a)
      BY <1>2, <2>1, <2>2, BeatsTransitive DEF Covers, Later
    <2>3. CASE ~Beats(b, a)
      <3>1. a = b \/ Beats(a, b)
        BY <2>1, <2>3, BeatsTotal
      <3>2. QED
        BY <1>2, <2>1, <2>3, <3>1, BeatsTransitive DEF Covers, Later
    <2>4. QED
      BY <2>2, <2>3
  <1>3. QED
    BY <1>1, <1>2

\* The order of merges does not matter, nor does a merge repeated by a retry.
THEOREM LaterIsJoin ==
  ASSUME NEW a \in Slot, NEW b \in Slot, NEW c \in Slot
  PROVE  /\ Later(a, a) = a
         /\ Later(a, b) = Later(b, a)
         /\ Later(Later(a, b), c) = Later(a, Later(b, c))
  <1>1. Later(a, a) = a
    BY DEF Later
  <1>2. Later(a, b) = Later(b, a)
    BY BeatsTotal DEF Later, Slot
  <1>3. Later(Later(a, b), c) = Later(a, Later(b, c))
    <2>1. CASE a = NoEdit \/ b = NoEdit \/ c = NoEdit
      BY <2>1 DEF Later
    <2>2. CASE a \in Edits /\ b \in Edits /\ c \in Edits
      <3>1. a # NoEdit /\ b # NoEdit /\ c # NoEdit
        BY <2>2, SentinelsAssumption
      <3>2. /\ Beats(b, a) /\ Beats(c, b) => Beats(c, a)
            /\ Beats(c, a) => Beats(c, b) \/ Beats(b, a)
        BY <2>2, BeatsTransitive, BeatsTotal
      <3>3. QED
        BY <3>1, <3>2 DEF Later
    <2>3. QED
      BY <2>1, <2>2 DEF Slot
  <1>4. QED
    BY <1>1, <1>2, <1>3
=============================================================================
