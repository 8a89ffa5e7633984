------------------------ MODULE ElementBufferProofs ------------------------
(***************************************************************************)
(* IndInv is an inductive invariant of ElementBuffer, for any number of    *)
(* instances, pages, elements and edits; the buffer implements BoardStore. *)
(***************************************************************************)
EXTENDS ElementBuffer, BoardElementsProofs, FiniteSetTheorems, TLAPS

LEMMA ParsedType ==
  ASSUME NEW raw \in RawMap
  PROVE  Parsed(raw) \in PageMap
  BY NothingType DEF Parsed, ParseBoardElements, RawMap, PageMap, Slot

LEMMA TriplesType ==
  ASSUME NEW p \in Pages, NEW els \in PageMap
  PROVE  Triples(p, els) \subseteq Pages \X Ids \X Edits
  BY DEF Triples, Present, PageMap, Slot

\* What a call of add does to every entry of every buffer.
LEMMA AddEffect ==
  ASSUME TypeOK, NEW i \in Instances, NEW p \in Pages, NEW els \in PageMap,
         Add(i, p, els)
  PROVE  /\ pending' \in [Instances -> [Pages -> PageMap]]
         /\ wake' \in [Instances -> BOOLEAN]
         /\ \A j \in Instances, q \in Pages :
              pending'[j][q] = IF j = i /\ q = p THEN Merge(pending[j][q], els)
                                                 ELSE pending[j][q]
  <1>1. Merge(pending[i][p], els) \in PageMap
    BY MergeType DEF TypeOK
  <1>2. QED
    BY <1>1 DEF TypeOK, Add

\* A successful batch moves the rows of its page, and no others.
LEMMA WriteEffect ==
  ASSUME TypeOK, NEW p \in Pages, NEW els \in PageMap,
         rows' = [rows EXCEPT ![p] = MergeElements(@, els)]
  PROVE  /\ rows' \in [Pages -> PageMap]
         /\ rows' = [rows EXCEPT ![p] = Merge(rows[p], els)]
         /\ \A q \in Pages : rows'[q] = IF q = p THEN Merge(rows[q], els)
                                                 ELSE rows[q]
  <1>1. Merge(rows[p], els) \in PageMap
        /\ MergeElements(rows[p], els) = Merge(rows[p], els)
    BY MergeType, MergeElementsIsMerge DEF TypeOK
  <1>2. QED
    BY <1>1 DEF TypeOK

\* The memory of a dead process goes to `gone`, entry by entry.
LEMMA DieEffect ==
  ASSUME TypeOK, NEW i \in Instances, Die(i)
  PROVE  /\ TypeOK'
         /\ \A q \in Pages : gone'[q] =
              Merge(Merge(gone[q], pending[i][q]), inflight[i][q])
         /\ \A j \in Instances \ {i} :
              pending'[j] = pending[j] /\ inflight'[j] = inflight[j]
         /\ pending'[i] = Empty /\ inflight'[i] = Empty
  <1>1. \A q \in Pages :
          Merge(Merge(gone[q], pending[i][q]), inflight[i][q]) \in PageMap
    BY MergeType DEF TypeOK
  <1>2. Empty \in [Pages -> PageMap]
    BY NothingType DEF Empty
  <1>3. QED
    BY <1>1, <1>2 DEF TypeOK, Die, Phases

\* Sweeping blanks rows and remembers tombstones.
LEMMA SweepEffect ==
  ASSUME TypeOK, DeleteOldTombstones
  PROVE  /\ rows' \in [Pages -> PageMap] /\ gone' \in [Pages -> PageMap]
         /\ \A q \in Pages, id \in Ids :
              \/ rows'[q][id] = rows[q][id] /\ gone'[q][id] = gone[q][id]
              \/ /\ rows[q][id] \in Edits /\ rows[q][id].del
                 /\ rows'[q][id] = NoEdit
                 /\ gone'[q][id] = Later(gone[q][id], rows[q][id])
  <1>1. PICK old \in SUBSET Tombstones :
          /\ rows' = [p \in Pages |-> [id \in Ids |->
                        IF <<p, id>> \in old THEN NoEdit ELSE rows[p][id]]]
          /\ gone' = [p \in Pages |-> [id \in Ids |->
                        IF <<p, id>> \in old /\ rows[p][id].del
                        THEN Later(gone[p][id], rows[p][id]) ELSE gone[p][id]]]
    BY DEF DeleteOldTombstones
  <1>2. \A q \in Pages, id \in Ids :
          /\ rows[q][id] \in Slot /\ gone[q][id] \in Slot
          /\ Later(gone[q][id], rows[q][id]) \in Slot
    BY LaterType DEF TypeOK, PageMap
  <1>3. \A q \in Pages, id \in Ids :
          <<q, id>> \in old => rows[q][id] \in Edits /\ rows[q][id].del
    BY <1>1, <1>2 DEF Tombstones, Slot
  <1>4. rows' \in [Pages -> PageMap] /\ gone' \in [Pages -> PageMap]
    BY <1>1, <1>2 DEF PageMap, Slot
  <1>5. QED
    BY <1>1, <1>3, <1>4

-----------------------------------------------------------------------------
LEMMA InitIndInv == Init => IndInv
  <1> SUFFICES ASSUME Init PROVE IndInv
    OBVIOUS
  <1>1. Empty \in [Pages -> PageMap] /\ \A p \in Pages : Empty[p] = Nothing
    BY NothingType DEF Empty
  <1>2. TypeOK
    BY <1>1, BufferAssumption DEF Init, TypeOK, Phases
  <1>3. \A p \in Pages : Triples(p, Nothing) = {}
    BY NothingType DEF Triples, Present
  <1>4. NoSilentLoss
    BY DEF Init, NoSilentLoss
  <1>5. NothingInvented
    BY <1>1, <1>3 DEF Init, NothingInvented
  <1>6. QuietOutsideFlush /\ NoOrphanRows
    BY DEF Init, QuietOutsideFlush, NoOrphanRows
  <1>7. QED
    BY <1>2, <1>4, <1>5, <1>6 DEF IndInv

\* Type correctness is preserved by every step.
LEMMA TypeStep == TypeOK /\ [Next]_vars => TypeOK'
  <1> SUFFICES ASSUME TypeOK, [Next]_vars PROVE TypeOK'
    OBVIOUS
  <1>0. Empty \in [Pages -> PageMap] /\ Nothing \in PageMap
    BY NothingType DEF Empty
  <1>1. ASSUME NEW i \in Instances, NEW p \in Pages, NEW raw \in RawMap,
               AddPayload(i, p, raw)
        PROVE  TypeOK'
    <2>1. Parsed(raw) \in PageMap /\ Triples(p, Parsed(raw)) \subseteq Pages \X Ids \X Edits
      BY ParsedType, TriplesType
    <2>2. QED
      BY <1>1, <2>1, AddEffect DEF AddPayload, TypeOK
  <1>2. ASSUME NEW i \in Instances, NEW p \in Pages, NEW raw \in RawMap,
               MergeSnapshot(i, p, raw)
        PROVE  TypeOK'
    <2>1. Parsed(raw) \in PageMap /\ Triples(p, Parsed(raw)) \subseteq Pages \X Ids \X Edits
      BY ParsedType, TriplesType
    <2>2. QED
      BY <1>2, <2>1, WriteEffect DEF MergeSnapshot, TypeOK
  <1>3. ASSUME NEW i \in Instances, Tick(i) \/ Woken(i) \/ FinalFlush(i)
        PROVE  TypeOK'
    <2>1. pending' \in [Instances -> [Pages -> PageMap]]
          /\ inflight' \in [Instances -> [Pages -> PageMap]]
      BY <1>0, <1>3 DEF Tick, Woken, FinalFlush, Swap, TypeOK
    <2>2. phase' \in [Instances -> Phases] /\ wake' \in [Instances -> BOOLEAN]
      BY <1>3 DEF Tick, Woken, FinalFlush, Swap, TypeOK, Phases
    <2>3. QED
      BY <1>3, <2>1, <2>2 DEF Tick, Woken, FinalFlush, Swap, TypeOK
  <1>4. ASSUME NEW i \in Instances, NEW p \in Pages, FlushPage(i, p)
        PROVE  TypeOK'
    <2>1. inflight[i][p] \in PageMap
      BY DEF TypeOK
    <2>2. rows' \in [Pages -> PageMap]
      BY <1>4, <2>1, WriteEffect DEF FlushPage
    <2>3. QED
      BY <1>0, <1>4, <2>2 DEF FlushPage, TypeOK
  <1>5. ASSUME NEW i \in Instances, NEW p \in Pages, FlushPageFails(i, p)
        PROVE  TypeOK'
    <2>1. inflight[i][p] \in PageMap
      BY DEF TypeOK
    <2>2. rows' \in [Pages -> PageMap]
      BY <1>5, <2>1, WriteEffect DEF FlushPageFails, TypeOK
    <2>3. faults' \in 0..MaxFaults
      BY <1>5, BufferAssumption DEF FlushPageFails, WriteFails, TypeOK
    <2>4. pending' \in [Instances -> [Pages -> PageMap]] /\ wake' \in [Instances -> BOOLEAN]
      BY <1>5, <2>1, AddEffect DEF FlushPageFails
    <2>5. QED
      BY <1>0, <1>5, <2>2, <2>3, <2>4 DEF FlushPageFails, TypeOK
  <1>6. ASSUME NEW i \in Instances, EndFlush(i) \/ Start(i) \/ Cancel(i)
        PROVE  TypeOK'
    BY <1>6 DEF EndFlush, Start, Cancel, TypeOK, Phases
  <1>7. ASSUME NEW i \in Instances, Exit(i) \/ Crash(i)
        PROVE  TypeOK'
    BY <1>7, DieEffect DEF Exit, Crash
  <1>8. CASE DeleteOldTombstones
    BY <1>8, SweepEffect DEF DeleteOldTombstones, TypeOK
  <1>9. ASSUME NEW p \in Pages, DeletePage(p)
        PROVE  TypeOK'
    BY <1>0, <1>9 DEF DeletePage, TypeOK
  <1>10. CASE UNCHANGED vars
    BY <1>10 DEF vars, TypeOK
  <1>11. QED
    BY <1>1, <1>2, <1>3, <1>4, <1>5, <1>6, <1>7, <1>8, <1>9, <1>10
       DEF Next, Flusher

-----------------------------------------------------------------------------
\* The edit, or one that beats it, is somewhere: NoSilentLoss for one edit.
Held(p, id, e) == Kept(p, id, e) \/ Covers(gone[p][id], e)

\* A merge still covers what either side covered.
LEMMA MergeCovers ==
  ASSUME NEW m \in PageMap, NEW els \in PageMap, NEW id \in Ids, NEW e \in Edits,
         Covers(m[id], e) \/ Covers(els[id], e)
  PROVE  Covers(Merge(m, els)[id], e)
  BY MergeType, LaterCovers DEF PageMap

LEMMA NothingCoversNothing ==
  ASSUME NEW p \in Pages, NEW id \in Ids, NEW e
  PROVE  ~Covers(Empty[p][id], e) /\ ~Covers(Nothing[id], e)
  BY NothingType DEF Covers, Empty

\* What is held stays held, whatever step is taken, on the pages that remain.
LEMMA HeldStep ==
  ASSUME TypeOK, QuietOutsideFlush, [Next]_vars,
         NEW p \in Pages, p \in pages', NEW id \in Ids, NEW e \in Edits,
         Held(p, id, e)
  PROVE  Held(p, id, e)'
  <1> USE DEF Held, Kept
  <1>0. /\ rows[p] \in PageMap /\ gone[p] \in PageMap
        /\ \A j \in Instances : \A q \in Pages :
              pending[j][q] \in PageMap /\ inflight[j][q] \in PageMap
    BY DEF TypeOK
  <1>1. ASSUME NEW i \in Instances, NEW q \in Pages, NEW raw \in RawMap,
               AddPayload(i, q, raw)
        PROVE  Held(p, id, e)'
    <2>1. \A j \in Instances : pending'[j][p] =
             IF j = i /\ p = q THEN Merge(pending[j][p], Parsed(raw)) ELSE pending[j][p]
      BY <1>1, ParsedType, AddEffect DEF AddPayload
    <2>2. \A j \in Instances :
             Covers(pending[j][p][id], e) => Covers(pending'[j][p][id], e)
      BY <1>0, <2>1, ParsedType, MergeCovers
    <2>3. QED
      BY <1>1, <2>2 DEF AddPayload
  <1>2. ASSUME NEW i \in Instances, NEW q \in Pages, NEW raw \in RawMap,
               MergeSnapshot(i, q, raw)
        PROVE  Held(p, id, e)'
    <2>1. rows'[p] = IF p = q THEN Merge(rows[p], Parsed(raw)) ELSE rows[p]
      BY <1>2, ParsedType, WriteEffect DEF MergeSnapshot
    <2>2. Covers(rows[p][id], e) => Covers(rows'[p][id], e)
      BY <1>0, <2>1, ParsedType, MergeCovers
    <2>3. QED
      BY <1>2, <2>2 DEF MergeSnapshot
  <1>3. ASSUME NEW i \in Instances, Tick(i) \/ Woken(i) \/ FinalFlush(i)
        PROVE  Held(p, id, e)'
    <2>1. inflight[i] = Empty
      BY <1>3 DEF Tick, Woken, FinalFlush, QuietOutsideFlush
    <2>2. /\ inflight'[i] = pending[i]
          /\ \A j \in Instances \ {i} :
               inflight'[j] = inflight[j] /\ pending'[j] = pending[j]
          /\ rows' = rows /\ gone' = gone
      BY <1>3 DEF Tick, Woken, FinalFlush, Swap, TypeOK
    <2>3. QED
      BY <2>1, <2>2, NothingCoversNothing
  <1>4. ASSUME NEW i \in Instances, NEW q \in Pages, FlushPage(i, q)
        PROVE  Held(p, id, e)'
    <2>1. rows'[p] = IF p = q THEN Merge(rows[p], inflight[i][p]) ELSE rows[p]
      BY <1>0, <1>4, WriteEffect DEF FlushPage
    <2>2. \A j \in Instances : inflight'[j][p] =
             IF j = i /\ p = q THEN Nothing ELSE inflight[j][p]
      BY <1>4 DEF FlushPage, TypeOK
    <2>3. Covers(rows[p][id], e) => Covers(rows'[p][id], e)
      BY <1>0, <2>1, MergeCovers
    <2>4. \A j \in Instances : Covers(inflight[j][p][id], e) =>
             Covers(inflight'[j][p][id], e) \/ Covers(rows'[p][id], e)
      BY <1>0, <2>1, <2>2, MergeCovers
    <2>5. QED
      BY <1>4, <2>3, <2>4 DEF FlushPage
  <1>5. ASSUME NEW i \in Instances, NEW q \in Pages, FlushPageFails(i, q)
        PROVE  Held(p, id, e)'
    <2>1. rows'[p] \in {rows[p], Merge(rows[p], inflight[i][p])}
      BY <1>0, <1>5, WriteEffect DEF FlushPageFails
    <2>2. \A j \in Instances : inflight'[j][p] =
             IF j = i /\ p = q THEN Nothing ELSE inflight[j][p]
      BY <1>5 DEF FlushPageFails, TypeOK
    <2>3. \A j \in Instances : pending'[j][p] =
             IF j = i /\ p = q THEN Merge(pending[j][p], inflight[j][p])
                               ELSE pending[j][p]
      BY <1>0, <1>5, AddEffect DEF FlushPageFails
    <2>4. Covers(rows[p][id], e) => Covers(rows'[p][id], e)
      BY <1>0, <2>1, MergeCovers
    <2>5. \A j \in Instances :
             Covers(pending[j][p][id], e) => Covers(pending'[j][p][id], e)
      BY <1>0, <2>3, MergeCovers
    <2>6. \A j \in Instances : Covers(inflight[j][p][id], e) =>
             Covers(inflight'[j][p][id], e) \/ Covers(pending'[j][p][id], e)
      BY <1>0, <2>2, <2>3, MergeCovers
    <2>7. QED
      BY <1>5, <2>4, <2>5, <2>6 DEF FlushPageFails
  <1>6. ASSUME NEW i \in Instances, EndFlush(i) \/ Start(i) \/ Cancel(i)
        PROVE  Held(p, id, e)'
    BY <1>6 DEF EndFlush, Start, Cancel
  <1>7. ASSUME NEW i \in Instances, Exit(i) \/ Crash(i)
        PROVE  Held(p, id, e)'
    <2>1. Die(i)
      BY <1>7 DEF Exit, Crash
    <2>2. /\ gone'[p] = Merge(Merge(gone[p], pending[i][p]), inflight[i][p])
          /\ \A j \in Instances \ {i} :
               pending'[j] = pending[j] /\ inflight'[j] = inflight[j]
      BY <2>1, DieEffect
    <2>3. Merge(gone[p], pending[i][p]) \in PageMap
      BY <1>0, MergeType
    <2>4. \/ Covers(gone[p][id], e)
          \/ Covers(pending[i][p][id], e)
          \/ Covers(inflight[i][p][id], e)
          => Covers(gone'[p][id], e)
      BY <1>0, <2>2, <2>3, MergeCovers
    <2>5. rows' = rows
      BY <2>1 DEF Die
    <2>6. QED
      BY <2>2, <2>4, <2>5
  <1>8. CASE DeleteOldTombstones
    <2>1. \/ rows'[p][id] = rows[p][id] /\ gone'[p][id] = gone[p][id]
          \/ gone'[p][id] = Later(gone[p][id], rows[p][id])
      BY <1>8, SweepEffect
    <2>2. rows[p][id] \in Slot /\ gone[p][id] \in Slot
      BY <1>0 DEF PageMap
    <2>3. Covers(rows[p][id], e) \/ Covers(gone[p][id], e)
            => Covers(rows'[p][id], e) \/ Covers(gone'[p][id], e)
      BY <2>1, <2>2, LaterCovers
    <2>4. pending' = pending /\ inflight' = inflight
      BY <1>8 DEF DeleteOldTombstones
    <2>5. QED
      BY <2>3, <2>4
  <1>9. ASSUME NEW q \in Pages, DeletePage(q)
        PROVE  Held(p, id, e)'
    BY <1>9 DEF DeletePage, TypeOK
  <1>10. CASE UNCHANGED vars
    BY <1>10 DEF vars
  <1>11. QED
    BY <1>1, <1>2, <1>3, <1>4, <1>5, <1>6, <1>7, <1>8, <1>9, <1>10
       DEF Next, Flusher

\* What an accepting step adds to `accepted` is held after it.
LEMMA NewlyAcceptedIsHeld ==
  ASSUME TypeOK, NEW i \in Instances, NEW q \in Pages, NEW raw \in RawMap,
         AddPayload(i, q, raw) \/ MergeSnapshot(i, q, raw),
         NEW id \in Present(Parsed(raw))
  PROVE  Held(q, id, Parsed(raw)[id])'
  <1> DEFINE els == Parsed(raw)
  <1>1. els \in PageMap /\ id \in Ids /\ els[id] \in Edits /\ Covers(els[id], els[id])
    BY ParsedType DEF Present, PageMap, Slot, Covers
  <1> HIDE DEF els
  <1>2. CASE AddPayload(i, q, raw)
    <2>1. pending'[i][q] = Merge(pending[i][q], els)
      BY <1>1, <1>2, AddEffect DEF AddPayload, els
    <2>2. Covers(pending'[i][q][id], els[id])
      BY <1>1, <2>1, MergeCovers DEF TypeOK
    <2>3. QED
      BY <2>2 DEF Held, Kept, els
  <1>3. CASE MergeSnapshot(i, q, raw)
    <2>1. rows'[q] = Merge(rows[q], els)
      BY <1>1, <1>3, WriteEffect DEF MergeSnapshot, els
    <2>2. Covers(rows'[q][id], els[id])
      BY <1>1, <2>1, MergeCovers DEF TypeOK
    <2>3. QED
      BY <2>2 DEF Held, Kept, els
  <1>4. QED
    BY <1>2, <1>3

LEMMA NoSilentLossStep ==
  TypeOK /\ QuietOutsideFlush /\ NoSilentLoss /\ [Next]_vars => NoSilentLoss'
  <1> SUFFICES ASSUME TypeOK, QuietOutsideFlush, NoSilentLoss, [Next]_vars,
                      NEW t \in accepted', t[1] \in pages'
               PROVE  Held(t[1], t[2], t[3])'
    BY DEF NoSilentLoss, Held
  <1>1. pages' \subseteq pages
    BY DEF Next, Flusher, AddPayload, MergeSnapshot, Tick, Woken, FinalFlush,
           Swap, FlushPage, FlushPageFails, EndFlush, Start, Cancel, Exit, Crash,
           Die, DeleteOldTombstones, DeletePage, vars
  <1>2. CASE t \in accepted
    <2>1. t[1] \in Pages /\ t[2] \in Ids /\ t[3] \in Edits
      BY <1>2 DEF TypeOK
    <2>2. Held(t[1], t[2], t[3])
      BY <1>1, <1>2 DEF NoSilentLoss, Held
    <2>3. QED
      BY <2>1, <2>2, HeldStep
  <1>3. CASE t \notin accepted
    <2>1. PICK i \in Instances, q \in Pages, raw \in RawMap :
            /\ AddPayload(i, q, raw) \/ MergeSnapshot(i, q, raw)
            /\ t \in Triples(q, Parsed(raw))
      BY <1>3 DEF Next, Flusher, AddPayload, MergeSnapshot, Tick, Woken,
           FinalFlush, Swap, FlushPage, FlushPageFails, EndFlush, Start, Cancel,
           Exit, Crash, Die, DeleteOldTombstones, DeletePage, vars
    <2>2. PICK id \in Present(Parsed(raw)) : t = <<q, id, Parsed(raw)[id]>>
      BY <2>1 DEF Triples
    <2>3. Held(q, id, Parsed(raw)[id])'
      BY <2>1, NewlyAcceptedIsHeld
    <2>4. t[1] = q /\ t[2] = id /\ t[3] = Parsed(raw)[id]
      BY <2>2
    <2>5. QED
      BY <2>3, <2>4
  <1>4. QED
    BY <1>2, <1>3

\* One entry of a page map is a known edit, or no edit.
Known(p, m, acc) == \A id \in Ids : m[id] # NoEdit => <<p, id, m[id]>> \in acc

LEMMA KnownIsTriples ==
  ASSUME NEW p, NEW m, NEW acc
  PROVE  Known(p, m, acc) <=> Triples(p, m) \subseteq acc
  BY DEF Known, Triples, Present

LEMMA KnownMerge ==
  ASSUME NEW p, NEW m \in PageMap, NEW els \in PageMap, NEW acc,
         Known(p, m, acc), Known(p, els, acc)
  PROVE  Known(p, Merge(m, els), acc)
  BY MergeType, LaterType DEF Known, PageMap

LEMMA NothingInventedStep ==
  TypeOK /\ NothingInvented /\ [Next]_vars => NothingInvented'
  <1> SUFFICES ASSUME TypeOK, NothingInvented, [Next]_vars, NEW p \in Pages
               PROVE  /\ Known(p, rows'[p], accepted')
                      /\ \A j \in Instances : Known(p, pending'[j][p], accepted')
                                           /\ Known(p, inflight'[j][p], accepted')
    BY KnownIsTriples DEF NothingInvented
  <1>0. /\ Known(p, rows[p], accepted)
        /\ \A j \in Instances : Known(p, pending[j][p], accepted)
                             /\ Known(p, inflight[j][p], accepted)
    BY KnownIsTriples DEF NothingInvented
  <1>a. /\ rows[p] \in PageMap
        /\ \A j \in Instances : \A q \in Pages :
              pending[j][q] \in PageMap /\ inflight[j][q] \in PageMap
    BY DEF TypeOK
  <1>b. /\ \A acc : Known(p, Nothing, acc)
        /\ Empty[p] = Nothing
    BY NothingType DEF Known, Empty
  <1>c. ASSUME NEW m, Known(p, m, accepted), accepted \subseteq accepted'
        PROVE  Known(p, m, accepted')
    BY <1>c DEF Known
  <1>1. ASSUME NEW i \in Instances, NEW q \in Pages, NEW raw \in RawMap,
               AddPayload(i, q, raw) \/ MergeSnapshot(i, q, raw)
        PROVE  /\ Known(p, rows'[p], accepted')
               /\ \A j \in Instances : Known(p, pending'[j][p], accepted')
                                    /\ Known(p, inflight'[j][p], accepted')
    <2>1. accepted \subseteq accepted' /\ inflight' = inflight
      BY <1>1 DEF AddPayload, MergeSnapshot
    <2>2. Parsed(raw) \in PageMap
      BY ParsedType
    <2>3. p = q => Known(p, Parsed(raw), accepted')
      BY <1>1, KnownIsTriples DEF AddPayload, MergeSnapshot
    <2>4. rows'[p] = rows[p] \/ (p = q /\ rows'[p] = Merge(rows[p], Parsed(raw)))
      BY <1>1, <2>2, WriteEffect DEF AddPayload, MergeSnapshot
    <2>5. \A j \in Instances : \/ pending'[j][p] = pending[j][p]
                               \/ p = q /\ pending'[j][p] = Merge(pending[j][p], Parsed(raw))
      BY <1>1, <2>2, AddEffect DEF AddPayload, MergeSnapshot
    <2>6. Known(p, rows'[p], accepted')
      BY <1>0, <1>a, <1>c, <2>1, <2>2, <2>3, <2>4, KnownMerge
    <2>7. \A j \in Instances : Known(p, pending'[j][p], accepted')
      BY <1>0, <1>a, <1>c, <2>1, <2>2, <2>3, <2>5, KnownMerge
    <2>8. QED
      BY <1>0, <1>c, <2>1, <2>6, <2>7
  <1>2. ASSUME NEW i \in Instances, Tick(i) \/ Woken(i) \/ FinalFlush(i)
        PROVE  /\ Known(p, rows'[p], accepted')
               /\ \A j \in Instances : Known(p, pending'[j][p], accepted')
                                    /\ Known(p, inflight'[j][p], accepted')
    <2>1. /\ inflight'[i] = pending[i] /\ pending'[i] = Empty
          /\ \A j \in Instances \ {i} :
               inflight'[j] = inflight[j] /\ pending'[j] = pending[j]
          /\ rows' = rows /\ accepted' = accepted
      BY <1>2 DEF Tick, Woken, FinalFlush, Swap, TypeOK
    <2>2. QED
      BY <1>0, <1>b, <2>1
  <1>3. ASSUME NEW i \in Instances, NEW q \in Pages,
               FlushPage(i, q) \/ FlushPageFails(i, q)
        PROVE  /\ Known(p, rows'[p], accepted')
               /\ \A j \in Instances : Known(p, pending'[j][p], accepted')
                                    /\ Known(p, inflight'[j][p], accepted')
    <2>1. rows'[p] \in {rows[p], Merge(rows[p], inflight[i][p])}
      BY <1>a, <1>3, WriteEffect DEF FlushPage, FlushPageFails
    <2>2. \A j \in Instances : inflight'[j][p] \in {Nothing, inflight[j][p]}
      BY <1>3 DEF FlushPage, FlushPageFails, TypeOK
    <2>3. \A j \in Instances :
             pending'[j][p] \in {pending[j][p], Merge(pending[j][p], inflight[j][p])}
      BY <1>a, <1>3, AddEffect DEF FlushPage, FlushPageFails
    <2>4. accepted' = accepted
      BY <1>3 DEF FlushPage, FlushPageFails
    <2>5. Known(p, rows'[p], accepted)
      BY <1>0, <1>a, <2>1, KnownMerge
    <2>6. \A j \in Instances : Known(p, pending'[j][p], accepted)
      BY <1>0, <1>a, <2>3, KnownMerge
    <2>7. QED
      BY <1>0, <1>b, <2>2, <2>4, <2>5, <2>6
  <1>4. ASSUME NEW i \in Instances, EndFlush(i) \/ Start(i) \/ Cancel(i)
        PROVE  /\ Known(p, rows'[p], accepted')
               /\ \A j \in Instances : Known(p, pending'[j][p], accepted')
                                    /\ Known(p, inflight'[j][p], accepted')
    BY <1>0, <1>4 DEF EndFlush, Start, Cancel
  <1>5. ASSUME NEW i \in Instances, Exit(i) \/ Crash(i)
        PROVE  /\ Known(p, rows'[p], accepted')
               /\ \A j \in Instances : Known(p, pending'[j][p], accepted')
                                    /\ Known(p, inflight'[j][p], accepted')
    <2>1. Die(i)
      BY <1>5 DEF Exit, Crash
    <2>2. rows' = rows /\ accepted' = accepted
      BY <2>1 DEF Die
    <2>3. QED
      BY <1>0, <1>b, <2>1, <2>2, DieEffect
  <1>6. CASE DeleteOldTombstones
    <2>1. \A id \in Ids : rows'[p][id] \in {rows[p][id], NoEdit}
      BY <1>6, SweepEffect
    <2>2. pending' = pending /\ inflight' = inflight /\ accepted' = accepted
      BY <1>6 DEF DeleteOldTombstones
    <2>3. QED
      BY <1>0, <2>1, <2>2 DEF Known
  <1>7. ASSUME NEW q \in Pages, DeletePage(q)
        PROVE  /\ Known(p, rows'[p], accepted')
               /\ \A j \in Instances : Known(p, pending'[j][p], accepted')
                                    /\ Known(p, inflight'[j][p], accepted')
    <2>1. rows'[p] \in {rows[p], Nothing}
      BY <1>7 DEF DeletePage, TypeOK
    <2>2. QED
      BY <1>0, <1>b, <1>7, <2>1 DEF DeletePage
  <1>8. CASE UNCHANGED vars
    BY <1>0, <1>8 DEF vars
  <1>9. QED
    BY <1>1, <1>2, <1>3, <1>4, <1>5, <1>6, <1>7, <1>8 DEF Next, Flusher

LEMMA QuietStep == TypeOK /\ QuietOutsideFlush /\ [Next]_vars => QuietOutsideFlush'
  <1> SUFFICES ASSUME TypeOK, QuietOutsideFlush, [Next]_vars, NEW j \in Instances,
                      phase'[j] \notin {"flushing", "final"}
               PROVE  inflight'[j] = Empty
    BY DEF QuietOutsideFlush
  <1>1. ASSUME NEW i \in Instances, NEW q \in Pages, NEW raw \in RawMap,
               AddPayload(i, q, raw) \/ MergeSnapshot(i, q, raw)
        PROVE  inflight'[j] = Empty
    BY <1>1 DEF AddPayload, MergeSnapshot, QuietOutsideFlush
  <1>2. ASSUME NEW i \in Instances, Tick(i) \/ Woken(i) \/ FinalFlush(i)
        PROVE  inflight'[j] = Empty
    BY <1>2 DEF Tick, Woken, FinalFlush, Swap, QuietOutsideFlush, TypeOK
  <1>3. ASSUME NEW i \in Instances, NEW q \in Pages,
               FlushPage(i, q) \/ FlushPageFails(i, q)
        PROVE  inflight'[j] = Empty
    BY <1>3 DEF FlushPage, FlushPageFails, InFlush, QuietOutsideFlush, TypeOK
  <1>4. ASSUME NEW i \in Instances, EndFlush(i) \/ Start(i) \/ Cancel(i)
        PROVE  inflight'[j] = Empty
    BY <1>4 DEF EndFlush, Start, Cancel, QuietOutsideFlush, TypeOK
  <1>5. ASSUME NEW i \in Instances, Exit(i) \/ Crash(i)
        PROVE  inflight'[j] = Empty
    BY <1>5 DEF Exit, Crash, Die, QuietOutsideFlush, TypeOK
  <1>6. CASE DeleteOldTombstones
    BY <1>6 DEF DeleteOldTombstones, QuietOutsideFlush
  <1>7. ASSUME NEW q \in Pages, DeletePage(q)
        PROVE  inflight'[j] = Empty
    BY <1>7 DEF DeletePage, QuietOutsideFlush
  <1>8. CASE UNCHANGED vars
    BY <1>8 DEF vars, QuietOutsideFlush
  <1>9. QED
    BY <1>1, <1>2, <1>3, <1>4, <1>5, <1>6, <1>7, <1>8 DEF Next, Flusher

LEMMA OrphanStep == TypeOK /\ NoOrphanRows /\ [Next]_vars => NoOrphanRows'
  <1> SUFFICES ASSUME TypeOK, NoOrphanRows, [Next]_vars,
                      NEW p \in Pages \ pages'
               PROVE  rows'[p] = Nothing
    BY DEF NoOrphanRows
  <1>1. ASSUME NEW i \in Instances, NEW q \in Pages, NEW raw \in RawMap,
               AddPayload(i, q, raw) \/ MergeSnapshot(i, q, raw)
        PROVE  rows'[p] = Nothing
    BY <1>1 DEF AddPayload, MergeSnapshot, Takes, NoOrphanRows, TypeOK
  <1>2. ASSUME NEW i \in Instances, NEW q \in Pages,
               FlushPage(i, q) \/ FlushPageFails(i, q)
        PROVE  rows'[p] = Nothing
    BY <1>2 DEF FlushPage, FlushPageFails, Takes, NoOrphanRows, TypeOK
  <1>3. ASSUME NEW i \in Instances,
               \/ Tick(i) \/ Woken(i) \/ FinalFlush(i) \/ EndFlush(i)
               \/ Start(i) \/ Cancel(i) \/ Exit(i) \/ Crash(i)
        PROVE  rows'[p] = Nothing
    BY <1>3 DEF Tick, Woken, FinalFlush, Swap, EndFlush, Start, Cancel, Exit,
                Crash, Die, NoOrphanRows
  <1>4. CASE DeleteOldTombstones
    <2>1. /\ pages' = pages /\ rows' \in [Pages -> PageMap]
          /\ \A id \in Ids : rows'[p][id] \in {rows[p][id], NoEdit}
      BY <1>4, SweepEffect DEF DeleteOldTombstones
    <2>2. rows[p] = Nothing
      BY <2>1 DEF NoOrphanRows
    <2>3. rows'[p] \in PageMap /\ \A id \in Ids : rows'[p][id] = NoEdit
      BY <2>1, <2>2, NothingType
    <2>4. QED
      BY <2>3 DEF Nothing, PageMap
  <1>5. ASSUME NEW q \in Pages, DeletePage(q)
        PROVE  rows'[p] = Nothing
    BY <1>5 DEF DeletePage, NoOrphanRows, TypeOK
  <1>6. CASE UNCHANGED vars
    BY <1>6 DEF vars, NoOrphanRows
  <1>7. QED
    BY <1>1, <1>2, <1>3, <1>4, <1>5, <1>6 DEF Next, Flusher

-----------------------------------------------------------------------------
\* IndInv holds in every reachable state: it holds first, and every step of
\* the buffer, of a handler, of the cleaner and of the process preserves it.
THEOREM Invariance == Spec => []IndInv
  <1>1. Init => IndInv
    BY InitIndInv
  <1>2. IndInv /\ [Next]_vars => IndInv'
    BY TypeStep, NoSilentLossStep, NothingInventedStep, QuietStep, OrphanStep
       DEF IndInv
  <1>3. QED
    BY <1>1, <1>2, PTL DEF Spec

\* Type correctness of the write-behind buffer.
THEOREM TypeCorrect == Spec => []TypeOK
  <1>1. IndInv => TypeOK
    BY DEF IndInv
  <1>2. QED
    BY <1>1, Invariance, PTL

\* No edit the buffer or a handler accepted is lost by merging, batching,
\* failing, retrying or by two instances writing at once.
THEOREM NothingLost == Spec => []NoSilentLoss
  <1>1. IndInv => NoSilentLoss
    BY DEF IndInv
  <1>2. QED
    BY <1>1, Invariance, PTL

\* Nothing is stored that was not accepted.
THEOREM NothingForged == Spec => []NothingInvented
  <1>1. IndInv => NothingInvented
    BY DEF IndInv
  <1>2. QED
    BY <1>1, Invariance, PTL

-----------------------------------------------------------------------------
(* The refinement: the variables of BoardStore are variables of the buffer.  *)

\* The abstract module speaks of the same edits and the same merge.
LEMMA SameAlgebra ==
  /\ Store!PageMap = PageMap /\ Store!Nothing = Nothing
  /\ \A m, els : Store!Merge(m, els) = Merge(m, els)
  /\ \A p, els : Store!Triples(p, els) = Triples(p, els)
  BY DEF Store!PageMap, PageMap, Store!Slot, Slot, Store!Nothing, Nothing,
         Store!Merge, Merge, Store!Later, Later, Store!Beats, Beats,
         Store!Triples, Triples, Store!Present, Present

LEMMA RefinesInit == Init => Store!StoreInit
  BY SameAlgebra DEF Init, Store!StoreInit, Empty

\* A successful batch is one Persist: by NothingInvented it was all accepted.
LEMMA WriteIsPersist ==
  ASSUME TypeOK, NothingInvented, NEW i \in Instances, NEW p \in Pages,
         Takes(p, inflight[i][p]),
         rows' = [rows EXCEPT ![p] = MergeElements(@, inflight[i][p])],
         UNCHANGED <<pages, accepted>>
  PROVE  Store!StoreNext
  <1>1. inflight[i][p] \in PageMap
    BY DEF TypeOK
  <1>2. rows' = [rows EXCEPT ![p] = Merge(rows[p], inflight[i][p])]
    BY <1>1, WriteEffect
  <1>3. Store!Persist(p, inflight[i][p])
    BY <1>2, SameAlgebra DEF Store!Persist, Takes, NothingInvented
  <1>4. QED
    BY <1>1, <1>3, SameAlgebra DEF Store!StoreNext

LEMMA RefinesStep == IndInv /\ [Next]_vars => [Store!StoreNext]_Store!storeVars
  <1> SUFFICES ASSUME IndInv, [Next]_vars
               PROVE  Store!StoreNext \/ UNCHANGED <<rows, pages, accepted>>
    BY DEF Store!storeVars
  <1> USE DEF IndInv
  <1>1. ASSUME NEW i \in Instances, NEW p \in Pages, NEW raw \in RawMap,
               AddPayload(i, p, raw)
        PROVE  Store!StoreNext
    <2>1. Store!Accept(p, Parsed(raw))
      BY <1>1, SameAlgebra DEF AddPayload, Store!Accept
    <2>2. QED
      BY <2>1, ParsedType, SameAlgebra DEF Store!StoreNext
  <1>2. ASSUME NEW i \in Instances, NEW p \in Pages, NEW raw \in RawMap,
               MergeSnapshot(i, p, raw)
        PROVE  Store!StoreNext
    <2>1. rows' = [rows EXCEPT ![p] = Merge(rows[p], Parsed(raw))]
      BY <1>2, ParsedType, WriteEffect DEF MergeSnapshot
    <2>2. Store!AcceptAndPersist(p, Parsed(raw))
      BY <1>2, <2>1, SameAlgebra
         DEF MergeSnapshot, Takes, Store!AcceptAndPersist
    <2>3. QED
      BY <2>2, ParsedType, SameAlgebra DEF Store!StoreNext
  <1>3. ASSUME NEW i \in Instances, NEW p \in Pages, FlushPage(i, p)
        PROVE  Store!StoreNext
    BY <1>3, WriteIsPersist DEF FlushPage
  <1>4. ASSUME NEW i \in Instances, NEW p \in Pages, FlushPageFails(i, p)
        PROVE  Store!StoreNext \/ UNCHANGED <<rows, pages, accepted>>
    BY <1>4, WriteIsPersist DEF FlushPageFails
  <1>5. ASSUME NEW i \in Instances,
               \/ Tick(i) \/ Woken(i) \/ FinalFlush(i) \/ EndFlush(i)
               \/ Start(i) \/ Cancel(i) \/ Exit(i) \/ Crash(i)
        PROVE  UNCHANGED <<rows, pages, accepted>>
    BY <1>5 DEF Tick, Woken, FinalFlush, Swap, EndFlush, Start, Cancel, Exit,
                Crash, Die
  <1>6. CASE DeleteOldTombstones
    <2>1. PICK old \in SUBSET Tombstones :
            rows' = [p \in Pages |-> [id \in Ids |->
                       IF <<p, id>> \in old THEN NoEdit ELSE rows[p][id]]]
      BY <1>6 DEF DeleteOldTombstones
    <2>2. old \in SUBSET Store!RowKeys /\ \A key \in old : rows[key[1]][key[2]].del
      BY DEF Tombstones, Store!RowKeys
    <2>3. Store!Expire(old)
      BY <1>6, <2>1, <2>2 DEF Store!Expire, DeleteOldTombstones
    <2>4. QED
      BY <2>2, <2>3 DEF Store!StoreNext
  <1>7. ASSUME NEW p \in Pages, DeletePage(p)
        PROVE  Store!StoreNext
    BY <1>7, SameAlgebra DEF DeletePage, Store!Drop, Store!StoreNext
  <1>8. CASE UNCHANGED vars
    BY <1>8 DEF vars
  <1>9. QED
    BY <1>1, <1>2, <1>3, <1>4, <1>5, <1>6, <1>7, <1>8 DEF Next, Flusher

\* Every behaviour of the buffer is one of the store: write-behind, retries,
\* two instances and crashes are invisible in what the table may hold.
THEOREM Refinement == Spec => RefinesStore
  <1>1. QED
    BY RefinesInit, RefinesStep, Invariance, PTL
       DEF Spec, RefinesStore, Store!StoreSpec
-----------------------------------------------------------------------------
\* An empty page is below every threshold.
LEMMA EmptyIsSmall == ~(Cardinality(Present(Nothing)) >= FlushThreshold)
  <1>1. Present(Nothing) = {}
    BY NothingType DEF Present
  <1>2. Cardinality({}) = 0
    BY FS_EmptySet
  <1>3. QED
    BY <1>1, <1>2, BufferAssumption

\* Adding nothing changes nothing.
LEMMA MergeNothing ==
  ASSUME NEW m \in PageMap
  PROVE  Merge(m, Nothing) = m
  BY NothingType DEF Merge, Later, Beats, PageMap, Slot

\* add leaves no big page unsignalled that was not so before.
LEMMA AddSignals ==
  ASSUME TypeOK, BigBatchIsSignalled, NEW i \in Instances, NEW p \in Pages,
         NEW els \in PageMap, Add(i, p, els)
  PROVE  BigBatchIsSignalled'
  <1> SUFFICES ASSUME NEW j \in Instances, NEW q \in Pages,
                      Cardinality(Present(pending'[j][q])) >= FlushThreshold
               PROVE  wake'[j]
    BY DEF BigBatchIsSignalled, Present
  <1>1. CASE j = i /\ q = p /\ els # Nothing
    BY <1>1, AddEffect DEF Add, TypeOK
  <1>2. CASE ~(j = i /\ q = p /\ els # Nothing)
    <2>1. pending'[j][q] = pending[j][q]
      BY <1>2, AddEffect, MergeNothing DEF TypeOK
    <2>2. wake[j] => wake'[j]
      BY DEF Add, TypeOK
    <2>3. QED
      BY <2>1, <2>2 DEF BigBatchIsSignalled
  <1>3. QED
    BY <1>1, <1>2

LEMMA BigBatchStep ==
  TypeOK /\ BigBatchIsSignalled /\ [Next]_vars => BigBatchIsSignalled'
  <1> SUFFICES ASSUME TypeOK, BigBatchIsSignalled, [Next]_vars
               PROVE  BigBatchIsSignalled'
    OBVIOUS
  <1>1. ASSUME NEW i \in Instances, NEW p \in Pages, NEW raw \in RawMap,
               AddPayload(i, p, raw)
        PROVE  BigBatchIsSignalled'
    BY <1>1, ParsedType, AddSignals DEF AddPayload
  <1>2. ASSUME NEW i \in Instances, NEW p \in Pages, FlushPageFails(i, p)
        PROVE  BigBatchIsSignalled'
    BY <1>2, AddSignals DEF FlushPageFails, TypeOK
  <1>3. ASSUME NEW i \in Instances,
               \/ Tick(i) \/ Woken(i) \/ FinalFlush(i)
               \/ Exit(i) \/ Crash(i)
        PROVE  BigBatchIsSignalled'
    <2>1. \A q \in Pages : pending'[i][q] = Nothing
      BY <1>3 DEF Tick, Woken, FinalFlush, Swap, Exit, Crash, Die, Empty, TypeOK
    <2>2. \A j \in Instances \ {i} : pending'[j] = pending[j] /\ wake'[j] = wake[j]
      BY <1>3 DEF Tick, Woken, FinalFlush, Swap, Exit, Crash, Die, TypeOK
    <2>3. QED
      BY <2>1, <2>2, EmptyIsSmall DEF BigBatchIsSignalled, Present
  <1>4. ASSUME UNCHANGED <<pending, wake>>
        PROVE  BigBatchIsSignalled'
    BY <1>4 DEF BigBatchIsSignalled, Present
  <1>5. ASSUME NEW i \in Instances,
               \/ EndFlush(i) \/ Start(i) \/ Cancel(i)
               \/ \E p \in Pages : FlushPage(i, p)
               \/ \E p \in Pages, raw \in RawMap : MergeSnapshot(i, p, raw)
        PROVE  UNCHANGED <<pending, wake>>
    BY <1>5 DEF EndFlush, Start, Cancel, FlushPage, MergeSnapshot
  <1>6. ASSUME \/ DeleteOldTombstones \/ UNCHANGED vars
               \/ \E p \in Pages : DeletePage(p)
        PROVE  UNCHANGED <<pending, wake>>
    BY <1>6 DEF DeleteOldTombstones, DeletePage, vars
  <1>7. QED
    BY <1>1, <1>2, <1>3, <1>4, <1>5, <1>6 DEF Next, Flusher

\* A page past the threshold never waits for the tick, whatever the number of
\* instances, pages and faults: the signal outlives a batch put back and an
\* addition during a flush.
THEOREM BigBatches == Spec => []BigBatchIsSignalled
  <1>1. Init => BigBatchIsSignalled
    BY EmptyIsSmall DEF Init, Empty, BigBatchIsSignalled
  <1>2. QED
    BY <1>1, BigBatchStep, TypeCorrect, PTL DEF Spec
=============================================================================
