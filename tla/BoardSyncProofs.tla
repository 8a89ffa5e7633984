-------------------------- MODULE BoardSyncProofs ----------------------------
(***************************************************************************)
(* What holds of the client of a board.  BoardSync: a page's replicas,     *)
(* for any number of tabs, edits and broken connections: what a tab counts *)
(* as sent the server has, or will learn of, but for what the tab mistook, *)
(* the edits that tie.  FormulaEditor: an opening of the editor puts at    *)
(* most one formula on the board, for any number of gestures and renders   *)
(* of any length, unless two of its calls set out with no element.         *)
(***************************************************************************)
EXTENDS BoardSync, FormulaEditor, BoardElementsProofs, FiniteSetTheorems,
        SequenceTheorems, TLAPS

-----------------------------------------------------------------------------
(* BoardSync: the parts of the invariant *)

\* The types, and that the channels of a socket are there for every tab.
Typed ==
  /\ TypeOK
  /\ up \in [Tabs -> Seq(Message)] /\ down \in [Tabs -> Seq(Message)]

\* The server has a copy of the edit or of one that beats it.
Stored(id, slot) == slot = NoEdit \/ Covers(buffer[id], slot) \/ Covers(table[id], slot)

\* A tab notes nothing that is newer than its canvas.
NotesBelowScene(t) == \A id \in Ids : versions[t][id] <= VersionOf(scene[t][id])

\* Whatever the server sends it has stored.
ServerFirst(t) ==
  \A i \in DOMAIN down[t] : \A id \in Ids : Stored(id, down[t][i].els[id])

\* The canvas never falls behind what the socket brought.
SceneAbove(t) == \A id \in Ids : heard[t][id] # NoEdit => Covers(scene[t][id], heard[t][id])

\* What the socket brought and is on the canvas is noted.
HeardIsNoted(t) ==
  \A id \in Ids :
    (heard[t][id] # NoEdit /\ heard[t][id] = scene[t][id])
      => versions[t][id] = VersionOf(scene[t][id])

\* A connected tab that has its seed believes that the server knows the element.
Believes(t, id) ==
  /\ link[t] \in {"joining", "open"} /\ ~SeedUnderWay(t)
  /\ scene[t][id] # NoEdit /\ versions[t][id] = VersionOf(scene[t][id])

\* It does, or will learn of it from this tab, or nobody can be blamed, or the
\* tab takes another edit for it.
Known(t, id) ==
  \/ Stored(id, scene[t][id])
  \/ \E i \in DOMAIN up[t] : Covers(up[t][i].els[id], scene[t][id])
  \/ <<id, scene[t][id]>> \in excused
  \/ Mistaken(t, id)

BeliefsAreTrue(t) == \A id \in Ids : Believes(t, id) => Known(t, id)

TabInv(t) ==
  NotesBelowScene(t) /\ ServerFirst(t) /\ SceneAbove(t) /\ HeardIsNoted(t) /\ BeliefsAreTrue(t)

SyncInv == Typed /\ \A t \in Tabs : TabInv(t)
-----------------------------------------------------------------------------
(* Lemmas about the operators *)

LEMMA VersionType ==
  ASSUME NEW slot \in Slot
  PROVE  /\ VersionOf(slot) \in Nat /\ VersionOf(slot) \in Versions
         /\ VersionOf(slot) = 0 <=> slot = NoEdit
  <1>1. CASE slot = NoEdit
    BY <1>1 DEF VersionOf, Versions
  <1>2. CASE slot \in Edits
    BY <1>2, EditFields, SyncAssumption, SentinelsAssumption DEF VersionOf, Versions
  <1>3. QED
    BY <1>1, <1>2 DEF Slot

LEMMA VersionsAreNaturals == Versions \subseteq Nat
  BY EditFields DEF Versions

\* Whoever wins has the later version, or the same.
LEMMA LaterVersion ==
  ASSUME NEW a \in Slot, NEW b \in Slot
  PROVE  /\ VersionOf(Later(a, b)) >= VersionOf(a)
         /\ VersionOf(Later(a, b)) >= VersionOf(b)
  <1>1. CASE a = NoEdit
    BY <1>1, VersionType DEF Later, VersionOf
  <1>2. CASE b = NoEdit
    BY <1>2, VersionType DEF Later, VersionOf
  <1>3. CASE a \in Edits /\ b \in Edits
    BY <1>3, EditFields, SentinelsAssumption, EditsAssumption DEF Later, Beats, VersionOf
  <1>4. QED
    BY <1>1, <1>2, <1>3 DEF Slot

\* An edit covers itself, and covering goes on over a later winner.
LEMMA CoversLater ==
  ASSUME NEW a \in Slot, NEW b \in Slot
  PROVE  /\ \A e \in Edits : Covers(e, e)
         /\ a # NoEdit => Covers(Later(a, b), a)
         /\ b # NoEdit => Covers(Later(a, b), b)
         /\ \A e \in Edits : Covers(a, e) => Covers(Later(a, b), e)
  <1>1. \A e \in Edits : Covers(e, e)
    BY SentinelsAssumption DEF Covers
  <1>2. \A e \in Edits : (Covers(a, e) \/ Covers(b, e)) => Covers(Later(a, b), e)
    BY LaterCovers
  <1>3. QED
    BY <1>1, <1>2 DEF Slot

\* What covers a copy covers all that the copy covers.
LEMMA CoversTransitive ==
  ASSUME NEW a \in Slot, NEW b \in Slot, NEW e \in Slot, Covers(a, b), Covers(b, e), e # NoEdit
  PROVE  Covers(a, e)
  <1>1. a \in Edits /\ b \in Edits /\ e \in Edits
    BY DEF Covers, Slot
  <1>2. QED
    BY <1>1, BeatsTransitive DEF Covers

LEMMA AppendParts ==
  ASSUME NEW S, NEW s \in Seq(S), NEW m \in S
  PROVE  /\ Append(s, m) \in Seq(S)
         /\ \A i \in DOMAIN s : i \in DOMAIN Append(s, m) /\ Append(s, m)[i] = s[i]
         /\ \E i \in DOMAIN Append(s, m) : Append(s, m)[i] = m
         /\ \A i \in DOMAIN Append(s, m) : Append(s, m)[i] = m \/ (i \in DOMAIN s /\ Append(s, m)[i] = s[i])
  <1>1. /\ Append(s, m) \in Seq(S) /\ DOMAIN s = 1..Len(s) /\ Len(s) \in Nat
        /\ DOMAIN Append(s, m) = 1..Len(s) + 1
        /\ Append(s, m)[Len(s) + 1] = m
        /\ \A i \in 1..Len(s) : Append(s, m)[i] = s[i]
    OBVIOUS
  <1>2. QED
    BY <1>1

LEMMA TailParts ==
  ASSUME NEW S, NEW s \in Seq(S), s # <<>>
  PROVE  /\ Tail(s) \in Seq(S) /\ Head(s) \in S /\ 1 \in DOMAIN s /\ Head(s) = s[1]
         /\ \A i \in DOMAIN Tail(s) : \E k \in DOMAIN s : Tail(s)[i] = s[k]
         /\ \A k \in DOMAIN s : s[k] = Head(s) \/ \E i \in DOMAIN Tail(s) : Tail(s)[i] = s[k]
  <1>1. /\ Tail(s) \in Seq(S) /\ Head(s) \in S /\ Head(s) = s[1]
        /\ DOMAIN s = 1..Len(s) /\ Len(s) \in Nat /\ Len(s) > 0
        /\ DOMAIN Tail(s) = 1..Len(s) - 1
        /\ \A i \in 1..Len(s) - 1 : Tail(s)[i] = s[i + 1]
    OBVIOUS
  <1>2. \A k \in DOMAIN s : k = 1 \/ (k - 1 \in DOMAIN Tail(s) /\ Tail(s)[k - 1] = s[k])
    BY <1>1
  <1>3. \A i \in DOMAIN Tail(s) : i + 1 \in DOMAIN s /\ Tail(s)[i] = s[i + 1]
    BY <1>1
  <1>4. 1 \in DOMAIN s
    BY <1>1
  <1>5. \A i \in DOMAIN Tail(s) : \E k \in DOMAIN s : Tail(s)[i] = s[k]
    BY <1>3
  <1>6. \A k \in DOMAIN s : s[k] = Head(s) \/ \E i \in DOMAIN Tail(s) : Tail(s)[i] = s[k]
    BY <1>1, <1>2
  <1>7. QED
    BY <1>1, <1>4, <1>5, <1>6

\* What a page map of versions is.
LEMMA NotedParts ==
  ASSUME NEW els \in PageMap, NEW prev \in [Ids -> Versions]
  PROVE  /\ Noted(els) \in [Ids -> Versions]
         /\ \A id \in Ids : Noted(els)[id] = VersionOf(els[id])
         /\ Changed(prev, els) \in PageMap
         /\ \A id \in Ids : VersionOf(els[id]) # prev[id] => Changed(prev, els)[id] = els[id]
  BY VersionType DEF Noted, Changed, PageMap, Slot

\* What a flush puts on the wire.
LEMMA SendParts ==
  ASSUME Typed, NEW t \in Tabs, NEW prev \in [Ids -> Versions], NEW els \in PageMap,
         Send(t, prev, els)
  PROVE  /\ up' \in [Tabs -> Seq(Message)]
         /\ \A u \in Tabs \ {t} : up'[u] = up[u]
         /\ \A i \in DOMAIN up[t] : \E k \in DOMAIN up'[t] : up'[t][k] = up[t][i]
         /\ link[t] # "lost" =>
              \A id \in Ids : (els[id] # NoEdit /\ VersionOf(els[id]) # prev[id]) =>
                \E k \in DOMAIN up'[t] : up'[t][k].els[id] = els[id]
  <1> DEFINE changed == Changed(prev, els)
             message == [kind |-> "update", els |-> changed]
  <1>1. changed \in PageMap /\ message \in Message /\ message.els = changed
    BY NotedParts DEF Message
  <1>2. \A id \in Ids : VersionOf(els[id]) # prev[id] => changed[id] = els[id]
    BY NotedParts
  <1>3. up[t] \in Seq(Message) /\ up \in [Tabs -> Seq(Message)]
    BY DEF Typed
  <1>4. up' = [up EXCEPT ![t] = IF changed = Nothing \/ link[t] = "lost" THEN up[t]
                                ELSE Append(up[t], message)]
    BY DEF Send
  <1> HIDE DEF message, changed
  <1>5. CASE changed = Nothing \/ link[t] = "lost"
    <2>1. up' = up
      BY <1>3, <1>4, <1>5
    <2>2. changed = Nothing => \A id \in Ids : changed[id] = NoEdit
      BY NothingType
    <2>3. QED
      BY <1>2, <1>3, <1>5, <2>1, <2>2
  <1>6. CASE ~(changed = Nothing \/ link[t] = "lost")
    <2>1. up' = [up EXCEPT ![t] = Append(up[t], message)]
      BY <1>4, <1>6
    <2>2. up'[t] = Append(up[t], message) /\ \A u \in Tabs \ {t} : up'[u] = up[u]
      BY <1>3, <2>1
    <2>3. /\ Append(up[t], message) \in Seq(Message)
          /\ \A i \in DOMAIN up[t] : i \in DOMAIN up'[t] /\ up'[t][i] = up[t][i]
          /\ \E i \in DOMAIN up'[t] : up'[t][i] = message
      BY <1>1, <1>3, <2>2, AppendParts
    <2>4. up' \in [Tabs -> Seq(Message)]
      BY <1>3, <2>1, <2>3
    <2>5. QED
      BY <1>1, <1>2, <2>2, <2>3, <2>4
  <1>7. QED
    BY <1>5, <1>6
-----------------------------------------------------------------------------
(* Lemmas about the steps *)

\* What the server has stored it keeps, or it keeps something later.
StoredGrows == \A id \in Ids : \A slot \in Slot : Stored(id, slot) => Stored(id, slot)'

LEMMA StoreStep ==
  ASSUME Typed, Typed',
         \/ UNCHANGED <<buffer, table>>
         \/ UNCHANGED table /\ \E els \in PageMap : buffer' = Merge(buffer, els)
         \/ UNCHANGED buffer /\ \E els \in PageMap : table' = MergeElements(table, els)
         \/ table' = MergeElements(table, buffer)
  PROVE  StoredGrows
  <1>1. buffer \in PageMap /\ table \in PageMap /\ buffer' \in PageMap /\ table' \in PageMap
    BY DEF Typed, TypeOK
  <1>2. ASSUME NEW m \in PageMap, NEW els \in PageMap, NEW id \in Ids
        PROVE  \A e \in Edits : (Covers(m[id], e) \/ Covers(els[id], e)) =>
                  /\ Covers(Merge(m, els)[id], e)
                  /\ Covers(MergeElements(m, els)[id], e)
    <2>1. m[id] \in Slot /\ els[id] \in Slot
      BY DEF PageMap
    <2>2. Merge(m, els)[id] = Later(m[id], els[id]) /\ MergeElements(m, els) = Merge(m, els)
      <3>1. MergeElements(m, els) = Merge(m, els)
        BY MergeElementsIsMerge
      <3>2. Merge(m, els)[id] = Later(m[id], els[id])
        BY DEF Merge
      <3>3. QED
        BY <3>1, <3>2
    <2>3. QED
      BY <2>1, <2>2, LaterCovers
  <1>3. CASE UNCHANGED <<buffer, table>>
    BY <1>3 DEF StoredGrows, Stored
  <1>4. CASE UNCHANGED table /\ \E els \in PageMap : buffer' = Merge(buffer, els)
    BY <1>1, <1>2, <1>4 DEF StoredGrows, Stored, Slot
  <1>5. CASE UNCHANGED buffer /\ \E els \in PageMap : table' = MergeElements(table, els)
    BY <1>1, <1>2, <1>5 DEF StoredGrows, Stored, Slot
  <1>6. CASE table' = MergeElements(table, buffer)
    BY <1>1, <1>2, <1>6 DEF StoredGrows, Stored, Slot
  <1>7. QED
    BY <1>3, <1>4, <1>5, <1>6

Holds(channel, m) == \E i \in DOMAIN channel : channel[i] = m
StoredAll(m) == \A id \in Ids : Stored(id, m.els[id])

LEMMA MessageSlot ==
  ASSUME NEW m \in Message, NEW id \in Ids PROVE m.els[id] \in Slot
  BY DEF Message, PageMap

\* A tab whose replica does not change: what is under way to the server stays so
\* or arrives, what comes from the server it has stored.
LEMMA TabStays ==
  ASSUME SyncInv, Typed', NEW t \in Tabs, StoredGrows, excused \subseteq excused',
         scene'[t] = scene[t], versions'[t] = versions[t], heard'[t] = heard[t],
         \/ link'[t] \notin {"joining", "open"}
         \/ /\ link[t] \in {"joining", "open"} /\ (SeedUnderWay(t) => SeedUnderWay(t)')
            /\ \A m \in Message : Holds(up[t], m) => Holds(up'[t], m) \/ StoredAll(m)',
         \A m \in Message : Holds(down'[t], m) => Holds(down[t], m) \/ StoredAll(m)'
  PROVE  TabInv(t)'
  <1>1. TabInv(t) /\ Typed
    BY DEF SyncInv
  <1>2. NotesBelowScene(t)' /\ SceneAbove(t)' /\ HeardIsNoted(t)'
    BY <1>1 DEF TabInv, NotesBelowScene, SceneAbove, HeardIsNoted
  <1>3. ServerFirst(t)'
    <2> SUFFICES ASSUME NEW i \in DOMAIN down'[t], NEW id \in Ids
                 PROVE  Stored(id, down[t][i].els[id])'
      BY DEF ServerFirst
    <2>1. PICK m \in Message : m = down'[t][i]
      BY DEF Typed
    <2>2. CASE StoredAll(m)'
      BY <2>1, <2>2 DEF StoredAll
    <2>3. CASE Holds(down[t], m)
      <3>1. PICK k \in DOMAIN down[t] : down[t][k] = m
        BY <2>3 DEF Holds
      <3>2. Stored(id, m.els[id])
        BY <1>1, <3>1 DEF TabInv, ServerFirst
      <3>3. QED
        BY <2>1, <3>2, MessageSlot DEF StoredGrows
    <2>4. Holds(down'[t], m)
      BY <2>1 DEF Holds
    <2>5. QED
      BY <2>2, <2>3, <2>4
  <1>4. BeliefsAreTrue(t)'
    <2> SUFFICES ASSUME NEW id \in Ids, Believes(t, id)' PROVE Known(t, id)'
      BY DEF BeliefsAreTrue
    <2>1. Believes(t, id)
      BY DEF Believes
    <2>2. Known(t, id)
      BY <1>1, <2>1 DEF TabInv, BeliefsAreTrue
    <2>3. scene[t][id] \in Slot
      BY <1>1 DEF Typed, TypeOK, PageMap
    <2>4. CASE Stored(id, scene[t][id])
      BY <2>3, <2>4 DEF StoredGrows, Known
    <2>5. CASE \E i \in DOMAIN up[t] : Covers(up[t][i].els[id], scene[t][id])
      <3>1. PICK i \in DOMAIN up[t] : Covers(up[t][i].els[id], scene[t][id])
        BY <2>5
      <3>2. PICK m \in Message : m = up[t][i] /\ Holds(up[t], m)
        BY <1>1 DEF Typed, Holds
      <3>3. CASE Holds(up'[t], m)
        <4>1. PICK k \in DOMAIN up'[t] : up'[t][k] = m
          BY <3>3 DEF Holds
        <4>2. QED
          BY <3>1, <3>2, <4>1 DEF Known
      <3>4. CASE StoredAll(m)'
        <4>1. m.els[id] \in Slot /\ Covers(m.els[id], scene[t][id])
          BY <3>1, <3>2, MessageSlot
        <4>2. buffer'[id] \in Slot /\ table'[id] \in Slot
          BY DEF Typed, TypeOK, PageMap
        <4>3. m.els[id] = NoEdit \/ Covers(buffer'[id], m.els[id]) \/ Covers(table'[id], m.els[id])
          BY <3>4 DEF StoredAll, Stored
        <4>4. Stored(id, scene[t][id])'
          BY <2>3, <4>1, <4>2, <4>3, CoversTransitive DEF Stored, Covers
        <4>5. QED
          BY <4>4 DEF Known
      <3>5. QED
        BY <3>2, <3>3, <3>4 DEF Believes
    <2>6. CASE <<id, scene[t][id]>> \in excused
      BY <2>6 DEF Known
    <2>7. CASE Mistaken(t, id)
      BY <2>7 DEF Known, Mistaken
    <2>8. QED
      BY <2>2, <2>4, <2>5, <2>6, <2>7 DEF Known
  <1>5. QED
    BY <1>2, <1>3, <1>4 DEF TabInv

\* The tabs that a step of another tab does not concern.
LEMMA OthersStay ==
  ASSUME SyncInv, Typed', NEW t \in Tabs, StoredGrows, excused \subseteq excused',
         \A u \in Tabs \ {t} : /\ scene'[u] = scene[u] /\ versions'[u] = versions[u]
                               /\ heard'[u] = heard[u] /\ link'[u] = link[u]
                               /\ up'[u] = up[u] /\ down'[u] = down[u]
  PROVE  \A u \in Tabs \ {t} : TabInv(u)'
  <1> SUFFICES ASSUME NEW u \in Tabs \ {t} PROVE TabInv(u)'
    OBVIOUS
  <1>1. /\ \A m \in Message : Holds(up[u], m) => Holds(up'[u], m)
        /\ \A m \in Message : Holds(down'[u], m) => Holds(down[u], m)
        /\ SeedUnderWay(u) => SeedUnderWay(u)'
    BY DEF SeedUnderWay
  <1>2. link'[u] \in {"joining", "open"} => link[u] \in {"joining", "open"}
    OBVIOUS
  <1>3. QED
    BY <1>1, <1>2, TabStays

LEMMA InitStep == Init => SyncInv
  <1> SUFFICES ASSUME Init PROVE SyncInv
    OBVIOUS
  <1>1. NothingSent \in [Ids -> Versions] /\ Nothing \in PageMap
    BY NothingType DEF NothingSent, Versions
  <1>2. Typed
    BY <1>1, SyncAssumption DEF Init, Typed, TypeOK, Links
  <1>3. ASSUME NEW t \in Tabs PROVE TabInv(t)
    <2>1. scene[t] = Nothing /\ heard[t] = Nothing /\ versions[t] = NothingSent /\ down[t] = <<>>
      BY DEF Init
    <2>2. \A id \in Ids : /\ scene[t][id] = NoEdit /\ heard[t][id] = NoEdit /\ versions[t][id] = 0
                         /\ VersionOf(scene[t][id]) = 0
      BY <2>1, NothingType DEF NothingSent, VersionOf
    <2>3. QED
      BY <2>1, <2>2
         DEF TabInv, NotesBelowScene, ServerFirst, SceneAbove, HeardIsNoted, BeliefsAreTrue,
             Believes
  <1>4. QED
    BY <1>2, <1>3 DEF SyncInv

\* What is drawn is newer than anything noted, so that it will be sent.
LEMMA DrawStep == ASSUME SyncInv, NEW t \in Tabs, Draw(t) PROVE SyncInv'
  <1>1. PICK id \in Ids, e \in EditsOf[t] :
          e.ver > VersionOf(scene[t][id]) /\ scene' = [scene EXCEPT ![t][id] = e]
    BY DEF Draw
  <1>2. /\ UNCHANGED <<versions, seeded, heard, link, up, down, drops, buffer, table, excused>>
        /\ timer' = [timer EXCEPT ![t] = TRUE]
    BY DEF Draw, socketVars, serverVars
  <1>3. e \in Edits /\ e \in Slot /\ VersionOf(e) = e.ver /\ e.ver \in Nat /\ e # NoEdit
    BY SyncAssumption, SentinelsAssumption, EditFields DEF Slot, VersionOf
  <1>4. /\ scene' \in [Tabs -> PageMap] /\ scene'[t][id] = e
        /\ \A i \in Ids \ {id} : scene'[t][i] = scene[t][i]
        /\ \A u \in Tabs \ {t} : scene'[u] = scene[u]
    BY <1>1, <1>3 DEF SyncInv, Typed, TypeOK, PageMap
  <1>5. Typed'
    BY <1>2, <1>4 DEF SyncInv, Typed, TypeOK
  <1>6. StoredGrows
    BY <1>2, <1>5, StoreStep DEF SyncInv
  <1>7. TabInv(t)'
    <2>1. /\ versions[t][id] \in Nat /\ VersionOf(scene[t][id]) \in Nat
          /\ scene[t][id] \in Slot /\ heard[t][id] \in Slot
      BY VersionsAreNaturals, VersionType DEF SyncInv, Typed, TypeOK, PageMap
    <2>2. versions[t][id] < VersionOf(e)
      BY <1>1, <1>3, <2>1 DEF SyncInv, TabInv, NotesBelowScene
    <2>3. heard[t][id] # NoEdit => Covers(e, heard[t][id]) /\ heard[t][id] # e
      <3>1. ASSUME heard[t][id] # NoEdit
            PROVE  VersionOf(heard[t][id]) <= VersionOf(scene[t][id])
        <4>1. Covers(scene[t][id], heard[t][id]) /\ heard[t][id] \in Edits
          BY <2>1, <3>1 DEF SyncInv, TabInv, SceneAbove, Slot
        <4>2. QED
          BY <2>1, <4>1, EditFields, SentinelsAssumption DEF Covers, Beats, VersionOf, Slot
      <3>2. QED
        BY <1>1, <1>3, <2>1, <3>1, EditFields, SentinelsAssumption
           DEF Covers, Beats, VersionOf, Slot
    <2>4. NotesBelowScene(t)'
      BY <1>2, <1>4, <2>1, <2>2, <1>3 DEF SyncInv, TabInv, NotesBelowScene
    <2>5. ServerFirst(t)'
      BY <1>2 DEF SyncInv, TabInv, ServerFirst, Stored
    <2>6. SceneAbove(t)' /\ HeardIsNoted(t)'
      BY <1>2, <1>4, <2>3 DEF SyncInv, TabInv, SceneAbove, HeardIsNoted
    <2>7. BeliefsAreTrue(t)'
      <3> SUFFICES ASSUME NEW i \in Ids, Believes(t, i)' PROVE Known(t, i)'
        BY DEF BeliefsAreTrue
      <3>1. i # id
        BY <1>2, <1>3, <1>4, <2>1, <2>2 DEF Believes
      <3>2. Believes(t, i)
        BY <1>2, <1>4, <3>1 DEF Believes, SeedUnderWay
      <3>3. Known(t, i)
        BY <3>2 DEF SyncInv, TabInv, BeliefsAreTrue
      <3>4. QED
        BY <1>2, <1>4, <3>1, <3>3 DEF Known, Stored, Mistaken
    <2>8. QED
      BY <2>4, <2>5, <2>6, <2>7 DEF TabInv
  <1>8. \A u \in Tabs \ {t} : TabInv(u)'
    BY <1>2, <1>4, <1>5, <1>6, OthersStay
  <1>9. QED
    BY <1>5, <1>7, <1>8 DEF SyncInv

\* A flush notes what it puts on the wire.
LEMMA FlushStep == ASSUME SyncInv, NEW t \in Tabs, FlushUpdate(t) PROVE SyncInv'
  <1>1. /\ UNCHANGED <<scene, seeded, heard, link, down, drops, buffer, table, excused>>
        /\ timer' = [timer EXCEPT ![t] = FALSE]
    BY DEF FlushUpdate, serverVars
  <1>2. /\ Typed /\ TabInv(t) /\ versions[t] \in [Ids -> Versions] /\ scene[t] \in PageMap
        /\ Noted(scene[t]) \in [Ids -> Versions]
        /\ \A id \in Ids : Noted(scene[t])[id] = VersionOf(scene[t][id])
    BY NotedParts DEF SyncInv, Typed, TypeOK
  <1>3. /\ up' \in [Tabs -> Seq(Message)] /\ versions' \in [Tabs -> [Ids -> Versions]]
        /\ \A u \in Tabs \ {t} : up'[u] = up[u] /\ versions'[u] = versions[u]
        /\ \A i \in DOMAIN up[t] : \E k \in DOMAIN up'[t] : up'[t][k] = up[t][i]
        /\ \/ versions'[t] = versions[t]
           \/ /\ \A id \in Ids : versions'[t][id] = VersionOf(scene[t][id])
              /\ link[t] # "lost" =>
                   \A id \in Ids : (scene[t][id] # NoEdit /\ VersionOf(scene[t][id]) # versions[t][id]) =>
                     \E k \in DOMAIN up'[t] : up'[t][k].els[id] = scene[t][id]
    <2>1. CASE SocketOpen(t)
      <3>1. Send(t, versions[t], scene[t]) /\ versions' = [versions EXCEPT ![t] = Noted(scene[t])]
        BY <2>1 DEF FlushUpdate
      <3>2. /\ versions' \in [Tabs -> [Ids -> Versions]] /\ versions'[t] = Noted(scene[t])
            /\ \A u \in Tabs \ {t} : versions'[u] = versions[u]
        BY <1>2, <3>1 DEF Typed, TypeOK
      <3>3. /\ up' \in [Tabs -> Seq(Message)]
            /\ \A u \in Tabs \ {t} : up'[u] = up[u]
            /\ \A i \in DOMAIN up[t] : \E k \in DOMAIN up'[t] : up'[t][k] = up[t][i]
            /\ link[t] # "lost" =>
                 \A id \in Ids : (scene[t][id] # NoEdit /\ VersionOf(scene[t][id]) # versions[t][id]) =>
                   \E k \in DOMAIN up'[t] : up'[t][k].els[id] = scene[t][id]
        BY <1>2, <3>1, SendParts
      <3>4. QED
        BY <1>2, <3>2, <3>3
    <2>2. CASE ~SocketOpen(t)
      BY <1>2, <2>2 DEF FlushUpdate, Typed, TypeOK
    <2>3. QED
      BY <2>1, <2>2
  <1>4. Typed'
    BY <1>1, <1>2, <1>3 DEF Typed, TypeOK
  <1>5. StoredGrows
    BY <1>1, <1>2, <1>4, StoreStep
  <1>6. TabInv(t)'
    <2>1. \A id \in Ids : VersionOf(scene[t][id]) \in Nat
      BY <1>2, VersionType DEF PageMap
    <2>2. NotesBelowScene(t)'
      BY <1>1, <1>2, <1>3, <2>1 DEF TabInv, NotesBelowScene
    <2>3. ServerFirst(t)' /\ SceneAbove(t)'
      BY <1>1, <1>2 DEF TabInv, ServerFirst, SceneAbove, Stored
    <2>4. HeardIsNoted(t)'
      BY <1>1, <1>2, <1>3 DEF TabInv, HeardIsNoted
    <2>5. BeliefsAreTrue(t)'
      <3> SUFFICES ASSUME NEW id \in Ids, Believes(t, id)' PROVE Known(t, id)'
        BY DEF BeliefsAreTrue
      <3>1. /\ link[t] \in {"joining", "open"} /\ ~SeedUnderWay(t)
            /\ scene[t][id] # NoEdit /\ versions'[t][id] = VersionOf(scene[t][id])
        BY <1>1 DEF Believes, SeedUnderWay
      <3>2. CASE versions[t][id] = VersionOf(scene[t][id])
        <4>1. Known(t, id)
          BY <1>2, <3>1, <3>2 DEF TabInv, BeliefsAreTrue, Believes
        <4>2. QED
          BY <1>1, <1>3, <4>1 DEF Known, Stored, Mistaken
      <3>3. CASE versions[t][id] # VersionOf(scene[t][id])
        <4>1. PICK k \in DOMAIN up'[t] : up'[t][k].els[id] = scene[t][id]
          BY <1>3, <3>1, <3>3
        <4>2. QED
          BY <1>1, <3>1, <4>1 DEF Known, Covers
      <3>4. QED
        BY <3>2, <3>3
    <2>6. QED
      BY <2>2, <2>3, <2>4, <2>5 DEF TabInv
  <1>7. \A u \in Tabs \ {t} : TabInv(u)'
    BY <1>1, <1>3, <1>4, <1>5, OthersStay
  <1>8. QED
    BY <1>4, <1>6, <1>7 DEF SyncInv

\* What arrives is merged into the canvas: nothing on it is taken back.
LEMMA Received ==
  ASSUME Typed, NEW t \in Tabs, NEW remote \in PageMap, ApplyRemote(t, remote), SceneAbove(t)
  PROVE  /\ scene' \in [Tabs -> PageMap] /\ heard' \in [Tabs -> PageMap]
         /\ timer' \in [Tabs -> BOOLEAN]
         /\ \A u \in Tabs \ {t} : scene'[u] = scene[u] /\ heard'[u] = heard[u]
         /\ \A id \in Ids :
              /\ remote[id] = NoEdit => scene'[t][id] = scene[t][id] /\ heard'[t][id] = heard[t][id]
              /\ remote[id] # NoEdit => heard'[t][id] = remote[id]
              /\ VersionOf(scene'[t][id]) >= VersionOf(scene[t][id])
              /\ VersionOf(scene'[t][id]) >= VersionOf(remote[id])
              /\ scene[t][id] # NoEdit => Covers(scene'[t][id], scene[t][id])
              /\ remote[id] # NoEdit => Covers(scene'[t][id], remote[id])
         /\ SceneAbove(t)'
  <1>1. scene[t] \in PageMap /\ heard[t] \in PageMap /\ scene \in [Tabs -> PageMap]
        /\ heard \in [Tabs -> PageMap] /\ timer \in [Tabs -> BOOLEAN]
    BY DEF Typed, TypeOK
  <1>2. /\ scene' = [scene EXCEPT ![t] = Merge(scene[t], remote)]
        /\ heard' = [heard EXCEPT ![t] = RemoteWins(heard[t], remote)]
        /\ timer' = [timer EXCEPT ![t] = TRUE]
    BY DEF ApplyRemote, Reconcile
  <1>3. /\ Merge(scene[t], remote) \in PageMap
        /\ \A id \in Ids : Merge(scene[t], remote)[id] = Later(scene[t][id], remote[id])
    BY <1>1, MergeType
  <1>4. /\ RemoteWins(heard[t], remote) \in PageMap
        /\ \A id \in Ids : RemoteWins(heard[t], remote)[id] =
                             IF remote[id] = NoEdit THEN heard[t][id] ELSE remote[id]
    BY <1>1 DEF RemoteWins, PageMap
  <1>5. /\ scene' \in [Tabs -> PageMap] /\ heard' \in [Tabs -> PageMap] /\ timer' \in [Tabs -> BOOLEAN]
        /\ \A u \in Tabs \ {t} : scene'[u] = scene[u] /\ heard'[u] = heard[u]
        /\ \A id \in Ids : /\ scene'[t][id] = Later(scene[t][id], remote[id])
                           /\ heard'[t][id] = IF remote[id] = NoEdit THEN heard[t][id] ELSE remote[id]
    BY <1>1, <1>2, <1>3, <1>4
  <1>6. \A id \in Ids : scene[t][id] \in Slot /\ remote[id] \in Slot /\ heard[t][id] \in Slot
    BY <1>1 DEF PageMap
  <1>7. \A id \in Ids : remote[id] = NoEdit => Later(scene[t][id], remote[id]) = scene[t][id]
    BY DEF Later
  <1>8. ASSUME NEW id \in Ids, heard'[t][id] # NoEdit
        PROVE  Covers(scene'[t][id], heard'[t][id])
    <2>1. CASE remote[id] = NoEdit
      BY <1>5, <1>7, <1>8, <2>1 DEF SceneAbove
    <2>2. CASE remote[id] # NoEdit
      BY <1>5, <1>6, <2>2, CoversLater
    <2>3. QED
      BY <2>1, <2>2
  <1>9. SceneAbove(t)'
    BY <1>8 DEF SceneAbove
  <1>10. QED
    BY <1>5, <1>6, <1>7, <1>9, LaterVersion, CoversLater

\* The first message of a channel, and the rest of it.
LEMMA Taken ==
  ASSUME Typed, NEW t \in Tabs, down[t] # <<>>, down' = [down EXCEPT ![t] = Tail(down[t])]
  PROVE  /\ Head(down[t]) \in Message /\ Head(down[t]).els \in PageMap
         /\ down' \in [Tabs -> Seq(Message)] /\ \A u \in Tabs \ {t} : down'[u] = down[u]
         /\ ServerFirst(t) => \A id \in Ids : Stored(id, Head(down[t]).els[id])
         /\ \A i \in DOMAIN down'[t] : \E k \in DOMAIN down[t] : down'[t][i] = down[t][k]
         /\ (Head(down[t]).kind = "update" /\ SeedUnderWay(t)) => SeedUnderWay(t)'
  <1>1. down[t] \in Seq(Message) /\ down \in [Tabs -> Seq(Message)]
    BY DEF Typed
  <1>2. /\ Tail(down[t]) \in Seq(Message) /\ Head(down[t]) \in Message /\ 1 \in DOMAIN down[t]
        /\ Head(down[t]) = down[t][1]
        /\ \A i \in DOMAIN Tail(down[t]) : \E k \in DOMAIN down[t] : Tail(down[t])[i] = down[t][k]
        /\ \A k \in DOMAIN down[t] : \/ down[t][k] = Head(down[t])
                                     \/ \E i \in DOMAIN Tail(down[t]) : Tail(down[t])[i] = down[t][k]
    BY <1>1, TailParts
  <1>3. down' \in [Tabs -> Seq(Message)] /\ down'[t] = Tail(down[t])
        /\ \A u \in Tabs \ {t} : down'[u] = down[u]
    BY <1>1, <1>2
  <1>4. Head(down[t]).els \in PageMap
    BY <1>2 DEF Message
  <1>5. (Head(down[t]).kind = "update" /\ SeedUnderWay(t)) => SeedUnderWay(t)'
    BY <1>2, <1>3 DEF SeedUnderWay
  <1>6. QED
    BY <1>2, <1>3, <1>4, <1>5 DEF ServerFirst

\* An update: what it brought the tab notes, and the server has it.
LEMMA ReceiveUpdateStep == ASSUME SyncInv, NEW t \in Tabs, ReceiveUpdate(t) PROVE SyncInv'
  <1> DEFINE remote == Head(down[t]).els
  <1>1. /\ UNCHANGED <<seeded, link, up, drops, buffer, table, excused>>
        /\ ApplyRemote(t, remote) /\ down' = [down EXCEPT ![t] = Tail(down[t])]
        /\ versions' = [versions EXCEPT ![t] = MarkRemoteVersions(versions[t], remote, scene'[t])]
        /\ down[t] # <<>> /\ Head(down[t]).kind = "update"
    BY DEF ReceiveUpdate, serverVars
  <1>2. Typed /\ TabInv(t)
    BY DEF SyncInv
  <1>3. /\ remote \in PageMap
        /\ down' \in [Tabs -> Seq(Message)] /\ \A u \in Tabs \ {t} : down'[u] = down[u]
        /\ \A id \in Ids : Stored(id, remote[id])
        /\ \A i \in DOMAIN down'[t] : \E k \in DOMAIN down[t] : down'[t][i] = down[t][k]
        /\ SeedUnderWay(t) => SeedUnderWay(t)'
    BY <1>1, <1>2, Taken DEF TabInv
  <1> HIDE DEF remote
  <1>4. /\ scene' \in [Tabs -> PageMap] /\ heard' \in [Tabs -> PageMap] /\ timer' \in [Tabs -> BOOLEAN]
        /\ \A u \in Tabs \ {t} : scene'[u] = scene[u] /\ heard'[u] = heard[u]
        /\ \A id \in Ids :
             /\ remote[id] = NoEdit => scene'[t][id] = scene[t][id] /\ heard'[t][id] = heard[t][id]
             /\ remote[id] # NoEdit => heard'[t][id] = remote[id]
             /\ VersionOf(scene'[t][id]) >= VersionOf(scene[t][id])
             /\ VersionOf(scene'[t][id]) >= VersionOf(remote[id])
        /\ SceneAbove(t)'
    BY <1>1, <1>2, <1>3, Received DEF TabInv
  <1>5. /\ versions' \in [Tabs -> [Ids -> Versions]]
        /\ \A u \in Tabs \ {t} : versions'[u] = versions[u]
        /\ \A id \in Ids : /\ remote[id] = NoEdit => versions'[t][id] = versions[t][id]
                           /\ remote[id] # NoEdit => versions'[t][id] = VersionOf(remote[id])
    <2>1. \A id \in Ids : remote[id] \in Slot /\ VersionOf(remote[id]) \in Versions
      BY <1>3, VersionType DEF PageMap
    <2>2. versions \in [Tabs -> [Ids -> Versions]]
      BY <1>2 DEF Typed, TypeOK
    <2>3. \A id \in Ids : remote[id] # NoEdit => remote[id].ver = VersionOf(remote[id])
      BY DEF VersionOf
    <2>4. /\ MarkRemoteVersions(versions[t], remote, scene'[t]) \in [Ids -> Versions]
          /\ \A id \in Ids : MarkRemoteVersions(versions[t], remote, scene'[t])[id] =
               IF remote[id] = NoEdit THEN versions[t][id] ELSE VersionOf(remote[id])
      BY <2>1, <2>2, <2>3 DEF MarkRemoteVersions
    <2>5. QED
      BY <1>1, <2>2, <2>4
  <1>6. Typed'
    BY <1>1, <1>2, <1>3, <1>4, <1>5 DEF Typed, TypeOK
  <1>7. StoredGrows
    BY <1>1, <1>2, <1>6, StoreStep
  <1>8. TabInv(t)'
    <2>1. \A id \in Ids : /\ VersionOf(scene[t][id]) \in Nat /\ VersionOf(scene'[t][id]) \in Nat
                          /\ VersionOf(remote[id]) \in Nat /\ versions[t][id] \in Nat
      <3>1. \A id \in Ids : scene[t][id] \in Slot /\ scene'[t][id] \in Slot /\ remote[id] \in Slot
        BY <1>2, <1>3, <1>4 DEF PageMap, Typed, TypeOK
      <3>2. \A id \in Ids : versions[t][id] \in Nat
        BY <1>2, VersionsAreNaturals DEF Typed, TypeOK
      <3>3. QED
        BY <3>1, <3>2, VersionType
    <2>2. NotesBelowScene(t)'
      BY <1>2, <1>4, <1>5, <2>1 DEF TabInv, NotesBelowScene
    <2>3. ServerFirst(t)'
      BY <1>1, <1>2, <1>3 DEF TabInv, ServerFirst, Stored
    <2>4. HeardIsNoted(t)'
      BY <1>2, <1>4, <1>5 DEF TabInv, HeardIsNoted
    <2>5. BeliefsAreTrue(t)'
      <3> SUFFICES ASSUME NEW id \in Ids, Believes(t, id)' PROVE Known(t, id)'
        BY DEF BeliefsAreTrue
      <3>1. CASE remote[id] = NoEdit
        <4>1. Believes(t, id)
          BY <1>1, <1>3, <1>4, <1>5, <3>1 DEF Believes
        <4>2. QED
          BY <1>1, <1>2, <1>4, <1>5, <3>1, <4>1 DEF TabInv, BeliefsAreTrue, Known, Stored, Mistaken
      <3>2. CASE remote[id] # NoEdit
        <4>1. /\ VersionOf(remote[id]) = VersionOf(scene'[t][id]) /\ scene'[t][id] # NoEdit
              /\ heard'[t][id] = remote[id]
          BY <1>4, <1>5, <3>2 DEF Believes
        <4>2. CASE scene'[t][id] = remote[id]
          BY <1>1, <1>3, <4>2 DEF Known, Stored
        <4>3. CASE scene'[t][id] # remote[id]
          BY <3>2, <4>1, <4>3 DEF Known, Mistaken, VersionOf
        <4>4. QED
          BY <4>2, <4>3
      <3>3. QED
        BY <3>1, <3>2
    <2>6. QED
      BY <1>4, <2>2, <2>3, <2>4, <2>5 DEF TabInv
  <1>9. \A u \in Tabs \ {t} : TabInv(u)'
    BY <1>1, <1>3, <1>4, <1>5, <1>6, <1>7, OthersStay
  <1>10. QED
    BY <1>6, <1>8, <1>9 DEF SyncInv

\* The seed: what it does not have goes out at once.
LEMMA ReceiveSnapshotStep == ASSUME SyncInv, NEW t \in Tabs, ReceiveSnapshot(t) PROVE SyncInv'
  <1> DEFINE remote == Head(down[t]).els
  <1>1. /\ UNCHANGED <<link, drops, buffer, table, excused>>
        /\ seeded' = [seeded EXCEPT ![t] = TRUE]
        /\ ApplyRemote(t, remote) /\ down' = [down EXCEPT ![t] = Tail(down[t])]
        /\ versions' = [versions EXCEPT ![t] = Noted(scene'[t])]
        /\ Send(t, Noted(remote), scene'[t])
        /\ down[t] # <<>> /\ link[t] \in {"joining", "open"}
    BY DEF ReceiveSnapshot, serverVars, KnownAfterSeed
  <1>2. Typed /\ TabInv(t)
    BY DEF SyncInv
  <1>3. /\ remote \in PageMap
        /\ down' \in [Tabs -> Seq(Message)] /\ \A u \in Tabs \ {t} : down'[u] = down[u]
        /\ \A id \in Ids : Stored(id, remote[id])
        /\ \A i \in DOMAIN down'[t] : \E k \in DOMAIN down[t] : down'[t][i] = down[t][k]
    BY <1>1, <1>2, Taken DEF TabInv
  <1> HIDE DEF remote
  <1>4. /\ scene' \in [Tabs -> PageMap] /\ heard' \in [Tabs -> PageMap] /\ timer' \in [Tabs -> BOOLEAN]
        /\ \A u \in Tabs \ {t} : scene'[u] = scene[u] /\ heard'[u] = heard[u]
        /\ \A id \in Ids : remote[id] # NoEdit => heard'[t][id] = remote[id]
        /\ SceneAbove(t)'
    BY <1>1, <1>2, <1>3, Received DEF TabInv
  <1>5. /\ scene'[t] \in PageMap /\ versions \in [Tabs -> [Ids -> Versions]]
        /\ seeded \in [Tabs -> BOOLEAN]
    BY <1>2, <1>4 DEF Typed, TypeOK
  <1>6. /\ Noted(scene'[t]) \in [Ids -> Versions] /\ Noted(remote) \in [Ids -> Versions]
        /\ \A id \in Ids : /\ Noted(scene'[t])[id] = VersionOf(scene'[t][id])
                           /\ Noted(remote)[id] = VersionOf(remote[id])
    BY <1>3, <1>5, VersionType DEF Noted, PageMap
  <1>7. /\ versions' \in [Tabs -> [Ids -> Versions]]
        /\ \A u \in Tabs \ {t} : versions'[u] = versions[u]
        /\ \A id \in Ids : versions'[t][id] = VersionOf(scene'[t][id])
    BY <1>1, <1>5, <1>6
  <1>8. /\ up' \in [Tabs -> Seq(Message)]
        /\ \A u \in Tabs \ {t} : up'[u] = up[u]
        /\ \A id \in Ids : (scene'[t][id] # NoEdit /\ VersionOf(scene'[t][id]) # Noted(remote)[id]) =>
             \E k \in DOMAIN up'[t] : up'[t][k].els[id] = scene'[t][id]
    <2>1. PICK els \in PageMap, prev \in [Ids -> Versions] : els = scene'[t] /\ prev = Noted(remote)
      BY <1>5, <1>6
    <2>2. Send(t, prev, els) /\ link[t] # "lost"
      BY <1>1, <2>1
    <2>3. /\ up' \in [Tabs -> Seq(Message)]
          /\ \A u \in Tabs \ {t} : up'[u] = up[u]
          /\ \A id \in Ids : (els[id] # NoEdit /\ VersionOf(els[id]) # prev[id]) =>
               \E k \in DOMAIN up'[t] : up'[t][k].els[id] = els[id]
      BY <1>2, <2>2, SendParts
    <2>4. QED
      BY <2>1, <2>3
  <1>9. Typed'
    <2>1. seeded' \in [Tabs -> BOOLEAN]
      BY <1>1, <1>5
    <2>2. QED
      BY <1>1, <1>2, <1>3, <1>4, <1>7, <1>8, <2>1 DEF Typed, TypeOK
  <1>10. StoredGrows
    BY <1>1, <1>2, <1>9, StoreStep
  <1>11. TabInv(t)'
    <2>1. \A id \in Ids : VersionOf(scene'[t][id]) \in Nat
      BY <1>5, VersionType DEF PageMap
    <2>2. NotesBelowScene(t)'
      BY <1>7, <2>1 DEF NotesBelowScene
    <2>3. ServerFirst(t)'
      BY <1>1, <1>2, <1>3 DEF TabInv, ServerFirst, Stored
    <2>4. HeardIsNoted(t)'
      BY <1>7 DEF HeardIsNoted
    <2>5. BeliefsAreTrue(t)'
      <3> SUFFICES ASSUME NEW id \in Ids, Believes(t, id)' PROVE Known(t, id)'
        BY DEF BeliefsAreTrue
      <3>1. scene'[t][id] # NoEdit
        BY DEF Believes
      <3>2. CASE VersionOf(scene'[t][id]) = VersionOf(remote[id])
        <4>1. remote[id] # NoEdit /\ heard'[t][id] = remote[id]
          <5>1. remote[id] \in Slot /\ scene'[t][id] \in Slot
            BY <1>3, <1>5 DEF PageMap
          <5>2. remote[id] # NoEdit
            BY <3>1, <3>2, <5>1, VersionType
          <5>3. QED
            BY <1>4, <5>2
        <4>2. CASE scene'[t][id] = remote[id]
          BY <1>1, <1>3, <4>2 DEF Known, Stored
        <4>3. CASE scene'[t][id] # remote[id]
          BY <3>2, <4>1, <4>3 DEF Known, Mistaken, VersionOf
        <4>4. QED
          BY <4>2, <4>3
      <3>3. CASE VersionOf(scene'[t][id]) # VersionOf(remote[id])
        <4>1. PICK k \in DOMAIN up'[t] : up'[t][k].els[id] = scene'[t][id]
          BY <1>6, <1>8, <3>1, <3>3
        <4>2. QED
          BY <3>1, <4>1 DEF Known, Covers
      <3>4. QED
        BY <3>2, <3>3
    <2>6. QED
      BY <1>4, <2>2, <2>3, <2>4, <2>5 DEF TabInv
  <1>12. \A u \in Tabs \ {t} : TabInv(u)'
    BY <1>1, <1>3, <1>4, <1>7, <1>8, <1>9, <1>10, OthersStay
  <1>13. QED
    BY <1>9, <1>11, <1>12 DEF SyncInv

\* A tab that leaves, dies or whose connection breaks, and one that notices it
\* or is taken into the hub: no replica changes.
LEMMA LinkStep ==
  ASSUME SyncInv, NEW t \in Tabs,
         Leave(t) \/ Die(t) \/ NoticeClose(t) \/ Drop(t) \/ Register(t)
  PROVE  SyncInv'
  <1>1. Typed /\ \A u \in Tabs : TabInv(u)
    BY DEF SyncInv
  <1>2. /\ UNCHANGED <<scene, versions, timer, seeded, heard, buffer>>
        /\ \/ UNCHANGED table \/ table' = MergeElements(table, scene[t])
    BY DEF Leave, Die, NoticeClose, Drop, Register, replicaVars, serverVars
  <1>3. /\ excused \subseteq excused' /\ excused' \subseteq Ids \X Edits
        /\ drops' \in 0..MaxDrops
    <2>1. Held(t) \subseteq Ids \X Edits
      BY <1>1 DEF Held, Present, Typed, TypeOK, PageMap, Slot
    <2>2. excused \subseteq Ids \X Edits /\ drops \in 0..MaxDrops /\ MaxDrops \in Nat
      BY <1>1, SyncAssumption DEF Typed, TypeOK
    <2>3. excused' = excused \/ excused' = excused \cup Held(t)
      BY DEF Leave, Die, NoticeClose, Drop, Register
    <2>4. drops' = drops \/ (drops < MaxDrops /\ drops' = drops + 1)
      BY DEF Leave, Die, NoticeClose, Drop, Register
    <2>5. QED
      BY <2>1, <2>2, <2>3, <2>4
  <1>4. \E place \in Links :
          /\ link' = [link EXCEPT ![t] = place]
          /\ \/ UNCHANGED <<up, down>> /\ (place \in {"joining", "open"} => link[t] = "joining")
             \/ /\ up' = [up EXCEPT ![t] = <<>>] /\ down' = [down EXCEPT ![t] = <<>>]
                /\ place \notin {"joining", "open"}
    BY DEF Leave, Die, NoticeClose, Drop, Register, Hang, Links
  <1>5. /\ up \in [Tabs -> Seq(Message)] /\ down \in [Tabs -> Seq(Message)] /\ link \in [Tabs -> Links]
        /\ table \in PageMap /\ buffer \in PageMap /\ scene[t] \in PageMap
    BY <1>1 DEF Typed, TypeOK
  <1>6. /\ link' \in [Tabs -> Links]
        /\ up' \in [Tabs -> Seq(Message)] /\ down' \in [Tabs -> Seq(Message)]
    <2>1. <<>> \in Seq(Message)
      OBVIOUS
    <2>2. link' \in [Tabs -> Links]
      BY <1>4, <1>5
    <2>3. up' = up \/ up' = [up EXCEPT ![t] = <<>>]
      BY <1>4
    <2>4. down' = down \/ down' = [down EXCEPT ![t] = <<>>]
      BY <1>4
    <2>5. QED
      BY <1>5, <2>1, <2>2, <2>3, <2>4
  <1>7. table' \in PageMap
    <2>1. MergeElements(table, scene[t]) = Merge(table, scene[t])
      BY <1>5, MergeElementsIsMerge
    <2>2. Merge(table, scene[t]) \in PageMap
      BY <1>5, MergeType
    <2>3. QED
      BY <1>2, <1>5, <2>1, <2>2
  <1>8. Typed'
    BY <1>1, <1>2, <1>3, <1>6, <1>7 DEF Typed, TypeOK
  <1>9. StoredGrows
    BY <1>1, <1>2, <1>5, <1>8, StoreStep
  <1>10. ASSUME NEW u \in Tabs PROVE TabInv(u)'
    <2>1. /\ \/ link'[u] \notin {"joining", "open"}
             \/ link[u] \in {"joining", "open"} /\ up'[u] = up[u] /\ down'[u] = down[u]
          /\ down'[u] = down[u] \/ down'[u] = <<>>
      BY <1>4, <1>5
    <2>2. \A m \in Message : Holds(down'[u], m) => Holds(down[u], m)
      BY <2>1 DEF Holds
    <2>3. down'[u] = down[u] => (SeedUnderWay(u) => SeedUnderWay(u)')
      BY DEF SeedUnderWay
    <2>4. QED
      BY <1>2, <1>3, <1>8, <1>9, <2>1, <2>2, <2>3, TabStays
  <1>11. QED
    BY <1>8, <1>10 DEF SyncInv

\* A new connection begins with a seed, which is the table, or with everything
\* on the canvas excused.
LEMMA AcceptStep == ASSUME SyncInv, NEW t \in Tabs, Accept(t) PROVE SyncInv'
  <1>1. Typed /\ TabInv(t)
    BY DEF SyncInv
  <1>2. /\ UNCHANGED <<scene, versions, timer, seeded, up, drops, buffer, table>>
        /\ link' = [link EXCEPT ![t] = "joining"] /\ heard' = [heard EXCEPT ![t] = Nothing]
    BY DEF Accept, serverVars
  <1> DEFINE seed == [kind |-> "snapshot", els |-> table]
  <1>3. seed \in Message /\ seed.els = table /\ seed.kind = "snapshot" /\ <<seed>> \in Seq(Message)
        /\ DOMAIN <<seed>> = {1} /\ <<seed>>[1] = seed
    BY <1>1 DEF Message, Typed, TypeOK
  <1>4. \/ down' = [down EXCEPT ![t] = <<seed>>] /\ UNCHANGED excused
        \/ excused' = excused \cup Held(t) /\ UNCHANGED down
    BY DEF Accept
  <1> HIDE DEF seed
  <1>5. /\ down' \in [Tabs -> Seq(Message)] /\ \A u \in Tabs \ {t} : down'[u] = down[u]
        /\ \/ down'[t] = <<seed>> \/ down'[t] = down[t]
    BY <1>1, <1>3, <1>4 DEF Typed
  <1>6. /\ link' \in [Tabs -> Links] /\ heard' \in [Tabs -> PageMap] /\ heard'[t] = Nothing
        /\ \A u \in Tabs \ {t} : link'[u] = link[u] /\ heard'[u] = heard[u]
    BY <1>1, <1>2, NothingType DEF Typed, TypeOK, Links
  <1>7. excused \subseteq excused' /\ excused' \subseteq Ids \X Edits
    <2>1. Held(t) \subseteq Ids \X Edits /\ excused \subseteq Ids \X Edits
      BY <1>1 DEF Held, Present, Typed, TypeOK, PageMap, Slot
    <2>2. QED
      BY <1>4, <2>1
  <1>8. Typed'
    BY <1>1, <1>2, <1>5, <1>6, <1>7 DEF Typed, TypeOK
  <1>9. StoredGrows
    BY <1>1, <1>2, <1>8, StoreStep
  <1>10. TabInv(t)'
    <2>1. NotesBelowScene(t)'
      BY <1>1, <1>2 DEF TabInv, NotesBelowScene
    <2>2. SceneAbove(t)' /\ HeardIsNoted(t)'
      BY <1>6, NothingType DEF SceneAbove, HeardIsNoted
    <2>3. ServerFirst(t)'
      <3>1. CASE down'[t] = down[t]
        BY <1>1, <1>2, <3>1 DEF TabInv, ServerFirst, Stored
      <3>2. CASE down'[t] = <<seed>>
        BY <1>2, <1>3, <3>2 DEF ServerFirst, Stored, Covers
      <3>3. QED
        BY <1>5, <3>1, <3>2
    <2>4. BeliefsAreTrue(t)'
      <3> SUFFICES ASSUME NEW id \in Ids, Believes(t, id)' PROVE Known(t, id)'
        BY DEF BeliefsAreTrue
      <3>1. down'[t] # <<seed>>
        BY <1>3 DEF Believes, SeedUnderWay
      <3>2. excused' = excused \cup Held(t)
        BY <1>1, <1>4, <3>1 DEF Typed
      <3>3. <<id, scene[t][id]>> \in Held(t)
        BY <1>2 DEF Believes, Held, Present
      <3>4. QED
        BY <1>2, <3>2, <3>3 DEF Known
    <2>5. QED
      BY <2>1, <2>2, <2>3, <2>4 DEF TabInv
  <1>11. \A u \in Tabs \ {t} : TabInv(u)'
    BY <1>2, <1>5, <1>6, <1>7, <1>8, <1>9, OthersStay
  <1>12. QED
    BY <1>8, <1>10, <1>11 DEF SyncInv

\* What is relayed is in the buffer when it reaches the others.
LEMMA RelayStep == ASSUME SyncInv, NEW t \in Tabs, Relay(t) PROVE SyncInv'
  <1>1. Typed /\ \A u \in Tabs : TabInv(u)
    BY DEF SyncInv
  <1>2. /\ UNCHANGED <<scene, versions, timer, seeded, heard, link, drops, table, excused>>
        /\ up[t] # <<>> /\ up' = [up EXCEPT ![t] = Tail(up[t])]
        /\ buffer' = Merge(buffer, Head(up[t]).els)
        /\ down' = [u \in Tabs |-> IF u # t /\ link[u] = "open"
                                   THEN Append(down[u], Head(up[t])) ELSE down[u]]
    BY DEF Relay, replicaVars
  <1>3. /\ up \in [Tabs -> Seq(Message)] /\ down \in [Tabs -> Seq(Message)]
        /\ buffer \in PageMap /\ table \in PageMap /\ up[t] \in Seq(Message)
    BY <1>1 DEF Typed, TypeOK
  <1>4. /\ Tail(up[t]) \in Seq(Message) /\ Head(up[t]) \in Message
        /\ \A k \in DOMAIN up[t] : \/ up[t][k] = Head(up[t])
                                   \/ \E i \in DOMAIN Tail(up[t]) : Tail(up[t])[i] = up[t][k]
    BY <1>2, <1>3, TailParts
  <1>5. PICK message \in Message : message = Head(up[t])
    BY <1>4
  <1>6. message.els \in PageMap
    BY DEF Message
  <1>7. \A u \in Tabs : /\ Append(down[u], message) \in Seq(Message)
                        /\ \A i \in DOMAIN down[u] : /\ i \in DOMAIN Append(down[u], message)
                                                     /\ Append(down[u], message)[i] = down[u][i]
                        /\ \A i \in DOMAIN Append(down[u], message) :
                             \/ Append(down[u], message)[i] = message
                             \/ i \in DOMAIN down[u] /\ Append(down[u], message)[i] = down[u][i]
    BY <1>3, AppendParts
  <1>8. /\ down' \in [Tabs -> Seq(Message)] /\ up' \in [Tabs -> Seq(Message)]
        /\ up'[t] = Tail(up[t]) /\ \A u \in Tabs \ {t} : up'[u] = up[u]
        /\ \A u \in Tabs : down'[u] = down[u] \/ down'[u] = Append(down[u], message)
    BY <1>2, <1>3, <1>4, <1>5, <1>7
  <1>9. buffer' = Merge(buffer, message.els) /\ buffer' \in PageMap
    BY <1>2, <1>3, <1>5, <1>6, MergeType
  <1>10. Typed'
    BY <1>1, <1>2, <1>8, <1>9 DEF Typed, TypeOK
  <1>11. StoredGrows
    BY <1>1, <1>2, <1>6, <1>9, <1>10, StoreStep
  <1>12. StoredAll(message)'
    <2>1. ASSUME NEW id \in Ids, message.els[id] # NoEdit
          PROVE  Covers(buffer'[id], message.els[id])
      <3>1. buffer[id] \in Slot /\ message.els[id] \in Slot
        BY <1>3, <1>6 DEF PageMap
      <3>2. buffer'[id] = Later(buffer[id], message.els[id])
        BY <1>3, <1>6, <1>9, MergeType
      <3>3. QED
        BY <2>1, <3>1, <3>2, CoversLater
    <2>2. QED
      BY <2>1 DEF StoredAll, Stored
  <1>13. ASSUME NEW u \in Tabs PROVE TabInv(u)'
    <2>1. ASSUME NEW m \in Message, Holds(down'[u], m), ~Holds(down[u], m) PROVE StoredAll(m)'
      <3>1. down'[u] = Append(down[u], message)
        BY <1>8, <2>1
      <3>2. PICK i \in DOMAIN down'[u] : down'[u][i] = m
        BY <2>1 DEF Holds
      <3>3. m = message
        BY <1>7, <2>1, <3>1, <3>2 DEF Holds
      <3>4. QED
        BY <1>12, <3>3
    <2>2. \A m \in Message : Holds(up[u], m) => Holds(up'[u], m) \/ StoredAll(m)'
      BY <1>4, <1>5, <1>8, <1>12 DEF Holds
    <2>3. SeedUnderWay(u) => SeedUnderWay(u)'
      BY <1>7, <1>8 DEF SeedUnderWay
    <2>4. link'[u] \in {"joining", "open"} => link[u] \in {"joining", "open"}
      BY <1>2
    <2>5. QED
      BY <1>2, <1>10, <1>11, <2>1, <2>2, <2>3, <2>4, TabStays
  <1>14. QED
    BY <1>10, <1>13 DEF SyncInv

LEMMA PersistStep == ASSUME SyncInv, Persist PROVE SyncInv'
  <1>1. /\ UNCHANGED <<scene, versions, timer, seeded, heard, link, up, down, drops, excused>>
        /\ table' = MergeElements(table, buffer) /\ buffer' = Nothing
    BY DEF Persist, replicaVars, socketVars
  <1>2. Typed /\ table \in PageMap /\ buffer \in PageMap
    BY DEF SyncInv, Typed, TypeOK
  <1>3. table' \in PageMap /\ buffer' \in PageMap
    <2>1. MergeElements(table, buffer) = Merge(table, buffer)
      BY <1>2, MergeElementsIsMerge
    <2>2. Merge(table, buffer) \in PageMap
      BY <1>2, MergeType
    <2>3. QED
      BY <1>1, <2>1, <2>2, NothingType
  <1>4. Typed'
    BY <1>1, <1>2, <1>3 DEF Typed, TypeOK
  <1>5. StoredGrows
    BY <1>1, <1>2, <1>4, StoreStep
  <1>6. ASSUME NEW u \in Tabs PROVE TabInv(u)'
    <2>1. SeedUnderWay(u) => SeedUnderWay(u)'
      BY <1>1 DEF SeedUnderWay
    <2>2. QED
      BY <1>1, <1>4, <1>5, <2>1, TabStays
  <1>7. QED
    BY <1>4, <1>6 DEF SyncInv

LEMMA SyncStep == SyncInv /\ [Next]_vars => SyncInv'
  <1> SUFFICES ASSUME SyncInv, [Next]_vars PROVE SyncInv'
    OBVIOUS
  <1>1. CASE Persist
    BY <1>1, PersistStep
  <1>2. ASSUME NEW t \in Tabs,
               \/ Draw(t) \/ FlushUpdate(t) \/ ReceiveUpdate(t)
               \/ ReceiveSnapshot(t) \/ Leave(t) \/ Die(t) \/ NoticeClose(t)
               \/ Drop(t) \/ Accept(t) \/ Register(t) \/ Relay(t)
        PROVE  SyncInv'
    BY <1>2, DrawStep, FlushStep, ReceiveUpdateStep, ReceiveSnapshotStep, LinkStep, AcceptStep, RelayStep
  <1>3. CASE UNCHANGED vars
    <2>1. UNCHANGED <<scene, versions, timer, seeded, heard, link, up, down, drops, buffer, table, excused>>
      BY <1>3 DEF vars, replicaVars, socketVars, serverVars
    <2>2. Typed'
      BY <2>1 DEF SyncInv, Typed, TypeOK
    <2>3. \A t \in Tabs : TabInv(t)'
      BY <2>1 DEF SyncInv, TabInv, NotesBelowScene, ServerFirst, SceneAbove, HeardIsNoted,
                  BeliefsAreTrue, Believes, Known, Stored, Mistaken, SeedUnderWay
    <2>4. QED
      BY <2>2, <2>3 DEF SyncInv
  <1>4. QED
    BY <1>1, <1>2, <1>3 DEF Next
-----------------------------------------------------------------------------
(* The theorems *)

\* Whatever breaks and whoever leaves: what a connected tab counts as sent has
\* reached the server or is under way from this very tab, or the edit is
\* excused, or was mistaken for another with the same version.
THEOREM SyncInvariant == Spec => []SyncInv
  <1>1. Init => SyncInv
    BY InitStep
  <1>2. SyncInv /\ [Next]_vars => SyncInv'
    BY SyncStep
  <1>3. QED
    BY <1>1, <1>2, PTL DEF Spec

\* What a tab counts as sent is covered by the buffer, the table or what is
\* under way, ties among the edits or not.  The one way to go wrong is the
\* code's own: the socket brought another edit of the version on the canvas.
THEOREM SentIsAccounted == Spec => []Accounted
  <1>1. ASSUME SyncInv, NEW t \in Tabs, NEW id \in Ids,
               link[t] \in {"joining", "open"}, ~SeedUnderWay(t),
               scene[t][id] # NoEdit, versions[t][id] = scene[t][id].ver
        PROVE  LET e == scene[t][id] IN
                 \/ Covers(buffer[id], e) \/ Covers(table[id], e)
                 \/ \E i \in DOMAIN up[t] : Covers(up[t][i].els[id], e)
                 \/ <<id, e>> \in excused
                 \/ Mistaken(t, id)
    <2>1. versions[t][id] = VersionOf(scene[t][id])
      BY <1>1 DEF VersionOf
    <2>2. Known(t, id)
      BY <1>1, <2>1 DEF SyncInv, TabInv, BeliefsAreTrue, Believes
    <2>3. QED
      BY <1>1, <2>2 DEF Known, Stored
  <1>2. SyncInv => Accounted
    BY <1>1 DEF SyncInv, Typed, Accounted
  <1>3. QED
    BY <1>2, SyncInvariant, PTL

\* Neither an update nor a seed takes an element on a canvas back to an earlier
\* edit, however old the seed of a reconnect is.
THEOREM ScenesRise == Spec => ScenesMoveUp
  <1> DEFINE Rise == \A t \in Tabs, id \in Ids :
        (link[t] # "off" /\ scene[t][id] # NoEdit) => Covers(scene'[t][id], scene[t][id])
  <1>1. ASSUME SyncInv, Next PROVE Rise
    <2>1. \A u \in Tabs, i \in Ids : scene[u][i] # NoEdit => Covers(scene[u][i], scene[u][i])
      BY DEF Covers
    <2>2. CASE UNCHANGED scene
      BY <2>1, <2>2
    <2>3. ASSUME NEW t \in Tabs, Draw(t) PROVE Rise
      <3>1. PICK id \in Ids, e \in EditsOf[t] :
              e.ver > VersionOf(scene[t][id]) /\ scene' = [scene EXCEPT ![t][id] = e]
        BY <2>3 DEF Draw
      <3>2. e \in Edits /\ e # NoEdit
        BY SyncAssumption, SentinelsAssumption
      <3>3. \A u \in Tabs, i \in Ids : scene'[u][i] = scene[u][i] \/ (u = t /\ i = id /\ scene'[u][i] = e)
        BY <1>1, <3>1 DEF SyncInv, Typed, TypeOK, PageMap
      <3>4. scene[t][id] # NoEdit => Covers(e, scene[t][id])
        BY <3>1, <3>2 DEF Covers, Beats, VersionOf
      <3>5. QED
        BY <2>1, <3>3, <3>4
    <2>4. ASSUME NEW t \in Tabs, ReceiveUpdate(t) \/ ReceiveSnapshot(t) PROVE Rise
      <3>1. down[t] # <<>> /\ ApplyRemote(t, Head(down[t]).els)
        BY <2>4 DEF ReceiveUpdate, ReceiveSnapshot
      <3>2. down[t] \in Seq(Message) /\ Typed /\ SceneAbove(t)
        BY <1>1 DEF SyncInv, Typed, TabInv
      <3>3. Head(down[t]) \in Message
        BY <3>1, <3>2, TailParts
      <3>4. PICK remote \in PageMap : ApplyRemote(t, remote)
        BY <3>1, <3>3 DEF Message
      <3>5. /\ \A u \in Tabs \ {t} : scene'[u] = scene[u]
            /\ \A id \in Ids : scene[t][id] # NoEdit => Covers(scene'[t][id], scene[t][id])
        BY <3>2, <3>4, Received
      <3>6. QED
        BY <2>1, <3>5
    <2>5. UNCHANGED scene \/ \E t \in Tabs : Draw(t) \/ ReceiveUpdate(t) \/ ReceiveSnapshot(t)
      BY <1>1 DEF Next, Persist, FlushUpdate, Leave, Die, NoticeClose, Drop, Accept, Register, Relay,
                  replicaVars
    <2>6. QED
      BY <2>2, <2>3, <2>4, <2>5
  <1>2. SyncInv /\ [Next]_vars => [Rise]_vars
    BY <1>1
  <1>3. QED
    BY <1>2, SyncInvariant, PTL DEF Spec, ScenesMoveUp

\* The throttle that an arriving edit starts finds nothing to send of it.
THEOREM NothingIsEchoed == Spec => NoEcho
  <1> DEFINE Silent == \A t \in Tabs :
        (FlushUpdate(t) /\ SocketOpen(t)) =>
          \A id \in Ids :
            LET sent == Changed(versions[t], scene[t])[id]
            IN sent # NoEdit => sent # heard[t][id]
  <1>1. ASSUME SyncInv PROVE Silent
    <2> SUFFICES ASSUME NEW t \in Tabs, NEW id \in Ids, Changed(versions[t], scene[t])[id] # NoEdit
                 PROVE  Changed(versions[t], scene[t])[id] # heard[t][id]
      OBVIOUS
    <2>1. Changed(versions[t], scene[t])[id] = scene[t][id] /\ VersionOf(scene[t][id]) # versions[t][id]
      BY DEF Changed
    <2>2. HeardIsNoted(t)
      BY <1>1 DEF SyncInv, TabInv
    <2>3. QED
      BY <2>1, <2>2 DEF HeardIsNoted
  <1>2. SyncInv /\ [Next]_vars => [Silent]_vars
    BY <1>1
  <1>3. QED
    BY <1>2, SyncInvariant, PTL DEF Spec, NoEcho

-----------------------------------------------------------------------------
(* FormulaEditor: types *)

OpenEditor ==
  [open : {TRUE}, el : 0..MaxFormulas, isNew : BOOLEAN, source : {None, OldText},
   opening : 0..MaxGestures]

\* A call of applyFormula comes from an open editor, and an editor that is not
\* for a new formula is for one that is on the board.
EditorTypes ==
  /\ EditorTypeOK
  /\ \A c \in calls : c.ed.open
  /\ editor.open => editor.isNew \/ editor.el # None

LEMMA EditorsUnion ==
  /\ \A ed \in Editors : ed.open \in BOOLEAN /\ (ed.open => ed \in OpenEditor)
  /\ \A ed \in OpenEditor : ed.open /\ ed \in Editors
  /\ Closed \in Editors /\ ~Closed.open
  <1>1. Editors = {Closed} \cup OpenEditor
    BY DEF Editors, OpenEditor
  <1>2. \A ed \in OpenEditor : ed.open = TRUE
    BY DEF OpenEditor
  <1>3. Closed.open = FALSE
    BY DEF Closed
  <1>4. QED
    BY <1>1, <1>2, <1>3

\* One formula is replaced by another, or none if it is not there.
LEMMA FormulaExcept ==
  ASSUME NEW s \in Seq(Formula), NEW i, NEW f, i \in DOMAIN s => f \in Formula
  PROVE  /\ [s EXCEPT ![i] = f] \in Seq(Formula) /\ Len([s EXCEPT ![i] = f]) = Len(s)
         /\ DOMAIN [s EXCEPT ![i] = f] = DOMAIN s
         /\ \A k \in DOMAIN s : [s EXCEPT ![i] = f][k] = IF k = i THEN f ELSE s[k]
  <1> DEFINE t == [s EXCEPT ![i] = f]
  <1>1. DOMAIN t = DOMAIN s /\ \A k \in DOMAIN s : t[k] = IF k = i THEN f ELSE s[k]
    OBVIOUS
  <1>2. Len(s) \in Nat /\ DOMAIN s = 1..Len(s) /\ \A k \in 1..Len(s) : s[k] \in Formula
    OBVIOUS
  <1>3. t = [k \in 1..Len(s) |-> t[k]]
    BY <1>2
  <1>4. \A k \in 1..Len(s) : t[k] \in Formula
    BY <1>1, <1>2
  <1> HIDE DEF t
  <1>5. t \in Seq(Formula) /\ Len(t) = Len(s)
    BY <1>2, <1>3, <1>4
  <1>6. QED
    BY <1>1, <1>5 DEF t

LEMMA OpenedType ==
  ASSUME NEW el \in 0..MaxFormulas, NEW source \in {None, OldText}, NEW opening \in 0..MaxGestures
  PROVE  /\ Opened(el, source, opening) \in OpenEditor
         /\ Opened(el, source, opening).el = el /\ Opened(el, source, opening).opening = opening
         /\ Opened(el, source, opening).isNew = (el = None)
  <1>1. (el = None) \in BOOLEAN
    OBVIOUS
  <1>2. QED
    BY <1>1 DEF Opened, OpenEditor

LEMMA GestureType ==
  ASSUME gestures \in 0..MaxGestures, Gesture
  PROVE  gestures' \in 0..MaxGestures /\ gestures' = gestures + 1 /\ gestures' > gestures
  BY EditorAssumption DEF Gesture

LEMMA StartType ==
  ASSUME EditorTypes, NEW commit \in BOOLEAN, NEW latex \in Latex, Start(commit, latex),
         editor.open, session' \in {session, session + 1}, gestures' \in 0..MaxGestures
  PROVE  /\ session' \in Nat /\ calls' \subseteq Call
         /\ \A c \in calls' : c.session <= session' /\ c.ed.open
         /\ \E c0 : calls' = calls \cup {c0} /\ c0.session = session' /\ c0.ed = editor
  <1> DEFINE c0 == [session |-> session', ed |-> editor, commit |-> commit, latex |-> latex, at |-> gestures']
  <1>1. session \in Nat /\ editor \in Editors /\ calls \subseteq Call
        /\ \A c \in calls : c.session <= session /\ c.session \in Nat /\ c.ed.open
    BY DEF EditorTypes, EditorTypeOK, Call
  <1>2. session' \in Nat
    BY <1>1
  <1>3. c0 \in Call /\ c0.session = session' /\ c0.ed = editor
    BY <1>1, <1>2 DEF Call
  <1>4. calls' = calls \cup {c0}
    BY DEF Start
  <1> HIDE DEF c0
  <1>5. \A c \in calls : c.session <= session'
    BY <1>1, <1>2
  <1>6. session' <= session'
    BY <1>2
  <1>7. QED
    BY <1>1, <1>2, <1>3, <1>4, <1>5, <1>6

LEMMA ShowType ==
  ASSUME EditorTypes, NEW ed \in OpenEditor, Show(ed)
  PROVE  /\ session' \in Nat /\ session' = session + 1 /\ editor' = ed
         /\ typing' \in BOOLEAN /\ UNCHANGED <<calls, cancelled, blind>>
         /\ \A c \in calls' : c.session <= session' /\ c.session # session'
  <1>1. session \in Nat /\ \A c \in calls : c.session <= session /\ c.session \in Nat
    BY DEF EditorTypes, EditorTypeOK, Call
  <1>2. typing \in BOOLEAN
    BY DEF EditorTypes, EditorTypeOK
  <1>3. session' = session + 1 /\ editor' = ed /\ UNCHANGED <<calls, cancelled, blind>>
        /\ typing' \in {typing, FALSE}
    BY DEF Show
  <1>4. ASSUME NEW c \in calls'
        PROVE  c.session <= session' /\ c.session # session'
    <2>1. c \in calls
      BY <1>3
    <2>2. c.session <= session /\ c.session \in Nat /\ session \in Nat /\ session' = session + 1
      BY <1>1, <1>3, <2>1
    <2>3. QED
      BY <2>2
  <1>5. session' \in Nat
    BY <1>1, <1>3
  <1>6. typing' \in BOOLEAN
    BY <1>2, <1>3
  <1>7. QED
    BY <1>3, <1>4, <1>5, <1>6

LEMMA FinishedType ==
  ASSUME EditorTypes, NEW c \in calls, NEW ed \in Editors, Finished(c, ed), ed.open = editor.open
  PROVE  /\ calls' \subseteq Call /\ calls' = calls \ {c}
         /\ texts' \subseteq {OldText, NewText}
         /\ editor' = (IF c.commit THEN Closed ELSE ed) /\ editor' \in Editors
         /\ typing' \in BOOLEAN /\ (editor'.open \/ ~typing')
         /\ UNCHANGED <<converting, session, gestures, cancelled, blind>>
  <1>1. /\ calls \subseteq Call /\ texts \subseteq {OldText, NewText} /\ typing \in BOOLEAN
        /\ editor.open \/ ~typing
    BY DEF EditorTypes, EditorTypeOK
  <1>2. (typing /\ ~c.commit) \in BOOLEAN
    OBVIOUS
  <1>3. QED
    BY <1>1, <1>2, EditorsUnion DEF Finished

LEMMA EditorTypesStep ==
  ASSUME EditorTypes, EditorNext
  PROVE  EditorTypes'
  <1>0. /\ formula \in Seq(Formula) /\ Len(formula) <= MaxFormulas
        /\ texts \subseteq {OldText, NewText} /\ converting \subseteq 0..MaxGestures
        /\ session \in Nat /\ gestures \in 0..MaxGestures
        /\ editor \in Editors /\ typing \in BOOLEAN /\ (editor.open \/ ~typing)
        /\ calls \subseteq Call /\ (\A c \in calls : c.session <= session)
        /\ cancelled \subseteq 0..MaxGestures /\ blind \subseteq 0..MaxGestures
        /\ (\A c \in calls : c.ed.open)
        /\ (editor.open => editor.isNew \/ editor.el # None)
    BY DEF EditorTypes, EditorTypeOK
  <1>n. MaxFormulas \in Nat /\ 0 \in 0..MaxFormulas /\ None \in 0..MaxFormulas
    BY EditorAssumption DEF None
  <1>f. ASSUME NEW i \in DOMAIN formula
        PROVE  i \in 1..MaxFormulas /\ i \in 0..MaxFormulas /\ formula[i] \in Formula
    BY <1>0, <1>n
  <1>1. CASE OpenNewFormula
    <2>1. Gesture /\ Show(Opened(None, None, gestures')) /\ UNCHANGED <<formula, texts, converting>>
      BY <1>1 DEF OpenNewFormula
    <2>2. gestures' \in 0..MaxGestures
      BY <1>0, <2>1, GestureType
    <2>3. /\ Opened(None, None, gestures') \in OpenEditor
          /\ Opened(None, None, gestures').isNew
      BY <1>n, <2>2, OpenedType
    <2>4. QED
      BY <1>0, <2>1, <2>2, <2>3, ShowType, EditorsUnion DEF EditorTypes, EditorTypeOK
  <1>2. ASSUME NEW i \in DOMAIN formula, OpenFormula(i)
        PROVE  EditorTypes'
    <2>1. Gesture /\ Show(Opened(i, None, gestures')) /\ UNCHANGED <<texts, converting>>
          /\ formula' = [formula EXCEPT ![i].shows = "old"]
      BY <1>2 DEF OpenFormula
    <2>2. gestures' \in 0..MaxGestures
      BY <1>0, <2>1, GestureType
    <2>3. /\ Opened(i, None, gestures') \in OpenEditor
          /\ Opened(i, None, gestures').el # None
      BY <1>f, <2>2, OpenedType DEF None
    <2>4. formula' \in Seq(Formula) /\ Len(formula') = Len(formula)
      <3>1. formula' = [formula EXCEPT ![i] = [formula[i] EXCEPT !.shows = "old"]]
        BY <2>1
      <3>2. [formula[i] EXCEPT !.shows = "old"] \in Formula
        BY <1>f DEF Formula, Latex
      <3>3. QED
        BY <1>0, <3>1, <3>2, FormulaExcept
    <2>5. QED
      BY <1>0, <2>1, <2>2, <2>3, <2>4, ShowType, EditorsUnion DEF EditorTypes, EditorTypeOK
  <1>3. CASE ConvertTextToFormula
    <2>1. gestures' \in 0..MaxGestures
      BY <1>0, <1>3, GestureType DEF ConvertTextToFormula
    <2>2. QED
      BY <1>0, <1>3, <2>1 DEF ConvertTextToFormula, EditorTypes, EditorTypeOK
  <1>4. ASSUME NEW g \in converting, ConversionOpens(g)
        PROVE  EditorTypes'
    <2>1. Show(Opened(None, OldText, g)) /\ UNCHANGED <<formula, gestures, texts>>
          /\ converting' = converting \ {g}
      BY <1>4 DEF ConversionOpens, TextWhileEditing
    <2>2. /\ Opened(None, OldText, g) \in OpenEditor
          /\ Opened(None, OldText, g).isNew
      BY <1>0, <1>n, OpenedType
    <2>3. QED
      BY <1>0, <2>1, <2>2, ShowType, EditorsUnion DEF EditorTypes, EditorTypeOK
  <1>5. ASSUME NEW i \in DOMAIN formula, ConvertFormulaToText(i) \/ Delete(i)
        PROVE  EditorTypes'
    <2>1. formula' = [formula EXCEPT ![i].live = FALSE] /\ texts' \in {texts, texts \cup {NewText}}
          /\ UNCHANGED <<converting, session, editor, typing, calls, cancelled, blind>> /\ Gesture
      BY <1>5 DEF ConvertFormulaToText, Delete
    <2>2. formula' \in Seq(Formula) /\ Len(formula') = Len(formula)
      <3>1. formula' = [formula EXCEPT ![i] = [formula[i] EXCEPT !.live = FALSE]]
        BY <2>1
      <3>2. [formula[i] EXCEPT !.live = FALSE] \in Formula
        BY <1>f DEF Formula
      <3>3. QED
        BY <1>0, <3>1, <3>2, FormulaExcept
    <2>3. gestures' \in 0..MaxGestures
      BY <1>0, <2>1, GestureType
    <2>4. texts' \subseteq {OldText, NewText}
      BY <1>0, <2>1
    <2>5. QED
      BY <1>0, <2>1, <2>2, <2>3, <2>4 DEF EditorTypes, EditorTypeOK
  <1>6. CASE Type
    <2>1. gestures' \in 0..MaxGestures
      BY <1>0, <1>6, GestureType DEF Type
    <2>2. QED
      BY <1>0, <1>6, <2>1 DEF Type, EditorTypes, EditorTypeOK
  <1>7. CASE Draft
    <2>1. Start(FALSE, "typed") /\ editor.open /\ typing' = FALSE
          /\ UNCHANGED <<formula, texts, converting, session, editor, gestures, cancelled>>
      BY <1>0, <1>7 DEF Draft
    <2>2. calls' \subseteq Call /\ \A c \in calls' : c.session <= session' /\ c.ed.open
      BY <1>0, <2>1, StartType DEF Latex
    <2>3. blind' \subseteq 0..MaxGestures
      <3>1. editor.opening \in 0..MaxGestures
        BY <1>0, <2>1, EditorsUnion DEF OpenEditor
      <3>2. blind' \subseteq blind \cup {editor.opening}
        BY <1>7 DEF Draft
      <3>3. QED
        BY <1>0, <3>1, <3>2
    <2>4. QED
      BY <1>0, <2>1, <2>2, <2>3 DEF EditorTypes, EditorTypeOK
  <1>8. CASE Commit
    <2>1. Start(TRUE, "typed") /\ editor.open /\ session' = session + 1 /\ Gesture
          /\ UNCHANGED <<formula, texts, converting, editor, typing, cancelled, blind>>
      BY <1>8 DEF Commit, NextSession
    <2>2. gestures' \in 0..MaxGestures
      BY <1>0, <2>1, GestureType
    <2>3. session' \in Nat /\ calls' \subseteq Call /\ \A c \in calls' : c.session <= session' /\ c.ed.open
      BY <2>1, <2>2, StartType DEF Latex
    <2>4. QED
      BY <1>0, <2>1, <2>2, <2>3 DEF EditorTypes, EditorTypeOK
  <1>9. CASE Cancel
    <2>1. editor.open /\ session' = session + 1 /\ Gesture /\ editor' = Closed /\ typing' = FALSE
          /\ cancelled' = cancelled \cup {editor.opening} /\ UNCHANGED <<texts, converting, blind>>
      BY <1>9 DEF Cancel, NextSession
    <2>2. gestures' \in 0..MaxGestures
      BY <1>0, <2>1, GestureType
    <2>3. editor.opening \in 0..MaxGestures
      BY <1>0, <2>1, EditorsUnion DEF OpenEditor
    <2>4. /\ session' \in Nat /\ calls' \subseteq Call
          /\ \A c \in calls' : c.session <= session' /\ c.ed.open
          /\ formula' \in Seq(Formula) /\ Len(formula') = Len(formula)
      <3>1. CASE editor.isNew
        <4>1. UNCHANGED calls
          BY <1>9, <3>1 DEF Cancel
        <4>2. session' \in Nat /\ calls' \subseteq Call /\ \A c \in calls' : c.session <= session' /\ c.ed.open
          <5>1. \A c \in calls : c.session \in Nat
            BY <1>0 DEF Call
          <5>2. QED
            BY <1>0, <2>1, <4>1, <5>1
        <4>3. formula' = [i \in DOMAIN formula |->
                            [formula[i] EXCEPT !.live = formula[i].live /\ i # editor.el]]
          BY <1>9, <3>1 DEF Cancel
        <4>4. ASSUME NEW i \in DOMAIN formula
              PROVE  [formula[i] EXCEPT !.live = formula[i].live /\ i # editor.el] \in Formula
          <5>1. (formula[i].live /\ i # editor.el) \in BOOLEAN
            OBVIOUS
          <5>2. QED
            BY <1>f, <5>1 DEF Formula
        <4>5. DOMAIN formula = 1..Len(formula) /\ Len(formula) \in Nat
          BY <1>0
        <4>6. formula' \in Seq(Formula) /\ Len(formula') = Len(formula)
          BY <4>3, <4>4, <4>5
        <4>7. QED
          BY <4>2, <4>6
      <3>2. CASE ~editor.isNew
        <4>1. Start(FALSE, "old") /\ UNCHANGED formula
          BY <1>9, <3>2 DEF Cancel
        <4>2. QED
          BY <1>0, <2>1, <2>2, <4>1, StartType DEF Latex
      <3>3. QED
        BY <3>1, <3>2
    <2>5. QED
      BY <1>0, <2>1, <2>2, <2>3, <2>4, EditorsUnion DEF EditorTypes, EditorTypeOK
  <1>10. CASE Unmount
    <2>1. gestures' \in 0..MaxGestures
      BY <1>0, <1>10, GestureType DEF Unmount
    <2>2. QED
      BY <1>0, <1>10, <2>1, EditorsUnion DEF Unmount, EditorTypes, EditorTypeOK
  <1>11. ASSUME NEW c \in calls, GiveUp(c)
         PROVE  EditorTypes'
    <2>1. calls' = calls \ {c}
          /\ UNCHANGED <<formula, texts, converting, session, editor, typing, gestures, cancelled, blind>>
      BY <1>11 DEF GiveUp
    <2>2. QED
      BY <1>0, <2>1 DEF EditorTypes, EditorTypeOK
  <1>12. ASSUME NEW c \in calls, Redraw(c)
         PROVE  EditorTypes'
    <2>1. Finished(c, editor) /\ formula' = [formula EXCEPT ![c.ed.el].shows = c.latex] /\ c.latex \in Latex
      BY <1>0, <1>12 DEF Redraw, Call
    <2>2. formula' \in Seq(Formula) /\ Len(formula') = Len(formula)
      <3> DEFINE f == [formula[c.ed.el] EXCEPT !.shows = c.latex]
      <3>1. formula' = [formula EXCEPT ![c.ed.el] = f]
        BY <2>1
      <3>2. c.ed.el \in DOMAIN formula => f \in Formula
        BY <1>f, <2>1 DEF Formula
      <3> HIDE DEF f
      <3>3. QED
        BY <1>0, <3>1, <3>2, FormulaExcept
    <2>3. /\ calls' \subseteq Call /\ calls' = calls \ {c}
          /\ texts' \subseteq {OldText, NewText}
          /\ editor' = (IF c.commit THEN Closed ELSE editor) /\ editor' \in Editors
          /\ typing' \in BOOLEAN /\ (editor'.open \/ ~typing')
          /\ UNCHANGED <<converting, session, gestures, cancelled, blind>>
      BY <1>0, <2>1, FinishedType
    <2>4. editor'.open => editor'.isNew \/ editor'.el # None
      BY <1>0, <2>3, EditorsUnion
    <2>5. QED
      BY <1>0, <2>2, <2>3, <2>4 DEF EditorTypes, EditorTypeOK
  <1>13. ASSUME NEW c \in calls, Create(c)
         PROVE  EditorTypes'
    <2> DEFINE new == [live |-> TRUE, shows |-> c.latex, opening |-> c.ed.opening]
               ed == IF editor.open THEN [editor EXCEPT !.el = Len(formula')] ELSE editor
    <2>1. Finished(c, ed) /\ formula' = Append(formula, new) /\ Len(formula) < MaxFormulas
      BY <1>13 DEF Create
    <2>2. new \in Formula
      <3>1. c.latex \in Latex /\ c.ed \in OpenEditor
        BY <1>0, EditorsUnion DEF Call
      <3>2. QED
        BY <3>1 DEF OpenEditor, Formula
    <2> HIDE DEF new
    <2>3. formula' \in Seq(Formula) /\ Len(formula') = Len(formula) + 1
      BY <1>0, <2>1, <2>2
    <2>4. Len(formula') \in 1..MaxFormulas
      <3>1. Len(formula) \in Nat
        BY <1>0
      <3>2. QED
        BY <1>n, <2>1, <2>3, <3>1
    <2>5. ed \in Editors /\ ed.open = editor.open /\ (ed.open => ed.el = Len(formula'))
      <3>1. CASE editor.open
        <4>1. editor \in OpenEditor
          BY <1>0, <3>1, EditorsUnion
        <4>2. ed \in OpenEditor /\ ed.el = Len(formula')
          <5>1. Len(formula') \in 0..MaxFormulas
            BY <1>n, <2>4
          <5>2. ed = [editor EXCEPT !.el = Len(formula')]
            BY <3>1
          <5>3. QED
            BY <4>1, <5>1, <5>2 DEF OpenEditor
        <4>3. QED
          BY <3>1, <4>1, <4>2, EditorsUnion DEF OpenEditor
      <3>2. CASE ~editor.open
        BY <1>0, <3>2, EditorsUnion
      <3>3. QED
        BY <3>1, <3>2
    <2> HIDE DEF ed
    <2>6. /\ calls' \subseteq Call /\ calls' = calls \ {c}
          /\ texts' \subseteq {OldText, NewText}
          /\ editor' = (IF c.commit THEN Closed ELSE ed) /\ editor' \in Editors
          /\ typing' \in BOOLEAN /\ (editor'.open \/ ~typing')
          /\ UNCHANGED <<converting, session, gestures, cancelled, blind>>
      BY <1>0, <2>1, <2>5, FinishedType
    <2>7. editor'.open => editor'.el # None
      BY <2>4, <2>5, <2>6, EditorsUnion DEF None
    <2>8. Len(formula') <= MaxFormulas
      BY <2>4
    <2>9. QED
      BY <1>0, <2>3, <2>6, <2>7, <2>8 DEF EditorTypes, EditorTypeOK
  <1>14. QED
    BY <1>1, <1>2, <1>3, <1>4, <1>5, <1>6, <1>7, <1>8, <1>9, <1>10, <1>11, <1>12, <1>13 DEF EditorNext

-----------------------------------------------------------------------------
(* FormulaEditor: one formula per opening, but for blind calls *)

\* The calls under way that are still wanted: they belong to the opening on the
\* screen; one without an element is alone and knows the editor as it is, or
\* its opening is blind.
OneWanted ==
  /\ \A c \in calls : Wanted(c) /\ editor.open =>
       /\ editor.opening = c.ed.opening
       /\ c.ed.el # None => editor.el # None
  /\ \A c, d \in calls :
       Wanted(c) /\ Wanted(d) /\ d.ed.el = None => c = d \/ d.ed.opening \in blind
  /\ \A c \in calls : Wanted(c) /\ c.ed.el = None => editor = c.ed \/ c.ed.opening \in blind

\* An opening has a number of its own, until and after it is used.
Numbered ==
  /\ converting \subseteq 1..gestures /\ cancelled \subseteq 1..gestures
  /\ converting \cap cancelled = {}
  /\ \A i \in DOMAIN formula : formula[i].opening \in 0..gestures /\ formula[i].opening \notin converting
  /\ editor.open => /\ editor.opening \in 1..gestures
                    /\ editor.opening \notin converting /\ editor.opening \notin cancelled

CallsNumbered == \A c \in calls : c.ed.opening \in 1..gestures /\ c.ed.opening \notin converting

\* The editor knows the formula its opening has made, unless calls were blind.
MadeOnce ==
  /\ \A i, j \in DOMAIN formula :
       formula[i].opening = formula[j].opening => i = j \/ formula[i].opening \in blind
  /\ \A i \in DOMAIN formula :
       formula[i].opening \in cancelled => ~formula[i].live \/ formula[i].opening \in blind
  /\ editor.open => \A i \in DOMAIN formula :
       formula[i].opening = editor.opening =>
         (editor.isNew /\ i = editor.el) \/ formula[i].opening \in blind

\* Every formula stays with its opening, and none comes back to life.
Kept ==
  /\ DOMAIN formula' = DOMAIN formula
  /\ \A i \in DOMAIN formula : /\ formula'[i].opening = formula[i].opening
                               /\ formula'[i].live => formula[i].live

LEMMA KeptStep ==
  ASSUME EditorTypes, EditorNext
  PROVE  Kept \/ \E c \in calls : Create(c)
  <1>0. formula \in Seq(Formula)
    BY DEF EditorTypes, EditorTypeOK
  <1>f. ASSUME NEW i \in DOMAIN formula
        PROVE  formula[i] \in Formula
    BY <1>0
  <1>1. ASSUME NEW i, NEW f, formula' = [formula EXCEPT ![i] = f],
               i \in DOMAIN formula => f \in Formula /\ f.opening = formula[i].opening
                                       /\ (f.live => formula[i].live)
        PROVE  Kept
    BY <1>0, <1>1, FormulaExcept DEF Kept
  <1>2. CASE UNCHANGED formula
    BY <1>2 DEF Kept
  <1>3. ASSUME NEW i \in DOMAIN formula, OpenFormula(i)
        PROVE  Kept
    <2>1. formula' = [formula EXCEPT ![i] = [formula[i] EXCEPT !.shows = "old"]]
      BY <1>3 DEF OpenFormula
    <2>2. /\ [formula[i] EXCEPT !.shows = "old"] \in Formula
          /\ [formula[i] EXCEPT !.shows = "old"].opening = formula[i].opening
          /\ [formula[i] EXCEPT !.shows = "old"].live = formula[i].live
      BY <1>f DEF Formula, Latex
    <2>3. QED
      BY <1>1, <2>1, <2>2
  <1>4. ASSUME NEW i \in DOMAIN formula, ConvertFormulaToText(i) \/ Delete(i)
        PROVE  Kept
    <2>1. formula' = [formula EXCEPT ![i] = [formula[i] EXCEPT !.live = FALSE]]
      BY <1>4 DEF ConvertFormulaToText, Delete
    <2>2. /\ [formula[i] EXCEPT !.live = FALSE] \in Formula
          /\ [formula[i] EXCEPT !.live = FALSE].opening = formula[i].opening
          /\ ~[formula[i] EXCEPT !.live = FALSE].live
      BY <1>f DEF Formula
    <2>3. QED
      BY <1>1, <2>1, <2>2
  <1>5. CASE Cancel /\ editor.isNew
    <2>1. formula' = [i \in DOMAIN formula |->
                        [formula[i] EXCEPT !.live = formula[i].live /\ i # editor.el]]
      BY <1>5 DEF Cancel
    <2>2. ASSUME NEW i \in DOMAIN formula
          PROVE  formula'[i].opening = formula[i].opening /\ (formula'[i].live => formula[i].live)
      BY <1>f, <2>1 DEF Formula
    <2>3. QED
      BY <2>1, <2>2 DEF Kept
  <1>6. ASSUME NEW c \in calls, Redraw(c)
        PROVE  Kept
    <2>1. /\ formula' = [formula EXCEPT ![c.ed.el] = [formula[c.ed.el] EXCEPT !.shows = c.latex]]
          /\ c.latex \in Latex
      BY <1>6 DEF Redraw, EditorTypes, EditorTypeOK, Call
    <2>2. ASSUME c.ed.el \in DOMAIN formula
          PROVE  /\ [formula[c.ed.el] EXCEPT !.shows = c.latex] \in Formula
                 /\ [formula[c.ed.el] EXCEPT !.shows = c.latex].opening = formula[c.ed.el].opening
                 /\ [formula[c.ed.el] EXCEPT !.shows = c.latex].live = formula[c.ed.el].live
      BY <1>f, <2>1, <2>2 DEF Formula
    <2>3. QED
      BY <1>1, <2>1, <2>2
  <1>7. \/ UNCHANGED formula
        \/ \E i \in DOMAIN formula : OpenFormula(i) \/ ConvertFormulaToText(i) \/ Delete(i)
        \/ Cancel /\ editor.isNew
        \/ \E c \in calls : Redraw(c) \/ Create(c)
    <2>1. CASE OpenNewFormula \/ ConvertTextToFormula \/ Type \/ Draft \/ Commit \/ Unmount
      BY <2>1 DEF OpenNewFormula, ConvertTextToFormula, Type, Draft, Commit, Unmount
    <2>2. CASE Cancel
      BY <2>2 DEF Cancel
    <2>3. CASE \E g \in converting : ConversionOpens(g)
      BY <2>3 DEF ConversionOpens
    <2>4. CASE \E c \in calls : GiveUp(c)
      BY <2>4 DEF GiveUp
    <2>5. QED
      BY <2>1, <2>2, <2>3, <2>4 DEF EditorNext
  <1>8. QED
    BY <1>2, <1>3, <1>4, <1>5, <1>6, <1>7

\* What each step does to the calls, the session and the editor.
Untouched == UNCHANGED <<calls, session, editor>>
Forgotten == calls' = {}
Reopened == calls' = calls /\ session' = session + 1
Started(c0) ==
  /\ calls' = calls \cup {c0} /\ c0.session = session' /\ c0.ed = editor /\ editor.open
  /\ \/ session' = session + 1 /\ editor' = editor
     \/ session' = session + 1 /\ ~editor.isNew /\ ~editor'.open
     \/ /\ session' = session /\ editor' = editor
        /\ (editor.el = None /\ \E c \in calls : c.ed.el = None /\ Wanted(c)) => editor.opening \in blind'
Ended(c) ==
  /\ c \in calls /\ calls' = calls \ {c} /\ session' = session
  /\ \/ editor' = editor
     \/ Wanted(c) /\ ~editor'.open
     \/ Wanted(c) /\ c.ed.el = None /\ editor'.el # None /\ editor'.opening = editor.opening /\ editor.open

LEMMA WantedCases ==
  ASSUME EditorTypes, EditorNext
  PROVE  /\ Untouched \/ Forgotten \/ Reopened \/ (\E c0 : Started(c0)) \/ \E c : Ended(c)
         /\ blind \subseteq blind'
  <1>0. gestures \in 0..MaxGestures /\ (editor.open \/ ~typing) /\ formula \in Seq(Formula)
        /\ editor \in Editors
    BY DEF EditorTypes, EditorTypeOK
  <1>1. CASE OpenNewFormula \/ (\E i \in DOMAIN formula : OpenFormula(i))
             \/ \E g \in converting : ConversionOpens(g)
    BY <1>1 DEF OpenNewFormula, OpenFormula, ConversionOpens, Show, Reopened
  <1>2. CASE ConvertTextToFormula \/ Type
             \/ \E i \in DOMAIN formula : ConvertFormulaToText(i) \/ Delete(i)
    BY <1>2 DEF ConvertTextToFormula, Type, ConvertFormulaToText, Delete, Untouched
  <1>3. CASE Draft
    <2>1. Start(FALSE, "typed") /\ editor.open /\ UNCHANGED <<session, editor, gestures>>
      BY <1>0, <1>3 DEF Draft
    <2>2. \E c0 : calls' = calls \cup {c0} /\ c0.session = session' /\ c0.ed = editor
      BY <1>0, <2>1, StartType DEF Latex
    <2>3. blind' = IF editor.el = None /\ \E c \in calls : c.ed.el = None /\ c.session = session
                   THEN blind \cup {editor.opening} ELSE blind
      BY <1>3 DEF Draft
    <2>4. QED
      BY <2>1, <2>2, <2>3 DEF Started, Wanted
  <1>4. CASE Commit
    <2>1. gestures' \in 0..MaxGestures
      BY <1>0, <1>4, GestureType DEF Commit
    <2>2. Start(TRUE, "typed") /\ editor.open /\ session' = session + 1 /\ UNCHANGED <<editor, blind>>
      BY <1>4 DEF Commit, NextSession
    <2>3. \E c0 : calls' = calls \cup {c0} /\ c0.session = session' /\ c0.ed = editor
      BY <2>1, <2>2, StartType DEF Latex
    <2>4. QED
      BY <2>2, <2>3 DEF Started
  <1>5. CASE Cancel
    <2>1. gestures' \in 0..MaxGestures
      BY <1>0, <1>5, GestureType DEF Cancel
    <2>2. editor.open /\ session' = session + 1 /\ ~editor'.open /\ UNCHANGED blind
      BY <1>5, EditorsUnion DEF Cancel, NextSession
    <2>3. CASE editor.isNew
      BY <1>5, <2>2, <2>3 DEF Cancel, Reopened
    <2>4. CASE ~editor.isNew
      <3>1. Start(FALSE, "old")
        BY <1>5, <2>4 DEF Cancel
      <3>2. \E c0 : calls' = calls \cup {c0} /\ c0.session = session' /\ c0.ed = editor
        BY <2>1, <2>2, <3>1, StartType DEF Latex
      <3>3. QED
        BY <2>2, <2>4, <3>2 DEF Started
    <2>5. QED
      BY <2>3, <2>4
  <1>6. CASE Unmount
    BY <1>6 DEF Unmount, Forgotten
  <1>7. CASE \E c \in calls : GiveUp(c) \/ Redraw(c)
    BY <1>7, EditorsUnion DEF GiveUp, Redraw, Finished, Ended
  <1>8. ASSUME NEW c \in calls, Create(c)
        PROVE  Ended(c) /\ UNCHANGED blind
    <2>1. /\ calls' = calls \ {c} /\ UNCHANGED <<session, blind>> /\ Wanted(c) /\ c.ed.el = None
          /\ editor' = IF c.commit THEN Closed
                       ELSE IF editor.open THEN [editor EXCEPT !.el = Len(formula')] ELSE editor
          /\ \E f : formula' = Append(formula, f)
      BY <1>8 DEF Create, Finished
    <2>2. CASE c.commit \/ ~editor.open
      BY <2>1, <2>2, EditorsUnion DEF Ended
    <2>3. CASE ~c.commit /\ editor.open
      <3>1. editor \in OpenEditor /\ editor' = [editor EXCEPT !.el = Len(formula')]
        BY <1>0, <2>1, <2>3, EditorsUnion
      <3>2. Len(formula') # None
        BY <1>0, <2>1 DEF None
      <3>3. editor'.el # None /\ editor'.opening = editor.opening
        BY <3>1, <3>2 DEF OpenEditor
      <3>4. QED
        BY <2>1, <2>3, <3>3 DEF Ended
    <2>4. QED
      BY <2>2, <2>3
  <1>9. QED
    BY <1>1, <1>2, <1>3, <1>4, <1>5, <1>6, <1>7, <1>8
       DEF EditorNext, OpenNewFormula, OpenFormula, ConversionOpens, Show, ConvertTextToFormula, Type,
           ConvertFormulaToText, Delete, Draft, Commit, Cancel, Unmount, GiveUp, Redraw, Finished

LEMMA OneWantedStep ==
  ASSUME EditorTypes, OneWanted, EditorNext
  PROVE  OneWanted'
  <1>0. /\ session \in Nat /\ \A c \in calls : c.session \in Nat /\ c.session <= session
        /\ editor.open => editor.isNew \/ editor.el # None
    BY DEF EditorTypes, EditorTypeOK, Call
  <1>b. blind \subseteq blind'
    BY WantedCases
  <1>n. ASSUME session' = session + 1
        PROVE  \A c \in calls : ~ Wanted(c)'
    BY <1>0, <1>n DEF Wanted
  <1>1. CASE Untouched
    BY <1>1, <1>b DEF Untouched, OneWanted, Wanted
  <1>2. CASE Forgotten
    BY <1>2 DEF Forgotten, OneWanted
  <1>3. CASE Reopened
    BY <1>3, <1>n DEF Reopened, OneWanted
  <1>4. ASSUME NEW c0, Started(c0)
        PROVE  OneWanted'
    <2>1. CASE session' = session + 1
      <3>1. \A c \in calls' : Wanted(c)' => c = c0
        BY <1>4, <1>n, <2>1 DEF Started
      <3>2. \/ editor' = editor
            \/ ~editor'.open /\ editor.el # None
        BY <1>0, <1>4, <2>1 DEF Started
      <3>3. c0.ed = editor
        BY <1>4 DEF Started
      <3>4. QED
        BY <3>1, <3>2, <3>3 DEF OneWanted
    <2>2. CASE session' = session /\ editor' = editor
      <3>1. /\ calls' = calls \cup {c0} /\ c0.ed = editor /\ editor.open
            /\ \A c \in calls : Wanted(c)' <=> Wanted(c)
            /\ (editor.el = None /\ \E c \in calls : c.ed.el = None /\ Wanted(c))
                 => editor.opening \in blind'
        BY <1>0, <1>4, <2>2 DEF Started, Wanted
      <3>2. \A c \in calls' : Wanted(c)' /\ editor'.open =>
              editor'.opening = c.ed.opening /\ (c.ed.el # None => editor'.el # None)
        BY <2>2, <3>1 DEF OneWanted
      <3>3. ASSUME NEW c \in calls', NEW d \in calls', Wanted(c)', Wanted(d)', d.ed.el = None
            PROVE  c = d \/ d.ed.opening \in blind'
        <4>1. CASE c \in calls /\ d \in calls
          BY <1>b, <3>1, <3>3, <4>1 DEF OneWanted
        <4>2. CASE c = c0 /\ d \in calls
          <5>1. CASE editor.el = None
            <6>1. editor.opening \in blind' /\ editor.opening = d.ed.opening
              BY <3>1, <3>3, <4>2, <5>1 DEF OneWanted
            <6>2. QED
              BY <6>1
          <5>2. CASE editor.el # None
            BY <1>b, <3>1, <3>3, <4>2, <5>2 DEF OneWanted
          <5>3. QED
            BY <5>1, <5>2
        <4>3. CASE c \in calls /\ d = c0
          <5>1. editor.el = None /\ c.ed.el = None /\ Wanted(c)
            BY <3>1, <3>3, <4>3 DEF OneWanted
          <5>2. QED
            BY <3>1, <4>3, <5>1
        <4>4. QED
          BY <3>1, <4>1, <4>2, <4>3
      <3>4. \A c \in calls' : Wanted(c)' /\ c.ed.el = None => editor' = c.ed \/ c.ed.opening \in blind'
        BY <1>b, <2>2, <3>1 DEF OneWanted
      <3>5. QED
        BY <3>2, <3>3, <3>4 DEF OneWanted
    <2>3. QED
      BY <1>4, <2>1, <2>2 DEF Started
  <1>5. ASSUME NEW c, Ended(c)
        PROVE  OneWanted'
    <2>1. /\ c \in calls
          /\ \A d \in calls' : d \in calls /\ d # c /\ (Wanted(d)' <=> Wanted(d))
      BY <1>5 DEF Ended, Wanted
    <2>2. CASE editor' = editor
      BY <1>b, <2>1, <2>2 DEF OneWanted
    <2>3. CASE Wanted(c) /\ ~editor'.open
      BY <1>b, <2>1, <2>3 DEF OneWanted
    <2>4. CASE Wanted(c) /\ c.ed.el = None /\ editor'.el # None /\ editor'.opening = editor.opening /\ editor.open
      BY <1>b, <2>1, <2>4 DEF OneWanted
    <2>5. QED
      BY <1>5, <2>2, <2>3, <2>4 DEF Ended
  <1>6. QED
    BY <1>1, <1>2, <1>3, <1>4, <1>5, WantedCases

\* A call has the number of the opening it was sent from.
LEMMA CallsNumberedStep ==
  ASSUME EditorTypes, Numbered, CallsNumbered, EditorNext,
         gestures' \in {gestures, gestures + 1}, converting' \subseteq converting \cup {gestures + 1}
  PROVE  CallsNumbered'
  <1>1. gestures \in Nat
    BY DEF EditorTypes, EditorTypeOK
  <1>2. 1..gestures \subseteq 1..gestures' /\ gestures + 1 \notin 1..gestures
    BY <1>1
  <1>3. \A c \in calls' : c \in calls \/ (c.ed.opening \in 1..gestures /\ c.ed.opening \notin converting)
    <2>1. CASE Untouched \/ Forgotten \/ Reopened \/ \E c : Ended(c)
      BY <2>1 DEF Untouched, Forgotten, Reopened, Ended
    <2>2. ASSUME NEW c0, Started(c0)
          PROVE  \A c \in calls' : c \in calls \/ (c.ed.opening \in 1..gestures /\ c.ed.opening \notin converting)
      <3>1. /\ \A c \in calls' : c \in calls \/ c = c0
            /\ c0.ed = editor /\ editor.open
        BY <2>2 DEF Started
      <3>2. c0.ed.opening \in 1..gestures /\ c0.ed.opening \notin converting
        BY <3>1 DEF Numbered
      <3>3. QED
        BY <3>1, <3>2
    <2>3. QED
      BY <2>1, <2>2, WantedCases
  <1>4. QED
    BY <1>2, <1>3 DEF CallsNumbered

\* What each step but the making of a formula does to the openings.
OpensFresh == /\ gestures' = gestures + 1 /\ editor'.open /\ editor'.opening = gestures'
              /\ UNCHANGED <<converting, cancelled>>
Converts == /\ gestures' = gestures + 1 /\ converting' = converting \cup {gestures'}
            /\ UNCHANGED <<editor, cancelled>>
OpensConverted == \E g \in converting :
  /\ converting' = converting \ {g} /\ editor'.open /\ editor'.opening = g
  /\ UNCHANGED <<gestures, cancelled>>
KeepsEditor == gestures' \in {gestures, gestures + 1} /\ UNCHANGED <<editor, converting, cancelled>>
Cancels == /\ gestures' = gestures + 1 /\ editor.open /\ ~editor'.open
           /\ cancelled' = cancelled \cup {editor.opening} /\ UNCHANGED converting
           /\ editor.isNew => \A i \in DOMAIN formula : i = editor.el => ~formula'[i].live
Closes == /\ gestures' \in {gestures, gestures + 1} /\ ~editor'.open
          /\ converting' \subseteq converting /\ UNCHANGED cancelled

LEMMA OpeningCases ==
  ASSUME EditorTypes, EditorNext
  PROVE  \/ OpensFresh \/ Converts \/ OpensConverted \/ KeepsEditor \/ Cancels \/ Closes
         \/ \E c \in calls : Create(c)
  <1>0. /\ gestures \in 0..MaxGestures /\ converting \subseteq 0..MaxGestures
        /\ formula \in Seq(Formula) /\ Len(formula) <= MaxFormulas
    BY DEF EditorTypes, EditorTypeOK
  <1>n. None \in 0..MaxFormulas
    BY EditorAssumption DEF None
  <1>g. ASSUME Gesture
        PROVE  gestures' = gestures + 1 /\ gestures' \in 0..MaxGestures
    BY <1>0, <1>g, GestureType
  <1>1. CASE OpenNewFormula
    <2>1. gestures' = gestures + 1 /\ gestures' \in 0..MaxGestures
      BY <1>g, <1>1 DEF OpenNewFormula
    <2>2. Opened(None, None, gestures').open /\ Opened(None, None, gestures').opening = gestures'
      BY <1>n, <2>1, OpenedType, EditorsUnion
    <2>3. QED
      BY <1>1, <2>1, <2>2 DEF OpenNewFormula, Show, OpensFresh
  <1>2. ASSUME NEW i \in DOMAIN formula, OpenFormula(i)
        PROVE  OpensFresh
    <2>1. gestures' = gestures + 1 /\ gestures' \in 0..MaxGestures
      BY <1>g, <1>2 DEF OpenFormula
    <2>2. i \in 0..MaxFormulas
      BY <1>0, EditorAssumption
    <2>3. Opened(i, None, gestures').open /\ Opened(i, None, gestures').opening = gestures'
      BY <2>1, <2>2, OpenedType, EditorsUnion
    <2>4. QED
      BY <1>2, <2>1, <2>3 DEF OpenFormula, Show, OpensFresh
  <1>3. CASE ConvertTextToFormula
    BY <1>g, <1>3 DEF ConvertTextToFormula, Converts
  <1>4. ASSUME NEW g \in converting, ConversionOpens(g)
        PROVE  OpensConverted
    <2>1. Opened(None, OldText, g).open /\ Opened(None, OldText, g).opening = g
      BY <1>0, <1>n, OpenedType, EditorsUnion
    <2>2. QED
      BY <1>4, <2>1 DEF ConversionOpens, Show, OpensConverted
  <1>5. CASE \/ \E i \in DOMAIN formula : ConvertFormulaToText(i) \/ Delete(i)
             \/ Type \/ Draft \/ Commit
             \/ \E c \in calls : GiveUp(c)
    BY <1>g, <1>5 DEF ConvertFormulaToText, Delete, Type, Draft, Commit, GiveUp, KeepsEditor
  <1>6. CASE Cancel
    <2>1. /\ editor.open /\ editor' = Closed /\ cancelled' = cancelled \cup {editor.opening}
          /\ UNCHANGED converting /\ gestures' = gestures + 1
      BY <1>g, <1>6 DEF Cancel
    <2>2. ASSUME editor.isNew, NEW i \in DOMAIN formula, i = editor.el
          PROVE  ~formula'[i].live
      <3>1. formula' = [k \in DOMAIN formula |->
                          [formula[k] EXCEPT !.live = formula[k].live /\ k # editor.el]]
        BY <1>6, <2>2 DEF Cancel
      <3>2. formula[i] \in Formula
        BY <1>0
      <3>3. QED
        BY <2>2, <3>1, <3>2 DEF Formula
    <2>3. QED
      BY <2>1, <2>2, EditorsUnion DEF Cancels
  <1>7. CASE Unmount
    BY <1>g, <1>7, EditorsUnion DEF Unmount, Closes
  <1>8. ASSUME NEW c \in calls, Redraw(c)
        PROVE  KeepsEditor \/ Closes
    BY <1>8, EditorsUnion DEF Redraw, Finished, KeepsEditor, Closes
  <1>9. QED
    BY <1>1, <1>2, <1>3, <1>4, <1>5, <1>6, <1>7, <1>8 DEF EditorNext

LEMMA NumberedStep ==
  ASSUME EditorTypes, Numbered, MadeOnce, EditorNext, Kept,
         OpensFresh \/ Converts \/ OpensConverted \/ KeepsEditor \/ Cancels \/ Closes
  PROVE  /\ Numbered' /\ MadeOnce'
         /\ gestures' \in {gestures, gestures + 1} /\ converting' \subseteq converting \cup {gestures + 1}
  <1>0. gestures \in Nat /\ gestures' \in Nat
    BY EditorTypesStep DEF EditorTypes, EditorTypeOK
  <1>m. /\ DOMAIN formula' = DOMAIN formula
        /\ \A i \in DOMAIN formula : /\ formula'[i].opening = formula[i].opening
                                     /\ formula'[i].live => formula[i].live
    BY DEF Kept
  <1>b. blind \subseteq blind'
    BY WantedCases
  <1>c. gestures' \in {gestures, gestures + 1} /\ converting' \subseteq converting \cup {gestures + 1}
    BY DEF OpensFresh, Converts, OpensConverted, KeepsEditor, Cancels, Closes
  <1>a. ASSUME gestures' \in {gestures, gestures + 1}
        PROVE  /\ 1..gestures \subseteq 1..gestures' /\ 0..gestures \subseteq 0..gestures'
               /\ gestures' = gestures + 1 => /\ gestures' \in 1..gestures'
                                              /\ gestures' \notin 0..gestures /\ gestures' \notin 1..gestures
    BY <1>0, <1>a
  <1>1. CASE OpensFresh
    <2>1. /\ gestures' \in 1..gestures' /\ gestures' \notin 0..gestures /\ gestures' \notin 1..gestures
          /\ 1..gestures \subseteq 1..gestures' /\ 0..gestures \subseteq 0..gestures'
      BY <1>a, <1>1 DEF OpensFresh
    <2>2. Numbered'
      BY <1>m, <1>1, <2>1 DEF Numbered, OpensFresh
    <2>3. MadeOnce'
      BY <1>b, <1>m, <1>1, <2>1 DEF Numbered, MadeOnce, OpensFresh
    <2>4. QED
      BY <1>c, <2>2, <2>3
  <1>2. CASE Converts
    <2>1. /\ gestures' \in 1..gestures' /\ gestures' \notin 0..gestures /\ gestures' \notin 1..gestures
          /\ 1..gestures \subseteq 1..gestures' /\ 0..gestures \subseteq 0..gestures'
      BY <1>a, <1>2 DEF Converts
    <2>2. Numbered'
      BY <1>m, <1>2, <2>1 DEF Numbered, Converts
    <2>3. MadeOnce'
      BY <1>b, <1>m, <1>2 DEF MadeOnce, Converts
    <2>4. QED
      BY <1>c, <2>2, <2>3
  <1>3. CASE OpensConverted
    BY <1>b, <1>c, <1>m, <1>3 DEF Numbered, MadeOnce, OpensConverted
  <1>4. CASE KeepsEditor
    <2>1. 1..gestures \subseteq 1..gestures' /\ 0..gestures \subseteq 0..gestures'
      BY <1>a, <1>4 DEF KeepsEditor
    <2>2. Numbered'
      BY <1>m, <1>4, <2>1 DEF Numbered, KeepsEditor
    <2>3. MadeOnce'
      BY <1>b, <1>m, <1>4 DEF MadeOnce, KeepsEditor
    <2>4. QED
      BY <1>c, <2>2, <2>3
  <1>5. CASE Cancels
    <2>1. 1..gestures \subseteq 1..gestures' /\ 0..gestures \subseteq 0..gestures'
      BY <1>a, <1>5 DEF Cancels
    <2>2. Numbered'
      BY <1>m, <1>5, <2>1 DEF Numbered, Cancels
    <2>3. MadeOnce'
      BY <1>b, <1>m, <1>5 DEF MadeOnce, Cancels
    <2>4. QED
      BY <1>c, <2>2, <2>3
  <1>6. CASE Closes
    <2>1. 1..gestures \subseteq 1..gestures' /\ 0..gestures \subseteq 0..gestures'
      BY <1>a, <1>6 DEF Closes
    <2>2. Numbered'
      BY <1>m, <1>6, <2>1 DEF Numbered, Closes
    <2>3. MadeOnce'
      BY <1>b, <1>m, <1>6 DEF MadeOnce, Closes
    <2>4. QED
      BY <1>c, <2>2, <2>3
  <1>7. QED
    BY <1>1, <1>2, <1>3, <1>4, <1>5, <1>6

LEMMA CreateStep ==
  ASSUME EditorTypes, OneWanted, Numbered, CallsNumbered, MadeOnce, NEW c \in calls, Create(c)
  PROVE  Numbered' /\ MadeOnce' /\ UNCHANGED <<gestures, converting>>
  <1> DEFINE new == [live |-> TRUE, shows |-> c.latex, opening |-> c.ed.opening]
             n == Len(formula) + 1
  <1>1. /\ formula' = Append(formula, new) /\ UNCHANGED <<converting, gestures, cancelled, blind>>
        /\ c.ed.el = None /\ Wanted(c) /\ c.ed.open
    BY DEF Create, Finished, EditorTypes
  <1>2. /\ editor.open => editor.opening = c.ed.opening
        /\ (editor = c.ed /\ editor.open /\ editor.isNew /\ editor.el = None) \/ c.ed.opening \in blind
    BY <1>1 DEF OneWanted, EditorTypes
  <1>3. new.opening = c.ed.opening
    OBVIOUS
  <1>4. editor \in Editors /\ formula \in Seq(Formula)
    BY DEF EditorTypes, EditorTypeOK
  <1> HIDE DEF new
  <1>5. /\ Len(formula) \in Nat /\ DOMAIN formula = 1..Len(formula)
        /\ Len(formula') = n /\ DOMAIN formula' = 1..n
        /\ formula'[n] = new /\ \A i \in 1..Len(formula) : formula'[i] = formula[i]
    BY <1>1, <1>4
  <1>6. /\ n # None /\ n \in 1..n /\ n \notin 1..Len(formula)
        /\ \A i \in 1..n : i \in 1..Len(formula) \/ i = n
        /\ \A i \in 1..Len(formula) : i # None
    BY <1>5 DEF None
  <1>7. \A i \in 1..Len(formula) : formula[i].opening = c.ed.opening => c.ed.opening \in blind
    BY <1>2, <1>5, <1>6 DEF MadeOnce
  <1>8. /\ c.ed.opening \in 0..gestures /\ c.ed.opening \notin converting
        /\ c.ed.opening \in cancelled => c.ed.opening \in blind
    <2>1. gestures \in Nat
      BY DEF EditorTypes, EditorTypeOK
    <2>2. QED
      BY <1>2, <2>1 DEF Numbered, CallsNumbered
  <1>9. \/ ~editor'.open
        \/ /\ editor.open /\ editor'.open /\ editor'.opening = editor.opening
           /\ editor'.isNew = editor.isNew /\ editor'.el = n
    <2>1. editor' = Closed \/ editor' = IF editor.open THEN [editor EXCEPT !.el = Len(formula')] ELSE editor
      BY DEF Create, Finished
    <2>2. CASE editor' = Closed \/ ~editor.open
      BY <2>1, <2>2, EditorsUnion
    <2>3. CASE editor.open /\ editor' = [editor EXCEPT !.el = Len(formula')]
      <3>1. editor \in OpenEditor
        BY <1>4, <2>3, EditorsUnion
      <3>2. QED
        BY <1>5, <2>3, <3>1 DEF OpenEditor
    <2>4. QED
      BY <2>1, <2>2, <2>3
  <1> HIDE DEF n
  <1>10. Numbered'
    <2>1. \A i \in DOMAIN formula' : formula'[i].opening \in 0..gestures /\ formula'[i].opening \notin converting
      BY <1>3, <1>5, <1>6, <1>8 DEF Numbered
    <2>2. QED
      BY <1>1, <1>9, <2>1 DEF Numbered
  <1>11. MadeOnce'
    <2>1. \A i, j \in DOMAIN formula' :
            formula'[i].opening = formula'[j].opening => i = j \/ formula'[i].opening \in blind
      BY <1>3, <1>5, <1>6, <1>7 DEF MadeOnce
    <2>2. \A i \in DOMAIN formula' :
            formula'[i].opening \in cancelled' => ~formula'[i].live \/ formula'[i].opening \in blind
      BY <1>1, <1>3, <1>5, <1>6, <1>8 DEF MadeOnce
    <2>3. editor'.open => \A i \in DOMAIN formula' :
            formula'[i].opening = editor'.opening =>
              (editor'.isNew /\ i = editor'.el) \/ formula'[i].opening \in blind
      <3> SUFFICES ASSUME editor'.open, NEW i \in DOMAIN formula', formula'[i].opening = editor'.opening,
                          formula'[i].opening \notin blind
                   PROVE  editor'.isNew /\ i = editor'.el
        OBVIOUS
      <3>1. formula'[i].opening = c.ed.opening
        BY <1>2, <1>9
      <3>2. i = n
        BY <1>5, <1>6, <1>7, <3>1
      <3>3. editor.isNew
        BY <1>2, <3>1
      <3>4. QED
        BY <1>9, <3>2, <3>3
    <2>4. QED
      BY <1>1, <2>1, <2>2, <2>3 DEF MadeOnce
  <1>12. QED
    BY <1>1, <1>10, <1>11

-----------------------------------------------------------------------------
(* FormulaEditor: the theorems *)

OpeningInv == OneWanted /\ Numbered /\ CallsNumbered /\ MadeOnce

LEMMA EditorTypesInit == EditorInit => EditorTypes /\ OpeningInv
  <1> SUFFICES ASSUME EditorInit PROVE EditorTypes /\ OpeningInv
    OBVIOUS
  <1> DEFINE f0 == [live |-> TRUE, shows |-> "old", opening |-> 0]
  <1>1. 0 \in 0..MaxGestures /\ 1 <= MaxFormulas
    BY EditorAssumption
  <1>2. f0 \in Formula /\ f0.opening = 0
    BY <1>1 DEF Formula, Latex
  <1>3. formula = <<f0>>
    BY DEF EditorInit
  <1> HIDE DEF f0
  <1>4. formula \in Seq(Formula) /\ Len(formula) = 1 /\ DOMAIN formula = {1} /\ formula[1] = f0
    BY <1>2, <1>3
  <1>5. /\ texts = {OldText} /\ converting = {} /\ session = 0 /\ gestures = 0 /\ editor = Closed
        /\ typing = FALSE /\ calls = {} /\ cancelled = {} /\ blind = {}
    BY DEF EditorInit
  <1>6. EditorTypes
    BY <1>1, <1>4, <1>5, EditorsUnion DEF EditorTypes, EditorTypeOK
  <1>7. OneWanted /\ Numbered /\ CallsNumbered /\ MadeOnce
    <2>1. 0 \in 0..gestures
      BY <1>5
    <2>2. QED
      BY <1>2, <1>4, <1>5, <2>1, EditorsUnion DEF OneWanted, Numbered, CallsNumbered, MadeOnce
  <1>8. QED
    BY <1>6, <1>7 DEF OpeningInv

LEMMA EditorStutter ==
  ASSUME EditorTypes, UNCHANGED editorVars
  PROVE  EditorTypes' /\ (OpeningInv => OpeningInv')
  <1>1. UNCHANGED <<formula, texts, converting, session, editor, typing, calls, gestures, cancelled, blind>>
    BY DEF editorVars
  <1>2. EditorTypes'
    BY <1>1 DEF EditorTypes, EditorTypeOK
  <1>3. OneWanted => OneWanted'
    BY <1>1 DEF OneWanted, Wanted
  <1>4. (Numbered => Numbered') /\ (CallsNumbered => CallsNumbered')
    BY <1>1 DEF Numbered, CallsNumbered
  <1>5. MadeOnce => MadeOnce'
    BY <1>1 DEF MadeOnce
  <1>6. QED
    BY <1>2, <1>3, <1>4, <1>5 DEF OpeningInv

\* Calls and the editor keep to their types, whether renders are slow or not.
THEOREM EditorTypeCorrect == EditorSpec => []EditorTypes
  <1>1. EditorTypes /\ [EditorNext]_editorVars => EditorTypes'
    BY EditorTypesStep, EditorStutter
  <1>2. QED
    BY <1>1, EditorTypesInit, PTL DEF EditorSpec

LEMMA OpeningInvStep ==
  ASSUME EditorTypes, OpeningInv, EditorNext
  PROVE  OpeningInv'
  <1>1. OneWanted'
    BY OneWantedStep DEF OpeningInv
  <1>2. /\ Numbered' /\ MadeOnce'
        /\ gestures' \in {gestures, gestures + 1} /\ converting' \subseteq converting \cup {gestures + 1}
    <2>1. CASE \E c \in calls : Create(c)
      BY <2>1, CreateStep DEF OpeningInv
    <2>2. CASE ~\E c \in calls : Create(c)
      BY <2>2, KeptStep, OpeningCases, NumberedStep DEF OpeningInv
    <2>3. QED
      BY <2>1, <2>2
  <1>3. QED
    BY <1>1, <1>2, CallsNumberedStep DEF OpeningInv

\* However long the renders take: an opening makes one formula, and leaves none
\* behind when it is cancelled, for any number of gestures and formulas, unless
\* two calls of one session set out before there was an element.
THEOREM OneOpeningOneFormula == EditorSpec => []OneFormulaPerOpening
  <1>1. EditorInit => EditorTypes /\ OpeningInv
    BY EditorTypesInit
  <1>2. (EditorTypes /\ OpeningInv) /\ [EditorNext]_editorVars => (EditorTypes /\ OpeningInv)'
    BY EditorTypesStep, OpeningInvStep, EditorStutter
  <1>3. EditorTypes /\ OpeningInv => OneFormulaPerOpening
    <2> SUFFICES ASSUME EditorTypes, OpeningInv, NEW o \in 1..MaxGestures, o \notin blind
                 PROVE  Cardinality(MadeBy(o)) <= IF o \in cancelled THEN 0 ELSE 1
      BY DEF OneFormulaPerOpening, AtMostOne, EditorTypes
    <2>1. \A i, j \in MadeBy(o) : i = j
      BY DEF MadeBy, OpeningInv, MadeOnce
    <2>2. o \in cancelled => MadeBy(o) = {}
      BY DEF MadeBy, OpeningInv, MadeOnce
    <2>3. CASE MadeBy(o) = {}
      BY <2>3, FS_EmptySet
    <2>4. CASE MadeBy(o) # {}
      <3>1. PICK i : MadeBy(o) = {i}
        BY <2>1, <2>4
      <3>2. Cardinality({i}) = 1
        BY FS_Singleton
      <3>3. QED
        BY <2>2, <2>4, <3>1, <3>2
    <2>5. QED
      BY <2>3, <2>4
  <1>4. QED
    BY <1>1, <1>2, <1>3, PTL DEF EditorSpec

\* The text under conversion goes only with the commit that replaces it, whether
\* renders are slow or not.
THEOREM TextGoesWithItsCommit == EditorSpec => TextIsReplacedNotLost
  <1>1. ASSUME EditorTypes, [EditorNext]_editorVars
        PROVE  \/ texts \subseteq texts'
               \/ \E c \in calls : c.commit /\ c.ed.source = OldText /\ (Redraw(c) \/ Create(c))
    <2>1. CASE UNCHANGED texts
      BY <2>1
    <2>2. CASE \E i \in DOMAIN formula : ConvertFormulaToText(i)
      BY <2>2 DEF ConvertFormulaToText
    <2>3. ASSUME NEW c \in calls, Redraw(c) \/ Create(c)
          PROVE  \/ texts \subseteq texts'
                 \/ c.commit /\ c.ed.source = OldText
      <3>1. texts' = IF c.commit THEN texts \ {c.ed.source} ELSE texts
        BY <2>3 DEF Redraw, Create, Finished
      <3>2. c.ed.source \in {None, OldText}
        BY <1>1, EditorsUnion DEF EditorTypes, EditorTypeOK, Call, OpenEditor
      <3>3. None \notin texts
        BY <1>1 DEF EditorTypes, EditorTypeOK, None, OldText, NewText
      <3>4. QED
        BY <3>1, <3>2, <3>3
    <2>4. UNCHANGED texts \/ (\E i \in DOMAIN formula : ConvertFormulaToText(i))
          \/ \E c \in calls : Redraw(c) \/ Create(c)
      <3>1. CASE UNCHANGED editorVars
        BY <3>1 DEF editorVars
      <3>2. CASE EditorNext
        BY <3>2 DEF EditorNext, OpenNewFormula, ConvertTextToFormula, Type, Draft, Commit, Cancel, Unmount,
             OpenFormula, Delete, ConversionOpens, TextWhileEditing, GiveUp
      <3>3. QED
        BY <1>1, <3>1, <3>2
    <2>5. QED
      BY <2>1, <2>2, <2>3, <2>4
  <1>2. EditorTypes /\ [EditorNext]_editorVars =>
          [texts \subseteq texts'
             \/ \E c \in calls : c.commit /\ c.ed.source = OldText /\ (Redraw(c) \/ Create(c))]_editorVars
    BY <1>1
  <1>3. QED
    BY <1>2, EditorTypeCorrect, PTL DEF EditorSpec, TextIsReplacedNotLost
=============================================================================
