---------------------------- MODULE LessonProofs -----------------------------
(***************************************************************************)
(* What holds around a lesson.  CalendarCache: for any number of gestures, *)
(* failures and views, what the calendar shows once everything has been    *)
(* answered is what the server has.  CallLesson: for any number of         *)
(* clicks, polls and guests' requests, the room's metadata follow the      *)
(* tutor, and the guest at the door is told.  MediaSync: for any files,    *)
(* positions and number of clicks, what a peer's frame makes the player    *)
(* say in time is never sent back.                                         *)
(***************************************************************************)
EXTENDS CalendarCache, CallLesson, MediaSync, SequenceTheorems, TLAPS

-----------------------------------------------------------------------------
(* CalendarCache: types *)

\* A list of entries, what a query holds, and a fetch on its way, whose
\* answer names no entry by a temporary id.
Entries == UNION {[S -> Value] : S \in SUBSET Ids}
Held == {NoData} \cup {Data(f) : f \in Entries}
IsFetch(q) ==
  \/ q = Idle
  \/ q.since \in Nat /\ q = Asked(q.since)
  \/ /\ q.since \in Nat /\ q = Answer(q.since, q.items)
     /\ q.items \in Entries /\ \A i \in DOMAIN q.items : ~IsTemp(i)
Snaps == UNION {[ks -> Held] : ks \in SUBSET Keys}
Mutation ==
  [n : Nat, api : {"lesson", "task"}, op : {"update", "create", "delete"}, id : Ids, val : Value,
   from : Keys, at : {"sent", "done", "failed", "lost"},
   snap : Snaps, clean : BOOLEAN]

CalendarTypes ==
  /\ ops \in Nat /\ made \in Nat /\ made <= ops /\ ops <= MaxOps
  /\ view \in Keys /\ spoilt \in BOOLEAN /\ dragged \in BOOLEAN
  /\ db \in Entries /\ \A i \in DOMAIN db : ~IsTemp(i)
  /\ cache \in [Keys -> Held] /\ stale \in [Keys -> BOOLEAN]
  /\ DOMAIN fetch = Keys /\ \A k \in Keys : IsFetch(fetch[k])
  /\ \A m \in muts : /\ m \in Mutation /\ m.n < ops
                     /\ DOMAIN m.snap \subseteq Invalidated(m)
                     /\ (m.op = "create" => IsTemp(m.id))

LEMMA EntriesFacts ==
  /\ \A f : f \in Entries => /\ DOMAIN f \subseteq Ids /\ f \in [DOMAIN f -> Value]
                             /\ \A i \in DOMAIN f : f[i] \in Value
  /\ \A S \in SUBSET Ids : \A f \in [S -> Value] : f \in Entries /\ DOMAIN f = S
  BY DEF Entries

LEMMA HeldFacts ==
  /\ \A c \in Held : /\ c.has \in BOOLEAN
                     /\ (c.has => c.items \in Entries /\ c = Data(c.items))
                     /\ (~c.has => c = NoData)
  /\ NoData \in Held /\ ~NoData.has
  /\ \A f \in Entries : Data(f) \in Held /\ Data(f).has /\ Data(f).items = f
  <1>1. NoData \in Held /\ NoData.has = FALSE
    BY DEF Held, NoData
  <1>2. \A f \in Entries : Data(f) \in Held /\ Data(f).has = TRUE /\ Data(f).items = f
    BY DEF Held, Data
  <1>3. \A c \in Held : c = NoData \/ (c.has = TRUE /\ c.items \in Entries /\ c = Data(c.items))
    BY <1>2 DEF Held
  <1>4. QED
    BY <1>1, <1>2, <1>3

LEMMA FetchFacts ==
  /\ Idle.at = "idle" /\ IsFetch(Idle)
  /\ \A n \in Nat : IsFetch(Asked(n)) /\ Asked(n).since = n /\ Asked(n).at = "asked"
  /\ \A n \in Nat, f \in Entries :
       /\ Answer(n, f).since = n /\ Answer(n, f).items = f /\ Answer(n, f).at = "answer"
       /\ ((\A i \in DOMAIN f : ~IsTemp(i)) => IsFetch(Answer(n, f)))
  /\ \A q : IsFetch(q) =>
       /\ (q # Idle => q.since \in Nat /\ q.at \in {"asked", "answer"})
       /\ (q.at = "answer" => q.items \in Entries /\ \A i \in DOMAIN q.items : ~IsTemp(i))
  BY DEF Idle, Asked, Answer, IsFetch

LEMMA KeyFacts ==
  /\ Feeds \subseteq Keys /\ <<Board>> \in Keys /\ <<Course>> \in Keys
  /\ \A k \in Keys : k \in Feeds \/ k = <<Board>> \/ k = <<Course>>
  /\ <<Board>> \notin Feeds /\ <<Course>> \notin Feeds /\ <<Board>> # <<Course>>
  <1>1. \A w : <<"week", w>> # <<Board>> /\ <<"week", w>> # <<Course>>
    <2> SUFFICES ASSUME NEW w PROVE <<"week", w>> # <<Board>> /\ <<"week", w>> # <<Course>>
      OBVIOUS
    <2>1. Len(<<"week", w>>) = 2 /\ Len(<<Board>>) = 1 /\ Len(<<Course>>) = 1
      OBVIOUS
    <2>2. QED
      BY <2>1
  <1>2. <<Board>> # <<Course>>
    BY DEF Board, Course
  <1>3. QED
    BY <1>1, <1>2 DEF Feeds, Keys

LEMMA IdFacts ==
  /\ Old \subseteq Ids /\ Created \subseteq Ids
  /\ \A i \in Created : Temp(i) \in Ids /\ IsTemp(Temp(i)) /\ ~IsTemp(i) /\ -Temp(i) = i
  /\ \A i \in Old : ~IsTemp(i)
  /\ \A i \in Ids : IsTemp(i) => -i \in Created
  /\ \A i \in Ids : i \in Int /\ (~IsTemp(i) => i \in Old \cup Created)
  /\ \A n \in Nat : n < MaxOps => 3 + n \in Created
  BY CalendarAssumption DEF Ids, Old, Created, Temp, IsTemp

LEMMA TouchesKeys ==
  ASSUME NEW api, NEW op, NEW v, NEW from
  PROVE  /\ Touches(api, op, v, from) \subseteq Keys
         /\ Touches(api, op, v, from) \subseteq Feeds \cup (IF api = "task" THEN {<<Board>>} ELSE {})
         /\ <<Course>> \notin Touches(api, op, v, from)
  BY KeyFacts DEF Touches

LEMMA InvalidatedKeys ==
  ASSUME NEW m
  PROVE  Feeds \subseteq Invalidated(m) /\ Invalidated(m) \subseteq Keys
  BY KeyFacts DEF Invalidated

LEMMA ListedFacts ==
  ASSUME db \in Entries, NEW k
  PROVE  /\ Listed(k) \in Entries /\ DOMAIN Listed(k) = {i \in DOMAIN db : Lists(k, db[i])}
         /\ \A i \in DOMAIN Listed(k) : Listed(k)[i] = db[i]
  <1> DEFINE S == {i \in DOMAIN db : Lists(k, db[i])}
  <1>1. S \subseteq DOMAIN db
    OBVIOUS
  <1>2. Listed(k) = [i \in S |-> db[i]]
    BY DEF Listed, Restrict
  <1> HIDE DEF S
  <1>3. Listed(k) \in [S -> Value] /\ S \in SUBSET Ids
    BY <1>1, <1>2, EntriesFacts
  <1>4. QED
    BY <1>2, <1>3, EntriesFacts DEF S

LEMMA ShownFacts ==
  ASSUME CalendarTypes, NEW k \in Keys, NEW i \in DOMAIN Shown(k)
  PROVE  cache[k].has /\ Shown(k) = cache[k].items /\ i \in Ids /\ Shown(k)[i] \in Value
  <1>1. cache[k] \in Held
    BY DEF CalendarTypes
  <1>2. cache[k].has
    BY <1>1, HeldFacts DEF Shown
  <1>3. QED
    BY <1>1, <1>2, HeldFacts, EntriesFacts DEF Shown

\* What every gesture does: a mutation, with what is known of it.
Gesture(api, op, i, v, from) ==
  /\ MutateBy(api, op, i, v, from)
  /\ api \in {"lesson", "task"} /\ op \in {"update", "create", "delete"}
  /\ i \in Ids /\ v \in Value /\ from \in Keys
  /\ (api = "task" => v.task) /\ (op # "update" => (api = "task") = v.task)
  /\ (op = "create" => made' = made + 1 /\ i = Temp(3 + made))
  /\ (op # "create" => /\ made' = made
                       /\ \E k \in Keys : /\ cache[k].has /\ i \in DOMAIN cache[k].items
                                          /\ cache[k].items[i].task = v.task)

LEMMA ValueFacts ==
  /\ \A v \in Value : v.task \in BOOLEAN /\ v.done \in BOOLEAN /\ v.slot \in Slots \cup {NoSlot}
  /\ \A v \in Value, s \in Slots : /\ [v EXCEPT !.slot = s] \in Value
                                   /\ [v EXCEPT !.slot = s].task = v.task
  /\ \A v \in Value : /\ [v EXCEPT !.done = ~v.done] \in Value
                      /\ [v EXCEPT !.done = ~v.done].task = v.task
  /\ \A t \in BOOLEAN, s \in Slots : [task |-> t, slot |-> s, done |-> FALSE] \in Value
  /\ [task |-> TRUE, slot |-> NoSlot, done |-> FALSE] \in Value
  <1>1. \A s \in Slots : s # NoSlot
    BY CalendarAssumption DEF NoSlot
  <1>2. QED
    BY <1>1 DEF Value

Gestures == \E api, op, i, v, from : Gesture(api, op, i, v, from)

LEMMA MutateGesture ==
  ASSUME CalendarTypes, NEW op \in {"update", "delete"}, NEW k \in Keys, NEW i \in DOMAIN Shown(k),
         NEW v \in Value, v.task = Shown(k)[i].task, NEW from \in Keys,
         Mutate(op, i, v, from), UNCHANGED made
  PROVE  Gestures
  <1> DEFINE api == IF v.task THEN "task" ELSE "lesson"
  <1>1. MutateBy(api, op, i, v, from)
    BY DEF Mutate
  <1>2. v.task \in BOOLEAN
    BY ValueFacts
  <1>3. api \in {"lesson", "task"} /\ (api = "task") = v.task
    BY <1>2
  <1> HIDE DEF api
  <1>4. cache[k].has /\ i \in DOMAIN cache[k].items /\ cache[k].items[i].task = v.task /\ i \in Ids
    BY ShownFacts
  <1>5. op # "create" /\ op \in {"update", "create", "delete"}
    OBVIOUS
  <1>6. Gesture(api, op, i, v, from)
    BY <1>1, <1>2, <1>3, <1>4, <1>5 DEF Gesture
  <1>7. QED
    BY <1>6 DEF Gestures

LEMMA MarksGesture ==
  ASSUME CalendarTypes, NEW i \in DOMAIN Shown(view), Marks(i)
  PROVE  Gestures
  <1> DEFINE w == Shown(view)[i]
  <1>1. view \in Keys
    BY DEF CalendarTypes
  <1>2. w \in Value
    BY <1>1, ShownFacts
  <1>3. [w EXCEPT !.done = ~w.done] \in Value /\ [w EXCEPT !.done = ~w.done].task = w.task
    BY <1>2, ValueFacts
  <1>4. Mutate("update", i, [w EXCEPT !.done = ~w.done], view) /\ UNCHANGED made
    BY DEF Marks
  <1> HIDE DEF w
  <1>5. PICK v : v = [w EXCEPT !.done = ~w.done]
    OBVIOUS
  <1>6. v \in Value /\ v.task = w.task /\ Mutate("update", i, v, view)
    BY <1>3, <1>4, <1>5
  <1>7. v.task = Shown(view)[i].task
    BY <1>6 DEF w
  <1>8. QED
    BY <1>1, <1>4, <1>6, <1>7, MutateGesture

\* A time is changed.
LEMMA SlotGesture ==
  ASSUME CalendarTypes, NEW k \in Keys, NEW i \in DOMAIN Shown(k), NEW s \in Slots,
         NEW from \in Keys,
         Mutate("update", i, [Shown(k)[i] EXCEPT !.slot = s], from), UNCHANGED made
  PROVE  Gestures
  <1> DEFINE w == Shown(k)[i]
  <1>1. w \in Value
    BY ShownFacts
  <1>2. [w EXCEPT !.slot = s] \in Value /\ [w EXCEPT !.slot = s].task = w.task
    BY <1>1, ValueFacts
  <1>3. Mutate("update", i, [w EXCEPT !.slot = s], from)
    OBVIOUS
  <1> HIDE DEF w
  <1>4. PICK v : v = [w EXCEPT !.slot = s]
    OBVIOUS
  <1>5. v \in Value /\ v.task = w.task /\ Mutate("update", i, v, from)
    BY <1>2, <1>3, <1>4
  <1>6. v.task = Shown(k)[i].task
    BY <1>5 DEF w
  <1>7. QED
    BY <1>5, <1>6, MutateGesture

LEMMA MovesGesture ==
  ASSUME CalendarTypes, NEW i, NEW s \in Slots, NEW from \in Keys, Moves(i, s, from), UNCHANGED made
  PROVE  Gestures
  <1>1. PICK k \in Feeds : /\ i \in DOMAIN Shown(k)
                           /\ Mutate("update", i, [Shown(k)[i] EXCEPT !.slot = s], from)
    BY DEF Moves
  <1>2. k \in Keys
    BY KeyFacts
  <1>3. QED
    BY <1>1, <1>2, SlotGesture

LEMMA MakesGesture ==
  ASSUME CalendarTypes, NEW task \in BOOLEAN, NEW s,
         s \in Slots \/ (task /\ s = NoSlot), Makes(task, s)
  PROVE  Gestures
  <1> DEFINE v == [task |-> task, slot |-> s, done |-> FALSE]
             api == IF v.task THEN "task" ELSE "lesson"
  <1>1. v \in Value /\ v.task = task
    BY ValueFacts
  <1>2. made' = made + 1 /\ Mutate("create", Temp(3 + made), v, view)
    BY DEF Makes
  <1> HIDE DEF v
  <1>3. MutateBy(api, "create", Temp(3 + made), v, view)
    BY <1>2 DEF Mutate
  <1>4. ops < MaxOps /\ view \in Keys /\ made \in Nat /\ ops \in Nat /\ made <= ops
    BY <1>3 DEF MutateBy, CalendarTypes
  <1>5. made < MaxOps
    BY <1>4, CalendarAssumption
  <1>6. Temp(3 + made) \in Ids
    BY <1>4, <1>5, IdFacts
  <1>7. api \in {"lesson", "task"} /\ (api = "task") = v.task /\ v.task \in BOOLEAN
    BY <1>1
  <1> HIDE DEF api
  <1>8. Gesture(api, "create", Temp(3 + made), v, view)
    BY <1>1, <1>2, <1>3, <1>4, <1>6, <1>7 DEF Gesture
  <1>9. QED
    BY <1>8 DEF Gestures

LEMMA ResizeGesture ==
  ASSUME CalendarTypes, NEW i, Resize(i)
  PROVE  Gestures
  <1> DEFINE v == Shown(view)[i]
  <1>1. view \in Keys /\ i \in DOMAIN Shown(view)
    BY DEF CalendarTypes, Resize
  <1>2. v \in Value /\ cache[view].has /\ i \in DOMAIN cache[view].items /\ i \in Ids
        /\ cache[view].items[i].task = v.task
    BY <1>1, ShownFacts
  <1>3. MutateBy("lesson", "update", i, v, view) /\ made' = made
    BY DEF Resize
  <1> HIDE DEF v
  <1>4. "lesson" # "task" /\ "update" # "create"
    OBVIOUS
  <1>5. Gesture("lesson", "update", i, v, view)
    BY <1>1, <1>2, <1>3, <1>4 DEF Gesture
  <1>6. QED
    BY <1>5 DEF Gestures

LEMMA RemovesGesture ==
  ASSUME CalendarTypes, NEW i \in DOMAIN Shown(view), Removes(i)
  PROVE  Gestures
  <1>1. view \in Keys
    BY DEF CalendarTypes
  <1>2. Shown(view)[i] \in Value
    BY <1>1, ShownFacts
  <1>3. Mutate("delete", i, Shown(view)[i], view) /\ UNCHANGED made
    BY DEF Removes
  <1>4. QED
    BY <1>1, <1>2, <1>3, MutateGesture

\* A step of the person on an entry.
LEMMA EntryGesture ==
  ASSUME CalendarTypes, NEW i \in Ids,
         \/ Resize(i) \/ ToggleTask(i) \/ SavePopover(i) \/ MoveCard(i)
         \/ DeleteEvent(i) \/ DeleteCard(i) \/ DeleteLesson(i)
         \/ \E s \in Slots : DropOn(i, s) \/ CommitDrag(i, s) \/ EditOnCourse(i, s)
  PROVE  Gestures
  <1>1. view \in Keys
    BY DEF CalendarTypes
  <1>2. CASE Resize(i)
    BY <1>2, ResizeGesture
  <1>3. CASE ToggleTask(i) \/ SavePopover(i) \/ MoveCard(i)
    BY <1>3, MarksGesture DEF ToggleTask, SavePopover, MoveCard
  <1>4. CASE DeleteEvent(i) \/ DeleteCard(i) \/ DeleteLesson(i)
    BY <1>4, RemovesGesture DEF DeleteEvent, DeleteCard, DeleteLesson
  <1>5. ASSUME NEW s \in Slots, DropOn(i, s) \/ CommitDrag(i, s)
        PROVE  Gestures
    BY <1>1, <1>5, MovesGesture DEF DropOn, CommitDrag
  <1>6. ASSUME NEW s \in Slots, EditOnCourse(i, s)
        PROVE  Gestures
    <2>1. i \in DOMAIN Shown(view)
      BY <1>6 DEF EditOnCourse
    <2>2. CASE Marks(i)
      BY <2>1, <2>2, MarksGesture
    <2>3. CASE /\ Mutate("update", i, [Shown(view)[i] EXCEPT !.slot = s], view)
               /\ UNCHANGED made
      BY <1>1, <2>1, <2>3, SlotGesture
    <2>4. QED
      BY <1>6, <2>2, <2>3 DEF EditOnCourse
  <1>7. QED
    BY <1>2, <1>3, <1>4, <1>5, <1>6

LEMMA CreateGesture ==
  ASSUME CalendarTypes,
         \/ CommitDraft
         \/ \E s \in Slots : \/ CreateLessonInSlot(s) \/ CreateEventInSlot(s)
                             \/ CreateTaskInSlot(s) \/ CreateOnCourse(s)
  PROVE  Gestures
  <1>1. CASE CommitDraft
    BY <1>1, MakesGesture DEF CommitDraft
  <1>2. ASSUME NEW s \in Slots, \/ CreateLessonInSlot(s) \/ CreateEventInSlot(s)
                                \/ CreateTaskInSlot(s) \/ CreateOnCourse(s)
        PROVE  Gestures
    <2>1. Makes(FALSE, s) \/ Makes(TRUE, s)
      BY <1>2 DEF CreateLessonInSlot, CreateEventInSlot, CreateTaskInSlot, CreateOnCourse
    <2>2. FALSE \in BOOLEAN /\ TRUE \in BOOLEAN
      OBVIOUS
    <2>3. QED
      BY <2>1, <2>2, MakesGesture
  <1>3. QED
    BY <1>1, <1>2

\* The steps of the model, sorted by what they do to the cache.
CalendarStep ==
  \/ \E k \in Keys : Reply(k) \/ Land(k) \/ (\E aged \in BOOLEAN : GoTo(k, aged))
  \/ Gestures
  \/ \E m \in muts : Apply(m) \/ Refuse(m) \/ Lose(m) \/ Succeed(m) \/ Fail(m)

LEMMA CalendarSteps ==
  ASSUME CalendarTypes, CalendarNext
  PROVE  CalendarStep
  <1>1. \A w \in Weeks : Feed(w) \in Keys
    BY KeyFacts DEF Feed, Feeds
  <1>2. ASSUME NEW aged \in BOOLEAN,
               NEW w \in Weeks, DatesSet(w, aged) \/ FlipWeek(w, aged) \/ Navigate(w, aged)
        PROVE  CalendarStep
    BY <1>1, <1>2 DEF DatesSet, FlipWeek, Navigate, CalendarStep
  <1>3. ASSUME NEW aged \in BOOLEAN, NEW k \in Keys, OpenPage(k, aged)
        PROVE  CalendarStep
    BY <1>3 DEF OpenPage, CalendarStep
  <1>4. CASE \E k \in Keys : Reply(k) \/ Land(k)
    BY <1>4 DEF CalendarStep
  <1>5. CASE \E m \in muts : Apply(m) \/ Refuse(m) \/ Lose(m) \/ Succeed(m) \/ Fail(m)
    BY <1>5 DEF CalendarStep
  <1>6. CASE \E i \in Ids :
               \/ Resize(i) \/ ToggleTask(i) \/ SavePopover(i) \/ MoveCard(i)
               \/ DeleteEvent(i) \/ DeleteCard(i) \/ DeleteLesson(i)
               \/ \E s \in Slots : DropOn(i, s) \/ CommitDrag(i, s) \/ EditOnCourse(i, s)
    BY <1>6, EntryGesture DEF CalendarStep
  <1>7. CASE \/ CommitDraft
             \/ \E s \in Slots : \/ CreateLessonInSlot(s) \/ CreateEventInSlot(s)
                                 \/ CreateTaskInSlot(s) \/ CreateOnCourse(s)
    BY <1>7, CreateGesture DEF CalendarStep
  <1>8. QED
    BY <1>2, <1>3, <1>4, <1>5, <1>6, <1>7 DEF CalendarNext

LEMMA WriteFacts ==
  ASSUME NEW f \in Entries, NEW i \in Ids, NEW v \in Value, NEW k
  PROVE  Patched(i, v, f) \in Entries /\ Inserted(i, v, k, f) \in Entries /\ Dropped(i, f) \in Entries
  <1>1. DOMAIN f \subseteq Ids /\ \A j \in DOMAIN f : f[j] \in Value
    BY EntriesFacts
  <1>2. f \in [DOMAIN f -> Value]
    BY EntriesFacts
  <1>3. Patched(i, v, f) \in [DOMAIN f -> Value]
    BY <1>1 DEF Patched
  <1>4. Dropped(i, f) \in [DOMAIN f \ {i} -> Value]
    BY <1>1 DEF Dropped, Restrict
  <1>5. [j \in DOMAIN f \cup {i} |-> IF j = i THEN v ELSE f[j]] \in [DOMAIN f \cup {i} -> Value]
    BY <1>1
  <1>6. DOMAIN f \in SUBSET Ids /\ DOMAIN f \cup {i} \in SUBSET Ids /\ DOMAIN f \ {i} \in SUBSET Ids
    BY <1>1
  <1>7. Inserted(i, v, k, f) \in Entries
    BY <1>5, <1>6, EntriesFacts DEF Inserted
  <1>8. Patched(i, v, f) \in Entries /\ Dropped(i, f) \in Entries
    BY <1>3, <1>4, <1>6, EntriesFacts
  <1>9. QED
    BY <1>7, <1>8

\* What a mutation makes of a query that it writes.
Written(op, i, v, k, f) ==
  IF op = "update" THEN Patched(i, v, f)
  ELSE IF op = "create" THEN Inserted(i, v, k, f) ELSE Dropped(i, f)

LEMMA ExpectedFacts ==
  ASSUME CalendarTypes, NEW op \in {"update", "create", "delete"}, NEW i \in Ids, NEW v \in Value, NEW ks
  PROVE  /\ Expected(op, i, v, ks) \in [Keys -> Held]
         /\ \A k \in Keys :
              Expected(op, i, v, ks)[k] =
                IF k \in ks /\ cache[k].has THEN Data(Written(op, i, v, k, cache[k].items)) ELSE cache[k]
  <1>1. Expected(op, i, v, ks) =
          [k \in Keys |-> IF k \in ks /\ cache[k].has THEN Data(Written(op, i, v, k, cache[k].items))
                          ELSE cache[k]]
    <2>1. CASE op = "update"
      BY <2>1 DEF Expected, Over, Written
    <2>2. CASE op = "create"
      BY <2>2 DEF Expected, Over, Written
    <2>3. CASE op = "delete"
      BY <2>3 DEF Expected, Over, Written
    <2>4. QED
      BY <2>1, <2>2, <2>3
  <1>2. \A k \in Keys : cache[k] \in Held
    BY DEF CalendarTypes
  <1>3. \A k \in Keys : cache[k].has => cache[k].items \in Entries
    BY <1>2, HeldFacts
  <1>4. \A k \in Keys : cache[k].has => Written(op, i, v, k, cache[k].items) \in Entries
    BY <1>3, WriteFacts DEF Written
  <1>5. \A k \in Keys : cache[k].has => Data(Written(op, i, v, k, cache[k].items)) \in Held
    BY <1>4, HeldFacts
  <1>6. QED
    BY <1>1, <1>2, <1>5

LEMMA MutationFacts ==
  ASSUME NEW m \in Mutation
  PROVE  /\ m.n \in Nat /\ m.api \in {"lesson", "task"} /\ m.op \in {"update", "create", "delete"}
         /\ m.id \in Ids /\ m.val \in Value /\ m.from \in Keys
         /\ m.at \in {"sent", "done", "failed", "lost"} /\ m.clean \in BOOLEAN
         /\ DOMAIN m.snap \subseteq Keys /\ \A k \in DOMAIN m.snap : m.snap[k] \in Held
  BY DEF Mutation, Snaps

\* A mutation goes on to `at', and a mutation that is no longer alone.
Onto(m, at) == [m EXCEPT !.at = at]
NotAlone(m) == [m EXCEPT !.clean = FALSE]

LEMMA OntoFacts ==
  ASSUME NEW m \in Mutation, NEW at \in {"sent", "done", "failed", "lost"}
  PROVE  /\ Onto(m, at) \in Mutation /\ Onto(m, at).at = at
         /\ Onto(m, at).n = m.n /\ Onto(m, at).api = m.api /\ Onto(m, at).op = m.op
         /\ Onto(m, at).id = m.id /\ Onto(m, at).val = m.val /\ Onto(m, at).from = m.from
         /\ Onto(m, at).snap = m.snap /\ Onto(m, at).clean = m.clean
         /\ Invalidated(Onto(m, at)) = Invalidated(m)
  BY DEF Onto, Mutation, Invalidated

LEMMA NotAloneFacts ==
  ASSUME NEW m \in Mutation
  PROVE  /\ NotAlone(m) \in Mutation /\ NotAlone(m).clean = FALSE
         /\ NotAlone(m).n = m.n /\ NotAlone(m).api = m.api /\ NotAlone(m).op = m.op
         /\ NotAlone(m).id = m.id /\ NotAlone(m).val = m.val /\ NotAlone(m).from = m.from
         /\ NotAlone(m).snap = m.snap /\ NotAlone(m).at = m.at
         /\ Invalidated(NotAlone(m)) = Invalidated(m)
  BY DEF NotAlone, Mutation, Invalidated

\* The mutation a gesture begins.
Begun(api, op, i, v, from) ==
  [n |-> ops, api |-> api, op |-> op, id |-> i, val |-> v, from |-> from, at |-> "sent",
   snap |-> Restrict(cache, Touches(api, op, v, from)), clean |-> Undisturbed]

LEMMA BegunFacts ==
  ASSUME CalendarTypes, NEW api \in {"lesson", "task"}, NEW op \in {"update", "create", "delete"},
         NEW i \in Ids, NEW v \in Value, NEW from \in Keys
  PROVE  /\ Begun(api, op, i, v, from) \in Mutation
         /\ Begun(api, op, i, v, from).n = ops /\ Begun(api, op, i, v, from).api = api
         /\ Begun(api, op, i, v, from).op = op /\ Begun(api, op, i, v, from).id = i
         /\ Begun(api, op, i, v, from).val = v /\ Begun(api, op, i, v, from).from = from
         /\ Begun(api, op, i, v, from).at = "sent"
         /\ Begun(api, op, i, v, from).clean = Undisturbed
         /\ DOMAIN Begun(api, op, i, v, from).snap = Touches(api, op, v, from)
         /\ \A k \in Touches(api, op, v, from) : Begun(api, op, i, v, from).snap[k] = cache[k]
         /\ Touches(api, op, v, from) \subseteq Invalidated(Begun(api, op, i, v, from))
  <1> DEFINE m == Begun(api, op, i, v, from)
             ks == Touches(api, op, v, from)
             snap == Restrict(cache, ks)
  <1>1. ks \subseteq Keys /\ ks \subseteq Feeds \cup (IF api = "task" THEN {<<Board>>} ELSE {})
    BY TouchesKeys
  <1>2. cache \in [Keys -> Held]
    BY DEF CalendarTypes
  <1> HIDE DEF ks
  <1>3. snap \in [ks -> Held] /\ DOMAIN snap = ks /\ \A k \in ks : snap[k] = cache[k]
    BY <1>1, <1>2 DEF Restrict
  <1>4. snap \in Snaps
    BY <1>1, <1>3 DEF Snaps
  <1>5. Undisturbed \in BOOLEAN /\ ops \in Nat
    BY DEF Undisturbed, CalendarTypes
  <1> HIDE DEF snap
  <1>6. m = [n |-> ops, api |-> api, op |-> op, id |-> i, val |-> v, from |-> from, at |-> "sent",
             snap |-> snap, clean |-> Undisturbed]
    BY DEF Begun, snap, ks
  <1> HIDE DEF m
  <1>7. m \in Mutation
    BY <1>4, <1>5, <1>6 DEF Mutation
  <1>8. /\ m.n = ops /\ m.api = api /\ m.op = op /\ m.id = i /\ m.val = v /\ m.from = from
        /\ m.at = "sent" /\ m.snap = snap
    BY <1>6
  <1>9. m.clean = Undisturbed
    BY <1>6
  <1>10. ks \subseteq Invalidated(m)
    BY <1>1, <1>8, KeyFacts DEF Invalidated
  <1>11. QED
    BY <1>3, <1>7, <1>8, <1>9, <1>10 DEF m, ks

\* What a gesture changes.
LEMMA GestureFacts ==
  ASSUME CalendarTypes, NEW api, NEW op, NEW i, NEW v, NEW from, Gesture(api, op, i, v, from)
  PROVE  /\ muts' = {NotAlone(o) : o \in muts} \cup {Begun(api, op, i, v, from)}
         /\ cache' = Expected(op, i, v, Touches(api, op, v, from))
         /\ fetch' = Cancelled(Touches(api, op, v, from))
         /\ ops' = ops + 1 /\ ops < MaxOps
         /\ UNCHANGED <<db, view, spoilt, strayed>>
         /\ stale' = [k \in Keys |-> stale[k] /\ k \notin Renewed(op, v, Touches(api, op, v, from))]
         /\ dragged' = (dragged \/ (from # <<Course>> /\ ~v.task /\ op # "create"))
         /\ api \in {"lesson", "task"} /\ op \in {"update", "create", "delete"}
         /\ i \in Ids /\ v \in Value /\ from \in Keys
  BY DEF Gesture, MutateBy, NotAlone, Begun

LEMMA GestureTypes ==
  ASSUME CalendarTypes, Gestures
  PROVE  CalendarTypes'
  <1>1. PICK api, op, i, v, from : Gesture(api, op, i, v, from)
    BY DEF Gestures
  <1> DEFINE b == Begun(api, op, i, v, from)
             ks == Touches(api, op, v, from)
  <1>2. /\ muts' = {NotAlone(o) : o \in muts} \cup {b}
        /\ cache' = Expected(op, i, v, ks) /\ fetch' = Cancelled(ks)
        /\ ops' = ops + 1 /\ ops < MaxOps
        /\ UNCHANGED <<db, view, spoilt>>
        /\ stale' = [k \in Keys |-> stale[k] /\ k \notin Renewed(op, v, ks)]
        /\ dragged' = (dragged \/ (from # <<Course>> /\ ~v.task /\ op # "create"))
        /\ api \in {"lesson", "task"} /\ op \in {"update", "create", "delete"}
        /\ i \in Ids /\ v \in Value /\ from \in Keys
    BY <1>1, GestureFacts
  <1>3. b \in Mutation /\ b.n = ops /\ b.op = op /\ b.id = i /\ DOMAIN b.snap = ks
        /\ ks \subseteq Invalidated(b)
    BY <1>2, BegunFacts
  <1> HIDE DEF b, ks
  <1>4. /\ ops \in Nat /\ made \in Nat /\ made <= ops /\ view \in Keys
        /\ spoilt \in BOOLEAN /\ dragged \in BOOLEAN
        /\ db \in Entries /\ (\A j \in DOMAIN db : ~IsTemp(j)) /\ stale \in [Keys -> BOOLEAN]
        /\ \A k \in Keys : IsFetch(fetch[k])
    BY DEF CalendarTypes
  <1>5. op = "create" => made' = made + 1 /\ i = Temp(3 + made)
    BY <1>1 DEF Gesture
  <1>6. op # "create" => made' = made
    BY <1>1 DEF Gesture
  <1>7. made' \in Nat /\ made' <= ops' /\ ops' \in Nat /\ ops' <= MaxOps
    BY <1>2, <1>4, <1>5, <1>6, CalendarAssumption
  <1>8. op = "create" => IsTemp(i)
    BY <1>2, <1>4, <1>5, IdFacts, CalendarAssumption
  <1>9. cache' \in [Keys -> Held]
    BY <1>2, ExpectedFacts
  <1>10. DOMAIN fetch' = Keys /\ \A k \in Keys : IsFetch(fetch'[k])
    BY <1>2, <1>4, FetchFacts DEF Cancelled
  <1>11. dragged' \in BOOLEAN /\ stale' \in [Keys -> BOOLEAN]
    BY <1>2, <1>4
  <1>12. ASSUME NEW m \in muts'
         PROVE  /\ m \in Mutation /\ m.n < ops' /\ DOMAIN m.snap \subseteq Invalidated(m)
                /\ (m.op = "create" => IsTemp(m.id))
    <2>1. CASE m = b
      BY <2>1, <1>2, <1>3, <1>4, <1>8
    <2>2. ASSUME NEW o \in muts, m = NotAlone(o)
          PROVE  /\ m \in Mutation /\ m.n < ops' /\ DOMAIN m.snap \subseteq Invalidated(m)
                 /\ (m.op = "create" => IsTemp(m.id))
      <3>1. /\ o \in Mutation /\ o.n < ops /\ DOMAIN o.snap \subseteq Invalidated(o)
            /\ (o.op = "create" => IsTemp(o.id))
        BY DEF CalendarTypes
      <3>2. o.n \in Nat
        BY <3>1, MutationFacts
      <3>3. /\ m \in Mutation /\ m.n = o.n /\ m.op = o.op /\ m.id = o.id /\ m.snap = o.snap
            /\ Invalidated(m) = Invalidated(o)
        BY <3>1, <2>2, NotAloneFacts
      <3>4. m.n < ops'
        BY <3>1, <3>2, <3>3, <1>2, <1>4
      <3>5. QED
        BY <3>1, <3>3, <3>4
    <2>3. QED
      BY <1>2, <2>1, <2>2
  <1>13. QED
    BY <1>2, <1>4, <1>7, <1>9, <1>10, <1>11, <1>12 DEF CalendarTypes, IsTemp, IsFetch, Invalidated

LEMMA FetchTypes ==
  ASSUME CalendarTypes, NEW k \in Keys, Reply(k) \/ Land(k) \/ (\E aged \in BOOLEAN : GoTo(k, aged))
  PROVE  CalendarTypes'
  <1>1. UNCHANGED <<db, muts, made, ops, spoilt, dragged>>
    BY DEF Reply, Land, GoTo
  <1>2. /\ DOMAIN fetch = Keys /\ \A j \in Keys : IsFetch(fetch[j])
    BY DEF CalendarTypes
  <1>3. /\ ops \in Nat /\ db \in Entries /\ (\A i \in DOMAIN db : ~IsTemp(i))
        /\ cache \in [Keys -> Held] /\ stale \in [Keys -> BOOLEAN] /\ view \in Keys
    BY DEF CalendarTypes
  <1>4. /\ DOMAIN fetch' = Keys /\ \A j \in Keys : IsFetch(fetch'[j])
    <2>1. CASE Reply(k)
      <3>1. fetch[k].since \in Nat /\ fetch[k].at = "asked"
        BY <1>2, <2>1, FetchFacts DEF Reply
      <3>2. Listed(k) \in Entries /\ \A i \in DOMAIN Listed(k) : ~IsTemp(i)
        BY <1>3, ListedFacts
      <3>3. IsFetch(Answer(fetch[k].since, Listed(k)))
        BY <3>1, <3>2, FetchFacts
      <3>4. fetch' = [fetch EXCEPT ![k] = Answer(fetch[k].since, Listed(k))]
        BY <2>1 DEF Reply
      <3>5. QED
        BY <1>2, <3>3, <3>4
    <2>2. CASE Land(k)
      BY <1>2, <2>2, FetchFacts DEF Land
    <2>3. ASSUME NEW aged \in BOOLEAN, GoTo(k, aged)
          PROVE  DOMAIN fetch' = Keys /\ \A j \in Keys : IsFetch(fetch'[j])
      <3>1. fetch' = fetch \/ fetch' = [fetch EXCEPT ![k] = Asked(ops)]
        BY <2>3 DEF GoTo
      <3>2. IsFetch(Asked(ops))
        BY <1>3, FetchFacts
      <3>3. QED
        BY <1>2, <3>1, <3>2
    <2>4. QED
      BY <2>1, <2>2, <2>3
  <1>5. cache' \in [Keys -> Held] /\ stale' \in [Keys -> BOOLEAN] /\ view' \in Keys
    <2>1. CASE Reply(k)
      BY <1>3, <2>1 DEF Reply
    <2>2. CASE Land(k)
      <3>1. fetch[k].items \in Entries
        BY <1>2, <2>2, FetchFacts DEF Land
      <3>2. Data(fetch[k].items) \in Held
        BY <3>1, HeldFacts
      <3>3. QED
        BY <1>3, <2>2, <3>2 DEF Land
    <2>3. ASSUME NEW aged \in BOOLEAN, GoTo(k, aged)
          PROVE  cache' \in [Keys -> Held] /\ stale' \in [Keys -> BOOLEAN] /\ view' \in Keys
      BY <1>3, <2>3 DEF GoTo
    <2>4. QED
      BY <2>1, <2>2, <2>3
  <1>6. QED
    BY <1>1, <1>4, <1>5 DEF CalendarTypes, IsTemp, IsFetch, Invalidated

LEMMA ReachTypes ==
  ASSUME CalendarTypes, NEW m \in muts, NEW at \in {"sent", "done", "failed", "lost"}, Reaches(m, at)
  PROVE  \A o \in muts' : /\ o \in Mutation /\ o.n < ops /\ DOMAIN o.snap \subseteq Invalidated(o)
                          /\ (o.op = "create" => IsTemp(o.id))
  <1>1. muts' = (muts \ {m}) \cup {Onto(m, at)}
    BY DEF Reaches, Onto
  <1>2. \A o \in muts : /\ o \in Mutation /\ o.n < ops /\ DOMAIN o.snap \subseteq Invalidated(o)
                        /\ (o.op = "create" => IsTemp(o.id))
    BY DEF CalendarTypes
  <1>3. /\ Onto(m, at) \in Mutation /\ Onto(m, at).n = m.n /\ Onto(m, at).op = m.op
        /\ Onto(m, at).id = m.id /\ Onto(m, at).snap = m.snap
        /\ Invalidated(Onto(m, at)) = Invalidated(m)
    BY <1>2, OntoFacts
  <1>4. QED
    BY <1>1, <1>2, <1>3

LEMMA StoredFacts ==
  ASSUME CalendarTypes, NEW m \in muts, Exists(m)
  PROVE  /\ Stored(m) \in Entries /\ \A i \in DOMAIN Stored(m) : ~IsTemp(i)
         /\ (m.op = "update" => /\ DOMAIN Stored(m) = DOMAIN db /\ m.id \in DOMAIN db
                                /\ \A j \in DOMAIN db : Stored(m)[j] = IF j = m.id THEN m.val ELSE db[j])
         /\ (m.op = "create" => /\ DOMAIN Stored(m) = DOMAIN db \cup {-m.id}
                                /\ \A j \in DOMAIN Stored(m) :
                                     Stored(m)[j] = IF j = -m.id THEN m.val ELSE db[j])
         /\ (m.op = "delete" => /\ DOMAIN Stored(m) = DOMAIN db \ {m.id} /\ m.id \in DOMAIN db
                                /\ \A j \in DOMAIN db \ {m.id} : Stored(m)[j] = db[j])
  <1>1. /\ m \in Mutation /\ (m.op = "create" => IsTemp(m.id))
        /\ db \in Entries /\ (\A i \in DOMAIN db : ~IsTemp(i))
    BY DEF CalendarTypes
  <1>2. m.id \in Ids /\ m.val \in Value /\ m.op \in {"update", "create", "delete"}
    BY <1>1, MutationFacts
  <1>3. DOMAIN db \subseteq Ids /\ (\A j \in DOMAIN db : db[j] \in Value) /\ db \in [DOMAIN db -> Value]
    BY <1>1, EntriesFacts
  <1>4. CASE m.op = "update"
    <2>1. Stored(m) = [db EXCEPT ![m.id] = m.val] /\ m.id \in DOMAIN db
      BY <1>4 DEF Stored, Exists
    <2>2. Stored(m) \in [DOMAIN db -> Value] /\ DOMAIN db \in SUBSET Ids
      BY <1>2, <1>3, <2>1
    <2>3. /\ DOMAIN Stored(m) = DOMAIN db
          /\ \A j \in DOMAIN db : Stored(m)[j] = IF j = m.id THEN m.val ELSE db[j]
      BY <2>1, <1>3
    <2>4. Stored(m) \in Entries
      BY <2>2, EntriesFacts
    <2>5. QED
      BY <1>1, <1>4, <2>1, <2>3, <2>4
  <1>5. CASE m.op = "create"
    <2>1. -m.id \in Created /\ ~IsTemp(-m.id)
      BY <1>1, <1>2, <1>5, IdFacts
    <2>2. Stored(m) = [j \in DOMAIN db \cup {-m.id} |-> IF j = -m.id THEN m.val ELSE db[j]]
      BY <1>5 DEF Stored
    <2>3. DOMAIN db \cup {-m.id} \in SUBSET Ids
      BY <2>1, <1>3, IdFacts
    <2>4. Stored(m) \in [DOMAIN db \cup {-m.id} -> Value]
      BY <2>2, <1>2, <1>3
    <2>5. Stored(m) \in Entries
      BY <2>3, <2>4, EntriesFacts
    <2>6. /\ DOMAIN Stored(m) = DOMAIN db \cup {-m.id}
          /\ \A j \in DOMAIN Stored(m) : Stored(m)[j] = IF j = -m.id THEN m.val ELSE db[j]
      BY <2>2
    <2>7. QED
      BY <1>1, <1>5, <2>1, <2>5, <2>6
  <1>6. CASE m.op = "delete"
    <2>1. m.id \in DOMAIN db /\ Stored(m) = Restrict(db, DOMAIN db \ {m.id})
      BY <1>6 DEF Stored, Exists
    <2>2. /\ DOMAIN Stored(m) = DOMAIN db \ {m.id}
          /\ \A j \in DOMAIN db \ {m.id} : Stored(m)[j] = db[j]
          /\ Stored(m) \in [DOMAIN db \ {m.id} -> Value]
      BY <2>1, <1>3 DEF Restrict
    <2>3. Stored(m) \in Entries
      BY <2>2, <1>3, EntriesFacts
    <2>4. QED
      BY <1>1, <1>6, <2>1, <2>2, <2>3
  <1>7. QED
    BY <1>2, <1>4, <1>5, <1>6

LEMMA ServerTypes ==
  ASSUME CalendarTypes, NEW m \in muts, Apply(m) \/ Refuse(m) \/ Lose(m)
  PROVE  CalendarTypes'
  <1>1. UNCHANGED <<cache, stale, fetch, view, made, ops, spoilt, dragged>>
    BY DEF Apply, Refuse, Lose
  <1>2. Reaches(m, "done") \/ Reaches(m, "failed") \/ Reaches(m, "lost")
    BY DEF Apply, Refuse, Lose
  <1>3. \A o \in muts' : /\ o \in Mutation /\ o.n < ops /\ DOMAIN o.snap \subseteq Invalidated(o)
                         /\ (o.op = "create" => IsTemp(o.id))
    BY <1>2, ReachTypes
  <1>4. db' \in Entries /\ \A i \in DOMAIN db' : ~IsTemp(i)
    <2>1. CASE Apply(m)
      BY <2>1, StoredFacts DEF Apply
    <2>2. CASE Refuse(m) \/ Lose(m)
      BY <2>2 DEF Refuse, Lose, CalendarTypes
    <2>3. QED
      BY <2>1, <2>2
  <1>5. QED
    BY <1>1, <1>3, <1>4 DEF CalendarTypes, IsTemp, IsFetch, Invalidated

LEMMA AnswerTypes ==
  ASSUME CalendarTypes, NEW m \in muts, Succeed(m) \/ Fail(m)
  PROVE  CalendarTypes'
  <1>1. UNCHANGED <<db, view, made, ops, dragged>> /\ muts' = muts \ {m}
    BY DEF Succeed, Fail
  <1>2. /\ ops \in Nat /\ cache \in [Keys -> Held] /\ stale \in [Keys -> BOOLEAN] /\ spoilt \in BOOLEAN
        /\ DOMAIN fetch = Keys /\ \A k \in Keys : IsFetch(fetch[k])
    BY DEF CalendarTypes
  <1>3. m \in Mutation
    BY DEF CalendarTypes
  <1>4. IsFetch(Asked(ops))
    BY <1>2, FetchFacts
  <1>5. fetch' = fetch \/ fetch' = [fetch EXCEPT ![view] = Asked(ops)]
    BY DEF Succeed, Fail, invalidates
  <1>6. DOMAIN fetch' = Keys /\ \A k \in Keys : IsFetch(fetch'[k])
    BY <1>2, <1>4, <1>5
  <1>7. spoilt' \in BOOLEAN /\ stale' \in [Keys -> BOOLEAN]
    <2>1. CASE Succeed(m)
      BY <1>2, <2>1 DEF Succeed
    <2>2. CASE Fail(m)
      BY <1>2, <2>2 DEF Fail
    <2>3. QED
      BY <2>1, <2>2
  <1>8. cache' \in [Keys -> Held]
    <2>1. CASE Succeed(m)
      BY <1>2, <2>1 DEF Succeed
    <2>2. CASE Fail(m)
      <3>1. \A k \in DOMAIN m.snap : m.snap[k] \in Held
        BY <1>3, MutationFacts
      <3>2. QED
        BY <1>2, <2>2, <3>1 DEF Fail, Restored
    <2>3. QED
      BY <2>1, <2>2
  <1>9. QED
    BY <1>1, <1>6, <1>7, <1>8 DEF CalendarTypes, IsTemp, IsFetch, Invalidated

LEMMA CalendarTypesStep ==
  ASSUME CalendarTypes, CalendarStep
  PROVE  CalendarTypes'
  BY GestureTypes, FetchTypes, ServerTypes, AnswerTypes DEF CalendarStep

-----------------------------------------------------------------------------
(* CalendarCache: answers, temporary entries *)

LEMMA MutsAre ==
  ASSUME CalendarTypes
  PROVE  /\ \A m \in muts : /\ m \in Mutation /\ m.n \in Nat /\ m.n < ops /\ m.clean \in BOOLEAN
                            /\ DOMAIN m.snap \subseteq Invalidated(m) /\ DOMAIN m.snap \subseteq Keys
                            /\ \A k \in DOMAIN m.snap : m.snap[k] \in Held
         /\ ops \in Nat /\ view \in Keys
  BY MutationFacts DEF CalendarTypes

LEMMA NoOldAnswerStep ==
  ASSUME CalendarTypes, NoOldAnswer, CalendarStep
  PROVE  NoOldAnswer'
  <1>1. /\ ops \in Nat /\ view \in Keys /\ DOMAIN fetch = Keys
        /\ \A m \in muts : m \in Mutation /\ m.n < ops /\ m.n \in Nat /\ DOMAIN m.snap \subseteq Keys
    BY MutsAre DEF CalendarTypes
  <1>2. Asked(ops).since = ops
    BY <1>1, FetchFacts
  <1>3. ASSUME NEW k \in Keys, Reply(k) \/ Land(k) \/ (\E aged \in BOOLEAN : GoTo(k, aged))
        PROVE  NoOldAnswer'
    <2>1. muts' = muts
      BY <1>3 DEF Reply, Land, GoTo
    <2>2. CASE Reply(k)
      <3>1. fetch' = [fetch EXCEPT ![k] = Answer(fetch[k].since, Listed(k))] /\ fetch[k].at = "asked"
        BY <2>2 DEF Reply
      <3>2. Answer(fetch[k].since, Listed(k)).since = fetch[k].since /\ fetch[k] # Idle
        BY <3>1, FetchFacts DEF Answer
      <3>3. QED
        BY <1>1, <2>1, <3>1, <3>2 DEF NoOldAnswer
    <2>3. CASE Land(k)
      BY <1>1, <2>1, <2>3 DEF NoOldAnswer, Land
    <2>4. ASSUME NEW aged \in BOOLEAN, GoTo(k, aged)
          PROVE  NoOldAnswer'
      <3>1. fetch' = fetch \/ fetch' = [fetch EXCEPT ![k] = Asked(ops)]
        BY <2>4 DEF GoTo
      <3>2. QED
        BY <1>1, <1>2, <2>1, <3>1 DEF NoOldAnswer
    <2>5. QED
      BY <1>3, <2>2, <2>3, <2>4
  <1>4. CASE Gestures
    <2>1. PICK api, op, i, v, from : Gesture(api, op, i, v, from)
      BY <1>4 DEF Gestures
    <2> DEFINE b == Begun(api, op, i, v, from)
               ks == Touches(api, op, v, from)
    <2>2. /\ muts' = {NotAlone(o) : o \in muts} \cup {b} /\ fetch' = Cancelled(ks)
          /\ api \in {"lesson", "task"} /\ op \in {"update", "create", "delete"}
          /\ i \in Ids /\ v \in Value /\ from \in Keys
      BY <2>1, GestureFacts
    <2>3. DOMAIN b.snap = ks /\ ks \subseteq Keys
      BY <2>2, BegunFacts, TouchesKeys
    <2> HIDE DEF b, ks
    <2>4. \A k \in Keys : fetch'[k] = IF k \in ks THEN Idle ELSE fetch[k]
      BY <2>2 DEF Cancelled
    <2>5. ASSUME NEW m \in muts', NEW k \in DOMAIN m.snap, fetch'[k] # Idle
          PROVE  fetch'[k].since > m.n
      <3>1. CASE m = b
        BY <3>1, <2>3, <2>4, <2>5
      <3>2. ASSUME NEW o \in muts, m = NotAlone(o)
            PROVE  fetch'[k].since > m.n
        <4>1. m.n = o.n /\ m.snap = o.snap /\ DOMAIN o.snap \subseteq Keys
          BY <1>1, <3>2, NotAloneFacts
        <4>2. k \in Keys /\ fetch'[k] = fetch[k]
          BY <2>4, <2>5, <4>1
        <4>3. QED
          BY <2>5, <4>1, <4>2 DEF NoOldAnswer
      <3>3. QED
        BY <2>2, <3>1, <3>2
    <2>6. QED
      BY <2>5 DEF NoOldAnswer
  <1>5. ASSUME NEW m \in muts, Apply(m) \/ Refuse(m) \/ Lose(m)
        PROVE  NoOldAnswer'
    <2>1. PICK at \in {"sent", "done", "failed", "lost"} : Reaches(m, at)
      BY <1>5 DEF Apply, Refuse, Lose
    <2>2. muts' = (muts \ {m}) \cup {Onto(m, at)}
      BY <2>1 DEF Reaches, Onto
    <2>3. Onto(m, at).n = m.n /\ Onto(m, at).snap = m.snap
      BY <1>1, OntoFacts
    <2>4. fetch' = fetch
      BY <1>5 DEF Apply, Refuse, Lose
    <2>5. QED
      BY <2>2, <2>3, <2>4 DEF NoOldAnswer
  <1>6. ASSUME NEW m \in muts, Succeed(m) \/ Fail(m)
        PROVE  NoOldAnswer'
    <2>1. muts' = muts \ {m}
      BY <1>6 DEF Succeed, Fail
    <2>2. fetch' = fetch \/ fetch' = [fetch EXCEPT ![view] = Asked(ops)]
      BY <1>6 DEF Succeed, Fail, invalidates
    <2>3. QED
      BY <1>1, <1>2, <2>1, <2>2 DEF NoOldAnswer
  <1>7. QED
    BY <1>3, <1>4, <1>5, <1>6 DEF CalendarStep

\* An entry with a temporary id in a list it does not belong to.
Misplaced(k, f, i) == i \in DOMAIN f /\ IsTemp(i) /\ ~Lists(k, f[i])

\* Such an entry is being moved by a mutation that will refetch its query, or
\* a failure has put it there.  The server has never heard of a temporary id.
TempsInPlace ==
  /\ \A k \in Keys : cache[k].has =>
       \A i \in Ids : Misplaced(k, cache[k].items, i) =>
         \/ <<k, i>> \in strayed
         \/ \E m \in muts : m.op = "update" /\ m.id = i /\ k \in DOMAIN m.snap /\ m.snap[k].has
  /\ \A m \in muts : m.at = "done" /\ m.op = "update" => ~IsTemp(m.id)

\* Of the writes only a move takes an entry out of its place.
LEMMA WrittenTemps ==
  ASSUME NEW f \in Entries, NEW op \in {"update", "create", "delete"}, NEW i \in Ids, NEW v \in Value,
         NEW k, NEW j, Misplaced(k, Written(op, i, v, k, f), j), ~Misplaced(k, f, j)
  PROVE  op = "update" /\ j = i
  <1>1. CASE op = "update"
    <2>1. Written(op, i, v, k, f) = Patched(i, v, f)
      BY <1>1 DEF Written
    <2>2. DOMAIN Patched(i, v, f) = DOMAIN f /\ \A l \in DOMAIN f \ {i} : Patched(i, v, f)[l] = f[l]
      BY DEF Patched
    <2>3. QED
      BY <1>1, <2>1, <2>2 DEF Misplaced
  <1>2. CASE op = "create"
    <2>1. Written(op, i, v, k, f) = Inserted(i, v, k, f)
      BY <1>2 DEF Written
    <2>2. \A l \in DOMAIN Inserted(i, v, k, f) :
            \/ l = i /\ Lists(k, v) /\ Inserted(i, v, k, f)[l] = v
            \/ l \in DOMAIN f /\ Inserted(i, v, k, f)[l] = f[l]
      <3>1. CASE Lists(k, v)
        BY <3>1 DEF Inserted
      <3>2. CASE ~Lists(k, v)
        BY <3>2 DEF Inserted
      <3>3. QED
        BY <3>1, <3>2
    <2>3. QED
      BY <2>1, <2>2 DEF Misplaced
  <1>3. CASE op = "delete"
    <2>1. Written(op, i, v, k, f) = Dropped(i, f)
      BY <1>3 DEF Written
    <2>2. DOMAIN Dropped(i, f) = DOMAIN f \ {i} /\ \A l \in DOMAIN f \ {i} : Dropped(i, f)[l] = f[l]
      BY DEF Dropped, Restrict
    <2>3. QED
      BY <2>1, <2>2 DEF Misplaced
  <1>4. QED
    BY <1>1, <1>2, <1>3

LEMMA TempsGesture ==
  ASSUME CalendarTypes, TempsInPlace, Gestures
  PROVE  TempsInPlace'
  <1>1. PICK api, op, i, v, from : Gesture(api, op, i, v, from)
    BY DEF Gestures
  <1> DEFINE b == Begun(api, op, i, v, from)
             ks == Touches(api, op, v, from)
  <1>2. /\ muts' = {NotAlone(o) : o \in muts} \cup {b}
        /\ cache' = Expected(op, i, v, ks) /\ strayed' = strayed
        /\ api \in {"lesson", "task"} /\ op \in {"update", "create", "delete"}
        /\ i \in Ids /\ v \in Value /\ from \in Keys
    BY <1>1, GestureFacts
  <1>3. /\ b.op = op /\ b.id = i /\ b.at = "sent" /\ DOMAIN b.snap = ks
        /\ \A k \in ks : b.snap[k] = cache[k]
    BY <1>2, BegunFacts
  <1>4. ks \subseteq Keys
    BY TouchesKeys
  <1> HIDE DEF b, ks
  <1>5. \A k \in Keys : cache[k] \in Held /\ (cache[k].has => cache[k].items \in Entries)
    BY HeldFacts DEF CalendarTypes
  <1>6. \A o \in muts : NotAlone(o) \in muts' /\ NotAlone(o).at = o.at /\ NotAlone(o).op = o.op
                        /\ NotAlone(o).id = o.id /\ NotAlone(o).snap = o.snap
    BY <1>2, MutsAre, NotAloneFacts
  <1>7. ASSUME NEW k \in Keys, cache'[k].has, NEW j \in Ids, Misplaced(k, cache'[k].items, j),
               <<k, j>> \notin strayed
        PROVE  \E m \in muts' : m.op = "update" /\ m.id = j /\ k \in DOMAIN m.snap /\ m.snap[k].has
    <2>1. CASE cache[k].has /\ Misplaced(k, cache[k].items, j)
      <3>1. PICK o \in muts : o.op = "update" /\ o.id = j /\ k \in DOMAIN o.snap /\ o.snap[k].has
        BY <1>2, <1>7, <2>1 DEF TempsInPlace
      <3>2. QED
        BY <1>6, <3>1
    <2>2. CASE ~(cache[k].has /\ Misplaced(k, cache[k].items, j))
      <3> DEFINE f == cache[k].items
                 g == Written(op, i, v, k, f)
      <3>1. cache'[k] = IF k \in ks /\ cache[k].has THEN Data(g) ELSE cache[k]
        BY <1>2, ExpectedFacts
      <3>2. k \in ks /\ cache[k].has
        BY <1>7, <2>2, <3>1
      <3>3. f \in Entries
        BY <1>5, <3>2
      <3>4. Misplaced(k, g, j)
        BY <1>7, <3>1, <3>2 DEF Data
      <3>5. ~Misplaced(k, f, j)
        BY <2>2, <3>2
      <3> HIDE DEF f
      <3>6. f \in Entries /\ Misplaced(k, Written(op, i, v, k, f), j) /\ ~Misplaced(k, f, j)
        BY <3>3, <3>4, <3>5
      <3>7. op = "update" /\ j = i
        BY <1>2, <3>6, WrittenTemps
      <3>8. b \in muts' /\ b.snap[k].has
        BY <1>2, <1>3, <3>2
      <3>9. QED
        BY <1>3, <3>2, <3>7, <3>8
    <2>3. QED
      BY <2>1, <2>2
  <1>8. \A m \in muts' : m.at = "done" /\ m.op = "update" => ~IsTemp(m.id)
    BY <1>2, <1>3, <1>6 DEF TempsInPlace
  <1>9. QED
    BY <1>2, <1>7, <1>8 DEF TempsInPlace, Misplaced, Lists, IsTemp, Feed

LEMMA TempsFetch ==
  ASSUME CalendarTypes, TempsInPlace, NEW k \in Keys,
         Reply(k) \/ Land(k) \/ (\E aged \in BOOLEAN : GoTo(k, aged))
  PROVE  TempsInPlace'
  <1>1. UNCHANGED <<muts, strayed>>
    BY DEF Reply, Land, GoTo
  <1>2. CASE UNCHANGED cache
    BY <1>1, <1>2 DEF TempsInPlace, Misplaced, Lists, IsTemp, Feed
  <1>3. CASE Land(k)
    <2>1. \A i \in DOMAIN fetch[k].items : ~IsTemp(i)
      BY <1>3, FetchFacts DEF Land, CalendarTypes
    <2>2. cache' = [cache EXCEPT ![k] = Data(fetch[k].items)] /\ DOMAIN cache = Keys
      BY <1>3 DEF Land, CalendarTypes
    <2>3. \A i : ~Misplaced(k, cache'[k].items, i)
      BY <2>1, <2>2 DEF Misplaced, Data
    <2>4. \A j \in Keys \ {k} : cache'[j] = cache[j]
      BY <2>2
    <2>5. QED
      BY <1>1, <2>3, <2>4 DEF TempsInPlace, Misplaced, Lists, IsTemp, Feed
  <1>4. QED
    BY <1>2, <1>3 DEF Reply, GoTo

LEMMA TempsServer ==
  ASSUME CalendarTypes, TempsInPlace, NEW m \in muts, Apply(m) \/ Refuse(m) \/ Lose(m)
  PROVE  TempsInPlace'
  <1>1. UNCHANGED <<cache, strayed>>
    BY DEF Apply, Refuse, Lose
  <1>2. PICK at \in {"sent", "done", "failed", "lost"} :
          /\ Reaches(m, at)
          /\ (at = "done" /\ m.op = "update" => ~IsTemp(m.id))
    <2>1. CASE Apply(m)
      <3>1. Reaches(m, "done") /\ (m.op = "update" => m.id \in DOMAIN db)
        BY <2>1 DEF Apply, Exists
      <3>2. m.op = "update" => ~IsTemp(m.id)
        BY <3>1 DEF CalendarTypes
      <3>3. QED
        BY <3>1, <3>2
    <2>2. CASE Refuse(m) \/ Lose(m)
      <3>1. Reaches(m, "failed") \/ Reaches(m, "lost")
        BY <2>2 DEF Refuse, Lose
      <3>2. QED
        BY <3>1
    <2>3. QED
      BY <2>1, <2>2
  <1>3. muts' = (muts \ {m}) \cup {Onto(m, at)}
    BY <1>2 DEF Reaches, Onto
  <1>4. /\ Onto(m, at).op = m.op /\ Onto(m, at).id = m.id /\ Onto(m, at).snap = m.snap
        /\ Onto(m, at).at = at
    BY MutsAre, OntoFacts
  <1>5. QED
    BY <1>1, <1>2, <1>3, <1>4 DEF TempsInPlace, Misplaced, Lists, IsTemp, Feed

LEMMA TempsAnswer ==
  ASSUME CalendarTypes, TempsInPlace, NEW m \in muts, Succeed(m) \/ Fail(m)
  PROVE  TempsInPlace'
  <1>1. muts' = muts \ {m}
    BY DEF Succeed, Fail
  <1>2. CASE Succeed(m)
    <2>1. UNCHANGED <<cache, strayed>> /\ m.at = "done"
      BY <1>2 DEF Succeed
    <2>2. ASSUME NEW k \in Keys, cache'[k].has, NEW i \in Ids, Misplaced(k, cache'[k].items, i),
                 <<k, i>> \notin strayed'
          PROVE  \E o \in muts' : o.op = "update" /\ o.id = i /\ k \in DOMAIN o.snap /\ o.snap[k].has
      <3>1. PICK o \in muts : o.op = "update" /\ o.id = i /\ k \in DOMAIN o.snap /\ o.snap[k].has
        BY <2>1, <2>2 DEF TempsInPlace
      <3>2. o # m
        BY <2>1, <2>2, <3>1 DEF TempsInPlace, Misplaced
      <3>3. QED
        BY <1>1, <3>1, <3>2
    <2>3. QED
      BY <1>1, <2>2 DEF TempsInPlace, Misplaced, Lists, IsTemp, Feed
  <1>3. CASE Fail(m)
    <2>1. /\ cache' = Restored(m)
          /\ strayed' = strayed \cup {p \in Keys \X Ids : PutsAstray(m, p[1], p[2])}
      BY <1>3 DEF Fail
    <2>2. \A k \in Keys : cache'[k] = IF k \in DOMAIN m.snap /\ m.snap[k].has THEN m.snap[k] ELSE cache[k]
      BY <2>1 DEF Restored
    <2>3. ASSUME NEW k \in Keys, cache'[k].has, NEW i \in Ids, Misplaced(k, cache'[k].items, i),
                 <<k, i>> \notin strayed'
          PROVE  \E o \in muts' : o.op = "update" /\ o.id = i /\ k \in DOMAIN o.snap /\ o.snap[k].has
      <3>1. ~PutsAstray(m, k, i) /\ <<k, i>> \notin strayed
        BY <2>1, <2>3
      <3>2. ~(k \in DOMAIN m.snap /\ m.snap[k].has)
        BY <2>2, <2>3, <3>1 DEF PutsAstray, Misplaced
      <3>3. PICK o \in muts : o.op = "update" /\ o.id = i /\ k \in DOMAIN o.snap /\ o.snap[k].has
        BY <2>2, <2>3, <3>1, <3>2 DEF TempsInPlace
      <3>4. QED
        BY <1>1, <3>2, <3>3
    <2>4. QED
      BY <1>1, <2>3 DEF TempsInPlace, Misplaced, Lists, IsTemp, Feed
  <1>4. QED
    BY <1>2, <1>3

LEMMA TempsStep ==
  ASSUME CalendarTypes, TempsInPlace, CalendarStep
  PROVE  TempsInPlace'
  BY TempsGesture, TempsFetch, TempsServer, TempsAnswer DEF CalendarStep

-----------------------------------------------------------------------------
(* CalendarCache: lessons and tasks *)

\* K: for the entries made so far, which are tasks.
Sound(K, f) == \A i \in DOMAIN f : ~IsTemp(i) => i \in DOMAIN K /\ f[i].task = K[i]
MutSound(K, m) ==
  /\ \A k \in DOMAIN m.snap : m.snap[k].has => Sound(K, m.snap[k].items)
  /\ (m.op # "create" /\ ~IsTemp(m.id) => m.id \in DOMAIN K /\ m.val.task = K[m.id])
  /\ (m.op = "create" => -m.id \in DOMAIN K /\ m.val.task = K[-m.id])
KindsBy(K) ==
  /\ DOMAIN K = 1..(2 + made)
  /\ Sound(K, db)
  /\ \A k \in Keys : cache[k].has => Sound(K, cache[k].items)
  /\ \A k \in Keys : fetch[k].at = "answer" => Sound(K, fetch[k].items)
  /\ \A m \in muts : MutSound(K, m)

\* Everybody agrees which entries are tasks, and a mutation through the hooks
\* of the lessons is of a lesson, but for the length of a task.
Kinds ==
  /\ \E K : KindsBy(K)
  /\ \A m \in muts :
       /\ (m.api = "task" => m.val.task)
       /\ (m.op # "update" => (m.api = "task") = m.val.task)
       /\ (m.api # "task" /\ m.op # "create" /\ m.from # <<Course>> /\ ~m.val.task => dragged)

LEMMA KindsFetch ==
  ASSUME CalendarTypes, Kinds, NEW k \in Keys,
         Reply(k) \/ Land(k) \/ (\E aged \in BOOLEAN : GoTo(k, aged))
  PROVE  Kinds'
  <1>1. UNCHANGED <<db, muts, made, dragged>>
    BY DEF Reply, Land, GoTo
  <1>2. DOMAIN cache = Keys /\ DOMAIN fetch = Keys /\ db \in Entries
    BY DEF CalendarTypes
  <1>3. PICK K : KindsBy(K)
    BY DEF Kinds
  <1>4. Sound(K, db) /\ \A j \in Keys : /\ (cache[j].has => Sound(K, cache[j].items))
                                       /\ (fetch[j].at = "answer" => Sound(K, fetch[j].items))
    BY <1>3 DEF KindsBy
  <1>5. \A j \in Keys : /\ (cache'[j].has => Sound(K, cache'[j].items))
                        /\ (fetch'[j].at = "answer" => Sound(K, fetch'[j].items))
    <2>1. CASE Reply(k)
      <3>1. Sound(K, Listed(k))
        BY <1>2, <1>4, ListedFacts DEF Sound
      <3>2. fetch' = [fetch EXCEPT ![k] = Answer(fetch[k].since, Listed(k))] /\ cache' = cache
        BY <2>1 DEF Reply
      <3>3. Answer(fetch[k].since, Listed(k)).items = Listed(k)
        BY DEF Answer
      <3>4. QED
        BY <1>2, <1>4, <3>1, <3>2, <3>3
    <2>2. CASE Land(k)
      <3>1. /\ fetch[k].at = "answer" /\ cache' = [cache EXCEPT ![k] = Data(fetch[k].items)]
            /\ fetch' = [fetch EXCEPT ![k] = Idle]
        BY <2>2 DEF Land
      <3>2. Data(fetch[k].items).items = fetch[k].items /\ Idle.at # "answer"
        BY DEF Data, Idle
      <3>3. QED
        BY <1>2, <1>4, <3>1, <3>2
    <2>3. ASSUME NEW aged \in BOOLEAN, GoTo(k, aged)
          PROVE  \A j \in Keys : /\ (cache'[j].has => Sound(K, cache'[j].items))
                                 /\ (fetch'[j].at = "answer" => Sound(K, fetch'[j].items))
      <3>1. cache' = cache /\ (fetch' = fetch \/ fetch' = [fetch EXCEPT ![k] = Asked(ops)])
        BY <2>3 DEF GoTo
      <3>2. Asked(ops).at # "answer"
        BY DEF Asked
      <3>3. QED
        BY <1>2, <1>4, <3>1, <3>2
    <2>4. QED
      BY <2>1, <2>2, <2>3
  <1>6. KindsBy(K)'
    BY <1>1, <1>3, <1>5 DEF KindsBy, Sound, MutSound, IsTemp
  <1>7. QED
    BY <1>1, <1>6 DEF Kinds

LEMMA WrittenSound ==
  ASSUME NEW f \in Entries, NEW op \in {"update", "create", "delete"}, NEW i \in Ids, NEW v \in Value,
         NEW k, NEW K, Sound(K, f), ~IsTemp(i) => i \in DOMAIN K /\ v.task = K[i]
  PROVE  Sound(K, Written(op, i, v, k, f))
  <1>1. \A l \in DOMAIN Written(op, i, v, k, f) :
          \/ l = i /\ Written(op, i, v, k, f)[l] = v
          \/ l \in DOMAIN f /\ Written(op, i, v, k, f)[l] = f[l]
    <2>1. CASE op = "update"
      BY <2>1 DEF Written, Patched
    <2>2. CASE op = "create" /\ Lists(k, v)
      BY <2>2 DEF Written, Inserted
    <2>3. CASE op = "create" /\ ~Lists(k, v)
      BY <2>3 DEF Written, Inserted
    <2>4. CASE op = "delete"
      BY <2>4 DEF Written, Dropped, Restrict
    <2>5. QED
      BY <2>1, <2>2, <2>3, <2>4
  <1>2. QED
    BY <1>1 DEF Sound

LEMMA KindsGesture ==
  ASSUME CalendarTypes, Kinds, Gestures
  PROVE  Kinds'
  <1>1. PICK api, op, i, v, from : Gesture(api, op, i, v, from)
    BY DEF Gestures
  <1> DEFINE b == Begun(api, op, i, v, from)
             ks == Touches(api, op, v, from)
  <1>2. /\ muts' = {NotAlone(o) : o \in muts} \cup {b}
        /\ cache' = Expected(op, i, v, ks) /\ fetch' = Cancelled(ks) /\ UNCHANGED db
        /\ dragged' = (dragged \/ (from # <<Course>> /\ ~v.task /\ op # "create"))
        /\ api \in {"lesson", "task"} /\ op \in {"update", "create", "delete"}
        /\ i \in Ids /\ v \in Value /\ from \in Keys
    BY <1>1, GestureFacts
  <1>3. /\ b.api = api /\ b.op = op /\ b.id = i /\ b.val = v /\ b.from = from /\ DOMAIN b.snap = ks
        /\ \A k \in ks : b.snap[k] = cache[k]
    BY <1>2, BegunFacts
  <1>4. ks \subseteq Keys
    BY TouchesKeys
  <1> HIDE DEF b, ks
  <1>5. \A k \in Keys : cache[k] \in Held /\ (cache[k].has => cache[k].items \in Entries)
    BY HeldFacts DEF CalendarTypes
  <1>6. PICK K : KindsBy(K)
    BY DEF Kinds
  <1>7. made \in Nat /\ v.task \in BOOLEAN /\ (api = "task" => v.task)
        /\ (op # "update" => (api = "task") = v.task)
    BY <1>1, ValueFacts DEF CalendarTypes, Gesture
  <1>0. PICK L : L = [n \in 1..(2 + made') |-> IF n = 3 + made THEN v.task ELSE K[n]]
    OBVIOUS
  <1>8. /\ DOMAIN L = 1..(2 + made') /\ DOMAIN K \subseteq DOMAIN L
        /\ \A n \in DOMAIN K : L[n] = K[n]
        /\ (op = "create" => i = Temp(3 + made) /\ 3 + made \in DOMAIN L /\ L[3 + made] = v.task)
    <2>1. DOMAIN K = 1..(2 + made)
      BY <1>6 DEF KindsBy
    <2>2. CASE op = "create"
      <3>1. made' = made + 1 /\ i = Temp(3 + made)
        BY <1>1, <2>2 DEF Gesture
      <3>2. QED
        BY <1>0, <1>7, <2>1, <2>2, <3>1
    <2>3. CASE op # "create"
      <3>1. made' = made
        BY <1>1, <2>3 DEF Gesture
      <3>2. QED
        BY <1>0, <1>7, <2>1, <2>3, <3>1
    <2>4. QED
      BY <2>2, <2>3
  <1>9. \A f : Sound(K, f) => Sound(L, f)
    BY <1>8 DEF Sound
  <1>10. op = "create" => IsTemp(i) /\ -i \in DOMAIN L /\ v.task = L[-i]
    BY <1>7, <1>8 DEF Temp, IsTemp
  <1>11. op # "create" /\ ~IsTemp(i) => i \in DOMAIN L /\ v.task = L[i]
    <2> SUFFICES ASSUME op # "create", ~IsTemp(i) PROVE i \in DOMAIN L /\ v.task = L[i]
      OBVIOUS
    <2>1. PICK k \in Keys : /\ cache[k].has /\ i \in DOMAIN cache[k].items
                            /\ cache[k].items[i].task = v.task
      BY <1>1 DEF Gesture
    <2>2. Sound(L, cache[k].items)
      BY <1>6, <1>9, <2>1 DEF KindsBy
    <2>3. QED
      BY <2>1, <2>2 DEF Sound
  <1>12. ~IsTemp(i) => i \in DOMAIN L /\ v.task = L[i]
    BY <1>10, <1>11
  <1>13. \A k \in Keys : cache'[k].has => Sound(L, cache'[k].items)
    <2> SUFFICES ASSUME NEW k \in Keys, cache'[k].has PROVE Sound(L, cache'[k].items)
      OBVIOUS
    <2>1. cache'[k] = IF k \in ks /\ cache[k].has THEN Data(Written(op, i, v, k, cache[k].items))
                      ELSE cache[k]
      BY <1>2, ExpectedFacts
    <2>2. cache[k].has => Sound(L, cache[k].items) /\ cache[k].items \in Entries
      BY <1>5, <1>6, <1>9 DEF KindsBy
    <2>3. CASE k \in ks /\ cache[k].has
      <3>1. Sound(L, Written(op, i, v, k, cache[k].items))
        BY <1>2, <1>12, <2>2, <2>3, WrittenSound
      <3>2. QED
        BY <2>1, <2>3, <3>1 DEF Data
    <2>4. CASE ~(k \in ks /\ cache[k].has)
      BY <2>1, <2>2, <2>4
    <2>5. QED
      BY <2>3, <2>4
  <1>14. \A k \in Keys : fetch'[k].at = "answer" => Sound(L, fetch'[k].items)
    <2>1. \A k \in Keys : fetch'[k] = IF k \in ks THEN Idle ELSE fetch[k]
      BY <1>2 DEF Cancelled
    <2>2. Idle.at # "answer"
      BY DEF Idle
    <2>3. QED
      BY <1>6, <1>9, <2>1, <2>2 DEF KindsBy
  <1>15. Sound(L, db')
    BY <1>2, <1>6, <1>9 DEF KindsBy
  <1>16. ASSUME NEW o \in muts
         PROVE  MutSound(L, NotAlone(o))
    <2>1. /\ NotAlone(o).snap = o.snap /\ NotAlone(o).op = o.op /\ NotAlone(o).id = o.id
          /\ NotAlone(o).val = o.val
      BY MutsAre, NotAloneFacts
    <2>2. MutSound(K, o)
      BY <1>6 DEF KindsBy
    <2>3. QED
      BY <1>8, <1>9, <2>1, <2>2 DEF MutSound
  <1>17. MutSound(L, b)
    <2>1. \A k \in DOMAIN b.snap : b.snap[k].has => Sound(L, b.snap[k].items)
      BY <1>3, <1>4, <1>6, <1>9 DEF KindsBy
    <2>2. QED
      BY <1>3, <1>10, <1>11, <2>1 DEF MutSound
  <1>18. \A m \in muts' : MutSound(L, m)
    BY <1>2, <1>16, <1>17
  <1>19. KindsBy(L)'
    BY <1>8, <1>13, <1>14, <1>15, <1>18 DEF KindsBy, Sound, MutSound, IsTemp
  <1>20. ASSUME NEW m \in muts'
         PROVE  /\ (m.api = "task" => m.val.task)
                /\ (m.op # "update" => (m.api = "task") = m.val.task)
                /\ (m.api # "task" /\ m.op # "create" /\ m.from # <<Course>> /\ ~m.val.task => dragged')
    <2>1. CASE m = b
      BY <1>2, <1>3, <1>7, <2>1
    <2>2. ASSUME NEW o \in muts, m = NotAlone(o)
          PROVE  /\ (m.api = "task" => m.val.task)
                 /\ (m.op # "update" => (m.api = "task") = m.val.task)
                 /\ (m.api # "task" /\ m.op # "create" /\ m.from # <<Course>> /\ ~m.val.task => dragged')
      <3>1. m.api = o.api /\ m.op = o.op /\ m.val = o.val /\ m.from = o.from
        BY <2>2, MutsAre, NotAloneFacts
      <3>2. QED
        BY <1>2, <3>1 DEF Kinds
    <2>3. QED
      BY <1>2, <2>1, <2>2
  <1>21. QED
    BY <1>19, <1>20 DEF Kinds

LEMMA KindsServer ==
  ASSUME CalendarTypes, Kinds, NEW m \in muts, Apply(m) \/ Refuse(m) \/ Lose(m)
  PROVE  Kinds'
  <1>1. UNCHANGED <<cache, fetch, made, dragged>>
    BY DEF Apply, Refuse, Lose
  <1>2. PICK at \in {"sent", "done", "failed", "lost"} : Reaches(m, at)
    BY DEF Apply, Refuse, Lose
  <1>3. muts' = (muts \ {m}) \cup {Onto(m, at)}
    BY <1>2 DEF Reaches, Onto
  <1>4. /\ Onto(m, at).op = m.op /\ Onto(m, at).id = m.id /\ Onto(m, at).snap = m.snap
        /\ Onto(m, at).val = m.val /\ Onto(m, at).api = m.api /\ Onto(m, at).from = m.from
    BY MutsAre, OntoFacts
  <1>5. PICK K : KindsBy(K)
    BY DEF Kinds
  <1>6. MutSound(K, m) /\ Sound(K, db)
    BY <1>5 DEF KindsBy
  <1>7. MutSound(K, Onto(m, at))
    BY <1>4, <1>6 DEF MutSound
  <1>8. Sound(K, db')
    <2>1. CASE Apply(m)
      <3>1. Exists(m) /\ db' = Stored(m)
        BY <2>1 DEF Apply
      <3>2. m.op \in {"update", "create", "delete"}
        BY MutsAre, MutationFacts
      <3>3. CASE m.op = "update"
        <4>1. /\ DOMAIN Stored(m) = DOMAIN db
              /\ \A j \in DOMAIN db : Stored(m)[j] = IF j = m.id THEN m.val ELSE db[j]
          BY <3>1, <3>3, StoredFacts
        <4>2. QED
          BY <1>6, <3>1, <3>3, <4>1 DEF MutSound, Sound
      <3>4. CASE m.op = "create"
        <4>1. /\ DOMAIN Stored(m) = DOMAIN db \cup {-m.id}
              /\ \A j \in DOMAIN Stored(m) : Stored(m)[j] = IF j = -m.id THEN m.val ELSE db[j]
          BY <3>1, <3>4, StoredFacts
        <4>2. QED
          BY <1>6, <3>1, <3>4, <4>1 DEF MutSound, Sound
      <3>5. CASE m.op = "delete"
        <4>1. /\ DOMAIN Stored(m) = DOMAIN db \ {m.id}
              /\ \A j \in DOMAIN db \ {m.id} : Stored(m)[j] = db[j]
          BY <3>1, <3>5, StoredFacts
        <4>2. QED
          BY <1>6, <3>1, <4>1 DEF Sound
      <3>6. QED
        BY <3>2, <3>3, <3>4, <3>5
    <2>2. CASE Refuse(m) \/ Lose(m)
      BY <1>6, <2>2 DEF Refuse, Lose
    <2>3. QED
      BY <2>1, <2>2
  <1>9. \A o \in muts' : MutSound(K, o)
    BY <1>3, <1>5, <1>7 DEF KindsBy
  <1>10. KindsBy(K)'
    BY <1>1, <1>5, <1>8, <1>9 DEF KindsBy, Sound, MutSound, IsTemp
  <1>11. QED
    BY <1>1, <1>3, <1>4, <1>10 DEF Kinds

LEMMA KindsAnswer ==
  ASSUME CalendarTypes, Kinds, NEW m \in muts, Succeed(m) \/ Fail(m)
  PROVE  Kinds'
  <1>1. UNCHANGED <<db, made, dragged>> /\ muts' = muts \ {m}
    BY DEF Succeed, Fail
  <1>2. PICK K : KindsBy(K)
    BY DEF Kinds
  <1>3. DOMAIN fetch = Keys /\ view \in Keys
    BY DEF CalendarTypes
  <1>4. fetch' = fetch \/ fetch' = [fetch EXCEPT ![view] = Asked(ops)]
    BY DEF Succeed, Fail, invalidates
  <1>5. Asked(ops).at # "answer"
    BY DEF Asked
  <1>6. \A k \in Keys : fetch'[k].at = "answer" => Sound(K, fetch'[k].items)
    BY <1>2, <1>3, <1>4, <1>5 DEF KindsBy
  <1>7. \A k \in Keys : cache'[k].has => Sound(K, cache'[k].items)
    <2>1. CASE Succeed(m)
      BY <1>2, <2>1 DEF Succeed, KindsBy
    <2>2. CASE Fail(m)
      <3>1. MutSound(K, m)
        BY <1>2 DEF KindsBy
      <3>2. \A k \in Keys : IF k \in DOMAIN m.snap /\ m.snap[k].has THEN cache'[k] = m.snap[k]
                            ELSE cache'[k] = cache[k]
        BY <2>2 DEF Fail, Restored
      <3>3. QED
        BY <1>2, <3>1, <3>2 DEF MutSound, KindsBy
    <2>3. QED
      BY <2>1, <2>2
  <1>8. KindsBy(K)'
    BY <1>1, <1>2, <1>6, <1>7 DEF KindsBy, Sound, MutSound, IsTemp
  <1>9. QED
    BY <1>1, <1>8 DEF Kinds

LEMMA KindsStep ==
  ASSUME CalendarTypes, Kinds, CalendarStep
  PROVE  Kinds'
  BY KindsGesture, KindsFetch, KindsServer, KindsAnswer DEF CalendarStep

-----------------------------------------------------------------------------
(* CalendarCache: what is on screen when everything has been answered *)

\* The answer to m will refetch query k or mark it stale, or put back what the
\* server has.
Repairs(m, k) ==
  /\ k \in Invalidated(m)
  /\ \/ m.api = "task"
     \/ ~m.clean
     \/ m.at \in {"done", "lost"}
     \/ k \in DOMAIN m.snap /\ m.snap[k].has
Exempt(k) == k = <<Course>> /\ dragged

\* An answer on its way, and a query that counts as fresh, is what the server
\* has, or a mutation will repair it.
AnswersRight ==
  \A k \in Keys : fetch[k].at = "answer" /\ ~Exempt(k) =>
    \/ fetch[k].items = Listed(k)
    \/ \E m \in muts : m.at \in {"done", "lost"} /\ k \in Invalidated(m)
FreshRight ==
  \A k \in Keys : cache[k].has /\ ~stale[k] /\ ~Exempt(k) =>
    cache[k].items = Listed(k) \/ \E m \in muts : Repairs(m, k)
\* What is on screen is fresh, on its way, or will be.
ViewFresh ==
  \/ cache[view].has /\ ~stale[view]
  \/ fetch[view] # Idle
  \/ \E m \in muts : Repairs(m, view)
\* A mutation that found nothing under way is still alone, and while the server
\* has not done it what its snapshot holds is what the server has.
CleanAlone ==
  \A m \in muts : m.clean =>
    /\ muts = {m}
    /\ (m.api # "task" /\ m.at \in {"sent", "failed"} =>
          \A k \in DOMAIN m.snap : m.snap[k].has /\ ~Exempt(k) => m.snap[k].items = Listed(k))
Mended == AnswersRight /\ FreshRight /\ ViewFresh /\ CleanAlone

LEMMA SameLists ==
  ASSUME UNCHANGED db, NEW k
  PROVE  Listed(k)' = Listed(k)
  BY DEF Listed, Lists, Feed

LEMMA MendedFetch ==
  ASSUME CalendarTypes, Mended, NEW k \in Keys,
         Reply(k) \/ Land(k) \/ (\E aged \in BOOLEAN : GoTo(k, aged))
  PROVE  Mended'
  <1>1. UNCHANGED <<db, muts, spoilt, dragged>>
    BY DEF Reply, Land, GoTo
  <1>2. DOMAIN cache = Keys /\ DOMAIN fetch = Keys /\ DOMAIN stale = Keys /\ view \in Keys
        /\ stale \in [Keys -> BOOLEAN] /\ (\A j \in Keys : cache[j] \in Held)
    BY DEF CalendarTypes
  <1>3. \A j : Listed(j)' = Listed(j)
    BY <1>1, SameLists
  <1>4. \A j : Exempt(j)' = Exempt(j)
    BY <1>1 DEF Exempt
  <1>5. \A m \in muts, j \in Keys : Repairs(m, j)' = Repairs(m, j) /\ Invalidated(m)' = Invalidated(m)
    BY DEF Repairs, Invalidated
  <1>6. CleanAlone'
    BY <1>1, <1>3, <1>4 DEF Mended, CleanAlone
  <1>7. CASE Reply(k)
    <2>1. fetch' = [fetch EXCEPT ![k] = Answer(fetch[k].since, Listed(k))]
      BY <1>7 DEF Reply
    <2>2. Answer(fetch[k].since, Listed(k)).items = Listed(k) /\ Answer(fetch[k].since, Listed(k)) # Idle
      BY DEF Answer, Idle
    <2>3. UNCHANGED <<cache, stale, view>>
      BY <1>7 DEF Reply
    <2>4. AnswersRight'
      BY <1>1, <1>2, <1>3, <1>4, <1>5, <2>1, <2>2 DEF Mended, AnswersRight
    <2>5. FreshRight'
      BY <1>1, <1>3, <1>4, <1>5, <2>3 DEF Mended, FreshRight
    <2>6. ViewFresh'
      BY <1>1, <1>2, <1>5, <2>1, <2>2, <2>3 DEF Mended, ViewFresh
    <2>7. QED
      BY <1>6, <2>4, <2>5, <2>6 DEF Mended
  <1>8. CASE Land(k)
    <2>1. /\ fetch[k].at = "answer" /\ fetch' = [fetch EXCEPT ![k] = Idle] /\ view' = view
          /\ cache' = [cache EXCEPT ![k] = Data(fetch[k].items)]
          /\ stale' = [stale EXCEPT ![k] = FALSE]
      BY <1>8 DEF Land
    <2>2. Data(fetch[k].items).has = TRUE /\ Data(fetch[k].items).items = fetch[k].items
          /\ Idle.at # "answer"
      BY DEF Data, Idle
    <2>3. \A j \in Keys :
            /\ (j = k => fetch'[j] = Idle /\ cache'[j] = Data(fetch[k].items) /\ ~stale'[j])
            /\ (j # k => fetch'[j] = fetch[j] /\ cache'[j] = cache[j] /\ stale'[j] = stale[j])
      BY <1>2, <2>1
    <2>4. AnswersRight'
      BY <1>1, <1>3, <1>4, <1>5, <2>2, <2>3 DEF Mended, AnswersRight
    <2>5. FreshRight'
      <3> SUFFICES ASSUME NEW j \in Keys, cache'[j].has, ~stale'[j], ~Exempt(j)
                   PROVE  cache'[j].items = Listed(j) \/ \E m \in muts : Repairs(m, j)
        BY <1>1, <1>3, <1>4, <1>5 DEF FreshRight
      <3>1. CASE j = k
        BY <2>1, <2>2, <2>3, <3>1 DEF Mended, AnswersRight, Repairs
      <3>2. CASE j # k
        BY <2>3, <3>2 DEF Mended, FreshRight
      <3>3. QED
        BY <3>1, <3>2
    <2>6. ViewFresh'
      BY <1>1, <1>2, <1>5, <2>1, <2>2, <2>3 DEF Mended, ViewFresh
    <2>7. QED
      BY <1>6, <2>4, <2>5, <2>6 DEF Mended
  <1>9. ASSUME NEW aged \in BOOLEAN, GoTo(k, aged)
        PROVE  Mended'
    <2>1. /\ UNCHANGED <<cache, stale>> /\ view' = k
          /\ fetch' = IF fetch[k] = Idle /\ (~cache[k].has \/ stale[k] \/ aged)
                      THEN [fetch EXCEPT ![k] = Asked(ops)] ELSE fetch
      BY <1>9 DEF GoTo
    <2>2. Asked(ops).at # "answer" /\ Asked(ops) # Idle
      BY DEF Asked, Idle
    <2>3. AnswersRight'
      BY <1>1, <1>2, <1>3, <1>4, <1>5, <2>1, <2>2 DEF Mended, AnswersRight
    <2>4. FreshRight'
      BY <1>1, <1>3, <1>4, <1>5, <2>1 DEF Mended, FreshRight
    <2>5. ViewFresh'
      BY <1>2, <2>1, <2>2 DEF ViewFresh
    <2>6. QED
      BY <1>6, <2>3, <2>4, <2>5 DEF Mended
  <1>10. QED
    BY <1>7, <1>8, <1>9

LEMMA MendedGesture ==
  ASSUME CalendarTypes, Mended, Gestures
  PROVE  Mended'
  <1>1. PICK api, op, i, v, from : Gesture(api, op, i, v, from)
    BY DEF Gestures
  <1> DEFINE b == Begun(api, op, i, v, from)
             ks == Touches(api, op, v, from)
  <1>2. /\ muts' = {NotAlone(o) : o \in muts} \cup {b}
        /\ cache' = Expected(op, i, v, ks) /\ fetch' = Cancelled(ks) /\ UNCHANGED <<db, view>>
        /\ stale' = [k \in Keys |-> stale[k] /\ k \notin Renewed(op, v, ks)]
        /\ dragged' = (dragged \/ (from # <<Course>> /\ ~v.task /\ op # "create"))
        /\ api \in {"lesson", "task"} /\ op \in {"update", "create", "delete"}
        /\ i \in Ids /\ v \in Value /\ from \in Keys
    BY <1>1, GestureFacts
  <1>3. /\ DOMAIN b.snap = ks /\ b.clean = Undisturbed /\ ks \subseteq Invalidated(b)
        /\ \A k \in ks : b.snap[k] = cache[k]
    BY <1>2, BegunFacts
  <1>4. ks \subseteq Keys
    BY TouchesKeys
  <1> HIDE DEF b, ks
  <1>5. \A k \in Keys : fetch'[k] = IF k \in ks THEN Idle ELSE fetch[k]
    BY <1>2 DEF Cancelled
  <1>6. \A k \in Keys : /\ (k \notin ks => cache'[k] = cache[k])
                        /\ (cache'[k].has = cache[k].has)
    <2> SUFFICES ASSUME NEW k \in Keys
                 PROVE  (k \notin ks => cache'[k] = cache[k]) /\ (cache'[k].has = cache[k].has)
      OBVIOUS
    <2>1. cache'[k] = IF k \in ks /\ cache[k].has THEN Data(Written(op, i, v, k, cache[k].items))
                      ELSE cache[k]
      BY <1>2, ExpectedFacts
    <2>2. cache[k].has \in BOOLEAN
      BY HeldFacts DEF CalendarTypes
    <2>3. Data(Written(op, i, v, k, cache[k].items)).has = TRUE
      BY DEF Data
    <2>4. QED
      BY <2>1, <2>2, <2>3
  <1>7. \A o \in muts : /\ NotAlone(o) \in muts' /\ NotAlone(o).clean = FALSE /\ NotAlone(o).at = o.at
                        /\ Invalidated(NotAlone(o)) = Invalidated(o)
    BY <1>2, MutsAre, NotAloneFacts
  <1>8. \A o \in muts, k \in Keys : Repairs(o, k) => Repairs(NotAlone(o), k)
    BY <1>7 DEF Repairs
  <1>9. \A k \in Keys : k \in ks /\ (cache[k].has \/ ~Undisturbed) => Repairs(b, k)
    BY <1>3 DEF Repairs
  <1>10. b \in muts' /\ view \in Keys /\ view' = view
    BY <1>2 DEF CalendarTypes
  <1>11. \A k : Listed(k)' = Listed(k) /\ (Exempt(k) => Exempt(k)')
    BY <1>2, SameLists DEF Exempt
  <1>12. \A m : Invalidated(m)' = Invalidated(m)
    BY DEF Invalidated
  <1>13. AnswersRight'
    <2> SUFFICES ASSUME NEW k \in Keys, fetch'[k].at = "answer", ~Exempt(k)'
                 PROVE  \/ fetch'[k].items = Listed(k)
                        \/ \E m \in muts' : m.at \in {"done", "lost"} /\ k \in Invalidated(m)
      BY <1>11, <1>12 DEF AnswersRight
    <2>1. fetch'[k] = fetch[k]
      BY <1>5 DEF Idle
    <2>2. CASE fetch[k].items = Listed(k)
      BY <2>1, <2>2
    <2>3. CASE \E m \in muts : m.at \in {"done", "lost"} /\ k \in Invalidated(m)
      BY <1>7, <2>3
    <2>4. QED
      BY <1>11, <2>1, <2>2, <2>3 DEF Mended, AnswersRight
  <1>14. FreshRight'
    <2> SUFFICES ASSUME NEW k \in Keys, cache'[k].has, ~stale'[k], ~Exempt(k)'
                 PROVE  cache'[k].items = Listed(k) \/ \E m \in muts' : Repairs(m, k)
      BY <1>11, <1>12 DEF FreshRight, Repairs
    <2>1. CASE k \in ks
      BY <1>6, <1>9, <1>10, <2>1
    <2>2. CASE k \notin ks
      <3>1. ~stale[k]
        BY <1>2, <2>2 DEF Renewed
      <3>2. QED
        BY <1>6, <1>7, <1>8, <1>11, <2>2, <3>1 DEF Mended, FreshRight
    <2>3. QED
      BY <2>1, <2>2
  <1>15. ViewFresh'
    <2> SUFFICES \/ cache'[view].has /\ ~stale'[view]
                 \/ fetch'[view] # Idle
                 \/ \E m \in muts' : Repairs(m, view)
      BY <1>10, <1>12 DEF ViewFresh, Repairs
    <2>1. CASE cache[view].has /\ ~stale[view]
      BY <1>2, <1>6, <1>10, <2>1
    <2>2. CASE fetch[view] # Idle
      <3>1. ~Undisturbed
        BY <1>10, <2>2 DEF Undisturbed
      <3>2. QED
        BY <1>5, <1>9, <1>10, <2>2, <3>1
    <2>3. CASE \E m \in muts : Repairs(m, view)
      BY <1>7, <1>8, <1>10, <2>3
    <2>4. QED
      BY <2>1, <2>2, <2>3 DEF Mended, ViewFresh
  <1>16. CleanAlone'
    <2> SUFFICES ASSUME NEW m \in muts', m.clean
                 PROVE  /\ muts' = {m}
                        /\ \A k \in DOMAIN m.snap : m.snap[k].has /\ ~Exempt(k)' =>
                             m.snap[k].items = Listed(k)
      BY <1>11 DEF CleanAlone
    <2>1. m = b
      BY <1>2, <1>7
    <2>2. Undisturbed
      BY <1>3, <2>1
    <2>3. muts = {} /\ \A k \in Keys : ~stale[k]
      BY <2>2 DEF Undisturbed
    <2>4. \A k \in ks : cache[k].has /\ ~Exempt(k)' => cache[k].items = Listed(k)
      BY <1>4, <1>11, <2>3 DEF Mended, FreshRight
    <2>5. muts' = {m}
      BY <1>2, <2>1, <2>3
    <2>6. QED
      BY <1>3, <2>1, <2>4, <2>5
  <1>17. QED
    BY <1>13, <1>14, <1>15, <1>16 DEF Mended

\* A list that shows the entry neither before nor after is the same list.
LEMMA StoredLists ==
  ASSUME CalendarTypes, NEW m \in muts, Exists(m), db' = Stored(m), NEW k, ~Lists(k, m.val),
         LET e == IF m.op = "create" THEN -m.id ELSE m.id IN e \in DOMAIN db => ~Lists(k, db[e])
  PROVE  Listed(k)' = Listed(k)
  <1> DEFINE e == IF m.op = "create" THEN -m.id ELSE m.id
  <1>1. m.op \in {"update", "create", "delete"}
    BY MutsAre, MutationFacts
  <1>2. /\ \A i \in DOMAIN db : i # e => i \in DOMAIN db' /\ db'[i] = db[i]
        /\ \A i \in DOMAIN db' : i # e => i \in DOMAIN db /\ db'[i] = db[i]
        /\ (e \in DOMAIN db' => db'[e] = m.val)
    <2>1. CASE m.op = "update"
      <3>1. e = m.id
        BY <2>1
      <3>2. /\ DOMAIN db' = DOMAIN db
            /\ \A j \in DOMAIN db : db'[j] = IF j = m.id THEN m.val ELSE db[j]
        BY <2>1, StoredFacts
      <3> HIDE DEF e
      <3>3. QED
        BY <3>1, <3>2
    <2>2. CASE m.op = "create"
      <3>1. e = -m.id
        BY <2>2
      <3>2. /\ DOMAIN db' = DOMAIN db \cup {-m.id}
            /\ \A j \in DOMAIN db' : db'[j] = IF j = -m.id THEN m.val ELSE db[j]
        BY <2>2, StoredFacts
      <3> HIDE DEF e
      <3>3. QED
        BY <3>1, <3>2
    <2>3. CASE m.op = "delete"
      <3>1. e = m.id
        BY <2>3
      <3>2. /\ DOMAIN db' = DOMAIN db \ {m.id}
            /\ \A j \in DOMAIN db \ {m.id} : db'[j] = db[j]
        BY <2>3, StoredFacts
      <3> HIDE DEF e
      <3>3. QED
        BY <3>1, <3>2
    <2>4. QED
      BY <1>1, <2>1, <2>2, <2>3
  <1>3. e \in DOMAIN db => ~Lists(k, db[e])
    OBVIOUS
  <1> HIDE DEF e
  <1>4. {i \in DOMAIN db' : Lists(k, db'[i])} = {i \in DOMAIN db : Lists(k, db[i])}
    BY <1>2, <1>3
  <1>5. \A i \in {j \in DOMAIN db : Lists(k, db[j])} : db'[i] = db[i]
    BY <1>2, <1>3
  <1> DEFINE S == {i \in DOMAIN db : Lists(k, db[i])}
  <1>6. Listed(k)' = [i \in S |-> db'[i]]
    BY <1>4 DEF Listed, Restrict, Lists, Feed
  <1>7. Listed(k) = [i \in S |-> db[i]]
    BY DEF Listed, Restrict
  <1> HIDE DEF S
  <1>8. \A i \in S : db'[i] = db[i]
    BY <1>5 DEF S
  <1>9. QED
    BY <1>6, <1>7, <1>8

\* The server does a mutation: a list that its answer does not refetch stays
\* as it was, but for the course page.
LEMMA StoredElsewhere ==
  ASSUME CalendarTypes, Kinds, NEW m \in muts, Exists(m), db' = Stored(m),
         NEW k \in Keys, k \notin Invalidated(m), ~Exempt(k)
  PROVE  Listed(k)' = Listed(k)
  <1>1. PICK K : KindsBy(K)
    BY DEF Kinds
  <1>2. MutSound(K, m) /\ Sound(K, db)
    BY <1>1 DEF KindsBy
  <1>3. m.op \in {"update", "create", "delete"} /\ m.api \in {"lesson", "task"} /\ m.val \in Value
        /\ m.id \in Ids /\ (m.op = "create" => IsTemp(m.id))
    BY MutsAre, MutationFacts DEF CalendarTypes
  <1>4. m.val.task \in BOOLEAN
    BY <1>3, ValueFacts
  <1>5. \A i \in DOMAIN db : ~IsTemp(i)
    BY DEF CalendarTypes
  <1> DEFINE e == IF m.op = "create" THEN -m.id ELSE m.id
  <1>6. k = <<Board>> \/ k = <<Course>>
    BY KeyFacts, InvalidatedKeys
  <1>7. e \in DOMAIN db => db[e].task = m.val.task
    BY <1>2, <1>5 DEF Sound, MutSound
  <1>8. m.op # "create" => m.id \in DOMAIN db /\ db[m.id].task = (m.api = "task")
    BY DEF Exists
  <1>9. /\ (m.api = "task" => m.val.task)
        /\ (m.op # "update" => (m.api = "task") = m.val.task)
        /\ (m.api # "task" /\ m.op # "create" /\ m.from # <<Course>> /\ ~m.val.task => dragged)
    BY DEF Kinds
  <1>10. m.val.task = (m.api = "task")
    BY <1>3, <1>4, <1>7, <1>8, <1>9
  <1>11. \A v : Lists(<<Board>>, v) = v.task /\ Lists(<<Course>>, v) = ~v.task
    BY KeyFacts DEF Lists
  <1>12. CASE k = <<Board>>
    <2>1. m.api # "task"
      BY <1>12 DEF Invalidated
    <2>2. ~m.val.task
      BY <1>10, <2>1
    <2>3. ~Lists(k, m.val) /\ (e \in DOMAIN db => ~Lists(k, db[e]))
      BY <1>7, <1>11, <1>12, <2>2
    <2> HIDE DEF e
    <2>4. QED
      BY <2>3, StoredLists DEF e
  <1>13. CASE k = <<Course>>
    <2>1. m.val.task
      <3>1. CASE m.api = "task"
        BY <1>9, <3>1
      <3>2. CASE m.api # "task"
        BY <1>9, <1>13, <3>2 DEF Invalidated, Exempt
      <3>3. QED
        BY <3>1, <3>2
    <2>2. ~Lists(k, m.val) /\ (e \in DOMAIN db => ~Lists(k, db[e]))
      BY <1>7, <1>11, <1>13, <2>1
    <2>3. QED
      BY <2>2, StoredLists DEF e
  <1>14. QED
    BY <1>6, <1>12, <1>13

LEMMA MendedServer ==
  ASSUME CalendarTypes, Kinds, Mended, NEW m \in muts, Apply(m) \/ Refuse(m) \/ Lose(m)
  PROVE  Mended'
  <1>1. UNCHANGED <<cache, stale, fetch, view, dragged>>
    BY DEF Apply, Refuse, Lose
  <1>2. PICK at \in {"sent", "done", "failed", "lost"} :
          /\ Reaches(m, at)
          /\ \/ at = "done" /\ m.at = "sent" /\ Exists(m) /\ db' = Stored(m)
             \/ at = "failed" /\ m.at = "sent" /\ UNCHANGED db
             \/ at = "lost" /\ m.at = "done" /\ UNCHANGED db
    BY DEF Apply, Refuse, Lose
  <1> DEFINE n == Onto(m, at)
  <1>3. muts' = (muts \ {m}) \cup {n}
    BY <1>2 DEF Reaches, Onto
  <1>4. /\ n.at = at /\ n.snap = m.snap /\ n.clean = m.clean /\ n.api = m.api
        /\ Invalidated(n) = Invalidated(m)
    BY MutsAre, OntoFacts
  <1> HIDE DEF n
  <1>5. \A j : Exempt(j)' = Exempt(j)
    BY <1>1 DEF Exempt
  <1>6. \A o : Invalidated(o)' = Invalidated(o)
    BY DEF Invalidated
  <1>7. \A o, j : Repairs(o, j)' = Repairs(o, j)
    BY DEF Repairs, Invalidated
  <1>8. n \in muts' /\ view \in Keys /\ \A o \in muts \ {m} : o \in muts'
    BY <1>3 DEF CalendarTypes
  <1>9. \A j \in Keys : (\E o \in muts : Repairs(o, j)) => \E o \in muts' : Repairs(o, j)
    BY <1>2, <1>4, <1>8 DEF Repairs
  <1>10. \A j \in Keys : (\E o \in muts : o.at \in {"done", "lost"} /\ j \in Invalidated(o)) =>
                         (\E o \in muts' : o.at \in {"done", "lost"} /\ j \in Invalidated(o))
    BY <1>2, <1>4, <1>8
  <1>11. ASSUME NEW j \in Keys, ~Exempt(j)
         PROVE  \/ Listed(j)' = Listed(j)
                \/ n.at \in {"done", "lost"} /\ j \in Invalidated(n)
    <2>1. CASE UNCHANGED db
      BY <2>1, SameLists
    <2>2. CASE at = "done" /\ Exists(m) /\ db' = Stored(m)
      BY <1>4, <1>11, <2>2, StoredElsewhere
    <2>3. QED
      BY <1>2, <2>1, <2>2
  <1>12. AnswersRight'
    <2> SUFFICES ASSUME NEW j \in Keys, fetch[j].at = "answer", ~Exempt(j)
                 PROVE  \/ fetch[j].items = Listed(j)'
                        \/ \E o \in muts' : o.at \in {"done", "lost"} /\ j \in Invalidated(o)
      BY <1>1, <1>5, <1>6 DEF AnswersRight
    <2>1. QED
      BY <1>8, <1>10, <1>11 DEF Mended, AnswersRight
  <1>13. FreshRight'
    <2> SUFFICES ASSUME NEW j \in Keys, cache[j].has, ~stale[j], ~Exempt(j)
                 PROVE  cache[j].items = Listed(j)' \/ \E o \in muts' : Repairs(o, j)
      BY <1>1, <1>5, <1>7 DEF FreshRight
    <2>1. n.at \in {"done", "lost"} /\ j \in Invalidated(n) => Repairs(n, j)
      BY DEF Repairs
    <2>2. QED
      BY <1>8, <1>9, <1>11, <2>1 DEF Mended, FreshRight
  <1>14. ViewFresh'
    BY <1>1, <1>7, <1>8, <1>9 DEF Mended, ViewFresh
  <1>15. CleanAlone'
    <2> SUFFICES ASSUME NEW o \in muts', o.clean
                 PROVE  /\ muts' = {o}
                        /\ (o.api # "task" /\ o.at \in {"sent", "failed"} =>
                             \A k \in DOMAIN o.snap : o.snap[k].has /\ ~Exempt(k) =>
                               o.snap[k].items = Listed(k)')
      BY <1>5 DEF CleanAlone
    <2>1. m.clean
      <3>1. CASE o = n
        BY <1>4, <3>1
      <3>2. CASE o \in muts \ {m}
        BY <3>2 DEF Mended, CleanAlone
      <3>3. QED
        BY <1>3, <3>1, <3>2
    <2>2. muts = {m}
      BY <2>1 DEF Mended, CleanAlone
    <2>3. o = n /\ muts' = {o}
      BY <1>3, <2>2
    <2>4. ASSUME o.api # "task", o.at \in {"sent", "failed"}, NEW k \in DOMAIN o.snap,
                 o.snap[k].has, ~Exempt(k)
          PROVE  o.snap[k].items = Listed(k)'
      <3>1. at = "failed" /\ m.at = "sent" /\ UNCHANGED db
        BY <1>2, <1>4, <2>3, <2>4
      <3>2. m.snap[k].items = Listed(k)
        BY <1>4, <2>1, <2>3, <2>4, <3>1 DEF Mended, CleanAlone
      <3>3. QED
        BY <1>4, <2>3, <3>1, <3>2, SameLists
    <2>5. QED
      BY <2>3, <2>4
  <1>16. QED
    BY <1>12, <1>13, <1>14, <1>15 DEF Mended

\* An answer that refetches what the mutation touches.
LEMMA MendedRefetch ==
  ASSUME CalendarTypes, Mended, NEW m \in muts, muts' = muts \ {m},
         UNCHANGED <<db, view, dragged>>, invalidates(Invalidated(m)),
         ~Overtaken(Invalidated(m)),
         \A k \in Keys : k \in Invalidated(m) => stale'[k],
         \A k \in Keys : k \notin Invalidated(m) => cache'[k] = cache[k] /\ (stale'[k] = stale[k])
  PROVE  Mended'
  <1>1. DOMAIN fetch = Keys /\ view \in Keys /\ (\A k \in Keys : IsFetch(fetch[k]))
        /\ (\A k \in Keys : cache[k] \in Held)
    BY DEF CalendarTypes
  <1>2. Invalidated(m) \subseteq Keys
    BY InvalidatedKeys
  <1>3. \A j : Exempt(j)' = Exempt(j)
    BY DEF Exempt
  <1>4. \A o : Invalidated(o)' = Invalidated(o)
    BY DEF Invalidated
  <1>5. \A o, j : Repairs(o, j)' = Repairs(o, j)
    BY DEF Repairs, Invalidated
  <1>6. \A j : Listed(j)' = Listed(j)
    BY SameLists
  <1>7. Asked(ops).at = "asked" /\ Asked(ops) # Idle /\ Idle.at # "answer"
    BY DEF Asked, Idle
  <1>8. fetch' = IF view \in Invalidated(m) /\ (cache[view].has \/ fetch[view] = Idle)
                 THEN [fetch EXCEPT ![view] = Asked(ops)] ELSE fetch
    BY DEF invalidates
  <1>9. \A k \in Keys : k \notin Invalidated(m) => fetch'[k] = fetch[k]
    BY <1>1, <1>8
  <1>10. \A k \in Invalidated(m) : fetch'[k].at # "answer"
    <2> SUFFICES ASSUME NEW k \in Invalidated(m) PROVE fetch'[k].at # "answer"
      OBVIOUS
    <2>1. fetch[k].at = "answer" => k = view /\ cache[k].has
      BY DEF Overtaken
    <2>2. QED
      BY <1>1, <1>2, <1>7, <1>8, <2>1
  <1>11. AnswersRight'
    <2> SUFFICES ASSUME NEW j \in Keys, fetch'[j].at = "answer", ~Exempt(j)
                 PROVE  \/ fetch'[j].items = Listed(j)
                        \/ \E o \in muts' : o.at \in {"done", "lost"} /\ j \in Invalidated(o)
      BY <1>3, <1>4, <1>6 DEF AnswersRight
    <2>1. j \notin Invalidated(m) /\ fetch'[j] = fetch[j]
      BY <1>9, <1>10
    <2>2. QED
      BY <2>1 DEF Mended, AnswersRight
  <1>12. FreshRight'
    <2> SUFFICES ASSUME NEW j \in Keys, cache'[j].has, ~stale'[j], ~Exempt(j)
                 PROVE  cache'[j].items = Listed(j) \/ \E o \in muts' : Repairs(o, j)
      BY <1>3, <1>5, <1>6 DEF FreshRight
    <2>1. j \notin Invalidated(m)
      OBVIOUS
    <2>2. cache'[j] = cache[j] /\ ~stale[j] /\ ~Repairs(m, j)
      BY <2>1 DEF Repairs
    <2>3. QED
      BY <2>2 DEF Mended, FreshRight
  <1>13. ViewFresh'
    <2>1. CASE view \in Invalidated(m)
      BY <1>1, <1>7, <1>8, <2>1 DEF ViewFresh
    <2>2. CASE view \notin Invalidated(m)
      <3>1. cache'[view] = cache[view] /\ stale'[view] = stale[view] /\ fetch'[view] = fetch[view]
            /\ ~Repairs(m, view)
        BY <1>1, <1>9, <2>2 DEF Repairs
      <3>2. QED
        BY <1>5, <3>1 DEF Mended, ViewFresh
    <2>3. QED
      BY <2>1, <2>2
  <1>14. CleanAlone'
    <2> SUFFICES ASSUME NEW o \in muts', o.clean PROVE FALSE
      BY DEF CleanAlone
    <2>1. QED
      BY DEF Mended, CleanAlone
  <1>15. QED
    BY <1>11, <1>12, <1>13, <1>14 DEF Mended

\* A lesson that was refused, and was alone: the snapshot is right.
LEMMA MendedRestore ==
  ASSUME CalendarTypes, Mended, NEW m \in muts, Fail(m), m.api # "task", m.at # "lost", m.clean
  PROVE  Mended'
  <1>1. /\ muts = {m} /\ m.at = "failed"
        /\ \A k \in DOMAIN m.snap : m.snap[k].has /\ ~Exempt(k) => m.snap[k].items = Listed(k)
    BY DEF Mended, CleanAlone, Fail
  <1>2. muts' = {} /\ UNCHANGED <<db, view, dragged>>
    BY <1>1 DEF Fail
  <1>3. fetch' = fetch
    BY DEF Fail, AfterFailure, invalidates
  <1>4. \A k \in Keys : IF k \in DOMAIN m.snap /\ m.snap[k].has THEN cache'[k] = m.snap[k] /\ ~stale'[k]
                        ELSE cache'[k] = cache[k] /\ (stale'[k] = stale[k])
    BY DEF Fail, AfterFailure, Restored, CalendarTypes
  <1>5. \A j : Exempt(j)' = Exempt(j) /\ Listed(j)' = Listed(j)
    BY <1>2, SameLists DEF Exempt
  <1>6. \A k : Repairs(m, k) => k \in DOMAIN m.snap /\ m.snap[k].has
    BY <1>1 DEF Repairs
  <1>7. AnswersRight'
    BY <1>1, <1>3, <1>5 DEF Mended, AnswersRight
  <1>8. FreshRight'
    BY <1>1, <1>4, <1>5, <1>6 DEF Mended, FreshRight
  <1>9. ViewFresh'
    <2>1. view \in Keys /\ view' = view
      BY <1>2 DEF CalendarTypes
    <2>2. QED
      BY <1>1, <1>3, <1>4, <1>6, <2>1 DEF Mended, ViewFresh
  <1>10. CleanAlone'
    BY <1>2 DEF CleanAlone
  <1>11. QED
    BY <1>7, <1>8, <1>9, <1>10 DEF Mended

LEMMA MendedAnswer ==
  ASSUME CalendarTypes, Mended, NEW m \in muts, Succeed(m) \/ Fail(m), ~spoilt'
  PROVE  Mended'
  <1>1. stale \in [Keys -> BOOLEAN] /\ DOMAIN m.snap \subseteq Invalidated(m) /\ m.clean \in BOOLEAN
    BY MutsAre DEF CalendarTypes
  <1>2. CASE Succeed(m)
    <2>1. /\ muts' = muts \ {m} /\ UNCHANGED <<db, view, dragged, cache>>
          /\ invalidates(Invalidated(m)) /\ ~Overtaken(Invalidated(m))
          /\ stale' = [k \in Keys |-> stale[k] \/ k \in Invalidated(m)]
      BY <1>2 DEF Succeed
    <2>2. /\ \A k \in Keys : k \in Invalidated(m) => stale'[k]
          /\ \A k \in Keys : k \notin Invalidated(m) => (stale'[k] = stale[k])
      BY <1>1, <2>1
    <2>3. QED
      BY <2>1, <2>2, MendedRefetch
  <1>3. CASE Fail(m) /\ m.api = "task"
    <2>1. AfterFailure(m) = Invalidated(m)
      BY <1>3 DEF AfterFailure
    <2>2. /\ muts' = muts \ {m} /\ UNCHANGED <<db, view, dragged>>
          /\ invalidates(Invalidated(m)) /\ ~Overtaken(Invalidated(m))
      BY <1>3, <2>1 DEF Fail
    <2>3. /\ \A k \in Keys : k \in Invalidated(m) => stale'[k]
          /\ \A k \in Keys : k \notin Invalidated(m) => cache'[k] = cache[k] /\ (stale'[k] = stale[k])
      BY <1>1, <1>3, <2>1 DEF Fail, Restored
    <2>4. QED
      BY <2>2, <2>3, MendedRefetch
  <1>4. CASE Fail(m) /\ m.api # "task"
    <2>1. m.at # "lost" /\ m.clean
      BY <1>1, <1>4 DEF Fail
    <2>2. QED
      BY <1>4, <2>1, MendedRestore
  <1>5. QED
    BY <1>2, <1>3, <1>4

LEMMA MendedStep ==
  ASSUME CalendarTypes, Kinds, ~spoilt => Mended, CalendarStep, ~spoilt'
  PROVE  Mended'
  <1>1. ~spoilt
    BY GestureFacts DEF CalendarStep, Gestures, Reply, Land, GoTo, Apply, Refuse, Lose, Succeed, Fail
  <1>2. QED
    BY <1>1, MendedGesture, MendedFetch, MendedServer, MendedAnswer DEF CalendarStep

-----------------------------------------------------------------------------
(* CalendarCache: theorems *)

CalendarInv ==
  CalendarTypes /\ NoOldAnswer /\ TempsInPlace /\ Kinds /\ (~spoilt => Mended)

LEMMA CalendarInitial ==
  ASSUME CalendarInit
  PROVE  CalendarInv
  <1>1. PICK s \in Slots, t \in Slots :
          db = [i \in Old |-> [task |-> i = 2, slot |-> IF i = 2 THEN t ELSE s, done |-> FALSE]]
    BY DEF CalendarInit
  <1>2. /\ view \in Keys
        /\ cache = [k \in Keys |-> IF k = view THEN Data(Listed(k)) ELSE NoData]
        /\ stale = [k \in Keys |-> FALSE] /\ fetch = [k \in Keys |-> Idle]
        /\ muts = {} /\ made = 0 /\ ops = 0 /\ spoilt = FALSE /\ dragged = FALSE
    BY DEF CalendarInit
  <1>3. Old = 1..2 /\ DOMAIN db = Old
    BY <1>1 DEF Old
  <1>4. \A i \in Old : db[i] \in Value /\ (db[i].task = (i = 2))
    <2> SUFFICES ASSUME NEW i \in Old PROVE db[i] \in Value /\ (db[i].task = (i = 2))
      OBVIOUS
    <2>1. CASE i = 2
      <3>1. db[i] = [task |-> i = 2, slot |-> t, done |-> FALSE]
        BY <1>1, <2>1
      <3>2. (i = 2) = TRUE
        BY <2>1
      <3>3. db[i] = [task |-> TRUE, slot |-> t, done |-> FALSE]
        BY <3>1, <3>2
      <3>4. [task |-> TRUE, slot |-> t, done |-> FALSE] \in Value
        BY ValueFacts
      <3>5. db[i] \in Value /\ db[i].task = TRUE
        BY <3>3, <3>4
      <3>6. QED
        BY <3>2, <3>5
    <2>2. CASE i # 2
      <3>1. db[i] = [task |-> i = 2, slot |-> s, done |-> FALSE]
        BY <1>1, <2>2
      <3>2. (i = 2) = FALSE
        BY <2>2
      <3>3. db[i] = [task |-> FALSE, slot |-> s, done |-> FALSE]
        BY <3>1, <3>2
      <3>4. [task |-> FALSE, slot |-> s, done |-> FALSE] \in Value
        BY ValueFacts
      <3>5. db[i] \in Value /\ db[i].task = FALSE
        BY <3>3, <3>4
      <3>6. QED
        BY <3>2, <3>5
    <2>3. QED
      BY <2>1, <2>2
  <1>5. db \in Entries /\ \A i \in DOMAIN db : ~IsTemp(i)
    <2>1. db \in [Old -> Value]
      BY <1>1, <1>3, <1>4
    <2>2. QED
      BY <1>3, <2>1, EntriesFacts, IdFacts
  <1>6. \A k : Listed(k) \in Entries /\ DOMAIN Listed(k) \subseteq DOMAIN db
               /\ \A i \in DOMAIN Listed(k) : Listed(k)[i] = db[i]
    BY <1>5, ListedFacts
  <1>7. cache \in [Keys -> Held]
    BY <1>2, <1>6, HeldFacts
  <1>8. CalendarTypes
    <2>1. ops \in Nat /\ made \in Nat /\ made <= ops /\ ops <= MaxOps
      BY <1>2, CalendarAssumption
    <2>2. DOMAIN fetch = Keys /\ (\A k \in Keys : IsFetch(fetch[k])) /\ stale \in [Keys -> BOOLEAN]
      BY <1>2, FetchFacts
    <2>3. spoilt \in BOOLEAN /\ dragged \in BOOLEAN
      BY <1>2
    <2>4. QED
      BY <1>2, <1>5, <1>7, <2>1, <2>2, <2>3 DEF CalendarTypes
  <1>9. \A k \in Keys : /\ (cache[k].has => k = view /\ cache[k].items = Listed(k))
                        /\ fetch[k] = Idle /\ ~stale[k]
    BY <1>2 DEF Data, NoData
  <1>10. cache[view].has
    BY <1>2 DEF Data
  <1>11. NoOldAnswer
    BY <1>2 DEF NoOldAnswer
  <1>12. TempsInPlace
    BY <1>2, <1>5, <1>6, <1>9 DEF TempsInPlace, Misplaced
  <1>13. Kinds
    <2> DEFINE K == [i \in 1..2 |-> (i = 2)]
    <2>1. DOMAIN K = 1..(2 + made)
      BY <1>2
    <2>2. Sound(K, db)
      BY <1>3, <1>4 DEF Sound
    <2> HIDE DEF K
    <2>3. \A k : Sound(K, Listed(k))
      BY <1>6, <2>2 DEF Sound
    <2>4. Idle.at # "answer"
      BY DEF Idle
    <2>5. KindsBy(K)
      BY <1>2, <1>9, <2>1, <2>2, <2>3, <2>4 DEF KindsBy
    <2>6. QED
      BY <1>2, <2>5 DEF Kinds
  <1>14. Mended
    <2>1. Idle.at # "answer"
      BY DEF Idle
    <2>2. QED
      BY <1>2, <1>9, <1>10, <2>1 DEF Mended, AnswersRight, FreshRight, ViewFresh, CleanAlone
  <1>15. QED
    BY <1>8, <1>11, <1>12, <1>13, <1>14 DEF CalendarInv

LEMMA CalendarStutter ==
  ASSUME CalendarInv, UNCHANGED calendarVars
  PROVE  CalendarInv'
  <1>1. UNCHANGED <<db, cache, stale, fetch, view, muts, made, ops, spoilt, strayed, dragged>>
    BY DEF calendarVars
  <1>2. CalendarTypes'
    BY <1>1 DEF CalendarInv, CalendarTypes, IsTemp, IsFetch, Invalidated
  <1>3. NoOldAnswer'
    BY <1>1 DEF CalendarInv, NoOldAnswer
  <1>4. TempsInPlace'
    BY <1>1 DEF CalendarInv, TempsInPlace, Misplaced, Lists, IsTemp, Feed
  <1>5. Kinds'
    <2>1. PICK K : KindsBy(K)
      BY DEF CalendarInv, Kinds
    <2>2. KindsBy(K)'
      BY <1>1, <2>1 DEF KindsBy, Sound, MutSound, IsTemp
    <2>3. QED
      BY <1>1, <2>2 DEF CalendarInv, Kinds
  <1>6. \A j : Listed(j)' = Listed(j)
    BY <1>1, SameLists
  <1>7. Mended' <=> Mended
    BY <1>1, <1>6 DEF Mended, AnswersRight, FreshRight, ViewFresh, CleanAlone, Exempt, Repairs,
                      Invalidated
  <1>8. QED
    BY <1>1, <1>2, <1>3, <1>4, <1>5, <1>7 DEF CalendarInv

\* Whatever the server refuses, loses or does late, and whatever the person
\* does in the meantime, each list that is wrong has a mutation under way that
\* will repair it.
THEOREM CalendarInvariant == CalendarSpec => []CalendarInv
  <1>1. CalendarInv /\ [CalendarNext]_calendarVars => CalendarInv'
    <2> SUFFICES ASSUME CalendarInv, [CalendarNext]_calendarVars PROVE CalendarInv'
      OBVIOUS
    <2>1. CASE CalendarNext
      <3>1. CalendarStep /\ CalendarTypes
        BY <2>1, CalendarSteps DEF CalendarInv
      <3>2. CalendarTypes' /\ NoOldAnswer' /\ TempsInPlace' /\ Kinds'
        BY <3>1, CalendarTypesStep, NoOldAnswerStep, TempsStep, KindsStep DEF CalendarInv
      <3>3. (~spoilt => Mended)'
        BY <3>1, MendedStep DEF CalendarInv
      <3>4. QED
        BY <3>2, <3>3 DEF CalendarInv
    <2>2. CASE UNCHANGED calendarVars
      BY <2>2, CalendarStutter
    <2>3. QED
      BY <2>1, <2>2
  <1>2. CalendarInit => CalendarInv
    BY CalendarInitial
  <1>3. QED
    BY <1>1, <1>2, PTL DEF CalendarSpec

\* However many mutations are under way: at rest, what is on screen and what
\* counts as fresh is what the server has, but for the failures and the course
\* page that Settled names.
THEOREM RestIsRight == CalendarSpec => []Settled
  <1>1. CalendarInv => Settled
    <2> SUFFICES ASSUME CalendarInv PROVE Settled
      OBVIOUS
    <2>1. CalendarTypes
      BY DEF CalendarInv
    <2>2. CalendarTypeOK
      <3>1. DOMAIN db \subseteq Old \cup Created /\ \A i \in DOMAIN db : db[i] \in Value
        BY <2>1, EntriesFacts, IdFacts DEF CalendarTypes
      <3>2. ASSUME NEW k \in Keys, cache[k].has
            PROVE  DOMAIN cache[k].items \subseteq Ids /\ Range(cache[k].items) \subseteq Value
        <4>1. cache[k].items \in Entries
          BY <2>1, <3>2, HeldFacts DEF CalendarTypes
        <4>2. DOMAIN cache[k].items \subseteq Ids
              /\ \A i \in DOMAIN cache[k].items : cache[k].items[i] \in Value
          BY <4>1, EntriesFacts
        <4>3. QED
          BY <4>2 DEF Range
      <3>3. DOMAIN cache = Keys /\ stale \in [Keys -> BOOLEAN] /\ view \in Keys
        BY <2>1 DEF CalendarTypes
      <3>4. QED
        BY <3>1, <3>2, <3>3 DEF CalendarTypeOK
    <2>3. ASSUME AtRest, ~spoilt, NEW k \in Keys
          PROVE  \/ k = <<Course>> /\ dragged
                 \/ k # view /\ (stale[k] \/ ~cache[k].has)
                 \/ True(k)
      <3>1. muts = {} /\ fetch[k] = Idle /\ Mended
        BY <2>3 DEF AtRest, CalendarInv
      <3>2. cache[k].has /\ ~stale[k] => Exempt(k) \/ True(k)
        BY <3>1 DEF Mended, FreshRight, True
      <3>3. k = view => cache[k].has /\ ~stale[k]
        BY <3>1 DEF Mended, ViewFresh
      <3>4. QED
        BY <3>2, <3>3 DEF Exempt
    <2>4. QED
      BY <2>2, <2>3 DEF Settled
  <1>2. QED
    BY <1>1, CalendarInvariant, PTL

\* However many mutations and pages: an answer never overtakes the change that
\* was made after its question.
THEOREM NoAnswerIsOlder == CalendarSpec => []NoOldAnswer
  <1>1. CalendarInv => NoOldAnswer
    BY DEF CalendarInv
  <1>2. QED
    BY <1>1, CalendarInvariant, PTL

\* However many mutations: an entry the server has not confirmed is where it
\* belongs, but for the exceptions TempInItsPlace names.
THEOREM TempsStayInPlace == CalendarSpec => []TempInItsPlace
  <1>1. CalendarInv => TempInItsPlace
    <2> SUFFICES ASSUME CalendarInv, NEW k \in Keys, cache[k].has, NEW i \in DOMAIN cache[k].items,
                        IsTemp(i)
                 PROVE  \/ Lists(k, cache[k].items[i])
                        \/ \E m \in muts : m.op = "update" /\ m.id = i
                        \/ <<k, i>> \in strayed
      BY DEF TempInItsPlace
    <2>1. i \in Ids
      BY HeldFacts, EntriesFacts DEF CalendarInv, CalendarTypes
    <2>2. QED
      BY <2>1 DEF CalendarInv, TempsInPlace, Misplaced
  <1>2. QED
    BY <1>1, CalendarInvariant, PTL

-----------------------------------------------------------------------------
(* CallLesson: types *)

\* The interval that intervalRef holds is alive.
HeldTicks == timers.held => timers.ticking > 0

\* Each "open" that waits for the board is a click of the tutor.
WaitingCounted == tutor.waiting <= clicks

CallTypes == CallTypeOK /\ HeldTicks /\ WaitingCounted

\* What the tutor's tab sends to the room.
Ops == {"auto", "open", "close"}

LEMMA FreshTypes ==
  /\ FreshGuest \in GuestRoom
  /\ \A hasBoard \in BOOLEAN : \A page \in {"away", "opening", "started", "room"} :
       FreshTutor(page, hasBoard) \in TutorPage /\ FreshTutor(page, hasBoard).waiting = 0
  <1>1. 0 \in 0..MaxClicks
    BY CallAssumption
  <1>2. FreshGuest \in GuestRoom
    BY DEF FreshGuest, GuestRoom
  <1>3. ASSUME NEW hasBoard \in BOOLEAN, NEW page \in {"away", "opening", "started", "room"}
        PROVE  FreshTutor(page, hasBoard) \in TutorPage /\ FreshTutor(page, hasBoard).waiting = 0
    BY <1>1 DEF FreshTutor, TutorPage
  <1>4. QED
    BY <1>2, <1>3

\* What the effect publishes, and what a publication leaves in the queues.
LEMMA AnnouncementType ==
  ASSUME NEW t \in TutorPage
  PROVE  /\ Announcement(t) \in Seq(Ops)
         /\ Announced(t) \in TutorPage
         /\ Announced(t).waiting = t.waiting
  <1>1. <<"auto">> \in Seq(Ops) /\ <<>> \in Seq(Ops)
    BY DEF Ops
  <1>2. Announcement(t) \in Seq(Ops)
    BY <1>1 DEF Announcement
  <1>3. (t.announced \/ MustAnnounce(t)) \in BOOLEAN
    OBVIOUS
  <1>4. Announced(t) \in TutorPage /\ Announced(t).waiting = t.waiting
    BY <1>3 DEF Announced, TutorPage
  <1>5. QED
    BY <1>2, <1>4

LEMMA HeardType ==
  ASSUME CallTypeOK, NEW msgs \in Seq({"open", "close"})
  PROVE  Heard(msgs) \in Seq({"open", "close"})
  BY ConcatProperties DEF CallTypeOK, Heard

LEMMA PublishType ==
  ASSUME CallTypeOK, NEW news \in Seq(Ops), Publish(news)
  PROVE  sending' \in Seq({"auto", "open", "close"}) /\ toGuest' \in Seq({"open", "close"})
  <1>1. sending' \in Seq(Ops)
    BY ConcatProperties DEF CallTypeOK, Publish, Ops
  <1>2. [i \in DOMAIN news |-> Message(news[i])] \in Seq({"open", "close"})
    BY DEF Message
  <1>3. QED
    BY <1>1, <1>2, HeardType DEF Publish, Ops

LEMMA FaultType ==
  ASSUME CallTypeOK, Fault \/ UNCHANGED counters
  PROVE  clicks' = clicks /\ faults' \in 0..MaxFaults
  <1>1. faults \in 0..MaxFaults
    BY DEF CallTypeOK
  <1>2. QED
    BY <1>1, CallAssumption DEF Fault, counters

LEMMA TimersType ==
  ASSUME CallTypeOK, HeldTicks,
         \/ StartPolling
         \/ timers' = ClearPolling(timers)
         \/ UNCHANGED timers
  PROVE  timers' \in [ticking : Nat, held : BOOLEAN] /\ HeldTicks'
  <1>1. timers \in [ticking : Nat, held : BOOLEAN]
    BY DEF CallTypeOK
  <1>2. CASE StartPolling
    BY <1>1, <1>2 DEF StartPolling, HeldTicks
  <1>3. CASE timers' = ClearPolling(timers)
    BY <1>1, <1>3 DEF ClearPolling, HeldTicks
  <1>4. CASE UNCHANGED timers
    BY <1>1, <1>4 DEF HeldTicks
  <1>5. QED
    BY <1>2, <1>3, <1>4

LEMMA CallTypesStep ==
  ASSUME CallTypes, CallNext
  PROVE  CallTypes'
  <1> USE CallAssumption DEF CallTypes
  <1>1. CASE EnterName
    <2>1. PICK n \in Free : polls' = polls \cup {[n |-> n, from |-> "first", at |-> "status"]}
      BY <1>1 DEF EnterName
    <2>2. [n |-> n, from |-> "first", at |-> "status"] \in Poll
      BY <2>1 DEF Free, Poll
    <2>3. QED
      BY <1>1, <2>1, <2>2 DEF EnterName, Click, CallTypeOK, HeldTicks, WaitingCounted, roomVars, tutorVars, netVars, histories, TutorPage
  <1>2. CASE Tick
    <2>1. PICK n \in Free : polls' = polls \cup {[n |-> n, from |-> "tick", at |-> "status"]}
      BY <1>2 DEF Tick
    <2>2. [n |-> n, from |-> "tick", at |-> "status"] \in Poll
      BY <2>1 DEF Free, Poll
    <2>3. QED
      BY <1>2, <2>1, <2>2 DEF Tick, CallTypeOK, HeldTicks, WaitingCounted, roomVars, tutorVars, netVars, histories, counters
  <1>3. CASE Disconnected
    <2>1. PICK n \in Free : polls' = polls \cup {[n |-> n, from |-> "bye", at |-> "status"]}
      BY <1>3 DEF Disconnected
    <2>2. [n |-> n, from |-> "bye", at |-> "status"] \in Poll
      BY <2>1 DEF Free, Poll
    <2>3. room' \in BOOLEAN /\ guest' \in GuestRoom
      BY <1>3, FreshTypes DEF Disconnected, CallTypeOK, GuestRoom
    <2>4. clicks' \in 0..MaxClicks /\ faults' \in 0..MaxFaults /\ clicks' >= clicks
      BY <1>3 DEF Disconnected, Click, Fault, counters, CallTypeOK
    <2>5. toGuest' \in Seq({"open", "close"}) /\ metaEvents' \in Seq({"open", "closed"})
      BY <1>3 DEF Disconnected
    <2>6. QED
      BY <1>3, <2>1, <2>2, <2>3, <2>4, <2>5 DEF Disconnected, CallTypeOK, HeldTicks, WaitingCounted, roomVars, tutorVars, histories, TutorPage
  <1>4. CASE LeavePage
    <2>1. toGuest' \in Seq({"open", "close"}) /\ metaEvents' \in Seq({"open", "closed"})
      BY <1>4 DEF LeavePage
    <2>2. timers' \in [ticking : Nat, held : BOOLEAN] /\ HeldTicks'
      BY <1>4, TimersType DEF LeavePage
    <2>3. clicks' \in 0..MaxClicks /\ faults' = faults /\ clicks' >= clicks
      BY <1>4 DEF LeavePage, Click, CallTypeOK
    <2>4. guest' \in GuestRoom /\ room' \in BOOLEAN /\ stage' = "gone"
      BY <1>4, FreshTypes DEF LeavePage
    <2>5. UNCHANGED <<kind, status, live, webhook, ended, tutor, sending, meta, polls, closed, failed>>
      BY <1>4 DEF LeavePage, roomVars, tutorVars, histories
    <2>6. tutor.waiting \in Nat
      BY DEF CallTypeOK, TutorPage
    <2>7. QED
      BY <2>1, <2>2, <2>3, <2>4, <2>5, <2>6 DEF CallTypeOK, WaitingCounted
  <1>5. ASSUME NEW p \in polls, Serve(p)
        PROVE  CallTypes'
    <2>1. StatusAnswer \in {"waiting", "active", "ended", "error"} /\ TokenAnswer \in {"granted", "error"}
      BY DEF StatusAnswer, TokenAnswer, CallTypeOK
    <2>2. PICK answer \in {"waiting", "active", "ended", "error", "granted", "refused"} :
             polls' = (polls \ {p}) \cup {[p EXCEPT !.at = answer]}
      BY <1>5, <2>1 DEF Serve
    <2>3. polls' \subseteq Poll
      BY <2>2 DEF CallTypeOK, Poll
    <2>a. Fault \/ UNCHANGED counters
      BY <1>5 DEF Serve
    <2>4. clicks' \in 0..MaxClicks /\ faults' \in 0..MaxFaults /\ clicks' >= clicks
      BY <2>a, FaultType DEF CallTypeOK
    <2>5. QED
      BY <1>5, <2>3, <2>4 DEF Serve, CallTypeOK, HeldTicks, WaitingCounted, roomVars, tutorVars, netVars, histories, TutorPage
  <1>6. ASSUME NEW p \in polls, TryJoin(p)
        PROVE  CallTypes'
    <2>a. p \in Poll /\ [p EXCEPT !.at = "token"] \in Poll
      BY DEF CallTypeOK, Poll
    <2>b. polls' = polls \ {p} \/ polls' = (polls \ {p}) \cup {[p EXCEPT !.at = "token"]}
      BY <1>6 DEF TryJoin
    <2>1. polls' \subseteq Poll
      BY <2>a, <2>b DEF CallTypeOK
    <2>c. StartPolling \/ timers' = ClearPolling(timers) \/ UNCHANGED timers
      BY <1>6 DEF TryJoin, GoIn, NotIn
    <2>2. timers' \in [ticking : Nat, held : BOOLEAN] /\ HeldTicks'
      BY <2>c, TimersType
    <2>3. stage' \in {"form", "waiting", "in-room", "ended", "forbidden", "gone"} /\ room' \in BOOLEAN
      BY <1>6 DEF TryJoin, GoIn, NotIn, CallTypeOK
    <2>d. \/ UNCHANGED <<guest, netVars>>
          \/ guest' = FreshGuest /\ toGuest' = <<>> /\ metaEvents' = <<>>
      BY <1>6 DEF TryJoin, GoIn
    <2>e. CASE UNCHANGED <<guest, netVars>>
      BY <1>6, <2>1, <2>2, <2>3, <2>e DEF TryJoin, netVars, CallTypeOK, WaitingCounted, roomVars, tutorVars, counters, histories
    <2>f. CASE guest' = FreshGuest /\ toGuest' = <<>> /\ metaEvents' = <<>>
      <3>1. toGuest' \in Seq({"open", "close"}) /\ metaEvents' \in Seq({"open", "closed"})
        BY <2>f
      <3>2. QED
        BY <1>6, <2>1, <2>2, <2>3, <2>f, <3>1, FreshTypes DEF TryJoin, CallTypeOK, WaitingCounted, roomVars, tutorVars, counters, histories
    <2>5. QED
      BY <2>d, <2>e, <2>f
  <1>7. ASSUME NEW p \in polls, AfterCall(p)
        PROVE  CallTypes'
    <2>a. StartPolling \/ UNCHANGED timers
      BY <1>7 DEF AfterCall
    <2>1. timers' \in [ticking : Nat, held : BOOLEAN] /\ HeldTicks'
      BY <2>a, TimersType
    <2>2. stage' \in {"form", "waiting", "in-room", "ended", "forbidden", "gone"} /\ room' \in BOOLEAN
      BY <1>7 DEF AfterCall, CallTypeOK
    <2>3. QED
      BY <1>7, <2>1, <2>2 DEF AfterCall, CallTypeOK, WaitingCounted, roomVars, tutorVars, netVars, counters, histories
  <1>8. CASE GuestConnects
    <2>1. guest' \in GuestRoom
      BY <1>8 DEF GuestConnects, FromMetadata, CallTypeOK, GuestRoom
    <2>2. QED
      BY <1>8, <2>1 DEF GuestConnects, CallTypeOK, HeldTicks, WaitingCounted, doorVars, tutorVars, netVars, counters, histories
  <1>9. CASE GuestDrops
    <2>1. guest' \in GuestRoom
      BY <1>9 DEF GuestDrops, CallTypeOK, GuestRoom
    <2>2. toGuest' \in Seq({"open", "close"}) /\ metaEvents' \in Seq({"open", "closed"})
      BY <1>9 DEF GuestDrops
    <2>3. faults' \in 0..MaxFaults /\ clicks' = clicks
      BY <1>9 DEF GuestDrops, Fault, CallTypeOK
    <2>4. QED
      BY <1>9, <2>1, <2>2, <2>3 DEF GuestDrops, CallTypeOK, HeldTicks, WaitingCounted, doorVars, tutorVars, roomVars, histories
  <1>10. CASE DataReceived
    <2>a. guest \in GuestRoom
      BY DEF CallTypeOK
    <2>b. [guest EXCEPT !.data = @ + 1] \in GuestRoom /\ [guest EXCEPT !.mode = "call"] \in GuestRoom
      BY <2>a DEF GuestRoom
    <2>1. guest' \in GuestRoom
      BY <1>10, <2>b DEF DataReceived
    <2>2. toGuest' \in Seq({"open", "close"})
      BY <1>10, HeadTailProperties DEF DataReceived, CallTypeOK
    <2>3. QED
      BY <1>10, <2>1, <2>2 DEF DataReceived, CallTypeOK, HeldTicks, WaitingCounted, doorVars, tutorVars, roomVars, counters, histories
  <1>11. CASE MetadataChanged
    <2>1. Head(metaEvents) \in {"open", "closed"} /\ metaEvents' \in Seq({"open", "closed"})
      BY <1>11, HeadTailProperties DEF MetadataChanged, CallTypeOK
    <2>2. guest' \in GuestRoom
      BY <1>11, <2>1 DEF MetadataChanged, FromMetadata, CallTypeOK, GuestRoom
    <2>3. QED
      BY <1>11, <2>1, <2>2 DEF MetadataChanged, CallTypeOK, HeldTicks, WaitingCounted, doorVars, tutorVars, roomVars, counters, histories
  <1>12. CASE BoardAnswersGuest
    <2>a. guest \in GuestRoom
      BY DEF CallTypeOK
    <2>b. \/ guest.data > 0 /\ guest' = Joined([guest EXCEPT !.data = @ - 1])
          \/ guest' = Joined([guest EXCEPT !.late = FALSE])
          \/ guest.data > 0 /\ guest' = [guest EXCEPT !.data = @ - 1]
          \/ guest' = [guest EXCEPT !.late = FALSE, !.opened = FALSE]
      BY <1>12 DEF BoardAnswersGuest
    <2>e. guest.data \in Nat
      BY <2>a DEF GuestRoom
    <2>f. /\ Joined([guest EXCEPT !.late = FALSE]) \in GuestRoom
          /\ [guest EXCEPT !.late = FALSE, !.opened = FALSE] \in GuestRoom
      BY <2>a DEF Joined, GuestRoom
    <2>h. guest.data > 0 => [guest EXCEPT !.data = @ - 1] \in GuestRoom
      BY <2>a, <2>e DEF GuestRoom
    <2>i. \A g \in GuestRoom : Joined(g) \in GuestRoom
      BY DEF Joined, GuestRoom
    <2>g. guest.data > 0 => /\ Joined([guest EXCEPT !.data = @ - 1]) \in GuestRoom
                            /\ [guest EXCEPT !.data = @ - 1] \in GuestRoom
      BY <2>h, <2>i
    <2>1. guest' \in GuestRoom
      BY <2>b, <2>f, <2>g
    <2>c. Fault \/ UNCHANGED counters
      BY <1>12 DEF BoardAnswersGuest
    <2>d. failed' \in BOOLEAN
      BY <1>12 DEF BoardAnswersGuest, CallTypeOK
    <2>2. clicks' = clicks /\ faults' \in 0..MaxFaults /\ failed' \in BOOLEAN
      BY <2>c, <2>d, FaultType
    <2>3. QED
      BY <1>12, <2>1, <2>2 DEF BoardAnswersGuest, CallTypeOK, HeldTicks, WaitingCounted, doorVars, tutorVars, roomVars, netVars
  <1>13. CASE CallPageOpens
    <2>1. clicks' \in 0..MaxClicks /\ faults' = faults /\ clicks' >= clicks
      BY <1>13 DEF CallPageOpens, Click, counters, CallTypeOK
    <2>2. tutor' \in TutorPage /\ tutor'.waiting = 0
      BY <1>13, FreshTypes DEF CallPageOpens
    <2>a. tutor'.waiting <= clicks'
      BY <2>1, <2>2
    <2>3. QED
      BY <1>13, <2>1, <2>2, <2>a DEF CallPageOpens, CallTypeOK, HeldTicks, WaitingCounted, doorVars, roomVars, netVars, histories
  <1>14. CASE StartRoom
    <2>1. tutor' \in TutorPage /\ tutor'.waiting = tutor.waiting
      BY <1>14 DEF StartRoom, CallTypeOK, TutorPage
    <2>2. clicks' = clicks /\ faults' \in 0..MaxFaults /\ status' \in {"waiting", "active", "ended"}
      BY <1>14, FaultType DEF StartRoom, CallTypeOK
    <2>3. QED
      BY <1>14, <2>1, <2>2 DEF StartRoom, CallTypeOK, HeldTicks, WaitingCounted, doorVars, netVars, histories
  <1>15. CASE RoomReady
    <2>1. tutor' \in TutorPage /\ tutor'.waiting = 0
      BY <1>15, FreshTypes DEF RoomReady
    <2>2. clicks' = clicks /\ faults' \in 0..MaxFaults
      BY <1>15, FaultType DEF RoomReady
    <2>3. QED
      BY <1>15, <2>1, <2>2 DEF RoomReady, CallTypeOK, HeldTicks, WaitingCounted, doorVars, roomVars, netVars, histories
  <1>16. CASE TutorConnects
    <2> DEFINE t == [tutor EXCEPT !.conn = TRUE]
    <2>1. t \in TutorPage /\ t.waiting = tutor.waiting
      BY DEF CallTypeOK, TutorPage
    <2>2. tutor' = Announced(t) /\ Publish(Announcement(t))
      BY <1>16 DEF TutorConnects
    <2> HIDE DEF t
    <2>3. tutor' \in TutorPage /\ tutor'.waiting = tutor.waiting
      BY <2>1, <2>2, AnnouncementType
    <2>4. sending' \in Seq({"auto", "open", "close"}) /\ toGuest' \in Seq({"open", "close"})
      BY <2>1, <2>2, AnnouncementType, PublishType
    <2>5. QED
      BY <1>16, <2>3, <2>4 DEF TutorConnects, CallTypeOK, HeldTicks, WaitingCounted, doorVars, counters, histories
  <1>17. CASE BoardAnswers
    <2> DEFINE t == [tutor EXCEPT !.board = "ready", !.auto = FALSE, !.waiting = 0,
                                  !.mode = IF tutor.auto THEN "board" ELSE @]
               opens == IF t.conn THEN [i \in 1..tutor.waiting |-> "open"] ELSE <<>>
               n == [tutor EXCEPT !.board = "none", !.auto = FALSE, !.waiting = 0]
    <2>a. tutor \in TutorPage /\ 0 \in 0..MaxClicks
      BY DEF CallTypeOK
    <2>b. t = [tutor EXCEPT !.board = "ready", !.auto = FALSE, !.waiting = 0,
                            !.mode = IF tutor.auto THEN "board" ELSE tutor.mode]
      BY <2>a DEF TutorPage
    <2>1. t \in TutorPage /\ t.waiting = 0 /\ n \in TutorPage /\ n.waiting = 0
      BY <2>a, <2>b DEF TutorPage
    <2>2. opens \in Seq(Ops)
      <3>1. tutor.waiting \in Nat
        BY DEF CallTypeOK, TutorPage
      <3>2. QED
        BY <3>1 DEF Ops
    <2>3. \/ tutor' = Announced(t) /\ Publish(opens \o Announcement(t)) /\ failed' = failed
          \/ tutor' = n /\ sending' = sending /\ toGuest' = toGuest /\ failed' = TRUE
      BY <1>17 DEF BoardAnswers
    <2> HIDE DEF t, opens, n
    <2>4. opens \o Announcement(t) \in Seq(Ops)
      BY <2>1, <2>2, AnnouncementType, ConcatProperties
    <2>5. tutor' \in TutorPage /\ tutor'.waiting = 0
      BY <2>1, <2>3, AnnouncementType
    <2>6. sending' \in Seq({"auto", "open", "close"}) /\ toGuest' \in Seq({"open", "close"})
      BY <2>3, <2>4, PublishType DEF CallTypeOK
    <2>7. clicks' = clicks /\ faults' \in 0..MaxFaults /\ failed' \in BOOLEAN
      BY <1>17, <2>3, FaultType DEF BoardAnswers, CallTypeOK
    <2>8. QED
      BY <1>17, <2>5, <2>6, <2>7 DEF BoardAnswers, CallTypeOK, HeldTicks, WaitingCounted, doorVars, roomVars
  <1>18. CASE HandleToggle
    <2>1. clicks' = clicks + 1 /\ clicks' \in 0..MaxClicks /\ faults' = faults
      BY <1>18 DEF HandleToggle, Click, CallTypeOK
    <2>a. tutor \in TutorPage /\ clicks \in Nat
      BY DEF CallTypeOK
    <2>b. \/ UNCHANGED tutor
          \/ tutor' = [tutor EXCEPT !.mode = "call"]
          \/ tutor' = [tutor EXCEPT !.board = "asked", !.waiting = @ + 1]
      BY <1>18 DEF HandleToggle
    <2>c. tutor.waiting \in 0..MaxClicks /\ tutor.waiting + 1 \in 0..MaxClicks
      BY <2>a, <2>1 DEF TutorPage, WaitingCounted
    <2>d. [tutor EXCEPT !.mode = "call"] \in TutorPage /\ [tutor EXCEPT !.mode = "call"].waiting = tutor.waiting
      BY <2>a DEF TutorPage
    <2>e. /\ [tutor EXCEPT !.board = "asked", !.waiting = @ + 1] \in TutorPage
          /\ [tutor EXCEPT !.board = "asked", !.waiting = @ + 1].waiting = tutor.waiting + 1
      BY <2>a, <2>c DEF TutorPage
    <2>2. tutor' \in TutorPage /\ tutor'.waiting <= tutor.waiting + 1
      <3>0. tutor.waiting \in Nat
        BY <2>c
      <3>1. CASE UNCHANGED tutor
        BY <2>a, <3>0, <3>1
      <3>2. CASE tutor' = [tutor EXCEPT !.mode = "call"]
        BY <2>d, <3>0, <3>2
      <3>3. CASE tutor' = [tutor EXCEPT !.board = "asked", !.waiting = @ + 1]
        BY <2>e, <3>0, <3>3
      <3>4. QED
        BY <2>b, <3>1, <3>2, <3>3
    <2>3. <<"close">> \in Seq(Ops) /\ <<"open">> \in Seq(Ops) /\ <<>> \in Seq(Ops)
      BY DEF Ops
    <2>4. \/ \E news \in Seq(Ops) : Publish(news)
          \/ sending' = sending /\ toGuest' = toGuest
      BY <1>18, <2>3 DEF HandleToggle
    <2>5. sending' \in Seq({"auto", "open", "close"}) /\ toGuest' \in Seq({"open", "close"})
      BY <2>4, PublishType DEF CallTypeOK
    <2>6. closed' \in BOOLEAN
      BY <1>18 DEF HandleToggle, CallTypeOK
    <2>7. QED
      BY <1>18, <2>1, <2>2, <2>5, <2>6 DEF HandleToggle, CallTypeOK, HeldTicks, WaitingCounted, doorVars, roomVars, TutorPage
  <1>19. CASE MetadataSet
    <2> DEFINE op == Head(sending)
               value == IF op = "close" THEN "closed" ELSE "open"
               t == Turned(op)
    <2>1. op \in Ops /\ Tail(sending) \in Seq(Ops)
      BY <1>19, HeadTailProperties DEF MetadataSet, CallTypeOK, Ops
    <2>2. value \in {"open", "closed"}
      OBVIOUS
    <2>a. tutor \in TutorPage
      BY DEF CallTypeOK
    <2>b. t = [tutor EXCEPT !.mode = IF op = "open" THEN "board" ELSE IF op = "close" THEN "call" ELSE tutor.mode]
      BY <2>a, <2>1 DEF Turned, TutorPage, Ops
    <2>3. t \in TutorPage /\ t.waiting = tutor.waiting
      BY <2>a, <2>b DEF TutorPage
    <2>4. \/ /\ meta' = value
             /\ metaEvents' = IF guest.conn = "on" /\ inCall THEN Append(metaEvents, value) ELSE metaEvents
             /\ tutor' = Announced(t)
             /\ sending' = Tail(sending) \o Announcement(t)
             /\ toGuest' = Heard([i \in DOMAIN Announcement(t) |-> "open"])
             /\ UNCHANGED <<counters, failed>>
          \/ /\ Fault /\ failed' = TRUE
             /\ tutor' = IF op = "close" THEN t ELSE tutor
             /\ sending' = Tail(sending)
             /\ UNCHANGED <<meta, metaEvents, toGuest>>
      BY <1>19 DEF MetadataSet
    <2> HIDE DEF op, value, t
    <2>5. tutor' \in TutorPage /\ tutor'.waiting = tutor.waiting
      BY <2>3, <2>4, AnnouncementType DEF CallTypeOK
    <2>6. sending' \in Seq({"auto", "open", "close"})
      <3>1. Tail(sending) \o Announcement(t) \in Seq(Ops)
        BY <2>1, <2>3, AnnouncementType, ConcatProperties
      <3>2. QED
        BY <2>1, <2>4, <3>1 DEF Ops
    <2>7. toGuest' \in Seq({"open", "close"})
      <3>1. [i \in DOMAIN Announcement(t) |-> "open"] \in Seq({"open", "close"})
        BY <2>3, AnnouncementType
      <3>2. QED
        BY <2>4, <3>1, HeardType DEF CallTypeOK
    <2>8. meta' \in {"none", "open", "closed"} /\ metaEvents' \in Seq({"open", "closed"})
      <3>1. Append(metaEvents, value) \in Seq({"open", "closed"})
        BY <2>2, AppendProperties DEF CallTypeOK
      <3>2. QED
        BY <2>2, <2>4, <3>1 DEF CallTypeOK
    <2>9. clicks' = clicks /\ faults' \in 0..MaxFaults /\ failed' \in BOOLEAN
      BY <2>4, FaultType DEF CallTypeOK
    <2>10. QED
      BY <1>19, <2>5, <2>6, <2>7, <2>8, <2>9 DEF MetadataSet, CallTypeOK, HeldTicks, WaitingCounted, doorVars, roomVars
  <1>20. CASE TutorLeaves
    <2>1. guest' \in GuestRoom
      BY <1>20 DEF TutorLeaves, CallTypeOK, GuestRoom
    <2>2. tutor' \in TutorPage /\ tutor'.waiting = 0 /\ sending' = <<>> /\ meta' = "none"
      BY <1>20, FreshTypes DEF TutorLeaves, TutorGone
    <2>3. clicks' \in 0..MaxClicks /\ faults' \in 0..MaxFaults /\ clicks' >= clicks
      BY <1>20 DEF TutorLeaves, CallTypeOK
    <2>4. /\ status' \in {"waiting", "active", "ended"}
          /\ {live', webhook', ended'} \subseteq BOOLEAN
      BY <1>20 DEF TutorLeaves, EndRoom, roomVars, CallTypeOK
    <2>5. QED
      BY <1>20, <2>1, <2>2, <2>3, <2>4 DEF TutorLeaves, CallTypeOK, HeldTicks, WaitingCounted, doorVars, netVars, histories
  <1>21. CASE TutorReloads
    <2>1. guest' \in GuestRoom
      BY <1>21 DEF TutorReloads, CallTypeOK, GuestRoom
    <2>2. tutor' \in TutorPage /\ tutor'.waiting = 0 /\ sending' = <<>> /\ meta' = "none"
      BY <1>21, FreshTypes DEF TutorReloads, TutorGone
    <2>3. clicks' = clicks /\ faults' \in 0..MaxFaults
      BY <1>21 DEF TutorReloads, Fault, CallTypeOK
    <2>4. QED
      BY <1>21, <2>1, <2>2, <2>3 DEF TutorReloads, CallTypeOK, HeldTicks, WaitingCounted, doorVars, netVars, roomVars, histories
  <1>22. CASE RoomEmpties
    BY <1>22 DEF RoomEmpties, CallTypeOK, HeldTicks, WaitingCounted, doorVars, tutorVars, netVars, counters, histories
  <1>23. CASE RoomFinished
    <2>1. ended' \in BOOLEAN
      BY <1>23 DEF RoomFinished, CallTypeOK
    <2>2. QED
      BY <1>23, <2>1 DEF RoomFinished, CallTypeOK, HeldTicks, WaitingCounted, doorVars, tutorVars, netVars, counters, histories
  <1>24. QED
    BY <1>1, <1>2, <1>3, <1>4, <1>5, <1>6, <1>7, <1>8, <1>9, <1>10, <1>11, <1>12, <1>13, <1>14,
       <1>15, <1>16, <1>17, <1>18, <1>19, <1>20, <1>21, <1>22, <1>23
    DEF CallNext, Door, Inside, TutorSide

-----------------------------------------------------------------------------
(* CallLesson: the guest at the door *)

\* Whoever has been told that the lesson is over has been told the truth.
EndIsKnown ==
  /\ stage = "ended" \/ status = "ended" => ended
  /\ \A p \in polls : p.at = "ended" => ended

DoorInv == EndIsKnown /\ WaitingIsWatched

LEMMA DoorStep ==
  ASSUME CallTypes, DoorInv, CallNext
  PROVE  DoorInv'
  <1> USE DEF CallTypes, DoorInv
  <1>1. CASE Inside
    <2>1. UNCHANGED <<doorVars, status, ended>>
      BY <1>1 DEF Inside, GuestConnects, GuestDrops, DataReceived, MetadataChanged, BoardAnswersGuest, roomVars
    <2>2. QED
      BY <2>1 DEF doorVars, EndIsKnown, WaitingIsWatched
  <1>2. CASE TutorSide \/ RoomEmpties \/ RoomFinished
    <2>1. UNCHANGED doorVars
      BY <1>2 DEF TutorSide, CallPageOpens, StartRoom, RoomReady, TutorConnects, BoardAnswers, HandleToggle,
           MetadataSet, TutorLeaves, TutorReloads, RoomEmpties, RoomFinished
    <2>2. (ended => ended') /\ (status' = "ended" => ended')
      BY <1>2 DEF TutorSide, CallPageOpens, StartRoom, RoomReady, TutorConnects, BoardAnswers, HandleToggle,
           MetadataSet, TutorLeaves, TutorReloads, RoomEmpties, RoomFinished, EndRoom, roomVars, EndIsKnown
    <2>3. QED
      BY <2>1, <2>2 DEF doorVars, EndIsKnown, WaitingIsWatched
  <1>3. CASE Door
    <2>1. UNCHANGED <<status, ended>>
      BY <1>3 DEF Door, EnterName, Tick, Disconnected, LeavePage, Serve, TryJoin, AfterCall, roomVars
    <2>2. CASE EnterName
      BY <2>1, <2>2 DEF EnterName, EndIsKnown, WaitingIsWatched
    <2>3. CASE Tick
      BY <2>1, <2>3 DEF Tick, EndIsKnown, WaitingIsWatched
    <2>4. CASE Disconnected
      BY <2>1, <2>4 DEF Disconnected, inCall, EndIsKnown, WaitingIsWatched
    <2>5. CASE LeavePage
      BY <2>1, <2>5 DEF LeavePage, EndIsKnown, WaitingIsWatched
    <2>6. ASSUME NEW p \in polls, Serve(p)
          PROVE  DoorInv'
      <3>1. PICK answer \in {StatusAnswer, TokenAnswer, "error", "refused"} :
               polls' = (polls \ {p}) \cup {[p EXCEPT !.at = answer]}
        BY <2>6 DEF Serve
      <3>2. p \in Poll
        BY DEF CallTypeOK
      <3>3. [p EXCEPT !.at = answer].at = answer /\ [p EXCEPT !.at = answer].from = p.from
        BY <3>2 DEF Poll
      <3>4. answer = "ended" => ended
        BY <3>1 DEF StatusAnswer, TokenAnswer, EndIsKnown
      <3>5. EndIsKnown'
        BY <2>1, <2>6, <3>1, <3>3, <3>4 DEF Serve, EndIsKnown
      <3>6. WaitingIsWatched'
        BY <2>6, <3>1, <3>3 DEF Serve, WaitingIsWatched
      <3>7. QED
        BY <3>5, <3>6
    <2>7. ASSUME NEW p \in polls, TryJoin(p)
          PROVE  DoorInv'
      <3>1. p \in Poll /\ timers \in [ticking : Nat, held : BOOLEAN]
        BY DEF CallTypeOK
      <3>2. [p EXCEPT !.at = "token"].at = "token" /\ [p EXCEPT !.at = "token"].from = p.from
        BY <3>1 DEF Poll
      <3>3. polls' = polls \ {p} \/ polls' = (polls \ {p}) \cup {[p EXCEPT !.at = "token"]}
        BY <2>7 DEF TryJoin
      <3>4. stage' = "ended" => stage = "ended" \/ p.at = "ended"
        BY <2>7 DEF TryJoin, GoIn, NotIn
      <3>5. EndIsKnown'
        BY <2>1, <3>2, <3>3, <3>4 DEF EndIsKnown
      <3>6. stage' = "waiting" =>
               \/ StartPolling
               \/ stage = "waiting" /\ timers' = timers /\ polls' = polls \ {p} /\ p.from = "tick"
               \/ /\ stage = "waiting" /\ timers' = timers
                  /\ polls' = (polls \ {p}) \cup {[p EXCEPT !.at = "token"]}
        BY <2>7 DEF TryJoin, GoIn, NotIn
      <3>7. WaitingIsWatched'
        <4>1. CASE StartPolling
          BY <3>1, <4>1 DEF StartPolling, WaitingIsWatched
        <4>2. CASE stage = "waiting" /\ timers' = timers /\ polls' = polls \ {p} /\ p.from = "tick"
          BY <4>2 DEF WaitingIsWatched
        <4>3. CASE /\ stage = "waiting" /\ timers' = timers
                   /\ polls' = (polls \ {p}) \cup {[p EXCEPT !.at = "token"]}
          BY <3>2, <4>3 DEF WaitingIsWatched
        <4>4. CASE stage' # "waiting"
          BY <4>4 DEF WaitingIsWatched
        <4>5. QED
          BY <3>6, <4>1, <4>2, <4>3, <4>4
      <3>8. QED
        BY <3>5, <3>7
    <2>8. ASSUME NEW p \in polls, AfterCall(p)
          PROVE  DoorInv'
      <3>1. timers \in [ticking : Nat, held : BOOLEAN]
        BY DEF CallTypeOK
      <3>2. EndIsKnown'
        BY <2>1, <2>8 DEF AfterCall, EndIsKnown
      <3>a. stage' = "waiting" => StartPolling
        BY <2>8 DEF AfterCall
      <3>3. WaitingIsWatched'
        BY <3>1, <3>a DEF StartPolling, WaitingIsWatched
      <3>4. QED
        BY <3>2, <3>3
    <2>9. QED
      BY <1>3, <2>2, <2>3, <2>4, <2>5, <2>6, <2>7, <2>8 DEF Door
  <1>4. QED
    BY <1>1, <1>2, <1>3 DEF CallNext

-----------------------------------------------------------------------------
(* CallLesson: what the tutor has announced *)

\* A room that is not connected has announced nothing.
Unheard ==
  /\ tutor.page # "room" => ~tutor.conn
  /\ ~tutor.conn => sending = <<>> /\ meta = "none" /\ ~tutor.announced

\* The automatic announcement comes once, and before anything is closed.
InOrder(s, announced, mode) ==
  \A i \in 1..Len(s) :
    /\ s[i] # "open" => announced
    /\ s[i] = "auto" => mode = "board"
    /\ \A j \in 1..Len(s) : i < j /\ s[i] = "close" => s[j] # "auto"

Heralded ==
  /\ InOrder(sending, tutor.announced, tutor.mode)
  /\ tutor.conn /\ tutor.mode = "board" => tutor.announced
  /\ tutor.auto => /\ tutor.mode = "call" /\ ~tutor.announced
                   /\ sending = <<>> /\ tutor.board = "asked"

NewsInv == Unheard /\ Heralded /\ MetadataSaysWhatTheTutorSees

LEMMA InOrderConcat ==
  ASSUME NEW s \in Seq(Ops), NEW t \in Seq(Ops), NEW a, NEW b, NEW m, NEW n,
         InOrder(s, a, m), InOrder(t, b, n), a => b,
         m = n \/ n = "board" \/ (\A i \in 1..Len(s) : s[i] # "auto"),
         a => \A i \in 1..Len(t) : t[i] # "auto"
  PROVE  InOrder(s \o t, b, n)
  <1>1. /\ Len(s \o t) = Len(s) + Len(t)
        /\ \A i \in 1..Len(s) : (s \o t)[i] = s[i]
        /\ \A i \in 1..Len(s \o t) : i > Len(s) => (s \o t)[i] = t[i - Len(s)]
        /\ \A i \in 1..Len(s \o t) : i > Len(s) => i - Len(s) \in 1..Len(t)
    OBVIOUS
  <1>2. ASSUME NEW i \in 1..Len(s \o t)
        PROVE  /\ (s \o t)[i] # "open" => b
               /\ (s \o t)[i] = "auto" => n = "board"
    <2>1. CASE i <= Len(s)
      <3>1. i \in 1..Len(s) /\ (s \o t)[i] = s[i]
        BY <1>1, <2>1
      <3>2. QED
        BY <3>1 DEF InOrder
    <2>2. CASE i > Len(s)
      <3>1. i - Len(s) \in 1..Len(t) /\ (s \o t)[i] = t[i - Len(s)]
        BY <1>1, <2>2
      <3>2. QED
        BY <3>1 DEF InOrder
    <2>3. QED
      BY <2>1, <2>2
  <1>3. ASSUME NEW i \in 1..Len(s \o t), NEW j \in 1..Len(s \o t), i < j, (s \o t)[i] = "close"
        PROVE  (s \o t)[j] # "auto"
    <2>1. CASE j <= Len(s)
      <3>1. i \in 1..Len(s) /\ j \in 1..Len(s) /\ (s \o t)[i] = s[i] /\ (s \o t)[j] = s[j]
        BY <1>1, <1>3, <2>1
      <3>2. QED
        BY <1>3, <3>1 DEF InOrder
    <2>2. CASE i <= Len(s) /\ j > Len(s)
      <3>1. i \in 1..Len(s) /\ (s \o t)[i] = s[i]
        BY <1>1, <2>2
      <3>2. j - Len(s) \in 1..Len(t) /\ (s \o t)[j] = t[j - Len(s)]
        BY <1>1, <2>2
      <3>3. a
        BY <1>3, <3>1 DEF InOrder
      <3>4. QED
        BY <3>2, <3>3
    <2>3. CASE i > Len(s)
      <3>1. /\ i - Len(s) \in 1..Len(t) /\ (s \o t)[i] = t[i - Len(s)]
            /\ j - Len(s) \in 1..Len(t) /\ (s \o t)[j] = t[j - Len(s)]
            /\ i - Len(s) < j - Len(s)
        BY <1>1, <1>3, <2>3
      <3>2. QED
        BY <1>3, <3>1 DEF InOrder
    <2>4. QED
      BY <2>1, <2>2, <2>3
  <1>4. QED
    BY <1>2, <1>3 DEF InOrder

\* The effect keeps the order: it announces only what nobody has announced.
LEMMA AnnouncementInOrder ==
  ASSUME NEW t \in TutorPage
  PROVE  /\ InOrder(Announcement(t), Announced(t).announced, t.mode)
         /\ t.announced => Announcement(t) = <<>> /\ Announced(t).announced
         /\ t.conn /\ t.mode = "board" => Announced(t).announced
         /\ Announcement(t) = <<>> => Announced(t).announced = t.announced
         /\ Announced(t) = [t EXCEPT !.announced = Announced(t).announced]
         /\ Announced(t).announced \in BOOLEAN
         /\ Announcement(t) # <<>> => t.conn
  <1>1. Announced(t) = [t EXCEPT !.announced = t.announced \/ MustAnnounce(t)]
    BY DEF Announced, TutorPage
  <1>2. (t.announced \/ MustAnnounce(t)) \in BOOLEAN
    OBVIOUS
  <1>3. Announced(t).announced = (t.announced \/ MustAnnounce(t))
    BY <1>1, <1>2 DEF TutorPage
  <1>4. CASE MustAnnounce(t)
    <2>1. Announcement(t) = <<"auto">> /\ t.mode = "board" /\ t.conn /\ ~t.announced
      BY <1>4 DEF Announcement, MustAnnounce
    <2>2. InOrder(<<"auto">>, TRUE, "board")
      BY DEF InOrder
    <2>3. Announced(t).announced = TRUE
      BY <1>3, <1>4
    <2>4. InOrder(Announcement(t), Announced(t).announced, t.mode)
      BY <2>1, <2>2, <2>3
    <2>5. Announced(t) = [t EXCEPT !.announced = Announced(t).announced]
      BY <1>1, <1>3
    <2>6. Announced(t).announced \in BOOLEAN
      BY <2>3
    <2>7. Announcement(t) # <<>>
      BY <2>1
    <2>8. QED
      BY <2>1, <2>3, <2>4, <2>5, <2>6, <2>7
  <1>5. CASE ~MustAnnounce(t)
    <2>1. Announcement(t) = <<>> /\ Announced(t).announced = t.announced
      BY <1>3, <1>5 DEF Announcement, TutorPage
    <2>2. \A a, m : InOrder(<<>>, a, m)
      BY DEF InOrder
    <2>3. t.conn /\ t.mode = "board" => t.announced
      BY <1>5 DEF MustAnnounce
    <2>4. InOrder(Announcement(t), Announced(t).announced, t.mode)
      BY <2>1, <2>2
    <2>5. Announced(t) = [t EXCEPT !.announced = Announced(t).announced]
      BY <1>1, <1>3
    <2>6. Announced(t).announced \in BOOLEAN
      BY <1>2, <1>3
    <2>7. QED
      BY <2>1, <2>3, <2>4, <2>5, <2>6
  <1>6. QED
    BY <1>4, <1>5

\* A page that starts anew has announced nothing.
LEMMA FreshNews ==
  ASSUME NEW page \in {"away", "opening", "started", "room"}, NEW hasBoard \in BOOLEAN,
         tutor' = FreshTutor(page, hasBoard), sending' = <<>>, meta' = "none"
  PROVE  NewsInv'
  <1>1. /\ tutor'.page = page /\ tutor'.conn = FALSE /\ tutor'.mode = "call" /\ tutor'.announced = FALSE
        /\ tutor'.auto => tutor'.board = "asked"
    BY DEF FreshTutor
  <1>2. InOrder(sending', tutor'.announced, tutor'.mode)
    BY DEF InOrder
  <1>3. QED
    BY <1>1, <1>2 DEF NewsInv, Unheard, Heralded, MetadataSaysWhatTheTutorSees

LEMMA NewsStep ==
  ASSUME CallTypes, NewsInv, CallNext
  PROVE  NewsInv'
  <1> USE DEF CallTypes, NewsInv
  <1>0. tutor \in TutorPage /\ sending \in Seq(Ops) /\ failed \in BOOLEAN
    BY DEF CallTypeOK, Ops
  <1>1. CASE Door \/ Inside \/ RoomEmpties \/ RoomFinished
    <2>1. UNCHANGED <<tutor, sending, meta>> /\ (failed => failed')
      BY <1>1 DEF Door, EnterName, Tick, Disconnected, LeavePage, Serve, TryJoin, AfterCall,
           Inside, GuestConnects, GuestDrops, DataReceived, MetadataChanged, BoardAnswersGuest,
           RoomEmpties, RoomFinished, tutorVars, histories
    <2>2. QED
      BY <2>1 DEF Unheard, Heralded, MetadataSaysWhatTheTutorSees
  <1>2. CASE CallPageOpens
    BY <1>2, FreshNews DEF CallPageOpens, Unheard
  <1>3. CASE StartRoom
    <2>1. \/ tutor' = [tutor EXCEPT !.page = "started"]
          \/ tutor' = [tutor EXCEPT !.page = "away"]
      BY <1>3 DEF StartRoom
    <2>2. /\ tutor'.page # "room" /\ tutor'.conn = tutor.conn /\ tutor'.mode = tutor.mode
          /\ tutor'.announced = tutor.announced /\ tutor'.auto = tutor.auto /\ tutor'.board = tutor.board
      BY <1>0, <2>1 DEF TutorPage
    <2>3. ~tutor.conn /\ UNCHANGED <<sending, meta>>
      BY <1>3 DEF StartRoom, Unheard
    <2>4. QED
      BY <2>2, <2>3 DEF Unheard, Heralded, MetadataSaysWhatTheTutorSees
  <1>4. CASE RoomReady
    BY <1>4, FreshNews DEF RoomReady, Unheard
  <1>5. CASE TutorLeaves
    BY <1>5, FreshNews DEF TutorLeaves, TutorGone
  <1>6. CASE TutorReloads
    <2>1. \/ tutor' = FreshTutor("opening", FALSE)
          \/ tutor' = FreshTutor("room", TRUE)
      BY <1>6 DEF TutorReloads, TutorGone
    <2>2. QED
      BY <1>6, <2>1, FreshNews DEF TutorReloads, TutorGone
  <1>7. CASE TutorConnects
    <2> DEFINE t == [tutor EXCEPT !.conn = TRUE]
    <2>1. /\ t \in TutorPage /\ t.conn /\ t.mode = tutor.mode /\ t.page = "room" /\ t.auto = tutor.auto
          /\ t.board = tutor.board /\ t.announced = tutor.announced
      BY <1>0, <1>7 DEF TutorPage, TutorConnects
    <2>2. tutor' = Announced(t) /\ sending' = sending \o Announcement(t) /\ UNCHANGED <<meta, failed>>
      BY <1>7 DEF TutorConnects, Publish, histories
    <2>3. sending = <<>> /\ meta = "none" /\ ~tutor.announced
      BY <1>7 DEF TutorConnects, Unheard
    <2> HIDE DEF t
    <2>4. sending' = Announcement(t)
      BY <2>1, <2>2, <2>3, AnnouncementType
    <2>5. /\ tutor'.conn /\ tutor'.mode = tutor.mode /\ tutor'.page = "room" /\ tutor'.auto = tutor.auto
          /\ tutor'.board = tutor.board /\ tutor'.announced \in BOOLEAN
          /\ tutor'.announced = Announced(t).announced
      BY <2>1, <2>2, AnnouncementInOrder DEF TutorPage
    <2>6. Unheard'
      BY <2>5 DEF Unheard
    <2>7. tutor'.auto => Announcement(t) = <<>> /\ ~tutor'.announced
      <3>1. tutor.auto => t.mode = "call"
        BY <2>1 DEF Heralded
      <3>2. t.mode = "call" => Announcement(t) = <<>>
        BY DEF Announcement, MustAnnounce
      <3>3. QED
        BY <2>1, <2>3, <2>5, <3>1, <3>2, AnnouncementInOrder
    <2>8. Heralded'
      BY <2>1, <2>4, <2>5, <2>7, AnnouncementInOrder DEF Heralded
    <2>9. Announcement(t) = <<>> => t.mode # "board"
      BY <2>1, <2>3 DEF Announcement, MustAnnounce
    <2>10. MetadataSaysWhatTheTutorSees'
      BY <2>1, <2>2, <2>3, <2>4, <2>5, <2>9 DEF MetadataSaysWhatTheTutorSees
    <2>11. QED
      BY <2>6, <2>8, <2>10
  <1>8. CASE BoardAnswers
    <2> DEFINE t == [tutor EXCEPT !.board = "ready", !.auto = FALSE, !.waiting = 0,
                                  !.mode = IF tutor.auto THEN "board" ELSE @]
               opens == IF t.conn THEN [i \in 1..tutor.waiting |-> "open"] ELSE <<>>
               n == [tutor EXCEPT !.board = "none", !.auto = FALSE, !.waiting = 0]
    <2>a. 0 \in 0..MaxClicks
      BY CallAssumption
    <2>b. t = [tutor EXCEPT !.board = "ready", !.auto = FALSE, !.waiting = 0,
                            !.mode = IF tutor.auto THEN "board" ELSE tutor.mode]
      BY <1>0 DEF TutorPage
    <2>1. /\ t \in TutorPage /\ t.conn = tutor.conn /\ t.page = tutor.page /\ t.announced = tutor.announced
          /\ t.mode = (IF tutor.auto THEN "board" ELSE tutor.mode) /\ t.auto = FALSE
      BY <1>0, <2>a, <2>b DEF TutorPage
    <2>2. /\ n.conn = tutor.conn /\ n.page = tutor.page /\ n.announced = tutor.announced
          /\ n.mode = tutor.mode /\ n.auto = FALSE
      BY <1>0 DEF TutorPage
    <2>3. opens \in Seq(Ops) /\ (~t.conn => opens = <<>>) /\ \A i \in 1..Len(opens) : opens[i] = "open"
      <3>1. tutor.waiting \in Nat
        BY <1>0 DEF TutorPage
      <3>2. QED
        BY <3>1 DEF Ops
    <2>4. meta' = meta
      BY <1>8 DEF BoardAnswers
    <2>5. \/ /\ tutor' = Announced(t) /\ sending' = sending \o (opens \o Announcement(t))
             /\ failed' = failed
          \/ tutor' = n /\ sending' = sending /\ failed' = TRUE
      BY <1>8 DEF BoardAnswers, Publish
    <2> HIDE DEF t, opens, n
    <2>6. CASE tutor' = n /\ sending' = sending /\ failed' = TRUE
      BY <2>2, <2>4, <2>6 DEF Unheard, Heralded, MetadataSaysWhatTheTutorSees
    <2>7. CASE /\ tutor' = Announced(t) /\ sending' = sending \o (opens \o Announcement(t))
               /\ failed' = failed
      <3>1. /\ tutor'.conn = tutor.conn /\ tutor'.mode = t.mode /\ tutor'.page = tutor.page /\ tutor'.auto = FALSE
            /\ tutor'.announced \in BOOLEAN /\ tutor'.announced = Announced(t).announced
        BY <2>1, <2>7, AnnouncementInOrder DEF TutorPage
      <3>2. ~tutor.conn => Announcement(t) = <<>> /\ tutor'.announced = tutor.announced /\ sending' = <<>>
        <4>1. ~tutor.conn => Announcement(t) = <<>>
          BY <2>1 DEF Announcement, MustAnnounce
        <4>2. ~tutor.conn => opens = <<>> /\ sending = <<>>
          BY <2>1, <2>3 DEF Unheard
        <4>3. QED
          BY <2>1, <2>7, <3>1, <4>1, <4>2, AnnouncementInOrder
      <3>3. Unheard'
        BY <2>4, <3>1, <3>2 DEF Unheard
      <3>4. Announcement(t) \in Seq(Ops)
        BY <2>1, AnnouncementType
      <3>5. InOrder(opens, tutor.announced, t.mode)
        BY <2>3 DEF InOrder
      <3>6. /\ InOrder(Announcement(t), tutor'.announced, t.mode)
            /\ tutor.announced => Announcement(t) = <<>> /\ tutor'.announced
        BY <2>1, <3>1, AnnouncementInOrder
      <3>7. InOrder(opens \o Announcement(t), tutor'.announced, t.mode)
        <4>1. tutor.announced => \A i \in 1..Len(Announcement(t)) : Announcement(t)[i] # "auto"
          BY <3>6
        <4>2. QED
          BY <2>3, <3>4, <3>5, <3>6, <4>1, InOrderConcat
      <3>8. opens \o Announcement(t) \in Seq(Ops)
        BY <2>3, <3>4, ConcatProperties
      <3>9. tutor.announced => \A i \in 1..Len(opens \o Announcement(t)) : (opens \o Announcement(t))[i] # "auto"
        <4>1. tutor.announced => opens \o Announcement(t) = opens
          BY <2>3, <3>6
        <4>2. QED
          BY <2>3, <4>1
      <3>10. tutor.mode = t.mode \/ t.mode = "board"
        BY <2>1
      <3>11. InOrder(sending', tutor'.announced, t.mode)
        <4>1. InOrder(sending, tutor.announced, tutor.mode)
          BY DEF Heralded
        <4>2. tutor.announced => tutor'.announced
          BY <3>6
        <4>3. InOrder(sending \o (opens \o Announcement(t)), tutor'.announced, t.mode)
          BY <1>0, <3>7, <3>8, <3>9, <3>10, <4>1, <4>2, InOrderConcat
        <4>4. QED
          BY <2>7, <4>3
      <3>12. Heralded'
        BY <2>1, <3>1, <3>11, AnnouncementInOrder DEF Heralded
      <3>13. tutor.conn /\ sending' = <<>> => sending = <<>> /\ Announcement(t) = <<>>
        <4>1. opens \o Announcement(t) \in Seq(Ops)
          BY <3>8
        <4>2. Len(sending') = Len(sending) + Len(opens) + Len(Announcement(t))
          BY <1>0, <2>3, <2>7, <3>4, <4>1, ConcatProperties
        <4>3. Len(sending) \in Nat /\ Len(opens) \in Nat /\ Len(Announcement(t)) \in Nat
          BY <1>0, <2>3, <3>4
        <4>4. sending' = <<>> => Len(sending) = 0 /\ Len(Announcement(t)) = 0
          BY <4>2, <4>3
        <4>5. QED
          BY <1>0, <3>4, <4>4, EmptySeq
      <3>14. tutor.auto /\ tutor.conn => Announcement(t) # <<>>
        BY <2>1 DEF Heralded, Announcement, MustAnnounce
      <3>15. MetadataSaysWhatTheTutorSees'
        BY <2>1, <2>4, <2>7, <3>1, <3>13, <3>14 DEF MetadataSaysWhatTheTutorSees
      <3>16. QED
        BY <3>3, <3>12, <3>15
    <2>8. QED
      BY <2>5, <2>6, <2>7
  <1>9. CASE HandleToggle
    <2>0. tutor.page = "room" /\ UNCHANGED <<meta, failed>>
      BY <1>9 DEF HandleToggle
    <2>1. CASE tutor.mode = "board" /\ tutor.conn /\ Publish(<<"close">>) /\ UNCHANGED tutor
      <3>1. tutor.announced
        BY <2>1 DEF Heralded
      <3>2. InOrder(<<"close">>, tutor.announced, tutor.mode) /\ <<"close">> \in Seq(Ops)
        BY <3>1 DEF InOrder, Ops
      <3>3. \A i \in 1..Len(<<"close">>) : <<"close">>[i] # "auto"
        OBVIOUS
      <3>4. InOrder(sending, tutor.announced, tutor.mode)
        BY DEF Heralded
      <3>5. InOrder(sending \o <<"close">>, tutor.announced, tutor.mode)
        <4> DEFINE x == <<"close">>
        <4>1. /\ x \in Seq(Ops) /\ InOrder(x, tutor.announced, tutor.mode)
              /\ \A i \in 1..Len(x) : x[i] # "auto"
          BY <3>1, <3>2, <3>3
        <4> HIDE DEF x
        <4>2. InOrder(sending \o x, tutor.announced, tutor.mode)
          BY <1>0, <3>4, <4>1, InOrderConcat
        <4>3. QED
          BY <4>2 DEF x
      <3>6. sending' = sending \o <<"close">> /\ sending' # <<>>
        BY <1>0, <2>1 DEF Publish
      <3>7. QED
        BY <2>0, <2>1, <3>1, <3>5, <3>6 DEF Unheard, Heralded, MetadataSaysWhatTheTutorSees
    <2>2. CASE tutor' = [tutor EXCEPT !.mode = "call"] /\ ~tutor.conn /\ sending' = sending
      <3>1. /\ tutor'.mode = "call" /\ tutor'.conn = tutor.conn /\ tutor'.page = tutor.page
            /\ tutor'.announced = tutor.announced /\ tutor'.auto = tutor.auto /\ tutor'.board = tutor.board
        BY <1>0, <2>2 DEF TutorPage
      <3>2. sending = <<>>
        BY <2>2 DEF Unheard
      <3>3. QED
        BY <2>0, <2>2, <3>1, <3>2 DEF Unheard, Heralded, InOrder, MetadataSaysWhatTheTutorSees
    <2>3. CASE tutor.board = "ready" /\ tutor.conn /\ Publish(<<"open">>) /\ UNCHANGED tutor
      <3>1. InOrder(<<"open">>, tutor.announced, tutor.mode) /\ <<"open">> \in Seq(Ops)
        BY DEF InOrder, Ops
      <3>2. \A i \in 1..Len(<<"open">>) : <<"open">>[i] # "auto"
        OBVIOUS
      <3>3. InOrder(sending, tutor.announced, tutor.mode)
        BY DEF Heralded
      <3>4. InOrder(sending \o <<"open">>, tutor.announced, tutor.mode)
        <4> DEFINE x == <<"open">>
        <4>1. /\ x \in Seq(Ops) /\ InOrder(x, tutor.announced, tutor.mode)
              /\ \A i \in 1..Len(x) : x[i] # "auto"
          BY <3>1, <3>2
        <4> HIDE DEF x
        <4>2. InOrder(sending \o x, tutor.announced, tutor.mode)
          BY <1>0, <3>3, <4>1, InOrderConcat
        <4>3. QED
          BY <4>2 DEF x
      <3>5. sending' = sending \o <<"open">> /\ sending' # <<>>
        BY <1>0, <2>3 DEF Publish
      <3>6. QED
        BY <2>0, <2>3, <3>4, <3>5 DEF Unheard, Heralded, MetadataSaysWhatTheTutorSees
    <2>4. CASE ~tutor.conn /\ Publish(<<>>) /\ UNCHANGED tutor
      <3>1. sending' = sending
        BY <1>0, <2>4 DEF Publish
      <3>2. QED
        BY <2>0, <2>4, <3>1 DEF Unheard, Heralded, MetadataSaysWhatTheTutorSees
    <2>5. CASE tutor' = [tutor EXCEPT !.board = "asked", !.waiting = @ + 1] /\ sending' = sending
      <3>1. /\ tutor'.mode = tutor.mode /\ tutor'.conn = tutor.conn /\ tutor'.page = tutor.page
            /\ tutor'.announced = tutor.announced /\ tutor'.auto = tutor.auto /\ tutor'.board = "asked"
        BY <1>0, <2>5 DEF TutorPage
      <3>2. QED
        BY <2>0, <2>5, <3>1 DEF Unheard, Heralded, MetadataSaysWhatTheTutorSees
    <2>6. QED
      BY <1>9, <2>1, <2>2, <2>3, <2>4, <2>5 DEF HandleToggle
  <1>10. CASE MetadataSet
    <2> DEFINE op == Head(sending)
               value == IF op = "close" THEN "closed" ELSE "open"
               t == Turned(op)
               rest == Tail(sending)
    <2>1. /\ op \in Ops /\ rest \in Seq(Ops) /\ sending # <<>>
          /\ op = sending[1] /\ Len(rest) = Len(sending) - 1
          /\ \A i \in 1..Len(rest) : rest[i] = sending[i + 1]
      BY <1>0, <1>10, HeadTailProperties DEF MetadataSet
    <2>2. tutor.conn /\ tutor.page = "room"
      BY <2>1 DEF Unheard
    <2>b. t = [tutor EXCEPT !.mode = IF op = "open" THEN "board" ELSE IF op = "close" THEN "call" ELSE tutor.mode]
      BY <1>0, <2>1 DEF Turned, TutorPage, Ops
    <2>3. /\ t \in TutorPage /\ t.conn = tutor.conn /\ t.page = tutor.page /\ t.announced = tutor.announced
          /\ t.auto = tutor.auto
          /\ t.mode = IF op = "open" THEN "board" ELSE IF op = "close" THEN "call" ELSE tutor.mode
      BY <1>0, <2>b DEF TutorPage
    <2>4. \/ /\ meta' = value /\ tutor' = Announced(t) /\ sending' = rest \o Announcement(t)
             /\ failed' = failed
          \/ /\ failed' = TRUE /\ sending' = rest /\ meta' = meta
             /\ tutor' = IF op = "close" THEN t ELSE tutor
      BY <1>10 DEF MetadataSet
    <2>5. value = IF op = "close" THEN "closed" ELSE "open"
      OBVIOUS
    <2> HIDE DEF op, value, t, rest
    <2>6. /\ ~tutor.auto
          /\ op # "open" => tutor.announced
          /\ op = "auto" => tutor.mode = "board"
          /\ op = "close" => \A i \in 1..Len(rest) : rest[i] # "auto"
      <3>1. 1 \in 1..Len(sending) /\ \A i \in 1..Len(rest) : i + 1 \in 1..Len(sending) /\ 1 < i + 1
        BY <1>0, <2>1
      <3>2. QED
        BY <2>1, <3>1 DEF Heralded, InOrder
    <2>7. InOrder(rest, tutor.announced, tutor.mode)
      <3>1. \A i \in 1..Len(rest) : i + 1 \in 1..Len(sending)
        BY <1>0, <2>1
      <3>2. \A i, j \in 1..Len(rest) : i < j => i + 1 < j + 1
        OBVIOUS
      <3>3. QED
        BY <2>1, <3>1, <3>2 DEF Heralded, InOrder
    <2>8. t.mode = "call" => tutor.mode = "call" \/ \A i \in 1..Len(rest) : rest[i] # "auto"
      BY <2>1, <2>3, <2>6 DEF Ops
    <2>9. InOrder(rest, tutor.announced, t.mode)
      <3>1. t.mode \in {"call", "board"} /\ tutor.mode \in {"call", "board"}
        BY <1>0, <2>3 DEF TutorPage
      <3>2. QED
        BY <2>7, <2>8, <3>1 DEF InOrder
    <2>10. CASE /\ meta' = value /\ tutor' = Announced(t) /\ sending' = rest \o Announcement(t)
                /\ failed' = failed
      <3>1. /\ tutor'.conn = tutor.conn /\ tutor'.mode = t.mode /\ tutor'.page = tutor.page
            /\ tutor'.auto = tutor.auto
            /\ tutor'.announced \in BOOLEAN /\ tutor'.announced = Announced(t).announced
        BY <2>3, <2>10, AnnouncementInOrder DEF TutorPage
      <3>2. Unheard'
        BY <2>2, <3>1 DEF Unheard
      <3>3. Announcement(t) \in Seq(Ops)
        BY <2>3, AnnouncementType
      <3>4. /\ InOrder(Announcement(t), tutor'.announced, t.mode)
            /\ tutor.announced => Announcement(t) = <<>> /\ tutor'.announced
        BY <2>3, <3>1, AnnouncementInOrder
      <3>5. tutor.announced => \A i \in 1..Len(Announcement(t)) : Announcement(t)[i] # "auto"
        BY <3>4
      <3>6. InOrder(rest \o Announcement(t), tutor'.announced, t.mode)
        BY <2>1, <2>9, <3>3, <3>4, <3>5, InOrderConcat
      <3>7. Heralded'
        BY <2>2, <2>3, <2>6, <2>10, <3>1, <3>6, AnnouncementInOrder DEF Heralded
      <3>8. t.mode = "board" <=> value = "open"
        BY <2>1, <2>3, <2>5, <2>6 DEF Ops
      <3>9. MetadataSaysWhatTheTutorSees'
        BY <2>10, <3>1, <3>8 DEF MetadataSaysWhatTheTutorSees
      <3>10. QED
        BY <3>2, <3>7, <3>9
    <2>11. CASE /\ failed' = TRUE /\ sending' = rest /\ meta' = meta
                /\ tutor' = IF op = "close" THEN t ELSE tutor
      <3>1. CASE op = "close"
        BY <2>2, <2>3, <2>6, <2>9, <2>11, <3>1 DEF Unheard, Heralded, MetadataSaysWhatTheTutorSees
      <3>2. CASE op # "close"
        BY <2>2, <2>6, <2>7, <2>11, <3>2 DEF Unheard, Heralded, MetadataSaysWhatTheTutorSees
      <3>3. QED
        BY <3>1, <3>2
    <2>12. QED
      BY <2>4, <2>10, <2>11
  <1>11. QED
    BY <1>1, <1>2, <1>3, <1>4, <1>5, <1>6, <1>7, <1>8, <1>9, <1>10 DEF CallNext, TutorSide

-----------------------------------------------------------------------------
(* CallLesson: what reaches the guest *)

NoClose(s) == \A i \in 1..Len(s) : s[i] # "close"

\* Until the tutor closes the board nothing says that it is closed.
OnlyOpenings ==
  ~closed => /\ NoClose(sending) /\ NoClose(toGuest)
             /\ \A i \in 1..Len(metaEvents) : metaEvents[i] = "open"
             /\ meta # "closed" /\ guest.meta # "closed"

\* Who has been told opens the board, and who is connected is told.
NewsArrives ==
  ~closed /\ ~failed =>
    /\ guest.opened => guest.late \/ guest.mode = "board"
    /\ inCall /\ guest.conn = "on" /\ meta = "open" => guest.opened \/ metaEvents # <<>>

GuestInv == OnlyOpenings /\ NewsArrives

LEMMA NoCloseConcat ==
  ASSUME NEW s \in Seq(Ops), NEW t \in Seq(Ops), NoClose(s), NoClose(t)
  PROVE  NoClose(s \o t)
  <1>1. /\ Len(s \o t) = Len(s) + Len(t)
        /\ \A i \in 1..Len(s) : (s \o t)[i] = s[i]
        /\ \A i \in 1..Len(s \o t) : i > Len(s) => (s \o t)[i] = t[i - Len(s)]
        /\ \A i \in 1..Len(s \o t) : i > Len(s) => i - Len(s) \in 1..Len(t)
    OBVIOUS
  <1>2. ASSUME NEW i \in 1..Len(s \o t)
        PROVE  (s \o t)[i] # "close"
    <2>1. CASE i <= Len(s)
      <3>1. i \in 1..Len(s) /\ (s \o t)[i] = s[i]
        BY <1>1, <2>1
      <3>2. QED
        BY <3>1 DEF NoClose
    <2>2. CASE i > Len(s)
      <3>1. i - Len(s) \in 1..Len(t) /\ (s \o t)[i] = t[i - Len(s)]
        BY <1>1, <2>2
      <3>2. QED
        BY <3>1 DEF NoClose
    <2>3. QED
      BY <2>1, <2>2
  <1>3. QED
    BY <1>2 DEF NoClose

\* Publishing what is not a close.
LEMMA PublishNoClose ==
  ASSUME CallTypeOK, NEW news \in Seq(Ops), Publish(news), NoClose(news),
         NoClose(sending), NoClose(toGuest)
  PROVE  NoClose(sending') /\ NoClose(toGuest')
  <1>1. sending \in Seq(Ops) /\ toGuest \in Seq(Ops)
    BY DEF CallTypeOK, Ops
  <1>2. NoClose(sending')
    BY <1>1, NoCloseConcat DEF Publish
  <1> DEFINE msgs == [i \in DOMAIN news |-> Message(news[i])]
  <1>3. msgs \in Seq(Ops) /\ NoClose(msgs)
    BY DEF Message, NoClose, Ops
  <1>4. toGuest' = Heard(msgs)
    BY DEF Publish
  <1> HIDE DEF msgs
  <1>5. NoClose(toGuest')
    BY <1>1, <1>3, <1>4, NoCloseConcat DEF Heard
  <1>6. QED
    BY <1>2, <1>5

LEMMA AnnouncementOpens ==
  ASSUME NEW t \in TutorPage
  PROVE  NoClose(Announcement(t))
  <1>1. NoClose(<<"auto">>) /\ NoClose(<<>>)
    BY DEF NoClose
  <1>2. QED
    BY <1>1 DEF Announcement

\* Steps that leave the guest alone, and steps that start his room anew.
LEMMA GuestFrame ==
  ASSUME GuestInv, UNCHANGED <<guest, toGuest, metaEvents, sending, meta>>,
         closed => closed', failed => failed', inCall' => inCall
  PROVE  GuestInv'
  BY DEF GuestInv, OnlyOpenings, NewsArrives

LEMMA GuestFresh ==
  ASSUME GuestInv, UNCHANGED <<sending, meta, closed, failed>>,
         \/ guest' = FreshGuest
         \/ guest' \in {[guest EXCEPT !.conn = "over"], [guest EXCEPT !.conn = "again"]} /\ guest \in GuestRoom,
         toGuest' = <<>>, metaEvents' = <<>>
  PROVE  GuestInv'
  <1>1. /\ guest'.opened => guest'.late \/ guest'.mode = "board" \/ ~(~closed /\ ~failed)
        /\ guest'.conn # "on"
        /\ closed \/ guest'.meta # "closed"
    BY DEF FreshGuest, GuestRoom, GuestInv, OnlyOpenings, NewsArrives
  <1>2. NoClose(<<>>)
    BY DEF NoClose
  <1>3. \A i \in 1..Len(<<>>) : <<>>[i] = "open"
    OBVIOUS
  <1>4. OnlyOpenings'
    BY <1>1, <1>2, <1>3 DEF GuestInv, OnlyOpenings
  <1>5. NewsArrives'
    BY <1>1 DEF NewsArrives
  <1>6. QED
    BY <1>4, <1>5 DEF GuestInv

\* Steps of the tutor that add to what is under way and leave the metadata.
LEMMA GuestHears ==
  ASSUME GuestInv, UNCHANGED <<guest, metaEvents, meta, stage, room>>,
         closed => closed', failed => failed',
         ~closed' => NoClose(sending') /\ NoClose(toGuest')
  PROVE  GuestInv'
  BY DEF GuestInv, OnlyOpenings, NewsArrives, inCall

LEMMA GuestStep ==
  ASSUME CallTypes, GuestInv, CallNext
  PROVE  GuestInv'
  <1> USE DEF CallTypes
  <1>0. /\ tutor \in TutorPage /\ guest \in GuestRoom
        /\ sending \in Seq(Ops) /\ toGuest \in Seq(Ops) /\ metaEvents \in Seq({"open", "closed"})
    BY DEF CallTypeOK, Ops
  <1>1. CASE EnterName \/ Tick \/ \E p \in polls : Serve(p) \/ AfterCall(p)
    <2>1. UNCHANGED <<guest, toGuest, metaEvents, sending, meta, closed, failed>>
      BY <1>1 DEF EnterName, Tick, Serve, AfterCall, netVars, tutorVars, histories
    <2>2. inCall' => inCall
      BY <1>1 DEF EnterName, Tick, Serve, AfterCall, inCall
    <2>3. QED
      BY <2>1, <2>2, GuestFrame
  <1>2. ASSUME NEW p \in polls, TryJoin(p)
        PROVE  GuestInv'
    <2>1. UNCHANGED <<sending, meta, closed, failed>>
      BY <1>2 DEF TryJoin, tutorVars, histories
    <2>2. \/ guest' = FreshGuest /\ toGuest' = <<>> /\ metaEvents' = <<>>
          \/ UNCHANGED <<guest, toGuest, metaEvents>> /\ (inCall' => inCall)
      BY <1>2 DEF TryJoin, GoIn, NotIn, netVars, inCall
    <2>3. QED
      BY <2>1, <2>2, GuestFrame, GuestFresh
  <1>3. CASE Disconnected \/ LeavePage \/ GuestDrops
    <2>1. UNCHANGED <<sending, meta, closed, failed>> /\ toGuest' = <<>> /\ metaEvents' = <<>>
      BY <1>3 DEF Disconnected, LeavePage, GuestDrops, tutorVars, histories
    <2>2. guest' \in {FreshGuest, [guest EXCEPT !.conn = "over"], [guest EXCEPT !.conn = "again"]}
      BY <1>3 DEF Disconnected, LeavePage, GuestDrops
    <2>3. QED
      BY <1>0, <2>1, <2>2, GuestFresh
  <1>4. CASE GuestConnects
    <2>1. UNCHANGED <<sending, meta, closed, failed, toGuest, metaEvents, stage, room>>
      BY <1>4 DEF GuestConnects, tutorVars, histories, netVars, doorVars
    <2> DEFINE g == [guest EXCEPT !.conn = "on", !.meta = meta]
    <2>2. guest' = IF meta = "open" /\ ~guest.opened THEN [g EXCEPT !.opened = TRUE, !.late = TRUE] ELSE g
      BY <1>0, <1>4 DEF GuestConnects, FromMetadata, GuestRoom
    <2>3. /\ guest'.meta = meta /\ guest'.mode = guest.mode
          /\ meta = "open" => guest'.opened
          /\ guest'.opened => guest'.late \/ guest.opened
          /\ guest.late => guest'.late
      BY <1>0, <2>2 DEF GuestRoom
    <2>4. QED
      BY <2>1, <2>3 DEF GuestInv, OnlyOpenings, NewsArrives
  <1>5. CASE DataReceived
    <2>1. UNCHANGED <<sending, meta, closed, failed, metaEvents, stage, room>>
      BY <1>5 DEF DataReceived, tutorVars, histories, doorVars
    <2>2. /\ Head(toGuest) = toGuest[1] /\ 1 \in 1..Len(toGuest)
          /\ Len(toGuest') = Len(toGuest) - 1
          /\ \A i \in 1..Len(toGuest') : toGuest'[i] = toGuest[i + 1] /\ i + 1 \in 1..Len(toGuest)
      BY <1>0, <1>5, HeadTailProperties DEF DataReceived
    <2>3. NoClose(toGuest) => NoClose(toGuest') /\ Head(toGuest) # "close"
      BY <2>2 DEF NoClose
    <2>4. Head(toGuest) \in Ops
      BY <1>0, <2>2
    <2>5. /\ guest'.meta = guest.meta /\ guest'.conn = guest.conn /\ guest'.opened = guest.opened
          /\ guest'.late = guest.late
          /\ Head(toGuest) = "open" => guest'.mode = guest.mode
      BY <1>0, <1>5 DEF DataReceived, GuestRoom
    <2>6. NoClose(toGuest) => Head(toGuest) = "open"
      <3>1. Head(toGuest) \in {"open", "close"}
        BY <1>5, HeadTailProperties DEF DataReceived, CallTypeOK
      <3>2. QED
        BY <2>3, <3>1
    <2>7. QED
      BY <2>1, <2>3, <2>5, <2>6 DEF GuestInv, OnlyOpenings, NewsArrives, inCall
  <1>6. CASE MetadataChanged
    <2>1. UNCHANGED <<sending, meta, closed, failed, toGuest, stage, room>>
      BY <1>6 DEF MetadataChanged, tutorVars, histories, doorVars
    <2>2. /\ Head(metaEvents) = metaEvents[1] /\ 1 \in 1..Len(metaEvents)
          /\ Len(metaEvents') = Len(metaEvents) - 1
          /\ \A i \in 1..Len(metaEvents') : metaEvents'[i] = metaEvents[i + 1] /\ i + 1 \in 1..Len(metaEvents)
      BY <1>0, <1>6, HeadTailProperties DEF MetadataChanged
    <2>3. ~closed => /\ Head(metaEvents) = "open"
                     /\ \A i \in 1..Len(metaEvents') : metaEvents'[i] = "open"
      BY <2>2 DEF GuestInv, OnlyOpenings
    <2> DEFINE g == [guest EXCEPT !.meta = Head(metaEvents)]
    <2>4. guest' = IF Head(metaEvents) = "open" /\ ~guest.opened
                   THEN [g EXCEPT !.opened = TRUE, !.late = TRUE] ELSE g
      BY <1>0, <1>6 DEF MetadataChanged, FromMetadata, GuestRoom
    <2>5. /\ guest'.meta = Head(metaEvents) /\ guest'.mode = guest.mode /\ guest'.conn = guest.conn
          /\ Head(metaEvents) = "open" => guest'.opened
          /\ guest'.opened => guest'.late \/ guest.opened
          /\ guest.late => guest'.late
      BY <1>0, <2>4 DEF GuestRoom
    <2>6. QED
      BY <2>1, <2>3, <2>5 DEF GuestInv, OnlyOpenings, NewsArrives, inCall
  <1>7. CASE BoardAnswersGuest
    <2>1. UNCHANGED <<sending, meta, closed, toGuest, metaEvents, stage, room>> /\ (failed => failed')
      BY <1>7 DEF BoardAnswersGuest, tutorVars, netVars, doorVars
    <2>2. \/ guest' = Joined([guest EXCEPT !.data = @ - 1])
          \/ guest' = Joined([guest EXCEPT !.late = FALSE])
          \/ guest' = [guest EXCEPT !.data = @ - 1] /\ failed'
          \/ guest' = [guest EXCEPT !.late = FALSE, !.opened = FALSE] /\ failed'
      BY <1>7 DEF BoardAnswersGuest
    <2> DEFINE G == [conn : {"no", "on", "again", "over"}, mode : {"call", "board"}, opened : BOOLEAN,
                     meta : {"none", "open", "closed"}, data : Int, late : BOOLEAN]
               asked == [guest EXCEPT !.data = @ - 1]
               told == [guest EXCEPT !.late = FALSE]
    <2>a. ASSUME NEW g \in G
          PROVE  /\ Joined(g).meta = g.meta /\ Joined(g).conn = g.conn /\ Joined(g).opened = g.opened
                 /\ Joined(g).mode = "board"
      BY DEF Joined
    <2>b. guest \in G /\ guest.data - 1 \in Int
      BY <1>0 DEF GuestRoom
    <2>c. asked \in G /\ told \in G
      BY <2>b
    <2>d. /\ asked.meta = guest.meta /\ asked.conn = guest.conn /\ asked.opened = guest.opened
          /\ told.meta = guest.meta /\ told.conn = guest.conn /\ told.opened = guest.opened
          /\ [guest EXCEPT !.late = FALSE, !.opened = FALSE].meta = guest.meta
      BY <2>b
    <2>e. /\ Joined(asked).meta = guest.meta /\ Joined(asked).conn = guest.conn
          /\ Joined(asked).opened = guest.opened /\ Joined(asked).mode = "board"
          /\ Joined(told).meta = guest.meta /\ Joined(told).conn = guest.conn
          /\ Joined(told).opened = guest.opened /\ Joined(told).mode = "board"
      BY <2>a, <2>c, <2>d
    <2>3. /\ guest'.meta = guest.meta
          /\ failed' \/ (guest'.mode = "board" /\ guest'.conn = guest.conn /\ guest'.opened = guest.opened)
      BY <2>2, <2>d, <2>e
    <2>4. QED
      BY <2>1, <2>3 DEF GuestInv, OnlyOpenings, NewsArrives, inCall
  <1>8. CASE CallPageOpens \/ StartRoom \/ RoomReady \/ RoomEmpties \/ RoomFinished
    <2>1. UNCHANGED <<guest, toGuest, metaEvents, sending, meta, closed, failed, stage, room>>
      BY <1>8 DEF CallPageOpens, StartRoom, RoomReady, RoomEmpties, RoomFinished, netVars, tutorVars, histories, doorVars
    <2>2. QED
      BY <2>1, GuestFrame DEF inCall
  <1>9. CASE TutorConnects
    <2> DEFINE t == [tutor EXCEPT !.conn = TRUE]
    <2>1. t \in TutorPage
      BY <1>0 DEF TutorPage
    <2>2. Publish(Announcement(t)) /\ UNCHANGED <<guest, metaEvents, meta, stage, room, closed, failed>>
      BY <1>9 DEF TutorConnects, doorVars, histories
    <2> HIDE DEF t
    <2>3. ~closed => NoClose(sending') /\ NoClose(toGuest')
      BY <2>1, <2>2, AnnouncementType, AnnouncementOpens, PublishNoClose DEF GuestInv, OnlyOpenings
    <2>4. QED
      BY <2>2, <2>3, GuestHears
  <1>10. CASE BoardAnswers
    <2> DEFINE t == [tutor EXCEPT !.board = "ready", !.auto = FALSE, !.waiting = 0,
                                  !.mode = IF tutor.auto THEN "board" ELSE @]
               opens == IF t.conn THEN [i \in 1..tutor.waiting |-> "open"] ELSE <<>>
    <2>a. 0 \in 0..MaxClicks
      BY CallAssumption
    <2>b. t = [tutor EXCEPT !.board = "ready", !.auto = FALSE, !.waiting = 0,
                            !.mode = IF tutor.auto THEN "board" ELSE tutor.mode]
      BY <1>0 DEF TutorPage
    <2>1. t \in TutorPage
      BY <1>0, <2>a, <2>b DEF TutorPage
    <2>2. opens \in Seq(Ops) /\ NoClose(opens)
      <3>1. tutor.waiting \in Nat
        BY <1>0 DEF TutorPage
      <3>2. QED
        BY <3>1 DEF Ops, NoClose
    <2>3. UNCHANGED <<guest, metaEvents, meta, stage, room, closed>> /\ (failed => failed')
      BY <1>10 DEF BoardAnswers, doorVars
    <2>4. Publish(opens \o Announcement(t)) \/ UNCHANGED <<sending, toGuest>>
      BY <1>10 DEF BoardAnswers
    <2> HIDE DEF t, opens
    <2>5. opens \o Announcement(t) \in Seq(Ops) /\ NoClose(opens \o Announcement(t))
      BY <2>1, <2>2, AnnouncementType, AnnouncementOpens, NoCloseConcat, ConcatProperties
    <2>6. ~closed => NoClose(sending') /\ NoClose(toGuest')
      BY <2>4, <2>5, PublishNoClose DEF GuestInv, OnlyOpenings
    <2>7. QED
      BY <2>3, <2>6, GuestHears
  <1>11. CASE HandleToggle
    <2>1. UNCHANGED <<guest, metaEvents, meta, stage, room, failed>> /\ (closed => closed')
      BY <1>11 DEF HandleToggle, doorVars
    <2>2. \/ closed' = TRUE
          \/ Publish(<<"open">>) \/ Publish(<<>>)
          \/ UNCHANGED <<sending, toGuest>>
      BY <1>11 DEF HandleToggle
    <2>3. <<"open">> \in Seq(Ops) /\ <<>> \in Seq(Ops) /\ NoClose(<<"open">>) /\ NoClose(<<>>)
      BY DEF Ops, NoClose
    <2>4. ~closed' => NoClose(sending') /\ NoClose(toGuest')
      BY <2>1, <2>2, <2>3, PublishNoClose DEF GuestInv, OnlyOpenings
    <2>5. QED
      BY <2>1, <2>4, GuestHears
  <1>12. CASE MetadataSet
    <2> DEFINE op == Head(sending)
               value == IF op = "close" THEN "closed" ELSE "open"
               t == Turned(op)
               rest == Tail(sending)
    <2>1. /\ op \in Ops /\ rest \in Seq(Ops) /\ 1 \in 1..Len(sending)
          /\ op = sending[1] /\ Len(rest) = Len(sending) - 1
          /\ \A i \in 1..Len(rest) : rest[i] = sending[i + 1] /\ i + 1 \in 1..Len(sending)
      BY <1>0, <1>12, HeadTailProperties DEF MetadataSet
    <2>2. t \in TutorPage
      BY <1>0 DEF Turned, TutorPage
    <2>3. UNCHANGED <<guest, stage, room, closed>>
      BY <1>12 DEF MetadataSet, doorVars
    <2>4. \/ /\ meta' = value
             /\ metaEvents' = IF guest.conn = "on" /\ inCall THEN Append(metaEvents, value) ELSE metaEvents
             /\ sending' = rest \o Announcement(t)
             /\ toGuest' = Heard([i \in DOMAIN Announcement(t) |-> "open"])
             /\ failed' = failed
          \/ failed' = TRUE /\ sending' = rest /\ UNCHANGED <<meta, metaEvents, toGuest>>
      BY <1>12 DEF MetadataSet
    <2>5. value = IF op = "close" THEN "closed" ELSE "open"
      OBVIOUS
    <2> HIDE DEF op, value, t, rest
    <2>6. ~closed => NoClose(rest) /\ op # "close"
      BY <2>1 DEF GuestInv, OnlyOpenings, NoClose
    <2>7. CASE failed' = TRUE /\ sending' = rest /\ UNCHANGED <<meta, metaEvents, toGuest>>
      BY <2>3, <2>6, <2>7 DEF GuestInv, OnlyOpenings, NewsArrives
    <2>8. CASE /\ meta' = value
               /\ metaEvents' = IF guest.conn = "on" /\ inCall THEN Append(metaEvents, value) ELSE metaEvents
               /\ sending' = rest \o Announcement(t)
               /\ toGuest' = Heard([i \in DOMAIN Announcement(t) |-> "open"])
               /\ failed' = failed
      <3> DEFINE msgs == [i \in DOMAIN Announcement(t) |-> "open"]
      <3>1. Announcement(t) \in Seq(Ops) /\ NoClose(Announcement(t))
        BY <2>2, AnnouncementType, AnnouncementOpens
      <3>2. msgs \in Seq(Ops) /\ NoClose(msgs)
        BY <3>1 DEF NoClose, Ops
      <3>3. toGuest' = Heard(msgs)
        BY <2>8
      <3> HIDE DEF msgs
      <3>4. ~closed => NoClose(toGuest')
        BY <1>0, <3>2, <3>3, NoCloseConcat DEF Heard, GuestInv, OnlyOpenings
      <3>5. ~closed => NoClose(sending')
        BY <2>1, <2>6, <2>8, <3>1, NoCloseConcat
      <3>6. value \in {"open", "closed"} /\ (~closed => value = "open")
        BY <2>5, <2>6
      <3>7. /\ Len(Append(metaEvents, value)) = Len(metaEvents) + 1
            /\ \A i \in 1..Len(metaEvents) + 1 :
                 Append(metaEvents, value)[i] = IF i <= Len(metaEvents) THEN metaEvents[i] ELSE value
            /\ Append(metaEvents, value) # <<>>
        BY <1>0, <3>6, AppendProperties
      <3>8. ~closed => \A i \in 1..Len(metaEvents') : metaEvents'[i] = "open"
        BY <1>0, <2>8, <3>6, <3>7 DEF GuestInv, OnlyOpenings
      <3>9. OnlyOpenings'
        BY <2>3, <2>8, <3>4, <3>5, <3>6, <3>8 DEF GuestInv, OnlyOpenings
      <3>10. NewsArrives'
        BY <2>3, <2>8, <3>7 DEF GuestInv, NewsArrives, inCall
      <3>11. QED
        BY <3>9, <3>10 DEF GuestInv
    <2>9. QED
      BY <2>4, <2>7, <2>8
  <1>13. CASE TutorLeaves \/ TutorReloads
    <2>1. /\ UNCHANGED <<toGuest, metaEvents, stage, room, closed, failed>>
          /\ sending' = <<>> /\ meta' = "none" /\ guest' = [guest EXCEPT !.meta = "none"]
      BY <1>13 DEF TutorLeaves, TutorReloads, TutorGone, netVars, doorVars, histories
    <2>2. /\ guest'.meta = "none" /\ guest'.opened = guest.opened /\ guest'.late = guest.late
          /\ guest'.mode = guest.mode
      BY <1>0, <2>1 DEF GuestRoom
    <2>3. NoClose(sending')
      BY <2>1 DEF NoClose
    <2>4. QED
      BY <2>1, <2>2, <2>3 DEF GuestInv, OnlyOpenings, NewsArrives
  <1>14. QED
    BY <1>1, <1>2, <1>3, <1>4, <1>5, <1>6, <1>7, <1>8, <1>9, <1>10, <1>11, <1>12, <1>13
    DEF CallNext, Door, Inside, TutorSide

-----------------------------------------------------------------------------
(* CallLesson: the theorems *)

CallInv == CallTypes /\ DoorInv /\ NewsInv /\ GuestInv

LEMMA CallInvInit ==
  ASSUME CallInit
  PROVE  CallInv
  <1>1. CallTypes
    <2>1. tutor \in TutorPage /\ tutor.waiting = 0
      BY FreshTypes DEF CallInit
    <2>2. /\ sending \in Seq({"auto", "open", "close"}) /\ toGuest \in Seq({"open", "close"})
          /\ metaEvents \in Seq({"open", "closed"})
      BY DEF CallInit
    <2>3. polls \subseteq Poll
      BY CallAssumption DEF CallInit, Poll
    <2>4. {live, webhook, room, ended, closed, failed} \subseteq BOOLEAN
      BY DEF CallInit
    <2>5. 0 \in 0..MaxClicks /\ 0 \in 0..MaxFaults
      BY CallAssumption
    <2>6. timers \in [ticking : Nat, held : BOOLEAN] /\ ~timers.held
      BY DEF CallInit
    <2>7. guest \in GuestRoom
      BY FreshTypes DEF CallInit
    <2>8. stage \in {"form", "waiting"} /\ clicks = 0 /\ faults = 0 /\ kind \in {"lesson", "trial"}
          /\ status = "waiting" /\ meta = "none"
      BY DEF CallInit
    <2>9. CallTypeOK
      BY <2>1, <2>2, <2>3, <2>4, <2>5, <2>6, <2>7, <2>8 DEF CallTypeOK
    <2>10. QED
      BY <2>1, <2>6, <2>8, <2>9 DEF CallTypes, HeldTicks, WaitingCounted
  <1>2. DoorInv
    <2>1. stage # "ended" /\ status # "ended" /\ \A p \in polls : p.at = "status"
      BY DEF CallInit
    <2>2. CASE kind = "trial"
      BY <2>1, <2>2 DEF CallInit, DoorInv, EndIsKnown, WaitingIsWatched
    <2>3. CASE kind # "trial"
      <3>1. [n |-> 1, from |-> "first", at |-> "status"] \in polls
        BY <2>3 DEF CallInit
      <3>2. \E p \in polls : p.from = "first"
        BY <3>1
      <3>3. QED
        BY <2>1, <3>2 DEF DoorInv, EndIsKnown, WaitingIsWatched
    <2>4. QED
      BY <2>2, <2>3
  <1>3. NewsInv
    <2>1. /\ tutor.conn = FALSE /\ tutor.mode = "call" /\ tutor.announced = FALSE
          /\ tutor.auto => tutor.board = "asked"
      BY DEF CallInit, FreshTutor
    <2>2. InOrder(sending, tutor.announced, tutor.mode)
      BY DEF CallInit, InOrder
    <2>3. QED
      BY <2>1, <2>2 DEF CallInit, NewsInv, Unheard, Heralded, MetadataSaysWhatTheTutorSees
  <1>4. GuestInv
    BY DEF CallInit, FreshGuest, GuestInv, OnlyOpenings, NewsArrives, NoClose
  <1>5. QED
    BY <1>1, <1>2, <1>3, <1>4 DEF CallInv

LEMMA CallStutter ==
  ASSUME CallInv, UNCHANGED callVars
  PROVE  CallInv'
  <1>1. UNCHANGED <<kind, status, live, webhook, ended, tutor, sending, meta, stage, room, polls, timers, guest,
                    toGuest, metaEvents, clicks, faults, closed, failed>>
    BY DEF callVars, roomVars, tutorVars, doorVars, netVars, counters, histories
  <1>2. CallTypes' /\ DoorInv'
    BY <1>1 DEF CallInv, CallTypes, CallTypeOK, HeldTicks, WaitingCounted, DoorInv, EndIsKnown, WaitingIsWatched
  <1>3. NewsInv'
    BY <1>1 DEF CallInv, NewsInv, Unheard, Heralded, MetadataSaysWhatTheTutorSees
  <1>4. GuestInv'
    BY <1>1, GuestFrame DEF CallInv, inCall
  <1>5. QED
    BY <1>2, <1>3, <1>4 DEF CallInv

\* Whatever the two people click and whatever fails, what the two pages, the
\* server and the messages under way say of each other stays consistent.
THEOREM CallInvariant == CallSpec => []CallInv
  <1>1. CallInit => CallInv
    BY CallInvInit
  <1>2. CallInv /\ [CallNext]_callVars => CallInv'
    BY CallTypesStep, DoorStep, NewsStep, GuestStep, CallStutter DEF CallInv
  <1>3. QED
    BY <1>1, <1>2, PTL DEF CallSpec

\* The final screen is only shown when the lesson was over, for any numbers of
\* clicks, failures and requests under way.
THEOREM TheEndIsTrue == CallSpec => []EndIsTrue
  <1>1. CallInv => EndIsTrue
    BY DEF CallInv, CallTypes, DoorInv, EndIsKnown, EndIsTrue
  <1>2. QED
    BY <1>1, CallInvariant, PTL

\* A guest at the door is never forgotten.
THEOREM NobodyWaitsUnwatched == CallSpec => []WaitingIsWatched
  <1>1. CallInv => WaitingIsWatched
    BY DEF CallInv, DoorInv
  <1>2. QED
    BY <1>1, CallInvariant, PTL

\* As long as no announcement has failed, the metadata a late guest finds is
\* what the tutor sees.
THEOREM LatecomersAreTold == CallSpec => []MetadataSaysWhatTheTutorSees
  <1>1. CallInv => MetadataSaysWhatTheTutorSees
    BY DEF CallInv, NewsInv
  <1>2. QED
    BY <1>1, CallInvariant, PTL

\* A board that was opened and never closed is open at a guest with whom
\* nothing is under way any more.
THEOREM OpenedBoardIsSeen == CallSpec => []FirstOpenIsSeen
  <1>1. CallInv => FirstOpenIsSeen
    <2>1. SUFFICES ASSUME CallInv, Quiet, ~failed, ~closed, tutor.mode = "board"
                   PROVE  guest.mode = "board"
      BY DEF FirstOpenIsSeen
    <2>2. meta = "open"
      BY <2>1 DEF CallInv, NewsInv, MetadataSaysWhatTheTutorSees, Quiet
    <2>3. QED
      BY <2>1, <2>2 DEF CallInv, GuestInv, NewsArrives, Quiet
  <1>2. QED
    BY <1>1, CallInvariant, PTL

-----------------------------------------------------------------------------
(* MediaSync: types *)

Places == Positions \cup {Unset}
MediaFrames == [action : {"play", "pause", "seek", "open", "close", "req"},
                file : Files \cup {None}, pos : Places, rate : Rates \cup {Unset}]
Elements == [file : Files \cup {None}, playing : BOOLEAN, pos : Positions, rate : Rates]
\* What an element says, and what a tab has not heard yet.
Says == Toggles \cup {"seeked"}
Unheards == Seq(Event)
Behind == {"person", "page", "late"}
Buffers == [set : {TRUE}, pos : Positions, play : BOOLEAN, rate : Rates \cup {Unset}]

MediaTypes ==
  /\ what \in {"file", "clip"}
  /\ up \in [Tabs -> BOOLEAN] /\ media \in [Tabs -> Files \cup {None}]
  /\ chan \in [Tabs -> Seq(MediaFrames)]
  /\ el \in [Tabs -> Elements]
  /\ events \in [Tabs -> Unheards]
  /\ agreed \in [Tabs -> Toggles \cup {"unset"}]
  /\ expected \in [Tabs -> Places]
  /\ pending \in [Tabs -> Buffers \cup {NothingPending}]
  /\ gesture \in [Tabs -> BOOLEAN]
  /\ acts \in [Tabs -> Nat] /\ said \in [Tabs -> Nat]

LEMMA ElementFields ==
  ASSUME el \in [Tabs -> Elements], NEW c \in Tabs
  PROVE  /\ el[c].file \in Files \cup {None} /\ el[c].playing \in BOOLEAN
         /\ el[c].pos \in Positions /\ el[c].rate \in Rates
  BY DEF Elements

LEMMA FreshElement ==
  /\ NoElement \in Elements
  /\ \A f \in Files \cup {None} :
       /\ Fresh(f) \in Elements /\ Fresh(f).pos = 0 /\ Fresh(f).playing = FALSE
  BY MediaAssumption DEF NoElement, Fresh, Elements, None, Rates

LEMMA PeerIsATab == \A c \in Tabs : Peer(c) \in Tabs /\ Peer(c) # c
  <1> TAKE c \in Tabs
  <1>1. \E d \in Tabs : d # c
    BY DEF Tabs, Tutor, Student
  <1> QED
    BY <1>1 DEF Peer

LEMMA FramesAreFrames ==
  ASSUME NEW action \in {"play", "pause", "seek", "open", "close", "req"},
         NEW file \in Files \cup {None}, NEW pos \in Places, NEW rate \in Rates \cup {Unset}
  PROVE  Frame(action, file, pos, rate) \in MediaFrames
  BY DEF Frame, MediaFrames

\* The frames a tab sends itself.
LEMMA SaidFrames ==
  ASSUME NEW pos \in Positions, NEW rate \in Rates
  PROVE  /\ \A action \in Toggles \cup {"seek"} : Frame(action, None, pos, Unset) \in MediaFrames
         /\ Frame("seek", None, pos, rate) \in MediaFrames
         /\ \A f \in Files : Frame("open", f, 0, 1) \in MediaFrames
         /\ \A f \in Files \cup {None} : Frame("open", f, pos, rate) \in MediaFrames
         /\ Frame("close", None, Unset, Unset) \in MediaFrames
         /\ Frame("req", None, Unset, Unset) \in MediaFrames
  <1>1. pos \in Places /\ 0 \in Places /\ Unset \in Places
    BY MediaAssumption DEF Places
  <1>2. rate \in Rates \cup {Unset} /\ 1 \in Rates \cup {Unset} /\ Unset \in Rates \cup {Unset}
    BY DEF Rates
  <1>3. None \in Files \cup {None}
    OBVIOUS
  <1> QED
    BY <1>1, <1>2, <1>3, FramesAreFrames DEF Toggles

LEMMA SendTypes ==
  ASSUME MediaTypes, NEW c \in Tabs, NEW frames \in Seq(MediaFrames), Send(c, frames)
  PROVE  chan' \in [Tabs -> Seq(MediaFrames)]
  <1>1. chan[Peer(c)] \o frames \in Seq(MediaFrames)
    BY PeerIsATab DEF MediaTypes
  <1> QED
    BY <1>1, PeerIsATab DEF Send, MediaTypes

LEMMA AnswerReqTypes ==
  ASSUME MediaTypes, NEW c \in Tabs
  PROVE  AnswerReq(c) \in Seq(MediaFrames)
  <1> DEFINE e == el[c]
  <1>1. e.file \in Files \cup {None} /\ e.pos \in Positions /\ e.rate \in Rates
    BY ElementFields DEF MediaTypes
  <1>2. /\ Frame("play", None, e.pos, Unset) \in MediaFrames
        /\ Frame("pause", None, e.pos, Unset) \in MediaFrames
        /\ Frame("open", e.file, e.pos, e.rate) \in MediaFrames
    BY <1>1, SaidFrames DEF Toggles
  <1>3. AnswerReq(c) \in {<<>>, <<Frame("play", None, e.pos, Unset)>>,
                       <<Frame("pause", None, e.pos, Unset)>>,
                       <<Frame("open", e.file, e.pos, e.rate)>> \o <<>>,
                       <<Frame("open", e.file, e.pos, e.rate)>> \o <<Frame("play", None, e.pos, Unset)>>}
    BY DEF AnswerReq
  <1> DEFINE plays == Frame("play", None, e.pos, Unset)
             pauses == Frame("pause", None, e.pos, Unset)
             opens == Frame("open", e.file, e.pos, e.rate)
  <1>4. plays \in MediaFrames /\ pauses \in MediaFrames /\ opens \in MediaFrames
    BY <1>2
  <1>5. AnswerReq(c) \in {<<>>, <<plays>>, <<pauses>>, <<opens>> \o <<>>, <<opens>> \o <<plays>>}
    BY <1>3
  <1> HIDE DEF plays, pauses, opens
  <1>6. /\ <<>> \in Seq(MediaFrames) /\ <<plays>> \in Seq(MediaFrames)
        /\ <<pauses>> \in Seq(MediaFrames) /\ <<opens>> \in Seq(MediaFrames)
    BY <1>4
  <1>7. <<opens>> \o <<>> \in Seq(MediaFrames) /\ <<opens>> \o <<plays>> \in Seq(MediaFrames)
    BY <1>6
  <1> QED
    BY <1>5, <1>6, <1>7

LEMMA BufferedTypes ==
  ASSUME MediaTypes, NEW c \in Tabs, NEW m \in MediaFrames
  PROVE  Buffered(c, m) \in Buffers \cup {NothingPending}
  <1>1. CASE m.action = "close"
    BY <1>1 DEF Buffered, MediaTypes
  <1>2. CASE m.action # "close"
    <2> DEFINE old == pending[c]
               pos == Or(m.pos, IF old.set THEN old.pos ELSE 0)
               rate == Or(m.rate, IF old.set THEN old.rate ELSE Unset)
               play == m.action = "play"
    <2>1. old \in Buffers \cup {NothingPending}
      BY DEF MediaTypes
    <2>2. \/ old.set = TRUE /\ old.pos \in Positions /\ old.rate \in Rates \cup {Unset}
          \/ old.set = FALSE
      <3> HIDE DEF old
      <3>1. CASE old \in Buffers
        <4>1. old.set \in {TRUE}
          BY <3>1 DEF Buffers
        <4>2. old.pos \in Positions /\ old.rate \in Rates \cup {Unset}
          BY <3>1 DEF Buffers
        <4> QED
          BY <4>1, <4>2
      <3>2. CASE old = NothingPending
        BY <3>2 DEF NothingPending
      <3> QED
        BY <2>1, <3>1, <3>2
    <2>3. m.pos \in Positions \cup {Unset} /\ m.rate \in Rates \cup {Unset}
      BY DEF MediaFrames, Places
    <2>4. pos \in Positions
      BY <2>2, <2>3, MediaAssumption DEF Or
    <2>5. rate \in Rates \cup {Unset}
      BY <2>2, <2>3 DEF Or
    <2>6. play \in BOOLEAN
      OBVIOUS
    <2>7. Buffered(c, m) = [set |-> TRUE, pos |-> pos, play |-> play, rate |-> rate]
      BY <1>2 DEF Buffered
    <2> HIDE DEF pos, rate, play
    <2> QED
      BY <2>4, <2>5, <2>6, <2>7 DEF Buffers
  <1> QED
    BY <1>1, <1>2
LEMMA PendingFields ==
  ASSUME MediaTypes, NEW c \in Tabs
  PROVE  \/ /\ pending[c].set = TRUE /\ pending[c].pos \in Positions
            /\ pending[c].play \in BOOLEAN /\ pending[c].rate \in Rates \cup {Unset}
         \/ pending[c].set = FALSE
  <1>1. CASE pending[c] \in Buffers
    BY <1>1 DEF Buffers
  <1>2. CASE pending[c] = NothingPending
    BY <1>2 DEF NothingPending
  <1> QED
    BY <1>1, <1>2 DEF MediaTypes

LEMMA AppliedTypes ==
  ASSUME MediaTypes, NEW c \in Tabs, NEW ok \in BOOLEAN, NEW f \in Files
  PROVE  Applied(c, f, ok) \in Elements
  <1>1. CASE pending[c] = NothingPending
    BY <1>1, FreshElement DEF Applied, NothingPending
  <1>2. CASE pending[c] \in Buffers
    <2> DEFINE p == pending[c]
               rate == IF p.rate = Unset \/ what = "clip" THEN 1 ELSE p.rate
               playing == p.play /\ ok
    <2>1. p.set = TRUE /\ p.pos \in Positions /\ p.rate \in Rates \cup {Unset}
      BY <1>2 DEF Buffers
    <2>2. rate \in Rates
      BY <2>1 DEF Rates
    <2>3. playing \in BOOLEAN
      OBVIOUS
    <2>4. Applied(c, f, ok) = [file |-> f, playing |-> playing, pos |-> p.pos, rate |-> rate]
      BY <2>1 DEF Applied
    <2> HIDE DEF rate, playing, p
    <2> QED
      BY <2>1, <2>2, <2>3, <2>4 DEF Elements
  <1> QED
    BY <1>1, <1>2 DEF MediaTypes

LEMMA MediaTypesInit == MediaInit => MediaTypes
  <1> SUFFICES ASSUME MediaInit PROVE MediaTypes
    OBVIOUS
  <1>1. (CHOOSE f \in Files : TRUE) \in Files
    BY MediaAssumption
  <1>2. media \in [Tabs -> Files \cup {None}]
    BY <1>1 DEF MediaInit
  <1>3. el \in [Tabs -> Elements]
    BY FreshElement DEF MediaInit
  <1>4. chan \in [Tabs -> Seq(MediaFrames)] /\ events \in [Tabs -> Unheards]
    BY DEF MediaInit, Unheards
  <1>5. what \in {"file", "clip"} /\ up \in [Tabs -> BOOLEAN] /\ gesture \in [Tabs -> BOOLEAN]
    BY DEF MediaInit
  <1>6. agreed \in [Tabs -> Toggles \cup {"unset"}] /\ expected \in [Tabs -> Places]
    BY DEF MediaInit, Places
  <1>7. pending \in [Tabs -> Buffers \cup {NothingPending}]
    BY DEF MediaInit
  <1>8. acts \in [Tabs -> Nat] /\ said \in [Tabs -> Nat]
    BY DEF MediaInit
  <1> QED
    BY <1>2, <1>3, <1>4, <1>5, <1>6, <1>7, <1>8 DEF MediaTypes

LEMMA EventLists ==
  /\ <<>> \in Seq(Says) /\ <<"play">> \in Seq(Says)
  /\ <<"pause">> \in Seq(Says) /\ <<"seeked">> \in Seq(Says)
  /\ \A s \in Seq(Says) : <<"seeked">> \o s \in Seq(Says)
  BY DEF Toggles, Says

LEMMA ChangesAreSaid ==
  ASSUME NEW c
  PROVE  /\ Played(c) \in Seq(Says) /\ Paused(c) \in Seq(Says)
         /\ Played(c) \o Paused(c) \in Seq(Says)
  <1>1. Played(c) \in Seq(Says) /\ Paused(c) \in Seq(Says)
    BY EventLists DEF Played, Paused
  <1> QED
    BY <1>1

LEMMA ElementChanges ==
  ASSUME el \in [Tabs -> Elements], NEW c \in Tabs
  PROVE  /\ \A b \in BOOLEAN : [el EXCEPT ![c].playing = b] \in [Tabs -> Elements]
         /\ \A p \in Positions : [el EXCEPT ![c].pos = p] \in [Tabs -> Elements]
         /\ \A r \in Rates : [el EXCEPT ![c].rate = r] \in [Tabs -> Elements]
  BY DEF Elements

LEMMA EventsBy ==
  ASSUME NEW evs \in Seq(Says), NEW who \in Behind
  PROVE  /\ By(evs, who) \in Unheards /\ DOMAIN By(evs, who) = 1 .. Len(evs)
         /\ \A k \in DOMAIN By(evs, who) : /\ By(evs, who)[k].by = who
                                          /\ By(evs, who)[k].says = evs[k]
  <1>1. \A k \in DOMAIN evs : [says |-> evs[k], by |-> who] \in Event
    BY DEF Event, Says, Behind
  <1> QED
    BY <1>1 DEF By, Unheards

LEMMA LateEvents ==
  ASSUME NEW evs \in Unheards
  PROVE  /\ Late(evs) \in Unheards
         /\ \A k \in DOMAIN Late(evs) : Late(evs)[k].by # "page"
  <1>1. ASSUME NEW k \in DOMAIN evs
        PROVE  /\ (IF evs[k].by = "page" THEN [evs[k] EXCEPT !.by = "late"] ELSE evs[k]) \in Event
               /\ (IF evs[k].by = "page" THEN [evs[k] EXCEPT !.by = "late"] ELSE evs[k]).by # "page"
    <2>1. evs[k] \in Event
      BY DEF Unheards
    <2> QED
      BY <2>1 DEF Event
  <1>2. \A k \in DOMAIN Late(evs) : Late(evs)[k] \in Event /\ Late(evs)[k].by # "page"
    BY <1>1 DEF Late
  <1>3. DOMAIN Late(evs) = 1 .. Len(evs) /\ Len(evs) \in Nat
    BY DEF Late, Unheards
  <1> DEFINE late == Late(evs)
  <1>4. late = [k \in 1 .. Len(evs) |-> late[k]]
    BY <1>3 DEF Late
  <1> HIDE DEF late
  <1>5. late \in Seq(Event)
    BY <1>2, <1>3, <1>4 DEF late
  <1> QED
    BY <1>2, <1>5 DEF late, Unheards

\* The element fires: what waits to be heard is all of one kind, or none of it
\* is the page's own and in time.
LEMMA FiresEvents ==
  ASSUME MediaTypes, NEW c \in Tabs, NEW evs \in Seq(Says), NEW who \in Behind,
         Fires(c, evs, who)
  PROVE  /\ events' \in [Tabs -> Unheards]
         /\ \A d \in Tabs : d # c => events'[d] = events[d]
         /\ \/ events'[c] = By(evs, who)
            \/ \A k \in DOMAIN events'[c] : events'[c][k].by # "page"
  <1>0. By(evs, who) \in Unheards
    BY EventsBy
  <1>1. CASE events[c] = <<>>
    <2>1. events' = [events EXCEPT ![c] = By(evs, who)]
      BY <1>1 DEF Fires
    <2> QED
      BY <1>0, <2>1 DEF MediaTypes
  <1>2. CASE events[c] # <<>>
    <2> DEFINE all == events[c] \o By(evs, who)
    <2>1. events' = [events EXCEPT ![c] = Late(all)]
      BY <1>2 DEF Fires
    <2>2. all \in Unheards
      BY <1>0 DEF MediaTypes, Unheards
    <2> HIDE DEF all
    <2>3. Late(all) \in Unheards /\ \A k \in DOMAIN Late(all) : Late(all)[k].by # "page"
      BY <2>2, LateEvents
    <2> QED
      BY <2>1, <2>3 DEF MediaTypes
  <1> QED
    BY <1>1, <1>2

LEMMA ActsTypes ==
  ASSUME MediaTypes, NEW c \in Tabs, Acts(c) \/ \E frame : Announces(c, frame)
  PROVE  acts' \in [Tabs -> Nat]
  <1>1. acts' = [acts EXCEPT ![c] = @ + 1]
    BY DEF Acts, Announces
  <1> QED
    BY <1>1 DEF MediaTypes

LEMMA AnnouncesTypes ==
  ASSUME MediaTypes, NEW c \in Tabs, NEW frame \in MediaFrames, Announces(c, frame)
  PROVE  /\ chan' \in [Tabs -> Seq(MediaFrames)] /\ acts' \in [Tabs -> Nat]
         /\ events' \in [Tabs -> Unheards]
  <1>1. <<frame>> \in Seq(MediaFrames) /\ <<>> \in Seq(Says)
    OBVIOUS
  <1>2. Send(c, <<frame>>) /\ Fires(c, <<>>, "person")
    BY DEF Announces
  <1> QED
    BY <1>1, <1>2, SendTypes, FiresEvents, ActsTypes DEF Behind

LEMMA TypesPersonStep ==
  ASSUME MediaTypes, NEW c \in Tabs,
         \/ Toggle(c) \/ Resume(c)
         \/ \E p \in Positions : Seek(c, p)
         \/ \E r \in Rates : setRate(c, r)
  PROVE  MediaTypes'
  <1>1. CASE Toggle(c)
    <2>1. Played(c) \o Paused(c) \in Seq(Says)
      BY ChangesAreSaid
    <2>2. events' \in [Tabs -> Unheards]
      BY <1>1, <2>1, FiresEvents DEF Toggle, Behind
    <2>3. el' \in [Tabs -> Elements]
      <3>1. el[c].playing = TRUE \/ el[c].playing = FALSE
        BY ElementFields DEF MediaTypes
      <3>2. CASE el[c].playing = TRUE
        <4>1. el' = [el EXCEPT ![c].playing = FALSE]
          BY <1>1, <3>2 DEF Toggle
        <4> QED
          BY <4>1, ElementChanges DEF MediaTypes
      <3>3. CASE el[c].playing = FALSE
        <4>1. el' = [el EXCEPT ![c].playing = TRUE]
          BY <1>1, <3>3 DEF Toggle
        <4> QED
          BY <4>1, ElementChanges DEF MediaTypes
      <3> QED
        BY <3>1, <3>2, <3>3
    <2>4. acts' \in [Tabs -> Nat]
      BY <1>1, ActsTypes DEF Toggle
    <2> QED
      BY <1>1, <2>2, <2>3, <2>4 DEF Toggle, MediaTypes
  <1>2. CASE Resume(c)
    <2>2. events' \in [Tabs -> Unheards]
      BY <1>2, ChangesAreSaid, FiresEvents DEF Resume, Behind
    <2>3. el' \in [Tabs -> Elements]
      BY <1>2, ElementChanges DEF Resume, MediaTypes
    <2>4. acts' \in [Tabs -> Nat] /\ gesture' \in [Tabs -> BOOLEAN]
      BY <1>2, ActsTypes DEF Resume, MediaTypes
    <2> QED
      BY <1>2, <2>2, <2>3, <2>4 DEF Resume, MediaTypes
  <1>3. ASSUME NEW p \in Positions, Seek(c, p) PROVE MediaTypes'
    <2>2. events' \in [Tabs -> Unheards]
      BY <1>3, EventLists, FiresEvents DEF Seek, Behind
    <2>3. el' \in [Tabs -> Elements]
      BY <1>3, ElementChanges DEF Seek, MediaTypes
    <2>4. acts' \in [Tabs -> Nat]
      BY <1>3, ActsTypes DEF Seek
    <2> QED
      BY <1>3, <2>2, <2>3, <2>4 DEF Seek, MediaTypes
  <1>4. ASSUME NEW r \in Rates, setRate(c, r) PROVE MediaTypes'
    <2>1. el[c].pos \in Positions
      BY ElementFields DEF MediaTypes
    <2>2. Frame("seek", None, el[c].pos, r) \in MediaFrames
      BY <2>1, SaidFrames
    <2>3. /\ chan' \in [Tabs -> Seq(MediaFrames)] /\ acts' \in [Tabs -> Nat]
          /\ events' \in [Tabs -> Unheards]
      BY <1>4, <2>2, AnnouncesTypes DEF setRate
    <2>4. el' \in [Tabs -> Elements]
      BY <1>4, ElementChanges DEF setRate, MediaTypes
    <2> QED
      BY <1>4, <2>3, <2>4 DEF setRate, MediaTypes
  <1> QED
    BY <1>1, <1>2, <1>3, <1>4

LEMMA TypesTutorStep ==
  ASSUME MediaTypes, close \/ \E f \in Files : open(f)
  PROVE  MediaTypes'
  <1>0. Tutor \in Tabs
    BY DEF Tabs
  <1>1. CASE close
    <2>1. Frame("close", None, Unset, Unset) \in MediaFrames
      BY SaidFrames, MediaAssumption DEF Rates
    <2>2. /\ chan' \in [Tabs -> Seq(MediaFrames)] /\ acts' \in [Tabs -> Nat]
          /\ events' \in [Tabs -> Unheards]
      BY <1>0, <1>1, <2>1, AnnouncesTypes DEF close
    <2>3. agreed' \in [Tabs -> Toggles \cup {"unset"}]
      BY <1>1 DEF close, MediaTypes, Toggles
    <2>4. media' \in [Tabs -> Files \cup {None}]
      BY <1>1 DEF close, MediaTypes
    <2> QED
      BY <1>1, <2>2, <2>3, <2>4 DEF close, MediaTypes
  <1>2. ASSUME NEW f \in Files, open(f) PROVE MediaTypes'
    <2>1. Frame("open", f, 0, 1) \in MediaFrames
      BY SaidFrames, MediaAssumption DEF Rates
    <2>2. /\ chan' \in [Tabs -> Seq(MediaFrames)] /\ acts' \in [Tabs -> Nat]
          /\ events' \in [Tabs -> Unheards]
      BY <1>0, <1>2, <2>1, AnnouncesTypes DEF open
    <2>3. agreed' \in [Tabs -> Toggles \cup {"unset"}]
      BY <1>2 DEF open, MediaTypes, Toggles
    <2>4. media' \in [Tabs -> Files \cup {None}] /\ gesture' \in [Tabs -> BOOLEAN]
      BY <1>2 DEF open, MediaTypes
    <2> QED
      BY <1>2, <2>2, <2>3, <2>4 DEF open, MediaTypes
  <1> QED
    BY <1>1, <1>2

LEMMA TypesHear ==
  ASSUME MediaTypes, NEW c \in Tabs, Hear(c)
  PROVE  MediaTypes'
  <1>1. /\ events[c] \in Unheards /\ events[c] # <<>>
    BY DEF Hear, MediaTypes
  <1>2. Head(events[c]) \in Event /\ Tail(events[c]) \in Unheards
    BY <1>1 DEF Unheards
  <1>8. Head(events[c]).says \in Toggles \cup {"seeked"}
    BY <1>2 DEF Event
  <1>3. events' \in [Tabs -> Unheards]
    BY <1>2 DEF Hear, MediaTypes
  <1>4. el[c].pos \in Positions
    BY ElementFields DEF MediaTypes
  <1>5. ASSUME NEW action \in Toggles \cup {"seek"}, Speaks(c, action)
        PROVE  chan' \in [Tabs -> Seq(MediaFrames)] /\ said' \in [Tabs -> Nat]
    <2>1. <<Frame(action, None, el[c].pos, Unset)>> \in Seq(MediaFrames)
      BY <1>4, <1>5, SaidFrames DEF Rates
    <2>2. chan' \in [Tabs -> Seq(MediaFrames)]
      BY <1>5, <2>1, SendTypes DEF Speaks
    <2>3. said' \in [Tabs -> Nat]
      BY <1>5 DEF Speaks, MediaTypes
    <2> QED
      BY <2>2, <2>3
  <1>6. Silent => chan' \in [Tabs -> Seq(MediaFrames)] /\ said' \in [Tabs -> Nat]
    BY DEF Silent, MediaTypes
  <1>7. /\ chan' \in [Tabs -> Seq(MediaFrames)] /\ said' \in [Tabs -> Nat]
        /\ agreed' \in [Tabs -> Toggles \cup {"unset"}]
        /\ gesture' \in [Tabs -> BOOLEAN] /\ expected' \in [Tabs -> Places]
    <2>1. CASE Head(events[c]).says = "seeked"
      <3>1. onLocalSeeked(c)
        BY <2>1 DEF Hear
      <3>2. Silent \/ Speaks(c, "seek")
        BY <3>1 DEF onLocalSeeked
      <3>3. expected' \in [Tabs -> Places]
        BY <3>1 DEF onLocalSeeked, MediaTypes, Places
      <3>4. agreed' \in [Tabs -> Toggles \cup {"unset"}] /\ gesture' \in [Tabs -> BOOLEAN]
        BY <3>1 DEF onLocalSeeked, MediaTypes
      <3> QED
        BY <1>5, <1>6, <3>2, <3>3, <3>4
    <2>2. CASE Head(events[c]).says # "seeked"
      <3> DEFINE action == Head(events[c]).says
      <3>1. action \in Toggles /\ localToggle(c, action)
        BY <1>8, <2>2 DEF Hear
      <3> HIDE DEF action
      <3>2. Silent \/ Speaks(c, action)
        BY <3>1 DEF localToggle
      <3>3. expected' \in [Tabs -> Places]
        BY <3>1 DEF localToggle, MediaTypes
      <3>4. agreed' \in [Tabs -> Toggles \cup {"unset"}]
        BY <3>1 DEF localToggle, MediaTypes
      <3>5. gesture' \in [Tabs -> BOOLEAN]
        BY <3>1 DEF localToggle, MediaTypes
      <3> QED
        BY <1>5, <1>6, <3>1, <3>2, <3>3, <3>4, <3>5
    <2> QED
      BY <2>1, <2>2
  <1> QED
    BY <1>3, <1>7 DEF Hear, people, MediaTypes

LEMMA TypesRender ==
  ASSUME MediaTypes, NEW c \in Tabs, detach(c) \/ \E ok \in BOOLEAN : attach(c, ok)
  PROVE  MediaTypes'
  <1>1. CASE detach(c)
    BY <1>1, FreshElement DEF detach, people, MediaTypes, Unheards
  <1>2. ASSUME NEW ok \in BOOLEAN, attach(c, ok) PROVE MediaTypes'
    <2> DEFINE new == Applied(c, media[c], ok)
               said1 == IF what = "file" /\ new.pos > 0 THEN <<"seeked">> ELSE <<>>
               said2 == IF new.playing THEN <<"play">> ELSE <<>>
               evs == By(said1 \o said2, "page")
    <2>1. media[c] \in Files
      BY <1>2 DEF attach, MediaTypes
    <2>2. new \in Elements
      BY <2>1, AppliedTypes
    <2>3. el' = [el EXCEPT ![c] = new] /\ events' = [events EXCEPT ![c] = evs]
      BY <1>2 DEF attach
    <2>4. evs \in Unheards
      <3>1. said1 \in Seq(Says) /\ said2 \in Seq(Says)
        <4> HIDE DEF new
        <4> QED
          BY EventLists
      <3> HIDE DEF said1, said2
      <3>2. said1 \o said2 \in Seq(Says)
        BY <3>1
      <3> QED
        BY <3>2, EventsBy DEF Behind
    <2> HIDE DEF new, said1, said2, evs
    <2>5. el' \in [Tabs -> Elements] /\ events' \in [Tabs -> Unheards]
      BY <2>2, <2>3, <2>4 DEF MediaTypes
    <2>6. pending[c].set = FALSE \/ pending[c].pos \in Positions
      BY PendingFields
    <2>7. /\ agreed' \in [Tabs -> Toggles \cup {"unset"}]
          /\ expected' \in [Tabs -> Places] /\ gesture' \in [Tabs -> BOOLEAN]
      <3>1. CASE pending[c].set = FALSE
        BY <1>2, <3>1 DEF attach, MediaTypes
      <3>2. CASE pending[c].set = TRUE
        <4>0. /\ agreed' = [agreed EXCEPT ![c] = IF pending[c].play THEN "play" ELSE "pause"]
              /\ expected' = [expected EXCEPT ![c] =
                                 IF what = "file" THEN pending[c].pos ELSE Unset]
              /\ gesture' = [gesture EXCEPT ![c] = @ \/ (pending[c].play /\ ~ok)]
          BY <1>2, <3>2 DEF attach
        <4>1. agreed' \in [Tabs -> Toggles \cup {"unset"}]
          BY <4>0 DEF MediaTypes, Toggles
        <4>2. pending[c].pos \in Places /\ Unset \in Places
          BY <2>6, <3>2 DEF Places
        <4>3. expected' \in [Tabs -> Places]
          BY <4>0, <4>2 DEF MediaTypes
        <4>4. gesture' \in [Tabs -> BOOLEAN]
          BY <4>0 DEF MediaTypes
        <4> QED
          BY <4>1, <4>3, <4>4
      <3> QED
        BY <3>1, <3>2, PendingFields
    <2>8. pending' \in [Tabs -> Buffers \cup {NothingPending}]
      BY <1>2 DEF attach, MediaTypes
    <2> QED
      BY <1>2, <2>5, <2>7, <2>8 DEF attach, people, MediaTypes
  <1> QED
    BY <1>1, <1>2

LEMMA TypesConnections ==
  ASSUME MediaTypes, NEW c \in Tabs, Connect(c) \/ Drop(c) \/ Reload(c)
  PROVE  MediaTypes'
  <1>1. CASE Connect(c)
    <2>1. Frame("req", None, Unset, Unset) \in MediaFrames
      BY SaidFrames, MediaAssumption DEF Rates
    <2>2. Append(chan[Peer(c)], Frame("req", None, Unset, Unset)) \in Seq(MediaFrames)
      BY <2>1, PeerIsATab DEF MediaTypes
    <2>3. chan' \in [Tabs -> Seq(MediaFrames)]
      <3> DEFINE P == Peer(c)
                 asked == IF up[P] THEN Append(chan[P], Frame("req", None, Unset, Unset))
                          ELSE chan[P]
      <3>1. asked \in Seq(MediaFrames)
        BY <2>2, PeerIsATab DEF MediaTypes
      <3>2. chan' = [chan EXCEPT ![c] = <<>>, ![P] = asked]
        BY <1>1, PeerIsATab DEF Connect, MediaTypes
      <3>3. P \in Tabs /\ <<>> \in Seq(MediaFrames)
        BY PeerIsATab
      <3> HIDE DEF P, asked
      <3> QED
        BY <3>1, <3>2, <3>3 DEF MediaTypes
    <2>4. up' \in [Tabs -> BOOLEAN]
      BY <1>1 DEF Connect, MediaTypes
    <2> QED
      BY <1>1, <2>3, <2>4 DEF Connect, pageVars, people, MediaTypes
  <1>2. CASE Drop(c)
    BY <1>2 DEF Drop, pageVars, MediaTypes
  <1>3. CASE Reload(c)
    <2>1. up' \in [Tabs -> BOOLEAN] /\ chan' \in [Tabs -> Seq(MediaFrames)]
      BY <1>3 DEF Reload, MediaTypes
    <2>2. media' \in [Tabs -> Files \cup {None}] /\ el' \in [Tabs -> Elements]
      BY <1>3, FreshElement DEF Reload, MediaTypes
    <2>3. /\ events' \in [Tabs -> Unheards]
          /\ agreed' \in [Tabs -> Toggles \cup {"unset"}] /\ expected' \in [Tabs -> Places]
      BY <1>3 DEF Reload, MediaTypes, Places, Unheards
    <2>4. /\ pending' \in [Tabs -> Buffers \cup {NothingPending}]
          /\ gesture' \in [Tabs -> BOOLEAN]
      BY <1>3 DEF Reload, MediaTypes
    <2> QED
      BY <1>3, <2>1, <2>2, <2>3, <2>4 DEF Reload, MediaTypes
  <1> QED
    BY <1>1, <1>2, <1>3
\* What a frame makes the element say: the seek first, and what was agreed.
LEMMA ObeyFires ==
  ASSUME NEW c \in Tabs, NEW m, NEW ok, Obey(c, m, ok)
  PROVE  \E evs \in Seq(Says) :
           /\ Fires(c, evs, "page")
           /\ \A k \in DOMAIN evs : evs[k] \in Toggles => evs[k] = AgreedOn(c, m)
           /\ \A k \in DOMAIN evs : evs[k] = "seeked" =>
                k = 1 /\ what = "file" /\ m.pos # Unset /\ m.pos # el[c].pos
  <1> DEFINE moves == m.pos # Unset /\ m.pos # el[c].pos
             first == IF moves /\ what = "file" THEN <<"seeked">> ELSE <<>>
             second == CASE m.action = "play" /\ ok -> Played(c)
                         [] m.action \in {"pause", "close"} -> Paused(c)
                         [] OTHER -> <<>>
  <1>1. Fires(c, first \o second, "page")
    BY DEF Obey
  <1>2. \/ second = <<>>
        \/ \E e \in Toggles : second = <<e>> /\ AgreedOn(c, m) = e
    <2>1. CASE m.action = "play"
      BY <2>1 DEF Played, AgreedOn, Toggles
    <2>2. CASE m.action \in {"pause", "close"}
      BY <2>2 DEF Paused, AgreedOn, Toggles
    <2>3. CASE m.action \notin {"play", "pause", "close"}
      BY <2>3
    <2> QED
      BY <2>1, <2>2, <2>3
  <1>3. first = <<>> \/ (first = <<"seeked">> /\ moves /\ what = "file")
    OBVIOUS
  <1> HIDE DEF first, second
  <1>4. first \in Seq(Says) /\ second \in Seq(Says)
    BY <1>2, <1>3, EventLists DEF Toggles
  <1> DEFINE evs == first \o second
  <1>5. evs \in Seq(Says) /\ DOMAIN evs = 1 .. (Len(first) + Len(second))
    BY <1>4
  <1>6. \A k \in DOMAIN evs : evs[k] = IF k <= Len(first) THEN first[k] ELSE second[k - Len(first)]
    BY <1>4, <1>5
  <1>7. ASSUME NEW k \in DOMAIN evs
        PROVE  /\ evs[k] \in Toggles => evs[k] = AgreedOn(c, m)
               /\ evs[k] = "seeked" => k = 1 /\ what = "file" /\ moves
    BY <1>2, <1>3, <1>5, <1>6 DEF Toggles
  <1> QED
    BY <1>1, <1>5, <1>7

\* What a frame does to the element of the page.
LEMMA ObeyEffects ==
  ASSUME MediaTypes, NEW c \in Tabs, NEW m \in MediaFrames, NEW ok \in BOOLEAN, Obey(c, m, ok)
  PROVE  \E pos \in Positions, rate \in Rates, playing \in BOOLEAN :
           /\ el' = [el EXCEPT ![c] = [file |-> el[c].file, pos |-> pos, rate |-> rate,
                                       playing |-> playing]]
           /\ m.pos # Unset => pos = m.pos
           /\ m.pos = Unset => pos = el[c].pos
  <1> DEFINE e == el[c]
             pos == Or(m.pos, e.pos)
             rate == Or(m.rate, e.rate)
             playing == CASE m.action = "play" -> Plays(c, ok)
                          [] m.action \in {"pause", "close"} -> FALSE
                          [] OTHER -> e.playing
  <1>1. /\ e \in Elements /\ e.playing \in BOOLEAN /\ e.pos \in Positions /\ e.rate \in Rates
    BY ElementFields DEF MediaTypes
  <1>2. m.pos \in Positions \cup {Unset} /\ m.rate \in Rates \cup {Unset}
    BY DEF MediaFrames, Places
  <1>3. Unset \notin Positions
    BY MediaAssumption DEF Unset
  <1>4. pos \in Positions /\ (m.pos # Unset => pos = m.pos) /\ (m.pos = Unset => pos = e.pos)
    BY <1>1, <1>2, <1>3 DEF Or
  <1>5. rate \in Rates
    BY <1>1, <1>2 DEF Or
  <1>6. playing \in BOOLEAN
    <2>1. CASE m.action = "play"
      BY <2>1 DEF Plays
    <2>2. CASE m.action \in {"pause", "close"}
      BY <2>2
    <2>3. CASE m.action \notin {"play", "pause", "close"}
      <3>1. playing = e.playing
        BY <2>3
      <3> QED
        BY <1>1, <3>1
    <2> QED
      BY <2>1, <2>2, <2>3
  <1>7. el' = [el EXCEPT ![c] = [file |-> e.file, pos |-> pos, rate |-> rate, playing |-> playing]]
    BY DEF Obey
  <1> HIDE DEF pos, rate, playing
  <1> QED
    BY <1>4, <1>5, <1>6, <1>7

LEMMA ObeyTypes ==
  ASSUME MediaTypes, NEW c \in Tabs, NEW m \in MediaFrames, NEW ok \in BOOLEAN, Obey(c, m, ok)
  PROVE  /\ el' \in [Tabs -> Elements]
         /\ events' \in [Tabs -> Unheards]
         /\ agreed' \in [Tabs -> Toggles \cup {"unset"}]
         /\ expected' \in [Tabs -> Places] /\ gesture' \in [Tabs -> BOOLEAN]
  <1>1. el' \in [Tabs -> Elements]
    <2>1. PICK pos \in Positions, rate \in Rates, playing \in BOOLEAN :
            el' = [el EXCEPT ![c] = [file |-> el[c].file, pos |-> pos, rate |-> rate,
                                     playing |-> playing]]
      BY ObeyEffects
    <2>2. [file |-> el[c].file, pos |-> pos, rate |-> rate, playing |-> playing] \in Elements
      BY ElementFields DEF Elements, MediaTypes
    <2> QED
      BY <2>1, <2>2 DEF MediaTypes
  <1>2. events' \in [Tabs -> Unheards]
    <2>1. PICK evs \in Seq(Says) : Fires(c, evs, "page")
      BY ObeyFires
    <2> QED
      BY <2>1, FiresEvents DEF Behind
  <1>3. agreed' \in [Tabs -> Toggles \cup {"unset"}]
    <2>1. AgreedOn(c, m) \in Toggles \cup {"unset"}
      BY DEF AgreedOn, Toggles, MediaTypes
    <2> QED
      BY <2>1 DEF Obey, MediaTypes
  <1>4. expected' \in [Tabs -> Places]
    <2>1. m.pos \in Places
      BY DEF MediaFrames
    <2> QED
      BY <2>1 DEF Obey, MediaTypes
  <1>5. gesture' \in [Tabs -> BOOLEAN]
    BY DEF Obey, MediaTypes
  <1> QED
    BY <1>1, <1>2, <1>3, <1>4, <1>5

LEMMA TypesReceive ==
  ASSUME MediaTypes, NEW c \in Tabs, NEW ok \in BOOLEAN, Receive(c, ok)
  PROVE  MediaTypes'
  <1> DEFINE m == Head(chan[c])
             rest == [chan EXCEPT ![c] = Tail(chan[c])]
  <1>1. chan[c] \in Seq(MediaFrames) /\ chan[c] # <<>>
    BY DEF Receive, MediaTypes
  <1>2. m \in MediaFrames /\ Tail(chan[c]) \in Seq(MediaFrames)
    BY <1>1
  <1>3. rest \in [Tabs -> Seq(MediaFrames)]
    BY <1>2 DEF MediaTypes
  <1>4. UNCHANGED <<up, said, acts, drops, what>>
    BY DEF Receive, people
  <1>5. CASE m.action = "req"
    <2> DEFINE P == Peer(c)
    <2>1. rest[P] \o AnswerReq(c) \in Seq(MediaFrames)
      BY <1>3, PeerIsATab, AnswerReqTypes
    <2>2. chan' = rest \/ chan' = [rest EXCEPT ![P] = rest[P] \o AnswerReq(c)]
      BY <1>5 DEF Receive
    <2>3. UNCHANGED pageVars
      BY <1>5 DEF Receive
    <2> HIDE DEF rest, P
    <2>4. chan' \in [Tabs -> Seq(MediaFrames)]
      BY <1>3, <2>1, <2>2
    <2> QED
      BY <1>4, <2>3, <2>4 DEF pageVars, MediaTypes
  <1>6. CASE m.action # "req"
    <2>1. /\ chan' = rest
          /\ media' = [media EXCEPT ![c] = nextMediaState(@, m)]
          /\ IF el[c].file = None
             THEN /\ pending' = [pending EXCEPT ![c] = Buffered(c, m)]
                  /\ UNCHANGED <<el, events, agreed, expected, gesture>>
             ELSE Obey(c, m, ok) /\ UNCHANGED pending
      BY <1>6 DEF Receive
    <2>2. media' \in [Tabs -> Files \cup {None}]
      <3>1. nextMediaState(media[c], m) \in Files \cup {None}
        BY <1>2 DEF nextMediaState, MediaFrames, MediaTypes
      <3> QED
        BY <2>1, <3>1 DEF MediaTypes
    <2> HIDE DEF m, rest
    <2>3. CASE el[c].file = None
      <3>1. pending' \in [Tabs -> Buffers \cup {NothingPending}]
        <4>1. Buffered(c, m) \in Buffers \cup {NothingPending}
          BY <1>2, BufferedTypes
        <4> QED
          BY <2>1, <2>3, <4>1 DEF MediaTypes
      <3>2. UNCHANGED <<el, events, agreed, expected, gesture>>
        BY <2>1, <2>3
      <3> QED
        BY <1>3, <1>4, <2>1, <2>2, <3>1, <3>2 DEF MediaTypes
    <2>4. CASE el[c].file # None
      <3>1. Obey(c, m, ok) /\ UNCHANGED pending
        BY <2>1, <2>4
      <3> QED
        <4>1. /\ el' \in [Tabs -> Elements]
              /\ events' \in [Tabs -> Unheards]
              /\ agreed' \in [Tabs -> Toggles \cup {"unset"}]
              /\ expected' \in [Tabs -> Places] /\ gesture' \in [Tabs -> BOOLEAN]
          BY <1>2, <3>1, ObeyTypes
        <4> QED
          BY <1>3, <1>4, <2>1, <2>2, <3>1, <4>1 DEF MediaTypes
    <2> QED
      BY <2>3, <2>4
  <1> QED
    BY <1>5, <1>6

LEMMA MediaTypesStep == MediaTypes /\ [MediaNext]_mediaVars => MediaTypes'
  <1> SUFFICES ASSUME MediaTypes, [MediaNext]_mediaVars PROVE MediaTypes'
    OBVIOUS
  <1>1. ASSUME NEW c \in Tabs, Toggle(c) \/ Resume(c) \/ Hear(c) \/ detach(c)
                               \/ Connect(c) \/ Drop(c) \/ Reload(c)
        PROVE  MediaTypes'
    BY <1>1, TypesPersonStep, TypesHear, TypesRender, TypesConnections
  <1>2. ASSUME NEW c \in Tabs, (\E p \in Positions : Seek(c, p)) \/ (\E r \in Rates : setRate(c, r))
        PROVE  MediaTypes'
    BY <1>2, TypesPersonStep
  <1>3. ASSUME NEW c \in Tabs, NEW ok \in BOOLEAN, attach(c, ok) \/ Receive(c, ok)
        PROVE  MediaTypes'
    BY <1>3, TypesRender, TypesReceive
  <1>4. CASE close \/ \E f \in Files : open(f)
    BY <1>4, TypesTutorStep
  <1>5. CASE UNCHANGED mediaVars
    BY <1>5 DEF mediaVars, MediaTypes
  <1> QED
    BY <1>1, <1>2, <1>3, <1>4, <1>5 DEF MediaNext

-----------------------------------------------------------------------------
(* MediaSync: whose event it is *)

\* The page's own events, in time: either all that waits is such, or nothing is;
\* a play or pause is what was agreed, a seek comes first and is the one expected.
InTime(c) ==
  LET evs == events[c] IN
  /\ \A j, k \in DOMAIN evs : evs[j].by = "page" => evs[k].by = "page"
  /\ \A k \in DOMAIN evs : evs[k].by = "page" =>
       /\ evs[k].says \in Toggles => evs[k].says = agreed[c]
       /\ evs[k].says = "seeked" =>
            k = 1 /\ what = "file" /\ expected[c] # Unset /\ el[c].pos = expected[c]

LEMMA InTimeElsewhere ==
  ASSUME NEW c, InTime(c), what' = what, el'[c] = el[c], events'[c] = events[c],
         agreed'[c] = agreed[c], expected'[c] = expected[c]
  PROVE  InTime(c)'
  BY DEF InTime

LEMMA NothingOfThePage ==
  ASSUME NEW c, \A k \in DOMAIN events'[c] : events'[c][k].by # "page"
  PROVE  InTime(c)'
  BY DEF InTime

\* A person comes in between.
LEMMA PersonInTime ==
  ASSUME MediaTypes, \A d \in Tabs : InTime(d), NEW c \in Tabs,
         NEW evs \in Seq(Says), Fires(c, evs, "person"), what' = what, expected' = expected,
         \A d \in Tabs : d # c => el'[d] = el[d] /\ agreed'[d] = agreed[d]
  PROVE  \A d \in Tabs : InTime(d)'
  <1>1. \A d \in Tabs : d # c => events'[d] = events[d]
    BY FiresEvents DEF Behind
  <1>2. \A k \in DOMAIN events'[c] : events'[c][k].by # "page"
    <2>1. CASE events'[c] = By(evs, "person")
      BY <2>1, EventsBy DEF Behind
    <2> QED
      BY <2>1, FiresEvents DEF Behind
  <1>3. InTime(c)'
    BY <1>2, NothingOfThePage
  <1>4. ASSUME NEW d \in Tabs, d # c PROVE InTime(d)'
    BY <1>1, <1>4, InTimeElsewhere
  <1> QED
    BY <1>3, <1>4

LEMMA InTimePersonStep ==
  ASSUME MediaTypes, \A d \in Tabs : InTime(d),
         \/ \E c \in Tabs : Toggle(c) \/ Resume(c)
         \/ \E c \in Tabs, p \in Positions : Seek(c, p)
         \/ \E c \in Tabs, r \in Rates : setRate(c, r)
         \/ close \/ \E f \in Files : open(f)
  PROVE  \A d \in Tabs : InTime(d)'
  <1>1. ASSUME NEW c \in Tabs, Toggle(c) PROVE \A d \in Tabs : InTime(d)'
    BY <1>1, ChangesAreSaid, PersonInTime DEF Toggle, MediaTypes
  <1>2. ASSUME NEW c \in Tabs, Resume(c) PROVE \A d \in Tabs : InTime(d)'
    BY <1>2, ChangesAreSaid, PersonInTime DEF Resume, MediaTypes
  <1>3. ASSUME NEW c \in Tabs, NEW p \in Positions, Seek(c, p) PROVE \A d \in Tabs : InTime(d)'
    BY <1>3, EventLists, PersonInTime DEF Seek, MediaTypes
  <1>4. ASSUME NEW c \in Tabs, NEW r \in Rates, setRate(c, r) PROVE \A d \in Tabs : InTime(d)'
    BY <1>4, EventLists, PersonInTime DEF setRate, Announces, MediaTypes
  <1>5. Tutor \in Tabs
    BY DEF Tabs
  <1>6. CASE close \/ \E f \in Files : open(f)
    BY <1>5, <1>6, EventLists, PersonInTime DEF close, open, Announces, MediaTypes
  <1> QED
    BY <1>1, <1>2, <1>3, <1>4, <1>6

LEMMA FirstHeard ==
  ASSUME MediaTypes, NEW c \in Tabs, events[c] # <<>>
  PROVE  /\ 1 \in DOMAIN events[c] /\ Head(events[c]) = events[c][1]
         /\ Head(events[c]) \in Event
         /\ \A k \in DOMAIN Tail(events[c]) :
              k + 1 \in DOMAIN events[c] /\ k + 1 # 1 /\ Tail(events[c])[k] = events[c][k + 1]
  BY DEF MediaTypes, Unheards

LEMMA HeardInTime ==
  ASSUME MediaTypes, NEW c \in Tabs, InTime(c), Hear(c), Head(events[c]).by = "page"
  PROVE  /\ said' = said /\ agreed' = agreed
         /\ Head(events[c]).says \in Toggles => expected' = expected
  <1>1. events[c] # <<>>
    BY DEF Hear
  <1>2. Head(events[c]).says \in Toggles \cup {"seeked"}
    BY <1>1, FirstHeard DEF Event
  <1>3. CASE Head(events[c]).says = "seeked"
    <2>1. isSeekEcho(c) /\ what = "file" /\ onLocalSeeked(c)
      BY <1>1, <1>3, FirstHeard DEF InTime, isSeekEcho, Hear
    <2> QED
      BY <1>3, <2>1 DEF onLocalSeeked, Silent, Toggles
  <1>4. CASE Head(events[c]).says \in Toggles
    <2>1. isEchoOfRemote(c, Head(events[c]).says) /\ localToggle(c, Head(events[c]).says)
      BY <1>1, <1>4, FirstHeard DEF InTime, isEchoOfRemote, Hear, Toggles
    <2> QED
      BY <2>1 DEF localToggle, Silent
  <1> QED
    BY <1>2, <1>3, <1>4

LEMMA InTimeHear ==
  ASSUME MediaTypes, \A d \in Tabs : InTime(d), NEW c \in Tabs, Hear(c)
  PROVE  \A d \in Tabs : InTime(d)'
  <1>1. /\ UNCHANGED <<what, el>> /\ events[c] # <<>>
        /\ events'[c] = Tail(events[c]) /\ \A d \in Tabs : d # c => events'[d] = events[d]
    BY DEF Hear, people, MediaTypes
  <1>2. \A d \in Tabs : d # c => agreed'[d] = agreed[d] /\ expected'[d] = expected[d]
    BY DEF Hear, onLocalSeeked, localToggle, MediaTypes
  <1>3. ASSUME NEW d \in Tabs, d # c PROVE InTime(d)'
    BY <1>1, <1>2, <1>3, InTimeElsewhere
  <1>4. InTime(c)'
    <2>1. CASE Head(events[c]).by = "page"
      <3>1. agreed'[c] = agreed[c]
        BY <2>1, HeardInTime
      <3>2. \A k \in DOMAIN events'[c] :
              /\ events'[c][k].by = "page"
              /\ events'[c][k].says \in Toggles => events'[c][k].says = agreed[c]
              /\ events'[c][k].says # "seeked"
        BY <1>1, <2>1, FirstHeard DEF InTime
      <3> QED
        BY <3>1, <3>2 DEF InTime
    <2>2. CASE Head(events[c]).by # "page"
      <3>1. \A k \in DOMAIN events'[c] : events'[c][k].by # "page"
        BY <1>1, <2>2, FirstHeard DEF InTime
      <3> QED
        BY <3>1, NothingOfThePage
    <2> QED
      BY <2>1, <2>2
  <1> QED
    BY <1>3, <1>4

LEMMA InTimeRender ==
  ASSUME MediaTypes, \A d \in Tabs : InTime(d), NEW c \in Tabs,
         detach(c) \/ \E ok \in BOOLEAN : attach(c, ok)
  PROVE  \A d \in Tabs : InTime(d)'
  <1>1. /\ what' = what
        /\ \A d \in Tabs : d # c => /\ el'[d] = el[d] /\ events'[d] = events[d]
                                    /\ agreed'[d] = agreed[d] /\ expected'[d] = expected[d]
    BY DEF detach, attach, people, MediaTypes
  <1>2. ASSUME NEW d \in Tabs, d # c PROVE InTime(d)'
    BY <1>1, <1>2, InTimeElsewhere
  <1>3. CASE detach(c)
    <2>1. events'[c] = <<>>
      BY <1>3 DEF detach, MediaTypes
    <2> QED
      BY <1>2, <2>1, NothingOfThePage
  <1>4. ASSUME NEW ok \in BOOLEAN, attach(c, ok) PROVE InTime(c)'
    <2> DEFINE new == Applied(c, media[c], ok)
               said1 == IF what = "file" /\ new.pos > 0 THEN <<"seeked">> ELSE <<>>
               said2 == IF new.playing THEN <<"play">> ELSE <<>>
               evs == said1 \o said2
    <2>1. el'[c] = new /\ events'[c] = By(evs, "page")
      BY <1>4 DEF attach, MediaTypes
    <2>2. media[c] \in Files /\ new \in Elements
      BY <1>4, AppliedTypes DEF attach, MediaTypes
    <2>3. new.playing \in BOOLEAN /\ new.pos \in Nat
      BY <2>2, MediaAssumption DEF Elements
    <2>4. /\ said1 = <<>> \/ (said1 = <<"seeked">> /\ what = "file" /\ new.pos > 0)
          /\ said2 = <<>> \/ (said2 = <<"play">> /\ new.playing)
      <3> HIDE DEF new
      <3> QED
        OBVIOUS
    <2>5. new.pos > 0 \/ new.playing => pending[c].set = TRUE
      <3>1. pending[c].set = FALSE => new = Fresh(media[c])
        BY DEF Applied
      <3>2. pending[c].set = FALSE => new.pos = 0 /\ new.playing = FALSE
        BY <2>2, <3>1, FreshElement
      <3> QED
        BY <3>2, PendingFields
    <2>6. pending[c].set = TRUE =>
            /\ agreed'[c] = IF pending[c].play THEN "play" ELSE "pause"
            /\ what = "file" => expected'[c] = pending[c].pos
            /\ new.pos = pending[c].pos /\ new.playing = (pending[c].play /\ ok)
      BY <1>4 DEF attach, Applied, MediaTypes
    <2> HIDE DEF new, said1, said2
    <2>7. /\ new.playing => agreed'[c] = "play"
          /\ what = "file" /\ new.pos > 0 => expected'[c] = new.pos /\ expected'[c] # Unset
      BY <2>3, <2>5, <2>6 DEF Unset
    <2>8. evs \in Seq(Says) /\ DOMAIN evs = 1 .. (Len(said1) + Len(said2))
      <3>1. said1 \in Seq(Says) /\ said2 \in Seq(Says)
        BY <2>4, EventLists
      <3> QED
        BY <3>1
    <2>9. \A k \in DOMAIN evs :
            \/ k = 1 /\ evs[k] = "seeked" /\ what = "file" /\ new.pos > 0
            \/ evs[k] = "play" /\ new.playing
      BY <2>4, <2>8
    <2> HIDE DEF evs
    <2>10. /\ DOMAIN events'[c] = DOMAIN evs
           /\ \A k \in DOMAIN events'[c] : events'[c][k].by = "page" /\ events'[c][k].says = evs[k]
      BY <2>1, <2>8, EventsBy DEF Behind
    <2> QED
      BY <1>1, <2>1, <2>7, <2>9, <2>10 DEF InTime, Toggles
  <1> QED
    BY <1>2, <1>3, <1>4

LEMMA InTimeReceive ==
  ASSUME MediaTypes, \A d \in Tabs : InTime(d), NEW c \in Tabs, NEW ok \in BOOLEAN,
         Receive(c, ok)
  PROVE  \A d \in Tabs : InTime(d)'
  <1> DEFINE m == Head(chan[c])
  <1>1. m \in MediaFrames
    BY DEF Receive, MediaTypes
  <1>2. what' = what
    BY DEF Receive, people
  <1>3. CASE UNCHANGED <<el, events, agreed, expected>>
    BY <1>2, <1>3, InTimeElsewhere
  <1>4. CASE Obey(c, m, ok)
    <2> HIDE DEF m
    <2>1. PICK evs \in Seq(Says) :
            /\ Fires(c, evs, "page")
            /\ \A k \in DOMAIN evs : evs[k] \in Toggles => evs[k] = AgreedOn(c, m)
            /\ \A k \in DOMAIN evs : evs[k] = "seeked" =>
                 k = 1 /\ what = "file" /\ m.pos # Unset /\ m.pos # el[c].pos
      BY <1>4, ObeyFires
    <2>2. PICK pos \in Positions, rate \in Rates, playing \in BOOLEAN :
            /\ el' = [el EXCEPT ![c] = [file |-> el[c].file, pos |-> pos, rate |-> rate,
                                        playing |-> playing]]
            /\ m.pos # Unset => pos = m.pos
      BY <1>1, <1>4, ObeyEffects
    <2>3. /\ agreed' = [agreed EXCEPT ![c] = AgreedOn(c, m)]
          /\ expected' = [expected EXCEPT ![c] =
               IF m.pos # Unset /\ m.pos # el[c].pos /\ what = "file" THEN m.pos ELSE @]
      BY <1>4 DEF Obey
    <2>4. ASSUME NEW d \in Tabs, d # c PROVE InTime(d)'
      <3>1. events'[d] = events[d]
        BY <2>1, <2>4, FiresEvents DEF Behind
      <3>2. el'[d] = el[d] /\ agreed'[d] = agreed[d] /\ expected'[d] = expected[d]
        BY <2>2, <2>3, <2>4 DEF MediaTypes
      <3> QED
        BY <1>2, <3>1, <3>2, InTimeElsewhere
    <2>5. InTime(c)'
      <3>1. CASE \A k \in DOMAIN events'[c] : events'[c][k].by # "page"
        BY <3>1, NothingOfThePage
      <3>2. CASE events'[c] = By(evs, "page")
        <4>1. /\ DOMAIN events'[c] = DOMAIN evs
              /\ \A k \in DOMAIN events'[c] :
                   events'[c][k].by = "page" /\ events'[c][k].says = evs[k]
          BY <3>2, EventsBy DEF Behind, By
        <4>2. /\ agreed'[c] = AgreedOn(c, m)
              /\ \A k \in DOMAIN evs : evs[k] = "seeked" =>
                   expected'[c] = m.pos /\ el'[c].pos = m.pos /\ m.pos # Unset
          BY <2>1, <2>2, <2>3 DEF MediaTypes
        <4> QED
          BY <1>2, <2>1, <4>1, <4>2 DEF InTime
      <3> QED
        BY <2>1, <3>1, <3>2, FiresEvents DEF Behind
    <2> QED
      BY <2>4, <2>5
  <1>5. UNCHANGED <<el, events, agreed, expected>> \/ Obey(c, m, ok)
    BY DEF Receive, pageVars
  <1> QED
    BY <1>3, <1>4, <1>5

LEMMA InTimeConnections ==
  ASSUME MediaTypes, \A d \in Tabs : InTime(d), NEW c \in Tabs,
         Connect(c) \/ Drop(c) \/ Reload(c)
  PROVE  \A d \in Tabs : InTime(d)'
  <1>1. CASE Connect(c) \/ Drop(c)
    <2>1. UNCHANGED <<what, el, events, agreed, expected>>
      BY <1>1 DEF Connect, Drop, pageVars, people
    <2> QED
      BY <2>1, InTimeElsewhere
  <1>2. CASE Reload(c)
    <2>1. what' = what /\ events'[c] = <<>>
      BY <1>2 DEF Reload, MediaTypes
    <2>2. ASSUME NEW d \in Tabs, d # c PROVE InTime(d)'
      <3>1. /\ el'[d] = el[d] /\ events'[d] = events[d]
            /\ agreed'[d] = agreed[d] /\ expected'[d] = expected[d]
        BY <1>2, <2>2 DEF Reload, MediaTypes
      <3> QED
        BY <2>1, <3>1, InTimeElsewhere
    <2> QED
      BY <2>1, <2>2, NothingOfThePage
  <1> QED
    BY <1>1, <1>2

LEMMA InTimeStep ==
  ASSUME MediaTypes, \A d \in Tabs : InTime(d), [MediaNext]_mediaVars
  PROVE  \A d \in Tabs : InTime(d)'
  <1>1. ASSUME NEW c \in Tabs, Hear(c) \/ detach(c) \/ Connect(c) \/ Drop(c) \/ Reload(c)
        PROVE  \A d \in Tabs : InTime(d)'
    BY <1>1, InTimeHear, InTimeRender, InTimeConnections
  <1>2. ASSUME NEW c \in Tabs, NEW ok \in BOOLEAN, attach(c, ok) \/ Receive(c, ok)
        PROVE  \A d \in Tabs : InTime(d)'
    BY <1>2, InTimeRender, InTimeReceive
  <1>3. CASE \/ \E c \in Tabs : Toggle(c) \/ Resume(c)
             \/ \E c \in Tabs, p \in Positions : Seek(c, p)
             \/ \E c \in Tabs, r \in Rates : setRate(c, r)
             \/ close \/ \E f \in Files : open(f)
    BY <1>3, InTimePersonStep
  <1>4. CASE UNCHANGED mediaVars
    <2>1. UNCHANGED <<what, el, events, agreed, expected>>
      BY <1>4 DEF mediaVars
    <2> QED
      BY <2>1, InTimeElsewhere
  <1> QED
    BY <1>1, <1>2, <1>3, <1>4 DEF MediaNext

\* A frame is said of an event only when it is a person's, or late.
LEMMA SaidOf ==
  ASSUME MediaTypes, \A d \in Tabs : InTime(d), [MediaNext]_mediaVars,
         NEW c \in Tabs, said'[c] # said[c]
  PROVE  Head(events[c]).by \in {"person", "late"}
  <1>1. Hear(c)
    <2>1. said' # said
      OBVIOUS
    <2>2. ASSUME NEW d \in Tabs, d # c, Hear(d) PROVE FALSE
      BY <2>2 DEF Hear, onLocalSeeked, localToggle, Speaks, Silent, MediaTypes
    <2>3. PICK d \in Tabs : Hear(d)
      BY <2>1 DEF MediaNext, mediaVars, Toggle, Resume, Seek, setRate, detach, attach, Connect,
                  Drop, Reload, Receive, open, close
    <2> QED
      BY <2>2, <2>3
  <1>2. Head(events[c]) \in Event
    BY <1>1, FirstHeard DEF Hear
  <1>3. Head(events[c]).by # "page"
    BY <1>1, HeardInTime
  <1> QED
    BY <1>2, <1>3 DEF Event

\* What a peer's frame makes the element fire is never sent back, unless another
\* frame or act came before it was heard: whatever came late before leaves the
\* marks by which an echo is told in order (useYouTubeSync.ts:34-37,
\* useMediaPlayer.ts:55-66).
THEOREM NothingIsSentBack == MediaSpec => NoEcho
  <1> DEFINE Inv == MediaTypes /\ \A d \in Tabs : InTime(d)
             Spoken == \A c \in Tabs :
                         said'[c] # said[c] => Head(events[c]).by \in {"person", "late"}
  <1>1. MediaInit => Inv
    BY MediaTypesInit DEF MediaInit, InTime
  <1>2. Inv /\ [MediaNext]_mediaVars => Inv'
    BY MediaTypesStep, InTimeStep
  <1>3. Inv /\ [MediaNext]_mediaVars => [Spoken]_mediaVars
    BY SaidOf
  <1> QED
    BY <1>1, <1>2, <1>3, PTL DEF MediaSpec, NoEcho
=============================================================================
