--------------------------- MODULE CalendarCache ---------------------------
(***************************************************************************)
(* The tutor's calendar, task board and course page as a cache of the      *)
(* server: the query client of @tanstack/react-query as the hooks use it   *)
(* (external), and the mutations of useCalendar.ts, useLessons.ts,         *)
(* useEvents.ts and useTasks.ts.                                           *)
(*                                                                         *)
(* A mutation cancels the fetches of what it touches, keeps a snapshot of  *)
(* the cache, and writes the outcome it expects into the cache before the  *)
(* server has heard of it.  Success invalidates: the queries on screen are *)
(* fetched again, the others are marked stale.  Failure puts the snapshot  *)
(* back, and for lessons and events that is all it does.  Several          *)
(* mutations may be under way, in any order at the server, while fetches   *)
(* come and go and the person turns the pages.                             *)
(*                                                                         *)
(* "Lesson" stands for lessons and events, which have the same handlers.   *)
(***************************************************************************)
EXTENDS Integers, FiniteSets, Functions

CONSTANTS Slots,     \* the times an entry can be at
          WeekOf(_), \* the week of a time
          MaxOps,    \* bound: mutations
          MaxErrors, \* bound: mutations that fail
          MaxTurns   \* bound: pages turned

VARIABLES
  db,      \* the server: entry -> value
  cache,   \* query key -> what the cache holds
  stale,   \* isInvalidated
  fetch,   \* query key -> the fetch under way
  view,    \* the query key on screen
  muts,    \* the mutations that have not settled
  made,    \* entries created so far
  ops, errors, turns,
  spoilt,  \* history: a failure the hooks do not repair has happened
  strayed, \* history: what a failure has put back away from its place
  dragged  \* history: a lesson was changed from the calendar

calendarVars == <<db, cache, stale, fetch, view, muts, made, ops, errors, turns, spoilt, strayed, dragged>>

Weeks == {WeekOf(s) : s \in Slots}
Board == "board"    \* ['tasks', 'board']
Course == "course"  \* ['lessons', 'course', id, 'period', ...]
Feeds == {<<"week", w>> : w \in Weeks}
Keys == Feeds \cup {<<Board>>, <<Course>>}
Feed(w) == <<"week", w>>

ASSUME CalendarAssumption ==
  /\ Slots \subseteq Nat \ {0} /\ Cardinality(Weeks) >= 1
  /\ MaxOps \in Nat /\ MaxErrors \in Nat /\ MaxTurns \in Nat

NoSlot == 0
\* done: the status of a lesson, the column of a task.
Value == {v \in [task : BOOLEAN, slot : Slots \cup {NoSlot}, done : BOOLEAN] :
            ~v.task => v.slot # NoSlot}
Old == 1..2              \* a lesson and a task that exist from the start
Created == 3..(2 + MaxOps)
Temp(i) == -i           \* tempId(), until the server gives it its own
IsTemp(i) == i < 0
Ids == Old \cup Created \cup {Temp(i) : i \in Created}

NoData == [has |-> FALSE]
Data(f) == [has |-> TRUE, items |-> f]
Idle == [at |-> "idle"]
\* since: the mutations begun before the question was asked.
Asked(n) == [at |-> "asked", since |-> n]
Answer(n, f) == [at |-> "answer", since |-> n, items |-> f]

CalendarTypeOK ==
  /\ DOMAIN db \subseteq Old \cup Created /\ \A i \in DOMAIN db : db[i] \in Value
  /\ DOMAIN cache = Keys
  /\ \A k \in Keys : cache[k].has =>
       DOMAIN cache[k].items \subseteq Ids /\ Range(cache[k].items) \subseteq Value
  /\ stale \in [Keys -> BOOLEAN] /\ view \in Keys

\* What the server answers: a week of the feed, the tasks, the lessons.
Lists(k, v) ==
  CASE k = <<Board>> -> v.task
    [] k = <<Course>> -> ~v.task
    [] OTHER -> v.slot # NoSlot /\ k = Feed(WeekOf(v.slot))
Listed(k) == Restrict(db, {i \in DOMAIN db : Lists(k, db[i])})

\* The first page has loaded; nothing else has been asked for.
CalendarInit ==
  /\ \E s, t \in Slots :
       db = [i \in Old |-> [task |-> i = 2, slot |-> IF i = 2 THEN t ELSE s, done |-> FALSE]]
  /\ view \in Keys
  /\ cache = [k \in Keys |-> IF k = view THEN Data(Listed(k)) ELSE NoData]
  /\ stale = [k \in Keys |-> FALSE]
  /\ fetch = [k \in Keys |-> Idle]
  /\ muts = {} /\ made = 0 /\ ops = 0 /\ errors = 0 /\ turns = 0
  /\ spoilt = FALSE /\ strayed = {} /\ dragged = FALSE

(***************************************************************************)
(* The query client (external).                                            *)
(***************************************************************************)
Reply(k) ==
  /\ fetch[k].at = "asked"
  /\ fetch' = [fetch EXCEPT ![k] = Answer(@.since, Listed(k))]
  /\ UNCHANGED <<db, cache, stale, view, muts, made, ops, errors, turns, spoilt, strayed, dragged>>

Land(k) ==
  /\ fetch[k].at = "answer"
  /\ cache' = [cache EXCEPT ![k] = Data(fetch[k].items)]
  /\ stale' = [stale EXCEPT ![k] = FALSE]
  /\ fetch' = [fetch EXCEPT ![k] = Idle]
  /\ UNCHANGED <<db, view, muts, made, ops, errors, turns, spoilt, strayed, dragged>>

\* Another query on screen: what is missing or stale is fetched, and what is
\* older than staleTime (`aged').
GoTo(k, aged) ==
  /\ k # view /\ turns < MaxTurns
  /\ turns' = turns + 1
  /\ view' = k
  /\ fetch' = IF fetch[k] = Idle /\ (~cache[k].has \/ stale[k] \/ aged)
              THEN [fetch EXCEPT ![k] = Asked(ops)] ELSE fetch
  /\ UNCHANGED <<db, cache, stale, muts, made, ops, errors, spoilt, strayed, dragged>>

\* Another week on the desktop: the arrows, or the edge of the grid during a
\* drag, and handleDatesSet.
DatesSet(w, aged) == view \in Feeds /\ GoTo(Feed(w), aged)
\* On the phone: the arrows, or the edge, again and again while the finger
\* stays there.
FlipWeek(w, aged) == view \in Feeds /\ GoTo(Feed(w), aged)
\* A day of the small calendar in the sidebar.
Navigate(w, aged) == view \in Feeds /\ GoTo(Feed(w), aged)
\* Another page: the calendar, the board, the course.
OpenPage(k, aged) == (view \notin Feeds \/ k \notin Feeds) /\ GoTo(k, aged)

\* Mutant: onMutate without cancelQueries.
CancelsNothing(ks) == fetch

\* cancelQueries: the answer will be ignored; a query that has never had one
\* is left without data and without a fetch.
Cancelled(ks) == [k \in Keys |-> IF k \in ks THEN Idle ELSE fetch[k]]

\* invalidateQueries fetches what is on screen once more, from the start,
\* unless it is still waiting for its first answer.  It does not restart or
\* cancel a fetch of what is off screen.
invalidates(ks) ==
  fetch' = IF view \in ks /\ (cache[view].has \/ fetch[view] = Idle)
           THEN [fetch EXCEPT ![view] = Asked(ops)] ELSE fetch

\* An answer the server gave before the mutation is on its way and will count
\* as fresh.
Overtaken(ks) ==
  \E k \in ks : fetch[k].at = "answer" /\ (k # view \/ ~cache[k].has)

(***************************************************************************)
(* The optimistic writes.                                                  *)
(***************************************************************************)
Over(ks, New(_, _)) ==
  [k \in Keys |-> IF k \in ks /\ cache[k].has THEN Data(New(k, cache[k].items)) ELSE cache[k]]

\* patchEntry: the entry where it is, also when it now belongs to another week.
Patched(i, v, f) == [j \in DOMAIN f |-> IF j = i THEN v ELSE f[j]]
\* Mutant: every cached week gets the new entry.
InsertedEverywhere(i, v, k, f) == [j \in DOMAIN f \cup {i} |-> IF j = i THEN v ELSE f[j]]

\* inRange: only the weeks the new entry falls into.
Inserted(i, v, k, f) ==
  IF Lists(k, v) THEN [j \in DOMAIN f \cup {i} |-> IF j = i THEN v ELSE f[j]] ELSE f
Dropped(i, f) == Restrict(f, DOMAIN f \ {i})

\* The keys a mutation cancels, snapshots and writes: the feed unless it is a
\* task without a slot, the board if it is a task.
\* useCreateLesson, on the course page, does nothing until the answer.
Touches(api, op, v, from) ==
  IF op = "create" /\ from = <<Course>> THEN {} ELSE
  (IF api = "task" /\ v.slot = NoSlot /\ op # "delete" THEN {} ELSE Feeds) \cup
  (IF api = "task" THEN {<<Board>>} ELSE {})

Expected(op, i, v, ks) ==
  CASE op = "update" -> Over(ks, LAMBDA k, f : Patched(i, v, f))
    [] op = "create" -> Over(ks, LAMBDA k, f : Inserted(i, v, k, f))
    [] op = "delete" -> Over(ks, LAMBDA k, f : Dropped(i, f))

\* setQueryData counts what it writes as fresh, whatever it finds there.
Renewed(op, v, ks) == {k \in ks : cache[k].has /\ (op = "create" => Lists(k, v))}

\* clean: nothing was under way and nothing stale, so that the snapshot is
\* what the server has.
Undisturbed == muts = {} /\ \A k \in Keys : fetch[k] = Idle /\ ~stale[k]

\* onMutate, and the request.  from: the page it is made on.
\* api: the hooks, and the address, of lessons and events or of tasks.
MutateBy(api, op, i, v, from) ==
  /\ ops < MaxOps
  /\ ops' = ops + 1
  /\ LET ks == Touches(api, op, v, from) IN
     /\ fetch' = Cancelled(ks)
     /\ muts' = {[m EXCEPT !.clean = FALSE] : m \in muts} \cup
          {[n |-> ops, api |-> api, op |-> op, id |-> i, val |-> v, from |-> from, at |-> "sent",
            snap |-> Restrict(cache, ks), clean |-> Undisturbed]}
     /\ cache' = Expected(op, i, v, ks)
     /\ stale' = [k \in Keys |-> stale[k] /\ k \notin Renewed(op, v, ks)]
  /\ dragged' = (dragged \/ (from # <<Course>> /\ ~v.task /\ op # "create"))
  /\ UNCHANGED <<db, view, errors, turns, spoilt, strayed>>

Mutate(op, i, v, from) == MutateBy(IF v.task THEN "task" ELSE "lesson", op, i, v, from)

(***************************************************************************)
(* What the person does.  A gesture sends every field of the entry, as     *)
(* the page shows it, and changes one.                                     *)
(***************************************************************************)
Shown(k) == IF cache[k].has THEN cache[k].items ELSE <<>>

Moves(i, s, from) ==
  \E k \in Feeds : /\ i \in DOMAIN Shown(k)
                   /\ Mutate("update", i, [Shown(k)[i] EXCEPT !.slot = s], from)

\* A block is dropped on the week on screen, which may not be the week it was
\* picked up in: the edge of the grid turns the page.  On the desktop it may
\* also snap back to where it was, and is sent all the same.
DropOn(i, s) ==
  /\ view \in Feeds /\ Feed(WeekOf(s)) = view
  /\ Moves(i, s, view) /\ UNCHANGED made

\* On the phone a block that has not moved is not sent.
CommitDrag(i, s) ==
  /\ view \in Feeds /\ Feed(WeekOf(s)) = view
  /\ \A k \in Feeds : i \in DOMAIN Shown(k) => Shown(k)[i].slot # s
  /\ Moves(i, s, view) /\ UNCHANGED made

\* A longer or shorter block (its length is left out).  There is no branch for
\* tasks: a task goes to the hook, and to the address, of the lessons.
Resize(i) ==
  /\ view \in Feeds /\ i \in DOMAIN Shown(view)
  /\ MutateBy("lesson", "update", i, Shown(view)[i], view) /\ UNCHANGED made

Marks(i) ==
  LET v == Shown(view)[i] IN
  Mutate("update", i, [v EXCEPT !.done = ~@], view) /\ UNCHANGED made

\* The circle of a task in the week.
ToggleTask(i) == view \in Feeds /\ i \in DOMAIN Shown(view) /\ Shown(view)[i].task /\ Marks(i)

\* The popover of a lesson, or of an event.
SavePopover(i) == view \in Feeds /\ i \in DOMAIN Shown(view) /\ ~Shown(view)[i].task /\ Marks(i)

\* A card is dragged to another column.
MoveCard(i) == view = <<Board>> /\ i \in DOMAIN Shown(view) /\ Marks(i)

\* The form of the course page: another status, or another time.
EditOnCourse(i, s) ==
  /\ view = <<Course>> /\ i \in DOMAIN Shown(view)
  /\ \/ Marks(i)
     \/ /\ Shown(view)[i].slot # s
        /\ Mutate("update", i, [Shown(view)[i] EXCEPT !.slot = s], view)
        /\ UNCHANGED made

Makes(task, s) ==
  /\ made' = made + 1
  /\ Mutate("create", Temp(3 + made), [task |-> task, slot |-> s, done |-> FALSE], view)

\* The popover of a free slot, with its three tabs.
InSlot(s) == view \in Feeds /\ Feed(WeekOf(s)) = view
CreateLessonInSlot(s) == InSlot(s) /\ Makes(FALSE, s)
CreateEventInSlot(s) == InSlot(s) /\ Makes(FALSE, s)
CreateTaskInSlot(s) == InSlot(s) /\ Makes(TRUE, s)

\* A draft on the board has no slot.
CommitDraft == view = <<Board>> /\ Makes(TRUE, NoSlot)

CreateOnCourse(s) == view = <<Course>> /\ Makes(FALSE, s)

Removes(i) == Mutate("delete", i, Shown(view)[i], view) /\ UNCHANGED made

\* The popover of an event; a lesson's has no such button.
DeleteEvent(i) == view \in Feeds /\ i \in DOMAIN Shown(view) /\ ~Shown(view)[i].task /\ Removes(i)
DeleteCard(i) == view = <<Board>> /\ i \in DOMAIN Shown(view) /\ Removes(i)
DeleteLesson(i) == view = <<Course>> /\ i \in DOMAIN Shown(view) /\ Removes(i)

(***************************************************************************)
(* The server, and the answer.                                             *)
(***************************************************************************)
Exists(m) == m.op = "create" \/ (m.id \in DOMAIN db /\ db[m.id].task = (m.api = "task"))
Stored(m) ==
  CASE m.op = "update" -> [db EXCEPT ![m.id] = m.val]
    [] m.op = "create" -> [j \in DOMAIN db \cup {-m.id} |->
                             IF j = -m.id THEN m.val ELSE db[j]]
    [] m.op = "delete" -> Restrict(db, DOMAIN db \ {m.id})
Reaches(m, at) == muts' = (muts \ {m}) \cup {[m EXCEPT !.at = at]}

Apply(m) ==
  /\ m.at = "sent" /\ Exists(m)
  /\ db' = Stored(m) /\ Reaches(m, "done")
  /\ UNCHANGED <<cache, stale, fetch, view, made, ops, errors, turns, spoilt, strayed, dragged>>

\* The request is refused or lost: a fault, or an entry that is not there.
Refuse(m) ==
  /\ m.at = "sent"
  /\ IF Exists(m) THEN errors < MaxErrors /\ errors' = errors + 1 ELSE UNCHANGED errors
  /\ Reaches(m, "failed")
  /\ UNCHANGED <<db, cache, stale, fetch, view, made, ops, turns, spoilt, strayed, dragged>>

\* The answer is lost: done, and reported as failed.
Lose(m) ==
  /\ m.at = "done" /\ errors < MaxErrors
  /\ errors' = errors + 1
  /\ Reaches(m, "lost")
  /\ UNCHANGED <<db, cache, stale, fetch, view, made, ops, turns, spoilt, strayed, dragged>>

\* Mutant: the task hooks refresh the calendar only.
ForgetsTheBoard(m) == Feeds

\* invalidateTaskViews, invalidateLessonViews (course page), invalidate.
Invalidated(m) ==
  Feeds \cup (IF m.api = "task" THEN {<<Board>>} ELSE {})
        \cup (IF m.api # "task" /\ (m.op = "create" \/ m.from = <<Course>>) THEN {<<Course>>} ELSE {})

Succeed(m) ==
  /\ m.at = "done"
  /\ muts' = muts \ {m}
  /\ stale' = [k \in Keys |-> stale[k] \/ k \in Invalidated(m)]
  /\ invalidates(Invalidated(m))
  /\ spoilt' = (spoilt \/ Overtaken(Invalidated(m)))
  /\ UNCHANGED <<db, cache, view, made, ops, errors, turns, strayed, dragged>>

\* rollbackCalendar: what had data is put back, and counts as fresh.
Restored(m) ==
  [k \in Keys |-> IF k \in DOMAIN m.snap /\ m.snap[k].has THEN m.snap[k] ELSE cache[k]]
\* An entry without its own id that the snapshot has in a list that is not its.
PutsAstray(m, k, i) ==
  /\ k \in DOMAIN m.snap /\ m.snap[k].has /\ i \in DOMAIN m.snap[k].items
  /\ IsTemp(i) /\ ~Lists(k, m.snap[k].items[i])
\* onSettled of the task hooks; lessons and events have onSuccess only.
AfterFailure(m) == IF m.api = "task" THEN Invalidated(m) ELSE {}

Fail(m) ==
  /\ m.at \in {"failed", "lost"}
  /\ muts' = muts \ {m}
  /\ cache' = Restored(m)
  /\ stale' = [k \in Keys |->
       \/ k \in AfterFailure(m)
       \/ stale[k] /\ ~(k \in DOMAIN m.snap /\ m.snap[k].has)]
  /\ invalidates(AfterFailure(m))
  /\ spoilt' = (spoilt \/ (m.api # "task" /\ (m.at = "lost" \/ ~m.clean))
                     \/ Overtaken(AfterFailure(m)))
  /\ strayed' = strayed \cup {p \in Keys \X Ids : PutsAstray(m, p[1], p[2])}
  /\ UNCHANGED <<db, view, made, ops, errors, turns, dragged>>

CalendarNext ==
  \/ \E k \in Keys : Reply(k) \/ Land(k)
  \/ \E aged \in BOOLEAN :
       \/ \E w \in Weeks : DatesSet(w, aged) \/ FlipWeek(w, aged) \/ Navigate(w, aged)
       \/ \E k \in Keys : OpenPage(k, aged)
  \/ \E i \in Ids : \/ Resize(i) \/ ToggleTask(i) \/ SavePopover(i) \/ MoveCard(i)
                    \/ DeleteEvent(i) \/ DeleteCard(i) \/ DeleteLesson(i)
                    \/ \E s \in Slots : DropOn(i, s) \/ CommitDrag(i, s) \/ EditOnCourse(i, s)
  \/ \E s \in Slots : \/ CreateLessonInSlot(s) \/ CreateEventInSlot(s)
                     \/ CreateTaskInSlot(s) \/ CreateOnCourse(s)
  \/ CommitDraft
  \/ \E m \in muts : Apply(m) \/ Refuse(m) \/ Lose(m) \/ Succeed(m) \/ Fail(m)

CalendarSpec == CalendarInit /\ [][CalendarNext]_calendarVars

(***************************************************************************)
(* Properties.                                                             *)
(***************************************************************************)
AtRest == muts = {} /\ \A k \in Keys : fetch[k] = Idle

True(k) == cache[k].has /\ cache[k].items = Listed(k)

\* When everything has been answered, what is on screen is what the server
\* has, and so is every other query that is not marked stale: no optimistic
\* write, temporary entry or late answer is left over, also after failures,
\* the ones apart that `spoilt' names; and apart from the course page after a
\* lesson was changed from the calendar.  The types go along.
Settled ==
  CalendarTypeOK /\ (AtRest /\ ~spoilt =>
    \A k \in Keys :
      (k = <<Course>> /\ dragged) \/ (k # view /\ (stale[k] \/ ~cache[k].has)) \/ True(k))

\* The course page too (useLessons.ts:16-20: any edit of a lesson is seen on
\* two screens).  Not a property of the code: useRescheduleLesson and
\* useUpdateLessonStatus invalidate the calendar only.
CourseFollowsCalendar ==
  (AtRest /\ ~spoilt /\ view = <<Course>> /\ cache[view].has) => True(<<Course>>)

\* An answer to a question asked before the change never lands on top of it
\* (useCalendar.ts:86-92).
NoOldAnswer ==
  \A m \in muts : \A k \in DOMAIN m.snap : fetch[k] # Idle => fetch[k].since > m.n

\* A new entry that the server has not confirmed is drawn in its own week and
\* on its own board only (useCalendar.ts:66-68), but while it is being moved,
\* and where a mutation that began in the middle of such a move has put it back
\* when it failed.
TempInItsPlace ==
  \A k \in Keys : cache[k].has =>
    \A i \in DOMAIN cache[k].items : IsTemp(i) =>
      \/ Lists(k, cache[k].items[i])
      \/ \E m \in muts : m.op = "update" /\ m.id = i
      \/ <<k, i>> \in strayed
=============================================================================
