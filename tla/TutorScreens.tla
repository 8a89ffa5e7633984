---------------------------- MODULE TutorScreens ----------------------------
(* The tutor's cabinet apart from the calendar: students, courses, money.    *)
(* The screens read cached queries (frontend/src/lib/hooks/useStudents.ts,   *)
(* useCourses.ts, usePayments.ts, useLessons.ts); every handler that changes *)
(* something on the server has to name the queries it has made wrong.  One   *)
(* student, one course.  Queries do not influence each other, so one of      *)
(* them, and one kind of fact it is computed from, is followed through each  *)
(* behaviour: `view' and `fact' are chosen at the start.  The payment form   *)
(* goes along, for it is filled from these queries.                          *)
EXTENDS Integers

CONSTANTS Slots   \* how many changes may be under way at once

-----------------------------------------------------------------------------
(* Queries, and what the server computes them from *)

Tree ==
  [overview |-> "students", pauses |-> "students", roster |-> "students",
   course |-> "courses", balance |-> "courses", enrolments |-> "courses",
   coursePayments |-> "payments", paymentsList |-> "payments", debts |-> "payments",
   lessons |-> "lessons", marks |-> "lessons", calendar |-> "calendar"]

Views == DOMAIN Tree

\* All queries whose key starts with one of these words.
Under(roots) == {v \in Views : Tree[v] \in roots}

\* dropped: lessons to come that go with their course.
Reads ==
  [overview |-> {"name", "people", "course", "enrolled", "payments", "lessons", "dropped", "pauses"},
   pauses |-> {"pauses"}, roster |-> {"name", "people"}, course |-> {"course", "courses"},
   balance |-> {"payments", "lessons", "dropped", "pauses"}, enrolments |-> {"name", "enrolled"},
   coursePayments |-> {"payments", "name"}, paymentsList |-> {"payments", "name"},
   debts |-> {"payments", "lessons", "dropped", "pauses", "course", "name", "schedule"},
   lessons |-> {"lessons", "dropped", "payments"}, marks |-> {"marks"},
   calendar |-> {"lessons", "dropped", "payments", "schedule", "name"}]

\* Which screens show them.
OnCard == {"overview", "pauses", "lessons", "coursePayments", "debts"}
OnCourse == {"course", "balance", "enrolments", "lessons", "coursePayments", "roster", "marks"}
OnPayments == {"paymentsList", "debts", "course"}
OnDashboard == {"calendar", "paymentsList", "debts", "roster"}

Shown ==
  [card |-> OnCard, course |-> OnCourse, payments |-> OnPayments, dashboard |-> OnDashboard,
   students |-> {"roster"}, groups |-> {"course"}]

Pages == DOMAIN Shown

\* The query the form takes the price of a lesson from.
PriceFrom == [card |-> "overview", course |-> "course"]

-----------------------------------------------------------------------------
VARIABLES
  view, fact,   \* the query and the fact that are followed
  page,
  cache,        \* the query's entry
  get,          \* the request for it
  jobs,         \* changes under way
  form,         \* the payment form
  paid,         \* payments the followed opening of the form has recorded
  excuse        \* its button came back too early, or an answer was lost

screensVars == <<view, fact, page, cache, get, jobs, form, paid, excuse>>

\* behind: the fact has changed since this was read.  missed: the word that it
\* is behind came before the answer, or never.
Outdated == [behind : BOOLEAN, missed : BOOLEAN]
UpToDate == [behind |-> FALSE, missed |-> FALSE]

Empty == [held |-> FALSE, stale |-> FALSE, lag |-> UpToDate]
Idle == [at |-> "no", lag |-> UpToDate]
Sent == [at |-> "sent", lag |-> UpToDate]

\* mine: this is the opening that is followed; busy: it is saving.
NoForm == [mode |-> "closed", mine |-> FALSE, busy |-> FALSE]

\* next: the request that may come after this one.  form: sent by a form that
\* is still on the screen, perhaps open for something else by now.  pays: it
\* records the payment of the opening that is followed.
NoJob == [changes |-> FALSE, tells |-> FALSE, stage |-> "none", next |-> "none",
          form |-> FALSE, pays |-> FALSE]

ScreensTypeOK ==
  /\ view \in Views /\ fact \in Reads[view] /\ page \in Pages
  /\ cache.held \in BOOLEAN /\ cache.stale \in BOOLEAN /\ cache.lag \in Outdated
  /\ get.at \in {"no", "sent", "read"} /\ get.lag \in Outdated
  /\ \A s \in Slots : /\ jobs[s].stage \in {"none", "sent", "done"}
                      /\ jobs[s].next \in {"none", "archive", "enrol"}
  /\ form.mode \in {"closed", "new", "edit"}
  /\ paid \in 0..2

OnScreen == view \in Shown[page]

ScreensInit ==
  /\ view \in Views /\ fact \in Reads[view]
  /\ page = "dashboard"
  /\ cache = Empty
  /\ get = IF OnScreen THEN Sent ELSE Idle
  /\ jobs = [s \in Slots |-> NoJob]
  /\ form = NoForm
  /\ paid = 0 /\ excuse = FALSE

-----------------------------------------------------------------------------
(* The cache: fresh for two minutes, gone ten minutes after the last screen  *)
(* that showed it.                                                           *)

\* The screen is left; what it had asked for still arrives.
GoTo(p) ==
  /\ p # page
  /\ page' = p
  /\ form' = NoForm
  /\ jobs' = [s \in Slots |-> [jobs[s] EXCEPT !.form = FALSE]]
  /\ get' = IF view \in Shown[p] /\ get.at = "no" /\ (~cache.held \/ cache.stale)
            THEN Sent ELSE get
  /\ UNCHANGED <<view, fact, cache, paid, excuse>>

TwoMinutes ==
  /\ cache.held /\ ~cache.stale
  /\ cache' = [cache EXCEPT !.stale = TRUE]
  /\ UNCHANGED <<view, fact, page, get, jobs, form, paid, excuse>>

TenMinutes ==
  /\ cache.held /\ ~OnScreen /\ get.at = "no"
  /\ cache' = Empty
  /\ UNCHANGED <<view, fact, page, get, jobs, form, paid, excuse>>

Served ==
  /\ get.at = "sent"
  /\ get' = [get EXCEPT !.at = "read"]
  /\ UNCHANGED <<view, fact, page, cache, jobs, form, paid, excuse>>

\* May the answer bring another price to the open form?
PriceDiffers ==
  /\ page \in DOMAIN PriceFrom /\ view = PriceFrom[page] /\ fact = "course"
  /\ cache.held /\ cache.lag.behind

\* A new price starts a form for a new payment again, with its button free.
Answered ==
  /\ get.at = "read"
  /\ cache' = [held |-> TRUE, stale |-> FALSE, lag |-> get.lag]
  /\ get' = Idle
  /\ \E restarts \in {PriceDiffers /\ form.mode = "new", FALSE} :
       /\ form' = [form EXCEPT !.busy = @ /\ ~restarts]
       /\ excuse' = (excuse \/ (restarts /\ form.busy))
  /\ UNCHANGED <<view, fact, page, jobs, paid>>

GetFails ==
  /\ get.at # "no"
  /\ get' = Idle
  /\ UNCHANGED <<view, fact, page, cache, jobs, form, paid, excuse>>

-----------------------------------------------------------------------------
(* Changes: what each handler makes wrong, and the queries it names          *)

\* useLessons.ts invalidateLessonViews, useStudents.ts invalidateAfterPause
\* and usePayments.ts invalidateMoney.
invalidateLessonViews(student) ==
  {"lessons", "calendar"} \cup IF student THEN {"overview"} ELSE {}

invalidateAfterPause ==
  {"pauses", "overview"} \cup Under({"payments", "courses", "lessons", "calendar"})

\* Mutant: only the history of payments.
InvalidateHistory(course, student) == {"coursePayments", "paymentsList"}

invalidateMoney(course, student) ==
  Under({"payments"}) \cup (IF course THEN {"balance"} ELSE {})
                     \cup (IF student THEN {"overview"} ELSE {})

Job(changes, tells, next) ==
  [changes |-> fact \in changes, tells |-> view \in tells, stage |-> "sent", next |-> next,
   form |-> FALSE, pays |-> FALSE]

\* What has nothing to do with the query and the fact that are followed is
\* left out.
Matters(j) == j.changes \/ j.tells \/ j.next # "none"

Starts(j) ==
  \E s \in Slots :
    /\ jobs[s].stage = "none"
    /\ jobs' = [jobs EXCEPT ![s] = j]

\* A handler of the screen itself; an open form covers it.
Sends(p, changes, tells) ==
  LET j == Job(changes, tells, "none")
  IN /\ page = p /\ form.mode = "closed" /\ Matters(j)
     /\ Starts(j)
     /\ UNCHANGED <<view, fact, page, cache, get, form, paid, excuse>>

BulkPay == Sends("card", {"payments"}, invalidateMoney(TRUE, TRUE))

\* editingPayment is null here, and the course with it.
DeleteOnCard == Sends("card", {"payments"}, invalidateMoney(FALSE, TRUE))
DeleteOnCourse == Sends("course", {"payments"}, invalidateMoney(TRUE, FALSE))
DeleteOnPayments ==
  Sends("payments", {"payments"}, invalidateMoney(FALSE, FALSE))

Freeze == Sends("card", {"pauses", "lessons"}, invalidateAfterPause)
Unfreeze == Sends("card", {"pauses"}, invalidateAfterPause)

EditPrice == Sends("card", {"course"}, Under({"courses"}))
EditCourse(p) == p \in {"course", "groups"} /\ Sends(p, {"course"}, Under({"courses"}))

\* The lessons to come go with it.
ArchiveCourse(p) ==
  /\ p \in {"course", "groups"}
  /\ Sends(p, {"course", "courses", "dropped"}, Under({"courses"}))

RestoreCourse == Sends("groups", {"course", "courses"}, Under({"courses"}))

Enrol == Sends("course", {"enrolled"}, {"enrolments"})
Unenrol == Sends("course", {"enrolled"}, {"enrolments"})

LessonOnCard == Sends("card", {"lessons"}, invalidateLessonViews(TRUE))

\* Created, edited or deleted, one or a series or all of them.
LessonsOnCourse == Sends("course", {"lessons"}, invalidateLessonViews(FALSE))

SaveMarks == Sends("course", {"marks"}, {"marks"})

EditStudent(p) == p \in {"card", "students"} /\ Sends(p, {"name"}, Under({"students"}))
RestoreStudent(p) ==
  p \in {"card", "students"} /\ Sends(p, {"people"}, Under({"students"}))

Onboard(p) ==
  /\ p \in {"students", "dashboard"}
  /\ Sends(p, {"people", "courses", "schedule"},
           Under({"students", "courses", "calendar"}))

\* Two requests: the group, then its students.
EnrolThem == Job({"enrolled"}, {"enrolments"}, "none")
CreateGroup ==
  LET j == Job({"courses"}, Under({"courses"}), "enrol")
  IN /\ page = "groups" /\ Matters(j) /\ Starts(j)
     /\ UNCHANGED <<view, fact, page, cache, get, form, paid, excuse>>

\* Deletion, and the archive if the server refuses because of the history.
ArchiveThem ==
  Job({"people", "course", "courses", "enrolled", "dropped"},
      Under({"students", "courses", "calendar"}), "none")
RemoveStudent(p) ==
  LET j == Job({"people", "course", "courses", "enrolled", "dropped"},
               Under({"students", "courses", "calendar"}), "archive")
  IN /\ p \in {"card", "students"} /\ page = p /\ form.mode = "closed"
     /\ Matters(j) /\ Starts(j)
     /\ UNCHANGED <<view, fact, page, cache, get, form, paid, excuse>>

-----------------------------------------------------------------------------
(* The payment form *)

\* One opening for a new payment, filled from the query, is followed; of the
\* others it is only known that they are open.
OpenForm(mode) ==
  /\ form.mode = "closed"
  /\ page \in IF mode = "new" THEN DOMAIN PriceFrom ELSE {"card", "course", "payments"}
  /\ \E mine \in BOOLEAN :
       /\ mine => /\ mode = "new" /\ view = PriceFrom[page] /\ fact = "course"
                  /\ paid = 0 /\ \A s \in Slots : ~jobs[s].pays
       /\ form' = [mode |-> mode, mine |-> mine, busy |-> FALSE]
  /\ UNCHANGED <<view, fact, page, cache, get, jobs, paid, excuse>>

\* Also while it is saving.
CloseForm ==
  /\ form.mode # "closed"
  /\ form' = NoForm
  /\ UNCHANGED <<view, fact, page, cache, get, jobs, paid, excuse>>

\* The request, as the form of this screen sends it.
Payment ==
  LET tells == CASE form.mode = "new" \/ page = "card" -> invalidateMoney(TRUE, TRUE)
                 [] form.mode = "edit" /\ page = "course" -> invalidateMoney(TRUE, FALSE)
                 [] form.mode = "edit" /\ page = "payments" -> invalidateMoney(FALSE, FALSE)
  IN [Job({"payments"}, tells, "none") EXCEPT !.form = TRUE, !.pays = form.mine]

\* Mutant: the button is not disabled.
MaySaveAlways == form.mode # "closed"

\* The button is disabled while `isSubmitting'.
MaySave == form.mode # "closed" /\ ~form.busy

SaveForm ==
  /\ MaySave
  /\ Starts(Payment)
  /\ form' = [form EXCEPT !.busy = form.mine]
  /\ UNCHANGED <<view, fact, page, cache, get, paid, excuse>>

-----------------------------------------------------------------------------
(* Requests are carried out and answered *)

Behind(lag, j) == [lag EXCEPT !.behind = @ \/ j.changes]

Lands(s) ==
  LET j == jobs[s]
  IN /\ j.stage = "sent"
     /\ jobs' = [jobs EXCEPT ![s].stage = "done"]
     /\ cache' = IF cache.held THEN [cache EXCEPT !.lag = Behind(@, j)] ELSE cache
     /\ get' = IF get.at = "read" THEN [get EXCEPT !.lag = Behind(@, j)] ELSE get
     /\ paid' = IF j.pays /\ paid < 2 THEN paid + 1 ELSE paid
     /\ UNCHANGED <<view, fact, page, form, excuse>>

\* The word reaches a request that was read before the change.
Missed(lag) == [lag EXCEPT !.missed = @ \/ lag.behind]

\* invalidateQueries: what is on the screen is asked for again, and the
\* request under way is dropped -- unless it is the first one; elsewhere the
\* entry is marked, and a request under way will clear the mark.
Invalidated ==
  /\ cache' = [cache EXCEPT !.stale = cache.held]
  /\ get' = IF OnScreen /\ (get.at = "no" \/ cache.held) THEN Sent
            ELSE IF get.at = "read" THEN [get EXCEPT !.lag = Missed(@)] ELSE get

\* mutateAsync resolves: onSuccess has run, and a form that is still on the
\* screen closes, whichever payment it is for by now.
Succeeds(s) ==
  LET j == jobs[s]
  IN /\ j.stage = "done"
     /\ jobs' = [jobs EXCEPT ![s] = IF j.next = "enrol" THEN EnrolThem ELSE NoJob]
     /\ IF j.tells THEN Invalidated ELSE UNCHANGED <<cache, get>>
     /\ form' = IF j.form THEN NoForm ELSE form
     /\ UNCHANGED <<view, fact, page, paid, excuse>>

\* A failed save ends the `isSubmitting' of the form as it is by now.
Released(j) ==
  /\ form' = [form EXCEPT !.busy = @ /\ ~j.form]
  /\ excuse' = (excuse \/ (j.form /\ form.busy /\ (~j.pays \/ j.stage = "done")))

\* The server refuses.
Refused(s) ==
  LET j == jobs[s]
  IN /\ j.stage = "sent"
     /\ \E then \in {NoJob} \cup (IF j.next = "archive" THEN {ArchiveThem} ELSE {}) :
          jobs' = [jobs EXCEPT ![s] = then]
     /\ Released(j)
     /\ UNCHANGED <<view, fact, page, cache, get, paid>>

\* It is done, and the answer gets lost: an error like any other.
AnswerLost(s) ==
  LET j == jobs[s]
  IN /\ j.stage = "done"
     /\ jobs' = [jobs EXCEPT ![s] = NoJob]
     /\ IF j.changes
        THEN /\ cache' = [cache EXCEPT !.lag = Missed(@)]
             /\ get' = [get EXCEPT !.lag = Missed(@)]
        ELSE UNCHANGED <<cache, get>>
     /\ Released(j)
     /\ UNCHANGED <<view, fact, page, paid>>

-----------------------------------------------------------------------------
Handlers ==
  \/ BulkPay \/ DeleteOnCard \/ DeleteOnCourse \/ DeleteOnPayments
  \/ Freeze \/ Unfreeze \/ EditPrice \/ RestoreCourse \/ Enrol \/ Unenrol
  \/ LessonOnCard \/ LessonsOnCourse \/ SaveMarks \/ CreateGroup
  \/ \E p \in Pages : \/ EditCourse(p) \/ ArchiveCourse(p) \/ EditStudent(p)
                       \/ RestoreStudent(p) \/ Onboard(p) \/ RemoveStudent(p)

ScreensNext ==
  \/ \E p \in Pages : GoTo(p)
  \/ TwoMinutes \/ TenMinutes \/ Served \/ Answered \/ GetFails
  \/ Handlers
  \/ \E mode \in {"new", "edit"} : OpenForm(mode)
  \/ CloseForm \/ SaveForm
  \/ \E s \in Slots : Lands(s) \/ Succeeds(s) \/ Refused(s) \/ AnswerLost(s)

ScreensSpec == ScreensInit /\ [][ScreensNext]_screensVars

-----------------------------------------------------------------------------
(* Properties *)

AtRest == get.at = "no" /\ \A s \in Slots : jobs[s].stage = "none"

\* Nothing is under way, and the query counts as fresh, which it is not.
WrongAtRest == AtRest /\ cache.held /\ ~cache.stale /\ cache.lag.behind

\* What the hooks promise of a change, whichever screen it is made from.  A
\* payment resets all that starts with ['payments'] (usePayments.ts:15-17), a
\* pause whatever counts it (useStudents.ts:151-153), an edit of lessons the two
\* screens that show them (useLessons.ts:15-18), the onboarding its three trees
\* (useStudents.ts:55-56); any other change its own tree or query.
Promised ==
  [payments |-> Under({"payments"}), pauses |-> Views, lessons |-> {"lessons", "calendar"},
   schedule |-> {"calendar"}, people |-> Under({"students"}), name |-> Under({"students"}),
   course |-> Under({"courses"}), courses |-> Under({"courses"}),
   enrolled |-> {"enrolments"}, marks |-> {"marks"}, dropped |-> {}]

\* With nothing under way, a query that counts as fresh is right about what the
\* hooks promise -- on every screen, whatever order the tutor went through them
\* in, whichever handler made the change and however requests and changes
\* crossed -- unless the word was missed: it came before an answer that had been
\* read before the change, or the change was made and reported as failed.
PromisesAreKept ==
  ScreensTypeOK /\ (WrongAtRest /\ view \in Promised[fact] => cache.lag.missed)

\* Any payment changes all the money at once: besides the history and the debts
\* the balances of the courses and the overviews of the students it touches
\* (usePayments.ts:15-17).  Not a property of the code: who edits or deletes a
\* payment on the page of payments names neither, who deletes it on the card no
\* course, on the course no student.
AllMoneyAtOnce ==
  WrongAtRest /\ fact = "payments" /\ view \in Under({"payments"}) \cup {"balance", "overview"}
    => cache.lag.missed

\* One opening of the form records one payment: `isSubmitting' holds the
\* button down.  A second one takes an answer that got lost, or something that
\* freed the button while the first was being saved: a new price, which starts
\* the form again, or the failure of what an earlier opening had sent.
SecondPaymentOnlyAfterReset == paid = 2 => excuse
=============================================================================
