--------------------------- MODULE ClientSession ---------------------------
(***************************************************************************)
(* One tab of the web client and its session: the two axios clients        *)
(* (lib/api/client.ts of the tutor, lib/api/studentClient.ts of the        *)
(* student and of a guest), the token in localStorage, the log-in pages,   *)
(* and on the tutor's side the subscription guard of the dashboard layout  *)
(* and the payment funnel.                                                 *)
(*                                                                         *)
(* Every call passes the same two interceptors.  On the way out a token    *)
(* with less than seven days to live is exchanged first, by one call for   *)
(* all; on the way back a 401 exchanges it and sends the call again, a 402 *)
(* sends the tutor to the paywall.  Assigning window.location drops the    *)
(* document: the flags, the calls, what the guard knew (Load).  The router *)
(* keeps all of it.                                                        *)
(***************************************************************************)
EXTENDS Naturals, FiniteSets

CONSTANTS MaxAsks,      \* bound: calls the pages make
          MaxFaults,    \* bound: calls lost, or answered with a server error
          MaxRefreshes, \* the rate limiter of /auth: so many, then 429
          MaxPolls,     \* MAX_ATTEMPTS of the success page
          MaxRetries    \* attempts of withRetry

ASSUME SessionAssumption ==
  {MaxAsks, MaxFaults, MaxRefreshes, MaxPolls, MaxRetries} \subseteq Nat

VARIABLES
  kind,       \* who uses the tab
  stored,     \* the token in localStorage
  live,       \* the server still has the session's refresh token
  refreshing, \* isRefreshing
  failed,     \* refreshFailed
  refreshes,  \* exchanges under way
  calls,      \* the calls of the page
  page,
  sub,        \* subState of the layout
  due,        \* the layout's effect is to load it
  polling,    \* the poll of the success page
  paid,       \* the subscription at the server
  bought,     \* a checkout whose webhook has not come
  count,      \* bounded counters
  hist        \* history

session == <<kind, stored, live, refreshing, failed, refreshes, calls>>
guard == <<page, sub, due, polling>>
server == <<paid, bought>>
vars == <<session, guard, server, count, hist>>

\* load: GET /subscription of the layout; stray: an earlier one whose effect
\* has been cleaned up; poll: the success page's; data: any other, on the
\* log-in page the profile; password: a change of password with the wrong
\* current one.
Calls == {"load", "stray", "poll", "data", "password"}
Tokens == {"none", "dead", "ageing", "fresh"}
Statuses == {0, 200, 401, 402, 500}
SubStates == {"active", "grace", "blocked"}
Pages == {"dashboard", "subscription", "success", "provider", "login", "cabinet", "lesson"}

Idle == [at |-> "idle", tok |-> "none", res |-> 0, sub |-> "unknown", tries |-> 0]
IsTutor == kind = "tutor"

TypeOK ==
  /\ kind \in {"tutor", "student", "guest"} /\ stored \in Tokens
  /\ live \in BOOLEAN /\ refreshing \in BOOLEAN /\ failed \in BOOLEAN
  /\ refreshes \subseteq [for : Calls, early : BOOLEAN, res : {"asked", "ok", "refused", "busy", "lost"}]
  /\ calls \in [Calls -> [at : {"idle", "held", "sent", "back", "renewing"}, tok : Tokens,
                          res : Statuses, sub : SubStates \cup {"unknown"}, tries : 0..MaxRetries]]
  /\ page \in Pages
  /\ sub \in SubStates \cup {"unknown"} /\ due \in BOOLEAN
  /\ polling \in {"off", "timer", "asked", "timedOut"}
  /\ paid \in SubStates /\ bought \in BOOLEAN
  /\ sub # "unknown" => IsTutor /\ page # "provider"

Init ==
  /\ \/ kind = "tutor" /\ page \in {"dashboard", "subscription"} /\ stored \in Tokens \ {"none"}
     \/ kind = "student" /\ page = "cabinet" /\ stored \in Tokens \ {"none"}
     \/ kind = "guest" /\ page = "lesson" /\ stored = "none"
  /\ live \in BOOLEAN /\ (kind = "guest" => ~live)
  /\ refreshing = FALSE /\ failed = FALSE /\ refreshes = {}
  /\ calls = [c \in Calls |-> Idle]
  /\ sub = "unknown" /\ due = IsTutor /\ polling = "off"
  /\ paid \in IF IsTutor THEN SubStates ELSE {"active"}
  /\ bought = FALSE
  /\ count = [asks |-> 0, faults |-> 0, refreshes |-> 0, polls |-> 0, lapses |-> 0]
  /\ hist = [out |-> "no", unlucky |-> FALSE, refused |-> FALSE, denied |-> FALSE, erred |-> FALSE, activated |-> FALSE]

\* window.location.href = p: a new document.
Load(p, h) ==
  /\ hist' = [h EXCEPT !.denied = FALSE, !.erred = FALSE]
  /\ page' = p /\ sub' = "unknown" /\ due' = (IsTutor /\ p \notin {"login", "provider"})
  /\ polling' = IF p = "success" THEN "timer" ELSE "off"
  /\ refreshing' = FALSE /\ failed' = FALSE /\ refreshes' = {}
  /\ calls' = [c \in Calls |-> Idle]
  /\ count' = [count EXCEPT !.polls = 0]

LogInPage == "login"
\* forceLogout, forceStudentLogout.
ForceLogout ==
  /\ Load(LogInPage, [hist EXCEPT !.out = "forced"]) /\ stored' = "none"
  /\ UNCHANGED <<kind, live, server>>

(***************************************************************************)
(* The interceptors.                                                       *)
(***************************************************************************)
Leaves(c, tries) == [calls EXCEPT ![c] = [Idle EXCEPT !.at = "sent", !.tok = stored, !.tries = tries]]

\* The request interceptor: an old token is exchanged first by one call; those
\* that find an exchange under way do not wait for it.
Exchanges == stored \in {"dead", "ageing"} /\ ~refreshing /\ ~failed
Request(c, tries) ==
  IF Exchanges
  THEN /\ refreshing' = TRUE
       /\ refreshes' = refreshes \cup {[for |-> c, early |-> TRUE, res |-> "asked"]}
       /\ calls' = [Leaves(c, tries) EXCEPT ![c].at = "held"]
  ELSE /\ calls' = Leaves(c, tries)
       /\ UNCHANGED <<refreshing, refreshes>>

\* POST /auth/refresh: answered, limited, or lost on the way.
ServeRefresh(r) ==
  /\ r.res = "asked"
  /\ \E res \in {"ok", "refused", "busy", "lost"} :
       /\ res = "ok" => live /\ count.refreshes < MaxRefreshes
       /\ res = "refused" => ~live /\ count.refreshes < MaxRefreshes
       /\ res = "lost" => count.faults < MaxFaults
       /\ res = "busy" => count.refreshes = MaxRefreshes \/ count.faults < MaxFaults
       /\ refreshes' = (refreshes \ {r}) \cup {[r EXCEPT !.res = res]}
       /\ count' = [count EXCEPT
            !.refreshes = IF @ < MaxRefreshes THEN @ + 1 ELSE @,
            !.faults = IF res = "lost" \/ (res = "busy" /\ count.refreshes < MaxRefreshes)
                       THEN @ + 1 ELSE @]
       /\ hist' = [hist EXCEPT !.unlucky = @ \/ count'.faults # count.faults,
                               !.refused = @ \/ res = "refused"]
  /\ UNCHANGED <<kind, stored, live, refreshing, failed, calls, guard, server>>

\* Does this outcome of an early exchange stop further ones?  A lost line does
\* so for the student only.
Hardens(res) == res \in {"refused", "busy"} \/ (res = "lost" /\ ~IsTutor)

\* proactiveRefresh comes back.
EarlyRefreshEnds(r) ==
  /\ r.early /\ r.res # "asked"
  /\ IF r.res = "refused" THEN ForceLogout
     ELSE /\ stored' = IF r.res = "ok" THEN "fresh" ELSE stored
          /\ failed' = (failed \/ Hardens(r.res))
          /\ refreshing' = FALSE /\ refreshes' = refreshes \ {r}
          /\ calls' = [calls EXCEPT ![r.for] =
                         [@ EXCEPT !.at = "sent",
                                   !.tok = IF stored' = "none" THEN calls[r.for].tok ELSE stored']]
          /\ UNCHANGED <<kind, live, guard, server, count, hist>>

\* The exchange after a 401 comes back: the call goes out again, or the person
\* is logged out, whatever went wrong.
LateRefreshEnds(r) ==
  /\ ~r.early /\ r.res # "asked"
  /\ IF r.res = "ok"
     THEN /\ stored' = "fresh" /\ refreshing' = FALSE /\ refreshes' = refreshes \ {r}
          /\ calls' = [calls EXCEPT ![r.for] = [@ EXCEPT !.at = "sent", !.tok = "fresh"]]
          /\ UNCHANGED <<kind, live, failed, guard, server, count, hist>>
     ELSE ForceLogout

\* Mutant: every 401 is taken for an expired token.
EveryOneRefreshes(c) == TRUE

\* shouldRefreshOn401, and the test of client.ts on /auth/ (no call here).
RefreshesOn401(c) ==
  IsTutor \/ (stored # "none" /\ c # "password")

\* A call that is answered with s reaches the page that made it.
Reaches(c, s) == calls[c].at = "back" /\ calls[c].res = s

\* Mutant: without the test of isRefreshing.
On401Regardless(c) ==
  /\ Reaches(c, 401) /\ RefreshesOn401(c)
  /\ refreshing' = TRUE
  /\ refreshes' = refreshes \cup {[for |-> c, early |-> FALSE, res |-> "asked"]}
  /\ calls' = [calls EXCEPT ![c].at = "renewing"]
  /\ UNCHANGED <<kind, stored, live, failed, guard, server, count, hist>>

On401(c) ==
  /\ Reaches(c, 401) /\ RefreshesOn401(c) /\ ~refreshing
  /\ refreshing' = TRUE
  /\ refreshes' = refreshes \cup {[for |-> c, early |-> FALSE, res |-> "asked"]}
  /\ calls' = [calls EXCEPT ![c].at = "renewing"]
  /\ UNCHANGED <<kind, stored, live, failed, guard, server, count, hist>>

On402(c) ==
  /\ Reaches(c, 402) /\ page # "subscription"
  /\ Load("subscription", hist)
  /\ UNCHANGED <<kind, stored, live, server>>

\* What the interceptor rejects, or hands over.
Handed(c) ==
  /\ calls[c].at = "back"
  /\ ~(calls[c].res = 401 /\ RefreshesOn401(c) /\ ~refreshing)
  /\ ~(calls[c].res = 402 /\ page # "subscription")

(***************************************************************************)
(* The server.                                                             *)
(***************************************************************************)
Accepts(tok) == tok \in {"ageing", "fresh"}
Answer(c) ==
  CASE ~Accepts(calls[c].tok) \/ c = "password" -> 401
    [] c = "data" /\ IsTutor /\ page # LogInPage /\ paid = "blocked" -> 402
    [] OTHER -> 200

Serve(c) ==
  /\ calls[c].at = "sent"
  /\ \E s \in {Answer(c), 0, 500} :
       /\ s \in {0, 500} => count.faults < MaxFaults
       /\ calls' = [calls EXCEPT ![c] = [@ EXCEPT !.at = "back", !.res = s,
            !.sub = IF s = 200 /\ c \in {"load", "stray", "poll"} THEN paid ELSE "unknown"]]
       /\ count' = [count EXCEPT !.faults = IF s \in {0, 500} THEN @ + 1 ELSE @]
       /\ hist' = [hist EXCEPT !.unlucky = @ \/ s \in {0, 500},
            !.denied = @ \/ (c = "load" /\ s = 200 /\ paid = "blocked"),
            !.erred = @ \/ (c = "load" /\ s = 500)]
  /\ UNCHANGED <<kind, stored, live, refreshing, failed, refreshes, guard, server>>

\* A password changed elsewhere (RevokeAll), a log-out in another tab, thirty
\* days: the refresh token is gone, the access token is not.
SessionEnds ==
  /\ live /\ count.lapses = 0
  /\ live' = FALSE /\ count' = [count EXCEPT !.lapses = 1]
  /\ UNCHANGED <<kind, stored, refreshing, failed, refreshes, calls, guard, server, hist>>

SubscriptionLapses ==
  /\ IsTutor /\ paid # "blocked" /\ count.lapses = 0
  /\ paid' = "blocked" /\ count' = [count EXCEPT !.lapses = 1]
  /\ UNCHANGED <<session, guard, bought, hist>>

Webhook ==
  /\ bought /\ bought' = FALSE /\ paid' = "active"
  /\ UNCHANGED <<session, guard, count, hist>>

(***************************************************************************)
(* The layout's guard and the pages.                                       *)
(***************************************************************************)
\* decideAccess: blocked, outside the payment funnel.
Funnel == {"subscription", "success"}
Barred == sub = "blocked" /\ page \notin Funnel
\* The layout draws its page.
Drawn == ~IsTutor \/ (sub # "unknown" /\ ~Barred)

Counted == count.asks < MaxAsks /\ count' = [count EXCEPT !.asks = @ + 1]

\* The effect that loads the subscription.
LoadSub ==
  /\ due /\ calls.load.at = "idle"
  /\ due' = FALSE /\ Request("load", 0)
  /\ UNCHANGED <<kind, stored, live, failed, page, sub, polling, server, count, hist>>

\* Listeners of `online' and `visibilitychange', while it is not known.
Listens == IsTutor /\ page \notin {"login", "provider"} /\ sub = "unknown" /\ ~due

\* Mutant: the call is dropped and not made anew.
CleansUp ==
  /\ Listens /\ calls.stray.at = "idle" /\ calls.load.at # "idle" /\ count.asks < MaxAsks
  /\ calls' = [calls EXCEPT !.stray = calls.load, !.load = Idle]
  /\ refreshes' = {[r EXCEPT !.for = IF @ = "load" THEN "stray" ELSE @] : r \in refreshes}
  /\ count' = [count EXCEPT !.asks = @ + 1]
  /\ UNCHANGED <<kind, stored, live, refreshing, failed, guard, server, hist>>

\* One of these events: the effect is cleaned up and runs again; the call it had
\* made goes on, unheard.
Again ==
  /\ Listens
  /\ calls.stray.at = "idle" /\ (calls.load.at # "idle" => count.asks < MaxAsks)
  /\ due' = TRUE
  /\ calls' = [calls EXCEPT !.stray = calls.load, !.load = Idle]
  /\ refreshes' = {[r EXCEPT !.for = IF @ = "load" THEN "stray" ELSE @] : r \in refreshes}
  /\ count' = IF calls.load.at = "idle" THEN count ELSE [count EXCEPT !.asks = @ + 1]
  /\ UNCHANGED <<kind, stored, live, refreshing, failed, page, sub, polling, server, hist>>

\* isTransient, and an attempt is left.
TryAgain(c) ==
  /\ c \in {"load", "stray"} /\ Handed(c)
  /\ calls[c].res \in {0, 500} /\ calls[c].tries < MaxRetries
  /\ Request(c, calls[c].tries + 1)
  /\ UNCHANGED <<kind, stored, live, failed, guard, server, count, hist>>

\* Mutant: any failure counts as no subscription.
BlockedOnError(status) == "blocked"

\* stateOnLoadError.
OnLoadError(status) == IF status = 0 THEN "unknown" ELSE "blocked"

Settles(c) ==
  /\ Handed(c) /\ ~(calls[c].res \in {0, 500} /\ calls[c].tries < MaxRetries)
  /\ calls' = [calls EXCEPT ![c] = Idle]

LoadSubEnds ==
  /\ Settles("load")
  /\ sub' = IF calls.load.res = 200 THEN calls.load.sub ELSE OnLoadError(calls.load.res)
  /\ hist' = [hist EXCEPT !.erred = @ \/ calls.load.res = 401]
  /\ UNCHANGED <<kind, stored, live, refreshing, failed, refreshes, page, due, polling, server, count>>

StrayEnds ==
  /\ Settles("stray")
  /\ UNCHANGED <<kind, stored, live, refreshing, failed, refreshes, guard, server, count, hist>>

\* The effect that leads to the paywall, by the router.
Redirect ==
  /\ IsTutor /\ page = "dashboard" /\ Barred
  /\ page' = "subscription"
  /\ UNCHANGED <<session, sub, due, polling, server, count, hist>>

\* The success page is left: its timer is stopped, but not a poll under way,
\* which sets the timer again, off the page, where nobody stops it.
TimerStops == polling' = IF page = "success" /\ polling # "asked" THEN "off" ELSE polling

\* A link of the sidebar.
GoTo(p) ==
  /\ IsTutor /\ Drawn /\ page \in {"dashboard", "subscription", "success"}
  /\ p \in {"dashboard", "subscription"} \ {page} /\ Counted
  /\ page' = p /\ TimerStops
  /\ UNCHANGED <<session, sub, due, server, hist>>

Asks(c) ==
  /\ calls[c].at = "idle" /\ Counted /\ Request(c, 0)
  /\ UNCHANGED <<kind, stored, live, failed, guard, server, hist>>

\* Whatever the page shows asks the server; in the funnel the sidebar does.
AskData == page \notin {"login", "provider"} /\ Drawn /\ Asks("data")

\* The forms that change the password, with the wrong old one.
AskPassword == IsTutor /\ page = "dashboard" /\ Drawn /\ Asks("password")
AskStudentPassword == page = "cabinet" /\ Asks("password")

DataEnds(c) ==
  /\ c \in {"data", "password"} /\ page # LogInPage
  /\ Handed(c) /\ calls' = [calls EXCEPT ![c] = Idle]
  /\ UNCHANGED <<kind, stored, live, refreshing, failed, refreshes, guard, server, count, hist>>

\* onPay: the provider's page, and back by its redirect.
Pay ==
  /\ page = "subscription" /\ Drawn /\ paid # "active" /\ ~bought
  /\ Load("provider", [hist EXCEPT !.activated = FALSE])
  /\ UNCHANGED <<kind, stored, live, server>>
Return ==
  /\ page = "provider"
  /\ \/ Load("success", hist) /\ bought' = TRUE
     \/ Load("subscription", hist) /\ UNCHANGED bought
  /\ UNCHANGED <<kind, stored, live, paid>>

\* The poll of the success page: the first when it is drawn.
Poll ==
  /\ page = "success" => Drawn
  /\ polling = "timer" /\ count.polls < MaxPolls
  /\ polling' = "asked" /\ count' = [count EXCEPT !.polls = @ + 1]
  /\ Request("poll", 0)
  /\ UNCHANGED <<kind, stored, live, failed, page, sub, due, server, hist>>

\* Mutant: activation leads to the dashboard by the router.
EntersByTheRouter ==
  /\ page' = "dashboard" /\ polling' = "off" /\ calls' = [calls EXCEPT !.poll = Idle]
  /\ hist' = [hist EXCEPT !.activated = TRUE]
  /\ UNCHANGED <<sub, due, refreshing, failed, refreshes, count>>

\* A new document, as the layout still holds what it knew before the payment.
EntersTheApp == Load("dashboard", [hist EXCEPT !.activated = TRUE])

PollEnds ==
  /\ polling = "asked" /\ Handed("poll")
  /\ IF calls.poll.res = 200 /\ calls.poll.sub = "active"
     THEN EntersTheApp
     ELSE /\ polling' = IF count.polls < MaxPolls THEN "timer" ELSE "timedOut"
          /\ calls' = [calls EXCEPT !.poll = Idle]
          /\ UNCHANGED <<refreshing, failed, refreshes, page, sub, due, count, hist>>
  /\ UNCHANGED <<kind, stored, live, server>>

\* handleLogout: the server is told, then the store and the storage are
\* cleared, and the router leads to the log-in page.
LogOut ==
  /\ page \in {"dashboard", "subscription", "success", "cabinet"} /\ Drawn
  /\ live' = FALSE /\ stored' = "none" /\ page' = LogInPage
  /\ sub' = "unknown" /\ due' = FALSE /\ TimerStops
  /\ hist' = [hist EXCEPT !.out = "person"]
  /\ UNCHANGED <<kind, refreshing, failed, refreshes, calls, server, count>>

\* onSubmit: the token first, then the profile, which needs it; then the store
\* and the application.
Enters ==
  /\ page = LogInPage /\ calls.data.at = "idle" /\ Counted
  /\ live' = TRUE /\ stored' = "fresh"
  /\ calls' = [calls EXCEPT !.data = [Idle EXCEPT !.at = "sent", !.tok = "fresh"]]
  /\ hist' = [hist EXCEPT !.out = "no", !.activated = FALSE,
                          !.refused = \E r \in refreshes : r.res = "refused"]
  /\ UNCHANGED <<kind, refreshing, failed, refreshes, guard, server>>
LogIn == IsTutor /\ Enters
\* loginWithToken, after the code of the registration.
Register == IsTutor /\ Enters
StudentLogIn == kind = "student" /\ Enters
AcceptInvite == kind = "student" /\ Enters
ProfileEnds ==
  /\ page = LogInPage /\ Handed("data") /\ calls' = [calls EXCEPT !.data = Idle]
  /\ IF calls.data.res = 200 /\ stored # "none"
     THEN /\ page' = (IF IsTutor THEN "dashboard" ELSE "cabinet") /\ due' = IsTutor
     ELSE UNCHANGED <<page, due>>
  /\ UNCHANGED <<kind, stored, live, refreshing, failed, refreshes, sub, polling, server, count, hist>>

Next ==
  \/ \E r \in refreshes : ServeRefresh(r) \/ EarlyRefreshEnds(r) \/ LateRefreshEnds(r)
  \/ \E c \in Calls : On401(c) \/ On402(c) \/ Serve(c) \/ TryAgain(c) \/ DataEnds(c)
  \/ SessionEnds \/ SubscriptionLapses \/ Webhook
  \/ LoadSub \/ Again \/ LoadSubEnds \/ StrayEnds \/ Redirect
  \/ \E p \in Funnel \cup {"dashboard"} : GoTo(p)
  \/ AskData \/ AskPassword \/ AskStudentPassword \/ Pay \/ Return \/ Poll \/ PollEnds
  \/ LogOut \/ LogIn \/ Register \/ StudentLogIn \/ AcceptInvite \/ ProfileEnds

Spec == Init /\ [][Next]_vars

(***************************************************************************)
(* Fairness: the network answers, promises and effects run.  What a person *)
(* does, and the events `online' and `visibilitychange', need not happen.  *)
(***************************************************************************)
Fairness ==
  /\ WF_vars(\E r \in refreshes : ServeRefresh(r))
  /\ WF_vars(\E r \in refreshes : EarlyRefreshEnds(r) \/ LateRefreshEnds(r))
  /\ \A c \in Calls : WF_vars(Serve(c)) /\ WF_vars(On401(c) \/ On402(c) \/ TryAgain(c))
  /\ WF_vars(LoadSub) /\ WF_vars(LoadSubEnds) /\ WF_vars(StrayEnds)
FairSpec == Spec /\ Fairness

(***************************************************************************)
(* Properties.                                                             *)
(***************************************************************************)
\* The flag and the exchange go together, over the two interceptors and all
\* the ways a call can end: two exchanges never run side by side, and none is
\* needed to clear the flag (client.ts:21-27).  The types go along.
OneRefresh == TypeOK /\ Cardinality(refreshes) = IF refreshing THEN 1 ELSE 0

\* A person is logged out by the client only if the server has refused to
\* renew the session, or a call met a fault, or, on the tutor's side, the
\* limiter of /auth; a guest at a trial lesson never is
\* (studentClient.ts:79-92).
LogoutIsDeserved ==
  hist.out = "forced" =>
    /\ kind # "guest"
    /\ hist.refused \/ hist.unlucky \/ (IsTutor /\ count.refreshes = MaxRefreshes)

\* The paywall is never shown because the line was lost, but on the server's
\* word (subscriptionGuard.ts:19-22).
NoFalsePaywall == sub = "blocked" => hist.denied \/ hist.erred

\* Who has paid and has been told so is not led back to the paywall by what
\* the layout knew before (subscription/success/page.tsx:36-38).
PaidIsLetIn == hist.activated /\ paid = "active" => ~Barred \/ hist.erred

\* The spinner of the layout ends, or every attempt to load the subscription was
\* lost and the layout listens for the line or the person to be back; and so
\* again after each such event (layout.tsx:29-57).
Spins == IsTutor /\ page = "dashboard" /\ sub = "unknown"
AllLost == Listens /\ calls.load.at = "idle" /\ count.faults > MaxRetries
SpinnerEnds == [](Spins => <>(~Spins \/ AllLost))

\* The success page polls until the subscription is active or its attempts are
\* used up (subscriptionGuard.ts:10-12: inside the funnel the page is always
\* rendered, or the success page could not see the activation through).  Not a
\* property of the code: a 402 of the sidebar's calendar leads away.
SuccessPageStays ==
  [][page = "success" /\ page' = "subscription" => \E p \in Funnel : GoTo(p)]_vars

\* A tutor whose session lives is not logged out (client.ts:53-57).  Not a
\* property of the code: the exchange after a 401 logs out whatever its
\* answer, and a wrong current password runs into the limiter.
LiveSessionStays == hist.out = "forced" => ~live
=============================================================================
