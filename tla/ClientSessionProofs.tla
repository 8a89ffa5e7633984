------------------------ MODULE ClientSessionProofs ------------------------
(* Four invariants of a tab's session, for every value of the bounds: the    *)
(* exchanges of tokens, the paywall, what follows a payment, and why a       *)
(* person is logged out.                                                     *)
EXTENDS ClientSession, FiniteSetTheorems, TLAPS

Call == [at : {"idle", "held", "sent", "back", "renewing"}, tok : Tokens,
         res : Statuses, sub : SubStates \cup {"unknown"}, tries : 0..MaxRetries]
History == [out : {"no", "forced", "person"}, unlucky : BOOLEAN, refused : BOOLEAN,
            denied : BOOLEAN, erred : BOOLEAN, activated : BOOLEAN]

\* The flag is set as long as the one exchange is under way.
FlagIsExchange == IF refreshing THEN \E r \in refreshes : refreshes = {r} ELSE refreshes = {}

\* An exchange is made for a call that waits for it.
CallsWait == \A r \in refreshes : calls[r.for].at \in {"held", "renewing"}

\* Only the tutor's layout loads a subscription.
GuardIsTutors == ~IsTutor => ~due /\ calls.load.at = "idle" /\ calls.stray.at = "idle"

\* At the provider's the tab does nothing, and nothing has been paid yet.
ProviderIsQuiet ==
  page = "provider" =>
    /\ ~due /\ refreshes = {} /\ \A c \in Calls : calls[c].at = "idle"
    /\ paid # "active" /\ ~bought /\ ~hist.activated /\ polling = "off"

\* What an answer that has not been looked at says, the history knows.
LoadIsTold ==
  calls["load"].at = "back" =>
    /\ calls["load"].res # 402
    /\ calls["load"].res = 500 => hist.erred
    /\ calls["load"].res = 200 /\ calls["load"].sub = "blocked" => hist.denied

\* Between a checkout and its webhook the subscription is not active, and no
\* poll says so.
PaymentIsOpen ==
  bought => /\ paid # "active" /\ ~hist.activated
            /\ ~(calls["poll"].at = "back" /\ calls["poll"].res = 200
                  /\ calls["poll"].sub = "active")

\* After an activation the layout believes in a paywall only if it is back.
BlockedAnew ==
  (/\ hist.activated /\ ~hist.erred
   /\ \/ sub = "blocked"
      \/ calls["load"].at = "back" /\ calls["load"].res = 200 /\ calls["load"].sub = "blocked")
    => paid = "blocked"

\* The success page has one poll under way at most.
PollIsAsked == polling # "asked" => calls["poll"].at = "idle"

SessionInv ==
  /\ TypeOK /\ hist \in History
  /\ FlagIsExchange /\ CallsWait /\ GuardIsTutors /\ ProviderIsQuiet
  /\ LoadIsTold /\ NoFalsePaywall /\ PaymentIsOpen /\ BlockedAnew /\ PollIsAsked
-----------------------------------------------------------------------------
LEMMA IdleType == Idle \in Call
  BY SessionAssumption DEF Idle, Call, Tokens, Statuses

\* A new document: nothing of the old one is left to go wrong.
LEMMA LoadStep ==
  ASSUME SessionInv, NEW p \in Pages, NEW h \in History, Load(p, h),
         kind' = kind, stored' \in Tokens, live' \in BOOLEAN,
         paid' \in SubStates, bought' \in BOOLEAN,
         bought' => paid' # "active" /\ ~h.activated,
         p = "provider" => paid' # "active" /\ ~bought' /\ ~h.activated
  PROVE  SessionInv'
  <1>1. hist' \in History /\ hist'.activated = h.activated
    BY DEF Load, History
  <1>2. calls' \in [Calls -> Call] /\ \A c \in Calls : calls'[c].at = "idle"
    BY IdleType DEF Load, Idle
  <1>3. calls'["load"].at = "idle" /\ calls'["stray"].at = "idle" /\ calls'["poll"].at = "idle"
    BY <1>2 DEF Calls
  <1>4. TypeOK'
    BY <1>2 DEF Load, SessionInv, TypeOK, Call, IsTutor, SubStates
  <1>5. QED
    BY <1>1, <1>2, <1>3, <1>4
       DEF Load, SessionInv, FlagIsExchange, CallsWait, GuardIsTutors, ProviderIsQuiet,
           LoadIsTold, NoFalsePaywall, PaymentIsOpen, BlockedAnew, PollIsAsked, IsTutor

\* A call that leaves takes an exchange with it or none.
LEMMA RequestStep ==
  ASSUME SessionInv, NEW c \in Calls, NEW n \in 0..MaxRetries, Request(c, n),
         calls[c].at \in {"idle", "back"}, page # "provider",
         IsTutor \/ c \notin {"load", "stray"},
         kind' = kind, stored' = stored, live' = live, failed' = failed,
         page' = page, sub' = sub, due' \in BOOLEAN, due' => due,
         polling' = polling \/ (c = "poll" /\ polling' = "asked"), c = "poll" => polling' = "asked",
         paid' = paid, bought' = bought, hist' = hist
  PROVE  SessionInv'
  <1> DEFINE sent == [Idle EXCEPT !.at = "sent", !.tok = stored, !.tries = n]
             held == [sent EXCEPT !.at = "held"]
             x == [for |-> c, early |-> TRUE, res |-> "asked"]
  <1>1. sent \in Call /\ sent.at = "sent" /\ held \in Call /\ held.at = "held"
    BY IdleType DEF SessionInv, TypeOK, Call, Idle
  <1>2. calls \in [Calls -> Call]
    BY DEF SessionInv, TypeOK, Call
  <1>3. \/ /\ ~refreshing /\ refreshing' /\ refreshes' = refreshes \cup {x}
           /\ calls' = [calls EXCEPT ![c] = held]
        \/ /\ calls' = [calls EXCEPT ![c] = sent]
           /\ UNCHANGED <<refreshing, refreshes>>
    <2>1. [[calls EXCEPT ![c] = sent] EXCEPT ![c].at = "held"] = [calls EXCEPT ![c] = held]
      BY <1>2
    <2>2. QED
      BY <2>1 DEF Request, Leaves, Exchanges
  <1>4. calls' \in [Calls -> Call] /\ calls'[c].at \in {"sent", "held"}
        /\ \A d \in Calls \ {c} : calls'[d] = calls[d]
    BY <1>1, <1>2, <1>3
  <1>5. FlagIsExchange' /\ CallsWait'
    <2>1. CASE refreshes' = refreshes \cup {x} /\ refreshing' /\ ~refreshing /\ calls' = [calls EXCEPT ![c] = held]
      <3>1. refreshes = {}
        BY <2>1 DEF SessionInv, FlagIsExchange
      <3>2. refreshes' = {x} /\ calls'[x.for].at = "held"
        BY <2>1, <3>1, <1>1, <1>2
      <3>3. QED
        BY <2>1, <3>2 DEF FlagIsExchange, CallsWait
    <2>2. CASE calls' = [calls EXCEPT ![c] = sent] /\ UNCHANGED <<refreshing, refreshes>>
      <3>1. \A r \in refreshes : r.for \in Calls /\ r.for # c
        BY DEF SessionInv, CallsWait, TypeOK
      <3>2. QED
        BY <2>2, <3>1, <1>4 DEF SessionInv, FlagIsExchange, CallsWait
    <2>3. QED
      BY <1>3, <2>1, <2>2
  <1>6. TypeOK'
    <2>1. refreshes' \subseteq [for : Calls, early : BOOLEAN, res : {"asked", "ok", "refused", "busy", "lost"}]
      <3>1. x \in [for : Calls, early : BOOLEAN, res : {"asked", "ok", "refused", "busy", "lost"}]
        OBVIOUS
      <3>2. refreshes \subseteq [for : Calls, early : BOOLEAN, res : {"asked", "ok", "refused", "busy", "lost"}]
        BY DEF SessionInv, TypeOK
      <3>3. refreshes' = refreshes \cup {x} \/ refreshes' = refreshes
        BY <1>3
      <3>4. QED
        BY <3>1, <3>2, <3>3
    <2>2. refreshing' \in BOOLEAN
      BY <1>3 DEF SessionInv, TypeOK
    <2>3. QED
      BY <1>4, <2>1, <2>2 DEF SessionInv, TypeOK, Call, IsTutor
  <1>7. GuardIsTutors'
    BY <1>4 DEF SessionInv, GuardIsTutors, IsTutor, Calls
  <1>8. LoadIsTold' /\ PaymentIsOpen' /\ BlockedAnew' /\ PollIsAsked'
    BY <1>4 DEF SessionInv, LoadIsTold, PaymentIsOpen, BlockedAnew, PollIsAsked, Calls
  <1>9. QED
    BY <1>5, <1>6, <1>7, <1>8 DEF SessionInv, ProviderIsQuiet, NoFalsePaywall

\* A call the page has looked at is gone; it waited for no exchange.
LEMMA SettledCall ==
  ASSUME SessionInv, NEW c \in Calls, calls[c].at = "back",
         calls' = [calls EXCEPT ![c] = Idle], UNCHANGED <<refreshing, refreshes>>
  PROVE  /\ calls' \in [Calls -> Call] /\ calls'[c].at = "idle"
         /\ \A d \in Calls \ {c} : calls'[d] = calls[d]
         /\ FlagIsExchange' /\ CallsWait' /\ page # "provider"
  <1>1. /\ calls' \in [Calls -> Call] /\ calls'[c].at = "idle"
        /\ \A d \in Calls \ {c} : calls'[d] = calls[d]
    BY IdleType DEF SessionInv, TypeOK, Call, Idle
  <1>2. \A r \in refreshes : r.for \in Calls /\ r.for # c
    BY DEF SessionInv, CallsWait, TypeOK
  <1>3. FlagIsExchange' /\ CallsWait'
    BY <1>1, <1>2 DEF SessionInv, FlagIsExchange, CallsWait
  <1>4. QED
    BY <1>1, <1>3 DEF SessionInv, ProviderIsQuiet

LEMMA ServeRefreshStep == ASSUME SessionInv, NEW r \in refreshes, ServeRefresh(r) PROVE SessionInv'
  <1>1. PICK res \in {"ok", "refused", "busy", "lost"} :
             /\ refreshes' = (refreshes \ {r}) \cup {[r EXCEPT !.res = res]}
             /\ hist' = [hist EXCEPT !.unlucky = @ \/ count'.faults # count.faults,
                                     !.refused = @ \/ res = "refused"]
    BY DEF ServeRefresh
  <1> DEFINE x == [r EXCEPT !.res = res]
  <1>2. x \in [for : Calls, early : BOOLEAN, res : {"asked", "ok", "refused", "busy", "lost"}] /\ x.for = r.for
    BY DEF SessionInv, TypeOK
  <1>3. refreshing /\ refreshes' = {x}
    BY <1>1 DEF SessionInv, FlagIsExchange
  <1>4. UNCHANGED <<kind, stored, live, refreshing, failed, calls, page, sub, due, polling, paid, bought>>
    BY DEF ServeRefresh, guard, server
  <1>5. /\ hist' \in History /\ hist'.denied = hist.denied
        /\ hist'.erred = hist.erred /\ hist'.activated = hist.activated
    BY <1>1 DEF SessionInv, History
  <1>6. TypeOK'
    BY <1>2, <1>3, <1>4 DEF SessionInv, TypeOK, IsTutor
  <1>7. FlagIsExchange' /\ CallsWait'
    BY <1>2, <1>3, <1>4 DEF SessionInv, FlagIsExchange, CallsWait
  <1>8. QED
    BY <1>4, <1>5, <1>6, <1>7
       DEF SessionInv, GuardIsTutors, ProviderIsQuiet, LoadIsTold, NoFalsePaywall,
           PaymentIsOpen, BlockedAnew, PollIsAsked, IsTutor

LEMMA ForcedOut == ASSUME SessionInv, ForceLogout PROVE SessionInv'
  <1>1. [hist EXCEPT !.out = "forced"] \in History /\ [hist EXCEPT !.out = "forced"].activated = hist.activated
    BY DEF SessionInv, History
  <1>2. LogInPage \in Pages /\ LogInPage # "provider"
    BY DEF LogInPage, Pages
  <1>3. /\ kind' = kind /\ stored' \in Tokens /\ live' \in BOOLEAN
        /\ paid' \in SubStates /\ bought' \in BOOLEAN
        /\ bought' => paid' # "active" /\ ~hist.activated
    BY DEF ForceLogout, SessionInv, TypeOK, Tokens, server, PaymentIsOpen
  <1>4. Load(LogInPage, [hist EXCEPT !.out = "forced"])
    BY DEF ForceLogout
  <1>5. QED
    BY <1>1, <1>2, <1>3, <1>4, LoadStep

\* The call for which the exchange was made goes out.
LEMMA ExchangeEnds ==
  ASSUME SessionInv, NEW r \in refreshes, NEW tok \in Tokens,
         refreshes' = refreshes \ {r}, refreshing' = FALSE,
         calls' = [calls EXCEPT ![r.for] = [@ EXCEPT !.at = "sent", !.tok = tok]],
         stored' \in Tokens, failed' \in BOOLEAN,
         UNCHANGED <<kind, live, guard, server, hist>>
  PROVE  SessionInv'
  <1>1. refreshes' = {} /\ page # "provider" /\ r.for \in Calls
    BY DEF SessionInv, FlagIsExchange, ProviderIsQuiet, TypeOK
  <1>2. calls[r.for].at \in {"held", "renewing"}
    BY DEF SessionInv, CallsWait
  <1> DEFINE x == [calls[r.for] EXCEPT !.at = "sent", !.tok = tok]
  <1>3. x \in Call /\ x.at = "sent"
    BY <1>1 DEF SessionInv, TypeOK, Call
  <1>4. calls' = [calls EXCEPT ![r.for] = x]
    OBVIOUS
  <1>5. /\ calls' \in [Calls -> Call] /\ calls'[r.for].at = "sent"
        /\ \A d \in Calls \ {r.for} : calls'[d] = calls[d]
    BY <1>1, <1>3, <1>4 DEF SessionInv, TypeOK, Call
  <1>6. TypeOK'
    BY <1>1, <1>5 DEF SessionInv, TypeOK, Call, IsTutor, guard, server
  <1>7. GuardIsTutors'
    BY <1>1, <1>2, <1>5 DEF SessionInv, GuardIsTutors, IsTutor, Calls, guard
  <1>8. LoadIsTold' /\ PaymentIsOpen' /\ BlockedAnew' /\ PollIsAsked'
    BY <1>1, <1>2, <1>5
       DEF SessionInv, LoadIsTold, PaymentIsOpen, BlockedAnew, PollIsAsked, Calls, guard, server
  <1>9. QED
    BY <1>1, <1>6, <1>7, <1>8
       DEF SessionInv, FlagIsExchange, CallsWait, ProviderIsQuiet, NoFalsePaywall, guard

LEMMA EarlyStep == ASSUME SessionInv, NEW r \in refreshes, EarlyRefreshEnds(r) PROVE SessionInv'
  <1>1. CASE r.res = "refused"
    BY <1>1, ForcedOut DEF EarlyRefreshEnds
  <1>2. CASE r.res # "refused"
    <2> DEFINE tok == IF stored' = "none" THEN calls[r.for].tok ELSE stored'
    <2>1. stored' \in Tokens /\ failed' \in BOOLEAN
      BY <1>2 DEF EarlyRefreshEnds, SessionInv, TypeOK, Tokens, Hardens, IsTutor
    <2>2. tok \in Tokens
      BY <2>1 DEF SessionInv, TypeOK
    <2>3. calls' = [calls EXCEPT ![r.for] = [@ EXCEPT !.at = "sent", !.tok = tok]]
      BY <1>2 DEF EarlyRefreshEnds
    <2>4. /\ refreshes' = refreshes \ {r} /\ refreshing' = FALSE
          /\ UNCHANGED <<kind, live, guard, server, hist>>
      BY <1>2 DEF EarlyRefreshEnds
    <2>5. QED
      BY <2>1, <2>2, <2>3, <2>4, ExchangeEnds
  <1>3. QED
    BY <1>1, <1>2

LEMMA LateStep == ASSUME SessionInv, NEW r \in refreshes, LateRefreshEnds(r) PROVE SessionInv'
  <1>1. CASE r.res # "ok"
    BY <1>1, ForcedOut DEF LateRefreshEnds
  <1>2. CASE r.res = "ok"
    <2>1. /\ stored' \in Tokens /\ failed' \in BOOLEAN /\ "fresh" \in Tokens
          /\ refreshes' = refreshes \ {r} /\ refreshing' = FALSE
          /\ UNCHANGED <<kind, live, guard, server, hist>>
      BY <1>2 DEF LateRefreshEnds, SessionInv, TypeOK, Tokens
    <2>2. calls' = [calls EXCEPT ![r.for] = [@ EXCEPT !.at = "sent", !.tok = "fresh"]]
      BY <1>2 DEF LateRefreshEnds
    <2>3. QED
      BY <2>1, <2>2, ExchangeEnds
  <1>3. QED
    BY <1>1, <1>2

LEMMA On401Step == ASSUME SessionInv, NEW c \in Calls, On401(c) PROVE SessionInv'
  <1> DEFINE x == [for |-> c, early |-> FALSE, res |-> "asked"]
             y == [calls[c] EXCEPT !.at = "renewing"]
  <1>1. calls[c].at = "back" /\ ~refreshing
    BY DEF On401, Reaches
  <1>2. refreshes = {} /\ page # "provider"
    BY <1>1 DEF SessionInv, FlagIsExchange, ProviderIsQuiet
  <1>3. refreshing' = TRUE /\ refreshes' = {x}
    BY <1>2 DEF On401
  <1>4. y \in Call /\ y.at = "renewing"
    BY DEF SessionInv, TypeOK, Call
  <1>5. calls' = [calls EXCEPT ![c] = y]
    BY DEF On401
  <1>6. /\ calls' \in [Calls -> Call] /\ calls'[c].at = "renewing"
        /\ \A d \in Calls \ {c} : calls'[d] = calls[d]
    BY <1>4, <1>5 DEF SessionInv, TypeOK, Call
  <1>7. UNCHANGED <<kind, stored, live, failed, page, sub, due, polling, paid, bought, hist>>
    BY DEF On401, guard, server
  <1>8. TypeOK'
    <2>1. refreshes' \subseteq [for : Calls, early : BOOLEAN, res : {"asked", "ok", "refused", "busy", "lost"}]
      BY <1>3
    <2>2. QED
      BY <1>3, <1>6, <1>7, <2>1 DEF SessionInv, TypeOK, Call, IsTutor
  <1>9. FlagIsExchange' /\ CallsWait'
    <2>1. x.for = c
      OBVIOUS
    <2>2. QED
      BY <1>3, <1>6, <2>1 DEF FlagIsExchange, CallsWait
  <1>10. GuardIsTutors'
    BY <1>1, <1>6, <1>7 DEF SessionInv, GuardIsTutors, IsTutor, Calls
  <1>11. LoadIsTold' /\ PaymentIsOpen' /\ BlockedAnew' /\ PollIsAsked'
    BY <1>1, <1>6, <1>7 DEF SessionInv, LoadIsTold, PaymentIsOpen, BlockedAnew, PollIsAsked, Calls
  <1>12. QED
    BY <1>2, <1>7, <1>8, <1>9, <1>10, <1>11 DEF SessionInv, ProviderIsQuiet, NoFalsePaywall

LEMMA On402Step == ASSUME SessionInv, NEW c \in Calls, On402(c) PROVE SessionInv'
  <1>1. /\ Load("subscription", hist) /\ hist \in History /\ "subscription" \in Pages
        /\ kind' = kind /\ stored' \in Tokens /\ live' \in BOOLEAN
        /\ paid' \in SubStates /\ bought' \in BOOLEAN
        /\ bought' => paid' # "active" /\ ~hist.activated
    BY DEF On402, SessionInv, TypeOK, server, Pages, PaymentIsOpen
  <1>2. QED
    BY <1>1, LoadStep

\* What the server says of the subscription is true as it says it.
LEMMA ServeStep == ASSUME SessionInv, NEW c \in Calls, Serve(c) PROVE SessionInv'
  <1>1. PICK s \in {Answer(c), 0, 500} :
          /\ s \in {0, 500} => count.faults < MaxFaults
          /\ calls' = [calls EXCEPT ![c] = [@ EXCEPT !.at = "back", !.res = s,
               !.sub = IF s = 200 /\ c \in {"load", "stray", "poll"} THEN paid ELSE "unknown"]]
          /\ count' = [count EXCEPT !.faults = IF s \in {0, 500} THEN @ + 1 ELSE @]
          /\ hist' = [hist EXCEPT !.unlucky = @ \/ s \in {0, 500},
               !.denied = @ \/ (c = "load" /\ s = 200 /\ paid = "blocked"),
               !.erred = @ \/ (c = "load" /\ s = 500)]
    BY Zenon DEF Serve
  <1> DEFINE told == IF s = 200 /\ c \in {"load", "stray", "poll"} THEN paid ELSE "unknown"
             denies == c = "load" /\ s = 200 /\ paid = "blocked"
             errs == c = "load" /\ s = 500
             fails == s \in {0, 500}
             y == [calls[c] EXCEPT !.at = "back", !.res = s, !.sub = told]
  <1>2. calls[c].at = "sent" /\ page # "provider"
    BY DEF Serve, SessionInv, ProviderIsQuiet
  <1>3. s \in Statuses /\ (s = 402 => c = "data")
    BY DEF Answer, Statuses
  <1>4. told \in SubStates \cup {"unknown"}
    BY DEF SessionInv, TypeOK
  <1>5. /\ c = "load" /\ s = 200 => told = paid
        /\ c = "poll" /\ s = 200 => told = paid
    OBVIOUS
  <1> DEFINE unlucky == hist.unlucky \/ fails
             denied == hist.denied \/ denies
             erred == hist.erred \/ errs
  <1>6. hist' = [hist EXCEPT !.unlucky = unlucky, !.denied = denied, !.erred = erred]
    BY <1>1
  <1>7. calls' = [calls EXCEPT ![c] = y]
    BY <1>1
  <1> HIDE DEF told
  <1>8. y \in Call /\ y.at = "back" /\ y.res = s /\ y.sub = told
    <2>1. calls[c] \in Call
      BY DEF SessionInv, TypeOK, Call
    <2>2. QED
      BY <2>1, <1>3, <1>4 DEF Call
  <1>9. /\ calls' \in [Calls -> Call] /\ calls'[c] = y
        /\ \A d \in Calls \ {c} : calls'[d] = calls[d]
    BY <1>8, <1>7 DEF SessionInv, TypeOK, Call
  <1>10. UNCHANGED <<kind, stored, live, refreshing, failed, refreshes, page, sub, due, polling, paid, bought>>
    BY DEF Serve, guard, server
  <1>11. /\ hist' \in History /\ hist'.activated = hist.activated
         /\ (denies \/ hist.denied) => hist'.denied
         /\ (errs \/ hist.erred) => hist'.erred
    <2>1. hist \in History
      BY DEF SessionInv
    <2>2. unlucky \in BOOLEAN /\ denied \in BOOLEAN /\ erred \in BOOLEAN
      OBVIOUS
    <2>3. ((denies \/ hist.denied) => denied) /\ ((errs \/ hist.erred) => erred)
      OBVIOUS
    <2> HIDE DEF unlucky, denied, erred
    <2>4. /\ hist' \in History /\ hist'.activated = hist.activated
          /\ hist'.denied = denied /\ hist'.erred = erred
      BY <1>6, <2>1, <2>2 DEF History
    <2>5. QED
      BY <2>3, <2>4
  <1>12. TypeOK'
    BY <1>9, <1>10 DEF SessionInv, TypeOK, Call, IsTutor
  <1>13. FlagIsExchange' /\ CallsWait'
    <2>1. \A r \in refreshes : r.for \in Calls /\ r.for # c
      BY <1>2 DEF SessionInv, CallsWait, TypeOK
    <2>2. QED
      BY <2>1, <1>9, <1>10 DEF SessionInv, FlagIsExchange, CallsWait
  <1>14. GuardIsTutors'
    BY <1>2, <1>9, <1>10 DEF SessionInv, GuardIsTutors, IsTutor, Calls
  <1>15. \/ c = "load" /\ calls'["load"] = y /\ calls'["poll"] = calls["poll"]
         \/ c = "poll" /\ calls'["poll"] = y /\ calls'["load"] = calls["load"]
         \/ c \notin {"load", "poll"} /\ calls'["load"] = calls["load"] /\ calls'["poll"] = calls["poll"]
    BY <1>9 DEF Calls
  <1> HIDE DEF y
  <1>16. LoadIsTold'
    <2>1. CASE c # "load"
      BY <2>1, <1>11, <1>15 DEF SessionInv, LoadIsTold
    <2>2. CASE c = "load"
      <3>1. (s = 500 => hist'.erred) /\ (s = 200 /\ told = "blocked" => hist'.denied)
        BY <2>2, <1>5, <1>11
      <3>2. calls'["load"].res = s /\ calls'["load"].sub = told /\ s # 402
        BY <2>2, <1>3, <1>8, <1>15
      <3>3. QED
        BY <3>1, <3>2 DEF LoadIsTold
    <2>3. QED
      BY <2>1, <2>2
  <1>17. PaymentIsOpen'
    <2>1. CASE c # "poll"
      BY <2>1, <1>10, <1>11, <1>15 DEF SessionInv, PaymentIsOpen
    <2>2. CASE c = "poll"
      <3>1. calls'["poll"].res = s /\ calls'["poll"].sub = told
        BY <2>2, <1>8, <1>15
      <3>2. QED
        BY <2>2, <3>1, <1>5, <1>10, <1>11 DEF SessionInv, PaymentIsOpen
    <2>3. QED
      BY <2>1, <2>2
  <1>18. BlockedAnew'
    <2>1. CASE c # "load"
      BY <2>1, <1>10, <1>11, <1>15 DEF SessionInv, BlockedAnew
    <2>2. CASE c = "load"
      <3>1. calls'["load"].res = s /\ calls'["load"].sub = told
        BY <2>2, <1>8, <1>15
      <3>2. QED
        BY <2>2, <3>1, <1>5, <1>10, <1>11 DEF SessionInv, BlockedAnew
    <2>3. QED
      BY <2>1, <2>2
  <1>19. PollIsAsked'
    BY <1>2, <1>10, <1>15 DEF SessionInv, PollIsAsked
  <1>20. QED
    BY <1>2, <1>10, <1>11, <1>12, <1>13, <1>14, <1>16, <1>17, <1>18, <1>19
       DEF SessionInv, ProviderIsQuiet, NoFalsePaywall

LEMMA TryAgainStep == ASSUME SessionInv, NEW c \in Calls, TryAgain(c) PROVE SessionInv'
  <1>1. calls[c].at = "back" /\ c \in {"load", "stray"} /\ Request(c, calls[c].tries + 1)
    BY DEF TryAgain, Handed
  <1>2. calls[c].tries + 1 \in 0..MaxRetries
    BY SessionAssumption DEF TryAgain, SessionInv, TypeOK
  <1>3. page # "provider" /\ IsTutor
    BY <1>1 DEF SessionInv, ProviderIsQuiet, GuardIsTutors
  <1>4. /\ UNCHANGED <<kind, stored, live, failed, page, sub, due, polling, paid, bought, hist>>
        /\ due \in BOOLEAN /\ c # "poll"
    BY <1>1 DEF TryAgain, guard, server, SessionInv, TypeOK
  <1>5. QED
    BY <1>1, <1>2, <1>3, <1>4, RequestStep

\* Looking at an answer, where the page stays as it is.
LEMMA LookedAt ==
  ASSUME SessionInv, NEW c \in Calls, calls[c].at = "back",
         calls' = [calls EXCEPT ![c] = Idle],
         UNCHANGED <<kind, stored, live, refreshing, failed, refreshes, sub, paid, bought, hist>>,
         page' \in Pages \ {"provider"}, due' \in BOOLEAN, due' => IsTutor,
         polling' \in {"off", "timer", "asked", "timedOut"}, polling' = polling \/ c = "poll"
  PROVE  SessionInv'
  <1>1. /\ calls' \in [Calls -> Call] /\ calls'[c].at = "idle"
        /\ \A d \in Calls \ {c} : calls'[d] = calls[d]
        /\ FlagIsExchange' /\ CallsWait' /\ page # "provider"
    BY SettledCall
  <1>2. TypeOK'
    BY <1>1 DEF SessionInv, TypeOK, Call, IsTutor
  <1>3. GuardIsTutors'
    BY <1>1 DEF SessionInv, GuardIsTutors, IsTutor, Calls
  <1>4. LoadIsTold' /\ PaymentIsOpen' /\ BlockedAnew' /\ PollIsAsked'
    BY <1>1 DEF SessionInv, LoadIsTold, PaymentIsOpen, BlockedAnew, PollIsAsked, Calls
  <1>5. QED
    BY <1>1, <1>2, <1>3, <1>4 DEF SessionInv, ProviderIsQuiet, NoFalsePaywall

LEMMA DataEndsStep == ASSUME SessionInv, NEW c \in Calls, DataEnds(c) PROVE SessionInv'
  <1>1. /\ calls[c].at = "back" /\ calls' = [calls EXCEPT ![c] = Idle]
        /\ UNCHANGED <<kind, stored, live, refreshing, failed, refreshes, sub, paid, bought, hist, page, due, polling>>
    BY DEF DataEnds, Handed, guard, server
  <1>2. page \in Pages /\ page # "provider" /\ due \in BOOLEAN /\ (due => IsTutor)
        /\ polling \in {"off", "timer", "asked", "timedOut"}
    BY <1>1 DEF SessionInv, TypeOK, ProviderIsQuiet, GuardIsTutors
  <1>3. QED
    BY <1>1, <1>2, LookedAt

LEMMA StrayEndsStep == ASSUME SessionInv, StrayEnds PROVE SessionInv'
  <1>1. /\ "stray" \in Calls /\ calls["stray"].at = "back" /\ calls' = [calls EXCEPT !["stray"] = Idle]
        /\ UNCHANGED <<kind, stored, live, refreshing, failed, refreshes, sub, paid, bought, hist, page, due, polling>>
    BY DEF StrayEnds, Settles, Handed, guard, server, Calls
  <1>2. page \in Pages /\ page # "provider" /\ due \in BOOLEAN /\ (due => IsTutor)
        /\ polling \in {"off", "timer", "asked", "timedOut"}
    BY <1>1 DEF SessionInv, TypeOK, ProviderIsQuiet, GuardIsTutors
  <1>3. QED
    BY <1>1, <1>2, LookedAt

LEMMA ProfileEndsStep == ASSUME SessionInv, ProfileEnds PROVE SessionInv'
  <1>1. /\ "data" \in Calls /\ calls["data"].at = "back" /\ calls' = [calls EXCEPT !["data"] = Idle]
        /\ UNCHANGED <<kind, stored, live, refreshing, failed, refreshes, sub, paid, bought, hist, polling>>
    BY DEF ProfileEnds, Handed, server, Calls
  <1>2. polling \in {"off", "timer", "asked", "timedOut"} /\ due \in BOOLEAN /\ (due => IsTutor)
    BY DEF SessionInv, TypeOK, GuardIsTutors
  <1>3. page' \in Pages \ {"provider"} /\ due' \in BOOLEAN /\ (due' => IsTutor)
    BY <1>2 DEF ProfileEnds, Pages, LogInPage, IsTutor
  <1>4. QED
    BY <1>1, <1>2, <1>3, LookedAt

\* The layout takes up the answer: it believes in a paywall on the server's
\* word or after an error that is not of the line.
LEMMA LoadSubEndsStep == ASSUME SessionInv, LoadSubEnds PROVE SessionInv'
  <1>1. /\ "load" \in Calls /\ calls["load"].at = "back" /\ calls' = [calls EXCEPT !["load"] = Idle]
        /\ UNCHANGED <<kind, stored, live, refreshing, failed, refreshes, page, due, polling, paid, bought>>
    BY DEF LoadSubEnds, Settles, Handed, server, Calls
  <1>2. /\ calls' \in [Calls -> Call] /\ calls'["load"].at = "idle"
        /\ \A d \in Calls \ {"load"} : calls'[d] = calls[d]
        /\ FlagIsExchange' /\ CallsWait' /\ page # "provider"
    BY <1>1, SettledCall
  <1>3. calls["load"] \in Call /\ IsTutor
    BY <1>1 DEF SessionInv, TypeOK, Call, GuardIsTutors
  <1> DEFINE erred == hist.erred \/ calls["load"].res = 401
  <1>4. hist' = [hist EXCEPT !.erred = erred]
    BY DEF LoadSubEnds
  <1>5. /\ hist' \in History /\ hist'.denied = hist.denied /\ hist'.activated = hist.activated
        /\ (hist.erred \/ calls["load"].res = 401) => hist'.erred
    <2>1. erred \in BOOLEAN /\ hist \in History /\ (hist.erred \/ calls["load"].res = 401 => erred)
      BY DEF SessionInv
    <2> HIDE DEF erred
    <2>2. QED
      BY <1>4, <2>1 DEF History
  <1>6. sub' = IF calls["load"].res = 200 THEN calls["load"].sub ELSE OnLoadError(calls["load"].res)
    BY DEF LoadSubEnds
  <1>7. sub' \in SubStates \cup {"unknown"}
    BY <1>3, <1>6 DEF Call, OnLoadError, SubStates
  <1>8. sub' = "blocked" => \/ calls["load"].res = 200 /\ calls["load"].sub = "blocked"
                           \/ calls["load"].res = 500
                           \/ calls["load"].res = 401
    BY <1>1, <1>3, <1>6 DEF SessionInv, LoadIsTold, OnLoadError, Call, Statuses
  <1>9. TypeOK'
    BY <1>1, <1>2, <1>3, <1>7 DEF SessionInv, TypeOK, Call, IsTutor
  <1>10. GuardIsTutors' /\ LoadIsTold' /\ ProviderIsQuiet'
    BY <1>1, <1>2, <1>3 DEF GuardIsTutors, IsTutor, LoadIsTold, ProviderIsQuiet
  <1>11. NoFalsePaywall'
    BY <1>1, <1>5, <1>8 DEF SessionInv, NoFalsePaywall, LoadIsTold
  <1>12. PaymentIsOpen' /\ PollIsAsked'
    BY <1>1, <1>2, <1>5 DEF SessionInv, PaymentIsOpen, PollIsAsked, Calls
  <1>13. BlockedAnew'
    BY <1>1, <1>2, <1>5, <1>8 DEF SessionInv, BlockedAnew, LoadIsTold
  <1>14. QED
    BY <1>2, <1>5, <1>9, <1>10, <1>11, <1>12, <1>13 DEF SessionInv

LEMMA LoadSubStep == ASSUME SessionInv, LoadSub PROVE SessionInv'
  <1>1. /\ "load" \in Calls /\ 0 \in 0..MaxRetries /\ Request("load", 0)
        /\ calls["load"].at = "idle" /\ IsTutor /\ page # "provider"
    BY SessionAssumption DEF LoadSub, Calls, SessionInv, GuardIsTutors, ProviderIsQuiet
  <1>2. /\ UNCHANGED <<kind, stored, live, failed, page, sub, polling, paid, bought, hist>> /\ due' = FALSE
        /\ "load" # "poll"
    BY DEF LoadSub, server
  <1>3. QED
    BY <1>1, <1>2, RequestStep

\* The effect is cleaned up: its call, and an exchange made for it, go on
\* as the stray one's.
LEMMA AgainStep == ASSUME SessionInv, Again PROVE SessionInv'
  <1> DEFINE Renamed(r) == [r EXCEPT !.for = IF r.for = "load" THEN "stray" ELSE r.for]
  <1>1. /\ IsTutor /\ page # "provider" /\ sub = "unknown" /\ due' = TRUE
        /\ calls["stray"].at = "idle"
        /\ UNCHANGED <<kind, stored, live, refreshing, failed, page, sub, polling, paid, bought, hist>>
    BY DEF Again, Listens, server
  <1>2. calls' = [calls EXCEPT !["stray"] = calls["load"], !["load"] = Idle]
    BY DEF Again
  <1>3. calls \in [Calls -> Call] /\ {"load", "stray", "poll"} \subseteq Calls
    BY DEF SessionInv, TypeOK, Call, Calls
  <1>4. /\ calls' \in [Calls -> Call] /\ calls'["load"].at = "idle" /\ calls'["stray"] = calls["load"]
        /\ \A d \in Calls \ {"load", "stray"} : calls'[d] = calls[d]
    BY <1>2, <1>3, IdleType DEF Idle
  <1>5. refreshes' = {Renamed(r) : r \in refreshes}
    BY DEF Again
  <1>6. \A r \in refreshes :
          /\ r \in [for : Calls, early : BOOLEAN, res : {"asked", "ok", "refused", "busy", "lost"}]
          /\ r.for # "stray"
    BY <1>1 DEF SessionInv, TypeOK, CallsWait
  <1>7. \A r \in refreshes :
          /\ Renamed(r) \in [for : Calls, early : BOOLEAN, res : {"asked", "ok", "refused", "busy", "lost"}]
          /\ Renamed(r).for = IF r.for = "load" THEN "stray" ELSE r.for
    BY <1>3, <1>6
  <1> HIDE DEF Renamed
  <1>8. TypeOK'
    BY <1>1, <1>4, <1>5, <1>7 DEF SessionInv, TypeOK, Call, IsTutor
  <1>9. FlagIsExchange'
    <2>1. CASE refreshing
      <3>1. PICK r \in refreshes : refreshes = {r}
        BY <2>1 DEF SessionInv, FlagIsExchange
      <3>2. refreshes' = {Renamed(r)}
        BY <1>5, <3>1
      <3>3. QED
        BY <2>1, <1>1, <3>2 DEF FlagIsExchange
    <2>2. CASE ~refreshing
      <3>1. refreshes' = {}
        BY <2>2, <1>5 DEF SessionInv, FlagIsExchange
      <3>2. QED
        BY <2>2, <1>1, <3>1 DEF FlagIsExchange
    <2>3. QED
      BY <2>1, <2>2
  <1>10. CallsWait'
    <2>1. \A r \in refreshes : calls'[Renamed(r).for].at \in {"held", "renewing"}
      BY <1>4, <1>6, <1>7 DEF SessionInv, CallsWait
    <2>2. QED
      BY <1>5, <2>1 DEF CallsWait
  <1>11. LoadIsTold' /\ PaymentIsOpen' /\ BlockedAnew' /\ PollIsAsked'
    BY <1>1, <1>3, <1>4 DEF SessionInv, LoadIsTold, PaymentIsOpen, BlockedAnew, PollIsAsked
  <1>12. QED
    BY <1>1, <1>8, <1>9, <1>10, <1>11
       DEF SessionInv, GuardIsTutors, ProviderIsQuiet, NoFalsePaywall, IsTutor

\* The router moves the page and keeps the rest.
LEMMA RouterStep == ASSUME SessionInv, Redirect \/ \E p \in Funnel \cup {"dashboard"} : GoTo(p) PROVE SessionInv'
  <1>1. /\ UNCHANGED <<kind, stored, live, refreshing, failed, refreshes, calls, sub, due, paid, bought, hist>>
        /\ page' \in Pages \ {"provider"}
        /\ polling' \in {"off", "timer", "asked", "timedOut"}
        /\ polling = "asked" => polling' = "asked"
        /\ page # "provider"
    BY DEF Redirect, GoTo, TimerStops, session, server, SessionInv, TypeOK, Pages
  <1>2. TypeOK'
    BY <1>1 DEF SessionInv, TypeOK, IsTutor
  <1>3. QED
    BY <1>1, <1>2
       DEF SessionInv, FlagIsExchange, CallsWait, GuardIsTutors, ProviderIsQuiet,
           LoadIsTold, NoFalsePaywall, PaymentIsOpen, BlockedAnew, PollIsAsked, IsTutor

LEMMA AsksStep ==
  ASSUME SessionInv, NEW c \in {"data", "password"}, Asks(c), page # "provider"
  PROVE  SessionInv'
  <1>1. c \in Calls /\ 0 \in 0..MaxRetries /\ Request(c, 0) /\ calls[c].at = "idle"
        /\ c \notin {"load", "stray"}
    BY SessionAssumption DEF Asks, Calls
  <1>2. /\ UNCHANGED <<kind, stored, live, failed, page, sub, due, polling, paid, bought, hist>>
        /\ due \in BOOLEAN /\ c # "poll"
    BY DEF Asks, guard, server, SessionInv, TypeOK
  <1>3. QED
    BY <1>1, <1>2, RequestStep

LEMMA PollStep == ASSUME SessionInv, Poll PROVE SessionInv'
  <1>1. /\ "poll" \in Calls /\ 0 \in 0..MaxRetries /\ Request("poll", 0) /\ page # "provider"
        /\ "poll" \notin {"load", "stray"}
        /\ UNCHANGED <<kind, stored, live, failed, page, sub, due, paid, bought, hist>>
        /\ polling' = "asked" /\ due \in BOOLEAN /\ calls["poll"].at = "idle"
    BY SessionAssumption
       DEF Poll, Calls, server, SessionInv, TypeOK, PollIsAsked, ProviderIsQuiet
  <1>2. QED
    BY <1>1, RequestStep

\* A poll that finds the subscription active finds the webhook gone, and what
\* the layout knew is gone with the document.
LEMMA PollEndsStep == ASSUME SessionInv, PollEnds PROVE SessionInv'
  <1>1. "poll" \in Calls /\ calls["poll"].at = "back"
    BY DEF PollEnds, Handed, Calls
  <1>2. CASE calls["poll"].res = 200 /\ calls["poll"].sub = "active"
    <2> DEFINE h == [hist EXCEPT !.activated = TRUE]
    <2>1. h \in History /\ h.activated
      BY DEF SessionInv, History
    <2>2. Load("dashboard", h) /\ "dashboard" \in Pages
      BY <1>2 DEF PollEnds, EntersTheApp, Pages
    <2>3. UNCHANGED <<kind, stored, live, paid, bought>>
      BY DEF PollEnds, server
    <2>4. /\ kind' = kind /\ stored' \in Tokens /\ live' \in BOOLEAN
          /\ paid' \in SubStates /\ bought' \in BOOLEAN /\ ~bought'
      BY <1>1, <1>2, <2>3 DEF SessionInv, TypeOK, PaymentIsOpen
    <2> HIDE DEF h
    <2>5. QED
      BY <2>1, <2>2, <2>4, LoadStep
  <1>3. CASE ~(calls["poll"].res = 200 /\ calls["poll"].sub = "active")
    <2>1. /\ calls' = [calls EXCEPT !["poll"] = Idle]
          /\ UNCHANGED <<kind, stored, live, refreshing, failed, refreshes, sub, paid, bought, hist, page, due>>
          /\ polling' \in {"off", "timer", "asked", "timedOut"}
      BY <1>3 DEF PollEnds, server
    <2>2. page \in Pages /\ page # "provider" /\ due \in BOOLEAN /\ (due => IsTutor)
      BY <1>1 DEF SessionInv, TypeOK, ProviderIsQuiet, GuardIsTutors
    <2>3. QED
      BY <1>1, <2>1, <2>2, LookedAt
  <1>4. QED
    BY <1>2, <1>3

\* To the provider's page, and back.
LEMMA PaymentStep == ASSUME SessionInv, Pay \/ Return PROVE SessionInv'
  <1>1. CASE Pay
    <2> DEFINE h == [hist EXCEPT !.activated = FALSE]
    <2>1. h \in History /\ ~h.activated
      BY DEF SessionInv, History
    <2>2. Load("provider", h) /\ "provider" \in Pages
      BY <1>1 DEF Pay, Pages
    <2>3. /\ kind' = kind /\ stored' \in Tokens /\ live' \in BOOLEAN
          /\ paid' \in SubStates /\ bought' \in BOOLEAN /\ ~bought' /\ paid' # "active"
      BY <1>1 DEF Pay, server, SessionInv, TypeOK
    <2> HIDE DEF h
    <2>4. QED
      BY <2>1, <2>2, <2>3, LoadStep
  <1>2. CASE Return
    <2>1. paid # "active" /\ ~bought /\ ~hist.activated
      BY <1>2 DEF Return, SessionInv, ProviderIsQuiet
    <2>2. /\ kind' = kind /\ stored' \in Tokens /\ live' \in BOOLEAN
          /\ paid' \in SubStates /\ bought' \in BOOLEAN /\ paid' # "active" /\ hist \in History
      BY <1>2, <2>1 DEF Return, SessionInv, TypeOK
    <2>3. PICK p \in {"success", "subscription"} : Load(p, hist)
      BY <1>2 DEF Return
    <2>4. p \in Pages /\ p # "provider"
      BY DEF Pages
    <2>5. QED
      BY <2>1, <2>2, <2>3, <2>4, LoadStep
  <1>3. QED
    BY <1>1, <1>2

\* What happens at the server: a webhook comes only for a checkout that is open.
LEMMA ServerStep == ASSUME SessionInv, SessionEnds \/ SubscriptionLapses \/ Webhook PROVE SessionInv'
  <1>1. /\ UNCHANGED <<kind, stored, refreshing, failed, refreshes, calls, page, sub, due, polling, hist>>
        /\ live' \in BOOLEAN /\ paid' \in SubStates /\ bought' \in BOOLEAN
        /\ \/ paid' = paid /\ bought' = bought
           \/ paid' = "blocked" /\ bought' = bought
           \/ paid' = "active" /\ bought /\ ~bought'
    BY DEF SessionEnds, SubscriptionLapses, Webhook, session, guard, server, SessionInv, TypeOK, SubStates
  <1>2. TypeOK'
    BY <1>1 DEF SessionInv, TypeOK, IsTutor
  <1>3. ProviderIsQuiet' /\ PaymentIsOpen'
    BY <1>1 DEF SessionInv, ProviderIsQuiet, PaymentIsOpen
  <1>4. BlockedAnew'
    BY <1>1 DEF SessionInv, BlockedAnew, PaymentIsOpen
  <1>5. QED
    BY <1>1, <1>2, <1>3, <1>4
       DEF SessionInv, FlagIsExchange, CallsWait, GuardIsTutors, LoadIsTold, NoFalsePaywall,
           PollIsAsked, IsTutor

LEMMA LogOutStep == ASSUME SessionInv, LogOut PROVE SessionInv'
  <1>1. /\ UNCHANGED <<kind, refreshing, failed, refreshes, calls, paid, bought>>
        /\ live' = FALSE /\ stored' = "none" /\ page' = "login" /\ page # "provider"
        /\ sub' = "unknown" /\ due' = FALSE
        /\ TimerStops
        /\ hist' = [hist EXCEPT !.out = "person"]
    BY DEF LogOut, server, LogInPage
  <1>2. /\ hist' \in History /\ hist'.denied = hist.denied
        /\ hist'.erred = hist.erred /\ hist'.activated = hist.activated
    BY <1>1 DEF SessionInv, History
  <1>3. /\ polling' \in {"off", "timer", "asked", "timedOut"}
        /\ polling = "asked" => polling' = "asked"
    BY <1>1 DEF TimerStops, SessionInv, TypeOK
  <1>4. TypeOK'
    BY <1>1, <1>3 DEF SessionInv, TypeOK, IsTutor, Tokens, Pages
  <1>5. QED
    BY <1>1, <1>2, <1>3, <1>4
       DEF SessionInv, FlagIsExchange, CallsWait, GuardIsTutors, ProviderIsQuiet,
           LoadIsTold, NoFalsePaywall, PaymentIsOpen, BlockedAnew, PollIsAsked, IsTutor

LEMMA EntersStep == ASSUME SessionInv, Enters PROVE SessionInv'
  <1> DEFINE y == [Idle EXCEPT !.at = "sent", !.tok = "fresh"]
             refused == \E r \in refreshes : r.res = "refused"
  <1>1. y \in Call /\ y.at = "sent"
    BY IdleType DEF Call, Idle, Tokens
  <1>2. /\ UNCHANGED <<kind, refreshing, failed, refreshes, page, sub, due, polling, paid, bought>>
        /\ live' = TRUE /\ stored' = "fresh" /\ page = "login" /\ calls["data"].at = "idle"
        /\ calls' = [calls EXCEPT !["data"] = y]
        /\ hist' = [hist EXCEPT !.out = "no", !.activated = FALSE, !.refused = refused]
    BY DEF Enters, guard, server, LogInPage
  <1> HIDE DEF y, refused
  <1>3. /\ calls' \in [Calls -> Call] /\ "data" \in Calls
        /\ \A d \in Calls \ {"data"} : calls'[d] = calls[d]
    BY <1>1, <1>2 DEF SessionInv, TypeOK, Call, Calls
  <1>4. /\ hist' \in History /\ hist'.denied = hist.denied
        /\ hist'.erred = hist.erred /\ ~hist'.activated
    <2>1. refused \in BOOLEAN /\ hist \in History
      BY DEF refused, SessionInv
    <2>2. QED
      BY <1>2, <2>1 DEF History
  <1>5. TypeOK'
    BY <1>2, <1>3 DEF SessionInv, TypeOK, IsTutor, Tokens, Call
  <1>6. \A r \in refreshes : r.for \in Calls /\ r.for # "data"
    BY <1>2 DEF SessionInv, CallsWait, TypeOK
  <1>7. FlagIsExchange' /\ CallsWait'
    BY <1>2, <1>3, <1>6 DEF SessionInv, FlagIsExchange, CallsWait
  <1>8. {"load", "stray", "poll"} \subseteq Calls \ {"data"}
    BY DEF Calls
  <1>9. QED
    BY <1>2, <1>3, <1>4, <1>5, <1>7, <1>8
       DEF SessionInv, GuardIsTutors, ProviderIsQuiet,
           LoadIsTold, NoFalsePaywall, PaymentIsOpen, BlockedAnew, PollIsAsked, IsTutor

LEMMA SessionInit == ASSUME Init PROVE SessionInv
  <1>1. calls \in [Calls -> Call] /\ \A c \in Calls : calls[c].at = "idle"
    BY IdleType DEF Init, Idle
  <1>2. {"load", "stray", "poll"} \subseteq Calls
    BY DEF Calls
  <1>3. hist \in History /\ ~hist.activated
    BY DEF Init, History
  <1>4. TypeOK
    BY <1>1 DEF Init, TypeOK, Call, IsTutor, Tokens, Pages, SubStates
  <1>5. QED
    BY <1>1, <1>2, <1>3, <1>4
       DEF Init, SessionInv, FlagIsExchange, CallsWait, GuardIsTutors, ProviderIsQuiet,
           LoadIsTold, NoFalsePaywall, PaymentIsOpen, BlockedAnew, PollIsAsked, IsTutor

LEMMA SessionStep == ASSUME SessionInv, [Next]_vars PROVE SessionInv'
  <1>1. ASSUME NEW r \in refreshes, ServeRefresh(r) \/ EarlyRefreshEnds(r) \/ LateRefreshEnds(r)
        PROVE  SessionInv'
    BY <1>1, ServeRefreshStep, EarlyStep, LateStep
  <1>2. ASSUME NEW c \in Calls, On401(c) \/ On402(c) \/ Serve(c) \/ TryAgain(c) \/ DataEnds(c)
        PROVE  SessionInv'
    BY <1>2, On401Step, On402Step, ServeStep, TryAgainStep, DataEndsStep
  <1>3. CASE SessionEnds \/ SubscriptionLapses \/ Webhook
    BY <1>3, ServerStep
  <1>4. CASE LoadSub \/ Again \/ LoadSubEnds \/ StrayEnds
    BY <1>4, LoadSubStep, AgainStep, LoadSubEndsStep, StrayEndsStep
  <1>5. CASE Redirect \/ \E p \in Funnel \cup {"dashboard"} : GoTo(p)
    BY <1>5, RouterStep
  <1>6. CASE AskData \/ AskPassword \/ AskStudentPassword
    <2>1. PICK c \in {"data", "password"} : Asks(c)
      BY <1>6 DEF AskData, AskPassword, AskStudentPassword
    <2>2. page # "provider"
      BY <1>6 DEF AskData, AskPassword, AskStudentPassword
    <2>3. QED
      BY <2>1, <2>2, AsksStep
  <1>7. CASE Pay \/ Return \/ Poll \/ PollEnds
    BY <1>7, PaymentStep, PollStep, PollEndsStep
  <1>8. CASE LogOut \/ LogIn \/ Register \/ StudentLogIn \/ AcceptInvite \/ ProfileEnds
    BY <1>8, LogOutStep, EntersStep, ProfileEndsStep DEF LogIn, Register, StudentLogIn, AcceptInvite
  <1>9. CASE UNCHANGED vars
    <2>1. UNCHANGED <<kind, stored, live, refreshing, failed, refreshes, calls, page, sub, due, polling, paid, bought, hist>>
      BY <1>9 DEF vars, session, guard, server
    <2>2. TypeOK'
      BY <2>1 DEF SessionInv, TypeOK, IsTutor
    <2>3. QED
      BY <2>1, <2>2
         DEF SessionInv, FlagIsExchange, CallsWait, GuardIsTutors, ProviderIsQuiet,
             LoadIsTold, NoFalsePaywall, PaymentIsOpen, BlockedAnew, PollIsAsked, IsTutor
  <1>10. QED
    BY <1>1, <1>2, <1>3, <1>4, <1>5, <1>6, <1>7, <1>8, <1>9 DEF Next

\* The invariant from which the three properties follow.
LEMMA SessionInvariant == Spec => []SessionInv
  <1>1. Init => SessionInv
    BY SessionInit
  <1>2. SessionInv /\ [Next]_vars => SessionInv'
    BY SessionStep
  <1>3. QED
    BY <1>1, <1>2, PTL DEF Spec
-----------------------------------------------------------------------------
\* Over the two interceptors and every way a call can end, at most one
\* exchange of the token is under way, and the flag says so
\* (lib/api/client.ts:21-27); the types go along.
THEOREM SessionOneRefresh == Spec => []OneRefresh
  <1>1. SessionInv => OneRefresh
    <2>1. SUFFICES ASSUME SessionInv PROVE OneRefresh
      OBVIOUS
    <2>2. CASE refreshing
      <3>1. PICK r \in refreshes : refreshes = {r}
        BY <2>1, <2>2 DEF SessionInv, FlagIsExchange
      <3>2. Cardinality({r}) = 1
        BY FS_Singleton
      <3>3. QED
        BY <2>1, <2>2, <3>1, <3>2 DEF SessionInv, OneRefresh
    <2>3. CASE ~refreshing
      <3>1. refreshes = {}
        BY <2>1, <2>3 DEF SessionInv, FlagIsExchange
      <3>2. Cardinality({}) = 0
        BY FS_EmptySet
      <3>3. QED
        BY <2>1, <2>3, <3>1, <3>2 DEF SessionInv, OneRefresh
    <2>4. QED
      BY <2>2, <2>3
  <1>2. QED
    BY <1>1, SessionInvariant, PTL

\* The layout shows the paywall only after the server has said so or has
\* answered with an error: never because the line was lost
\* (lib/subscriptionGuard.ts:19-22).
THEOREM SessionNoFalsePaywall == Spec => []NoFalsePaywall
  <1>1. SessionInv => NoFalsePaywall
    BY DEF SessionInv
  <1>2. QED
    BY <1>1, SessionInvariant, PTL

\* After an activation, as long as the subscription is active, the layout lets
\* its page be seen (subscription/success/page.tsx:36-38).
THEOREM SessionPaidIsLetIn == Spec => []PaidIsLetIn
  <1>1. SessionInv => PaidIsLetIn
    BY DEF SessionInv, PaidIsLetIn, Barred, BlockedAnew
  <1>2. QED
    BY <1>1, SessionInvariant, PTL
-----------------------------------------------------------------------------
(* Why a person is logged out.                                             *)
(*                                                                         *)
(* The tutor's side needs only that the history knows the outcome of each  *)
(* exchange.  The student's client takes the limiter's 429 for a refusal   *)
(* too, so that there the exchanges have to be counted: as long as nothing *)
(* fails, a session makes two at most, the early one and one for the call  *)
(* that had left with the old token.                                       *)

Counts == [asks : Nat, faults : Nat, refreshes : Nat, polls : Nat, lapses : Nat]
Old == {"dead", "ageing"}

\* The limiters of /auth and of /student/auth let 15 calls through at once
\* (router/router.go:151, 174).
LimiterLetsTwoPass == MaxRefreshes >= 2

GuestHasNone ==
  kind = "guest" => stored = "none" /\ refreshes = {} /\ page = "lesson" /\ hist.out # "forced"

\* Where a student and a guest can be, and that nobody asks them to pay.
OthersPlace ==
  ~IsTutor =>
    /\ page # "subscription" /\ polling = "off"
    /\ \A c \in Calls : calls[c].at = "back" => calls[c].res # 402
    /\ kind = "student" => page \in {"cabinet", "login"} /\ (stored = "none" => page = "login")

\* The history knows how an exchange ended before its caller does.
ReasonKnown ==
  \A r \in refreshes :
    /\ r.res = "refused" => hist.refused
    /\ r.res = "lost" => hist.unlucky
    /\ r.res = "busy" => hist.unlucky \/ (IsTutor /\ count.refreshes = MaxRefreshes)

\* Only a token that is not accepted makes a call for data come back with 401.
DataIsTold ==
  calls["data"].at = "back" /\ calls["data"].res = 401 => calls["data"].tok # "fresh"

\* A call for data that may still come back with 401.
DataIsOld == calls["data"].at \in {"sent", "back"} /\ calls["data"].tok # "fresh"

AskedNow == \E r \in refreshes : r.res = "asked"

\* A student's exchanges while nothing has failed: before the token is new
\* there is the early one, after that one more if a call is left over.
TwoExchanges ==
  kind = "student" /\ ~hist.unlucky =>
    /\ \A r \in refreshes : r.res \in {"asked", "ok", "refused"}
    /\ stored \in Old =>
         /\ ~failed /\ count.refreshes <= 1 /\ (AskedNow => count.refreshes = 0)
         /\ \A r \in refreshes : r.early
         /\ ~refreshing => count.refreshes = 0 /\ calls["data"].at = "idle"
    /\ stored \notin Old =>
         /\ count.refreshes <= 2
         /\ AskedNow \/ DataIsOld => count.refreshes <= 1
         /\ AskedNow /\ DataIsOld => count.refreshes = 0

DeservedInv ==
  /\ count \in Counts /\ count.refreshes <= MaxRefreshes
  /\ GuestHasNone /\ OthersPlace /\ ReasonKnown /\ DataIsTold /\ TwoExchanges
  /\ LogoutIsDeserved

SameLuck == hist'.refused = hist.refused /\ hist'.unlucky = hist.unlucky /\ hist'.out = hist.out
SameCount ==
  count' \in Counts /\ count'.refreshes = count.refreshes /\ count'.faults = count.faults

\* The steps that concern the exchanges only through the call they send, by
\* the document they drop, or not at all.
Sends(c, n) ==
  /\ Request(c, n) /\ UNCHANGED <<kind, stored, failed, page>> /\ SameLuck /\ SameCount
  /\ ~IsTutor => c \in {"data", "password"} /\ page # "login" /\ UNCHANGED polling
Leads ==
  /\ IsTutor /\ UNCHANGED kind /\ SameLuck /\ SameCount
  /\ refreshes' = {} /\ calls' = [c \in Calls |-> Idle]
Quiet ==
  /\ UNCHANGED <<kind, stored, refreshing, failed>> /\ SameLuck /\ SameCount
  /\ \A x \in refreshes' : \E r \in refreshes : x.res = r.res
  /\ calls'["data"] = calls["data"] \/ calls'["data"].at = "idle"
  /\ ~IsTutor =>
       /\ UNCHANGED <<refreshes, polling>>
       /\ \A c \in Calls : calls'[c] = calls[c] \/ calls'[c].at = "idle"
       /\ page' = page \/ (kind = "student" /\ page' = "cabinet" /\ stored # "none")

LEMMA StepKinds ==
  ASSUME SessionInv, DeservedInv, [Next]_vars
  PROVE  \/ \E r \in refreshes : ServeRefresh(r) \/ EarlyRefreshEnds(r) \/ LateRefreshEnds(r)
         \/ \E c \in Calls : On401(c) \/ Serve(c)
         \/ \E c \in Calls, n \in Nat : Sends(c, n)
         \/ Leads \/ LogOut \/ (kind # "guest" /\ Enters) \/ Quiet
  <1> DEFINE Goal == \/ \E c \in Calls, n \in Nat : Sends(c, n)
                     \/ Leads \/ Quiet
  <1>1. hist \in History /\ count \in Counts /\ calls \in [Calls -> Call]
    BY DEF SessionInv, TypeOK, Call, DeservedInv
  <1>2. UNCHANGED hist => SameLuck
    BY DEF SameLuck
  <1>3. UNCHANGED count => SameCount
    BY <1>1 DEF SameCount
  <1>4. Counted => SameCount
    BY <1>1 DEF Counted, SameCount, Counts
  <1>5. Idle.at = "idle"
    BY DEF Idle
  <1>6. ASSUME NEW p, NEW h \in History, Load(p, h), IsTutor, UNCHANGED kind,
               h.refused = hist.refused, h.unlucky = hist.unlucky, h.out = hist.out
        PROVE  Leads
    <2>1. SameLuck
      BY <1>6 DEF Load, History, SameLuck
    <2>2. SameCount
      BY <1>1, <1>6 DEF Load, Counts, SameCount
    <2>3. QED
      BY <1>6, <2>1, <2>2 DEF Leads, Load
  <1>7. ASSUME NEW c \in Calls, On402(c) PROVE Leads
    <2>1. IsTutor /\ UNCHANGED kind
      BY <1>7 DEF On402, Reaches, DeservedInv, OthersPlace
    <2>2. QED
      BY <1>1, <1>6, <1>7, <2>1 DEF On402
  <1>8. ASSUME NEW c \in Calls, TryAgain(c) PROVE Goal
    <2>1. IsTutor
      BY <1>8 DEF TryAgain, Handed, SessionInv, GuardIsTutors
    <2>2. calls[c].tries + 1 \in Nat
      BY <1>1, SessionAssumption DEF Call
    <2>3. Sends(c, calls[c].tries + 1)
      BY <1>2, <1>3, <1>8, <2>1 DEF TryAgain, Sends, guard
    <2>4. QED
      BY <2>2, <2>3
  <1>9. ASSUME NEW c \in Calls, DataEnds(c) PROVE Quiet
    BY <1>1, <1>2, <1>3, <1>5, <1>9 DEF DataEnds, Quiet, guard
  <1>10. CASE SessionEnds \/ SubscriptionLapses \/ Webhook
    <2>1. SameCount
      BY <1>1, <1>10 DEF SessionEnds, SubscriptionLapses, Webhook, SameCount, Counts
    <2>2. QED
      BY <1>2, <1>10, <2>1 DEF SessionEnds, SubscriptionLapses, Webhook, session, guard, Quiet
  <1>11. ASSUME LoadSub PROVE Goal
    <2>1. IsTutor
      BY <1>11 DEF LoadSub, SessionInv, GuardIsTutors
    <2>2. Sends("load", 0) /\ "load" \in Calls /\ 0 \in Nat
      BY <1>2, <1>3, <1>11, <2>1 DEF LoadSub, Sends, Calls
    <2>3. QED
      BY <2>2
  <1>12. ASSUME Again PROVE Quiet
    <2>1. SameCount
      BY <1>1, <1>12 DEF Again, SameCount, Counts
    <2>2. calls'["data"] = calls["data"]
      BY <1>1, <1>12 DEF Again, Calls
    <2>3. \A x \in refreshes' : \E r \in refreshes : x.res = r.res
      <3>1. \A r \in refreshes :
              r \in [for : Calls, early : BOOLEAN, res : {"asked", "ok", "refused", "busy", "lost"}]
        BY DEF SessionInv, TypeOK
      <3>2. \A x \in refreshes' : \E r \in refreshes :
              x = [r EXCEPT !.for = IF r.for = "load" THEN "stray" ELSE r.for]
        BY <1>12 DEF Again
      <3>3. QED
        BY <3>1, <3>2
    <2>4. QED
      BY <1>2, <1>12, <2>1, <2>2, <2>3 DEF Again, Listens, Quiet
  <1>13. ASSUME LoadSubEnds PROVE Quiet
    <2>1. SameLuck
      BY <1>1, <1>13 DEF LoadSubEnds, SameLuck, History
    <2>2. QED
      BY <1>1, <1>3, <1>5, <1>13, <2>1 DEF LoadSubEnds, Settles, Quiet, Calls
  <1>14. ASSUME StrayEnds PROVE Quiet
    BY <1>1, <1>2, <1>3, <1>5, <1>14 DEF StrayEnds, Settles, Quiet, Calls, guard
  <1>15. ASSUME Redirect \/ \E p \in Funnel \cup {"dashboard"} : GoTo(p) PROVE Quiet
    BY <1>2, <1>3, <1>4, <1>15 DEF Redirect, GoTo, session, Quiet
  <1>16. ASSUME AskData \/ AskPassword \/ AskStudentPassword PROVE Goal
    <2>1. PICK c \in {"data", "password"} : Asks(c) /\ page # "login"
      BY <1>16 DEF AskData, AskPassword, AskStudentPassword
    <2>2. Sends(c, 0) /\ c \in Calls /\ 0 \in Nat
      BY <1>2, <1>4, <2>1 DEF Asks, Sends, guard, Calls
    <2>3. QED
      BY <2>2
  <1>17. ASSUME Pay PROVE Leads
    <2>1. IsTutor
      BY <1>17 DEF Pay, DeservedInv, OthersPlace
    <2>2. PICK h \in History : h = [hist EXCEPT !.activated = FALSE]
      BY <1>1 DEF History
    <2>3. h.refused = hist.refused /\ h.unlucky = hist.unlucky /\ h.out = hist.out
      BY <1>1, <2>2 DEF History
    <2>4. Load("provider", h) /\ UNCHANGED kind
      BY <1>17, <2>2 DEF Pay
    <2>5. QED
      BY <1>6, <2>1, <2>3, <2>4
  <1>18. ASSUME Return PROVE Leads
    <2>1. IsTutor
      BY <1>18 DEF Return, DeservedInv, OthersPlace, GuestHasNone, SessionInv, TypeOK, IsTutor
    <2>2. (Load("success", hist) \/ Load("subscription", hist)) /\ UNCHANGED kind
      BY <1>18 DEF Return
    <2>3. QED
      BY <1>1, <1>6, <2>1, <2>2
  <1>19. ASSUME Poll PROVE Goal
    <2>1. IsTutor
      BY <1>19 DEF Poll, DeservedInv, OthersPlace
    <2>2. SameCount
      BY <1>1, <1>19 DEF Poll, SameCount, Counts
    <2>3. Sends("poll", 0) /\ "poll" \in Calls /\ 0 \in Nat
      BY <1>2, <1>19, <2>1, <2>2 DEF Poll, Sends, Calls
    <2>4. QED
      BY <2>3
  <1>20. ASSUME PollEnds PROVE Goal
    <2>1. IsTutor /\ UNCHANGED kind
      BY <1>20 DEF PollEnds, DeservedInv, OthersPlace
    <2>2. CASE EntersTheApp
      <3>1. PICK h \in History : h = [hist EXCEPT !.activated = TRUE]
        BY <1>1 DEF History
      <3>2. h.refused = hist.refused /\ h.unlucky = hist.unlucky /\ h.out = hist.out
        BY <1>1, <3>1 DEF History
      <3>3. Load("dashboard", h)
        BY <2>2, <3>1 DEF EntersTheApp
      <3>4. QED
        BY <1>6, <2>1, <3>2, <3>3
    <2>3. CASE ~EntersTheApp
      <3>1. calls' = [calls EXCEPT !["poll"] = Idle]
            /\ UNCHANGED <<kind, stored, refreshing, failed, refreshes, count, hist>>
        BY <1>20, <2>3 DEF PollEnds
      <3>2. calls'["data"] = calls["data"]
        BY <1>1, <3>1 DEF Calls
      <3>3. QED
        BY <1>2, <1>3, <2>1, <3>1, <3>2 DEF Quiet
    <2>4. QED
      BY <2>2, <2>3
  <1>21. ASSUME LogIn \/ Register \/ StudentLogIn \/ AcceptInvite PROVE kind # "guest" /\ Enters
    BY <1>21 DEF LogIn, Register, StudentLogIn, AcceptInvite, IsTutor
  <1>22. ASSUME ProfileEnds PROVE Quiet
    <2>1. /\ calls' = [calls EXCEPT !["data"] = Idle] /\ "data" \in Calls
          /\ page' = page \/ (stored # "none" /\ page' = IF IsTutor THEN "dashboard" ELSE "cabinet")
          /\ UNCHANGED <<kind, stored, refreshing, failed, refreshes, polling, count, hist>>
      BY <1>22 DEF ProfileEnds, Calls
    <2>2. page # "lesson"
      BY <1>22 DEF ProfileEnds, LogInPage
    <2>3. kind # "guest"
      BY <2>2 DEF DeservedInv, GuestHasNone
    <2>4. QED
      BY <1>1, <1>2, <1>3, <1>5, <2>1, <2>3 DEF Quiet, IsTutor, SessionInv, TypeOK
  <1>23. CASE UNCHANGED vars
    BY <1>2, <1>3, <1>23 DEF vars, session, guard, Quiet
  <1>24. QED
    BY <1>7, <1>8, <1>9, <1>10, <1>11, <1>12, <1>13, <1>14, <1>15, <1>16, <1>17, <1>18, <1>19,
       <1>20, <1>21, <1>22, <1>23 DEF Next

LEMMA QuietDeserved == ASSUME SessionInv, DeservedInv, Quiet PROVE DeservedInv'
  <1>1. GuestHasNone' /\ OthersPlace'
    BY DEF DeservedInv, GuestHasNone, OthersPlace, Quiet, SameLuck, IsTutor
  <1>2. ReasonKnown' /\ LogoutIsDeserved'
    BY DEF DeservedInv, ReasonKnown, LogoutIsDeserved, Quiet, SameLuck, SameCount, IsTutor
  <1>3. DataIsTold'
    BY DEF DeservedInv, DataIsTold, Quiet
  <1>4. TwoExchanges'
    BY DEF DeservedInv, TwoExchanges, AskedNow, DataIsOld, Quiet, SameLuck, SameCount, IsTutor
  <1>5. QED
    BY <1>1, <1>2, <1>3, <1>4 DEF DeservedInv, Quiet, SameCount

LEMMA LeadsDeserved == ASSUME SessionInv, DeservedInv, Leads PROVE DeservedInv'
  <1>1. calls'["data"].at = "idle"
    BY DEF Leads, Idle, Calls
  <1>2. GuestHasNone' /\ OthersPlace' /\ ReasonKnown' /\ LogoutIsDeserved' /\ TwoExchanges'
    BY DEF DeservedInv, GuestHasNone, OthersPlace, ReasonKnown, LogoutIsDeserved, TwoExchanges,
           Leads, SameLuck, SameCount, IsTutor
  <1>3. QED
    BY <1>1, <1>2 DEF DeservedInv, DataIsTold, Leads, SameCount

\* A call leaves: a student's with the token of the session, which is there.
LEMMA SendsDeserved ==
  ASSUME SessionInv, DeservedInv, NEW c \in Calls, NEW n \in Nat, Sends(c, n)
  PROVE  DeservedInv'
  <1> DEFINE x == [for |-> c, early |-> TRUE, res |-> "asked"]
  <1>1. calls \in [Calls -> Call] /\ "data" \in Calls
    BY DEF SessionInv, TypeOK, Call, Calls
  <1>2. /\ \A d \in Calls \ {c} : calls'[d] = calls[d]
        /\ calls'[c].at \in {"sent", "held"} /\ calls'[c].tok = stored
        /\ \/ /\ stored \in Old /\ ~refreshing /\ ~failed /\ refreshing' = TRUE
              /\ refreshes' = refreshes \cup {x} /\ calls'[c].at = "held"
           \/ /\ ~(stored \in Old /\ ~refreshing /\ ~failed)
              /\ UNCHANGED <<refreshing, refreshes>>
    <2>1. CASE Exchanges
      BY <1>1, <2>1 DEF Sends, Request, Leaves, Exchanges, Idle, Old
    <2>2. CASE ~Exchanges
      BY <1>1, <2>2 DEF Sends, Request, Leaves, Exchanges, Idle, Old
    <2>3. QED
      BY <2>1, <2>2
  <1>3. x.res = "asked" /\ x.early
    OBVIOUS
  <1>4. UNCHANGED <<kind, stored, failed, page>> /\ SameLuck /\ SameCount
    BY DEF Sends
  <1> HIDE DEF x
  <1>5. GuestHasNone'
    BY <1>2, <1>4 DEF DeservedInv, GuestHasNone, SameLuck, Old
  <1>6. OthersPlace'
    BY <1>2, <1>4 DEF DeservedInv, OthersPlace, Sends, IsTutor
  <1>7. ReasonKnown' /\ LogoutIsDeserved'
    BY <1>2, <1>3, <1>4 DEF DeservedInv, ReasonKnown, LogoutIsDeserved, SameLuck, SameCount, IsTutor
  <1>8. DataIsTold'
    BY <1>1, <1>2 DEF DeservedInv, DataIsTold
  <1>9. TwoExchanges'
    <2> SUFFICES ASSUME kind = "student", ~hist.unlucky PROVE TwoExchanges'
      BY <1>4 DEF TwoExchanges, SameLuck
    <2>1. CASE stored \in Old
      BY <1>2, <1>3, <1>4, <2>1
         DEF SessionInv, FlagIsExchange, DeservedInv, TwoExchanges, AskedNow, SameLuck, SameCount
    <2>2. CASE stored \notin Old
      <3>1. stored = "fresh"
        BY <2>2 DEF Sends, DeservedInv, OthersPlace, IsTutor, SessionInv, TypeOK, Tokens, Old
      <3>2. UNCHANGED refreshes /\ (DataIsOld' => DataIsOld)
        BY <1>1, <1>2, <2>2, <3>1 DEF DataIsOld
      <3>3. QED
        BY <1>4, <2>2, <3>2 DEF DeservedInv, TwoExchanges, AskedNow, SameLuck, SameCount
    <2>3. QED
      BY <2>1, <2>2
  <1>10. QED
    BY <1>4, <1>5, <1>6, <1>7, <1>8, <1>9 DEF DeservedInv, SameCount

LEMMA LogOutDeserved == ASSUME SessionInv, DeservedInv, LogOut PROVE DeservedInv'
  <1>1. /\ UNCHANGED <<kind, refreshing, failed, refreshes, calls, count>>
        /\ stored' = "none" /\ page' = "login" /\ page # "lesson"
        /\ TimerStops
        /\ hist' = [hist EXCEPT !.out = "person"]
    BY DEF LogOut, LogInPage
  <1>2. hist'.refused = hist.refused /\ hist'.unlucky = hist.unlucky /\ hist'.out = "person"
    BY <1>1 DEF SessionInv, History
  <1>3. GuestHasNone' /\ OthersPlace' /\ ReasonKnown' /\ DataIsTold' /\ LogoutIsDeserved'
    BY <1>1, <1>2 DEF DeservedInv, GuestHasNone, OthersPlace, ReasonKnown, DataIsTold,
                      LogoutIsDeserved, IsTutor, TimerStops
  <1>4. TwoExchanges'
    BY <1>1, <1>2
       DEF SessionInv, FlagIsExchange, DeservedInv, TwoExchanges, AskedNow, DataIsOld, Old, Counts
  <1>5. QED
    BY <1>1, <1>3, <1>4 DEF DeservedInv

\* A new session: an exchange of the last one may still be under way.
LEMMA EntersDeserved ==
  ASSUME SessionInv, DeservedInv, kind # "guest", Enters
  PROVE  DeservedInv'
  <1> DEFINE y == [Idle EXCEPT !.at = "sent", !.tok = "fresh"]
             refused == \E r \in refreshes : r.res = "refused"
  <1>1. y.at = "sent" /\ y.tok = "fresh"
    BY DEF Idle
  <1>2. /\ UNCHANGED <<kind, refreshing, failed, refreshes, page, polling>>
        /\ stored' = "fresh" /\ calls' = [calls EXCEPT !["data"] = y]
        /\ hist' = [hist EXCEPT !.out = "no", !.activated = FALSE, !.refused = refused]
    BY DEF Enters, guard
  <1>3. refused \in BOOLEAN
    OBVIOUS
  <1> HIDE DEF y, refused
  <1>4. calls'["data"] = y /\ \A c \in Calls \ {"data"} : calls'[c] = calls[c]
    BY <1>2 DEF SessionInv, TypeOK, Calls
  <1>5. hist'.out = "no" /\ hist'.unlucky = hist.unlucky /\ (refused => hist'.refused)
    BY <1>2, <1>3 DEF SessionInv, History
  <1>6. SameCount
    BY DEF Enters, Counted, DeservedInv, Counts, SameCount
  <1>7. GuestHasNone' /\ OthersPlace' /\ DataIsTold' /\ LogoutIsDeserved'
    BY <1>1, <1>2, <1>4, <1>5
       DEF DeservedInv, GuestHasNone, OthersPlace, DataIsTold, LogoutIsDeserved, IsTutor
  <1>8. ReasonKnown'
    BY <1>2, <1>5, <1>6 DEF DeservedInv, ReasonKnown, SameCount, refused, IsTutor
  <1>9. TwoExchanges'
    BY <1>1, <1>2, <1>4, <1>5, <1>6
       DEF SessionInv, FlagIsExchange, DeservedInv, TwoExchanges, AskedNow, DataIsOld, Old, Counts, SameCount
  <1>10. QED
    BY <1>6, <1>7, <1>8, <1>9 DEF DeservedInv, SameCount

\* An answer: a paywall only for the tutor, a 401 on data only for its token.
LEMMA ServeDeserved == ASSUME SessionInv, DeservedInv, NEW c \in Calls, Serve(c) PROVE DeservedInv'
  <1>1. PICK s \in {Answer(c), 0, 500} :
          /\ s \in {0, 500} => count.faults < MaxFaults
          /\ calls' = [calls EXCEPT ![c] = [@ EXCEPT !.at = "back", !.res = s,
               !.sub = IF s = 200 /\ c \in {"load", "stray", "poll"} THEN paid ELSE "unknown"]]
          /\ count' = [count EXCEPT !.faults = IF s \in {0, 500} THEN @ + 1 ELSE @]
          /\ hist' = [hist EXCEPT !.unlucky = @ \/ s \in {0, 500},
               !.denied = @ \/ (c = "load" /\ s = 200 /\ paid = "blocked"),
               !.erred = @ \/ (c = "load" /\ s = 500)]
    BY Zenon DEF Serve
  <1> DEFINE told == IF s = 200 /\ c \in {"load", "stray", "poll"} THEN paid ELSE "unknown"
             y == [calls[c] EXCEPT !.at = "back", !.res = s, !.sub = told]
             unlucky == hist.unlucky \/ s \in {0, 500}
             denied == hist.denied \/ (c = "load" /\ s = 200 /\ paid = "blocked")
             erred == hist.erred \/ (c = "load" /\ s = 500)
  <1>2. hist' = [hist EXCEPT !.unlucky = unlucky, !.denied = denied, !.erred = erred]
    BY <1>1
  <1>3. unlucky \in BOOLEAN /\ denied \in BOOLEAN /\ erred \in BOOLEAN /\ (hist.unlucky => unlucky)
    OBVIOUS
  <1>4. calls' = [calls EXCEPT ![c] = y]
    BY <1>1
  <1>5. /\ s = 402 => IsTutor
        /\ c = "data" /\ s = 401 => ~Accepts(calls[c].tok)
    BY DEF Answer
  <1> HIDE DEF unlucky, denied, erred, told
  <1>6. hist'.out = hist.out /\ hist'.refused = hist.refused /\ (hist.unlucky => hist'.unlucky)
    BY <1>2, <1>3 DEF SessionInv, History
  <1>7. y.at = "back" /\ y.res = s /\ y.tok = calls[c].tok
    BY DEF SessionInv, TypeOK
  <1> HIDE DEF y
  <1>8. calls'[c] = y /\ \A d \in Calls \ {c} : calls'[d] = calls[d]
    BY <1>4 DEF SessionInv, TypeOK
  <1>9. /\ UNCHANGED <<kind, stored, refreshing, failed, refreshes, page, polling>>
        /\ calls[c].at = "sent" /\ "data" \in Calls
    BY DEF Serve, guard, Calls
  <1>10. count' \in Counts /\ count'.refreshes = count.refreshes
    BY <1>1 DEF DeservedInv, Counts
  <1>11. GuestHasNone' /\ ReasonKnown' /\ LogoutIsDeserved'
    BY <1>6, <1>9, <1>10 DEF DeservedInv, GuestHasNone, ReasonKnown, LogoutIsDeserved, IsTutor
  <1>12. OthersPlace'
    BY <1>5, <1>7, <1>8, <1>9 DEF DeservedInv, OthersPlace, IsTutor
  <1>13. DataIsTold'
    BY <1>5, <1>7, <1>8, <1>9 DEF DeservedInv, DataIsTold, Accepts
  <1>14. TwoExchanges'
    <2>1. (DataIsOld' <=> DataIsOld) /\ (calls["data"].at = "idle" => calls'["data"].at = "idle")
      BY <1>7, <1>8, <1>9 DEF DataIsOld
    <2>2. QED
      BY <1>6, <1>9, <1>10, <2>1 DEF DeservedInv, TwoExchanges, AskedNow
  <1>15. QED
    BY <1>10, <1>11, <1>12, <1>13, <1>14 DEF DeservedInv

\* A student's second exchange is for the call that is left over.
LEMMA On401Deserved == ASSUME SessionInv, DeservedInv, NEW c \in Calls, On401(c) PROVE DeservedInv'
  <1> DEFINE x == [for |-> c, early |-> FALSE, res |-> "asked"]
             y == [calls[c] EXCEPT !.at = "renewing"]
  <1>1. calls[c].at = "back" /\ calls[c].res = 401 /\ RefreshesOn401(c) /\ ~refreshing
    BY DEF On401, Reaches
  <1>2. /\ UNCHANGED <<kind, stored, failed, page, polling, count, hist>>
        /\ refreshes = {} /\ refreshes' = {x} /\ calls' = [calls EXCEPT ![c] = y]
    BY <1>1 DEF On401, guard, SessionInv, FlagIsExchange
  <1>3. y.at = "renewing" /\ x.res = "asked"
    BY DEF SessionInv, TypeOK
  <1> HIDE DEF x, y
  <1>4. calls'[c] = y /\ \A d \in Calls \ {c} : calls'[d] = calls[d]
    BY <1>2 DEF SessionInv, TypeOK
  <1>5. kind # "guest"
    BY <1>1 DEF DeservedInv, GuestHasNone, RefreshesOn401, IsTutor
  <1>6. kind = "student" => c = "data"
    BY <1>1 DEF RefreshesOn401, IsTutor, SessionInv, GuardIsTutors, PollIsAsked, DeservedInv, OthersPlace, Calls
  <1>7. GuestHasNone' /\ OthersPlace' /\ ReasonKnown' /\ LogoutIsDeserved'
    BY <1>2, <1>3, <1>4, <1>5
       DEF DeservedInv, GuestHasNone, OthersPlace, ReasonKnown, LogoutIsDeserved, IsTutor
  <1>8. DataIsTold'
    BY <1>3, <1>4 DEF DeservedInv, DataIsTold, Calls
  <1>9. TwoExchanges'
    <2> SUFFICES ASSUME kind = "student", ~hist.unlucky PROVE TwoExchanges'
      BY <1>2 DEF TwoExchanges
    <2>1. DataIsOld /\ stored \notin Old
      BY <1>1, <1>6 DEF DeservedInv, DataIsTold, DataIsOld, TwoExchanges
    <2>2. ~DataIsOld'
      BY <1>3, <1>4, <1>6 DEF DataIsOld
    <2>3. QED
      BY <1>2, <1>3, <2>1, <2>2 DEF DeservedInv, TwoExchanges, AskedNow, Counts
  <1>10. QED
    BY <1>2, <1>7, <1>8, <1>9 DEF DeservedInv

\* The server's answer: a student's exchange comes before the limit, so that
\* it is turned away or lost only by a fault.
LEMMA ServeRefreshDeserved ==
  ASSUME LimiterLetsTwoPass, SessionInv, DeservedInv, NEW r \in refreshes, ServeRefresh(r)
  PROVE  DeservedInv'
  <1>1. PICK res \in {"ok", "refused", "busy", "lost"} :
          /\ res = "busy" => count.refreshes = MaxRefreshes \/ count.faults < MaxFaults
          /\ refreshes' = (refreshes \ {r}) \cup {[r EXCEPT !.res = res]}
          /\ count' = [count EXCEPT
               !.refreshes = IF @ < MaxRefreshes THEN @ + 1 ELSE @,
               !.faults = IF res = "lost" \/ (res = "busy" /\ count.refreshes < MaxRefreshes)
                          THEN @ + 1 ELSE @]
          /\ hist' = [hist EXCEPT !.unlucky = @ \/ count'.faults # count.faults,
                                  !.refused = @ \/ res = "refused"]
    BY Zenon DEF ServeRefresh
  <1> DEFINE fault == res = "lost" \/ (res = "busy" /\ count.refreshes < MaxRefreshes)
             x == [r EXCEPT !.res = res]
             unlucky == hist.unlucky \/ count'.faults # count.faults
             refused == hist.refused \/ res = "refused"
  <1>2. count \in Counts /\ count.refreshes <= MaxRefreshes /\ MaxRefreshes \in Nat
    BY SessionAssumption DEF DeservedInv
  <1>3. /\ count' \in Counts /\ count'.refreshes <= MaxRefreshes
        /\ count'.refreshes = IF count.refreshes < MaxRefreshes THEN count.refreshes + 1
                              ELSE count.refreshes
        /\ count'.faults # count.faults <=> fault
    <2> DEFINE served == IF count.refreshes < MaxRefreshes THEN count.refreshes + 1
                         ELSE count.refreshes
               faults == IF fault THEN count.faults + 1 ELSE count.faults
    <2>1. /\ served \in Nat /\ served <= MaxRefreshes
          /\ faults \in Nat /\ (faults # count.faults <=> fault)
      BY <1>2 DEF Counts
    <2>2. count' = [count EXCEPT !.refreshes = served, !.faults = faults]
      BY <1>1
    <2> HIDE DEF served, faults
    <2>3. count' \in Counts /\ count'.refreshes = served /\ count'.faults = faults
      BY <1>2, <2>1, <2>2 DEF Counts
    <2>4. QED
      BY <2>1, <2>3 DEF served
  <1>4. /\ hist'.out = hist.out
        /\ hist'.unlucky <=> hist.unlucky \/ fault
        /\ hist'.refused <=> hist.refused \/ res = "refused"
    <2>1. hist' = [hist EXCEPT !.unlucky = unlucky, !.refused = refused]
      BY <1>1
    <2>2. hist \in History /\ unlucky \in BOOLEAN /\ refused \in BOOLEAN
      BY DEF SessionInv
    <2> HIDE DEF unlucky, refused, fault
    <2>3. hist'.out = hist.out /\ hist'.unlucky = unlucky /\ hist'.refused = refused
      BY <2>1, <2>2 DEF History
    <2>4. (unlucky <=> hist.unlucky \/ fault) /\ (refused <=> hist.refused \/ res = "refused")
      BY <1>3 DEF unlucky, refused
    <2>5. QED
      BY <2>3, <2>4
  <1>5. refreshing /\ refreshes = {r} /\ refreshes' = {x} /\ r.res = "asked"
    BY <1>1 DEF SessionInv, FlagIsExchange, ServeRefresh
  <1>6. x.res = res /\ x.early = r.early
    BY DEF SessionInv, TypeOK
  <1> HIDE DEF x
  <1>7. UNCHANGED <<kind, stored, refreshing, failed, calls, page, polling>>
    BY DEF ServeRefresh, guard
  <1>8. GuestHasNone' /\ OthersPlace' /\ DataIsTold'
    BY <1>4, <1>5, <1>7 DEF DeservedInv, GuestHasNone, OthersPlace, DataIsTold, IsTutor
  <1>9. kind = "student" /\ ~hist.unlucky => count.refreshes <= 1
    BY <1>2, <1>5 DEF DeservedInv, TwoExchanges, AskedNow, Counts
  <1>10. ReasonKnown'
    <2>1. kind \in {"tutor", "student", "guest"} /\ kind # "guest"
      BY <1>5 DEF SessionInv, TypeOK, DeservedInv, GuestHasNone
    <2>2. res = "busy" => hist'.unlucky \/ (IsTutor /\ count'.refreshes = MaxRefreshes)
      <3>1. CASE count.refreshes < MaxRefreshes
        BY <1>4, <3>1
      <3>2. CASE count.refreshes = MaxRefreshes
        BY <1>2, <1>3, <1>4, <1>9, <2>1, <3>2 DEF IsTutor, LimiterLetsTwoPass, Counts
      <3>3. QED
        BY <1>2, <3>1, <3>2 DEF Counts
    <2>3. QED
      BY <1>4, <1>5, <1>6, <1>7, <2>2 DEF ReasonKnown, IsTutor
  <1>11. TwoExchanges'
    <2> SUFFICES ASSUME kind = "student", ~hist'.unlucky PROVE TwoExchanges'
      BY <1>7 DEF TwoExchanges
    <2>1. ~hist.unlucky /\ ~fault /\ res \in {"ok", "refused"}
      BY <1>1, <1>2, <1>4, <1>9 DEF LimiterLetsTwoPass, Counts
    <2>2. count'.refreshes = count.refreshes + 1 /\ count.refreshes \in Nat
      BY <1>2, <1>3, <1>9, <2>1 DEF LimiterLetsTwoPass, Counts
    <2>3. ~AskedNow' /\ AskedNow /\ (DataIsOld' <=> DataIsOld)
      BY <1>5, <1>6, <1>7, <2>1 DEF AskedNow, DataIsOld
    <2>4. CASE stored \in Old
      BY <1>5, <1>6, <1>7, <2>1, <2>2, <2>3, <2>4 DEF DeservedInv, TwoExchanges
    <2>5. CASE stored \notin Old
      BY <1>5, <1>6, <1>7, <2>1, <2>2, <2>3, <2>5 DEF DeservedInv, TwoExchanges
    <2>6. QED
      BY <2>4, <2>5
  <1>12. LogoutIsDeserved'
    BY <1>2, <1>3, <1>4, <1>7 DEF DeservedInv, LogoutIsDeserved, IsTutor, Counts
  <1>13. QED
    BY <1>3, <1>8, <1>10, <1>11, <1>12 DEF DeservedInv

\* The exchange ends and its call goes out, for a student with a new token
\* unless something has failed.
LEMMA ExchangeDeserved ==
  ASSUME SessionInv, DeservedInv, NEW r \in refreshes, r.res \notin {"asked", "refused"},
         NEW tok,
         refreshes' = refreshes \ {r}, refreshing' = FALSE,
         calls' = [calls EXCEPT ![r.for] = [@ EXCEPT !.at = "sent", !.tok = tok]],
         r.res = "ok" => stored' = "fresh" /\ tok = "fresh",
         r.res # "ok" => stored' = stored,
         UNCHANGED <<kind, guard, count, hist>>
  PROVE  DeservedInv'
  <1>1. refreshes = {r} /\ refreshes' = {} /\ refreshing /\ r.for \in Calls /\ kind # "guest"
    BY DEF SessionInv, FlagIsExchange, TypeOK, DeservedInv, GuestHasNone
  <1> DEFINE x == [calls[r.for] EXCEPT !.at = "sent", !.tok = tok]
  <1>2. x.at = "sent" /\ x.tok = tok
    BY <1>1 DEF SessionInv, TypeOK
  <1>3. calls' = [calls EXCEPT ![r.for] = x]
    OBVIOUS
  <1> HIDE DEF x
  <1>4. calls'[r.for] = x /\ \A d \in Calls \ {r.for} : calls'[d] = calls[d]
    BY <1>1, <1>3 DEF SessionInv, TypeOK
  <1>5. UNCHANGED <<kind, page, polling, count, hist>> /\ "data" \in Calls
    BY DEF guard, Calls
  <1>6. GuestHasNone' /\ OthersPlace' /\ ReasonKnown' /\ DataIsTold' /\ LogoutIsDeserved'
    BY <1>1, <1>2, <1>4, <1>5
       DEF DeservedInv, GuestHasNone, OthersPlace, ReasonKnown, DataIsTold, LogoutIsDeserved, IsTutor
  <1>7. TwoExchanges'
    <2> SUFFICES ASSUME kind = "student", ~hist.unlucky PROVE TwoExchanges'
      BY <1>5 DEF TwoExchanges
    <2>1. r.res = "ok" /\ stored' = "fresh" /\ stored' \notin Old
      BY DEF DeservedInv, TwoExchanges, Old
    <2>2. DataIsOld' => DataIsOld
      BY <1>1, <1>2, <1>4, <1>5, <2>1 DEF DataIsOld
    <2>3. count.refreshes <= 2 /\ (DataIsOld => count.refreshes <= 1)
      BY DEF DeservedInv, TwoExchanges, Counts
    <2>4. QED
      BY <1>1, <1>5, <2>1, <2>2, <2>3 DEF TwoExchanges, AskedNow
  <1>8. QED
    BY <1>5, <1>6, <1>7 DEF DeservedInv

LEMMA ForcedDeserved ==
  ASSUME SessionInv, DeservedInv, NEW r \in refreshes, r.res \in {"refused", "busy", "lost"},
         ForceLogout
  PROVE  DeservedInv'
  <1> DEFINE h == [hist EXCEPT !.out = "forced"]
  <1>1. /\ h \in History /\ h.out = "forced"
        /\ h.refused = hist.refused /\ h.unlucky = hist.unlucky
    BY DEF SessionInv, History
  <1>2. Load("login", h) /\ stored' = "none" /\ UNCHANGED kind
    BY DEF ForceLogout, LogInPage
  <1> HIDE DEF h
  <1>3. hist'.out = "forced" /\ hist'.refused = hist.refused /\ hist'.unlucky = hist.unlucky
    BY <1>1, <1>2 DEF Load, History
  <1>4. /\ refreshes' = {} /\ page' = "login" /\ polling' = "off"
        /\ \A c \in Calls : calls'[c].at = "idle"
    BY <1>2 DEF Load, Idle
  <1>5. count' \in Counts /\ count'.refreshes = count.refreshes
    BY <1>2 DEF Load, DeservedInv, Counts
  <1>6. kind # "guest" /\ "data" \in Calls
    BY DEF DeservedInv, GuestHasNone, Calls
  <1>7. hist.refused \/ hist.unlucky \/ (IsTutor /\ count.refreshes = MaxRefreshes)
    BY DEF DeservedInv, ReasonKnown
  <1>8. GuestHasNone' /\ OthersPlace' /\ ReasonKnown' /\ DataIsTold' /\ LogoutIsDeserved'
    BY <1>2, <1>3, <1>4, <1>5, <1>6, <1>7
       DEF GuestHasNone, OthersPlace, ReasonKnown, DataIsTold, LogoutIsDeserved, IsTutor
  <1>9. TwoExchanges'
    <2>1. kind = "student" /\ ~hist.unlucky => count.refreshes <= 2
      BY DEF DeservedInv, TwoExchanges, Counts
    <2>2. ~DataIsOld' /\ ~AskedNow' /\ stored' \notin Old
      BY <1>2, <1>4, <1>6 DEF DataIsOld, AskedNow, Old
    <2>3. QED
      BY <1>2, <1>3, <1>4, <1>5, <2>1, <2>2 DEF TwoExchanges
  <1>10. QED
    BY <1>5, <1>8, <1>9 DEF DeservedInv

LEMMA EndsDeserved ==
  ASSUME SessionInv, DeservedInv, NEW r \in refreshes, EarlyRefreshEnds(r) \/ LateRefreshEnds(r)
  PROVE  DeservedInv'
  <1>1. r.res \in {"ok", "refused", "busy", "lost"}
    BY DEF EarlyRefreshEnds, LateRefreshEnds, SessionInv, TypeOK
  <1>2. CASE EarlyRefreshEnds(r) /\ r.res # "refused"
    <2> DEFINE tok == IF stored' = "none" THEN calls[r.for].tok ELSE stored'
    <2>1. calls' = [calls EXCEPT ![r.for] = [@ EXCEPT !.at = "sent", !.tok = tok]]
      BY <1>2 DEF EarlyRefreshEnds
    <2>2. /\ refreshes' = refreshes \ {r} /\ refreshing' = FALSE
          /\ stored' = IF r.res = "ok" THEN "fresh" ELSE stored
          /\ UNCHANGED <<kind, guard, count, hist>>
      BY <1>2 DEF EarlyRefreshEnds
    <2>3. r.res = "ok" => stored' = "fresh" /\ tok = "fresh"
      BY <2>2
    <2> HIDE DEF tok
    <2>4. QED
      BY <1>1, <1>2, <2>1, <2>2, <2>3, ExchangeDeserved DEF EarlyRefreshEnds
  <1>3. CASE LateRefreshEnds(r) /\ r.res = "ok"
    <2>1. calls' = [calls EXCEPT ![r.for] = [@ EXCEPT !.at = "sent", !.tok = "fresh"]]
      BY <1>3 DEF LateRefreshEnds
    <2>2. /\ refreshes' = refreshes \ {r} /\ refreshing' = FALSE /\ stored' = "fresh"
          /\ UNCHANGED <<kind, guard, count, hist>>
      BY <1>3 DEF LateRefreshEnds
    <2>3. QED
      BY <1>3, <2>1, <2>2, ExchangeDeserved
  <1>4. CASE ForceLogout /\ r.res # "ok"
    BY <1>1, <1>4, ForcedDeserved
  <1>5. QED
    BY <1>2, <1>3, <1>4 DEF EarlyRefreshEnds, LateRefreshEnds

LEMMA DeservedInit == ASSUME Init PROVE DeservedInv
  <1>1. count \in Counts /\ count.refreshes = 0 /\ MaxRefreshes \in Nat
    BY SessionAssumption DEF Init, Counts
  <1>2. \A c \in Calls : calls[c].at = "idle"
    BY DEF Init, Idle
  <1>3. /\ hist.out = "no" /\ refreshes = {} /\ ~failed /\ polling = "off" /\ "data" \in Calls
        /\ kind = "guest" => stored = "none" /\ page = "lesson"
        /\ kind = "student" => page = "cabinet" /\ stored # "none"
        /\ ~IsTutor => page # "subscription"
    BY DEF Init, Calls, IsTutor
  <1>4. GuestHasNone /\ OthersPlace /\ ReasonKnown /\ DataIsTold /\ LogoutIsDeserved
    BY <1>2, <1>3 DEF GuestHasNone, OthersPlace, ReasonKnown, DataIsTold, LogoutIsDeserved
  <1>5. TwoExchanges
    BY <1>1, <1>2, <1>3 DEF TwoExchanges, AskedNow, DataIsOld
  <1>6. QED
    BY <1>1, <1>4, <1>5 DEF DeservedInv

\* A person is logged out by the client only for a reason, and a guest never:
\* for a limiter that lets a session's own two exchanges pass
\* (lib/api/studentClient.ts:79-92).
THEOREM SessionLogoutIsDeserved == ASSUME LimiterLetsTwoPass PROVE Spec => []LogoutIsDeserved
  <1>1. Init => SessionInv /\ DeservedInv
    BY SessionInit, DeservedInit
  <1>2. SessionInv /\ DeservedInv /\ [Next]_vars => SessionInv' /\ DeservedInv'
    BY SessionStep, StepKinds, ServeRefreshDeserved, EndsDeserved, On401Deserved, ServeDeserved,
       SendsDeserved, LeadsDeserved, LogOutDeserved, EntersDeserved, QuietDeserved
  <1>3. SessionInv /\ DeservedInv => LogoutIsDeserved
    BY DEF DeservedInv
  <1>4. QED
    BY <1>1, <1>2, <1>3, PTL DEF Spec
=============================================================================
