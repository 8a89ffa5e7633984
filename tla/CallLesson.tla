----------------------------- MODULE CallLesson -----------------------------
(***************************************************************************)
(* A call: the page of the tutor, the page of one guest and what they say  *)
(* to each other about the board.                                          *)
(*                                                                         *)
(* The guest's page asks every five seconds whether the room is open and   *)
(* mounts CallRoom when it has a token.  The tutor's CallRoom opens the    *)
(* board by itself, tells whoever is connected over the data channel and   *)
(* leaves the news in its metadata for those who are not yet.  An invite   *)
(* is one permanent link per board, so that there is only one token.       *)
(*                                                                         *)
(* kind tells a lesson of a course (its state is a row of the table) from  *)
(* a trial lesson (its state is whether LiveKit still has the room).       *)
(***************************************************************************)
EXTENDS Naturals, Sequences, SequencesExt, FiniteSets

CONSTANTS MaxClicks,  \* bound: what the two people do of their own accord
          MaxFaults,  \* bound: requests that fail, connections that drop
          MaxPolls    \* bound: requests of the guest's page under way

ASSUME CallAssumption ==
  MaxClicks \in Nat /\ MaxFaults \in Nat /\ MaxPolls \in Nat \ {0}

VARIABLES
  kind,       \* lesson or trial
  status,     \* what the row of a lesson says about its room
  live,       \* LiveKit has the room
  webhook,    \* a room_finished event is on its way to the backend
  tutor,      \* the page of the tutor and its CallRoomInner
  sending,    \* messages published whose publishData or setMetadata is under way
  meta,       \* the tutor's metadata on the LiveKit server
  stage,      \* stage of the guest's page; gone: the page is left
  room,       \* the guest's page holds a room token
  polls,      \* requests of the guest's page under way
  timers,     \* [ticking: intervals alive, held: intervalRef holds the last one]
  guest,      \* the CallRoomInner of the guest
  toGuest,    \* data channel to the guest
  metaEvents, \* metadata changes on their way to the guest
  clicks, faults,
  ended,      \* history: the lesson was over at some time
  closed,     \* history: the tutor closed the board at some time
  failed      \* history: an announcement or a joinByInvite failed

doorVars  == <<stage, room, polls, timers>>
tutorVars == <<tutor, sending, meta>>
netVars   == <<toGuest, metaEvents>>
roomVars  == <<status, live, webhook, ended>>
counters  == <<clicks, faults>>
histories == <<closed, failed>>
callVars == <<kind, roomVars, tutorVars, doorVars, guest, netVars, counters, histories>>

Free == {n \in 1..MaxPolls : \A p \in polls : p.n # n}
inCall == stage = "in-room" /\ room

Poll == [n : 1..MaxPolls, from : {"first", "tick", "bye"},
         at : {"status", "token", "waiting", "active", "ended", "error", "granted", "refused"}]
TutorPage == [page : {"away", "opening", "started", "room"}, hasBoard : BOOLEAN, conn : BOOLEAN,
              mode : {"call", "board"}, board : {"none", "asked", "ready"}, auto : BOOLEAN,
              waiting : 0..MaxClicks, announced : BOOLEAN]
GuestRoom == [conn : {"no", "on", "again", "over"}, mode : {"call", "board"}, opened : BOOLEAN,
              meta : {"none", "open", "closed"}, data : Nat, late : BOOLEAN]

CallTypeOK ==
  /\ kind \in {"lesson", "trial"} /\ status \in {"waiting", "active", "ended"}
  /\ {live, webhook, room, ended, closed, failed} \subseteq BOOLEAN
  /\ tutor \in TutorPage /\ sending \in Seq({"auto", "open", "close"})
  /\ meta \in {"none", "open", "closed"}
  /\ stage \in {"form", "waiting", "in-room", "ended", "forbidden", "gone"}
  /\ polls \subseteq Poll /\ timers \in [ticking : Nat, held : BOOLEAN]
  /\ guest \in GuestRoom /\ toGuest \in Seq({"open", "close"})
  /\ metaEvents \in Seq({"open", "closed"})
  /\ clicks \in 0..MaxClicks /\ faults \in 0..MaxFaults

\* State of a CallRoomInner that has just been mounted.  data counts the
\* joinByInvite requests sent for a message, late is the one sent for metadata.
FreshGuest == [conn |-> "no", mode |-> "call", opened |-> FALSE, meta |-> "none",
               data |-> 0, late |-> FALSE]
FreshTutor(page, hasBoard) ==
  [page |-> page, hasBoard |-> hasBoard, conn |-> FALSE, mode |-> "call",
   board |-> IF page = "room" /\ hasBoard THEN "asked" ELSE "none",
   auto |-> page = "room" /\ hasBoard, waiting |-> 0, announced |-> FALSE]

\* The link to a trial lesson is copied inside the room: the tutor is there.
CallInit ==
  /\ kind \in {"lesson", "trial"}
  /\ status = "waiting"
  /\ live = (kind = "trial") /\ webhook = FALSE /\ ended = FALSE
  /\ tutor = IF kind = "trial" THEN FreshTutor("room", TRUE) ELSE FreshTutor("away", FALSE)
  /\ sending = <<>> /\ meta = "none"
  /\ stage = IF kind = "trial" THEN "form" ELSE "waiting"
  /\ room = FALSE
  /\ polls = IF kind = "trial" THEN {} ELSE {[n |-> 1, from |-> "first", at |-> "status"]}
  /\ timers = [ticking |-> 0, held |-> FALSE]
  /\ guest = FreshGuest /\ toGuest = <<>> /\ metaEvents = <<>>
  /\ clicks = 0 /\ faults = 0 /\ closed = FALSE /\ failed = FALSE

Click == clicks < MaxClicks /\ clicks' = clicks + 1 /\ UNCHANGED faults
Fault == faults < MaxFaults /\ faults' = faults + 1 /\ UNCHANGED clicks
----------------------------------------------------------------------------
(* The guest's page: StudentCallPage and JoinRoomPage *)

ClearPolling(t) == [ticking |-> t.ticking - (IF t.held THEN 1 ELSE 0), held |-> FALSE]

\* setInterval overwrites the reference without clearing what it held.
StartPolling == timers' = [ticking |-> timers.ticking + 1, held |-> TRUE]

\* handleJoin of the trial page: Enter works while an earlier join is under way.
EnterName ==
  /\ kind = "trial" /\ stage = "form" /\ Click
  /\ \E n \in Free :
       /\ \A m \in Free : n <= m
       /\ polls' = polls \cup {[n |-> n, from |-> "first", at |-> "status"]}
  /\ UNCHANGED <<kind, roomVars, tutorVars, stage, room, timers, guest, netVars, histories>>

Tick ==
  /\ timers.ticking > 0
  /\ \E n \in Free :
       /\ \A m \in Free : n <= m
       /\ polls' = polls \cup {[n |-> n, from |-> "tick", at |-> "status"]}
  /\ UNCHANGED <<kind, roomVars, tutorVars, stage, room, timers, guest, netVars, counters, histories>>

\* Mutant: whatever is not active has ended.
ActiveOrEnded == IF kind = "lesson" THEN IF status = "active" THEN "active" ELSE "ended"
                 ELSE IF live THEN "active" ELSE "error"

\* What the client makes of the answer: the end of a trial lesson comes with
\* status 404, which getQuickRoomStatus turns into an exception.
StatusAnswer == IF kind = "lesson" THEN status ELSE IF live THEN "active" ELSE "error"
TokenAnswer  == IF kind = "lesson" \/ live THEN "granted" ELSE "error"

Serve(p) ==
  /\ p.at \in {"status", "token"}
  /\ \/ /\ polls' = (polls \ {p}) \cup
                      {[p EXCEPT !.at = IF p.at = "status" THEN StatusAnswer ELSE TokenAnswer]}
        /\ UNCHANGED counters
     \/ /\ Fault
        /\ \E answer \in {"error"} \cup (IF kind = "lesson" /\ p.at = "token" THEN {"refused"} ELSE {}) :
             polls' = (polls \ {p}) \cup {[p EXCEPT !.at = answer]}
  /\ UNCHANGED <<kind, roomVars, tutorVars, stage, room, timers, guest, netVars, histories>>

\* Mutant: the first attempt that fails shows the waiting screen and no more.
GivesUp(p) ==
  /\ stage' = IF p.from = "first" /\ stage # "gone" THEN "waiting" ELSE stage
  /\ UNCHANGED timers

\* The first attempt that fails starts the polling; a trial page that was left
\* meanwhile starts it all the same, a lesson's page looks at cancelledRef.
NotIn(p) ==
  \/ p.from = "tick" /\ UNCHANGED <<stage, timers>>
  \/ /\ p.from = "first" /\ StartPolling
     /\ stage' = IF kind = "trial" /\ stage # "gone" THEN "waiting" ELSE stage

\* A second token remounts CallRoom (key={token}).
GoIn ==
  /\ timers' = ClearPolling(timers)
  /\ stage' = "in-room" /\ room' = TRUE /\ guest' = FreshGuest
  /\ toGuest' = <<>> /\ metaEvents' = <<>>

\* tryJoin goes on with the answer p carries.
TryJoin(p) ==
  /\ p.from \in {"first", "tick"} /\ p.at \notin {"status", "token"}
  /\ IF stage = "gone" /\ (kind = "lesson" \/ p.at = "granted")
     THEN /\ polls' = polls \ {p}
          /\ UNCHANGED <<stage, room, timers, guest, netVars>>
     ELSE IF p.at = "active"
     THEN /\ polls' = (polls \ {p}) \cup {[p EXCEPT !.at = "token"]}
          /\ UNCHANGED <<stage, room, timers, guest, netVars>>
     ELSE /\ polls' = polls \ {p}
          /\ \/ p.at = "granted" /\ GoIn
             \/ /\ p.at \in {"ended", "refused"}
                /\ timers' = ClearPolling(timers)
                /\ stage' = IF p.at = "ended" THEN "ended" ELSE "forbidden"
                /\ UNCHANGED <<room, guest, netVars>>
             \/ p.at \in {"waiting", "error"} /\ NotIn(p) /\ UNCHANGED <<room, guest, netVars>>
  /\ UNCHANGED <<kind, roomVars, tutorVars, counters, histories>>

\* onDisconnected: the lesson's page drops the token at once, the trial page
\* when it has asked for the status.
Disconnected ==
  /\ inCall /\ guest.conn \in {"on", "again"}
  /\ \/ ~live /\ UNCHANGED counters
     \/ Click
     \/ Fault
  /\ \E n \in Free :
       /\ \A m \in Free : n <= m
       /\ polls' = polls \cup {[n |-> n, from |-> "bye", at |-> "status"]}
  /\ IF kind = "lesson" THEN room' = FALSE /\ guest' = FreshGuest
                        ELSE room' = room /\ guest' = [guest EXCEPT !.conn = "over"]
  /\ toGuest' = <<>> /\ metaEvents' = <<>>
  /\ UNCHANGED <<kind, roomVars, tutorVars, stage, timers, histories>>

AfterCall(p) ==
  /\ p.from = "bye" /\ p.at # "status"
  /\ polls' = polls \ {p}
  /\ \/ stage = "gone" /\ UNCHANGED <<stage, room, timers>>
     \/ /\ stage # "gone" /\ kind = "trial"
        /\ stage' = "form" /\ room' = FALSE /\ UNCHANGED timers
     \/ /\ stage # "gone" /\ kind = "lesson" /\ p.at = "ended"
        /\ stage' = "ended" /\ UNCHANGED <<room, timers>>
     \/ /\ stage # "gone" /\ kind = "lesson" /\ p.at # "ended"
        /\ stage' = "waiting" /\ StartPolling /\ UNCHANGED room
  /\ UNCHANGED <<kind, roomVars, tutorVars, guest, netVars, counters, histories>>

LeavePage ==
  /\ stage # "gone" /\ Click
  /\ stage' = "gone" /\ room' = FALSE /\ timers' = ClearPolling(timers)
  /\ guest' = FreshGuest /\ toGuest' = <<>> /\ metaEvents' = <<>>
  /\ UNCHANGED <<kind, roomVars, tutorVars, polls, histories>>

Door == EnterName \/ Tick \/ Disconnected \/ LeavePage
        \/ \E p \in polls : Serve(p) \/ TryJoin(p) \/ AfterCall(p)
----------------------------------------------------------------------------
(* The guest's CallRoomInner *)

\* openBoardFromMetadata: openedTokenRef keeps it from opening the board twice.
FromMetadata(g) ==
  IF g.meta = "open" /\ ~g.opened THEN [g EXCEPT !.opened = TRUE, !.late = TRUE] ELSE g

\* Mutant: the metadata is read when it changes, and not on connecting.
ConnectsOnly ==
  /\ inCall /\ guest.conn \in {"no", "again"}
  /\ guest' = [guest EXCEPT !.conn = "on", !.meta = meta]
  /\ live' = TRUE
  /\ UNCHANGED <<kind, status, webhook, ended, tutorVars, doorVars, netVars, counters, histories>>

\* LiveKit makes the room anew for whoever joins it.
GuestConnects ==
  /\ inCall /\ guest.conn \in {"no", "again"}
  /\ guest' = FromMetadata([guest EXCEPT !.conn = "on", !.meta = meta])
  /\ live' = TRUE
  /\ UNCHANGED <<kind, status, webhook, ended, tutorVars, doorVars, netVars, counters, histories>>

\* The connection drops for a while: what is sent meanwhile never arrives.
GuestDrops ==
  /\ inCall /\ guest.conn = "on" /\ Fault
  /\ guest' = [guest EXCEPT !.conn = "again"]
  /\ toGuest' = <<>> /\ metaEvents' = <<>>
  /\ UNCHANGED <<kind, roomVars, tutorVars, doorVars, histories>>

\* onData
DataReceived ==
  /\ toGuest # <<>>
  /\ guest' = IF Head(toGuest) = "open" THEN [guest EXCEPT !.data = @ + 1]
                                        ELSE [guest EXCEPT !.mode = "call"]
  /\ toGuest' = Tail(toGuest)
  /\ UNCHANGED <<kind, roomVars, tutorVars, doorVars, metaEvents, counters, histories>>

MetadataChanged ==
  /\ metaEvents # <<>>
  /\ guest' = FromMetadata([guest EXCEPT !.meta = Head(metaEvents)])
  /\ metaEvents' = Tail(metaEvents)
  /\ UNCHANGED <<kind, roomVars, tutorVars, doorVars, toGuest, counters, histories>>

\* joinByInvite comes back.
Joined(g) == [g EXCEPT !.mode = "board"]

BoardAnswersGuest ==
  /\ inCall
  /\ \/ /\ guest.data > 0 /\ guest' = Joined([guest EXCEPT !.data = @ - 1])
        /\ UNCHANGED <<counters, failed>>
     \/ /\ guest.late /\ guest' = Joined([guest EXCEPT !.late = FALSE])
        /\ UNCHANGED <<counters, failed>>
     \/ /\ guest.data > 0 /\ guest' = [guest EXCEPT !.data = @ - 1]
        /\ Fault /\ failed' = TRUE
     \/ /\ guest.late /\ guest' = [guest EXCEPT !.late = FALSE, !.opened = FALSE]
        /\ Fault /\ failed' = TRUE
  /\ UNCHANGED <<kind, roomVars, tutorVars, doorVars, netVars, closed>>

Inside == GuestConnects \/ GuestDrops \/ DataReceived \/ MetadataChanged \/ BoardAnswersGuest
----------------------------------------------------------------------------
(* The tutor: CallPage, QuickRoomPage and CallRoomInner *)

\* publishData: whoever is connected hears it, in the order of the calls.
Heard(msgs) == IF guest.conn = "on" /\ inCall THEN toGuest \o msgs ELSE toGuest

Message(op) == IF op = "close" THEN "close" ELSE "open"
Publish(ops) ==
  /\ sending' = sending \o ops
  /\ toGuest' = Heard([i \in DOMAIN ops |-> Message(ops[i])])

\* The effect that announces a board opened before the room was connected.
MustAnnounce(t) == t.mode = "board" /\ ~t.announced /\ t.conn
\* Mutant: the reference is set before the connection is looked at.
AnnouncedTooEarly(t) == [t EXCEPT !.announced = @ \/ t.mode = "board"]

Announced(t) == [t EXCEPT !.announced = @ \/ MustAnnounce(t)]
Announcement(t) == IF MustAnnounce(t) THEN <<"auto">> ELSE <<>>

CallPageOpens ==
  /\ kind = "lesson" /\ tutor.page = "away"
  /\ IF status = "waiting" THEN UNCHANGED counters ELSE Click
  /\ tutor' = FreshTutor("opening", FALSE)
  /\ UNCHANGED <<kind, roomVars, sending, meta, doorVars, guest, netVars, histories>>

\* start-room; the token and the lesson are asked for at the same time.
StartRoom ==
  /\ tutor.page = "opening"
  /\ \/ UNCHANGED counters /\ tutor' = [tutor EXCEPT !.page = "started"] /\ status' = "active"
     \/ Fault /\ tutor' = [tutor EXCEPT !.page = "away"] /\ UNCHANGED status
  /\ UNCHANGED <<kind, live, webhook, ended, sending, meta, doorVars, guest, netVars, histories>>

\* Without the lesson there is no course and no board.
RoomReady ==
  /\ tutor.page = "started"
  /\ \/ UNCHANGED counters /\ tutor' = FreshTutor("room", TRUE)
     \/ Fault /\ tutor' \in {FreshTutor("room", FALSE), FreshTutor("away", FALSE)}
  /\ UNCHANGED <<kind, roomVars, sending, meta, doorVars, guest, netVars, histories>>

TutorConnects ==
  /\ tutor.page = "room" /\ ~tutor.conn
  /\ LET t == [tutor EXCEPT !.conn = TRUE] IN
       tutor' = Announced(t) /\ Publish(Announcement(t))
  /\ live' = TRUE
  /\ UNCHANGED <<kind, status, webhook, ended, meta, doorVars, guest, metaEvents, counters, histories>>

\* ensureBoard comes back to the automatic opening and to the clicks that wait;
\* an announcement on a room that is not connected throws.
BoardAnswers ==
  /\ tutor.board = "asked"
  /\ \/ /\ LET t == [tutor EXCEPT !.board = "ready", !.auto = FALSE, !.waiting = 0,
                                  !.mode = IF tutor.auto THEN "board" ELSE @]
           IN  /\ tutor' = Announced(t)
               /\ Publish((IF t.conn THEN [i \in 1..tutor.waiting |-> "open"] ELSE <<>>)
                          \o Announcement(t))
        /\ UNCHANGED <<counters, failed>>
     \/ /\ Fault /\ failed' = TRUE
        /\ tutor' = [tutor EXCEPT !.board = "none", !.auto = FALSE, !.waiting = 0]
        /\ UNCHANGED <<sending, toGuest>>
  /\ UNCHANGED <<kind, roomVars, meta, doorVars, guest, metaEvents, closed>>

\* handleToggle up to its first await that takes time.
HandleToggle ==
  /\ tutor.page = "room" /\ tutor.hasBoard /\ Click
  /\ \/ /\ tutor.mode = "board" /\ tutor.conn
        /\ Publish(<<"close">>) /\ closed' = TRUE /\ UNCHANGED tutor
     \/ /\ tutor.mode = "board" /\ ~tutor.conn
        /\ tutor' = [tutor EXCEPT !.mode = "call"] /\ closed' = TRUE
        /\ UNCHANGED <<sending, toGuest>>
     \/ /\ tutor.mode = "call" /\ tutor.board = "ready"
        /\ Publish(IF tutor.conn THEN <<"open">> ELSE <<>>) /\ UNCHANGED <<tutor, closed>>
     \/ /\ tutor.mode = "call" /\ tutor.board # "ready"
        /\ tutor' = [tutor EXCEPT !.board = "asked", !.waiting = @ + 1]
        /\ UNCHANGED <<sending, toGuest, closed>>
  /\ UNCHANGED <<kind, roomVars, meta, doorVars, guest, metaEvents, failed>>

\* The metadata follows the message, in the order of the calls; then the call
\* returns to handleToggle, which changes the mode (a close does so in any case).
Turned(op) == [tutor EXCEPT !.mode = CASE op = "open" -> "board" [] op = "close" -> "call"
                                      [] OTHER -> @]

MetadataSet ==
  /\ sending # <<>>
  /\ LET op == Head(sending)
         value == IF op = "close" THEN "closed" ELSE "open"
         t == Turned(op)
     IN  \/ /\ meta' = value
            /\ metaEvents' = IF guest.conn = "on" /\ inCall THEN Append(metaEvents, value) ELSE metaEvents
            /\ tutor' = Announced(t)
            /\ sending' = Tail(sending) \o Announcement(t)
            /\ toGuest' = Heard([i \in DOMAIN Announcement(t) |-> "open"])
            /\ UNCHANGED <<counters, failed>>
         \/ /\ Fault /\ failed' = TRUE
            /\ tutor' = IF op = "close" THEN t ELSE tutor
            /\ sending' = Tail(sending)
            /\ UNCHANGED <<meta, metaEvents, toGuest>>
  /\ UNCHANGED <<kind, roomVars, doorVars, guest, closed>>

\* The participant goes and its metadata with it; unsent messages are lost.
TutorGone(t) ==
  /\ tutor' = t /\ sending' = <<>> /\ meta' = "none"

\* «Выйти» ends the lesson (CLIENT_INITIATED), a trial lesson ends with any
\* disconnect; the page is left whether the request succeeds or not.
EndRoom ==
  /\ status' = IF kind = "lesson" THEN "ended" ELSE status
  /\ ended' = TRUE /\ live' = FALSE /\ webhook' = (kind = "lesson")

TutorLeaves ==
  /\ tutor.page = "room" /\ tutor.conn
  /\ clicks < MaxClicks /\ clicks' = clicks + 1
  /\ \/ EndRoom /\ UNCHANGED faults
     \/ faults < MaxFaults /\ faults' = faults + 1 /\ UNCHANGED roomVars
  /\ TutorGone(FreshTutor("away", FALSE))
  /\ guest' = [guest EXCEPT !.meta = "none"]
  /\ UNCHANGED <<kind, doorVars, netVars, histories>>

\* A reload, or the network: the lesson goes on, the page starts room and token anew.
TutorReloads ==
  /\ tutor.page = "room" /\ Fault
  /\ TutorGone(IF kind = "lesson" THEN FreshTutor("opening", FALSE) ELSE FreshTutor("room", TRUE))
  /\ guest' = [guest EXCEPT !.meta = "none"]
  /\ UNCHANGED <<kind, roomVars, doorVars, netVars, histories>>

TutorSide == CallPageOpens \/ StartRoom \/ RoomReady \/ TutorConnects \/ BoardAnswers
             \/ HandleToggle \/ MetadataSet \/ TutorLeaves \/ TutorReloads
----------------------------------------------------------------------------
(* LiveKit and the backend *)

\* empty_timeout or departure_timeout: nobody is in the room any more.
RoomEmpties ==
  /\ live /\ ~tutor.conn /\ guest.conn \notin {"on", "again"}
  /\ live' = FALSE
  /\ IF kind = "trial" THEN ended' = TRUE /\ UNCHANGED webhook
                       ELSE webhook' = TRUE /\ UNCHANGED ended
  /\ UNCHANGED <<kind, status, tutorVars, doorVars, guest, netVars, counters, histories>>

\* LiveKitWebhook: room_finished, possibly redelivered after a new start-room.
RoomFinished ==
  /\ webhook /\ webhook' = FALSE
  /\ status' = IF status = "active" THEN "ended" ELSE status
  /\ ended' = (ended \/ status' = "ended")
  /\ UNCHANGED <<kind, live, tutorVars, doorVars, guest, netVars, counters, histories>>

CallNext == Door \/ Inside \/ TutorSide \/ RoomEmpties \/ RoomFinished

CallSpec == CallInit /\ [][CallNext]_callVars

\* What the program does by itself goes on: requests are answered and their
\* answers handled, intervals fire, what was sent arrives, rooms connect.
CallFairSpec ==
  /\ CallSpec
  /\ WF_callVars(\E p \in polls : Serve(p)) /\ WF_callVars(\E p \in polls : TryJoin(p) \/ AfterCall(p))
  /\ WF_callVars(Tick) /\ WF_callVars(GuestConnects) /\ WF_callVars(DataReceived) /\ WF_callVars(MetadataChanged)
  /\ WF_callVars(BoardAnswersGuest)
  /\ WF_callVars(StartRoom) /\ WF_callVars(RoomReady) /\ WF_callVars(TutorConnects)
  /\ WF_callVars(BoardAnswers) /\ WF_callVars(MetadataSet)
----------------------------------------------------------------------------
(* Properties *)

\* Nothing the two rooms sent each other is under way.
Quiet ==
  /\ tutor.page = "room" /\ tutor.conn /\ sending = <<>> /\ ~tutor.auto /\ tutor.waiting = 0
  /\ inCall /\ guest.conn = "on" /\ toGuest = <<>> /\ metaEvents = <<>>
  /\ guest.data = 0 /\ ~guest.late

\* Whatever the tutor clicked before, during and after the automatic opening,
\* a guest who comes later finds in the metadata what the tutor sees
\* (announceOpen, handleToggle and the announcing effect of CallRoomInner).
MetadataSaysWhatTheTutorSees ==
  (tutor.conn /\ sending = <<>> /\ ~failed) => ((tutor.mode = "board") <=> (meta = "open"))

\* A board that was opened and never closed reaches the guest, whether he was
\* there, came later, or connected while it was being announced
\* (openBoardFromMetadata and onData of CallRoomInner).
FirstOpenIsSeen == (Quiet /\ ~failed /\ ~closed /\ tutor.mode = "board") => guest.mode = "board"

\* The final screen, from which the page never returns, is only shown when the
\* lesson was over (tryJoin and handleDisconnected).  The types go along.
EndIsTrue == CallTypeOK /\ (stage = "ended" => ended)

\* A guest at the door is never forgotten: an interval goes on asking, or the
\* first attempt is about to start one, through every disconnect and failed
\* request (tryJoin, handleDisconnected, clearPolling).
WaitingIsWatched == stage = "waiting" => timers.ticking > 0 \/ \E p \in polls : p.from = "first"

\* Not a property of the code: the end of a trial lesson is answered with status
\* 404, which callsApi turns into an exception, so that the page goes on waiting.
TrialGuestLearnsTheEnd == ~ <>[](kind = "trial" /\ stage = "waiting" /\ ~live)

\* Not a property of the code: joinByInvite may come back after a board-close,
\* and openedTokenRef keeps a guest who missed the second opening out.
GuestFollowsTutor == (Quiet /\ ~failed) => (guest.mode = tutor.mode)
=============================================================================
