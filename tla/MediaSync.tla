----------------------------- MODULE MediaSync -----------------------------
(***************************************************************************)
(* Playing one recording in two tabs: useMediaPlayer.ts with               *)
(* MediaPlayer.tsx (an audio or video file the tutor opens) and            *)
(* useYouTubeSync.ts with YouTubeEmbed.tsx and youtubePlayer.ts (a clip    *)
(* that lies on the board).                                                *)
(*                                                                         *)
(* A frame of the peer is applied to the element of the page; the element  *)
(* then fires the very events a click fires, later and out of our control: *)
(* another frame or another click may come first.  `agreed' and `expected' *)
(* tell whose an event is.  The element itself appears a render later than *)
(* the file it plays, and a frame that comes before it is kept in          *)
(* `pending'.  Sending is fire and forget: nothing is repeated, a tab that *)
(* connects asks for the state.                                            *)
(*                                                                         *)
(* The progress of the recording is left out: a position is what somebody  *)
(* sought to.                                                              *)
(***************************************************************************)
EXTENDS Integers, Sequences

CONSTANTS Files,     \* bound: files the tutor may open
          Positions, \* bound: places one may seek to, 0 the start
          MaxActs,   \* bound: what each person does
          MaxDrops,  \* bound: connections lost, both together
          MaxSaid    \* bound: events of an element a tab passes on

ASSUME MediaAssumption ==
  /\ Files \subseteq Nat \ {0} /\ Files # {}
  /\ Positions \subseteq Nat /\ 0 \in Positions
  /\ MaxActs \in Nat /\ MaxDrops \in Nat /\ MaxSaid \in Nat

VARIABLES
  what,     \* "file": the player of materials; "clip": an element of the board
  up,       \* the socket of the tab is open
  chan,     \* the media frames on their way to the tab
  media,    \* the state `media': the file that should be open
  el,       \* the attached element (SyncTarget)
  events,   \* what the element has fired and the page has not heard, each
            \* event with who is behind it
  agreed,   \* agreedRef / agreed
  expected, \* expectedSeekRef
  pending,  \* pendingRef / pending
  gesture,  \* needsGesture: the button that asks for a click
  acts,     \* history: what each person has done
  said,     \* history: frames sent by the event handlers of the tab
  drops,
  excused   \* history: a frame was lost, or something came too early

mediaVars == <<what, up, chan, media, el, events, agreed, expected, pending, gesture,
          acts, said, drops, excused>>
pageVars == <<media, el, events, agreed, expected, pending, gesture>>
people == <<acts, drops, what>>

Tutor == "tutor"
Student == "student"
Tabs == {Tutor, Student}
Peer(c) == CHOOSE d \in Tabs : d # c

None == 0
Unset == -1   \* undefined or null: no position, no rate, no expected seek
Rates == {1, 2}
NoElement == [file |-> None, playing |-> FALSE, pos |-> 0, rate |-> 1]
Fresh(f) == [NoElement EXCEPT !.file = f]
NothingPending == [set |-> FALSE]
Frame(action, file, pos, rate) ==
  [action |-> action, file |-> file, pos |-> pos, rate |-> rate]
Toggles == {"play", "pause"}

\* An event of the element.  History: it is the person's; or the page's own,
\* what it did to the element on a frame of the peer; or the page's own and
\* late, because another frame or act came before it was heard.
Event == [says : Toggles \cup {"seeked"}, by : {"person", "page", "late"}]

MediaTypeOK ==
  /\ what \in {"file", "clip"}
  /\ up \in [Tabs -> BOOLEAN] /\ media \in [Tabs -> Files \cup {None}]
  /\ \A c \in Tabs :
       /\ el[c] \in [file : Files \cup {None}, playing : BOOLEAN,
                     pos : Positions, rate : Rates]
       /\ \A k \in DOMAIN events[c] : events[c][k] \in Event
       /\ pending[c].set => pending[c].pos \in Positions /\ pending[c].play \in BOOLEAN
  /\ agreed \in [Tabs -> Toggles \cup {"unset"}]
  /\ expected \in [Tabs -> Positions \cup {Unset}]
  /\ gesture \in [Tabs -> BOOLEAN]

MediaInit ==
  /\ what \in {"file", "clip"}
  /\ up = [c \in Tabs |-> FALSE]
  /\ chan = [c \in Tabs |-> <<>>]
  /\ media = [c \in Tabs |-> IF what = "clip" THEN CHOOSE f \in Files : TRUE ELSE None]
  /\ el = [c \in Tabs |-> NoElement]
  /\ events = [c \in Tabs |-> <<>>]
  /\ agreed = [c \in Tabs |-> "unset"]
  /\ expected = [c \in Tabs |-> Unset]
  /\ pending = [c \in Tabs |-> NothingPending]
  /\ gesture = [c \in Tabs |-> FALSE]
  /\ acts = [c \in Tabs |-> 0] /\ said = [c \in Tabs |-> 0]
  /\ drops = 0 /\ excused = FALSE

(***************************************************************************)
(* The wire: sendMedia drops what it cannot send, the hub relays to the    *)
(* others and drops what nobody is there for.                              *)
(***************************************************************************)
Send(c, frames) ==
  chan' = IF up[c] /\ up[Peer(c)] THEN [chan EXCEPT ![Peer(c)] = @ \o frames] ELSE chan

\* What Agreement leaves out.
Excuses(because) == excused' = (excused \/ because)

\* A frame that c says is lost: nobody repeats what a tab says while its own
\* socket is down; and what the other one misses while the recording is open
\* there it never asks for, because the answer to its next req says open and
\* play, never pause or close.
Missed(c) == ~up[c] \/ (~up[Peer(c)] /\ media[Peer(c)] # None)

\* The frame that is lost is the req: the other tab is not there, and its player
\* is not as this tab will have it.
AsksInVain(c) ==
  ~up[Peer(c)] /\ (media[Peer(c)] # media[c] \/ el[Peer(c)] \notin {NoElement, Fresh(media[c])})

\* The file has changed and the render is to come: the element, and stateRef,
\* are of the file before.
Outdated(c) == el[c].file # media[c]

\* The tab has not heard its element, rendered its file, read its frames or
\* been told what it has asked for.
Asking(c) == \E k \in DOMAIN chan[Peer(c)] : chan[Peer(c)][k].action = "req"
Busy(c) == events[c] # <<>> \/ Outdated(c) \/ chan[c] # <<>> \/ Asking(c)

\* A person acts.
Acts(c) ==
  /\ acts[c] < MaxActs /\ acts' = [acts EXCEPT ![c] = @ + 1]
  /\ Excuses(Busy(c))

(***************************************************************************)
(* The element.  It fires only when it changes; the clip says nothing of   *)
(* a seek the page made, only of one the person made.                      *)
(***************************************************************************)
Played(c) == IF el[c].playing THEN <<>> ELSE <<"play">>
Paused(c) == IF el[c].playing THEN <<"pause">> ELSE <<>>

\* What is unheard when something else comes is late, and so is what follows.
By(evs, who) == [k \in DOMAIN evs |-> [says |-> evs[k], by |-> who]]
Late(evs) ==
  [k \in DOMAIN evs |-> IF evs[k].by = "page" THEN [evs[k] EXCEPT !.by = "late"] ELSE evs[k]]
Fires(c, evs, who) ==
  events' = [events EXCEPT ![c] =
    IF @ = <<>> THEN By(evs, who) ELSE Late(@ \o By(evs, who))]

\* play() is refused until the person has touched the page, or it is not.
Plays(c, ok) == el[c].playing \/ ok

Toggle(c) ==
  /\ el[c].file # None /\ Acts(c)
  /\ el' = [el EXCEPT ![c].playing = ~@]
  /\ Fires(c, Played(c) \o Paused(c), "person")
  /\ UNCHANGED <<what, up, chan, media, agreed, expected, pending, gesture, said, drops>>

\* The slider: the element moves, and says so.
Seek(c, p) ==
  /\ el[c].file # None /\ el[c].pos # p /\ Acts(c)
  /\ el' = [el EXCEPT ![c].pos = p]
  /\ Fires(c, <<"seeked">>, "person")
  /\ UNCHANGED <<what, up, chan, media, agreed, expected, pending, gesture, said, drops>>

\* The button "turn the sound on".
Resume(c) ==
  /\ gesture[c] /\ el[c].file # None /\ Acts(c)
  /\ gesture' = [gesture EXCEPT ![c] = FALSE]
  /\ el' = [el EXCEPT ![c].playing = TRUE]
  /\ Fires(c, Played(c), "person")
  /\ UNCHANGED <<what, up, chan, media, agreed, expected, pending, said, drops>>

\* What a person does to the player, not to the element, is sent at once.
Announces(c, frame) ==
  /\ Send(c, <<frame>>)
  /\ acts[c] < MaxActs /\ acts' = [acts EXCEPT ![c] = @ + 1]
  /\ Excuses(Busy(c) \/ Missed(c))
  /\ Fires(c, <<>>, "person")

setRate(c, r) ==
  /\ what = "file" /\ el[c].file # None /\ el[c].rate # r
  /\ Announces(c, Frame("seek", None, el[c].pos, r))
  /\ el' = [el EXCEPT ![c].rate = r]
  /\ UNCHANGED <<what, up, media, agreed, expected, pending, gesture, said, drops>>

\* Only the tutor opens a material and closes the player.
open(f) ==
  /\ what = "file" /\ media[Tutor] # f
  /\ Announces(Tutor, Frame("open", f, 0, 1))
  /\ media' = [media EXCEPT ![Tutor] = f]
  /\ gesture' = [gesture EXCEPT ![Tutor] = FALSE]
  /\ agreed' = [agreed EXCEPT ![Tutor] = "pause"]
  /\ UNCHANGED <<what, up, el, expected, pending, said, drops>>

close ==
  /\ what = "file" /\ media[Tutor] # None
  /\ Announces(Tutor, Frame("close", None, Unset, Unset))
  /\ media' = [media EXCEPT ![Tutor] = None]
  /\ agreed' = [agreed EXCEPT ![Tutor] = "pause"]
  /\ UNCHANGED <<what, up, el, expected, pending, gesture, said, drops>>

(***************************************************************************)
(* An event of the element: onLocalPlay, onLocalPause, onLocalSeeked.      *)
(***************************************************************************)
isEchoOfRemote(c, action) == agreed[c] = action
isSeekEcho(c) == expected[c] # Unset /\ el[c].pos = expected[c]

Speaks(c, action) ==
  /\ said[c] < MaxSaid /\ said' = [said EXCEPT ![c] = @ + 1]
  /\ Send(c, <<Frame(action, None, el[c].pos, Unset)>>)
  /\ Excuses(Missed(c) \/ chan[c] # <<>> \/ Asking(c))
Silent == UNCHANGED <<chan, said>>

localToggle(c, action) ==
  IF isEchoOfRemote(c, action)
  THEN /\ Silent /\ Excuses(Head(events[c]).by = "person")
       /\ UNCHANGED <<agreed, gesture, expected>>
  ELSE /\ agreed' = [agreed EXCEPT ![c] = action]
       /\ gesture' = [gesture EXCEPT ![c] = @ /\ action = "pause"]
       /\ Speaks(c, action) /\ UNCHANGED expected

\* The one place where a person is taken for an echo: a position that was
\* expected and set without a seek is expected still.
onLocalSeeked(c) ==
  /\ UNCHANGED <<agreed, gesture>>
  /\ IF what = "file" /\ isSeekEcho(c)
     THEN /\ Silent /\ expected' = [expected EXCEPT ![c] = Unset]
          /\ Excuses(Head(events[c]).by = "person")
     ELSE Speaks(c, "seek") /\ UNCHANGED expected

Hear(c) ==
  /\ events[c] # <<>>
  /\ events' = [events EXCEPT ![c] = Tail(@)]
  /\ IF Head(events[c]).says = "seeked" THEN onLocalSeeked(c)
     ELSE localToggle(c, Head(events[c]).says)
  /\ UNCHANGED <<up, media, el, pending, people>>

(***************************************************************************)
(* The render after a change of `media' replaces the element (its key is   *)
(* the file) and attaches the new one; the clip's player is attached when  *)
(* its API has loaded.  What came before the element is applied to it.     *)
(***************************************************************************)
Applied(c, f, ok) ==
  IF ~pending[c].set THEN Fresh(f)
  ELSE [file |-> f, playing |-> pending[c].play /\ ok, pos |-> pending[c].pos,
        rate |-> IF pending[c].rate = Unset \/ what = "clip" THEN 1 ELSE pending[c].rate]

attach(c, ok) ==
  /\ el[c].file # media[c] /\ media[c] # None
  /\ LET new == Applied(c, media[c], ok)
         pend == pending[c] IN
     /\ el' = [el EXCEPT ![c] = new]
     /\ events' = [events EXCEPT ![c] =
          By((IF what = "file" /\ new.pos > 0 THEN <<"seeked">> ELSE <<>>) \o
             (IF new.playing THEN <<"play">> ELSE <<>>), "page")]
     /\ IF pend.set
        THEN /\ agreed' = [agreed EXCEPT ![c] = IF pend.play THEN "play" ELSE "pause"]
             /\ expected' = [expected EXCEPT ![c] =
                               IF what = "file" THEN pend.pos ELSE Unset]
             /\ gesture' = [gesture EXCEPT ![c] = @ \/ (pend.play /\ ~ok)]
        ELSE UNCHANGED <<agreed, expected, gesture>>
  /\ pending' = [pending EXCEPT ![c] = NothingPending]
  /\ UNCHANGED <<up, chan, media, said, excused, people>>

detach(c) ==
  /\ media[c] = None /\ el[c] # NoElement
  /\ el' = [el EXCEPT ![c] = NoElement]
  /\ events' = [events EXCEPT ![c] = <<>>]
  /\ UNCHANGED <<up, chan, media, agreed, expected, pending, gesture, said, excused, people>>

(***************************************************************************)
(* A frame of the peer.                                                    *)
(***************************************************************************)
\* Bug: the answer says which file, not that it plays.
AnswerFileOnly(c) ==
  IF what = "clip" \/ el[c].file = None THEN <<>>
  ELSE <<Frame("open", el[c].file, el[c].pos, el[c].rate)>>
\* req: the player of materials answers open, and play if it plays; a clip
\* answers whether it plays.  stateRef, of which the answer speaks, changes
\* with the element, by an effect of the same render.
AnswerReq(c) ==
  LET e == el[c] IN
  IF e.file = None THEN <<>>
  ELSE IF what = "clip"
       THEN <<Frame(IF e.playing THEN "play" ELSE "pause", None, e.pos, Unset)>>
       ELSE <<Frame("open", e.file, e.pos, e.rate)>> \o
            (IF e.playing THEN <<Frame("play", None, e.pos, Unset)>> ELSE <<>>)

nextMediaState(prev, m) ==
  CASE m.action = "close" -> None [] m.action = "open" -> m.file [] OTHER -> prev

Or(x, default) == IF x = Unset THEN default ELSE x
Buffered(c, m) ==
  LET old == pending[c] IN
  IF m.action = "close" THEN old
  ELSE [set |-> TRUE,
        pos |-> Or(m.pos, IF old.set THEN old.pos ELSE 0),
        play |-> m.action = "play",
        rate |-> Or(m.rate, IF old.set THEN old.rate ELSE Unset)]

\* Bug: only the person's own clicks are agreed on.
AgreedOnOwn(c, m) == agreed[c]
AgreedOn(c, m) ==
  CASE m.action = "play" -> "play"
    [] m.action \in {"pause", "close"} -> "pause"
    [] OTHER -> agreed[c]

\* The frame meets an element: the rate, the position, then play or pause.
Obey(c, m, ok) ==
  LET moves == m.pos # Unset /\ m.pos # el[c].pos
      stops == m.action \in {"pause", "close"} IN
  /\ agreed' = [agreed EXCEPT ![c] = AgreedOn(c, m)]
  /\ expected' = [expected EXCEPT ![c] = IF moves /\ what = "file" THEN m.pos ELSE @]
  /\ el' = [el EXCEPT ![c] =
       [file |-> el[c].file, pos |-> Or(m.pos, el[c].pos), rate |-> Or(m.rate, el[c].rate),
        playing |-> CASE m.action = "play" -> Plays(c, ok)
                      [] stops -> FALSE
                      [] OTHER -> el[c].playing]]
  /\ Fires(c, (IF moves /\ what = "file" THEN <<"seeked">> ELSE <<>>) \o
              (CASE m.action = "play" /\ ok -> Played(c)
                 [] stops -> Paused(c)
                 [] OTHER -> <<>>), "page")
  /\ gesture' = [gesture EXCEPT ![c] = @ \/ (m.action = "play" /\ ~Plays(c, ok))]

Receive(c, ok) ==
  /\ chan[c] # <<>>
  /\ LET m == Head(chan[c])
         rest == [chan EXCEPT ![c] = Tail(@)] IN
     IF m.action = "req"
     THEN /\ chan' = IF up[Peer(c)] THEN [rest EXCEPT ![Peer(c)] = @ \o AnswerReq(c)] ELSE rest
          /\ Excuses(Outdated(c))
          /\ UNCHANGED pageVars
     ELSE /\ chan' = rest
          /\ media' = [media EXCEPT ![c] = nextMediaState(@, m)]
          /\ IF el[c].file = None
             THEN /\ pending' = [pending EXCEPT ![c] = Buffered(c, m)]
                  /\ UNCHANGED <<el, events, agreed, expected, gesture>>
             ELSE Obey(c, m, ok) /\ UNCHANGED pending
          /\ Excuses(events[c] # <<>> \/ Outdated(c))
  /\ UNCHANGED <<up, said, people>>

(***************************************************************************)
(* Connections.  A tab that has connected asks for the state.              *)
(***************************************************************************)
Connect(c) ==
  /\ ~up[c] /\ up' = [up EXCEPT ![c] = TRUE]
  /\ chan' = [chan EXCEPT ![c] = <<>>,
                          ![Peer(c)] = IF up[Peer(c)]
                            THEN Append(@, Frame("req", None, Unset, Unset)) ELSE @]
  /\ Excuses(AsksInVain(c))
  /\ UNCHANGED <<pageVars, said, people>>

Drop(c) ==
  /\ up[c] /\ drops < MaxDrops
  /\ drops' = drops + 1
  /\ up' = [up EXCEPT ![c] = FALSE]
  /\ Excuses(chan[c] # <<>>)
  /\ chan' = [chan EXCEPT ![c] = <<>>]
  /\ UNCHANGED <<what, pageVars, acts, said>>

\* The page is loaded again: everything but the board itself is new.
Reload(c) ==
  /\ up[c] /\ drops < MaxDrops
  /\ drops' = drops + 1
  /\ up' = [up EXCEPT ![c] = FALSE]
  /\ chan' = [chan EXCEPT ![c] = <<>>]
  /\ media' = [media EXCEPT ![c] = IF what = "clip" THEN @ ELSE None]
  /\ el' = [el EXCEPT ![c] = NoElement]
  /\ events' = [events EXCEPT ![c] = <<>>]
  /\ agreed' = [agreed EXCEPT ![c] = "unset"]
  /\ expected' = [expected EXCEPT ![c] = Unset]
  /\ pending' = [pending EXCEPT ![c] = NothingPending]
  /\ gesture' = [gesture EXCEPT ![c] = FALSE]
  /\ UNCHANGED <<what, acts, said, excused>>

MediaNext ==
  \/ \E c \in Tabs : \/ Toggle(c) \/ Resume(c) \/ Hear(c) \/ detach(c)
                     \/ Connect(c) \/ Drop(c) \/ Reload(c)
                     \/ \E p \in Positions : Seek(c, p)
                     \/ \E r \in Rates : setRate(c, r)
                     \/ \E ok \in BOOLEAN : attach(c, ok) \/ Receive(c, ok)
  \/ \E f \in Files : open(f)
  \/ close

MediaSpec == MediaInit /\ [][MediaNext]_mediaVars

(***************************************************************************)
(* Properties.                                                             *)
(***************************************************************************)
\* A tab speaks for its own person only: what a frame of the peer made the
\* element fire is never sent back, unless another frame or act came before the
\* event was heard; and such a one leaves nothing behind by which an event that
\* comes in time is taken for a click later (useYouTubeSync.ts:34-37,
\* useMediaPlayer.ts:55-66).
NoEcho ==
  [][\A c \in Tabs :
       said'[c] # said[c] => Head(events[c]).by \in {"person", "late"}]_mediaVars

AllHeard ==
  \A c \in Tabs : /\ up[c] /\ chan[c] = <<>> /\ events[c] = <<>>
                  /\ el[c].file = media[c]

\* When nothing is on its way both have the same file at the same place and
\* speed, and both play or neither does, but for the click the browser insists
\* on: unless a frame was lost, or somebody acted or a frame came before the tab
\* was done with the one before.  The types go along.
Agreement ==
  /\ MediaTypeOK
  /\ (AllHeard /\ ~excused) =>
       LET t == el[Tutor] s == el[Student] IN
       /\ s.file = t.file /\ s.pos = t.pos /\ s.rate = t.rate
       /\ s.playing = t.playing \/ gesture[Student] \/ gesture[Tutor]

\* Not a property of the code: "a frame is sent only by the one whose person has
\* clicked; who takes it applies the command and is silent"
\* (useYouTubeSync.ts:34-35).
SilentListener == \A c \in Tabs : acts[c] = 0 => said[c] = 0

\* Not a property of the code: the hook "tells a live click from the echo of
\* another's command" (MediaPlayer.tsx:144-145), so a person's seek, the only
\* event that waits, is passed on.
SeekIsPassedOn ==
  [][\A c \in Tabs :
       /\ events[c] = <<[says |-> "seeked", by |-> "person"]>>
       /\ events'[c] = <<>> /\ el'[c] = el[c]
       => said'[c] # said[c]]_mediaVars
=============================================================================
