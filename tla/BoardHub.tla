------------------------------ MODULE BoardHub ------------------------------
(***************************************************************************)
(* The live side of one board page: handlers/whiteboard_ws.go and          *)
(* handlers/whiteboard_presence.go.                                        *)
(*                                                                         *)
(* WbHubManager keeps at most one hub per page.  A hub is one goroutine,   *)
(* wbHub.run, that owns the set of members and the presence registry and   *)
(* serves four cases of a select: register and unregister (unbuffered), a  *)
(* ticker, and a buffered channel of messages.  A connection is two        *)
(* goroutines, readPump and writePump, and a buffered channel `out`        *)
(* between the hub and writePump (wbClient.send).  Each case of the select *)
(* runs to its end without blocking, so it is one step.                    *)
(*                                                                         *)
(* A hub dies with its last member and a later client gets a new one: hubs *)
(* are numbered by generation.                                             *)
(***************************************************************************)
EXTENDS Naturals, Sequences, SequencesExt, FiniteSets

CONSTANTS Clients,       \* connections; each is used once
          Server,        \* the sender of a push (sender == nil in the code)
          Nobody,        \* "follows nobody"
          NoMsg,         \* "no message in hand"
          Kinds,         \* the kinds of messages clients send in this model
          BroadcastCap,  \* capacity of wbHub.broadcast: 64
          SendCap,       \* capacity of wbClient.send: 256
          MaxHubs,       \* bound: generations of the hub
          MaxMessages    \* bound: messages the server reads

\* "other": the kinds the hub relays without knowing them.
AllKinds == {"update", "other", "cursor", "viewport", "follow", "unfollow"}

ASSUME HubAssumption ==
  /\ Kinds \subseteq AllKinds
  /\ BroadcastCap \in Nat \ {0} /\ SendCap \in Nat \ {0}
  /\ MaxHubs \in Nat \ {0} /\ MaxMessages \in Nat
  /\ IsFiniteSet(Clients) /\ Server \notin Clients /\ Nobody \notin Clients

Hubs == 1..MaxHubs
Numbers == 1..MaxMessages

VARIABLES
  hub,        \* WbHubManager.hubs[page], 0 if there is none
  gen,        \* hubs created so far
  done,       \* the hubs whose channel `done` is closed
  members,    \* wbHub.clients
  broadcast,  \* wbHub.broadcast
  presence,   \* the presenceRegistry of each hub
  reader,     \* where the handler, later readPump, of a connection is
  at,         \* wbClient.hub, 0 before getOrCreate
  hand,       \* the message readPump is about to put into broadcast
  out,        \* wbClient.send
  closed,     \* the connections whose `send` is closed
  pushing,    \* the hub a server push has looked up, 0 if none is under way
  crashed,    \* a goroutine panicked: the process is gone
  made,       \* messages read so far
  log,        \* history: the updates each hub relayed and handed to the buffer
  since,      \* history: how many of them preceded the client
  got         \* history: the updates writePump wrote to the connection

managerVars == <<hub, gen, done>>
connVars == <<reader, at, hand>>
sendVars == <<out, closed, members>>
historyVars == <<made, log, since, got>>
vars == <<managerVars, broadcast, presence, connVars, sendVars, pushing,
          crashed, historyVars>>

\* A message, or a frame in the send channel.  arg: an update's number, the
\* target of a follow.
Message(kind, from, arg) == [kind |-> kind, from |-> from, arg |-> arg]
Snapshot == Message("snapshot", Server, 0)
Followers == Message("followers", Server, 0)
Messages ==
  [kind : AllKinds \cup {"snapshot", "followers", "leave"},
   from : Clients \cup {Server}, arg : Clients \cup Numbers \cup {0}]

\* presenceRegistry: the peers with a cursor and with a viewport, which of
\* them changed since the last tick, and who follows whom.
Registry ==
  [cursor : SUBSET Clients, view : SUBSET Clients,
   cdirty : SUBSET Clients, vdirty : SUBSET Clients,
   following : [Clients -> Clients \cup {Nobody}]]
NewRegistry ==
  [cursor |-> {}, view |-> {}, cdirty |-> {}, vdirty |-> {},
   following |-> [c \in Clients |-> Nobody]]

TypeOK ==
  /\ hub \in 0..MaxHubs /\ gen \in 0..MaxHubs /\ done \subseteq Hubs
  /\ members \in [Hubs -> SUBSET Clients]
  /\ \A h \in Hubs : broadcast[h] \in Seq(Messages) /\ Len(broadcast[h]) <= BroadcastCap
  /\ presence \in [Hubs -> Registry]
  /\ reader \in [Clients -> {"off", "joining", "reading", "sending", "leaving", "left"}]
  /\ at \in [Clients -> 0..MaxHubs]
  /\ hand \in [Clients -> Messages \cup {NoMsg}]
  /\ \A c \in Clients : out[c] \in Seq(Messages) /\ Len(out[c]) <= SendCap
  /\ closed \subseteq Clients
  /\ pushing \in 0..MaxHubs
  /\ crashed \in BOOLEAN
  /\ made \in 0..MaxMessages
  /\ \A h \in Hubs : log[h] \in Seq(Messages)
  /\ since \in [Clients -> Nat]
  /\ \A c \in Clients : got[c] \in Seq(Numbers)

Init ==
  /\ hub = 0 /\ gen = 0 /\ done = {}
  /\ members = [h \in Hubs |-> {}]
  /\ broadcast = [h \in Hubs |-> <<>>]
  /\ presence = [h \in Hubs |-> NewRegistry]
  /\ reader = [c \in Clients |-> "off"]
  /\ at = [c \in Clients |-> 0]
  /\ hand = [c \in Clients |-> NoMsg]
  /\ out = [c \in Clients |-> <<>>]
  /\ closed = {}
  /\ pushing = 0 /\ crashed = FALSE /\ made = 0
  /\ log = [h \in Hubs |-> <<>>]
  /\ since = [c \in Clients |-> 0]
  /\ got = [c \in Clients |-> <<>>]

Running(h) == h \in 1..gen /\ h \notin done

\* The process lives, and the goroutine of this connection is there.
Is(c, place) == ~crashed /\ reader[c] = place

-----------------------------------------------------------------------------
(* ServeWS *)

\* Read the state of the page, upgrade, put the snapshot into `send`.  If the
\* read fails the client is let in without one.
ReadState(c) ==
  /\ Is(c, "off")
  /\ reader' = [reader EXCEPT ![c] = "joining"]
  /\ \E seed \in {<<>>, <<Snapshot>>} : out' = [out EXCEPT ![c] = seed]
  /\ UNCHANGED <<managerVars, broadcast, presence, at, hand, closed, members,
                 pushing, crashed, historyVars>>

\* getOrCreate, under the manager's lock; client.hub = hub.
GetOrCreate(c) ==
  /\ Is(c, "joining") /\ at[c] = 0
  /\ IF hub # 0 THEN UNCHANGED <<hub, gen>>
                ELSE gen < MaxHubs /\ gen' = gen + 1 /\ hub' = gen + 1
  /\ at' = [at EXCEPT ![c] = hub']
  /\ UNCHANGED <<done, broadcast, presence, reader, hand, sendVars,
                 pushing, crashed, historyVars>>

\* Mutant: a bare hub.register <- client, without the case on done.
NoRetry(c) == FALSE

\* case <-hub.done: the hub died before it took the client; try the next one.
Retry(c) ==
  /\ Is(c, "joining") /\ at[c] \in done
  /\ at' = [at EXCEPT ![c] = 0]
  /\ UNCHANGED <<managerVars, broadcast, presence, reader, hand, sendVars,
                 pushing, crashed, historyVars>>

-----------------------------------------------------------------------------
(* The frames a step of the hub sends.  `mail` gives for each client the    *)
(* frames it is sent, in order.                                             *)

NoMail == [c \in Clients |-> <<>>]
FollowersMail == [c \in Clients |-> <<Followers>>]  \* broadcastFollowers

\* Mutant: a frame for which there is no room is dropped, the client stays.
OverflowsNever(to, mail) == {}

\* The clients whose channel has no room for all of their frames.
Overflows(to, mail) == {c \in to : Len(out[c] \o mail[c]) > SendCap}

\* What the channel holds after the frames there was room for.
Queued(c, mail) ==
  LET all == out[c] \o mail[c] IN SubSeq(all, 1, IF Len(all) > SendCap THEN SendCap ELSE Len(all))

\* Mutant: an evicted client is not taken out of the map.
MailKeepsEvicted(h, inside, to, mail) ==
  /\ out' = [c \in Clients |-> IF c \in to THEN Queued(c, mail) ELSE out[c]]
  /\ members' = [members EXCEPT ![h] = inside]
  /\ closed' = closed \cup Overflows(to, mail)
  /\ crashed' = (\E c \in to \cap closed : mail[c] # <<>>)

\* send, to each of `to`, by a hub whose members are those `inside`: a client
\* that is too slow is evicted, i.e. removed and its channel closed, without a
\* word to the others.  A send on a closed channel is a panic.
Mail(h, inside, to, mail) ==
  /\ out' = [c \in Clients |-> IF c \in to THEN Queued(c, mail) ELSE out[c]]
  /\ members' = [members EXCEPT ![h] = inside \ Overflows(to, mail)]
  /\ closed' = closed \cup Overflows(to, mail)
  /\ crashed' = (\E c \in to \cap closed : mail[c] # <<>>)

SomeoneFollows(h) == \E c \in Clients : presence[h].following[c] # Nobody

-----------------------------------------------------------------------------
(* wbHub.run *)

\* case client := <-h.register
Register(c) ==
  LET h == at[c] IN
  /\ Is(c, "joining") /\ Running(h)
  /\ reader' = [reader EXCEPT ![c] = "reading"]
  /\ since' = [since EXCEPT ![c] = Len(log[h])]
  /\ LET inside == members[h] \cup {c}
     IN Mail(h, inside, inside, IF SomeoneFollows(h) THEN FollowersMail ELSE NoMail)
  /\ UNCHANGED <<managerVars, broadcast, presence, at, hand, pushing, made, log, got>>

\* presenceRegistry.remove
Forget(reg, c) ==
  [cursor |-> reg.cursor \ {c}, view |-> reg.view \ {c},
   cdirty |-> reg.cdirty \ {c}, vdirty |-> reg.vdirty \ {c},
   following |-> [f \in Clients |-> IF f = c \/ reg.following[f] = c
                                    THEN Nobody ELSE reg.following[f]]]

\* The leave frame is dropped where there is no room for it; the follower
\* counts that may come after it are not.
LeaveMail(h, c) ==
  [d \in Clients |->
     (IF Len(out[d]) < SendCap THEN <<Message("leave", c, 0)>> ELSE <<>>)
       \o (IF SomeoneFollows(h) THEN <<Followers>> ELSE <<>>)]

\* Mutant: an off-by-one in the check for emptiness.
TearDownEarly(h) ==
  IF Cardinality(members'[h]) <= 1
  THEN hub' = 0 /\ done' = done \cup {h} /\ UNCHANGED gen
  ELSE UNCHANGED managerVars

\* A hub without members leaves the map and ends, in one step under the
\* manager's lock.
TearDownIfEmpty(h) ==
  IF members'[h] = {} THEN hub' = 0 /\ done' = done \cup {h} /\ UNCHANGED gen
                      ELSE UNCHANGED managerVars

\* case client := <-h.unregister.  One that was evicted is not in the map.
Unregister(c) ==
  LET h == at[c] IN
  /\ Is(c, "leaving") /\ Running(h)
  /\ reader' = [reader EXCEPT ![c] = "left"]
  /\ IF c \in members[h]
     THEN LET rest == members[h] \ {c}
              mail == LeaveMail(h, c)
          IN /\ presence' = [presence EXCEPT ![h] = Forget(@, c)]
             /\ out' = [d \in Clients |-> IF d \in rest THEN Queued(d, mail) ELSE out[d]]
             /\ members' = [members EXCEPT ![h] = rest \ Overflows(rest, mail)]
             /\ closed' = closed \cup {c} \cup Overflows(rest, mail)
             /\ crashed' = (c \in closed \/ \E d \in rest \cap closed : mail[d] # <<>>)
     ELSE UNCHANGED <<presence, sendVars, crashed>>
  /\ TearDownIfEmpty(h)
  /\ UNCHANGED <<broadcast, at, hand, pushing, historyVars>>

\* presenceRegistry.flush: a cursor that moved goes to all but its owner, a
\* viewport to those who follow its owner.
FlushMail(reg) ==
  [c \in Clients |->
     SetToSeq({Message("cursor", o, 0) : o \in (reg.cdirty \cap reg.cursor) \ {c}})
     \o SetToSeq({Message("viewport", o, 0) :
                    o \in {v \in reg.vdirty \cap reg.view : reg.following[c] = v}})]

\* case <-ticker.C
Tick(h) ==
  /\ ~crashed /\ Running(h)
  /\ presence[h].cdirty \cup presence[h].vdirty # {}
  /\ Mail(h, members[h], members[h], FlushMail(presence[h]))
  /\ presence' = [presence EXCEPT ![h].cdirty = {}, ![h].vdirty = {}]
  /\ UNCHANGED <<managerVars, broadcast, connVars, pushing, historyVars>>

\* case msg := <-h.broadcast
Take(h, kinds) ==
  /\ ~crashed /\ Running(h) /\ broadcast[h] # <<>>
  /\ Head(broadcast[h]).kind \in kinds
  /\ broadcast' = [broadcast EXCEPT ![h] = Tail(@)]
  /\ UNCHANGED <<managerVars, connVars, pushing, made, since, got>>

\* update, and the kinds the hub does not know: relayed to all but the
\* sender; an update goes to the write-behind buffer after that.
Relay(h) ==
  LET m == Head(broadcast[h]) IN
  /\ Take(h, {"update", "other"})
  /\ Mail(h, members[h], members[h], [c \in Clients |-> IF c = m.from THEN <<>> ELSE <<m>>])
  /\ log' = IF m.kind = "update" THEN [log EXCEPT ![h] = Append(@, m)] ELSE log
  /\ UNCHANGED presence

\* Into the registry; the ticker sends it.
SetCursor(h) ==
  LET c == Head(broadcast[h]).from IN
  /\ Take(h, {"cursor"})
  /\ presence' = [presence EXCEPT ![h].cursor = @ \cup {c}, ![h].cdirty = @ \cup {c}]
  /\ UNCHANGED <<sendVars, crashed, log>>

SetViewport(h) ==
  LET c == Head(broadcast[h]).from IN
  /\ Take(h, {"viewport"})
  /\ presence' = [presence EXCEPT ![h].view = @ \cup {c}, ![h].vdirty = @ \cup {c}]
  /\ UNCHANGED <<sendVars, crashed, log>>

\* The sender, member or not, is sent the viewport of its target if that is
\* known, and all members the new counts.
Follow(h) ==
  LET m == Head(broadcast[h])
      snap == m.arg \in presence[h].view
  IN
  /\ Take(h, {"follow"})
  /\ presence' = [presence EXCEPT ![h].following[m.from] = m.arg]
  /\ IF snap
     THEN Mail(h, members[h], members[h] \cup {m.from},
               [c \in Clients |-> IF c = m.from
                                  THEN <<Message("viewport", m.arg, 0), Followers>>
                                  ELSE <<Followers>>])
     ELSE Mail(h, members[h], members[h], FollowersMail)
  /\ UNCHANGED log

Unfollow(h) ==
  /\ Take(h, {"unfollow"})
  /\ presence' = [presence EXCEPT ![h].following[Head(broadcast[h]).from] = Nobody]
  /\ Mail(h, members[h], members[h], FollowersMail)
  /\ UNCHANGED log

-----------------------------------------------------------------------------
(* readPump *)

\* What a client may send next.
Incoming(c) ==
  {Message(k, c, 0) : k \in Kinds \cap {"other", "cursor", "viewport", "unfollow"}}
  \cup {Message("follow", c, t) : t \in IF "follow" \in Kinds THEN Clients \ {c} ELSE {}}
  \cup {Message("update", c, made + 1) : k \in Kinds \cap {"update"}}

\* A message was read and passed the limits.  That may be one that had
\* reached the read buffer before the connection was closed.
Receive(c, m) ==
  /\ Is(c, "reading") /\ made < MaxMessages
  /\ m \in Incoming(c)
  /\ made' = made + 1
  /\ hand' = [hand EXCEPT ![c] = m]
  /\ reader' = [reader EXCEPT ![c] = "sending"]
  /\ UNCHANGED <<managerVars, broadcast, presence, at, sendVars, pushing,
                 crashed, log, since, got>>

\* hub.broadcast <- msg: waits for room, whether or not the hub still runs.
Enqueue(c) ==
  /\ Is(c, "sending") /\ Len(broadcast[at[c]]) < BroadcastCap
  /\ broadcast' = [broadcast EXCEPT ![at[c]] = Append(@, hand[c])]
  /\ hand' = [hand EXCEPT ![c] = NoMsg]
  /\ reader' = [reader EXCEPT ![c] = "reading"]
  /\ UNCHANGED <<managerVars, presence, at, sendVars, pushing, crashed,
                 historyVars>>

\* The read fails: the peer is gone, too slow, or over a limit.  From here on
\* readPump waits in hub.unregister <- c.
Leave(c) ==
  /\ Is(c, "reading")
  /\ reader' = [reader EXCEPT ![c] = "leaving"]
  /\ UNCHANGED <<managerVars, broadcast, presence, at, hand, sendVars,
                 pushing, crashed, historyVars>>

(* writePump.  It returns when a write fails or its channel is closed and  *)
(* drained; that is a behaviour in which this is not taken any more.        *)

Write(c) ==
  /\ ~crashed /\ reader[c] \notin {"off", "joining"} /\ out[c] # <<>>
  /\ out' = [out EXCEPT ![c] = Tail(@)]
  /\ got' = IF Head(out[c]).kind = "update"
            THEN [got EXCEPT ![c] = Append(@, Head(out[c]).arg)] ELSE got
  /\ UNCHANGED <<managerVars, broadcast, presence, connVars, closed, members,
                 pushing, crashed, made, log, since>>

-----------------------------------------------------------------------------
(* PushToPage: look the hub up under the lock, push after it was released. *)

LookUp ==
  /\ ~crashed /\ pushing = 0 /\ hub # 0 /\ "other" \in Kinds
  /\ pushing' = hub
  /\ UNCHANGED <<managerVars, broadcast, presence, connVars, sendVars,
                 crashed, historyVars>>

\* The push never waits: it is dropped if the channel is full.
Push ==
  /\ ~crashed /\ pushing # 0 /\ made < MaxMessages
  /\ pushing' = 0
  /\ made' = made + 1
  /\ broadcast' = IF Len(broadcast[pushing]) < BroadcastCap
                  THEN [broadcast EXCEPT ![pushing] = Append(@, Message("other", Server, 0))]
                  ELSE broadcast
  /\ UNCHANGED <<managerVars, presence, connVars, sendVars, crashed,
                 log, since, got>>

-----------------------------------------------------------------------------
Joins(c) == GetOrCreate(c) \/ Retry(c) \/ Register(c)

Next ==
  \/ \E c \in Clients :
       \/ ReadState(c) \/ Joins(c) \/ Unregister(c)
       \/ (\E m \in Incoming(c) : Receive(c, m)) \/ Enqueue(c) \/ Leave(c)
       \/ Write(c)
  \/ \E h \in Hubs :
       Relay(h) \/ SetCursor(h) \/ SetViewport(h) \/ Follow(h) \/ Unfollow(h) \/ Tick(h)
  \/ LookUp \/ Push

Spec == Init /\ [][Next]_vars

\* The goroutine of a request is scheduled, and the select of a running hub
\* picks among its ready cases at random: a registration is not passed over
\* for ever.  Nothing else has to happen.
FairSpec == Spec /\ \A c \in Clients : WF_vars(Joins(c))
-----------------------------------------------------------------------------
(* Properties *)

\* No split brain: everybody who is in a hub is in the one of the map, which
\* runs, so two people on a page see each other, however clients join while
\* the last one leaves.  (getOrCreate, the teardown under mgr.mu, the retry on
\* done: "avoids the register-after-close race".)  The types go along, for a
\* hub is only a member of Hubs as long as they hold.
OneRoom ==
  /\ TypeOK
  /\ \A h \in Hubs : /\ members[h] # {} => h = hub
                     /\ Running(h) <=> h = hub /\ hub # 0

\* The numbers of the updates in a sequence of messages, save those of one
\* sender.
Noted(numbers, m, but) ==
  IF m.kind = "update" /\ m.from # but THEN Append(numbers, m.arg) ELSE numbers

Updates(s, but) ==
  LET u[n \in 0..Len(s)] == IF n = 0 THEN <<>> ELSE Noted(u[n - 1], s[n], but)
  IN u[Len(s)]

\* The updates of others that a client is owed since it registered, and those
\* it was sent or finds in its channel.
Owed(h, c) == Updates(SubSeq(log[h], since[c] + 1, Len(log[h])), c)
Received(c) == got[c] \o Updates(out[c], Nobody)

\* A client that is still in the hub has missed nothing: what it was sent and
\* what waits in its channel is, in order, exactly what the others drew since
\* it registered.  One that was too slow is thrown out rather than left with
\* a gap, and even then what it got has no gap.
NoGap ==
  \A c \in Clients : at[c] # 0 =>
    LET h == at[c] IN
    /\ c \in members[h] => Received(c) = Owed(h, c)
    /\ IsPrefix(Received(c), Owed(h, c))

\* The next message of a hub is a follow whose sender is gone.
LateFollow(h) ==
  /\ Running(h) /\ broadcast[h] # <<>>
  /\ Head(broadcast[h]).kind = "follow" /\ Head(broadcast[h]).from \in closed

\* Evicting and leaving in any order never sends on a closed channel nor
\* closes one twice, save for one hole: a follow that is handled after its
\* sender was evicted or has left (see NoPanic).
PanicOnlyOnLateFollow ==
  [][crashed' => \E h \in Hubs : LateFollow(h)]_vars

\* Not a property of the code: whiteboard_ws.go:278-280 guards the messages
\* that dereference their sender because a panic would take down the hub's
\* goroutine, and the process with it, but a late follow still does so.
NoPanic == ~crashed

\* Whoever connects gets into a hub, however often the hub it was given dies
\* under it; what it finds at worst is one more hub to wait for.
JoinersGetIn ==
  \A c \in Clients : reader[c] = "joining" ~> reader[c] # "joining" \/ crashed
=============================================================================
