---------------------------- MODULE BoardHubProofs ----------------------------
(***************************************************************************)
(* What holds of the hubs of a page for any number of connections, of hubs  *)
(* and of messages and for channels of any capacity: nobody is in a hub     *)
(* other than the one of the map, the only send on a closed channel is the  *)
(* answer to a late follow, and nobody misses an update.                    *)
(***************************************************************************)
EXTENDS BoardHub, FiniteSetTheorems, WellFoundedInduction, TLAPS

\* Messages as their kinds have them.
Proper ==
  {m \in Messages :
     /\ m.kind = "update" => m.from \in Clients /\ m.arg \in Numbers
     /\ m.kind = "follow" => m.from \in Clients /\ m.arg \in Clients
     /\ m.kind \in {"cursor", "viewport", "unfollow"} => m.from \in Clients}

\* The types, and that there is a channel for everybody.
Typed ==
  /\ TypeOK
  /\ out \in [Clients -> Seq(Proper)] /\ got \in [Clients -> Seq(Numbers)]
  /\ broadcast \in [Hubs -> Seq(Proper)] /\ log \in [Hubs -> Seq(Proper)]

\* No hub but the one of the map runs or has members.
OneHub ==
  /\ \A h \in Hubs : /\ members[h] # {} => h = hub
                     /\ Running(h) <=> h = hub /\ hub # 0
  /\ done \subseteq 1..gen

\* Past the registration a connection has a hub, and sends in its own name.
Seated ==
  \A c \in Clients :
    /\ reader[c] \in {"reading", "sending", "leaving"} => at[c] # 0
    /\ reader[c] = "sending" => hand[c] \in Proper /\ hand[c].from = c

\* Before it the connection is nowhere to be found.
From(h, c) == \E i \in DOMAIN broadcast[h] : broadcast[h][i].from = c
Newcomers ==
  \A c \in Clients : reader[c] \in {"off", "joining"} =>
    c \notin closed /\ \A h \in Hubs : c \notin members[h] /\ ~From(h, c)

\* Whoever was evicted is out of the map in the same step.
MembersAreOpen == ~crashed => \A h \in Hubs : members[h] \cap closed = {}

HubInv == Typed /\ OneHub /\ Seated /\ Newcomers /\ MembersAreOpen
-----------------------------------------------------------------------------
(* Lemmas about messages and sequences *)

\* What the hub sends of its own accord: anything but an update.
Quiet == {m \in Proper : m.kind # "update"}

LEMMA Frames ==
  /\ Snapshot \in Quiet /\ Followers \in Quiet /\ Message("other", Server, 0) \in Quiet
  /\ \A c \in Clients : /\ Message("cursor", c, 0) \in Quiet
                        /\ Message("viewport", c, 0) \in Quiet
                        /\ Message("leave", c, 0) \in Quiet
  BY DEF Snapshot, Followers, Message, Quiet, Proper, Messages, AllKinds

LEMMA IncomingIsProper ==
  ASSUME NEW c \in Clients, NEW m \in Incoming(c), made \in 0..MaxMessages, made < MaxMessages
  PROVE  m \in Proper /\ m.from = c
  <1>1. MaxMessages \in Nat
    BY HubAssumption
  <1>2. made + 1 \in Numbers
    BY <1>1 DEF Numbers
  <1>3. CASE \E k \in {"other", "cursor", "viewport", "unfollow"} : m = Message(k, c, 0)
    BY <1>3 DEF Message, Proper, Messages, AllKinds
  <1>4. CASE \E t \in Clients : m = Message("follow", c, t)
    BY <1>4 DEF Message, Proper, Messages, AllKinds
  <1>5. CASE m = Message("update", c, made + 1)
    BY <1>2, <1>5 DEF Message, Proper, Messages, AllKinds
  <1>6. QED
    BY <1>3, <1>4, <1>5 DEF Incoming

\* The elements of a finite set, in some order.
LEMMA SetToSeqType == ASSUME NEW S, IsFiniteSet(S) PROVE SetToSeq(S) \in Seq(S)
  <1>1. Cardinality(S) \in Nat /\ ExistsBijection(1..Cardinality(S), S)
    BY FS_CardinalityType
  <1>2. PICK f : f \in Bijection(1..Cardinality(S), S)
    BY <1>1 DEF ExistsBijection
  <1>3. f \in [1..Cardinality(S) -> S] /\ IsInjective(f)
    BY <1>2 DEF Bijection, Injection
  <1>4. SetToSeq(S) \in [1..Cardinality(S) -> S]
    BY <1>3 DEF SetToSeq
  <1>5. QED
    BY <1>1, <1>4

\* Frames of one kind from finitely many peers.
LEMMA FramesToSeq ==
  ASSUME NEW kind \in {"cursor", "viewport"}, NEW S \in SUBSET Clients
  PROVE  SetToSeq({Message(kind, c, 0) : c \in S}) \in Seq(Quiet)
  <1> DEFINE T == {Message(kind, c, 0) : c \in S}
             f == [c \in S |-> Message(kind, c, 0)]
  <1>1. IsFiniteSet(S)
    BY HubAssumption, FS_Subset
  <1>2. f \in Surjection(S, T)
    BY DEF Surjection
  <1> HIDE DEF T, f
  <1>3. IsFiniteSet(T)
    BY <1>1, <1>2, FS_Surjection
  <1>4. T \subseteq Quiet
    BY Frames DEF T
  <1>5. SetToSeq(T) \in Seq(T)
    BY <1>3, SetToSeqType
  <1>6. SetToSeq(T) \in Seq(Quiet)
    BY <1>4, <1>5
  <1>7. QED
    BY <1>6 DEF T

\* What the steps of the hub put together to be sent.
Mails == [Clients -> Seq(Proper)]
QuietMails == [Clients -> Seq(Quiet)]

LEMMA QuietTypes ==
  /\ NoMail \in QuietMails /\ FollowersMail \in QuietMails
  /\ \A reg \in Registry : FlushMail(reg) \in QuietMails
  /\ \A h \in Hubs, c \in Clients : LeaveMail(h, c) \in QuietMails
  <1>1. NoMail \in QuietMails /\ FollowersMail \in QuietMails
    BY Frames DEF QuietMails, NoMail, FollowersMail
  <1>2. ASSUME NEW reg \in Registry PROVE FlushMail(reg) \in QuietMails
    <2> DEFINE cursors(c) == (reg.cdirty \cap reg.cursor) \ {c}
               views(c) == {v \in reg.vdirty \cap reg.view : reg.following[c] = v}
               mail(c) == SetToSeq({Message("cursor", o, 0) : o \in cursors(c)})
                          \o SetToSeq({Message("viewport", o, 0) : o \in views(c)})
    <2>1. ASSUME NEW c \in Clients PROVE mail(c) \in Seq(Quiet)
      <3>1. cursors(c) \in SUBSET Clients /\ views(c) \in SUBSET Clients
        BY <1>2 DEF Registry
      <3> HIDE DEF cursors, views
      <3>2. /\ SetToSeq({Message("cursor", o, 0) : o \in cursors(c)}) \in Seq(Quiet)
            /\ SetToSeq({Message("viewport", o, 0) : o \in views(c)}) \in Seq(Quiet)
        BY <3>1, FramesToSeq
      <3>3. QED
        BY <3>2
    <2>2. FlushMail(reg) = [c \in Clients |-> mail(c)]
      BY DEF FlushMail
    <2> HIDE DEF mail
    <2>3. QED
      BY <2>1, <2>2 DEF QuietMails
  <1>3. ASSUME NEW h \in Hubs, NEW c \in Clients PROVE LeaveMail(h, c) \in QuietMails
    <2>1. <<Message("leave", c, 0)>> \in Seq(Quiet) /\ <<Followers>> \in Seq(Quiet)
      BY Frames
    <2>2. QED
      BY <2>1 DEF LeaveMail, QuietMails
  <1>4. QED
    BY <1>1, <1>2, <1>3

LEMMA MailTypes ==
  /\ NoMail \in Mails /\ FollowersMail \in Mails
  /\ \A reg \in Registry : FlushMail(reg) \in Mails
  /\ \A h \in Hubs, c \in Clients : LeaveMail(h, c) \in Mails
  <1>1. Quiet \subseteq Proper
    BY DEF Quiet
  <1>2. QuietMails \subseteq Mails
    BY <1>1 DEF QuietMails, Mails
  <1>3. QED
    BY <1>2, QuietTypes

\* A channel takes what there is room for.
LEMMA QueuedType ==
  ASSUME Typed, NEW c \in Clients, NEW mail \in Mails
  PROVE  Queued(c, mail) \in Seq(Proper) /\ Len(Queued(c, mail)) <= SendCap
  <1> DEFINE n(all) == IF Len(all) > SendCap THEN SendCap ELSE Len(all)
  <1>1. out[c] \in Seq(Proper) /\ mail[c] \in Seq(Proper)
    BY DEF Typed, Mails
  <1>2. PICK all \in Seq(Proper) : all = out[c] \o mail[c]
    <2>1. ASSUME NEW p \in Seq(Proper), NEW q \in Seq(Proper) PROVE p \o q \in Seq(Proper)
      OBVIOUS
    <2>2. out[c] \o mail[c] \in Seq(Proper)
      BY <1>1, <2>1
    <2>3. QED
      BY <2>2
  <1>3. n(all) \in 0..Len(all) /\ n(all) <= SendCap
    <2>1. Len(all) \in Nat /\ SendCap \in Nat
      BY HubAssumption
    <2>2. QED
      BY <2>1
  <1>4. Queued(c, mail) = SubSeq(all, 1, n(all))
    BY <1>2 DEF Queued
  <1> HIDE DEF n
  <1>5. QED
    BY <1>3, <1>4

\* What a send to several members makes of them.
LEMMA MailStep ==
  ASSUME Typed, NEW h \in Hubs, NEW to \in SUBSET Clients, NEW inside \in SUBSET to,
         NEW mail \in Mails, Mail(h, inside, to, mail)
  PROVE  /\ out' \in [Clients -> Seq(Proper)] /\ \A c \in Clients : Len(out'[c]) <= SendCap
         /\ members' \in [Hubs -> SUBSET Clients]
         /\ members'[h] \subseteq inside \ Overflows(to, mail)
         /\ \A k \in Hubs \ {h} : members'[k] = members[k]
         /\ closed' = closed \cup Overflows(to, mail) /\ closed' \subseteq Clients
         /\ Overflows(to, mail) \subseteq to
         /\ crashed' \in BOOLEAN
         /\ crashed' <=> \E c \in to \cap closed : mail[c] # <<>>
  <1>1. /\ out' = [c \in Clients |-> IF c \in to THEN Queued(c, mail) ELSE out[c]]
        /\ members' = [members EXCEPT ![h] = inside \ Overflows(to, mail)]
        /\ closed' = closed \cup Overflows(to, mail)
        /\ crashed' = (\E c \in to \cap closed : mail[c] # <<>>)
    BY DEF Mail
  <1>2. Overflows(to, mail) \subseteq to
    BY DEF Overflows
  <1>3. out' \in [Clients -> Seq(Proper)] /\ \A c \in Clients : Len(out'[c]) <= SendCap
    BY <1>1, QueuedType DEF Typed, TypeOK
  <1>4. members' \in [Hubs -> SUBSET Clients] /\ members'[h] = inside \ Overflows(to, mail)
        /\ \A k \in Hubs \ {h} : members'[k] = members[k]
    BY <1>1 DEF Typed, TypeOK
  <1>5. crashed' \in BOOLEAN /\ (crashed' <=> \E c \in to \cap closed : mail[c] # <<>>)
    BY <1>1
  <1>6. closed' \subseteq Clients
    BY <1>1, <1>2 DEF Typed, TypeOK
  <1>7. QED
    BY <1>1, <1>2, <1>3, <1>4, <1>5, <1>6
-----------------------------------------------------------------------------
(* The steps of a connection *)

LEMMA QuietKeeps ==
  ASSUME HubInv, UNCHANGED <<managerVars, members, closed>>,
         crashed' = crashed,
         \A c \in Clients : reader'[c] \in {"off", "joining"} => reader[c] \in {"off", "joining"},
         \A c \in Clients, h \in Hubs :
           reader'[c] \in {"off", "joining"} => (From(h, c)' => From(h, c))
  PROVE  OneHub' /\ Newcomers' /\ MembersAreOpen'
  <1>1. OneHub' /\ MembersAreOpen'
    BY DEF HubInv, OneHub, MembersAreOpen, Running, managerVars
  <1>2. Newcomers'
    BY DEF HubInv, Newcomers
  <1>3. QED
    BY <1>1, <1>2

LEMMA ReadStateKeeps == ASSUME HubInv, NEW c \in Clients, ReadState(c) PROVE HubInv'
  <1>1. Typed'
    <2>1. /\ Snapshot \in Proper /\ Snapshot \in Messages
          /\ SendCap \in Nat /\ SendCap >= 1
      BY Frames, HubAssumption DEF Quiet, Proper
    <2>2. PICK seed \in {<<>>, <<Snapshot>>} : out' = [out EXCEPT ![c] = seed]
      BY DEF ReadState
    <2>3. seed \in Seq(Proper) /\ seed \in Seq(Messages) /\ Len(seed) <= SendCap
      <3>1. CASE seed = <<>>
        BY <2>1, <3>1
      <3>2. CASE seed = <<Snapshot>>
        BY <2>1, <3>2
      <3>3. QED
        BY <3>1, <3>2
    <2>4. QED
      BY <2>2, <2>3 DEF HubInv, Typed, TypeOK, ReadState, Is, managerVars, sendVars, historyVars
  <1>2. OneHub' /\ Newcomers' /\ MembersAreOpen'
    <2>1. reader' = [reader EXCEPT ![c] = "joining"] /\ reader[c] = "off"
      BY DEF ReadState, Is
    <2>2. UNCHANGED <<managerVars, members, closed, crashed, broadcast>>
      BY DEF ReadState, sendVars
    <2>3. QED
      BY <2>1, <2>2, QuietKeeps DEF HubInv, Typed, TypeOK, From
  <1>3. Seated'
    BY DEF HubInv, Seated, Typed, TypeOK, ReadState, Is
  <1>4. QED
    BY <1>1, <1>2, <1>3 DEF HubInv

LEMMA GetOrCreateKeeps == ASSUME HubInv, NEW c \in Clients, GetOrCreate(c) PROVE HubInv'
  <1>1. Typed'
    BY HubAssumption DEF HubInv, Typed, TypeOK, GetOrCreate, Is, managerVars, sendVars, historyVars
  <1>2. OneHub'
    <2>1. CASE hub # 0
      BY <2>1 DEF GetOrCreate, sendVars, HubInv, OneHub, Running
    <2>2. CASE hub = 0
      <3>1. gen \in Nat /\ gen' = gen + 1 /\ hub' = gen + 1 /\ UNCHANGED <<done, members>>
        BY <2>2, HubAssumption DEF GetOrCreate, sendVars, HubInv, Typed, TypeOK
      <3>2. \A h \in Hubs : members[h] = {} /\ ~Running(h) /\ h # 0
        BY <2>2, HubAssumption DEF HubInv, OneHub, Hubs
      <3>3. \A h \in Hubs : h \in Nat /\ (Running(h)' <=> h = gen + 1)
        BY <3>1, <3>2, HubAssumption DEF HubInv, OneHub, Running, Hubs
      <3>4. QED
        BY <3>1, <3>2, <3>3 DEF HubInv, OneHub
    <2>3. QED
      BY <2>1, <2>2
  <1>3. Newcomers' /\ MembersAreOpen'
    BY DEF HubInv, Newcomers, MembersAreOpen, From, GetOrCreate, sendVars
  <1>4. Seated'
    BY DEF HubInv, Seated, Typed, TypeOK, GetOrCreate, Is
  <1>5. QED
    BY <1>1, <1>2, <1>3, <1>4 DEF HubInv

LEMMA RetryKeeps == ASSUME HubInv, NEW c \in Clients, Retry(c) PROVE HubInv'
  <1>1. Typed'
    BY HubAssumption DEF HubInv, Typed, TypeOK, Retry, Is, managerVars, sendVars, historyVars
  <1>2. OneHub' /\ Newcomers' /\ MembersAreOpen'
    BY DEF HubInv, OneHub, Newcomers, MembersAreOpen, From, Running, Retry, managerVars, sendVars
  <1>3. Seated'
    BY DEF HubInv, Seated, Typed, TypeOK, Retry, Is
  <1>4. QED
    BY <1>1, <1>2, <1>3 DEF HubInv

LEMMA LeaveKeeps == ASSUME HubInv, NEW c \in Clients, Leave(c) PROVE HubInv'
  <1>1. Typed'
    BY DEF HubInv, Typed, TypeOK, Leave, Is, managerVars, sendVars, historyVars
  <1>2. OneHub' /\ Newcomers' /\ MembersAreOpen'
    BY DEF HubInv, Typed, TypeOK, OneHub, Newcomers, MembersAreOpen, From, Running, Leave,
           managerVars, sendVars
  <1>3. Seated'
    BY DEF HubInv, Seated, Typed, TypeOK, Leave, Is
  <1>4. QED
    BY <1>1, <1>2, <1>3 DEF HubInv

LEMMA ReceiveKeeps ==
  ASSUME HubInv, NEW c \in Clients, NEW m \in Incoming(c), Receive(c, m)
  PROVE  HubInv'
  <1>1. m \in Proper /\ m \in Messages /\ m.from = c
    <2>1. made \in 0..MaxMessages /\ made < MaxMessages
      BY DEF HubInv, Typed, TypeOK, Receive
    <2>2. m \in Proper /\ m.from = c
      BY <2>1, IncomingIsProper
    <2>3. QED
      BY <2>2 DEF Proper
  <1>2. Typed'
    BY <1>1, HubAssumption DEF HubInv, Typed, TypeOK, Receive, Is, managerVars, sendVars
  <1>3. OneHub' /\ Newcomers' /\ MembersAreOpen'
    BY DEF HubInv, Typed, TypeOK, OneHub, Newcomers, MembersAreOpen, From, Running, Receive,
           managerVars, sendVars
  <1>4. Seated'
    BY <1>1 DEF HubInv, Seated, Typed, TypeOK, Receive, Is
  <1>5. QED
    BY <1>2, <1>3, <1>4 DEF HubInv

\* What reaches the channel of a hub was in hand or is a push.
LEMMA AppendKeeps ==
  ASSUME Typed, NEW h \in Hubs, NEW m \in Proper, Len(broadcast[h]) < BroadcastCap,
         broadcast' = [broadcast EXCEPT ![h] = Append(@, m)]
  PROVE  /\ broadcast' \in [Hubs -> Seq(Proper)]
         /\ \A k \in Hubs : broadcast'[k] \in Seq(Messages) /\ Len(broadcast'[k]) <= BroadcastCap
         /\ \A k \in Hubs, c \in Clients : From(k, c)' => From(k, c) \/ (k = h /\ c = m.from)
  <1>1. /\ broadcast \in [Hubs -> Seq(Proper)] /\ BroadcastCap \in Nat
        /\ \A k \in Hubs : Len(broadcast[k]) <= BroadcastCap
    BY HubAssumption DEF Typed, TypeOK
  <1>2. broadcast[h] \in Seq(Proper) /\ broadcast'[h] = Append(broadcast[h], m)
    BY <1>1
  <1>3. /\ broadcast'[h] \in Seq(Proper) /\ Len(broadcast'[h]) <= BroadcastCap
        /\ \A i \in DOMAIN broadcast'[h] :
             \/ i \in DOMAIN broadcast[h] /\ broadcast'[h][i] = broadcast[h][i]
             \/ broadcast'[h][i] = m
    BY <1>1, <1>2
  <1>4. \A k \in Hubs \ {h} : broadcast'[k] = broadcast[k]
    BY <1>1
  <1>5. broadcast' \in [Hubs -> Seq(Proper)]
    BY <1>1
  <1>6. \A k \in Hubs : broadcast'[k] \in Seq(Messages) /\ Len(broadcast'[k]) <= BroadcastCap
    <2>1. Proper \subseteq Messages
      BY DEF Proper
    <2>2. \A q \in Seq(Proper) : q \in Seq(Messages)
      BY <2>1
    <2>3. QED
      BY <1>1, <1>3, <1>4, <1>5, <2>2
  <1>7. \A k \in Hubs, c \in Clients : From(k, c)' => From(k, c) \/ (k = h /\ c = m.from)
    BY <1>3, <1>4 DEF From
  <1>8. QED
    BY <1>5, <1>6, <1>7

LEMMA EnqueueKeeps == ASSUME HubInv, NEW c \in Clients, Enqueue(c) PROVE HubInv'
  <1>1. /\ at[c] \in Hubs /\ hand[c] \in Proper /\ hand[c].from = c
        /\ Len(broadcast[at[c]]) < BroadcastCap
        /\ broadcast' = [broadcast EXCEPT ![at[c]] = Append(@, hand[c])]
        /\ reader[c] = "sending" /\ reader' = [reader EXCEPT ![c] = "reading"]
    BY HubAssumption DEF HubInv, Seated, Typed, TypeOK, Enqueue, Is, Hubs
  <1>2. PICK h \in Hubs, m \in Proper : h = at[c] /\ m = hand[c]
    BY <1>1
  <1>3. /\ broadcast' \in [Hubs -> Seq(Proper)]
        /\ \A k \in Hubs : broadcast'[k] \in Seq(Messages) /\ Len(broadcast'[k]) <= BroadcastCap
        /\ \A k \in Hubs, d \in Clients : From(k, d)' => From(k, d) \/ d = c
    <2>1. Typed /\ Len(broadcast[h]) < BroadcastCap /\ m.from = c
          /\ broadcast' = [broadcast EXCEPT ![h] = Append(@, m)]
      BY <1>1, <1>2 DEF HubInv
    <2>2. QED
      BY <2>1, AppendKeeps
  <1>4. Typed'
    BY <1>1, <1>3 DEF HubInv, Typed, TypeOK, Enqueue, managerVars, sendVars, historyVars
  <1>5. OneHub' /\ Newcomers' /\ MembersAreOpen'
    <2>1. UNCHANGED <<managerVars, members, closed, crashed>>
      BY DEF Enqueue, sendVars
    <2>2. QED
      BY <1>1, <1>3, <2>1, QuietKeeps DEF HubInv, Typed, TypeOK
  <1>6. Seated'
    BY <1>1 DEF HubInv, Seated, Typed, TypeOK, Enqueue
  <1>7. QED
    BY <1>4, <1>5, <1>6 DEF HubInv

LEMMA PushKeeps == ASSUME HubInv, Push PROVE HubInv'
  <1>1. /\ pushing \in Hubs /\ made \in Nat /\ MaxMessages \in Nat /\ made + 1 \in 0..MaxMessages
        /\ pushing' = 0 /\ made' = made + 1
    BY HubAssumption DEF HubInv, Typed, TypeOK, Push, Hubs
  <1>2. PICK h \in Hubs : h = pushing
    BY <1>1
  <1>3. Message("other", Server, 0) \in Proper /\ Message("other", Server, 0).from = Server
    BY Frames DEF Message, Quiet
  <1>4. /\ broadcast' \in [Hubs -> Seq(Proper)]
        /\ \A k \in Hubs : broadcast'[k] \in Seq(Messages) /\ Len(broadcast'[k]) <= BroadcastCap
        /\ \A k \in Hubs, d \in Clients : From(k, d)' => From(k, d)
    <2>1. CASE broadcast' = broadcast
      BY <2>1 DEF HubInv, Typed, TypeOK, From
    <2>2. CASE /\ Len(broadcast[h]) < BroadcastCap
               /\ broadcast' = [broadcast EXCEPT ![h] = Append(@, Message("other", Server, 0))]
      <3>1. PICK m \in Proper : m = Message("other", Server, 0)
        BY <1>3
      <3>2. Typed /\ m.from = Server /\ broadcast' = [broadcast EXCEPT ![h] = Append(@, m)]
        BY <2>2, <1>3, <3>1 DEF HubInv
      <3>3. /\ broadcast' \in [Hubs -> Seq(Proper)]
            /\ \A k \in Hubs : broadcast'[k] \in Seq(Messages) /\ Len(broadcast'[k]) <= BroadcastCap
            /\ \A k \in Hubs, d \in Clients : From(k, d)' => From(k, d) \/ (k = h /\ d = m.from)
        BY <2>2, <3>2, AppendKeeps
      <3>4. \A d \in Clients : d # m.from
        BY <3>2, HubAssumption
      <3>5. QED
        BY <3>3, <3>4
    <2>3. \/ broadcast' = broadcast
          \/ /\ Len(broadcast[pushing]) < BroadcastCap
             /\ broadcast' = [broadcast EXCEPT
                               ![pushing] = Append(@, Message("other", Server, 0))]
      BY DEF Push
    <2>4. QED
      BY <1>2, <2>1, <2>2, <2>3
  <1>5. Typed'
    <2>1. made' \in 0..MaxMessages /\ pushing' \in 0..MaxHubs
      BY <1>1, HubAssumption
    <2>2. UNCHANGED <<hub, gen, done, presence, reader, at, hand, out, closed, members, crashed,
                      log, since, got>>
      BY DEF Push, managerVars, connVars, sendVars
    <2>3. QED
      BY <1>4, <2>1, <2>2 DEF HubInv, Typed, TypeOK
  <1>6. OneHub' /\ Newcomers' /\ MembersAreOpen'
    <2>1. UNCHANGED <<managerVars, members, closed, crashed, reader>>
      BY DEF Push, sendVars, connVars
    <2>2. QED
      BY <1>4, <2>1, QuietKeeps
  <1>7. Seated'
    BY DEF HubInv, Seated, Push, connVars
  <1>8. QED
    BY <1>5, <1>6, <1>7 DEF HubInv

LEMMA LookUpKeeps == ASSUME HubInv, LookUp PROVE HubInv'
  <1>1. Typed'
    BY DEF HubInv, Typed, TypeOK, LookUp, managerVars, connVars, sendVars, historyVars
  <1>2. OneHub' /\ Newcomers' /\ MembersAreOpen' /\ Seated'
    BY DEF HubInv, OneHub, Newcomers, MembersAreOpen, Seated, From, Running, LookUp, managerVars,
           connVars, sendVars
  <1>3. QED
    BY <1>1, <1>2 DEF HubInv

LEMMA WriteKeeps == ASSUME HubInv, NEW c \in Clients, Write(c) PROVE HubInv'
  <1>1. /\ out[c] \in Seq(Proper) /\ out[c] # <<>> /\ Len(out[c]) <= SendCap
        /\ out' = [out EXCEPT ![c] = Tail(@)] /\ SendCap \in Nat
    BY HubAssumption DEF HubInv, Typed, TypeOK, Write
  <1>2. Head(out[c]) \in Proper /\ Tail(out[c]) \in Seq(Proper) /\ Len(Tail(out[c])) <= SendCap
    BY <1>1
  <1>3. /\ out' \in [Clients -> Seq(Proper)]
        /\ \A d \in Clients : out'[d] \in Seq(Messages) /\ Len(out'[d]) <= SendCap
    <2>1. \A q \in Seq(Proper) : q \in Seq(Messages)
      <3>1. Proper \subseteq Messages
        BY DEF Proper
      <3>2. QED
        BY <3>1
    <2>2. QED
      BY <1>1, <1>2, <2>1 DEF HubInv, Typed, TypeOK
  <1>4. got' \in [Clients -> Seq(Numbers)]
    <2>1. CASE Head(out[c]).kind = "update"
      <3>1. Head(out[c]).arg \in Numbers /\ got' = [got EXCEPT ![c] = Append(@, Head(out[c]).arg)]
        BY <1>2, <2>1 DEF Write, Proper
      <3>2. got \in [Clients -> Seq(Numbers)] /\ got[c] \in Seq(Numbers)
        BY DEF HubInv, Typed
      <3>3. QED
        BY <3>1, <3>2
    <2>2. CASE Head(out[c]).kind # "update"
      BY <2>2 DEF Write, HubInv, Typed
    <2>3. QED
      BY <2>1, <2>2
  <1>5. Typed'
    BY <1>3, <1>4 DEF HubInv, Typed, TypeOK, Write, managerVars, connVars
  <1>6. OneHub' /\ Newcomers' /\ MembersAreOpen' /\ Seated'
    BY DEF HubInv, OneHub, Newcomers, MembersAreOpen, Seated, From, Running, Write, managerVars,
           connVars
  <1>7. QED
    BY <1>5, <1>6 DEF HubInv
-----------------------------------------------------------------------------
(* The steps of the hub *)

\* A send to members, and to others who have registered at some time, leaves
\* nobody in the map whose channel is closed.
LEMMA MailKeeps ==
  ASSUME HubInv, NEW h \in Hubs, Running(h), ~crashed,
         NEW to \in SUBSET Clients, NEW inside \in SUBSET to,
         NEW mail \in Mails, Mail(h, inside, to, mail),
         UNCHANGED managerVars, inside \cap closed = {},
         \A c \in to : reader'[c] \notin {"off", "joining"},
         \A c \in Clients : reader'[c] \in {"off", "joining"} => reader[c] \in {"off", "joining"},
         \A k \in Hubs, c \in Clients : From(k, c)' => From(k, c)
  PROVE  OneHub' /\ Newcomers' /\ MembersAreOpen'
  <1>1. PICK over : /\ members' \in [Hubs -> SUBSET Clients] /\ members'[h] \subseteq inside \ over
                    /\ \A k \in Hubs \ {h} : members'[k] = members[k]
                    /\ closed' = closed \cup over /\ over \subseteq to
    <2>1. Typed
      BY DEF HubInv
    <2>2. /\ members' \in [Hubs -> SUBSET Clients]
          /\ members'[h] \subseteq inside \ Overflows(to, mail)
          /\ \A k \in Hubs \ {h} : members'[k] = members[k]
          /\ closed' = closed \cup Overflows(to, mail) /\ Overflows(to, mail) \subseteq to
      BY <2>1, MailStep
    <2>3. QED
      BY <2>2
  <1>2. h = hub /\ UNCHANGED <<hub, gen, done>> /\ \A k \in Hubs \ {h} : members[k] = {}
    BY DEF HubInv, OneHub, managerVars
  <1>3. OneHub'
    BY <1>1, <1>2 DEF HubInv, OneHub, Running
  <1>4. Newcomers'
    BY <1>1 DEF HubInv, Newcomers
  <1>5. MembersAreOpen'
    BY <1>1, <1>2 DEF HubInv, MembersAreOpen
  <1>6. QED
    BY <1>3, <1>4, <1>5

\* What a send leaves of the types.
SentTypes ==
  /\ out' \in [Clients -> Seq(Proper)]
  /\ \A c \in Clients : out'[c] \in Seq(Messages) /\ Len(out'[c]) <= SendCap
  /\ members' \in [Hubs -> SUBSET Clients]
  /\ closed' \subseteq Clients /\ crashed' \in BOOLEAN

LEMMA ProperIsMessages == \A q \in Seq(Proper) : q \in Seq(Messages)
  <1>1. Proper \subseteq Messages
    BY DEF Proper
  <1>2. QED
    BY <1>1

LEMMA MailIsTyped ==
  ASSUME Typed, NEW h \in Hubs, NEW to \in SUBSET Clients, NEW inside \in SUBSET to,
         NEW mail \in Mails, Mail(h, inside, to, mail)
  PROVE  SentTypes
  <1>1. /\ out' \in [Clients -> Seq(Proper)] /\ \A c \in Clients : Len(out'[c]) <= SendCap
        /\ members' \in [Hubs -> SUBSET Clients]
        /\ closed' \subseteq Clients /\ crashed' \in BOOLEAN
    BY MailStep
  <1>2. \A c \in Clients : out'[c] \in Seq(Messages)
    BY <1>1, ProperIsMessages
  <1>3. QED
    BY <1>1, <1>2 DEF SentTypes

LEMMA TakeStep ==
  ASSUME HubInv, NEW h \in Hubs, NEW kinds, Take(h, kinds)
  PROVE  /\ ~crashed /\ Running(h)
         /\ UNCHANGED managerVars /\ UNCHANGED reader
         /\ Head(broadcast[h]) \in Proper /\ Head(broadcast[h]).kind \in kinds
         /\ \A c \in Clients : Head(broadcast[h]).from = c => From(h, c)
         /\ broadcast' \in [Hubs -> Seq(Proper)]
         /\ \A k \in Hubs : broadcast'[k] \in Seq(Messages) /\ Len(broadcast'[k]) <= BroadcastCap
         /\ \A k \in Hubs, c \in Clients : From(k, c)' => From(k, c)
         /\ Seated'
  <1>1. /\ ~crashed /\ Running(h) /\ broadcast[h] # <<>> /\ Head(broadcast[h]).kind \in kinds
        /\ broadcast' = [broadcast EXCEPT ![h] = Tail(@)]
        /\ UNCHANGED managerVars /\ UNCHANGED <<reader, at, hand>>
    BY DEF Take, connVars
  <1>2. /\ broadcast \in [Hubs -> Seq(Proper)] /\ BroadcastCap \in Nat
        /\ \A k \in Hubs : Len(broadcast[k]) <= BroadcastCap
    BY HubAssumption DEF HubInv, Typed, TypeOK
  <1>3. PICK q \in Seq(Proper) : q = broadcast[h]
    BY <1>2
  <1>4. /\ q # <<>> /\ Head(q) = q[1] /\ 1 \in DOMAIN q /\ Head(q) \in Proper
        /\ Tail(q) \in Seq(Proper) /\ Len(Tail(q)) <= Len(q)
        /\ \A i \in DOMAIN Tail(q) : i + 1 \in DOMAIN q /\ Tail(q)[i] = q[i + 1]
    BY <1>1, <1>3
  <1>5. broadcast'[h] = Tail(q) /\ \A k \in Hubs \ {h} : broadcast'[k] = broadcast[k]
    BY <1>1, <1>2, <1>3
  <1>6. broadcast' \in [Hubs -> Seq(Proper)]
    BY <1>1, <1>2, <1>3, <1>4
  <1>7. \A k \in Hubs : broadcast'[k] \in Seq(Messages) /\ Len(broadcast'[k]) <= BroadcastCap
    <2>1. \A k \in Hubs : broadcast'[k] \in Seq(Messages)
      BY <1>6, ProperIsMessages
    <2>2. Len(broadcast'[h]) <= BroadcastCap
      BY <1>2, <1>3, <1>4, <1>5
    <2>3. QED
      BY <1>2, <1>5, <2>1, <2>2
  <1>8. \A k \in Hubs, c \in Clients : From(k, c)' => From(k, c)
    <2>1. \A c \in Clients : From(h, c)' => From(h, c)
      <3>1. SUFFICES ASSUME NEW c \in Clients, NEW i \in DOMAIN Tail(q), Tail(q)[i].from = c
                     PROVE  \E j \in DOMAIN q : q[j].from = c
        BY <1>3, <1>5 DEF From
      <3>2. i + 1 \in DOMAIN q /\ q[i + 1].from = c
        BY <1>4, <3>1
      <3>3. QED
        BY <3>2
    <2>2. QED
      BY <1>5, <2>1 DEF From
  <1>9. \A c \in Clients : Head(broadcast[h]).from = c => From(h, c)
    BY <1>3, <1>4 DEF From
  <1>10. Seated'
    BY <1>1 DEF HubInv, Seated
  <1>11. Head(broadcast[h]) \in Proper
    BY <1>3, <1>4
  <1>12. QED
    BY <1>1, <1>6, <1>7, <1>8, <1>9, <1>10, <1>11

\* A message that only changes the registry.
LEMMA NotedKeeps ==
  ASSUME HubInv, NEW h \in Hubs, NEW kinds, Take(h, kinds),
         UNCHANGED <<sendVars, crashed, log>>, presence' \in [Hubs -> Registry]
  PROVE  HubInv'
  <1>1. /\ UNCHANGED managerVars /\ UNCHANGED reader
        /\ broadcast' \in [Hubs -> Seq(Proper)]
        /\ \A k \in Hubs : broadcast'[k] \in Seq(Messages) /\ Len(broadcast'[k]) <= BroadcastCap
        /\ \A k \in Hubs, c \in Clients : From(k, c)' => From(k, c)
        /\ Seated'
    BY TakeStep
  <1>2. Typed'
    BY <1>1 DEF HubInv, Typed, TypeOK, Take, managerVars, connVars, sendVars
  <1>3. UNCHANGED <<managerVars, members, closed>> /\ crashed' = crashed
    BY <1>1 DEF sendVars
  <1>4. OneHub' /\ Newcomers' /\ MembersAreOpen'
    BY <1>1, <1>3, QuietKeeps
  <1>5. QED
    BY <1>1, <1>2, <1>4 DEF HubInv

LEMMA SetCursorKeeps == ASSUME HubInv, NEW h \in Hubs, SetCursor(h) PROVE HubInv'
  <1>1. Take(h, {"cursor"}) /\ UNCHANGED <<sendVars, crashed, log>>
    BY DEF SetCursor
  <1>2. Head(broadcast[h]) \in Proper /\ Head(broadcast[h]).kind \in {"cursor"}
    BY <1>1, TakeStep
  <1>3. PICK c \in Clients : c = Head(broadcast[h]).from
    BY <1>2 DEF Proper
  <1>4. presence' \in [Hubs -> Registry]
    <2>1. presence \in [Hubs -> Registry] /\ presence[h] \in Registry
      BY DEF HubInv, Typed, TypeOK
    <2>2. PICK reg \in Registry : reg = presence[h]
      BY <2>1
    <2> DEFINE new == [reg EXCEPT !.cursor = reg.cursor \cup {c}, !.cdirty = reg.cdirty \cup {c}]
    <2>3. new \in Registry
      BY DEF Registry
    <2>4. presence' = [presence EXCEPT ![h] = new]
      BY <1>3, <2>1, <2>2 DEF SetCursor, Registry
    <2> HIDE DEF new
    <2>5. QED
      BY <2>1, <2>3, <2>4
  <1>5. QED
    BY <1>1, <1>4, NotedKeeps

LEMMA SetViewportKeeps == ASSUME HubInv, NEW h \in Hubs, SetViewport(h) PROVE HubInv'
  <1>1. Take(h, {"viewport"}) /\ UNCHANGED <<sendVars, crashed, log>>
    BY DEF SetViewport
  <1>2. Head(broadcast[h]) \in Proper /\ Head(broadcast[h]).kind \in {"viewport"}
    BY <1>1, TakeStep
  <1>3. PICK c \in Clients : c = Head(broadcast[h]).from
    BY <1>2 DEF Proper
  <1>4. presence' \in [Hubs -> Registry]
    <2>1. presence \in [Hubs -> Registry] /\ presence[h] \in Registry
      BY DEF HubInv, Typed, TypeOK
    <2>2. PICK reg \in Registry : reg = presence[h]
      BY <2>1
    <2> DEFINE new == [reg EXCEPT !.view = reg.view \cup {c}, !.vdirty = reg.vdirty \cup {c}]
    <2>3. new \in Registry
      BY DEF Registry
    <2>4. presence' = [presence EXCEPT ![h] = new]
      BY <1>3, <2>1, <2>2 DEF SetViewport, Registry
    <2> HIDE DEF new
    <2>5. QED
      BY <2>1, <2>3, <2>4
  <1>5. QED
    BY <1>1, <1>4, NotedKeeps

\* A message the members hear of.
LEMMA ToldKeeps ==
  ASSUME HubInv, NEW h \in Hubs, NEW kinds, Take(h, kinds),
         NEW to \in SUBSET Clients, NEW inside \in SUBSET to,
         NEW mail \in Mails, Mail(h, inside, to, mail), inside \cap closed = {},
         \A c \in to : reader[c] \notin {"off", "joining"},
         presence' \in [Hubs -> Registry], log' \in [Hubs -> Seq(Proper)]
  PROVE  HubInv'
  <1>1. /\ ~crashed /\ Running(h) /\ UNCHANGED managerVars /\ UNCHANGED reader
        /\ broadcast' \in [Hubs -> Seq(Proper)]
        /\ \A k \in Hubs : broadcast'[k] \in Seq(Messages) /\ Len(broadcast'[k]) <= BroadcastCap
        /\ \A k \in Hubs, c \in Clients : From(k, c)' => From(k, c)
        /\ Seated'
    BY TakeStep
  <1>2. Typed'
    <2>1. SentTypes
      BY MailIsTyped DEF HubInv
    <2>2. \A k \in Hubs : log'[k] \in Seq(Messages)
      BY ProperIsMessages
    <2>3. QED
      BY <1>1, <2>1, <2>2 DEF SentTypes, HubInv, Typed, TypeOK, Take, managerVars, connVars
  <1>3. OneHub' /\ Newcomers' /\ MembersAreOpen'
    BY <1>1, MailKeeps
  <1>4. QED
    BY <1>1, <1>2, <1>3 DEF HubInv

\* The members of a hub as a step of the hub finds them.
LEMMA MembersAreThere ==
  ASSUME HubInv, ~crashed, NEW h \in Hubs
  PROVE  /\ members[h] \in SUBSET Clients /\ members[h] \cap closed = {}
         /\ \A c \in members[h] : reader[c] \notin {"off", "joining"}
  BY DEF HubInv, Typed, TypeOK, Newcomers, MembersAreOpen

LEMMA RelayKeeps == ASSUME HubInv, NEW h \in Hubs, Relay(h) PROVE HubInv'
  <1> DEFINE relayed(m) == [c \in Clients |-> IF c = m.from THEN <<>> ELSE <<m>>]
  <1>1. Take(h, {"update", "other"})
    BY DEF Relay
  <1>2. ~crashed /\ Head(broadcast[h]) \in Proper
    BY <1>1, TakeStep
  <1>3. PICK m \in Proper : m = Head(broadcast[h])
    BY <1>2
  <1>4. Mail(h, members[h], members[h], relayed(m))
    BY <1>3 DEF Relay
  <1>5. relayed(m) \in Mails
    <2>1. <<m>> \in Seq(Proper) /\ <<>> \in Seq(Proper)
      OBVIOUS
    <2>2. QED
      BY <2>1 DEF Mails
  <1>6. log' \in [Hubs -> Seq(Proper)]
    <2>1. log \in [Hubs -> Seq(Proper)] /\ log[h] \in Seq(Proper)
      BY DEF HubInv, Typed
    <2>2. Append(log[h], m) \in Seq(Proper)
      BY <2>1
    <2>3. log' = log \/ log' = [log EXCEPT ![h] = Append(log[h], m)]
      BY <1>3, <2>1 DEF Relay
    <2>4. QED
      BY <2>1, <2>2, <2>3
  <1>7. presence' \in [Hubs -> Registry]
    BY DEF Relay, HubInv, Typed, TypeOK
  <1>8. PICK to \in SUBSET Clients, mail \in Mails : to = members[h] /\ mail = relayed(m)
    BY <1>2, <1>5, MembersAreThere
  <1> HIDE DEF relayed
  <1>9. /\ Mail(h, to, to, mail) /\ to \cap closed = {}
        /\ \A c \in to : reader[c] \notin {"off", "joining"}
    BY <1>2, <1>4, <1>8, MembersAreThere
  <1>10. QED
    BY <1>1, <1>6, <1>7, <1>9, ToldKeeps

LEMMA UnfollowKeeps == ASSUME HubInv, NEW h \in Hubs, Unfollow(h) PROVE HubInv'
  <1>1. Take(h, {"unfollow"}) /\ Mail(h, members[h], members[h], FollowersMail)
    BY DEF Unfollow
  <1>2. /\ ~crashed /\ Head(broadcast[h]) \in Proper
        /\ Head(broadcast[h]).kind \in {"unfollow"}
    BY <1>1, TakeStep
  <1>3. PICK c \in Clients : c = Head(broadcast[h]).from
    BY <1>2 DEF Proper
  <1>4. presence' \in [Hubs -> Registry]
    <2>1. presence \in [Hubs -> Registry] /\ presence[h] \in Registry
      BY DEF HubInv, Typed, TypeOK
    <2>2. PICK reg \in Registry : reg = presence[h]
      BY <2>1
    <2> DEFINE fol == [reg.following EXCEPT ![c] = Nobody]
               new == [reg EXCEPT !.following = fol]
    <2>3. new \in Registry
      BY DEF Registry
    <2>4. presence' = [presence EXCEPT ![h] = new]
      BY <1>3, <2>1, <2>2 DEF Unfollow, Registry
    <2> HIDE DEF new
    <2>5. QED
      BY <2>1, <2>3, <2>4
  <1>5. log' \in [Hubs -> Seq(Proper)]
    BY DEF Unfollow, HubInv, Typed
  <1>6. PICK to \in SUBSET Clients, mail \in Mails : to = members[h] /\ mail = FollowersMail
    BY <1>2, MembersAreThere, MailTypes
  <1>7. /\ Mail(h, to, to, mail) /\ to \cap closed = {}
        /\ \A d \in to : reader[d] \notin {"off", "joining"}
    BY <1>1, <1>2, <1>6, MembersAreThere
  <1>8. QED
    BY <1>1, <1>4, <1>5, <1>7, ToldKeeps

\* What a follow whose target is in view puts into the channels.
Answer(m) ==
  [c \in Clients |-> IF c = m.from THEN <<Message("viewport", m.arg, 0), Followers>>
                                  ELSE <<Followers>>]

LEMMA FollowKeeps == ASSUME HubInv, NEW h \in Hubs, Follow(h) PROVE HubInv'
  <1>1. Take(h, {"follow"})
    BY DEF Follow
  <1>2. /\ ~crashed /\ Head(broadcast[h]) \in Proper
        /\ Head(broadcast[h]).kind \in {"follow"}
        /\ \A c \in Clients : Head(broadcast[h]).from = c => From(h, c)
    BY <1>1, TakeStep
  <1>3. PICK m \in Proper : m = Head(broadcast[h])
    BY <1>2
  <1>4. m.from \in Clients /\ m.arg \in Clients /\ From(h, m.from)
    BY <1>2, <1>3 DEF Proper
  <1>5. presence' \in [Hubs -> Registry]
    <2>1. presence \in [Hubs -> Registry] /\ presence[h] \in Registry
      BY DEF HubInv, Typed, TypeOK
    <2>2. PICK reg \in Registry : reg = presence[h]
      BY <2>1
    <2> DEFINE fol == [reg.following EXCEPT ![m.from] = m.arg]
               new == [reg EXCEPT !.following = fol]
    <2>3. new \in Registry
      BY <1>4 DEF Registry
    <2>4. presence' = [presence EXCEPT ![h] = new]
      BY <1>3, <2>1, <2>2 DEF Follow, Registry
    <2> HIDE DEF new
    <2>5. QED
      BY <2>1, <2>3, <2>4
  <1>6. log' \in [Hubs -> Seq(Proper)]
    BY DEF Follow, HubInv, Typed
  <1>7. CASE m.arg \in presence[h].view
    <2>1. Mail(h, members[h], members[h] \cup {m.from}, Answer(m))
      BY <1>3, <1>7 DEF Follow, Answer
    <2>2. Answer(m) \in Mails
      <3>1. /\ <<Message("viewport", m.arg, 0), Followers>> \in Seq(Proper)
            /\ <<Followers>> \in Seq(Proper)
        BY <1>4, Frames DEF Quiet
      <3>2. QED
        BY <3>1 DEF Answer, Mails
    <2>3. PICK inside \in SUBSET Clients : inside = members[h]
      BY <1>2, MembersAreThere
    <2>4. PICK to \in SUBSET Clients : to = inside \cup {m.from} /\ inside \in SUBSET to
      BY <1>4
    <2>5. PICK mail \in Mails : mail = Answer(m)
      BY <2>2
    <2>6. /\ Mail(h, inside, to, mail) /\ inside \cap closed = {}
          /\ \A c \in to : reader[c] \notin {"off", "joining"}
      BY <1>2, <1>4, <2>1, <2>3, <2>4, <2>5, MembersAreThere DEF HubInv, Newcomers
    <2>7. QED
      BY <1>1, <1>5, <1>6, <2>4, <2>6, ToldKeeps
  <1>8. CASE m.arg \notin presence[h].view
    <2>1. Mail(h, members[h], members[h], FollowersMail)
      BY <1>3, <1>8 DEF Follow
    <2>2. PICK to \in SUBSET Clients, mail \in Mails : to = members[h] /\ mail = FollowersMail
      BY <1>2, MembersAreThere, MailTypes
    <2>3. /\ Mail(h, to, to, mail) /\ to \cap closed = {}
          /\ \A c \in to : reader[c] \notin {"off", "joining"}
      BY <1>2, <2>1, <2>2, MembersAreThere
    <2>4. QED
      BY <1>1, <1>5, <1>6, <2>3, ToldKeeps
  <1>9. QED
    BY <1>7, <1>8

LEMMA TickKeeps == ASSUME HubInv, NEW h \in Hubs, Tick(h) PROVE HubInv'
  <1>1. /\ ~crashed /\ Running(h) /\ Mail(h, members[h], members[h], FlushMail(presence[h]))
        /\ UNCHANGED managerVars /\ UNCHANGED <<broadcast, reader>>
    BY DEF Tick, connVars
  <1>2. presence \in [Hubs -> Registry] /\ presence[h] \in Registry
    BY DEF HubInv, Typed, TypeOK
  <1>3. presence' \in [Hubs -> Registry]
    <2>1. PICK reg \in Registry : reg = presence[h]
      BY <1>2
    <2> DEFINE new == [reg EXCEPT !.cdirty = {}, !.vdirty = {}]
    <2>2. new \in Registry
      BY DEF Registry
    <2>3. presence' = [presence EXCEPT ![h] = new]
      BY <1>2, <2>1 DEF Tick, Registry
    <2> HIDE DEF new
    <2>4. QED
      BY <1>2, <2>2, <2>3
  <1>4. PICK to \in SUBSET Clients, mail \in Mails :
          to = members[h] /\ mail = FlushMail(presence[h])
    BY <1>1, <1>2, MembersAreThere, MailTypes
  <1>5. /\ Mail(h, to, to, mail) /\ to \cap closed = {}
        /\ \A c \in to : reader[c] \notin {"off", "joining"}
    BY <1>1, <1>4, MembersAreThere
  <1>6. Typed'
    <2>1. SentTypes
      BY <1>5, MailIsTyped DEF HubInv
    <2>2. QED
      BY <1>3, <2>1 DEF SentTypes, HubInv, Typed, TypeOK, Tick, managerVars, connVars, historyVars
  <1>7. OneHub' /\ Newcomers' /\ MembersAreOpen'
    <2>1. \A c \in to : reader'[c] \notin {"off", "joining"}
      BY <1>1, <1>5
    <2>2. \A k \in Hubs, c \in Clients : From(k, c)' => From(k, c)
      BY <1>1 DEF From
    <2>3. \A c \in Clients : reader'[c] \in {"off", "joining"} => reader[c] \in {"off", "joining"}
      BY <1>1
    <2>4. QED
      BY <1>1, <1>5, <2>1, <2>2, <2>3, MailKeeps
  <1>8. Seated'
    BY DEF HubInv, Seated, Tick, connVars
  <1>9. QED
    BY <1>6, <1>7, <1>8 DEF HubInv

LEMMA RegisterKeeps == ASSUME HubInv, NEW c \in Clients, Register(c) PROVE HubInv'
  <1>1. at[c] \in Hubs
    BY HubAssumption DEF Register, Running, Is, HubInv, Typed, TypeOK, Hubs
  <1>2. PICK h \in Hubs : h = at[c]
    BY <1>1
  <1>3. /\ ~crashed /\ Running(h) /\ reader[c] = "joining"
        /\ reader' = [reader EXCEPT ![c] = "reading"]
        /\ since' = [since EXCEPT ![c] = Len(log[h])]
        /\ Mail(h, members[h] \cup {c}, members[h] \cup {c},
                IF SomeoneFollows(h) THEN FollowersMail ELSE NoMail)
        /\ UNCHANGED managerVars /\ UNCHANGED broadcast
    BY <1>2 DEF Register, Is
  <1>4. PICK to \in SUBSET Clients, mail \in Mails :
          /\ to = members[h] \cup {c}
          /\ mail = IF SomeoneFollows(h) THEN FollowersMail ELSE NoMail
    BY <1>3, MembersAreThere, MailTypes
  <1>5. reader \in [Clients -> {"off", "joining", "reading", "sending", "leaving", "left"}]
    BY DEF HubInv, Typed, TypeOK
  <1>6. /\ Mail(h, to, to, mail) /\ to \cap closed = {}
        /\ \A d \in to : reader'[d] \notin {"off", "joining"}
    BY <1>3, <1>4, <1>5, MembersAreThere DEF HubInv, Newcomers
  <1>7. Typed'
    <2>1. SentTypes
      BY <1>6, MailIsTyped DEF HubInv
    <2>2. Len(log[h]) \in Nat
      BY DEF HubInv, Typed
    <2>3. since' \in [Clients -> Nat]
      BY <1>3, <2>2 DEF HubInv, Typed, TypeOK
    <2>4. QED
      BY <1>3, <1>5, <2>1, <2>3 DEF SentTypes, HubInv, Typed, TypeOK, Register, managerVars
  <1>8. OneHub' /\ Newcomers' /\ MembersAreOpen'
    <2>1. \A k \in Hubs, d \in Clients : From(k, d)' => From(k, d)
      BY <1>3 DEF From
    <2>2. \A d \in Clients : reader'[d] \in {"off", "joining"} => reader[d] \in {"off", "joining"}
      BY <1>3, <1>5
    <2>3. QED
      BY <1>3, <1>6, <2>1, <2>2, MailKeeps
  <1>9. Seated'
    BY <1>1, <1>3, <1>5, HubAssumption DEF HubInv, Seated, Register, Hubs
  <1>10. QED
    BY <1>7, <1>8, <1>9 DEF HubInv

\* A hub is torn down in the step in which its last member goes.
LEMMA TearDownStep ==
  ASSUME HubInv, NEW h \in Hubs, Running(h), TearDownIfEmpty(h),
         \A k \in Hubs \ {h} : members'[k] = members[k]
  PROVE  OneHub' /\ hub' \in 0..MaxHubs /\ gen' \in 0..MaxHubs /\ done' \subseteq Hubs
  <1>1. /\ h = hub /\ h # 0 /\ h \in 1..gen /\ h \notin done
        /\ \A k \in Hubs \ {h} : members[k] = {} /\ ~Running(k)
    BY DEF HubInv, OneHub, Running
  <1>2. hub \in 0..MaxHubs /\ gen \in 0..MaxHubs /\ done \subseteq Hubs /\ MaxHubs \in Nat
    BY HubAssumption DEF HubInv, Typed, TypeOK
  <1>3. CASE members'[h] = {} /\ hub' = 0 /\ done' = done \cup {h} /\ UNCHANGED gen
    BY <1>1, <1>2, <1>3 DEF HubInv, OneHub, Running, Hubs
  <1>4. CASE UNCHANGED <<hub, gen, done>>
    BY <1>1, <1>2, <1>4 DEF HubInv, OneHub, Running
  <1>5. QED
    BY <1>3, <1>4 DEF TearDownIfEmpty, managerVars

\* presenceRegistry.remove leaves a registry.
LEMMA ForgetType ==
  ASSUME NEW reg \in Registry, NEW c \in Clients
  PROVE  Forget(reg, c) \in Registry
  BY DEF Registry, Forget

LEMMA UnregisterKeeps == ASSUME HubInv, NEW c \in Clients, Unregister(c) PROVE HubInv'
  <1>1. at[c] \in Hubs
    BY HubAssumption DEF Unregister, Running, Is, HubInv, Typed, TypeOK, Hubs
  <1>2. PICK h \in Hubs : h = at[c]
    BY <1>1
  <1>3. /\ ~crashed /\ Running(h) /\ reader[c] = "leaving"
        /\ reader' = [reader EXCEPT ![c] = "left"]
        /\ TearDownIfEmpty(h) /\ UNCHANGED <<broadcast, at, hand>>
    BY <1>2 DEF Unregister, Is
  <1>4. reader \in [Clients -> {"off", "joining", "reading", "sending", "leaving", "left"}]
    BY DEF HubInv, Typed, TypeOK
  <1>5. Seated'
    BY <1>3, <1>4 DEF HubInv, Seated
  <1>6. \A d \in Clients : reader'[d] \in {"off", "joining"} <=> reader[d] \in {"off", "joining"}
    BY <1>3, <1>4
  <1>7. CASE c \in members[h]
    <2>1. PICK rest \in SUBSET Clients, mail \in Mails :
            rest = members[h] \ {c} /\ mail = LeaveMail(h, c)
      BY <1>3, MembersAreThere, MailTypes
    <2> DEFINE over == Overflows(rest, mail)
    <2>2. /\ presence' = [presence EXCEPT ![h] = Forget(presence[h], c)]
          /\ out' = [d \in Clients |-> IF d \in rest THEN Queued(d, mail) ELSE out[d]]
          /\ members' = [members EXCEPT ![h] = rest \ over]
          /\ closed' = closed \cup {c} \cup over
          /\ crashed' = (c \in closed \/ \E d \in rest \cap closed : mail[d] # <<>>)
      BY <1>2, <1>7, <2>1 DEF Unregister, HubInv, Typed, TypeOK
    <2>3. over \subseteq rest
      BY DEF Overflows
    <2> HIDE DEF over
    <2>4. /\ members' \in [Hubs -> SUBSET Clients] /\ members'[h] = rest \ over
          /\ \A k \in Hubs \ {h} : members'[k] = members[k]
      BY <2>2 DEF HubInv, Typed, TypeOK
    <2>5. presence' \in [Hubs -> Registry]
      <3>1. presence \in [Hubs -> Registry] /\ presence[h] \in Registry
        BY DEF HubInv, Typed, TypeOK
      <3>2. PICK new \in Registry : new = Forget(presence[h], c)
        BY <3>1, ForgetType
      <3>3. QED
        BY <2>2, <3>1, <3>2
    <2>6. SentTypes
      <3>1. \A d \in Clients : Queued(d, mail) \in Seq(Proper) /\ Len(Queued(d, mail)) <= SendCap
        BY QueuedType DEF HubInv
      <3>2. out' \in [Clients -> Seq(Proper)] /\ \A d \in Clients : Len(out'[d]) <= SendCap
        BY <2>2, <3>1 DEF HubInv, Typed, TypeOK
      <3>3. \A d \in Clients : out'[d] \in Seq(Messages)
        BY <3>2, ProperIsMessages
      <3>4. crashed' \in BOOLEAN
        BY <2>2
      <3>5. closed' \subseteq Clients
        BY <2>2, <2>3 DEF HubInv, Typed, TypeOK
      <3>6. QED
        BY <2>4, <3>2, <3>3, <3>4, <3>5 DEF SentTypes
    <2>7. OneHub' /\ hub' \in 0..MaxHubs /\ gen' \in 0..MaxHubs /\ done' \subseteq Hubs
      BY <1>3, <2>4, TearDownStep
    <2>8. Typed'
      BY <1>3, <1>4, <2>5, <2>6, <2>7 DEF SentTypes, HubInv, Typed, TypeOK, Unregister, historyVars
    <2>9. Newcomers'
      BY <1>3, <1>6, <2>1, <2>2, <2>3, <2>4 DEF HubInv, Newcomers, From
    <2>10. MembersAreOpen'
      <3>1. \A k \in Hubs \ {h} : members[k] = {}
        BY <1>3 DEF HubInv, OneHub
      <3>2. members[h] \cap closed = {}
        BY <1>3, MembersAreThere
      <3>3. QED
        BY <2>1, <2>2, <2>4, <3>1, <3>2 DEF MembersAreOpen
    <2>11. QED
      BY <1>5, <2>7, <2>8, <2>9, <2>10 DEF HubInv
  <1>8. CASE c \notin members[h]
    <2>1. UNCHANGED presence /\ UNCHANGED <<out, closed, members>> /\ crashed' = crashed
      BY <1>2, <1>8 DEF Unregister, sendVars
    <2>2. OneHub' /\ hub' \in 0..MaxHubs /\ gen' \in 0..MaxHubs /\ done' \subseteq Hubs
      BY <1>3, <2>1, TearDownStep
    <2>3. Typed'
      BY <1>3, <1>4, <2>1, <2>2 DEF HubInv, Typed, TypeOK, Unregister, historyVars
    <2>4. Newcomers' /\ MembersAreOpen'
      BY <1>3, <1>6, <2>1 DEF HubInv, Newcomers, MembersAreOpen, From
    <2>5. QED
      BY <1>5, <2>2, <2>3, <2>4 DEF HubInv
  <1>9. QED
    BY <1>7, <1>8
-----------------------------------------------------------------------------
(* The invariant *)

LEMMA HubInit == Init => HubInv
  <1> SUFFICES ASSUME Init PROVE HubInv
    OBVIOUS
  <1>1. Typed
    <2>1. NewRegistry \in Registry
      BY DEF NewRegistry, Registry
    <2> HIDE DEF NewRegistry
    <2>2. /\ hub \in 0..MaxHubs /\ gen \in 0..MaxHubs /\ pushing \in 0..MaxHubs
          /\ made \in 0..MaxMessages /\ done \subseteq Hubs /\ closed \subseteq Clients
      BY HubAssumption DEF Init
    <2>3. /\ members \in [Hubs -> SUBSET Clients] /\ presence \in [Hubs -> Registry]
          /\ reader \in [Clients -> {"off", "joining", "reading", "sending", "leaving", "left"}]
          /\ at \in [Clients -> 0..MaxHubs] /\ hand \in [Clients -> Messages \cup {NoMsg}]
          /\ since \in [Clients -> Nat]
      BY <2>1, HubAssumption DEF Init
    <2>4. /\ out \in [Clients -> Seq(Proper)] /\ got \in [Clients -> Seq(Numbers)]
          /\ broadcast \in [Hubs -> Seq(Proper)] /\ log \in [Hubs -> Seq(Proper)]
      BY DEF Init
    <2>5. /\ \A h \in Hubs : Len(broadcast[h]) <= BroadcastCap
          /\ \A c \in Clients : Len(out[c]) <= SendCap
      BY HubAssumption DEF Init
    <2>6. crashed \in BOOLEAN
      BY DEF Init
    <2>7. QED
      BY <2>2, <2>3, <2>4, <2>5, <2>6, ProperIsMessages DEF Typed, TypeOK
  <1>2. \A h \in Hubs : h # 0 /\ ~Running(h)
    BY HubAssumption DEF Init, Running, Hubs
  <1>3. OneHub
    BY <1>2 DEF Init, OneHub
  <1>4. Seated /\ Newcomers /\ MembersAreOpen
    BY DEF Init, Seated, Newcomers, MembersAreOpen, From
  <1>5. QED
    BY <1>1, <1>3, <1>4 DEF HubInv

LEMMA HubStep == HubInv /\ [Next]_vars => HubInv'
  <1> SUFFICES ASSUME HubInv, [Next]_vars PROVE HubInv'
    OBVIOUS
  <1>1. ASSUME NEW c \in Clients,
               \/ ReadState(c) \/ Joins(c) \/ Unregister(c)
               \/ (\E m \in Incoming(c) : Receive(c, m)) \/ Enqueue(c) \/ Leave(c)
               \/ Write(c)
        PROVE  HubInv'
    BY <1>1, ReadStateKeeps, GetOrCreateKeeps, RetryKeeps, RegisterKeeps, UnregisterKeeps,
       ReceiveKeeps, EnqueueKeeps, LeaveKeeps, WriteKeeps DEF Joins
  <1>2. ASSUME NEW h \in Hubs,
               Relay(h) \/ SetCursor(h) \/ SetViewport(h) \/ Follow(h) \/ Unfollow(h) \/ Tick(h)
        PROVE  HubInv'
    BY <1>2, RelayKeeps, SetCursorKeeps, SetViewportKeeps, FollowKeeps, UnfollowKeeps, TickKeeps
  <1>3. ASSUME LookUp \/ Push PROVE HubInv'
    BY <1>3, LookUpKeeps, PushKeeps
  <1>4. ASSUME UNCHANGED vars PROVE HubInv'
    BY <1>4 DEF vars, managerVars, connVars, sendVars, historyVars, HubInv, Typed, TypeOK, OneHub,
                Running, Seated, Newcomers, From, MembersAreOpen
  <1>5. QED
    BY <1>1, <1>2, <1>3, <1>4 DEF Next

\* Whatever the numbers of connections, hubs and messages and the capacities
\* of the channels: the invariant of the page's hubs.  A connection that has
\* not registered is in no hub, no channel, and not closed; whoever is in the
\* map has an open channel; no hub but the one of the map runs.
THEOREM HubInvariant == Spec => []HubInv
  <1>1. QED
    BY HubInit, HubStep, PTL DEF Spec

\* WbHubManager: two people on a page are in the same hub, and it runs,
\* however joining, leaving, evicting and tearing down interleave.
THEOREM NoSplitBrain == Spec => []OneRoom
  <1>1. HubInv => OneRoom
    BY DEF HubInv, Typed, OneHub, OneRoom
  <1>2. QED
    BY <1>1, HubInvariant, PTL

\* The one panic the hub can raise: in all steps but the answer to a follow
\* whose sender is gone, whoever is sent to or closed has an open channel.
THEOREM OneHole == Spec => PanicOnlyOnLateFollow
  <1>1. HubInv /\ [Next]_vars => [crashed' => \E h \in Hubs : LateFollow(h)]_vars
    <2> SUFFICES ASSUME HubInv, Next, crashed' PROVE \E h \in Hubs : LateFollow(h)
      OBVIOUS
    <2>1. \A c \in Clients, h \in Hubs :
             ~crashed /\ reader[c] = "joining" => c \notin closed /\ members[h] \cap closed = {}
      BY DEF HubInv, Newcomers, MembersAreOpen
    <2>2. ASSUME NEW h \in Hubs, ~crashed PROVE members[h] \cap closed = {}
      BY <2>2 DEF HubInv, MembersAreOpen
    <2>3. ASSUME NEW c \in Clients, Register(c) PROVE FALSE
      <3>1. at[c] \in Hubs
        BY <2>3, HubAssumption DEF Register, Running, Is, HubInv, Typed, TypeOK, Hubs
      <3>2. (members[at[c]] \cup {c}) \cap closed = {}
        BY <2>1, <2>3, <3>1 DEF Register, Is
      <3>3. QED
        BY <2>3, <3>2 DEF Register, Mail
    <2>4. ASSUME NEW c \in Clients, Unregister(c) PROVE FALSE
      <3>1. at[c] \in Hubs
        BY <2>4, HubAssumption DEF Unregister, Running, Is, HubInv, Typed, TypeOK, Hubs
      <3>2. ~crashed /\ members[at[c]] \cap closed = {}
        BY <2>2, <2>4, <3>1 DEF Unregister, Is
      <3>3. QED
        BY <2>4, <3>2 DEF Unregister
    <2>5. ASSUME NEW h \in Hubs, Tick(h) \/ Relay(h) \/ Unfollow(h) PROVE FALSE
      <3>1. members[h] \cap closed = {}
        BY <2>2, <2>5 DEF Tick, Relay, Unfollow, Take
      <3>2. QED
        BY <2>5, <3>1 DEF Tick, Relay, Unfollow, Mail
    <2>6. ASSUME NEW h \in Hubs, Follow(h) PROVE LateFollow(h)
      <3>1. /\ Running(h) /\ broadcast[h] # <<>> /\ Head(broadcast[h]).kind = "follow"
            /\ members[h] \cap closed = {}
        BY <2>2, <2>6 DEF Follow, Take
      <3>2. Head(broadcast[h]).from \in closed
        BY <2>6, <3>1 DEF Follow, Mail
      <3>3. QED
        BY <3>1, <3>2 DEF LateFollow
    <2>7. ASSUME NEW c \in Clients,
                 \/ ReadState(c) \/ GetOrCreate(c) \/ Retry(c) \/ Enqueue(c) \/ Leave(c) \/ Write(c)
                 \/ \E m \in Incoming(c) : Receive(c, m)
          PROVE  FALSE
      BY <2>7 DEF ReadState, GetOrCreate, Retry, Enqueue, Leave, Write, Receive, Is
    <2>8. ASSUME (\E h \in Hubs : SetCursor(h) \/ SetViewport(h)) \/ LookUp \/ Push PROVE FALSE
      BY <2>8 DEF SetCursor, SetViewport, Take, LookUp, Push
    <2>9. QED
      BY <2>3, <2>4, <2>5, <2>6, <2>7, <2>8 DEF Next, Joins
  <1>2. QED
    BY <1>1, HubInvariant, PTL DEF Spec, PanicOnlyOnLateFollow
-----------------------------------------------------------------------------
(* What reaches a connection *)

\* Induction over the natural numbers, said of a set of numbers: the form the
\* provers can instantiate.
LEMMA NatSetInduction ==
  ASSUME NEW T \in SUBSET Nat, 0 \in T, \A n \in T : n + 1 \in T
  PROVE  T = Nat
  <1> DEFINE R == OpToRel(<, Nat)
             U == Nat \ T
  <1>1. IsWellFoundedOn(R, Nat)
    BY NatLessThanWellFounded, Zenon
  <1>2. R = {ss \in Nat \X Nat : ss[1] < ss[2]}
    BY Zenon DEF OpToRel
  <1> HIDE DEF R
  <1>3. SUFFICES ASSUME U # {} PROVE FALSE
    OBVIOUS
  <1>4. PICK x \in U : \A y \in U : <<y, x>> \notin R
    BY <1>1, <1>3, WFMin
  <1>5. x # 0 /\ x - 1 \in Nat /\ x - 1 < x
    OBVIOUS
  <1>6. x - 1 \in T
    BY <1>2, <1>4, <1>5
  <1>7. QED
    BY <1>4, <1>5, <1>6

\* The function Updates defines: u[n] is what the first n messages leave.
IsTally(u, s, but) ==
  /\ u \in [0..Len(s) -> Seq(Numbers)]
  /\ u[0] = <<>>
  /\ \A n \in 1..Len(s) : u[n] = Noted(u[n - 1], s[n], but)

LEMMA NotedType ==
  ASSUME NEW p \in Seq(Numbers), NEW m \in Proper, NEW but
  PROVE  Noted(p, m, but) \in Seq(Numbers)
  BY DEF Noted, Proper

\* There is one for every sequence, by induction on its length, and only one.
LEMMA TallyExists ==
  ASSUME NEW s \in Seq(Proper), NEW but
  PROVE  \E u : IsTally(u, s, but)
  <1> DEFINE T == {k \in Nat : \A t \in Seq(Proper) : Len(t) = k => \E u : IsTally(u, t, but)}
  <1>1. 0 \in T
    <2>1. SUFFICES ASSUME NEW t \in Seq(Proper), Len(t) = 0 PROVE \E u : IsTally(u, t, but)
      OBVIOUS
    <2>2. [n \in 0..0 |-> <<>>] \in [0..0 -> Seq(Numbers)]
      OBVIOUS
    <2>3. IsTally([n \in 0..0 |-> <<>>], t, but)
      BY <2>1, <2>2 DEF IsTally
    <2>4. QED
      BY <2>3
  <1>2. ASSUME NEW k \in T PROVE k + 1 \in T
    <2>1. SUFFICES ASSUME NEW t \in Seq(Proper), Len(t) = k + 1 PROVE \E u : IsTally(u, t, but)
      OBVIOUS
    <2>2. PICK f \in Seq(Proper) : Len(f) = k /\ \A n \in 1..k : f[n] = t[n]
      <3>1. /\ SubSeq(t, 1, k) \in Seq(Proper) /\ Len(SubSeq(t, 1, k)) = k
            /\ \A n \in 1..k : SubSeq(t, 1, k)[n] = t[n]
        BY <2>1
      <3>2. QED
        BY <3>1
    <2>3. PICK u : IsTally(u, f, but)
      BY <2>2
    <2>4. /\ k \in Nat /\ u \in [0..k -> Seq(Numbers)] /\ u[0] = <<>>
          /\ \A n \in 1..k : u[n] = Noted(u[n - 1], t[n], but)
      BY <2>2, <2>3 DEF IsTally
    <2>5. u[k] \in Seq(Numbers) /\ t[k + 1] \in Proper
      BY <2>1, <2>4
    <2>6. PICK new \in Seq(Numbers) : new = Noted(u[k], t[k + 1], but)
      BY <2>5, NotedType
    <2> DEFINE w == [n \in 0..(k + 1) |-> IF n = k + 1 THEN new ELSE u[n]]
    <2>7. /\ w \in [0..(k + 1) -> Seq(Numbers)] /\ w[0] = <<>> /\ w[k + 1] = new
          /\ \A n \in 0..k : w[n] = u[n]
      BY <2>4
    <2> HIDE DEF w
    <2>8. \A n \in 1..(k + 1) : w[n] = Noted(w[n - 1], t[n], but)
      <3>1. ASSUME NEW n \in 1..k PROVE w[n] = Noted(w[n - 1], t[n], but)
        <4>1. n - 1 \in 0..k /\ n \in 0..k
          BY <2>4
        <4>2. QED
          BY <2>4, <2>7, <4>1
      <3>2. w[k + 1] = Noted(w[k], t[k + 1], but)
        BY <2>4, <2>6, <2>7
      <3>3. QED
        BY <2>4, <3>1, <3>2
    <2>9. IsTally(w, t, but)
      BY <2>1, <2>7, <2>8 DEF IsTally
    <2>10. QED
      BY <2>9
  <1>3. T = Nat
    <2> HIDE DEF T
    <2>1. T \in SUBSET Nat
      BY DEF T
    <2>2. QED
      BY <1>1, <1>2, <2>1, NatSetInduction
  <1>4. Len(s) \in T
    BY <1>3
  <1>5. QED
    BY <1>4

Counts(u, s, but, N) ==
  u[0] = <<>> /\ \A n \in 1..N : u[n] = Noted(u[n - 1], s[n], but)

LEMMA TallyUnique ==
  ASSUME NEW s, NEW but, NEW u, NEW v, NEW N \in Nat,
         Counts(u, s, but, N), Counts(v, s, but, N)
  PROVE  \A n \in 0..N : u[n] = v[n]
  <1> DEFINE T == {k \in Nat : k <= N => u[k] = v[k]}
  <1>1. 0 \in T
    BY DEF Counts
  <1>2. ASSUME NEW k \in T PROVE k + 1 \in T
    <2>1. SUFFICES ASSUME k + 1 <= N PROVE u[k + 1] = v[k + 1]
      OBVIOUS
    <2>2. k \in Nat /\ k + 1 \in 1..N /\ (k + 1) - 1 = k /\ u[k] = v[k]
      BY <2>1
    <2>3. u[k + 1] = Noted(u[k], s[k + 1], but) /\ v[k + 1] = Noted(v[k], s[k + 1], but)
      BY <2>2 DEF Counts
    <2>4. QED
      BY <2>2, <2>3
  <1>3. T = Nat
    <2> HIDE DEF T
    <2>1. T \in SUBSET Nat
      BY DEF T
    <2>2. QED
      BY <1>1, <1>2, <2>1, NatSetInduction
  <1>4. SUFFICES ASSUME NEW n \in 0..N PROVE u[n] = v[n]
    OBVIOUS
  <1>5. n \in Nat /\ n <= N
    OBVIOUS
  <1>6. n \in T
    BY <1>3, <1>5
  <1>7. QED
    BY <1>5, <1>6

\* So Updates is what any such function says.
LEMMA UpdatesIs ==
  ASSUME NEW s \in Seq(Proper), NEW but, NEW u, IsTally(u, s, but)
  PROVE  Updates(s, but) = u[Len(s)] /\ Updates(s, but) \in Seq(Numbers)
  <1> DEFINE F(g) == [n \in 0..Len(s) |-> IF n = 0 THEN <<>> ELSE Noted(g[n - 1], s[n], but)]
  <1>1. PICK k \in Nat : k = Len(s)
    OBVIOUS
  <1>2. u = F(u)
    BY <1>1 DEF IsTally
  <1>3. PICK g : g = F(g) /\ Updates(s, but) = g[k]
    BY <1>1, <1>2 DEF Updates
  <1>4. g[0] = <<>> /\ \A n \in 1..k : g[n] = Noted(g[n - 1], s[n], but)
    <2>1. \A n \in 0..k : g[n] = IF n = 0 THEN <<>> ELSE Noted(g[n - 1], s[n], but)
      BY <1>1, <1>3, Zenon
    <2>2. QED
      BY <2>1
  <1> HIDE DEF F
  <1>5. u[0] = <<>> /\ \A n \in 1..k : u[n] = Noted(u[n - 1], s[n], but)
    BY <1>1 DEF IsTally
  <1>6. \A n \in 0..k : u[n] = g[n]
    <2>1. Counts(u, s, but, k) /\ Counts(g, s, but, k)
      BY <1>4, <1>5 DEF Counts
    <2>2. QED
      BY <2>1, TallyUnique
  <1>7. u[k] = g[k] /\ u[k] \in Seq(Numbers)
    BY <1>1, <1>6 DEF IsTally
  <1>8. QED
    BY <1>1, <1>3, <1>7

LEMMA UpdatesType ==
  ASSUME NEW s \in Seq(Proper), NEW but PROVE Updates(s, but) \in Seq(Numbers)
  BY TallyExists, UpdatesIs

\* The tally of the two parts, one behind the other, is a tally of the whole.
LEMMA UpdatesConcat ==
  ASSUME NEW s \in Seq(Proper), NEW t \in Seq(Proper), NEW but
  PROVE  Updates(s \o t, but) = Updates(s, but) \o Updates(t, but)
  <1>1. PICK u : IsTally(u, s, but)
    BY TallyExists
  <1>2. PICK v : IsTally(v, t, but)
    BY TallyExists
  <1>3. PICK i \in Nat, j \in Nat : i = Len(s) /\ j = Len(t)
    OBVIOUS
  <1>4. PICK p \in Seq(Numbers) : p = u[i]
    BY <1>1, <1>3 DEF IsTally
  <1> DEFINE w == [n \in 0..(i + j) |-> IF n <= i THEN u[n] ELSE p \o v[n - i]]
  <1>5. PICK st \in Seq(Proper) :
          /\ st = s \o t /\ Len(st) = i + j
          /\ \A n \in 1..i : st[n] = s[n]
          /\ \A n \in 1..j : st[i + n] = t[n]
    <2>1. /\ s \o t \in Seq(Proper) /\ Len(s \o t) = i + j
          /\ \A n \in 1..i : (s \o t)[n] = s[n]
          /\ \A n \in 1..j : (s \o t)[i + n] = t[n]
      BY <1>3
    <2>2. QED
      BY <2>1
  <1>6. /\ \A n \in 0..i : w[n] = u[n]
        /\ \A n \in 0..j : w[i + n] = p \o v[n] /\ v[n] \in Seq(Numbers)
    <2>1. \A n \in 0..j : v[n] \in Seq(Numbers)
      BY <1>2, <1>3 DEF IsTally
    <2>2. v[0] = <<>> /\ p \o <<>> = p
      BY <1>2 DEF IsTally
    <2>3. ASSUME NEW n \in 0..j PROVE w[i + n] = p \o v[n]
      <3> PICK k \in 0..(i + j) : k = i + n
        OBVIOUS
      <3>1. CASE n = 0
        <4>1. k <= i /\ k = i
          BY <3>1
        <4>2. w[k] = u[k]
          BY <4>1
        <4>3. QED
          BY <1>4, <2>2, <3>1, <4>1, <4>2
      <3>2. CASE n > 0
        <4>1. ~(k <= i) /\ k - i = n
          BY <3>2
        <4>2. w[k] = IF k <= i THEN u[k] ELSE p \o v[k - i]
          OBVIOUS
        <4>3. w[k] = p \o v[n]
          BY <4>1, <4>2, Zenon
        <4>4. QED
          BY <4>3
      <3>3. n = 0 \/ n > 0
        OBVIOUS
      <3>4. QED
        BY <3>1, <3>2, <3>3, Zenon
    <2>4. \A n \in 0..i : w[n] = u[n]
      OBVIOUS
    <2>5. QED
      BY <2>1, <2>3, <2>4
  <1>7. w \in [0..(i + j) -> Seq(Numbers)]
    <2>1. \A n \in 0..i : u[n] \in Seq(Numbers)
      BY <1>1, <1>3 DEF IsTally
    <2>2. \A n \in 0..j : p \o v[n] \in Seq(Numbers)
      <3>1. \A x \in Seq(Numbers) : p \o x \in Seq(Numbers)
        OBVIOUS
      <3>2. QED
        BY <1>6, <3>1
    <2>3. ASSUME NEW n \in 0..(i + j) PROVE w[n] \in Seq(Numbers)
      <3>1. CASE n <= i
        BY <2>1, <3>1
      <3>2. CASE ~(n <= i)
        <4>1. n - i \in 0..j
          BY <3>2
        <4>2. QED
          BY <2>2, <3>2, <4>1
      <3>3. QED
        BY <3>1, <3>2
    <2>4. QED
      BY <2>3
  <1> HIDE DEF w
  <1>8. IsTally(w, st, but)
    <2>1. w[0] = <<>>
      BY <1>1, <1>6 DEF IsTally
    <2>2. ASSUME NEW n \in 1..i PROVE w[n] = Noted(w[n - 1], st[n], but)
      <3>1. n \in 0..i /\ n - 1 \in 0..i
        OBVIOUS
      <3>2. u[n] = Noted(u[n - 1], s[n], but)
        BY <1>1, <1>3 DEF IsTally
      <3>3. QED
        BY <1>5, <1>6, <3>1, <3>2
    <2>3. ASSUME NEW n \in 1..j PROVE w[i + n] = Noted(w[(i + n) - 1], st[i + n], but)
      <3>1. n \in 0..j /\ n - 1 \in 0..j /\ (i + n) - 1 = i + (n - 1)
        OBVIOUS
      <3>2. v[n] = Noted(v[n - 1], t[n], but)
        BY <1>2, <1>3 DEF IsTally
      <3>3. w[i + n] = p \o v[n] /\ w[(i + n) - 1] = p \o v[n - 1] /\ v[n - 1] \in Seq(Numbers)
        BY <1>6, <3>1
      <3>4. t[n] \in Proper /\ st[i + n] = t[n]
        BY <1>3, <1>5
      <3>5. p \o Noted(v[n - 1], t[n], but) = Noted(p \o v[n - 1], t[n], but)
        <4>1. PICK x \in Seq(Numbers) : x = v[n - 1]
          BY <3>3
        <4>2. CASE t[n].kind = "update" /\ t[n].from # but
          <5>1. PICK a \in Numbers : a = t[n].arg
            BY <3>4, <4>2 DEF Proper
          <5>2. p \o Append(x, a) = Append(p \o x, a)
            OBVIOUS
          <5>3. QED
            BY <4>1, <4>2, <5>1, <5>2 DEF Noted
        <4>3. CASE ~(t[n].kind = "update" /\ t[n].from # but)
          BY <4>3 DEF Noted
        <4>4. QED
          BY <4>2, <4>3
      <3>6. QED
        BY <3>2, <3>3, <3>4, <3>5
    <2>4. ASSUME NEW n \in 1..(i + j) PROVE w[n] = Noted(w[n - 1], st[n], but)
      <3>1. CASE n <= i
        BY <2>2, <3>1
      <3>2. CASE ~(n <= i)
        <4>1. PICK k \in 1..j : n = i + k
          <5>1. n - i \in 1..j /\ n = i + (n - i)
            BY <3>2
          <5>2. QED
            BY <5>1
        <4>2. QED
          BY <2>3, <4>1
      <3>3. QED
        BY <3>1, <3>2
    <2>5. QED
      BY <1>5, <1>7, <2>1, <2>4 DEF IsTally
  <1>9. Updates(st, but) = w[i + j]
    <2>1. Updates(st, but) = w[Len(st)]
      BY <1>8, UpdatesIs
    <2>2. QED
      BY <1>5, <2>1
  <1>10. w[i + j] = p \o v[j]
    <2>1. j \in 0..j
      OBVIOUS
    <2>2. QED
      BY <1>6, <2>1
  <1>11. Updates(s, but) = p /\ Updates(t, but) = v[j]
    BY <1>1, <1>2, <1>3, <1>4, UpdatesIs
  <1>12. QED
    BY <1>5, <1>9, <1>10, <1>11

LEMMA UpdatesOfOne ==
  ASSUME NEW m \in Proper, NEW but
  PROVE  Updates(<<m>>, but) = Noted(<<>>, m, but)
  <1> DEFINE w == [n \in 0..1 |-> IF n = 0 THEN <<>> ELSE Noted(<<>>, m, but)]
  <1>1. Noted(<<>>, m, but) \in Seq(Numbers)
    <2>1. <<>> \in Seq(Numbers)
      OBVIOUS
    <2>2. QED
      BY <2>1, NotedType
  <1>2. w \in [0..1 -> Seq(Numbers)] /\ w[0] = <<>> /\ w[1] = Noted(<<>>, m, but)
    BY <1>1
  <1> HIDE DEF w
  <1>3. PICK s \in Seq(Proper) : s = <<m>> /\ Len(s) = 1 /\ s[1] = m
    <2>1. <<m>> \in Seq(Proper) /\ Len(<<m>>) = 1 /\ <<m>>[1] = m
      OBVIOUS
    <2>2. QED
      BY <2>1
  <1>4. IsTally(w, s, but)
    BY <1>2, <1>3 DEF IsTally
  <1>5. QED
    BY <1>2, <1>3, <1>4, UpdatesIs

\* Frames that are no updates, or the person's own, count for nothing.
LEMMA UpdatesOfNone ==
  ASSUME NEW s \in Seq(Proper), NEW but,
         \A n \in 1..Len(s) : s[n].kind # "update" \/ s[n].from = but
  PROVE  Updates(s, but) = <<>>
  <1> DEFINE w == [n \in 0..Len(s) |-> <<>>]
  <1>1. w \in [0..Len(s) -> Seq(Numbers)] /\ w[0] = <<>> /\ \A n \in 0..Len(s) : w[n] = <<>>
    OBVIOUS
  <1> HIDE DEF w
  <1>2. \A n \in 1..Len(s) : n - 1 \in 0..Len(s) /\ n \in 0..Len(s)
    OBVIOUS
  <1>3. IsTally(w, s, but)
    BY <1>1, <1>2 DEF IsTally, Noted
  <1>4. QED
    BY <1>1, <1>3, UpdatesIs

\* A queue that loses its head to the connection.
LEMMA UpdatesOfTail ==
  ASSUME NEW s \in Seq(Proper), s # <<>>, NEW but
  PROVE  Updates(s, but) = Noted(<<>>, Head(s), but) \o Updates(Tail(s), but)
  <1>1. PICK m \in Proper, t \in Seq(Proper) : m = Head(s) /\ t = Tail(s)
    <2>1. Head(s) \in Proper /\ Tail(s) \in Seq(Proper)
      OBVIOUS
    <2>2. QED
      BY <2>1
  <1>2. <<m>> \in Seq(Proper) /\ s = <<m>> \o t
    BY <1>1
  <1>3. Updates(s, but) = Updates(<<m>>, but) \o Updates(t, but)
    BY <1>2, UpdatesConcat
  <1>4. QED
    BY <1>1, <1>3, UpdatesOfOne

LEMMA PrefixOfItself ==
  ASSUME NEW s \in Seq(Numbers) PROVE IsPrefix(s, s) /\ IsPrefix(<<>>, s)
  <1>1. Len(<<>>) = 0 /\ SubSeq(<<>>, 1, 0) = <<>> /\ SubSeq(s, 1, 0) = <<>> /\ 0 <= Len(s)
    OBVIOUS
  <1>2. IsPrefix(<<>>, s)
    BY <1>1 DEF IsPrefix
  <1>3. IsPrefix(s, s)
    BY DEF IsPrefix
  <1>4. QED
    BY <1>2, <1>3

LEMMA PrefixOfMore ==
  ASSUME NEW s \in Seq(Numbers), NEW t \in Seq(Numbers), NEW r \in Seq(Numbers), IsPrefix(s, t)
  PROVE  IsPrefix(s, t \o r)
  <1>1. Len(s) <= Len(t) /\ SubSeq(s, 1, Len(s)) = SubSeq(t, 1, Len(s))
    BY DEF IsPrefix
  <1>2. Len(s) <= Len(t \o r) /\ SubSeq(t \o r, 1, Len(s)) = SubSeq(t, 1, Len(s))
    BY <1>1
  <1>3. QED
    BY <1>1, <1>2 DEF IsPrefix

\* Whoever is in a hub was given that hub; who has not registered was sent no
\* update and is owed nothing yet; nobody registered after the last update.
AtHome == \A h \in Hubs : \A c \in members[h] : at[c] = h
Untold ==
  \A c \in Clients : reader[c] \in {"off", "joining"} => since[c] = 0 /\ Received(c) = <<>>
SinceThen == \A c \in Clients : at[c] # 0 => since[c] <= Len(log[at[c]])

Told == AtHome /\ Untold /\ SinceThen /\ NoGap
GapInv == HubInv /\ Told

LEMMA ToldTypes ==
  ASSUME Typed, NEW c \in Clients
  PROVE  /\ got[c] \in Seq(Numbers) /\ Updates(out[c], Nobody) \in Seq(Numbers)
         /\ Received(c) \in Seq(Numbers)
         /\ \A h \in Hubs : Owed(h, c) \in Seq(Numbers)
  <1>1. got[c] \in Seq(Numbers) /\ out[c] \in Seq(Proper) /\ since[c] \in Nat
    BY DEF Typed, TypeOK
  <1>2. Updates(out[c], Nobody) \in Seq(Numbers)
    BY <1>1, UpdatesType
  <1>3. Received(c) \in Seq(Numbers)
    BY <1>1, <1>2 DEF Received
  <1>4. ASSUME NEW h \in Hubs PROVE Owed(h, c) \in Seq(Numbers)
    <2>1. PICK l \in Seq(Proper), k \in Nat : l = log[h] /\ k = since[c]
      BY <1>1 DEF Typed
    <2>2. SubSeq(l, k + 1, Len(l)) \in Seq(Proper)
      OBVIOUS
    <2>3. QED
      BY <2>1, <2>2, UpdatesType DEF Owed
  <1>5. QED
    BY <1>1, <1>2, <1>3, <1>4

\* A step that neither adds to a log nor to what somebody was sent, and lets
\* nobody in.
LEMMA NothingTold ==
  ASSUME Typed, Told, UNCHANGED <<at, log, since>>,
         \A h \in Hubs : members'[h] \subseteq members[h],
         \A c \in Clients : reader'[c] \in {"off", "joining"} => reader[c] \in {"off", "joining"},
         \A c \in Clients : Received(c)' = Received(c)
  PROVE  Told'
  <1>1. AtHome' /\ SinceThen'
    BY DEF Told, AtHome, SinceThen
  <1>2. Untold'
    BY DEF Told, Untold
  <1>3. NoGap'
    <2>1. \A h, c : Owed(h, c)' = Owed(h, c)
      BY DEF Owed
    <2>2. SUFFICES ASSUME NEW c \in Clients, at[c] # 0
                   PROVE  /\ c \in members'[at[c]] => Received(c)' = Owed(at[c], c)
                          /\ IsPrefix(Received(c)', Owed(at[c], c))
      BY <2>1 DEF NoGap
    <2>3. /\ c \in members[at[c]] => Received(c) = Owed(at[c], c)
          /\ IsPrefix(Received(c), Owed(at[c], c))
      BY <2>2 DEF Told, NoGap
    <2>4. Received(c)' = Received(c)
      OBVIOUS
    <2>5. c \in members'[at[c]] => c \in members[at[c]]
      <3>1. at[c] \in Hubs
        BY <2>2, HubAssumption DEF Typed, TypeOK, Hubs
      <3>2. QED
        BY <3>1
    <2>6. QED
      BY <2>3, <2>4, <2>5
  <1>4. QED
    BY <1>1, <1>2, <1>3 DEF Told

\* What a channel takes of quiet frames does not count.
LEMMA QuietCounts ==
  ASSUME Typed, NEW c \in Clients, NEW mail \in QuietMails
  PROVE  Updates(Queued(c, mail), Nobody) = Updates(out[c], Nobody)
  <1>1. PICK p \in Seq(Proper), q \in Seq(Quiet), n \in Nat :
          p = out[c] /\ q = mail[c] /\ n = SendCap
    BY HubAssumption DEF Typed, QuietMails
  <1>2. Len(p) <= n
    BY <1>1 DEF Typed, TypeOK
  <1>3. q \in Seq(Proper)
    <2>1. Quiet \subseteq Proper
      BY DEF Quiet
    <2>2. QED
      BY <2>1
  <1>4. PICK k \in 0..Len(q) : Len(p) + k = IF Len(p \o q) > n THEN n ELSE Len(p \o q)
    <2>1. Len(p \o q) = Len(p) + Len(q) /\ Len(p) \in Nat /\ Len(q) \in Nat
      BY <1>3
    <2>2. CASE Len(p) + Len(q) > n
      <3>1. n - Len(p) \in 0..Len(q) /\ Len(p) + (n - Len(p)) = n
        BY <1>2, <2>1, <2>2
      <3>2. QED
        BY <2>1, <2>2, <3>1
    <2>3. CASE ~(Len(p) + Len(q) > n)
      <3>1. Len(q) \in 0..Len(q)
        BY <2>1
      <3>2. QED
        BY <2>1, <2>3, <3>1
    <2>4. QED
      BY <2>2, <2>3
  <1>5. Queued(c, mail) = SubSeq(p \o q, 1, Len(p) + k)
    BY <1>1, <1>4 DEF Queued
  <1>6. PICK r \in Seq(Proper) : r = SubSeq(q, 1, k) /\ Len(r) = k
    <2>1. SubSeq(q, 1, k) \in Seq(Proper) /\ Len(SubSeq(q, 1, k)) = k
      BY <1>3
    <2>2. QED
      BY <2>1
  <1>7. SubSeq(p \o q, 1, Len(p) + k) = p \o r
    BY <1>3, <1>6
  <1>8. \A i \in 1..Len(r) : r[i] \in Quiet
    BY <1>6
  <1>9. Updates(r, Nobody) = <<>>
    BY <1>8, UpdatesOfNone DEF Quiet
  <1>10. Updates(p \o r, Nobody) = Updates(p, Nobody)
    <2>1. Updates(p \o r, Nobody) = Updates(p, Nobody) \o Updates(r, Nobody)
      BY UpdatesConcat
    <2>2. PICK x \in Seq(Numbers) : x = Updates(p, Nobody)
      BY UpdatesType
    <2>3. x \o <<>> = x
      OBVIOUS
    <2>4. QED
      BY <1>9, <2>1, <2>2, <2>3
  <1>11. QED
    BY <1>1, <1>5, <1>7, <1>10

LEMMA QuietMail ==
  ASSUME Typed, UNCHANGED got, NEW h \in Hubs, NEW inside, NEW to, NEW mail \in QuietMails,
         Mail(h, inside, to, mail)
  PROVE  \A c \in Clients : Received(c)' = Received(c)
  <1>1. SUFFICES ASSUME NEW c \in Clients PROVE Received(c)' = Received(c)
    OBVIOUS
  <1>2. out'[c] = Queued(c, mail) \/ out'[c] = out[c]
    BY DEF Mail
  <1>3. Updates(out'[c], Nobody) = Updates(out[c], Nobody)
    BY <1>2, QuietCounts
  <1>4. QED
    BY <1>3 DEF Received

\* A step that sends nothing.
LEMMA NothingSent ==
  ASSUME GapInv, UNCHANGED <<at, log, since, got, out, members>>,
         \A c \in Clients : reader'[c] \in {"off", "joining"} => reader[c] \in {"off", "joining"}
  PROVE  Told'
  <1>1. \A c \in Clients : Received(c)' = Received(c)
    BY DEF Received
  <1>2. \A h \in Hubs : members'[h] \subseteq members[h]
    OBVIOUS
  <1>3. QED
    BY <1>1, <1>2, NothingTold DEF GapInv, HubInv

\* A step that sends quiet frames, and at most evicts.
LEMMA QuietlySent ==
  ASSUME GapInv, UNCHANGED <<reader, at, log, since, got>>,
         NEW h \in Hubs, NEW to, NEW mail \in QuietMails, Mail(h, members[h], to, mail)
  PROVE  Told'
  <1>1. \A c \in Clients : Received(c)' = Received(c)
    BY QuietMail DEF GapInv, HubInv
  <1>2. \A k \in Hubs : members'[k] \subseteq members[k]
    BY DEF Mail, GapInv, HubInv, Typed, TypeOK
  <1>3. QED
    BY <1>1, <1>2, NothingTold DEF GapInv, HubInv

LEMMA IdleTells ==
  ASSUME GapInv,
         \/ \E c \in Clients : \/ Enqueue(c) \/ Leave(c)
                               \/ \E m \in Incoming(c) : Receive(c, m)
         \/ \E h \in Hubs : SetCursor(h) \/ SetViewport(h)
         \/ LookUp \/ Push
  PROVE  Told'
  <1>1. reader \in [Clients -> {"off", "joining", "reading", "sending", "leaving", "left"}]
    BY DEF GapInv, HubInv, Typed, TypeOK
  <1>2. ASSUME NEW c \in Clients,
               Enqueue(c) \/ Leave(c) \/ \E m \in Incoming(c) : Receive(c, m)
        PROVE  Told'
    <2>1. UNCHANGED <<at, log, since, got, out, members>>
      BY <1>2 DEF Enqueue, Leave, Receive, sendVars, historyVars
    <2>2. \A d \in Clients : reader'[d] \in {"off", "joining"} => reader[d] \in {"off", "joining"}
      BY <1>1, <1>2 DEF Enqueue, Leave, Receive
    <2>3. QED
      BY <2>1, <2>2, NothingSent
  <1>3. ASSUME NEW h \in Hubs, SetCursor(h) \/ SetViewport(h) PROVE Told'
    <2>1. UNCHANGED <<at, log, since, got, out, members, reader>>
      BY <1>3 DEF SetCursor, SetViewport, Take, connVars, sendVars
    <2>2. QED
      BY <2>1, NothingSent
  <1>4. ASSUME LookUp \/ Push PROVE Told'
    <2>1. UNCHANGED <<at, log, since, got, out, members, reader>>
      BY <1>4 DEF LookUp, Push, connVars, sendVars, historyVars
    <2>2. QED
      BY <2>1, NothingSent
  <1>5. QED
    BY <1>2, <1>3, <1>4

LEMMA UnfollowTells == ASSUME GapInv, NEW h \in Hubs, Unfollow(h) PROVE Told'
  <1>1. Mail(h, members[h], members[h], FollowersMail)
    BY DEF Unfollow
  <1>2. UNCHANGED <<reader, at, log, since, got>>
    BY DEF Unfollow, Take, connVars
  <1>3. PICK mail \in QuietMails : mail = FollowersMail
    BY QuietTypes
  <1>4. QED
    BY <1>1, <1>2, <1>3, QuietlySent

LEMMA TickTells == ASSUME GapInv, NEW h \in Hubs, Tick(h) PROVE Told'
  <1>1. Mail(h, members[h], members[h], FlushMail(presence[h]))
    BY DEF Tick
  <1>2. UNCHANGED <<reader, at, log, since, got>>
    BY DEF Tick, connVars, historyVars
  <1>3. presence[h] \in Registry
    BY DEF GapInv, HubInv, Typed, TypeOK
  <1>4. PICK mail \in QuietMails : mail = FlushMail(presence[h])
    BY <1>3, QuietTypes
  <1>5. QED
    BY <1>1, <1>2, <1>4, QuietlySent

LEMMA FollowTells == ASSUME GapInv, NEW h \in Hubs, Follow(h) PROVE Told'
  <1>1. UNCHANGED <<reader, at, log, since, got>>
    BY DEF Follow, Take, connVars
  <1>2. Head(broadcast[h]) \in Proper /\ Head(broadcast[h]).kind \in {"follow"}
    BY TakeStep DEF Follow, GapInv
  <1>3. PICK m \in Proper : m = Head(broadcast[h])
    BY <1>2
  <1>4. CASE m.arg \in presence[h].view
    <2>1. Mail(h, members[h], members[h] \cup {m.from}, Answer(m))
      BY <1>3, <1>4 DEF Follow, Answer
    <2>2. Answer(m) \in QuietMails
      <3>1. m.arg \in Clients
        BY <1>2, <1>3 DEF Proper
      <3>2. /\ <<Message("viewport", m.arg, 0), Followers>> \in Seq(Quiet)
            /\ <<Followers>> \in Seq(Quiet)
        BY <3>1, Frames
      <3>3. QED
        BY <3>2 DEF Answer, QuietMails
    <2>3. PICK mail \in QuietMails : mail = Answer(m)
      BY <2>2
    <2>4. QED
      BY <1>1, <2>1, <2>3, QuietlySent
  <1>5. CASE m.arg \notin presence[h].view
    <2>1. Mail(h, members[h], members[h], FollowersMail)
      BY <1>3, <1>5 DEF Follow
    <2>2. PICK mail \in QuietMails : mail = FollowersMail
      BY QuietTypes
    <2>3. QED
      BY <1>1, <2>1, <2>2, QuietlySent
  <1>6. QED
    BY <1>4, <1>5

LEMMA UnregisterTells == ASSUME GapInv, NEW c \in Clients, Unregister(c) PROVE Told'
  <1>1. at[c] \in Hubs
    BY HubAssumption DEF Unregister, Running, Is, GapInv, HubInv, Typed, TypeOK, Hubs
  <1>2. PICK h \in Hubs : h = at[c]
    BY <1>1
  <1>3. UNCHANGED <<at, log, since, got>> /\ reader' = [reader EXCEPT ![c] = "left"]
    BY DEF Unregister, historyVars
  <1>4. \A d \in Clients : reader'[d] \in {"off", "joining"} => reader[d] \in {"off", "joining"}
    BY <1>3 DEF GapInv, HubInv, Typed, TypeOK
  <1>5. CASE c \in members[h]
    <2>1. PICK rest \in SUBSET Clients : rest = members[h] \ {c}
      BY DEF GapInv, HubInv, Typed, TypeOK
    <2>2. PICK mail \in QuietMails : mail = LeaveMail(h, c)
      BY QuietTypes
    <2>3. /\ out' = [d \in Clients |-> IF d \in rest THEN Queued(d, mail) ELSE out[d]]
          /\ members' = [members EXCEPT ![h] = rest \ Overflows(rest, mail)]
      BY <1>2, <1>5, <2>1, <2>2 DEF Unregister
    <2>4. \A k \in Hubs : members'[k] \subseteq members[k]
      BY <2>1, <2>3 DEF GapInv, HubInv, Typed, TypeOK
    <2>5. ASSUME NEW d \in Clients PROVE Received(d)' = Received(d)
      <3>1. out'[d] = Queued(d, mail) \/ out'[d] = out[d]
        BY <2>3
      <3>2. Updates(out'[d], Nobody) = Updates(out[d], Nobody)
        BY <3>1, QuietCounts DEF GapInv, HubInv
      <3>3. QED
        BY <1>3, <3>2 DEF Received
    <2>6. QED
      BY <1>3, <1>4, <2>4, <2>5, NothingTold DEF GapInv, HubInv
  <1>6. CASE c \notin members[h]
    <2>1. UNCHANGED <<out, members>>
      BY <1>2, <1>6 DEF Unregister, sendVars
    <2>2. QED
      BY <1>3, <1>4, <2>1, NothingSent
  <1>7. QED
    BY <1>5, <1>6

\* Moving a frame from the channel to the wire changes nothing.
LEMMA WriteTells == ASSUME GapInv, NEW c \in Clients, Write(c) PROVE Told'
  <1>1. PICK s \in Seq(Proper), g \in Seq(Numbers) : s = out[c] /\ g = got[c] /\ s # <<>>
    BY DEF Write, GapInv, HubInv, Typed
  <1>2. PICK m \in Proper, t \in Seq(Proper) : m = Head(s) /\ t = Tail(s)
    <2>1. Head(s) \in Proper /\ Tail(s) \in Seq(Proper)
      BY <1>1
    <2>2. QED
      BY <2>1
  <1>3. /\ out' = [out EXCEPT ![c] = t]
        /\ got' = IF m.kind = "update" THEN [got EXCEPT ![c] = Append(g, m.arg)] ELSE got
        /\ UNCHANGED <<at, log, since, members, reader>>
    BY <1>1, <1>2 DEF Write, connVars
  <1>4. out \in [Clients -> Seq(Proper)] /\ got \in [Clients -> Seq(Numbers)]
    BY DEF GapInv, HubInv, Typed
  <1>5. Received(c)' = Received(c)
    <2>1. Updates(s, Nobody) = Noted(<<>>, m, Nobody) \o Updates(t, Nobody)
      BY <1>1, <1>2, UpdatesOfTail
    <2>2. PICK x \in Seq(Numbers) : x = Updates(t, Nobody)
      BY UpdatesType
    <2>3. Received(c) = g \o (Noted(<<>>, m, Nobody) \o x)
      BY <1>1, <2>1, <2>2 DEF Received
    <2>4. Received(c)' = got'[c] \o x
      BY <1>3, <1>4, <2>2 DEF Received
    <2>5. CASE m.kind = "update"
      <3>1. PICK a \in Numbers : a = m.arg
        BY <2>5 DEF Proper
      <3>2. m.from # Nobody
        BY <2>5, HubAssumption DEF Proper
      <3>3. Noted(<<>>, m, Nobody) = <<a>>
        BY <2>5, <3>1, <3>2 DEF Noted
      <3>4. got'[c] = Append(g, a)
        BY <1>3, <1>4, <2>5, <3>1
      <3>5. g \o (<<a>> \o x) = Append(g, a) \o x
        OBVIOUS
      <3>6. QED
        BY <2>3, <2>4, <3>3, <3>4, <3>5
    <2>6. CASE m.kind # "update"
      <3>1. Noted(<<>>, m, Nobody) = <<>> /\ got'[c] = g
        BY <1>1, <1>3, <2>6 DEF Noted
      <3>2. g \o (<<>> \o x) = g \o x
        OBVIOUS
      <3>3. QED
        BY <2>3, <2>4, <3>1, <3>2
    <2>7. QED
      BY <2>5, <2>6
  <1>6. ASSUME NEW d \in Clients, d # c PROVE Received(d)' = Received(d)
    <2>1. out'[d] = out[d] /\ got'[d] = got[d]
      BY <1>3, <1>4, <1>6
    <2>2. QED
      BY <2>1 DEF Received
  <1>7. QED
    BY <1>3, <1>5, <1>6, NothingTold DEF GapInv, HubInv

LEMMA ReadStateTells == ASSUME GapInv, NEW c \in Clients, ReadState(c) PROVE Told'
  <1>1. /\ UNCHANGED <<at, log, since, got, members>> /\ reader[c] = "off"
        /\ reader' = [reader EXCEPT ![c] = "joining"]
    BY DEF ReadState, Is, historyVars
  <1>2. PICK seed \in Seq(Quiet) : out' = [out EXCEPT ![c] = seed]
    <2>1. <<>> \in Seq(Quiet) /\ <<Snapshot>> \in Seq(Quiet)
      BY Frames
    <2>2. QED
      BY <2>1 DEF ReadState
  <1>3. /\ out \in [Clients -> Seq(Proper)]
        /\ reader \in [Clients -> {"off", "joining", "reading", "sending", "leaving", "left"}]
    BY DEF GapInv, HubInv, Typed, TypeOK
  <1>4. Updates(seed, Nobody) = <<>>
    <2>1. Quiet \subseteq Proper
      BY DEF Quiet
    <2>2. seed \in Seq(Proper) /\ \A n \in 1..Len(seed) : seed[n] \in Quiet
      BY <2>1
    <2>3. QED
      BY <2>2, UpdatesOfNone DEF Quiet
  <1>5. Received(c)' = Received(c)
    <2>1. PICK g \in Seq(Numbers), x \in Seq(Numbers) : g = got[c] /\ x = Updates(out[c], Nobody)
      BY ToldTypes DEF GapInv, HubInv
    <2>2. g \o x = <<>>
      BY <1>1, <2>1 DEF GapInv, Told, Untold, Received
    <2>3. g = <<>>
      BY <2>2
    <2>4. Received(c)' = g \o Updates(seed, Nobody)
      BY <1>1, <1>2, <1>3, <2>1 DEF Received
    <2>5. g \o <<>> = g
      OBVIOUS
    <2>6. QED
      BY <1>4, <2>1, <2>2, <2>3, <2>4, <2>5 DEF Received
  <1>6. ASSUME NEW d \in Clients, d # c PROVE Received(d)' = Received(d)
    BY <1>1, <1>2, <1>3, <1>6 DEF Received
  <1>7. \A d \in Clients : reader'[d] \in {"off", "joining"} => reader[d] \in {"off", "joining"}
    BY <1>1, <1>3
  <1>8. QED
    BY <1>1, <1>5, <1>6, <1>7, NothingTold DEF GapInv, HubInv

\* Another hub is tried, by one who was told nothing so far.
LEMMA MoveTells ==
  ASSUME GapInv, NEW c \in Clients, NEW k \in 0..MaxHubs, reader[c] = "joining",
         at' = [at EXCEPT ![c] = k], UNCHANGED <<members, log, since, got, out, reader>>
  PROVE  Told'
  <1>1. /\ at \in [Clients -> 0..MaxHubs] /\ MaxHubs \in Nat
        /\ \A h \in Hubs : c \notin members[h] /\ members[h] \subseteq Clients
        /\ \A h \in Hubs : Len(log[h]) \in Nat
    BY HubAssumption DEF GapInv, HubInv, Typed, TypeOK, Newcomers
  <1>2. since[c] = 0 /\ Received(c) = <<>>
    BY DEF GapInv, Told, Untold
  <1>3. AtHome'
    BY <1>1 DEF GapInv, Told, AtHome
  <1>4. Untold'
    BY DEF GapInv, Told, Untold, Received
  <1>5. \A d \in Clients : at'[d] = IF d = c THEN k ELSE at[d]
    BY <1>1
  <1>6. k # 0 => k \in Hubs
    BY <1>1 DEF Hubs
  <1>7. SinceThen'
    BY <1>1, <1>2, <1>5, <1>6 DEF GapInv, Told, SinceThen
  <1>8. NoGap'
    <2>1. \A h, d : Owed(h, d)' = Owed(h, d) /\ Received(d)' = Received(d)
      BY DEF Owed, Received
    <2>2. SUFFICES ASSUME NEW d \in Clients, at'[d] # 0
                   PROVE  /\ d \in members[at'[d]] => Received(d) = Owed(at'[d], d)
                          /\ IsPrefix(Received(d), Owed(at'[d], d))
      BY <2>1 DEF NoGap
    <2>3. CASE d = c
      <3>1. at'[d] = k /\ k \in Hubs
        BY <1>5, <1>6, <2>2, <2>3
      <3>2. Owed(k, c) \in Seq(Numbers)
        BY <3>1, ToldTypes DEF GapInv, HubInv
      <3>3. IsPrefix(<<>>, Owed(k, c))
        BY <3>2, PrefixOfItself
      <3>4. QED
        BY <1>1, <1>2, <2>3, <3>1, <3>3
    <2>4. CASE d # c
      <3>1. at'[d] = at[d]
        BY <1>5, <2>4
      <3>2. QED
        BY <2>2, <3>1 DEF GapInv, Told, NoGap
    <2>5. QED
      BY <2>3, <2>4
  <1>9. QED
    BY <1>3, <1>4, <1>7, <1>8 DEF Told

LEMMA GetOrCreateTells == ASSUME GapInv, NEW c \in Clients, GetOrCreate(c) PROVE Told'
  <1>1. /\ reader[c] = "joining" /\ at' = [at EXCEPT ![c] = hub']
        /\ UNCHANGED <<members, log, since, got, out, reader>>
    BY DEF GetOrCreate, Is, sendVars, historyVars
  <1>2. hub' \in 0..MaxHubs
    BY HubAssumption DEF GetOrCreate, GapInv, HubInv, Typed, TypeOK
  <1>3. PICK k \in 0..MaxHubs : k = hub'
    BY <1>2
  <1>4. QED
    BY <1>1, <1>3, MoveTells

LEMMA RetryTells == ASSUME GapInv, NEW c \in Clients, Retry(c) PROVE Told'
  <1>1. /\ reader[c] = "joining" /\ at' = [at EXCEPT ![c] = 0]
        /\ UNCHANGED <<members, log, since, got, out, reader>>
    BY DEF Retry, Is, sendVars, historyVars
  <1>2. 0 \in 0..MaxHubs
    BY HubAssumption
  <1>3. QED
    BY <1>1, <1>2, MoveTells

\* From here on a client is owed what is drawn.
LEMMA RegisterTells == ASSUME GapInv, NEW c \in Clients, Register(c) PROVE Told'
  <1>1. at[c] \in Hubs
    BY HubAssumption DEF Register, Running, Is, GapInv, HubInv, Typed, TypeOK, Hubs
  <1>2. PICK h \in Hubs : h = at[c]
    BY <1>1
  <1>3. PICK mail \in QuietMails :
          mail = IF SomeoneFollows(h) THEN FollowersMail ELSE NoMail
    BY QuietTypes
  <1>4. /\ reader[c] = "joining" /\ reader' = [reader EXCEPT ![c] = "reading"]
        /\ since' = [since EXCEPT ![c] = Len(log[h])]
        /\ Mail(h, members[h] \cup {c}, members[h] \cup {c}, mail)
        /\ UNCHANGED <<at, log, got>>
    BY <1>2, <1>3 DEF Register, Is
  <1>5. /\ members \in [Hubs -> SUBSET Clients] /\ at \in [Clients -> 0..MaxHubs]
        /\ reader \in [Clients -> {"off", "joining", "reading", "sending", "leaving", "left"}]
        /\ since \in [Clients -> Nat] /\ \A k \in Hubs : log[k] \in Seq(Proper)
    BY DEF GapInv, HubInv, Typed, TypeOK
  <1>6. \A d \in Clients : Received(d)' = Received(d)
    BY <1>4, QuietMail DEF GapInv, HubInv
  <1>7. \A k \in Hubs : members'[k] \subseteq members[k] \cup (IF k = h THEN {c} ELSE {})
    BY <1>4, <1>5 DEF Mail
  <1>8. AtHome'
    BY <1>2, <1>4, <1>7 DEF GapInv, Told, AtHome
  <1>9. Untold'
    BY <1>4, <1>5, <1>6 DEF GapInv, Told, Untold
  <1>10. SinceThen'
    <2>1. Len(log[h]) <= Len(log[h])
      BY <1>5
    <2>2. QED
      BY <1>2, <1>4, <1>5, <2>1 DEF GapInv, Told, SinceThen
  <1>11. Owed(h, c)' = <<>> /\ Received(c)' = <<>>
    <2>1. PICK l \in Seq(Proper) : l = log[h]
      BY <1>5
    <2>2. SubSeq(l, Len(l) + 1, Len(l)) = <<>>
      OBVIOUS
    <2>3. <<>> \in Seq(Proper) /\ \A n \in 1..Len(<<>>) : FALSE
      OBVIOUS
    <2>4. Updates(<<>>, c) = <<>>
      BY <2>3, UpdatesOfNone
    <2>5. Owed(h, c)' = Updates(SubSeq(l, Len(l) + 1, Len(l)), c)
      BY <1>4, <1>5, <2>1 DEF Owed
    <2>6. Received(c) = <<>>
      BY <1>4 DEF GapInv, Told, Untold
    <2>7. QED
      BY <1>6, <2>2, <2>4, <2>5, <2>6
  <1>12. NoGap'
    <2>1. SUFFICES ASSUME NEW d \in Clients, at[d] # 0
                   PROVE  /\ d \in members'[at[d]] => Received(d)' = Owed(at[d], d)'
                          /\ IsPrefix(Received(d)', Owed(at[d], d)')
      BY <1>4 DEF NoGap
    <2>2. CASE d = c
      <3>1. PICK none \in Seq(Numbers) : none = <<>>
        <4>1. <<>> \in Seq(Numbers)
          OBVIOUS
        <4>2. QED
          BY <4>1
      <3>2. IsPrefix(none, none)
        BY PrefixOfItself
      <3>3. Received(d)' = none /\ Owed(at[d], d)' = none
        <4>1. Owed(h, d)' = none /\ Received(d)' = none
          BY <1>11, <2>2, <3>1
        <4>2. at[d] = h /\ at'[d] = h
          BY <1>2, <1>4, <2>2
        <4>3. QED
          BY <4>1, <4>2, <1>4 DEF Owed
      <3>4. QED
        BY <3>2, <3>3
    <2>3. CASE d # c
      <3>1. at[d] \in Hubs
        BY <1>5, <2>1, HubAssumption DEF Hubs
      <3>2. Owed(at[d], d)' = Owed(at[d], d)
        BY <1>4, <1>5, <2>3 DEF Owed
      <3>3. d \in members'[at[d]] => d \in members[at[d]]
        BY <1>7, <2>3, <3>1
      <3>4. /\ d \in members[at[d]] => Received(d) = Owed(at[d], d)
            /\ IsPrefix(Received(d), Owed(at[d], d))
        BY <2>1 DEF GapInv, Told, NoGap
      <3>5. QED
        BY <1>6, <3>2, <3>3, <3>4
    <2>4. QED
      BY <2>2, <2>3
  <1>13. QED
    BY <1>8, <1>9, <1>10, <1>12 DEF Told

\* An update reaches everybody who stays in the hub, but its sender, and
\* nobody else, not even in part.
LEMMA Relayed ==
  ASSUME Typed, UNCHANGED got, NEW h \in Hubs, NEW m \in Proper, m.kind = "update",
         Mail(h, members[h], members[h], [c \in Clients |-> IF c = m.from THEN <<>> ELSE <<m>>]),
         NEW c \in Clients
  PROVE  Received(c)' = IF c \in members'[h] THEN Received(c) \o Noted(<<>>, m, c) ELSE Received(c)
  <1> DEFINE relayed == [d \in Clients |-> IF d = m.from THEN <<>> ELSE <<m>>]
  <1>1. PICK p \in Seq(Proper), q \in Seq(Proper), n \in Nat :
          /\ p = out[c] /\ n = SendCap /\ Len(p) <= n
          /\ q = relayed[c] /\ q = IF c = m.from THEN <<>> ELSE <<m>>
    <2>1. <<>> \in Seq(Proper) /\ <<m>> \in Seq(Proper)
      OBVIOUS
    <2>2. out[c] \in Seq(Proper) /\ SendCap \in Nat /\ Len(out[c]) <= SendCap
      BY HubAssumption DEF Typed, TypeOK
    <2>3. relayed[c] = IF c = m.from THEN <<>> ELSE <<m>>
      OBVIOUS
    <2> HIDE DEF relayed
    <2>4. relayed[c] \in Seq(Proper)
      BY <2>1, <2>3
    <2>5. QED
      BY <2>2, <2>3, <2>4
  <1>2. /\ out' = [d \in Clients |-> IF d \in members[h] THEN Queued(d, relayed) ELSE out[d]]
        /\ members' = [members EXCEPT ![h] = members[h] \ Overflows(members[h], relayed)]
    BY DEF Mail
  <1> HIDE DEF relayed
  <1>3. members'[h] = {d \in members[h] : ~(Len(out[d] \o relayed[d]) > SendCap)}
    BY <1>2 DEF Overflows, Typed, TypeOK
  <1>4. PICK a \in Seq(Proper) : a = p \o q /\ Len(a) = Len(p) + Len(q)
    <2>1. p \o q \in Seq(Proper) /\ Len(p \o q) = Len(p) + Len(q)
      OBVIOUS
    <2>2. QED
      BY <2>1
  <1>5. /\ c \in members'[h] <=> c \in members[h] /\ ~(Len(a) > n)
        /\ Queued(c, relayed) = SubSeq(a, 1, IF Len(a) > n THEN n ELSE Len(a))
    BY <1>1, <1>3, <1>4 DEF Queued
  <1>6. PICK g \in Seq(Numbers), x \in Seq(Numbers), y \in Seq(Numbers) :
          /\ g = got[c] /\ x = Updates(p, Nobody) /\ y = Noted(<<>>, m, c)
          /\ Received(c) = g \o x
    <2>1. <<>> \in Seq(Numbers)
      OBVIOUS
    <2>2. Noted(<<>>, m, c) \in Seq(Numbers)
      BY <2>1, NotedType
    <2>3. QED
      BY <1>1, <2>2, ToldTypes DEF Received
  <1>7. CASE c \in members'[h]
    <2>1. out'[c] = a
      <3>1. SubSeq(a, 1, Len(a)) = a
        OBVIOUS
      <3>2. QED
        BY <1>2, <1>5, <1>7, <3>1
    <2>2. Updates(q, Nobody) = y
      <3>1. m.from # Nobody
        BY HubAssumption DEF Proper
      <3>2. CASE c = m.from
        <4>1. q = <<>> /\ y = <<>>
          BY <1>1, <1>6, <3>2 DEF Noted
        <4>2. \A i \in 1..Len(q) : FALSE
          BY <4>1
        <4>3. Updates(q, Nobody) = <<>>
          BY <4>2, UpdatesOfNone
        <4>4. QED
          BY <4>1, <4>3
      <3>3. CASE c # m.from
        <4>1. q = <<m>> /\ Noted(<<>>, m, Nobody) = Noted(<<>>, m, c)
          BY <1>1, <3>1, <3>3 DEF Noted
        <4>2. QED
          BY <1>6, <4>1, UpdatesOfOne
      <3>4. QED
        BY <3>2, <3>3
    <2>3. Updates(a, Nobody) = x \o y
      <3>1. Updates(p \o q, Nobody) = Updates(p, Nobody) \o Updates(q, Nobody)
        BY UpdatesConcat
      <3>2. QED
        BY <1>4, <1>6, <2>2, <3>1
    <2>4. Received(c)' = g \o (x \o y)
      BY <1>6, <2>1, <2>3 DEF Received
    <2>5. g \o (x \o y) = (g \o x) \o y
      OBVIOUS
    <2>6. QED
      BY <1>6, <1>7, <2>4, <2>5
  <1>8. CASE c \notin members'[h]
    <2>1. CASE c \notin members[h]
      BY <1>2, <1>8, <2>1 DEF Received
    <2>2. CASE c \in members[h]
      <3>1. Len(a) > n
        BY <1>5, <1>8, <2>2
      <3>2. Len(q) <= 1
        BY <1>1
      <3>3. n = Len(p)
        <4>1. PICK i \in Nat, j \in Nat : i = Len(p) /\ j = Len(q)
          OBVIOUS
        <4>2. i <= n /\ i + j > n /\ j <= 1
          BY <1>1, <1>4, <3>1, <3>2, <4>1
        <4>3. i = n
          BY <4>2
        <4>4. QED
          BY <4>1, <4>3
      <3>4. SubSeq(p \o q, 1, Len(p)) = p
        OBVIOUS
      <3>5. Queued(c, relayed) = p
        BY <1>4, <1>5, <3>1, <3>3, <3>4
      <3>6. out'[c] = out[c]
        BY <1>1, <1>2, <2>2, <3>5
      <3>7. QED
        BY <1>8, <3>6 DEF Received
    <2>3. QED
      BY <2>1, <2>2
  <1>9. QED
    BY <1>7, <1>8

\* What came after the first k, when one more comes.
LEMMA LaterAndOne ==
  ASSUME NEW l \in Seq(Proper), NEW m \in Proper, NEW k \in Nat, k <= Len(l)
  PROVE  SubSeq(Append(l, m), k + 1, Len(l) + 1) = SubSeq(l, k + 1, Len(l)) \o <<m>>
  <1>1. PICK n \in Nat : Len(l) = k + n
    <2>1. Len(l) - k \in Nat /\ Len(l) = k + (Len(l) - k)
      OBVIOUS
    <2>2. QED
      BY <2>1
  <1>2. PICK a \in Seq(Proper) : /\ a = Append(l, m) /\ Len(a) = (k + n) + 1
                                 /\ a[(k + n) + 1] = m /\ \A i \in 1..(k + n) : a[i] = l[i]
    <2>1. /\ Append(l, m) \in Seq(Proper) /\ Len(Append(l, m)) = (k + n) + 1
          /\ Append(l, m)[(k + n) + 1] = m
          /\ \A i \in 1..(k + n) : Append(l, m)[i] = l[i]
      BY <1>1
    <2>2. QED
      BY <2>1
  <1>3. PICK p : p = SubSeq(a, k + 1, (k + n) + 1) /\ p = [i \in 1..(n + 1) |-> a[k + i]]
    <2>1. SubSeq(a, k + 1, (k + n) + 1) = [i \in 1..(n + 1) |-> a[k + i]]
      BY <1>2
    <2>2. QED
      BY <2>1
  <1>4. PICK q \in Seq(Proper) :
          /\ q = SubSeq(l, k + 1, k + n) /\ Len(q) = n /\ \A i \in 1..n : q[i] = l[k + i]
    <2>1. /\ SubSeq(l, k + 1, k + n) \in Seq(Proper) /\ Len(SubSeq(l, k + 1, k + n)) = n
          /\ \A i \in 1..n : SubSeq(l, k + 1, k + n)[i] = l[k + i]
      BY <1>1
    <2>2. QED
      BY <2>1
  <1>5. q \o <<m>> = [i \in 1..(n + 1) |-> IF i <= n THEN q[i] ELSE m]
    BY <1>4
  <1>6. ASSUME NEW i \in 1..(n + 1) PROVE a[k + i] = IF i <= n THEN q[i] ELSE m
    <2>1. CASE i <= n
      <3>1. k + i \in 1..(k + n) /\ i \in 1..n
        BY <2>1
      <3>2. a[k + i] = l[k + i] /\ q[i] = l[k + i]
        BY <1>2, <1>4, <3>1
      <3>3. QED
        BY <2>1, <3>2
    <2>2. CASE ~(i <= n)
      <3>1. k + i = (k + n) + 1
        BY <2>2
      <3>2. QED
        BY <1>2, <2>2, <3>1
    <2>3. QED
      BY <2>1, <2>2
  <1>7. p = q \o <<m>>
    BY <1>3, <1>5, <1>6
  <1>8. QED
    BY <1>1, <1>2, <1>3, <1>4, <1>7

LEMMA RelayTells == ASSUME GapInv, NEW h \in Hubs, Relay(h) PROVE Told'
  <1>1. Head(broadcast[h]) \in Proper /\ Head(broadcast[h]).kind \in {"update", "other"}
    BY TakeStep DEF Relay, GapInv
  <1>2. PICK m \in Proper : m = Head(broadcast[h])
    BY <1>1
  <1>3. /\ UNCHANGED <<reader, at, since, got>>
        /\ Mail(h, members[h], members[h], [c \in Clients |-> IF c = m.from THEN <<>> ELSE <<m>>])
        /\ log' = IF m.kind = "update" THEN [log EXCEPT ![h] = Append(@, m)] ELSE log
    BY <1>2 DEF Relay, Take, connVars
  <1>4. CASE m.kind = "other"
    <2> DEFINE relayed == [c \in Clients |-> IF c = m.from THEN <<>> ELSE <<m>>]
    <2>1. relayed \in QuietMails
      <3>1. m \in Quiet
        BY <1>4 DEF Quiet
      <3>2. <<>> \in Seq(Quiet) /\ <<m>> \in Seq(Quiet)
        BY <3>1
      <3>3. QED
        BY <3>2 DEF QuietMails
    <2>2. PICK mail \in QuietMails : mail = relayed
      BY <2>1
    <2>3. Mail(h, members[h], members[h], mail) /\ UNCHANGED log
      BY <1>3, <1>4, <2>2
    <2> HIDE DEF relayed
    <2>4. QED
      BY <1>3, <2>3, QuietlySent
  <1>5. CASE m.kind = "update"
    <2>1. /\ members \in [Hubs -> SUBSET Clients] /\ at \in [Clients -> 0..MaxHubs]
          /\ log \in [Hubs -> Seq(Proper)] /\ since \in [Clients -> Nat]
      BY DEF GapInv, HubInv, Typed, TypeOK
    <2>2. PICK l \in Seq(Proper) : l = log[h]
      BY <2>1
    <2>3. /\ log'[h] = Append(l, m)
          /\ Append(l, m) \in Seq(Proper) /\ Len(Append(l, m)) = Len(l) + 1
          /\ \A k \in Hubs \ {h} : log'[k] = log[k]
      BY <1>3, <1>5, <2>1, <2>2
    <2>4. \A k \in Hubs : members'[k] \subseteq members[k]
      BY <1>3, <2>1 DEF Mail
    <2>5. \A c \in Clients : Received(c)' = IF c \in members'[h]
                                            THEN Received(c) \o Noted(<<>>, m, c) ELSE Received(c)
      BY <1>3, <1>5, Relayed DEF GapInv, HubInv
    <2>6. AtHome'
      BY <1>3, <2>4 DEF GapInv, Told, AtHome
    <2>7. Untold'
      <3>1. \A c \in Clients : reader[c] \in {"off", "joining"} => c \notin members'[h]
        BY <2>4 DEF GapInv, HubInv, Newcomers
      <3>2. QED
        BY <1>3, <2>5, <3>1 DEF GapInv, Told, Untold
    <2>8. \A c \in Clients : at[c] # 0 => at[c] \in Hubs
      BY <2>1, HubAssumption DEF Hubs
    <2>9. SinceThen'
      <3>1. SUFFICES ASSUME NEW c \in Clients, at[c] # 0 PROVE since[c] <= Len(log'[at[c]])
        BY <1>3 DEF SinceThen
      <3>2. since[c] <= Len(log[at[c]]) /\ since[c] \in Nat
        BY <2>1, <3>1 DEF GapInv, Told, SinceThen
      <3>3. CASE at[c] = h
        BY <2>2, <2>3, <3>2, <3>3
      <3>4. CASE at[c] # h
        BY <2>3, <2>8, <3>1, <3>2, <3>4
      <3>5. QED
        BY <3>3, <3>4
    <2>10. ASSUME NEW c \in Clients, at[c] = h
           PROVE  Owed(h, c)' = Owed(h, c) \o Noted(<<>>, m, c)
      <3>1. PICK k \in Nat : k = since[c] /\ k <= Len(l)
        <4>1. since[c] <= Len(log[h])
          BY <2>10, HubAssumption DEF GapInv, Told, SinceThen, Hubs
        <4>2. QED
          BY <2>1, <2>2, <4>1
      <3>2. PICK later \in Seq(Proper) : later = SubSeq(l, k + 1, Len(l))
        <4>1. SubSeq(l, k + 1, Len(l)) \in Seq(Proper)
          OBVIOUS
        <4>2. QED
          BY <4>1
      <3>3. SubSeq(Append(l, m), k + 1, Len(l) + 1) = SubSeq(l, k + 1, Len(l)) \o <<m>>
        BY <3>1, LaterAndOne
      <3>4. <<m>> \in Seq(Proper)
        OBVIOUS
      <3>5. Owed(h, c)' = Updates(later \o <<m>>, c)
        BY <1>3, <2>3, <3>1, <3>2, <3>3 DEF Owed
      <3>6. Owed(h, c) = Updates(later, c)
        BY <2>2, <3>1, <3>2 DEF Owed
      <3>7. Updates(later \o <<m>>, c) = Updates(later, c) \o Updates(<<m>>, c)
        BY <3>4, UpdatesConcat
      <3>8. QED
        BY <3>5, <3>6, <3>7, UpdatesOfOne
    <2>11. NoGap'
      <3>1. SUFFICES ASSUME NEW c \in Clients, at[c] # 0
                     PROVE  /\ c \in members'[at[c]] => Received(c)' = Owed(at[c], c)'
                            /\ IsPrefix(Received(c)', Owed(at[c], c)')
        BY <1>3 DEF NoGap
      <3>2. at[c] \in Hubs
        BY <2>8, <3>1
      <3>3. /\ c \in members[at[c]] => Received(c) = Owed(at[c], c)
            /\ IsPrefix(Received(c), Owed(at[c], c))
        BY <3>1 DEF GapInv, Told, NoGap
      <3>4. PICK r \in Seq(Numbers), o \in Seq(Numbers), y \in Seq(Numbers) :
              r = Received(c) /\ o = Owed(at[c], c) /\ y = Noted(<<>>, m, c)
        <4>1. <<>> \in Seq(Numbers)
          OBVIOUS
        <4>2. Noted(<<>>, m, c) \in Seq(Numbers)
          BY <4>1, NotedType
        <4>3. QED
          BY <3>2, <4>2, ToldTypes DEF GapInv, HubInv
      <3>5. CASE at[c] = h
        <4>1. Owed(at[c], c)' = o \o y
          <5>1. Owed(h, c)' = Owed(h, c) \o Noted(<<>>, m, c)
            BY <2>10, <3>5
          <5>2. Owed(at[c], c)' = Owed(h, c)'
            BY <1>3, <3>5
          <5>3. QED
            BY <3>4, <3>5, <5>1, <5>2
        <4>2. CASE c \in members'[h]
          <5>1. r = o
            BY <2>4, <3>3, <3>4, <3>5, <4>2
          <5>2. Received(c)' = o \o y
            BY <2>5, <3>4, <4>2, <5>1
          <5>3. o \o y \in Seq(Numbers)
            OBVIOUS
          <5>4. IsPrefix(o \o y, o \o y)
            BY <5>3, PrefixOfItself
          <5>5. QED
            BY <4>1, <5>2, <5>4
        <4>3. CASE c \notin members'[h]
          <5>1. Received(c)' = r /\ IsPrefix(r, o)
            BY <2>5, <3>3, <3>4, <4>3
          <5>2. IsPrefix(r, o \o y)
            BY <5>1, PrefixOfMore
          <5>3. QED
            BY <3>5, <4>1, <4>3, <5>1, <5>2
        <4>4. QED
          BY <4>2, <4>3
      <3>6. CASE at[c] # h
        <4>1. c \notin members[h] /\ c \notin members'[h]
          BY <2>4, <3>6 DEF GapInv, Told, AtHome
        <4>2. Received(c)' = Received(c)
          BY <2>5, <4>1
        <4>3. Owed(at[c], c)' = Owed(at[c], c)
          BY <1>3, <2>3, <3>2, <3>6 DEF Owed
        <4>4. c \in members'[at[c]] => c \in members[at[c]]
          BY <2>4, <3>2
        <4>5. QED
          BY <3>3, <4>2, <4>3, <4>4
      <3>7. QED
        BY <3>5, <3>6
    <2>12. QED
      BY <2>6, <2>7, <2>9, <2>11 DEF Told
  <1>6. QED
    BY <1>1, <1>2, <1>4, <1>5

LEMMA ToldInit == Init => Told
  <1> SUFFICES ASSUME Init PROVE Told
    OBVIOUS
  <1>1. \A c \in Clients : at[c] = 0 /\ since[c] = 0 /\ out[c] = <<>> /\ got[c] = <<>>
    BY DEF Init
  <1>2. Updates(<<>>, Nobody) = <<>>
    <2>1. <<>> \in Seq(Proper) /\ \A n \in 1..Len(<<>>) : FALSE
      OBVIOUS
    <2>2. QED
      BY <2>1, UpdatesOfNone
  <1>3. \A c \in Clients : Received(c) = <<>>
    BY <1>1, <1>2 DEF Received
  <1>4. AtHome /\ NoGap /\ SinceThen
    BY <1>1 DEF Init, AtHome, NoGap, SinceThen
  <1>5. Untold
    BY <1>1, <1>3 DEF Untold
  <1>6. QED
    BY <1>4, <1>5 DEF Told

LEMMA ToldStep == GapInv /\ [Next]_vars => Told'
  <1> SUFFICES ASSUME GapInv, [Next]_vars PROVE Told'
    OBVIOUS
  <1>1. ASSUME NEW c \in Clients,
               \/ ReadState(c) \/ Joins(c) \/ Unregister(c)
               \/ (\E m \in Incoming(c) : Receive(c, m)) \/ Enqueue(c) \/ Leave(c)
               \/ Write(c)
        PROVE  Told'
    BY <1>1, ReadStateTells, GetOrCreateTells, RetryTells, RegisterTells, UnregisterTells,
       IdleTells, WriteTells DEF Joins
  <1>2. ASSUME NEW h \in Hubs,
               Relay(h) \/ SetCursor(h) \/ SetViewport(h) \/ Follow(h) \/ Unfollow(h) \/ Tick(h)
        PROVE  Told'
    BY <1>2, RelayTells, IdleTells, FollowTells, UnfollowTells, TickTells
  <1>3. ASSUME LookUp \/ Push PROVE Told'
    BY <1>3, IdleTells
  <1>4. ASSUME UNCHANGED vars PROVE Told'
    <2>1. UNCHANGED <<at, log, since, got, out, members, reader>>
      BY <1>4 DEF vars, managerVars, connVars, sendVars, historyVars
    <2>2. QED
      BY <2>1, NothingSent
  <1>5. QED
    BY <1>1, <1>2, <1>3, <1>4 DEF Next

\* The relay: whoever is in a hub was sent, or finds in its channel, exactly
\* what the others drew since it registered, in that order; whoever was thrown
\* out for being slow, or has left, got a beginning of it without a gap.  For
\* any number of people and updates and channels of any capacity.
THEOREM NobodyMissesAnything == Spec => []NoGap
  <1>1. Init => GapInv
    BY HubInit, ToldInit DEF GapInv
  <1>2. GapInv /\ [Next]_vars => GapInv'
    BY HubStep, ToldStep DEF GapInv
  <1>3. GapInv => NoGap
    BY DEF GapInv, Told
  <1>4. QED
    BY <1>1, <1>2, <1>3, PTL DEF Spec
=============================================================================
