----------------------------- MODULE BoardSync -----------------------------
(***************************************************************************)
(* The replicas of one board page in the browsers:                         *)
(* frontend/src/components/whiteboard/useExcalidrawSync.ts and             *)
(* excalidrawSync.ts.                                                      *)
(*                                                                         *)
(* Every tab keeps the whole scene and, in `versions`, what it believes    *)
(* the server knows of it; a throttled flush sends what differs.  A socket *)
(* that breaks loses what is under way in both directions and the tab      *)
(* notices later.  The server's side is what the other modules say of it,  *)
(* in outline: the seed is the table, an update goes to the buffer and to  *)
(* the other members of the hub, and the buffer goes to the table.         *)
(***************************************************************************)
EXTENDS BoardElements, Sequences

CONSTANTS Tabs,
          EditsOf,      \* the edits each tab may make
          MaxDrops      \* bound: connections that break

ASSUME SyncAssumption ==
  /\ EditsOf \in [Tabs -> SUBSET Edits]
  /\ \A e \in Edits : e.ver > 0
  /\ MaxDrops \in Nat

VARIABLES
  scene,     \* the elements on the canvas of each tab, deleted ones included
  versions,  \* versionsRef: 0 where the map has no entry
  timer,     \* updateTimerRef is set
  seeded,    \* seededRef
  link,      \* the tab and its socket, see Links
  up, down,  \* what is under way on the socket
  buffer,    \* the elementBuffer of the server
  table,     \* board_elements
  drops,     \* connections broken so far
  heard,     \* history: the last copy of each element the socket brought
  excused    \* history: the edits nobody can be blamed for

serverVars == <<buffer, table>>
replicaVars == <<scene, versions, timer, seeded, heard>>
socketVars == <<link, up, down, drops>>
vars == <<replicaVars, socketVars, serverVars, excused>>

\* off: the page was left.  closed: waiting to (re)connect.
\* joining: accepted by the server, not yet a member of the hub.  open: a
\* member.  lost: broken, but the tab does not know it yet.
Links == {"off", "closed", "joining", "open", "lost"}
Versions == {0} \cup {e.ver : e \in Edits}
Message == [kind : {"snapshot", "update"}, els : PageMap]

TypeOK ==
  /\ scene \in [Tabs -> PageMap]
  /\ versions \in [Tabs -> [Ids -> Versions]]
  /\ timer \in [Tabs -> BOOLEAN] /\ seeded \in [Tabs -> BOOLEAN]
  /\ link \in [Tabs -> Links]
  /\ \A t \in Tabs : up[t] \in Seq(Message) /\ down[t] \in Seq(Message)
  /\ buffer \in PageMap /\ table \in PageMap
  /\ drops \in 0..MaxDrops
  /\ heard \in [Tabs -> PageMap]
  /\ excused \subseteq Ids \X Edits

NothingSent == [id \in Ids |-> 0]

\* The page is opened: every map of the hook is reset.  A tab that is opened
\* again is a tab of its own.
Init ==
  /\ scene = [t \in Tabs |-> Nothing]
  /\ versions = [t \in Tabs |-> NothingSent]
  /\ timer = [t \in Tabs |-> FALSE]
  /\ seeded = [t \in Tabs |-> FALSE]
  /\ link = [t \in Tabs |-> "closed"]
  /\ up = [t \in Tabs |-> <<>>] /\ down = [t \in Tabs |-> <<>>]
  /\ buffer = Nothing /\ table = Nothing
  /\ drops = 0
  /\ heard = [t \in Tabs |-> Nothing]
  /\ excused = {}

\* ws.readyState === OPEN, as the tab sees it.
SocketOpen(t) == link[t] \in {"joining", "open", "lost"}

VersionOf(slot) == IF slot = NoEdit THEN 0 ELSE slot.ver

-----------------------------------------------------------------------------
(* The pure functions of the replica *)

\* diffChangedElements: what is new or has another version than the one noted.
Changed(prev, els) ==
  [id \in Ids |-> IF VersionOf(els[id]) # prev[id] THEN els[id] ELSE NoEdit]
Noted(els) == [id \in Ids |-> VersionOf(els[id])]

\* Mutant: the whole scene counts as known, not only what arrived.
MarkWholeScene(prev, remote, els) == Noted(els)

\* Mutant: what arrives is not noted.
MarkNothing(prev, remote, els) == prev

\* markRemoteVersions: only what arrived is noted.
MarkRemoteVersions(prev, remote, els) ==
  [id \in Ids |-> IF remote[id] = NoEdit THEN prev[id] ELSE remote[id].ver]

\* Mutant: what arrives replaces what is there.
RemoteWins(local, remote) ==
  [id \in Ids |-> IF remote[id] = NoEdit THEN local[id] ELSE remote[id]]

\* reconcileElements of Excalidraw: the later edit stays.
Reconcile(local, remote) == Merge(local, remote)

\* Mutant: after the seed the tab believes that the server knows its scene.
KnownIsScene(remote, reconciled) == Noted(reconciled)

\* What applySnapshot takes the server to know.
KnownAfterSeed(remote, reconciled) == Noted(remote)

-----------------------------------------------------------------------------
(* The tab *)

\* The user draws: a change of the scene, and with it onChange, which starts
\* the throttle.
Draw(t) ==
  /\ link[t] # "off"
  /\ \E id \in Ids, e \in EditsOf[t] :
       /\ e.ver > VersionOf(scene[t][id])
       /\ scene' = [scene EXCEPT ![t][id] = e]
  /\ timer' = [timer EXCEPT ![t] = TRUE]
  /\ UNCHANGED <<versions, seeded, heard, socketVars, serverVars, excused>>

\* What a flush of `els` against `prev` puts on the wire.  On a socket that
\* is lost it goes nowhere, and is noted as sent all the same.
Send(t, prev, els) ==
  LET changed == Changed(prev, els)
      message == [kind |-> "update", els |-> changed]
  IN up' = [up EXCEPT ![t] = IF changed = Nothing \/ link[t] = "lost" THEN @
                             ELSE Append(@, message)]

\* The throttle fires: flushUpdate.
FlushUpdate(t) ==
  /\ timer[t]
  /\ timer' = [timer EXCEPT ![t] = FALSE]
  /\ IF SocketOpen(t)
     THEN /\ Send(t, versions[t], scene[t])
          /\ versions' = [versions EXCEPT ![t] = Noted(scene[t])]
     ELSE UNCHANGED <<up, versions>>
  /\ UNCHANGED <<scene, seeded, heard, link, down, drops, serverVars, excused>>

\* applyRemote; updateScene calls onChange.
ApplyRemote(t, remote) ==
  /\ scene' = [scene EXCEPT ![t] = Reconcile(@, remote)]
  /\ timer' = [timer EXCEPT ![t] = TRUE]
  /\ heard' = [heard EXCEPT ![t] = RemoteWins(@, remote)]

\* onmessage, an update.
ReceiveUpdate(t) ==
  /\ link[t] \in {"joining", "open"} /\ down[t] # <<>>
  /\ Head(down[t]).kind = "update"
  /\ LET remote == Head(down[t]).els IN
       /\ ApplyRemote(t, remote)
       /\ versions' = [versions EXCEPT ![t] = MarkRemoteVersions(@, remote, scene'[t])]
  /\ down' = [down EXCEPT ![t] = Tail(@)]
  /\ UNCHANGED <<seeded, link, up, drops, serverVars, excused>>

\* onmessage, the seed: applySnapshot, which sends at once what the server
\* does not have.
ReceiveSnapshot(t) ==
  /\ link[t] \in {"joining", "open"} /\ down[t] # <<>>
  /\ Head(down[t]).kind = "snapshot"
  /\ LET remote == Head(down[t]).els IN
       /\ ApplyRemote(t, remote)
       /\ Send(t, KnownAfterSeed(remote, scene'[t]), scene'[t])
       /\ versions' = [versions EXCEPT ![t] = Noted(scene'[t])]
  /\ seeded' = [seeded EXCEPT ![t] = TRUE]
  /\ down' = [down EXCEPT ![t] = Tail(@)]
  /\ UNCHANGED <<link, drops, serverVars, excused>>

Hang(t, place) ==
  /\ link' = [link EXCEPT ![t] = place]
  /\ up' = [up EXCEPT ![t] = <<>>]
  /\ down' = [down EXCEPT ![t] = <<>>]

Held(t) == {<<id, scene[t][id]>> : id \in Present(scene[t])}

\* The page is closed in order: the final snapshot goes out by HTTP, if the
\* tab was ever seeded, and arrives or not.
Leave(t) ==
  /\ link[t] # "off"
  /\ Hang(t, "off")
  /\ \E arrives \in BOOLEAN :
       IF seeded[t] /\ arrives
       THEN table' = MergeElements(table, scene[t]) /\ UNCHANGED excused
       ELSE excused' = excused \cup Held(t) /\ UNCHANGED table
  /\ UNCHANGED <<replicaVars, drops, buffer>>

\* The browser dies.
Die(t) ==
  /\ link[t] # "off"
  /\ Hang(t, "off")
  /\ excused' = excused \cup Held(t)
  /\ UNCHANGED <<replicaVars, drops, serverVars>>

\* onclose; the socket is opened again after two seconds.
NoticeClose(t) ==
  /\ link[t] = "lost"
  /\ link' = [link EXCEPT ![t] = "closed"]
  /\ UNCHANGED <<replicaVars, up, down, drops, serverVars, excused>>

-----------------------------------------------------------------------------
(* The network and the server *)

\* A connection breaks; what the server has not read is lost.
Drop(t) ==
  /\ link[t] \in {"joining", "open"} /\ drops < MaxDrops
  /\ drops' = drops + 1
  /\ Hang(t, "lost")
  /\ UNCHANGED <<replicaVars, serverVars, excused>>

\* connect and ServeWS up to the seed.  If the state cannot be read the tab is
\* let in without one: what it sent into a broken socket stays unsent.
Accept(t) ==
  /\ link[t] = "closed"
  /\ link' = [link EXCEPT ![t] = "joining"]
  /\ heard' = [heard EXCEPT ![t] = Nothing]
  /\ \/ /\ down' = [down EXCEPT ![t] = <<[kind |-> "snapshot", els |-> table]>>]
        /\ UNCHANGED excused
     \/ /\ excused' = excused \cup Held(t)
        /\ UNCHANGED down
  /\ UNCHANGED <<scene, versions, timer, seeded, up, drops, serverVars>>

\* The hub takes the tab in.
Register(t) ==
  /\ link[t] = "joining"
  /\ link' = [link EXCEPT ![t] = "open"]
  /\ UNCHANGED <<replicaVars, up, down, drops, serverVars, excused>>

\* The hub relays an update to the others and hands it to the buffer.
Relay(t) ==
  /\ link[t] = "open" /\ up[t] # <<>>
  /\ LET message == Head(up[t]) IN
       /\ down' = [u \in Tabs |-> IF u # t /\ link[u] = "open"
                                  THEN Append(down[u], message) ELSE down[u]]
       /\ buffer' = Merge(buffer, message.els)
  /\ up' = [up EXCEPT ![t] = Tail(@)]
  /\ UNCHANGED <<replicaVars, link, drops, table, excused>>

\* The buffer is written.
Persist ==
  /\ buffer # Nothing
  /\ table' = MergeElements(table, buffer)
  /\ buffer' = Nothing
  /\ UNCHANGED <<replicaVars, socketVars, excused>>

Next ==
  \/ Persist
  \/ \E t \in Tabs :
       \/ Draw(t) \/ FlushUpdate(t) \/ ReceiveUpdate(t)
       \/ ReceiveSnapshot(t) \/ Leave(t) \/ Die(t) \/ NoticeClose(t)
       \/ Drop(t) \/ Accept(t) \/ Register(t) \/ Relay(t)

Spec == Init /\ [][Next]_vars

Receives(t) == ReceiveUpdate(t) \/ ReceiveSnapshot(t)
Reconnects(t) == NoticeClose(t) \/ Accept(t) \/ Register(t)

\* Timers fire, the server serves whom it has let in, and a tab whose socket
\* is gone dials again.  Nobody has to draw, and nothing has to break.
FairSpec ==
  /\ Spec /\ WF_vars(Persist)
  /\ \A t \in Tabs :
       WF_vars(FlushUpdate(t)) /\ WF_vars(Receives(t)) /\ WF_vars(Reconnects(t))
         /\ WF_vars(Relay(t))

-----------------------------------------------------------------------------
(* Properties *)

\* The seed of this connection has not been read yet.
SeedUnderWay(t) == \E i \in DOMAIN down[t] : down[t][i].kind = "snapshot"

\* The socket brought another edit of the version that is on the canvas.  The
\* tab, which compares versions and no nonces, takes the one for the other.
Mistaken(t, id) ==
  LET other == heard[t][id] IN
  other # NoEdit /\ other # scene[t][id] /\ other.ver = VersionOf(scene[t][id])

\* What the tab counts as sent really is on its way: an element whose version
\* is noted is covered by what is under way, by the buffer or by the table,
\* unless a seed will put the notes right, the socket is gone, the edit is
\* excused, or the tab was told of another edit with the same version.
\* (versionsRef: "everything already sent to the peers or received from
\* them".)  The types go along.
Accounted ==
  TypeOK /\ \A t \in Tabs, id \in Ids :
    (/\ link[t] \in {"joining", "open"} /\ ~SeedUnderWay(t)
     /\ scene[t][id] # NoEdit /\ versions[t][id] = scene[t][id].ver)
      => LET e == scene[t][id] IN
           \/ Covers(buffer[id], e) \/ Covers(table[id], e)
           \/ \E i \in DOMAIN up[t] : Covers(up[t][i].els[id], e)
           \/ <<id, e>> \in excused
           \/ Mistaken(t, id)

\* What is on the canvas is in the table, or beaten there, or excused.
Reached(t, id) ==
  \/ scene[t][id] = NoEdit \/ Covers(table[id], scene[t][id])
  \/ <<id, scene[t][id]>> \in excused

\* Local winners go out: in the end everything that is on a canvas is in the
\* table, whatever broke in between, but for what was mistaken.
EditsReachTheTable == <>[](\A t \in Tabs, id \in Ids : Reached(t, id) \/ Mistaken(t, id))

\* Not a property of the code, though excalidrawSync.ts:110-111 says so: an edit
\* that wins over what arrives stays in the diff and goes out.  With equal
\* versions it does not, and the tab and the server differ until somebody edits
\* the element again.
LocalWinnersGoOut == <>[](\A t \in Tabs, id \in Ids : Reached(t, id))

\* Reconciling never takes an element back to an earlier edit.
ScenesMoveUp ==
  [][\A t \in Tabs, id \in Ids :
       (link[t] # "off" /\ scene[t][id] # NoEdit)
         => Covers(scene'[t][id], scene[t][id])]_vars

\* The echo of what arrived is not sent back: the throttle that onChange
\* starts after updateScene finds nothing to send.
NoEcho ==
  [][\A t \in Tabs :
       (FlushUpdate(t) /\ SocketOpen(t)) =>
         \A id \in Ids :
           LET sent == Changed(versions[t], scene[t])[id]
           IN sent # NoEdit => sent # heard[t][id]]_vars
=============================================================================
