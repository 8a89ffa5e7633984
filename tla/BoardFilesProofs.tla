-------------------------- MODULE BoardFilesProofs ---------------------------
(***************************************************************************)
(* What holds of the files of a board for any number of pages, of sockets, *)
(* of failures and of attempts: the tab keeps one socket, forgets no file  *)
(* it has registered, and tells the truth about the PDF (BoardFiles); and  *)
(* the move of a page to the element table is safe, for any number of      *)
(* tabs, elements, edits and files, posts before the seed included:        *)
(* ImportInv is an inductive invariant (BoardImport).                      *)
(***************************************************************************)
EXTENDS BoardFiles, BoardImport, BoardElementsProofs, FiniteSetTheorems,
        SequenceTheorems, TLAPS

-----------------------------------------------------------------------------
(* BoardFiles: the types *)

Sockets == {"connecting", "open", "broken", "closed"}
Live == {"connecting", "open"}
Steps == {"none", "preflight", "dialog", "starting", "replied", "refused"}
Progress == {NoProgress} \cup [none : {FALSE}, pending : SUBSET Pages]
Imports == [stage : Steps, progress : Progress, toast : {"none", "loading", "done", "error"},
            here : BOOLEAN]
Jobs == [status : {"none", "rendering", "done", "failed"}, done : SUBSET Pages,
         mine : SUBSET Pages, attempt : 1..MaxAttempts]
Histories == [registered : SUBSET Files, risked : SUBSET Files, dead : SUBSET Pages,
              shown : SUBSET Files, placed : BOOLEAN]

\* The types, in three parts: the link, the saves, and what the files are.
LinkTypes ==
  /\ {mounted, retry} \subseteq BOOLEAN /\ asking \subseteq {"here", "gone"}
  /\ sock \in Seq(Sockets) /\ Len(sock) <= MaxSockets
  /\ inbox \in Seq(Seq(Message)) /\ Len(inbox) = Len(sock)
  /\ ws \in 0..Len(sock)

SaveTypes ==
  /\ {guest, named, api, seeded, timer, failed} \subseteq BOOLEAN
  /\ {seed, saving, next} \subseteq Bodies /\ orphans \subseteq SUBSET Files
  /\ saving = NoBody => next = NoBody
  /\ faults \in 0..MaxFaults

FileTypes ==
  /\ map \in SUBSET Files /\ canvas \in SUBSET Files
  /\ stored \in SUBSET Files /\ fetching \in SUBSET Files
  /\ uploads \subseteq {Photo}
  /\ import \in Imports /\ job \in Jobs /\ known \in Histories

Types == LinkTypes /\ SaveTypes /\ FileTypes

\* No socket but the one of wsRef is alive, and a tab whose board is hidden has
\* none and will open none.
OneLink ==
  /\ \A s \in DOMAIN sock : sock[s] \in Live => s = ws
  /\ ~mounted => ws = 0 /\ ~retry /\ "here" \notin asking

\* The last body in the queue: the map as it was when the last POST was asked for.
LastBody == IF next = NoBody THEN saving ELSE next

\* A file is stored, may be lost, or is somebody else's; or it is in the map, and
\* the timer, the last body of the queue or the banner covers it.
Covered(f) ==
  \/ f \in stored \/ f \in known.risked \/ f \in UNION orphans
  \/ /\ f \in map
     /\ timer \/ (LastBody # NoBody /\ f \in LastBody.files) \/ (saving = NoBody /\ failed)
AllCovered == \A f \in known.registered : Covered(f)

\* The files whose element, if the board has it, has had its picture.
Seen(k) == k.shown \cup IF k.placed THEN {} ELSE Pages

\* imp counts down to pages that are all in seen.
TrueOf(imp, seen) ==
  /\ imp.progress # NoProgress => Pages \ imp.progress.pending \subseteq seen
  /\ imp.toast = "done" => Pages \subseteq seen

\* What is on the canvas was seen, and so were the pages counted down.
TrueProgress == canvas \subseteq Seen(known) /\ TrueOf(import, Seen(known))

\* The job begins with the reply to the dialog, and nothing is dead before it ends.
Asked == {"preflight", "dialog"}
DeadAtTheEnd ==
  /\ import.stage \in Asked => job.status = "none"
  /\ job.status # "failed" => known.dead = {}
  /\ NoReadyPageRemoved

FilesInv == Types /\ OneLink /\ AllCovered /\ TrueProgress /\ DeadAtTheEnd
-----------------------------------------------------------------------------
(* Lemmas about sequences, bodies and messages *)

LEMMA Bounds ==
  /\ NumPages \in Nat \ {0} /\ MaxSockets \in Nat \ {0} /\ MaxFaults \in Nat
  /\ MaxAttempts \in Nat \ {0}
  BY FilesAssumption

LEMMA TypesSuffice == Types <=> TypeOK
  BY DEF Types, LinkTypes, SaveTypes, FileTypes, TypeOK, Sockets, Steps, Progress, Imports, Jobs,
         Histories

LEMMA BodyTypes ==
  /\ NoBody \in Bodies
  /\ \A fs \in SUBSET Files : Body(fs) \in Bodies /\ Body(fs) # NoBody /\ Body(fs).files = fs
  /\ \A b \in Bodies \ {NoBody} : b.files \in SUBSET Files /\ b = Body(b.files)
  <1>1. \A fs : Body(fs).none = FALSE /\ Body(fs).files = fs
    BY DEF Body
  <1>2. NoBody.none = TRUE
    BY DEF NoBody
  <1>3. \A fs : Body(fs) # NoBody
    BY <1>1, <1>2
  <1>4. NoBody \in Bodies /\ \A fs \in SUBSET Files : Body(fs) \in Bodies
    BY DEF Bodies
  <1>5. ASSUME NEW b \in Bodies \ {NoBody}
        PROVE  b.files \in SUBSET Files /\ b = Body(b.files)
    <2>1. PICK fs \in SUBSET Files : b = Body(fs)
      BY DEF Bodies
    <2>2. QED
      BY <1>1, <2>1
  <1>6. QED
    BY <1>1, <1>3, <1>4, <1>5

\* A function on an initial segment is a sequence.
LEMMA FunctionIsSeq ==
  ASSUME NEW S, NEW n \in Nat, NEW q \in [1..n -> S]
  PROVE  q \in Seq(S) /\ Len(q) = n
  OBVIOUS

LEMMA OneMessage ==
  /\ \A fs \in SUBSET Files : [type |-> "snapshot", files |-> fs] \in Message
  /\ \A fs \in SUBSET Files : [type |-> "failed", files |-> fs] \in Message
  /\ \A f \in Files : [type |-> "file", file |-> f] \in Message
  BY DEF Message

\* wsRef.current?.close() closes one socket and empties its inbox.
LEMMA ClosedTypes ==
  ASSUME LinkTypes
  PROVE  /\ CloseCurrent \in Seq(Sockets) /\ Len(CloseCurrent) = Len(sock)
         /\ Unread \in Seq(Seq(Message)) /\ Len(Unread) = Len(sock)
         /\ \A s \in 1..Len(sock) : CloseCurrent[s] = IF s = ws THEN "closed" ELSE sock[s]
  <1>1. /\ sock \in Seq(Sockets) /\ inbox \in Seq(Seq(Message)) /\ Len(inbox) = Len(sock)
        /\ ws \in 0..Len(sock) /\ Len(sock) \in Nat
    BY LenProperties DEF LinkTypes
  <1>2. "closed" \in Sockets /\ <<>> \in Seq(Message)
    BY DEF Sockets
  <1>3. CASE ws = 0
    BY <1>1, <1>3 DEF CloseCurrent, Unread
  <1>4. CASE ws # 0
    <2>1. ws \in 1..Len(sock)
      BY <1>1, <1>4
    <2>2. /\ [sock EXCEPT ![ws] = "closed"] \in Seq(Sockets)
          /\ Len([sock EXCEPT ![ws] = "closed"]) = Len(sock)
          /\ \A s \in 1..Len(sock) : [sock EXCEPT ![ws] = "closed"][s]
                                       = IF s = ws THEN "closed" ELSE sock[s]
      BY <1>1, <1>2, <2>1, ExceptSeq
    <2>3. /\ [inbox EXCEPT ![ws] = <<>>] \in Seq(Seq(Message))
          /\ Len([inbox EXCEPT ![ws] = <<>>]) = Len(inbox)
      BY <1>1, <1>2, <2>1, ExceptSeq
    <2>4. QED
      BY <1>1, <1>4, <2>2, <2>3 DEF CloseCurrent, Unread
  <1>5. QED
    BY <1>3, <1>4
-----------------------------------------------------------------------------
(* The link *)

\* One socket of the tab changes its state, or one inbox its content.
LEMMA SocketChanges ==
  ASSUME LinkTypes, OneLink, NEW s \in DOMAIN sock, NEW state \in Sockets,
         state \in Live => sock[s] \in Live,
         sock' = [sock EXCEPT ![s] = state],
         inbox' \in Seq(Seq(Message)), Len(inbox') = Len(sock),
         retry' \in BOOLEAN, retry' => retry \/ mounted, UNCHANGED <<mounted, asking, ws>>
  PROVE  LinkTypes' /\ OneLink'
  <1>1. sock \in Seq(Sockets) /\ DOMAIN sock = 1..Len(sock) /\ s \in 1..Len(sock)
    BY LenProperties DEF LinkTypes
  <1>2. /\ sock' \in Seq(Sockets) /\ Len(sock') = Len(sock)
        /\ \A t \in 1..Len(sock) : sock'[t] = IF t = s THEN state ELSE sock[t]
    BY <1>1, ExceptSeq
  <1>3. DOMAIN sock' = 1..Len(sock)
    BY <1>2, LenProperties
  <1>4. LinkTypes'
    BY <1>2 DEF LinkTypes
  <1>5. OneLink'
    BY <1>1, <1>2, <1>3 DEF OneLink
  <1>6. QED
    BY <1>4, <1>5

\* The socket of the moment is closed, and a new one is opened, or will be.
LEMMA LinkCloses ==
  ASSUME LinkTypes, OneLink, sock' = CloseCurrent, inbox' = Unread,
         ws' = ws \/ ws' = 0, asking' \subseteq {"here", "gone"},
         mounted' \in BOOLEAN, retry' \in BOOLEAN,
         ~mounted' => ws' = 0 /\ ~retry' /\ "here" \notin asking'
  PROVE  LinkTypes' /\ OneLink'
  <1>1. Len(sock) \in Nat /\ Len(sock) <= MaxSockets /\ ws \in 0..Len(sock) /\ DOMAIN sock = 1..Len(sock)
    BY LenProperties DEF LinkTypes
  <1>2. /\ sock' \in Seq(Sockets) /\ Len(sock') = Len(sock)
        /\ inbox' \in Seq(Seq(Message)) /\ Len(inbox') = Len(sock)
        /\ \A s \in 1..Len(sock) : sock'[s] = IF s = ws THEN "closed" ELSE sock[s]
    BY ClosedTypes
  <1>3. DOMAIN sock' = 1..Len(sock)
    BY <1>2, LenProperties
  <1>4. LinkTypes'
    BY <1>1, <1>2 DEF LinkTypes
  <1>5. \A s \in DOMAIN sock' : sock'[s] \notin Live
    BY <1>1, <1>2, <1>3 DEF OneLink, Live
  <1>6. QED
    BY <1>4, <1>5 DEF OneLink

LEMMA LinkOpens ==
  ASSUME LinkTypes, OneLink, NewSocket, asking' \subseteq {"here", "gone"},
         mounted' = TRUE, retry' \in BOOLEAN
  PROVE  LinkTypes' /\ OneLink'
  <1>1. Len(sock) \in Nat /\ Len(sock) < MaxSockets /\ MaxSockets \in Nat
        /\ ws \in 0..Len(sock) /\ DOMAIN sock = 1..Len(sock)
    BY Bounds, LenProperties DEF LinkTypes, NewSocket
  <1>2. PICK q \in Seq(Sockets), r \in Seq(Seq(Message)) :
          /\ q = CloseCurrent /\ Len(q) = Len(sock) /\ r = Unread /\ Len(r) = Len(sock)
          /\ \A s \in 1..Len(sock) : q[s] = IF s = ws THEN "closed" ELSE sock[s]
    BY ClosedTypes
  <1>3. "connecting" \in Sockets /\ <<>> \in Seq(Message)
    BY DEF Sockets
  <1>4. sock' = Append(q, "connecting") /\ inbox' = Append(r, <<>>) /\ ws' = Len(sock) + 1
    BY <1>2 DEF NewSocket
  <1>5. /\ sock' \in Seq(Sockets) /\ Len(sock') = Len(sock) + 1
        /\ inbox' \in Seq(Seq(Message)) /\ Len(inbox') = Len(sock) + 1
        /\ \A s \in 1..Len(sock) : sock'[s] = q[s]
    BY <1>1, <1>2, <1>3, <1>4, AppendProperties
  <1>6. DOMAIN sock' = 1..(Len(sock) + 1)
    BY <1>5, LenProperties
  <1>7. LinkTypes'
    BY <1>1, <1>4, <1>5 DEF LinkTypes
  <1>8. \A s \in 1..Len(sock) : sock'[s] \notin Live
    BY <1>1, <1>2, <1>5 DEF OneLink, Live
  <1>9. \A s \in DOMAIN sock' : sock'[s] \in Live => s = ws'
    BY <1>1, <1>4, <1>6, <1>8
  <1>10. QED
    BY <1>7, <1>9 DEF OneLink

LEMMA ConnectKeeps ==
  ASSUME LinkTypes, OneLink, CallConnect, mounted' = TRUE, retry' \in BOOLEAN
  PROVE  LinkTypes' /\ OneLink'
  <1>1. asking \subseteq {"here", "gone"}
    BY DEF LinkTypes
  <1>2. CASE guest
    BY <1>1, <1>2, LinkOpens DEF CallConnect
  <1>3. CASE ~guest
    BY <1>1, <1>3, LinkCloses DEF CallConnect
  <1>4. QED
    BY <1>2, <1>3

\* A message goes to every socket that is open.
LEMMA NotifyTypes ==
  ASSUME LinkTypes, NEW msg \in Message, Notify(msg), UNCHANGED <<sock, ws, asking, retry, mounted>>
  PROVE  LinkTypes'
  <1>1. /\ inbox \in Seq(Seq(Message)) /\ Len(inbox) = Len(sock) /\ Len(inbox) \in Nat
        /\ DOMAIN inbox = 1..Len(inbox) /\ inbox \in [1..Len(inbox) -> Seq(Message)]
    BY LenProperties DEF LinkTypes
  <1>2. \A s \in 1..Len(inbox) : inbox[s] \in Seq(Message)
    BY <1>1
  <1>3. \A s \in 1..Len(inbox) : Append(inbox[s], msg) \in Seq(Message)
    BY <1>2, AppendProperties
  <1>4. CASE inbox' = [s \in DOMAIN inbox |-> IF sock[s] = "open" THEN Append(inbox[s], msg)
                                                                ELSE inbox[s]]
    <2>1. inbox' \in [1..Len(inbox) -> Seq(Message)]
      BY <1>1, <1>2, <1>3, <1>4
    <2>2. inbox' \in Seq(Seq(Message)) /\ Len(inbox') = Len(inbox)
      BY <1>1, <2>1, FunctionIsSeq
    <2>3. QED
      BY <1>1, <2>2 DEF LinkTypes
  <1>5. CASE UNCHANGED inbox
    BY <1>5 DEF LinkTypes
  <1>6. QED
    BY <1>4, <1>5 DEF Notify

LEMMA LinkStep ==
  ASSUME Types, OneLink, [Next]_vars
  PROVE  LinkTypes' /\ OneLink'
  <1> USE DEF Types
  <1>1. ASSUME NEW which \in asking, Connect(which) PROVE LinkTypes' /\ OneLink'
    <2>1. CASE which = "here"
      BY <1>1, <2>1, LinkOpens DEF Connect, StillWanted, LinkTypes, OneLink
    <2>2. CASE which # "here"
      BY <1>1, <2>2 DEF Connect, StillWanted, LinkTypes, OneLink
    <2>3. QED
      BY <2>1, <2>2
  <1>2. ASSUME NEW s \in DOMAIN sock, Open(s) \/ Break(s) \/ NoticeClose(s) \/ Receive(s)
        PROVE  LinkTypes' /\ OneLink'
    <2>1. /\ sock \in Seq(Sockets) /\ inbox \in Seq(Seq(Message)) /\ Len(inbox) = Len(sock)
          /\ s \in 1..Len(inbox) /\ inbox[s] \in Seq(Message)
      BY LenProperties, ElementOfSeq DEF LinkTypes
    <2>2. ASSUME NEW q \in Seq(Message), inbox' = [inbox EXCEPT ![s] = q]
          PROVE  inbox' \in Seq(Seq(Message)) /\ Len(inbox') = Len(sock)
      BY <2>1, <2>2, ExceptSeq
    <2>3. retry \in BOOLEAN /\ mounted \in BOOLEAN
      BY DEF LinkTypes
    <2>4. CASE Open(s)
      <3>1. <<[type |-> "snapshot", files |-> stored]>> \in Seq(Message)
        BY OneMessage DEF FileTypes
      <3>2. inbox' \in Seq(Seq(Message)) /\ Len(inbox') = Len(sock)
        BY <2>2, <2>4, <3>1 DEF Open
      <3>3. QED
        BY <2>3, <2>4, <3>2, SocketChanges DEF Open, Sockets, Live
    <2>5. CASE Break(s)
      BY <2>1, <2>3, <2>5, SocketChanges DEF Break, Sockets, Live
    <2>6. CASE NoticeClose(s)
      <3>1. <<>> \in Seq(Message)
        OBVIOUS
      <3>2. inbox' \in Seq(Seq(Message)) /\ Len(inbox') = Len(sock)
        BY <2>2, <2>6, <3>1 DEF NoticeClose
      <3>3. QED
        BY <2>3, <2>6, <3>2, SocketChanges DEF NoticeClose, Sockets, Live
    <2>7. CASE Receive(s)
      <3>1. Tail(inbox[s]) \in Seq(Message)
        BY <2>1, <2>7, HeadTailProperties DEF Receive
      <3>2. inbox' = [inbox EXCEPT ![s] = Tail(inbox[s])]
        BY <2>7 DEF Receive
      <3>3. inbox' \in Seq(Seq(Message)) /\ Len(inbox') = Len(sock)
        BY <2>2, <3>1, <3>2
      <3>4. QED
        BY <2>7, <3>3 DEF Receive, LinkTypes, OneLink
    <2>8. QED
      BY <1>2, <2>4, <2>5, <2>6, <2>7
  <1>3. ASSUME Reconnect PROVE LinkTypes' /\ OneLink'
    <2>1. CallConnect /\ mounted' = TRUE /\ retry' \in BOOLEAN
      BY <1>3 DEF Reconnect, LinkTypes, OneLink
    <2>2. QED
      BY <2>1, ConnectKeeps
  <1>4. ASSUME Mount PROVE LinkTypes' /\ OneLink'
    <2>1. CallConnect /\ mounted' = TRUE /\ retry' \in BOOLEAN
      BY <1>4 DEF Mount, LinkTypes
    <2>2. QED
      BY <2>1, ConnectKeeps
  <1>5. ASSUME NameArrives PROVE LinkTypes' /\ OneLink'
    <2>1. CallConnect /\ mounted' = TRUE /\ retry' \in BOOLEAN
      BY <1>5 DEF NameArrives, Cleanup, LinkTypes
    <2>2. QED
      BY <2>1, ConnectKeeps
  <1>6. ASSUME Unmount PROVE LinkTypes' /\ OneLink'
    <2>1. /\ sock' = CloseCurrent /\ inbox' = Unread /\ ws' = 0 /\ retry' = FALSE
          /\ mounted' = FALSE /\ asking' \subseteq {"here", "gone"} /\ "here" \notin asking'
      BY <1>6 DEF Unmount, Cleanup, LinkTypes
    <2>2. QED
      BY <2>1, LinkCloses
  <1>7. ASSUME NEW f \in Pages, RenderPage(f) PROVE LinkTypes' /\ OneLink'
    <2>1. [type |-> "file", file |-> f] \in Message
      BY OneMessage DEF Files
    <2>2. QED
      BY <1>7, <2>1, NotifyTypes DEF RenderPage, OneLink
  <1>8. ASSUME EndJob PROVE LinkTypes' /\ OneLink'
    <2>1. CASE UNCHANGED inbox
      BY <1>8, <2>1 DEF EndJob, LinkTypes, OneLink
    <2>2. CASE Notify([type |-> "failed", files |-> NotDone])
      <3>1. NotDone \in SUBSET Files
        BY DEF NotDone, Files
      <3>2. [type |-> "failed", files |-> NotDone] \in Message
        BY <3>1, OneMessage
      <3>3. PICK msg \in Message : msg = [type |-> "failed", files |-> NotDone]
        BY <3>2
      <3>4. LinkTypes'
        BY <1>8, <2>2, <3>3, NotifyTypes DEF EndJob
      <3>5. QED
        BY <1>8, <3>4 DEF EndJob, OneLink
    <2>3. QED
      BY <1>8, <2>1, <2>2 DEF EndJob
  <1>9. ASSUME \/ UNCHANGED vars \/ PostEnds \/ TimerFires \/ ApiReady \/ Paste \/ UploadEnds
               \/ ImportStep \/ ImportReply \/ NextAttempt
               \/ (\E fs \in orphans : OrphanEnds(fs)) \/ (\E f \in fetching : FetchEnds(f))
        PROVE  LinkTypes' /\ OneLink'
    <2>1. UNCHANGED linkVars
      BY <1>9 DEF vars, PostEnds, TimerFires, ApiReady, Paste, UploadEnds, ImportStep, ImportReply,
                  NextAttempt, OrphanEnds, FetchEnds
    <2>2. QED
      BY <2>1 DEF linkVars, LinkTypes, OneLink
  <1>10. QED
    BY <1>1, <1>2, <1>3, <1>4, <1>5, <1>6, <1>7, <1>8, <1>9 DEF Next
-----------------------------------------------------------------------------
(* The saves and the files *)

LEMMA PostTypes ==
  ASSUME SaveTypes, NEW b \in Bodies, Post(b)
  PROVE  saving' \in Bodies /\ next' \in Bodies /\ (saving' = NoBody => next' = NoBody)
  BY DEF SaveTypes, Post, Waits

LEMMA ContentsAreFiles ==
  ASSUME Types
  PROVE  InQueue \subseteq SUBSET Files /\ LastWord \subseteq SUBSET Files
  <1>1. \A b \in {saving, next} \ {NoBody} : b.files \in SUBSET Files
    BY BodyTypes DEF Types, SaveTypes
  <1>2. QED
    BY <1>1 DEF InQueue, LastWord, Types, FileTypes

LEMMA CountedTypes ==
  ASSUME NEW fs \in SUBSET Files, NEW imp \in Imports
  PROVE  Counted(fs, imp) \in Imports
  <1>1. CASE imp.progress = NoProgress \/ imp.progress.pending \cap fs = {}
    BY <1>1 DEF Counted
  <1>2. CASE ~(imp.progress = NoProgress \/ imp.progress.pending \cap fs = {})
    <2> DEFINE left == imp.progress.pending \ fs
               progress == [none |-> FALSE, pending |-> left]
    <2>1. imp.progress.pending \in SUBSET Pages
      BY <1>2 DEF Imports, Progress
    <2>2. progress \in Progress
      BY <2>1 DEF Progress
    <2>3. NoProgress \in Progress
      BY DEF Progress
    <2>4. Counted(fs, imp) = IF Complete(left)
                             THEN [imp EXCEPT !.progress = NoProgress, !.toast = "done"]
                             ELSE [imp EXCEPT !.progress = progress, !.toast = "loading"]
      BY <1>2 DEF Counted
    <2> HIDE DEF progress, left
    <2>5. QED
      BY <2>2, <2>3, <2>4 DEF Imports
  <1>3. QED
    BY <1>1, <1>2

LEMMA HydrateTypes ==
  ASSUME FileTypes, NEW fs \in SUBSET Files, Hydrate(fs)
  PROVE  map' \in SUBSET Files /\ fetching' \in SUBSET Files /\ import' \in Imports
  BY CountedTypes DEF Hydrate, FileTypes

\* What onmessage takes from the socket.
LEMMA Received ==
  ASSUME LinkTypes, NEW s \in DOMAIN sock, Receive(s)
  PROVE  \E m \in Message :
           /\ m = Head(inbox[s])
           /\ m.type # "file" => m.files \in SUBSET Files
           /\ m.type = "file" => m.file \in Files
  <1>1. inbox[s] \in Seq(Message) /\ inbox[s] # <<>>
    BY LenProperties, ElementOfSeq DEF LinkTypes, Receive
  <1>2. Head(inbox[s]) \in Message
    BY <1>1, HeadTailProperties
  <1>3. QED
    BY <1>2 DEF Message

LEMMA SaveStep ==
  ASSUME Types, [Next]_vars
  PROVE  SaveTypes'
  <1> USE DEF Types
  <1>1. ASSUME Fault PROVE faults' \in 0..MaxFaults
    BY <1>1, Bounds DEF Fault, SaveTypes
  <1>2. map \in SUBSET Files /\ Body(map) \in Bodies /\ NoBody \in Bodies
    BY BodyTypes DEF FileTypes
  <1>3. CASE PostEnds
    BY <1>1, <1>2, <1>3 DEF PostEnds, SaveTypes, seedVars
  <1>4. ASSUME NEW fs \in orphans, OrphanEnds(fs) PROVE SaveTypes'
    BY <1>1, <1>4 DEF OrphanEnds, SaveTypes, seedVars
  <1>5. CASE TimerFires
    <2>1. Post(Body(map))
      BY <1>5 DEF TimerFires
    <2>2. saving' \in Bodies /\ next' \in Bodies /\ (saving' = NoBody => next' = NoBody)
      BY <1>2, <2>1, PostTypes
    <2>3. QED
      BY <1>5, <2>2 DEF TimerFires, SaveTypes, seedVars
  <1>6. CASE Unmount
    <2>1. orphans' \subseteq SUBSET Files
      BY <1>6, ContentsAreFiles DEF Unmount, SaveTypes
    <2>2. QED
      BY <1>2, <1>6, <2>1 DEF Unmount, Cleanup, SaveTypes
  <1>7. CASE NameArrives
    <2>1. saving' \in Bodies /\ next' \in Bodies /\ (saving' = NoBody => next' = NoBody)
      <3>1. CASE Post(Body(map))
        BY <1>2, <3>1, PostTypes
      <3>2. CASE UNCHANGED <<saving, next>>
        BY <3>2 DEF SaveTypes
      <3>3. QED
        BY <1>7, <3>1, <3>2 DEF NameArrives
    <2>2. QED
      BY <1>2, <1>7, <2>1 DEF NameArrives, Cleanup, SaveTypes
  <1>8. CASE ApiReady
    BY <1>2, <1>8 DEF ApiReady, SaveTypes, saveVars
  <1>9. ASSUME NEW s \in DOMAIN sock, Receive(s) PROVE SaveTypes'
    <2>1. PICK m \in Message : /\ m = Head(inbox[s])
                               /\ m.type # "file" => m.files \in SUBSET Files
      BY <1>9, Received
    <2>2. seeded' \in BOOLEAN /\ seed' \in Bodies
      <3>1. CASE m.type = "snapshot"
        BY <1>9, <2>1, <3>1, BodyTypes DEF Receive, SaveTypes
      <3>2. CASE m.type # "snapshot"
        BY <1>9, <2>1, <3>2 DEF Receive, SaveTypes, Message
      <3>3. QED
        BY <3>1, <3>2
    <2>3. QED
      BY <1>9, <2>2 DEF Receive, SaveTypes, saveVars
  <1>10. CASE UploadEnds
    BY <1>1, <1>10 DEF UploadEnds, Register, SaveTypes, saveVars, seedVars
  <1>11. CASE ImportStep
    BY <1>1, <1>11 DEF ImportStep, SaveTypes, saveVars, seedVars
  <1>12. CASE ImportReply
    <2>1. Pages \in SUBSET Files
      BY DEF Files
    <2>2. QED
      BY <1>1, <1>12, <2>1 DEF ImportReply, Register, SaveTypes, seedVars
  <1>13. CASE NextAttempt
    BY <1>1, <1>13 DEF NextAttempt, SaveTypes, saveVars, seedVars
  <1>14. CASE EndJob
    BY <1>1, <1>14 DEF EndJob, Notify, SaveTypes, saveVars, seedVars
  <1>15. ASSUME NEW f \in Pages, RenderPage(f) PROVE SaveTypes'
    BY <1>1, <1>15 DEF RenderPage, Notify, SaveTypes, saveVars, seedVars
  <1>16. ASSUME NEW s \in DOMAIN sock, Open(s) \/ Break(s) \/ NoticeClose(s) PROVE SaveTypes'
    BY <1>1, <1>16 DEF Open, Break, NoticeClose, SaveTypes, saveVars, seedVars
  <1>17. ASSUME \/ UNCHANGED vars \/ Reconnect \/ Mount \/ Paste
                \/ (\E which \in asking : Connect(which)) \/ (\E f \in fetching : FetchEnds(f))
         PROVE  SaveTypes'
    BY <1>17 DEF vars, Reconnect, Mount, Paste, Connect, FetchEnds, SaveTypes, saveVars, seedVars
  <1>18. QED
    BY <1>3, <1>4, <1>5, <1>6, <1>7, <1>8, <1>9, <1>10, <1>11, <1>12, <1>13, <1>14, <1>15, <1>16,
       <1>17 DEF Next

LEMMA FileStep ==
  ASSUME Types, [Next]_vars
  PROVE  FileTypes'
  <1> USE DEF Types
  <1>1. Pages \in SUBSET Files /\ Photo \in Files
    BY DEF Files
  <1>2. CASE PostEnds
    <2>1. saving.files \in SUBSET Files
      BY <1>2, BodyTypes DEF PostEnds, SaveTypes
    <2>2. QED
      BY <1>2, <2>1 DEF PostEnds, FileTypes
  <1>3. ASSUME NEW fs \in orphans, OrphanEnds(fs) PROVE FileTypes'
    <2>1. fs \in SUBSET Files
      BY DEF SaveTypes
    <2>2. stored' \in SUBSET Files /\ known' \in Histories
      BY <1>3, <2>1 DEF OrphanEnds, FileTypes, Histories
    <2>3. QED
      BY <1>3, <2>2 DEF OrphanEnds, FileTypes
  <1>4. ASSUME NEW risk \in SUBSET Files, Cleanup(risk) PROVE known' \in Histories
    BY <1>4 DEF Cleanup, FileTypes, Histories
  <1>5. Unsaved \in SUBSET Files
    BY DEF Unsaved, FileTypes
  <1>6. CASE Unmount
    <2>1. known' \in Histories
      BY <1>4, <1>5, <1>6 DEF Unmount
    <2>2. import' \in Imports
      BY <1>6 DEF Unmount, FileTypes, Imports, Steps
    <2>3. QED
      BY <1>6, <2>1, <2>2 DEF Unmount, FileTypes
  <1>7. CASE NameArrives
    <2>1. known' \in Histories
      BY <1>4, <1>5, <1>7 DEF NameArrives
    <2>2. QED
      BY <1>7, <2>1 DEF NameArrives, FileTypes
  <1>8. CASE ApiReady
    <2>1. CASE seed = NoBody
      BY <1>8, <2>1 DEF ApiReady, FileTypes
    <2>2. CASE seed # NoBody
      <3>1. seed.files \in SUBSET Files
        BY <2>2, BodyTypes DEF SaveTypes
      <3>2. map' \in SUBSET Files /\ fetching' \in SUBSET Files /\ import' \in Imports
        BY <1>8, <2>2, <3>1, HydrateTypes DEF ApiReady
      <3>3. QED
        BY <1>8, <3>2 DEF ApiReady, FileTypes
    <2>3. QED
      BY <2>1, <2>2
  <1>9. ASSUME NEW s \in DOMAIN sock, Receive(s) PROVE FileTypes'
    <2>1. PICK m \in Message : /\ m = Head(inbox[s])
                               /\ m.type # "file" => m.files \in SUBSET Files
                               /\ m.type = "file" => m.file \in Files
      BY <1>9, Received
    <2>2. map' \in SUBSET Files /\ fetching' \in SUBSET Files /\ import' \in Imports
      <3>1. CASE m.type = "snapshot"
        BY <1>9, <2>1, <3>1, HydrateTypes DEF Receive, FileTypes
      <3>2. CASE m.type = "file"
        BY <1>9, <2>1, <3>2, HydrateTypes DEF Receive, FileTypes
      <3>3. CASE m.type = "failed"
        <4>1. NoProgress \in Progress
          BY DEF Progress
        <4>2. UNCHANGED import \/ import' = [import EXCEPT !.progress = NoProgress, !.toast = "error"]
          BY <1>9, <2>1, <3>3 DEF Receive, Failure
        <4>3. import' \in Imports
          BY <4>1, <4>2 DEF FileTypes, Imports
        <4>4. QED
          BY <1>9, <2>1, <3>3, <4>3 DEF Receive, FileTypes
      <3>4. QED
        BY <3>1, <3>2, <3>3 DEF Message
    <2>3. QED
      BY <1>9, <2>2 DEF Receive, FileTypes
  <1>10. ASSUME NEW f \in fetching, FetchEnds(f) PROVE FileTypes'
    <2>1. f \in Files /\ {f} \in SUBSET Files
      BY DEF FileTypes
    <2>2. canvas' \in SUBSET Files /\ known' \in Histories /\ import' \in Imports
      BY <1>10, <2>1, CountedTypes DEF FetchEnds, FileTypes, Histories, OnBoard
    <2>3. QED
      BY <1>10, <2>2 DEF FetchEnds, FileTypes
  <1>11. ASSUME NEW fs \in SUBSET Files, Register(fs) PROVE map' \in SUBSET Files
    BY <1>11 DEF Register, FileTypes
  <1>12. CASE UploadEnds
    <2>1. CASE /\ Register({Photo}) /\ canvas' = canvas \cup {Photo}
               /\ known' = [known EXCEPT !.registered = @ \cup {Photo}, !.shown = @ \cup {Photo}]
      <3>1. known' \in Histories
        BY <1>1, <2>1 DEF FileTypes, Histories
      <3>2. QED
        BY <1>1, <1>11, <1>12, <2>1, <3>1 DEF UploadEnds, FileTypes
    <2>2. CASE UNCHANGED <<map, timer, known, canvas>>
      BY <1>12, <2>2 DEF UploadEnds, FileTypes
    <2>3. QED
      BY <1>12, <2>1, <2>2 DEF UploadEnds
  <1>13. CASE ImportStep
    <2>1. import' \in Imports /\ job' \in Jobs
      BY <1>13 DEF ImportStep, FileTypes, Imports, Steps, Jobs
    <2>2. QED
      BY <1>13, <2>1 DEF ImportStep, FileTypes
  <1>14. CASE ImportReply
    <2> DEFINE progress == [none |-> FALSE, pending |-> Pages]
    <2>1. progress \in Progress
      BY DEF Progress
    <2>2. \/ import' = [import EXCEPT !.stage = "replied", !.toast = "loading", !.progress = progress]
          \/ import' = [import EXCEPT !.stage = "refused", !.toast = "error"]
      BY <1>14 DEF ImportReply
    <2> HIDE DEF progress
    <2>3. import' \in Imports
      BY <2>1, <2>2 DEF FileTypes, Imports, Steps
    <2>4. map' \in SUBSET Files
      BY <1>1, <1>11, <1>14 DEF ImportReply, FileTypes
    <2>5. known' \in Histories
      <3>1. CASE known' = [known EXCEPT !.registered = @ \cup Pages, !.placed = TRUE,
                                       !.shown = @ \cup (canvas \cap Pages)]
        BY <1>1, <3>1 DEF FileTypes, Histories
      <3>2. CASE UNCHANGED known
        BY <3>2 DEF FileTypes
      <3>3. QED
        BY <1>14, <3>1, <3>2 DEF ImportReply
    <2>6. QED
      BY <1>14, <2>3, <2>4, <2>5 DEF ImportReply, FileTypes
  <1>15. CASE NextAttempt
    <2>1. job \in Jobs /\ job.attempt \in 1..MaxAttempts /\ job.attempt < MaxAttempts
      BY <1>15 DEF NextAttempt, FileTypes, Jobs
    <2>2. PICK n \in 1..MaxAttempts : n = job.attempt + 1
      BY <2>1, Bounds
    <2>3. job' = [job EXCEPT !.attempt = n, !.mine = job.done]
      BY <1>15, <2>2 DEF NextAttempt
    <2>4. job' \in Jobs
      BY <2>1, <2>3 DEF Jobs
    <2>5. QED
      BY <1>15, <2>4 DEF NextAttempt, FileTypes
  <1>16. CASE EndJob
    <2>1. job' \in Jobs /\ known' \in Histories
      BY <1>16 DEF EndJob, FileTypes, Jobs, Histories, NotDone
    <2>2. QED
      BY <1>16, <2>1 DEF EndJob, FileTypes
  <1>17. ASSUME NEW f \in Pages, RenderPage(f) PROVE FileTypes'
    <2>1. job' \in Jobs
      BY <1>17 DEF RenderPage, FileTypes, Jobs
    <2>2. QED
      BY <1>17, <2>1 DEF RenderPage, FileTypes
  <1>18. CASE Paste
    BY <1>18 DEF Paste, FileTypes
  <1>19. ASSUME \/ UNCHANGED vars \/ Reconnect \/ Mount \/ TimerFires
                \/ (\E which \in asking : Connect(which))
                \/ (\E s \in DOMAIN sock : Open(s) \/ Break(s) \/ NoticeClose(s))
         PROVE  FileTypes'
    BY <1>19 DEF vars, Reconnect, Mount, TimerFires, Connect, Open, Break, NoticeClose, FileTypes
  <1>20. QED
    BY <1>2, <1>3, <1>6, <1>7, <1>8, <1>9, <1>10, <1>12, <1>13, <1>14, <1>15, <1>16, <1>17, <1>18,
       <1>19 DEF Next
-----------------------------------------------------------------------------
(* Every file is covered *)

\* The queue after a POST of the whole map was asked for.
LEMMA PostCovers ==
  ASSUME Types, NEW fs \in SUBSET Files, Post(Body(fs))
  PROVE  LastBody' = Body(fs) /\ LastBody' # NoBody
  <1>1. Body(fs) # NoBody /\ (saving = NoBody => next = NoBody)
    BY BodyTypes DEF Types, SaveTypes
  <1>2. QED
    BY <1>1 DEF Post, Waits, LastBody

\* Whatever leaves the queue of saves, the timer and the right to be there
\* alone, and adds to the map, keeps what is covered covered.
LEMMA NothingLost ==
  ASSUME AllCovered, Types, known'.registered = known.registered,
         known.risked \subseteq known'.risked,
         stored \subseteq stored', map \subseteq map', timer => timer',
         UNION orphans \subseteq UNION orphans',
         UNCHANGED <<saving, next, failed>>
  PROVE  AllCovered'
  <1>1. LastBody' = LastBody
    BY DEF LastBody
  <1>2. QED
    BY <1>1 DEF AllCovered, Covered

LEMMA CoverStep ==
  ASSUME Types, AllCovered, Types', [Next]_vars
  PROVE  AllCovered'
  <1>1. map \in SUBSET Files /\ (saving = NoBody => next = NoBody)
    BY DEF Types, FileTypes, SaveTypes
  <1>2. CASE PostEnds
    <2>1. /\ saving # NoBody /\ saving' = next /\ next' = NoBody
          /\ UNCHANGED <<known, map, timer, orphans>>
      BY <1>2 DEF PostEnds
    <2>2. LastBody' = next
      BY <2>1 DEF LastBody
    <2>3. ASSUME NEW f \in known.registered, Covered(f) PROVE Covered(f)'
      <3>1. CASE f \in stored \/ f \in known.risked \/ f \in UNION orphans
        BY <1>2, <2>1, <3>1 DEF PostEnds, Covered
      <3>2. CASE f \in map /\ timer
        BY <2>1, <3>2 DEF Covered
      <3>3. CASE f \in map /\ next # NoBody /\ f \in next.files
        BY <2>1, <2>2, <3>3 DEF Covered
      <3>4. CASE f \in map /\ next = NoBody /\ f \in saving.files
        <4>1. CASE stored' = stored \cup saving.files
          BY <3>4, <4>1 DEF Covered
        <4>2. CASE failed' = TRUE
          BY <2>1, <3>4, <4>2 DEF Covered
        <4>3. QED
          BY <1>2, <4>1, <4>2 DEF PostEnds
      <3>5. QED
        BY <2>1, <2>3, <3>1, <3>2, <3>3, <3>4 DEF Covered, LastBody
    <2>4. QED
      BY <2>1, <2>3 DEF AllCovered
  <1>3. ASSUME NEW fs \in orphans, OrphanEnds(fs) PROVE AllCovered'
    <2>1. /\ orphans' = orphans \ {fs} /\ UNCHANGED <<saving, next, failed, map, timer>>
          /\ known'.registered = known.registered
      BY <1>3 DEF OrphanEnds, Types, FileTypes, Histories
    <2>2. fs \subseteq stored' \cup known'.risked
      BY <1>3 DEF OrphanEnds, Types, FileTypes, Histories
    <2>3. stored \subseteq stored' /\ known.risked \subseteq known'.risked
      BY <1>3 DEF OrphanEnds, Types, FileTypes, Histories
    <2>4. LastBody' = LastBody
      BY <2>1 DEF LastBody
    <2>5. QED
      BY <2>1, <2>2, <2>3, <2>4 DEF AllCovered, Covered
  <1>4. CASE TimerFires
    <2>1. LastBody' = Body(map) /\ LastBody' # NoBody
      BY <1>1, <1>4, PostCovers DEF TimerFires
    <2>2. LastBody'.files = map
      BY <1>1, <2>1, BodyTypes
    <2>3. UNCHANGED <<known, map, orphans, stored>>
      BY <1>4 DEF TimerFires
    <2>4. QED
      BY <2>1, <2>2, <2>3 DEF AllCovered, Covered
  <1>5. ASSUME NEW risk, Cleanup(risk)
        PROVE  known'.risked = known.risked \cup risk /\ known'.registered = known.registered
    BY <1>5 DEF Cleanup, Types, FileTypes, Histories
  <1>6. CASE Unmount
    <2>1. /\ known'.risked = known.risked \cup (Unsaved \ UNION (InQueue \cup LastWord))
          /\ known'.registered = known.registered
      BY <1>5, <1>6 DEF Unmount
    <2>2. orphans' = orphans \cup InQueue \cup LastWord /\ stored' = stored
      BY <1>6 DEF Unmount
    <2>3. \A f \in known.registered \cap map : f \notin stored => f \in Unsaved
      BY DEF Unsaved
    <2>4. QED
      BY <2>1, <2>2, <2>3 DEF AllCovered, Covered
  <1>7. CASE NameArrives
    <2>1. /\ known'.risked = known.risked \cup Unsaved
          /\ known'.registered = known.registered
      BY <1>5, <1>7 DEF NameArrives
    <2>2. orphans' = orphans /\ stored' = stored
      BY <1>7 DEF NameArrives
    <2>3. \A f \in known.registered \cap map : f \notin stored => f \in Unsaved
      BY DEF Unsaved
    <2>4. QED
      BY <2>1, <2>2, <2>3 DEF AllCovered, Covered
  <1>8. ASSUME NEW fs \in SUBSET Files, Register(fs), UNCHANGED <<saving, next, failed, stored>>,
               known'.registered = known.registered \cup fs, known'.risked = known.risked,
               UNION orphans \subseteq UNION orphans'
        PROVE  AllCovered'
    <2>1. map' = map \cup fs /\ timer' = TRUE
      BY <1>8 DEF Register
    <2>2. QED
      BY <1>8, <2>1 DEF AllCovered, Covered, LastBody
  <1>9. CASE UploadEnds
    <2>1. CASE /\ Register({Photo})
               /\ known' = [known EXCEPT !.registered = @ \cup {Photo}, !.shown = @ \cup {Photo}]
      <3>1. {Photo} \in SUBSET Files
        BY DEF Files
      <3>2. known'.registered = known.registered \cup {Photo} /\ known'.risked = known.risked
        BY <2>1 DEF Types, FileTypes, Histories
      <3>3. QED
        BY <1>8, <1>9, <2>1, <3>1, <3>2 DEF UploadEnds, saveVars
    <2>2. CASE UNCHANGED <<map, timer, known, canvas>>
      BY <1>9, <2>2, NothingLost DEF UploadEnds, saveVars
    <2>3. QED
      BY <1>9, <2>1, <2>2 DEF UploadEnds
  <1>10. CASE ImportReply
    <2>1. CASE /\ Register(Pages) /\ UNCHANGED orphans
               /\ known' = [known EXCEPT !.registered = @ \cup Pages, !.placed = TRUE,
                                        !.shown = @ \cup (canvas \cap Pages)]
      <3>1. Pages \in SUBSET Files
        BY DEF Files
      <3>2. known'.registered = known.registered \cup Pages /\ known'.risked = known.risked
        BY <2>1 DEF Types, FileTypes, Histories
      <3>3. QED
        BY <1>8, <1>10, <2>1, <3>1, <3>2 DEF ImportReply
    <2>2. CASE UNCHANGED <<map, timer, known>> /\ UNION orphans \subseteq UNION orphans'
      BY <1>10, <2>2, NothingLost DEF ImportReply
    <2>3. QED
      BY <1>10, <2>1, <2>2 DEF ImportReply
  <1>11. CASE ApiReady
    <2>1. map \subseteq map'
      BY <1>11 DEF ApiReady, Hydrate
    <2>2. QED
      BY <1>11, <2>1, NothingLost DEF ApiReady, saveVars
  <1>12. ASSUME NEW s \in DOMAIN sock, Receive(s) PROVE AllCovered'
    <2>1. PICK m \in Message : m = Head(inbox[s])
      BY <1>12, Received DEF Types
    <2>2. map \subseteq map'
      BY <1>12, <2>1 DEF Receive, Hydrate, Message
    <2>3. QED
      BY <1>12, <2>2, NothingLost DEF Receive, saveVars
  <1>13. ASSUME NEW f \in fetching, FetchEnds(f) PROVE AllCovered'
    <2>1. known'.registered = known.registered /\ known'.risked = known.risked
      BY <1>13 DEF FetchEnds, Types, FileTypes, Histories
    <2>2. QED
      BY <1>13, <2>1, NothingLost DEF FetchEnds, saveVars
  <1>14. CASE EndJob
    <2>1. known'.registered = known.registered /\ known'.risked = known.risked
      BY <1>14 DEF EndJob, Types, FileTypes, Histories
    <2>2. QED
      BY <1>14, <2>1, NothingLost DEF EndJob, saveVars
  <1>15. ASSUME \/ UNCHANGED vars \/ Reconnect \/ Mount \/ Paste \/ ImportStep \/ NextAttempt
                \/ (\E f \in Pages : RenderPage(f)) \/ (\E which \in asking : Connect(which))
                \/ (\E s \in DOMAIN sock : Open(s) \/ Break(s) \/ NoticeClose(s))
         PROVE  AllCovered'
    <2>1. UNCHANGED <<known, stored, map, timer, orphans, saving, next, failed>>
      BY <1>15 DEF vars, Reconnect, Mount, Paste, ImportStep, NextAttempt, RenderPage, Connect,
                   Open, Break, NoticeClose, saveVars
    <2>2. QED
      BY <2>1, NothingLost
  <1>16. QED
    BY <1>2, <1>3, <1>4, <1>6, <1>7, <1>9, <1>10, <1>11, <1>12, <1>13, <1>14, <1>15 DEF Next
-----------------------------------------------------------------------------
(* The progress, the toast and the job *)

LEMMA CountedIsTrue ==
  ASSUME NEW imp \in Imports, NEW seen, NEW fs \in SUBSET Files, fs \subseteq seen,
         TrueOf(imp, seen)
  PROVE  TrueOf(Counted(fs, imp), seen)
  <1>1. CASE imp.progress = NoProgress \/ imp.progress.pending \cap fs = {}
    BY <1>1 DEF Counted
  <1>2. CASE ~(imp.progress = NoProgress \/ imp.progress.pending \cap fs = {})
    <2> DEFINE left == imp.progress.pending \ fs
               progress == [none |-> FALSE, pending |-> left]
    <2>1. Pages \ left \subseteq seen
      BY <1>2 DEF TrueOf
    <2>2. progress.pending = left
      OBVIOUS
    <2>3. Counted(fs, imp) = IF Complete(left)
                             THEN [imp EXCEPT !.progress = NoProgress, !.toast = "done"]
                             ELSE [imp EXCEPT !.progress = progress, !.toast = "loading"]
      BY <1>2 DEF Counted
    <2> HIDE DEF progress, left
    <2>4. CASE Complete(left)
      <3>1. /\ Counted(fs, imp).progress = NoProgress
            /\ Pages \subseteq seen
        BY <2>1, <2>3, <2>4 DEF Complete, Imports
      <3>2. QED
        BY <3>1 DEF TrueOf
    <2>5. CASE ~Complete(left)
      <3>1. Counted(fs, imp).progress = progress /\ Counted(fs, imp).toast = "loading"
        BY <2>3, <2>5 DEF Imports
      <3>2. QED
        BY <2>1, <2>2, <3>1 DEF TrueOf
    <2>6. QED
      BY <2>4, <2>5
  <1>3. QED
    BY <1>1, <1>2

\* What hydrateFiles reports is on the canvas.
LEMMA HydrateIsTrue ==
  ASSUME Types, TrueProgress, NEW fs \in SUBSET Files, Hydrate(fs), UNCHANGED <<canvas, known>>
  PROVE  TrueProgress'
  <1>1. fs \cap canvas \in SUBSET Files /\ fs \cap canvas \subseteq Seen(known)
    BY DEF TrueProgress
  <1>2. TrueOf(Counted(fs \cap canvas, import), Seen(known))
    BY <1>1, CountedIsTrue DEF TrueProgress, Types, FileTypes
  <1>3. Seen(known)' = Seen(known)
    BY DEF Seen
  <1>4. QED
    BY <1>2, <1>3 DEF Hydrate, TrueProgress, TrueOf

\* What has been seen stays so.
LEMMA SeenKeeps ==
  ASSUME TrueProgress, UNCHANGED import, canvas' \subseteq Seen(known'),
         Seen(known) \subseteq Seen(known')
  PROVE  TrueProgress'
  BY DEF TrueProgress, TrueOf

LEMMA SameSeen ==
  ASSUME known'.shown = known.shown, known'.placed = known.placed
  PROVE  Seen(known') = Seen(known)
  BY DEF Seen

LEMMA ProgressStep ==
  ASSUME Types, TrueProgress, [Next]_vars
  PROVE  TrueProgress'
  <1>1. /\ import \in Imports /\ known \in Histories
        /\ canvas \subseteq Seen(known) /\ TrueOf(import, Seen(known))
    BY DEF Types, FileTypes, TrueProgress
  <1>2. CASE Unmount
    <2>1. /\ import'.progress = import.progress /\ import'.toast = import.toast
          /\ known'.shown = known.shown /\ known'.placed = known.placed /\ canvas' = {}
      BY <1>1, <1>2 DEF Unmount, Cleanup, Imports, Histories
    <2>2. Seen(known') = Seen(known)
      BY <2>1, SameSeen
    <2>3. QED
      BY <1>1, <2>1, <2>2 DEF TrueProgress, TrueOf
  <1>3. CASE NameArrives
    <2>1. /\ known'.shown = known.shown /\ known'.placed = known.placed
          /\ UNCHANGED <<import, canvas>>
      BY <1>1, <1>3 DEF NameArrives, Cleanup, Histories
    <2>2. QED
      BY <1>1, <2>1, SameSeen, SeenKeeps
  <1>4. ASSUME NEW fs \in orphans, OrphanEnds(fs) PROVE TrueProgress'
    <2>1. /\ known'.shown = known.shown /\ known'.placed = known.placed
          /\ UNCHANGED <<import, canvas>>
      BY <1>1, <1>4 DEF OrphanEnds, Histories
    <2>2. QED
      BY <1>1, <2>1, SameSeen, SeenKeeps
  <1>5. CASE ApiReady
    <2>1. CASE seed = NoBody
      BY <1>1, <1>5, <2>1, SameSeen, SeenKeeps DEF ApiReady
    <2>2. CASE seed # NoBody
      <3>1. seed.files \in SUBSET Files
        BY <2>2, BodyTypes DEF Types, SaveTypes
      <3>2. QED
        BY <1>5, <2>2, <3>1, HydrateIsTrue DEF ApiReady
    <2>3. QED
      BY <2>1, <2>2
  <1>6. ASSUME NEW s \in DOMAIN sock, Receive(s) PROVE TrueProgress'
    <2>1. PICK m \in Message : /\ m = Head(inbox[s])
                               /\ m.type # "file" => m.files \in SUBSET Files
                               /\ m.type = "file" => m.file \in Files
      BY <1>6, Received DEF Types
    <2>2. UNCHANGED <<canvas, known>>
      BY <1>6 DEF Receive
    <2>3. CASE m.type = "snapshot" /\ api
      BY <1>6, <2>1, <2>2, <2>3, HydrateIsTrue DEF Receive
    <2>4. CASE m.type = "file" /\ api
      <3>1. {m.file} \in SUBSET Files /\ Hydrate({m.file})
        BY <1>6, <2>1, <2>4 DEF Receive
      <3>2. QED
        BY <2>2, <3>1, HydrateIsTrue
    <2>5. CASE m.type # "failed" /\ ~api
      <3>1. UNCHANGED import
        BY <1>6, <2>1, <2>5 DEF Receive, Message
      <3>2. QED
        BY <1>1, <2>2, <3>1, SameSeen, SeenKeeps
    <2>6. CASE m.type = "failed"
      <3>1. UNCHANGED import \/ import' = [import EXCEPT !.progress = NoProgress, !.toast = "error"]
        BY <1>6, <2>1, <2>6 DEF Receive, Failure
      <3>2. CASE UNCHANGED import
        BY <1>1, <2>2, <3>2, SameSeen, SeenKeeps
      <3>3. CASE import' = [import EXCEPT !.progress = NoProgress, !.toast = "error"]
        <4>1. import'.progress = NoProgress /\ import'.toast = "error"
          BY <1>1, <3>3 DEF Imports
        <4>2. QED
          BY <1>1, <2>2, <4>1, SameSeen DEF TrueProgress, TrueOf
      <3>4. QED
        BY <3>1, <3>2, <3>3
    <2>7. QED
      BY <2>3, <2>4, <2>5, <2>6 DEF Message
  <1>7. ASSUME NEW f \in fetching, FetchEnds(f) PROVE TrueProgress'
    <2>1. CASE AtUrl(f)
      <3>1. /\ known'.shown = known.shown \cup ({f} \cap OnBoard)
            /\ known'.placed = known.placed /\ canvas' = canvas \cup {f}
            /\ import' = Counted({f}, import)
        BY <1>1, <1>7, <2>1 DEF FetchEnds, Histories
      <3>2. {f} \in SUBSET Files
        BY DEF Types, FileTypes
      <3>3. Seen(known) \subseteq Seen(known') /\ {f} \subseteq Seen(known')
        BY <3>1, <3>2 DEF Seen, OnBoard, Files
      <3>4. TrueOf(import, Seen(known'))
        BY <1>1, <3>3 DEF TrueOf
      <3>5. TrueOf(Counted({f}, import), Seen(known'))
        BY <1>1, <3>2, <3>3, <3>4, CountedIsTrue
      <3>6. QED
        BY <1>1, <3>1, <3>3, <3>5 DEF TrueOf, TrueProgress
    <2>2. CASE ~AtUrl(f)
      BY <1>1, <1>7, <2>2, SameSeen, SeenKeeps DEF FetchEnds
    <2>3. QED
      BY <2>1, <2>2
  <1>8. CASE UploadEnds
    <2>1. CASE /\ canvas' = canvas \cup {Photo}
               /\ known' = [known EXCEPT !.registered = @ \cup {Photo}, !.shown = @ \cup {Photo}]
      <3>1. Photo \notin Pages
        BY Bounds DEF Photo, Pages
      <3>2. /\ known'.shown = known.shown \cup {Photo} /\ known'.placed = known.placed
            /\ UNCHANGED import
        BY <1>1, <1>8, <2>1 DEF UploadEnds, Histories
      <3>3. Seen(known') = Seen(known) \cup {Photo}
        BY <3>2 DEF Seen
      <3>4. QED
        BY <1>1, <2>1, <3>2, <3>3, SeenKeeps
    <2>2. CASE UNCHANGED <<map, timer, known, canvas>>
      BY <1>1, <1>8, <2>2, SameSeen, SeenKeeps DEF UploadEnds
    <2>3. QED
      BY <1>8, <2>1, <2>2 DEF UploadEnds
  <1>9. CASE ImportStep
    <2>1. /\ import'.progress = import.progress
          /\ import'.toast = "done" => import.toast = "done"
          /\ UNCHANGED <<canvas, known>>
      BY <1>1, <1>9 DEF ImportStep, Imports
    <2>2. QED
      BY <1>1, <2>1, SameSeen DEF TrueProgress, TrueOf
  <1>10. CASE ImportReply
    <2> DEFINE progress == [none |-> FALSE, pending |-> Pages]
    <2>1. progress.pending = Pages
      OBVIOUS
    <2>2. \/ import' = [import EXCEPT !.stage = "replied", !.toast = "loading", !.progress = progress]
          \/ import' = [import EXCEPT !.stage = "refused", !.toast = "error"]
      BY <1>10 DEF ImportReply
    <2> HIDE DEF progress
    <2>3. /\ import'.progress \in {import.progress, progress}
          /\ import'.toast # "done"
      BY <1>1, <2>2 DEF Imports
    <2>4. canvas' = canvas
      BY <1>10 DEF ImportReply
    <2>5. CASE UNCHANGED known /\ UNCHANGED import.progress
      <3>1. Seen(known') = Seen(known)
        BY <2>5, SameSeen
      <3>2. QED
        BY <1>1, <2>3, <2>4, <2>5, <3>1 DEF TrueProgress, TrueOf
    <2>6. CASE UNCHANGED known /\ import'.progress = progress
      <3>1. Seen(known') = Seen(known)
        BY <2>6, SameSeen
      <3>2. QED
        BY <1>1, <2>1, <2>3, <2>4, <2>6, <3>1 DEF TrueProgress, TrueOf
    <2>7. CASE /\ import'.progress = progress
               /\ known' = [known EXCEPT !.registered = @ \cup Pages, !.placed = TRUE,
                                        !.shown = @ \cup (canvas \cap Pages)]
      <3>1. known'.shown = known.shown \cup (canvas \cap Pages) /\ known'.placed = TRUE
        BY <1>1, <2>7 DEF Histories
      <3>2. canvas \subseteq Seen(known')
        BY <1>1, <3>1 DEF Seen
      <3>3. QED
        BY <1>1, <2>1, <2>3, <2>4, <2>7, <3>2 DEF TrueProgress, TrueOf
    <2>8. QED
      BY <1>1, <1>10, <2>2, <2>3, <2>5, <2>6, <2>7 DEF ImportReply, Imports, progress
  <1>11. CASE EndJob
    <2>1. /\ known'.shown = known.shown /\ known'.placed = known.placed
          /\ UNCHANGED <<import, canvas>>
      BY <1>1, <1>11 DEF EndJob, Histories
    <2>2. QED
      BY <1>1, <2>1, SameSeen, SeenKeeps
  <1>12. ASSUME \/ UNCHANGED vars \/ Reconnect \/ Mount \/ Paste \/ NextAttempt \/ PostEnds
                \/ TimerFires \/ (\E f \in Pages : RenderPage(f))
                \/ (\E which \in asking : Connect(which))
                \/ (\E s \in DOMAIN sock : Open(s) \/ Break(s) \/ NoticeClose(s))
         PROVE  TrueProgress'
    <2>1. UNCHANGED <<import, canvas, known>>
      BY <1>12 DEF vars, Reconnect, Mount, Paste, NextAttempt, PostEnds, TimerFires, RenderPage,
                   Connect, Open, Break, NoticeClose
    <2>2. QED
      BY <1>1, <2>1, SameSeen, SeenKeeps
  <1>13. QED
    BY <1>2, <1>3, <1>4, <1>5, <1>6, <1>7, <1>8, <1>9, <1>10, <1>11, <1>12 DEF Next

LEMMA DeadStep ==
  ASSUME Types, DeadAtTheEnd, [Next]_vars
  PROVE  DeadAtTheEnd'
  <1>1. job \in Jobs /\ known \in Histories /\ import \in Imports
    BY DEF Types, FileTypes
  <1>2. ASSUME known'.dead = known.dead, UNCHANGED job,
               import'.stage \in Asked => import.stage \in Asked
        PROVE  DeadAtTheEnd'
    BY <1>2 DEF DeadAtTheEnd, NoReadyPageRemoved
  <1>3. ASSUME NEW fs \in SUBSET Files, import' = Counted(fs, import)
        PROVE  import'.stage = import.stage
    BY <1>1, <1>3 DEF Counted, Imports
  <1>4. ASSUME NEW fs \in SUBSET Files, Hydrate(fs) PROVE import'.stage = import.stage
    BY <1>3, <1>4 DEF Hydrate
  <1>5. ASSUME NEW risk, Cleanup(risk) PROVE known'.dead = known.dead
    BY <1>1, <1>5 DEF Cleanup, Histories
  <1>6. CASE EndJob
    <2>1. job.status = "rendering" /\ UNCHANGED import /\ import.stage \notin Asked
      BY <1>6 DEF EndJob, DeadAtTheEnd
    <2>2. CASE job' = [job EXCEPT !.status = "done"] /\ UNCHANGED known
      BY <1>1, <2>1, <2>2 DEF Jobs, DeadAtTheEnd, NoReadyPageRemoved
    <2>3. CASE job' = [job EXCEPT !.status = "failed"] /\ known' = [known EXCEPT !.dead = NotDone]
      BY <1>1, <2>1, <2>3 DEF Jobs, Histories, NotDone, DeadAtTheEnd, NoReadyPageRemoved
    <2>4. QED
      BY <1>6, <2>2, <2>3 DEF EndJob
  <1>7. ASSUME NextAttempt \/ \E f \in Pages : RenderPage(f) PROVE DeadAtTheEnd'
    <2>1. job.status = "rendering" /\ UNCHANGED <<import, known>>
      BY <1>7 DEF NextAttempt, RenderPage
    <2>2. job'.status = "rendering"
      BY <1>1, <1>7 DEF NextAttempt, RenderPage, Jobs
    <2>3. QED
      BY <2>1, <2>2 DEF DeadAtTheEnd, NoReadyPageRemoved
  <1>8. CASE ImportStep
    <2>1. UNCHANGED known
      BY <1>8 DEF ImportStep
    <2>2. CASE UNCHANGED job
      <3>1. \/ import.stage = "none" /\ job.status = "none"
            \/ import.stage \in Asked
        BY <1>8, <2>2 DEF ImportStep, Asked
      <3>2. QED
        BY <2>1, <2>2, <3>1 DEF DeadAtTheEnd, NoReadyPageRemoved
    <2>3. CASE /\ import.stage = "dialog" /\ job' = [job EXCEPT !.status = "rendering"]
               /\ import' = [import EXCEPT !.stage = "starting", !.toast = "loading",
                                          !.here = TRUE]
      <3>1. job.status = "none" /\ job'.status = "rendering" /\ import'.stage = "starting"
        BY <1>1, <2>3 DEF DeadAtTheEnd, Asked, Jobs, Imports
      <3>2. QED
        BY <2>1, <3>1 DEF DeadAtTheEnd, NoReadyPageRemoved, Asked
    <2>4. QED
      BY <1>8, <2>2, <2>3 DEF ImportStep
  <1>9. CASE Unmount
    <2>1. UNCHANGED job /\ known'.dead = known.dead
      BY <1>5, <1>9 DEF Unmount
    <2>2. import'.stage \in Asked => import.stage \in Asked
      BY <1>1, <1>9 DEF Unmount, Imports, Asked
    <2>3. QED
      BY <1>2, <2>1, <2>2
  <1>10. CASE ImportReply
    <2>1. UNCHANGED job /\ known'.dead = known.dead
      <3>1. CASE known' = [known EXCEPT !.registered = @ \cup Pages, !.placed = TRUE,
                                       !.shown = @ \cup (canvas \cap Pages)]
        BY <1>1, <1>10, <3>1 DEF ImportReply, Histories
      <3>2. CASE UNCHANGED known
        BY <1>10, <3>2 DEF ImportReply
      <3>3. QED
        BY <1>10, <3>1, <3>2 DEF ImportReply
    <2>2. import'.stage \in {"replied", "refused"}
      BY <1>1, <1>10 DEF ImportReply, Imports
    <2>3. QED
      BY <1>2, <2>1, <2>2 DEF Asked
  <1>11. ASSUME NameArrives \/ UploadEnds \/ \E fs \in orphans : OrphanEnds(fs) PROVE DeadAtTheEnd'
    <2>1. UNCHANGED <<job, import>>
      BY <1>11 DEF NameArrives, UploadEnds, OrphanEnds
    <2>2. ASSUME NEW fs, OrphanEnds(fs) PROVE known'.dead = known.dead
      BY <1>1, <2>2 DEF OrphanEnds, Histories
    <2>3. ASSUME UploadEnds PROVE known'.dead = known.dead
      BY <1>1, <2>3 DEF UploadEnds, Histories
    <2>4. known'.dead = known.dead
      BY <1>5, <1>11, <2>2, <2>3 DEF NameArrives
    <2>5. QED
      BY <1>2, <2>1, <2>4
  <1>12. ASSUME NEW f \in fetching, FetchEnds(f) PROVE DeadAtTheEnd'
    <2>1. {f} \in SUBSET Files
      BY DEF Types, FileTypes
    <2>2. import'.stage = import.stage
      BY <1>3, <1>12, <2>1 DEF FetchEnds
    <2>3. UNCHANGED job /\ known'.dead = known.dead
      BY <1>1, <1>12 DEF FetchEnds, Histories
    <2>4. QED
      BY <1>2, <2>2, <2>3
  <1>13. CASE ApiReady
    <2>1. import'.stage = import.stage
      <3>1. seed # NoBody => seed.files \in SUBSET Files
        BY BodyTypes DEF Types, SaveTypes
      <3>2. QED
        BY <1>4, <1>13, <3>1 DEF ApiReady
    <2>2. QED
      BY <1>2, <1>13, <2>1 DEF ApiReady
  <1>14. ASSUME NEW s \in DOMAIN sock, Receive(s) PROVE DeadAtTheEnd'
    <2>1. PICK m \in Message : /\ m = Head(inbox[s])
                               /\ m.type # "file" => m.files \in SUBSET Files
                               /\ m.type = "file" => m.file \in Files
      BY <1>14, Received DEF Types
    <2>2. CASE m.type = "failed"
      <3>1. UNCHANGED import \/ import' = [import EXCEPT !.progress = NoProgress, !.toast = "error"]
        BY <1>14, <2>1, <2>2 DEF Receive, Failure
      <3>2. import'.stage = import.stage
        BY <1>1, <3>1 DEF Imports
      <3>3. QED
        BY <1>2, <1>14, <3>2 DEF Receive
    <2>3. CASE m.type # "failed"
      <3>1. UNCHANGED import \/ \E fs \in SUBSET Files : Hydrate(fs)
        BY <1>14, <2>1, <2>3 DEF Receive, Message
      <3>2. import'.stage = import.stage
        BY <1>4, <3>1
      <3>3. QED
        BY <1>2, <1>14, <3>2 DEF Receive
    <2>4. QED
      BY <2>2, <2>3
  <1>15. ASSUME \/ UNCHANGED vars \/ Reconnect \/ Mount \/ Paste \/ PostEnds \/ TimerFires
                \/ (\E which \in asking : Connect(which))
                \/ (\E s \in DOMAIN sock : Open(s) \/ Break(s) \/ NoticeClose(s))
         PROVE  DeadAtTheEnd'
    <2>1. UNCHANGED <<job, known, import>>
      BY <1>15 DEF vars, Reconnect, Mount, Paste, PostEnds, TimerFires, Connect, Open, Break,
                   NoticeClose
    <2>2. QED
      BY <1>2, <2>1
  <1>16. QED
    BY <1>6, <1>7, <1>8, <1>9, <1>10, <1>11, <1>12, <1>13, <1>14, <1>15 DEF Next
-----------------------------------------------------------------------------
(* The invariant *)

LEMMA FilesInit == Init => FilesInv
  <1> SUFFICES ASSUME Init PROVE FilesInv
    OBVIOUS
  <1>1. LinkTypes /\ OneLink
    <2>1. mounted = TRUE /\ retry = FALSE /\ mounted \in BOOLEAN /\ retry \in BOOLEAN
      BY DEF Init
    <2>2. CASE guest
      <3>1. sock = <<"connecting">> /\ inbox = <<<<>>>> /\ ws = 1 /\ asking = {}
        BY <2>2 DEF Init
      <3>2. <<"connecting">> \in Seq(Sockets) /\ <<<<>>>> \in Seq(Seq(Message))
        BY DEF Sockets
      <3>3. LinkTypes
        BY <2>1, <3>1, <3>2, Bounds DEF LinkTypes
      <3>4. DOMAIN sock = {1}
        BY <3>1
      <3>5. QED
        BY <2>1, <3>1, <3>3, <3>4 DEF OneLink
    <2>3. CASE ~guest
      <3>1. sock = <<>> /\ inbox = <<>> /\ ws = 0 /\ asking = {"here"}
        BY <2>3 DEF Init
      <3>2. LinkTypes
        BY <2>1, <3>1, Bounds DEF LinkTypes
      <3>3. QED
        BY <2>1, <3>1, <3>2 DEF OneLink
    <2>4. QED
      BY <2>2, <2>3
  <1>2. SaveTypes
    <2>1. /\ guest \in BOOLEAN /\ named \in BOOLEAN /\ api \in BOOLEAN /\ seeded \in BOOLEAN
          /\ timer \in BOOLEAN /\ failed \in BOOLEAN
      BY DEF Init
    <2>2. /\ {seed, saving, next} \subseteq Bodies /\ orphans \subseteq SUBSET Files
          /\ next = NoBody
      BY BodyTypes DEF Init
    <2>3. faults \in 0..MaxFaults
      BY Bounds DEF Init
    <2>4. QED
      BY <2>1, <2>2, <2>3 DEF SaveTypes
  <1>3. FileTypes
    <2>1. import \in Imports /\ known \in Histories
      BY DEF Init, Imports, Steps, Progress, Histories
    <2>2. job \in Jobs
      BY Bounds DEF Init, Jobs
    <2>3. QED
      BY <2>1, <2>2 DEF Init, FileTypes
  <1>4. AllCovered /\ TrueProgress /\ DeadAtTheEnd
    BY DEF Init, AllCovered, TrueProgress, TrueOf, DeadAtTheEnd, NoReadyPageRemoved
  <1>5. QED
    BY <1>1, <1>2, <1>3, <1>4 DEF FilesInv, Types

LEMMA FilesStep == FilesInv /\ [Next]_vars => FilesInv'
  <1> SUFFICES ASSUME FilesInv, [Next]_vars PROVE FilesInv'
    OBVIOUS
  <1>1. Types /\ OneLink /\ AllCovered /\ TrueProgress /\ DeadAtTheEnd
    BY DEF FilesInv
  <1>2. LinkTypes' /\ OneLink'
    BY <1>1, LinkStep
  <1>3. Types'
    BY <1>1, <1>2, SaveStep, FileStep DEF Types
  <1>4. AllCovered'
    BY <1>1, <1>3, CoverStep
  <1>5. TrueProgress' /\ DeadAtTheEnd'
    BY <1>1, ProgressStep, DeadStep
  <1>6. QED
    BY <1>2, <1>3, <1>4, <1>5 DEF FilesInv

\* Whatever the numbers of pages, sockets, failures and attempts: the invariant
\* of a board tab and its pictures.  No socket but that of wsRef is alive, every
\* file registered has a place to be saved from, the progress of the PDF counts
\* pages that were shown, and nothing is dead while the job runs.
THEOREM FilesInvariant == Spec => []FilesInv
  <1>1. QED
    BY FilesInit, FilesStep, PTL DEF Spec

\* A tab keeps one socket, and none when the board is hidden (connect, its await,
\* the reconnect and the cleanup of the effect in useExcalidrawSync).
THEOREM TabKeepsOneSocket == Spec => []OneSocket
  <1>1. FilesInv => OneSocket
    <2> SUFFICES ASSUME FilesInv PROVE OneSocket
      OBVIOUS
    <2> DEFINE alive == {s \in DOMAIN sock : sock[s] \in {"connecting", "open"}}
    <2>1. TypeOK
      BY TypesSuffice DEF FilesInv
    <2>2. alive \subseteq {ws}
      BY DEF FilesInv, OneLink, Live
    <2>3. IsFiniteSet({ws}) /\ Cardinality({ws}) = 1
      BY FS_Singleton
    <2>4. IsFiniteSet(alive) /\ Cardinality(alive) <= 1
      BY <2>2, <2>3, FS_Subset
    <2>5. ASSUME ~mounted PROVE alive = {}
      <3>1. ws = 0 /\ DOMAIN sock = 1..Len(sock)
        BY <2>5, LenProperties DEF FilesInv, Types, LinkTypes, OneLink
      <3>2. QED
        BY <2>2, <3>1
    <2>6. Cardinality(alive) <= IF mounted THEN 1 ELSE 0
      BY <2>4, <2>5, FS_EmptySet
    <2>7. QED
      BY <2>1, <2>6 DEF OneSocket
  <1>2. QED
    BY <1>1, FilesInvariant, PTL

\* Every file the tab has registered is stored, on its way, behind the banner, or
\* one that a teardown may have dropped (registerFile, persistFiles and
\* postSnapshot of useExcalidrawSync).
THEOREM EveryFileIsAccounted == Spec => []NoFileForgotten
  <1>1. FilesInv => NoFileForgotten
    <2> SUFFICES ASSUME FilesInv, NEW f \in known.registered
                 PROVE  Accounted(f) \/ f \in known.risked
      BY DEF NoFileForgotten
    <2>1. Covered(f)
      BY DEF FilesInv, AllCovered
    <2>2. LastBody # NoBody => LastBody.files \in InQueue
      BY DEF LastBody, InQueue
    <2>3. QED
      BY <2>1, <2>2 DEF Covered, Accounted
  <1>2. QED
    BY <1>1, FilesInvariant, PTL

\* A PDF whose placeholders reached the board is announced when all of its
\* pages have had their picture (onPdfFile and onPdfFailed of ExcalidrawCanvas,
\* the count of which outlives the canvas).
THEOREM ToastIsTrue == Spec => []ToastTellsTheTruth
  <1>1. FilesInv => ToastTellsTheTruth
    BY DEF FilesInv, TrueProgress, TrueOf, Seen, ToastTellsTheTruth
  <1>2. QED
    BY <1>1, FilesInvariant, PTL

\* The job declares no page dead that it has rendered, in whichever attempt
\* (Work and renderAll of the import job).
THEOREM ReadyPagesStay == Spec => []NoReadyPageRemoved
  <1>1. FilesInv => NoReadyPageRemoved
    BY DEF FilesInv, DeadAtTheEnd
  <1>2. QED
    BY <1>1, FilesInvariant, PTL

-----------------------------------------------------------------------------
(* BoardImport: what a snapshot holds, the sweep *)

\* What the import takes out of a snapshot.
LEMMA StoredType ==
  ASSUME blob \in Scene \cup {Unreadable}
  PROVE  /\ Stored \in Posted
         /\ blob # Unreadable =>
              /\ Stored.files = blob.files
              /\ \A id \in Ids : blob.els[id] \in Edits => Stored.els[id] = blob.els[id]
  <1>1. CASE blob = Unreadable
    BY <1>1, NothingType DEF Stored, NoScene, Posted
  <1>2. CASE blob # Unreadable
    <2>1. blob \in Scene
      BY <1>2
    <2>2. ParseBoardElements(blob.els) \in PageMap
      BY <2>1 DEF Scene, RawMap, ParseBoardElements, PageMap, Slot
    <2>3. Stored = [els |-> ParseBoardElements(blob.els), files |-> blob.files]
      BY <1>2, <2>1 DEF Stored, Scene
    <2>4. Stored \in Posted
      BY <2>1, <2>2, <2>3 DEF Scene, Posted
    <2>5. \A id \in Ids : blob.els[id] \in Edits => Stored.els[id] = blob.els[id]
      BY <2>3, SentinelsAssumption DEF ParseBoardElements
    <2>6. QED
      BY <2>3, <2>4, <2>5
  <1>3. QED
    BY <1>1, <1>2

LEMMA NoSceneType == NoScene \in Posted
  BY NothingType DEF NoScene, Posted

\* A scene that is posted is one that a snapshot may hold.
LEMMA PostedIsScene == Posted \subseteq Scene
  BY DEF Posted, Scene, PageMap, RawMap

\* What MergeElements leaves is a page map, and keeps what was covered.
LEMMA WriteKeeps ==
  ASSUME NEW table \in PageMap, NEW els \in PageMap
  PROVE  /\ MergeElements(table, els) \in PageMap
         /\ \A id \in Ids, e \in Edits :
              Covers(table[id], e) => Covers(MergeElements(table, els)[id], e)
  <1>1. MergeElements(table, els) = Merge(table, els)
    BY MergeElementsIsMerge
  <1>2. \A id \in Ids : table[id] \in Slot /\ els[id] \in Slot
    BY DEF PageMap
  <1>3. QED
    BY <1>1, <1>2, MergeType, LaterCovers

\* The sweep.
LEMMA SweepEffect ==
  ASSUME MoveTypeOK, DeleteOldTombstones
  PROVE  /\ rows' \in PageMap /\ swept' \in PageMap
         /\ \A id \in Ids :
              \/ rows'[id] = rows[id] /\ swept'[id] = swept[id]
              \/ rows'[id] = NoEdit /\ swept'[id] = Later(swept[id], rows[id])
  <1>1. PICK old \in SUBSET {id \in Present(rows) : rows[id].del} :
          /\ rows' = [id \in Ids |-> IF id \in old THEN NoEdit ELSE rows[id]]
          /\ swept' = [id \in Ids |-> IF id \in old THEN Later(swept[id], rows[id])
                                                     ELSE swept[id]]
    BY DEF DeleteOldTombstones
  <1>2. \A id \in Ids : /\ rows[id] \in Slot /\ swept[id] \in Slot
                        /\ Later(swept[id], rows[id]) \in Slot
    BY LaterType DEF MoveTypeOK, PageMap
  <1>3. NoEdit \in Slot
    BY DEF Slot
  <1>4. QED
    BY <1>1, <1>2, <1>3 DEF PageMap

-----------------------------------------------------------------------------
LEMMA TypeStep == MoveTypeOK /\ [MoveNext]_moveVars => MoveTypeOK'
  <1> SUFFICES ASSUME MoveTypeOK, [MoveNext]_moveVars PROVE MoveTypeOK'
    OBVIOUS
  <1>0. NoScene \in Posted /\ [els |-> rows, files |-> files] \in Posted
    BY NoSceneType DEF MoveTypeOK, Posted
  <1>1. ASSUME NEW c \in Clients, ReadState(c) PROVE MoveTypeOK'
    BY <1>0, <1>1 DEF MoveTypeOK, ReadState, Seeded, Opens, pageVars
  <1>2. ASSUME NEW c \in Clients, Import(c) PROVE MoveTypeOK'
    <2>1. rows' \in PageMap /\ files' \subseteq FileIds /\ migrated' \in BOOLEAN
      <3>1. Stored \in Posted
        BY StoredType DEF MoveTypeOK
      <3>2. Stored.els \in PageMap /\ Stored.files \subseteq FileIds
        BY <3>1 DEF Posted
      <3>3. QED
        BY <1>2, <3>2 DEF MoveTypeOK, Import, pageVars, PageMap
    <2>2. QED
      BY <1>2, <2>1 DEF MoveTypeOK, Import, Opens, pageVars
  <1>3. ASSUME NEW c \in Clients, ReadAgain(c) PROVE MoveTypeOK'
    BY <1>0, <1>3 DEF MoveTypeOK, ReadAgain, Seeded, Opens, pageVars
  <1>4. ASSUME NEW c \in Clients, OpenFails(c) PROVE MoveTypeOK'
    BY <1>4 DEF MoveTypeOK, OpenFails, Opens, pageVars
  <1>5. ASSUME NEW c \in Clients, Reopen(c) PROVE MoveTypeOK'
    BY <1>0, <1>5 DEF MoveTypeOK, Reopen, Opens, pageVars
  <1>6. ASSUME NEW c \in Clients, NEW scene \in MayPost(c), PostScene(c, scene)
        PROVE MoveTypeOK'
    <2>1. scene \in Posted
      BY DEF MayPost
    <2>2. QED
      BY <1>6, <2>1 DEF MoveTypeOK, PostScene, Posts, pageVars
  <1>7. ASSUME NEW c \in Clients, PostElements(c) PROVE MoveTypeOK'
    <2>1. body[c].els \in PageMap
      BY DEF MoveTypeOK, Posted
    <2>2. rows' \in PageMap
      BY <1>7, <2>1, WriteKeeps DEF MoveTypeOK, PostElements
    <2>3. QED
      BY <1>7, <2>2 DEF MoveTypeOK, PostElements, Posts
  <1>8. ASSUME NEW c \in Clients, PostFiles(c) PROVE MoveTypeOK'
    <2>1. body[c].files \subseteq FileIds
      BY DEF MoveTypeOK, Posted
    <2>2. QED
      BY <1>8, <2>1 DEF MoveTypeOK, PostFiles, Posts
  <1>9. ASSUME NEW c \in Clients, PostBackup(c) PROVE MoveTypeOK'
    BY <1>0, <1>9, PostedIsScene DEF MoveTypeOK, PostBackup, Posts
  <1>10. ASSUME NEW c \in Clients, PostFails(c) PROVE MoveTypeOK'
    BY <1>0, <1>10 DEF MoveTypeOK, PostFails, Posts, pageVars
  <1>11. ASSUME NEW c \in Clients, NEW els \in PageMap, FlushPage(c, els)
         PROVE MoveTypeOK'
    BY <1>11, WriteKeeps DEF MoveTypeOK, FlushPage
  <1>12. CASE DeleteOldTombstones
    BY <1>12, SweepEffect DEF MoveTypeOK, DeleteOldTombstones
  <1>13. CASE UNCHANGED moveVars
    BY <1>13 DEF MoveTypeOK, moveVars, pageVars
  <1>14. QED
    BY <1>1, <1>2, <1>3, <1>4, <1>5, <1>6, <1>7, <1>8, <1>9, <1>10, <1>11,
       <1>12, <1>13 DEF MoveNext

\* The type invariant: every statement of the handlers keeps the columns of
\* the page and the locals of the requests in their types.
THEOREM MoveTypesCorrect == MoveSpec => []MoveTypeOK
  <1>1. MoveInit => MoveTypeOK
    BY NothingType, NoSceneType DEF MoveInit, MoveTypeOK
  <1>2. QED
    BY <1>1, TypeStep, PTL DEF MoveSpec

-----------------------------------------------------------------------------
\* An element is held: in the table, or it was swept.
Held(id, e) == Covers(rows[id], e) \/ Covers(swept[id], e)

\* No step loses what is held, a file, or the mark that the page has moved.
LEMMA NothingShrinks ==
  ASSUME MoveTypeOK, [MoveNext]_moveVars
  PROVE  /\ legacy' = legacy /\ files \subseteq files' /\ (migrated => migrated')
         /\ (erased => erased')
         /\ \A id \in Ids, e \in Edits :
              /\ Held(id, e) => Held(id, e)'
              /\ Covers(swept[id], e) => Covers(swept'[id], e)
  <1> DEFINE Keeps == \A id \in Ids, e \in Edits :
                        /\ Held(id, e) => Held(id, e)'
                        /\ Covers(swept[id], e) => Covers(swept'[id], e)
  <1> USE DEF Held
  <1>1. ASSUME UNCHANGED <<rows, swept>> PROVE Keeps
    BY <1>1
  <1>2. ASSUME NEW els \in PageMap, rows' = MergeElements(rows, els), UNCHANGED swept
        PROVE Keeps
    BY <1>2, WriteKeeps DEF MoveTypeOK
  <1>3. ASSUME NEW c \in Clients, Import(c) PROVE Keeps
    <2>1. CASE migrated
      BY <1>1, <1>3, <2>1 DEF Import, pageVars
    <2>2. CASE ~migrated
      <3>1. \A id \in Ids : rows[id] # NoEdit => rows'[id] = rows[id]
        BY <1>3, <2>2 DEF Import
      <3>2. QED
        BY <1>3, <3>1 DEF Import, Covers
    <2>3. QED
      BY <2>1, <2>2 DEF MoveTypeOK
  <1>4. ASSUME DeleteOldTombstones PROVE Keeps
    <2>1. \A id \in Ids : rows[id] \in Slot /\ swept[id] \in Slot
      BY DEF MoveTypeOK, PageMap
    <2>2. \A id \in Ids :
            \/ rows'[id] = rows[id] /\ swept'[id] = swept[id]
            \/ rows'[id] = NoEdit /\ swept'[id] = Later(swept[id], rows[id])
      BY <1>4, SweepEffect
    <2>3. QED
      BY <2>1, <2>2, LaterCovers
  <1>5. ASSUME NEW c \in Clients, PostElements(c) PROVE Keeps
    <2>1. body[c].els \in PageMap
      BY DEF MoveTypeOK, Posted
    <2>2. QED
      BY <1>2, <1>5, <2>1 DEF PostElements
  <1>6. ASSUME NEW c \in Clients, NEW els \in PageMap, FlushPage(c, els) PROVE Keeps
    BY <1>2, <1>6 DEF FlushPage
  <1>7. ASSUME NEW c \in Clients,
               \/ ReadState(c) \/ ReadAgain(c) \/ OpenFails(c) \/ Reopen(c)
               \/ PostFiles(c) \/ PostBackup(c) \/ PostFails(c)
               \/ \E scene \in MayPost(c) : PostScene(c, scene)
        PROVE Keeps
    BY <1>1, <1>7 DEF ReadState, ReadAgain, OpenFails, Reopen, PostFiles,
                      PostBackup, PostFails, PostScene, pageVars
  <1>8. Keeps
    BY <1>1, <1>3, <1>4, <1>5, <1>6, <1>7 DEF MoveNext, moveVars, pageVars
  <1>9. legacy' = legacy /\ files \subseteq files' /\ (migrated => migrated')
    BY DEF MoveNext, moveVars, pageVars, ReadState, Import, ReadAgain, OpenFails, Reopen,
           PostScene, PostElements, PostFiles, PostBackup, PostFails, FlushPage,
           DeleteOldTombstones
  <1>10. erased => erased'
    BY DEF MoveNext, moveVars, ReadState, Import, ReadAgain, OpenFails, Reopen,
           PostScene, PostElements, PostFiles, PostBackup, PostFails, FlushPage,
           DeleteOldTombstones
  <1>11. QED
    BY <1>8, <1>9, <1>10

\* The import itself: whatever the snapshot held is in the table afterwards.
LEMMA ImportHoldsLegacy ==
  ASSUME MoveTypeOK, NotMovedYet, ~migrated, ~erased, NEW c \in Clients, Import(c)
  PROVE  HoldsLegacy(rows, files)'
  <1> SUFFICES ASSUME legacy # Unreadable
               PROVE  /\ legacy.files \subseteq files'
                      /\ \A id \in Ids :
                           legacy.els[id] \in Edits => Covers(rows'[id], legacy.els[id])
    BY DEF HoldsLegacy, Import
  <1>1. blob = legacy
    BY DEF NotMovedYet
  <1>2. /\ Stored.files = legacy.files
        /\ \A id \in Ids : legacy.els[id] \in Edits => Stored.els[id] = legacy.els[id]
    BY <1>1, StoredType DEF MoveTypeOK
  <1>3. legacy.files \subseteq files'
    BY <1>2 DEF Import
  <1>4. ASSUME NEW id \in Ids, legacy.els[id] \in Edits
        PROVE  Covers(rows'[id], legacy.els[id])
    <2>1. rows'[id] = legacy.els[id]
      BY <1>2, <1>4 DEF Import, NotMovedYet
    <2>2. QED
      BY <1>4, <2>1, SentinelsAssumption DEF Covers
  <1>5. QED
    BY <1>3, <1>4

\* What holds the old board goes on holding it.
LEMMA HoldsLegacyStays ==
  ASSUME MoveTypeOK, [MoveNext]_moveVars, HoldsLegacy(rows, files)
  PROVE  HoldsLegacy(rows, files)'
  BY NothingShrinks DEF HoldsLegacy, Held

LEMMA LegacyKeptStep ==
  ASSUME ImportInv, [MoveNext]_moveVars
  PROVE  LegacyKept'
  <1> SUFFICES ASSUME migrated' PROVE erased' \/ HoldsLegacy(rows, files)'
    BY DEF LegacyKept
  <1> USE DEF ImportInv
  <1>1. CASE migrated
    BY <1>1, HoldsLegacyStays, NothingShrinks DEF LegacyKept
  <1>2. CASE ~migrated
    <2>1. PICK c \in Clients : Import(c)
      BY <1>2 DEF MoveNext, moveVars, pageVars, ReadState, ReadAgain, OpenFails, Reopen,
             PostScene, PostElements, PostFiles, PostBackup, PostFails, FlushPage,
             DeleteOldTombstones
    <2>2. QED
      BY <1>2, <2>1, ImportHoldsLegacy, NothingShrinks
  <1>3. QED
    BY <1>1, <1>2 DEF MoveTypeOK

\* A seed is handed out in two places, both after the move; it keeps covering
\* the old board because what was swept stays swept.
LEMMA SeedStep ==
  ASSUME ImportInv, [MoveNext]_moveVars
  PROVE  SeedHoldsLegacy'
  <1> SUFFICES ASSUME NEW c \in Clients, opening'[c] = "seeded"
               PROVE  migrated' /\ (erased' \/ HoldsLegacy(seeds[c].els, seeds[c].files)')
    BY DEF SeedHoldsLegacy
  <1> USE DEF ImportInv
  <1>1. CASE opening[c] = "seeded" /\ seeds'[c] = seeds[c]
    BY <1>1, NothingShrinks DEF SeedHoldsLegacy, HoldsLegacy
  <1>2. CASE migrated /\ seeds'[c] = [els |-> rows, files |-> files]
             /\ UNCHANGED <<pageVars, legacy, swept, erased>>
    BY <1>2 DEF LegacyKept, HoldsLegacy, pageVars
  <1>3. ASSUME NEW d \in Clients, ReadState(d)
        PROVE  \/ opening[c] = "seeded" /\ seeds'[c] = seeds[c]
               \/ migrated /\ seeds'[c] = [els |-> rows, files |-> files]
                  /\ UNCHANGED <<pageVars, legacy, swept, erased>>
    BY <1>3 DEF MoveTypeOK, ReadState, Seeded, Opens
  <1>4. ASSUME NEW d \in Clients, ReadAgain(d)
        PROVE  \/ opening[c] = "seeded" /\ seeds'[c] = seeds[c]
               \/ migrated /\ seeds'[c] = [els |-> rows, files |-> files]
                  /\ UNCHANGED <<pageVars, legacy, swept, erased>>
    BY <1>4 DEF MoveTypeOK, NotMovedYet, ReadAgain, Seeded, Opens
  <1>5. ASSUME NEW d \in Clients, Import(d) \/ OpenFails(d) \/ Reopen(d)
        PROVE  opening[c] = "seeded" /\ seeds'[c] = seeds[c]
    BY <1>5 DEF MoveTypeOK, Import, OpenFails, Reopen, Opens
  <1>6. ASSUME UNCHANGED <<opening, seeds>>
        PROVE  opening[c] = "seeded" /\ seeds'[c] = seeds[c]
    BY <1>6
  <1>7. QED
    BY <1>1, <1>2, <1>3, <1>4, <1>5, <1>6
       DEF MoveNext, moveVars, PostScene, PostElements, PostFiles, PostBackup, PostFails,
           FlushPage, DeleteOldTombstones

\* A post with an empty list of elements leaves the table as it is.
LEMMA NothingMerged ==
  ASSUME NEW table \in PageMap
  PROVE  MergeElements(table, Nothing) = table
  BY DEF MergeElements, Nothing, Upsert, PageMap

\* Before the move nobody draws or posts what the old board has; a post that
\* comes so early may leave the snapshot without elements, and is remembered.
LEMMA NotMovedYetStep ==
  ASSUME MoveTypeOK, NotMovedYet, [MoveNext]_moveVars
  PROVE  NotMovedYet'
  <1> SUFFICES ASSUME ~migrated' PROVE NotMovedYet'
    BY DEF NotMovedYet
  <1>1. ~migrated /\ legacy' = legacy
    BY NothingShrinks
  <1>2. /\ blob = legacy \/ (erased /\ Stored.els = Nothing)
        /\ \A c \in Clients : /\ opening[c] \notin {"rereading", "seeded"}
                              /\ posting[c] # "no" => body[c].els = Nothing
        /\ legacy # Unreadable =>
             \A id \in Ids : legacy.els[id] \in Edits => rows[id] = NoEdit /\ swept[id] = NoEdit
    BY <1>1 DEF NotMovedYet
  <1>3. ASSUME UNCHANGED <<blob, rows, swept, erased>>,
               \A c \in Clients : /\ opening'[c] \notin {"rereading", "seeded"}
                                  /\ posting'[c] # "no" => body'[c].els = Nothing
        PROVE  NotMovedYet'
    <2>1. Stored' = Stored
      BY <1>3 DEF Stored
    <2>2. blob' = legacy' \/ (erased' /\ Stored'.els = Nothing)
      BY <1>1, <1>2, <1>3, <2>1
    <2>3. legacy' # Unreadable =>
            \A id \in Ids : legacy'.els[id] \in Edits => rows'[id] = NoEdit /\ swept'[id] = NoEdit
      BY <1>1, <1>2, <1>3
    <2>4. QED
      BY <1>3, <2>2, <2>3 DEF NotMovedYet
  <1>4. ASSUME NEW c \in Clients, ReadState(c) \/ OpenFails(c) \/ Reopen(c)
        PROVE  NotMovedYet'
    <2>1. /\ UNCHANGED <<blob, rows, swept, erased>> /\ UNCHANGED <<posting, body>>
          /\ \E to \in {"off", "importing", "unseeded"} : opening' = [opening EXCEPT ![c] = to]
      BY <1>1, <1>4 DEF ReadState, OpenFails, Reopen, Opens, pageVars
    <2>2. \A d \in Clients : opening'[d] \notin {"rereading", "seeded"}
      BY <1>2, <2>1 DEF MoveTypeOK
    <2>3. QED
      BY <1>2, <1>3, <2>1, <2>2
  <1>5. ASSUME NEW c \in Clients, Import(c) \/ ReadAgain(c) PROVE FALSE
    BY <1>1, <1>2, <1>5 DEF Import, ReadAgain
  <1>6. ASSUME NEW c \in Clients, NEW scene \in MayPost(c), PostScene(c, scene)
        PROVE  NotMovedYet'
    <2>1. scene.els = Nothing
      BY <1>2 DEF MayPost
    <2>2. QED
      BY <1>2, <1>3, <1>6, <2>1 DEF MoveTypeOK, PostScene, Posts, pageVars
  <1>7. ASSUME NEW c \in Clients, PostElements(c) PROVE NotMovedYet'
    <2>1. rows' = rows
      BY <1>2, <1>7, NothingMerged DEF PostElements, MoveTypeOK
    <2>2. QED
      BY <1>2, <1>3, <1>7, <2>1 DEF MoveTypeOK, PostElements, Posts
  <1>8. ASSUME NEW c \in Clients, PostFiles(c) \/ PostFails(c) PROVE NotMovedYet'
    BY <1>2, <1>3, <1>8 DEF MoveTypeOK, PostFiles, PostFails, Posts, pageVars
  <1>9. ASSUME NEW c \in Clients, PostBackup(c) PROVE NotMovedYet'
    <2>1. body[c] \in Posted /\ body[c].els = Nothing /\ blob' = body[c] /\ erased' = TRUE
      BY <1>1, <1>2, <1>9 DEF PostBackup, MoveTypeOK
    <2>2. Stored'.els = Nothing
      <3>1. ParseBoardElements(Nothing) = Nothing
        BY SentinelsAssumption DEF ParseBoardElements, Nothing
      <3>2. CASE blob' = Unreadable
        BY <3>2 DEF Stored, NoScene
      <3>3. CASE blob' # Unreadable
        <4>1. Stored' = [body[c] EXCEPT !.els = ParseBoardElements(Nothing)]
          BY <2>1, <3>3 DEF Stored
        <4>2. QED
          BY <2>1, <3>1, <4>1 DEF Posted
      <3>4. QED
        BY <3>2, <3>3
    <2>3. /\ UNCHANGED <<rows, swept, opening>>
          /\ \A d \in Clients : posting'[d] # "no" => posting[d] # "no" /\ body'[d] = body[d]
      BY <1>9 DEF PostBackup, Posts, MoveTypeOK
    <2>4. QED
      BY <1>1, <1>2, <2>1, <2>2, <2>3 DEF NotMovedYet
  <1>10. ASSUME NEW c \in Clients, NEW els \in PageMap, FlushPage(c, els)
         PROVE  NotMovedYet'
    <2>1. ASSUME legacy # Unreadable, NEW id \in Ids, legacy.els[id] \in Edits
          PROVE  rows'[id] = NoEdit
      <3>1. id \notin MayDraw(c)
        BY <1>2, <2>1, SentinelsAssumption DEF MayDraw
      <3>2. els[id] = NoEdit
        BY <1>10, <3>1 DEF FlushPage, Present
      <3>3. QED
        BY <1>2, <1>10, <2>1, <3>2 DEF FlushPage, MergeElements, Upsert
    <2>2. UNCHANGED <<blob, opening, posting, body, swept, erased>> /\ Stored' = Stored
      BY <1>10 DEF FlushPage, Stored
    <2>3. QED
      BY <1>1, <1>2, <2>1, <2>2 DEF NotMovedYet
  <1>11. CASE DeleteOldTombstones
    <2>1. \A id \in Ids : rows[id] = NoEdit => rows'[id] = NoEdit /\ swept'[id] = swept[id]
      BY <1>11 DEF DeleteOldTombstones, Present
    <2>2. UNCHANGED <<blob, opening, posting, body, erased>> /\ Stored' = Stored
      BY <1>11 DEF DeleteOldTombstones, Stored
    <2>3. QED
      BY <1>1, <1>2, <2>1, <2>2 DEF NotMovedYet
  <1>12. CASE UNCHANGED moveVars
    BY <1>2, <1>3, <1>12 DEF moveVars, pageVars
  <1>13. QED
    BY <1>4, <1>5, <1>6, <1>7, <1>8, <1>9, <1>10, <1>11, <1>12 DEF MoveNext

-----------------------------------------------------------------------------
\* The invariant behind the move, for a front end that may post the files of a
\* page, and no elements, before it is seeded.
THEOREM MoveInvariance == MoveSpec => []ImportInv
  <1>1. MoveInit => ImportInv
    BY NothingType, NoSceneType
       DEF MoveInit, ImportInv, MoveTypeOK, NotMovedYet, LegacyKept, SeedHoldsLegacy, Nothing
  <1>2. ImportInv /\ [MoveNext]_moveVars => ImportInv'
    BY TypeStep, NotMovedYetStep, LegacyKeptStep, SeedStep DEF ImportInv
  <1>3. QED
    BY <1>1, <1>2, PTL DEF MoveSpec

\* The lazy import loses nothing of the old board, however opening, posting,
\* drawing, sweeping and failing requests interleave with it, unless a post has
\* put its body in the place of the old snapshot before the page moved.
THEOREM MoveLosesNothing == MoveSpec => []LegacyKept
  <1>1. ImportInv => LegacyKept
    BY DEF ImportInv
  <1>2. QED
    BY <1>1, MoveInvariance, PTL

\* Whoever is seeded is seeded with the whole of it, with the same exception.
THEOREM SeedsAreWhole == MoveSpec => []SeedHoldsLegacy
  <1>1. ImportInv => SeedHoldsLegacy
    BY DEF ImportInv
  <1>2. QED
    BY <1>1, MoveInvariance, PTL

\* ImportSnapshotToElements brings back nothing that was deleted and swept, in
\* particular not for a request that read "not migrated" long ago.
THEOREM SweptStaysAway == MoveSpec => NoResurrection
  <1>1. ImportInv /\ [MoveNext]_moveVars =>
          [\A id \in Ids : (swept[id] # NoEdit /\ rows[id] = NoEdit /\ rows'[id] # NoEdit)
                           => UNCHANGED opening]_moveVars
    <2> SUFFICES ASSUME MoveTypeOK, NotMovedYet, MoveNext, NEW id \in Ids,
                        swept[id] # NoEdit, rows[id] = NoEdit, rows'[id] # NoEdit
                 PROVE  UNCHANGED opening
      BY DEF ImportInv
    <2>1. ASSUME NEW c \in Clients, Import(c) PROVE FALSE
      <3>1. ~migrated /\ rows'[id] = Stored.els[id]
        BY <2>1 DEF Import, pageVars
      <3>2. Stored.els # Nothing
        BY <3>1 DEF Nothing
      <3>3. blob = legacy /\ blob # Unreadable
        BY <3>1, <3>2 DEF NotMovedYet, Stored, NoScene
      <3>4. blob \in Scene
        BY <3>3 DEF MoveTypeOK
      <3>5. Stored.els = ParseBoardElements(blob.els)
        BY <3>3, <3>4 DEF Stored, Scene
      <3>6. blob.els[id] \in Edits
        BY <3>1, <3>4, <3>5 DEF Scene, RawMap, Slot, ParseBoardElements
      <3>7. QED
        BY <3>1, <3>3, <3>6 DEF NotMovedYet
    <2>2. ASSUME NEW c \in Clients, ReadState(c) \/ ReadAgain(c) \/ OpenFails(c) \/ Reopen(c)
          PROVE  FALSE
      BY <2>2 DEF ReadState, ReadAgain, OpenFails, Reopen, pageVars
    <2>3. QED
      BY <2>1, <2>2 DEF MoveNext, PostScene, PostElements, PostFiles, PostBackup, PostFails, FlushPage,
                        DeleteOldTombstones
  <1>2. QED
    BY <1>1, MoveInvariance, PTL DEF MoveSpec, NoResurrection
=============================================================================
