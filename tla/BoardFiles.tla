----------------------------- MODULE BoardFiles -----------------------------
(***************************************************************************)
(* The pictures of a board tab: useExcalidrawSync.ts as it keeps its       *)
(* socket, its right to save and its map of files, ExcalidrawCanvas.tsx as *)
(* it uploads a picture and imports a PDF, and the job of the worker that  *)
(* renders the pages.                                                      *)
(*                                                                         *)
(* An element on the board names a file; where the file lies is in the     *)
(* files map, which the server learns only from the tab's saves (a POST,   *)
(* debounced, never two at a time).  The tab may be torn down and built    *)
(* anew at any moment: the call hides the board, or the name of the user   *)
(* arrives and re-runs the effect that owns the socket.                    *)
(***************************************************************************)
EXTENDS Naturals, Sequences, FiniteSets, FiniteSetsExt

CONSTANTS NumPages,     \* pages of the PDF
          MaxSockets,   \* bound: sockets the tab opens
          MaxFaults,    \* bound: drops, failed requests and lost notices
          MaxAttempts   \* attempts the queue gives a job

ASSUME FilesAssumption ==
  /\ NumPages \in Nat \ {0} /\ MaxSockets \in Nat \ {0} /\ MaxFaults \in Nat /\ MaxAttempts \in Nat \ {0}

\* The pages, and a picture pasted by the user.
Pages == 1..NumPages
Photo == 0
Files == Pages \cup {Photo}

VARIABLES
  guest,    \* a student with an invite: no PDF, and his name arrives late
  named,    \* the identity has arrived
  mounted,  \* the canvas is on the screen: closedRef is FALSE
  asking,   \* connect of this canvas, or of one that is gone, waits for getTokenAsync
  sock,     \* the state of every socket opened so far
  inbox,    \* what the server sent on it and the tab has not read
  ws,       \* wsRef: the number of a socket, or 0
  retry,    \* retryRef is set
  api,      \* apiRef is set
  seed,     \* pendingSeedRef: a set of files, or NoBody
  seeded,   \* seededRef
  map,      \* filesRef
  timer,    \* filesTimerRef is set
  saving,   \* the body of the POST under way, or NoBody: savingRef
  next,     \* pendingBodyRef
  orphans,  \* the POSTs of canvases that are gone
  failed,   \* saveFailed
  uploads,  \* uploads under way
  fetching, \* files hydrateFiles fetches
  canvas,   \* the files Excalidraw has the picture of
  stored,   \* the files map of the page on the server
  import,   \* the PDF import: dialog, reply, progress and toast, and whether the
            \* canvas that asked for it is still there
  job,      \* the job of the worker
  faults,   \* faults so far
  known     \* history: what happened to the files

linkVars == <<mounted, asking, sock, inbox, ws, retry>>
saveVars == <<saving, next, orphans, failed>>
seedVars == <<api, seed, seeded>>
vars == <<guest, named, linkVars, seedVars, map, timer, saveVars, uploads, fetching,
          canvas, stored, import, job, faults, known>>

NoBody == [none |-> TRUE]
Body(fs) == [none |-> FALSE, files |-> fs]
Bodies == {NoBody} \cup {Body(fs) : fs \in SUBSET Files}
Message == [type : {"snapshot", "failed"}, files : SUBSET Files] \cup [type : {"file"}, file : Files]
NoProgress == [none |-> TRUE]

TypeOK ==
  /\ {guest, named, mounted, retry, api, seeded, timer, failed} \subseteq BOOLEAN
  /\ asking \subseteq {"here", "gone"}
  /\ sock \in Seq({"connecting", "open", "broken", "closed"}) /\ Len(sock) <= MaxSockets
  /\ inbox \in Seq(Seq(Message)) /\ Len(inbox) = Len(sock)
  /\ ws \in 0..Len(sock)
  /\ {seed, saving, next} \subseteq Bodies /\ orphans \subseteq SUBSET Files
  /\ (saving = NoBody => next = NoBody)
  /\ {map, canvas, stored, fetching} \subseteq SUBSET Files
  /\ uploads \subseteq {Photo}
  /\ import \in [stage : {"none", "preflight", "dialog", "starting", "replied", "refused"},
                 progress : {NoProgress} \cup [none : {FALSE}, pending : SUBSET Pages],
                 toast : {"none", "loading", "done", "error"}, here : BOOLEAN]
  /\ job \in [status : {"none", "rendering", "done", "failed"}, done : SUBSET Pages,
              mine : SUBSET Pages, attempt : 1..MaxAttempts]
  /\ known \in [registered : SUBSET Files, risked : SUBSET Files, dead : SUBSET Pages,
                shown : SUBSET Files, placed : BOOLEAN]
  /\ faults \in 0..MaxFaults

Fault == faults < MaxFaults /\ faults' = faults + 1

Init ==
  /\ guest \in BOOLEAN /\ named = ~guest
  /\ mounted = TRUE /\ retry = FALSE
  /\ IF guest
     THEN asking = {} /\ sock = <<"connecting">> /\ inbox = <<<<>>>> /\ ws = 1
     ELSE asking = {"here"} /\ sock = <<>> /\ inbox = <<>> /\ ws = 0
  /\ api = FALSE /\ seed = NoBody /\ seeded = FALSE
  /\ map = {} /\ timer = FALSE
  /\ saving = NoBody /\ next = NoBody /\ orphans = {} /\ failed = FALSE
  /\ uploads = {} /\ fetching = {} /\ canvas = {} /\ stored = {}
  /\ import = [stage |-> "none", progress |-> NoProgress, toast |-> "none", here |-> FALSE]
  /\ job = [status |-> "none", done |-> {}, mine |-> {}, attempt |-> 1]
  /\ faults = 0
  /\ known = [registered |-> {}, risked |-> {}, dead |-> {}, shown |-> {}, placed |-> FALSE]

-----------------------------------------------------------------------------
(* The socket *)

\* wsRef.current?.close(): what was not read is not read any more.
CloseCurrent == IF ws = 0 THEN sock ELSE [sock EXCEPT ![ws] = "closed"]
Unread == IF ws = 0 THEN inbox ELSE [inbox EXCEPT ![ws] = <<>>]

\* Mutant: closedRef is not looked at after the await.
ConnectAnyway(which) == which \in asking

\* The guard of connect after its await: its canvas is still there.
StillWanted(which) == which = "here"

NewSocket ==
  /\ Len(sock) < MaxSockets
  /\ sock' = Append(CloseCurrent, "connecting")
  /\ inbox' = Append(Unread, <<>>)
  /\ ws' = Len(sock) + 1

\* connect: a guest has the token of his invite at hand, a tutor waits for
\* getTokenAsync.
CallConnect ==
  IF guest THEN NewSocket /\ UNCHANGED asking
  ELSE /\ asking' = asking \cup {"here"}
       /\ sock' = CloseCurrent /\ inbox' = Unread /\ UNCHANGED ws

\* getTokenAsync has answered.
Connect(which) ==
  /\ asking' = asking \ {which}
  /\ IF StillWanted(which) THEN NewSocket ELSE UNCHANGED <<sock, inbox, ws>>
  /\ UNCHANGED <<guest, named, mounted, retry, seedVars, map, timer, saveVars, uploads, fetching,
                 canvas, stored, import, job, faults, known>>

\* The server seeds the socket with what it has stored.
Open(s) ==
  /\ sock[s] = "connecting"
  /\ sock' = [sock EXCEPT ![s] = "open"]
  /\ inbox' = [inbox EXCEPT ![s] = <<[type |-> "snapshot", files |-> stored]>>]
  /\ UNCHANGED <<guest, named, mounted, asking, ws, retry, seedVars, map, timer, saveVars,
                 uploads, fetching, canvas, stored, import, job, faults, known>>

Break(s) ==
  /\ Fault
  /\ sock[s] \in {"connecting", "open"}
  /\ sock' = [sock EXCEPT ![s] = "broken"]
  /\ UNCHANGED <<guest, named, mounted, asking, inbox, ws, retry, seedVars, map, timer, saveVars,
                 uploads, fetching, canvas, stored, import, job, known>>

\* onclose: the socket of the moment is replaced in 2 s, any other ignored.
NoticeClose(s) ==
  /\ sock[s] = "broken"
  /\ sock' = [sock EXCEPT ![s] = "closed"]
  /\ inbox' = [inbox EXCEPT ![s] = <<>>]
  /\ retry' = (retry \/ (mounted /\ ws = s))
  /\ UNCHANGED <<guest, named, mounted, asking, ws, seedVars, map, timer, saveVars,
                 uploads, fetching, canvas, stored, import, job, faults, known>>

Reconnect ==
  /\ retry
  /\ retry' = FALSE /\ CallConnect
  /\ UNCHANGED <<guest, named, mounted, seedVars, map, timer, saveVars,
                 uploads, fetching, canvas, stored, import, job, faults, known>>

-----------------------------------------------------------------------------
(* Saving the map *)

\* Mutant: the body that comes during a POST is thrown away.
KeepsNothing(body) == next

\* pendingBodyRef: the last body that came during the POST.
Waits(body) == body

\* postSnapshot; its loop takes what waits when the POST ends.
Post(body) ==
  IF saving = NoBody
  THEN saving' = body /\ UNCHANGED next
  ELSE next' = Waits(body) /\ UNCHANGED saving

PostEnds ==
  /\ saving # NoBody
  /\ \/ /\ stored' = stored \cup saving.files
        /\ failed' = FALSE /\ saving' = next /\ UNCHANGED faults
     \/ /\ Fault
        /\ failed' = TRUE /\ saving' = next /\ UNCHANGED stored
  /\ next' = NoBody
  /\ UNCHANGED <<guest, named, linkVars, seedVars, map, timer, orphans, uploads, fetching,
                 canvas, import, job, known>>

\* The same for a canvas that is gone: nobody is told of a failure.
OrphanEnds(fs) ==
  /\ orphans' = orphans \ {fs}
  /\ \/ stored' = stored \cup fs /\ UNCHANGED <<faults, known>>
     \/ /\ Fault
        /\ known' = [known EXCEPT !.risked = @ \cup fs] /\ UNCHANGED stored
  /\ UNCHANGED <<guest, named, linkVars, seedVars, map, timer, saving, next, failed, uploads,
                 fetching, canvas, import, job>>

\* FILES_DEBOUNCE_MS after the last registerFile: persistFiles.
TimerFires ==
  /\ timer
  /\ timer' = FALSE
  /\ Post(Body(map))
  /\ UNCHANGED <<guest, named, linkVars, seedVars, map, orphans, failed, uploads, fetching,
                 canvas, stored, import, job, faults, known>>

-----------------------------------------------------------------------------
(* Teardown *)

\* The files of this tab that only the debounce would have saved.
Unsaved == {f \in map \cap known.registered : f \notin stored}

\* Bodies the queue still holds, as sets of files.
InQueue == {b.files : b \in {saving, next} \ {NoBody}}

\* The final snapshot of the cleanup, with the map in it: only with the right
\* to save.
LastWord == IF seeded THEN {map} ELSE {}

\* The cleanup of the effect closes the socket and stops the timers.
Cleanup(risk) ==
  /\ retry' = FALSE /\ timer' = FALSE
  /\ known' = [known EXCEPT !.risked = @ \cup risk]

\* The call hides the board.  The queue of this canvas runs on.
Unmount ==
  /\ mounted
  /\ mounted' = FALSE
  /\ Cleanup(Unsaved \ UNION (InQueue \cup LastWord))
  /\ sock' = CloseCurrent /\ inbox' = Unread /\ ws' = 0
  /\ asking' = IF "here" \in asking THEN {"gone"} ELSE asking
  /\ orphans' = orphans \cup InQueue \cup LastWord
  /\ saving' = NoBody /\ next' = NoBody /\ failed' = FALSE
  /\ api' = FALSE /\ seed' = NoBody /\ seeded' = FALSE
  /\ map' = {} /\ canvas' = {} /\ fetching' = {}
  /\ uploads' = {}
  /\ import' = [import EXCEPT !.stage = IF @ \in {"preflight", "dialog"} THEN "none" ELSE @,
                              !.here = FALSE]
  /\ UNCHANGED <<guest, named, stored, job, faults>>

Mount ==
  /\ ~mounted
  /\ mounted' = TRUE /\ CallConnect
  /\ UNCHANGED <<guest, named, retry, seedVars, map, timer, saveVars, uploads,
                 fetching, canvas, stored, import, job, faults, known>>

\* The name of the student arrives: pushCollaborators, connect and tick are
\* new functions, so the effect is cleaned up and run again, with empty maps
\* and no right to save; Excalidraw and the queue of saves stay.
NameArrives ==
  /\ ~named /\ mounted
  /\ named' = TRUE
  /\ Cleanup(Unsaved) /\ CallConnect
  /\ map' = {} /\ seed' = NoBody /\ seeded' = FALSE /\ failed' = FALSE
  /\ IF LastWord # {} THEN Post(Body(map)) ELSE UNCHANGED <<saving, next>>
  /\ UNCHANGED <<guest, mounted, api, orphans, uploads, fetching, canvas, stored,
                 import, job, faults>>

-----------------------------------------------------------------------------
(* Files come in *)

\* Mutant: the last page but one completes the import.
AllButOne(left) == Cardinality(left) <= 1

Complete(left) == left = {}

\* onPdfFile for the files that are on the canvas now.
Counted(fs, imp) ==
  IF imp.progress = NoProgress \/ imp.progress.pending \cap fs = {} THEN imp
  ELSE LET left == imp.progress.pending \ fs
       IN IF Complete(left) THEN [imp EXCEPT !.progress = NoProgress, !.toast = "done"]
          ELSE [imp EXCEPT !.progress = [none |-> FALSE, pending |-> left], !.toast = "loading"]

\* hydrateFiles: what Excalidraw has is reported, the rest is fetched.
Hydrate(fs) ==
  /\ map' = map \cup fs
  /\ fetching' = fetching \cup (fs \ canvas)
  /\ import' = Counted(fs \cap canvas, import)

ApiReady ==
  /\ mounted /\ ~api
  /\ api' = TRUE /\ seed' = NoBody
  /\ IF seed = NoBody THEN UNCHANGED <<map, fetching, import>> ELSE Hydrate(seed.files)
  /\ UNCHANGED <<guest, named, linkVars, seeded, timer, saveVars, uploads, canvas, stored, job,
                 faults, known>>

\* onPdfFailed.
Failure(fs) ==
  IF import.progress # NoProgress /\ import.progress.pending \cap fs # {}
  THEN import' = [import EXCEPT !.progress = NoProgress, !.toast = "error"]
  ELSE UNCHANGED import

\* onmessage.  A socket that was closed by the tab delivers nothing more to
\* an effect that has been run again.
Receive(s) ==
  /\ sock[s] \in {"open", "broken"} /\ inbox[s] # <<>>
  /\ inbox' = [inbox EXCEPT ![s] = Tail(@)]
  /\ LET m == Head(inbox[s]) IN
       CASE m.type = "snapshot" ->
              /\ seeded' = TRUE
              /\ IF api THEN Hydrate(m.files) /\ UNCHANGED seed
                 ELSE seed' = Body(m.files) /\ UNCHANGED <<map, fetching, import>>
         [] m.type = "file" ->
              /\ IF api THEN Hydrate({m.file})
                 ELSE map' = map \cup {m.file} /\ UNCHANGED <<fetching, import>>
              /\ UNCHANGED <<seed, seeded>>
         [] m.type = "failed" ->
              /\ IF api THEN Failure(m.files) ELSE UNCHANGED import
              /\ UNCHANGED <<map, fetching, seed, seeded>>
  /\ UNCHANGED <<guest, named, mounted, asking, sock, ws, retry, api, timer, saveVars, uploads,
                 canvas, stored, job, faults, known>>

\* The picture is at its URL: it was uploaded, or rendered.
AtUrl(f) == f = Photo \/ f \in job.done

\* The files an element on the board names.
OnBoard == {Photo} \cup IF known.placed THEN Pages ELSE {}

FetchEnds(f) ==
  /\ fetching' = fetching \ {f}
  /\ IF AtUrl(f)
     THEN /\ canvas' = canvas \cup {f}
          /\ known' = [known EXCEPT !.shown = @ \cup ({f} \cap OnBoard)]
          /\ import' = Counted({f}, import)
     ELSE UNCHANGED <<canvas, known, import>>
  /\ UNCHANGED <<guest, named, linkVars, seedVars, map, timer, saveVars, uploads, stored, job, faults>>

-----------------------------------------------------------------------------
(* Pasting a picture and importing a PDF *)

\* registerFile, once per file: the map, the peers, and the debounce.
Register(fs) ==
  /\ map' = map \cup fs
  /\ timer' = TRUE

\* onPasteCapture, insertImageFile, insertImageBlob, uploadFile.
Paste ==
  /\ mounted /\ api /\ Photo \notin known.registered
  /\ uploads' = {Photo}
  /\ UNCHANGED <<guest, named, linkVars, seedVars, map, timer, saveVars, fetching, canvas, stored,
                 import, job, faults, known>>

\* withRetry tries a transient failure again and gives the others up.
UploadEnds ==
  /\ uploads # {}
  /\ uploads' = {}
  /\ \/ /\ Register({Photo}) /\ canvas' = canvas \cup {Photo}
        /\ known' = [known EXCEPT !.registered = @ \cup {Photo}, !.shown = @ \cup {Photo}]
        /\ UNCHANGED faults
     \/ Fault /\ UNCHANGED <<map, timer, known, canvas>>
  /\ UNCHANGED <<guest, named, linkVars, seedVars, saveVars, fetching, stored, import, job>>

\* onDropCapture; the server reads the document; the dialog; handlePdfConfirm.
ImportStep ==
  /\ mounted /\ ~guest
  /\ \/ /\ import.stage = "none" /\ job.status = "none"
        /\ import' = [import EXCEPT !.stage = "preflight"] /\ UNCHANGED <<faults, job>>
     \/ /\ import.stage = "preflight"
        /\ import' = [import EXCEPT !.stage = "dialog"] /\ UNCHANGED <<faults, job>>
     \/ /\ import.stage \in {"preflight", "dialog"} \* a failure, or Cancel
        /\ Fault
        /\ import' = [import EXCEPT !.stage = "none"] /\ UNCHANGED job
     \/ /\ import.stage = "dialog" /\ api
        /\ import' = [import EXCEPT !.stage = "starting", !.toast = "loading", !.here = TRUE]
        /\ job' = [job EXCEPT !.status = "rendering"] /\ UNCHANGED faults
  /\ UNCHANGED <<guest, named, linkVars, seedVars, map, timer, saveVars, uploads, fetching,
                 canvas, stored, known>>

\* The reply to startPdfImport: the placeholders go to the board, the pages
\* are registered, the progress begins.  The handler works with the canvas
\* that asked: when that one is gone, updateScene changes a scene nobody sees
\* or sends, and the pages go into a map nobody reads, with a timer that still
\* saves them.
ImportReply ==
  /\ import.stage = "starting"
  /\ \/ /\ import' = [import EXCEPT !.stage = "replied", !.toast = "loading",
                                    !.progress = [none |-> FALSE, pending |-> Pages]]
        /\ IF import.here
           THEN /\ Register(Pages)
                /\ known' = [known EXCEPT !.registered = @ \cup Pages, !.placed = TRUE,
                                          !.shown = @ \cup (canvas \cap Pages)]
                /\ UNCHANGED orphans
           ELSE orphans' = orphans \cup {Pages} /\ UNCHANGED <<map, timer, known>>
        /\ UNCHANGED faults
     \/ /\ Fault
        /\ import' = [import EXCEPT !.stage = "refused", !.toast = "error"]
        /\ UNCHANGED <<map, timer, known, orphans>>
  /\ UNCHANGED <<guest, named, linkVars, seedVars, saving, next, failed, uploads, fetching,
                 canvas, stored, job>>

-----------------------------------------------------------------------------
(* The job *)

\* PublishBoardEvent to every socket that is open, or to none.
Notify(msg) ==
  \/ /\ inbox' = [s \in DOMAIN inbox |-> IF sock[s] = "open" THEN Append(inbox[s], msg) ELSE inbox[s]]
     /\ UNCHANGED faults
  \/ Fault /\ UNCHANGED inbox

\* An attempt fails and another one begins, with the pages that are not done.
NextAttempt ==
  /\ Fault
  /\ job.status = "rendering" /\ job.done # Pages /\ job.attempt < MaxAttempts
  /\ job' = [job EXCEPT !.attempt = @ + 1, !.mine = job.done]
  /\ UNCHANGED <<guest, named, linkVars, seedVars, map, timer, saveVars, uploads, fetching,
                 canvas, stored, import, known>>

\* One turn of renderAll, page after page.
RenderPage(f) ==
  /\ job.status = "rendering" /\ job.done = 1..f - 1
  /\ job' = [job EXCEPT !.done = @ \cup {f}]
  /\ Notify([type |-> "file", file |-> f])
  /\ UNCHANGED <<guest, named, mounted, asking, sock, ws, retry, seedVars, map, timer, saveVars,
                 uploads, fetching, canvas, stored, import, known>>

\* Mutant: the list of pages as it was read when the attempt began.
FromSnapshot == Pages \ job.mine

\* The pages renderAll returns as not done.
NotDone == Pages \ job.done

\* The end of Work: all is rendered, or the last attempt has failed.
EndJob ==
  /\ job.status = "rendering"
  /\ \/ /\ job.done = Pages
        /\ job' = [job EXCEPT !.status = "done"]
        /\ UNCHANGED <<inbox, faults, known>>
     \/ /\ job.done # Pages /\ job.attempt = MaxAttempts
        /\ job' = [job EXCEPT !.status = "failed"]
        /\ Notify([type |-> "failed", files |-> NotDone])
        /\ known' = [known EXCEPT !.dead = NotDone]
  /\ UNCHANGED <<guest, named, mounted, asking, sock, ws, retry, seedVars, map, timer, saveVars,
                 uploads, fetching, canvas, stored, import>>

Next ==
  \/ Reconnect \/ PostEnds \/ TimerFires \/ Unmount \/ Mount \/ NameArrives
  \/ ApiReady \/ Paste \/ UploadEnds \/ ImportStep \/ ImportReply
  \/ NextAttempt \/ EndJob
  \/ \E which \in asking : Connect(which)
  \/ \E s \in DOMAIN sock : Open(s) \/ Break(s) \/ NoticeClose(s) \/ Receive(s)
  \/ \E fs \in orphans : OrphanEnds(fs)
  \/ \E f \in fetching : FetchEnds(f)
  \/ \E f \in Pages : RenderPage(f)

Spec == Init /\ [][Next]_vars

-----------------------------------------------------------------------------
(* Properties *)

\* A tab keeps one socket, and none when the board is hidden: neither the
\* reconnect nor a connect that was waiting for its token leaves another one.
\* The types go along.
OneSocket ==
  /\ TypeOK
  /\ Cardinality({s \in DOMAIN sock : sock[s] \in {"connecting", "open"}})
       <= IF mounted THEN 1 ELSE 0

\* f is stored, or on its way, or the banner says that it is not.
Accounted(f) ==
  \/ f \in stored
  \/ f \in map /\ (timer \/ failed)
  \/ f \in UNION (InQueue \cup orphans)

\* A file the tab has registered is stored, or on its way, or the banner says
\* that the board is not being saved; all that may be lost is what a teardown
\* drops: before the seed, or in a last POST nobody waits for.
NoFileForgotten == \A f \in known.registered : Accounted(f) \/ f \in known.risked

\* If the placeholders reached the board, the toast says that the PDF is
\* inserted only when every one of them has had its picture: the count outlives
\* the canvas, and no page is counted by the import that is not shown.
ToastTellsTheTruth ==
  import.toast = "done" => Pages \subseteq known.shown \/ ~known.placed

\* Not a property of the code: the toast says that the PDF is inserted only
\* when it is on the board.  The count and the toast live outside the canvas
\* so that "the canvas unmounts in the middle of an import ... a new instance
\* counts the rest of the pages" (ExcalidrawCanvas.tsx:94-98); the elements do
\* not, and an import whose canvas goes before the reply ends in a toast that
\* says "inserted" over a board without a page.
DoneMeansOnTheBoard == import.toast = "done" => Pages \subseteq known.shown

\* A page that was announced as ready is never declared dead: the placeholder
\* that import_failed removes has no picture.
NoReadyPageRemoved == job.done \cap known.dead = {}

\* Not a property of the code: a picture inserted before the seed came is not
\* lost, if no request fails (persistFiles: no guard by seededRef, "a picture
\* inserted before the seed must not be lost").
NoPictureLostBeforeTheSeed == faults = 0 => \A f \in known.registered : Accounted(f)
=============================================================================
