---------------------------- MODULE BoardImport ----------------------------
(***************************************************************************)
(* The lazy move of one board page from the old model, a whole scene in    *)
(* board_pages.snapshot, to the table board_elements, while clients open   *)
(* the page and post scenes over HTTP: service.GetPageState with           *)
(* repository.ImportSnapshotToElements, and handlers.SaveSnapshot.         *)
(*                                                                         *)
(* Opening a page is up to three statements and posting a scene is three,  *)
(* each a transaction of its own; those of different requests interleave.  *)
(***************************************************************************)
EXTENDS BoardElements

CONSTANTS FileIds,     \* file ids; what a file id points to never changes
          Clients,     \* browser tabs
          Unreadable   \* a snapshot that does not unzip or does not parse

\* A scene as the old model stores it, and as a request posts it: malformed
\* elements, dropped on arrival (see ElementBuffer), are left out of the latter.
Scene == [els : RawMap, files : SUBSET FileIds]
Posted == [els : PageMap, files : SUBSET FileIds]
NoScene == [els |-> Nothing, files |-> {}]

VARIABLES
  blob,      \* board_pages.snapshot
  migrated,  \* board_pages.elements_migrated_at is set
  files,     \* board_pages.files
  rows,      \* board_elements of the page
  opening,   \* where a client's GetPageState is
  seeds,     \* what it returned
  posting,   \* where a client's SaveSnapshot is
  body,      \* the scene it posts
  legacy,    \* history: the snapshot the page had when the server was new
  swept,     \* history: the tombstones that were swept
  erased     \* history: a post wrote over the snapshot before the page moved

pageVars == <<blob, migrated, files, rows>>
moveVars == <<pageVars, opening, seeds, posting, body, legacy, swept, erased>>

MoveTypeOK ==
  /\ blob \in Scene \cup {Unreadable} /\ legacy \in Scene \cup {Unreadable}
  /\ migrated \in BOOLEAN /\ erased \in BOOLEAN
  /\ files \subseteq FileIds
  /\ rows \in PageMap /\ swept \in PageMap
  /\ opening \in [Clients -> {"off", "importing", "rereading", "seeded", "unseeded"}]
  /\ seeds \in [Clients -> Posted]
  /\ posting \in [Clients -> {"no", "elements", "files", "backup"}]
  /\ body \in [Clients -> Posted]

\* After the migration 029: whatever the old server left in the snapshot.
MoveInit ==
  /\ blob \in Scene \cup {Unreadable} /\ legacy = blob
  /\ migrated = FALSE /\ files = {} /\ rows = Nothing
  /\ opening = [c \in Clients |-> "off"]
  /\ seeds = [c \in Clients |-> NoScene]
  /\ posting = [c \in Clients |-> "no"]
  /\ body = [c \in Clients |-> NoScene]
  /\ swept = Nothing /\ erased = FALSE

-----------------------------------------------------------------------------
(* service.GetPageState, on behalf of ServeWS *)

Opens(c, to) == opening' = [opening EXCEPT ![c] = to]
Seeded(c) ==
  Opens(c, "seeded") /\ seeds' = [seeds EXCEPT ![c] = [els |-> rows, files |-> files]]

\* The first read decides whether the page has to move.
ReadState(c) ==
  /\ opening[c] = "off"
  /\ IF migrated THEN Seeded(c) ELSE Opens(c, "importing") /\ UNCHANGED seeds
  /\ UNCHANGED <<pageVars, posting, body, legacy, swept, erased>>

\* What the snapshot holds, as far as it can be used: rubbish and the format
\* before Excalidraw's are an empty board.
Stored == IF blob = Unreadable THEN NoScene
          ELSE [blob EXCEPT !.els = ParseBoardElements(@)]

\* Mutant: "no rows yet" is the sign that the page has not moved.
ImportIfEmpty(c) ==
  /\ opening[c] = "importing"
  /\ IF rows # Nothing THEN UNCHANGED pageVars
     ELSE /\ rows' = Stored.els
          /\ files' = files \cup Stored.files
          /\ migrated' = TRUE /\ UNCHANGED blob
  /\ Opens(c, "rereading")
  /\ UNCHANGED <<seeds, posting, body, legacy, swept, erased>>

\* ImportSnapshotToElements, one transaction with the page's row locked: who
\* comes second sees the flag.  A row that exists is left as it is.
Import(c) ==
  /\ opening[c] = "importing"
  /\ IF migrated THEN UNCHANGED pageVars
     ELSE /\ rows' = [id \in Ids |-> IF rows[id] = NoEdit THEN Stored.els[id] ELSE rows[id]]
          /\ files' = files \cup Stored.files
          /\ migrated' = TRUE /\ UNCHANGED blob
  /\ Opens(c, "rereading")
  /\ UNCHANGED <<seeds, posting, body, legacy, swept, erased>>

ReadAgain(c) ==
  /\ opening[c] = "rereading"
  /\ Seeded(c)
  /\ UNCHANGED <<pageVars, posting, body, legacy, swept, erased>>

\* Mutant: an import that fails is only logged.
OpenFailsButReads(c) ==
  /\ opening[c] = "importing"
  /\ Opens(c, "rereading")
  /\ UNCHANGED <<pageVars, seeds, posting, body, legacy, swept, erased>>

\* A statement fails: the client is let in without a seed.
OpenFails(c) ==
  /\ opening[c] \in {"off", "importing", "rereading"}
  /\ Opens(c, "unseeded")
  /\ UNCHANGED <<pageVars, seeds, posting, body, legacy, swept, erased>>

\* The tab is reloaded or its connection comes back.
Reopen(c) ==
  /\ opening[c] \in {"seeded", "unseeded"} /\ posting[c] = "no"
  /\ Opens(c, "off") /\ seeds' = [seeds EXCEPT ![c] = NoScene]
  /\ UNCHANGED <<pageVars, posting, body, legacy, swept, erased>>

-----------------------------------------------------------------------------
(* handlers.SaveSnapshot *)

Posts(c, to) == posting' = [posting EXCEPT ![c] = to]

\* What the front end posts: when a page is left, the scene, but only after
\* the seed; when a picture is inserted, the files with it and no elements at
\* all, whether there was a seed or not (persistFiles).
MayPost(c) ==
  IF opening[c] = "seeded" THEN Posted
  ELSE {scene \in Posted : scene.els = Nothing /\ scene.files # {}}

\* A request arrives.
PostScene(c, scene) ==
  /\ posting[c] = "no"
  /\ scene \in MayPost(c)
  /\ body' = [body EXCEPT ![c] = scene]
  /\ Posts(c, "elements")
  /\ UNCHANGED <<pageVars, opening, seeds, legacy, swept, erased>>

\* service.MergeSnapshot, first half.
PostElements(c) ==
  /\ posting[c] = "elements"
  /\ rows' = MergeElements(rows, body[c].els)
  /\ Posts(c, "files")
  /\ UNCHANGED <<blob, migrated, files, opening, seeds, body, legacy, swept, erased>>

\* Mutant: files = $2 instead of files || $2.
PostFilesReplace(c) ==
  /\ posting[c] = "files"
  /\ files' = body[c].files
  /\ Posts(c, "backup")
  /\ UNCHANGED <<blob, migrated, rows, opening, seeds, body, legacy, swept, erased>>

\* Its second half.
PostFiles(c) ==
  /\ posting[c] = "files"
  /\ files' = files \cup body[c].files
  /\ Posts(c, "backup")
  /\ UNCHANGED <<blob, migrated, rows, opening, seeds, body, legacy, swept, erased>>

\* The scene is copied to the old column, as it came.
PostBackup(c) ==
  /\ posting[c] = "backup"
  /\ blob' = body[c]
  /\ erased' = (erased \/ ~migrated)
  /\ Posts(c, "no")
  /\ body' = [body EXCEPT ![c] = NoScene]
  /\ UNCHANGED <<migrated, files, rows, opening, seeds, legacy, swept>>

\* A statement fails: the steps before it stay done.
PostFails(c) ==
  /\ posting[c] # "no"
  /\ Posts(c, "no")
  /\ body' = [body EXCEPT ![c] = NoScene]
  /\ UNCHANGED <<pageVars, opening, seeds, legacy, swept, erased>>

-----------------------------------------------------------------------------
\* The elements a client may draw: one that was never seeded starts from an
\* empty scene, so that the random ids of its elements are new.
MayDraw(c) ==
  IF opening[c] = "seeded" THEN Ids
  ELSE IF opening[c] = "unseeded"
  THEN {id \in Ids : legacy = Unreadable \/ legacy.els[id] = NoEdit}
  ELSE {}

\* The write-behind buffer flushes what a connected client drew.
FlushPage(c, els) ==
  /\ Present(els) # {} /\ Present(els) \subseteq MayDraw(c)
  /\ rows' = MergeElements(rows, els)
  /\ UNCHANGED <<blob, migrated, files, opening, seeds, posting, body, legacy, swept, erased>>

\* DeleteOldTombstones; which are a day old is left open.
DeleteOldTombstones ==
  \E old \in SUBSET {id \in Present(rows) : rows[id].del} :
    /\ old # {}
    /\ rows' = [id \in Ids |-> IF id \in old THEN NoEdit ELSE rows[id]]
    /\ swept' = [id \in Ids |-> IF id \in old THEN Later(swept[id], rows[id]) ELSE swept[id]]
    /\ UNCHANGED <<blob, migrated, files, opening, seeds, posting, body, legacy, erased>>

MoveNext ==
  \/ \E c \in Clients :
       \/ ReadState(c) \/ Import(c) \/ ReadAgain(c) \/ OpenFails(c) \/ Reopen(c)
       \/ (\E scene \in MayPost(c) : PostScene(c, scene))
       \/ (\E els \in PageMap : FlushPage(c, els))
       \/ PostElements(c) \/ PostFiles(c) \/ PostBackup(c) \/ PostFails(c)
  \/ DeleteOldTombstones

MoveSpec == MoveInit /\ [][MoveNext]_moveVars
-----------------------------------------------------------------------------
(* Properties *)

\* A page map and a set of files hold what the old board held, but for
\* elements that were deleted and swept since.
HoldsLegacy(els, fs) ==
  legacy # Unreadable =>
    /\ legacy.files \subseteq fs
    /\ \A id \in Ids :
         LET e == legacy.els[id] IN
         e \in Edits => Covers(els[id], e) \/ Covers(swept[id], e)

\* Nothing of the old board is lost by the move, whatever requests interleave
\* with it, but for the old snapshot that a post wrote over before the page
\* moved (the backup SaveSnapshot makes of a picture inserted before the seed):
\* not by the post itself, nor by one that ends after the move.
LegacyKept == migrated => erased \/ HoldsLegacy(rows, files)

\* Whoever is seeded sees the whole old board, also if the page moved between
\* the two reads or an import failed: there is no seed rather than half a one.
\* The exception is that of LegacyKept.
SeedHoldsLegacy ==
  \A c \in Clients :
    opening[c] = "seeded" =>
      migrated /\ (erased \/ HoldsLegacy(seeds[c].els, seeds[c].files))

\* Until the page moves, the snapshot is as it was or without elements, nobody
\* has been shown the table, nobody posts an element, and the elements of the
\* old board are neither in the table nor among what was swept.
NotMovedYet ==
  ~migrated =>
    /\ blob = legacy \/ (erased /\ Stored.els = Nothing)
    /\ \A c \in Clients : /\ opening[c] \notin {"rereading", "seeded"}
                          /\ posting[c] # "no" => body[c].els = Nothing
    /\ legacy # Unreadable =>
         \A id \in Ids :
           legacy.els[id] \in Edits => rows[id] = NoEdit /\ swept[id] = NoEdit

\* The inductive invariant behind the properties.
ImportInv == MoveTypeOK /\ NotMovedYet /\ LegacyKept /\ SeedHoldsLegacy

\* What the next client to open the page will see.
Shown ==
  IF migrated THEN rows
  ELSE [id \in Ids |-> IF rows[id] = NoEdit THEN Stored.els[id] ELSE rows[id]]

\* Not a property of the code: the front end counts on it that a post with an
\* empty list of elements "can erase nothing" (persistFiles,
\* useExcalidrawSync.ts:279-281), but SaveSnapshot copies the body to the old
\* column, which before the move is the only copy of the board.
EmptySceneErasesNothing ==
  [][\A c \in Clients :
       (PostBackup(c) /\ body[c].els = Nothing) => Shown' = Shown]_moveVars

\* An element that was deleted and swept comes back only by somebody's edit,
\* never out of the old snapshot: a client that read "not migrated" long ago
\* imports nothing any more.
NoResurrection ==
  [][\A id \in Ids :
       (swept[id] # NoEdit /\ rows[id] = NoEdit /\ rows'[id] # NoEdit)
         => UNCHANGED opening]_moveVars
=============================================================================
