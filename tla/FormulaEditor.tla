--------------------------- MODULE FormulaEditor ---------------------------
(***************************************************************************)
(* The formula editor of a board tab: applyFormula, its callers and the    *)
(* callbacks of MathEditor in ExcalidrawCanvas.tsx, and the debounce of    *)
(* MathEditor.tsx.                                                         *)
(*                                                                         *)
(* applyFormula awaits a dynamic import, a render and an image before it   *)
(* touches the scene; until then the user may type on, commit, cancel or   *)
(* open another formula, and anybody on the board may delete the formula.  *)
(* A counter of editor sessions tells a call that comes back late from one *)
(* that is still wanted.  Nothing orders the drafts of one session: the    *)
(* first render takes hundreds of ms, the debounce 250.                    *)
(***************************************************************************)
EXTENDS Naturals, Sequences, SequencesExt, FiniteSets

CONSTANTS MaxFormulas,   \* bound: formulas ever on the board
          MaxGestures    \* bound: what the user does

ASSUME EditorAssumption ==
  MaxFormulas \in Nat \ {0} /\ MaxGestures \in Nat

VARIABLES
  formula,    \* the formula elements of the board, in order of creation
  texts,      \* the text elements that are not deleted
  converting, \* the calls of convertTextToFormula that wait for their import
  session,    \* editorSessionRef
  editor,     \* the state mathEditor
  typing,     \* MathEditor's timer is set
  calls,      \* the calls of applyFormula that have not come back
  gestures,   \* what the user has done so far
  cancelled,  \* history: the openings that ended with Esc
  blind       \* history: the openings that sent a draft without an element
              \* while an earlier call without one was still under way

editorVars == <<formula, texts, converting, session, editor, typing, calls, gestures, cancelled, blind>>

\* Formula 1 and text 1 are on the board from the start.
None == 0
OldText == 1
NewText == 2
Closed == [open |-> FALSE]

\* el: elementId.  source: sourceTextId.  opening names this opening of the
\* editor: the gesture that led to it.
Opened(el, source, opening) ==
  [open |-> TRUE, el |-> el, isNew |-> el = None, source |-> source, opening |-> opening]

\* What a formula shows: what it showed when the editor was opened, or what
\* was typed since.
Latex == {"old", "typed"}
Formula == [live : BOOLEAN, shows : Latex, opening : 0..MaxGestures]
Editors == {Closed} \cup
  [open : {TRUE}, el : 0..MaxFormulas, isNew : BOOLEAN, source : {None, OldText},
   opening : 0..MaxGestures]
Call == [session : Nat, ed : Editors, commit : BOOLEAN, latex : Latex, at : 0..MaxGestures]

EditorTypeOK ==
  /\ formula \in Seq(Formula) /\ Len(formula) <= MaxFormulas
  /\ texts \subseteq {OldText, NewText}
  /\ converting \subseteq 0..MaxGestures
  /\ session \in Nat /\ gestures \in 0..MaxGestures
  /\ editor \in Editors
  /\ typing \in BOOLEAN /\ (editor.open \/ ~typing)
  /\ calls \subseteq Call
  /\ \A c \in calls : c.session <= session
  /\ cancelled \subseteq 0..MaxGestures /\ blind \subseteq 0..MaxGestures

EditorInit ==
  /\ formula = <<[live |-> TRUE, shows |-> "old", opening |-> 0]>>
  /\ texts = {OldText} /\ converting = {}
  /\ session = 0 /\ gestures = 0
  /\ editor = Closed /\ typing = FALSE
  /\ calls = {} /\ cancelled = {} /\ blind = {}

Gesture == gestures < MaxGestures /\ gestures' = gestures + 1

\* A call captures the session and the state mathEditor of the last render.
Start(commit, latex) ==
  calls' = calls \cup {[session |-> session', ed |-> editor, commit |-> commit,
                        latex |-> latex, at |-> gestures']}

-----------------------------------------------------------------------------
(* Opening *)

\* An editor that is open already keeps its field, and the timer, when the new
\* opening starts from the same LaTeX.
Show(ed) ==
  /\ session' = session + 1
  /\ editor' = ed
  /\ typing' \in (IF editor.open THEN {typing, FALSE} ELSE {FALSE})
  /\ UNCHANGED <<calls, cancelled, blind>>

OpenNewFormula ==
  Gesture /\ Show(Opened(None, None, gestures')) /\ UNCHANGED <<formula, texts, converting>>

\* A double click on a formula, or the button of the panel.  What the editor
\* starts from is what the formula shows now.
OpenFormula(i) ==
  /\ Gesture
  /\ formula[i].live
  /\ Show(Opened(i, None, gestures'))
  /\ formula' = [formula EXCEPT ![i].shows = "old"]
  /\ UNCHANGED <<texts, converting>>

\* The button over a selected text: its text is read, then mathlive imported.
ConvertTextToFormula ==
  /\ Gesture
  /\ OldText \in texts
  /\ converting' = converting \cup {gestures'}
  /\ UNCHANGED <<formula, texts, session, editor, typing, calls, cancelled, blind>>

\* Mutant: the text is deleted when the editor opens.
TextOnOpening == texts \ {OldText}

\* The text stays until the formula is committed.
TextWhileEditing == texts

ConversionOpens(g) ==
  /\ converting' = converting \ {g}
  /\ texts' = TextWhileEditing
  /\ Show(Opened(None, OldText, g))
  /\ UNCHANGED <<formula, gestures>>

\* The formula is deleted and its LaTeX put in its place as text.
ConvertFormulaToText(i) ==
  /\ Gesture
  /\ formula[i].live
  /\ formula' = [formula EXCEPT ![i].live = FALSE]
  /\ texts' = texts \cup {NewText}
  /\ UNCHANGED <<converting, session, editor, typing, calls, cancelled, blind>>

\* Somebody on the board deletes a formula, the one being edited or another.
Delete(i) ==
  /\ Gesture
  /\ formula[i].live
  /\ formula' = [formula EXCEPT ![i].live = FALSE]
  /\ UNCHANGED <<texts, converting, session, editor, typing, calls, cancelled, blind>>

-----------------------------------------------------------------------------
(* The field *)

Type ==
  /\ Gesture
  /\ editor.open
  /\ typing' = TRUE
  /\ UNCHANGED <<formula, texts, converting, session, editor, calls, cancelled, blind>>

\* The debounce, or a key after DRAFT_MAX_WAIT_MS: onDraft.
Draft ==
  /\ typing
  /\ typing' = FALSE
  /\ UNCHANGED <<formula, texts, converting, session, editor, gestures, cancelled>>
  /\ Start(FALSE, "typed")
  /\ blind' = IF editor.el = None /\ \E c \in calls : c.ed.el = None /\ c.session = session
              THEN blind \cup {editor.opening} ELSE blind

\* editorSessionRef.current++ by Enter and Esc.
NextSession == session + 1

\* Enter.  The timer is left running until the field is unmounted.
Commit ==
  /\ Gesture
  /\ editor.open
  /\ session' = NextSession
  /\ Start(TRUE, "typed")
  /\ UNCHANGED <<formula, texts, converting, editor, typing, cancelled, blind>>

\* Esc.  What a new formula has put on the board so far is deleted; a formula
\* that was there before is drawn again as it was.
Cancel ==
  /\ Gesture
  /\ editor.open
  /\ session' = NextSession
  /\ IF editor.isNew
     THEN /\ formula' = [i \in DOMAIN formula |->
                [formula[i] EXCEPT !.live = @ /\ i # editor.el]]
          /\ UNCHANGED calls
     ELSE Start(FALSE, "old") /\ UNCHANGED formula
  /\ editor' = Closed /\ typing' = FALSE
  /\ cancelled' = cancelled \cup {editor.opening}
  /\ UNCHANGED <<texts, converting, blind>>

\* The call switches from the board to the people: the canvas is unmounted
\* with all its state, and the calls come back to an Excalidraw nobody sees.
Unmount ==
  /\ Gesture
  /\ session' = 0 /\ editor' = Closed /\ typing' = FALSE
  /\ converting' = {} /\ calls' = {}
  /\ UNCHANGED <<formula, texts, cancelled, blind>>

-----------------------------------------------------------------------------
(* applyFormula comes back *)

\* Mutant: a late call is applied all the same.
WantedAlways(c) == c \in calls

\* The guard after each await.
Wanted(c) == c.session = session

\* The chunk does not load, the LaTeX is wrong, or nobody wants the result.
GiveUp(c) ==
  /\ calls' = calls \ {c}
  /\ UNCHANGED <<formula, texts, converting, session, editor, typing, gestures, cancelled, blind>>

\* The text a committed formula replaces goes with the same updateScene; the
\* editor closes.
Finished(c, ed) ==
  /\ calls' = calls \ {c}
  /\ texts' = IF c.commit THEN texts \ {c.ed.source} ELSE texts
  /\ editor' = IF c.commit THEN Closed ELSE ed
  /\ typing' = (typing /\ ~c.commit)
  /\ UNCHANGED <<converting, session, gestures, cancelled, blind>>

\* The element is on the board, deleted or not: it is drawn anew.
Redraw(c) ==
  /\ Wanted(c)
  /\ c.ed.el # None
  /\ formula' = [formula EXCEPT ![c.ed.el].shows = c.latex]
  /\ Finished(c, editor)

\* It is not there yet: a new one is put in its place.
Create(c) ==
  /\ Wanted(c)
  /\ c.ed.el = None
  /\ Len(formula) < MaxFormulas
  /\ formula' = Append(formula, [live |-> TRUE, shows |-> c.latex, opening |-> c.ed.opening])
  /\ Finished(c, IF editor.open THEN [editor EXCEPT !.el = Len(formula')] ELSE editor)

EditorNext ==
  \/ OpenNewFormula \/ ConvertTextToFormula 
  \/ Type \/ Draft \/ Commit \/ Cancel \/ Unmount
  \/ \E i \in DOMAIN formula : OpenFormula(i) \/ ConvertFormulaToText(i) \/ Delete(i)
  \/ \E g \in converting : ConversionOpens(g)
  \/ \E c \in calls : GiveUp(c) \/ Redraw(c) \/ Create(c)

EditorSpec == EditorInit /\ [][EditorNext]_editorVars

-----------------------------------------------------------------------------
(* Properties *)

\* The live formulas an opening of the editor has made.
MadeBy(opening) ==
  {i \in DOMAIN formula : formula[i].live /\ formula[i].opening = opening}

AtMostOne(opening) ==
  Cardinality(MadeBy(opening)) <= IF opening \in cancelled THEN 0 ELSE 1

\* However slow the renders, one opening of the editor makes one formula, and
\* none if it ends with Esc: a draft that comes back late adds no second one to
\* what was committed (onCommit: it must not "lay itself over this commit as a
\* second formula") and leaves nothing on the board that was cancelled.  The one
\* way to a second formula is two calls of one session that both set out before
\* there was an element.  The types go along.
OneFormulaPerOpening ==
  EditorTypeOK /\ \A o \in 1..MaxGestures : o \in blind \/ AtMostOne(o)

\* Not a property of the code, though the comment on editorSessionRef
\* (ExcalidrawCanvas.tsx:274-281) means the counter to see to it: no second
\* formula, and no orphan of a draft after Esc.  Drafts of one session have the
\* same number, and each makes an element if it found none when it set out.
NoSecondFormula == \A o \in 1..MaxGestures : AtMostOne(o)

\* The text that is being converted disappears only in the step in which the
\* commit of that conversion is applied.
TextIsReplacedNotLost ==
  [][texts \subseteq texts'
       \/ \E c \in calls : c.commit /\ c.ed.source = OldText /\ (Redraw(c) \/ Create(c))]_editorVars

\* Not a property of the code: when the text disappears, the formula that
\* replaces it is on the board ("pressing the button must not silently erase
\* the text before there is a formula it was replaced by", applyFormula).
TextBecomesFormula ==
  [][texts \subseteq texts' \/ \E i \in DOMAIN formula' : formula'[i].live /\ formula'[i].opening > 0]_editorVars
=============================================================================
