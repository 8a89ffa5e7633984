--------------------------- MODULE BoardElements ---------------------------
(***************************************************************************)
(* The last-writer-wins algebra of whiteboard elements.                    *)
(*                                                                         *)
(* One edit of an element is what the client sent for it: its version, its *)
(* random version nonce and whether it is a deletion (a tombstone).  The   *)
(* drawing itself is abstracted away: nothing below depends on it.  A page *)
(* is a map from element ids to the edit held for each, NoEdit where there *)
(* is none: the buffer, a batch on its way to the database and the table   *)
(* board_elements are all such maps.                                       *)
(***************************************************************************)
EXTENDS Integers, FiniteSets

CONSTANTS Ids,       \* element ids
          Edits,     \* the edits clients may make
          NoEdit,    \* "no row", "no entry in the map"
          Malformed  \* an element ParseBoardElements throws away

\* The nonce is drawn at random for every edit: two edits that agree on
\* version and nonce are the same edit.
ASSUME EditsAssumption ==
  /\ Edits \subseteq [ver : Nat, nonce : Int, del : BOOLEAN]
  /\ \A e, f \in Edits : e.ver = f.ver /\ e.nonce = f.nonce => e = f

ASSUME SentinelsAssumption ==
  NoEdit \notin Edits /\ Malformed \notin Edits /\ Malformed # NoEdit

Slot == Edits \cup {NoEdit}
PageMap == [Ids -> Slot]
Nothing == [id \in Ids |-> NoEdit]

\* The elements a page map holds something for.
Present(m) == {id \in Ids : m[id] # NoEdit}

-----------------------------------------------------------------------------
\* BoardElement.Beats: the higher version wins, a tie goes to the LOWER nonce.
Beats(e, other) ==
  \/ e.ver > other.ver
  \/ e.ver = other.ver /\ e.nonce < other.nonce

\* The WHERE clause of mergeElementSQL: does the new edit replace the row?
SqlReplaces(row, new) ==
  \/ row.ver < new.ver
  \/ row.ver = new.ver /\ row.nonce > new.nonce

\* Mutant: the buffer keeps whatever arrived last.
LaterArrivalWins(prev, new) == IF new # NoEdit THEN new ELSE prev

\* What elementBuffer.add leaves in one entry of its map.
Later(prev, new) ==
  IF new # NoEdit /\ (prev = NoEdit \/ Beats(new, prev)) THEN new ELSE prev

\* elementBuffer.add for all the elements of one call.
Merge(m, els) == [id \in Ids |-> Later(m[id], els[id])]

\* Mutant: ON CONFLICT DO UPDATE without its WHERE clause.
UpsertAlways(row, new) == IF new # NoEdit THEN new ELSE row

\* What one INSERT ... ON CONFLICT DO UPDATE ... WHERE leaves in a row.
Upsert(row, new) ==
  IF new # NoEdit /\ (row = NoEdit \/ SqlReplaces(row, new)) THEN new ELSE row

\* MergeElements: the batch is one transaction, so it is one step.
MergeElements(table, els) == [id \in Ids |-> Upsert(table[id], els[id])]

\* A message as it comes off the wire.
RawMap == [Ids -> Slot \cup {Malformed}]

\* ParseBoardElements: malformed elements are dropped one by one.
ParseBoardElements(raw) ==
  [id \in Ids |-> IF raw[id] = Malformed THEN NoEdit ELSE raw[id]]

\* e is not lost as long as some copy that is e, or that beats e, is kept.
Covers(slot, e) == slot # NoEdit /\ (slot = e \/ Beats(slot, e))
=============================================================================
