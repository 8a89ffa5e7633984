----------------------------- MODULE BoardStore -----------------------------
(***************************************************************************)
(* What the persistence of a whiteboard promises, whoever writes and in    *)
(* whatever order: the table holds nothing that nobody sent, an element    *)
(* only ever moves up in the last-writer-wins order, and it leaves the     *)
(* table only as a tombstone that was swept or with its page.  Buffering,  *)
(* batches, retries, instances, shutdown and crashes are all below this.   *)
(***************************************************************************)
EXTENDS BoardElements

CONSTANT Pages

VARIABLES rows,      \* the table board_elements, a page map per page
          pages,     \* the pages that exist
          accepted   \* <<page, id, edit>> the server took responsibility for

storeVars == <<rows, pages, accepted>>

StoreInit ==
  /\ rows = [p \in Pages |-> Nothing]
  /\ pages = Pages
  /\ accepted = {}

\* The edits of a page map, as the triples that `accepted` holds.
Triples(p, els) == {<<p, id, els[id]>> : id \in Present(els)}

\* A message's elements are taken in; nothing is durable yet.
Accept(p, els) ==
  /\ accepted' = accepted \cup Triples(p, els)
  /\ UNCHANGED <<rows, pages>>

\* Some accepted edits reach the table.
Persist(p, els) ==
  /\ p \in pages
  /\ Triples(p, els) \subseteq accepted
  /\ rows' = [rows EXCEPT ![p] = Merge(rows[p], els)]
  /\ UNCHANGED <<pages, accepted>>

\* Elements are taken in and reach the table at once.
AcceptAndPersist(p, els) ==
  /\ p \in pages
  /\ accepted' = accepted \cup Triples(p, els)
  /\ rows' = [rows EXCEPT ![p] = Merge(rows[p], els)]
  /\ UNCHANGED pages

\* Tombstones, and only tombstones, may be swept.
Expire(swept) ==
  /\ \A key \in swept : rows[key[1]][key[2]].del
  /\ rows' = [p \in Pages |-> [id \in Ids |->
                 IF <<p, id>> \in swept THEN NoEdit ELSE rows[p][id]]]
  /\ UNCHANGED <<pages, accepted>>

\* The keys of the rows that exist.
RowKeys == {key \in Pages \X Ids : rows[key[1]][key[2]] # NoEdit}

Drop(p) ==
  /\ p \in pages
  /\ pages' = pages \ {p}
  /\ rows' = [rows EXCEPT ![p] = Nothing]
  /\ UNCHANGED accepted

StoreNext ==
  \/ \E p \in Pages, els \in PageMap :
        Accept(p, els) \/ Persist(p, els) \/ AcceptAndPersist(p, els)
  \/ \E swept \in SUBSET RowKeys : Expire(swept)
  \/ \E p \in Pages : Drop(p)

StoreSpec == StoreInit /\ [][StoreNext]_storeVars
=============================================================================
