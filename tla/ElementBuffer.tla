--------------------------- MODULE ElementBuffer ---------------------------
(***************************************************************************)
(* Write-behind persistence of the whiteboard: handlers/board_buffer.go    *)
(* with the merge of repository/whiteboard.go under it and the shutdown    *)
(* sequence of main.go around it.                                          *)
(*                                                                         *)
(* Each server instance keeps in memory a page map per page (`pending`)    *)
(* that its hubs add to.  One flusher goroutine swaps the whole map out    *)
(* (`inflight` is the local variable of flush) and writes it page by page; *)
(* a batch that fails goes back into the map.  Two instances may run at    *)
(* once (a rolling deploy) and HTTP handlers write past the buffer.        *)
(***************************************************************************)
EXTENDS BoardElements

CONSTANTS Instances,             \* server processes
          Pages,                 \* board pages
          Deletable,             \* the pages a tutor may delete
          Storable,              \* the edits Postgres can store
          FlushThreshold,        \* flushThreshold: 200 elements
          MaxElementsPerMessage, \* maxElementsPerMessage: 5000 elements
          MaxFaults              \* bound: transient failures of a write

ASSUME BufferAssumption ==
  /\ Deletable \subseteq Pages
  /\ Storable \subseteq Edits
  /\ FlushThreshold \in Nat \ {0}
  /\ MaxElementsPerMessage \in Nat
  /\ MaxFaults \in Nat

VARIABLES
  rows,       \* table board_elements, per page
  pages,      \* rows of board_pages
  pending,    \* elementBuffer.pending of each instance
  inflight,   \* what is left of the map flush swapped out
  wake,       \* is there a token in the channel elementBuffer.wake?
  phase,      \* where the goroutine of elementBuffer.Run is
  stopping,   \* bgCancel() was called
  faults,     \* transient failures so far
  accepted,   \* history: <<page, id, edit>> taken in by add or by a request
  gone        \* history: the memory of dead processes and swept tombstones

vars == <<rows, pages, pending, inflight, wake, phase, stopping, faults,
          accepted, gone>>

Phases == {"down", "idle", "flushing", "final", "exited"}
Empty == [p \in Pages |-> Nothing]

TypeOK ==
  /\ rows \in [Pages -> PageMap]
  /\ pages \in SUBSET Pages
  /\ pending \in [Instances -> [Pages -> PageMap]]
  /\ inflight \in [Instances -> [Pages -> PageMap]]
  /\ wake \in [Instances -> BOOLEAN]
  /\ phase \in [Instances -> Phases]
  /\ stopping \in [Instances -> BOOLEAN]
  /\ faults \in 0..MaxFaults
  /\ accepted \in SUBSET (Pages \X Ids \X Edits)
  /\ gone \in [Pages -> PageMap]

Init ==
  /\ rows = Empty
  /\ pages = Pages
  /\ pending = [i \in Instances |-> Empty]
  /\ inflight = [i \in Instances |-> Empty]
  /\ wake = [i \in Instances |-> FALSE]
  /\ phase = [i \in Instances |-> "down"]
  /\ stopping = [i \in Instances |-> FALSE]
  /\ faults = 0
  /\ accepted = {}
  /\ gone = Empty

Running(i) == phase[i] # "down"
Triples(p, els) == {<<p, id, els[id]>> : id \in Present(els)}

-----------------------------------------------------------------------------
\* Mutant: nobody is asked for what comes in during a flush.
AddQuietInFlush(i, p, els) ==
  /\ pending' = [pending EXCEPT ![i][p] = Merge(@, els)]
  /\ wake' = [wake EXCEPT ![i] =
                @ \/ (phase[i] = "idle"
                       /\ Cardinality(Present(Merge(pending[i][p], els))) >= FlushThreshold)]

\* elementBuffer.add: merge under the lock, then ask for a flush, without
\* blocking, when the page has grown past the threshold.
Add(i, p, els) ==
  LET page == Merge(pending[i][p], els) IN
  /\ pending' = [pending EXCEPT ![i][p] = page]
  /\ wake' = [wake EXCEPT ![i] =
                @ \/ (els # Nothing
                       /\ Cardinality(Present(page)) >= FlushThreshold)]

\* What json.Unmarshal and ParseBoardElements let through; an oversized
\* message is refused as a whole.
Parsed(raw) ==
  IF Cardinality({id \in Ids : raw[id] # NoEdit}) > MaxElementsPerMessage
  THEN Nothing ELSE ParseBoardElements(raw)

\* addPayload: a hub hands over the payload of an `update` message.  Hubs go
\* on doing so after the flusher has exited: nothing stops them.
AddPayload(i, p, raw) ==
  /\ Running(i)
  /\ Add(i, p, Parsed(raw))
  /\ accepted' = accepted \cup Triples(p, Parsed(raw))
  /\ UNCHANGED <<rows, pages, inflight, phase, stopping, faults, gone>>

\* The database takes a batch as a whole or not at all: every element must be
\* storable and, by the foreign key, the page must exist.
Takes(p, els) ==
  p \in pages /\ \A id \in Present(els) : els[id] \in Storable

\* service.MergeSnapshot on behalf of an HTTP request: past the buffer.
MergeSnapshot(i, p, raw) ==
  /\ Running(i)
  /\ Takes(p, Parsed(raw))
  /\ rows' = [rows EXCEPT ![p] = MergeElements(@, Parsed(raw))]
  /\ accepted' = accepted \cup Triples(p, Parsed(raw))
  /\ UNCHANGED <<pages, pending, inflight, wake, phase, stopping, faults, gone>>

-----------------------------------------------------------------------------
\* flush, first half: swap the map out under the lock.
Swap(i, next) ==
  /\ inflight' = [inflight EXCEPT ![i] = pending[i]]
  /\ pending' = [pending EXCEPT ![i] = Empty]
  /\ phase' = [phase EXCEPT ![i] = next]
  /\ UNCHANGED <<rows, pages, stopping, faults, accepted, gone>>

\* The three cases of the select in Run.  The runtime picks any ready one: a
\* tick may still win after the context was cancelled.
Tick(i) == phase[i] = "idle" /\ Swap(i, "flushing") /\ UNCHANGED wake

Woken(i) ==
  /\ phase[i] = "idle" /\ wake[i]
  /\ Swap(i, "flushing")
  /\ wake' = [wake EXCEPT ![i] = FALSE]

FinalFlush(i) ==
  /\ phase[i] = "idle" /\ stopping[i]
  /\ Swap(i, "final") /\ UNCHANGED wake

InFlush(i, p) ==
  phase[i] \in {"flushing", "final"} /\ inflight[i][p] # Nothing

\* Mutant: the last flush uses the cancelled context as well.
ContextAliveUnlessStopping(i) == ~stopping[i]

\* An ordinary flush writes with the context of Run, the last one with a
\* context of its own that outlives the cancellation.
ContextAlive(i) == phase[i] = "final" \/ ~stopping[i]

\* flush, one turn of its loop: the batch is in the database.
FlushPage(i, p) ==
  /\ InFlush(i, p)
  /\ ContextAlive(i)
  /\ Takes(p, inflight[i][p])
  /\ rows' = [rows EXCEPT ![p] = MergeElements(@, inflight[i][p])]
  /\ inflight' = [inflight EXCEPT ![i][p] = Nothing]
  /\ UNCHANGED <<pages, pending, wake, phase, stopping, faults, accepted, gone>>

\* Why a write reports an error.  A fault (an outage, a timeout, a deadlock
\* with another writer's batch) and a cancellation pass; a batch the database
\* does not take fails every time.
WriteFails(i, p) ==
  \/ ~Takes(p, inflight[i][p]) /\ UNCHANGED faults
  \/ ~ContextAlive(i) /\ UNCHANGED faults
  \/ faults < MaxFaults /\ faults' = faults + 1

\* The other outcome of the turn: the batch goes back through add.  The error
\* may have come after the commit.
FlushPageFails(i, p) ==
  /\ InFlush(i, p)
  /\ WriteFails(i, p)
  /\ Add(i, p, inflight[i][p])
  /\ inflight' = [inflight EXCEPT ![i][p] = Nothing]
  /\ \/ UNCHANGED rows
     \/ /\ Takes(p, inflight[i][p])
        /\ rows' = [rows EXCEPT ![p] = MergeElements(@, inflight[i][p])]
  /\ UNCHANGED <<pages, phase, stopping, accepted, gone>>

\* flush returns: back to the select, or out of Run after the last one.
EndFlush(i) ==
  /\ phase[i] \in {"flushing", "final"}
  /\ inflight[i] = Empty
  /\ phase' = [phase EXCEPT ![i] = IF @ = "final" THEN "exited" ELSE "idle"]
  /\ UNCHANGED <<rows, pages, pending, inflight, wake, stopping, faults,
                 accepted, gone>>

-----------------------------------------------------------------------------
\* main: the process comes up with an empty buffer.
Start(i) ==
  /\ phase[i] = "down"
  /\ phase' = [phase EXCEPT ![i] = "idle"]
  /\ UNCHANGED <<rows, pages, pending, inflight, wake, stopping, faults,
                 accepted, gone>>

\* main on SIGTERM: bgCancel().
Cancel(i) ==
  /\ phase[i] \in {"idle", "flushing"} /\ ~stopping[i]
  /\ stopping' = [stopping EXCEPT ![i] = TRUE]
  /\ UNCHANGED <<rows, pages, pending, inflight, wake, phase, faults,
                 accepted, gone>>

\* The memory of the process is lost with it.
Die(i) ==
  /\ phase' = [phase EXCEPT ![i] = "down"]
  /\ pending' = [pending EXCEPT ![i] = Empty]
  /\ inflight' = [inflight EXCEPT ![i] = Empty]
  /\ wake' = [wake EXCEPT ![i] = FALSE]
  /\ stopping' = [stopping EXCEPT ![i] = FALSE]
  /\ gone' = [p \in Pages |->
                Merge(Merge(gone[p], pending[i][p]), inflight[i][p])]
  /\ UNCHANGED <<rows, pages, faults, accepted>>

\* main after bgWg.Wait() and srv.Shutdown: the process ends in good order.
Exit(i) == phase[i] = "exited" /\ Die(i)

Crash(i) == phase[i] \in {"idle", "flushing", "final"} /\ Die(i)

-----------------------------------------------------------------------------
Tombstones == {key \in Pages \X Ids :
                 /\ rows[key[1]][key[2]] # NoEdit
                 /\ rows[key[1]][key[2]].del}

\* DeleteOldTombstones: which tombstones are a day old is left open.
DeleteOldTombstones ==
  \E old \in SUBSET Tombstones :
    /\ old # {}
    /\ rows' = [p \in Pages |-> [id \in Ids |->
                  IF <<p, id>> \in old THEN NoEdit ELSE rows[p][id]]]
    /\ gone' = [p \in Pages |-> [id \in Ids |->
                  IF <<p, id>> \in old /\ rows[p][id].del
                  THEN Later(gone[p][id], rows[p][id]) ELSE gone[p][id]]]
    /\ UNCHANGED <<pages, pending, inflight, wake, phase, stopping, faults,
                   accepted>>

\* DeletePage: ON DELETE CASCADE takes the elements along.  The buffers are
\* not told.
DeletePage(p) ==
  /\ p \in Deletable \cap pages
  /\ pages' = pages \ {p}
  /\ rows' = [rows EXCEPT ![p] = Nothing]
  /\ UNCHANGED <<pending, inflight, wake, phase, stopping, faults, accepted, gone>>

-----------------------------------------------------------------------------
\* A step of the goroutine that runs elementBuffer.Run.
Flusher(i) ==
  \/ Tick(i) \/ Woken(i) \/ FinalFlush(i) \/ EndFlush(i)
  \/ \E p \in Pages : FlushPage(i, p) \/ FlushPageFails(i, p)

Next ==
  \/ \E i \in Instances :
       \/ Flusher(i)
       \/ Start(i) \/ Cancel(i) \/ Exit(i) \/ Crash(i)
       \/ \E p \in Pages, raw \in RawMap :
            AddPayload(i, p, raw) \/ MergeSnapshot(i, p, raw)
  \/ DeleteOldTombstones
  \/ \E p \in Pages : DeletePage(p)

Spec == Init /\ [][Next]_vars

\* The flusher of a running process is scheduled, and a cancelled context is
\* not overlooked for ever: select is fair, and after a tick the next one is
\* a second away.  Nothing else has to happen.  (The flusher accepts nothing
\* anyway: that it is said again lets TLC tell other steps apart at once.)
FairSpec ==
  Spec /\ \A i \in Instances : /\ WF_vars(UNCHANGED accepted /\ Flusher(i))
                              /\ SF_vars(UNCHANGED accepted /\ FinalFlush(i))

-----------------------------------------------------------------------------
(* Properties *)

\* Some live copy of the edit, or of one that beats it, is on its way.
Kept(p, id, e) ==
  \/ Covers(rows[p][id], e)
  \/ \E i \in Instances :
       Covers(pending[i][p][id], e) \/ Covers(inflight[i][p][id], e)

\* No accepted edit disappears without a trace: until its page is deleted, it
\* or an edit that beats it is in the table, in a buffer or in a flush under
\* way; else it died with the memory of a process or was swept as a
\* tombstone.  Failed batches, newer edits that arrive during a flush, two
\* instances and commits reported as errors do not break this.
NoSilentLoss ==
  \A t \in accepted :
    t[1] \in pages => Kept(t[1], t[2], t[3]) \/ Covers(gone[t[1]][t[2]], t[3])

\* Whatever is stored or buffered was accepted, as it stands.
NothingInvented ==
  \A p \in Pages :
    /\ Triples(p, rows[p]) \subseteq accepted
    /\ \A i \in Instances : Triples(p, pending[i][p]) \subseteq accepted
                           /\ Triples(p, inflight[i][p]) \subseteq accepted

\* Between two flushes no batch is out.
QuietOutsideFlush ==
  \A i \in Instances :
    phase[i] \notin {"flushing", "final"} => inflight[i] = Empty

\* The table has no elements of a page that was deleted.
NoOrphanRows == \A p \in Pages \ pages : rows[p] = Nothing

\* The inductive invariant behind NoSilentLoss and the refinement.
IndInv ==
  TypeOK /\ NoSilentLoss /\ NothingInvented /\ QuietOutsideFlush /\ NoOrphanRows

\* A page that has grown past the threshold never waits for the next tick:
\* the flusher has been asked, even if the growth came from a failed batch
\* that was put back or from hubs that add during a flush.
BigBatchIsSignalled ==
  \A i \in Instances, p \in Pages :
    Cardinality(Present(pending[i][p])) >= FlushThreshold => wake[i]

\* The buffer implements the store: swapping, retries, two instances and
\* crashes show as nothing but accepted edits moving rows upwards.
Store == INSTANCE BoardStore WITH rows <- rows, pages <- pages,
                                accepted <- accepted
RefinesStore == Store!StoreSpec

Waits(i, p, id, e) ==
  /\ phase[i] \in {"idle", "flushing"}
  /\ pending[i][p][id] = e \/ inflight[i][p][id] = e

\* It is in the table, or beaten there, or nobody can be blamed that it is not.
Durable(i, p, id, e) ==
  \/ Covers(rows[p][id], e) \/ Covers(gone[p][id], e)
  \/ p \notin pages
  \/ phase[i] = "exited" /\ faults > 0

\* The element the table does not take is still in the page's batch.
Refused(i, p, id) ==
  \/ pending[i][p][id] \notin Storable \cup {NoEdit}
  \/ inflight[i][p][id] \notin Storable \cup {NoEdit}

\* An edit that can be stored and that waits while the flusher still takes
\* orders reaches the table, or one that beats it does: failed batches are tried
\* again, and a shutdown that starts at any moment flushes first.  The only
\* excuses are a fault of the database during that last flush, the deletion of
\* the page itself, and an element of the page that the table refuses, as long
\* as it is in the batch.
EventuallyDurable ==
  \A i \in Instances, p \in Pages, id \in Ids, e \in Storable :
    Waits(i, p, id, e) ~> Durable(i, p, id, e) \/ \E bad \in Ids : Refused(i, p, bad)

\* Not a property of the code, though models/whiteboard.go:101-103 wants it: an
\* element that cannot be stored does not cost its neighbours.  What the parser
\* lets through and Postgres refuses (a version beyond int4, a NUL in a text)
\* fails the whole page with every flush, the last one included.
BadElementCostsNoOther ==
  \A i \in Instances, p \in Pages, id \in Ids, e \in Storable :
    Waits(i, p, id, e) ~> Durable(i, p, id, e) \/ Refused(i, p, id)

\* Not a property of the code, though main.go:135-137 claims it of a deploy
\* (because bgWg.Wait() precedes srv.Shutdown, a process that ends in good
\* order leaves nothing unwritten): the hubs outlive the flusher.
OrderlyExitIsLossless ==
  [][\A i \in Instances : Exit(i) => pending[i] = Empty]_vars
=============================================================================
