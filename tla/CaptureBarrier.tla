--------------------------- MODULE CaptureBarrier ---------------------------
(***************************************************************************)
(* The indexer: two capture streams that copy the chain's events into      *)
(* raw_events, the aggregate barrier computed from their cursors, and the  *)
(* loop that projects raw events up to that barrier.                       *)
(*                                                                         *)
(* An event is its position in chain order, a natural number; 0 stands for *)
(* an absent cursor.  A database transaction is one step; every await      *)
(* between two of them is a point where other tasks and the chain may run. *)
(* The gateway is external: a query answers with the next PAGE_SIZE events *)
(* of its stream and says whether there are more.                          *)
(***************************************************************************)
EXTENDS Naturals, Sequences, FiniteSets, FiniteSetsExt

CONSTANTS Streams, PAGE_SIZE, MAX_PAGES_PER_TICK, BATCH_SIZE,
          MaxEvents,   \* bound: events on the chain
          MaxFails,    \* bound: failed queries, commits and projections
          MaxCrashes   \* bound: crashes of the process

ASSUME CaptureAssumption ==
  /\ IsFiniteSet(Streams) /\ Streams # {}
  /\ PAGE_SIZE \in Nat \ {0} /\ MAX_PAGES_PER_TICK \in Nat \ {0}
  /\ BATCH_SIZE \in Nat \ {0}
  /\ MaxEvents \in Nat /\ MaxFails \in Nat /\ MaxCrashes \in Nat

VARIABLES chain,      \* the stream of each event, in chain order
          raw, done,  \* rows of raw_events, and those with processed_at set
          rows,       \* stream -> its row of indexer_cursors
          barrier,    \* the aggregate row of indexer_cursors
          up,         \* the process runs; what follows is its memory
          cursor,     \* stream -> dapp_cursor, root_pn_cursor
          drain,      \* stream -> progress of its drain_events in this tick
          published, pendingHead,
          floor, pass,        \* of run_reprojection_loop
          fails, crashes,     \* counters for the bounds
          tickBase    \* history: chain length when the publishing tick began,
                      \* and when the current one did

dbVars == <<raw, done, rows, barrier>>
captureVars == <<cursor, drain, published, pendingHead>>
projectVars == <<floor, pass>>
vars == <<chain, dbVars, up, captureVars, projectVars, fails, crashes, tickBase>>

NoRow == [exists |-> FALSE, cursor |-> 0]
Barrier == [cursor : 0..MaxEvents, atHead : BOOLEAN]
NoHead == [cursor |-> 0, atHead |-> FALSE]
NewDrain == [st |-> "query", pages |-> 0, page |-> {}, atHead |-> FALSE]
NoPass == [on |-> FALSE, after |-> 0, ceiling |-> 0]

Events(s) == {e \in DOMAIN chain : chain[e] = s}
MaxOr0(S) == Max(S \cup {0})

\* The first n elements of a set of numbers.
Lowest(n, S) == {e \in S : Cardinality({d \in S : d < e}) < n}

Fail == fails < MaxFails /\ fails' = fails + 1

Init ==
  /\ chain = <<>> /\ raw = {} /\ done = {}
  /\ rows = [s \in Streams |-> NoRow]
  /\ barrier = NoHead
  /\ up = FALSE
  /\ cursor = [s \in Streams |-> 0]
  /\ drain = [s \in Streams |-> NewDrain]
  /\ published = 0 /\ pendingHead = NoHead
  /\ floor = 0 /\ pass = NoPass
  /\ fails = 0 /\ crashes = 0
  /\ tickBase = [publishing |-> 0, current |-> 0]

-----------------------------------------------------------------------------
(* The chain and the process. *)

Emit(s) ==
  /\ Len(chain) < MaxEvents
  /\ chain' = Append(chain, s)
  /\ UNCHANGED <<dbVars, up, captureVars, projectVars, fails, crashes, tickBase>>

\* initialize_capture_barrier, then the cursors are loaded: the aggregate cursor
\* is kept only if every stream has a row, and at_head is closed.
Start ==
  /\ ~up
  /\ up' = TRUE
  /\ barrier' = [cursor |-> IF \A s \in Streams : rows[s].exists
                            THEN barrier.cursor ELSE 0,
                 atHead |-> FALSE]
  /\ cursor' = [s \in Streams |-> rows[s].cursor]
  /\ drain' = [s \in Streams |-> NewDrain]
  /\ published' = barrier'.cursor /\ pendingHead' = NoHead
  /\ floor' = 0 /\ pass' = NoPass
  /\ tickBase' = [tickBase EXCEPT !.current = Len(chain)]
  /\ UNCHANGED <<chain, raw, done, rows, fails, crashes>>

Crash ==
  /\ up /\ crashes < MaxCrashes
  /\ up' = FALSE
  /\ crashes' = crashes + 1
  /\ UNCHANGED <<chain, dbVars, captureVars, projectVars, fails, tickBase>>

-----------------------------------------------------------------------------
(* drain_events: query a page, persist it, go on until head or the limit. *)

Query(s) ==
  /\ up /\ drain[s].st = "query"
  /\ LET ahead == {e \in Events(s) : e > cursor[s]}
         page  == Lowest(PAGE_SIZE, ahead)
     IN drain' = [drain EXCEPT ![s] =
                    [st |-> "persist", pages |-> @.pages + 1, page |-> page,
                     atHead |-> page = ahead]]
  /\ UNCHANGED <<chain, dbVars, up, cursor, published, pendingHead, projectVars,
                 fails, crashes, tickBase>>

\* Mutant: the cursor is committed without the rows.
PageCommit_CursorOnly(s) ==
  /\ rows' = [rows EXCEPT ![s] = [exists |-> TRUE,
                                  cursor |-> MaxOr0(drain[s].page \cup {@.cursor})]]
  /\ raw' = raw

\* The transaction of persist_page: rows and cursor together; an empty page
\* has no end cursor and leaves the stored one (coalesce).
PageCommit(s) ==
  /\ raw' = raw \cup drain[s].page
  /\ rows' = [rows EXCEPT ![s] =
       [exists |-> TRUE,
        cursor |-> IF drain[s].page = {} THEN @.cursor ELSE Max(drain[s].page)]]

\* The loop of drain_events ends at head or at the limit of pages.
TickDone(d) == d.atHead \/ d.pages >= MAX_PAGES_PER_TICK

Persist(s) ==
  /\ up /\ drain[s].st = "persist"
  /\ PageCommit(s)
  /\ cursor' = [cursor EXCEPT ![s] = MaxOr0(drain[s].page \cup {@})]
  /\ drain' = [drain EXCEPT ![s].st = IF TickDone(drain[s]) THEN "ok" ELSE "query"]
  /\ UNCHANGED <<chain, done, barrier, up, published, pendingHead, projectVars,
                 fails, crashes, tickBase>>

\* A failed query or commit ends the stream's drain with an error.
DrainFails(s) ==
  /\ up /\ drain[s].st \in {"query", "persist"}
  /\ Fail
  /\ drain' = [drain EXCEPT ![s].st = "err"]
  /\ UNCHANGED <<chain, dbVars, up, cursor, published, pendingHead, projectVars,
                 crashes, tickBase>>

\* The commit takes effect but its answer is lost: the in-memory cursor stays
\* behind and the page is fetched again.
CommitUnconfirmed(s) ==
  /\ up /\ drain[s].st = "persist"
  /\ Fail
  /\ PageCommit(s)
  /\ drain' = [drain EXCEPT ![s].st = "err"]
  /\ UNCHANGED <<chain, done, barrier, up, cursor, published, pendingHead,
                 projectVars, crashes, tickBase>>

-----------------------------------------------------------------------------
(* The end of a tick. *)

\* Mutant: an all-head candidate is published at once.
Stabilized_Immediate(candidate) == candidate

\* synchronized_capture_barrier: the highest cursor when all streams are at head,
\* else the lowest cursor of those that are not.
Synchronized ==
  LET behind == {s \in Streams : ~drain[s].atHead}
  IN [cursor |-> IF behind = {} THEN Max({cursor[s] : s \in Streams})
                 ELSE Min({cursor[s] : s \in behind}),
      atHead |-> behind = {}]

\* stabilized_capture_barrier: an all-head candidate waits for the next tick,
\* meanwhile the previous one (or the published cursor) is used.
Stabilized(candidate) ==
  IF ~candidate.atHead THEN candidate
  ELSE [cursor |-> IF pendingHead.cursor # 0 THEN pendingHead.cursor
                   ELSE published,
        atHead |-> TRUE]

NextTick == drain' = [s \in Streams |-> NewDrain]

TickEnded == up /\ \A s \in Streams : drain[s].st \in {"ok", "err"}
TickOk == \A s \in Streams : drain[s].st = "ok"

Candidate == IF Synchronized.atHead THEN Synchronized ELSE NoHead

Publish ==
  /\ TickEnded /\ TickOk
  /\ barrier' = Stabilized(Synchronized)
  /\ published' = barrier'.cursor
  /\ pendingHead' = Candidate
  /\ tickBase' = [publishing |-> tickBase.current, current |-> Len(chain)]
  /\ NextTick
  /\ UNCHANGED <<chain, raw, done, rows, up, cursor, projectVars, fails, crashes>>

\* set_capture_barrier fails: the row and the published cursor stay, the
\* candidate has already been replaced.
PublishFails ==
  /\ TickEnded /\ TickOk
  /\ Fail
  /\ pendingHead' = Candidate
  /\ tickBase' = [tickBase EXCEPT !.current = Len(chain)]
  /\ NextTick
  /\ UNCHANGED <<chain, dbVars, up, cursor, published, projectVars, crashes>>

\* A tick with a failed stream publishes nothing.
SkipPublish ==
  /\ TickEnded /\ ~TickOk
  /\ tickBase' = [tickBase EXCEPT !.current = Len(chain)]
  /\ NextTick
  /\ UNCHANGED <<chain, dbVars, up, cursor, published, pendingHead, projectVars,
                 fails, crashes>>

-----------------------------------------------------------------------------
(* run_reprojection_loop. *)

Pending == raw \ done
Projectable == {e \in Pending : e <= barrier.cursor}

\* Mutant: a retry pass resumes above the floor like a forward pass.
PassFrom_NoRewind(retry) == floor

\* A forward pass resumes above the floor, a retry pass rewinds to the front.
PassFrom(retry) == IF retry THEN 0 ELSE floor

StartPass(retry) ==
  /\ up /\ ~pass.on /\ Projectable # {}
  /\ pass' = [on |-> TRUE, after |-> PassFrom(retry), ceiling |-> Max(Projectable)]
  /\ UNCHANGED <<chain, dbVars, up, captureVars, floor, fails, crashes, tickBase>>

Batch == Lowest(BATCH_SIZE, {e \in Pending : pass.after < e /\ e <= pass.ceiling})

\* A batch is full: the pass goes on behind it; else the pass is over and the
\* floor rises to its ceiling.
AfterBatch ==
  IF Cardinality(Batch) < BATCH_SIZE
  THEN pass' = NoPass /\ floor' = pass.ceiling
  ELSE pass' = [pass EXCEPT !.after = Max(Batch)] /\ floor' = floor

\* reproject_pending_from: rows whose projector succeeds are marked in the
\* transaction that applies them.
ProjectBatch ==
  /\ up /\ pass.on
  /\ done' = done \cup Batch
  /\ AfterBatch
  /\ UNCHANGED <<chain, raw, rows, barrier, up, captureVars, fails, crashes, tickBase>>

\* One row of the batch is deferred or fails and stays pending.
ProjectAllBut(e) ==
  /\ up /\ pass.on /\ Fail
  /\ done' = done \cup (Batch \ {e})
  /\ AfterBatch
  /\ UNCHANGED <<chain, raw, rows, barrier, up, captureVars, crashes, tickBase>>

\* The sweep itself fails: nothing is marked and the floor stays.
PassFails ==
  /\ up /\ pass.on /\ Fail
  /\ pass' = NoPass
  /\ UNCHANGED <<chain, dbVars, up, captureVars, floor, crashes, tickBase>>

Capture(s) == Query(s) \/ Persist(s)
TickEnd == Publish \/ SkipPublish

Next ==
  \/ \E s \in Streams : Emit(s) \/ Capture(s) \/ DrainFails(s) \/ CommitUnconfirmed(s)
  \/ Start \/ Crash
  \/ TickEnd \/ PublishFails
  \/ \E retry \in BOOLEAN : StartPass(retry)
  \/ ProjectBatch \/ PassFails
  \/ \E e \in Batch : ProjectAllBut(e)

Spec == Init /\ [][Next]_vars

\* The process is restarted after a crash and its tasks keep running; the retry
\* timer makes some later pass a retry pass, however many forward passes run.
FairSpec ==
  /\ Spec
  /\ WF_vars(Start)
  /\ \A s \in Streams : WF_vars(Capture(s))
  /\ WF_vars(TickEnd)
  /\ WF_vars(ProjectBatch)
  /\ SF_vars(StartPass(TRUE))

-----------------------------------------------------------------------------
(* Properties. *)

\* Types; a drain stays within MAX_PAGES_PER_TICK (drain_events), only captured
\* rows are marked processed, only chain events are captured.
TypeOK ==
  /\ chain \in Seq(Streams) /\ Len(chain) <= MaxEvents
  /\ done \subseteq raw /\ raw \subseteq DOMAIN chain
  /\ barrier \in Barrier /\ pendingHead \in Barrier
  /\ cursor \in [Streams -> 0..Len(chain)]
  /\ \A s \in Streams : drain[s].pages \in 0..MAX_PAGES_PER_TICK

\* Crash safety of persist_page: a stored cursor never runs ahead of the rows,
\* so a restart from it skips no event, and memory never runs ahead of it.
CursorCoversRows ==
  TypeOK /\ \A s \in Streams :
    /\ \A e \in Events(s) : e <= rows[s].cursor => e \in raw
    /\ up => cursor[s] <= rows[s].cursor

Complete(n) == \A e \in DOMAIN chain : e <= n => e \in raw

\* A barrier published with at_head, which the read API and the orphan gate
\* rely on, has no uncaptured event below it, although the streams are polled
\* without a common snapshot (stabilized_capture_barrier).  Every barrier, also
\* of a backfill, covers what was on the chain when the tick that published it
\* began (synchronized_capture_barrier): an event can slip below a barrier only
\* if it was emitted during that tick.
BarrierComplete ==
  /\ barrier.atHead => Complete(barrier.cursor)
  /\ \A e \in DOMAIN chain :
       (e <= barrier.cursor /\ e <= tickBase.publishing) => e \in raw

\* Every event is projected in the end, also one captured below the floor of
\* the projection loop, which only a retry pass reaches: once the chain is
\* quiet, nothing stays pending for good.
EventuallyProjected == []<>(DOMAIN chain \subseteq done)
=============================================================================
