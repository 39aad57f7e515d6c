---------------------------- MODULE Reprojection ----------------------------
(***************************************************************************)
(* The projection loop over the captured events.  The log holds the events *)
(* of raw_events in chain order; a pass walks it upwards from the floor,   *)
(* or from the front when it is a retry pass, and applies each pending row *)
(* in a transaction.  A row that is deferred or fails stays pending and is *)
(* left for a later retry pass, so events may be applied out of order.     *)
(*                                                                         *)
(* CaptureBarrier models how the log is filled and that it has no gaps     *)
(* below the barrier; a batch is one row here, so that every other task    *)
(* may run between any two rows, and a row captured during a pass is taken *)
(* by it.                                                                  *)
(***************************************************************************)
EXTENDS ReadModel

CONSTANTS Plans,    \* scenarios, one of which is chosen in Init
          MaxFaults \* bound: rows that fail and passes that are aborted

VARIABLES plan,   \* the scenario
          stream, \* emitted and not yet captured
          left,   \* how many of them were there, beyond its page, at the last poll
          log,    \* the captured events, in chain order
          done,   \* positions with processed_at set
          after,  \* the position the pass has reached
          floor,  \* where a forward pass starts
          aged,   \* pending inference rows that a retry pass has come by
          db,     \* the tables
          faults

projVars == <<stream, left, log, done, after, floor, aged, db, faults>>

\* at_head: the last page captured was the last one there was.
head == left = 0

Pending == DOMAIN log \ done
Ahead == {i \in Pending : i > after}

ProjInit(tables, boot) ==
  /\ stream = <<>> /\ left = 0
  /\ log = boot /\ done = {} /\ after = 0 /\ floor = 0 /\ aged = {}
  /\ db = tables /\ faults = 0

\* Where a lag of the capture makes no difference, events are captured at once.
Emit(events) == log' = log \o events /\ UNCHANGED <<stream, left>>
EmitLagged(events) == stream' = stream \o events /\ UNCHANGED <<log, left>>

\* A poll: a page of k events is captured; at_head is what it knew of the rest.
Capture(k) ==
  /\ k \in 1..Len(stream)
  /\ log' = log \o SubSeq(stream, 1, k)
  /\ stream' = SubSeq(stream, k + 1, Len(stream))
  /\ left' = Len(stream) - k
  /\ UNCHANGED <<done, after, floor, aged, db, faults>>

\* The pass moves past row i; without another row ahead it ends clean at its
\* ceiling, which becomes the floor.
Advance(i) ==
  /\ after' = i
  /\ floor' = IF Ahead = {i} THEN i ELSE floor

\* reproject_pending_from for the next row: Project is the projector.
ProjectNext(Project(_, _, _)) ==
  /\ Ahead # {}
  /\ LET i == Min(Ahead)
         result == Project(db, log[i], i)
     IN /\ db' = result.db
        /\ done' = IF result.out = "Deferred" THEN done ELSE done \cup {i}
        /\ aged' = IF result.out = "Deferred" THEN aged ELSE aged \ {i}
        /\ Advance(i)
  /\ UNCHANGED <<stream, left, log, faults>>

\* The row's projector fails and its savepoint is rolled back.
RowFails ==
  /\ Ahead # {} /\ "fault" \in plan.moves /\ faults < MaxFaults
  /\ Advance(Min(Ahead))
  /\ faults' = faults + 1
  /\ UNCHANGED <<stream, left, log, done, aged, db>>

\* The pass is aborted by a database error: the next forward pass starts again
\* at the floor.
PassAborts ==
  /\ Ahead # {} /\ "fault" \in plan.moves /\ faults < MaxFaults
  /\ after' = floor
  /\ faults' = faults + 1
  /\ UNCHANGED <<stream, left, log, done, aged, db, floor>>

\* An event of an inference order book.
OfInferenceBook(e) == "book" \in DOMAIN e

\* The retry timer: a pass from the front.  Rows ahead may have been captured
\* above the ceiling of the pass that ends.  The rows that are pending now were
\* captured before this pass: its timer is much shorter than the cutoff of a
\* dead letter, so only these can be past that cutoff when the pass reaches them.
RetryPass ==
  /\ Pending \cap 1..after # {}
  /\ after' = 0 /\ aged' = {i \in Pending : OfInferenceBook(log[i])}
  /\ UNCHANGED <<stream, left, log, done, db, floor, faults>>

Settled == Pending = {}
=============================================================================
