----------------------------- MODULE IndexSystem -----------------------------
(***************************************************************************)
(* The indexer as a whole: one log and one projection loop for the events  *)
(* of every contract, the reconcilers and the readers beside it.           *)
(***************************************************************************)
EXTENDS PredictionIndex, InferenceIndex

vars == <<projVars, plan, predVars, infVars>>

Merge(f, g) ==
  [k \in DOMAIN f \cup DOMAIN g |-> IF k \in DOMAIN f THEN f[k] ELSE g[k]]
Tables == Merge(MarketTables, Merge(OrderTables, InferenceTables))

\* A scenario may begin with events captured before.
Init ==
  /\ plan \in Plans
  /\ ProjInit([Tables EXCEPT !.tokens = plan.tokens], plan.boot)
  /\ PredInit /\ InfInit

\* project_event: the projector of the contract that emitted the event.
ProjectEvent(d, e, i) ==
  IF OfInferenceBook(e) THEN ProjectInference(d, e, i)
  ELSE IF e.type = "InferenceDealClosed" THEN ApplyInferenceDealClosed(d, e, i)
  ELSE IF "tc" \in DOMAIN e THEN ProjectTokenContract(d, e, i)
  ELSE ProjectPrediction(d, e, i)

Idle == UNCHANGED <<plan, predVars, infVars>>
Project == ProjectNext(ProjectEvent) /\ Idle
Retry == RetryPass /\ Idle
Fault == (RowFails \/ PassAborts) /\ Idle

Next ==
  \/ Project \/ Retry \/ Fault
  \/ PredictionStep /\ UNCHANGED infVars
  \/ InferenceStep /\ UNCHANGED predVars

Spec == Init /\ [][Next]_vars

\* The scenarios that ask whether something happens in the end are marked.
ToTheEnd == "live" \in plan.moves

\* Every task of the indexer is a loop that goes on after an error, and a book is
\* fetched again and again; a retry pass comes to an orphan until it is past the
\* cutoff, and the book finishes what it has queued: it sends itself the next
\* message.  Nothing is assumed of the contracts' users.
Fairness ==
  /\ WF_vars(ToTheEnd /\ Project) /\ WF_vars(ToTheEnd /\ Retry)
  /\ WF_vars(ToTheEnd /\ CaptureStep /\ UNCHANGED predVars)
  /\ SF_vars(ToTheEnd /\ DeadLetter /\ UNCHANGED predVars)
  /\ WF_vars(ToTheEnd /\ (\E o \in InfIds : Finish(o)) /\ UNCHANGED predVars)
  /\ \A q \in BOOLEAN : SF_vars(ToTheEnd /\ SelectBooks(q) /\ UNCHANGED predVars)
  /\ SF_vars(ToTheEnd /\ (\E r \in batch : FetchBook(r, BookAccount(r.book))) /\ UNCHANGED predVars)
  /\ WF_vars(/\ ToTheEnd /\ UNCHANGED predVars
             /\ Describe \/ SweepGates \/ SweepProbe \/ SweepWrite \/ SweepStamp)
  /\ WF_vars(ToTheEnd /\ (\E b \in Books : BookCoolDown(b)) /\ UNCHANGED predVars)

FairSpec == Spec /\ Fairness

-----------------------------------------------------------------------------
(* Properties. *)

\* Whatever the order in which the projection loop applied the events, with
\* deferrals, failed rows and retry passes, and whatever the reconcilers wrote from
\* older snapshots: once the log is projected, the rows of markets, orders, trades
\* and deals say what the contracts say.
RowsMirrorChain ==
  /\ MarketMirrors /\ OrdersMirror /\ TapeMirrors
  /\ InferenceMirrors /\ InfTapeMirrors /\ DealMirrors

\* What the API serves from the rows holds while they change: a page shows markets
\* of its status only, a timed market can be served, one book is served for a
\* model, an answered lookup misses only a SELL placed since the last poll, and
\* pages neither skip nor repeat an order.
ServedSound ==
  FilterAgrees /\ TimedServable /\ NewestServed /\ AbsenceIsTrue /\ PagedOnce

\* No write takes back what was served, late events of a retry pass and stale
\* snapshots included: a cancelled market stays cancelled, a terminal order keeps
\* its status, a changed depth has a larger lastUpdateId, and a book is stamped
\* visible only with the rows closed that the sweep found dead.
NothingTakenBack ==
  [][CancelledForGood /\ TerminalKept /\ DepthStamped /\ StampedClean]_db

\* Every captured event is projected or dead-lettered in the end: one that is
\* deferred or fails is taken up by a retry pass from the front of the log.  An
\* order that left its book without an event is not shown as open for ever.
EverythingProjected ==
  <>[](ToTheEnd => /\ CaughtUp
                   /\ \A o \in InfRows : State(o) = "gone" => db.infOrders[o].status # "OPEN")
=============================================================================
