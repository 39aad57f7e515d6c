----------------------------- MODULE MarketRows -----------------------------
(***************************************************************************)
(* The tables of the prediction markets and of the oracles: their          *)
(* projectors, what the two reconcilers write, and what GET                *)
(* /prediction/markets and GET /oracles make of a row.                     *)
(*                                                                         *)
(* An event list offers one event.  Columns that are copied and never read *)
(* by a decision (names, fees, JSON) are left out; a timestamp that is only*)
(* tested for NULL is TRUE or NULL.  The gateway gives every event its     *)
(* time; of an event without one only the columns of that time stay NULL.  *)
(***************************************************************************)
EXTENDS ReadModel

CONSTANTS Pmps,       \* markets
          EventLists, \* oracle event lists
          Outcomes    \* the outcomes of every market

NewList(text) == [text |-> text, failed |-> FALSE]
NewEvent == [confirmed |-> NULL, range |-> NULL, meta |-> FALSE]
NewMarket ==
  [timings |-> NULL, frozenAt |-> NULL, resolvedAt |-> NULL, outcome |-> NULL,
   isCancelled |-> FALSE, cancelledAt |-> NULL, reason |-> NULL,
   outcomes |-> {}, book |-> NULL, reconciled |-> FALSE, failed |-> FALSE]

MarketTables ==
  [tokens  |-> FALSE,   \* ref_tokens has the market's token type
   oracle  |-> FALSE,   \* the oracles row of the lists' oracle exists
   lists   |-> [l \in EventLists |-> NULL],
   events  |-> [l \in EventLists |-> NULL],
   markets |-> [p \in Pmps |-> NULL]]

-----------------------------------------------------------------------------
(* Projectors. *)

ApplyOracleDeployed(db, e) == Applied([db EXCEPT !.oracle = TRUE])

\* A later emission without a description keeps the one on record.
ApplyOracleEventListDeployed(db, e) ==
  IF ~db.oracle THEN Deferred(db)
  ELSE Applied([db EXCEPT !.lists[e.list] =
         IF @ = NULL THEN NewList(e.text) ELSE [@ EXCEPT !.text = Coalesce(e.text, @)]])

ApplyEventAdded(db, e) ==
  IF db.lists[e.list] = NULL THEN Deferred(db)
  ELSE Applied([db EXCEPT !.events[e.list] = Coalesce(@, NewEvent)])

ApplyEventConfirmed(db, e) ==
  UpdateRow(db, "events", e.list, LAMBDA ev : [ev EXCEPT !.confirmed = e.pmp])

ApplyRangeEventAdded(db, e) ==
  UpdateRow(db, "events", e.list, LAMBDA ev : [ev EXCEPT !.range = e.ob])

\* Unknown token type: deferred until ref_tokens has it.
ApplyPMPDeployed(db, e) ==
  IF ~db.tokens THEN Deferred(db)
  ELSE Applied([db EXCEPT !.markets[e.pmp] = Coalesce(@, NewMarket)])

ApplyTimingsSet(db, e) ==
  UpdateRow(db, "markets", e.pmp, LAMBDA m : [m EXCEPT !.timings = e.timings])

ApplyPoolsFrozen(db, e) ==
  UpdateRow(db, "markets", e.pmp, LAMBDA m : [m EXCEPT !.frozenAt = TRUE])

ApplyResolved(db, e) ==
  UpdateRow(db, "markets", e.pmp,
    LAMBDA m : [m EXCEPT !.resolvedAt = TRUE, !.outcome = e.outcome])

ApplyPmpCancellation(db, e, reason) ==
  UpdateRow(db, "markets", e.pmp,
    LAMBDA m : [m EXCEPT !.isCancelled = TRUE, !.cancelledAt = TRUE,
                         !.reason = Coalesce(@, reason)])

-----------------------------------------------------------------------------
(* Reconcilers. *)

\* The markets reconcile_one may be called for.
PendingMarkets(db) ==
  {p \in Pmps : /\ db.markets[p] # NULL
                /\ ~db.markets[p].reconciled /\ ~db.markets[p].failed}

\* The transaction of reconcile_one, from the getters' answers d on a BOC.  The
\* timings are left to the projector; a recorded cancellation is not erased.
WriteMarket(m, d) ==
  [m EXCEPT !.isCancelled = d.cancelled,
            !.cancelledAt = IF d.cancelled THEN TRUE ELSE @,
            !.outcomes = @ \cup d.outcomes,
            !.book = TRUE, !.reconciled = TRUE, !.failed = FALSE]

StampFailure(row) == [row EXCEPT !.failed = TRUE]

PendingLists(db) ==
  {l \in EventLists : /\ db.lists[l] # NULL /\ ~db.lists[l].failed
                      /\ db.events[l] # NULL /\ ~db.events[l].meta}

\* apply_event_metadata for the events in the BOC: no progress is a failure.
WriteList(db, l, events) ==
  IF l \in events
  THEN [db EXCEPT !.events[l].meta = TRUE, !.lists[l].failed = FALSE]
  ELSE [db EXCEPT !.lists[l] = StampFailure(@)]

-----------------------------------------------------------------------------
(* What the API serves. *)

StakeStart(m) == m.timings[1]
StakeEnd(m) == m.timings[2]
ResultStart(m) == m.timings[3]
ResultEnd(m) == m.timings[4]

\* The CASE expression the status filter evaluates in the database.
StatusCase(m, now) ==
  IF m.cancelledAt # NULL \/ m.isCancelled THEN "CANCELLED"
  ELSE IF m.resolvedAt # NULL THEN "RESOLVED"
  ELSE IF m.timings = NULL THEN "PENDING"
  ELSE IF m.frozenAt = NULL /\ now >= StakeEnd(m) THEN "AWAITING_FREEZE"
  ELSE IF m.frozenAt = NULL /\ now >= StakeStart(m) THEN "STAKING"
  ELSE IF m.frozenAt = NULL THEN "UPCOMING"
  ELSE IF now >= ResultEnd(m) THEN "EXPIRED"
  ELSE IF now >= ResultStart(m) THEN "RESOLVING"
  ELSE "TRADING"

PreFreeze(m, now) ==
  IF now >= StakeEnd(m) THEN "AWAITING_FREEZE"
  ELSE IF now >= StakeStart(m) THEN "STAKING" ELSE "UPCOMING"

PostFreeze(m, now) ==
  IF now >= ResultEnd(m) THEN "EXPIRED"
  ELSE IF now >= ResultStart(m) THEN "RESOLVING" ELSE "TRADING"

\* compute_status, evaluated in Rust for the response.
ComputeStatus(m, now) ==
  IF m.cancelledAt # NULL \/ m.isCancelled THEN "CANCELLED"
  ELSE IF m.resolvedAt # NULL THEN "RESOLVED"
  ELSE IF m.timings = NULL THEN "PENDING"
  ELSE IF m.frozenAt = NULL THEN PreFreeze(m, now)
  ELSE PostFreeze(m, now)

\* build_timings, build_terminal
BuildTimings(m, status) == IF status = "PENDING" THEN NULL ELSE m.timings
BuildTerminal(m, status) ==
  CASE status = "RESOLVED" -> [kind |-> status, value |-> m.outcome]
    [] status = "CANCELLED" -> [kind |-> status, value |-> m.reason]
    [] status = "EXPIRED" -> [kind |-> status, value |-> NULL]
    [] OTHER -> NULL

\* validate_invariants
Consistent(m, status) ==
  LET terminal == BuildTerminal(m, status)
  IN /\ (status = "PENDING") = (BuildTimings(m, status) = NULL)
     /\ status = "CANCELLED" => m.cancelledAt # NULL
     /\ status \in {"RESOLVED", "CANCELLED"} => terminal.value # NULL
     /\ status \in {"RESOLVED", "TRADING", "RESOLVING"} => m.frozenAt # NULL

\* fetch_one: 404 until the market is reconciled, 503 on an inconsistent row.
Serve(m, now) ==
  IF m = NULL \/ ~m.reconciled THEN "NotFound"
  ELSE IF m.book # NULL /\ Consistent(m, ComputeStatus(m, now))
       THEN ComputeStatus(m, now) ELSE "MarketInconsistent"

\* fetch_listing: one inconsistent market on a page fails the page.
ListMarkets(db, status, now) ==
  LET page == {p \in Pmps : /\ db.markets[p] # NULL /\ db.markets[p].reconciled
                            /\ StatusCase(db.markets[p], now) = status}
  IN IF \E p \in page : Serve(db.markets[p], now) = "MarketInconsistent"
     THEN "MarketInconsistent" ELSE page

\* aggregate_oracle_events: the lists of a market's event block.
OracleBlock(db, p) ==
  {l \in EventLists : db.events[l] # NULL /\ db.events[l].confirmed = p}
=============================================================================
