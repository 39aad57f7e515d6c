---------------------------- MODULE InferenceRows ----------------------------
(***************************************************************************)
(* The tables of the inference books and of the deals matched in them: the *)
(* projectors of their events, what the reconciler writes, and what the    *)
(* read API makes of them.  i is the event's msg_chain_order.              *)
(***************************************************************************)
EXTENDS ReadModel

CONSTANTS Books,      \* inference order books
          InfIds,     \* their order ids
          Deals,      \* TokenContracts
          SWEEP_BATCH \* sweep_batch_n

NewBook ==
  [model |-> NULL, version |-> NULL, cursor |-> NULL,
   cycleMax |-> NULL, overrides |-> 0, reconciled |-> FALSE,
   superseded |-> FALSE, failed |-> FALSE]

NewDeal ==
  [book |-> NULL, seller |-> NULL, buyer |-> NULL, deposit |-> NULL,
   opened |-> NULL, settled |-> NULL, kind |-> NULL, clean |-> NULL,
   disputed |-> NULL, finalized |-> 0, claimed |-> NULL, last |-> 0]

NewInfOrder(e, i) ==
  [book |-> e.book, isBuy |-> e.isBuy, note |-> e.note, tc |-> e.tc,
   deadline |-> e.deadline, initial |-> e.ticks, remaining |-> e.ticks,
   status |-> "OPEN", swept |-> FALSE, last |-> i]

InferenceTables ==
  [books     |-> [b \in Books |-> NULL],
   infOrders |-> [o \in InfIds |-> NULL],
   infTrades |-> {},
   deals     |-> [d \in Deals |-> NULL],
   ticks     |-> {}]

-----------------------------------------------------------------------------
(* Deals. *)

SeedDeal(db, d) == [db EXCEPT !.deals[d] = Coalesce(@, NewDeal)]

\* Mutant: whatever ends a cycle ends it, a late event of an earlier one too.
EndFundingCycle_Unordered(db, d, i) ==
  LET row == db.deals[d]
  IN IF row = NULL \/ row.deposit = NULL THEN db
     ELSE [db EXCEPT !.deals[d] = [NewDeal EXCEPT !.book = row.book,
                                                  !.seller = row.seller, !.last = i],
                     !.ticks = {t \in @ : t.deal # d}]

\* A deal address serves several matches.  Only an event newer than the row may
\* end its cycle, and only a funded one; book and seller stay.
EndFundingCycle(db, d, i) ==
  LET row == db.deals[d]
  IN IF row = NULL \/ row.deposit = NULL \/ i <= row.last THEN db
     ELSE [db EXCEPT !.deals[d] = [NewDeal EXCEPT !.book = row.book,
                                                  !.seller = row.seller, !.last = i],
                     !.ticks = {t \in @ : t.deal # d}]

ApplyStreamFunded(db, e, i) ==
  Applied([EndFundingCycle(db, e.tc, i) EXCEPT
             !.deals[e.tc].buyer = Coalesce(@, e.buyer),
             !.deals[e.tc].deposit = Coalesce(@, e.deposit),
             !.deals[e.tc].last = Greatest(@, i)])

ApplyStreamOpened(db, e) ==
  Applied([db EXCEPT !.deals[e.tc].buyer = Coalesce(@, e.buyer),
                     !.deals[e.tc].opened = TRUE])

\* The claims are cumulative: they never walk back.
ApplyTicksClaimed(db, e, i) ==
  Applied([db EXCEPT !.deals[e.tc].claimed = Greatest(@, e.claimed),
                     !.deals[e.tc].last = Greatest(@, i)])

\* The count follows the rows: it is bumped by a real insert only.
ApplyTickFinalized(db, e, i) ==
  LET tick == [deal |-> e.tc, at |-> i]
  IN IF tick \in db.ticks THEN Applied(db)
     ELSE Applied([db EXCEPT !.ticks = @ \cup {tick}, !.deals[e.tc].finalized = @ + 1])

\* apply_close, apply_terminal_close: clean is NULL for the latter.
ApplyClose(db, e, kind, clean) ==
  Applied([db EXCEPT !.deals[e.tc].settled = TRUE,
                     !.deals[e.tc].kind = Coalesce(@, kind),
                     !.deals[e.tc].clean = Coalesce(@, clean)])

ApplyDisputed(db, e) ==
  Applied([db EXCEPT !.deals[e.tc].disputed = TRUE, !.deals[e.tc].clean = FALSE])

\* A note reports that its deal is over: a settled deal keeps its record.
ApplyInferenceDealClosed(db, e, i) ==
  LET row == db.deals[e.tc]
  IN IF row # NULL /\ (row.kind # NULL \/ row.settled # NULL) THEN Applied(db)
     ELSE Applied(EndFundingCycle(db, e.tc, i))

ProjectTokenContract(db, e, i) ==
  LET s == SeedDeal(db, e.tc)
  IN CASE e.type = "ContractDeployed"  -> Applied(s)
       [] e.type = "StreamFunded"      -> ApplyStreamFunded(s, e, i)
       [] e.type = "StreamOpened"      -> ApplyStreamOpened(s, e)
       [] e.type = "TickFinalized"     -> ApplyTickFinalized(s, e, i)
       [] e.type = "TicksClaimed"      -> ApplyTicksClaimed(s, e, i)
       [] e.type = "StreamStopped"     -> ApplyClose(s, e, "STOPPED", TRUE)
       [] e.type = "StreamDisputed"    -> ApplyDisputed(s, e)
       [] e.type = "DisputeResolved"   -> ApplyClose(s, e, "DISPUTE_RESOLVED", FALSE)
       [] e.type = "StreamReclaimed"   -> ApplyClose(s, e, "RECLAIMED", FALSE)
       [] e.type = "ContractDestroyed" -> ApplyClose(s, e, "DESTROYED", NULL)
       [] e.type = "ProbeBurned"       -> ApplyClose(s, e, "PROBE_BURNED", NULL)

-----------------------------------------------------------------------------
(* Books: the projectors. *)

SeedMarket(db, b) == [db EXCEPT !.books[b] = Coalesce(@, NewBook)]

\* upsert_resting_order: a replay rewrites only a row no other event has touched.
UpsertRestingOrder(db, e, i) ==
  LET row == db.infOrders[e.id]
      new == NewInfOrder(e, i)
  IN [db EXCEPT !.infOrders[e.id] =
        IF row = NULL THEN new
        ELSE IF row.status \in {"FILLED", "CANCELLED"} \/ row.remaining # row.initial THEN row
        ELSE [new EXCEPT !.tc = Coalesce(@, row.tc), !.swept = row.swept,
                         !.deadline = Coalesce(@, row.deadline),
                         !.last = Greatest(@, row.last)]]

\* A fresh SELL naming a deal proves that the deal's last match is over.
ApplyInferenceOrderPlaced(db, e, i) ==
  LET placed == UpsertRestingOrder(db, e, i)
  IN Applied(IF ~e.isBuy /\ e.tc # NULL THEN EndFundingCycle(placed, e.tc, i) ELSE placed)

ApplyInferenceSubscriptionPlaced(db, e, i) == Applied(UpsertRestingOrder(db, e, i))

Legs(db, e) == {o \in {e.maker, e.taker} : db.infOrders[o] # NULL}
RealCancel(r) == r.status = "CANCELLED" /\ ~r.swept

\* A filled or really cancelled row stands; a SELL closes with its first fill; a
\* row the sweep cancelled, or an expired one, is decremented and reopened.
FilledInfOrder(r, ticks, i) ==
  IF r.status = "FILLED" \/ RealCancel(r) THEN r
  ELSE LET left == IF r.remaining > ticks THEN r.remaining - ticks ELSE 0
       IN [r EXCEPT !.remaining = left, !.swept = FALSE, !.last = Greatest(@, i),
                    !.status = IF ~r.isBuy \/ left = 0 THEN "FILLED" ELSE "OPEN"]

\* apply_filled_decrement: an overridden sweep-cancel restarts the discovery
\* sweep of a book that is not visible yet.
ApplyFilledDecrement(db, e, i) ==
  [db EXCEPT !.infOrders = [o \in InfIds |-> IF o \in Legs(db, e)
                              THEN FilledInfOrder(@[o], e.ticks, i) ELSE @[o]],
             !.books[e.book] =
               IF ~@.reconciled /\ \E o \in Legs(db, e) : db.infOrders[o].swept
               THEN [@ EXCEPT !.cursor = NULL, !.overrides = @ + 1] ELSE @]

\* link_deal_from_filled: the newest match names the buyer.
LinkDeal(db, e, i) ==
  LET row == SeedDeal(db, e.tc).deals[e.tc]
      sells == {o \in Legs(db, e) : ~db.infOrders[o].isBuy}
      seller == IF sells = {} THEN NULL ELSE db.infOrders[CHOOSE o \in sells : TRUE].note
  IN [db EXCEPT !.deals[e.tc] =
        [row EXCEPT !.book = Coalesce(@, e.book), !.seller = Coalesce(@, seller),
                    !.buyer = IF i > row.last THEN e.buyer ELSE Coalesce(@, e.buyer),
                    !.last = Greatest(@, i)]]

\* resolve_is_buyer_maker and append_inference_trade: one trade per match,
\* with the direction of whichever leg is there.
AppendTrade(db, e, i) ==
  LET legs == Legs(db, e)
      buyerMaker == IF e.maker \in legs THEN db.infOrders[e.maker].isBuy
                    ELSE ~db.infOrders[e.taker].isBuy
  IN IF legs = {} \/ \E t \in db.infTrades : t.id = i THEN db
     ELSE [db EXCEPT !.infTrades = @ \cup {[id |-> i, book |-> e.book, qty |-> e.ticks,
                                            buyerMaker |-> buyerMaker, time |-> TRUE]}]

Match(db, e, i) == AppendTrade(LinkDeal(ApplyFilledDecrement(db, e, i), e, i), e, i)

\* apply_inference_filled: nothing is written before both legs are there.
ApplyInferenceFilled(db, e, i) ==
  IF Legs(db, e) # {e.maker, e.taker} THEN Deferred(db) ELSE Applied(Match(db, e, i))

\* repair_expired_inference_orphan: past the cutoff at head, the leg that is
\* missing will never come; the one that is there takes the fill.
RepairExpiredOrphan(db, e, i) == IF e.type = "InferenceFilled" THEN Match(db, e, i) ELSE db

\* An open row or a provisional sweep-cancel expires, others stand.
ApplyInferenceOrderExpired(db, e, i) ==
  UpdateRow(db, "infOrders", e.id,
    LAMBDA r : IF r.status = "OPEN" \/ r.swept
               THEN [r EXCEPT !.status = "EXPIRED", !.swept = FALSE, !.last = Greatest(@, i)]
               ELSE r)

ApplyInferenceOrderCancelled(db, e, i) ==
  UpdateRow(db, "infOrders", e.id,
    LAMBDA r : IF r.status = "FILLED" THEN r
               ELSE [r EXCEPT !.status = "CANCELLED", !.swept = FALSE,
                              !.last = Greatest(@, i)])

\* project_inference_event: the book's row is seeded even when the event defers.
ProjectInference(db, e, i) ==
  LET s == SeedMarket(db, e.book)
  IN CASE e.type = "InferenceOrderPlaced"        -> ApplyInferenceOrderPlaced(s, e, i)
       [] e.type = "InferenceSubscriptionPlaced" -> ApplyInferenceSubscriptionPlaced(s, e, i)
       [] e.type = "InferenceFilled"             -> ApplyInferenceFilled(s, e, i)
       [] e.type = "InferenceOrderExpired"       -> ApplyInferenceOrderExpired(s, e, i)
       [] e.type = "InferenceOrderCancelled"     -> ApplyInferenceOrderCancelled(s, e, i)

-----------------------------------------------------------------------------
(* Books: the reconciler's statements. *)

OpenIds(db, b) ==
  {o \in InfIds : /\ db.infOrders[o] # NULL /\ db.infOrders[o].book = b
                  /\ db.infOrders[o].status = "OPEN"}

Reconcilable(db) == {b \in Books : /\ db.books[b] # NULL /\ ~db.books[b].failed
                                   /\ ~db.books[b].superseded}
DiscoveryCandidates(db) == {b \in Reconcilable(db) : ~db.books[b].reconciled}
\* Due for a sweep of its open rows.
RefreshCandidates(db) ==
  {b \in Reconcilable(db) : db.books[b].reconciled /\ OpenIds(db, b) # {}}

Retired(row) == [row EXCEPT !.model = NULL, !.reconciled = FALSE, !.superseded = TRUE]

\* The higher version is canonical; an incumbent of unknown version loses.
Wins(version, incumbent) == incumbent = NULL \/ version > incumbent

\* claim_model_slot: one live book per model.  An unknown version never decides
\* a contest.
ClaimModelSlot(db, b, model, version) ==
  LET rivals == {c \in Books \ {b} : /\ db.books[c] # NULL /\ ~db.books[c].superseded
                                     /\ db.books[c].model = model}
      claimed == [db EXCEPT !.books[b].model = model, !.books[b].version = version]
  IN IF rivals = {} THEN [out |-> "Claimed", db |-> claimed]
     ELSE LET rival == CHOOSE c \in rivals : TRUE
          IN IF version = NULL THEN [out |-> "Error", db |-> db]
             ELSE IF Wins(version, db.books[rival].version)
             THEN [out |-> "Claimed", db |-> [claimed EXCEPT !.books[rival] = Retired(@)]]
             ELSE [out |-> "Superseded",
                   db |-> [db EXCEPT !.books[b] = [Retired(@) EXCEPT !.version = version]]]

\* Mutant: the bound of the sweep is inclusive.
SweepBound_Inclusive(cycleMax, next) == Min({cycleMax, next}) + 1
\* Ids below the cycle's boundary and below what this BOC can answer for.
SweepBound(cycleMax, next) == Min({cycleMax, next})

\* The next batch of open rows of the cycle, lowest ids first.
SweepIds(db, b, cursor, bound) ==
  LET open == {o \in OpenIds(db, b) : (cursor = NULL \/ o > cursor) /\ o < bound}
  IN {o \in open : Cardinality({q \in open : q < o}) < SWEEP_BATCH}

\* provisional_cancel and repair_order_fields, for the probed ids that are still
\* open.
SweepRows(db, phantoms, live) ==
  [db EXCEPT !.infOrders = [o \in InfIds |->
     IF o \notin phantoms \cup live \/ @[o].status # "OPEN" THEN @[o]
     ELSE IF o \in phantoms THEN [@[o] EXCEPT !.status = "CANCELLED", !.swept = TRUE]
     ELSE [@[o] EXCEPT !.deadline = TRUE]]]

\* Mutant: only the cursor is compared before the stamp.
StampAllowed_CursorOnly(row, sweep) == ~row.superseded /\ row.cursor = sweep.prev
\* A discovery step is written only if no override came in between.
StampAllowed(row, sweep) ==
  /\ ~row.superseded
  /\ sweep.discovery => row.cursor = sweep.prev /\ row.overrides = sweep.overrides

\* advance_sweep_and_maybe_stamp
AdvanceSweep(row, sweep) ==
  IF ~StampAllowed(row, sweep) THEN row
  ELSE [row EXCEPT !.cycleMax = sweep.cycleMax, !.cursor = sweep.cursor,
                   !.reconciled = @ \/ (sweep.discovery /\ sweep.complete),
                   !.failed = @ /\ ~(sweep.discovery /\ sweep.complete)]

-----------------------------------------------------------------------------
(* Books: what the read API serves. *)

Visible(db, b) == db.books[b] # NULL /\ db.books[b].reconciled

\* The rows of a tokenContract lookup with status LIVE, and the gate before it:
\* an empty answer is a claim of absence and needs a complete view.
LiveSells(db, b, d) ==
  {o \in OpenIds(db, b) : ~db.infOrders[o].isBuy /\ db.infOrders[o].tc = d}

\* Mutant: rows that wait for their projection do not close the gate.
LookupRefused_NoBacklog(db, b, unprojected, stale) ==
  stale \/ \E o \in OpenIds(db, b) : ~db.infOrders[o].isBuy /\ db.infOrders[o].tc = NULL

LookupRefused(db, b, unprojected, stale) ==
  \/ unprojected \/ stale
  \/ \E o \in OpenIds(db, b) : ~db.infOrders[o].isBuy /\ db.infOrders[o].tc = NULL
==============================================================================
