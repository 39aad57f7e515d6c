--------------------------- MODULE InferenceIndex ---------------------------
(***************************************************************************)
(* The inference side of the indexer: books and deals emit events, which   *)
(* are captured and projected; the reconciler sweeps the open rows against *)
(* an account state that may be older or newer than the rows, and cancels  *)
(* the ones the book no longer holds.                                      *)
(***************************************************************************)
EXTENDS InferenceRows, Reprojection

VARIABLES inf,   \* the orders of the books on chain
          deal,  \* the deals on chain
          seen,  \* book -> account states a lagging gateway may still serve
          batch, \* the rows the reconciler's turn has selected and not yet taken
          tick,  \* the reconciler's work in progress, on one of them
          dead   \* history: the orders a sweep has found dead

infVars == <<inf, deal, seen, batch, tick, dead>>

NewChainDeal == [st |-> "idle", buyer |-> NULL, deposit |-> NULL, fin |-> 0, kind |-> NULL]

InfInit ==
  /\ inf = [o \in InfIds |-> NULL]
  /\ deal = [d \in Deals |-> NewChainDeal]
  /\ seen = [b \in Books |-> {}]
  /\ batch = {} /\ tick = NULL /\ dead = {}

-----------------------------------------------------------------------------
(* The contracts.  An order is plan.inf[o]; inf[o] is what became of it. *)

InfOrder(o) == plan.inf[o]
State(o) == IF inf[o] = NULL THEN "none" ELSE inf[o].st
RestingIn(b) == {o \in InfIds : State(o) = "live" /\ InfOrder(o).book = b}
Queued(b) == {o \in InfIds : State(o) = "queued" /\ InfOrder(o).book = b}

\* What the getters of a book answer: nextOrderId, getOrder, getQueueSize.
BookAccount(b) ==
  [next |-> 1 + Cardinality({o \in InfIds : inf[o] # NULL}),
   live |-> RestingIn(b), busy |-> Queued(b) # {}]

Chain(orders, deals, events) ==
  /\ inf' = orders /\ deal' = deals
  /\ seen' = IF "stale" \in plan.moves
             THEN [b \in Books |-> seen[b] \cup {BookAccount(b)}] ELSE seen
  /\ IF "lag" \in plan.moves THEN EmitLagged(events) ELSE Emit(events)
  /\ UNCHANGED <<done, after, floor, aged, db, faults, plan, batch, tick, dead>>

\* A placement is announced before it is matched; what it matches may need
\* further transactions, in which the book is busy.
PlaceInf(o) ==
  LET p == InfOrder(o)
  IN /\ o \in DOMAIN plan.inf /\ inf[o] = NULL /\ Queued(p.book) = {}
     /\ \A q \in DOMAIN plan.inf : q < o => inf[q] # NULL
     /\ p.tc # NULL => deal[p.tc].st = "idle"
     /\ Chain([inf EXCEPT ![o] = [st |-> "queued", rem |-> p.ticks]],
              IF p.tc = NULL THEN deal ELSE [deal EXCEPT ![p.tc].st = "posted"],
              <<[type |-> IF p.sub THEN "InferenceSubscriptionPlaced"
                                   ELSE "InferenceOrderPlaced",
                 book |-> p.book, id |-> o, isBuy |-> p.isBuy, note |-> p.note,
                 ticks |-> p.ticks, tc |-> p.tc,
                 deadline |-> IF p.sub THEN NULL ELSE TRUE]>>)

\* A SELL is one deal: it leaves the book with its first match.
AfterMatch(o, trade) ==
  [inf[o] EXCEPT !.rem = @ - trade,
                 !.st = IF ~InfOrder(o).isBuy \/ inf[o].rem = trade THEN "gone" ELSE @]

MatchInf(t, m) ==
  LET trade == Min({inf[t].rem, inf[m].rem})
      sell == IF InfOrder(t).isBuy THEN m ELSE t
      buy == IF InfOrder(t).isBuy THEN t ELSE m
  IN /\ State(t) = "queued" /\ m \in RestingIn(InfOrder(t).book)
     /\ InfOrder(t).isBuy # InfOrder(m).isBuy
     /\ Chain([inf EXCEPT ![t] = AfterMatch(t, trade), ![m] = AfterMatch(m, trade)],
              [deal EXCEPT ![InfOrder(sell).tc].st = "matched",
                           ![InfOrder(sell).tc].buyer = InfOrder(buy).note,
                           ![InfOrder(sell).tc].deposit = trade],
              <<[type |-> "InferenceFilled", book |-> InfOrder(t).book, maker |-> m,
                 taker |-> t, ticks |-> trade, tc |-> InfOrder(sell).tc,
                 buyer |-> InfOrder(buy).note]>>)

\* The rest of the order goes into the book, or is returned without an event.
Finish(o) ==
  /\ State(o) = "queued"
  /\ Chain([inf EXCEPT ![o].st = IF InfOrder(o).rests THEN "live" ELSE "gone"],
           IF InfOrder(o).tc # NULL /\ ~InfOrder(o).rests
           THEN [deal EXCEPT ![InfOrder(o).tc].st = "idle"] ELSE deal, <<>>)

\* The owner cancels, or the deadline has passed.
Leave(o, type) ==
  /\ State(o) = "live" /\ type \in plan.moves
  /\ Chain([inf EXCEPT ![o].st = "gone"],
           IF InfOrder(o).tc = NULL THEN deal ELSE [deal EXCEPT ![InfOrder(o).tc].st = "idle"],
           <<[type |-> type, book |-> InfOrder(o).book, id |-> o]>>)

\* The deal contract: from one state to the next, with the event it emits.
Deal(d, from, new, events) ==
  /\ deal[d].st = from /\ "deal" \in plan.moves
  /\ Chain(inf, [deal EXCEPT ![d] = new], events)
Tc(type, d) ==
  [type |-> type, tc |-> d, buyer |-> deal[d].buyer, deposit |-> deal[d].deposit]

Fund(d) == Deal(d, "matched", [deal[d] EXCEPT !.st = "funded"], <<Tc("StreamFunded", d)>>)
Open(d) ==
  /\ "open" \in plan.moves
  /\ Deal(d, "funded", [deal[d] EXCEPT !.st = "opened"], <<Tc("StreamOpened", d)>>)

FinalizeTick(d) ==
  /\ deal[d].fin < 1
  /\ Deal(d, "opened", [deal[d] EXCEPT !.fin = @ + 1],
          <<[type |-> "TicksClaimed", tc |-> d, claimed |-> deal[d].fin + 1],
            Tc("TickFinalized", d)>>)

\* Every way to the end destroys the contract in the same transaction.
Settle(d, kind, events) ==
  Deal(d, "opened", [deal[d] EXCEPT !.st = "closed", !.kind = kind],
       Append(events, Tc("ContractDestroyed", d)))

\* stop, and the terms that run out: the trial is burned only before a tick was
\* accepted.
StopDeal(d) ==
  \/ deal[d].fin = 0 /\ Settle(d, "PROBE_BURNED", <<Tc("ProbeBurned", d)>>)
  \/ Settle(d, "STOPPED", <<Tc("StreamStopped", d)>>)

ResolveDispute(d) ==
  Settle(d, "DISPUTE_RESOLVED", <<Tc("StreamDisputed", d), Tc("DisputeResolved", d)>>)

\* The seller destroys a deal that was not opened.
DestroyDeal(d) ==
  /\ "open" \in plan.moves
  /\ Deal(d, "funded", [deal[d] EXCEPT !.st = "closed", !.kind = "DESTROYED"],
          <<Tc("ContractDestroyed", d)>>)

\* onDealClosed: both notes report the end of a deal that is gone.
NotesReport(d) ==
  Deal(d, "closed", [deal[d] EXCEPT !.st = "gone"],
       <<Tc("InferenceDealClosed", d), Tc("InferenceDealClosed", d)>>)

\* cleanupUnopened: the buyer never opened; both notes report the end.
NoShow(d) ==
  Deal(d, "funded", NewChainDeal,
       <<Tc("InferenceDealClosed", d), Tc("InferenceDealClosed", d)>>)

DealStep(d) ==
  \/ Fund(d) \/ Open(d) \/ FinalizeTick(d) \/ NoShow(d) \/ DestroyDeal(d) \/ NotesReport(d)
  \/ StopDeal(d) \/ ResolveDispute(d)

InfBookStep ==
  \E o \in InfIds :
    \/ PlaceInf(o) \/ Finish(o) \/ \E m \in InfIds : MatchInf(o, m)
    \/ Leave(o, "InferenceOrderCancelled") \/ Leave(o, "InferenceOrderExpired")
-----------------------------------------------------------------------------
(* The reconciler: a batch of books, one at a time, one sweep step each. *)

ReconcileWith(rows, tables, work) ==
  /\ batch' = rows /\ db' = tables /\ tick' = work
  /\ dead' = dead \cup {o \in InfIds : tables.infOrders[o] # NULL /\ tables.infOrders[o].swept}
  /\ UNCHANGED <<stream, left, log, done, after, floor, aged, faults, plan, inf, deal, seen>>
Reconcile(tables, work) == ReconcileWith(batch, tables, work)

\* Queue A or queue B: what is true of a row now may not be when its turn comes.
SelectBooks(discovery) ==
  LET books == IF discovery THEN DiscoveryCandidates(db) ELSE RefreshCandidates(db)
  IN /\ tick = NULL /\ batch = {} /\ "sweep" \in plan.moves /\ books # {}
     /\ ReconcileWith({[book |-> b, discovery |-> discovery,
                        needsParams |-> discovery /\ db.books[b].model = NULL] : b \in books},
                      db, NULL)

\* The gateway may serve an account state older than one it served before.
FetchBook(row, account) ==
  /\ tick = NULL /\ row \in batch
  /\ ReconcileWith(batch \ {row}, db,
       [book |-> row.book, account |-> account, discovery |-> row.discovery,
        phase |-> IF row.needsParams THEN "describe" ELSE "gates"])

\* fill_params and refresh_price, for a row that was selected without its model.
Describe ==
  /\ tick # NULL /\ tick.phase = "describe"
  /\ LET b == tick.book
         claim == ClaimModelSlot(db, b, plan.models[b], plan.versions[b])
     IN CASE claim.out = "Claimed" -> Reconcile(claim.db, [tick EXCEPT !.phase = "gates"])
          [] claim.out = "Superseded" -> Reconcile(claim.db, NULL)
          [] claim.out = "Error" -> Reconcile([db EXCEPT !.books[b].failed = TRUE], NULL)

PendingOf(b) == \E i \in Pending : OfInferenceBook(log[i]) /\ log[i].book = b

\* The gates of run_sweep_step, then the state of the cycle is read.
SweepGates ==
  /\ tick # NULL /\ tick.phase = "gates"
  /\ LET row == db.books[tick.book]
     IN IF tick.account.busy \/ ~head \/ PendingOf(tick.book) THEN Reconcile(db, NULL)
        ELSE Reconcile(db,
               [phase |-> "probe", book |-> tick.book, account |-> tick.account,
                discovery |-> tick.discovery, prev |-> row.cursor, overrides |-> row.overrides,
                cycleMax |-> IF row.cycleMax # NULL /\ row.cursor # NULL
                             THEN row.cycleMax ELSE tick.account.next])

\* Mutant: a completed cycle keeps its cursor.
NextCursor_Kept(ids, complete, prev) == IF ids = {} THEN prev ELSE Max(ids)
\* A completed cycle starts again; a clamped empty batch keeps its progress.
NextCursor(ids, complete, prev) ==
  IF complete THEN NULL ELSE IF ids = {} THEN prev ELSE Max(ids)

\* The open rows of the batch are looked up in the account state.
SweepProbe ==
  /\ tick # NULL /\ tick.phase = "probe"
  /\ LET next == tick.account.next
         ids == SweepIds(db, tick.book, tick.prev, SweepBound(tick.cycleMax, next))
         complete == Cardinality(ids) < SWEEP_BATCH /\ next >= tick.cycleMax
     IN Reconcile(db,
          [phase |-> "write", book |-> tick.book, discovery |-> tick.discovery,
           phantoms |-> ids \ tick.account.live, live |-> ids \cap tick.account.live,
           prev |-> tick.prev, overrides |-> tick.overrides, cycleMax |-> tick.cycleMax,
           complete |-> complete, cursor |-> NextCursor(ids, complete, tick.prev)])

\* provisional_cancel and repair_order_fields: two statements on different rows.
SweepWrite ==
  /\ tick # NULL /\ tick.phase = "write"
  /\ Reconcile(SweepRows(db, tick.phantoms, tick.live),
               [tick EXCEPT !.phase = "stamp", !.phantoms = {}, !.live = {}])

SweepStamp ==
  /\ tick # NULL /\ tick.phase = "stamp"
  /\ Reconcile([db EXCEPT !.books[tick.book] = AdvanceSweep(@, tick)], NULL)

\* An error on the way: the step is lost where it is and the book backs off.
ReconcileFails ==
  /\ tick # NULL /\ "fail" \in plan.moves
  /\ Reconcile([db EXCEPT !.books[tick.book].failed = TRUE], NULL)

BookCoolDown(b) ==
  /\ db.books[b] # NULL /\ db.books[b].failed
  /\ Reconcile([db EXCEPT !.books[b].failed = FALSE], tick)

ReconcilerStep ==
  \/ \E b \in Books : BookCoolDown(b)
  \/ \E discovery \in BOOLEAN : SelectBooks(discovery)
  \/ \E r \in batch : \E a \in seen[r.book] \cup {BookAccount(r.book)} : FetchBook(r, a)
  \/ Describe \/ SweepGates \/ SweepProbe \/ SweepWrite \/ SweepStamp \/ ReconcileFails

-----------------------------------------------------------------------------
(* Capture and projection of the inference events. *)

\* A poll whose page is a placement that is dropped: it never becomes a row.
LoseEvent ==
  /\ "lose" \in plan.moves /\ stream # <<>> /\ Head(stream).type = "InferenceOrderPlaced"
  /\ stream' = Tail(stream) /\ left' = Len(stream) - 1
  /\ UNCHANGED <<log, done, after, floor, aged, db, faults, plan, infVars>>

\* is_expired_inference_orphan: at head, an inference row that is deferred and was
\* ingested longer ago than the cutoff.
DeadLetter ==
  /\ Ahead # {} /\ head
  /\ LET i == Min(Ahead)
     IN /\ i \in aged
        /\ ProjectInference(db, log[i], i).out = "Deferred"
        /\ db' = RepairExpiredOrphan(SeedMarket(db, log[i].book), log[i], i)
        /\ done' = done \cup {i} /\ aged' = aged \ {i}
        /\ Advance(i)
  /\ UNCHANGED <<stream, left, log, faults, plan, infVars>>

CaptureStep == (\E k \in 1..2 : Capture(k)) /\ UNCHANGED <<plan, infVars>>

InferenceStep ==
  \/ InfBookStep \/ (\E d \in Deals : DealStep(d))
  \/ ReconcilerStep \/ CaptureStep \/ LoseEvent \/ DeadLetter

-----------------------------------------------------------------------------
(* Properties. *)

InfRows == {o \in InfIds : db.infOrders[o] # NULL}
CaughtUp == stream = <<>> /\ Settled

\* The sweep never cancels an order that rests in the book, whatever was placed,
\* captured and projected since the account state it holds was served.
SweepSound == \A o \in InfRows : db.infOrders[o].swept => State(o) # "live"

\* A book becomes visible only if the rows the sweep had found dead are still
\* closed: a fill that reopened one sends the discovery sweep back to the start,
\* and stops the stamp of a step it came in between.
StampedClean ==
  \A b \in Books :
    db.books[b] # NULL /\ ~db.books[b].reconciled /\ db'.books[b].reconciled
      => dead \cap OpenIds(db', b) = {}

\* One book is served for a model: never two, and one that had to make way was
\* not newer than the one that took its place.
NewestServed ==
  \A b \in Books : db.books[b] # NULL =>
    /\ db.books[b].superseded =>
         /\ ~Visible(db, b)
         /\ \E c \in Books : /\ db.books[c] # NULL /\ db.books[c].model = plan.models[b]
                             /\ plan.versions[c] >= plan.versions[b]
    /\ db.books[b].model # NULL => \A c \in Books \ {b} :
         db.books[c] # NULL => db.books[c].model # db.books[b].model

\* The orders whose placement is among the events.
PlacedIn(events) ==
  {events[i].id : i \in {j \in DOMAIN events : events[j].type = "InferenceOrderPlaced"}}

\* A lookup by TokenContract that is answered misses a SELL that rests in the book
\* only if its placement was emitted after the last poll: never one that poll left
\* behind, or one captured and not projected.  (A placement the gateway never
\* served is missed for good.)
AbsenceIsTrue ==
  \A b \in Books, d \in Deals :
    Visible(db, b) /\ ~LookupRefused(db, b, PendingOf(b), ~head) =>
      \A o \in RestingIn(b) :
        ~InfOrder(o).isBuy /\ InfOrder(o).tc = d /\ o \notin LiveSells(db, b, d) =>
          /\ o \notin PlacedIn(log)
          /\ o \in PlacedIn(SubSeq(stream, left + 1, Len(stream))) \/ "lose" \in plan.moves

\* Once everything is projected every resting order has its row, open and with
\* the ticks it has left, and a SELL that was matched is closed: in whatever
\* order the events were applied.
InferenceMirrors ==
  CaughtUp => \A o \in InfRows :
    LET r == db.infOrders[o]
    IN /\ State(o) = "live" => r.status = "OPEN" /\ r.remaining = inf[o].rem
       /\ ~r.isBuy /\ (\E i \in DOMAIN log : log[i].type = "InferenceFilled"
                                             /\ o \in {log[i].maker, log[i].taker})
            => r.status = "FILLED"

\* Every match whose orders are known, or one of them, is one trade of the tape.
InfTapeMirrors ==
  CaughtUp => {t.id : t \in db.infTrades} =
    {i \in DOMAIN log : log[i].type = "InferenceFilled" /\ Legs(db, log[i]) # {}}

\* The row of a funded deal tells the buyer and the deposit of the present
\* funding cycle, although events of the one before may be applied after it
\* began; without faults all of the row tells the present cycle.
DealMirrors ==
  CaughtUp => \A d \in Deals : db.deals[d] # NULL =>
    LET r == db.deals[d]  c == deal[d]
        over == c.st \in {"closed", "gone"}
        funded == over \/ c.st \in {"funded", "opened"}
    IN /\ funded => r.deposit = c.deposit /\ r.buyer = c.buyer
       /\ faults = 0 =>
            /\ (r.deposit # NULL) = funded
            /\ (r.opened # NULL) = (c.st = "opened" \/ (over /\ c.kind # "DESTROYED"))
            /\ (r.settled # NULL) = over
            /\ r.kind = c.kind /\ r.finalized = c.fin
=============================================================================
