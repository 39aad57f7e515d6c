------------------------------- MODULE Market -------------------------------
(***************************************************************************)
(* One prediction market with the notes that stake in it, the oracle event *)
(* lists that confirm it, its oracles and its order book.                  *)
(***************************************************************************)
EXTENDS PMP, StakeNote, OracleList

CONSTANTS Plans,  \* what owners may do, and what they start with
          Races   \* whether the freeze may race the creator's messages

\* A plan has the values block.timestamp takes; the result times the oracles
\* propose; the bound on deployments, stakes and splits; the notes whose
\* owners use each operation and the amounts they use it with; what notes and
\* lists are at the start; and the lists whose owners add and delete the event.
Scenario ==
  [times : SUBSET Nat, results : SUBSET ResultTimes, maxOps : Nat,
   deployers : SUBSET Notes, stakers : SUBSET Notes, cancellers : SUBSET Notes,
   claimers : SUBSET Notes, forfeiters : SUBSET Notes,
   stakes : SUBSET Nat, splits : SUBSET Nat, merges : SUBSET Nat,
   deployments : SUBSET [initial : [Outcomes -> Nat], lengthOk : BOOLEAN,
                         lists : SUBSET Lists \ {{}}, underpaid : SUBSET Lists],
   purse : [Notes -> [balance : Nat, coupons : Nat, debt : Nat]],
   missing : SUBSET Lists, listed : SUBSET Lists, keyOf : [Lists -> Keys],
   trustOf : [Lists -> Lists \cup {None}], editing : SUBSET Lists]

ASSUME ScopeAssumption ==
  /\ Plans \subseteq Scenario /\ Races \in BOOLEAN
  /\ \A p \in Plans :
       /\ p.times # {} /\ IsFiniteSet(p.times)
       /\ \A t \in p.times : t > GRACE_PERIOD  \* block.timestamp is Unix time
       /\ p.missing \cap p.listed = {}
       /\ \A d, e \in p.deployments : d.lists = e.lists  \* part of its address

VARIABLES plan,   \* the plan of this behaviour
          ops,    \* deployments, stakes and splits so far
          burnt   \* refunds that found no stake record, in all

vars == <<pmp, note, list, netVars, plan, ops, burnt>>

MarketInit ==
  /\ plan \in Plans /\ ops = 0 /\ burnt = 0
  /\ NetInit /\ now = Min(plan.times)
  /\ pmp = Fresh /\ NoteInit(plan.purse)
  /\ ListInit(plan.missing, plan.listed, plan.keyOf, plan.trustOf)

-----------------------------------------------------------------------------
(* Steps. *)

Tick ==
  /\ \E t \in plan.times : t > now
  /\ now' = Min({t \in plan.times : t > now})
  /\ UNCHANGED <<pmp, note, list, toPmp, toNote, toList, fromList, book, ops, burnt>>

\* The owner of a note.  Operations that move money in are bounded, and a
\* market is not deployed again after it was settled.
Spending(n) ==
  /\ ops < plan.maxOps /\ ops' = ops + 1
  /\ \/ /\ n \in plan.deployers /\ now = Min(plan.times)
        /\ \E d \in plan.deployments : DeployPMP(n, d)
     \/ /\ n \in plan.stakers
        /\ \/ \E o \in Outcomes, a \in plan.stakes, c \in BOOLEAN : SetStake(n, o, a, c)
           \/ \E f \in plan.splits : Split(n, f)

Closing(n) ==
  \/ n \in plan.cancellers /\ CancelStakeOp(n)
  \/ n \in plan.claimers /\ ClaimOp(n)
  \/ n \in plan.forfeiters /\ DeleteStake(n)
  \/ \E most \in plan.merges : Merge(n, most)

Owner(n) ==
  /\ Spending(n) \/ (Closing(n) /\ UNCHANGED ops)
  /\ UNCHANGED <<pmp, list, burnt>>

\* The message at the head of the channel is a refund that finds no stake
\* record, because its owner gave it up.
RefundLost(n) ==
  /\ Head(toNote[n]).type \in {"cleanRefund", "initialFailed"}
  /\ ~note[n].stake.has

Callback(n) ==
  /\ \/ OnInitialStakesAccepted(n) \/ OnInitialStakesFailed(n) \/ OnPmpCleanRefund(n)
     \/ OnForfeitAccepted(n) \/ OnStakeCancelled(n) \/ OnStakeAccepted(n)
     \/ OnSplitAccepted(n) \/ OnMergeAccepted(n) \/ OnClaimAccepted(n)
     \/ AcceptFee(n) \/ OnBounce(n)
  /\ burnt' = IF RefundLost(n) THEN burnt + Head(toNote[n]).value ELSE burnt
  /\ UNCHANGED <<pmp, list, ops>>

AtList(l) ==
  /\ ConfirmEvent(l) \/ CancelEvent(l) \/ OnMarketBounce(l)
  /\ UNCHANGED <<pmp, note, ops, burnt>>

ListOwner(l) ==
  /\ l \in plan.editing
  /\ AddEvent(l) \/ DeleteEvent(l)
  /\ UNCHANGED <<pmp, note, ops, burnt>>

AtMarket ==
  /\ \/ \E n \in Notes :
          \/ Constructor(n) \/ AcceptStake(n) \/ SplitFullSet(n) \/ MergeFullSet(n)
          \/ Claim(n) \/ CancelStake(n) \/ ForfeitStake(n) \/ ConfirmRefund(n)
     \/ \E l \in Lists : RejectEvent(l) \/ OnListBounce(l) \/ ApproveEvent(l)
     \/ BookDrained \/ OnOrderBookShutdownComplete
  /\ UNCHANGED <<note, list, ops, burnt>>

Oracles ==
  /\ \E k \in Keys :
       \/ \E v \in ResultTimes : v \in plan.results /\ SubmitSetTimings(k, v)
       \/ \E o \in Outcomes : SubmitResolve(k, o)
       \/ SubmitCancelEvent(k)
  /\ UNCHANGED <<note, list, ops, burnt>>

Freeze == FreezeNow /\ UNCHANGED <<note, list, ops, burnt>>

InFlight(chan, n, types) == \E i \in DOMAIN chan[n] : chan[n][i].type \in types

\* Without races the freeze meets no message in which the creator states its
\* position, and the creator states none before it has the refund.
Ordered ==
  \A n \in Notes :
    /\ (pmp.deployer = n /\ pmp'.frozen /\ ~pmp.frozen) =>
         ~InFlight(toPmp, n, {"forfeitStake", "claim"})
    /\ (/\ InFlight(toNote, n, {"cleanRefund"})
        /\ InFlight(toPmp', n, {"forfeitStake", "claim"})) =>
         InFlight(toPmp, n, {"forfeitStake", "claim"})

MarketNext ==
  /\ \/ Tick \/ AtMarket \/ Oracles \/ Freeze
     \/ \E n \in Notes : Owner(n) \/ Callback(n)
     \/ \E l \in Lists : AtList(l) \/ ListOwner(l)
  /\ Races \/ Ordered
  /\ UNCHANGED plan

Spec == MarketInit /\ [][MarketNext]_vars

-----------------------------------------------------------------------------
(* Properties. *)

Amounts == [BetTypes -> [Outcomes -> Nat]]

\* Balances, stakes and pools stay natural numbers: no subtraction of the
\* contracts would revert for want of a check (PrivateNote.onMergeAccepted,
\* PMP._ensureFrozen, claim and the vote counters).
TypeOK ==
  /\ \A n \in Notes :
       /\ note[n].balance \in Nat /\ note[n].coupons \in Nat /\ note[n].debt \in Nat
       /\ note[n].busy \in BOOLEAN /\ note[n].pendingForfeit \in BOOLEAN
       /\ note[n].stake.pos \in Amounts /\ note[n].stake.amount \in Nat
  /\ pmp.pool \in Amounts /\ pmp.forfeited \in Amounts
  /\ pmp.totalPool \in Nat /\ pmp.unclaimed \in Nat
  /\ pmp.totalWin \in Nat /\ pmp.debtRemaining \in Nat
  /\ pmp.resolved \in Outcomes \cup {None} /\ pmp.deployer \in Notes \cup {None}
  /\ pmp.confirmed \subseteq Lists /\ pmp.cancels \subseteq Keys
  /\ pmp.timings.count \in [ResultTimes -> Nat]
  /\ pmp.outcomes.count \in [Outcomes -> Nat]
  /\ list \in [Lists -> [deployed : BOOLEAN, key : Keys,
                        trust : Lists \cup {None}, event : BOOLEAN, count : Nat, confirmed : BOOLEAN]]
  /\ book \in BookStates

\* Collateral a note has staged and that the market has not taken yet.
StagedReal(n) ==
  IF note[n].stake.bet \in {"clean", "debt"} THEN note[n].stake.amount ELSE 0

\* What a message on its way to note n adds to the collateral counted there.
Carried(n, m) ==
  CASE m.type \in {"stakeCancelled", "mergeAccepted", "claimAccepted",
                   "cleanRefund", "acceptFee"} -> m.value
    [] m.type = "stakeAccepted" -> -StagedReal(n)
    [] m.type = "splitAccepted" -> -m.used
    [] m.type = "initialAccepted" -> -SumFunction(m.amounts)
    [] m.type = "initialFailed" ->
         IF /\ note[n].stake.has /\ note[n].stake.pos = NoPools
            /\ ~InFlight(toNote, n, {"initialAccepted"})
         THEN 0 ELSE m.value
    [] OTHER -> 0

AtNote(n) ==
  note[n].balance + StagedReal(n)
    + SumFunction([i \in DOMAIN toNote[n] |-> Carried(n, toNote[n][i])])

Collateral == pmp.unclaimed + SumFunction([n \in Notes |-> AtNote(n)])

\* No collateral appears or disappears and no balance goes below zero: what
\* the notes hold, have staged or are being sent, together with what the market
\* owes, is what the notes had at the start, over stakes, splits, merges,
\* freezes, refunds, claims, fees, closes and bounces.  The one exception is a
\* refund to a creator who abandoned the stake (_totalUnclaimedBalance of PMP
\* against _balance of PrivateNote).
MoneyConserved ==
  /\ TypeOK
  /\ Collateral + burnt = SumFunction([n \in Notes |-> plan.purse[n].balance])

\* The position of note n as the market knows it: its record, with the
\* answers on their way applied.
Applied(n, pos, m) ==
  CASE m.type = "stakeAccepted" ->
         PlusAll(pos, Single(m.bet, note[n].stake.outcome, note[n].stake.amount))
    [] m.type \in {"splitAccepted", "initialAccepted"} ->
         [pos EXCEPT !["clean"] = Plus(@, m.amounts)]
    [] m.type \in {"mergeAccepted", "cleanRefund"} ->
         [pos EXCEPT !["clean"] = [o \in Outcomes |-> Monus(@[o], m.amounts[o])]]
    [] m.type \in {"stakeCancelled", "forfeitAccepted", "initialFailed"} -> NoPools
    [] m.type = "claimAccepted" -> IF m.outcome = None THEN pos ELSE NoPools
    [] OTHER -> pos

Live(n) ==
  LET upTo[k \in 0..Len(toNote[n])] ==
        IF k = 0 THEN note[n].stake.pos
        ELSE Applied(n, upTo[k - 1], toNote[n][k])
  IN  upTo[Len(toNote[n])]

LiveAll == FoldFunction(PlusAll, NoPools, [n \in Notes |-> Live(n)])

\* Until a market is resolved its pools are the stakes that notes hold plus
\* the stakes they forfeited, for every outcome and kind of bet, and its
\* total is the collateral in them (_typedOutcomePools, _forfeited,
\* _totalPool of PMP against _stakes of PrivateNote).  Once it is resolved,
\* what it owes is what the rewards or the debt refunds add up to, and the
\* mass that keeps it open is that of the winners who have not claimed and of
\* those who forfeited (claim, _finalizeWinClose).
PoolsMatchStakes ==
  pmp.alive =>
    CASE ~Resolved(pmp) ->
           /\ pmp.pool = PlusAll(LiveAll, pmp.forfeited)
           /\ pmp.totalPool = RealTotal(pmp.pool)
           /\ pmp.unclaimed = pmp.totalPool
      [] Resolved(pmp) /\ pmp.debtRefund ->
           /\ pmp.unclaimed = pmp.debtRemaining
           /\ pmp.debtRemaining = SumFunction(LiveAll["debt"]) + SumFunction(pmp.forfeited["debt"])
      [] Resolved(pmp) /\ ~pmp.debtRefund ->
           /\ pmp.unclaimed = PaidTotal(pmp.rewards)
           /\ pmp.totalWin = Mass(LiveAll, pmp.resolved) + Mass(pmp.forfeited, pmp.resolved)

\* What the market still owes for a position.
Owed(p, pos) ==
  IF ~Resolved(p) THEN RealTotal(pos)
  ELSE IF p.debtRefund THEN SumFunction(pos["debt"])
  ELSE Mass(pos, p.resolved)

\* A market is destroyed only when it owes nobody: when no stake is left or,
\* once it is resolved, no winning or refundable one (the closes of claim,
\* cancelStake, forfeitStake and onOrderBookShutdownComplete), and not while
\* its order book runs or has not reported (_shutdownTriggered, _orderBookDone).
ClosedWhenSettled ==
  [][(pmp.alive /\ ~pmp'.alive) => /\ \A n \in Notes : Owed(pmp, Live(n)') = 0
                                  /\ book' \in {"none", "gone"}]_vars

\* A setup that fails leaves nothing behind: no collateral of the initial stakes is
\* lost, and a confirmation is counted once and released when the market is gone
\* and nothing is in flight, so that the event can be deleted (_pmpConfirmed of
\* OracleEventList, _countReleased of PMP).
SetupUnwinds ==
  MoneyConserved /\ \A l \in Lists :
    /\ list[l].count = IF list[l].confirmed THEN 1 ELSE 0
    /\ (~pmp.alive /\ toList[l] = <<>> /\ fromList[l] = <<>>) => list[l].count = 0

\* No market is both resolved and cancelled, so no stake is both paid and
\* refunded (the guards of resolve and cancelEvent).
OneVerdict == ~(Resolved(pmp) /\ pmp.cancelled)

Backers(t, v) == Cardinality({k \in Keys : t.vote[k] = v})

\* Every decision is the current vote of a quorum of oracles: the last vote
\* and those that stand.  Changed votes do not count twice, and without votes
\* only the end of the grace period cancels a market, which a market without
\* a result time is always past (submitSetTimings, submitResolve,
\* submitCancelEvent, cancelStake).
DecisionsBacked ==
  [][pmp'.alive =>
       /\ pmp'.resolved # pmp.resolved =>
            Backers(pmp.outcomes, pmp'.resolved) + 1 >= Quorum(pmp)
       /\ pmp'.resultStart # pmp.resultStart =>
            Backers(pmp.timings, pmp'.resultStart) + 1 >= Quorum(pmp)
       /\ pmp'.cancelled # pmp.cancelled =>
            Cardinality(pmp.cancels) + 1 >= Quorum(pmp) \/ GraceOver(pmp)]_vars

-----------------------------------------------------------------------------
(* Fairness: every message is delivered and every drain ends.  Nothing is  *)
(* assumed of owners and oracles.  The handlers of the market and of the   *)
(* lists cover every message they are sent; those of a note do when no     *)
(* answer is Unexpected, which EveryRequestAnswered checks.                *)

\* A message is taken from channel chan[k].
Taken(chan, k, next) == chan[k] # <<>> /\ next = Tail(chan[k])

Delivery ==
  /\ \A n \in Notes : []<>(toPmp[n] = <<>>) \/ []<><<Taken(toPmp, n, toPmp'[n])>>_vars
  /\ \A n \in Notes : []<>(toNote[n] = <<>>) \/ []<><<Taken(toNote, n, toNote'[n])>>_vars
  /\ \A l \in Lists : []<>(toList[l] = <<>>) \/ []<><<Taken(toList, l, toList'[l])>>_vars
  /\ \A l \in Lists : []<>(fromList[l] = <<>>) \/ []<><<Taken(fromList, l, fromList'[l])>>_vars
  /\ []<>(book # "closing") \/ []<><<book' = "done">>_vars
  /\ []<>(book # "done") \/ []<><<book' = "gone">>_vars

FairSpec == Spec /\ Delivery

\* Every request of a note is answered in the end, by an acceptance, a
\* failure or a bounce, and releases the note: no note stays busy.  No note
\* refuses an answer because its latch was released before the answer came,
\* which would lose what the answer carries (senderIs(_busy.get()) of
\* PrivateNote's callbacks).
EveryRequestAnswered ==
  /\ \A n \in Notes : note[n].busy ~> ~note[n].busy
  /\ [](\A n \in Notes : ~Unexpected(n))

\* The owner of note n asks for its stake back.
AskBack(n) ==
  /\ n \in plan.cancellers /\ CancelStakeOp(n)
  /\ UNCHANGED <<pmp, list, plan, ops, burnt>>

\* The same with owners who keep asking for their stake back, and time that
\* goes on.
Retrying ==
  /\ \A n \in Notes : WF_vars(AskBack(n))
  /\ WF_vars(Tick /\ UNCHANGED plan)

RetrySpec == FairSpec /\ Retrying

\* Stakes in a market whose oracles stay silent are refunded after the grace
\* period to owners who keep asking (PMP.cancelStake).
RefundAfterGrace ==
  \A n \in Notes :
    (pmp.alive /\ pmp.approved /\ GraceOver(pmp) /\ note[n].stake.has)
      ~> (~note[n].stake.has \/ Resolved(pmp))
=============================================================================
