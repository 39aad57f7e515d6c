---------------------------- MODULE ServiceSystem ----------------------------
(***************************************************************************)
(* Notes from voucher to credential: RootPN, the tools that make notes, and*)
(* the API that takes custody of them, authenticates requests, and serves  *)
(* the listings while the indexer writes; the SDK's own reads, and capture. *)
(***************************************************************************)
EXTENDS Accounts, ReadApi, Scans, Ingest

CONSTANTS Plans,    \* scenarios
          Payments, \* what other users send to RootPN
          Requests  \* shapes of a signed request: [query, age, recv]

sdkVars == <<feed, scan, limiterVars>>
vars == <<toolVars, accountVars, readVars, poll, sdkVars, ingest, plan>>

\* A scenario fixes the budgets and commits to come, the tables, the walk, the poll,
\* the scan and the stream.
Init == \E s \in Plans : /\ plan = s.plan /\ ToolInit /\ AccountsInit
                         /\ ReadInit(s.tables, s.walk) /\ PollInit(s.poll)
                         /\ ScanInit(s.feed, s.scan) /\ LimiterInit /\ IngestInit(s.stream)

ChainStep ==
  \/ \E p \in Payments, isFee \in BOOLEAN : AnyPayment(p, isFee)
  \/ \E v \in DOMAIN root.vouchers, k \in Keys : AnySubmit(v, k)
  \/ OtherExtOut
  \/ Delivery

ToolRuns ==
  \/ \E shape \in plan.shapes : StartPool(shape) \/ StartUser(shape)
  \/ ToolStep
  \/ \E t \in Tools : Stale(t) \/ Abort(t)

ApiStep ==
  \/ \E kek \in KEKs : StartSeeding(kek) \/ StartWithout(kek)
  \/ ShutDown \/ Disable
  \/ \E c \in Clients : \/ \E n \in DOMAIN root.vouchers, k \in used : ReadOwner(c, n, k)
                        \/ InsertAccount(c)

\* The indexer's commits come in the scenario's order.
IndexerStep ==
  /\ plan.writes # <<>>
  /\ Commit(Head(plan.writes))
  /\ plan' = [plan EXCEPT !.writes = Tail(@)]

ListStep == \/ IndexerStep /\ UNCHANGED poll
            \/ Tick /\ Count("ticks") /\ UNCHANGED poll
            \/ ReadStep /\ UNCHANGED <<poll, plan>>
            \/ PollStep /\ UNCHANGED plan

SdkStep == \/ ScanStep /\ UNCHANGED <<limiterVars, plan>>
           \/ Count("acquires") /\ (\E c \in Callers : Acquire(c)) /\ UNCHANGED <<feed, scan>>
           \/ (\E c \in Callers : Proceeds(c)) /\ UNCHANGED <<feed, scan, plan>>
           \/ Elapses /\ Count("elapses") /\ UNCHANGED <<feed, scan>>

Next ==
  \/ (ChainStep \/ ToolRuns) /\ UNCHANGED <<accountVars, readVars, poll, sdkVars, ingest>>
  \/ ApiStep /\ UNCHANGED <<readVars, poll, sdkVars, ingest>>
  \/ ListStep /\ UNCHANGED <<toolVars, accountVars, sdkVars, ingest>>
  \/ SdkStep /\ UNCHANGED <<toolVars, accountVars, readVars, poll, ingest>>
  \/ IngestStep /\ UNCHANGED <<toolVars, accountVars, readVars, poll, sdkVars, plan>>

\* A message arrives and a tool that runs goes on, and so do a client that walks a
\* listing and the loop of the capture, which its supervisor starts again.
Fairness ==
  WF_toolVars(Delivery) /\ WF_toolVars(ToolStep) /\ WF_walk(ReadStep) /\ IngestFairness

Spec == Init /\ [][Next]_vars /\ Fairness

-----------------------------------------------------------------------------
(* Properties. *)

TypeOK ==
  /\ root.nullifiers \subseteq DOMAIN root.vouchers
  /\ DOMAIN root.notes \subseteq DOMAIN root.vouchers
  /\ \A c \in Currencies : root.ecc[c] \in Nat
  /\ used \subseteq Keys
  /\ {k.note : k \in apiKeys} \subseteq DOMAIN accounts
  /\ api \in KEKs \cup {NULL}

\* No account of RootPN is overdrawn, and of every currency RootPN holds, or has on
\* the way for a voucher, exactly the deposits of the notes it deployed and what the
\* vouchers still out can ask for, gas included: whatever mix is sent to
\* generateVoucher, and however often a voucher is presented to deployPrivateNote
\* and sendEccShellToPrivateNote before or after its first use arrives.
Solvent ==
  TypeOK /\ \A c \in Currencies :
              root.ecc[c] + (IF c = "SHELL" THEN Pledged(root) ELSE 0) = Owed(root, c)

\* <<note, key>> pairs a file that can be read says are ours.
Recorded(f) ==
  CASE ~Readable(f) -> {}
    [] f = "pool" -> {<<n.address, n.key>> : n \in Range(disk[f].notes)}
    [] f = "seedNotes" -> {<<n.address, n.key>> : n \in Range(disk[f])}
    [] f = "state" -> {<<s.address, s.key>> : s \in {t \in {disk[f]} : t.address # NULL}}
    [] f = "account" -> {<<disk[f].address, disk[f].key>>}

\* Whenever and however often the tools are stopped and run again, a file that
\* names a note names the key its contract obeys.
RecordedNotesAreOwned ==
  \A f \in Files : \A r \in Recorded(f) :
     NoteExists(root, r[1]) /\ root.notes[r[1]].owner = r[2]

\* What mint_pn_pool has recorded is worth the pool's nominal and has the gas to pay
\* its way, or the gas is on its way to it, and so is the note of a written account
\* file.  Neither tool waits for the gas to arrive.
FundedWhenRecorded ==
  \A f \in Files \ {"state"} : \A r \in Recorded(f) :
     /\ root.notes[r[1]].value = plan.nominal /\ root.notes[r[1]].token = plan.token
     /\ root.notes[r[1]].gas + Coming(root, r[1]) >= GAS_DEPOSIT + ECC_SHELL_DEPOSIT_RAW
     /\ f # "account" => \/ root.notes[r[1]].native
                        \/ [to |-> "native", note |-> r[1]] \in DOMAIN root.transit

\* Across crashes in the middle of either write the notes file the API seeds from
\* is a beginning of the pool: no recorded note is lost or changes its place, and
\* so its API key.
SeedNotesFollowPool ==
  Readable("pool") /\ Readable("seedNotes") =>
    IsPrefix(disk["seedNotes"], PoolToSeedNotes(disk["pool"]))

\* What the files of the tools say of notes is true and survives any stop and start
\* of theirs: the notes obey the recorded keys and are funded, and the API's seed
\* file follows the pool.
NotesKept == RecordedNotesAreOwned /\ FundedWhenRecorded /\ SeedNotesFollowPool

\* A run of onboard_user that reaches one of its steps, with no fault to come, ends
\* with the account file.
OnboardingEnds ==
  (/\ tool["user"].pc \in {"keys", "gas", "sanity", "account"}
   /\ plan.crashes = 0 /\ plan.stale = 0 /\ plan.others = 0 /\ plan.poolRuns = 0)
     ~> Readable("account")

-----------------------------------------------------------------------------

\* A request of the credential's holder: the pairs in any order.
Signed(cr, shape) ==
  [apiKey |-> cr.name, query |-> shape.query, age |-> shape.age, recv |-> shape.recv,
   signature |-> <<cr.secret, SortSeq(SelectSeq(shape.query, LAMBDA p : p[1] # "signature"),
                                      LAMBDA p, q : Rank(p[1]) < Rank(q[1]))>>]

\* A credential acts for the note it was handed out for and no other, and the API
\* holds the key that note obeys: whatever was minted, seeded, registered, disabled
\* or restarted since.
ActsForItsNote ==
  api # NULL => \A cr \in issued, shape \in Requests :
    LET auth == Authenticate(Signed(cr, shape))
    IN auth.error = "OK" =>
         /\ auth.note = cr.note
         /\ root.notes[cr.note].owner = accounts[cr.note].key

Enabled(cr) ==
  /\ \E k \in Active(cr.name) : k.secret = cr.secret /\ k.note = cr.note
  /\ ~accounts[cr.note].disabled

\* Until its key or account is disabled, or the KEK is replaced, every request a
\* holder signs and sends in time is accepted, in whatever order its parameters are.
CredentialWorks ==
  \A cr \in issued : Enabled(cr) /\ api = cr.kek /\ accounts[cr.note].kek = api =>
    \A shape \in Requests :
      Authenticate(Signed(cr, shape)).error =
        IF shape.age >= -FORWARD_SKEW
           /\ shape.age <= Min({Coalesce(shape.recv, DEFAULT_RECV), MAX_RECV})
        THEN "OK" ELSE "TimestampOutsideRecvWindow"

\* Of all registrations of a note, concurrent or repeated after a lost answer, at
\* most one gets a credential.
OneRegistrationPerNote ==
  \A c, d \in Clients : c # d /\ client[c].pc = "answered" /\ client[d].pc = "answered"
                        => client[c].note # client[d].note

\* A credential is handed out once for a note, works for it as long as nobody
\* disables it, and never for another note.
CredentialsHold == ActsForItsNote /\ CredentialWorks /\ OneRegistrationPerNote

\* The credential of a registration that an operator has disabled, or whose account
\* they have disabled, is refused from then on: seeding does not bring it back.
DisabledStaysOut ==
  [][ \A c \in Clients : client[c].got # NULL /\ ~Enabled(client[c].got) /\ api' # NULL
        => \A shape \in Requests : Authenticate(Signed(client[c].got, shape))'.error # "OK" ]_vars

-----------------------------------------------------------------------------
(* The listings. *)

\* A walk to the last page has returned every item that met its filters all the
\* time and did not change its place in the order, whatever was committed between
\* its pages and between the statements of a page.
WalkComplete == walk.pc = "done" => walk.stable \subseteq walk.got

\* An item is returned twice only if it moved: a market whose timings are set.
WalkOnce == walk.again \subseteq walk.moved

\* A client that follows the cursor comes to the last page or to an error, past
\* rows that cannot be shown.
WalkEnds == <>(walk.pc \in {"done", "failed"})

RestingSum(b, isBuy) ==
  MapThenSumSet(LAMBDA o : db.infOrders[o].remaining,
    InferenceOrders(db, [book |-> b, side |-> IF isBuy THEN "BUY" ELSE "SELL",
                         status |-> {"LIVE"}], now))

\* Read at one time, the liquidity filter, the best quotes and the ask volume of a
\* market, its depth and its live orders tell the same: each statement has its own
\* copy of the predicate for an order that can be matched.
LiquidityAgrees ==
  \A b \in {c \in Books : Visible(db, c)}, isBuy \in BOOLEAN :
    LET depth == InferenceDepth(db, b, now, isBuy, 1)
        best == BestQuote(db, b, now, isBuy)
        quoted == b \in InferenceMarkets(db, [liquidity |-> IF isBuy THEN "BUY" ELSE "SELL"], now)
    IN /\ quoted = (best # NULL)
       /\ DOMAIN depth.levels = (IF quoted THEN {best} ELSE {})
       /\ depth.total = RestingSum(b, isBuy)
       /\ isBuy \/ depth.total = AskVolume(db, b, now)

\* A SELL in the book is found by its TokenContract until the book lets go of it,
\* past its deadline too, whenever the lookup is answered at all.
OfferLatchSeen ==
  \A b \in Books, o \in InfIds :
    LET q == [book |-> b, tokenContract |-> db.infOrders[o].tc, status |-> {"LIVE"}]
    IN o \in OpenIds(db, b) /\ ~db.infOrders[o].isBuy /\ db.infOrders[o].tc # NULL
         => InferenceOrdersGate(db, q) # NULL \/ o \in InferenceOrders(db, q, now)

\* While the indexer commits between the pages, the polls and the statements of one
\* request, walks lose and repeat no item, routes that repeat a predicate agree,
\* depths do not go back, tapes have no gap and balances are not refused for a race.
ReadsHold ==
  /\ WalkComplete /\ WalkOnce /\ LiquidityAgrees /\ OfferLatchSeen
  /\ DepthNotAhead /\ TapeSlides /\ BalancesAnswered

\* What the SDK gives its callers while the chain goes on: complete discoveries and
\* histories, the event that was waited for, and the rate that was configured, also
\* for concurrent calls.
ScansHold == DiscoveryComplete /\ HistoryWalk /\ WaitAnswersOwn /\ RateKept

\* Across reloads, newer builds, lost commits, pruning and cold starts each captured
\* event is typed by its emitter, and is projected once or waits.
CaptureHolds == TypedByEmitter /\ CapturedAccountedFor /\ ProjectedOnce

\* Onboarding ends with the account file, walks come to their last page or an error,
\* and capture comes to the end of its stream again and again.
ServicesProgress == OnboardingEnds /\ WalkEnds /\ CaptureGoesOn
==============================================================================
