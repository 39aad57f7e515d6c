---------------------------- MODULE MarketSeeder ----------------------------
(***************************************************************************)
(* Runs of mint_ob_pool, which takes a market from its oracle to its order *)
(* book and records it, and of deploy_oracle, which stops at the oracle,   *)
(* against the contracts of Market.  Runs started in one second use one    *)
(* oracle name, and so one oracle, one list and one market.  A run may end *)
(* between any two steps: a call is refused, a wait is over, the process   *)
(* is killed.                                                              *)
(***************************************************************************)
EXTENDS Market

CONSTANTS Seeders,   \* runs
          Jobs,      \* plan -> run -> kind, and the list, key, note and amounts it uses
          LIFETIME,  \* from now to the result, as requested
          TORN       \* content of a file whose write was cut short

VARIABLES seeder,  \* the runs
          obPool   \* their pool files: the markets recorded

seedVars == <<vars, seeder, obPool>>

JobOf(s) == IF plan \in DOMAIN Jobs /\ s \in DOMAIN Jobs[plan] THEN Jobs[plan][s] ELSE None

\* A run as its process starts.  deploy_oracle has no file.
Started(job) ==
  [job |-> job, timings |-> None, freeze |-> 0, markets |-> <<>>, again |-> FALSE,
   pc |-> IF job = None THEN "off" ELSE IF job.kind = "oracle" THEN "oracle" ELSE "load"]

SeederInit ==
  /\ seeder = [s \in Seeders |-> Started(JobOf(s))]
  /\ obPool = [s \in Seeders |-> None]

Goes(s, from, to) ==
  /\ seeder[s].pc = from
  /\ seeder' = [seeder EXCEPT ![s].pc = to]
  /\ UNCHANGED <<plan, ops, burnt, obPool>>

List(s) == seeder[s].job.list
Deployer(s) == seeder[s].job.note

-----------------------------------------------------------------------------
(* The pool file. *)

\* load_or_init_pool: a file that cannot be parsed is refused, and its markets are
\* kept.  The arguments that a file is compared with are the same in every run.
LoadOrInitPool(s) ==
  /\ seeder[s].pc = "load"
  /\ \/ obPool[s] = TORN /\ seeder' = [seeder EXCEPT ![s].pc = "failed"]
     \/ /\ obPool[s] # TORN
        /\ seeder' = [seeder EXCEPT ![s].pc = "start",
                                    ![s].markets = IF obPool[s] = None THEN <<>> ELSE obPool[s]]
  /\ UNCHANGED <<vars, obPool>>

\* mint_ob_pool is run again with the same file.
RunAgain(s) ==
  /\ seeder[s].pc \in {"done", "failed"} /\ seeder[s].job.twice /\ ~seeder[s].again
  /\ seeder' = [seeder EXCEPT ![s] = [Started(seeder[s].job) EXCEPT !.again = TRUE]]
  /\ UNCHANGED <<vars, obPool>>

\* save_pool truncates the file, then writes it.
SavePool(s, from) ==
  /\ seeder[s].pc = from
  /\ obPool' = [obPool EXCEPT ![s] = TORN]
  /\ seeder' = [seeder EXCEPT ![s].pc = IF from = "start" THEN "open" ELSE "close"]
  /\ UNCHANGED vars

\* A later run goes on with another market, which is not this one.
WritePool(s) ==
  /\ seeder[s].pc \in {"open", "close"}
  /\ obPool' = [obPool EXCEPT ![s] = seeder[s].markets]
  /\ seeder' = [seeder EXCEPT ![s].pc =
                  IF @ = "open" /\ ~seeder[s].again THEN "oracle" ELSE "done"]
  /\ UNCHANGED vars

-----------------------------------------------------------------------------
(* The oracle and its event. *)

SendDeployOracle(s) ==
  /\ Goes(s, "oracle", "awaitOracle")
  /\ UNCHANGED <<pmp, note, list, netVars>>

\* RootOracle.deployOracle and the constructors of Oracle and its list 0: the
\* address depends on the name alone, and the first key stays.
OracleDeployed(s) ==
  /\ seeder[s].pc = "awaitOracle" /\ ~list[List(s)].deployed
  /\ list' = [list EXCEPT ![List(s)].deployed = TRUE, ![List(s)].key = seeder[s].job.key]
  /\ UNCHANGED <<pmp, note, netVars, plan, ops, burnt, seeder, obPool>>

\* The oracle and its list are active.
OracleSeen(s) ==
  /\ list[List(s)].deployed
  /\ Goes(s, "awaitOracle", IF seeder[s].job.kind = "oracle" THEN "done" ELSE "event")
  /\ UNCHANGED <<pmp, note, list, netVars>>

\* onlyOwnerPubkey
SendAddEvent(s) ==
  /\ Goes(s, "event", "awaitEvent")
  /\ list[List(s)].key = seeder[s].job.key /\ AddEvent(List(s))
  /\ UNCHANGED <<pmp, note>>

\* get_events, then the deployer's note: one of mint_pn_pool's.
EventSeen(s) ==
  /\ list[List(s)].event
  /\ Goes(s, "awaitEvent", "deploy")
  /\ UNCHANGED <<pmp, note, list, netVars>>

-----------------------------------------------------------------------------
(* The market: deployPMP, submitSetTimings, two stakes, splitFullSet. *)

SendDeployPmp(s) ==
  /\ Goes(s, "deploy", "awaitQuorum")
  /\ DeployPMP(Deployer(s), [initial |-> seeder[s].job.initial, lengthOk |-> TRUE,
                             lists |-> {List(s)}, underpaid |-> {}])
  /\ UNCHANGED <<pmp, list>>

QuorumSeen(s) ==
  /\ pmp.alive /\ AllConfirmed(pmp)
  /\ Goes(s, "awaitQuorum", "timings")
  /\ UNCHANGED <<pmp, note, list, netVars>>

SendSetTimings(s) ==
  /\ Goes(s, "timings", "awaitTimings")
  /\ SubmitSetTimings(seeder[s].job.key, now + LIFETIME)
  /\ UNCHANGED <<note, list>>

TimingsSeen(s) ==
  /\ seeder[s].pc = "awaitTimings" /\ pmp.alive /\ pmp.resultStart > 0 /\ StakeEnd(pmp) > 0
  /\ seeder' = [seeder EXCEPT ![s].pc = "stake1", ![s].timings =
                  [start |-> pmp.stakeStart, end |-> StakeEnd(pmp), result |-> pmp.resultStart]]
  /\ UNCHANGED <<vars, obPool>>

\* The second stake follows without a look at the first.
SendStake(s, i) ==
  /\ Goes(s, <<"stake1", "stake2">>[i], <<"stake2", "sleep">>[i])
  /\ SetStake(Deployer(s), seeder[s].job.outcomes[i], seeder[s].job.stake, FALSE)
  /\ UNCHANGED <<pmp, list>>

StakingOver(s) == now >= seeder[s].timings.end

SendSplit(s) ==
  /\ seeder[s].pc = "sleep" /\ StakingOver(s)
  /\ seeder' = [seeder EXCEPT ![s].pc = "awaitBook", ![s].freeze = now]
  /\ Split(Deployer(s), seeder[s].job.split)
  /\ UNCHANGED <<pmp, list, plan, ops, burnt, obPool>>

\* Mutant: the market knows the address of its book before the book is there.
BookActive_Address == pmp.alive

BookActive == book \notin {"none", "gone"}

MarketOf(s) ==
  [key |-> seeder[s].job.key, note |-> Deployer(s), timings |-> seeder[s].timings,
   freeze |-> seeder[s].freeze]

BookSeen(s) ==
  /\ seeder[s].pc = "awaitBook" /\ BookActive
  /\ seeder' = [seeder EXCEPT ![s].pc = "push", ![s].markets = Append(@, MarketOf(s))]
  /\ UNCHANGED <<vars, obPool>>

\* A refused call, a wait that is over, or the end of the process.
GivesUp(s) ==
  /\ seeder[s].pc \notin {"off", "done", "failed"}
  /\ seeder' = [seeder EXCEPT ![s].pc = "failed"]
  /\ UNCHANGED <<vars, obPool>>

SeederStep(s) ==
  /\ seeder[s].job # None
  /\ \/ LoadOrInitPool(s) \/ SavePool(s, "start") \/ SavePool(s, "push") \/ WritePool(s)
     \/ RunAgain(s)
     \/ SendDeployOracle(s) \/ OracleDeployed(s) \/ OracleSeen(s) \/ SendAddEvent(s) \/ EventSeen(s)
     \/ SendDeployPmp(s) \/ QuorumSeen(s) \/ SendSetTimings(s) \/ TimingsSeen(s)
     \/ SendStake(s, 1) \/ SendStake(s, 2) \/ SendSplit(s) \/ BookSeen(s) \/ GivesUp(s)

SeedNext ==
  \/ MarketNext /\ UNCHANGED <<seeder, obPool>>
  \/ \E s \in Seeders : SeederStep(s)

SeedSpec == MarketInit /\ SeederInit /\ [][SeedNext]_seedVars /\ Delivery

-----------------------------------------------------------------------------
(* Properties. *)

\* Whatever happens between two steps of its run, at which step the run ends and
\* whether another follows, a market that a readable pool file names has its order
\* book, was frozen after its staking window, and obeys the keys and keeps the times
\* that the file gives.
RecordedMarketsTrade ==
  \A s \in Seeders : obPool[s] \notin {None, TORN} =>
    \A i \in DOMAIN obPool[s] :
      LET m == obPool[s][i]
      IN /\ book # "none" /\ m.freeze >= m.timings.end
         /\ list[List(s)].key = m.key
         /\ pmp.alive => /\ pmp.frozen /\ pmp.deployer = m.note /\ m.key \in pmp.keys
                         /\ m.timings = [start |-> pmp.stakeStart, end |-> StakeEnd(pmp),
                                         result |-> pmp.resultStart]
=============================================================================
