------------------------------ MODULE MCSeeder ------------------------------
(***************************************************************************)
(* Markets that are set up by their owners, or by mint_ob_pool.            *)
(***************************************************************************)
EXTENDS MCMarket, MarketSeeder

CONSTANTS s1, s2

Job(kind, key, n) ==
  [kind |-> kind, list |-> l1, key |-> key, note |-> n, initial |-> [o \in Outcomes |-> 1],
   outcomes |-> <<yes, no>>, stake |-> 2, split |-> 3, twice |-> FALSE]
Twice(job) == [job EXCEPT !.twice = TRUE]

\* Only what is not there yet, and money for it.
Seeding ==
  [Base EXCEPT !.times = {20, 22}, !.maxOps = 1, !.deployers = {}, !.stakers = {}, !.results = {},
               !.missing = Lists, !.listed = {}, !.editing = {}, !.deployments = {},
               !.purse = [n \in Notes |-> Note(9, 0, 0)]]

\* A run beside another note's stake; two runs, and a run and a deploy_oracle, within
\* one second; a run and the next.
MCJobs ==
  [Seeding EXCEPT !.maxOps = 0] :> (s1 :> Twice(Job("market", l1, n1)))
    @@ [Seeding EXCEPT !.stakers = {n2}] :> (s1 :> Job("market", l1, n1))
    @@ Seeding :> (s1 :> Job("market", l1, n1) @@ s2 :> Job("market", l2, n2))
    @@ [Seeding EXCEPT !.times = {20}] :> (s1 :> Job("market", l1, n1) @@ s2 :> Job("oracle", l2, n2))

SetUpOrSeeded == SetUp \cup DOMAIN MCJobs
=============================================================================
