------------------------------ MODULE MCMarket ------------------------------
(***************************************************************************)
(* Small markets for TLC.                                                  *)
(***************************************************************************)
EXTENDS Market, TLC

CONSTANTS n1, n2, l1, l2, l3, yes, no

\* The outcomes, and the lists other than l1, are interchangeable.
OutcomesAndLists == {f @@ g : f \in Permutations({yes, no}), g \in Permutations({l2, l3})}

Initial(a, b) ==
  [initial |-> (yes :> a @@ no :> b), lengthOk |-> TRUE,
   lists |-> Lists, underpaid |-> {}]

Note(balance, coupons, debt) ==
  [balance |-> balance, coupons |-> coupons, debt |-> debt]

OwnKeys == [l \in Lists |-> l]
NoTrust == [l \in Lists |-> None]

\* n1 deploys a market that all lists confirm; both notes stake in it.
Base ==
  [times |-> {20, 30}, results |-> {40}, maxOps |-> 3,
   deployers |-> {n1}, stakers |-> {n1, n2}, cancellers |-> {},
   claimers |-> {}, forfeiters |-> {},
   stakes |-> {1}, splits |-> {}, merges |-> {},
   deployments |-> {Initial(2, 2)},
   purse |-> [n \in Notes |-> IF n = n1 THEN Note(5, 0, 0) ELSE Note(2, 0, 0)],
   missing |-> {}, listed |-> Lists, keyOf |-> OwnKeys, trustOf |-> NoTrust,
   editing |-> Lists]

\* Stakes of all kinds, claimed or forfeited.
Claiming ==
  [Base EXCEPT !.times = {20, 40}, !.maxOps = 4, !.claimers = {n1, n2},
               !.forfeiters = {n2}, !.purse[n2] = Note(1, 1, 2)]

\* Full sets split and merged after a freeze that leaves a remainder.
FullSets ==
  [Base EXCEPT !.times = {20, 30, 40}, !.claimers = {n1, n2},
               !.stakes = {}, !.splits = {3}, !.merges = {1, 3},
               !.deployments = {Initial(2, 3), Initial(3, 2)},
               !.purse[n1] = Note(8, 0, 0), !.purse[n2] = Note(4, 0, 0)]

\* All clean stakes merged away, so that a side may win without a stake.
DebtRefunds ==
  [Base EXCEPT !.times = {20, 30, 40}, !.claimers = {n1, n2}, !.forfeiters = {n2},
               !.merges = {2}, !.purse[n1] = Note(4, 0, 0), !.purse[n2] = Note(2, 0, 2)]

\* A market cancelled by votes or by the end of the grace period.
Cancelling ==
  [Base EXCEPT !.times = {20, 30, 60}, !.cancellers = {n1, n2},
               !.forfeiters = {n1, n2}, !.purse[n2] = Note(1, 1, 2)]

\* One oracle confirms these markets; its list is the only one deployed.
ByOneOracle(p) ==
  [p EXCEPT !.missing = Lists \ {l1}, !.listed = {l1}, !.editing = {},
            !.deployments = {[d EXCEPT !.lists = {l1}] : d \in @}]

\* Three oracles vote on everything.
Voting == [Base EXCEPT !.times = {20, 40}, !.results = ResultTimes, !.maxOps = 1,
                       !.stakers = {}, !.editing = {}]

Lives == {ByOneOracle(p) : p \in {Claiming, FullSets, DebtRefunds, Cancelling}} \cup {Voting}

\* n1 deploys twice, with and without a mistake, while a list adds and
\* deletes the event.
Redeploying ==
  [Base EXCEPT !.maxOps = 2, !.stakers = {}, !.listed = {l2}, !.editing = {l1},
               !.deployments = {Initial(2, 2), [Initial(2, 2) EXCEPT !.lengthOk = FALSE],
                                [Initial(2, 2) EXCEPT !.underpaid = {l1}]}]

\* Both notes deploy the market.
Competing ==
  [Base EXCEPT !.times = {20}, !.maxOps = 2, !.deployers = {n1, n2}, !.stakers = {},
               !.listed = {l1}, !.purse[n2] = Note(4, 0, 0)]

\* A list that was never deployed; lists of one oracle; lists that trust one address.
OneMissing == [Base EXCEPT !.maxOps = 2, !.stakers = {}, !.missing = {l2}, !.listed = {l1}]
OneOracle == [Base EXCEPT !.maxOps = 2, !.stakers = {}, !.keyOf = [l \in Lists |-> l1]]
OneTrust == [Base EXCEPT !.maxOps = 2, !.stakers = {}, !.cancellers = {n1},
                         !.trustOf = [l \in Lists |-> l1]]

\* Requests of every kind while the market is set up, cancelled and closed.
Asking == [Base EXCEPT !.times = {20, 30, 40}, !.maxOps = 2, !.cancellers = {n1, n2},
                       !.claimers = {n1}, !.forfeiters = {n1, n2}, !.splits = {2},
                       !.deployments = {[Initial(2, 2) EXCEPT !.lists = {l1}]}]

SetUp == {Redeploying, Competing, OneMissing, OneOracle, OneTrust, Asking}

\* The creator claims while the freeze refund is on its way.
Racing == {[Base EXCEPT !.times = {20, 40}, !.claimers = {n1, n2}]}

\* Only the creator has a stake, and asks for it after the grace period.
Abandoned == {[Base EXCEPT !.times = {20, 30, 60}, !.maxOps = 1, !.stakers = {},
                           !.cancellers = {n1}]}
=============================================================================
