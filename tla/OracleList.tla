----------------------------- MODULE OracleList -----------------------------
(***************************************************************************)
(* The oracle event lists of one market (OracleEventList.sol): each may    *)
(* confirm the market's event, and counts the markets that hold its        *)
(* confirmation so that the event is deleted only when none does.          *)
(***************************************************************************)
EXTENDS MarketPools

CONSTANT Deadline  \* the time until which an event may be confirmed

ASSUME ListAssumption == Deadline \in Nat

VARIABLE list

\* The lists, of oracles with the given keys and with the address their event
\* trusts, if any.  A message to a list that was never deployed bounces; the
\* listed ones already have the event.
ListInit(missing, listed, keyOf, trustOf) ==
  list = [l \in Lists |-> [deployed |-> l \notin missing, key |-> keyOf[l],
                           trust |-> trustOf[l], event |-> l \in listed, count |-> 0, confirmed |-> FALSE]]

ListStep(l, s, out) ==
  /\ list' = [list EXCEPT ![l] = s]
  /\ toList' = Consume(toList, l)
  /\ fromList' = [fromList EXCEPT ![l] = @ \o out]
  /\ UNCHANGED <<toPmp, toNote, book, now>>

Say(l, type) == <<[to |-> l, type |-> type]>>

Serviceable(s, m) == s.event /\ Deadline >= now /\ m.paid

ConfirmEvent(l) ==
  /\ HeadIs(toList, l, "confirmEvent")
  /\ \E s \in {list[l]}, m \in {Head(toList[l])} :
       \/ ~s.deployed /\ ListStep(l, s, Say(l, "bounce"))
       \/ /\ s.deployed /\ ~Serviceable(s, m)
          /\ ListStep(l, s, Say(l, "rejectEvent"))
       \/ /\ s.deployed /\ Serviceable(s, m) /\ ~s.confirmed
          /\ ListStep(l, [s EXCEPT !.confirmed = TRUE, !.count = @ + 1],
                      <<[to |-> l, type |-> "approveEvent", key |-> s.key, trust |-> s.trust]>>)
       \/ /\ s.deployed /\ Serviceable(s, m) /\ s.confirmed
          /\ ListStep(l, s, <<>>)

\* Release the confirmation the market holds, if it still holds one.
Released(s) ==
  IF s.confirmed THEN [s EXCEPT !.confirmed = FALSE, !.count = Monus(@, 1)] ELSE s

CancelEvent(l) ==
  /\ HeadIs(toList, l, "cancelEvent")
  /\ ListStep(l, Released(list[l]), <<>>)

\* Mutant: a bounced approval stays counted.
OnMarketBounce_Ignored(l) ==
  /\ HeadIs(toList, l, "bounce")
  /\ ListStep(l, list[l], <<>>)

OnMarketBounce(l) ==
  /\ HeadIs(toList, l, "bounce")
  /\ ListStep(l, Released(list[l]), <<>>)

\* The oracle's owner adds and deletes the event.
OwnerStep(l, s) == list' = [list EXCEPT ![l] = s] /\ UNCHANGED netVars

AddEvent(l) ==
  /\ list[l].deployed /\ ~list[l].event /\ Deadline > now
  /\ OwnerStep(l, [list[l] EXCEPT !.event = TRUE, !.count = 0])

DeleteEvent(l) ==
  /\ list[l].event /\ list[l].count = 0 /\ Deadline < now
  /\ OwnerStep(l, [list[l] EXCEPT !.event = FALSE])
=============================================================================
