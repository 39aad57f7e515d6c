---------------------------- MODULE BoundedFifo ----------------------------
(***************************************************************************)
(* What the order book's queue promises: entries leave in the order they   *)
(* came, placements are refused at PLACE_LIMIT entries and cancellations   *)
(* at CAPACITY, and every entry carries the next identifier of the counter. *)
(***************************************************************************)
EXTENDS Naturals, Sequences

CONSTANTS CAPACITY, PLACE_LIMIT, Kinds, NextIdAfter(_)

VARIABLES q, nextId

Init == q = <<>> /\ nextId = 1

Put(kind) ==
  /\ Len(q) < IF kind = "PLACE" THEN PLACE_LIMIT ELSE CAPACITY
  /\ q' = Append(q, [kind |-> kind, id |-> nextId])
  /\ nextId' = NextIdAfter(nextId)

Take ==
  /\ q # <<>>
  /\ q' = Tail(q)
  /\ UNCHANGED nextId

Next == (\E kind \in Kinds : Put(kind)) \/ Take

Spec == Init /\ [][Next]_<<q, nextId>>
=============================================================================
