------------------------ MODULE CaptureBarrier_proofs -----------------------
(***************************************************************************)
(* The indexer's capture for any number of streams, any page size, any     *)
(* limit of pages and any number of events, failures and crashes: stored   *)
(* cursors cover the rows, and a published barrier is complete.            *)
(***************************************************************************)
EXTENDS CaptureBarrier, Sums, SequenceTheorems

\* A page is a lower part of what lies ahead: it skips nothing.
LEMMA LowestSkipsNothing ==
  ASSUME NEW S \in SUBSET Nat, NEW n \in Nat, \A y \in S : y <= n,
         NEW k \in Nat, NEW e \in Lowest(k, S), NEW d \in S, d <= e
  PROVE  d \in Lowest(k, S)
<1> DEFINE below(x) == {y \in S : y < x}
<1>1. IsFiniteSet(S)
  BY FS_BoundedSetOfNaturals
<1>2. e \in S /\ Cardinality(below(e)) < k
  BY DEF Lowest
<1>3. below(e) \in SUBSET S /\ below(d) \in SUBSET below(e)
  <2>1. d \in Nat /\ e \in Nat /\ \A y \in S : y \in Nat /\ (y < d => y < e)
    BY <1>2
  <2> QED BY <2>1, Zenon
<1> HIDE DEF below
<1>4. IsFiniteSet(below(e)) /\ IsFiniteSet(below(d))
      /\ Cardinality(below(d)) <= Cardinality(below(e))
  BY <1>1, <1>3, FS_Subset
<1>5. Cardinality(below(d)) \in Nat /\ Cardinality(below(e)) \in Nat
  BY <1>4, FS_CardinalityType
<1>6. Cardinality(below(d)) < k
  BY <1>2, <1>4, <1>5
<1> QED BY <1>6 DEF Lowest, below

-----------------------------------------------------------------------------
(* The inductive invariant. *)

DrainState == [st : {"query", "persist", "ok", "err"},
               pages : 0..MAX_PAGES_PER_TICK, page : SUBSET DOMAIN chain,
               atHead : BOOLEAN]
Cursors == 0..Len(chain)
Aggregate == [cursor : Cursors, atHead : BOOLEAN]

Typed ==
  /\ chain \in Seq(Streams) /\ Len(chain) <= MaxEvents
  /\ done \subseteq raw /\ raw \subseteq DOMAIN chain
  /\ rows \in [Streams -> [exists : BOOLEAN, cursor : Cursors]]
  /\ barrier \in Aggregate /\ pendingHead \in Aggregate /\ published \in Cursors
  /\ cursor \in [Streams -> Cursors]
  /\ drain \in [Streams -> DrainState]
  /\ \A s \in Streams : drain[s].st = "query" => drain[s].pages < MAX_PAGES_PER_TICK
  /\ tickBase \in [publishing : Cursors, current : Cursors]

\* The page a drain holds is the part of its stream right after the cursor: it
\* skips nothing, and at head it reaches the chain as the tick found it.
PageHeld(s) ==
  /\ \A p \in drain[s].page : p \in Events(s) /\ p > cursor[s]
  /\ \A e \in Events(s), p \in drain[s].page :
       e > cursor[s] /\ e <= p => e \in drain[s].page
  /\ drain[s].atHead =>
       \A e \in Events(s) : e > cursor[s] /\ e <= tickBase.current
                            => e \in drain[s].page

\* A stream that ended its tick at head has captured what the tick found.
CaughtUp(s) == \A e \in Events(s) : e <= tickBase.current => e \in raw

Covered(s) == \A e \in Events(s) : e <= rows[s].cursor => e \in raw

Running(s) ==
  /\ cursor[s] <= rows[s].cursor
  /\ drain[s].st = "persist" => PageHeld(s)
  /\ drain[s].st = "ok" /\ drain[s].atHead => CaughtUp(s)

CaptureInv ==
  /\ Typed
  /\ \A s \in Streams : Covered(s)
  /\ up => /\ \A s \in Streams : Running(s)
           /\ pendingHead.cursor <= tickBase.current
           /\ published <= tickBase.current
  /\ BarrierComplete

\* A fresh database is right.
LEMMA InitCapture == Init => CaptureInv
<1> SUFFICES ASSUME Init PROVE CaptureInv
  OBVIOUS
<1>1. Len(chain) = 0 /\ DOMAIN chain = {} /\ chain \in Seq(Streams)
  BY DEF Init
<1>2. Typed
  BY <1>1, CaptureAssumption
     DEF Init, Typed, Cursors, Aggregate, DrainState, NoRow, NoHead, NewDrain
<1>3. /\ \A s \in Streams : Covered(s)
      /\ BarrierComplete
  BY <1>1 DEF Covered, Events, BarrierComplete, Complete
<1> QED BY <1>2, <1>3 DEF CaptureInv, Init

\* Every cursor, page and recorded length is within the chain.
LEMMA Ranges ==
  ASSUME Typed
  PROVE  /\ Len(chain) \in Nat /\ DOMAIN chain = 1..Len(chain)
         /\ barrier.cursor \in 0..Len(chain) /\ pendingHead.cursor \in 0..Len(chain)
         /\ published \in 0..Len(chain)
         /\ tickBase.current \in 0..Len(chain) /\ tickBase.publishing \in 0..Len(chain)
         /\ \A t \in Streams : /\ rows[t].cursor \in 0..Len(chain)
                               /\ cursor[t] \in 0..Len(chain)
                               /\ drain[t] \in DrainState
                               /\ drain[t].page \subseteq 1..Len(chain)
                               /\ Events(t) \subseteq 1..Len(chain)
<1>1. Len(chain) \in Nat /\ DOMAIN chain = 1..Len(chain)
  BY DEF Typed
<1>2. /\ barrier.cursor \in 0..Len(chain) /\ pendingHead.cursor \in 0..Len(chain)
      /\ published \in 0..Len(chain)
      /\ tickBase.current \in 0..Len(chain) /\ tickBase.publishing \in 0..Len(chain)
  BY DEF Typed, Cursors, Aggregate
<1>3. \A t \in Streams : rows[t].cursor \in 0..Len(chain) /\ cursor[t] \in 0..Len(chain)
  BY DEF Typed, Cursors
<1>4. \A t \in Streams : drain[t] \in DrainState /\ drain[t].page \subseteq 1..Len(chain)
  BY <1>1 DEF Typed, DrainState
<1>5. \A t \in Streams : Events(t) \subseteq 1..Len(chain)
  BY <1>1 DEF Events
<1> QED BY <1>1, <1>2, <1>3, <1>4, <1>5

\* A new event is above every cursor and every recorded chain length.
LEMMA EmitKeeps ==
  ASSUME CaptureInv, NEW s \in Streams, Emit(s)
  PROVE  CaptureInv'
<1> DEFINE n == Len(chain)
<1>1. /\ chain' \in Seq(Streams) /\ Len(chain') = n + 1
      /\ DOMAIN chain = 1..n /\ DOMAIN chain' = 1..(n + 1) /\ n \in Nat
      /\ \A e \in 1..n : chain'[e] = chain[e]
  BY DEF CaptureInv, Typed, Emit
<1>2. UNCHANGED <<raw, done, rows, barrier, up, cursor, drain, published,
                  pendingHead, tickBase>>
  BY DEF Emit, dbVars, captureVars
<1>3. Typed'
  <2>1. Cursors \subseteq Cursors' /\ DOMAIN chain \subseteq DOMAIN chain'
    BY <1>1 DEF Cursors
  <2>2. DrainState \subseteq DrainState' /\ Aggregate \subseteq Aggregate'
    BY <2>1 DEF DrainState, Aggregate
  <2>3. Len(chain') <= MaxEvents
    BY <1>1, CaptureAssumption DEF Emit
  <2>4. /\ rows' \in [Streams -> [exists : BOOLEAN, cursor : Cursors']]
        /\ cursor' \in [Streams -> Cursors'] /\ published' \in Cursors'
        /\ tickBase' \in [publishing : Cursors', current : Cursors']
    BY <1>2, <2>1 DEF CaptureInv, Typed
  <2>5. drain' \in [Streams -> DrainState'] /\ barrier' \in Aggregate'
        /\ pendingHead' \in Aggregate'
    BY <1>2, <2>2 DEF CaptureInv, Typed
  <2>6. /\ done' \subseteq raw' /\ raw' \subseteq DOMAIN chain'
        /\ \A t \in Streams : drain'[t].st = "query"
                                => drain'[t].pages < MAX_PAGES_PER_TICK
    BY <1>2, <2>1 DEF CaptureInv, Typed
  <2> QED BY <1>1, <2>3, <2>4, <2>5, <2>6 DEF Typed
<1>4. ASSUME NEW t \in Streams, NEW e \in Events(t)', e <= n
      PROVE  e \in Events(t)
  BY <1>1, <1>4 DEF Events
<1>5. ASSUME NEW t \in Streams
      PROVE  /\ rows[t].cursor \in 0..n /\ cursor[t] \in 0..n
             /\ drain[t].page \subseteq 1..n
             /\ tickBase.current \in 0..n /\ tickBase.publishing \in 0..n
             /\ barrier.cursor \in 0..n
             /\ Events(t) \subseteq Events(t)' /\ Events(t)' \subseteq Nat
  <2>1. Events(t) \subseteq Events(t)' /\ Events(t)' \subseteq Nat
    BY <1>1 DEF Events
  <2> QED BY <1>1, <2>1, Ranges DEF CaptureInv
<1>6. ASSUME NEW t \in Streams PROVE Covered(t)'
  <2> SUFFICES ASSUME NEW e \in Events(t)', e <= rows[t].cursor PROVE e \in raw
    BY <1>2 DEF Covered
  <2>1. e <= n
    BY <1>1, <1>5
  <2> QED BY <1>4, <2>1 DEF CaptureInv, Covered
<1>7. ASSUME up, NEW t \in Streams PROVE Running(t)'
  <2>1. Running(t)
    BY <1>7 DEF CaptureInv
  <2>2. ASSUME drain[t].st = "persist" PROVE PageHeld(t)'
    <3>1. PageHeld(t)
      BY <2>1, <2>2 DEF Running
    <3>2. ASSUME NEW e \in Events(t)', NEW p \in drain[t].page, e <= p
          PROVE  e \in Events(t)
      <4>1. e <= n
        BY <1>1, <1>5, <3>2
      <4> QED BY <1>4, <4>1
    <3>3. ASSUME NEW e \in Events(t)', e <= tickBase.current
          PROVE  e \in Events(t)
      <4>1. e <= n
        BY <1>1, <1>5, <3>3
      <4> QED BY <1>4, <4>1
    <3> QED BY <1>2, <1>5, <3>1, <3>2, <3>3 DEF PageHeld
  <2>3. ASSUME drain[t].st = "ok", drain[t].atHead PROVE CaughtUp(t)'
    <3> SUFFICES ASSUME NEW e \in Events(t)', e <= tickBase.current PROVE e \in raw
      BY <1>2 DEF CaughtUp
    <3>1. e <= n
      BY <1>1, <1>5
    <3> QED BY <1>4, <2>1, <2>3, <3>1 DEF Running, CaughtUp
  <2> QED BY <1>2, <2>1, <2>2, <2>3 DEF Running
<1>8. BarrierComplete'
  <2> SUFFICES ASSUME NEW e \in DOMAIN chain', e <= barrier.cursor
               PROVE  /\ barrier.atHead => e \in raw
                      /\ e <= tickBase.publishing => e \in raw
    BY <1>2 DEF BarrierComplete, Complete
  <2>1. e \in DOMAIN chain
    BY <1>1, <1>5, CaptureAssumption
  <2> QED BY <2>1 DEF CaptureInv, BarrierComplete, Complete
<1> QED BY <1>2, <1>3, <1>6, <1>7, <1>8 DEF CaptureInv

\* A restart takes the cursors from the rows and an aggregate cursor that is
\* the stored one or 0.
LEMMA StartKeeps ==
  ASSUME CaptureInv, Start
  PROVE  CaptureInv'
<1>1. UNCHANGED <<chain, raw, done, rows>>
  BY DEF Start
<1>2. /\ barrier' \in Aggregate /\ ~barrier'.atHead /\ barrier'.cursor \in {0, barrier.cursor}
      /\ published' = barrier'.cursor /\ pendingHead' = NoHead
  <2>1. barrier.cursor \in Cursors /\ 0 \in Cursors
    BY Ranges DEF CaptureInv, Cursors
  <2> QED BY <2>1 DEF Start, Aggregate
<1>3. /\ cursor' = [s \in Streams |-> rows[s].cursor]
      /\ drain' = [s \in Streams |-> NewDrain]
      /\ tickBase' = [publishing |-> tickBase.publishing, current |-> Len(chain)]
  BY DEF Start, CaptureInv, Typed
<1>4. NewDrain \in DrainState /\ NewDrain.st = "query" /\ NewDrain.pages < MAX_PAGES_PER_TICK
  BY CaptureAssumption DEF NewDrain, DrainState
<1>5. Typed'
  <2>1. /\ published' \in Cursors /\ pendingHead' \in Aggregate
        /\ cursor' \in [Streams -> Cursors]
        /\ tickBase' \in [publishing : Cursors, current : Cursors]
    BY <1>2, <1>3, Ranges DEF CaptureInv, Cursors, Aggregate, NoHead
  <2>2. drain' \in [Streams -> DrainState]
        /\ \A s \in Streams : drain'[s].st = "query" => drain'[s].pages < MAX_PAGES_PER_TICK
    BY <1>3, <1>4
  <2> QED BY <1>1, <1>2, <2>1, <2>2 DEF CaptureInv, Typed, Cursors, Aggregate, DrainState
<1>6. \A s \in Streams : Covered(s)'
  BY <1>1 DEF CaptureInv, Covered, Events
<1>7. \A s \in Streams : Running(s)'
  <2> SUFFICES ASSUME NEW s \in Streams PROVE Running(s)'
    OBVIOUS
  <2>1. cursor'[s] = rows'[s].cursor /\ drain'[s].st = "query" /\ rows[s].cursor \in Nat
    BY <1>1, <1>3, <1>4, Ranges DEF CaptureInv
  <2> QED BY <1>1, <2>1 DEF Running
<1>8. pendingHead'.cursor <= tickBase'.current /\ published' <= tickBase'.current
  BY <1>2, <1>3, Ranges DEF CaptureInv, NoHead
<1>9. BarrierComplete'
  <2>1. \A e \in DOMAIN chain : e > 0
    BY Ranges DEF CaptureInv
  <2> QED BY <1>1, <1>2, <1>3, <2>1, Ranges DEF CaptureInv, BarrierComplete, Complete
<1> QED BY <1>5, <1>6, <1>7, <1>8, <1>9 DEF CaptureInv

\* A crash loses only what the process holds in memory.
LEMMA CrashKeeps ==
  ASSUME CaptureInv, Crash
  PROVE  CaptureInv'
<1>1. /\ UNCHANGED <<chain, raw, done, rows, barrier, cursor, drain, published,
                     pendingHead, tickBase>>
      /\ up' = FALSE
  BY DEF Crash, dbVars, captureVars
<1>2. Typed'
  BY <1>1 DEF CaptureInv, Typed, Cursors, Aggregate, DrainState
<1> QED BY <1>1, <1>2 DEF CaptureInv, Covered, Events, BarrierComplete, Complete

\* A query holds the lowest part of what lies ahead of the cursor.
LEMMA QueryKeeps ==
  ASSUME CaptureInv, NEW s \in Streams, Query(s)
  PROVE  CaptureInv'
<1> DEFINE ahead == {e \in Events(s) : e > cursor[s]}
           page == Lowest(PAGE_SIZE, ahead)
           d == [st |-> "persist", pages |-> drain[s].pages + 1, page |-> page,
                 atHead |-> page = ahead]
<1>1. /\ UNCHANGED <<chain, raw, done, rows, barrier, up, cursor, published,
                     pendingHead, tickBase>>
      /\ up
  BY DEF Query, dbVars
<1>2. drain' = [drain EXCEPT ![s] = d] /\ drain \in [Streams -> DrainState]
      /\ drain[s].st = "query"
  BY DEF Query, CaptureInv, Typed
<1>3. /\ ahead \in SUBSET Nat /\ \A e \in ahead : e <= Len(chain)
      /\ Len(chain) \in Nat /\ PAGE_SIZE \in Nat /\ page \subseteq ahead
      /\ ahead \subseteq DOMAIN chain
  BY Ranges, CaptureAssumption DEF CaptureInv, Lowest
<1>4. d \in DrainState
  <2>1. drain[s].pages + 1 \in 0..MAX_PAGES_PER_TICK
    BY <1>2, CaptureAssumption DEF CaptureInv, Typed, DrainState
  <2> QED BY <1>3, <2>1 DEF DrainState
<1>5. \A e \in ahead, p \in page : e <= p => e \in page
  <2> HIDE DEF ahead
  <2> QED BY <1>3, LowestSkipsNothing, Zenon
<1>6. Typed'
  <2>1. drain' \in [Streams -> DrainState]
    BY <1>2, <1>4
  <2>2. \A t \in Streams : drain'[t].st = "query" => drain'[t].pages < MAX_PAGES_PER_TICK
    BY <1>2 DEF CaptureInv, Typed
  <2> QED BY <1>1, <2>1, <2>2 DEF CaptureInv, Typed, Cursors, Aggregate, DrainState
<1>7. ASSUME NEW t \in Streams PROVE Running(t)'
  <2>1. Running(t)
    BY <1>1 DEF CaptureInv
  <2>2. CASE t # s
    <3>1. drain'[t] = drain[t]
      BY <1>2, <2>2
    <3> QED BY <1>1, <2>1, <3>1 DEF Running, PageHeld, CaughtUp, Events
  <2>3. CASE t = s
    <3>1. drain'[t] = d
      BY <1>2, <2>3
    <3>2. PageHeld(t)'
      <4> HIDE DEF page
      <4>1. /\ \A p \in page : p \in Events(s) /\ p > cursor[s]
            /\ \A e \in Events(s), p \in page : e > cursor[s] /\ e <= p => e \in page
            /\ page = ahead => \A e \in Events(s) : e > cursor[s] => e \in page
        BY <1>3, <1>5
      <4>2. drain'[t].page = page /\ (drain'[t].atHead => page = ahead)
        <5>1. d.page = page /\ d.atHead = (page = ahead)
          BY Zenon
        <5> HIDE DEF d
        <5> QED BY <3>1, <5>1, Zenon
      <4>3. Events(t)' = Events(s) /\ cursor'[t] = cursor[s]
        BY <1>1, <2>3 DEF Events
      <4> HIDE DEF ahead
      <4> QED BY <4>1, <4>2, <4>3 DEF PageHeld
    <3> QED BY <1>1, <2>1, <3>1, <3>2 DEF Running
  <2> QED BY <2>2, <2>3
<1> QED BY <1>1, <1>6, <1>7 DEF CaptureInv, Covered, Events, BarrierComplete, Complete

-----------------------------------------------------------------------------
(* persist_page. *)

\* The transaction stores a page and a cursor that the rows cover, not before
\* the cursor in memory.
LEMMA CommitCovers ==
  ASSUME CaptureInv, NEW s \in Streams, up, drain[s].st = "persist",
         PageCommit(s), UNCHANGED chain
  PROVE  /\ raw \subseteq raw' /\ raw' \subseteq DOMAIN chain
         /\ drain[s].page \subseteq raw'
         /\ rows' \in [Streams -> [exists : BOOLEAN, cursor : Cursors]]
         /\ \A t \in Streams : Covered(t)'
         /\ \A t \in Streams \ {s} : rows'[t] = rows[t]
         /\ MaxOr0(drain[s].page \cup {cursor[s]}) \in Cursors
         /\ MaxOr0(drain[s].page \cup {cursor[s]}) <= rows'[s].cursor
         /\ cursor[s] <= rows'[s].cursor
<1> DEFINE n == Len(chain)
           page == drain[s].page
           r == IF page = {} THEN rows[s].cursor ELSE Max(page)
           all == page \cup {cursor[s]} \cup {0}
<1>1. /\ n \in Nat /\ DOMAIN chain = 1..n /\ page \subseteq 1..n
      /\ cursor[s] \in 0..n /\ rows[s].cursor \in 0..n
      /\ \A t \in Streams : rows[t].cursor \in 0..n
      /\ Events(s) \subseteq 1..n
  BY Ranges DEF CaptureInv
<1>2. /\ cursor[s] <= rows[s].cursor /\ PageHeld(s) /\ Covered(s)
  BY DEF CaptureInv, Running
<1>3. /\ raw' = raw \cup page
      /\ rows' = [rows EXCEPT ![s] = [exists |-> TRUE, cursor |-> r]]
      /\ rows \in [Streams -> [exists : BOOLEAN, cursor : Cursors]]
  BY DEF PageCommit, CaptureInv, Typed
<1>4. r \in 0..n /\ \A p \in page : p <= r
  <2>1. CASE page = {}
    BY <1>1, <2>1
  <2>2. CASE page # {}
    <3>1. page \in SUBSET Nat /\ \A p \in page : p <= n
      BY <1>1
    <3>2. Max(page) \in page /\ \A p \in page : p <= Max(page)
      <4> HIDE DEF page
      <4> QED BY <1>1, <2>2, <3>1, MaxOfNaturals, Zenon
    <3> QED BY <1>1, <2>2, <3>2
  <2> QED BY <2>1, <2>2
<1>5. cursor[s] <= r
  <2>1. CASE page = {}
    BY <1>2, <2>1
  <2>2. CASE page # {}
    <3>1. PICK p \in page : TRUE
      BY <2>2
    <3>2. p > cursor[s] /\ p <= r /\ p \in 1..n
      BY <1>1, <1>2, <1>4 DEF PageHeld
    <3> QED BY <1>1, <1>4, <3>2
  <2> QED BY <2>1, <2>2
<1>6. Covered(s)'
  <2> SUFFICES ASSUME NEW e \in Events(s), e <= r PROVE e \in raw'
    BY <1>3 DEF Covered, Events
  <2>1. CASE e <= cursor[s]
    <3>1. e <= rows[s].cursor
      BY <1>1, <1>2, <2>1
    <3> QED BY <1>2, <1>3, <3>1 DEF Covered
  <2>2. CASE e > cursor[s]
    <3>1. CASE page = {}
      BY <1>2, <1>3, <3>1 DEF Covered
    <3>2. CASE page # {}
      <4>1. Max(page) \in page
        <5>1. page \in SUBSET Nat /\ \A p \in page : p <= n
          BY <1>1
        <5> HIDE DEF page
        <5> QED BY <1>1, <3>2, <5>1, MaxOfNaturals
      <4>2. e <= Max(page)
        BY <3>2
      <4>3. \A p \in page : e <= p => e \in page
        BY <1>2, <2>2 DEF PageHeld
      <4> HIDE DEF page
      <4> QED BY <1>3, <4>1, <4>2, <4>3
    <3> QED BY <3>1, <3>2
  <2>3. e \in 1..n
    BY <1>1
  <2> QED BY <1>1, <2>1, <2>2, <2>3
<1> HIDE DEF r
<1>7. ASSUME NEW t \in Streams, t # s PROVE Covered(t)' /\ rows'[t] = rows[t]
  BY <1>3, <1>7 DEF CaptureInv, Covered, Events
<1>8. rows'[s].cursor = r
  BY <1>3
<1>9. MaxOr0(page \cup {cursor[s]}) \in all /\ \A x \in all : x \in 0..n /\ x <= r
  <2>1. \A x \in all : x \in 0..n /\ x <= r
    BY <1>1, <1>4, <1>5
  <2>2. all \in SUBSET Nat /\ all # {} /\ \A x \in all : x <= n
    BY <1>1, <2>1
  <2>3. MaxOr0(page \cup {cursor[s]}) = Max(all)
    BY DEF MaxOr0
  <2> HIDE DEF all
  <2>4. Max(all) \in all
    BY <1>1, <2>2, MaxOfNaturals, Zenon
  <2> QED BY <2>1, <2>3, <2>4
<1>10. /\ MaxOr0(page \cup {cursor[s]}) \in Cursors
       /\ MaxOr0(page \cup {cursor[s]}) <= rows'[s].cursor
  <2> HIDE DEF all
  <2> QED BY <1>8, <1>9 DEF Cursors
<1>11. rows' \in [Streams -> [exists : BOOLEAN, cursor : Cursors]]
  BY <1>3, <1>4 DEF Cursors
<1>12. raw' \subseteq DOMAIN chain /\ raw \subseteq raw' /\ page \subseteq raw'
  BY <1>1, <1>3 DEF CaptureInv, Typed
<1> QED BY <1>5, <1>6, <1>7, <1>8, <1>10, <1>11, <1>12

\* More rows in raw_events break nothing that says rows are there.
LEMMA MoreRows ==
  ASSUME BarrierComplete, raw \subseteq raw', UNCHANGED <<chain, barrier, tickBase>>
  PROVE  BarrierComplete'
BY DEF BarrierComplete, Complete

\* Saving raw messages with their cursor keeps the capture right.
LEMMA PersistKeeps ==
  ASSUME CaptureInv, NEW s \in Streams, Persist(s)
  PROVE  CaptureInv'
<1> DEFINE st == IF TickDone(drain[s]) THEN "ok" ELSE "query"
           m == MaxOr0(drain[s].page \cup {cursor[s]})
<1>1. /\ UNCHANGED <<chain, done, barrier, up, published, pendingHead, tickBase>>
      /\ up /\ drain[s].st = "persist" /\ PageCommit(s)
  BY DEF Persist
<1>2. /\ cursor' = [cursor EXCEPT ![s] = m]
      /\ drain' = [drain EXCEPT ![s].st = st]
      /\ cursor \in [Streams -> Cursors] /\ drain \in [Streams -> DrainState]
  BY DEF Persist, CaptureInv, Typed
<1>3. /\ raw \subseteq raw' /\ raw' \subseteq DOMAIN chain
      /\ drain[s].page \subseteq raw'
      /\ rows' \in [Streams -> [exists : BOOLEAN, cursor : Cursors]]
      /\ \A t \in Streams : Covered(t)'
      /\ \A t \in Streams \ {s} : rows'[t] = rows[t]
      /\ m \in Cursors /\ m <= rows'[s].cursor
  BY <1>1, CommitCovers
<1> HIDE DEF m
<1>4. /\ \A t \in Streams \ {s} : drain'[t] = drain[t] /\ cursor'[t] = cursor[t]
      /\ cursor'[s] = m /\ drain'[s].st = st /\ drain'[s].atHead = drain[s].atHead
      /\ drain'[s].pages = drain[s].pages
  BY <1>2 DEF DrainState
<1>5. Typed'
  <2>1. drain' \in [Streams -> DrainState] /\ cursor' \in [Streams -> Cursors]
    BY <1>2, <1>3 DEF DrainState
  <2>2. st = "query" => drain[s].pages < MAX_PAGES_PER_TICK
    BY <1>2, CaptureAssumption DEF TickDone, DrainState
  <2>3. \A t \in Streams : drain'[t].st = "query" => drain'[t].pages < MAX_PAGES_PER_TICK
    BY <1>4, <2>2 DEF CaptureInv, Typed
  <2> QED BY <1>1, <1>3, <2>1, <2>3, Zenon DEF CaptureInv, Typed, Cursors, Aggregate, DrainState
<1>6. ASSUME NEW t \in Streams PROVE Running(t)'
  <2>1. Running(t)
    BY <1>1 DEF CaptureInv
  <2>2. CASE t # s
    BY <1>1, <1>3, <1>4, <2>1, <2>2 DEF Running, PageHeld, CaughtUp, Events
  <2>3. CASE t = s
    <3>1. ASSUME drain[s].atHead PROVE CaughtUp(s)'
      <4> SUFFICES ASSUME NEW e \in Events(s), e <= tickBase.current PROVE e \in raw'
        BY <1>1 DEF CaughtUp, Events
      <4>1. /\ e \in Nat /\ cursor[s] \in Nat /\ rows[s].cursor \in Nat
            /\ cursor[s] <= rows[s].cursor /\ Covered(s) /\ PageHeld(s)
        BY <1>1, <2>1, <2>3, Ranges DEF CaptureInv, Running
      <4>2. CASE e <= cursor[s]
        <5>1. e <= rows[s].cursor
          BY <4>1, <4>2
        <5> QED BY <1>3, <4>1, <5>1 DEF Covered
      <4>3. CASE e > cursor[s]
        BY <1>3, <3>1, <4>1, <4>3 DEF PageHeld
      <4> QED BY <4>1, <4>2, <4>3
    <3> QED BY <1>3, <1>4, <2>3, <3>1 DEF Running
  <2> QED BY <2>2, <2>3
<1>7. BarrierComplete'
  BY <1>1, <1>3, MoreRows DEF CaptureInv
<1> QED BY <1>1, <1>3, <1>5, <1>6, <1>7 DEF CaptureInv

\* An unconfirmed commit leaves memory behind the stored cursor, never ahead.
LEMMA CommitUnconfirmedKeeps ==
  ASSUME CaptureInv, NEW s \in Streams, CommitUnconfirmed(s)
  PROVE  CaptureInv'
<1>1. /\ UNCHANGED <<chain, done, barrier, up, cursor, published, pendingHead, tickBase>>
      /\ up /\ drain[s].st = "persist" /\ PageCommit(s)
  BY DEF CommitUnconfirmed
<1>2. drain' = [drain EXCEPT ![s].st = "err"] /\ drain \in [Streams -> DrainState]
  BY DEF CommitUnconfirmed, CaptureInv, Typed
<1>3. /\ raw \subseteq raw' /\ raw' \subseteq DOMAIN chain
      /\ rows' \in [Streams -> [exists : BOOLEAN, cursor : Cursors]]
      /\ \A t \in Streams : Covered(t)'
      /\ \A t \in Streams \ {s} : rows'[t] = rows[t]
      /\ cursor[s] <= rows'[s].cursor
  BY <1>1, CommitCovers, Zenon
<1>4. (\A t \in Streams \ {s} : drain'[t] = drain[t]) /\ drain'[s].st = "err"
  BY <1>2 DEF DrainState
<1>5. Typed'
  <2>1. drain' \in [Streams -> DrainState]
    BY <1>2 DEF DrainState
  <2>2. \A t \in Streams : drain'[t].st = "query" => drain'[t].pages < MAX_PAGES_PER_TICK
    BY <1>4 DEF CaptureInv, Typed
  <2> QED BY <1>1, <1>3, <2>1, <2>2, Zenon DEF CaptureInv, Typed, Cursors, Aggregate, DrainState
<1>6. ASSUME NEW t \in Streams PROVE Running(t)'
  <2>1. Running(t)
    BY <1>1 DEF CaptureInv
  <2>2. CASE t # s
    BY <1>1, <1>3, <1>4, <2>1, <2>2 DEF Running, PageHeld, CaughtUp, Events
  <2>3. CASE t = s
    BY <1>1, <1>3, <1>4, <2>3 DEF Running
  <2> QED BY <2>2, <2>3
<1>7. BarrierComplete'
  BY <1>1, <1>3, MoreRows DEF CaptureInv
<1> QED BY <1>1, <1>3, <1>5, <1>6, <1>7 DEF CaptureInv

\* A page that fails keeps the capture right.
LEMMA DrainFailsKeeps ==
  ASSUME CaptureInv, NEW s \in Streams, DrainFails(s)
  PROVE  CaptureInv'
<1>1. /\ UNCHANGED <<chain, raw, done, rows, barrier, up, cursor, published,
                     pendingHead, tickBase>>
      /\ up
  BY DEF DrainFails, dbVars
<1>2. drain' = [drain EXCEPT ![s].st = "err"] /\ drain \in [Streams -> DrainState]
  BY DEF DrainFails, CaptureInv, Typed
<1>3. (\A t \in Streams \ {s} : drain'[t] = drain[t]) /\ drain'[s].st = "err"
  BY <1>2 DEF DrainState
<1>4. Typed'
  <2>1. drain' \in [Streams -> DrainState]
    BY <1>2 DEF DrainState
  <2>2. \A t \in Streams : drain'[t].st = "query" => drain'[t].pages < MAX_PAGES_PER_TICK
    BY <1>3 DEF CaptureInv, Typed
  <2> QED BY <1>1, <2>1, <2>2 DEF CaptureInv, Typed, Cursors, Aggregate, DrainState
<1>5. ASSUME NEW t \in Streams PROVE Running(t)'
  <2>1. Running(t)
    BY <1>1 DEF CaptureInv
  <2>2. CASE t # s
    BY <1>1, <1>3, <2>1, <2>2 DEF Running, PageHeld, CaughtUp, Events
  <2>3. CASE t = s
    BY <1>1, <1>3, <2>1, <2>3 DEF Running
  <2> QED BY <2>2, <2>3
<1> QED BY <1>1, <1>4, <1>5 DEF CaptureInv, Covered, Events, BarrierComplete, Complete

-----------------------------------------------------------------------------
(* The end of a tick. *)

\* The aggregate of the cursors lies within the chain; with every stream at
\* head it is not above any chain length the cursors are not above.
LEMMA SynchronizedInChain ==
  ASSUME Typed
  PROVE  /\ Synchronized \in Aggregate /\ Candidate \in Aggregate
         /\ Synchronized.atHead <=> \A s \in Streams : drain[s].atHead
         /\ ~Synchronized.atHead =>
              \A s \in Streams : ~drain[s].atHead => Synchronized.cursor <= cursor[s]
<1> DEFINE behind == {s \in Streams : ~drain[s].atHead}
           every == {cursor[s] : s \in Streams}
           late == {cursor[s] : s \in behind}
           c == IF behind = {} THEN Max(every) ELSE Min(late)
<1>1. Len(chain) \in Nat /\ \A s \in Streams : cursor[s] \in 0..Len(chain)
  BY Ranges
<1>2. Synchronized = [cursor |-> c, atHead |-> behind = {}]
  BY Zenon DEF Synchronized
<1>3. Max(every) \in Cursors
  <2>1. every \in SUBSET Nat /\ every # {} /\ \A x \in every : x <= Len(chain)
    BY <1>1, CaptureAssumption
  <2>2. every \subseteq Cursors
    BY <1>1 DEF Cursors
  <2> HIDE DEF every
  <2> QED BY <1>1, <2>1, <2>2, MaxOfNaturals, Zenon
<1>4. ASSUME behind # {}
      PROVE  Min(late) \in Cursors /\ \A s \in behind : Min(late) <= cursor[s]
  <2>1. late \in SUBSET Nat /\ late # {} /\ \A s \in behind : cursor[s] \in late
    BY <1>1, <1>4
  <2>2. late \subseteq Cursors
    BY <1>1 DEF Cursors
  <2> HIDE DEF late
  <2> QED BY <2>1, <2>2, MinOfNaturals, Zenon
<1>5. c \in Cursors
  BY <1>3, <1>4
<1>6. Synchronized.cursor = c /\ Synchronized.atHead = (behind = {})
  <2> HIDE DEF c
  <2> QED BY <1>2, Zenon
<1>7. behind = {} <=> \A s \in Streams : drain[s].atHead
  OBVIOUS
<1>8. Synchronized \in Aggregate
  <2> HIDE DEF c, behind
  <2>1. (behind = {}) \in BOOLEAN
    OBVIOUS
  <2> QED BY <1>2, <1>5, <2>1, Zenon DEF Aggregate
<1>9. Candidate \in Aggregate
  <2>1. NoHead \in Aggregate
    BY <1>1 DEF NoHead, Aggregate, Cursors
  <2> QED BY <1>8, <2>1 DEF Candidate
<1>10. ~Synchronized.atHead =>
         \A s \in Streams : ~drain[s].atHead => Synchronized.cursor <= cursor[s]
  BY <1>4, <1>6
<1> QED BY <1>6, <1>7, <1>8, <1>9, <1>10, Zenon

\* A successful tick has captured, of the streams at head, all it found, and of
\* the others all up to their cursors.
LEMMA TickCaptured ==
  ASSUME CaptureInv, TickEnded, TickOk, NEW e \in DOMAIN chain,
         e <= tickBase.current,
         drain[chain[e]].atHead \/ e <= cursor[chain[e]]
  PROVE  e \in raw
<1> DEFINE s == chain[e]
<1>1. s \in Streams /\ e \in Events(s)
  BY DEF CaptureInv, Typed, Events
<1>2. up /\ drain[s].st = "ok" /\ Running(s) /\ Covered(s)
  BY <1>1 DEF CaptureInv, TickEnded, TickOk
<1>3. CASE drain[s].atHead
  BY <1>1, <1>2, <1>3 DEF Running, CaughtUp
<1>4. CASE e <= cursor[s]
  <2>1. cursor[s] <= rows[s].cursor /\ cursor[s] \in Nat /\ rows[s].cursor \in Nat
        /\ e \in Nat
    BY <1>1, <1>2, Ranges DEF CaptureInv, Running
  <2>2. e <= rows[s].cursor
    BY <1>4, <2>1
  <2> QED BY <1>1, <1>2, <2>2 DEF Covered
<1> QED BY <1>3, <1>4

\* What a new tick starts from.
LEMMA NewTick ==
  ASSUME CaptureInv, up, NextTick,
         UNCHANGED <<chain, raw, done, rows, up, cursor>>,
         barrier' \in Aggregate, pendingHead' \in Aggregate, published' \in Cursors,
         tickBase' \in [publishing : Cursors, current : {Len(chain)}],
         BarrierComplete'
  PROVE  CaptureInv'
<1>1. \A s \in Streams : drain'[s] = NewDrain
  BY DEF NextTick
<1>2. NewDrain \in DrainState /\ NewDrain.st = "query" /\ NewDrain.pages < MAX_PAGES_PER_TICK
  BY CaptureAssumption DEF NewDrain, DrainState
<1>3. Typed'
  <2>1. /\ drain' \in [Streams -> DrainState]
        /\ \A s \in Streams : drain'[s].st = "query" => drain'[s].pages < MAX_PAGES_PER_TICK
    BY <1>1, <1>2 DEF NextTick
  <2>2. tickBase' \in [publishing : Cursors, current : Cursors]
    BY Ranges DEF CaptureInv, Cursors
  <2> QED BY <2>1, <2>2 DEF CaptureInv, Typed, Cursors, Aggregate, DrainState
<1>4. \A s \in Streams : Running(s)'
  BY <1>1, <1>2 DEF CaptureInv, Running
<1>5. pendingHead'.cursor <= tickBase'.current /\ published' <= tickBase'.current
  BY Ranges DEF CaptureInv, Aggregate, Cursors
<1> QED BY <1>3, <1>4, <1>5 DEF CaptureInv, Covered, Events

\* Publishing a complete drain keeps the capture right.
LEMMA PublishKeeps ==
  ASSUME CaptureInv, Publish
  PROVE  CaptureInv'
<1> DEFINE b == Stabilized(Synchronized)
<1>1. /\ TickEnded /\ TickOk /\ up /\ NextTick
      /\ UNCHANGED <<chain, raw, done, rows, up, cursor>>
      /\ barrier' = b /\ published' = b.cursor /\ pendingHead' = Candidate
      /\ tickBase' = [publishing |-> tickBase.current, current |-> Len(chain)]
  BY DEF Publish, TickEnded
<1>2. /\ Len(chain) \in Nat /\ tickBase.current \in Cursors /\ DOMAIN chain = 1..Len(chain)
      /\ pendingHead.cursor \in Cursors /\ published \in Cursors
      /\ pendingHead.cursor <= tickBase.current /\ published <= tickBase.current
  BY <1>1, Ranges DEF CaptureInv, Cursors
<1>3. ASSUME Synchronized.atHead PROVE BarrierComplete'
  <2>1. b.atHead /\ b.cursor \in {pendingHead.cursor, published} /\ b \in Aggregate
    BY <1>2, <1>3 DEF Stabilized, Aggregate
  <2>2. Complete(b.cursor)
    <3> SUFFICES ASSUME NEW e \in DOMAIN chain, e <= b.cursor PROVE e \in raw
      BY DEF Complete
    <3>1. e <= tickBase.current
      BY <1>2, <2>1 DEF Cursors
    <3>2. chain[e] \in Streams
      BY DEF CaptureInv, Typed
    <3>3. drain[chain[e]].atHead
      BY <1>3, <3>2, SynchronizedInChain DEF CaptureInv
    <3> QED BY <1>1, <3>1, <3>3, TickCaptured
  <2> QED BY <1>1, <2>1, <2>2 DEF BarrierComplete, Complete
<1>4. ASSUME ~Synchronized.atHead PROVE BarrierComplete'
  <2>1. b = Synchronized
    BY <1>4 DEF Stabilized
  <2>2. ASSUME NEW e \in DOMAIN chain, e <= Synchronized.cursor, e <= tickBase.current
        PROVE  e \in raw
    <3>1. chain[e] \in Streams /\ cursor[chain[e]] \in Nat /\ e \in Nat
      BY <1>2, Ranges DEF CaptureInv, Typed
    <3>2. drain[chain[e]].atHead \/ Synchronized.cursor <= cursor[chain[e]]
      BY <1>4, <3>1, SynchronizedInChain DEF CaptureInv
    <3>3. Synchronized.cursor \in Nat
      BY SynchronizedInChain, <1>2 DEF CaptureInv, Aggregate, Cursors
    <3>4. drain[chain[e]].atHead \/ e <= cursor[chain[e]]
      BY <2>2, <3>1, <3>2, <3>3
    <3> QED BY <1>1, <2>2, <3>4, TickCaptured
  <2> QED BY <1>1, <1>4, <2>1, <2>2 DEF BarrierComplete, Complete
<1>5. b \in Aggregate /\ Candidate \in Aggregate
  BY <1>2, SynchronizedInChain DEF CaptureInv, Stabilized, Aggregate
<1>6. b.cursor \in Cursors
  <2> HIDE DEF b
  <2> QED BY <1>5 DEF Aggregate
<1> HIDE DEF b
<1> QED BY <1>1, <1>2, <1>3, <1>4, <1>5, <1>6, NewTick

\* A publication that fails keeps the capture right.
LEMMA PublishFailsKeeps ==
  ASSUME CaptureInv, PublishFails
  PROVE  CaptureInv'
<1>1. /\ up /\ NextTick
      /\ UNCHANGED <<chain, raw, done, rows, barrier, up, cursor, published>>
      /\ pendingHead' = Candidate
      /\ tickBase' = [publishing |-> tickBase.publishing, current |-> Len(chain)]
  BY DEF PublishFails, TickEnded, dbVars, CaptureInv, Typed
<1>2. Candidate \in Aggregate /\ barrier \in Aggregate /\ published \in Cursors
      /\ tickBase.publishing \in Cursors
  BY SynchronizedInChain DEF CaptureInv, Typed
<1>3. BarrierComplete'
  BY <1>1 DEF CaptureInv, BarrierComplete, Complete
<1>4. tickBase' \in [publishing : Cursors, current : {Len(chain)}]
  BY <1>1, <1>2
<1> QED BY <1>1, <1>2, <1>3, <1>4, NewTick

\* A tick that does not publish keeps the capture right.
LEMMA SkipPublishKeeps ==
  ASSUME CaptureInv, SkipPublish
  PROVE  CaptureInv'
<1>1. /\ up /\ NextTick
      /\ UNCHANGED <<chain, raw, done, rows, barrier, up, cursor, published, pendingHead>>
      /\ tickBase' = [publishing |-> tickBase.publishing, current |-> Len(chain)]
  BY DEF SkipPublish, TickEnded, dbVars, CaptureInv, Typed
<1>2. pendingHead \in Aggregate /\ barrier \in Aggregate /\ published \in Cursors
      /\ tickBase.publishing \in Cursors
  BY DEF CaptureInv, Typed
<1>3. BarrierComplete'
  BY <1>1 DEF CaptureInv, BarrierComplete, Complete
<1>4. tickBase' \in [publishing : Cursors, current : {Len(chain)}]
  BY <1>1, <1>2
<1> QED BY <1>1, <1>2, <1>3, <1>4, NewTick

-----------------------------------------------------------------------------
(* The projection loop marks captured rows and touches nothing else. *)

\* Decoding the next batch keeps the capture right.
LEMMA ProjectionKeeps ==
  ASSUME CaptureInv, done' \subseteq raw,
         UNCHANGED <<chain, raw, rows, barrier, up, captureVars, tickBase>>
  PROVE  CaptureInv'
<1>1. UNCHANGED <<chain, raw, rows, barrier, up, cursor, drain, published,
                  pendingHead, tickBase>>
  BY DEF captureVars
<1>2. Typed'
  BY <1>1 DEF CaptureInv, Typed, Cursors, Aggregate, DrainState
<1>3. \A s \in Streams : Running(s) => Running(s)'
  BY <1>1 DEF Running, PageHeld, CaughtUp, Events
<1> QED BY <1>1, <1>2, <1>3 DEF CaptureInv, Covered, Events, BarrierComplete, Complete

\* The decoder reads captured messages only.
LEMMA BatchCaptured == Batch \subseteq raw
BY DEF Batch, Lowest, Pending

-----------------------------------------------------------------------------
(* The theorems. *)

\* The capture invariant holds for any streams, page sizes and limits, however
\* queries, commits, crashes, restarts and new events interleave.
THEOREM CaptureSafe == Spec => []CaptureInv
<1>1. CaptureInv /\ [Next]_vars => CaptureInv'
  <2> SUFFICES ASSUME CaptureInv, [Next]_vars PROVE CaptureInv'
    OBVIOUS
  <2>1. done \subseteq raw
    BY DEF CaptureInv, Typed
  <2>2. ASSUME NEW s \in Streams, Emit(s) PROVE CaptureInv'
    BY <2>2, EmitKeeps
  <2>3. ASSUME NEW s \in Streams, Capture(s) PROVE CaptureInv'
    BY <2>3, QueryKeeps, PersistKeeps DEF Capture
  <2>4. ASSUME NEW s \in Streams, DrainFails(s) PROVE CaptureInv'
    BY <2>4, DrainFailsKeeps
  <2>5. ASSUME NEW s \in Streams, CommitUnconfirmed(s) PROVE CaptureInv'
    BY <2>5, CommitUnconfirmedKeeps
  <2>6. CASE Start
    BY <2>6, StartKeeps
  <2>7. CASE Crash
    BY <2>7, CrashKeeps
  <2>8. CASE TickEnd
    BY <2>8, PublishKeeps, SkipPublishKeeps DEF TickEnd
  <2>9. CASE PublishFails
    BY <2>9, PublishFailsKeeps
  <2>10. ASSUME NEW retry \in BOOLEAN, StartPass(retry) PROVE CaptureInv'
    BY <2>1, <2>10, ProjectionKeeps DEF StartPass, dbVars
  <2>11. CASE ProjectBatch
    BY <2>1, <2>11, BatchCaptured, ProjectionKeeps DEF ProjectBatch
  <2>12. CASE PassFails
    BY <2>1, <2>12, ProjectionKeeps DEF PassFails, dbVars
  <2>13. ASSUME NEW e \in Batch, ProjectAllBut(e) PROVE CaptureInv'
    BY <2>1, <2>13, BatchCaptured, ProjectionKeeps DEF ProjectAllBut
  <2>14. CASE UNCHANGED vars
    BY <2>1, <2>14, ProjectionKeeps DEF vars, dbVars
  <2> QED BY <2>2, <2>3, <2>4, <2>5, <2>6, <2>7, <2>8, <2>9, <2>10, <2>11, <2>12,
             <2>13, <2>14 DEF Next
<1> QED BY <1>1, InitCapture, PTL DEF Spec

\* A stored cursor never runs ahead of the rows of raw_events, and memory never
\* runs ahead of a stored cursor: a restart skips no event (persist_page).
THEOREM RestartSkipsNothing == Spec => []CursorCoversRows
<1>1. CaptureInv => CursorCoversRows
  <2> SUFFICES ASSUME CaptureInv PROVE CursorCoversRows
    OBVIOUS
  <2>1. TypeOK
    <3>1. Aggregate \subseteq Barrier
      BY CaptureAssumption, Ranges DEF CaptureInv, Typed, Aggregate, Barrier, Cursors
    <3>2. \A s \in Streams : drain[s].pages \in 0..MAX_PAGES_PER_TICK
      BY Ranges DEF CaptureInv, DrainState
    <3> QED BY <3>1, <3>2 DEF CaptureInv, Typed, TypeOK, Cursors
  <2> QED BY <2>1 DEF CaptureInv, Covered, Running, CursorCoversRows
<1> QED BY <1>1, CaptureSafe, PTL

\* A barrier published at head has no uncaptured event below it, and any barrier
\* covers what was on the chain when its tick began, although the streams are
\* polled without a common snapshot (stabilized_capture_barrier).
THEOREM BarrierSound == Spec => []BarrierComplete
<1>1. CaptureInv => BarrierComplete
  BY DEF CaptureInv
<1> QED BY <1>1, CaptureSafe, PTL
=============================================================================
