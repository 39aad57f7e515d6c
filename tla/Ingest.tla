------------------------------- MODULE Ingest -------------------------------
(***************************************************************************)
(* From an edge of the gateway to a row of raw_events: which edges are     *)
(* kept, what type they are given, and what becomes of the rows, while the *)
(* operator edits and reloads the configuration, deploys a newer build and *)
(* prunes.  One stream; CaptureBarrier has the two and their barrier.      *)
(*                                                                         *)
(* An edge is [msg, order, src, dst, body, of]: the message, whether the   *)
(* gateway gives its chain order, its source, the number in its external   *)
(* destination or NULL, its body, and (known to the chain only) the event  *)
(* emitted.  A body is NULL, GARBAGE, or [id, sound]: the event id and     *)
(* whether the rest decodes.  The cursor of an edge is its position.       *)
(***************************************************************************)
EXTENDS Absent, TLC, Naturals, Sequences, FiniteSets, SequencesExt, FiniteSetsExt, Functions

CONSTANTS GRAPHQL_PAGE, MAX_PAGES_PER_TICK

VARIABLE ingest

Type(kind, name) == <<kind, name>>
Declared(kind, name, id, emit) == [type |-> Type(kind, name), id |-> id, emit |-> emit]

\* Of the events the contracts emit: of both kinds of book, a pair whose ids
\* collide, one only newer builds know, and one of no interest.
Emitted ==
  {Declared("OrderBook", "OrderPlaced", "placed", 143), Declared("OrderBook", "OrderCancelled", "cancelled", 144),
   Declared("OrderBook", "PartialFill", "partial", 157), Declared("OrderBook", "Queued", "queued", 159),
   Declared("RootModel", "ContractDeployed", "deployed", 703),
   Declared("TokenContract", "ContractDeployed", "deployed", 732),
   Declared("SuperRoot", "RootRegistered", "registered", 700), Declared("Other", "Noise", "noise", 42)}
EventOf(type) == CHOOSE e \in Emitted : e.type = type

METRIC_CRITICAL_EVENT_TYPES == {Type("OrderBook", "OrderPlaced"), Type("OrderBook", "PartialFill")}

IGNORABLE_EVENT_TYPES == {Type("OrderBook", "Queued")}
SCOPED_EVENT_IDS == {143, 144, 157, 159, 700, 703, 732}

-----------------------------------------------------------------------------
(* IndexerConfig *)

\* The sources and types to ignore; whether every other check is passed.
Config(srcs, types, rest) == [srcs |-> srcs, types |-> types, rest |-> rest]

Validate(c) ==
  /\ c.rest
  /\ c.types \cap METRIC_CRITICAL_EVENT_TYPES = {}
  /\ c.types \subseteq IGNORABLE_EVENT_TYPES

IgnoredEventDsts(types) == {EventOf(t).emit : t \in types \cap IGNORABLE_EVENT_TYPES}

\* The file is edited and SIGUSR1 sent: one that does not load changes nothing.
Reload ==
  /\ ingest.edits # <<>>
  /\ LET c == Head(ingest.edits)
     IN ingest' = [ingest EXCEPT !.edits = Tail(@), !.file = c,
                                 !.config = IF ingest.up /\ Validate(c) THEN c ELSE @]

-----------------------------------------------------------------------------
(* The Decoder of a build *)

Abi(build) == {e \in Emitted : e.type[1] \notin {"Other"} \cup (IF build = "old" THEN {"SuperRoot"} ELSE {})}

Routes == 144 :> Type("OrderBook", "OrderCancelled")
          @@ 703 :> Type("RootModel", "ContractDeployed")
          @@ 732 :> Type("TokenContract", "ContractDeployed")

\* A destination with a route decides alone; else the id has to be unique.
DecodeEventBody(build, body, dst) ==
  LET known == {e \in Abi(build) : e.id = body.id}
      type == IF dst \in DOMAIN Routes
              THEN IF EventOf(Routes[dst]).id = body.id THEN Routes[dst] ELSE NULL
              ELSE IF Cardinality(known) = 1 THEN (CHOOSE e \in known : TRUE).type ELSE NULL
  IN IF body.sound THEN type ELSE NULL

TryDecode(build, e) == IF e.body \in {NULL, GARBAGE} THEN NULL ELSE DecodeEventBody(build, e.body, e.dst)

-----------------------------------------------------------------------------
(* One tick: a copy of the configuration, then pages up to the head. *)

\* edits, builds, faults: the files, builds and faults to come.  projected: history,
\* how often a message was projected; silenced: history, messages dropped because
\* the operator ignores their source.
Stream(edges, rows, cursor, edits, builds, faults) ==
  [edges |-> edges, rows |-> rows, stored |-> cursor, cursor |-> cursor, up |-> TRUE,
   build |-> "old", file |-> Config({}, {}, TRUE), config |-> Config({}, {}, TRUE), tick |-> NULL,
   page |-> NULL, pages |-> 0, edits |-> edits, builds |-> builds, faults |-> faults,
   projected |-> [m \in {e.msg : e \in ToSet(edges)} |-> IF m \in DOMAIN rows THEN 1 ELSE 0],
   silenced |-> {}]

IngestInit(s) == ingest = s

BeginTick ==
  /\ ingest.up /\ ingest.tick = NULL
  /\ ingest' = [ingest EXCEPT !.tick = ingest.config, !.pages = 0]

EndTick(s) == [s EXCEPT !.tick = NULL, !.page = NULL]

\* Mutant: the stored cursor as it is.
AfterOrEarliest_AsStored(cursor) == cursor

AfterOrEarliest(cursor) == IF cursor \in {NULL, BLANK} THEN 0 ELSE cursor

\* The gateway times out on a query without a position; otherwise it answers with
\* the edges after it.
Fetch ==
  /\ ingest.up /\ ingest.tick # NULL /\ ingest.page = NULL
  /\ LET after == AfterOrEarliest(ingest.cursor)
         end == Min({after + GRAPHQL_PAGE, Len(ingest.edges)})
     IN ingest' = IF after \in {NULL, BLANK} THEN EndTick(ingest)
                  ELSE [ingest EXCEPT !.pages = @ + 1, !.page =
                          [edges |-> SubSeq(ingest.edges, after + 1, end), more |-> end < Len(ingest.edges),
                           end |-> IF end > after THEN end ELSE NULL]]

ApplyIngestFilters(edges, c) ==
  SelectSeq(edges, LAMBDA e : /\ e.src \notin c.srcs
                              /\ e.dst \in SCOPED_EVENT_IDS
                              /\ e.dst \notin IgnoredEventDsts(c.types))

\* Mutant: a row that is there is written again.
InsertRows_Replace(rows, new) == new @@ rows

\* on conflict (msg_id) do nothing
InsertRows(rows, new) == rows @@ new

\* persist_page's transaction, and the step to the next page.  If the answer to the
\* commit is lost, the tick ends with the cursor in memory behind the stored one.
Persist(lost) ==
  /\ ingest.up /\ ingest.page # NULL
  /\ LET p == ingest.page
         kept == {e \in ToSet(ApplyIngestFilters(p.edges, ingest.tick)) : e.order}
         new == [m \in {e.msg : e \in kept} |->
                   [type |-> TryDecode(ingest.build, CHOOSE e \in kept : e.msg = m), processed |-> FALSE]]
         done == [ingest EXCEPT
                    !.rows = InsertRows(@, new),
                    !.stored = IF p.end = NULL THEN @ ELSE p.end,
                    !.silenced = @ \cup {e.msg : e \in {d \in ToSet(p.edges) : d.src \in ingest.tick.srcs}},
                    !.cursor = IF lost \/ p.end = NULL THEN @ ELSE p.end,
                    !.page = NULL]
     IN IF lost THEN ingest.faults > 0 /\ ingest' = [EndTick(done) EXCEPT !.faults = @ - 1]
        ELSE ingest' = IF p.more /\ ingest.pages < MAX_PAGES_PER_TICK THEN done ELSE EndTick(done)

\* A query or a transaction fails.
TickFails ==
  /\ ingest.up /\ ingest.tick # NULL /\ ingest.faults > 0
  /\ ingest' = [EndTick(ingest) EXCEPT !.faults = @ - 1]

-----------------------------------------------------------------------------
(* The process, the projection and the retention job *)

StopIndexer ==
  /\ ingest.up /\ ingest.builds # <<>>
  /\ ingest' = [EndTick(ingest) EXCEPT !.up = FALSE, !.build = Head(ingest.builds), !.builds = Tail(@)]

\* A file that does not load stops the start.
StartIndexer ==
  /\ ~ingest.up /\ Validate(ingest.file)
  /\ ingest' = [ingest EXCEPT !.up = TRUE, !.config = ingest.file, !.cursor = ingest.stored]

Pending(rows) == {m \in DOMAIN rows : rows[m].type # NULL /\ ~rows[m].processed}

\* A pass of the projection: typed rows only, and a type without a handler too.
ProjectPending ==
  /\ ingest.up /\ Pending(ingest.rows) # {}
  /\ ingest' = [ingest EXCEPT
       !.rows = [m \in DOMAIN @ |-> IF m \in Pending(@) THEN [@[m] EXCEPT !.processed = TRUE] ELSE @[m]],
       !.projected = [m \in DOMAIN @ |-> IF m \in Pending(ingest.rows) THEN @[m] + 1 ELSE @[m]]]

\* prune_raw_events, of rows the capture has long passed: a page is fetched again
\* within the retention time.
Position(cursor) == IF cursor \in {NULL, BLANK} THEN 0 ELSE cursor
Passed(s, m) == \A i \in DOMAIN s.edges : s.edges[i].msg = m => i <= Position(s.cursor)
Expired(s) == {m \in DOMAIN s.rows : s.rows[m].processed /\ Passed(s, m)}

PruneRawEvents ==
  /\ Expired(ingest) # {}
  /\ ingest' = [ingest EXCEPT !.rows = Restrict(@, DOMAIN @ \ Expired(ingest))]

CaptureStep == BeginTick \/ Fetch \/ Persist(FALSE)
IngestStep == \/ CaptureStep \/ Persist(TRUE) \/ TickFails \/ Reload
              \/ StopIndexer \/ StartIndexer \/ ProjectPending \/ PruneRawEvents
\* The loop goes on, its supervisor starts it again, and a file that stops the start
\* is mended.
IngestFairness == WF_ingest(CaptureStep \/ StartIndexer \/ Reload)

-----------------------------------------------------------------------------
(* Properties *)

\* A row is typed by the contract that emitted its event, in this build and in one
\* without SuperRoot's ABI: also where the ids of two contracts' events collide, or
\* the message went where events of another type go.
TypedByEmitter ==
  \A e \in ToSet(ingest.edges) :
    e.msg \in DOMAIN ingest.rows /\ ingest.rows[e.msg].type # NULL => ingest.rows[e.msg].type = e.of

\* Behind the stored cursor nothing that the read model or a metric depends on is
\* lost: whatever was configured, reloaded, deployed, pruned or fetched again, the
\* event was projected or its row still waits.  Lost are only edges without order
\* or destination, and sources the operator ignores.
CapturedAccountedFor ==
  \A i \in DOMAIN ingest.edges :
    LET e == ingest.edges[i]
    IN (/\ i <= Position(ingest.stored) /\ e.order /\ e.dst \in SCOPED_EVENT_IDS
        /\ e.of # Type("OrderBook", "Queued") /\ e.msg \notin ingest.silenced)
         => \/ ingest.projected[e.msg] > 0
            \/ e.msg \in DOMAIN ingest.rows /\ ~ingest.rows[e.msg].processed

\* No event is projected twice, though pages are fetched again after lost commits
\* and restarts, the gateway repeats edges, and a stream starts cold beside rows.
ProjectedOnce == \A m \in DOMAIN ingest.projected : ingest.projected[m] <= 1

\* Capture comes to the end of the stream again and again: also from no cursor or
\* an empty one, after failed ticks, and after a start the file has stopped.
CaptureGoesOn == []<>(ingest.edges = <<>> \/ ingest.cursor = Len(ingest.edges))
=============================================================================
