-------------------------------- MODULE Scans --------------------------------
(***************************************************************************)
(* What the SDK reads from the chain through the gateway, page by page and *)
(* contract by contract, while the chain goes on: the notes of a wallet,   *)
(* the oracles and their markets, the history of notes, and one event that *)
(* a caller waits for.                                                     *)
(*                                                                         *)
(* An event is [id, at, kind, of, body]: its place in chain order, which   *)
(* is its cursor too, its second, what it is, whom it is about, and how    *)
(* far the gateway is with its body: absent, garbled or there.             *)
(***************************************************************************)
EXTENDS Absent, Naturals, Sequences, FiniteSets, SequencesExt, FiniteSetsExt, Functions

CONSTANTS PAGE_SIZE,       \* events per page of a discovery
          MESSAGE_WINDOW,  \* ext-out messages one poll of a wait looks at
          Ours             \* keys derived from the wallet's seed

\* feed: logs of the accounts, what their getters answer, and what comes next.
\* scan: one call of the SDK.
VARIABLES feed, scan

\* keys: note -> owner, or NULL if the getter fails; lists: oracle -> events of its
\* list 0, or NULL; markets: <<oracle, event>> -> details, or NULL.
Feed(logs, keys, lists, markets, coming) ==
  [logs |-> logs, keys |-> keys, lists |-> lists, markets |-> markets, coming |-> coming]

\* args: [active] of a discovery of markets, [accounts, limit] of a history, and
\* [kind, of, since, known] of a wait, known being the length of the log when its
\* caller took the time.  stable: what could have been found all the time.
Scan(op, args) ==
  [op |-> op, args |-> args, pc |-> "start", cursor |-> NULL, more |-> FALSE, page |-> <<>>,
   next |-> NULL, todo |-> <<>>, got |-> <<>>, stable |-> {}]

ScanInit(f, s) == feed = f /\ scan = s
NoScan == [Scan("none", <<>>) EXCEPT !.pc = "done"]
Decodes(e) == e.body = "there"

-----------------------------------------------------------------------------
(* The gateway: events(last: n, before: cursor) of an account. *)

Latest(n, s) == SubSeq(s, IF Len(s) > n THEN Len(s) - n + 1 ELSE 1, Len(s))

EventsQuery(log, n, before) ==
  LET older == SelectSeq(log, LAMBDA e : before = NULL \/ e.id < before)
  IN [edges |-> Latest(n, older), previous |-> Len(older) > n]

StartCursor(p) == IF p.edges = <<>> THEN NULL ELSE Head(p.edges).id

Running == scan.pc \notin {"done", "answered", "failed", "timedout"}

\* What a discovery that begins and ends now finds.
Findable(f, s) ==
  LET known == {e.of : e \in {d \in ToSet(f.logs["root"]) : Decodes(d)}}
  IN CASE s.op = "notes" -> {n \in known : f.keys[n] \in Ours}
       [] s.op = "markets" ->
            {m \in DOMAIN f.markets : /\ m[1] \in known /\ f.lists[m[1]] # NULL
                                      /\ m[2] \in f.lists[m[1]] /\ f.markets[m] # NULL
                                      /\ s.args.active => f.markets[m] = "active"}
       [] s.op = "history" -> {e \in ToSet(f.logs[s.args.accounts[1]]) : Decodes(e)}
       [] OTHER -> {}

\* The chain goes on: a new event, its body, an answer that changes.
After(f, c) ==
  CASE c.what = "event"  -> [f EXCEPT !.logs[c.of] = Append(@, c.now)]
    [] c.what = "body"   -> [f EXCEPT !.logs[c.of] = [i \in DOMAIN @ |->
                              IF @[i].id = c.now THEN [@[i] EXCEPT !.body = "there"] ELSE @[i]]]
    [] c.what = "key"    -> [f EXCEPT !.keys[c.of] = c.now]
    [] c.what = "list"   -> [f EXCEPT !.lists[c.of] = c.now]
    [] c.what = "market" -> [f EXCEPT !.markets[c.of] = c.now]

ChainGoesOn ==
  /\ feed.coming # <<>>
  /\ feed' = [After(feed, Head(feed.coming)) EXCEPT !.coming = Tail(@)]
  /\ scan' = [scan EXCEPT !.stable = @ \cap Findable(feed', scan)]

Begin ==
  /\ scan.pc = "start"
  /\ scan' = [scan EXCEPT
       !.pc = IF scan.op = "wait" THEN "poll" ELSE "page",
       !.stable = Findable(feed, scan),
       !.todo = IF scan.op = "history" THEN scan.args.accounts ELSE <<>>]
  /\ UNCHANGED feed

\* A query that fails, or an answer that does not parse, ends the call.
QueryFails == Running /\ scan' = [scan EXCEPT !.pc = "failed", !.got = <<>>] /\ UNCHANGED feed

-----------------------------------------------------------------------------
(* discover_private_notes, discover_oracles, discover_markets *)

ReadPage ==
  /\ scan.pc = "page" /\ scan.op \in {"notes", "markets"}
  /\ LET p == EventsQuery(feed.logs["root"], PAGE_SIZE, scan.cursor)
     IN scan' = [scan EXCEPT !.pc = "edges", !.page = p.edges, !.cursor = StartCursor(p),
                             !.more = p.previous /\ p.edges # <<>>]
  /\ UNCHANGED feed

\* The note of an event is asked for its key; one that does not answer is skipped.
NoteEdge ==
  /\ scan.pc = "edges" /\ scan.op = "notes" /\ scan.page # <<>>
  /\ LET e == Head(scan.page)
     IN scan' = [scan EXCEPT !.page = Tail(@), !.got =
                   IF Decodes(e) /\ feed.keys[e.of] \in Ours THEN Append(@, e.of) ELSE @]
  /\ UNCHANGED feed

NotePageDone ==
  /\ scan.pc = "edges" /\ scan.op = "notes" /\ scan.page = <<>>
  /\ scan' = [scan EXCEPT !.pc = IF scan.more THEN "page" ELSE "done"]
  /\ UNCHANGED feed

\* Every deployment counts: the root announces an oracle again whenever it is
\* asked to deploy it again, and its markets are then listed again.
OracleEdges ==
  /\ scan.pc = "edges" /\ scan.op = "markets"
  /\ LET found == SelectSeq(scan.page, Decodes)
     IN scan' = [scan EXCEPT !.page = <<>>, !.todo = @ \o [i \in DOMAIN found |-> found[i].of],
                             !.pc = IF scan.more THEN "page" ELSE "oracles"]
  /\ UNCHANGED feed

\* The events of the oracle's list 0.
ReadList ==
  /\ scan.pc = "oracles" /\ scan.todo # <<>>
  /\ LET events == feed.lists[Head(scan.todo)]
     IN scan' = IF events = NULL THEN [scan EXCEPT !.todo = Tail(@)]
                ELSE [scan EXCEPT !.pc = "events", !.page = SetToSeq(events)]
  /\ UNCHANGED feed

\* The market of an event has its address, and its details once it is deployed.
ReadMarket ==
  /\ scan.pc = "events" /\ scan.page # <<>>
  /\ LET m == <<Head(scan.todo), Head(scan.page)>>
     IN scan' = [scan EXCEPT !.page = Tail(@), !.got =
                   IF feed.markets[m] # NULL THEN Append(@, <<m, feed.markets[m]>>) ELSE @]
  /\ UNCHANGED feed

ListDone ==
  /\ scan.pc = "events" /\ scan.page = <<>>
  /\ scan' = [scan EXCEPT !.pc = "oracles", !.todo = Tail(@)]
  /\ UNCHANGED feed

\* discover_active_markets
IsActive(found) == found[2] = "active"

MarketsDone ==
  /\ scan.pc = "oracles" /\ scan.todo = <<>>
  /\ LET kept == IF scan.args.active THEN SelectSeq(scan.got, IsActive) ELSE scan.got
     IN scan' = [scan EXCEPT !.pc = "done", !.got = [i \in DOMAIN kept |-> kept[i][1]]]
  /\ UNCHANGED feed

-----------------------------------------------------------------------------
(* get_notes_history, called again with the cursor of its answer. *)

\* A stable sort.
NewestFirst(es) ==
  LET order == SortSeq([i \in DOMAIN es |-> i],
                 LAMBDA i, j : es[i].at > es[j].at \/ (es[i].at = es[j].at /\ i < j))
  IN [k \in DOMAIN es |-> es[order[k]]]

\* One note after the other, all before one cursor; the last note that has more
\* gives the next one.
ReadHistory ==
  /\ scan.pc = "page" /\ scan.op = "history" /\ scan.todo # <<>>
  /\ LET p == EventsQuery(feed.logs[Head(scan.todo)], scan.args.limit, scan.cursor)
     IN scan' = [scan EXCEPT !.todo = Tail(@), !.page = @ \o SelectSeq(p.edges, Decodes),
                             !.more = @ \/ p.previous,
                             !.next = IF p.previous THEN StartCursor(p) ELSE @]
  /\ UNCHANGED feed

MergeHistory ==
  /\ scan.pc = "page" /\ scan.op = "history" /\ scan.todo = <<>>
  /\ LET sorted == NewestFirst(scan.page)
         answer == SubSeq(sorted, 1, Min({scan.args.limit, Len(sorted)}))
     IN scan' = [scan EXCEPT !.got = @ \o answer, !.page = <<>>, !.more = FALSE, !.next = NULL,
                             !.cursor = scan.next,
                             !.todo = IF scan.more THEN scan.args.accounts ELSE <<>>,
                             !.pc = IF scan.more THEN "page" ELSE "done"]
  /\ UNCHANGED feed

-----------------------------------------------------------------------------
(* wait_for_order_placed_by_client_id, _cancelled_by_client_id,            *)
(* _filled_by_order_id: poll until the event is there, or the time is up.  *)

\* Mutant: any event of the order will do.
Hits_AnyTime(messages, w) ==
  SelectSeq(messages, LAMBDA e : /\ e.kind = w.kind /\ e.body # "absent"
                                 /\ e.body = "garbled" \/ e.of = w.of)

\* An event whose body is still absent is passed over; a garbled one ends the wait.
Hits(messages, w) ==
  SelectSeq(messages, LAMBDA e : /\ e.kind = w.kind /\ e.at >= w.since /\ e.body # "absent"
                                 /\ e.body = "garbled" \/ e.of = w.of)

PollMessages ==
  /\ scan.pc = "poll"
  /\ LET hits == Hits(Latest(MESSAGE_WINDOW, feed.logs["root"]), scan.args)
     IN IF hits = <<>> THEN \E pc \in {"poll", "timedout"} : scan' = [scan EXCEPT !.pc = pc]
        ELSE scan' = [scan EXCEPT !.pc = IF Decodes(Head(hits)) THEN "answered" ELSE "failed",
                                  !.got = <<Head(hits)>>]
  /\ UNCHANGED feed

ScanStep ==
  \/ ChainGoesOn \/ Begin \/ QueryFails
  \/ ReadPage \/ NoteEdge \/ NotePageDone \/ OracleEdges \/ ReadList \/ ReadMarket \/ ListDone
  \/ MarketsDone \/ ReadHistory \/ MergeHistory \/ PollMessages

-----------------------------------------------------------------------------
(* Properties. *)

\* How often a note or a market is listed, and how often the root has announced
\* the note or the market's oracle.
Listings(x) == Cardinality({i \in DOMAIN scan.got : scan.got[i] = x})
Announcements(x) ==
  LET of == IF scan.op = "markets" THEN x[1] ELSE x
  IN Cardinality({i \in DOMAIN feed.logs["root"] :
                    Decodes(feed.logs["root"][i]) /\ feed.logs["root"][i].of = of})

\* A discovery that ends has found every note of the wallet's keys, every market or
\* every active market that was there from its beginning to its end, whatever was
\* deployed, closed or handed over between its pages and getters; and no event was
\* read twice, although new ones move the pages: a note, which is announced once,
\* is listed once, and a market at most once for each announcement of its oracle.
DiscoveryComplete ==
  scan.pc = "done" /\ scan.op \in {"notes", "markets"} =>
    /\ scan.stable \subseteq ToSet(scan.got)
    /\ \A x \in ToSet(scan.got) : Listings(x) <= Announcements(x)

\* The pages of one note's history, read while it grows, hold each event it had at
\* the beginning, none twice, from the newest second to the oldest.
HistoryWalk ==
  scan.pc = "done" /\ scan.op = "history" /\ Len(scan.args.accounts) = 1 =>
    /\ scan.stable \subseteq ToSet(scan.got) /\ IsInjective(scan.got)
    /\ \A i, j \in DOMAIN scan.got : i < j => scan.got[i].at >= scan.got[j].at

\* A wait for an order whose client id was used before is answered with an event
\* that came after its caller took the time, or within that second.
WaitAnswersOwn ==
  scan.pc = "answered" =>
    /\ scan.got[1].of = scan.args.of /\ scan.got[1].kind = scan.args.kind
    /\ \/ \A i \in 1..scan.args.known : feed.logs["root"][i].id # scan.got[1].id
       \/ scan.got[1].at = scan.args.since

-----------------------------------------------------------------------------
(* The SDK's limiter: concurrent calls of one client take slots under a    *)
(* lock and sleep outside it.  The clock is steady, and a sleeper may wake *)
(* late.                                                                   *)

CONSTANTS Callers,
          INTERVAL_MS  \* 1000 / max_rps

VARIABLES bucket,  \* next_allowed_ms
          clock,   \* ms
          caller   \* wake: when the sleep ends; sent: when the call went out

limiterVars == <<bucket, clock, caller>>

LimiterInit ==
  /\ bucket = 0 /\ clock = 0
  /\ caller = [c \in Callers |-> [wake |-> NULL, sent |-> NULL]]

NextAllowed(now, next) == (IF now >= next THEN now ELSE next) + INTERVAL_MS

\* acquire, under the lock.
Acquire(c) ==
  /\ caller[c].wake = NULL
  /\ bucket' = NextAllowed(clock, bucket)
  /\ caller' = [caller EXCEPT ![c].wake = IF clock >= bucket THEN clock ELSE bucket]
  /\ UNCHANGED clock

\* The sleep is over and the request goes out.
Proceeds(c) ==
  /\ caller[c].wake # NULL /\ caller[c].sent = NULL /\ clock >= caller[c].wake
  /\ caller' = [caller EXCEPT ![c].sent = clock]
  /\ UNCHANGED <<bucket, clock>>

Elapses == clock' = clock + 1 /\ UNCHANGED <<bucket, caller>>

\* At any time no more requests are out than the rate allows since the first slot:
\* whoever calls, in whatever order and however late the callers wake.
RateKept ==
  LET out == {c \in Callers : caller[c].sent # NULL}
      first == Min({caller[c].wake : c \in out})
  IN out # {} => Cardinality(out) <= ((clock - first) \div INTERVAL_MS) + 1
==============================================================================
