# Formal model of libmembroker

libmembroker is the broker process between trading gateways and a counter (the
securities firm's interface to the exchanges).  Gateways write requests into a
shared memory file; the broker checks them, throttles them, hands them to the
counter's API and writes what comes back into a second file.  This directory
holds TLA+ modules of its core, the configurations that model-check them, and
proofs for every value of the constants.  All paths below are relative to
`src/src/` of the repository.

Contents: 1 the system; 2 the modules; 3 what the runs check; 4 what is proved;
5 what disagrees; 6 what is left out; 7 the plan.

## 1  The system

### Threads and how they interact

| thread | code | talks to |
|---|---|---|
| gateway reader | `MemBrokerServer::ReadReqMem` (mem_broker/mem_server.cc:165) | reads request memory; spins on the risk thread; pushes into the broker queue |
| main | `MemBrokerServer::HandleQueueMessage` (:252) | pops from flow control (or the broker queue), calls the counter, writes reply memory, pushes into the risk queue |
| risk | `RiskMasterImpl::Run` (risker/risk_master.cc:91) | works off `trade_queue_`, reads reply memory of all brokers on the host |
| query | `RunQuery` (mem_server.cc:347) | polls the counter for assets, positions, knocks |
| watch | `RunWatch` (:731) | pushes a signal each second |
| callbacks of the counter's API | `SendRtnMessage` (:727) | push replies and knocks into the broker queue |

They share the lock-free broker queue (mem_broker/queue.cc), the risk queue,
`async_state_` / `async_result_`, and (unguarded) the query cursors.

### Components: state, operations, what makes them correct

* **Broker queue** (mem_broker/queue.h, queue.cc): a FIFO of `BrokerMsg`; Push,
  Pop, TryPop.  Nothing lost, nothing reordered.
* **Flow control** (mem_broker/flow_control.h, .cc): a queue per market sorted by
  priority, the window of send times, the count of the day and its memory-mapped
  record, the alarm marks.  Operations: Push (drain), TryPop with its five ways to
  return something, PopWarningMessage, InitState at start.  Correct when the
  limits hold at the exchange and over restarts, every message comes back exactly
  once and in the documented order, and the alarms ring.
* **Risk master** (risker/risk_master.cc): queue, handshake with the gateway
  thread, routes to riskers.  Correct when each request gets the answer to itself
  and no answer is missing.
* **Anti self knock risker and order book** (risker/common): the objects of
  working orders by price, by order number and by batch, and knocks that came
  before the reply.  Correct when two orders that could trade with each other
  never work at once, and an ended order does not block for good.
* **Broker server** (mem_broker/mem_server.cc): the marks in the request file,
  pending requests, match numbers seen, the volumes last written, query cursors,
  active-task marks.  Operations: reading a request, the main loop by type of
  message, the queries, the watchdog, LoadTradingData at start.  Correct when each
  request is sent and answered once, each knock recorded once and none skipped, and
  the positions in the reply file are the last ones, over restarts too.
* **Broker base class and position masters** (mem_broker/mem_base_broker.cc,
  inner_option_master.cc, inner_stock_master.cc, inner_future_master.cc): volumes
  frozen by orders under way, from which the open/close flag is derived.  Correct
  when what is frozen is exactly what is under way.
* **Helpers** (mem_broker/utils.cc): standard order and batch numbers, checks of
  requests, internal match numbers.
* **Options, test broker, command line** (mem_broker/options.cc, imitate_broker/,
  send_req/): configuration and tooling.

### What is hard

Interleavings of gateway, main and risk thread; knocks that overtake the reply of
their order; replies slower than the risker's patience; crashes between a send and
its record, or between two frames of one reply; sessions of the counter that repeat
what former ones said; queries answered with an error, twice or never while the
cursor moves; midnight; limits at their edge with batches; alarms that must ring
again; a batch of which one item fails; duplicates pushed by the counter.
PROJECT.json lists each of these hazards at its line, with the properties that
cover it.

## 2  The modules

| module | models |
|---|---|
| FlowControl | FlowControlQueue, FlowControlMarketQueue and the broker queue |
| ExchangeRule | the exchange's rule, as an abstract specification |
| FlowControlExchange | FlowControl plus delays up to the cushion; implements ExchangeRule |
| AntiSelfKnock | OrderBook and AntiSelfKnockRisker: state and handlers |
| RiskMaster | the three threads around AntiSelfKnock, and an environment of counter and exchange |
| RequestLife | the life of a request as a gateway may rely on it, as an abstract specification |
| MemServer | MemBrokerServer between its two files, with crashes and restarts; implements RequestLife |
| FutureMaster | InnerFutureMaster, the order, reply and knock paths of MemBroker and MemBrokerServer that feed it, and a counter |
| MCFlowControl, MCFlowExchange, MCRiskMaster, MCFutureMaster, MCMemServer | instances for TLC |
| FlowControlProofs, FlowControlExchangeProofs | theorems about FlowControl, and that it implements ExchangeRule |
| MemServerProofs, MemServerKnockProofs | theorems about MemServer: types and requests; knocks, cursors and positions |
| FutureMasterProofs | theorems about FutureMaster: what is frozen, what the derived flags promise |
| RiskMasterProofs, RiskGhostProofs | theorems about RiskMaster; that orders that have ended do not stay in the way |
| SumTheorems | facts about sums over finite sets, for the volumes of the masters |

### FlowControl

Variables keep the code's names: `flowQueue[m]` is `flow_control_queue_` (a set;
the sort order is the operator `Before`, ties by arrival since `std::stable_sort`
is stable), `marketReplies[m]` and `normalQueue` the two `normal_queue_`s,
`cmdSize`, `totalCmdSize`, `triggered`, `preWarning` the members of those names.
`sent_ns_queue_` is the suffix of the history `sentAt[m]` that starts at
`windowHead[m]`: pruning moves the head, a restart moves it behind the end.
`stateFile[m]` is the list of `MemFlowControlState` records.  `Drain` is one pass
of the loop that empties the broker queue; `PopTimeout`, `PopBeyondDaily`,
`PopSend`, `PopMarketReply`, `PopBackTimeout`, `PopNormal`, `PopNothing` are the
ways TryPop ends, each with the visits to earlier markets that prune their windows
on the way.  `Crash` may happen between any two calls; `Start` is InitState.

A call of TryPop is one step: only the pushing threads run beside it, and they
touch the broker queue alone.  (The state file is written in that step too.  A
crash inside the call, between the record and the counter's API, would leave one
command too many counted: on the safe side.)

### RiskMaster

`Request` ... `Collect` is `RiskMaster::HandleTradeOrderReq` cut where the gateway
thread spins; `Deliver` is what HandleQueueMessage does with a reply or knock;
`Take`, `Check`, `Pass`, `HandleRep`, `ReplayKnock`, `ReadRep` are the risk thread, one
step per item of a message.  While the thread is in the middle of a message
nothing else moves: it touches only its own state, so finer interleaving shows
nothing more.  An `Order` object is an index of `orders`; `book` says which are in
the multimaps, `single` and `batch` are the hash maps, `early` is
`knock_first_orders_`.  What really happens to an order at the exchange is the
history `life` and `left`; what comes back is the set `returns`, delivered in any
order, except that a knock overtakes the reply of its order only where `Overtaking`
says so.  Flow control between gateway and counter is part of that environment: it
delays.

The environment's promises are constants, so that each run says what it relies on:
`LateReplies` (may a reply take longer than the 3 s the risker waits),
`WithdrawsHonoured` (does a withdrawal succeed within 3 s of being asked),
`Duplicates` (may a trade be pushed twice).

### FutureMaster

`position[code][side]` is `positions_`, `openCache` is `open_cache_`, `knocks` is
`knocks_`.  The three uses of `Update` are the operators `Freeze` (an order volume),
`Match` and `Release` (a withdraw volume) on one position record; `Bucket` says which
of the two counters a flag works on in a market.  `AutoOcFlag` is GetAutoOcFlag,
`BeyondOpeningLimit` the condition under which it throws.  `ocFlag` is the field of
the order that SendTradeOrder overwrites, so a rejected item still has the flag the
client sent: that is what HandleOrderRep sees.

The main thread takes one step per item of a message (`FreezeItem`, `ReleaseItem`);
between the items of one message the counter may move, but no other message is
handled.  `toCounter`, `rest`, `held` and `pushed` belong to the counter: requests
reach it in the order they were sent, it refuses what the real position does not
cover and may refuse anything else, orders trade in parts and are withdrawn, and
replies and knocks come back in any order.

What this relies on: the positions are known when a behaviour starts (orders that
come before the answer to the query are a hazard without a property yet); the
process does not crash; the numbers of knocks are unique; replies and knocks carry the
flag the order was sent with; on DCE and CZCE the client
does not use the flags for today's or yesterday's position, which the exchange does
not know and which would mix with the split Update makes of "close".

### MemServer

The module is the process between the request file and the reply file, which both
outlive it.  `reqMem`, `consumed` and `stamp` are the request file: what was written,
what ConsumeWhere marked, and the timestamps (kept as the number of processes started
before, which is all that `start_time_ <= timestamp` tells apart).  `repMem` is the
list of frames of the reply file; `by` and `since` say which process wrote a knock and
on which day that process was started.  `queue`, `knocks`, `pending`, `positions`,
`nextCursor`, `beaten` are `queue_`, `knocks_`, `pending_orders_` with
`pending_withdraws_`, `positions_`, `next_cursor` and `last_heart_beat_ > 0`;
`natureDay` and `starts` are `nature_day_` and `start_time_`.  `handed` counts the
calls of the position masters.

| action | code |
|---|---|
| `ReadReqMem` with `PassOn` | ReadReqMem: mark, check (`OrderFaulty`, `WithdrawalFaulty` are the checks of utils.cc), risker, push |
| `RunKnockQuery`, `RunPositionQuery` | RunQuery |
| `RunWatch` | RunWatch |
| `SendTradeRequest` | SendTradeOrder, SendTradeWithdraw and the catch blocks of MemBroker |
| `SendTradeReply` | SendTradeOrderRep, SendTradeWithdrawRep |
| `SendTradeKnock` with `Record`, `HandOver` | IsNewMemTradeKnock, SendTradeKnock, MemBroker's call of the masters |
| `SendQuery` | SendQueryTradeKnock, SendQueryTradePosition |
| `SendQueryTradeKnockRep` | the function of that name, one item per step |
| `SendQueryTradePositionRep` | the function of that name, one holding per step |
| `SendMonitorRisk`, `HandleSignal` with `DoWatch` | alarms, watchdog |
| `Start`, `Crash` | Start with LoadTradingData and OnStart; death at any moment |

A reply with items stays at the front of the queue with the items that are left, so
that a crash may fall between two frames and the other threads may push and read the
cursor meanwhile, as they do in the code.  The counter has a list `made` of the
account's knocks and a cursor is a position in it.  It pushes a knock late, again or
never, answers a query with up to `PageSize` knocks, with an error or not at all, and
may bring the answers of former sessions again.  Other brokers write knocks into the
same reply file.

Time is left out: what waits for an interval may happen at any moment, so every order
of queries, answers and pushes that any interval allows is there.  Flow control is off
(its own module has it), so the queue is first in, first out.

What a behaviour may meet outside is a `plan` chosen at the start: requests, knocks,
volumes of each code, queries that fall due, and the bounds.  Nothing in the server
reads it, except for what OnStart and RunQuery are configured to ask.

## 3  What the runs check

| run | instance | properties |
|---|---|---|
| flow_routes | two markets, 6 requests of all kinds, a batch too large for its market, a market without configuration, a daily limit, timeouts, 2 starts, midnight | AnsweredOnce, CmdSizeAccurate, PriorityRespected, EveryRequestAnswered |
| flow_exchange | one market, two batches and a withdrawal, limits 2 per second and 4 per day, cushion of one tick, 2 starts, midnight | TypeOK, TpsRespected, DailyRespected, CountSurvivesRestart, RejectionRaisesAlarm, ImplementsExchangeRule |
| risk_guard | a buy order and a sell batch, replies in time | TypeOK, NoSelfKnock, NoGhost, KnownIsGuarded, Handshake, CountedOnce |
| risk_late | an order in two lots, an opposed one, another account's; late replies, failed withdrawals, duplicates | NoGhost, KnownIsGuarded |
| future_ledger | four contracts (two of one index, one of SHFE, one of DCE), any two of nine messages | TypeOK, FrozenIsOutstanding, AutoCloseCovered, OpeningLimited, NoCloseAfterOpening |
| server | six plans of requests, knocks and positions, up to three processes, midnight, failed and lost answers | TypeOK, SentOnce, AnsweredOnce, KnockRecordedOnce, MastersToldOnce, PositionsMirrored, CursorCovered, PushedIsRecorded, ImplementsLife, RequestAnswered, KnockRecorded, PositionReported |
| flow_priority, risk_early, risk_foreign, future_refusal, server_heartbeat, server_selftrade | violations, see 5 | one each |

What the run `server` shows beyond the types: a request is sent at most once and
answered at most once whoever answers it; its life is that of RequestLife; a knock is
written once unless a process of a later day meets it again, told to the position
masters once, never thrown away unwritten, and never behind a cursor before it is
written; `positions_` is what a reader of the reply file sees; and, with liveness, a
request of a process that lives is answered, and with the queries on every knock and
the last volume of every code that is held reaches the reply file.

**Bounds.**  flow_*: a tick is 500 ms, so the window (1500 ms) is 3 ticks, a second
2 and the cushion 1: the comparison at the edge of the window is met from both
sides.  In flow_exchange MaxTime leaves room for two full windows after the first send, in
flow_routes for a window and for every order to time out;
the requests of flow_exchange are one command more than the day allows and a batch more
than a window allows; two starts are enough for every pair of processes of one day.
LastSubmit stops arrivals early enough for what they cause to happen within
MaxTime.  risk_*: a tick is as long as kOrderTimeoutMS and OrderTimeout is 0, so
two ticks show what has timed out and what has not; opposition concerns pairs of
orders, so two messages suffice, one of them a batch or in two lots so that partial
trades, partial rejections and repeated early knocks occur; MaxLag 1 lets the risk
thread be one reply behind (more only repeats the choice of order that `returns`
already leaves open).  In risk_guard the first tick is an auction, in which orders
are not checked.  future_*: orders interfere only on one position or on the openings
of one index, and any two messages (a message and itself excepted) of up to two items
each make every pair of flags of one position meet; the volumes make the position
just sufficient for one and too small for two.  The limit of 2 openings is reached
by one message and exceeded by two.  Explicit closing orders on CFFEX are left to
future_refusal.  server: the plans hold apart what does not interact (a request has
nothing to do with a position), so that each can be large enough on its own: three
requests, of which one is for another broker and has to be passed over; three
processes, so that the answers of one session can come in a later one whose own are under
way; a knock of the account and one of another with a request beside them; a
knock on either side of midnight with a restart before or after it; two knocks and two
queries under way, whose answers bring the same items (PageSize 2 covers both at once,
one at a time, and the empty reply); two codes of which one changes twice, over midnight
and a restart, so that frames of yesterday and of a former process are there to be
mistaken.  One failure lets an answer be an error or be lost.  RunQuery asks again
only when the time for an answer is over, so one query of a kind under way is the rule
and two, in the plan that allows it, stand for an answer that comes after that time.
flow_routes gives the queue a timeout of 5 ticks, so that items time out at its front and
at its back.  The server leaves it 0 (see 5), as flow_exchange does; the theorems about
FlowControl hold for any.

**Fairness.**  flow_routes: time goes on, the main thread keeps calling Pop (its
loop has no exit but an exception) and a stopped server is started again.  server: the
threads loop for ever (reader, main loop, RunQuery, RunWatch), a process that died is
started again, and the counter answers a request or a query it does not fail.  Weak
fairness is enough, since each of these actions, once enabled, stays enabled until it
is taken or the process dies.  Nothing is assumed of arrivals, crashes (their number is
bounded) or pushes: a knock may never be pushed, and KnockRecorded holds nevertheless
because of the queries.  risk_* and future_* check safety only.

**Deadlock** is checked in flow_* and server: TryPop that finds nothing is a step, and
the watch thread always has one.  In risk_* and future_* CHECK_DEADLOCK is FALSE: when
the clock has reached MaxTime, or every request is sent, and all is told, the instance
ends.

## 4  What is proved

For any markets, limits, requests and times; for MemServer any requests, knocks,
codes and plans, hence any number of processes, days, queries under way and failures;
for FutureMaster any contracts, holdings and requests; for RiskMaster any messages,
accounts, exemptions, auctions and patience, whatever overtakes whatever:

| theorem | property | assumption |
|---|---|---|
| FlowTypeCorrect | TypeOK, and the anchoring of window and records | none |
| FlowTpsRespected | TpsRespected | MinDowntime > Window |
| FlowCountSurvivesRestart | CountSurvivesRestart | ~RunsOvernight |
| FlowDailyRespected | DailyRespected | ~RunsOvernight |
| FlowRejectionRaisesAlarm | RejectionRaisesAlarm | none |
| FlowPriorityRespected | PriorityRespected | every amount below Multiple |
| FlowAnsweredOnce | AnsweredOnce | none |
| FlowCmdSizeAccurate | CmdSizeAccurate | none |
| ExchangeRuleImplemented | ExchangeSpec => ImplementsExchangeRule | MinDowntime > Window |
| ServerTypeCorrect | TypeOK of MemServer | none |
| ServerSendsOnce | SentOnce | none |
| ServerAnswersOnce | AnsweredOnce of MemServer | none |
| ServerImplementsLife | ImplementsLife | none |
| ServerRecordsKnocksOnce | KnockRecordedOnce | none |
| ServerTellsMastersOnce | MastersToldOnce | none |
| ServerDropsNoKnock | PushedIsRecorded | Spot, or match numbers are injective |
| ServerCursorCovered | CursorCovered | Spot, or match numbers are injective |
| ServerMirrorsPositions | PositionsMirrored | none |
| FutureTypeCorrect | TypeOK of FutureMaster | PlainFlags |
| FutureFrozenIsOutstanding | FrozenIsOutstanding | PlainFlags, LimitSparesClosing |
| FutureAutoCloseCovered | AutoCloseCovered | PlainFlags, LimitSparesClosing |
| FutureOpeningLimited | OpeningLimited | PlainFlags, ForbidClosingToday |
| FutureNoCloseAfterOpening | NoCloseAfterOpening | PlainFlags, ForbidClosingToday |
| RiskTypeCorrect | TypeOK of RiskMaster | none |
| RiskHandshake | Handshake | none |
| RiskCountsOnce | CountedOnce | ~Duplicates, DistinctPrices |
| RiskKnownIsGuarded | KnownIsGuarded | DistinctPrices |
| RiskNoSelfKnock | NoSelfKnock | ~LateReplies, WithdrawsHonoured, ~Duplicates, DistinctPrices |
| RiskNoGhost | NoGhost | DistinctPrices, MildOvertaking |

The assumptions are where the code itself gives no more.  MinDowntime, ~RunsOvernight
and the amounts are explained below and in 5.  Injective match numbers: server_selftrade.
PlainFlags: a client of DCE or CZCE asks for "auto", "open" or "close", never for a day
(see FutureMaster in 2).  LimitSparesClosing: no request that the limit of openings may
turn down has a closing flag of the client's own; future_refusal shows that the books are
wrong otherwise.  ForbidClosingToday is the switch of that name: without it `open_cache_`
does not count (5).  DistinctPrices: no two items of one message have the same code and
price.  order_book.cc:140 looks for the object of a reply by message, code and price and
takes the first, so that of two like items one object would get both numbers and the
other none.  ~Duplicates: the main thread pushes a trade once, which the risker relies
on (anti_self_knock_risker.cc:204) and the server does not ensure (5).  ~LateReplies and
WithdrawsHonoured are the promises kOrderTimeoutMS makes of the counter: after it the
risker gives up an order without a reply, and one whose withdrawal was asked for.
MildOvertaking: what overtakes a reply is a trade or a failure, and of an order that is no
batch.  A withdrawal that overtakes is dropped, as risk_early shows, and the early knocks of
one item of a batch replace those of another (anti_self_knock_risker.cc:111).  The instance
of risk_guard meets all five; risk_late meets DistinctPrices and MildOvertaking alone, which
is what RiskKnownIsGuarded and RiskNoGhost need.

*Type and anchoring* (`TypeInv` of FlowControlProofs) is inductive as it stands once it says that the
head of the window lies within `sentAt` and that a running server has a record per
market: without the latter RecordSend would write nowhere.

*TPS* (`TpsInv`).  The property compares sends at distance TpsLimit; it is not
inductive because it says nothing of the sends the window has forgotten.  The
invariant adds that send times ascend and do not lie ahead of the clock, and that
every send before the head is older than the window (or, while the server is down,
will be by the earliest next start).  Then the entries left number fewer than the
limit less the batch, so the send TpsLimit positions back is before the head.  The
downtime assumption is exactly what the code needs: the window is not persisted, so
a server restarted faster may send a second helping within one second.

*Count* (`CountInv`).  In addition: what the last record of today shows is the
total, and records of other days never carry today's date.  The proof has to follow
HistoryTotal through appended and overwritten records; ~RunsOvernight is needed
since a process that lives through midnight keeps yesterday's date and total.

*Alarm* (`AlarmInv`): as long as a rejection is unannounced, the mark of the last
warning is 0, which no total that reaches a positive threshold equals.

*Priority* (`UniqueInv`).  Sequence numbers in the queues are unique and below the
counter of arrivals, so the sort order is total and the front is sent before all
others; a lemma shows that comparing priority * Multiple + amount is the
lexicographic order when amounts are below Multiple.

*Once* (`OnceInv` of FlowControlProofs).  Each request is in at most one place of the
server (pushed and not drained, queued at its market, waiting as a reply, in the normal
queue) or has one outcome, and never both; within a queue no two entries are of one
request.  The ways TryPop ends each move one entry from one place to the next.

*Size* (`SizeInv`).  `cmd_size_` is the sum of the items of the queue, as a sum over a
finite set of entries; a batch that is turned down or times out takes out what it put in.

*Exchange* (`ExchangeInv`): a command that arrived did so between its send and the
cushion later.  Those that arrived in the last second were sent within the window
up to now, hence are a subset of fewer than TpsLimit consecutive commands
(`WindowHoldsLimit` bounds such a set by an interval of indices).  The step that
remains maps Arrive to Accept and everything else to Advance or a stutter.

*Types of the server* (`TypeInv` of MemServerProofs).  That `nextCursor` points into the
counter's list is not inductive: the cursor comes from a reply, the reply from a query,
the query from the cursor.  The invariant bounds all of them (`QueryNow`, `MessageNow`),
says that every knock in the queue or the file has happened (`Happened`, `FrameNow`) and
that a process that is down has no queue; days, list and processes only grow, so what
was bounded stays so.

*Life of a request* (`RequestInv`).  For each request, `Consistent(r)`: the queue has it
at most once, as a request or as an answer.  As a request it is marked, not sent and not
answered; as an answer it is marked, and if it was written while this process runs, the
file has no answer.  What was sent was sent once and is marked; if the counter has not
answered it in this session and it is not older than the process, the file has no answer
either.  So an answer is written only where none is, because SendTradeReply drops those
to older requests.  A step is about one request (`Untouched` and the lemmas about it say
what it leaves alone for the rest), and Crash takes all that was in the queue at once, as
Life's Crash does.

*Knocks* (`KnockInv`).  Three facts about `knocks_`: it has what this process wrote and
what was in the file from its day (`Remembered`); it has what the masters were told
(`ToldRemembered`); and each number in it is that of a frame (`RememberedIsRecorded`).
The first gives KnockRecordedOnce, the second MastersToldOnce.  The third gives
PushedIsRecorded where a match number stands for one knock; server_selftrade shows that
the assumption is needed.

*Cursor* (`CursorInv`).  Every cursor there is, in the process, in a query in the queue
or at the counter, stands behind knocks that are in the file or in the reply that is
being worked off; and the cursor a reply carries stands behind knocks that are in the
file or in that reply.  A query leaves the queue when no reply is at its front, so
the counter is only asked with cursors behind what is written.

*Positions* (`MirrorInv`).  PositionsMirrored says that `positions_` of a code is what a
reader of the reply file holds for the position.  The invariant says where it comes from:
from the latest frame of the code that is of the day the process started on or was written
by it.  A restart reads exactly those of its day, and none of what is in the file is taken
for its own since no frame is of a process yet to come (`NotAhead`).

*Books of the futures* (FutureMasterProofs).  What is frozen is a sum over orders, so the
proofs need a theory of sums: SumTheorems shows, by well-founded induction over the subsets
of a finite set, that a sum is that of one element and of the rest, that it changes by what
one element changes, and how sums compare.  The invariant has three layers.  *Where the
items are*: every item is in at most one place (a request in the loop, the counter's
queue, one reply) and its stage tells in which.  *The counter* (`HeldCovers`,
`TotalsInv`): the orders at work never exceed what the account really holds.  *The books*:
what is frozen is the sum of what is unsettled (`Ledger`, which is FrozenIsOutstanding),
and what is booked is what is really held up to the trades not yet told (`Mirror`).  Type
correctness is no triviality here: that no volume becomes negative needs all three.

*Flags the master derived* (the second part of FutureMasterProofs).  When an item is frozen the books
cover it beside all that is due, by Ledger and Mirror; `QueueCovered` keeps of this that
it is covered beside the items ahead of it and those at work, until the counter looks at
it.  `OpeningInv` bounds what was and may yet be opened today by `open_cache_`.

*Objects of the risker* (`TypeInv` of RiskMasterProofs).  Types of the risker are about
references: `single_orders_`, `batch_orders_`, the books and the members a reply has
collected so far must refer to objects that exist.  A step is one handler; the lemmas named
...Facts say what each operator of AntiSelfKnock leaves of the objects.

*Handshake* (`HandInv`) has three parts.  `OneRequest`: there is one request under way
exactly while the gateway thread waits, in the queue or in the hands of the risk thread,
and it is the caller's.  `RepliesSettled`: what the counter replied to has left the
handshake.  `ObjectsPassed`: objects in a book belong to messages that passed, or to the
caller's whose items are just being listed.  It follows that the "unexpected async state"
exceptions of risk_master.cc:152 are never thrown.

*What an object stands for* (`ObjInv`).  An object without a number is untouched and of
some item of its message (`Stems`); one with a number is of that item, and the counter has
replied.  `single_orders_` leads from a number to the object that has it, kept knocks are
of the number they are kept under, and the members of a batch are of that batch.  Without
DistinctPrices `Stems` already fails.

*Counting* (`CountInv`).  CountedOnce compares what an object has matched with what the
exchange has traded; between them lie knocks under way, kept ones, and those being
replayed.  The lots of an order are numbered from the last to be traded, so a trade knock
stands for an interval of lots.  The invariant says that knocks at different places stand
for disjoint intervals, and that some set of as many lots as an object has matched misses
all of them; a trade that is worked off moves its interval into the set.

*What the risk thread hears* (`Lives`, `Hearsay`).  Everything it will ever read of an
order (in `returns`, the queue, kept or in hand) is so: the order of which it tells the end, by
a knock or by the answer to a withdrawal, has ended, and an order that a reply leaves out
does not work.  This holds because an order never comes back to life (`Moves`).

*Guarded* (`Firm`, `Present`).  By Hearsay, and since trades counted once cannot fill it,
nothing but time after a withdrawal request ends the object of a working order (`Firm`),
so it stays (`Stands`), and a reply dealt with has made sure there is one (`Present`).  A
trade pushed twice spoils this for its own order only (KnownIsGuarded excepts it); late
replies and failed withdrawals do not.

*No trade with oneself* (`Upheld`, `PledgesApart`, `CheckedApart`).  NoSelfKnock speaks of
orders that work, but the check that protects them looks at objects, and an order is
bound to work from the moment its object is listed.  `Pledged` orders are those that work,
those whose request was just answered with success, and those listed while the rest of
their message is.  Each has an object in the book that speaks for it and has not ended;
before the reply, since no reply is late, and after a withdrawal request, since it is
honoured.  A check outside an auction meets all these objects, hence what has passed it
opposes no pledged order, and at most one message is between check and answer.

*Ghosts* (RiskGhostProofs).  NoGhost says that when nothing of an order is on its way any
more, an order that has ended has no object left in the way.  The invariant accounts for
every lot.  A reply is handed on once, and what may not overtake it comes behind it
(`RepliesOnce`, `InOrder`).  So an order gets its number once (`NumbersGiven`), its object is
found until it is finished (`Registered`), and knocks that came too early are kept until the
reply is dealt with (`KeptKnocks`).  Hence `Announced`: each lot traded, and an end before
all was traded, is in the object or told by a knock still to be worked off, and before the
order has its number all of it is told by knocks.  With no knock left, the object has
matched the whole volume or is withdrawn.

Every safety invariant and action property the passing runs check is stated by a theorem.
Only model-checked is liveness (EveryRequestAnswered, RequestAnswered, KnockRecorded,
PositionReported): fairness and ENABLED are out of this prover's reach.  So are facts
by induction over data; sums and the latest frame of a set rest on least elements of
well-founded relations instead.

## 5  Where code and comments disagree

* **flow_priority**: `total_amount_ = priority * 1e8 + amount` lets an order above
  2e8 overtake a withdrawal, against "撤单 > 申赎 > 其他" (flow_control.cc:145).
* **risk_early**: a WithdrawOK that overtakes the reply is dropped; the order stays in
  the book until somebody tries to withdraw it (anti_self_knock_risker.h:63).
* **risk_foreign**: the reader of the reply memory inspects the wrong buffer and calls
  the request handler; other accounts' orders are never seen (mem_server.cc:210,
  risk_master.cc:110).
* **future_refusal**: an explicit closing order on CFFEX that the opening limit turns
  down keeps its flag "close" and is "unfrozen" although it never was frozen, at the
  expense of another order (inner_future_master.cc:111, inner_future_master.h:45).
* **server_heartbeat**: the signal of the watch thread has no data and the main loop
  handles only messages with data, so there is never a heartbeat, an alarm (those of
  the flow control included, which RejectionRaisesAlarm is about) or an end of waiting,
  against "10秒钟一次心跳" (mem_server.cc:743).
* **server_selftrade**: outside stock accounts both sides of a trade of the account with
  itself have one internal match number, so the second is neither written nor handed on;
  utils.cc:132 says so of match numbers and puts the side in front, mem_server.cc:694
  does not.

Three more observations have no run of their own.  With `forbid_closing_today: false`
openings are never added to `open_cache_` (inner_future_master.cc:226), while the
limit is checked against it all the same (:391): the limit then knows of what was opened
before the start only, and TLC finds OpeningLimited violated with ForbidClosingToday =
FALSE.  Knocks reach the risker before they are deduplicated, while the risker relies on
the gateway for that (anti_self_knock_risker.cc:204): with `Duplicates = TRUE` CountedOnce
does not hold.

And orders wait in the flow control beyond their timeout.  flow_control.h:89 says of an
item's timeout "取min(req.timeout, cfg.timeout)", but flow_control.cc:378 takes the
timeout of the request only if it is below `request_timeout_ms_` of the queue, which is 0
(flow_control.h:232): neither `Init`, the server (mem_server.cc:24-26) nor a test sets it;
`set_request_timeout_ms` in the tests is that of the options.  0 is no timeout, so a
throttled order is sent however long its client wanted to wait.  flow_control.cc:52 leaves the
matter to the base broker, which checks the age of queries only (mem_base_broker.cc:43,
56, 79).  The tests of the timeout (test_flow_control.cc:366-519) are commented out.
For this reason no property promises that an order is sent in time: stated of the model
with RequestTimeout = 0, TLC refutes it within a few steps, and with a positive one it
would speak of another program.

## 6  What is left out

* Texts of errors and alarms, logging, configuration files.
* Server: the asset query (a frame per answer, which nobody reads back; mem_server.cc:388
  pushes its query with the size of another message), the marks of the active task, the
  lengths of intervals and `must_query` (any moment will do), a torn read of the cursor
  by the query thread, the death of a thread by an exception.  The riskers answer any
  request with an error or not; the masters are the counter `handed`.
* Flow control: a withdrawal whose number cannot be parsed.  ParseStandardOrderNo and
  ParseStandardBatchNo (utils.cc:66, 104) throw, out of Push and TryPop, and the main loop
  ends (mem_server.cc:342); CheckTradeWithdrawMessage screens such numbers for stock
  accounts.  `Refused` are withdrawals of market 0 and requests in a market that requires a
  configuration.
* Server: an error of the counter with a cursor of its own.  SendQueryTradeKnockRep takes
  the cursor before it looks at the error (mem_server.cc:599); `ErrorAnswers` has
  none or that of the query, and that no error points behind knocks nobody reported is
  assumed of the counter.
* Base class: the option and stock masters, and InitPositions, which swaps the two
  (mem_base_broker.cc:67).
* The test broker (imitate_broker/), the command line and the tests: tooling.
* Risk: quotes (OnTick, TryHandleTick: the code that feeds them is commented out),
  creations and redemptions (they touch no book), messages with two items of one
  code and price (the code gives both replies to the first object; listed as a
  hazard), a batch with early knocks for two items (the later replaces the earlier),
  the read of an empty buffer before the first request, death of the risk thread.
  The books of a code the option exempts (`only_etf`) are modelled by `Exempt`.
* Futures: `td_opening_volume_` (only displayed), GetCloseYesterdayFlag (only tests
  call it), the codes of index options (no limit applies to them), the reading of the
  `cffex` parameters, knocks first seen in a query reply (they never reach the master).
* Prices are the integers EncodePrice yields.

## 7  The plan

1. FlowControl with its runs and proofs: done.
2. AntiSelfKnock and RiskMaster with their runs: done; their safety properties are proved.
3. FutureMaster with its runs and proofs: done.
4. MemServer with its run, the abstract life of a request and their proofs: done.
What is left, none of which changes what the above shows:

5. The option and stock masters, for which there is no module: `>` against `>=` at the release of opening volume, the
   swapped InitPositions, orders before the answer to the position query.
6. A composition of risk, flow control and server: every request is answered in the
   reply file, under fairness of the threads.
7. Helpers: round trip of order and batch numbers over bounded inputs.
