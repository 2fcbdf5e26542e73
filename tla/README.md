# TLA+ models of TradingApp

This directory holds TLA+ models of the TradingApp C++ sources
(`src/source/`), together with the TLC configurations that check them.
The models follow the code, not the prose of `spec.md`. Where the two
disagree, a run that TLC finds violated shows it, and `PROJECT.json` lists
it under `findings`.

## 1. The system

TradingApp is an exchange and a trading client connected by TCP (orders)
and UDP multicast (market data). Every component runs on its own thread.
Threads exchange data through single-producer/single-consumer lock-free
rings (`LL::LFQueue`).

```
client process                                   exchange process
 TradingEngine --requests--> OrderGatewayClient ==TCP==> OrderGatewayServer
   ^  ^                                                    | FIFOSequencer
   |  |responses <-- OrderGatewayClient <==TCP== responses |
   |  |                                                    v
   |  |                                          OrderMatchingEngine
   |  |                                           (one OMEOrderBook per ticker)
   |  |                                                    | updates
   |  +-- MarketDataConsumer <==UDP incremental== MarketDataPublisher
   |                         <==UDP snapshot==== SnapshotSynthesizer
   +-- TEOrderBook (replica + BBO), FeatureEngine, MarketMaker/LiquidityTaker,
       OrderManager, RiskManager, PositionManager
```

### Inventory: components, their state and their operations

| component | source | state | operations |
|---|---|---|---|
| MemPool | `llbase/mempool.h` | blocks with an `is_free` flag, cursor `i_next_free` | allocate, deallocate |
| LFQueue | `llbase/lfqueue.h` | ring, `i_write`, `i_read`, atomic `n_blocks` | get_next_to_write/increment_write_index, get_next_to_read/increment_read_index |
| OMEOrderBook | `exchange/orders/ome_order_book.*` | order pool, level pool, `bids_by_price`/`asks_by_price` circular lists of levels, per-level circular FIFO of orders, `map_price_to_price_level` (hash by `price % MAX_PRICE_LEVELS`), `map_client_id_to_order`, `next_market_oid` | add (with find_match and match), cancel |
| OrderMatchingEngine | `exchange/orders/order_matching_engine.cpp` | one book per ticker; request, response and update rings | run loop, process_client_request, send_client_response, send_market_update |
| MarketDataPublisher | `exchange/data/market_data_publisher.cpp` | `n_seq_inc`, update ring, snapshot ring | run: number each update, multicast it, forward it to the synthesizer |
| SnapshotSynthesizer | `exchange/data/snapshot_synthesizer.cpp` | per ticker, a map from order id to the last update; `n_seq_last` | add_to_snapshot, publish_snapshot (START, CLEAR and ADDs per ticker, END) |
| MarketDataConsumer | `client/data/market_data_consumer.cpp` | `n_seq_inc_next`, `is_in_recovery`, buffered snapshot and incremental maps | rx_callback, queue_update, snapshot_sync_start, snapshot_sync_check |
| FIFOSequencer | `exchange/networking/fifo_sequencer.h` | array of pending (t_rx, request) | push_client_request, sequence_and_publish |
| OrderGatewayServer | `exchange/networking/order_gateway_server.*` | per-client rx/tx sequence numbers, client-to-socket map | rx_callback, rx_done_callback, run (responses) |
| OrderGatewayClient | `client/networking/order_gateway_client.*` | `n_seq_outgoing`, `n_seq_incoming` | run (requests), rx_callback |
| TEOrderBook | `client/orders/te_order_book.cpp` | replica levels and orders by market order id; BBO | on_market_update, clear_entire_book, update_bbo |
| OrderManager | `client/trading/order_manager.*` | one OMOrder per ticker and side (state, price, qty, oid), `next_oid` | manage_orders, on_order_response |
| RiskManager | `client/trading/risk_manager.h` | per ticker limits and the position it reads | get_trade_risk |
| PositionManager | `client/trading/position_manager.h` | per ticker position, VWAPs, real/unreal PnL, volume | add_fill, on_bbo_update |
| TradingEngine | `client/trading/trading_engine.cpp` | the client components above | run: drain responses and updates into callbacks |
| ExchangeServer | `exchange/exchange_server.*` | the three components, three rings, a logger, `is_running`, its thread | start, stop, run, destructor (member destruction order) |
| Threads, Logger | `llbase/threading.h`, `llbase/logging.h` | per thread a start flag; the logger's ring and flush thread | create_and_start_thread; logf, process_queue, ~Logger |
| Sockets, TCPServer, config, mains | `llbase/*`, `traderco_main.cpp` | OS handles, text buffers | I/O |

### How they interact

A client's `OrderManager` issues NEW/CANCEL requests with client order ids
`1, 2, ...`. The gateways number each hop (`n_seq` per client and
direction). The `FIFOSequencer` orders one poll batch by kernel receive time
before the matching engine sees it. The matching engine applies each request
to the ticker's `OMEOrderBook`. That emits client responses (ACCEPTED,
FILLED, CANCELLED, CANCEL_REJECTED) and market updates (ADD, MODIFY,
CANCEL, TRADE). The publisher numbers the updates. The synthesizer folds
them into a snapshot. A consumer that sees a gap rebuilds its replica from
a snapshot plus the incrementals that follow it.

### The hard behaviours

- The matching loop: a long run of adds, partial fills and cancels reshapes
  the linked lists. Each fill is reported in three places: the responses,
  the MODIFY/CANCEL updates and the book.
- Hash slots shared between prices (`price % MAX_PRICE_LEVELS`) and
  between the bid and ask sides at one price.
- Pools and rings at their capacity (`MemPool` cursor search; `LFQueue`
  with no full check).
- Thread interleavings on the rings. In particular, the publisher reads a
  slot after releasing it.
- Lost, duplicated and reordered multicast; recovery from a snapshot that
  was only partly received.
- Sorting a poll batch by receive time; client reconnects.
- Client order state kept in copies (`OrderManager::manage_orders`).

### What makes each component correct

- **OMEOrderBook** (spec INV-1..5, P2, P6):
  - levels are sorted;
  - priorities follow FIFO order;
  - the book is not crossed;
  - the index agrees with the book;
  - quantities are positive and conserved;
  - the update stream rebuilds the book;
  - fills follow price-time order.
- **MemPool**: an allocate that has a free block never aborts, and the
  cursor always sits on a free block.
- **LFQueue**: the reader sees exactly the writer's sequence, with no loss
  or overwrite.
- **Publisher, synthesizer and consumer**:
  - sequence numbers are 1, 2, ... on the wire (P3);
  - a snapshot is the book at its END sequence;
  - the consumer's forwarded stream rebuilds the exchange book at some
    prefix (P6);
  - recovery ends once a whole snapshot arrives (liveness).
- **Sequencer and gateways**:
  - the requests of one client reach the engine in the order that client
    sent them;
  - responses reach the client in engine order.
- **TEOrderBook**: the BBO equals the best levels of the replica after
  every update, and the level pool's blocks in use are exactly the linked,
  mapped levels.
- **OrderManager and RiskManager**:
  - at most one live or pending order per side;
  - no NEW is sent while one is pending;
  - no order is sent that fails the risk check.
- **PositionManager**: the position is the signed sum of fills, and PnL is
  consistent with the VWAP.

## 2. Plan and status

| step | module | status |
|---|---|---|
| 1 | `OMEOrderBook`: the exchange book, `add` with its whole matching loop, `cancel` | built |
| 2 | `MemPool`: allocate/deallocate with the cursor search | built; used by `TEOrderBook` through `INSTANCE` |
| 3 | `MarketData`: publisher, synthesizer and consumer over lossy multicast | built (safety, and recovery liveness under finite loss) |
| 4 | `LFQueue`: the SPSC ring between the engine and the publisher | built |
| 5 | `TEOrderBook`: the client's replica and BBO under the exchange's update stream and recoveries | built |
| 6 | `PositionManager`: position, open VWAP sums and PnL | built |
| 7 | `ClientTrading`: market maker, order manager, risk manager and the engine's dispatch against an exchange | built |
| 8 | `OrderGateway`: FIFO sequencer, gateway server and client over segmenting TCP, with poll/accept and liveness | built (reconnection not modelled) |
| 9 | `ExchangeLifecycle`: start-up and shut-down of the exchange's threads and rings | built |
| 10 | `Logger`: logf's format scan, the logger thread and ~Logger | built |
| 11 | `MarketFeed`: the abstract "replica = book at a growing prefix" specification, which `MarketData` refines (`MC_MarketData`) | built |

## 3. Modules

### OMEOrderBook.tla (`exchange/orders/ome_order_book.{h,cpp}`)

The pointer structure is abstracted to sequences:

- `map_price_to_price_level[i]` is a level record `[side, price, queue]`
  or `NoLevel`. `queue` is the level's circular FIFO, head first.
- `levels_by_side[s]` is `bids_by_price`/`asks_by_price` as a sequence of
  slot indices, most aggressive first.
- `orders` is the used part of `order_pool`, keyed by market order id.
- `responses` and `updates` hold everything the book passed to
  `send_client_response` and `send_market_update`, in order.

Every helper of the C++ class is one operator of the same name:

- `add_price_level` inserts before the first level that the new one is not
  less aggressive than, or at the tail. This is what the pointer walk does.
- `remove_price_level`, `add_order_to_book`, `remove_order_from_book`,
  `get_next_priority` and `price_to_index`.
- `match`: a fill is the minimum of the two quantities. It sends two FILLED
  responses and a TRADE update, then a CANCEL update and a removal, or a
  MODIFY update.
- `find_match` is RECURSIVE. It mirrors the `while` loop and its break
  tests.

The actions are the engine's dispatch (`process_client_request`):

- `NewRequest` runs the whole of `add`.
- `CancelRequest` runs the whole of `cancel`.

The environment is the clients' order managers: they number NEW requests
`1, 2, ...` (`OrderManager::request_new_order`) and may cancel any id.
`ReuseClientOids` lets them repeat an id.

### MemPool.tla (`llbase/mempool.h`)

- `is_free` and `i_next_free` are the pool's state.
- `allocate` asserts the cursor's block is free, takes it, and runs
  `update_next_free_index`, a RECURSIVE scan that wraps at the end and
  asserts when it returns to its start.
- A failed ASSERT exits the process: `aborted`.
- The owner allocates only while more than `Reserve` blocks are free, and
  frees only blocks it holds.

No run checks `MemPool` on its own:
`TEOrderBook` instantiates it (`LP == INSTANCE MemPool WITH ...`) for its
pool of price levels.

### MarketData.tla (`exchange/data/*`, `client/data/market_data_consumer.cpp`)

- `OmeEmit` is the matching engine writing an update (ADD, MODIFY or
  CANCEL of order ids `1..MaxOid`) consistent with the book so far.
- The groups carry datagrams. `McastSocket::load_tx` appends to a tx
  buffer and `tx_and_rx` sends the whole buffer as one datagram, so a
  loss or a duplicate takes a whole datagram.
- `MdpPublish` is one iteration of `MarketDataPublisher::run`'s while
  loop. The drain loop numbers every update the ring holds and forwards
  each to the synthesizer; then one datagram carries them all.
- `SsApply` is `add_to_snapshot`. `publish_snapshot` is the synthesizer's
  timer firing: `SnapshotMsgs` is one publication (START, CLEAR, the ADDs
  and END, numbered 0, 1, ...). `Datagrams` splits it where the code
  calls `tx_and_rx`: after each ADD and after END, so START, CLEAR and
  the first ADD share one datagram. The timer fires every
  `SECONDS_BETWEEN_SNAPSHOTS`, far longer than a delivery, so the model
  publishes while the consumer recovers and no earlier publication is
  still in flight; a publication while the consumer is live is dropped by
  the closed snapshot socket and is left out.
- `RxIncremental` and `RxSnapshot` receive the head datagram of a group,
  and `rx_datagram` runs `rx_callback`'s loop over its messages. Entering
  or leaving recovery during the datagram closes the snapshot socket, and
  whatever is in flight is dropped.
  The consumer's actions follow its code:
  - `queue_update` buffers messages;
  - `snapshot_sync_start` joins the snapshot group;
  - `snapshot_sync_check` is its whole body: the dense scans, the splice at
    END's sequence and the forwarding.
- `LoseIncremental` and `LoseSnapshot` drop the head of a group, at most
  `MaxIncLoss` and `MaxSnapLoss` times. `DuplicateIncremental` delivers
  the head of the incremental group twice, at most `MaxIncDup` times; a
  UDP duplicate is out of sequence for `rx_callback` and starts a
  recovery. `faults` counts all three. Multicast is FIFO per sender, so
  the model has no reordering within a group.
- `tx_updates` is the stream the consumer hands to the trading engine.
- `ReplicaConsistent`: whenever the consumer is live, replaying
  `tx_updates` gives the exchange book at the sequence the consumer has
  reached.

### MarketFeed.tla and MC_MarketData.tla (the refinement)

- `MarketFeed` is what the path promises a client, with no publisher,
  groups or recovery: the exchange appends updates (`Emit`), and the
  client's view jumps forward to the exchange's book after a longer
  prefix (`Deliver`). The view never moves back and is never a book the
  exchange did not have.
- `MC_MarketData` extends `MarketData` with one history variable,
  `replica_seq`. It follows `n_seq_inc_next - 1` while the consumer is
  live and keeps its value during a recovery, in which
  `snapshot_sync_check` may move `n_seq_inc_next` without forwarding.
  `H(A)` is a step `A` with that update, and `HFairSpec` has the
  fairness of `FairSpec`.
- The mapping is `Feed == INSTANCE MarketFeed WITH updates <-
  ome_updates, pos <- replica_seq, view <- Replica`, where `Replica`
  replays `tx_updates`. `MarketFeedRefined == Feed!Spec` is checked as a
  property. It implies `ReplicaConsistent`, and it also holds during
  recoveries and across them: no recovery, including one started by a
  duplicate, takes the replica back to an older book.
- `RecoveryEnds`: every recovery ends, under finite loss and the fairness
  below.

### Logger.tla (`llbase/logging.h`)

- One producer thread calls `logf` (`Call`, over every format of up to
  `MaxFmt` characters from {'%', 'a'} and up to `MaxArgs` arguments, which
  are model values). `logf` is one step per pass of its scan loop, with
  six cases: return, "too many arguments", the '%%' escape (`Escaped`), a
  substituted argument, "missing arguments", and a literal character.
  Each pushes with `push_value`/`push_element`; FATAL ends the process.
- `process_queue` is the logger thread: the `while (is_running)` test,
  one element written per step, and the end of the drain loop.
- `Destroy`, `DtorWait`, `DtorStop` and `DtorJoin` are `~Logger`: wait
  until the queue is empty, clear `is_running`, join, close.
- The reference rendering (`RefOut`) is declarative: in a run of '%',
  characters pair up from the start; an odd '%' not followed by another
  is a hole, filled by the argument of its rank.
- `LogfMatchesReference`: between calls the elements pushed are the
  reference rendering of every call, and logf fails exactly when a call's
  holes and arguments differ. `ClosedFileComplete`: a closed file holds
  every element pushed, in order. `LoggerEventuallyClosed`: the destructor
  always completes, unless logf has exited.

### LFQueue.tla (`llbase/lfqueue.h`)

- The writer is `send_market_update`: `get_next_to_write`, then
  `increment_write_index`.
- The reader is the publisher's drain loop: `get_next_to_read`, `load_tx`,
  `increment_read_index`, then `copy_to_snapshot_ring`.
- Each step is one atomic access of the code. `n_blocks` is the
  `std::atomic`. A failed ASSERT is `aborted`.
- The k-th update written is the value k, so `sent` and `copied` show
  exactly which update each consumer got.

### TEOrderBook.tla (`client/orders/te_order_book.*`)

The replica's pointer structure becomes sequences, as in `OMEOrderBook`.
One difference: its levels live in a MemPool with real block identity
(`lvl`, `lvl_free`, `lvl_next`), so a map slot can point at a freed block.

- `on_market_update` is the whole handler:
  - the BBO flags are computed before the book changes;
  - then the switch over ADD, MODIFY, CANCEL, TRADE and CLEAR
    (`clear_entire_book`);
  - then `update_bbo`.
- The environment is an exchange book:
  - `ExAdd`, `ExModify`, `ExCancel` and `ExTrade` produce the updates that
    `OMEOrderBook::add`, `match` and `cancel` emit. Only non-crossing adds
    are generated.
  - `Recover` replaces the stream with a snapshot: CLEAR, then one ADD per
    live order.
- The ghost `recovered` marks a state after a recovery. The live-stream
  properties are stated for states without one.
- `LevelPoolConsistent` relates three pieces of state: the pool's in-use
  blocks, the two side lists and the price-slot map. It catches a level
  that is unlinked but not freed, which leaks a block, and a level that is
  freed but still mapped.
- The order of levels and FIFOs is not checked here. `add_price_level` is a
  declarative `InsertAt`, so the order holds by construction, not because
  of the code's pointer walk.

### PositionManager.tla (`client/trading/position_manager.h`)

- `add_fill` and `on_bbo_update` are `Position`'s methods.
- PnL and the open sums are exact rationals (`Rat`, `RAdd`, ...) instead
  of doubles, so the properties check the accounting, not rounding.
- `cash` and `mark` are the reference: the fills' cash flow and the last
  price the position was valued at.

### ClientTrading.tla (`client/trading/*`) and MC_ClientTrading.tla

- `OnOrderBookUpdate` is `TradingEngine::on_order_book_update` for a BBO
  chosen by the environment. It runs, in order:
  - `PositionManager::on_bbo_update` (through `PM == INSTANCE
    PositionManager`);
  - the FeatureEngine's fair price (`ScaledFairPrice`, multiplied by the
    total quantity so that it stays an integer);
  - `MarketMaker::on_order_book_update`, whose quotes go through
    `manage_orders`.
- `manage_orders` follows the code. It manages copies of the two stored
  orders, so only the requests and `next_oid` survive the call.
- `get_trade_risk` reads the `PositionManager` position and PnL.
- `send_order_request_to_exchange` appends the requests to the ring that
  the order gateway client reads.
- `OnOrderResponse` is `TradingEngine::run`'s response loop. It calls
  `on_order_response_callback`, which the MarketMaker's constructor set to
  `MarketMaker::on_order_response`, which reaches
  `OrderManager::on_order_response`. The loop never calls
  `TradingEngine::on_order_response`, so `add_fill` is never called and
  the position does not follow fills. `PROJECT.json` lists this as a
  hazard.
- The exchange is the environment:
  - `ExRequest` processes requests in order (`OMEOrderBook::add` accepts
    and rests; `cancel` cancels, rejects, or terminates the process on an
    id that `.at()` rejects);
  - `ExFill` is another participant trading against a resting order.
- `MC_ClientTrading` only defines the negative loss limit, which a `.cfg`
  cannot write.

### OrderGateway.tla (`exchange/networking/*`, `client/networking/*`, `llbase/tcp_*.cpp`)

- A message on the wire is two pieces, the `n_seq` header and the body.
  `Arrive` moves any prefix of the pieces in flight into the receiver's
  kernel buffer. A read (`TCPSocket::tx_and_rx`) takes the whole kernel
  buffer, so TCP segmentation at and inside message boundaries is
  covered. A read is stamped with the arrival time of its last piece, the
  kernel timestamp.
- `Connect(c)` is `OrderGatewayClient::start`'s connect. It puts the
  connection in the listener's backlog and raises the listener's
  edge-triggered EPOLLIN (`lst_ev`). The handshake is taken as complete
  before the client's first send.
- `Poll` is `TCPServer::poll`. If the listener had an event, the accept
  loop takes every connection in the backlog. Each accepted socket joins
  `rx_sockets` at once. Its EPOLLOUT event arrives once, so it joins
  `tx_sockets` at the next poll (`out_ev`). The mutant `Poll_acceptone`
  accepts one connection per listener event, and then a connection can
  wait forever.
- `Parse` is the loop shared by both `rx_callback`s. It peels whole
  messages, keeps those with the expected `n_seq` (and, on the server, the
  right socket; on the client, the right client id) and keeps the
  remainder at the buffer's front.
- `Poll`, `RxSockets`, `TxSockets` and `DrainResponses` are the four parts
  of one `OrderGatewayServer::run` iteration (`spc`). `SocketsLoop` is
  the loop over `rx_sockets` or `tx_sockets`. It binds each read once with
  `\E x \in {e}`, so that TLC does not evaluate it again in the liveness
  check. `TCPServer::tx_and_rx` calls
  `rx_done_callback` only after the rx loop, and the tx loop reads too, so
  requests it reads wait in `pending` until the next rx loop.
- `SortByT` is the sort in `sequence_and_publish`. For batches of at most
  16, libstdc++ uses an insertion sort that moves an element only past
  strictly later ones (`Rank`). `RequestsFIFO` depends on that stability.
- `ClientLoop` is one `OrderGatewayClient::run` iteration: read and parse
  responses, send what was loaded last iteration, then frame the trading
  engine's new requests. `EngineRespond` answers published requests in
  order.

### ExchangeLifecycle.tla (`exchange/exchange_server.*`, the components' start/stop, `llbase/threading.h`, `llbase/logging.h`)

- The main thread runs `Program`, a sequence of steps (`Set`, `Clear`,
  `Spawn`, `Join`, `Drain`, `Free`). `Program` is put together from one
  definition per function of the code:
  - `OmeStart`, `OgsStart`, `MdpStart`, `SsStart` and `EsStart` are the
    `start()` functions;
  - `OmeStop`, `OgsStop`, `MdpStop`, `SsStop` and `EsStop` are the
    `stop()` functions;
  - `OmeDtor`, `OgsDtor`, `MdpDtor`, `LoggerDtor` and `EsDtor` are the
    destructors;
  - `EsDtor` follows the member destruction order, the reverse of the
    declaration order in `exchange_server.h`.
- `Main` executes the step at `pc`. A `Join` waits until the thread has
  exited. A `Drain` waits until the logger's queue is empty.
- Worker threads:
  - `Spawn` leaves the thread `created`. `create_and_start_thread` has
    returned, but `run()` has not started.
  - `Enter` starts `run()`. `OmeRun`'s entry also sets `is_running`,
    as `OrderMatchingEngine::run` does.
  - `Iter` is one iteration of the worker's loop. It records in `uaf`
    every queue it uses that has already been destroyed.
  - `Exit` leaves the loop once `is_running` is false.
- The contents of the queues are abstracted away, except for the count
  of the server logger's queue (`logq`).

## 4. Runs

| run | cfg | expect | what it shows |
|---|---|---|---|
| book | `MC_OMEOrderBook.cfg` | pass | the exchange book's invariants over every request sequence (below) |
| market_data | `MC_MarketData.cfg` (module `MC_MarketData`) | pass | with loss on both groups and a duplicate incremental, MarketData implements MarketFeed, and every recovery ends (109k states, about 2 min 20 s) |
| market_data_snapshot_loss | `MC_MarketData_SnapLoss.cfg` | violation `ReplicaConsistent` | two lost datagrams (the END of one publication; START, CLEAR and first ADD of the next) splice two publications into a book that never existed |
| logger | `MC_Logger.cfg` | pass | logf pushes exactly the reference rendering, fails exactly on a hole/argument mismatch, and ~Logger ends with every element in the file (110k states) |
| lfqueue_copy_after_release | `MC_LFQueue_Copy.cfg` | violation `SnapshotFeedMatches` | the synthesizer gets update 3 under update 1's sequence number |
| te_book | `MC_TEOrderBook.cfg` | pass | on the live stream, the replica and the BBO match the exchange, and the level pool, the side lists and the slot map agree (352k states) |
| te_book_recovery | `MC_TEOrderBook_Recovery.cfg` | violation `ReplicaMatches` | after a CLEAR, a snapshot ADD lands in a freed level and the order vanishes from the replica |
| position | `MC_PositionManager.cfg` | pass | total PnL equals mark-to-market, and only the position's side has an open sum, through closes and flips |
| client_order_requests | `MC_ClientTrading.cfg` | violation `OrderRequestsSound` | a second BBO update before the exchange answers sends a second NEW per side; after an ACCEPTED the next update cancels `OrderID_INVALID` |
| gateway | `MC_OrderGateway.cfg` | pass | per-client FIFO into the engine, nothing lost once quiescent, and, under fairness, every response delivered and every connection accepted (122k states, about 35 s) |
| gateway_stranded | `MC_OrderGateway_Stranded.cfg` | violation `RequestsEventuallyPublished` | a request read by the tx_sockets loop, after `rx_done_callback`, waits in the sequencer until another request arrives |
| exchange_shutdown | `ExchangeLifecycle.cfg` | violation `NoUseAfterDestroy` | `~ExchangeServer` destroys the three rings before the components whose threads still use them |

Each violation is a finding in `PROJECT.json`, with the line of code, what
the code does, and what the spec says instead. Each property of a passing
run has a mutant in `PROJECT.json`. The mutant is a plausible bug in the
mapped code (a dropped guard, a missing wrap, a wrong branch), and TLC
finds the property violated when it replaces the original.

The `book` run covers two clients, prices {1,2,3}, quantities {1,2},
client ids 1..3 and up to 4 requests (about 400 thousand states). Over
every such sequence it checks that:

- the levels are sorted and the FIFOs ordered (`BookWellFormed`);
- the book is never crossed (`NoCrossedBook`);
- the index agrees with the book (`IndexConsistent`);
- every accepted quantity is filled, resting or cancelled
  (`QtyConservation`);
- replaying the updates gives the book (`MarketDataReplay`);
- a resting order is filled only when every order ahead of it has gone
  (`PriceTimePriority`).

### Bounds

- **Exchange book.** Four requests with quantities 1 and 2 are enough for
  every case of the matching loop: a sweep of two levels, a partial fill
  of the head, a fill after the head, and insertion at the head, middle
  and tail of a side. Clients are symmetric model values.
- **Market data.** The passing run has three updates on two ids. It
  allows two lost incremental datagrams, one lost snapshot datagram and
  one duplicated incremental datagram. These reach:
  - a gap before, inside and after a snapshot;
  - a batch of two updates in one datagram;
  - a recovery that needs a second publication;
  - a recovery started by a duplicate alone.

  Four updates take over seven minutes, so the run uses three. The
  splice needs two lost snapshot datagrams: the first publication's END,
  and the second publication's datagram of START, CLEAR and first ADD.
  The violation run allows two. The passing run's single loss cannot
  produce the splice.
- **Logger.** Two calls of formats up to three characters with up to two
  arguments cover "%%%", "%%" followed by a hole, holes at either end, and
  both FATALs; the second call interleaves with the drain of the first.
- **LFQueue.** A two-slot ring and four writes make the writer wrap and
  overwrite a released slot before the reader copies it.
- **TEOrderBook.** Five events on four ids and three prices, with four
  level blocks, reach:
  - two levels per side;
  - removal of a head level;
  - a recovery after orders exist.
- **PositionManager.** Five events with quantities 1 and 2 reach opening,
  increasing, partly closing, closing exactly and flipping on both sides,
  with BBO revaluation between them.
- **ClientTrading.** Three BBO updates are enough for both faults. Each
  needs two updates, and one needs an exchange answer in between.

- **ExchangeLifecycle.** There is nothing to bound except the logger's
  queue (`LogMax` = 2). The program is the code's fixed sequence of steps,
  and each worker's loop iteration leaves the state unchanged unless it
  touches a destroyed queue.
- **OrderGateway.** Two clients, the first with two requests and the
  second with one (`MaxReqs` = <<2, 1>>). With two requests,
  one read can hold both of a client's requests (same timestamp), and two
  clients' reads can interleave in one batch. A read can also end inside a
  message.

Every run keeps its bounded counters in the guards. The gateway run checks
deadlock, because the server's loop is always enabled. The other runs set
`CHECK_DEADLOCK FALSE` because the threads of the code idle, or stop
receiving input, once the bounded events are exhausted.

### Fairness

`OrderGateway`, `MarketData` and `Logger` assume fairness. In
`OrderGateway`:

- **Server loop.** Weak fairness on the loop. The gateway server thread
  spins in `while (is_running)` and never blocks, so it keeps getting
  scheduled.
- **Engine.** Weak fairness on `EngineRespond`. The matching engine's
  thread also spins over its ring.
- **Client.** Weak fairness on the client's loop, when it has something
  to send or read.
- **TCP.** Weak fairness on `Arrive`. TCP eventually delivers bytes in
  flight on a live connection.

`Connect` has no fairness, because a client may never start.

In `MarketData` (`FairSpec`, and `HFairSpec` in `MC_MarketData`): weak fairness on the publisher, the
synthesizer's drain, the snapshot timer and both receive loops, each a
thread that spins without blocking; none on the engine's updates (trading
may stop) or on the faults. The faults are bounded (`MaxIncLoss`,
`MaxSnapLoss`, `MaxIncDup`), which is the fault model under which
recovery can end at all: a snapshot is never re-sent on demand, only republished by the
timer. A lost final incremental is never detected (there is no
heartbeat), so no property claims the consumer catches up; this is a
hazard in `PROJECT.json`. `HFairSpec` writes `RxSnapshot`'s weak
fairness out as `[]<>(snap_group = <<>>) \/ []<><<H(RxSnapshot)>>_hvars`.
This is equivalent, because the action's body is total and always
changes `snap_group`. TLC otherwise unfolds `rx_callback`'s loop to
evaluate ENABLED, and does not finish.

In `Logger` (`FairSpec`): weak fairness on the producer, the logger
thread (a loop with a 10 ms sleep) and the owner's destructor, which
runs to its end once called.

## 5. Not modelled

- **Gateway failures.** `OrderGateway` delivers every byte sent. These
  hazards are in `PROJECT.json` with a note:
  - a short `send()`, whose remainder the code drops;
  - reconnection, where the client-to-socket map is never cleared;
  - the unstable introsort for batches over 16;
  - the pending-request limit.
- **Price-slot collision** in `OMEOrderBook` (prices equal modulo
  `MAX_PRICE_LEVELS`). The spec lists it as an open question, so the book
  run keeps prices within one cycle.
- **Requests and responses in ClientTrading** are in-order channels. This
  is what TCP and the per-client sequencing give when the gateways work.
- **LiquidityTaker** is an empty TODO in the code. Trade-update callbacks
  change no state.
- Formatting (`to_str`, the numeric output of `file <<`). `Logger`
  models `logf`'s scan over characters and arguments; the `char*`
  overload's per-character loop and the owner's call sites are left out,
  and `ExchangeLifecycle` sees the logger as a thread and a count.
- `MC_TEOrderBook_BBO.cfg` checks `BBOCorrect`, which a CLEAR violates;
  it is kept for that hazard and is not one of the runs.
- Socket system calls, and `traderco_main` (one matching engine over
  queues on `main`'s stack, destroyed on SIGINT before `exit`).
- **The OME start race and the dangling closure.** These are two
  `PROJECT.json` hazards:
  - a `stop()` before `OrderMatchingEngine::run` sets `is_running` is
    lost, and the `join` never returns;
  - `create_and_start_thread` calls `fn` through a reference to the
    caller's temporary.

  `ExchangeLifecycle` contains the first one, but its only run stops at
  the earlier use-after-destroy. It takes the second one as a single
  step.
- Multiple tickers. Each ticker has its own book, position and orders, and
  no state is shared between them.
- Doubles are modelled as exact rationals (PositionManager) or integer
  comparisons (the fair price threshold). Rounding is not modelled.
- **The trading client's lifecycle** (`TradingEngine::start` and `stop`,
  and the trading client's own shutdown order) is not modelled.
  - `stop` waits for both of the engine's rings to drain, then clears
    `is_running` and joins.
  - `ClientTrading` already covers the engine's rings. Its only run checks
    one property and stops at its violation, so a stop action there
    would never be checked.
  - Liveness of shutdown, the ring overrun in `lfqueue.h`, the pool's last
    block and the stale-at-quiet-period consumer are hazards with bugs.
    Each would need a violation run of its own, which checks exactly one
    property. The project keeps one run for each distinct question.
    These hazards stay listed in `PROJECT.json` with their notes.
