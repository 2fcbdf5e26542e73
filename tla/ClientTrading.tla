---------------------------- MODULE ClientTrading ----------------------------
(***************************************************************************)
(* The trading client's order path for one ticker, on the TradingEngine    *)
(* thread (src/source/traderco/client/trading/):                           *)
(*   - a BBO change reaches TradingEngine::on_order_book_update, which      *)
(*     revalues the position, updates the FeatureEngine's fair price and   *)
(*     runs MarketMaker::on_order_book_update, which quotes a bid and an   *)
(*     ask through OrderManager::manage_orders;                            *)
(*   - manage_order asks the RiskManager before every NEW;                 *)
(*   - TradingEngine::run hands each order response to the strategy's      *)
(*     callback, MarketMaker::on_order_response, which forwards it to      *)
(*     OrderManager::on_order_response.                                    *)
(* The exchange is the environment: requests reach it in the order they    *)
(* were sent and responses come back in order (TCP, one client); it        *)
(* accepts, cancels or rejects each request, and other participants may   *)
(* fill a resting order at any time.  Position and PnL are                 *)
(* PositionManager's.                                                      *)
(***************************************************************************)
EXTENDS Integers, Sequences, FiniteSets

CONSTANTS
    Prices,         \* BBO prices
    Qtys,           \* BBO quantities at the best levels
    TradeSize,      \* TradeEngineConf::trade_size
    Threshold,      \* TradeEngineConf::threshold
    SizeMax,        \* RiskConf::size_max
    PositionMax,    \* RiskConf::position_max
    LossMax,        \* RiskConf::loss_max
    MaxTicks,       \* bound: BBO updates
    INVALID,        \* Price_INVALID
    OID_INVALID     \* OrderID_INVALID

BUY == 1
SELL == -1
Sides == {BUY, SELL}

VARIABLES
    om,         \* OrderManager's OMOrder per side: [id, side, price, qty, state]
    next_oid,   \* OrderManager::next_oid
    tx,         \* requests sent, not yet processed by the exchange
    rx,         \* responses sent by the exchange, not yet read
    ex_live,    \* the exchange's resting orders of this client
    ex_up,      \* the exchange process is running
    n_ticks,    \* BBO updates so far
    position, pnl_real, pnl_unreal, pnl_total, vwap_open, volume, n_events,
    cash, mark

pm_vars == <<position, pnl_real, pnl_unreal, pnl_total, vwap_open, volume,
             n_events, cash, mark>>
vars == <<om, next_oid, tx, rx, ex_live, ex_up, n_ticks, pm_vars>>

PM == INSTANCE PositionManager WITH MaxEvents <- 0

-----------------------------------------------------------------------------
(* RiskManager::get_trade_risk: TRUE when the result is ALLOWED.           *)
get_trade_risk(side, qty) ==
    /\ qty <= SizeMax
    /\ PM!Abs(position + side * qty) <= PositionMax
    /\ pnl_total.n >= LossMax * pnl_total.d

(* OrderManager::request_new_order and request_cancel_order: the request *)
(* each one sends to the exchange.                                        *)
NewReq(side, price, qty, oid) ==
    [type |-> "NEW", id |-> oid, side |-> side, price |-> price, qty |-> qty]
CancelReq(o) ==
    [type |-> "CANCEL", id |-> o.id, side |-> o.side, price |-> o.price, qty |-> o.qty]

(* OrderManager::manage_order on one side: the requests it sends, the NEW *)
(* numbered oid.                                                          *)
ManageOrder(o, price, side, qty, oid) ==
    CASE o.state = "LIVE" /\ o.price # price -> <<CancelReq(o)>>
      [] o.state \in {"INVALID", "DEAD"} /\ price # INVALID
         /\ get_trade_risk(side, qty)          -> <<NewReq(side, price, qty, oid)>>
      [] OTHER                                 -> <<>>

(* TradingEngine::send_order_request_to_exchange: each request is written *)
(* to the ring the order gateway client sends from.                       *)
send_order_request_to_exchange(rs) == tx' = tx \o rs

NewCount(rs) == IF rs # <<>> /\ rs[1].type = "NEW" THEN 1 ELSE 0

(* OrderManager::manage_orders: each side's order is copied out of the    *)
(* map ("auto bid_order = ...") and managed; what manage_order writes to  *)
(* the copy is dropped, only the requests and next_oid remain.            *)
manage_orders(bid, ask, qty) ==
    LET rb == ManageOrder(om[BUY], bid, BUY, qty, next_oid)
        ra == ManageOrder(om[SELL], ask, SELL, qty, next_oid + NewCount(rb))
    IN /\ send_order_request_to_exchange(rb \o ra)
       /\ next_oid' = next_oid + NewCount(rb) + NewCount(ra)

(* FeatureEngine::on_order_book_update's fair price                        *)
(* (bid * ask_qty + ask * bid_qty) / (bid_qty + ask_qty), multiplied by    *)
(* the positive bid_qty + ask_qty so that it stays an integer.            *)
ScaledFairPrice(b, a, bq, aq) == b * aq + a * bq

(* MarketMaker::on_order_book_update: each quote stays at the best price  *)
(* when the fair price is at least Threshold away from it, else steps one *)
(* tick back; both sides of each comparison are scaled as above.          *)
QuoteBid(b, a, bq, aq) ==
    IF ScaledFairPrice(b, a, bq, aq) - b * (aq + bq) >= Threshold * (aq + bq) THEN b ELSE b - 1
QuoteAsk(b, a, bq, aq) ==
    IF a * (aq + bq) - ScaledFairPrice(b, a, bq, aq) >= Threshold * (aq + bq) THEN a ELSE a + 1

(* TradingEngine::on_order_book_update after the replica's BBO changed:   *)
(* PositionManager::on_bbo_update, then the strategy.                     *)
OnOrderBookUpdate(b, a, bq, aq) ==
    /\ n_ticks < MaxTicks
    /\ n_ticks' = n_ticks + 1
    /\ PM!on_bbo_update(b, a)
    /\ IF b # INVALID /\ a # INVALID
       THEN manage_orders(QuoteBid(b, a, bq, aq), QuoteAsk(b, a, bq, aq), TradeSize)
       ELSE UNCHANGED <<tx, next_oid>>
    /\ UNCHANGED <<om, rx, ex_live, ex_up, position, pnl_real,
                   vwap_open, volume, n_events, cash>>

(* OrderManager::on_order_response on the order stored for the side.      *)
on_order_response(r) ==
    om' = IF r.side \notin Sides THEN om
          ELSE CASE r.type = "ACCEPTED"  -> [om EXCEPT ![r.side].state = "LIVE"]
                 [] r.type = "CANCELLED" -> [om EXCEPT ![r.side].state = "DEAD"]
                 [] r.type = "FILLED"    ->
                      [om EXCEPT ![r.side].qty = r.qty_remain,
                                 ![r.side].state = IF r.qty_remain = 0 THEN "DEAD" ELSE @]
                 [] OTHER                -> om

(* MarketMaker::on_order_response, which the MarketMaker's constructor    *)
(* installs as the engine's on_order_response_callback: forward to the   *)
(* order manager.                                                         *)
on_order_response_callback(r) == on_order_response(r)

(* TradingEngine::run, response loop: on_order_response_callback.  It     *)
(* never reaches TradingEngine::on_order_response, so add_fill is not     *)
(* called and the position stays as it was.                              *)
OnOrderResponse ==
    /\ rx # <<>>
    /\ on_order_response_callback(Head(rx))
    /\ rx' = Tail(rx)
    /\ UNCHANGED <<next_oid, tx, ex_live, ex_up, n_ticks, pm_vars>>

-----------------------------------------------------------------------------
(* The exchange: OMEOrderBook::add and cancel for this client's requests. *)
Resp(type, id, side, price, exec, remain) ==
    [type |-> type, id |-> id, side |-> side, price |-> price,
     qty_exec |-> exec, qty_remain |-> remain]

ExRequest ==
    /\ ex_up /\ tx # <<>>
    /\ LET r == Head(tx)
           live == {o \in ex_live : o.id = r.id}
       IN CASE r.type = "NEW" ->
                 /\ ex_live' = ex_live \cup {[id |-> r.id, side |-> r.side,
                                              price |-> r.price, qty |-> r.qty]}
                 /\ rx' = Append(rx, Resp("ACCEPTED", r.id, r.side, r.price, 0, r.qty))
                 /\ UNCHANGED ex_up
            [] r.id = OID_INVALID ->   \* map_client_order.at() throws: terminate
                 /\ ex_up' = FALSE
                 /\ UNCHANGED <<ex_live, rx>>
            [] live # {} ->
                 LET o == CHOOSE x \in live : TRUE
                 IN /\ ex_live' = ex_live \ {o}
                    /\ rx' = Append(rx, Resp("CANCELLED", o.id, o.side, o.price, 0, o.qty))
                    /\ UNCHANGED ex_up
            [] OTHER ->
                 /\ rx' = Append(rx, Resp("CANCEL_REJECTED", r.id, 0, INVALID, 0, 0))
                 /\ UNCHANGED <<ex_live, ex_up>>
    /\ tx' = Tail(tx)
    /\ UNCHANGED <<om, next_oid, n_ticks, pm_vars>>

(* Another participant's order trades q against a resting order (match).  *)
ExFill(o, q) ==
    /\ ex_up
    /\ ex_live' = IF q = o.qty THEN ex_live \ {o}
                  ELSE (ex_live \ {o}) \cup {[o EXCEPT !.qty = @ - q]}
    /\ rx' = Append(rx, Resp("FILLED", o.id, o.side, o.price, q, o.qty - q))
    /\ UNCHANGED <<om, next_oid, tx, ex_up, n_ticks, pm_vars>>

-----------------------------------------------------------------------------
Init ==
    /\ om = [s \in Sides |-> [id |-> OID_INVALID, side |-> 0, price |-> INVALID,
                              qty |-> 0, state |-> "INVALID"]]
    /\ next_oid = 1
    /\ tx = <<>> /\ rx = <<>>
    /\ ex_live = {} /\ ex_up = TRUE
    /\ n_ticks = 0
    /\ PM!Init

Next ==
    \/ \E b, a \in Prices \cup {INVALID}, bq, aq \in Qtys :
           (b # INVALID /\ a # INVALID => b < a) /\ OnOrderBookUpdate(b, a, bq, aq)
    \/ OnOrderResponse
    \/ ExRequest
    \/ \E o \in ex_live : \E q \in 1 .. o.qty : ExFill(o, q)

Spec == Init /\ [][Next]_vars

-----------------------------------------------------------------------------
(* Section 4.11 of the spec, about manage_orders and on_order_response:   *)
(* the order manager keeps at most one order per side at the exchange,    *)
(* live or with its NEW in flight, and cancels only orders it created.    *)
OrderRequestsSound ==
    /\ \A s \in Sides :
          Cardinality({o.id : o \in {x \in ex_live : x.side = s}}
                      \cup {tx[i].id : i \in {j \in 1 .. Len(tx) :
                                 tx[j].type = "NEW" /\ tx[j].side = s}}) <= 1
    /\ \A i \in 1 .. Len(tx) : tx[i].type = "CANCEL" => tx[i].id \in 1 .. next_oid - 1

=============================================================================
