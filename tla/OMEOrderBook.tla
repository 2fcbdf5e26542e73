---------------------------- MODULE OMEOrderBook ----------------------------
(***************************************************************************)
(* The exchange-side limit order book of one ticker, Exchange::OMEOrderBook *)
(* (src/source/traderco/exchange/orders/ome_order_book.{h,cpp}).            *)
(*                                                                         *)
(* One action per public operation of the book: Add is OMEOrderBook::add   *)
(* with its whole matching loop (find_match / match), Cancel is            *)
(* OMEOrderBook::cancel.  Both run on the single matching-engine thread,   *)
(* so each is one atomic step.                                             *)
(*                                                                         *)
(* The pointer structure is abstracted to sequences:                       *)
(*   - map_price_to_price_level[i] is a level record or NoLevel; a level   *)
(*     keeps its FIFO of orders (the order_0 circular list) as a sequence  *)
(*     of market order ids, head first;                                    *)
(*   - levels_by_side[s] is the circular list of levels of side s          *)
(*     (bids_by_price / asks_by_price) as a sequence of level indices,     *)
(*     most aggressive first;                                              *)
(*   - orders maps each live market order id to its OMEOrder fields (the   *)
(*     used blocks of order_pool).                                         *)
(* The client response ring and the market update ring are kept as the    *)
(* whole history of what the book sent to them (send_client_response /     *)
(* send_market_update append), so properties can speak about the streams. *)
(***************************************************************************)
EXTENDS Integers, Sequences, SequencesExt, FiniteSets

CONSTANTS
    Clients,            \* client ids that send requests
    MaxClientOid,       \* client order ids are 1..MaxClientOid
    Prices,             \* limit prices requests may carry
    Qtys,               \* order quantities requests may carry
    MAX_PRICE_LEVELS,   \* Limits::MAX_PRICE_LEVELS, modulus of price_to_index
    MaxRequests,        \* bound: requests the matching engine processes
    ReuseClientOids,    \* TRUE: a client may send NEW with an id it used before
    INVALID             \* the *_INVALID sentinels of common/types.h

ASSUME /\ MaxClientOid \in Nat \ {0}
       /\ Prices \subseteq Nat /\ Qtys \subseteq Nat \ {0}
       /\ MAX_PRICE_LEVELS \in Nat \ {0}
       /\ MaxRequests \in Nat
       /\ ReuseClientOids \in BOOLEAN

BUY  == 1               \* Side::BUY
SELL == -1              \* Side::SELL
Sides == {BUY, SELL}
ClientOids == 1 .. MaxClientOid
Index == 0 .. (MAX_PRICE_LEVELS - 1)
NoOrder == 0            \* a null OMEOrder* (market order ids start at 1)
NoLevel == [side |-> INVALID]   \* a null OMEOrdersAtPrice*

VARIABLES
    orders,                     \* market oid -> live OMEOrder
    map_price_to_price_level,   \* Index -> level record or NoLevel
    levels_by_side,             \* side -> sequence of level indices
    map_client_id_to_order,     \* client -> client oid -> market oid / NoOrder
    next_market_oid,            \* next market order id to assign
    responses,                  \* every OMEClientResponse sent, in order
    updates,                    \* every OMEMarketUpdate sent, in order
    n_requests,                 \* requests processed so far (bounds the model)
    client_next_oid             \* client side: next client order id of each client

book_vars == <<orders, map_price_to_price_level, levels_by_side,
               map_client_id_to_order, next_market_oid, responses, updates>>
vars == <<book_vars, n_requests, client_next_oid>>

-----------------------------------------------------------------------------
(* The book is passed through the matching loop as one record.            *)
Book == [orders |-> orders, levels |-> map_price_to_price_level,
         sides |-> levels_by_side, cmap |-> map_client_id_to_order,
         resp |-> responses, upd |-> updates]

SetBook(b) ==
    /\ orders' = b.orders
    /\ map_price_to_price_level' = b.levels
    /\ levels_by_side' = b.sides
    /\ map_client_id_to_order' = b.cmap
    /\ responses' = b.resp
    /\ updates' = b.upd

\* price_to_index
price_to_index(p) == p % MAX_PRICE_LEVELS

\* the level at p's slot, or NoLevel (get_level_for_price)
get_level_for_price(b, p) == b.levels[price_to_index(p)]

\* p is strictly less aggressive than q on side s (should_add_after)
LessAggressive(s, p, q) == IF s = BUY THEN p < q ELSE p > q

Response(type, c, coid, moid, s, p, exec, remain) ==
    [type |-> type, client |-> c, coid |-> coid, moid |-> moid,
     side |-> s, price |-> p, qty_exec |-> exec, qty_remain |-> remain]

Update(type, oid, s, p, q, prio) ==
    [type |-> type, oid |-> oid, side |-> s, price |-> p, qty |-> q,
     priority |-> prio]

DeleteKey(f, k) == [x \in DOMAIN f \ {k} |-> f[x]]

-----------------------------------------------------------------------------
(* add_price_level: link the new level at slot i into its side's list,    *)
(* before the first level it is not less aggressive than, else at the tail.*)
add_price_level(b, i) ==
    LET lvl  == b.levels[i]
        list == b.sides[lvl.side]
        ks   == {k \in 1 .. Len(list) :
                    ~LessAggressive(lvl.side, lvl.price, b.levels[list[k]].price)}
        pos  == IF ks = {} THEN Len(list) + 1 ELSE Min(ks)
    IN [b EXCEPT !.sides[lvl.side] = InsertAt(list, pos, i)]

(* remove_price_level: unlink the level at p's slot from side s's list,   *)
(* clear the slot and free the level.                                     *)
remove_price_level(b, s, p) ==
    LET i == price_to_index(p)
    IN [b EXCEPT !.sides[s] = RemoveFirst(@, i), !.levels[i] = NoLevel]

\* Mutant of add_order_to_book: the new order is linked in at the head.
add_order_to_book_prepend(b, m) ==
    LET o   == b.orders[m]
        i   == price_to_index(o.price)
        new == [b EXCEPT !.levels[i] = [side |-> o.side, price |-> o.price,
                                         queue |-> <<m>>]]
        b2  == IF b.levels[i] = NoLevel
               THEN add_price_level(new, i)
               ELSE [b EXCEPT !.levels[i].queue = <<m>> \o @]
    IN [b2 EXCEPT !.cmap[o.client][o.coid] = m]

(* add_order_to_book: append order m to its price level, creating the     *)
(* level when the slot is empty, and index it by client order id.        *)
add_order_to_book(b, m) ==
    LET o   == b.orders[m]
        i   == price_to_index(o.price)
        new == [b EXCEPT !.levels[i] = [side |-> o.side, price |-> o.price,
                                         queue |-> <<m>>]]
        b2  == IF b.levels[i] = NoLevel
               THEN add_price_level(new, i)
               ELSE [b EXCEPT !.levels[i].queue = Append(@, m)]
    IN [b2 EXCEPT !.cmap[o.client][o.coid] = m]

\* Mutant of remove_order_from_book: the client index entry is not cleared.
remove_order_from_book_keep_index(b, m) ==
    LET o   == b.orders[m]
        i   == price_to_index(o.price)
        b2  == IF b.levels[i].queue = <<m>>
               THEN remove_price_level(b, o.side, o.price)
               ELSE [b EXCEPT !.levels[i].queue = RemoveFirst(@, m)]
    IN [b2 EXCEPT !.orders = DeleteKey(@, m)]

(* remove_order_from_book: unlink order m from its level (removing the    *)
(* level when m is its only order), clear its client index entry and free *)
(* it.                                                                    *)
remove_order_from_book(b, m) ==
    LET o   == b.orders[m]
        i   == price_to_index(o.price)
        b2  == IF b.levels[i].queue = <<m>>
               THEN remove_price_level(b, o.side, o.price)
               ELSE [b EXCEPT !.levels[i].queue = RemoveFirst(@, m)]
    IN [b2 EXCEPT !.cmap[o.client][o.coid] = NoOrder,
                  !.orders = DeleteKey(@, m)]

\* Mutant of get_next_priority: the tail's priority without the + 1.
get_next_priority_same(b, p) ==
    LET lvl == get_level_for_price(b, p)
    IN IF lvl = NoLevel THEN 1 ELSE b.orders[Last(lvl.queue)].priority

(* get_next_priority: one past the priority of the level's last order, or *)
(* 1 when there is no level at the price.                                 *)
get_next_priority(b, p) ==
    LET lvl == get_level_for_price(b, p)
    IN IF lvl = NoLevel THEN 1 ELSE b.orders[Last(lvl.queue)].priority + 1

-----------------------------------------------------------------------------
\* Mutant of match: the fill is the whole remaining qty, not the minimum.
match_overfill(b, agg, m) ==
    LET o         == b.orders[m]
        fill      == agg.remains
        remains   == agg.remains - fill
        left      == o.qty - fill
        b1        == [b EXCEPT !.orders[m].qty = left]
        r_agg     == Response("FILLED", agg.client, agg.coid, agg.moid,
                              agg.side, o.price, fill, remains)
        r_passive == Response("FILLED", o.client, o.coid, m,
                              o.side, o.price, fill, left)
        trade     == Update("TRADE", INVALID, agg.side, o.price, fill, INVALID)
        b2        == [b1 EXCEPT !.resp = @ \o <<r_agg, r_passive>>,
                                !.upd = Append(@, trade)]
        b3        == IF left = 0
                     THEN remove_order_from_book(
                            [b2 EXCEPT !.upd = Append(@, Update("CANCEL", m,
                                        o.side, o.price, o.qty, INVALID))], m)
                     ELSE [b2 EXCEPT !.upd = Append(@, Update("MODIFY", m,
                                        o.side, o.price, left, o.priority))]
    IN [book |-> b3, remains |-> remains]

\* Mutant of match: the resting order's qty is not decremented.
match_keep_resting_qty(b, agg, m) ==
    LET o         == b.orders[m]
        fill      == IF agg.remains < o.qty THEN agg.remains ELSE o.qty
        remains   == agg.remains - fill
        left      == o.qty - fill
        b1        == b
        r_agg     == Response("FILLED", agg.client, agg.coid, agg.moid,
                              agg.side, o.price, fill, remains)
        r_passive == Response("FILLED", o.client, o.coid, m,
                              o.side, o.price, fill, left)
        trade     == Update("TRADE", INVALID, agg.side, o.price, fill, INVALID)
        b2        == [b1 EXCEPT !.resp = @ \o <<r_agg, r_passive>>,
                                !.upd = Append(@, trade)]
        b3        == IF left = 0
                     THEN remove_order_from_book(
                            [b2 EXCEPT !.upd = Append(@, Update("CANCEL", m,
                                        o.side, o.price, o.qty, INVALID))], m)
                     ELSE [b2 EXCEPT !.upd = Append(@, Update("MODIFY", m,
                                        o.side, o.price, left, o.priority))]
    IN [book |-> b3, remains |-> remains]

\* Mutant of match: the MODIFY update carries the pre-fill qty.
match_stale_modify(b, agg, m) ==
    LET o         == b.orders[m]
        fill      == IF agg.remains < o.qty THEN agg.remains ELSE o.qty
        remains   == agg.remains - fill
        left      == o.qty - fill
        b1        == [b EXCEPT !.orders[m].qty = left]
        r_agg     == Response("FILLED", agg.client, agg.coid, agg.moid,
                              agg.side, o.price, fill, remains)
        r_passive == Response("FILLED", o.client, o.coid, m,
                              o.side, o.price, fill, left)
        trade     == Update("TRADE", INVALID, agg.side, o.price, fill, INVALID)
        b2        == [b1 EXCEPT !.resp = @ \o <<r_agg, r_passive>>,
                                !.upd = Append(@, trade)]
        b3        == IF left = 0
                     THEN remove_order_from_book(
                            [b2 EXCEPT !.upd = Append(@, Update("CANCEL", m,
                                        o.side, o.price, o.qty, INVALID))], m)
                     ELSE [b2 EXCEPT !.upd = Append(@, Update("MODIFY", m,
                                        o.side, o.price, o.qty, o.priority))]
    IN [book |-> b3, remains |-> remains]

(* match: fill the aggressor agg against resting order m.  agg carries    *)
(* the incoming order's client, coid, moid, side and remaining qty.       *)
(* Returns [book |-> ..., remains |-> ...].                               *)
match(b, agg, m) ==
    LET o         == b.orders[m]
        fill      == IF agg.remains < o.qty THEN agg.remains ELSE o.qty
        remains   == agg.remains - fill
        left      == o.qty - fill
        b1        == [b EXCEPT !.orders[m].qty = left]
        r_agg     == Response("FILLED", agg.client, agg.coid, agg.moid,
                              agg.side, o.price, fill, remains)
        r_passive == Response("FILLED", o.client, o.coid, m,
                              o.side, o.price, fill, left)
        trade     == Update("TRADE", INVALID, agg.side, o.price, fill, INVALID)
        b2        == [b1 EXCEPT !.resp = @ \o <<r_agg, r_passive>>,
                                !.upd = Append(@, trade)]
        b3        == IF left = 0
                     THEN remove_order_from_book(
                            [b2 EXCEPT !.upd = Append(@, Update("CANCEL", m,
                                        o.side, o.price, o.qty, INVALID))], m)
                     ELSE [b2 EXCEPT !.upd = Append(@, Update("MODIFY", m,
                                        o.side, o.price, left, o.priority))]
    IN [book |-> b3, remains |-> remains]

\* Mutant of find_match: the SELL loop copies the BUY loop's break test.
RECURSIVE find_match_sell_copy(_, _, _)
find_match_sell_copy(b, agg, price) ==
    LET opp  == -agg.side
        list == b.sides[opp]
    IN IF agg.remains = 0 \/ list = <<>>
       THEN [book |-> b, remains |-> agg.remains]
       ELSE LET m    == b.levels[Head(list)].queue[1]
                hp   == b.orders[m].price
            IN IF price < hp
               THEN [book |-> b, remains |-> agg.remains]
               ELSE LET r == match(b, agg, m)
                    IN find_match_sell_copy(r.book, [agg EXCEPT !.remains = r.remains], price)

(* find_match: match the aggressor against the head order of the best     *)
(* opposite level while qty remains and the prices cross.                 *)
RECURSIVE find_match(_, _, _)
find_match(b, agg, price) ==
    LET opp  == -agg.side
        list == b.sides[opp]
    IN IF agg.remains = 0 \/ list = <<>>
       THEN [book |-> b, remains |-> agg.remains]
       ELSE LET m    == b.levels[Head(list)].queue[1]
                hp   == b.orders[m].price
            IN IF (agg.side = BUY /\ price < hp) \/ (agg.side = SELL /\ price > hp)
               THEN [book |-> b, remains |-> agg.remains]
               ELSE LET r == match(b, agg, m)
                    IN find_match(r.book, [agg EXCEPT !.remains = r.remains], price)

-----------------------------------------------------------------------------
(* OMEOrderBook::add: assign a market oid, acknowledge, match, and rest   *)
(* any remainder as a new passive order with an ADD update.               *)
add(c, coid, s, p, q) ==
    LET moid  == next_market_oid
        b0    == [Book EXCEPT !.resp = Append(@, Response("ACCEPTED", c, coid,
                                                     moid, s, p, 0, q))]
        agg   == [client |-> c, coid |-> coid, moid |-> moid, side |-> s,
                  remains |-> q]
        r     == find_match(b0, agg, p)
        rem   == r.remains
        prio  == get_next_priority(r.book, p)
        order == [client |-> c, coid |-> coid, side |-> s, price |-> p,
                  qty |-> rem, priority |-> prio]
        b1    == [r.book EXCEPT !.orders = @ @@ (moid :> order)]
        b2    == add_order_to_book(b1, moid)
        b3    == [b2 EXCEPT !.upd = Append(@, Update("ADD", moid, s, p, rem, prio))]
    IN /\ next_market_oid' = next_market_oid + 1
       /\ SetBook(IF rem > 0 THEN b3 ELSE r.book)

(* OMEOrderBook::cancel: reject an unknown order, else acknowledge, send  *)
(* a CANCEL update and remove the order.                                  *)
cancel(c, coid) ==
    LET m == map_client_id_to_order[c][coid]
        o == orders[m]
    IN IF m = NoOrder
       THEN /\ responses' = Append(responses, Response("CANCEL_REJECTED", c,
                                  coid, INVALID, INVALID, INVALID, INVALID, INVALID))
            /\ UNCHANGED <<orders, map_price_to_price_level, levels_by_side,
                           map_client_id_to_order, next_market_oid, updates>>
       ELSE LET b1 == [Book EXCEPT
                         !.upd = Append(@, Update("CANCEL", m, o.side, o.price,
                                                  0, o.priority))]
                b2 == remove_order_from_book(b1, m)
            IN /\ SetBook([b2 EXCEPT !.resp = Append(@, Response("CANCELLED",
                                c, coid, m, o.side, o.price, INVALID, o.qty))])
               /\ UNCHANGED next_market_oid

-----------------------------------------------------------------------------
(* Requests as OrderMatchingEngine::process_client_request dispatches      *)
(* them.  A client's OrderManager numbers its NEW requests from 1 upwards  *)
(* (request_new_order); with ReuseClientOids a client may also repeat an   *)
(* id it already used.                                                     *)
NewRequest(c, s, p, q) ==
    /\ n_requests < MaxRequests
    /\ \E coid \in ClientOids :
         /\ IF ReuseClientOids THEN coid <= client_next_oid[c]
                               ELSE coid = client_next_oid[c]
         /\ add(c, coid, s, p, q)
         /\ client_next_oid' = [client_next_oid EXCEPT ![c] =
                                   IF coid = @ THEN @ + 1 ELSE @]
    /\ n_requests' = n_requests + 1

CancelRequest(c, coid) ==
    /\ n_requests < MaxRequests
    /\ cancel(c, coid)
    /\ n_requests' = n_requests + 1
    /\ UNCHANGED client_next_oid

Init ==
    /\ orders = <<>>
    /\ map_price_to_price_level = [i \in Index |-> NoLevel]
    /\ levels_by_side = [s \in Sides |-> <<>>]
    /\ map_client_id_to_order = [c \in Clients |-> [k \in ClientOids |-> NoOrder]]
    /\ next_market_oid = 1
    /\ responses = <<>>
    /\ updates = <<>>
    /\ n_requests = 0
    /\ client_next_oid = [c \in Clients |-> 1]

Next ==
    \/ \E c \in Clients, s \in Sides, p \in Prices, q \in Qtys : NewRequest(c, s, p, q)
    \/ \E c \in Clients, coid \in ClientOids : CancelRequest(c, coid)

Spec == Init /\ [][Next]_vars

-----------------------------------------------------------------------------
(***************************************************************************)
(* Properties.                                                             *)
(***************************************************************************)
MarketOids == 1 .. MaxRequests
Level == [side : Sides, price : Prices, queue : Seq(MarketOids)]
OrderRec == [client : Clients, coid : ClientOids, side : Sides, price : Prices,
             qty : Nat, priority : Nat \ {0}]

\* Every variable holds a value of its C++ type.
TypeOK ==
    /\ DOMAIN orders \subseteq MarketOids
    /\ \A m \in DOMAIN orders : orders[m] \in OrderRec
    /\ map_price_to_price_level \in [Index -> Level \cup {NoLevel}]
    /\ levels_by_side \in [Sides -> Seq(Index)]
    /\ map_client_id_to_order \in [Clients -> [ClientOids -> MarketOids \cup {NoOrder}]]
    /\ next_market_oid \in 1 .. MaxRequests + 1
    /\ n_requests \in 0 .. MaxRequests

\* The live level records reachable from side s, best first.
SideLevels(s) == [k \in 1 .. Len(levels_by_side[s]) |->
                    map_price_to_price_level[levels_by_side[s][k]]]
BestPrice(s) == SideLevels(s)[1].price

(* INV-1, INV-2, INV-5 of the spec, about add_price_level,                *)
(* add_order_to_book and remove_order_from_book: each side's levels are    *)
(* strictly ordered from most to least aggressive and are exactly the      *)
(* occupied slots of that side; every order in a level has the level's     *)
(* side and price, priorities strictly increase along a level's FIFO, and  *)
(* every live order is in exactly one level with qty > 0.                  *)
BookWellFormed ==
    /\ \A s \in Sides :
         /\ IsInjective(levels_by_side[s])
         /\ \A k \in 1 .. Len(levels_by_side[s]) - 1 :
              LessAggressive(s, SideLevels(s)[k+1].price, SideLevels(s)[k].price)
    /\ \A i \in Index :
         LET lvl == map_price_to_price_level[i] IN
         lvl # NoLevel =>
           /\ \E k \in 1 .. Len(levels_by_side[lvl.side]) : levels_by_side[lvl.side][k] = i
           /\ lvl.queue # <<>> /\ IsInjective(lvl.queue)
           /\ \A k \in 1 .. Len(lvl.queue) :
                /\ lvl.queue[k] \in DOMAIN orders
                /\ orders[lvl.queue[k]].side = lvl.side
                /\ orders[lvl.queue[k]].price = lvl.price
                /\ k > 1 => orders[lvl.queue[k-1]].priority < orders[lvl.queue[k]].priority
    /\ \A m \in DOMAIN orders :
         /\ orders[m].qty > 0
         /\ \E i \in Index : map_price_to_price_level[i] # NoLevel
                             /\ m \in Range(map_price_to_price_level[i].queue)

(* INV-3, about find_match: when both sides are non-empty the best bid is  *)
(* strictly below the best ask, i.e. no add leaves a crossing remainder.   *)
NoCrossedBook ==
    levels_by_side[BUY] # <<>> /\ levels_by_side[SELL] # <<>>
        => BestPrice(BUY) < BestPrice(SELL)

(* INV-4, about add_order_to_book and remove_order_from_book: an order is  *)
(* live iff the client-order-id table maps its (client, client oid) to it. *)
IndexConsistent ==
    /\ \A m \in DOMAIN orders :
         map_client_id_to_order[orders[m].client][orders[m].coid] = m
    /\ \A c \in Clients, k \in ClientOids :
         LET m == map_client_id_to_order[c][k] IN
         m # NoOrder => m \in DOMAIN orders

(* P2 of the spec, about match and cancel: for every market order id the  *)
(* quantity ACCEPTED equals the quantity executed in its FILLED responses, *)
(* plus what still rests in the book, plus what its CANCELLED response     *)
(* reports as removed.                                                     *)
RespQty(m, type, field) ==
    FoldLeft(LAMBDA acc, r : acc + IF r.moid = m /\ r.type = type THEN r[field] ELSE 0,
             0, responses)
QtyConservation ==
    \A m \in 1 .. next_market_oid - 1 :
        RespQty(m, "ACCEPTED", "qty_remain")
          = RespQty(m, "FILLED", "qty_exec")
            + (IF m \in DOMAIN orders THEN orders[m].qty ELSE 0)
            + RespQty(m, "CANCELLED", "qty_remain")

(* What a market-data consumer rebuilds from the update stream: ADD        *)
(* inserts, MODIFY sets qty and price, CANCEL deletes, TRADE is            *)
(* informational (SnapshotSynthesizer::add_to_snapshot applies the same).  *)
ApplyUpdate(bk, u) ==
    CASE u.type = "ADD"    -> bk @@ (u.oid :> [side |-> u.side, price |-> u.price,
                                               qty |-> u.qty, priority |-> u.priority])
      [] u.type = "MODIFY" -> [bk EXCEPT ![u.oid].qty = u.qty, ![u.oid].price = u.price]
      [] u.type = "CANCEL" -> DeleteKey(bk, u.oid)
      [] OTHER             -> bk

(* P6 of the spec in its incremental form, about the updates add, match   *)
(* and cancel publish: replaying every market update sent so far from an   *)
(* empty book gives exactly the live orders, with their side, price,       *)
(* quantity and priority.                                                  *)
MarketDataReplay ==
    FoldLeft(ApplyUpdate, <<>>, updates)
      = [m \in DOMAIN orders |-> [side |-> orders[m].side, price |-> orders[m].price,
                                 qty |-> orders[m].qty, priority |-> orders[m].priority]]

\* resting order a is ahead of resting order b in price-time priority
Ahead(a, b) ==
    /\ orders[a].side = orders[b].side
    /\ \/ LessAggressive(orders[a].side, orders[b].price, orders[a].price)
       \/ orders[a].price = orders[b].price /\ orders[a].priority < orders[b].priority

\* resting orders that receive a FILLED response in this step
FilledNow == {m \in DOMAIN orders :
                \E k \in Len(responses) + 1 .. Len(responses') :
                   responses'[k].type = "FILLED" /\ responses'[k].moid = m}

(* The matching rules of the spec, about find_match and match: an order    *)
(* resting in the book is filled only after every order ahead of it in     *)
(* price-then-priority order is gone, within the same step.                *)
PriceTimePriority ==
    [][\A m \in FilledNow, a \in DOMAIN orders :
          Ahead(a, m) => a \notin DOMAIN orders']_vars
=============================================================================
