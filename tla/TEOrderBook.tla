----------------------------- MODULE TEOrderBook -----------------------------
(***************************************************************************)
(* The client's replica of one ticker's book, Client::TEOrderBook          *)
(* (src/source/traderco/client/orders/te_order_book.{h,cpp}), driven by    *)
(* the update stream the market data consumer forwards to the trading     *)
(* engine.  on_market_update runs on the trading-engine thread: one update *)
(* is one atomic step.                                                     *)
(*                                                                         *)
(* Price levels live in a LL::MemPool of MAX_PRICE_LEVELS blocks (lvl,     *)
(* lvl_free, lvl_next), so that a level freed and still referenced is      *)
(* visible: map_price_to_price_level[slot] is a block index or NoBlock,    *)
(* and levels_by_side[s] is the circular list bids_by_price/asks_by_price  *)
(* as a sequence of blocks, most aggressive first.  A level keeps its FIFO *)
(* of orders as a sequence of market order ids.  ords[oid] is the last     *)
(* content of the order's TEOrder object and id_to_order the ids whose     *)
(* pointer is set; order_pool is far larger than the bounds here and its   *)
(* block reuse is not modelled.                                            *)
(*                                                                         *)
(* The environment is the exchange: ex is its book (OMEOrderBook), whose   *)
(* updates reach the replica in order (MarketData checks the consumer      *)
(* forwards them so).  With Recovery, the consumer may also forward a      *)
(* recovery: CLEAR and an ADD per resting order, in order id order, as     *)
(* SnapshotSynthesizer::publish_snapshot sends them.                       *)
(***************************************************************************)
EXTENDS Integers, Sequences, SequencesExt, FiniteSets

CONSTANTS
    MaxOid,             \* market order ids are 1 .. MaxOid
    Prices,             \* prices the exchange's orders rest at
    Qtys,               \* order quantities
    MAX_PRICE_LEVELS,   \* Exchange::Limits::MAX_PRICE_LEVELS
    MaxUpdates,         \* bound: exchange events
    Recovery,           \* whether the consumer may forward a snapshot recovery
    INVALID             \* Price_INVALID / Qty_INVALID

ASSUME /\ MaxOid \in Nat /\ MaxUpdates \in Nat /\ Recovery \in BOOLEAN
       /\ Prices \subseteq Nat /\ Qtys \subseteq Nat \ {0}
       /\ MAX_PRICE_LEVELS \in Nat \ {0}

BUY == 1
SELL == -1
Sides == {BUY, SELL}
Oids == 1 .. MaxOid
Blocks == 0 .. MAX_PRICE_LEVELS - 1
Slots == 0 .. MAX_PRICE_LEVELS - 1
NoBlock == -1

VARIABLES
    ex,             \* the exchange's book: oid -> [side, price, qty]
    next_oid,       \* the exchange's next market order id
    n_updates,      \* exchange events so far
    pending,        \* updates forwarded to the trading engine, not yet applied
    lvl,            \* level pool blocks: [side, price, queue]
    lvl_free,       \* orders_at_price_pool: Block::is_free
    lvl_next,       \* orders_at_price_pool: i_next_free
    aborted,        \* an ASSERT of the level pool has failed
    map_price_to_price_level,
    levels_by_side,
    ords,           \* oid -> last content of its TEOrder object
    id_to_order,    \* oids whose id_to_order pointer is set
    bbo,
    recovered       \* whether a snapshot recovery has been forwarded

replica == <<lvl, lvl_free, lvl_next, aborted, map_price_to_price_level,
             levels_by_side, ords, id_to_order, bbo>>

vars == <<ex, next_oid, n_updates, pending, recovered, lvl, lvl_free, lvl_next, aborted,
          map_price_to_price_level, levels_by_side, ords, id_to_order, bbo>>

LP == INSTANCE MemPool WITH N_BLOCKS <- MAX_PRICE_LEVELS, Reserve <- 0,
                            is_free <- lvl_free, i_next_free <- lvl_next

Upd(type, oid, side, price, qty) ==
    [type |-> type, oid |-> oid, side |-> side, price |-> price, qty |-> qty]

-----------------------------------------------------------------------------
(* The replica is passed through on_market_update as one record.          *)
Book == [lvl |-> lvl, free |-> lvl_free, cursor |-> lvl_next, aborted |-> aborted,
         map |-> map_price_to_price_level, sides |-> levels_by_side,
         ords |-> ords, ids |-> id_to_order, bbo |-> bbo]

SetBook(b) ==
    /\ lvl' = b.lvl /\ lvl_free' = b.free /\ lvl_next' = b.cursor
    /\ aborted' = b.aborted /\ map_price_to_price_level' = b.map
    /\ levels_by_side' = b.sides /\ ords' = b.ords /\ id_to_order' = b.ids
    /\ bbo' = b.bbo

price_to_index(p) == p % MAX_PRICE_LEVELS

get_level_for_price(b, p) == b.map[price_to_index(p)]

\* should_add_after: the new level at price p goes after a level at price q
LessAggressive(s, p, q) == IF s = BUY THEN p < q ELSE p > q

(* add_price_level: set the slot, then link the block into its side's     *)
(* list before the first level it is not less aggressive than, else at    *)
(* the tail.                                                              *)
add_price_level(b, blk) ==
    LET l    == b.lvl[blk]
        list == b.sides[l.side]
        at   == {k \in 1 .. Len(list) :
                    ~LessAggressive(l.side, l.price, b.lvl[list[k]].price)}
        pos  == IF at = {} THEN Len(list) + 1 ELSE Min(at)
    IN [b EXCEPT !.map[price_to_index(l.price)] = blk,
                 !.sides[l.side] = InsertAt(list, pos, blk)]

\* Mutant of allocate_level: the cursor is advanced without wrapping.
allocate_level_nowrap(b, side, price, oid) ==
    IF ~b.free[b.cursor] THEN [b EXCEPT !.aborted = TRUE]
    ELSE add_price_level(
           [b EXCEPT !.free[b.cursor] = FALSE, !.cursor = b.cursor + 1,
                     !.lvl[b.cursor] = [side |-> side, price |-> price,
                                        queue |-> <<oid>>]], b.cursor)

(* orders_at_price_pool.allocate: ASSERT the cursor's block is free, take *)
(* it, construct the level in it and advance the cursor.                  *)
allocate_level(b, side, price, oid) ==
    LET blk  == b.cursor
        free == [b.free EXCEPT ![blk] = FALSE]
        nxt  == LP!update_next_free_index(free, blk)
    IN IF ~b.free[blk] \/ nxt = -1 THEN [b EXCEPT !.aborted = TRUE]
       ELSE add_price_level(
              [b EXCEPT !.free = free, !.cursor = nxt,
                        !.lvl[blk] = [side |-> side, price |-> price,
                                      queue |-> <<oid>>]], blk)

(* orders_at_price_pool.deallocate: ASSERT the block is in use, free it.  *)
deallocate_level(b, blk) ==
    IF b.free[blk] THEN [b EXCEPT !.aborted = TRUE]
    ELSE [b EXCEPT !.free[blk] = TRUE]

(* add_order: a new level if the price's slot is empty, else append to    *)
(* the level the slot points at; then set id_to_order.                    *)
add_order(b, u) ==
    LET blk == get_level_for_price(b, u.price)
        b1  == [b EXCEPT !.ords[u.oid] = [side |-> u.side, price |-> u.price,
                                          qty |-> u.qty],
                         !.ids = @ \cup {u.oid}]
    IN IF blk = NoBlock THEN allocate_level(b1, u.side, u.price, u.oid)
       ELSE [b1 EXCEPT !.lvl[blk].queue = Append(@, u.oid)]

\* Mutant of remove_price_level: the block is not given back to the pool.
remove_price_level_keep_block(b, s, p) ==
    LET blk == get_level_for_price(b, p)
    IN [b EXCEPT !.sides[s] = SelectSeq(@, LAMBDA x : x # blk),
                 !.map[price_to_index(p)] = NoBlock]

(* remove_price_level: unlink the level at p's slot from side s's list,   *)
(* clear the slot and free the block.                                     *)
remove_price_level(b, s, p) ==
    LET blk == get_level_for_price(b, p)
    IN deallocate_level(
         [b EXCEPT !.sides[s] = SelectSeq(@, LAMBDA x : x # blk),
                   !.map[price_to_index(p)] = NoBlock], blk)

\* Mutant of remove_order: the id_to_order entry is not reset.
remove_order_keep_id(b, oid) ==
    LET o   == b.ords[oid]
        blk == get_level_for_price(b, o.price)
    IN IF b.lvl[blk].queue = <<oid>> THEN remove_price_level(b, o.side, o.price)
       ELSE [b EXCEPT !.lvl[blk].queue = SelectSeq(@, LAMBDA x : x # oid)]

(* remove_order: the whole level if the order is alone in it, else unlink *)
(* the order (the level's head moves on if it was the head).              *)
remove_order(b, oid) ==
    LET o   == b.ords[oid]
        blk == get_level_for_price(b, o.price)
        b1  == IF b.lvl[blk].queue = <<oid>>
               THEN remove_price_level(b, o.side, o.price)
               ELSE [b EXCEPT !.lvl[blk].queue = SelectSeq(@, LAMBDA x : x # oid)]
    IN [b1 EXCEPT !.ids = @ \ {oid}]

(* clear_entire_book: free every order and every level of both lists and *)
(* empty id_to_order and the lists; map_price_to_price_level is left as   *)
(* it is.                                                                 *)
clear_entire_book(b) ==
    LET inuse == UNION {Range(b.sides[s]) : s \in Sides}
    IN IF \E blk \in inuse : b.free[blk] THEN [b EXCEPT !.aborted = TRUE]
       ELSE [b EXCEPT !.free = [x \in Blocks |-> @[x] \/ x \in inuse],
                      !.ids = {},
                      !.sides = [s \in Sides |-> <<>>]]

(* The BBO of side s as update_bbo computes it: the head level's price    *)
(* and the sum of its orders' quantities, or INVALID for an empty side.   *)
SideBBO(b, s) ==
    IF b.sides[s] = <<>> THEN [price |-> INVALID, qty |-> INVALID]
    ELSE LET l == b.lvl[Head(b.sides[s])]
         IN [price |-> l.price,
             qty |-> FoldLeft(LAMBDA acc, o : acc + b.ords[o].qty, 0, l.queue)]

BboOf(bb, s) == IF s = BUY THEN [price |-> bb.bid, qty |-> bb.bid_qty]
                           ELSE [price |-> bb.ask, qty |-> bb.ask_qty]

update_bbo(b, should_update_bid, should_update_ask) ==
    LET bid == IF should_update_bid THEN SideBBO(b, BUY) ELSE BboOf(b.bbo, BUY)
        ask == IF should_update_ask THEN SideBBO(b, SELL) ELSE BboOf(b.bbo, SELL)
    IN [b EXCEPT !.bbo = [bid |-> bid.price, bid_qty |-> bid.qty,
                          ask |-> ask.price, ask_qty |-> ask.qty]]

\* Mutant of on_market_update: an update at the best price itself does not
\* refresh the BBO (> and < for >= and <=).
on_market_update_strict(b, u) ==
    LET bid_up == b.sides[BUY] # <<>> /\ u.side = BUY
                  /\ u.price > b.lvl[Head(b.sides[BUY])].price
        ask_up == b.sides[SELL] # <<>> /\ u.side = SELL
                  /\ u.price < b.lvl[Head(b.sides[SELL])].price
        b1 == CASE u.type = "ADD"    -> add_order(b, u)
                [] u.type = "MODIFY" -> IF u.oid \notin b.ids THEN [b EXCEPT !.aborted = TRUE]
                                        ELSE [b EXCEPT !.ords[u.oid].qty = u.qty]
                [] u.type = "CANCEL" -> IF u.oid \notin b.ids THEN [b EXCEPT !.aborted = TRUE]
                                        ELSE remove_order(b, u.oid)
                [] u.type = "CLEAR"  -> clear_entire_book(b)
                [] OTHER             -> b
    IN IF u.type = "TRADE" THEN b ELSE update_bbo(b1, bid_up, ask_up)

(* on_market_update: the BBO flags are computed first, from the book      *)
(* before the update; then the update is applied; TRADE returns before    *)
(* update_bbo.  A MODIFY or CANCEL of an id whose pointer is null         *)
(* dereferences nullptr: the process dies (aborted).                      *)
on_market_update(b, u) ==
    LET bid_is_updated == b.sides[BUY] # <<>> /\ u.side = BUY
                          /\ u.price >= b.lvl[Head(b.sides[BUY])].price
        ask_is_updated == b.sides[SELL] # <<>> /\ u.side = SELL
                          /\ u.price <= b.lvl[Head(b.sides[SELL])].price
        b1 == CASE u.type = "ADD"    -> add_order(b, u)
                [] u.type = "MODIFY" -> IF u.oid \notin b.ids THEN [b EXCEPT !.aborted = TRUE]
                                        ELSE [b EXCEPT !.ords[u.oid].qty = u.qty]
                [] u.type = "CANCEL" -> IF u.oid \notin b.ids THEN [b EXCEPT !.aborted = TRUE]
                                        ELSE remove_order(b, u.oid)
                [] u.type = "CLEAR"  -> clear_entire_book(b)
                [] OTHER             -> b
    IN IF u.type = "TRADE" THEN b
       ELSE update_bbo(b1, bid_is_updated, ask_is_updated)

-----------------------------------------------------------------------------
(* The exchange, as the source of the stream: an ADD of a fresh id that   *)
(* does not cross the other side (a crossing order trades first), a       *)
(* MODIFY lowering a resting qty or a CANCEL (a fill, or a cancel), a      *)
(* TRADE.  OMEOrderBook's MarketDataReplay checks the engine's stream is   *)
(* of this shape.                                                         *)
Crosses(s, p) == \E o \in DOMAIN ex : ex[o].side = -s /\ ~LessAggressive(-s, p, ex[o].price)

Emit(u, book) ==
    /\ pending = <<>> /\ ~aborted /\ n_updates < MaxUpdates
    /\ pending' = <<u>> /\ ex' = book /\ n_updates' = n_updates + 1
    /\ UNCHANGED <<replica, recovered>>

ExAdd(s, p, q) ==
    /\ next_oid <= MaxOid /\ ~Crosses(s, p)
    /\ Emit(Upd("ADD", next_oid, s, p, q),
            ex @@ (next_oid :> [side |-> s, price |-> p, qty |-> q]))
    /\ next_oid' = next_oid + 1

ExModify(o, q) ==
    /\ q < ex[o].qty
    /\ Emit(Upd("MODIFY", o, ex[o].side, ex[o].price, q), [ex EXCEPT ![o].qty = q])
    /\ UNCHANGED next_oid

ExCancel(o) ==
    /\ Emit(Upd("CANCEL", o, ex[o].side, ex[o].price, ex[o].qty),
            [x \in DOMAIN ex \ {o} |-> ex[x]])
    /\ UNCHANGED next_oid

ExTrade(o) ==
    /\ Emit(Upd("TRADE", o, -ex[o].side, ex[o].price, ex[o].qty), ex)
    /\ UNCHANGED next_oid

(* A gap recovery as the consumer forwards it: the snapshot's CLEAR, then *)
(* an ADD per order of the book in order id order.                        *)
Recover ==
    /\ Recovery /\ pending = <<>> /\ ~aborted /\ n_updates < MaxUpdates
    /\ LET ids == SetToSortSeq(DOMAIN ex, <)
       IN pending' = <<Upd("CLEAR", 0, 0, INVALID, INVALID)>> \o
                     [k \in 1 .. Len(ids) |->
                        Upd("ADD", ids[k], ex[ids[k]].side, ex[ids[k]].price, ex[ids[k]].qty)]
    /\ n_updates' = n_updates + 1
    /\ recovered' = TRUE
    /\ UNCHANGED <<ex, next_oid>> /\ UNCHANGED replica

\* TradingEngine::on_market_update -> TEOrderBook::on_market_update
OnMarketUpdate ==
    /\ ~aborted /\ pending # <<>>
    /\ SetBook(on_market_update(Book, Head(pending)))
    /\ pending' = Tail(pending)
    /\ UNCHANGED <<ex, next_oid, n_updates, recovered>>

Init ==
    /\ ex = <<>> /\ next_oid = 1 /\ n_updates = 0 /\ pending = <<>>
    /\ recovered = FALSE
    /\ lvl = [x \in Blocks |-> [side |-> 0, price |-> INVALID, queue |-> <<>>]]
    /\ lvl_free = [x \in Blocks |-> TRUE]
    /\ lvl_next = 0
    /\ aborted = FALSE
    /\ map_price_to_price_level = [i \in Slots |-> NoBlock]
    /\ levels_by_side = [s \in Sides |-> <<>>]
    /\ ords = [o \in Oids |-> [side |-> 0, price |-> INVALID, qty |-> INVALID]]
    /\ id_to_order = {}
    /\ bbo = [bid |-> INVALID, ask |-> INVALID, bid_qty |-> INVALID, ask_qty |-> INVALID]

Next ==
    \/ \E s \in Sides, p \in Prices, q \in Qtys : ExAdd(s, p, q)
    \/ \E o \in DOMAIN ex, q \in Qtys : ExModify(o, q)
    \/ \E o \in DOMAIN ex : ExCancel(o) \/ ExTrade(o)
    \/ Recover
    \/ OnMarketUpdate

Spec == Init /\ [][Next]_vars
-----------------------------------------------------------------------------
PriceOrInvalid == Prices \cup {INVALID}
QtyOrInvalid == (0 .. MaxOid * 2 * 2) \cup {INVALID}

TypeOK ==
    /\ lvl \in [Blocks -> [side : Sides \cup {0}, price : PriceOrInvalid, queue : Seq(Oids)]]
    /\ lvl_free \in [Blocks -> BOOLEAN] /\ lvl_next \in Blocks
    /\ map_price_to_price_level \in [Slots -> Blocks \cup {NoBlock}]
    /\ levels_by_side \in [Sides -> Seq(Blocks)]
    /\ id_to_order \subseteq Oids
    /\ bbo \in [bid : PriceOrInvalid, ask : PriceOrInvalid,
                bid_qty : QtyOrInvalid, ask_qty : QtyOrInvalid]

\* (oid, side, price) of every order reachable from bids_by_price / asks_by_price
Placed == UNION {{<<o, lvl[blk].side, lvl[blk].price>> : o \in Range(lvl[blk].queue)} :
                    blk \in UNION {Range(levels_by_side[s]) : s \in Sides}}

(* Section 4.9 and P6 of the spec, about on_market_update, add_order,     *)
(* remove_order and clear_entire_book: whenever the replica has applied   *)
(* every update it was given, the orders reachable from its two sides are *)
(* exactly the exchange's resting orders, at their sides and prices, with *)
(* their quantities, and id_to_order holds exactly their ids.             *)
ReplicaMatches ==
    (pending = <<>> /\ ~aborted) =>
        /\ Placed = {<<o, ex[o].side, ex[o].price>> : o \in DOMAIN ex}
        /\ id_to_order = DOMAIN ex
        /\ \A o \in DOMAIN ex : ords[o].qty = ex[o].qty

(* ReplicaMatches over the live stream, about add_order, remove_order and *)
(* the MODIFY branch of on_market_update: until a snapshot recovery is    *)
(* forwarded, the replica is the exchange's book.                         *)
LiveReplicaMatches == ~recovered => ReplicaMatches

(* About add_order, remove_order, remove_price_level and the level pool  *)
(* (orders_at_price_pool): on the live stream the blocks in use are       *)
(* exactly the levels linked into bids_by_price and asks_by_price, every  *)
(* linked level is the one its price's slot of map_price_to_price_level   *)
(* points at, and no slot points anywhere else.  A level unlinked but not *)
(* freed leaks one of MAX_PRICE_LEVELS blocks; one freed but still mapped *)
(* takes the next ADD at its price.                                       *)
LevelPoolConsistent ==
    (~aborted /\ ~recovered) =>
        LET linked == UNION {Range(levels_by_side[s]) : s \in Sides}
        IN /\ {blk \in Blocks : ~lvl_free[blk]} = linked
           /\ \A blk \in linked : map_price_to_price_level[price_to_index(lvl[blk].price)] = blk
           /\ \A i \in Slots : map_price_to_price_level[i] \in linked \cup {NoBlock}

(* Section 4.9 of the spec, about update_bbo and the flags on_market_update *)
(* computes before applying an update: on the live stream, a side of the  *)
(* BBO that is valid shows the price of that side's best level and the    *)
(* sum of its orders (a CLEAR sets neither flag, see README).             *)
BBOSoundWhenValid ==
    (~aborted /\ ~recovered) => \A s \in Sides :
        BboOf(bbo, s).price # INVALID => BboOf(bbo, s) = SideBBO(Book, s)

(* Section 4.9 of the spec, about update_bbo: after every update the BBO  *)
(* is the best level's price and total qty of each side, or invalid for   *)
(* an empty side.                                                         *)
BBOCorrect ==
    ~aborted => \A s \in Sides : BboOf(bbo, s) = SideBBO(Book, s)
=============================================================================
