--------------------------- MODULE PositionManager ---------------------------
(***************************************************************************)
(* The position of one ticker, Client::Position in                         *)
(* src/source/traderco/client/trading/position_manager.h, under the two   *)
(* calls PositionManager forwards to it: add_fill for a FILLED response   *)
(* and on_bbo_update for a new BBO.  Both run on the trading-engine        *)
(* thread, one call per step.                                             *)
(*                                                                         *)
(* The code keeps PnL and the open price-times-qty sums in doubles; they  *)
(* are exact rationals here (a record [n, d] in lowest terms), so the     *)
(* model checks the accounting, not the rounding.  The reference is mark- *)
(* to-market: the cash the fills paid or received, plus the position      *)
(* valued at the last price the code marked it at.                        *)
(***************************************************************************)
EXTENDS Integers

CONSTANTS
    Prices,     \* fill prices and BBO prices
    Qtys,       \* fill quantities (qty_exec)
    MaxEvents,  \* bound: add_fill and on_bbo_update calls
    INVALID     \* Price_INVALID

ASSUME Prices \subseteq Nat \ {0} /\ Qtys \subseteq Nat \ {0} /\ MaxEvents \in Nat

BUY == 1
SELL == -1
Sides == {BUY, SELL}

-----------------------------------------------------------------------------
(* Exact rationals.                                                       *)
Abs(x) == IF x < 0 THEN -x ELSE x

RECURSIVE GCD(_, _)
GCD(a, b) == IF b = 0 THEN a ELSE GCD(b, a % b)

Rat(n, d) ==
    LET g == GCD(Abs(n), Abs(d))
        s == IF d < 0 THEN -1 ELSE 1
    IN [n |-> s * (n \div g), d |-> s * (d \div g)]

RInt(k) == [n |-> k, d |-> 1]
Zero == RInt(0)
RAdd(a, b) == Rat(a.n * b.d + b.n * a.d, a.d * b.d)
RSub(a, b) == Rat(a.n * b.d - b.n * a.d, a.d * b.d)
RMulInt(a, k) == Rat(a.n * k, a.d)
RDivInt(a, k) == Rat(a.n, a.d * k)

-----------------------------------------------------------------------------
VARIABLES
    position,   \* int32_t position
    pnl_real,
    pnl_unreal,
    pnl_total,
    vwap_open,  \* side -> open price * qty sum
    volume,
    n_events,   \* calls so far
    cash,       \* reference: - sum of side * qty * price over the fills
    mark        \* reference: the price the position was last valued at

vars == <<position, pnl_real, pnl_unreal, pnl_total, vwap_open, volume,
          n_events, cash, mark>>

\* unrealized PnL of position pos valued at price px (a rational)
Unreal(pos, vw, px) ==
    IF pos > 0 THEN RMulInt(RSub(px, RDivInt(vw[BUY], Abs(pos))), Abs(pos))
    ELSE RMulInt(RSub(RDivInt(vw[SELL], Abs(pos)), px), Abs(pos))

\* Mutant of OpenSums: the sign-flip branch is missing.
OpenSums_noflip(old, pos, s, p, q) ==
    IF old * s >= 0 THEN [vwap_open EXCEPT ![s] = RAdd(@, RInt(p * q))]
    ELSE [vwap_open EXCEPT ![-s] = RMulInt(RDivInt(@, Abs(old)), Abs(pos))]

(* The open sums after a fill of q at p on side s moves the position from *)
(* old to pos: grow side s when the position opened or increased, else    *)
(* scale the other side's sum to what stays open, and on a sign flip      *)
(* reopen side s at p and empty the other side.                           *)
OpenSums(old, pos, s, p, q) ==
    IF old * s >= 0 THEN [vwap_open EXCEPT ![s] = RAdd(@, RInt(p * q))]
    ELSE LET vw == [vwap_open EXCEPT ![-s] = RMulInt(RDivInt(@, Abs(old)), Abs(pos))]
         IN IF pos * old < 0 THEN [vw EXCEPT ![s] = RInt(p * Abs(pos)), ![-s] = Zero]
            ELSE vw

\* Mutant of Realized: the closed quantity is the whole fill, not min(q, |old|).
Realized_whole_fill(old, s, p, q) ==
    IF old * s >= 0 THEN pnl_real
    ELSE RAdd(pnl_real, RMulInt(RSub(RDivInt(vwap_open[-s], Abs(old)), RInt(p)), q * s))

(* The realized PnL after the fill: closing min(q, |old|) against the     *)
(* other side's average open price.                                       *)
Realized(old, s, p, q) ==
    IF old * s >= 0 THEN pnl_real
    ELSE LET k == IF q < Abs(old) THEN q ELSE Abs(old)
         IN RAdd(pnl_real, RMulInt(RSub(RDivInt(vwap_open[-s], Abs(old)), RInt(p)), k * s))

(* Position::add_fill: move the position, update the open sums and the    *)
(* realized PnL, then empty the sums of a flat position or revalue the    *)
(* position at the fill price.                                            *)
add_fill(s, p, q) ==
    LET pos  == position + q * s
        vw   == OpenSums(position, pos, s, p, q)
        real == Realized(position, s, p, q)
        unr  == IF pos = 0 THEN Zero ELSE Unreal(pos, vw, RInt(p))
    IN /\ position' = pos
       /\ volume' = volume + q
       /\ vwap_open' = IF pos = 0 THEN [x \in Sides |-> Zero] ELSE vw
       /\ pnl_real' = real
       /\ pnl_unreal' = unr
       /\ pnl_total' = RAdd(unr, real)

AddFill(s, p, q) ==
    /\ n_events < MaxEvents
    /\ add_fill(s, p, q)
    /\ n_events' = n_events + 1
    /\ cash' = cash - s * q * p
    /\ mark' = RInt(p)

(* Position::on_bbo_update: with a position and both sides of the BBO    *)
(* valid, revalue at the mid price; otherwise nothing changes.            *)
on_bbo_update(bid, ask) ==
    IF position # 0 /\ bid # INVALID /\ ask # INVALID
    THEN LET mid == Rat(bid + ask, 2)
             unr == Unreal(position, vwap_open, mid)
         IN /\ pnl_unreal' = unr
            /\ pnl_total' = RAdd(unr, pnl_real)
            /\ mark' = mid
    ELSE UNCHANGED <<pnl_unreal, pnl_total, mark>>

OnBboUpdate(bid, ask) ==
    /\ n_events < MaxEvents
    /\ on_bbo_update(bid, ask)
    /\ n_events' = n_events + 1
    /\ UNCHANGED <<position, pnl_real, vwap_open, volume, cash>>

Init ==
    /\ position = 0
    /\ pnl_real = Zero /\ pnl_unreal = Zero /\ pnl_total = Zero
    /\ vwap_open = [x \in Sides |-> Zero]
    /\ volume = 0
    /\ n_events = 0
    /\ cash = 0
    /\ mark = Zero

Next ==
    \/ \E s \in Sides, p \in Prices, q \in Qtys : AddFill(s, p, q)
    \/ \E bid, ask \in Prices \cup {INVALID} : OnBboUpdate(bid, ask)

Spec == Init /\ [][Next]_vars

-----------------------------------------------------------------------------
(* Section 4.10 of the spec, about add_fill and on_bbo_update: the total  *)
(* PnL is always the cash the fills paid or received plus the position    *)
(* valued at the price it was last marked at (the fill price, or the BBO  *)
(* mid); realized and unrealized PnL only split that sum.                 *)
MarkToMarket ==
    pnl_total = RAdd(RInt(cash), RMulInt(mark, position))

(* P4 and section 4.10 of the spec, about the open and flip branches of   *)
(* add_fill: only the side the position is on has an open sum, and it is  *)
(* positive; a flat position has no open sum and no unrealized PnL.       *)
OpenSideConsistent ==
    /\ position > 0 => vwap_open[SELL] = Zero /\ vwap_open[BUY].n > 0
    /\ position < 0 => vwap_open[BUY] = Zero /\ vwap_open[SELL].n > 0
    /\ position = 0 => vwap_open[BUY] = Zero /\ vwap_open[SELL] = Zero
                       /\ pnl_unreal = Zero
=============================================================================
