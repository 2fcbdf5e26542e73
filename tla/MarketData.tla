----------------------------- MODULE MarketData -----------------------------
(***************************************************************************)
(* The market-data path from the matching engine to a client:              *)
(*   - MarketDataPublisher::run (exchange/data/market_data_publisher.cpp)  *)
(*     numbers each update of the engine 1, 2, ..., multicasts it on the   *)
(*     incremental group and forwards it to the synthesizer;               *)
(*   - SnapshotSynthesizer (exchange/data/snapshot_synthesizer.cpp) keeps  *)
(*     the last state of every order and periodically multicasts a        *)
(*     snapshot START, CLEAR, ADD..., END with snapshot-local numbers;     *)
(*   - MarketDataConsumer (client/data/market_data_consumer.cpp) forwards  *)
(*     incrementals in sequence and, on a gap, recovers from a snapshot    *)
(*     spliced with the buffered incrementals.                             *)
(* Each thread's loop iteration is one step.  McastSocket sends what its  *)
(* tx buffer holds as one datagram, so a group is a FIFO of datagrams,     *)
(* each a sequence of messages.  Multicast is lossy and ordered per        *)
(* writer (spec section 9): the head datagram of a group may be lost, at   *)
(* most MaxIncLoss and MaxSnapLoss times (losses are finite), and an       *)
(* incremental datagram may be delivered twice, at most MaxIncDup          *)
(* times.  The snapshot group reaches the consumer only while it is      *)
(* joined, i.e. while it is recovering.                                    *)
(*                                                                         *)
(* Updates carry the fields the book state depends on: type, order id and *)
(* qty.  Side, price and priority are copied verbatim by every component  *)
(* and are left out; TRADE updates change no book and take no part here.   *)
(***************************************************************************)
EXTENDS Integers, Sequences, SequencesExt, FiniteSets

CONSTANTS
    MaxOid,         \* market order ids 1..MaxOid
    Qtys,           \* order quantities
    MaxUpdates,     \* bound: updates the matching engine emits
    MaxIncLoss,     \* bound: datagrams the incremental group loses
    MaxSnapLoss,    \* bound: datagrams the snapshot group loses
    MaxIncDup       \* bound: incremental datagrams delivered twice

ASSUME /\ MaxOid \in Nat /\ Qtys \subseteq Nat \ {0}
       /\ MaxUpdates \in Nat /\ MaxIncLoss \in Nat /\ MaxSnapLoss \in Nat
       /\ MaxIncDup \in Nat

VARIABLES
    ome_updates,        \* every update the engine has written to its ring
    n_seq_next,         \* publisher: sequence number of the next update
    inc_group,          \* incremental datagrams in flight: <<<<[n_seq, upd], ...>>>>
    ss_orders,          \* synthesizer: order id -> last update (ADD'ed, MODIFY'ed)
    n_seq_last,         \* synthesizer: n_seq of the last update applied
    ss_aborted,         \* synthesizer: an ASSERT of add_to_snapshot failed
    snap_group,         \* snapshot datagrams in flight to the consumer
    faults,             \* faults so far: [inc, snap] lost, [dup] duplicated
    n_seq_inc_next,     \* consumer: next expected incremental n_seq
    is_in_recovery,     \* consumer: recovering from a gap
    queued_snapshot_updates,     \* consumer: snapshot n_seq -> update
    queued_incremental_updates,  \* consumer: incremental n_seq -> update
    tx_updates          \* consumer: every update forwarded to the trading engine

ome_vars == <<ome_updates>>
mdp_vars == <<n_seq_next, inc_group>>
ss_vars  == <<ss_orders, n_seq_last, ss_aborted>>
mdc_vars == <<n_seq_inc_next, is_in_recovery, queued_snapshot_updates,
              queued_incremental_updates, tx_updates>>
vars == <<ome_vars, mdp_vars, ss_vars, snap_group, faults, mdc_vars>>

Oids == 1 .. MaxOid
Upd(type, oid, qty) == [type |-> type, oid |-> oid, qty |-> qty]
EmptyMap == <<>>
DeleteKey(f, k) == [x \in DOMAIN f \ {k} |-> f[x]]

(* The effect of one update on a book of order id -> qty, as the replica  *)
(* book applies it (TEOrderBook::on_market_update): CLEAR empties the     *)
(* book, the SNAPSHOT_ sentinels change nothing.                          *)
ApplyUpdate(bk, u) ==
    CASE u.type = "ADD"    -> bk @@ (u.oid :> u.qty)
      [] u.type = "MODIFY" -> [bk EXCEPT ![u.oid] = u.qty]
      [] u.type = "CANCEL" -> DeleteKey(bk, u.oid)
      [] u.type = "CLEAR"  -> EmptyMap
      [] OTHER             -> bk

\* The engine's book after its first k updates.
BookAt(k) == FoldLeft(ApplyUpdate, EmptyMap, SubSeq(ome_updates, 1, k))
ExchangeBook == BookAt(Len(ome_updates))

-----------------------------------------------------------------------------
(* The matching engine, as the producer of the update stream: an ADD of a *)
(* fresh market order id (add), a MODIFY lowering a resting order's qty    *)
(* (a partial fill in match), a CANCEL of a resting order (a full fill in  *)
(* match, or cancel).  OMEOrderBook checks that the engine's updates are   *)
(* exactly such a stream (MarketDataReplay).                               *)
OmeEmit ==
    /\ Len(ome_updates) < MaxUpdates
    /\ LET bk == ExchangeBook
           nextOid == Cardinality({k \in 1 .. Len(ome_updates) :
                                     ome_updates[k].type = "ADD"}) + 1
       IN \/ /\ nextOid <= MaxOid
             /\ \E q \in Qtys : ome_updates' = Append(ome_updates, Upd("ADD", nextOid, q))
          \/ \E o \in DOMAIN bk :
               \/ \E q \in Qtys : q < bk[o] /\
                     ome_updates' = Append(ome_updates, Upd("MODIFY", o, q))
               \/ ome_updates' = Append(ome_updates, Upd("CANCEL", o, 0))
    /\ UNCHANGED <<mdp_vars, ss_vars, snap_group, faults, mdc_vars>>

(* MarketDataPublisher::run, one iteration of its while loop: the drain   *)
(* loop numbers each update the ring holds, loads it into the socket's    *)
(* tx buffer, releases the slot and copies it to the synthesizer's ring;  *)
(* then tx_and_rx sends the buffer as one datagram.  The loop stops when  *)
(* the ring is empty: updates the engine writes later (last) go in a      *)
(* later datagram.  The synthesizer's ring is the published prefix of     *)
(* ome_updates: its reader consumes it in order.                          *)
MdpPublish ==
    /\ n_seq_next <= Len(ome_updates)
    /\ \E last \in n_seq_next .. Len(ome_updates) :
          /\ inc_group' = Append(inc_group,
                               [k \in 1 .. last - n_seq_next + 1 |->
                                  [n_seq |-> n_seq_next + k - 1,
                                   upd |-> ome_updates[n_seq_next + k - 1]]])
          /\ n_seq_next' = last + 1
    /\ UNCHANGED <<ome_vars, ss_vars, snap_group, faults, mdc_vars>>

-----------------------------------------------------------------------------
(* SnapshotSynthesizer::add_to_snapshot for the next update of its ring.  *)
(* A failed ASSERT (ADD of a present order, MODIFY or CANCEL of an absent *)
(* one, a sequence number that does not follow n_seq_last) exits.         *)
add_to_snapshot(n, u) ==
    LET ok == /\ u.type = "ADD"    => u.oid \notin DOMAIN ss_orders
              /\ u.type \in {"MODIFY", "CANCEL"} => u.oid \in DOMAIN ss_orders
              /\ n = n_seq_last + 1
    IN IF ~ok
       THEN ss_aborted' = TRUE /\ UNCHANGED <<ss_orders, n_seq_last>>
       ELSE /\ ss_orders' = ApplyUpdate(ss_orders, u)
            /\ n_seq_last' = n
            /\ UNCHANGED ss_aborted

\* Mutant of SsApply: the reader does not wait for the publisher's write.
SsApply_ahead ==
    /\ ~ss_aborted
    /\ n_seq_last < Len(ome_updates)
    /\ add_to_snapshot(n_seq_last + 1, ome_updates[n_seq_last + 1])
    /\ UNCHANGED <<ome_vars, mdp_vars, snap_group, faults, mdc_vars>>

SsApply ==
    /\ ~ss_aborted
    /\ n_seq_last + 1 < n_seq_next
    /\ add_to_snapshot(n_seq_last + 1, ome_updates[n_seq_last + 1])
    /\ UNCHANGED <<ome_vars, mdp_vars, snap_group, faults, mdc_vars>>

(* SnapshotSynthesizer::publish_snapshot: START and END carry n_seq_last, *)
(* one CLEAR for the ticker, then an ADD per live order in order id order,*)
(* numbered 0, 1, 2, ...                                                   *)

\* Mutant of SnapshotMsgs: the snapshot is numbered from 1.
SnapshotMsgs_from1 ==
    LET body == <<Upd("CLEAR", 0, 0)>> \o
                [k \in 1 .. Cardinality(DOMAIN ss_orders) |->
                   LET o == SetToSortSeq(DOMAIN ss_orders, <)[k]
                   IN Upd("ADD", o, ss_orders[o])]
        msgs == <<Upd("SNAPSHOT_START", n_seq_last, 0)>> \o body
                  \o <<Upd("SNAPSHOT_END", n_seq_last, 0)>>
    IN [k \in 1 .. Len(msgs) |-> [n_seq |-> k, upd |-> msgs[k]]]

SnapshotMsgs ==
    LET body == <<Upd("CLEAR", 0, 0)>> \o
                [k \in 1 .. Cardinality(DOMAIN ss_orders) |->
                   LET o == SetToSortSeq(DOMAIN ss_orders, <)[k]
                   IN Upd("ADD", o, ss_orders[o])]
        msgs == <<Upd("SNAPSHOT_START", n_seq_last, 0)>> \o body
                  \o <<Upd("SNAPSHOT_END", n_seq_last, 0)>>
    IN [k \in 1 .. Len(msgs) |-> [n_seq |-> k - 1, upd |-> msgs[k]]]

(* publish_snapshot calls socket.tx_and_rx() after loading each ADD and   *)
(* after END: START, CLEAR and the first ADD (or END, for an empty book)  *)
(* share the first datagram, and every later message is a datagram of its *)
(* own.                                                                    *)
Datagrams(msgs) ==
    LET ends == <<0>> \o SetToSortSeq({k \in DOMAIN msgs :
                          msgs[k].upd.type \in {"ADD", "SNAPSHOT_END"}}, <)
    IN [i \in 1 .. Len(ends) - 1 |-> SubSeq(msgs, ends[i] + 1, ends[i + 1])]

(* SnapshotSynthesizer::run publishes every SECONDS_BETWEEN_SNAPSHOTS.    *)
(* Only a consumer that has joined the group, i.e. is recovering, receives *)
(* it, and the period is far longer than a publication takes to arrive,   *)
(* so one publication is in flight at a time; a publication nobody has    *)
(* joined for changes no state and is left out.                           *)
publish_snapshot ==
    /\ ~ss_aborted
    /\ is_in_recovery
    /\ snap_group = <<>>
    /\ snap_group' = Datagrams(SnapshotMsgs)
    /\ UNCHANGED <<ome_vars, mdp_vars, ss_vars, faults, mdc_vars>>
-----------------------------------------------------------------------------
(* MarketDataConsumer.  Its handlers work on a record of its state.       *)
Mdc == [next |-> n_seq_inc_next, rec |-> is_in_recovery,
        qsnap |-> queued_snapshot_updates, qinc |-> queued_incremental_updates,
        fwd |-> tx_updates]

\* one past the end of the run of consecutive keys of S starting at n
RECURSIVE ContiguousEnd(_, _)
ContiguousEnd(S, n) == IF n \in S THEN ContiguousEnd(S, n + 1) ELSE n

IsSentinel(u) == u.type \in {"SNAPSHOT_START", "SNAPSHOT_END"}

\* Mutant of snapshot_sync_check: the snapshot keys are not checked to be dense.
snapshot_sync_check_nodense(c) ==
    IF c.qsnap = EmptyMap THEN c
    ELSE
    LET keys == DOMAIN c.qsnap
        last == Max(keys)
    IN IF c.qsnap[Min(keys)].type # "SNAPSHOT_START" THEN [c EXCEPT !.qsnap = EmptyMap]
       ELSE IF c.qsnap[last].type # "SNAPSHOT_END" THEN c
       ELSE
       LET splice == c.qsnap[last].oid + 1
           end    == ContiguousEnd(DOMAIN c.qinc, splice)
           snap   == SelectSeq([k \in 1 .. Cardinality(keys) |->
                                  c.qsnap[SetToSortSeq(keys, <)[k]]],
                               LAMBDA u : ~IsSentinel(u))
           incs   == [k \in 1 .. end - splice |-> c.qinc[splice + k - 1]]
       IN IF \E k \in DOMAIN c.qinc : k > end
          THEN [c EXCEPT !.next = end, !.qsnap = EmptyMap]
          ELSE [c EXCEPT !.next = end, !.rec = FALSE, !.qsnap = EmptyMap,
                         !.qinc = EmptyMap, !.fwd = @ \o snap \o incs]

\* Mutant of snapshot_sync_check: the splice point is one past END's n_seq + 1.
snapshot_sync_check_skip(c) ==
    IF c.qsnap = EmptyMap THEN c
    ELSE
    LET keys == DOMAIN c.qsnap
        last == Max(keys)
    IN IF c.qsnap[Min(keys)].type # "SNAPSHOT_START" THEN [c EXCEPT !.qsnap = EmptyMap]
       ELSE IF keys # 0 .. last THEN [c EXCEPT !.qsnap = EmptyMap]
       ELSE IF c.qsnap[last].type # "SNAPSHOT_END" THEN c
       ELSE
       LET splice == c.qsnap[last].oid + 2
           end    == ContiguousEnd(DOMAIN c.qinc, splice)
           snap   == SelectSeq([k \in 1 .. last + 1 |-> c.qsnap[k - 1]],
                               LAMBDA u : ~IsSentinel(u))
           incs   == [k \in 1 .. end - splice |-> c.qinc[splice + k - 1]]
       IN IF \E k \in DOMAIN c.qinc : k > end
          THEN [c EXCEPT !.next = end, !.qsnap = EmptyMap]
          ELSE [c EXCEPT !.next = end, !.rec = FALSE, !.qsnap = EmptyMap,
                         !.qinc = EmptyMap, !.fwd = @ \o snap \o incs]

(* snapshot_sync_check: the snapshot buffer must start with START and be  *)
(* dense from 0; once it ends with END, the incrementals from END's       *)
(* sequence + 1 must be dense; then the snapshot body and those           *)
(* incrementals are forwarded and recovery ends.                          *)
snapshot_sync_check(c) ==
    IF c.qsnap = EmptyMap THEN c
    ELSE
    LET keys == DOMAIN c.qsnap
        last == Max(keys)
    IN IF c.qsnap[Min(keys)].type # "SNAPSHOT_START" THEN [c EXCEPT !.qsnap = EmptyMap]
       ELSE IF keys # 0 .. last THEN [c EXCEPT !.qsnap = EmptyMap]
       ELSE IF c.qsnap[last].type # "SNAPSHOT_END" THEN c
       ELSE
       LET splice == c.qsnap[last].oid + 1
           end    == ContiguousEnd(DOMAIN c.qinc, splice)
           snap   == SelectSeq([k \in 1 .. last + 1 |-> c.qsnap[k - 1]],
                               LAMBDA u : ~IsSentinel(u))
           incs   == [k \in 1 .. end - splice |-> c.qinc[splice + k - 1]]
       IN IF \E k \in DOMAIN c.qinc : k > end
          THEN [c EXCEPT !.next = end, !.qsnap = EmptyMap]
          ELSE [c EXCEPT !.next = end, !.rec = FALSE, !.qsnap = EmptyMap,
                         !.qinc = EmptyMap, !.fwd = @ \o snap \o incs]

(* queue_update: file the message under its n_seq; a snapshot n_seq seen  *)
(* before means a new publication, so the snapshot buffer restarts.       *)
queue_update(c, is_snapshot, m) ==
    snapshot_sync_check(
        IF is_snapshot
        THEN [c EXCEPT !.qsnap = (m.n_seq :> m.upd) @@
                                 (IF m.n_seq \in DOMAIN @ THEN EmptyMap ELSE @)]
        ELSE [c EXCEPT !.qinc = (m.n_seq :> m.upd) @@ @])

\* snapshot_sync_start: both buffers are cleared (and the group joined)
snapshot_sync_start(c) == [c EXCEPT !.qsnap = EmptyMap, !.qinc = EmptyMap]

(* rx_callback for one message: an out-of-sequence message starts         *)
(* recovery; in recovery every message is queued; otherwise an            *)
(* incremental is forwarded.                                               *)
rx_callback(c, is_snapshot, m) ==
    LET already == c.rec
        rec     == already \/ m.n_seq # c.next
    IN IF rec
       THEN queue_update(IF already THEN c
                         ELSE snapshot_sync_start([c EXCEPT !.rec = TRUE]),
                         is_snapshot, m)
       ELSE IF ~is_snapshot
            THEN [c EXCEPT !.next = @ + 1, !.fwd = Append(@, m.upd)]
            ELSE c

SetMdc(c) ==
    /\ n_seq_inc_next' = c.next
    /\ is_in_recovery' = c.rec
    /\ queued_snapshot_updates' = c.qsnap
    /\ queued_incremental_updates' = c.qinc
    /\ tx_updates' = c.fwd

(* McastSocket::tx_and_rx receives one datagram and rx_callback runs its  *)
(* loop over every message in it.  Joining the snapshot group opens a     *)
(* fresh socket and leaving it closes the socket, dropping what was still *)
(* in flight: r.left records that the consumer entered or left recovery   *)
(* during the datagram.                                                    *)
rx_datagram(c, is_snapshot, d) ==
    FoldLeft(LAMBDA r, m :
               LET c2 == rx_callback(r.c, is_snapshot, m)
               IN [c |-> c2, left |-> r.left \/ c2.rec # r.c.rec],
             [c |-> c, left |-> FALSE], d)

RxIncremental ==
    /\ inc_group # <<>>
    /\ LET r == rx_datagram(Mdc, FALSE, Head(inc_group)) IN
         /\ SetMdc(r.c)
         /\ inc_group' = Tail(inc_group)
         /\ snap_group' = IF r.left THEN <<>> ELSE snap_group
    /\ UNCHANGED <<ome_vars, n_seq_next, ss_vars, faults>>

RxSnapshot ==
    /\ snap_group # <<>>
    /\ LET r == rx_datagram(Mdc, TRUE, Head(snap_group)) IN
         /\ SetMdc(r.c)
         /\ snap_group' = IF r.left THEN <<>> ELSE Tail(snap_group)
    /\ UNCHANGED <<ome_vars, mdp_vars, ss_vars, faults>>

\* The network loses the next datagram of a group.
LoseIncremental ==
    /\ inc_group # <<>>
    /\ faults.inc < MaxIncLoss
    /\ inc_group' = Tail(inc_group)
    /\ faults' = [faults EXCEPT !.inc = @ + 1]
    /\ UNCHANGED <<ome_vars, n_seq_next, ss_vars, snap_group, mdc_vars>>

\* The network delivers the next incremental datagram twice (a UDP duplicate).
DuplicateIncremental ==
    /\ inc_group # <<>>
    /\ faults.dup < MaxIncDup
    /\ inc_group' = <<Head(inc_group)>> \o inc_group
    /\ faults' = [faults EXCEPT !.dup = @ + 1]
    /\ UNCHANGED <<ome_vars, n_seq_next, ss_vars, snap_group, mdc_vars>>

LoseSnapshot ==
    /\ snap_group # <<>>
    /\ faults.snap < MaxSnapLoss
    /\ snap_group' = Tail(snap_group)
    /\ faults' = [faults EXCEPT !.snap = @ + 1]
    /\ UNCHANGED <<ome_vars, mdp_vars, ss_vars, mdc_vars>>

-----------------------------------------------------------------------------
Init ==
    /\ ome_updates = <<>>
    /\ n_seq_next = 1
    /\ inc_group = <<>>
    /\ ss_orders = EmptyMap
    /\ n_seq_last = 0
    /\ ss_aborted = FALSE
    /\ snap_group = <<>>
    /\ faults = [inc |-> 0, snap |-> 0, dup |-> 0]
    /\ n_seq_inc_next = 1
    /\ is_in_recovery = FALSE
    /\ queued_snapshot_updates = EmptyMap
    /\ queued_incremental_updates = EmptyMap
    /\ tx_updates = <<>>

Next ==
    \/ OmeEmit
    \/ MdpPublish
    \/ SsApply
    \/ publish_snapshot
    \/ RxIncremental
    \/ RxSnapshot
    \/ LoseIncremental
    \/ LoseSnapshot
    \/ DuplicateIncremental

Spec == Init /\ [][Next]_vars

(* The publisher, synthesizer and consumer threads spin in their loops,   *)
(* and the synthesizer's timer fires while it runs; the engine may stop   *)
(* emitting and the network may lose, so neither has fairness.            *)
FairSpec ==
    /\ Spec
    /\ WF_vars(MdpPublish) /\ WF_vars(SsApply) /\ WF_vars(publish_snapshot)
    /\ WF_vars(RxIncremental) /\ WF_vars(RxSnapshot)

-----------------------------------------------------------------------------
UpdateRec == [type : {"ADD", "MODIFY", "CANCEL", "CLEAR", "SNAPSHOT_START",
                      "SNAPSHOT_END"}, oid : Nat, qty : Nat]

TypeOK ==
    /\ ome_updates \in Seq(UpdateRec)
    /\ n_seq_next \in 1 .. Len(ome_updates) + 1
    /\ n_seq_last \in 0 .. n_seq_next - 1
    /\ ss_aborted \in BOOLEAN
    /\ n_seq_inc_next \in Nat \ {0}
    /\ is_in_recovery \in BOOLEAN
    /\ tx_updates \in Seq(UpdateRec)

(* P6 of the spec, about rx_callback and snapshot_sync_check: whenever    *)
(* the consumer is not recovering, replaying everything it forwarded to   *)
(* the trading engine gives exactly the exchange's book after the         *)
(* incrementals it has consumed (n_seq_inc_next - 1 of them).             *)
ReplicaConsistent ==
    ~is_in_recovery =>
        /\ n_seq_inc_next - 1 <= Len(ome_updates)
        /\ FoldLeft(ApplyUpdate, EmptyMap, tx_updates) = BookAt(n_seq_inc_next - 1)

(* The recovery of MarketDataConsumer (rx_callback, queue_update,          *)
(* snapshot_sync_check) against the synthesizer's periodic snapshots:     *)
(* once losses stop, a consumer that has started recovering ends it.      *)
RecoveryEnds == is_in_recovery ~> ~is_in_recovery
=============================================================================
