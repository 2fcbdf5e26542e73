------------------------------ MODULE LFQueue ------------------------------
(***************************************************************************)
(* LL::LFQueue<T> (src/source/llbase/lfqueue.h), the single-producer       *)
(* single-consumer ring between the matching engine and the market data    *)
(* publisher (MarketUpdateQueue), with the two threads that use it:        *)
(*   - the writer, OrderMatchingEngine::send_market_update: take the slot  *)
(*     at i_write, store the update in it, increment_write_index;          *)
(*   - the reader, MarketDataPublisher::run: get_next_to_read, load the    *)
(*     update into the incremental socket, increment_read_index, then copy *)
(*     the update from the same slot into the synthesizer's ring.          *)
(* Each step is one atomic access of the code: n_blocks is a std::atomic,  *)
(* i_write and i_read are each touched by one thread only, a slot is a     *)
(* plain object written and read in place.  The k-th update written is k.  *)
(***************************************************************************)
EXTENDS Integers, Sequences

CONSTANTS
    N_BLOCKS,       \* ring size (Limits::MAX_MARKET_UPDATES)
    MaxWrites,      \* bound: updates the writer produces
    WriterOutpaces  \* whether the writer may write while the ring is full

ASSUME N_BLOCKS \in Nat \ {0} /\ MaxWrites \in Nat /\ WriterOutpaces \in BOOLEAN

Slots == 0 .. N_BLOCKS - 1

VARIABLES
    blocks,     \* the ring's slots; 0 is a default-constructed T
    i_write,    \* writer's index
    i_read,     \* reader's index
    n_blocks,   \* atomic count of unread elements
    written,    \* updates the writer has completed
    wpc,        \* writer's next step
    rpc,        \* reader's next step
    u,          \* reader's pointer: the slot get_next_to_read returned
    sent,       \* what the publisher loaded into the incremental socket
    copied,     \* what the publisher copied into the synthesizer's ring
    aborted     \* the ASSERT of increment_read_index failed

vars == <<blocks, i_write, i_read, n_blocks, written, wpc, rpc, u, sent,
          copied, aborted>>

-----------------------------------------------------------------------------
(* Writer: *get_next_to_write() = update.  The engine does not look at    *)
(* size(); it stays behind the reader only if WriterOutpaces is FALSE.    *)
get_next_to_write ==
    /\ wpc = "write"
    /\ written < MaxWrites
    /\ WriterOutpaces \/ n_blocks < N_BLOCKS
    /\ blocks' = [blocks EXCEPT ![i_write] = written + 1]
    /\ wpc' = "inc"
    /\ UNCHANGED <<i_write, i_read, n_blocks, written, rpc, u, sent, copied, aborted>>

increment_write_index ==
    /\ wpc = "inc"
    /\ i_write' = (i_write + 1) % N_BLOCKS
    /\ n_blocks' = n_blocks + 1
    /\ written' = written + 1
    /\ wpc' = "write"
    /\ UNCHANGED <<blocks, i_read, rpc, u, sent, copied, aborted>>

-----------------------------------------------------------------------------
(* Reader: the drain loop of MarketDataPublisher::run.                    *)

\* get_next_to_read: the slot at i_read, or nullptr while size() is 0
get_next_to_read ==
    /\ rpc = "get"
    /\ n_blocks > 0
    /\ u' = i_read
    /\ rpc' = "load"
    /\ UNCHANGED <<blocks, i_write, i_read, n_blocks, written, wpc, sent, copied, aborted>>

\* socket_incremental.load_tx(u, ...): the update goes on the wire
load_tx ==
    /\ rpc = "load"
    /\ sent' = Append(sent, blocks[u])
    /\ rpc' = "release"
    /\ UNCHANGED <<blocks, i_write, i_read, n_blocks, written, wpc, u, copied, aborted>>

\* increment_read_index: advance i_read, ASSERT n_blocks != 0, decrement
increment_read_index ==
    /\ rpc = "release"
    /\ ~aborted
    /\ i_read' = (i_read + 1) % N_BLOCKS
    /\ IF n_blocks = 0
       THEN aborted' = TRUE /\ UNCHANGED <<n_blocks, rpc>>
       ELSE n_blocks' = n_blocks - 1 /\ rpc' = "copy" /\ UNCHANGED aborted
    /\ UNCHANGED <<blocks, i_write, written, wpc, u, sent, copied>>

\* write_next->ome_update = *u: the copy for the synthesizer, after release
copy_to_snapshot_ring ==
    /\ rpc = "copy"
    /\ copied' = Append(copied, blocks[u])
    /\ rpc' = "get"
    /\ UNCHANGED <<blocks, i_write, i_read, n_blocks, written, wpc, u, sent, aborted>>

-----------------------------------------------------------------------------
Init ==
    /\ blocks = [i \in Slots |-> 0]
    /\ i_write = 0
    /\ i_read = 0
    /\ n_blocks = 0
    /\ written = 0
    /\ wpc = "write"
    /\ rpc = "get"
    /\ u = 0
    /\ sent = <<>>
    /\ copied = <<>>
    /\ aborted = FALSE

Writer == get_next_to_write \/ increment_write_index
Reader == get_next_to_read \/ load_tx \/ increment_read_index \/ copy_to_snapshot_ring

Next == ~aborted /\ (Writer \/ Reader)

Spec == Init /\ [][Next]_vars

-----------------------------------------------------------------------------
TypeOK ==
    /\ blocks \in [Slots -> 0 .. MaxWrites]
    /\ i_write \in Slots /\ i_read \in Slots /\ u \in Slots
    /\ n_blocks \in 0 .. MaxWrites
    /\ written \in 0 .. MaxWrites
    /\ wpc \in {"write", "inc"}
    /\ rpc \in {"get", "load", "release", "copy"}

(* P3 of the spec on the publisher's side, about get_next_to_write and    *)
(* get_next_to_read: the publisher puts on the wire the engine's updates  *)
(* 1, 2, 3, ... in order, each exactly once.                              *)
IncrementalInOrder ==
    \A k \in 1 .. Len(sent) : sent[k] = k

(* Section 4.7 of the spec, about MarketDataPublisher::run: the           *)
(* synthesizer receives the same update the publisher sent on the wire    *)
(* under the same sequence number.                                        *)
SnapshotFeedMatches ==
    \A k \in 1 .. Len(copied) : copied[k] = sent[k]
=============================================================================
