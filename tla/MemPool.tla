------------------------------ MODULE MemPool ------------------------------
(***************************************************************************)
(* LL::MemPool<T> (src/source/llbase/mempool.h): a fixed vector of blocks, *)
(* each free or in use, and a cursor i_next_free that allocate hands out   *)
(* and then advances to the next free block.  The pool is owned by one     *)
(* thread, so allocate and deallocate are atomic steps.  A failed ASSERT   *)
(* exits the process (llbase/macros.h): it is modelled by aborted, after   *)
(* which nothing happens.                                                  *)
(*                                                                         *)
(* The owner allocates while more than Reserve blocks are free and frees   *)
(* only blocks it holds, as the order book does with its orders and price  *)
(* levels.                                                                 *)
(***************************************************************************)
EXTENDS Integers, FiniteSets

CONSTANTS
    N_BLOCKS,   \* n_blocks given to the constructor
    Reserve     \* the owner allocates only while more than Reserve blocks are free

ASSUME N_BLOCKS \in Nat \ {0} /\ Reserve \in Nat

Blocks == 0 .. N_BLOCKS - 1

VARIABLES
    is_free,        \* Block::is_free of every block
    i_next_free,    \* the cursor
    aborted         \* an ASSERT has failed and the process has exited

vars == <<is_free, i_next_free, aborted>>

FreeBlocks == {i \in Blocks : is_free[i]}

(* update_next_free_index after block `start` was taken: walk forward     *)
(* from start, wrapping at the end, to the first free block; coming back  *)
(* to start fails the "memory pool overrun" ASSERT.  Returns the new      *)
(* cursor, or -1 for the failed ASSERT.                                   *)
RECURSIVE Scan(_, _, _)
Scan(free, start, i) ==
    IF free[i] THEN i
    ELSE LET j == (i + 1) % N_BLOCKS
         IN IF j = start THEN -1 ELSE Scan(free, start, j)

\* Mutant of update_next_free_index: advance by one without looking.
update_next_free_index_blind(free, start) == (start + 1) % N_BLOCKS

\* Mutant of update_next_free_index: step past the end without wrapping.
update_next_free_index_nowrap(free, start) == start + 1

update_next_free_index(free, start) ==
    LET j == (start + 1) % N_BLOCKS
    IN IF j = start THEN -1 ELSE Scan(free, start, j)

(* allocate: take the block at the cursor (ASSERT it is free), mark it in *)
(* use and advance the cursor.                                            *)
allocate ==
    /\ ~aborted
    /\ Cardinality(FreeBlocks) > Reserve
    /\ IF ~is_free[i_next_free]
       THEN aborted' = TRUE /\ UNCHANGED <<is_free, i_next_free>>
       ELSE LET free == [is_free EXCEPT ![i_next_free] = FALSE]
                nxt  == update_next_free_index(free, i_next_free)
            IN /\ is_free' = free
               /\ IF nxt = -1 THEN aborted' = TRUE /\ UNCHANGED i_next_free
                              ELSE i_next_free' = nxt /\ UNCHANGED aborted

(* deallocate: mark a block the owner holds free again; the cursor stays. *)
deallocate(i) ==
    /\ ~aborted
    /\ ~is_free[i]
    /\ is_free' = [is_free EXCEPT ![i] = TRUE]
    /\ UNCHANGED <<i_next_free, aborted>>

Init ==
    /\ is_free = [i \in Blocks |-> TRUE]
    /\ i_next_free = 0
    /\ aborted = FALSE

Next == allocate \/ \E i \in Blocks : deallocate(i)

Spec == Init /\ [][Next]_vars

-----------------------------------------------------------------------------
TypeOK ==
    /\ is_free \in [Blocks -> BOOLEAN]
    /\ i_next_free \in Blocks
    /\ aborted \in BOOLEAN

(* Section 4.2 of the spec, about allocate and update_next_free_index:    *)
(* over any sequence of allocations and frees in which the owner never    *)
(* asks for more blocks than the pool has free, no ASSERT of the pool     *)
(* fails, i.e. the cursor always lands on a free block.                   *)
NoAbort == ~aborted
=============================================================================
