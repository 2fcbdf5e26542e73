---------------------------- MODULE MC_MarketData ----------------------------
(***************************************************************************)
(* MarketData checked against the abstract MarketFeed.  The refinement    *)
(* mapping needs one history variable: replica_seq, the sequence number   *)
(* the consumer's forwarded stream stands at.  It follows n_seq_inc_next  *)
(* while the consumer is live and keeps its value during a recovery, in   *)
(* which snapshot_sync_check may move n_seq_inc_next without forwarding   *)
(* anything.  It is written alongside every step and read by no action.   *)
(***************************************************************************)
EXTENDS MarketData

VARIABLE replica_seq

hvars == <<vars, replica_seq>>

\* The replica's book: everything forwarded, replayed.
Replica == FoldLeft(ApplyUpdate, EmptyMap, tx_updates)

HInit == Init /\ replica_seq = 0

\* A step of MarketData together with the history variable's update.
H(A) ==
    /\ A
    /\ replica_seq' = IF is_in_recovery' THEN replica_seq ELSE n_seq_inc_next' - 1

HNext == H(Next)

(* The fairness of MarketData's FairSpec.  RxSnapshot's body is total and *)
(* always changes snap_group, so it is enabled exactly when a snapshot    *)
(* datagram is in flight; its weak fairness is written out with that      *)
(* condition ([]<>~ENABLED A \/ []<><<A>>_v), which TLC evaluates without  *)
(* unfolding rx_callback's loop for ENABLED.                              *)
HFairSpec ==
    /\ HInit /\ [][HNext]_hvars
    /\ WF_hvars(H(MdpPublish)) /\ WF_hvars(H(SsApply))
    /\ WF_hvars(H(publish_snapshot)) /\ WF_hvars(H(RxIncremental))
    /\ []<>(snap_group = <<>>) \/ []<><<H(RxSnapshot)>>_hvars

Feed == INSTANCE MarketFeed
            WITH Apply <- ApplyUpdate, Empty <- EmptyMap,
                 updates <- ome_updates, pos <- replica_seq, view <- Replica

(* P3 and P6 of the spec, about the consumer's rx_callback and            *)
(* snapshot_sync_check against the publisher, the synthesizer and lossy   *)
(* multicast: the book the trading engine builds from what it is          *)
(* forwarded is, after every step and also during a recovery, the         *)
(* exchange's book after some prefix of its updates, and that prefix only *)
(* grows: a recovery never takes the replica back to an older book.       *)
MarketFeedRefined == Feed!Spec
=============================================================================
