------------------------- MODULE ExchangeLifecycle -------------------------
(***************************************************************************)
(* Start-up and shut-down of the exchange (src/source/traderco/exchange/):  *)
(* ExchangeServer::start starts the matching engine (OME), the order       *)
(* gateway (OGS) and the market data publisher (MDP), which starts its     *)
(* snapshot synthesizer (SS), then its own sleeping thread (ES).  The      *)
(* owner later destroys the ExchangeServer: ~ExchangeServer calls stop(),  *)
(* then C++ destroys the members in reverse declaration order, each       *)
(* component's destructor stopping and joining its thread.                 *)
(*                                                                         *)
(* The main thread runs the sequence of steps Program; every worker runs   *)
(* "while (is_running) { ... }".  A loop iteration is one step that reads  *)
(* or writes the queues it uses; queue contents are abstracted away.  The  *)
(* variable uaf records every access of a thread to a queue whose         *)
(* lifetime has ended.                                                     *)
(*                                                                         *)
(* The server's own LL::Logger is a member too: its constructor starts a   *)
(* thread (LOG) that flushes the logger's queue, the ES thread logs on     *)
(* every iteration, and ~Logger waits until the queue is empty before it   *)
(* stops and joins that thread.  The components' loggers are members of   *)
(* the components, destroyed after their threads are joined, and left     *)
(* out.                                                                    *)
(***************************************************************************)
EXTENDS Naturals, Sequences

Threads == {"ome", "ogs", "mdp", "ss", "es", "log"}
Queues  == {"client_requests", "client_responses", "market_updates",
            "snapshot_updates", "log_queue"}

LogMax == 2     \* bound: log elements waiting in the logger's queue

VARIABLES
    pc,         \* the main thread's position in Program
    th,         \* per thread: "none", "created" (before run()), "loop", "exited"
    running,    \* per thread: its is_running flag
    freed,      \* queues whose destructor has run
    uaf,        \* <<thread, queue>> accesses to a destroyed queue
    logq        \* elements in the server logger's queue, not yet flushed

vars == <<pc, th, running, freed, uaf, logq>>

-----------------------------------------------------------------------------
(* One step of the main thread.  Main's own logf calls are left out.      *)
Set(t)   == [op |-> "set", x |-> t]      \* is_running = true
Clear(t) == [op |-> "clear", x |-> t]    \* is_running = false
Spawn(t) == [op |-> "spawn", x |-> t]    \* LL::create_and_start_thread
Join(t)  == [op |-> "join", x |-> t]     \* if (thread->joinable()) join()
Free(q)  == [op |-> "free", x |-> q]     \* the queue's destructor
Drain(q) == [op |-> "drain", x |-> q]    \* while (queue.size()) sleep

(* X::stop() of OME, OGS, SS and ExchangeServer: clear the flag, join.    *)
StopOf(t) == <<Clear(t), Join(t)>>
OmeStop == StopOf("ome")
OgsStop == StopOf("ogs")
SsStop  == StopOf("ss")
EsStop  == StopOf("es")
(* MarketDataPublisher::stop: its own thread, then synthesizer->stop().   *)
MdpStop == StopOf("mdp") \o SsStop

(* OME::start spawns the thread without setting is_running; run() sets it.*)
OmeStart == <<Spawn("ome")>>
OgsStart == <<Set("ogs"), Spawn("ogs")>>
SsStart  == <<Set("ss"), Spawn("ss")>>
MdpStart == <<Set("mdp"), Spawn("mdp")>> \o SsStart

(* ExchangeServer::start: OME, OGS, MDP, then is_running and its thread.  *)
EsStart == OmeStart \o OgsStart \o MdpStart \o <<Set("es"), Spawn("es")>>

(* The component destructors: stop(), then the members; ~MDP destroys its *)
(* synthesizer (whose destructor calls stop() again) and then the queue   *)
(* tx_snapshot_updates.                                                   *)
OgsDtor == OgsStop
MdpDtor == MdpStop \o SsStop \o <<Free("snapshot_updates")>>
OmeDtor == OmeStop

(* Logger::Logger (is_running starts TRUE) and ~Logger: wait for the      *)
(* queue to drain, stop and join the thread, then the queue member.       *)
LoggerCtor == <<Set("log"), Spawn("log")>>
LoggerDtor == <<Drain("log_queue")>> \o StopOf("log") \o <<Free("log_queue")>>

(* ~ExchangeServer: stop(), then the members in reverse declaration      *)
(* order: market_updates, client_responses, client_requests, logger, ogs, *)
(* mdp, ome.                                                               *)
EsDtor ==
    EsStop \o <<Free("market_updates"), Free("client_responses"),
                Free("client_requests")>>
           \o LoggerDtor \o OgsDtor \o MdpDtor \o OmeDtor

(* The owner (test_exchange_server): construct the server (its logger),  *)
(* start(), then destroy it.                                               *)
Program == LoggerCtor \o EsStart \o EsDtor

(* The main thread executes its next step; a join waits for the thread.   *)
Main ==
    /\ pc <= Len(Program)
    /\ pc' = pc + 1
    /\ LET s == Program[pc] IN
         \/ /\ s.op \in {"set", "clear"}
            /\ running' = [running EXCEPT ![s.x] = (s.op = "set")]
            /\ UNCHANGED <<th, freed>>
         \/ /\ s.op = "spawn"
            /\ th' = [th EXCEPT ![s.x] = "created"]
            /\ UNCHANGED <<running, freed>>
         \/ /\ s.op = "join"
            /\ th[s.x] \in {"none", "exited"}
            /\ UNCHANGED <<th, running, freed>>
         \/ /\ s.op = "free"
            /\ freed' = freed \cup {s.x}
            /\ UNCHANGED <<th, running>>
         \/ /\ s.op = "drain"
            /\ logq = 0
            /\ UNCHANGED <<th, running, freed>>
    /\ UNCHANGED <<uaf, logq>>

-----------------------------------------------------------------------------
(* The thread body calls run().                                            *)
Enter(t) ==
    /\ th[t] = "created"
    /\ th' = [th EXCEPT ![t] = "loop"]
    /\ UNCHANGED <<pc, running, freed, uaf, logq>>

(* One iteration of "while (is_running)" that uses the queues touched;    *)
(* the caller says what it does to the logger's queue.                    *)
Iter(t, touched) ==
    /\ th[t] = "loop"
    /\ running[t]
    /\ uaf' = uaf \cup {<<t, q>> : q \in touched \cap freed}
    /\ UNCHANGED <<pc, th, running, freed>>

(* The loop sees is_running false and run() returns.                      *)
Exit(t) ==
    /\ th[t] = "loop"
    /\ ~running[t]
    /\ th' = [th EXCEPT ![t] = "exited"]
    /\ UNCHANGED <<pc, running, freed, uaf, logq>>

(* OrderMatchingEngine::send_client_response and send_market_update,     *)
(* through which the book emits: the queue each one writes.              *)
send_client_response == {"client_responses"}
send_market_update == {"market_updates"}

(* OrderMatchingEngine::run: sets is_running itself, then reads requests; *)
(* a request goes to the book, which sends responses and market updates.  *)
OmeRun ==
    \/ /\ th["ome"] = "created"
       /\ th' = [th EXCEPT !["ome"] = "loop"]
       /\ running' = [running EXCEPT !["ome"] = TRUE]
       /\ UNCHANGED <<pc, freed, uaf, logq>>
    \/ \E req \in BOOLEAN :
          Iter("ome", {"client_requests"} \cup
                      (IF req THEN send_client_response \cup send_market_update
                              ELSE {}))
          /\ UNCHANGED logq
    \/ Exit("ome")

(* OrderGatewayServer::run: poll and tx_and_rx, whose FIFO sequencer     *)
(* publishes client requests when it has any, then the responses loop.   *)
OgsRun ==
    \/ Enter("ogs")
    \/ \E pub \in BOOLEAN :
          Iter("ogs", {"client_responses"} \cup
                      (IF pub THEN {"client_requests"} ELSE {}))
          /\ UNCHANGED logq
    \/ Exit("ogs")

(* MarketDataPublisher::run: every update read is also written to        *)
(* tx_snapshot_updates.                                                    *)
MdpRun ==
    \/ Enter("mdp")
    \/ \E upd \in BOOLEAN :
          Iter("mdp", {"market_updates"} \cup
                      (IF upd THEN {"snapshot_updates"} ELSE {}))
          /\ UNCHANGED logq
    \/ Exit("mdp")

(* SnapshotSynthesizer::run reads tx_updates.                             *)
SsRun == Enter("ss") \/ (Iter("ss", {"snapshot_updates"}) /\ UNCHANGED logq) \/ Exit("ss")

(* Logger::logf: push_element appends to the logger's queue (a message   *)
(* is one element here).                                                  *)
logf == logq < LogMax /\ logq' = logq + 1

(* ExchangeServer::run logs, then sleeps.                                 *)
EsRun == Enter("es") \/ (Iter("es", {"log_queue"}) /\ logf) \/ Exit("es")

(* Logger::process_queue: write every queued element to the file.         *)
LogRun == Enter("log") \/ (Iter("log", {"log_queue"}) /\ logq' = 0) \/ Exit("log")

-----------------------------------------------------------------------------
Init ==
    /\ pc = 1
    /\ th = [t \in Threads |-> "none"]
    /\ running = [t \in Threads |-> FALSE]
    /\ freed = {}
    /\ uaf = {}
    /\ logq = 0

Next == Main \/ OmeRun \/ OgsRun \/ MdpRun \/ SsRun \/ EsRun \/ LogRun

Spec == Init /\ [][Next]_vars

-----------------------------------------------------------------------------
(* Spec section 5 (a graceful shutdown stops each thread, producers      *)
(* first, and the consumer drains its ring) and section 9 (dependent      *)
(* queues are drained before they are torn down), about ~ExchangeServer   *)
(* and the member destruction order: no worker thread reads or writes a   *)
(* queue after the queue has been destroyed.                              *)
NoUseAfterDestroy == uaf = {}

=============================================================================
