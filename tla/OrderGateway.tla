---------------------------- MODULE OrderGateway ----------------------------
(***************************************************************************)
(* The order path between the trading clients and the matching engine:     *)
(*   - OrderGatewayClient::run (client/networking/order_gateway_client.cpp)*)
(*     sends what it loaded last iteration (TCPSocket::tx_and_rx), reads  *)
(*     responses, then frames every request of the trading engine as       *)
(*     {n_seq, request};                                                   *)
(*   - OrderGatewayServer::run (exchange/networking/order_gateway_server.h) *)
(*     is one thread looping over TCPServer::poll (accepting connections  *)
(*     and collecting rx_sockets and tx_sockets), TCPServer::tx_and_rx:    *)
(*     the rx_sockets loop, rx_done_callback (FIFOSequencer::              *)
(*     sequence_and_publish), the tx_sockets loop, then the response drain. *)
(*     Each tx_and_rx both reads and sends;                                *)
(*   - the matching engine answers each request in order.                  *)
(* TCP delivers each connection's bytes in order, in arbitrary segments:   *)
(* a message is two pieces (the n_seq header and the body); Arrive moves  *)
(* any prefix of what is in flight into the receiver's kernel buffer, and *)
(* a read (recvmsg) takes the whole kernel buffer.  A piece reaching the   *)
(* exchange is stamped with the time; a read is stamped with its last     *)
(* piece's time (SO_TIMESTAMP).  Client ids are 1..NClients, one           *)
(* connection each.                                                        *)
(***************************************************************************)
EXTENDS Integers, Sequences, SequencesExt, FiniteSets

CONSTANTS
    NClients,   \* trading clients, each on its own connection
    MaxReqs     \* bound: client -> requests its trading engine sends

ASSUME NClients \in Nat \ {0} /\ MaxReqs \in [1 .. NClients -> Nat]

Clients == 1 .. NClients

VARIABLES
    te_n,       \* requests each trading engine has written to its request ring
    ogc_seq,    \* OGC: n_seq_next_request
    ctx,        \* OGC: socket tx buffer
    wire_req,   \* request pieces in flight per connection
    skb_req,    \* the server's kernel rx buffer per connection: <<[p, t]>>
    srx,        \* OGS: socket rx buffer per connection
    rx_n_seq,   \* OGS: map_client_to_rx_n_seq
    pending,    \* FIFOSequencer::pending_requests: <<[t, r]>>
    spc,        \* OGS: next part of the loop
    ome_in,     \* every request the sequencer published to the engine
    n_done,     \* requests of ome_in the engine has answered
    resp_ring,  \* responses the engine wrote for the gateway
    tx_n_seq,   \* OGS: map_client_to_tx_n_seq
    stx,        \* OGS: socket tx buffer per connection
    wire_resp,  \* response pieces in flight per connection
    skb_resp,   \* the client's kernel rx buffer
    crx,        \* OGC: socket rx buffer
    ogc_exp,    \* OGC: n_seq_next_expected
    te_resp,    \* responses each OGC forwarded to its trading engine
    clock,      \* arrival time of the next piece
    connected,  \* clients whose OGC::start has connected
    lst_ev,     \* the listener has an EPOLLIN event not yet polled
    rx_socks,   \* TCPServer::rx_sockets: the accepted connections
    tx_socks,   \* TCPServer::tx_sockets
    out_ev      \* accepted sockets with an EPOLLOUT event not yet polled

vars == <<te_n, ogc_seq, ctx, wire_req, skb_req, srx, rx_n_seq, pending, spc,
          ome_in, n_done, resp_ring, tx_n_seq, stx, wire_resp, skb_resp, crx,
          ogc_exp, te_resp, clock, connected, lst_ev, rx_socks, tx_socks, out_ev>>
sock_vars == <<connected, lst_ev, rx_socks, tx_socks, out_ev>>

-----------------------------------------------------------------------------
(* Wire format.  A message is a header piece and a body piece; the body   *)
(* of request k of client c, or of the response to it, is [c, k].         *)
Hdr(n) == [h |-> n]
IsHdr(p) == "h" \in DOMAIN p
Frame(n, body) == <<Hdr(n), body>>

(* The parse loop of OGS::rx_callback and OGC::rx_callback: peel whole    *)
(* messages off buf, keep the ones for owner whose n_seq is the expected *)
(* one (advancing it), skip the others, and return the rest of the       *)
(* buffer, which the code moves to its front.  A message read off a       *)
(* misaligned buffer never carries the expected header.                   *)
Accept(x, y, exp, owner) == IsHdr(x) /\ ~IsHdr(y) /\ y.c = owner /\ x.h = exp

RECURSIVE Parse(_, _, _)
Parse(buf, exp, owner) ==
    IF Len(buf) < 2 THEN [out |-> <<>>, exp |-> exp, rest |-> buf]
    ELSE LET ok == Accept(buf[1], buf[2], exp, owner)
             r  == Parse(Tail(Tail(buf)), IF ok THEN exp + 1 ELSE exp, owner)
         IN [r EXCEPT !.out = IF ok THEN <<buf[2]>> \o @ ELSE @]

\* Mutant of ServerRead: the unconsumed tail is dropped (i_rx_next = 0).
ServerRead_droprest(c) ==
    LET p == Parse(srx[c] \o [i \in DOMAIN skb_req[c] |-> skb_req[c][i].p], rx_n_seq[c], c)
        t == IF skb_req[c] # <<>> THEN Last(skb_req[c]).t ELSE 0
    IN [out |-> [i \in 1 .. Len(p.out) |-> [t |-> t, r |-> p.out[i]]],
        exp |-> p.exp, rest |-> <<>>]

(* TCPSocket::tx_and_rx on the server side for connection c, reading its *)
(* kernel buffer: the parsed requests stamped with the read's time.       *)
ServerRead(c) ==
    LET p == Parse(srx[c] \o [i \in DOMAIN skb_req[c] |-> skb_req[c][i].p], rx_n_seq[c], c)
        t == IF skb_req[c] # <<>> THEN Last(skb_req[c]).t ELSE 0
    IN [out |-> [i \in 1 .. Len(p.out) |-> [t |-> t, r |-> p.out[i]]],
        exp |-> p.exp, rest |-> p.rest]

-----------------------------------------------------------------------------
(* FIFOSequencer::sequence_and_publish: std::sort by t_rx.  libstdc++     *)
(* sorts a batch of at most 16 with an insertion sort that moves an       *)
(* element left only past strictly later ones, so the element at i lands  *)
(* after every earlier-stamped element and every equal-stamped one before *)
(* it in the batch.                                                       *)

\* Mutant of Rank: the comparison is not strict (operator< as <=), so
\* equal-stamped elements end up in reverse order.
Rank_le(s, i) ==
    Cardinality({j \in DOMAIN s : s[j].t < s[i].t \/ (s[j].t = s[i].t /\ j > i)}) + 1

Rank(s, i) ==
    Cardinality({j \in DOMAIN s : s[j].t < s[i].t \/ (s[j].t = s[i].t /\ j < i)}) + 1

SortByT(s) == [r \in 1 .. Len(s) |-> s[CHOOSE i \in DOMAIN s : Rank(s, i) = r]]

sequence_and_publish(batch) ==
    /\ ome_in' = ome_in \o [i \in 1 .. Len(batch) |-> SortByT(batch)[i].r]
    /\ pending' = <<>>

-----------------------------------------------------------------------------
(* TCPServer::poll.  epoll_wait reports the listener's EPOLLIN once per   *)
(* burst of connections (edge-triggered), and the EPOLLOUT each socket    *)
(* gets when it is added (once, as the send buffer never fills here).  An *)
(* EPOLLOUT socket joins tx_sockets; after a listener event accept() is   *)
(* called until it fails, so every waiting connection is accepted, added  *)
(* to epoll and to rx_sockets.  An accepted socket is in rx_sockets from  *)
(* then on, so its EPOLLIN events add nothing, and epoll_wait's           *)
(* max_events (1 + both lists) never truncates the events.                *)
PollWith(accepted) ==
    /\ spc = "poll"
    /\ spc' = "rx"
    /\ tx_socks' = tx_socks \cup out_ev
    /\ rx_socks' = rx_socks \cup accepted
    /\ out_ev' = accepted
    /\ lst_ev' = FALSE
    /\ UNCHANGED <<te_n, ogc_seq, ctx, wire_req, skb_req, srx, rx_n_seq, pending,
                   ome_in, n_done, resp_ring, tx_n_seq, stx, wire_resp, skb_resp,
                   crx, ogc_exp, te_resp, clock, connected>>

\* Mutant of Poll: one accept() per listener event.
Poll_acceptone ==
    PollWith(IF lst_ev /\ connected \ rx_socks # {}
             THEN {CHOOSE c \in connected \ rx_socks : TRUE} ELSE {})

Poll == PollWith(IF lst_ev THEN connected \ rx_socks ELSE {})

(* One loop over the sockets S: each reads its kernel buffer and runs     *)
(* rx_callback, then sends its tx buffer.  In the rx_sockets loop a read  *)
(* of anything makes rx_done_callback publish the batch.  Sockets within *)
(* a loop are taken in any order: reads of different connections never  *)
(* share a time, so the sort undoes the order.  (rd and batch are bound *)
(* by \E over one value, which TLC evaluates once, also under fairness.)  *)
SocketsLoop(publish, S) ==
    \E rd \in {[c \in S |-> ServerRead(c)]} :
    \E batch \in {pending \o FlattenSeq([c \in Clients |-> IF c \in S THEN rd[c].out ELSE <<>>])} :
       /\ srx' = [c \in Clients |-> IF c \in S THEN rd[c].rest ELSE srx[c]]
       /\ rx_n_seq' = [c \in Clients |-> IF c \in S THEN rd[c].exp ELSE rx_n_seq[c]]
       /\ skb_req' = [c \in Clients |-> IF c \in S THEN <<>> ELSE skb_req[c]]
       /\ wire_resp' = [c \in Clients |-> IF c \in S THEN wire_resp[c] \o stx[c] ELSE wire_resp[c]]
       /\ stx' = [c \in Clients |-> IF c \in S THEN <<>> ELSE stx[c]]
       /\ IF publish /\ \E c \in S : skb_req[c] # <<>>
          THEN sequence_and_publish(batch)
          ELSE /\ pending' = batch
               /\ UNCHANGED ome_in

(* TCPServer::tx_and_rx, rx_sockets loop and rx_done_callback.            *)
RxSockets ==
    /\ spc = "rx"
    /\ SocketsLoop(TRUE, rx_socks)
    /\ spc' = "tx"
    /\ UNCHANGED <<te_n, ogc_seq, ctx, wire_req, n_done, resp_ring, tx_n_seq,
                   skb_resp, crx, ogc_exp, te_resp, clock, sock_vars>>

(* TCPServer::tx_and_rx, tx_sockets loop: reads again, publishes nothing. *)
TxSockets ==
    /\ spc = "tx"
    /\ SocketsLoop(FALSE, tx_socks)
    /\ spc' = "drain"
    /\ UNCHANGED <<te_n, ogc_seq, ctx, wire_req, n_done, resp_ring, tx_n_seq,
                   skb_resp, crx, ogc_exp, te_resp, clock, sock_vars>>

(* OrderGatewayServer::run, response loop: frame every response with the  *)
(* client's next tx n_seq into the client's socket buffer.                *)
RECURSIVE FrameAll(_, _)
FrameAll(rs, n) == IF rs = <<>> THEN <<>>
                   ELSE Frame(n, Head(rs)) \o FrameAll(Tail(rs), n + 1)

\* Mutant of DrainResponses: map_client_to_tx_n_seq is not incremented.
DrainResponses_noinc ==
    /\ spc = "drain"
    /\ LET mine(c) == SelectSeq(resp_ring, LAMBDA r : r.c = c)
       IN /\ stx' = [c \in Clients |-> stx[c] \o FrameAll(mine(c), tx_n_seq[c])]
          /\ tx_n_seq' = tx_n_seq
    /\ resp_ring' = <<>>
    /\ spc' = "poll"
    /\ UNCHANGED <<te_n, ogc_seq, ctx, wire_req, skb_req, srx, rx_n_seq, pending,
                   ome_in, n_done, wire_resp, skb_resp, crx, ogc_exp, te_resp, clock,
                   sock_vars>>

DrainResponses ==
    /\ spc = "drain"
    /\ LET mine(c) == SelectSeq(resp_ring, LAMBDA r : r.c = c)
       IN /\ stx' = [c \in Clients |-> stx[c] \o FrameAll(mine(c), tx_n_seq[c])]
          /\ tx_n_seq' = [c \in Clients |-> tx_n_seq[c] + Len(mine(c))]
    /\ resp_ring' = <<>>
    /\ spc' = "poll"
    /\ UNCHANGED <<te_n, ogc_seq, ctx, wire_req, skb_req, srx, rx_n_seq, pending,
                   ome_in, n_done, wire_resp, skb_resp, crx, ogc_exp, te_resp, clock,
                   sock_vars>>

(* The matching engine answers the next request it received.              *)
EngineRespond ==
    /\ n_done < Len(ome_in)
    /\ resp_ring' = Append(resp_ring, ome_in[n_done + 1])
    /\ n_done' = n_done + 1
    /\ UNCHANGED <<te_n, ogc_seq, ctx, wire_req, skb_req, srx, rx_n_seq, pending,
                   spc, ome_in, tx_n_seq, stx, wire_resp, skb_resp, crx, ogc_exp,
                   te_resp, clock, sock_vars>>

-----------------------------------------------------------------------------
(* One iteration of OrderGatewayClient::run for client c: tx_and_rx     *)
(* reads its kernel buffer (rx_callback) and sends what was loaded before; *)
(* then the m requests the trading engine has written are framed and     *)
(* loaded.                                                                *)
ClientLoop(c, m) ==
    LET p == Parse(crx[c] \o skb_resp[c], ogc_exp[c], c)
        new == [i \in 1 .. m |-> [c |-> c, k |-> te_n[c] + i]]
    IN /\ crx' = [crx EXCEPT ![c] = p.rest]
       /\ ogc_exp' = [ogc_exp EXCEPT ![c] = p.exp]
       /\ te_resp' = [te_resp EXCEPT ![c] = @ \o p.out]
       /\ skb_resp' = [skb_resp EXCEPT ![c] = <<>>]
       /\ wire_req' = [wire_req EXCEPT ![c] = @ \o ctx[c]]
       /\ ctx' = [ctx EXCEPT ![c] = FlattenSeq([i \in 1 .. m |->
                                        Frame(ogc_seq[c] + i - 1, new[i])])]
       /\ ogc_seq' = [ogc_seq EXCEPT ![c] = @ + m]
       /\ te_n' = [te_n EXCEPT ![c] = @ + m]

OgcRun(c) ==
    /\ c \in connected
    /\ \E m \in 0 .. MaxReqs[c] - te_n[c] :
          /\ skb_resp[c] # <<>> \/ m > 0 \/ ctx[c] # <<>>
          /\ ClientLoop(c, m)
    /\ UNCHANGED <<skb_req, srx, rx_n_seq, pending, spc, ome_in, n_done, resp_ring,
                   tx_n_seq, stx, wire_resp, clock, sock_vars>>

(* TCP: the first n pieces in flight on connection c reach the receiver's *)
(* kernel buffer; request pieces are stamped on arrival at the exchange.  *)
ArriveReq(c, n) ==
    /\ skb_req' = [skb_req EXCEPT ![c] = @ \o [i \in 1 .. n |->
                                                [p |-> wire_req[c][i], t |-> clock]]]
    /\ wire_req' = [wire_req EXCEPT ![c] = SubSeq(@, n + 1, Len(@))]
    /\ clock' = clock + 1
    /\ UNCHANGED <<te_n, ogc_seq, ctx, srx, rx_n_seq, pending, spc, ome_in, n_done,
                   resp_ring, tx_n_seq, stx, wire_resp, skb_resp, crx, ogc_exp, te_resp,
                   sock_vars>>

ArriveResp(c, n) ==
    /\ skb_resp' = [skb_resp EXCEPT ![c] = @ \o SubSeq(wire_resp[c], 1, n)]
    /\ wire_resp' = [wire_resp EXCEPT ![c] = SubSeq(@, n + 1, Len(@))]
    /\ UNCHANGED <<te_n, ogc_seq, ctx, wire_req, skb_req, srx, rx_n_seq, pending,
                   spc, ome_in, n_done, resp_ring, tx_n_seq, stx, crx, ogc_exp,
                   te_resp, clock, sock_vars>>

(* OrderGatewayClient::start: the client's non-blocking connect, after    *)
(* which its run thread starts.  The connection waits in the listener's   *)
(* backlog until the server's poll accepts it; bytes the client sends     *)
(* meanwhile wait in the server's kernel buffer.  (The handshake is taken *)
(* as complete before the client's first send.)                           *)
Connect(c) ==
    /\ c \notin connected
    /\ connected' = connected \cup {c}
    /\ lst_ev' = TRUE
    /\ UNCHANGED <<te_n, ogc_seq, ctx, wire_req, skb_req, srx, rx_n_seq, pending, spc,
                   ome_in, n_done, resp_ring, tx_n_seq, stx, wire_resp, skb_resp, crx,
                   ogc_exp, te_resp, clock, rx_socks, tx_socks, out_ev>>

Arrive ==
    \E c \in Clients :
        \/ \E n \in 1 .. Len(wire_req[c]) : ArriveReq(c, n)
        \/ \E n \in 1 .. Len(wire_resp[c]) : ArriveResp(c, n)

-----------------------------------------------------------------------------
Init ==
    /\ te_n = [c \in Clients |-> 0]
    /\ ogc_seq = [c \in Clients |-> 1]
    /\ ctx = [c \in Clients |-> <<>>]
    /\ wire_req = [c \in Clients |-> <<>>]
    /\ skb_req = [c \in Clients |-> <<>>]
    /\ srx = [c \in Clients |-> <<>>]
    /\ rx_n_seq = [c \in Clients |-> 1]
    /\ pending = <<>>
    /\ spc = "poll"
    /\ ome_in = <<>>
    /\ n_done = 0
    /\ resp_ring = <<>>
    /\ tx_n_seq = [c \in Clients |-> 1]
    /\ stx = [c \in Clients |-> <<>>]
    /\ wire_resp = [c \in Clients |-> <<>>]
    /\ skb_resp = [c \in Clients |-> <<>>]
    /\ crx = [c \in Clients |-> <<>>]
    /\ ogc_exp = [c \in Clients |-> 1]
    /\ te_resp = [c \in Clients |-> <<>>]
    /\ clock = 1
    /\ connected = {} /\ lst_ev = FALSE /\ rx_socks = {} /\ tx_socks = {} /\ out_ev = {}

Next ==
    \/ Poll \/ RxSockets \/ TxSockets \/ DrainResponses
    \/ EngineRespond
    \/ \E c \in Clients : Connect(c) \/ OgcRun(c)
    \/ Arrive

(* Fairness.  The server, the engine and each client are threads that    *)
(* loop while is_running, so each keeps taking steps; TCP eventually      *)
(* delivers the bytes in flight.  A client with bytes to read or send     *)
(* eventually reads and sends them (the trading engines, the environment, *)
(* need not send anything).  The clients' steps are finite, so fairness   *)
(* on their joint step starves none.                                      *)
Fairness ==
    /\ WF_vars(Poll \/ RxSockets \/ TxSockets \/ DrainResponses)
    /\ WF_vars(EngineRespond)
    /\ WF_vars(\E c \in Clients : (skb_resp[c] # <<>> \/ ctx[c] # <<>>) /\ OgcRun(c))
    /\ WF_vars(Arrive)

Spec == Init /\ [][Next]_vars /\ Fairness

-----------------------------------------------------------------------------
Mine(s, c) == SelectSeq(s, LAMBDA r : r.c = c)

Quiescent ==
    /\ pending = <<>> /\ resp_ring = <<>> /\ n_done = Len(ome_in)
    /\ \A c \in Clients :
          /\ ctx[c] = <<>> /\ wire_req[c] = <<>> /\ skb_req[c] = <<>>
          /\ srx[c] = <<>> /\ stx[c] = <<>> /\ wire_resp[c] = <<>>
          /\ skb_resp[c] = <<>> /\ crx[c] = <<>>

(* Spec section 5, about the gateway's framing, its n_seq check and the   *)
(* sequencer's sort: the requests of each client reach the matching       *)
(* engine in the order its trading engine wrote them, none twice and none *)
(* skipped, whatever the TCP segmentation and the interleaving of clients. *)
RequestsFIFO ==
    \A c \in Clients : \A i \in 1 .. Len(Mine(ome_in, c)) : Mine(ome_in, c)[i].k = i

(* Spec sections 4.6 and 7, about OGS::rx_callback, the response loop and *)
(* OGC::rx_callback: once nothing is in flight or buffered anywhere,       *)
(* every request written reached the engine and every client got the      *)
(* engine's responses to its requests, in order.                          *)
QuiescentComplete ==
    Quiescent =>
        \A c \in Clients :
            /\ Mine(ome_in, c) = [i \in 1 .. te_n[c] |-> [c |-> c, k |-> i]]
            /\ te_resp[c] = [i \in 1 .. te_n[c] |-> [c |-> c, k |-> i]]

(* Spec section 4.6, about OrderGatewayClient::run and the gateway        *)
(* server's loop: a request the trading engine writes eventually reaches  *)
(* the matching engine.                                                   *)
RequestsEventuallyPublished ==
    []<>(\A c \in Clients : Len(Mine(ome_in, c)) = te_n[c])

(* Spec section 4.6, about the response loop of OrderGatewayServer::run   *)
(* and OrderGatewayClient::rx_callback: every request the matching engine *)
(* received is eventually answered to the client's trading engine.        *)
ResponsesEventuallyDelivered ==
    []<>(\A c \in Clients : Len(te_resp[c]) = Len(Mine(ome_in, c)))

(* Spec sections 2 and 4.6 (the gateway accepts client connections when  *)
(* it polls), about TCPServer::poll's accept loop: the listener's EPOLLIN *)
(* is edge-triggered, so one event may stand for several waiting          *)
(* connections; every client that connects is eventually accepted.        *)
ConnectionsEventuallyAccepted ==
    []<>(connected \subseteq rx_socks)
=============================================================================
