------------------------------ MODULE SwarmRpc ------------------------------
(***************************************************************************)
(* The data-channel message path of a hub (hubserv): on_data_channel binds *)
(* the channel to the session's ClientData (set_dc) and installs the       *)
(* message handler; each message is decoded (RpcPacket::decode_packet),    *)
(* dispatched by on_rtc_message and on_swarm_message, and a TRANSFER is    *)
(* forwarded by _transfer to the destination session's channel with its   *)
(* ttl decremented (State::send_rpc_response, ClientData::send_rpc_response*)
(* with encode_packet).  The answer goes back over the sender's channel.   *)
(*                                                                         *)
(* The clients are the environment: they send KEEP_ALIVE, TRANSFER and     *)
(* unknown requests, in any wire form a sender may use (plain, compressed, *)
(* or flagged as compressed but plain, as legacy senders do), and relay a  *)
(* forwarded payload on with the ttl it arrived with.  The webrtc runtime  *)
(* awaits the handler of one message before the next of the same channel, *)
(* and the handlers of different channels interleave.                      *)
(*                                                                         *)
(* A param is a record; its byte length and zlib length are given by its   *)
(* size class.  A wire packet is [flag, zlib, param]: is_compressed, whether *)
(* the bytes are a zlib stream, and what they encode.                      *)
(***************************************************************************)
EXTENDS Integers, Sequences, FiniteSets

CONSTANTS
  Sessions,       \* sessions of this hub
  Sizes,          \* size classes of a TRANSFER payload
  ByteLen,        \* byte length of an encoded param of each size class
  ZlibLen,        \* length of its zlib stream (level 6)
  MinLength,      \* MIN_LENGTH of compress_if_needed
  MaxTtl,         \* largest ttl a client starts a TRANSFER with
  MaxSends,       \* bound on the requests the clients send
  None

ASSUME MinLength \in Nat /\ MaxTtl \in Nat /\ MaxSends \in Nat

VARIABLES
  registered,   \* sessions in State.connection_map
  dc,           \* ClientData.dc: "none", "open", or "closed" by the peer
  up,           \* packets a client sent on its channel, not yet handled
  down,         \* packets the hub sent to a client, not yet read
  h,            \* handler of each channel: "idle", "forward", "respond"
  h_req,        \* the TRANSFER request the handler is working on
  h_ok,         \* the result _transfer returned
  sends         \* requests the clients have sent

vars == <<registered, dc, up, down, h, h_req, h_ok, sends>>

-----------------------------------------------------------------------------
(* verse_common::compress and RpcPacket::encode_packet / decode_packet     *)

\* compress_if_needed: None below MIN_LENGTH or when zlib does not make
\* the param strictly shorter
Compresses(p) == ByteLen[p.size] >= MinLength /\ ZlibLen[p.size] < ByteLen[p.size]

\* encode_packet of a fresh packet: the param is replaced by its zlib
\* stream and is_compressed set when compress_if_needed returns Some
EncodePacket(p) ==
  [flag |-> Compresses(p), zlib |-> Compresses(p), param |-> p]

\* decode_packet: when is_compressed, inflate and clear the flag; an
\* inflate error (bytes that are no zlib stream) keeps bytes and flag
DecodePacket(w) ==
  IF w.flag /\ w.zlib THEN [w EXCEPT !.flag = FALSE, !.zlib = FALSE]
  ELSE w

\* The handler decodes the inner SwarmPacket from the param bytes: bytes
\* that are still a zlib stream are no protobuf message and fail
Readable(d) == ~d.zlib

-----------------------------------------------------------------------------
(* Clients (environment)                                                   *)

\* The wire forms a client may put a param in
WireForms(p) ==
  {[flag |-> FALSE, zlib |-> FALSE, param |-> p],
   [flag |-> TRUE,  zlib |-> FALSE, param |-> p]}
  \cup IF Compresses(p) THEN {[flag |-> TRUE, zlib |-> TRUE, param |-> p]} ELSE {}

\* A TRANSFER as a client first sends it
NewTransfers(s) ==
  [kind : {"transfer"}, to : Sessions \ {s}, size : Sizes,
   ttl : 0..MaxTtl, signed : BOOLEAN, ttl0 : 0..MaxTtl, hops : {0}]

Requests(s) ==
  {[kind |-> "keep_alive", size |-> CHOOSE z \in Sizes : TRUE]}
  \cup {[kind |-> "unknown", size |-> CHOOSE z \in Sizes : TRUE]}
  \cup {t \in NewTransfers(s) : t.ttl0 = t.ttl}

\* A client with an open channel sends a request
ClientSend(s) ==
  /\ dc[s] = "open" /\ sends < MaxSends
  /\ \E p \in Requests(s) : \E w \in WireForms(p) : up' = [up EXCEPT ![s] = Append(@, w)]
  /\ sends' = sends + 1
  /\ UNCHANGED <<registered, dc, down, h, h_req, h_ok>>

\* A client reads the next packet the hub sent it; a forwarded TRANSFER
\* is relayed on, as a new TRANSFER with the ttl it came with
ClientRead(s) ==
  /\ down[s] # <<>>
  /\ LET p == DecodePacket(Head(down[s])).param IN
     \/ /\ down' = [down EXCEPT ![s] = Tail(@)]
        /\ UNCHANGED <<up, sends>>
     \/ /\ p.kind = "transfer" /\ dc[s] = "open" /\ sends < MaxSends
        /\ \E to \in Sessions \ {s} : \E w \in WireForms([p EXCEPT !.to = to]) :
             /\ down' = [down EXCEPT ![s] = Tail(@)]
             /\ up' = [up EXCEPT ![s] = Append(@, w)]
        /\ sends' = sends + 1
  /\ UNCHANGED <<registered, dc, h, h_req, h_ok>>

\* The peer closes the channel; its pc state-change callback later calls
\* remove_connection
Close(s) ==
  /\ dc[s] = "open"
  /\ dc' = [dc EXCEPT ![s] = "closed"]
  /\ up' = [up EXCEPT ![s] = <<>>]
  /\ UNCHANGED <<registered, down, h, h_req, h_ok, sends>>

Remove(s) ==
  /\ s \in registered /\ dc[s] # "open"
  /\ registered' = registered \ {s}
  /\ UNCHANGED <<dc, up, down, h, h_req, h_ok, sends>>

-----------------------------------------------------------------------------
(* The hub                                                                 *)

\* on_data_channel: get_connection(session_id) and set_dc; a session no
\* longer in the map only logs "client data not found"
DataChannelOpen(s) ==
  /\ dc[s] = "none" /\ s \in registered
  /\ dc' = [dc EXCEPT ![s] = "open"]
  /\ UNCHANGED <<registered, up, down, h, h_req, h_ok, sends>>

\* ClientData::send_rpc_response: encode_packet, then Ok(false) without a
\* channel, Err when dc.send fails on a closed one, else Ok(true)
SendResult(s) ==
  CASE dc[s] = "none" -> "false"
    [] dc[s] = "open" -> "true"
    [] OTHER          -> "error"

\* State::send_rpc_response: Ok(false) for a session not in the map
StateSendResult(s) == IF s \in registered THEN SendResult(s) ELSE "false"

Deliver(s, p) ==
  IF SendResult(s) = "true" THEN [down EXCEPT ![s] = Append(@, EncodePacket(p))]
  ELSE down

\* mutant: the ttl guard lets a ttl of 0 through
TtlExhaustedOffByOne(t) == t < 0

\* _transfer: if req.ttl < 1 return Ok(false)
TtlExhausted(t) == t < 1

\* The on_message handler takes the next message: decode_packet, then
\* on_rtc_message and on_swarm_message; KEEP_ALIVE and unknown ids end
\* without an answer, as do a failed decode (the error is only logged)
\* and a TRANSFER whose signature does not verify; an exhausted ttl is
\* answered false.
HandleMessage(s) ==
  /\ h[s] = "idle" /\ up[s] # <<>> /\ dc[s] = "open"
  /\ LET d == DecodePacket(Head(up[s]))
         p == d.param
     IN  /\ up' = [up EXCEPT ![s] = Tail(@)]
         /\ IF Readable(d) /\ p.kind = "transfer" /\ p.signed
              THEN /\ h_req' = [h_req EXCEPT ![s] = p]
                   /\ IF TtlExhausted(p.ttl)
                        THEN /\ h' = [h EXCEPT ![s] = "respond"]
                             /\ h_ok' = [h_ok EXCEPT ![s] = "false"]
                        ELSE /\ h' = [h EXCEPT ![s] = "forward"]
                             /\ UNCHANGED h_ok
              ELSE UNCHANGED <<h, h_req, h_ok>>
  /\ UNCHANGED <<registered, dc, down, sends>>

\* mutant: the forwarded request keeps the ttl it arrived with
ForwardNoDecrement(s) ==
  LET p == h_req[s]
      fwd == [p EXCEPT !.hops = p.hops + 1]
      r == StateSendResult(p.to)
  IN
  /\ h[s] = "forward"
  /\ down' = IF r = "true" THEN [down EXCEPT ![p.to] = Append(@, EncodePacket(fwd))]
             ELSE down
  /\ h_ok' = [h_ok EXCEPT ![s] = r]
  /\ h' = [h EXCEPT ![s] = IF r = "error" THEN "idle" ELSE "respond"]
  /\ UNCHANGED <<registered, dc, up, h_req, sends>>

\* _transfer forwards the request with ttl - 1 as a SWARM/TRANSFER packet
\* through State::send_rpc_response; an Err ends the handler (the `?`s of
\* transfer, on_swarm_message and on_rtc_message) without an answer
Forward(s) ==
  LET p == h_req[s]
      fwd == [p EXCEPT !.ttl = p.ttl - 1, !.hops = p.hops + 1]
      r == StateSendResult(p.to)
  IN
  /\ h[s] = "forward"
  /\ down' = IF r = "true" THEN [down EXCEPT ![p.to] = Append(@, EncodePacket(fwd))]
             ELSE down
  /\ h_ok' = [h_ok EXCEPT ![s] = r]
  /\ h' = [h EXCEPT ![s] = IF r = "error" THEN "idle" ELSE "respond"]
  /\ UNCHANGED <<registered, dc, up, h_req, sends>>

\* The TransferResponse {result, dest_session_id} wrapped in a
\* SwarmResponse and sent by cd.send_rpc_response on the sender's channel
Respond(s) ==
  /\ h[s] = "respond"
  /\ down' = Deliver(s, [kind |-> "result", ok |-> h_ok[s] = "true",
                         size |-> CHOOSE z \in Sizes : TRUE])
  /\ h' = [h EXCEPT ![s] = "idle"]
  /\ UNCHANGED <<registered, dc, up, h_req, h_ok, sends>>

-----------------------------------------------------------------------------
Init ==
  /\ registered = Sessions
  /\ dc = [s \in Sessions |-> "none"]
  /\ up = [s \in Sessions |-> <<>>]
  /\ down = [s \in Sessions |-> <<>>]
  /\ h = [s \in Sessions |-> "idle"]
  /\ h_req = [s \in Sessions |-> None]
  /\ h_ok = [s \in Sessions |-> "false"]
  /\ sends = 0

Next ==
  \E s \in Sessions :
    \/ ClientSend(s) \/ ClientRead(s) \/ Close(s) \/ Remove(s)
    \/ DataChannelOpen(s) \/ HandleMessage(s) \/ Forward(s) \/ Respond(s)

Spec == Init /\ [][Next]_vars

-----------------------------------------------------------------------------
(* Properties                                                              *)

\* TransferRequest.ttl is a u32
Param ==
  [kind : {"transfer"}, to : Sessions, size : Sizes, ttl : Nat,
   signed : BOOLEAN, ttl0 : 0..MaxTtl, hops : Nat]
  \cup [kind : {"result"}, ok : BOOLEAN, size : Sizes]

Wire == [flag : BOOLEAN, zlib : BOOLEAN, param : Param]

\* Types, with the u32 ttl of every request the hub holds or sends never
\* taken below zero by _transfer's ttl - 1
TypeOK ==
  /\ registered \subseteq Sessions
  /\ h_req \in [Sessions -> Param \cup {None}]
  /\ dc \in [Sessions -> {"none", "open", "closed"}]
  /\ down \in [Sessions -> Seq(Wire)]
  /\ h \in [Sessions -> {"idle", "forward", "respond"}]
  /\ h_ok \in [Sessions -> {"true", "false", "error"}]
  /\ sends \in 0..MaxSends

\* Spec 4.8 and the glossary's hop budget: _transfer refuses a ttl below 1
\* and forwards with ttl - 1, so while clients relay a payload with the
\* ttl it reached them with, it crosses the hub at most as many times as
\* the ttl its originator gave it.
TtlBoundsHops ==
  \A s \in Sessions : \A k \in 1..Len(down[s]) :
    LET p == down[s][k].param IN
    p.kind = "transfer" => p.hops <= p.ttl0

\* Spec 4.8: a verified TRANSFER with a ttl of at least 1 is forwarded and
\* answered {ok = result_of_forward, dest_session_id}: whatever the
\* forward returned, the handler that took it goes on to the answer on
\* the sender's channel, never back to its next message without one.
TransferAnswered ==
  [][\A s \in Sessions : h[s] = "forward" /\ h'[s] # "forward" => h'[s] = "respond"]_vars

====
