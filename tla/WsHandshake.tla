----------------------------- MODULE WsHandshake -----------------------------
(***************************************************************************)
(* The WebSocket handshake of one request: mode.response, the dial, the    *)
(* checks on the upstream's answer, and the relay that is spawned with the *)
(* socket (src/src/websocket.rs, upgrade).  Dispatch decides which         *)
(* requests come here, and closes the specification.                       *)
(*                                                                         *)
(* The upstream, and what Tungstenite checks as its client, are external.  *)
(***************************************************************************)
EXTENDS Headers, FiniteSets, SequencesExt

CONSTANTS
    Timeout,        \* ticks of --proxy-timeout
    Subprotocols,   \* the tokens that a peer may name, "bad" for what is none
    Picks           \* the answers of WebSocket upstreams (external): whether they
                    \* name extensions, and their lines of subprotocols

ASSUME TimeoutAssumption == Timeout \in Nat \ {0}
ASSUME PicksAssumption ==
    \A p \in Picks : p.extensions \in BOOLEAN /\ p.protocols \in Seq(Subprotocols)

VARIABLES
    req,        \* the request
    stage,      \* where its handler is
    timer,      \* ticks left of the timeout it waits under
    status,     \* the status answered, or 0
    counted,    \* how often it was counted as a request
    forwarded,  \* the headers an upstream has received: {} or {headers}
    returned,   \* the upstream's headers that the client has received
    picked,     \* the answer of the WebSocket upstream
    socket,     \* the connection to it
    relay,      \* the task that relays messages
    client,     \* whether the client is there
    cut         \* the shared deadline of shutdown has passed

wsVars == <<picked, socket, relay>>

(***************************************************************************)
(* The offer.                                                              *)
(***************************************************************************)

\* Extended CONNECT over HTTP/2, or an HTTP/1 upgrade.
Extended(r) == r.version = "2" /\ r.method = "CONNECT" /\ r.tunnel
Upgrades(r) == /\ "upgrade" \in Nominated(r.headers)
               /\ \E i \in 1..Len(r.headers.upgrade) : r.headers.upgrade[i] = "websocket"
IsWs(r) == Extended(r) \/ Upgrades(r)

\* All the subprotocols of all lines, in order.
Offer(h) == FlattenSeq(h.protocol)

OneLine(tokens) == IF tokens = <<>> THEN <<>> ELSE <<tokens>>

\* Each is a token, and none is offered twice.
ValidOffer(h) == \A i, j \in 1..Len(Offer(h)) :
                     /\ Offer(h)[i] # "bad"
                     /\ i # j => Offer(h)[i] # Offer(h)[j]

Valid(r) == /\ r.headers.version = <<"13">>
            /\ ~Extended(r) => /\ r.version = "1.1" /\ r.method = "GET"
                               /\ Len(r.headers.key) = 1
            /\ ValidOffer(r.headers)

\* Mutant: the offer is not saved before hop-by-hop fields are stripped.
HandshakeUnsaved(r) ==
    [Strip(r.headers) EXCEPT
        !.connection = <<{"upgrade"}>>, !.upgrade = <<"websocket">>,
        !.host = <<"upstream">>,
        !.key = IF Extended(r) THEN <<"fresh">> ELSE r.headers.key,
        !.version = <<"13">>, !.extensions = <<>>,
        !.protocol = IF @ = <<>> THEN <<>> ELSE OneLine(Offer(r.headers))]

\* What goes upstream: the stripped headers, with the fields of the handshake
\* made anew.
Handshake(r) ==
    [Strip(r.headers) EXCEPT
        !.connection = <<{"upgrade"}>>, !.upgrade = <<"websocket">>,
        !.host = <<"upstream">>,
        !.key = IF Extended(r) THEN <<"fresh">> ELSE r.headers.key,
        !.version = <<"13">>, !.extensions = <<>>,
        !.protocol = OneLine(Offer(r.headers))]

(***************************************************************************)
(* Actions.                                                                *)
(***************************************************************************)

\* The handler returns, and dispatch counts the request.
Respond(code) == /\ stage' = "done" /\ status' = code
                 /\ counted' = counted + 1
                 /\ timer' = 0

Rejected == /\ ~Valid(req)
            /\ Respond(400)
            /\ UNCHANGED <<req, forwarded, returned, wsVars, client, cut>>

Dial == /\ Valid(req)
        /\ stage' = "dialing" /\ timer' = Timeout
        /\ forwarded' = {Handshake(req)}
        /\ UNCHANGED <<req, status, counted, returned, wsVars, client, cut>>

\* Tungstenite accepts an answer if it selects a subprotocol that was offered,
\* or none when none was.  It looks at the first line.
Accepted(p) == LET offer == CHOOSE s \in {h.protocol : h \in forwarded} : TRUE
               IN  IF offer = <<>> THEN p.protocols = <<>>
                   ELSE p.protocols # <<>> /\ Contains(offer[1], p.protocols[1])

\* Mutant: what Tungstenite lets pass is enough.
NegotiatedAny(p) == TRUE

\* No extension, which the relay could not decode, and one subprotocol at most.
Negotiated(p) == ~p.extensions /\ Len(p.protocols) <= 1

HangUp == socket' = "closed"

\* The upstream has answered within the time: the response is made, and the
\* relay is spawned with the open socket, in one step.
Answered(p) ==
    /\ stage = "dialing"
    /\ picked' = {p}
    /\ \/ /\ Accepted(p) /\ Negotiated(p)
          /\ socket' = "open" /\ relay' = "waiting"
          /\ Respond(IF Extended(req) THEN 200 ELSE 101)
          /\ returned' = {[NoHeaders EXCEPT !.protocol = OneLine(p.protocols)]}
       \/ /\ Accepted(p) /\ ~Negotiated(p)
          /\ HangUp
          /\ Respond(502)
          /\ UNCHANGED <<relay, returned>>
       \/ /\ ~Accepted(p)
          /\ socket' = "closed"
          /\ Respond(502)
          /\ UNCHANGED <<relay, returned>>
    /\ UNCHANGED <<req, forwarded, client, cut>>

\* Refused, broken, no 101, or no answer in time.
DialFails == /\ stage = "dialing"
             /\ Respond(502)
             /\ UNCHANGED <<req, forwarded, returned, wsVars, client, cut>>

DialTimesOut == stage = "dialing" /\ timer = 0 /\ DialFails

\* Mutant: a client that is gone leaves the relay waiting.
UpgradedOnly == /\ relay = "waiting" /\ client = "here"
                /\ relay' = "bridging"
                /\ UNCHANGED <<req, stage, timer, status, counted, forwarded, returned, picked, socket,
                               client, cut>>

\* hyper hands over the client's connection once the response is out; without a
\* client the relay gives up, and drops the upstream's socket.
Upgraded == /\ relay = "waiting"
            /\ \/ client = "here" /\ relay' = "bridging" /\ UNCHANGED socket
               \/ client = "gone" /\ relay' = "over" /\ socket' = "closed"
            /\ UNCHANGED <<req, stage, timer, status, counted, forwarded, returned, picked, client, cut>>

\* The tunnel ends with its peers (WsRelay).
BridgeEnds == /\ relay = "bridging"
              /\ relay' = "over" /\ socket' = "closed"
              /\ UNCHANGED <<req, stage, timer, status, counted, forwarded, returned, picked, client, cut>>

\* The lifecycle drops the relay's future at the deadline (Lifecycle).
RelayCut == /\ cut /\ relay \in {"waiting", "bridging"}
            /\ relay' = "over" /\ socket' = "closed"
            /\ UNCHANGED <<req, stage, timer, status, counted, forwarded, returned, picked, client, cut>>

\* The relay's own steps.  That a tunnel ends is up to its peers: its client may be
\* gone without being noticed, while the upstream does not read.
WsRelays == Upgraded \/ RelayCut

(***************************************************************************)
(* Properties.                                                             *)
(***************************************************************************)

Tokens(h) == UNION {{h.protocol[l][i] : i \in 1..Len(h.protocol[l])} : l \in 1..Len(h.protocol)}

\* The tokens of the lines, one line after the other, are those of the list.
Joins(lines, list) ==
    \E ends \in [0..Len(lines) -> 0..Len(list)] :
        /\ ends[0] = 0 /\ ends[Len(lines)] = Len(list)
        /\ \A l \in 1..Len(lines) :
               /\ ends[l] = ends[l - 1] + Len(lines[l])
               /\ \A i \in 1..Len(lines[l]) : list[ends[l - 1] + i] = lines[l][i]

\* An upstream is only asked for a tunnel by a request that may have one, over
\* HTTP/1.1 or HTTP/2, and is offered exactly what the client offers: its own
\* key or a fresh one, all its subprotocols in their order on one line whatever
\* Connection nominates, and no extension (websocket.rs 38-87, 105-169).
OfferForwarded ==
    \A h \in forwarded : h.upgrade # <<>> =>
        LET offer == IF h.protocol = <<>> THEN <<>> ELSE h.protocol[1]
        IN  /\ IsWs(req) /\ "bad" \notin Tokens(req.headers)
            /\ Joins(req.headers.protocol, offer)
            /\ Cardinality(Tokens(req.headers)) = Len(offer)
            /\ Len(h.protocol) = IF offer = <<>> THEN 0 ELSE 1
            /\ h.extensions = <<>> /\ h.version = <<"13">>
            /\ Len(h.key) = 1 /\ (h.key[1] = "fresh" <=> Extended(req))
            /\ h.host = <<"upstream">> /\ h.te = <<>>

\* A client is told that the tunnel stands only when the upstream agreed to just
\* that: without extensions, and with the subprotocol that the client is told,
\* one of those that it offered, or none if it offered none (websocket.rs
\* 218-258).
SwitchAgreed ==
    relay # "none" =>
        /\ status = IF Extended(req) THEN 200 ELSE 101
        /\ \E p \in picked, b \in returned :
               /\ ~p.extensions
               /\ b.protocol = OneLine(p.protocols)
               /\ Len(p.protocols) = IF Tokens(req.headers) = {} THEN 0 ELSE 1
               /\ \A i \in 1..Len(p.protocols) : p.protocols[i] \in Tokens(req.headers)

\* The connection to the upstream is given back by whatever has no use for it: a
\* handshake that fails leaves none behind, and a relay whose client has gone before
\* it was handed over, or whose deadline has passed, whatever its pumps wait for,
\* drops its own (websocket.rs 197-257, lifecycle.rs 36-49).
Useless == relay \in {"none", "over"} \/ (relay = "waiting" /\ client = "gone") \/ cut
SocketReleased == (socket = "open" /\ Useless) ~> (socket = "closed")
=============================================================================
