------------------------------ MODULE WsRelay ------------------------------
(***************************************************************************)
(* An established WebSocket tunnel: bridge_ws with its two pumps (forward, *)
(* or c2u and u2c when eth_syncing is mocked) and drain_pair.              *)
(*                                                                         *)
(* Side "c" is the client, for which ethryx is the server; side "u" is the *)
(* upstream, for which it is the client.  pump[s] reads from side s and    *)
(* writes to the other one.  The protocol state of each socket (ws) and    *)
(* its write buffer belong to Tungstenite; the peers and the bounded       *)
(* queues between them and ethryx are the environment.  A ping or a pong   *)
(* is a message like another: the pong that Tungstenite adds by itself is  *)
(* left out, as is what shutdown does to a relay (Lifecycle).              *)
(***************************************************************************)
EXTENDS Naturals, Sequences

CONSTANTS
    Modes,      \* values of --mock-eth-syncing
    Stalls,     \* the sides whose peer may stop reading for good, in plain mode
    Cap,        \* messages that fit in a queue between a peer and ethryx
    MaxData,    \* bound on messages a peer sends to the other one, in plain mode
    MaxMixed,   \* the same in mocked mode, where calls come in between
    MaxCalls,   \* bound on eth_syncing calls of the client
    Second      \* ticks of the one second given to a linger and to drain_pair

Sides == {"c", "u"}
Other(s) == IF s = "c" THEN "u" ELSE "c"

ASSUME RelayAssumption ==
    /\ Modes \subseteq BOOLEAN /\ Stalls \subseteq Sides
    /\ Cap \in Nat \ {0} /\ MaxData \in Nat /\ MaxMixed \in 0..MaxData /\ MaxCalls \in Nat /\ Second \in Nat \ {0}

VARIABLES
    mocked,     \* --mock-eth-syncing
    ws,         \* close handshake of each socket, as Tungstenite tracks it
    buffer,     \* frames accepted by each socket and not flushed yet
    inbound,    \* written by each peer, not read by its pump
    outbound,   \* flushed to each peer, not read by it
    pump,       \* where the pump that reads from each side is
    held,       \* the message it is passing on
    sink,       \* who holds the mutex of the client's sink (mocked mode)
    lingered,   \* ticks a pump has spent on its last read
    waited,     \* ticks one pump has waited for the other in drain_pair
    over,       \* the relay has returned, by itself or by the grace's end
    gone,       \* the peer's end of the socket is closed
    broken,     \* a peer left before its closes were exchanged, wrote an invalid
                \* frame, or took nothing during the second of a last read
    closeSent, closeGot,   \* closes of each peer
    sent, got,             \* data messages sent and received by each peer
    asked, answered        \* calls of the client, and replies it received

sockets == <<ws, buffer>>
pumps   == <<pump, held, sink>>
timers  == <<lingered, waited>>
peers   == <<gone, broken, closeSent, closeGot, sent, got, asked, answered>>
vars == <<mocked, sockets, inbound, outbound, pumps, timers, over, peers>>

\* The peers that may stop reading.
stalls == IF mocked THEN {} ELSE Stalls

Message == [kind : {"data"}, n : 1..MaxData]
               \cup [kind : {"call", "reply"}, n : 1..MaxCalls]
               \cup [kind : {"note", "bad", "close"}, n : {0}]
Msg(k, n) == [kind |-> k, n |-> n]
Close == Msg("close", 0)

TypeOK ==
    /\ mocked \in Modes
    /\ ws \in [Sides -> {"active", "byPeer", "byUs", "acked", "terminated"}]
    /\ buffer \in [Sides -> Seq(Message)]
    /\ inbound \in [Sides -> Seq(Message)] /\ outbound \in [Sides -> Seq(Message)]
    /\ \A s \in Sides : Len(buffer[s]) <= 2 /\ Len(inbound[s]) <= Cap /\ Len(outbound[s]) <= Cap
    /\ pump \in [Sides -> {"read", "lock", "flush", "linger", "done"}]
    /\ held \in [Sides -> Message]
    /\ sink \in Sides \cup {"free"}
    /\ lingered \in [Sides -> 0..Second] /\ waited \in 0..Second
    /\ over \in {"no", "ended", "cut"}
    /\ gone \in [Sides -> BOOLEAN] /\ broken \in BOOLEAN
    /\ closeSent \in [Sides -> BOOLEAN] /\ closeGot \in [Sides -> BOOLEAN]
    /\ sent \in [Sides -> 0..MaxData] /\ got \in [Sides -> 0..MaxData]
    /\ asked \in 0..MaxCalls /\ answered \in 0..MaxCalls

Init ==
    /\ mocked \in Modes
    /\ ws = [s \in Sides |-> "active"]
    /\ buffer = [s \in Sides |-> <<>>]
    /\ inbound = [s \in Sides |-> <<>>] /\ outbound = [s \in Sides |-> <<>>]
    /\ pump = [s \in Sides |-> "read"]
    /\ held = [s \in Sides |-> Close]
    /\ sink = "free"
    /\ lingered = [s \in Sides |-> 0] /\ waited = 0
    /\ over = "no"
    /\ gone = [s \in Sides |-> FALSE] /\ broken = FALSE
    /\ closeSent = [s \in Sides |-> FALSE] /\ closeGot = [s \in Sides |-> FALSE]
    /\ sent = [s \in Sides |-> 0] /\ got = [s \in Sides |-> 0]
    /\ asked = 0 /\ answered = 0

(***************************************************************************)
(* The peers (external).  They keep to the protocol: nothing but a close   *)
(* follows a close, and a peer that has received one sends its own.        *)
(***************************************************************************)

Write(s, m) == /\ over = "no" /\ ~gone[s] /\ ~closeSent[s]
               /\ Len(inbound[s]) < Cap
               /\ inbound' = [inbound EXCEPT ![s] = Append(@, m)]
               /\ UNCHANGED <<mocked, sockets, outbound, pumps, timers, over, gone, closeGot, got,
                              answered>>

PeerSends(s) == /\ ~closeGot[s]
                /\ sent[s] < IF mocked THEN MaxMixed ELSE MaxData
                /\ Write(s, Msg("data", sent[s] + 1))
                /\ sent' = [sent EXCEPT ![s] = @ + 1]
                /\ UNCHANGED <<broken, closeSent, asked>>

\* A call that the mock answers, or a notification that it swallows.
ClientAsks == /\ mocked /\ ~closeGot["c"]
              /\ \/ /\ asked < MaxCalls
                    /\ Write("c", Msg("call", asked + 1))
                    /\ asked' = asked + 1
                 \/ Write("c", Msg("note", 0)) /\ UNCHANGED asked
              /\ UNCHANGED <<broken, closeSent, sent>>

PeerCloses(s) == /\ Write(s, Close)
                 /\ closeSent' = [closeSent EXCEPT ![s] = TRUE]
                 /\ UNCHANGED <<broken, sent, asked>>

\* An invalid or oversized frame.
PeerErrs(s) == /\ ~broken
               /\ Write(s, Msg("bad", 0))
               /\ broken' = TRUE
               /\ UNCHANGED <<closeSent, sent, asked>>

PeerReads(s) == /\ ~gone[s] /\ outbound[s] # <<>>
                /\ LET m == Head(outbound[s])
                   IN  /\ closeGot' = [closeGot EXCEPT ![s] = @ \/ m.kind = "close"]
                       /\ got' = IF m.kind = "data" THEN [got EXCEPT ![s] = m.n] ELSE got
                       /\ answered' = IF m.kind = "reply" THEN m.n ELSE answered
                /\ outbound' = [outbound EXCEPT ![s] = Tail(@)]
                /\ UNCHANGED <<mocked, sockets, inbound, pumps, timers, over, gone, broken, closeSent,
                               sent, asked>>

\* With unread data in flight, the peer's kernel resets the connection.
PeerLeaves(s) == /\ ~gone[s]
                 /\ gone' = [gone EXCEPT ![s] = TRUE]
                 /\ broken' = (broken \/ ~(closeSent[s] /\ closeGot[s]))
                 /\ outbound' = [outbound EXCEPT ![s] = <<>>]
                 /\ \/ UNCHANGED inbound
                    \/ inbound' = [inbound EXCEPT ![s] = <<>>]
                 /\ UNCHANGED <<mocked, sockets, pumps, timers, over, closeSent, closeGot, sent, got,
                                asked, answered>>

(***************************************************************************)
(* The pumps.  A read and the start of the send that follows it happen in  *)
(* one poll, unless the client's sink has to be locked first.              *)
(***************************************************************************)

At(p, place) == over = "no" /\ pump[p] = place
Goto(p, place) == pump' = [pump EXCEPT ![p] = place]

\* Mutant: the pump ends with the close, without a last read.
AfterSendNoLinger(m) == IF m.kind = "close" THEN "done" ELSE "read"

AfterSend(m) == IF m.kind = "close" THEN "linger" ELSE "read"

\* Mutant: a failed send is ignored.
AfterErrorIgnored(m) == IF m.kind = "close" THEN "linger" ELSE "read"

AfterError(m) == IF m.kind = "close" THEN "linger" ELSE "done"
Target(p, m) == IF m.kind = "reply" THEN "c" ELSE Other(p)

\* Mutant: both pumps take the mutex, whatever they write to.
LocksAlways(p, m) == TRUE

Locks(p, m) == mocked /\ Target(p, m) = "c"

\* Mutant: the guard of the mutex is kept across messages.
UnlockNever(p) == UNCHANGED sink

Unlock(p) == sink' = IF sink = p THEN "free" ELSE sink

\* What remains for a step of a pump to say: sockets, held, sink, inbound.
Rest == UNCHANGED <<mocked, outbound, timers, over, peers>>

\* feed: a socket whose close handshake has begun refuses to write.  The states
\* of the sockets are w and their buffers b when it is called.
StartSend(p, m, w, b) ==
    LET t == Target(p, m) IN
    /\ held' = [held EXCEPT ![p] = m]
    /\ IF w[t] = "active"
       THEN /\ ws' = IF m.kind = "close" THEN [w EXCEPT ![t] = "byUs"] ELSE w
            /\ buffer' = [b EXCEPT ![t] = Append(@, m)]
            /\ Goto(p, "flush")
       ELSE ws' = w /\ buffer' = b /\ Goto(p, AfterError(m))

\* Mutant: a message that finds the sink locked is dropped.
PassOnTryLock(p, m, w, b) ==
    IF Locks(p, m)
    THEN /\ ws' = w /\ buffer' = b
         /\ IF sink = "free" THEN Goto(p, "lock") /\ held' = [held EXCEPT ![p] = m]
                             ELSE UNCHANGED <<pump, held>>
    ELSE StartSend(p, m, w, b)

PassOn(p, m, w, b) ==
    IF Locks(p, m)
    THEN Goto(p, "lock") /\ held' = [held EXCEPT ![p] = m] /\ ws' = w /\ buffer' = b
    ELSE StartSend(p, m, w, b)

\* The next message of side p, of one of the kinds.
NextMessage(p, kinds) ==
    /\ At(p, "read")
    /\ inbound[p] # <<>> /\ Head(inbound[p]).kind \in kinds
    /\ inbound' = [inbound EXCEPT ![p] = Tail(@)]
    /\ UNCHANGED sink /\ Rest

ReadData(p) == /\ NextMessage(p, {"data"})
               /\ PassOn(p, Head(inbound[p]), ws, buffer)

\* Tungstenite queues the acknowledgement of a close that it did not start.
ReadClose(p) ==
    /\ NextMessage(p, {"close"})
    /\ IF ws[p] = "active"
       THEN PassOn(p, Close, [ws EXCEPT ![p] = "byPeer"], [buffer EXCEPT ![p] = Append(@, Close)])
       ELSE PassOn(p, Close, [ws EXCEPT ![p] = "acked"], buffer)

\* mock_syncing: a call is answered here, a notification is not answered at all.
ReadCall == /\ NextMessage("c", {"call"})
            /\ PassOn("c", Msg("reply", Head(inbound["c"]).n), ws, buffer)

ReadNote == /\ NextMessage("c", {"note"})
            /\ UNCHANGED <<sockets, pump, held>>

\* An invalid frame, or the end of the stream without a close.
ReadFails(p) == \/ /\ NextMessage(p, {"bad"})
                   /\ Goto(p, "done")
                   /\ UNCHANGED <<sockets, held>>
                \/ /\ At(p, "read") /\ inbound[p] = <<>> /\ gone[p]
                   /\ Goto(p, "done")
                   /\ ws' = [ws EXCEPT ![p] = "terminated"]
                   /\ UNCHANGED <<buffer, held, sink, inbound>> /\ Rest

Lock(p) == /\ At(p, "lock") /\ sink = "free"
           /\ StartSend(p, held[p], ws, buffer)
           /\ sink' = IF pump'[p] = "flush" THEN p ELSE "free"
           /\ UNCHANGED inbound /\ Rest

\* Mutant: frames pile up in front of a peer that does not read.
FlushUnbounded(s) ==
    /\ over = "no"
    /\ buffer[s] # <<>>
    /\ \/ \E p \in Sides : pump[p] = "flush" /\ Target(p, held[p]) = s
       \/ pump[s] = "linger"
    /\ outbound' = IF gone[s] THEN outbound
                              ELSE [outbound EXCEPT ![s] = Append(@, Head(buffer[s]))]
    /\ buffer' = [buffer EXCEPT ![s] = Tail(@)]
    /\ UNCHANGED <<mocked, ws, inbound, pumps, timers, over, peers>>

\* A frame reaches the network.  The buffer moves only while a pump polls the
\* socket: to finish its send, or on its last read.  A peer that is gone may
\* still swallow it.
Flush(s) == /\ over = "no"
            /\ buffer[s] # <<>>
            /\ \/ \E p \in Sides : pump[p] = "flush" /\ Target(p, held[p]) = s
               \/ pump[s] = "linger"
            /\ IF gone[s] THEN UNCHANGED outbound
                          ELSE /\ Len(outbound[s]) < Cap
                               /\ outbound' = [outbound EXCEPT ![s] = Append(@, Head(buffer[s]))]
            /\ buffer' = [buffer EXCEPT ![s] = Tail(@)]
            /\ UNCHANGED <<mocked, ws, inbound, pumps, timers, over, peers>>

SendDone(p) == /\ At(p, "flush") /\ buffer[Target(p, held[p])] = <<>>
               /\ Goto(p, AfterSend(held[p]))
               /\ Unlock(p)
               /\ UNCHANGED <<sockets, held, inbound>> /\ Rest

SendFails(p) == /\ At(p, "flush") /\ gone[Target(p, held[p])]
                /\ Goto(p, AfterError(held[p]))
                /\ Unlock(p)
                /\ UNCHANGED <<sockets, held, inbound>> /\ Rest

\* A timeout polls what it bounds before it gives up: a lock that is free is
\* taken, and a frame for which there is room is written.
Stuck(s) == buffer[s] # <<>> /\ ~gone[s] /\ Len(outbound[s]) = Cap

\* The last read flushes the acknowledgement.  As the server ethryx is through
\* as soon as that is out; as the client it waits for the upstream to hang up.
LastRead(p) == /\ At(p, "linger")
               /\ \/ p = "c" /\ (buffer["c"] = <<>> \/ ws["c"] # "byPeer")
                  \/ gone[p]
                  \/ lingered[p] = Second /\ (buffer[p] # <<>> => Stuck(p))
               /\ Goto(p, "done")
               /\ broken' = (broken \/ Stuck(p))
               /\ UNCHANGED <<mocked, sockets, held, sink, inbound, outbound, timers, over, gone,
                              closeSent, closeGot, sent, got, asked, answered>>

(***************************************************************************)
(* drain_pair, time, and the specification.                                *)
(***************************************************************************)

Blocked(p) == /\ pump[p] = "lock" => sink # "free"
              /\ pump[p] = "flush" => Stuck(Target(p, held[p]))
              /\ pump[p] = "linger" /\ buffer[p] # <<>> => Stuck(p)

\* Mutant: drain_pair waits for the second pump without a limit.
FinishJoin == /\ over = "no"
              /\ \A p \in Sides : pump[p] = "done"
              /\ over' = "ended"
              /\ UNCHANGED <<mocked, sockets, inbound, outbound, pumps, timers, peers>>

Finish == /\ over = "no"
          /\ \/ (\A p \in Sides : pump[p] = "done") /\ over' = "ended"
             \/ /\ waited = Second
                /\ \E p \in Sides : pump[p] = "done" /\ Blocked(Other(p))
                /\ over' = "cut"
          /\ UNCHANGED <<mocked, sockets, inbound, outbound, pumps, timers, peers>>

Waiting == \E p \in Sides : pump[p] = "done"

Tick == /\ over = "no"
        /\ Waiting \/ \E p \in Sides : pump[p] = "linger"
        /\ \A p \in Sides : pump[p] = "linger" => lingered[p] < Second
        /\ Waiting => waited < Second
        /\ lingered' = [p \in Sides |-> IF pump[p] = "linger" THEN lingered[p] + 1 ELSE lingered[p]]
        /\ waited' = IF Waiting THEN waited + 1 ELSE waited
        /\ UNCHANGED <<mocked, sockets, inbound, outbound, pumps, over, peers>>

\* The relay is over, and each peer has what it will ever have.
Stutter == over # "no" /\ UNCHANGED vars

Pump(p) == \/ ReadData(p) \/ ReadClose(p) \/ ReadFails(p)
           \/ p = "c" /\ ReadCall
           \/ p = "c" /\ ReadNote
           \/ Lock(p) \/ SendDone(p) \/ SendFails(p)
           \/ LastRead(p)

Peer(s) == PeerSends(s) \/ PeerCloses(s) \/ PeerErrs(s) \/ PeerReads(s) \/ PeerLeaves(s)

Next == \/ \E s \in Sides : Pump(s) \/ Flush(s) \/ Peer(s)
        \/ ClientAsks \/ Finish \/ Tick \/ Stutter

\* The runtime polls what is ready; a peer that does not stall reads on, and
\* closes when it has received a close.
Spec == /\ Init /\ [][Next]_vars
        /\ \A s \in Sides : WF_vars(Pump(s)) /\ WF_vars(Flush(s))
        /\ WF_vars(Finish) /\ WF_vars(Tick)
        /\ \A s \in Sides : WF_vars(s \notin stalls /\ PeerReads(s))

(***************************************************************************)
(* Properties.                                                             *)
(***************************************************************************)

\* In q, the messages of the kinds have the numbers from lo + 1 to hi, in order.
Run(q, kinds, lo, hi) ==
    LET these == {i \in 1..Len(q) : q[i].kind \in kinds}
    IN  /\ lo <= hi
        /\ {q[i].n : i \in these} = (lo + 1)..hi
        /\ \A i, j \in these : i < j => q[i].n < q[j].n

Pending(p) == IF pump[p] = "lock" THEN <<held[p]>> ELSE <<>>

\* The messages on their way to side s, the nearest first.
OnTheWay(s) == outbound[s] \o buffer[s]

\* Messages arrive in order, none twice, and while a pump runs none of those it
\* has read is lost (websocket.rs 260-278, 297-340).
InOrder ==
    \A s \in Sides : ~gone[s] =>
        LET o == Other(s)
        IN  /\ \E k \in 0..sent[o] : Run(OnTheWay(s), {"data"}, got[s], k)
            /\ over = "no" /\ pump[o] # "done" /\ ~gone[o] =>
                   Run(OnTheWay(s) \o Pending(o) \o inbound[o], {"data"}, got[s], sent[o])

\* Each eth_syncing call is answered once, in the order of the calls, though the
\* replies share the client's sink with the upstream's messages (websocket.rs
\* 297-316).
AnsweredInOrder ==
    ~gone["c"] =>
        /\ \E k \in 0..asked : Run(OnTheWay("c"), {"reply", "call"}, answered, k)
        /\ over = "no" /\ pump["c"] # "done" =>
               Run(OnTheWay("c") \o Pending("c") \o inbound["c"], {"reply", "call"}, answered, asked)

\* A peer that is told the tunnel closes, and did not ask for it, has received
\* all that the other one sent (websocket.rs 265-273, 328-336).
OrderlyClose ==
    \A s \in Sides : closeGot[s] /\ ~closeSent[s] => got[s] = sent[Other(s)]

Closed(s) == closeGot[s] \/ \E i \in 1..Len(outbound[s]) : outbound[s][i] = Close

\* When no peer broke off and none has stopped taking frames, a relay that ends
\* has sent a close to each side: the forwarded one or the acknowledgement.  A
\* stalled peer withholds it from both, because a pump acknowledges a close only
\* after it has passed it on (websocket.rs 266-272, 349-357).
ClosesBoth ==
    [][over' # "no" /\ ~broken /\ (\A s \in Sides : ~Stuck(s)) =>
           \A s \in Sides : Closed(s)]_over

Left == \E s \in Sides : gone[s] \/ closeSent[s]

\* While the peers go on reading, a relay ends once either of them has left or
\* closed: a pump that waits for the mutex or for a socket does not keep it
\* (websocket.rs 344-358).
EndsWhenRead == (Left /\ stalls = {}) ~> (over # "no")

\* websocket.rs 349-350: a broken peer does not keep the other half of a tunnel
\* alive.  Once a peer has left or closed, the relay ends.
EndsWithPeer == Left ~> (over # "no")

\* In plain mode what the client writes is taken, whether or not the client
\* reads: a message of the upstream that it does not fetch holds nothing up
\* (websocket.rs 270, 291-294).
ClientIsRead ==
    (~mocked /\ got["u"] < sent["c"]) ~> (got["u"] = sent["c"] \/ over # "no" \/ broken)

\* Calls are answered, or the tunnel ends (websocket.rs 302-312).
CallsAnswered == (answered < asked) ~> (answered = asked \/ over # "no" \/ gone["c"])
=============================================================================
