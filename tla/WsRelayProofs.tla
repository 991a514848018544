---------------------------- MODULE WsRelayProofs ----------------------------
(***************************************************************************)
(* Proofs about WsRelay, for any bounds: whatever the peers do and however *)
(* fast, a tunnel holds at most two frames for each side in memory;        *)
(* messages and replies arrive in order, once, and a running pump loses    *)
(* none; a forwarded close comes behind the data; and a relay that ends by *)
(* itself has told both sides.  Two inductive invariants carry it: IInv,   *)
(* of the frames in a socket's buffer and of who put them there, and, on   *)
(* top of it, Order, of where the numbered messages and the closes are.    *)
(***************************************************************************)
EXTENDS WsRelay, TLAPS

USE DEF sockets, pumps, timers, peers, vars, Sides

(***************************************************************************)
(* Where the frames of a socket's buffer come from.                        *)
(***************************************************************************)

\* The pump that reads from side s has put a frame into the buffer of s: a reply
\* to a call, or the acknowledgement of a close.
Own(w, q, h, s) == \/ w[s] = "byPeer" \/ q[s] = "done"
                   \/ q[s] = "flush" /\ Target(s, h[s]) = s

\* The other pump has: a message that it passes on, or its last one.
Far(q, h, s) == \/ q[Other(s)] \in {"linger", "done"}
                \/ q[Other(s)] = "flush" /\ Target(Other(s), h[Other(s)]) = s

\* Neither puts in a second one while its first may be there.
RoomOf(w, q, h, b) ==
    \A s \in Sides :
        /\ b[s] \in Seq(Message) /\ Len(b[s]) <= 2
        /\ ~Own(w, q, h, s) \/ ~Far(q, h, s) => Len(b[s]) <= 1
        /\ ~Own(w, q, h, s) /\ ~Far(q, h, s) => Len(b[s]) = 0
Room == RoomOf(ws, pump, held, buffer)

\* After the close of its side a pump reads nothing more, and only the client's
\* calls are answered.
Ending(s) == \/ pump[s] \in {"linger", "done"}
             \/ pump[s] \in {"lock", "flush"} /\ held[s] = Close
Closing == /\ \A s \in Sides : ws[s] \in {"byPeer", "acked"} => Ending(s)
           /\ held["u"].kind # "reply"

\* In mocked mode a pump that writes to the client holds the sink.
Guarded == \A p \in Sides : /\ sink = p <=> pump[p] = "flush" /\ Locks(p, held[p])
                            /\ pump[p] = "lock" => Locks(p, held[p])

IInv == TypeOK /\ Closing /\ Room /\ Guarded

(***************************************************************************)
(* Sending.                                                                *)
(***************************************************************************)

WsStates == {"active", "byPeer", "byUs", "acked", "terminated"}
PumpStates == {"read", "lock", "flush", "linger", "done"}

\* A close is a message, of its own kind.
LEMMA CloseMessage == Close \in Message /\ Close.kind = "close"
BY DEF Close, Msg, Message

\* A message goes to a side, and leaves its pump in one of the states.
LEMMA Targets ==
    ASSUME NEW p \in Sides, NEW m \in Message
    PROVE  Target(p, m) \in Sides /\ Other(p) \in Sides /\ Other(p) # p
           /\ AfterSend(m) \in PumpStates /\ AfterError(m) \in PumpStates
BY DEF Target, Other, AfterSend, AfterError, PumpStates

\* A send puts the message into the buffer, or is refused.
LEMMA StartSends ==
    ASSUME NEW p \in Sides, NEW m \in Message, NEW t \in Sides, t = Target(p, m),
           NEW w \in [Sides -> WsStates],
           NEW b, b \in [Sides -> Seq(Message)],
           pump \in [Sides -> PumpStates], held \in [Sides -> Message],
           StartSend(p, m, w, b)
    PROVE  /\ held' = [held EXCEPT ![p] = m]
           /\ ws' \in [Sides -> WsStates] /\ ws'[Other(t)] = w[Other(t)]
           /\ buffer' \in [Sides -> Seq(Message)] /\ buffer'[Other(t)] = b[Other(t)]
           /\ \/ /\ w[t] = "active" /\ ws'[t] \in {"active", "byUs"}
                 /\ Len(buffer'[t]) = Len(b[t]) + 1
                 /\ pump' = [pump EXCEPT ![p] = "flush"]
              \/ /\ ws'[t] = w[t] /\ buffer'[t] = b[t]
                 /\ pump' = [pump EXCEPT ![p] = AfterError(m)]
<1>1. CASE w[t] = "active"
  <2>1. /\ ws' = IF m.kind = "close" THEN [w EXCEPT ![t] = "byUs"] ELSE w
        /\ buffer' = [b EXCEPT ![t] = Append(b[t], m)]
        /\ pump' = [pump EXCEPT ![p] = "flush"]
        /\ held' = [held EXCEPT ![p] = m]
    BY <1>1 DEF StartSend, Goto
  <2>2. b[t] \in Seq(Message) /\ Append(b[t], m) \in Seq(Message)
        /\ Len(Append(b[t], m)) = Len(b[t]) + 1
    OBVIOUS
  <2>3. Other(t) \in Sides /\ Other(t) # t
    BY DEF Other
  <2>4. ws' \in [Sides -> WsStates] /\ ws'[Other(t)] = w[Other(t)] /\ ws'[t] \in {"active", "byUs"}
    BY <1>1, <2>1, <2>3 DEF WsStates
  <2>5. buffer' \in [Sides -> Seq(Message)] /\ buffer'[Other(t)] = b[Other(t)]
        /\ buffer'[t] = Append(b[t], m)
    BY <2>1, <2>2, <2>3
  <2> QED
    BY <1>1, <2>1, <2>2, <2>4, <2>5
<1>2. CASE w[t] # "active"
  BY <1>2 DEF StartSend, Goto, Other
<1> QED
  BY <1>1, <1>2

\* A send keeps the room, for its pump had put in nothing for that side.
LEMMA SendKeepsRoom ==
    ASSUME NEW p \in Sides, NEW m \in Message,
           NEW w \in [Sides -> WsStates],
           NEW b, b \in [Sides -> Seq(Message)],
           pump \in [Sides -> PumpStates], held \in [Sides -> Message],
           pump[p] \in {"read", "lock"}, m.kind = "reply" => p = "c",
           RoomOf(w, pump, held, b),
           StartSend(p, m, w, b)
    PROVE  Room'
<1> DEFINE t == Target(p, m)
           o == Other(p)
<1>1. t \in Sides /\ o \in Sides /\ o # p /\ Other(o) = p /\ (t = p \/ t = o) /\ Sides = {p, o}
  BY DEF Target, Other
<1>2. /\ held'[p] = m /\ held'[o] = held[o]
      /\ buffer' \in [Sides -> Seq(Message)] /\ pump'[o] = pump[o]
  BY <1>1, StartSends
<1>3. CASE w[t] = "active" /\ pump' = [pump EXCEPT ![p] = "flush"]
           /\ ws'[t] \in {"active", "byUs"} /\ Len(buffer'[t]) = Len(b[t]) + 1
  <2>1. ws'[Other(t)] = w[Other(t)] /\ buffer'[Other(t)] = b[Other(t)]
    BY <1>1, StartSends
  <2>2. pump'[p] = "flush"
    BY <1>3
  <2>3. CASE t = o
    <3>1. /\ buffer'[o] \in Seq(Message) /\ Len(buffer'[o]) = Len(b[o]) + 1 /\ Len(b[o]) \in Nat
          /\ buffer'[p] = b[p] /\ ws'[p] = w[p] /\ w[o] = "active" /\ ws'[o] # "byPeer"
      BY <1>1, <1>2, <1>3, <2>1, <2>3
    <3>2. /\ ~Far(pump, held, o) /\ Far(pump', held', o)
          /\ Own(w, pump, held, o) = Own(ws', pump', held', o)
      BY <1>1, <1>2, <2>2, <2>3, <3>1 DEF Far, Own
    <3>3. /\ Own(w, pump, held, p) => Own(ws', pump', held', p)
          /\ Far(pump, held, p) = Far(pump', held', p)
      BY <1>1, <1>2, <2>2, <3>1 DEF Far, Own
    <3>4. /\ Len(b[o]) <= 1 /\ (~Own(w, pump, held, o) => Len(b[o]) = 0)
          /\ b[p] \in Seq(Message) /\ Len(b[p]) <= 2 /\ Len(b[p]) \in Nat
          /\ ~Own(w, pump, held, p) \/ ~Far(pump, held, p) => Len(b[p]) <= 1
          /\ ~Own(w, pump, held, p) /\ ~Far(pump, held, p) => Len(b[p]) = 0
      BY <1>1, <3>2 DEF RoomOf
    <3>5. ASSUME NEW s \in Sides
          PROVE /\ buffer'[s] \in Seq(Message) /\ Len(buffer'[s]) <= 2
                /\ ~Own(ws', pump', held', s) \/ ~Far(pump', held', s) => Len(buffer'[s]) <= 1
                /\ ~Own(ws', pump', held', s) /\ ~Far(pump', held', s) => Len(buffer'[s]) = 0
      <4>1. CASE s = o
        BY <3>1, <3>2, <3>4, <4>1
      <4>2. CASE s = p
        BY <3>1, <3>3, <3>4, <4>2
      <4> QED
        BY <1>1, <4>1, <4>2
    <3> QED
      BY <3>5 DEF Room, RoomOf
  <2>4. CASE t = p
    <3>1. /\ buffer'[p] \in Seq(Message) /\ Len(buffer'[p]) = Len(b[p]) + 1 /\ Len(b[p]) \in Nat
          /\ buffer'[o] = b[o] /\ ws'[o] = w[o] /\ w[p] = "active" /\ ws'[p] # "byPeer"
      BY <1>1, <1>2, <1>3, <2>1, <2>4
    <3>2. /\ ~Own(w, pump, held, p) /\ Own(ws', pump', held', p)
          /\ Far(pump, held, p) = Far(pump', held', p)
      BY <1>1, <1>2, <2>2, <2>4, <3>1 DEF Far, Own
    <3>3. /\ Own(w, pump, held, o) = Own(ws', pump', held', o)
          /\ Far(pump, held, o) => Far(pump', held', o)
      BY <1>1, <1>2, <2>2, <3>1 DEF Far, Own
    <3>4. /\ Len(b[p]) <= 1 /\ (~Far(pump, held, p) => Len(b[p]) = 0)
          /\ b[o] \in Seq(Message) /\ Len(b[o]) <= 2 /\ Len(b[o]) \in Nat
          /\ ~Own(w, pump, held, o) \/ ~Far(pump, held, o) => Len(b[o]) <= 1
          /\ ~Own(w, pump, held, o) /\ ~Far(pump, held, o) => Len(b[o]) = 0
      BY <1>1, <3>2 DEF RoomOf
    <3>5. ASSUME NEW s \in Sides
          PROVE /\ buffer'[s] \in Seq(Message) /\ Len(buffer'[s]) <= 2
                /\ ~Own(ws', pump', held', s) \/ ~Far(pump', held', s) => Len(buffer'[s]) <= 1
                /\ ~Own(ws', pump', held', s) /\ ~Far(pump', held', s) => Len(buffer'[s]) = 0
      <4>1. CASE s = p
        BY <3>1, <3>2, <3>4, <4>1
      <4>2. CASE s = o
        BY <3>1, <3>3, <3>4, <4>2
      <4> QED
        BY <1>1, <4>1, <4>2
    <3> QED
      BY <3>5 DEF Room, RoomOf
  <2> QED
    BY <1>1, <2>3, <2>4
<1>4. CASE pump' = [pump EXCEPT ![p] = AfterError(m)] /\ ws'[t] = w[t] /\ buffer'[t] = b[t]
  <2>1. buffer'[p] = b[p] /\ buffer'[o] = b[o] /\ ws'[p] = w[p] /\ ws'[o] = w[o]
    BY <1>1, <1>4, StartSends
  <2>2. pump'[p] \in {"linger", "done"}
    BY <1>4 DEF AfterError
  <2>3. \A s \in Sides : /\ Own(w, pump, held, s) => Own(ws', pump', held', s)
                         /\ Far(pump, held, s) => Far(pump', held', s)
    BY <1>1, <1>2, <2>1, <2>2 DEF Own, Far
  <2>4. \A s \in Sides : buffer'[s] = b[s]
    BY <1>1, <2>1
  <2> QED
    BY <2>3, <2>4 DEF Room, RoomOf
<1> QED
  BY <1>1, <1>3, <1>4, StartSends

\* Passing on, be it at once or after the sink is locked.
LEMMA PassKeepsRoom ==
    ASSUME NEW p \in Sides, NEW m \in Message,
           NEW w \in [Sides -> WsStates],
           NEW b, b \in [Sides -> Seq(Message)],
           pump \in [Sides -> PumpStates], held \in [Sides -> Message],
           pump[p] = "read", m.kind = "reply" => p = "c",
           RoomOf(w, pump, held, b),
           PassOn(p, m, w, b)
    PROVE  /\ Room'
           /\ ws' \in [Sides -> WsStates] /\ pump' \in [Sides -> PumpStates]
           /\ held' = [held EXCEPT ![p] = m] /\ buffer' \in [Sides -> Seq(Message)]
           /\ pump'[p] \in {"lock", "flush", AfterError(m)} /\ pump'[Other(p)] = pump[Other(p)]
           /\ pump'[p] = "lock" <=> Locks(p, m)
           /\ \A s \in Sides : ws'[s] = w[s] \/ ws'[s] \in {"active", "byUs"}
<1> DEFINE o == Other(p)
<1>1. o \in Sides /\ o # p /\ Other(o) = p /\ Sides = {p, o}
  BY DEF Other
<1>2. CASE Locks(p, m)
  <2>1. pump' = [pump EXCEPT ![p] = "lock"] /\ held' = [held EXCEPT ![p] = m] /\ ws' = w /\ buffer' = b
    BY <1>2 DEF PassOn, Goto
  <2>2. pump'[p] = "lock" /\ pump'[o] = pump[o] /\ held'[o] = held[o]
    BY <1>1, <2>1
  <2>3. \A s \in Sides : /\ Own(w, pump, held, s) => Own(ws', pump', held', s)
                         /\ Far(pump, held, s) => Far(pump', held', s)
    BY <1>1, <2>1, <2>2 DEF Own, Far
  <2>4. Room'
    BY <2>1, <2>3 DEF Room, RoomOf
  <2> QED
    BY <1>2, <2>1, <2>2, <2>4 DEF PumpStates
<1>3. CASE ~Locks(p, m)
  <2>1. StartSend(p, m, w, b)
    BY <1>3 DEF PassOn
  <2>2. Room'
    BY <2>1, SendKeepsRoom
  <2> QED
    <3>1. AfterError(m) \in PumpStates /\ AfterError(m) # "lock"
      BY DEF AfterError, PumpStates
    <3>2. /\ held' = [held EXCEPT ![p] = m]
          /\ ws' \in [Sides -> WsStates] /\ buffer' \in [Sides -> Seq(Message)]
          /\ \A s \in Sides : ws'[s] = w[s] \/ ws'[s] \in {"active", "byUs"}
          /\ \/ pump' = [pump EXCEPT ![p] = "flush"]
             \/ pump' = [pump EXCEPT ![p] = AfterError(m)]
      BY <2>1, StartSends, Targets DEF Other
    <3>3. pump' \in [Sides -> PumpStates] /\ pump'[o] = pump[o]
          /\ pump'[p] \in {"flush", AfterError(m)}
      BY <1>1, <3>1, <3>2 DEF PumpStates
    <3> QED
      BY <1>3, <2>2, <3>1, <3>2, <3>3
<1> QED
  BY <1>2, <1>3

(***************************************************************************)
(* The steps of the relay.                                                 *)
(***************************************************************************)

\* The types, in the names of these proofs.
LEMMA Types ==
    ASSUME TypeOK
    PROVE  /\ ws \in [Sides -> WsStates] /\ pump \in [Sides -> PumpStates]
           /\ held \in [Sides -> Message]
           /\ \A s \in Sides : inbound[s] \in Seq(Message) /\ outbound[s] \in Seq(Message)
                               /\ buffer[s] \in Seq(Message)
BY DEF TypeOK, WsStates, PumpStates

\* What is read is a message, and the rest of the queue is one.
LEMMA NextOne ==
    ASSUME NEW S, NEW q \in Seq(S), q # <<>>
    PROVE  Head(q) \in S /\ Tail(q) \in Seq(S) /\ Len(Tail(q)) = Len(q) - 1 /\ Len(q) \in Nat
OBVIOUS

\* Where the frames, the sockets and the pumps are left as they are.
LEMMA RoomKept ==
    ASSUME Room, Closing, UNCHANGED <<ws, buffer, pump, held>>
    PROVE  Room' /\ Closing'
BY DEF Room, RoomOf, Own, Far, Closing, Ending

\* What a pump's step has in common: the queue to the peers, the clocks and the
\* peers are left alone.
Reading(p) == ReadData(p) \/ ReadClose(p) \/ (p = "c" /\ ReadCall)

\* A message that is read finds room, with the acknowledgement if it is a close.
LEMMA ReadingStep ==
    ASSUME TypeOK, Closing, Room, buffer \in [Sides -> Seq(Message)], NEW p \in Sides, Reading(p)
    PROVE  /\ Room' /\ Closing'
           /\ ws' \in [Sides -> WsStates] /\ pump' \in [Sides -> PumpStates]
           /\ held' \in [Sides -> Message] /\ buffer' \in [Sides -> Seq(Message)]
           /\ pump'[p] = "lock" <=> Locks(p, held'[p])
           /\ pump[p] = "read" /\ pump'[Other(p)] = pump[Other(p)] /\ held'[Other(p)] = held[Other(p)]
<1> DEFINE h == Head(inbound[p])
           o == Other(p)
<1> USE Types
<1>1. /\ pump[p] = "read" /\ h \in Message
      /\ ws[p] \notin {"byPeer", "acked"}
  <2>1. pump[p] = "read" /\ inbound[p] # <<>>
    BY DEF Reading, ReadData, ReadClose, ReadCall, NextMessage, At
  <2>2. inbound[p] \in Seq(Message)
    OBVIOUS
  <2> QED
    BY <2>1, <2>2, NextOne DEF Closing, Ending
<1>2. o \in Sides /\ o # p /\ Sides = {p, o}
  BY DEF Other
<1>3. CASE ReadData(p)
  <2>1. h.kind = "data" /\ PassOn(p, h, ws, buffer)
    BY <1>3 DEF ReadData, NextMessage
  <2>2. /\ Room' /\ ws' \in [Sides -> WsStates] /\ pump' \in [Sides -> PumpStates]
        /\ pump'[p] = "lock" <=> Locks(p, h)
        /\ held' = [held EXCEPT ![p] = h] /\ buffer' \in [Sides -> Seq(Message)] /\ pump'[o] = pump[o]
        /\ \A s \in Sides : ws'[s] = ws[s] \/ ws'[s] \in {"active", "byUs"}
    BY <1>1, <2>1, PassKeepsRoom DEF Room
  <2>3. Closing'
    BY <1>1, <1>2, <2>1, <2>2 DEF Closing, Ending
  <2> QED
    BY <1>1, <1>2, <2>2, <2>3
<1>4. CASE p = "c" /\ ReadCall
  <2>1. h.kind = "call" /\ PassOn(p, Msg("reply", h.n), ws, buffer)
    BY <1>4 DEF ReadCall, NextMessage
  <2>2. Msg("reply", h.n) \in Message /\ Msg("reply", h.n).kind = "reply"
    BY <1>1, <2>1 DEF Message, Msg
  <2>3. /\ Room' /\ ws' \in [Sides -> WsStates] /\ pump' \in [Sides -> PumpStates]
        /\ pump'[p] = "lock" <=> Locks(p, Msg("reply", h.n))
        /\ held' = [held EXCEPT ![p] = Msg("reply", h.n)] /\ buffer' \in [Sides -> Seq(Message)]
        /\ pump'[o] = pump[o]
        /\ \A s \in Sides : ws'[s] = ws[s] \/ ws'[s] \in {"active", "byUs"}
    BY <1>1, <1>4, <2>1, <2>2, PassKeepsRoom DEF Room
  <2>4. Closing'
    BY <1>1, <1>2, <1>4, <2>3 DEF Closing, Ending
  <2> QED
    BY <1>1, <1>2, <2>2, <2>3, <2>4
<1>5. CASE ReadClose(p)
  <2> DEFINE w == IF ws[p] = "active" THEN [ws EXCEPT ![p] = "byPeer"] ELSE [ws EXCEPT ![p] = "acked"]
             b == IF ws[p] = "active" THEN [buffer EXCEPT ![p] = Append(buffer[p], Close)] ELSE buffer
  <2>1. PassOn(p, Close, w, b)
    BY <1>5 DEF ReadClose
  <2>2. /\ w \in [Sides -> WsStates] /\ b \in [Sides -> Seq(Message)]
        /\ w[p] \in {"byPeer", "acked"} /\ w[o] = ws[o] /\ b[o] = buffer[o]
    BY <1>2, CloseMessage DEF WsStates
  <2>3. RoomOf(w, pump, held, b)
    <3>1. ~Own(ws, pump, held, p) /\ (Own(ws, pump, held, o) <=> Own(w, pump, held, o))
      BY <1>1, <2>2 DEF Own
    <3>2. /\ b[o] \in Seq(Message) /\ Len(b[o]) <= 2
          /\ ~Own(w, pump, held, o) \/ ~Far(pump, held, o) => Len(b[o]) <= 1
          /\ ~Own(w, pump, held, o) /\ ~Far(pump, held, o) => Len(b[o]) = 0
      BY <1>2, <2>2, <3>1 DEF Room, RoomOf
    <3>3. /\ buffer[p] \in Seq(Message) /\ Len(buffer[p]) <= 1 /\ Len(buffer[p]) \in Nat
          /\ ~Far(pump, held, p) => Len(buffer[p]) = 0
      BY <3>1 DEF Room, RoomOf
    <3>4. /\ b[p] \in Seq(Message) /\ Len(b[p]) <= 2
          /\ ~Own(w, pump, held, p) \/ ~Far(pump, held, p) => Len(b[p]) <= 1
          /\ ~Own(w, pump, held, p) /\ ~Far(pump, held, p) => Len(b[p]) = 0
      <4>1. CASE ws[p] = "active"
        <5>1. Own(w, pump, held, p) /\ b[p] = Append(buffer[p], Close)
          BY <4>1 DEF Own
        <5>2. b[p] \in Seq(Message) /\ Len(b[p]) = Len(buffer[p]) + 1
          BY <3>3, <5>1, CloseMessage
        <5> QED
          BY <3>3, <5>1, <5>2
      <4>2. CASE ws[p] # "active"
        <5>1. b[p] = buffer[p]
          BY <4>2
        <5> HIDE DEF w, b
        <5> QED
          BY <3>3, <5>1
      <4> QED
        BY <4>1, <4>2
    <3> HIDE DEF w, b
    <3> QED
      BY <1>2, <3>2, <3>4 DEF RoomOf
  <2> HIDE DEF w, b
  <2>4. /\ Room' /\ ws' \in [Sides -> WsStates] /\ pump' \in [Sides -> PumpStates]
        /\ pump'[p] = "lock" <=> Locks(p, Close)
        /\ held' = [held EXCEPT ![p] = Close] /\ buffer' \in [Sides -> Seq(Message)] /\ pump'[o] = pump[o]
        /\ pump'[p] \in {"lock", "flush", AfterError(Close)}
        /\ \A s \in Sides : ws'[s] = w[s] \/ ws'[s] \in {"active", "byUs"}
    BY <1>1, <2>1, <2>2, <2>3, CloseMessage, PassKeepsRoom
  <2>5. Ending(p)'
    BY <2>4, CloseMessage DEF Ending, AfterError
  <2>6. ws'[o] \in {"byPeer", "acked"} => Ending(o)'
    BY <1>2, <2>2, <2>4 DEF Closing, Ending
  <2>7. held'["u"].kind # "reply"
    BY <2>4, CloseMessage DEF Closing
  <2>8. Closing'
    BY <1>2, <2>5, <2>6, <2>7 DEF Closing
  <2> QED
    BY <1>1, <1>2, <2>4, <2>8, CloseMessage
<1> QED
  BY <1>3, <1>4, <1>5 DEF Reading

\* Every other step of a pump, of its socket, of a peer and of drain_pair.
LEMMA RoomStep ==
    ASSUME TypeOK, Closing, Room, [Next]_vars
    PROVE  Room' /\ Closing'
<1> USE Types
<1>1. ASSUME NEW p \in Sides, Reading(p) PROVE Room' /\ Closing'
  <2>1. buffer \in [Sides -> Seq(Message)]
    BY DEF TypeOK
  <2> QED
    BY <1>1, <2>1, ReadingStep
<1>2. ASSUME NEW p \in Sides, ReadFails(p) PROVE Room' /\ Closing'
  <2>1. /\ pump[p] = "read" /\ pump' = [pump EXCEPT ![p] = "done"] /\ UNCHANGED <<held, buffer>>
        /\ ws' = ws \/ ws' = [ws EXCEPT ![p] = "terminated"]
    BY <1>2 DEF ReadFails, NextMessage, At, Goto
  <2>2. \A s \in Sides : ws'[s] = ws[s] \/ (s = p /\ ws'[s] = "terminated")
    BY <2>1
  <2>3. \A s \in Sides : /\ Own(ws, pump, held, s) => Own(ws', pump', held', s)
                         /\ Far(pump, held, s) => Far(pump', held', s)
    BY <2>1, <2>2 DEF Own, Far, Other
  <2>4. Room'
    BY <2>1, <2>3 DEF Room, RoomOf
  <2>5. Closing'
    BY <2>1, <2>2 DEF Closing, Ending
  <2> QED
    BY <2>4, <2>5
<1>3. ASSUME NEW p \in Sides, Lock(p) PROVE Room' /\ Closing'
  <2>1. /\ pump[p] = "lock" /\ held[p] \in Message /\ StartSend(p, held[p], ws, buffer)
        /\ buffer \in [Sides -> Seq(Message)] /\ (held[p].kind = "reply" => p = "c")
    BY <1>3 DEF Lock, At, Closing, TypeOK
  <2>2. Room'
    BY <2>1, SendKeepsRoom DEF Room
  <2>3. held' = held /\ pump'[Other(p)] = pump[Other(p)]
        /\ pump'[p] \in {"flush", AfterError(held[p])}
    <3>1. /\ held' = [held EXCEPT ![p] = held[p]]
          /\ \/ pump' = [pump EXCEPT ![p] = "flush"]
             \/ pump' = [pump EXCEPT ![p] = AfterError(held[p])]
      BY <2>1, StartSends, Targets
    <3> QED
      BY <3>1 DEF Other
  <2>4. \A s \in Sides : ws'[s] = ws[s] \/ ws'[s] \in {"active", "byUs"}
    <3> DEFINE t == Target(p, held[p])
    <3>1. t \in Sides
      BY <2>1, Targets
    <3>2. ws'[Other(t)] = ws[Other(t)] /\ (ws'[t] = ws[t] \/ ws'[t] \in {"active", "byUs"})
      <4>1. /\ ws \in [Sides -> WsStates] /\ pump \in [Sides -> PumpStates]
            /\ held \in [Sides -> Message]
        BY DEF TypeOK
      <4> QED
        BY <2>1, <3>1, <4>1, StartSends
    <3> HIDE DEF t
    <3>3. \A s \in Sides : s = t \/ s = Other(t)
      BY <3>1 DEF Other
    <3> QED
      BY <3>2, <3>3
  <2>5. Closing'
    BY <2>1, <2>3, <2>4 DEF Closing, Ending, AfterError, Other, Close, Msg
  <2> QED
    BY <2>2, <2>5
<1>4. ASSUME NEW s \in Sides, Flush(s) PROVE Room' /\ Closing'
  <2>1. /\ UNCHANGED <<ws, pump, held>> /\ buffer[s] # <<>>
        /\ buffer' = [buffer EXCEPT ![s] = Tail(buffer[s])] /\ buffer \in [Sides -> Seq(Message)]
    BY <1>4 DEF Flush, TypeOK
  <2>2. buffer'[s] \in Seq(Message) /\ Len(buffer'[s]) = Len(buffer[s]) - 1 /\ Len(buffer[s]) \in Nat
    BY <2>1, NextOne
  <2>3. buffer[s] # <<>> => Len(buffer[s]) # 0
    OBVIOUS
  <2>4. Room'
    BY <2>1, <2>2, <2>3 DEF Room, RoomOf
  <2> QED
    BY <2>1, <2>4 DEF Closing, Ending
<1>5. ASSUME NEW p \in Sides, SendDone(p) PROVE Room' /\ Closing'
  <2> DEFINE t == Target(p, held[p])
  <2>1. /\ pump[p] = "flush" /\ buffer[t] = <<>> /\ t \in Sides
        /\ pump' = [pump EXCEPT ![p] = AfterSend(held[p])] /\ UNCHANGED <<ws, held, buffer>>
    BY <1>5, Targets DEF SendDone, At, Goto
  <2>2. Len(buffer'[t]) = 0
    BY <2>1
  <2>3. ASSUME NEW s \in Sides, s # t
        PROVE  /\ Own(ws, pump, held, s) => Own(ws', pump', held', s)
               /\ Far(pump, held, s) => Far(pump', held', s)
    BY <2>1, <2>3 DEF Own, Far, Other
  <2>4. Room'
    BY <2>1, <2>2, <2>3 DEF Room, RoomOf
  <2>5. Closing'
    BY <2>1, CloseMessage DEF Closing, Ending, AfterSend
  <2> QED
    BY <2>4, <2>5
<1>6. ASSUME NEW p \in Sides, SendFails(p) PROVE Room' /\ Closing'
  <2>1. /\ pump[p] = "flush" /\ pump' = [pump EXCEPT ![p] = AfterError(held[p])]
        /\ UNCHANGED <<ws, held, buffer>>
    BY <1>6 DEF SendFails, At, Goto
  <2>2. /\ pump'[p] \in {"linger", "done"} /\ (held[p].kind # "close" => pump'[p] = "done")
        /\ pump'[Other(p)] = pump[Other(p)]
    BY <2>1 DEF AfterError, Other
  <2>3. \A s \in Sides : /\ Own(ws, pump, held, s) => Own(ws', pump', held', s)
                         /\ Far(pump, held, s) => Far(pump', held', s)
    BY <2>1, <2>2 DEF Own, Far, Other, Target
  <2>4. Room'
    BY <2>1, <2>3 DEF Room, RoomOf
  <2>5. Closing'
    BY <2>1, <2>2 DEF Closing, Ending, Other
  <2> QED
    BY <2>4, <2>5
<1>7. ASSUME NEW p \in Sides, LastRead(p) PROVE Room' /\ Closing'
  <2>1. /\ pump[p] = "linger" /\ pump' = [pump EXCEPT ![p] = "done"]
        /\ UNCHANGED <<ws, held, buffer>>
    BY <1>7 DEF LastRead, At, Goto
  <2>2. \A s \in Sides : /\ Own(ws, pump, held, s) => Own(ws', pump', held', s)
                         /\ Far(pump, held, s) => Far(pump', held', s)
    BY <2>1 DEF Own, Far, Other
  <2>3. Room'
    BY <2>1, <2>2 DEF Room, RoomOf
  <2> QED
    BY <2>1, <2>3 DEF Closing, Ending
<1>8. ASSUME NEW s \in Sides, Peer(s) \/ (s = "c" /\ ReadNote) PROVE Room' /\ Closing'
  BY <1>8, RoomKept DEF Peer, PeerSends, PeerCloses, PeerErrs, PeerReads, PeerLeaves, Write,
                        ReadNote
<1>9. CASE ClientAsks \/ Finish \/ Tick \/ UNCHANGED vars
  BY <1>9, RoomKept DEF ClientAsks, Write, Finish, Tick
<1> QED
  BY <1>1, <1>2, <1>3, <1>4, <1>5, <1>6, <1>7, <1>8, <1>9
     DEF Next, Pump, Reading, Stutter

\* The sink is taken with the first write of a send, and given back at its end.
LEMMA GuardedStep ==
    ASSUME TypeOK, Closing, Room, Guarded, [Next]_vars
    PROVE  Guarded'
<1> USE Types
<1>1. ASSUME NEW p \in Sides, Reading(p) PROVE Guarded'
  <2>1. /\ pump'[p] = "lock" <=> Locks(p, held'[p])
        /\ pump[p] = "read" /\ pump'[Other(p)] = pump[Other(p)] /\ held'[Other(p)] = held[Other(p)]
        /\ pump'[p] \in PumpStates
    BY <1>1, ReadingStep DEF TypeOK
  <2>2. UNCHANGED <<mocked, sink>>
    BY <1>1 DEF Reading, ReadData, ReadClose, ReadCall, NextMessage, Rest
  <2> QED
    BY <2>1, <2>2 DEF Guarded, Locks, Other
<1>2. ASSUME NEW p \in Sides, ReadFails(p) PROVE Guarded'
  <2>1. /\ pump[p] = "read" /\ pump' = [pump EXCEPT ![p] = "done"]
        /\ UNCHANGED <<mocked, held, sink>>
    BY <1>2 DEF ReadFails, NextMessage, At, Goto, Rest
  <2> QED
    BY <2>1 DEF Guarded, Locks
<1>3. ASSUME NEW p \in Sides, Lock(p) PROVE Guarded'
  <2>1. /\ pump[p] = "lock" /\ sink = "free" /\ StartSend(p, held[p], ws, buffer)
        /\ sink' = IF pump'[p] = "flush" THEN p ELSE "free"
        /\ mocked' = mocked /\ buffer \in [Sides -> Seq(Message)] /\ held[p] \in Message
    BY <1>3 DEF Lock, At, Rest, TypeOK
  <2>2. /\ held' = [held EXCEPT ![p] = held[p]]
        /\ \/ pump' = [pump EXCEPT ![p] = "flush"]
           \/ pump' = [pump EXCEPT ![p] = AfterError(held[p])]
    BY <2>1, StartSends, Targets
  <2>3. /\ held' = held /\ pump'[Other(p)] = pump[Other(p)]
        /\ ~(pump[Other(p)] = "flush" /\ Locks(Other(p), held[Other(p)]))
    <3>1. held' = held
      BY <2>2
    <3>2. pump'[Other(p)] = pump[Other(p)]
      BY <2>2 DEF Other
    <3>3. ~(pump[Other(p)] = "flush" /\ Locks(Other(p), held[Other(p)]))
      BY <2>1 DEF Guarded, Other
    <3> QED
      BY <3>1, <3>2, <3>3
  <2>4. Locks(p, held[p]) /\ AfterError(held[p]) # "lock"
    BY <2>1 DEF Guarded, AfterError
  <2> QED
    BY <2>1, <2>2, <2>3, <2>4 DEF Guarded, Locks, Other
<1>4. ASSUME NEW p \in Sides, SendDone(p) \/ SendFails(p) PROVE Guarded'
  <2>1. /\ pump[p] = "flush" /\ UNCHANGED <<mocked, held>>
        /\ sink' = IF sink = p THEN "free" ELSE sink
        /\ \/ pump' = [pump EXCEPT ![p] = AfterSend(held[p])]
           \/ pump' = [pump EXCEPT ![p] = AfterError(held[p])]
    BY <1>4 DEF SendDone, SendFails, At, Goto, Unlock, Rest
  <2>2. pump'[p] \notin {"lock", "flush"} /\ pump'[Other(p)] = pump[Other(p)]
    BY <2>1 DEF AfterSend, AfterError, Other
  <2> QED
    BY <2>1, <2>2 DEF Guarded, Locks, Other
<1>5. ASSUME NEW p \in Sides, LastRead(p) PROVE Guarded'
  <2>1. /\ pump[p] = "linger" /\ pump' = [pump EXCEPT ![p] = "done"]
        /\ UNCHANGED <<mocked, held, sink>>
    BY <1>5 DEF LastRead, At, Goto
  <2> QED
    BY <2>1 DEF Guarded, Locks
<1>6. CASE UNCHANGED <<mocked, pump, held, sink>>
  BY <1>6 DEF Guarded, Locks
<1>7. ASSUME NEW s \in Sides, Peer(s) \/ (s = "c" /\ ReadNote) \/ Flush(s) PROVE Guarded'
  BY <1>6, <1>7 DEF Peer, PeerSends, PeerCloses, PeerErrs, PeerReads, PeerLeaves, Write, Flush,
                    ReadNote, NextMessage, Rest
<1>8. CASE ClientAsks \/ Finish \/ Tick \/ UNCHANGED vars
  BY <1>6, <1>8 DEF ClientAsks, Write, Finish, Tick
<1> QED
  BY <1>1, <1>2, <1>3, <1>4, <1>5, <1>7, <1>8 DEF Next, Pump, Reading, Stutter

\* A queue of which one side changes.
Queue(q) == q \in [Sides -> Seq(Message)] /\ \A s \in Sides : Len(q[s]) <= Cap

\* A bounded queue is a sequence of messages for each side.
LEMMA Queues ==
    ASSUME NEW q, Queue(q), NEW x \in Sides
    PROVE  /\ \A v \in Seq(Message) : Len(v) <= Cap => Queue([q EXCEPT ![x] = v])
           /\ q[x] # <<>> => Queue([q EXCEPT ![x] = Tail(q[x])])
           /\ \A m \in Message : Len(q[x]) < Cap => Queue([q EXCEPT ![x] = Append(q[x], m)])
<1>1. ASSUME NEW v \in Seq(Message), Len(v) <= Cap PROVE Queue([q EXCEPT ![x] = v])
  BY <1>1 DEF Queue
<1>2. q[x] \in Seq(Message) /\ Len(q[x]) <= Cap /\ Len(q[x]) \in Nat /\ Cap \in Nat
  BY RelayAssumption DEF Queue
<1>3. ASSUME q[x] # <<>> PROVE Queue([q EXCEPT ![x] = Tail(q[x])])
  BY <1>1, <1>2, <1>3, NextOne
<1>4. ASSUME NEW m \in Message, Len(q[x]) < Cap PROVE Queue([q EXCEPT ![x] = Append(q[x], m)])
  <2>1. Append(q[x], m) \in Seq(Message) /\ Len(Append(q[x], m)) = Len(q[x]) + 1
    BY <1>2
  <2> QED
    BY <1>1, <1>2, <1>4, <2>1
<1> QED
  BY <1>1, <1>3, <1>4

\* Values stay in their sets.
LEMMA TypeStep ==
    ASSUME TypeOK, Closing, Room, [Next]_vars
    PROVE  TypeOK'
<1> USE RelayAssumption, Types
<1> Queue(inbound) /\ Queue(outbound)
  BY DEF Queue, TypeOK
<1>1. Room' /\ \A s \in Sides : buffer'[s] \in Seq(Message) /\ Len(buffer'[s]) <= 2
  BY RoomStep DEF Room, RoomOf
<1>2. ASSUME NEW p \in Sides, Reading(p) PROVE TypeOK'
  <2>1. /\ inbound[p] # <<>> /\ inbound' = [inbound EXCEPT ![p] = Tail(inbound[p])]
        /\ UNCHANGED <<mocked, sink, outbound, timers, over, peers>>
    BY <1>2 DEF Reading, ReadData, ReadClose, ReadCall, NextMessage, Rest
  <2>2. Queue(inbound')
    BY <2>1, Queues
  <2>3. /\ ws' \in [Sides -> WsStates] /\ pump' \in [Sides -> PumpStates]
        /\ held' \in [Sides -> Message] /\ buffer' \in [Sides -> Seq(Message)]
    BY <1>2, ReadingStep DEF TypeOK
  <2> QED
    BY <1>1, <2>1, <2>2, <2>3 DEF TypeOK, Queue, WsStates, PumpStates
<1>3. ASSUME NEW p \in Sides, ReadFails(p) PROVE TypeOK'
  <2>1. /\ pump' = [pump EXCEPT ![p] = "done"]
        /\ UNCHANGED <<mocked, held, buffer, sink, outbound, timers, over, peers>>
        /\ ws' = ws \/ ws' = [ws EXCEPT ![p] = "terminated"]
        /\ \/ inbound' = inbound
           \/ inbound[p] # <<>> /\ inbound' = [inbound EXCEPT ![p] = Tail(inbound[p])]
    <3>1. CASE NextMessage(p, {"bad"}) /\ Goto(p, "done") /\ UNCHANGED <<sockets, held>>
      BY <3>1 DEF NextMessage, Goto, Rest
    <3>2. CASE ~NextMessage(p, {"bad"})
      BY <1>3, <3>2 DEF ReadFails, Goto, Rest
    <3> QED
      BY <1>3, <3>1, <3>2 DEF ReadFails, Goto, Rest, NextMessage
  <2>2. Queue(inbound')
    <3>1. CASE inbound' = inbound
      BY <3>1
    <3>2. CASE inbound[p] # <<>> /\ inbound' = [inbound EXCEPT ![p] = Tail(inbound[p])]
      BY <3>2, Queues
    <3> QED
      BY <2>1, <3>1, <3>2
  <2>3. ws' \in [Sides -> WsStates] /\ pump' \in [Sides -> PumpStates]
    BY <2>1 DEF WsStates, PumpStates
  <2> QED
    BY <2>1, <2>2, <2>3 DEF TypeOK, Queue, WsStates, PumpStates
<1>4. ASSUME NEW p \in Sides, Lock(p) PROVE TypeOK'
  <2>1. /\ StartSend(p, held[p], ws, buffer) /\ held[p] \in Message
        /\ buffer \in [Sides -> Seq(Message)]
        /\ sink' \in Sides \cup {"free"}
        /\ UNCHANGED <<mocked, inbound, outbound, timers, over, peers>>
    BY <1>4 DEF Lock, Rest, TypeOK
  <2>2. /\ ws' \in [Sides -> WsStates] /\ buffer' \in [Sides -> Seq(Message)]
        /\ held' \in [Sides -> Message] /\ pump' \in [Sides -> PumpStates]
    <3> DEFINE t == Target(p, held[p])
    <3>1. t \in Sides /\ Other(t) \in Sides /\ AfterError(held[p]) \in PumpStates
      BY <2>1, Targets
    <3> QED
      BY <2>1, <3>1, StartSends DEF PumpStates
  <2> QED
    BY <1>1, <2>1, <2>2 DEF TypeOK, WsStates, PumpStates
<1>5. ASSUME NEW s \in Sides, Flush(s) PROVE TypeOK'
  <2>1. /\ buffer[s] # <<>> /\ buffer' = [buffer EXCEPT ![s] = Tail(buffer[s])]
        /\ UNCHANGED <<mocked, ws, inbound, pumps, timers, over, peers>>
        /\ \/ outbound' = outbound
           \/ /\ Len(outbound[s]) < Cap
              /\ outbound' = [outbound EXCEPT ![s] = Append(outbound[s], Head(buffer[s]))]
    BY <1>5 DEF Flush
  <2>2. Head(buffer[s]) \in Message /\ Tail(buffer[s]) \in Seq(Message)
    BY <2>1, NextOne
  <2>3. Queue(outbound')
    <3>1. CASE outbound' = outbound
      BY <3>1
    <3>2. CASE outbound' # outbound
      <4>1. Len(outbound[s]) < Cap /\ outbound' = [outbound EXCEPT ![s] = Append(outbound[s], Head(buffer[s]))]
        BY <2>1, <3>2
      <4> QED
        BY <2>2, <4>1, Queues
    <3> QED
      BY <3>1, <3>2
  <2>4. buffer' \in [Sides -> Seq(Message)]
    BY <2>1, <2>2 DEF TypeOK
  <2> QED
    BY <1>1, <2>1, <2>3, <2>4 DEF TypeOK, Queue
<1>6. ASSUME NEW p \in Sides, SendDone(p) \/ SendFails(p) PROVE TypeOK'
  <2>1. /\ pump' = [pump EXCEPT ![p] = AfterSend(held[p])] \/ pump' = [pump EXCEPT ![p] = AfterError(held[p])]
        /\ sink' \in Sides \cup {"free"}
        /\ UNCHANGED <<mocked, sockets, held, inbound, outbound, timers, over, peers>>
    BY <1>6 DEF SendDone, SendFails, Goto, Unlock, Rest, TypeOK
  <2>2. pump' \in [Sides -> PumpStates]
    BY <2>1, Targets
  <2> QED
    BY <2>1, <2>2 DEF TypeOK, PumpStates
<1>7. ASSUME NEW p \in Sides, LastRead(p) PROVE TypeOK'
  BY <1>7 DEF LastRead, Goto, TypeOK, Stuck
<1>8. CASE ReadNote
  <2>1. /\ inbound["c"] # <<>> /\ inbound' = [inbound EXCEPT !["c"] = Tail(inbound["c"])]
        /\ UNCHANGED <<mocked, sockets, pump, held, sink, outbound, timers, over, peers>>
    BY <1>8 DEF ReadNote, NextMessage, Rest
  <2>2. Queue(inbound')
    BY <2>1, Queues
  <2> QED
    BY <2>1, <2>2 DEF TypeOK, Queue
<1>9. ASSUME NEW s \in Sides, NEW m \in Message, Write(s, m)
      PROVE  /\ Queue(inbound')
             /\ UNCHANGED <<mocked, sockets, outbound, pumps, timers, over, gone, closeGot, got, answered>>
  <2>1. /\ Len(inbound[s]) < Cap /\ inbound' = [inbound EXCEPT ![s] = Append(inbound[s], m)]
        /\ UNCHANGED <<mocked, sockets, outbound, pumps, timers, over, gone, closeGot, got, answered>>
    BY <1>9 DEF Write
  <2>2. Queue(inbound')
    BY <2>1, Queues
  <2> QED
    BY <2>1, <2>2
<1>10. ASSUME NEW s \in Sides, PeerSends(s) PROVE TypeOK'
  <2>1. sent[s] \in 0..MaxData /\ sent[s] + 1 \in 1..MaxData
    <3>1. sent[s] \in 0..MaxData
      BY DEF TypeOK
    <3>2. sent[s] < (IF mocked THEN MaxMixed ELSE MaxData)
      BY <1>10 DEF PeerSends
    <3>3. MaxMixed \in Nat /\ MaxMixed <= MaxData /\ MaxData \in Nat
      OBVIOUS
    <3>4. sent[s] < MaxData
      BY <3>1, <3>2, <3>3
    <3> QED
      BY <3>1, <3>3, <3>4
  <2>2. Msg("data", sent[s] + 1) \in Message
    BY <2>1 DEF Msg, Message
  <2>3. Write(s, Msg("data", sent[s] + 1)) /\ sent' = [sent EXCEPT ![s] = sent[s] + 1]
        /\ UNCHANGED <<broken, closeSent, asked>>
    BY <1>10 DEF PeerSends
  <2>4. sent' \in [Sides -> 0..MaxData]
    <3>1. sent \in [Sides -> 0..MaxData]
      BY DEF TypeOK
    <3>2. sent[s] + 1 \in 0..MaxData
      BY <2>1
    <3> QED
      BY <2>3, <3>1, <3>2
  <2>5. /\ Queue(inbound')
        /\ UNCHANGED <<mocked, sockets, outbound, pumps, timers, over, gone, closeGot, got, answered>>
    BY <1>9, <2>2, <2>3
  <2> QED
    BY <2>3, <2>4, <2>5 DEF TypeOK, Queue
<1>11. CASE ClientAsks
  <2>1. \A n \in 1..MaxCalls : Msg("call", n) \in Message
    BY DEF Msg, Message
  <2>2. Msg("note", 0) \in Message
    BY DEF Msg, Message
  <2>3. CASE asked < MaxCalls /\ Write("c", Msg("call", asked + 1)) /\ asked' = asked + 1
    <3>1. asked + 1 \in 1..MaxCalls
      BY <2>3 DEF TypeOK
    <3>2. /\ Queue(inbound')
          /\ UNCHANGED <<mocked, sockets, outbound, pumps, timers, over, gone, closeGot, got, answered>>
      BY <1>9, <2>1, <2>3, <3>1
    <3>3. UNCHANGED <<broken, closeSent, sent>>
      BY <1>11 DEF ClientAsks
    <3>4. asked' \in 0..MaxCalls
      BY <2>3, <3>1
    <3> QED
      BY <3>2, <3>3, <3>4 DEF TypeOK, Queue
  <2>4. CASE Write("c", Msg("note", 0)) /\ UNCHANGED asked
    BY <1>9, <1>11, <2>2, <2>4 DEF ClientAsks, TypeOK, Queue
  <2> QED
    BY <1>11, <2>3, <2>4 DEF ClientAsks
<1>12. ASSUME NEW s \in Sides, PeerCloses(s) PROVE TypeOK'
  BY <1>9, <1>12, CloseMessage DEF PeerCloses, TypeOK, Queue
<1>13. ASSUME NEW s \in Sides, PeerErrs(s) PROVE TypeOK'
  <2>1. Msg("bad", 0) \in Message
    BY DEF Msg, Message
  <2> QED
    BY <1>9, <1>13, <2>1 DEF PeerErrs, TypeOK, Queue
<1>14. ASSUME NEW s \in Sides, PeerReads(s) PROVE TypeOK'
  <2> DEFINE m == Head(outbound[s])
  <2>1. /\ m \in Message /\ outbound[s] # <<>>
        /\ outbound' = [outbound EXCEPT ![s] = Tail(outbound[s])]
    BY <1>14, NextOne DEF PeerReads
  <2>2. /\ m.kind = "data" => m.n \in 0..MaxData
        /\ m.kind = "reply" => m.n \in 0..MaxCalls
    BY <2>1 DEF Message
  <2>3. Queue(outbound')
    BY <2>1, Queues
  <2>4. /\ got' \in [Sides -> 0..MaxData] /\ answered' \in 0..MaxCalls
        /\ closeGot' \in [Sides -> BOOLEAN]
    BY <1>14, <2>2 DEF PeerReads, TypeOK
  <2> QED
    BY <1>14, <2>3, <2>4 DEF PeerReads, TypeOK, Queue
<1>15. ASSUME NEW s \in Sides, PeerLeaves(s) PROVE TypeOK'
  <2>1. /\ outbound' = [outbound EXCEPT ![s] = <<>>]
        /\ inbound' = inbound \/ inbound' = [inbound EXCEPT ![s] = <<>>]
        /\ gone' \in [Sides -> BOOLEAN] /\ broken' \in BOOLEAN
        /\ UNCHANGED <<mocked, sockets, pumps, timers, over, closeSent, closeGot, sent, got,
                       asked, answered>>
    BY <1>15 DEF PeerLeaves, TypeOK
  <2>2. <<>> \in Seq(Message) /\ Len(<<>>) <= Cap
    OBVIOUS
  <2>3. Queue([inbound EXCEPT ![s] = <<>>]) /\ Queue([outbound EXCEPT ![s] = <<>>])
    BY <2>2, Queues
  <2>4. Queue(outbound') /\ Queue(inbound')
    BY <2>1, <2>3
  <2> QED
    BY <2>1, <2>4 DEF TypeOK, Queue
<1>16. CASE Finish
  BY <1>16 DEF Finish, TypeOK
<1>17. CASE Tick
  <2>1. waited' \in 0..Second
    BY <1>17 DEF Tick, TypeOK
  <2>2. lingered' \in [Sides -> 0..Second]
    <3>1. lingered' = [p \in Sides |-> IF pump[p] = "linger" THEN lingered[p] + 1 ELSE lingered[p]]
      BY <1>17 DEF Tick
    <3>2. \A p \in Sides : pump[p] = "linger" => lingered[p] < Second
      BY <1>17 DEF Tick
    <3>3. \A p \in Sides : lingered[p] \in 0..Second
      BY DEF TypeOK
    <3>4. \A p \in Sides : pump[p] = "linger" => lingered[p] + 1 \in 0..Second
      BY <3>2, <3>3
    <3> QED
      BY <3>1, <3>3, <3>4
  <2> QED
    BY <1>17, <2>1, <2>2 DEF Tick, TypeOK
<1>18. CASE UNCHANGED vars
  BY <1>18 DEF TypeOK
<1> QED
  BY <1>2, <1>3, <1>4, <1>5, <1>6, <1>7, <1>8, <1>10, <1>11, <1>12, <1>13, <1>14, <1>15, <1>16, <1>17,
     <1>18 DEF Next, Pump, Peer, Reading, Stutter

(***************************************************************************)
(* Runs of numbered messages: what a queue contributes to a lane.          *)
(***************************************************************************)

\* The same, number by number.
Numbers(q, K, lo, hi) ==
    /\ lo <= hi
    /\ \A i \in 1..Len(q) : q[i].kind \in K => q[i].n \in (lo + 1)..hi
    /\ \A x \in (lo + 1)..hi : \E i \in 1..Len(q) : q[i].kind \in K /\ q[i].n = x
    /\ \A i, j \in 1..Len(q) : i < j /\ q[i].kind \in K /\ q[j].kind \in K => q[i].n < q[j].n

\* A run, number by number.
LEMMA RunNumbers ==
    ASSUME NEW q, NEW K, NEW lo \in Nat, NEW hi \in Nat
    PROVE  Run(q, K, lo, hi) <=> Numbers(q, K, lo, hi)
BY DEF Run, Numbers

\* Messages are numbered.
LEMMA MessageNumbers == \A m \in Message : m.n \in Nat
BY RelayAssumption DEF Message

\* An empty queue contributes nothing.
LEMMA RunEmpty ==
    ASSUME NEW K, NEW lo \in Nat, NEW hi \in Nat
    PROVE  Run(<<>>, K, lo, hi) <=> lo = hi
<1>1. Len(<<>>) = 0 /\ 1..0 = {}
  OBVIOUS
<1>2. lo < hi => hi \in (lo + 1)..hi
  OBVIOUS
<1>3. lo = hi => (lo + 1)..hi = {}
  OBVIOUS
<1>4. Numbers(<<>>, K, lo, hi) => lo = hi
  BY <1>1, <1>2 DEF Numbers
<1>5. lo = hi => Numbers(<<>>, K, lo, hi)
  BY <1>1, <1>3 DEF Numbers
<1> QED
  BY <1>4, <1>5, RunNumbers

\* Nor does one without a message of the kinds.
LEMMA RunNone ==
    ASSUME NEW q \in Seq(Message), NEW K, NEW lo \in Nat, NEW hi \in Nat, lo <= hi
    PROVE  (\A i \in 1..Len(q) : q[i].kind \notin K) => (Run(q, K, lo, hi) <=> lo = hi)
<1> SUFFICES ASSUME \A i \in 1..Len(q) : q[i].kind \notin K
             PROVE  Run(q, K, lo, hi) <=> lo = hi
  OBVIOUS
<1>1. lo < hi => hi \in (lo + 1)..hi
  OBVIOUS
<1>2. lo = hi => (lo + 1)..hi = {}
  OBVIOUS
<1>3. Numbers(q, K, lo, hi) => lo = hi
  BY <1>1 DEF Numbers
<1>4. lo = hi => Numbers(q, K, lo, hi)
  BY <1>2 DEF Numbers
<1> QED
  BY <1>3, <1>4, RunNumbers

\* A queue that contributes nothing has no message of the kinds.
LEMMA RunSame ==
    ASSUME NEW q \in Seq(Message), NEW K, NEW lo \in Nat, Run(q, K, lo, lo)
    PROVE  \A i \in 1..Len(q) : q[i].kind \notin K
BY RunNumbers DEF Numbers

\* A queue contributes one run.
LEMMA RunUnique ==
    ASSUME NEW q \in Seq(Message), NEW K, NEW lo \in Nat, NEW a \in Nat, NEW b \in Nat,
           Run(q, K, lo, a), Run(q, K, lo, b)
    PROVE  a = b
<1>1. Numbers(q, K, lo, a) /\ Numbers(q, K, lo, b)
  BY RunNumbers
<1>2. ASSUME NEW x \in Nat, NEW y \in Nat, Numbers(q, K, lo, x), Numbers(q, K, lo, y), x < y PROVE FALSE
  <2>1. y \in (lo + 1)..y
    BY <1>2 DEF Numbers
  <2>2. PICK i \in 1..Len(q) : q[i].kind \in K /\ q[i].n = y
    BY <1>2, <2>1 DEF Numbers
  <2>3. q[i].n \in (lo + 1)..x
    BY <1>2, <2>2 DEF Numbers
  <2> QED
    BY <1>2, <2>2, <2>3
<1> QED
  BY <1>1, <1>2

\* One message contributes its number, or nothing.
LEMMA RunOne ==
    ASSUME NEW m \in Message, NEW K, NEW lo \in Nat, NEW hi \in Nat
    PROVE  /\ m.kind \in K /\ m.n = lo + 1 /\ hi = lo + 1 => Run(<<m>>, K, lo, hi)
           /\ m.kind \notin K /\ hi = lo => Run(<<m>>, K, lo, hi)
<1>1. Len(<<m>>) = 1 /\ <<m>>[1] = m /\ 1..1 = {1} /\ (lo + 1)..(lo + 1) = {lo + 1} /\ (lo + 1)..lo = {}
  OBVIOUS
<1>2. m.kind \in K /\ m.n = lo + 1 /\ hi = lo + 1 => Numbers(<<m>>, K, lo, hi)
  BY <1>1 DEF Numbers
<1>3. m.kind \notin K /\ hi = lo => Numbers(<<m>>, K, lo, hi)
  BY <1>1 DEF Numbers
<1> QED
  BY <1>2, <1>3, RunNumbers

\* And no more.
LEMMA RunOneOnly ==
    ASSUME NEW m \in Message, NEW K, NEW lo \in Nat, NEW hi \in Nat, Run(<<m>>, K, lo, hi)
    PROVE  /\ m.kind \in K => m.n = lo + 1 /\ hi = lo + 1
           /\ m.kind \notin K => hi = lo
<1>1. Numbers(<<m>>, K, lo, hi)
  BY RunNumbers
<1>2. Len(<<m>>) = 1 /\ <<m>>[1] = m
  OBVIOUS
<1>3. \A x \in (lo + 1)..hi : m.kind \in K /\ m.n = x
  BY <1>1, <1>2 DEF Numbers
<1>4. lo <= hi /\ (m.kind \in K => m.n \in (lo + 1)..hi)
  BY <1>1, <1>2 DEF Numbers
<1>5. hi > lo => hi \in (lo + 1)..hi /\ lo + 1 \in (lo + 1)..hi
  OBVIOUS
<1> QED
  BY <1>3, <1>4, <1>5

\* A queue grows by the next number, or by nothing.
LEMMA RunAppend ==
    ASSUME NEW q \in Seq(Message), NEW m \in Message, NEW K, NEW lo \in Nat, NEW hi \in Nat,
           Run(q, K, lo, hi)
    PROVE  /\ m.kind \notin K => Run(Append(q, m), K, lo, hi)
           /\ m.kind \in K /\ m.n = hi + 1 => Run(Append(q, m), K, lo, hi + 1)
<1>1. Numbers(q, K, lo, hi)
  BY RunNumbers
<1> DEFINE r == Append(q, m)
<1>2. /\ Len(r) = Len(q) + 1 /\ r[Len(q) + 1] = m /\ \A i \in 1..Len(q) : r[i] = q[i]
      /\ Len(q) \in Nat
  OBVIOUS
<1>3. ASSUME m.kind \notin K PROVE Run(r, K, lo, hi)
  <2> HIDE DEF r
  <2>1. \A i \in 1..Len(r) : r[i].kind \in K => i \in 1..Len(q) /\ r[i] = q[i]
    BY <1>2, <1>3
  <2>2. 1..Len(q) \subseteq 1..Len(r)
    BY <1>2
  <2>3. \A x \in (lo + 1)..hi : \E i \in 1..Len(r) : r[i].kind \in K /\ r[i].n = x
    BY <1>1, <1>2, <2>2 DEF Numbers
  <2>4. Numbers(r, K, lo, hi)
    BY <1>1, <2>1, <2>3 DEF Numbers
  <2> QED
    BY <2>4, RunNumbers
<1>4. ASSUME m.kind \in K, m.n = hi + 1 PROVE Run(r, K, lo, hi + 1)
  <2> HIDE DEF r
  <2>1. \A i \in 1..Len(r) : r[i].kind \in K => r[i].n \in (lo + 1)..(hi + 1)
    BY <1>1, <1>2, <1>4 DEF Numbers
  <2>2. \A x \in (lo + 1)..(hi + 1) : \E i \in 1..Len(r) : r[i].kind \in K /\ r[i].n = x
    <3> TAKE x \in (lo + 1)..(hi + 1)
    <3>1. CASE x = hi + 1
      BY <1>2, <1>4, <3>1
    <3>2. CASE x \in (lo + 1)..hi
      <4>1. PICK i \in 1..Len(q) : q[i].kind \in K /\ q[i].n = x
        BY <1>1, <3>2 DEF Numbers
      <4>2. i \in 1..Len(r) /\ r[i] = q[i]
        BY <1>2
      <4> QED
        BY <4>1, <4>2
    <3> QED
      BY <1>1, <3>1, <3>2 DEF Numbers
  <2>3. \A i, j \in 1..Len(r) : i < j /\ r[i].kind \in K /\ r[j].kind \in K => r[i].n < r[j].n
    <3> TAKE i, j \in 1..Len(r)
    <3> HAVE i < j /\ r[i].kind \in K /\ r[j].kind \in K
    <3>1. i \in 1..Len(q)
      BY <1>2
    <3>2. CASE j \in 1..Len(q)
      BY <1>1, <1>2, <3>1, <3>2 DEF Numbers
    <3>3. CASE j = Len(q) + 1
      <4>1. q[i].n \in (lo + 1)..hi /\ r[j].n = hi + 1
        BY <1>1, <1>2, <1>4, <3>1, <3>3 DEF Numbers
      <4> QED
        BY <1>2, <3>1, <4>1
    <3> QED
      BY <1>2, <3>2, <3>3
  <2>4. lo <= hi + 1
    BY <1>1 DEF Numbers
  <2>5. Numbers(r, K, lo, hi + 1)
    BY <2>1, <2>2, <2>3, <2>4 DEF Numbers
  <2> QED
    BY <2>5, RunNumbers
<1> QED
  BY <1>3, <1>4

\* The first message of a run has its first number.
LEMMA RunTail ==
    ASSUME NEW q \in Seq(Message), q # <<>>, NEW K, NEW lo \in Nat, NEW hi \in Nat,
           Run(q, K, lo, hi)
    PROVE  /\ Head(q).kind \notin K => Run(Tail(q), K, lo, hi)
           /\ Head(q).kind \in K => /\ Head(q).n = lo + 1 /\ lo + 1 <= hi
                                    /\ Run(Tail(q), K, lo + 1, hi)
<1>1. Numbers(q, K, lo, hi)
  BY RunNumbers
<1> DEFINE r == Tail(q)
<1>2. /\ Len(r) = Len(q) - 1 /\ Len(q) \in Nat \ {0} /\ Head(q) = q[1]
      /\ \A i \in 1..Len(r) : r[i] = q[i + 1]
      /\ q[1] \in Message
  OBVIOUS
<1>3. \A i \in 2..Len(q) : i - 1 \in 1..Len(r) /\ r[i - 1] = q[i]
  <2> HIDE DEF r
  <2> QED BY <1>2
<1>4. \A i \in 1..Len(r) : i + 1 \in 1..Len(q)
  <2> HIDE DEF r
  <2> QED BY <1>2
<1>5. \A i, j \in 1..Len(r) : i < j /\ r[i].kind \in K /\ r[j].kind \in K => r[i].n < r[j].n
  <2> TAKE i, j \in 1..Len(r)
  <2> HIDE DEF r
  <2> HAVE i < j /\ r[i].kind \in K /\ r[j].kind \in K
  <2>1. i + 1 \in 1..Len(q) /\ j + 1 \in 1..Len(q) /\ i + 1 < j + 1 /\ r[i] = q[i + 1] /\ r[j] = q[j + 1]
    BY <1>2, <1>4
  <2> QED
    BY <1>1, <2>1 DEF Numbers
<1>6. ASSUME Head(q).kind \notin K PROVE Run(r, K, lo, hi)
  <2> HIDE DEF r
  <2>1. \A x \in (lo + 1)..hi : \E i \in 1..Len(r) : r[i].kind \in K /\ r[i].n = x
    <3> TAKE x \in (lo + 1)..hi
    <3>1. PICK i \in 1..Len(q) : q[i].kind \in K /\ q[i].n = x
      BY <1>1 DEF Numbers
    <3>2. i \in 2..Len(q)
      BY <1>2, <1>6, <3>1
    <3> QED
      BY <1>3, <3>1, <3>2
  <2>2. \A i \in 1..Len(r) : r[i].kind \in K => r[i].n \in (lo + 1)..hi
    BY <1>1, <1>2, <1>4 DEF Numbers
  <2>3. \A i, j \in 1..Len(r) : i < j /\ r[i].kind \in K /\ r[j].kind \in K => r[i].n < r[j].n
    BY <1>5
  <2>4. Numbers(r, K, lo, hi)
    BY <1>1, <2>1, <2>2, <2>3 DEF Numbers
  <2> QED
    BY <2>4, RunNumbers
<1>7. ASSUME Head(q).kind \in K PROVE Head(q).n = lo + 1 /\ lo + 1 <= hi /\ Run(r, K, lo + 1, hi)
  <2> HIDE DEF r
  <2>1. q[1].kind \in K /\ q[1].n \in (lo + 1)..hi /\ q[1].n \in Nat
    BY <1>1, <1>2, <1>7, MessageNumbers DEF Numbers
  <2>2. lo + 1 \in (lo + 1)..hi
    BY <2>1
  <2>3. PICK i \in 1..Len(q) : q[i].kind \in K /\ q[i].n = lo + 1
    BY <1>1, <2>2 DEF Numbers
  <2>4. i = 1
    <3> SUFFICES ASSUME 1 < i PROVE FALSE
      OBVIOUS
    <3>1. q[1].n < q[i].n
      <4>1. 1 \in 1..Len(q)
        BY <1>2
      <4> QED
        BY <1>1, <2>1, <2>3, <4>1 DEF Numbers
    <3> QED
      BY <2>1, <2>3, <3>1
  <2>5. \A j \in 1..Len(r) : r[j].kind \in K => r[j].n \in (lo + 1 + 1)..hi
    <3> TAKE j \in 1..Len(r)
    <3> HAVE r[j].kind \in K
    <3>1. 1 \in 1..Len(q) /\ j + 1 \in 1..Len(q) /\ 1 < j + 1
      BY <1>2
    <3>2. q[j + 1].kind \in K /\ r[j].n = q[j + 1].n
      BY <1>2
    <3>3. q[j + 1].n \in (lo + 1)..hi /\ q[1].n < q[j + 1].n
      BY <1>1, <2>1, <3>1, <3>2 DEF Numbers
    <3> QED
      BY <2>3, <2>4, <3>2, <3>3
  <2>6. \A x \in (lo + 1 + 1)..hi : \E j \in 1..Len(r) : r[j].kind \in K /\ r[j].n = x
    <3> TAKE x \in (lo + 1 + 1)..hi
    <3>1. PICK j \in 1..Len(q) : q[j].kind \in K /\ q[j].n = x
      BY <1>1 DEF Numbers
    <3>2. j \in 2..Len(q)
      BY <1>2, <2>3, <2>4, <3>1
    <3> QED
      BY <1>3, <3>1, <3>2
  <2>7. Numbers(r, K, lo + 1, hi)
    BY <1>5, <2>2, <2>5, <2>6 DEF Numbers
  <2> QED
    BY <1>2, <2>2, <2>3, <2>4, <2>7, RunNumbers
<1> QED
  BY <1>6, <1>7

\* Two runs that meet make one.
LEMMA RunConcat ==
    ASSUME NEW q \in Seq(Message), NEW r \in Seq(Message), NEW K,
           NEW lo \in Nat, NEW mid \in Nat, NEW hi \in Nat,
           Run(q, K, lo, mid), Run(r, K, mid, hi)
    PROVE  q \o r \in Seq(Message) /\ Run(q \o r, K, lo, hi)
<1>1. Numbers(q, K, lo, mid) /\ Numbers(r, K, mid, hi)
  BY RunNumbers
<1> DEFINE t == q \o r
<1>2. /\ t \in Seq(Message) /\ Len(t) = Len(q) + Len(r) /\ Len(q) \in Nat /\ Len(r) \in Nat
      /\ \A i \in 1..Len(q) : t[i] = q[i]
      /\ \A i \in 1..Len(r) : t[Len(q) + i] = r[i]
  OBVIOUS
<1>3. \A i \in 1..Len(t) : \/ i \in 1..Len(q) /\ t[i] = q[i]
                           \/ i > Len(q) /\ i - Len(q) \in 1..Len(r) /\ t[i] = r[i - Len(q)]
  <2> TAKE i \in 1..Len(t)
  <2> HIDE DEF t
  <2>1. CASE i > Len(q)
    <3>1. i - Len(q) \in 1..Len(r) /\ Len(q) + (i - Len(q)) = i
      BY <1>2, <2>1
    <3>2. t[Len(q) + (i - Len(q))] = r[i - Len(q)]
      BY <1>2, <3>1
    <3> QED
      BY <2>1, <3>1, <3>2
  <2>2. CASE i <= Len(q)
    BY <1>2, <2>2
  <2> QED
    BY <1>2, <2>1, <2>2
<1> HIDE DEF t
<1>4. \A i \in 1..Len(t) : t[i].kind \in K =>
          \/ i <= Len(q) /\ t[i].n \in (lo + 1)..mid
          \/ i > Len(q) /\ t[i].n \in (mid + 1)..hi
  <2> TAKE i \in 1..Len(t)
  <2> HAVE t[i].kind \in K
  <2>1. CASE i \in 1..Len(q) /\ t[i] = q[i]
    BY <1>1, <1>2, <2>1 DEF Numbers
  <2>2. CASE i > Len(q) /\ i - Len(q) \in 1..Len(r) /\ t[i] = r[i - Len(q)]
    <3>1. r[i - Len(q)].n \in (mid + 1)..hi
      BY <1>1, <2>2 DEF Numbers
    <3> QED
      BY <2>2, <3>1
  <2> QED
    BY <1>3, <2>1, <2>2
<1>5. lo <= mid /\ mid <= hi
  BY <1>1 DEF Numbers
<1>6. \A x \in (lo + 1)..hi : \E i \in 1..Len(t) : t[i].kind \in K /\ t[i].n = x
  <2> TAKE x \in (lo + 1)..hi
  <2>1. CASE x \in (lo + 1)..mid
    <3>1. PICK i \in 1..Len(q) : q[i].kind \in K /\ q[i].n = x
      BY <1>1, <2>1 DEF Numbers
    <3>2. i \in 1..Len(t) /\ t[i] = q[i]
      BY <1>2
    <3> QED
      BY <3>1, <3>2
  <2>2. CASE x \in (mid + 1)..hi
    <3>1. PICK i \in 1..Len(r) : r[i].kind \in K /\ r[i].n = x
      BY <1>1, <2>2 DEF Numbers
    <3>2. Len(q) + i \in 1..Len(t) /\ t[Len(q) + i] = r[i]
      BY <1>2
    <3> QED
      BY <3>1, <3>2
  <2> QED
    BY <2>1, <2>2
<1>7. \A i, j \in 1..Len(t) : i < j /\ t[i].kind \in K /\ t[j].kind \in K => t[i].n < t[j].n
  <2> TAKE i, j \in 1..Len(t)
  <2> HAVE i < j /\ t[i].kind \in K /\ t[j].kind \in K
  <2>1. CASE j <= Len(q)
    <3>1. i \in 1..Len(q) /\ j \in 1..Len(q) /\ t[i] = q[i] /\ t[j] = q[j]
      BY <1>2, <2>1
    <3> QED
      BY <1>1, <3>1 DEF Numbers
  <2>2. CASE i > Len(q)
    <3>1. /\ i - Len(q) \in 1..Len(r) /\ j - Len(q) \in 1..Len(r) /\ i - Len(q) < j - Len(q)
          /\ t[i] = r[i - Len(q)] /\ t[j] = r[j - Len(q)]
      BY <1>2, <1>3, <2>2
    <3> QED
      BY <1>1, <3>1 DEF Numbers
  <2>3. CASE i <= Len(q) /\ j > Len(q)
    BY <1>4, <2>3
  <2> QED
    BY <1>2, <2>1, <2>2, <2>3
<1>8. \A i \in 1..Len(t) : t[i].kind \in K => t[i].n \in (lo + 1)..hi
  BY <1>4, <1>5
<1>9. Numbers(t, K, lo, hi)
  BY <1>5, <1>6, <1>7, <1>8 DEF Numbers
<1> QED
  BY <1>2, <1>9, RunNumbers DEF t

(***************************************************************************)
(* Lanes: the runs between a peer and the other one, from the nearest queue *)
(* to the farthest.                                                        *)
(***************************************************************************)

\* A message of kind k is in q.
Has(q, k) == \E i \in 1..Len(q) : q[i].kind = k

\* The two stretches in front of a peer: flushed to it, and buffered for it.
Stretch(out, buf, K, lo, b) == \E a \in Nat : Run(out, K, lo, a) /\ Run(buf, K, a, b)

\* The whole lane: those, the message in a pump's hand, and what it has not read.
Lane(out, buf, hand, in, K, lo, d) ==
    \E b, e \in Nat : Stretch(out, buf, K, lo, b) /\ Run(hand, K, b, e) /\ Run(in, K, e, d)

\* A message of another kind is put into the buffer.
LEMMA StretchAdd ==
    ASSUME NEW out \in Seq(Message), NEW buf \in Seq(Message), NEW K, NEW lo \in Nat, NEW b \in Nat,
           NEW m \in Message, m.kind \notin K, Stretch(out, buf, K, lo, b)
    PROVE  Stretch(out, Append(buf, m), K, lo, b)
BY RunAppend DEF Stretch

\* A flush moves a message within the stretch.
LEMMA StretchFlush ==
    ASSUME NEW out \in Seq(Message), NEW buf \in Seq(Message), NEW K, NEW lo \in Nat, NEW b \in Nat,
           buf # <<>>, Stretch(out, buf, K, lo, b)
    PROVE  Stretch(Append(out, Head(buf)), Tail(buf), K, lo, b)
<1>1. PICK a \in Nat : Run(out, K, lo, a) /\ Run(buf, K, a, b)
  BY DEF Stretch
<1>2. Head(buf) \in Message
  OBVIOUS
<1>3. CASE Head(buf).kind \in K
  <2>1. Head(buf).n = a + 1 /\ Run(Tail(buf), K, a + 1, b)
    BY <1>1, <1>3, RunTail
  <2>2. Run(Append(out, Head(buf)), K, lo, a + 1)
    BY <1>1, <1>2, <1>3, <2>1, RunAppend
  <2> QED
    BY <2>1, <2>2 DEF Stretch
<1>4. CASE Head(buf).kind \notin K
  <2>1. Run(Tail(buf), K, a, b) /\ Run(Append(out, Head(buf)), K, lo, a)
    BY <1>1, <1>2, <1>4, RunTail, RunAppend
  <2> QED
    BY <2>1 DEF Stretch
<1> QED
  BY <1>3, <1>4

\* The peer receives the next number, or a message of another kind.
LEMMA StretchFetch ==
    ASSUME NEW out \in Seq(Message), NEW buf \in Seq(Message), NEW K, NEW lo \in Nat, NEW b \in Nat,
           out # <<>>, Stretch(out, buf, K, lo, b)
    PROVE  /\ Head(out).kind \notin K => Stretch(Tail(out), buf, K, lo, b)
           /\ Head(out).kind \in K => Head(out).n = lo + 1 /\ Stretch(Tail(out), buf, K, lo + 1, b)
<1>1. PICK a \in Nat : Run(out, K, lo, a) /\ Run(buf, K, a, b)
  BY DEF Stretch
<1> QED
  BY <1>1, RunTail DEF Stretch

\* Bounds are in order.
LEMMA RunLe ==
    ASSUME NEW q, NEW K, NEW lo \in Nat, NEW hi \in Nat, Run(q, K, lo, hi)
    PROVE  lo <= hi
BY DEF Run

\* Here as well.
LEMMA StretchLe ==
    ASSUME NEW out \in Seq(Message), NEW buf \in Seq(Message), NEW K, NEW lo \in Nat, NEW b \in Nat,
           Stretch(out, buf, K, lo, b)
    PROVE  lo <= b
BY RunLe DEF Stretch

\* What is in front of the peer is a part of the lane.
LEMMA LaneLe ==
    ASSUME NEW out \in Seq(Message), NEW buf \in Seq(Message), NEW hand \in Seq(Message), NEW in \in Seq(Message),
           NEW K, NEW lo \in Nat, NEW d \in Nat,
           Lane(out, buf, hand, in, K, lo, d)
    PROVE  \E b \in 0..d : Stretch(out, buf, K, lo, b)
<1>1. PICK b \in Nat, e \in Nat : Stretch(out, buf, K, lo, b) /\ Run(hand, K, b, e) /\ Run(in, K, e, d)
  BY DEF Lane
<1>2. b <= e /\ e <= d
  BY <1>1, RunLe
<1> QED
  BY <1>1, <1>2

\* The next message is taken from the queue.
LEMMA LaneTake ==
    ASSUME NEW out \in Seq(Message), NEW buf \in Seq(Message), NEW in \in Seq(Message), NEW K,
           NEW lo \in Nat, NEW d \in Nat, NEW m \in Message, in # <<>>,
           Head(in).kind \in K => m.kind \in K /\ m.n = Head(in).n,
           Head(in).kind \notin K => m.kind \notin K,
           Lane(out, buf, <<>>, in, K, lo, d)
    PROVE  Lane(out, buf, <<m>>, Tail(in), K, lo, d)
<1>1. PICK b \in Nat, e \in Nat : Stretch(out, buf, K, lo, b) /\ Run(<<>>, K, b, e) /\ Run(in, K, e, d)
  BY DEF Lane
<1>2. b = e
  BY <1>1, RunEmpty
<1>3. CASE Head(in).kind \in K
  <2>1. Head(in).n = e + 1 /\ Run(Tail(in), K, e + 1, d)
    BY <1>1, <1>3, RunTail
  <2>2. m.kind \in K /\ m.n = b + 1 /\ e + 1 = b + 1 /\ e + 1 \in Nat
    BY <1>2, <1>3, <2>1
  <2>3. Run(<<m>>, K, b, e + 1)
    BY <2>2, RunOne
  <2> QED
    BY <1>1, <2>1, <2>2, <2>3 DEF Lane
<1>4. CASE Head(in).kind \notin K
  <2>1. Run(Tail(in), K, e, d) /\ Run(<<m>>, K, b, e)
    BY <1>1, <1>2, <1>4, RunTail, RunOne
  <2> QED
    BY <1>1, <2>1 DEF Lane
<1> QED
  BY <1>3, <1>4

\* The message in hand is put into the buffer.
LEMMA LanePut ==
    ASSUME NEW out \in Seq(Message), NEW buf \in Seq(Message), NEW in \in Seq(Message), NEW K,
           NEW lo \in Nat, NEW d \in Nat, NEW m \in Message,
           Lane(out, buf, <<m>>, in, K, lo, d)
    PROVE  Lane(out, Append(buf, m), <<>>, in, K, lo, d)
<1>1. PICK b \in Nat, e \in Nat : Stretch(out, buf, K, lo, b) /\ Run(<<m>>, K, b, e) /\ Run(in, K, e, d)
  BY DEF Lane
<1>2. PICK a \in Nat : Run(out, K, lo, a) /\ Run(buf, K, a, b)
  BY <1>1 DEF Stretch
<1>3. Run(Append(buf, m), K, a, e)
  <2>1. CASE m.kind \in K
    <3>1. m.n = b + 1 /\ e = b + 1
      BY <1>1, <2>1, RunOneOnly
    <3> QED
      BY <1>2, <2>1, <3>1, RunAppend
  <2>2. CASE m.kind \notin K
    <3>1. e = b
      BY <1>1, <2>2, RunOneOnly
    <3> QED
      BY <1>2, <2>2, <3>1, RunAppend
  <2> QED
    BY <2>1, <2>2
<1>4. Run(<<>>, K, e, e)
  BY RunEmpty
<1> QED
  BY <1>1, <1>2, <1>3, <1>4 DEF Lane, Stretch

\* A message that is not of the lane is let go, or put into the buffer.
LEMMA LaneDrop ==
    ASSUME NEW out \in Seq(Message), NEW buf \in Seq(Message), NEW in \in Seq(Message), NEW K,
           NEW lo \in Nat, NEW d \in Nat, NEW m \in Message, m.kind \notin K,
           Lane(out, buf, <<m>>, in, K, lo, d)
    PROVE  Lane(out, buf, <<>>, in, K, lo, d)
<1>1. PICK b \in Nat, e \in Nat : Stretch(out, buf, K, lo, b) /\ Run(<<m>>, K, b, e) /\ Run(in, K, e, d)
  BY DEF Lane
<1>2. b = e
  BY <1>1, RunOneOnly
<1>3. Run(<<>>, K, b, e)
  BY <1>2, RunEmpty
<1> QED
  BY <1>1, <1>3 DEF Lane

\* A message of another kind is put into the buffer, whatever the pump has in hand.
LEMMA LaneAdd ==
    ASSUME NEW out \in Seq(Message), NEW buf \in Seq(Message), NEW hand, NEW in, NEW K,
           NEW lo \in Nat, NEW d \in Nat, NEW m \in Message, m.kind \notin K,
           Lane(out, buf, hand, in, K, lo, d)
    PROVE  Lane(out, Append(buf, m), hand, in, K, lo, d)
BY StretchAdd DEF Lane

\* A flush keeps the lane.
LEMMA LaneFlush ==
    ASSUME NEW out \in Seq(Message), NEW buf \in Seq(Message), NEW hand, NEW in, NEW K,
           NEW lo \in Nat, NEW d \in Nat, buf # <<>>,
           Lane(out, buf, hand, in, K, lo, d)
    PROVE  Lane(Append(out, Head(buf)), Tail(buf), hand, in, K, lo, d)
BY StretchFlush DEF Lane

\* So does a read of the peer, which has one message more.
LEMMA LaneFetch ==
    ASSUME NEW out \in Seq(Message), NEW buf \in Seq(Message), NEW hand, NEW in, NEW K,
           NEW lo \in Nat, NEW d \in Nat, out # <<>>,
           Lane(out, buf, hand, in, K, lo, d)
    PROVE  /\ Head(out).kind \notin K => Lane(Tail(out), buf, hand, in, K, lo, d)
           /\ Head(out).kind \in K => Head(out).n = lo + 1 /\ Lane(Tail(out), buf, hand, in, K, lo + 1, d)
BY StretchFetch DEF Lane

\* The peer writes a message.
LEMMA LaneWrite ==
    ASSUME NEW out, NEW buf, NEW hand, NEW in \in Seq(Message), NEW K,
           NEW lo \in Nat, NEW d \in Nat, NEW m \in Message,
           Lane(out, buf, hand, in, K, lo, d)
    PROVE  /\ m.kind \notin K => Lane(out, buf, hand, Append(in, m), K, lo, d)
           /\ m.kind \in K /\ m.n = d + 1 => Lane(out, buf, hand, Append(in, m), K, lo, d + 1)
BY RunAppend DEF Lane

\* What the pump has not read is lost.
LEMMA LaneLose ==
    ASSUME NEW out, NEW buf, NEW hand, NEW in, NEW K,
           NEW lo \in Nat, NEW d \in Nat,
           Lane(out, buf, hand, in, K, lo, d)
    PROVE  \E e \in 0..d : Lane(out, buf, hand, <<>>, K, lo, e)
<1>1. PICK b \in Nat, e \in Nat : Stretch(out, buf, K, lo, b) /\ Run(hand, K, b, e) /\ Run(in, K, e, d)
  BY DEF Lane
<1>2. e <= d /\ Run(<<>>, K, e, e)
  BY <1>1, RunLe, RunEmpty
<1> QED
  BY <1>1, <1>2 DEF Lane

\* Nothing in hand and nothing to read: all is in front of the peer.
LEMMA LaneThrough ==
    ASSUME NEW out, NEW buf, NEW K, NEW lo \in Nat, NEW d \in Nat,
           Lane(out, buf, <<>>, <<>>, K, lo, d)
    PROVE  Stretch(out, buf, K, lo, d)
<1>1. PICK b \in Nat, e \in Nat : Stretch(out, buf, K, lo, b) /\ Run(<<>>, K, b, e) /\ Run(<<>>, K, e, d)
  BY DEF Lane
<1>2. b = e /\ e = d
  BY <1>1, RunEmpty
<1> QED
  BY <1>1, <1>2

\* A lane, as one sequence.
LEMMA LaneRuns ==
    ASSUME NEW out \in Seq(Message), NEW buf \in Seq(Message), NEW hand \in Seq(Message),
           NEW in \in Seq(Message), NEW K, NEW lo \in Nat, NEW d \in Nat
    PROVE  /\ Stretch(out, buf, K, lo, d) => Run(out \o buf, K, lo, d)
           /\ Lane(out, buf, hand, in, K, lo, d) => Run(((out \o buf) \o hand) \o in, K, lo, d)
<1>1. ASSUME NEW b \in Nat, Stretch(out, buf, K, lo, b)
      PROVE  out \o buf \in Seq(Message) /\ Run(out \o buf, K, lo, b)
  BY <1>1, RunConcat DEF Stretch
<1>2. ASSUME Lane(out, buf, hand, in, K, lo, d) PROVE Run(((out \o buf) \o hand) \o in, K, lo, d)
  <2>1. PICK b \in Nat, e \in Nat : Stretch(out, buf, K, lo, b) /\ Run(hand, K, b, e) /\ Run(in, K, e, d)
    BY <1>2 DEF Lane
  <2>2. out \o buf \in Seq(Message) /\ Run(out \o buf, K, lo, b)
    BY <1>1, <2>1
  <2>3. (out \o buf) \o hand \in Seq(Message) /\ Run((out \o buf) \o hand, K, lo, e)
    BY <2>1, <2>2, RunConcat
  <2> QED
    BY <2>1, <2>3, RunConcat
<1> QED
  BY <1>1, <1>2

(***************************************************************************)
(* What a pump does in one step with one message.                          *)
(***************************************************************************)

\* No call gets past its pump, and a reply goes to the client.
Fit(q, s) == ~Has(q, "call") /\ (s = "u" => ~Has(q, "reply"))
Carried == \A p \in Sides : /\ held[p].kind \in {"data", "close", "reply"}
                            /\ Fit(buffer[p], p) /\ Fit(outbound[p], p)

\* Pump x has m: it is the next one of its queue, or what is made of it, or the
\* one it has waited with.
Takes(x, m) ==
    \/ /\ pump[x] = "read" /\ inbound[x] # <<>> /\ inbound'[x] = Tail(inbound[x])
       /\ LET h == Head(inbound[x])
          IN  \/ h.kind \in {"data", "close"} /\ m = h
              \/ h.kind = "call" /\ m.kind = "reply" /\ m.n = h.n
    \/ pump[x] = "lock" /\ m = held[x] /\ inbound'[x] = inbound[x]

\* It waits for the mutex, is in the buffer, or is refused; w and b are the
\* sockets and the buffers when it is sent.
Leaves(x, m, w, b) ==
    LET t == Target(x, m)
    IN  \/ pump[x] = "read" /\ pump'[x] = "lock" /\ ws'[t] = w[t] /\ buffer'[t] = b[t]
        \/ /\ pump'[x] = "flush" /\ w[t] = "active" /\ buffer'[t] = Append(b[t], m)
           /\ ws'[t] = IF m.kind = "close" THEN "byUs" ELSE "active"
        \/ pump'[x] = AfterError(m) /\ w[t] # "active" /\ ws'[t] = w[t] /\ buffer'[t] = b[t]

\* On the other side only the close that is read is answered.
Acks(x, m) ==
    LET r == Other(Target(x, m))
    IN  IF m = Close /\ pump[x] = "read"
        THEN /\ r = x
             /\ \/ ws[x] = "active" /\ ws'[x] = "byPeer" /\ buffer'[x] = Append(buffer[x], Close)
                \/ ws[x] # "active" /\ ws'[x] = "acked" /\ buffer'[x] = buffer[x]
        ELSE ws'[r] = ws[r] /\ buffer'[r] = buffer[r]

Passes(x, m) ==
    /\ over = "no" /\ UNCHANGED <<mocked, outbound, timers, over, peers>>
    /\ held'[x] = m
    /\ LET o == Other(x) IN held'[o] = held[o] /\ pump'[o] = pump[o] /\ inbound'[o] = inbound[o]
    /\ Takes(x, m) /\ Leaves(x, m, ws, buffer) /\ Acks(x, m)

\* A send, or the wait for the mutex in front of it, is one of the ways out.
LEMMA Sends ==
    ASSUME NEW x \in Sides, NEW m \in Message,
           NEW w \in [Sides -> WsStates], NEW b, b \in [Sides -> Seq(Message)],
           pump \in [Sides -> PumpStates], held \in [Sides -> Message],
           (PassOn(x, m, w, b) /\ pump[x] = "read") \/ StartSend(x, m, w, b)
    PROVE  /\ Leaves(x, m, w, b)
           /\ LET r == Other(Target(x, m)) IN ws'[r] = w[r] /\ buffer'[r] = b[r]
           /\ held'[x] = m
           /\ LET o == Other(x) IN held'[o] = held[o] /\ pump'[o] = pump[o]
<1> DEFINE t == Target(x, m)
           r == Other(t)
           o == Other(x)
<1>1. t \in Sides /\ r \in Sides /\ r # t /\ o \in Sides /\ o # x
  BY DEF Target, Other
<1>2. CASE StartSend(x, m, w, b)
  <2>1. held' = [held EXCEPT ![x] = m]
    BY <1>2 DEF StartSend
  <2>2. CASE w[t] = "active"
    <3>1. /\ ws' = IF m.kind = "close" THEN [w EXCEPT ![t] = "byUs"] ELSE w
          /\ buffer' = [b EXCEPT ![t] = Append(b[t], m)]
          /\ pump' = [pump EXCEPT ![x] = "flush"]
      BY <1>2, <2>2 DEF StartSend, Goto
    <3>2. /\ ws'[t] = IF m.kind = "close" THEN "byUs" ELSE "active"
          /\ ws'[r] = w[r]
      BY <1>1, <2>2, <3>1
    <3>3. buffer'[t] = Append(b[t], m) /\ buffer'[r] = b[r]
      BY <1>1, <3>1
    <3>4. pump'[x] = "flush" /\ pump'[o] = pump[o] /\ held'[x] = m /\ held'[o] = held[o]
      BY <1>1, <2>1, <3>1
    <3> HIDE DEF t, r, o
    <3> QED
      BY <2>2, <3>2, <3>3, <3>4 DEF Leaves, t, r, o
  <2>3. CASE w[t] # "active"
    <3>1. ws' = w /\ buffer' = b /\ pump' = [pump EXCEPT ![x] = AfterError(m)]
      BY <1>2, <2>3 DEF StartSend, Goto
    <3>2. pump'[x] = AfterError(m) /\ pump'[o] = pump[o] /\ held'[x] = m /\ held'[o] = held[o]
      BY <1>1, <2>1, <3>1
    <3> HIDE DEF t, r, o
    <3> QED
      BY <2>3, <3>1, <3>2 DEF Leaves, t, r, o
  <2> QED
    BY <2>2, <2>3
<1>3. CASE PassOn(x, m, w, b) /\ pump[x] = "read" /\ Locks(x, m)
  <2>1. ws' = w /\ buffer' = b /\ pump' = [pump EXCEPT ![x] = "lock"] /\ held' = [held EXCEPT ![x] = m]
    BY <1>3 DEF PassOn, Goto
  <2>2. pump'[x] = "lock" /\ pump'[o] = pump[o] /\ held'[x] = m /\ held'[o] = held[o]
    BY <1>1, <2>1
  <2> HIDE DEF t, r, o
  <2> QED
    BY <1>3, <2>1, <2>2 DEF Leaves, t, r, o
<1> QED
  BY <1>2, <1>3 DEF PassOn

\* Each read that is passed on, and each lock, is a pump passing a message.
LEMMA Passing ==
    ASSUME TypeOK, Closing, Carried, NEW x \in Sides, Reading(x) \/ Lock(x)
    PROVE  \E m \in Message : /\ m.kind \in {"data", "close", "reply"}
                              /\ m.kind = "reply" => x = "c"
                              /\ Passes(x, m)
<1> USE Types
<1> DEFINE h == Head(inbound[x])
           o == Other(x)
<1>1. o \in Sides /\ o # x /\ Other(o) = x /\ buffer \in [Sides -> Seq(Message)]
      /\ inbound \in [Sides -> Seq(Message)]
  BY DEF Other, TypeOK
<1>2. ASSUME NEW K, NextMessage(x, K)
      PROVE  /\ pump[x] = "read" /\ inbound[x] # <<>> /\ h.kind \in K /\ h \in Message
             /\ inbound'[x] = Tail(inbound[x]) /\ inbound'[o] = inbound[o]
             /\ over = "no" /\ UNCHANGED <<mocked, outbound, timers, over, peers>>
  <2>1. /\ pump[x] = "read" /\ inbound[x] # <<>> /\ h.kind \in K
        /\ inbound' = [inbound EXCEPT ![x] = Tail(inbound[x])]
        /\ over = "no" /\ UNCHANGED <<mocked, outbound, timers, over, peers>>
    BY <1>2 DEF NextMessage, At, Rest
  <2>2. h \in Message
    BY <2>1, NextOne
  <2>3. inbound'[x] = Tail(inbound[x]) /\ inbound'[o] = inbound[o]
    BY <1>1, <2>1
  <2> QED
    BY <2>1, <2>2, <2>3
<1>3. CASE ReadData(x)
  <2>1. /\ pump[x] = "read" /\ inbound[x] # <<>> /\ h.kind = "data" /\ h \in Message
        /\ inbound'[x] = Tail(inbound[x]) /\ inbound'[o] = inbound[o]
        /\ over = "no" /\ UNCHANGED <<mocked, outbound, timers, over, peers>>
    BY <1>2, <1>3 DEF ReadData
  <2>2. PassOn(x, h, ws, buffer)
    BY <1>3 DEF ReadData
  <2>3. /\ Leaves(x, h, ws, buffer)
        /\ LET r == Other(Target(x, h)) IN ws'[r] = ws[r] /\ buffer'[r] = buffer[r]
        /\ held'[x] = h /\ held'[o] = held[o] /\ pump'[o] = pump[o]
    BY <1>1, <2>1, <2>2, Sends
  <2>4. Takes(x, h) /\ Acks(x, h)
    BY <2>1, <2>3, CloseMessage DEF Takes, Acks
  <2> QED
    BY <2>1, <2>3, <2>4 DEF Passes
<1>4. CASE x = "c" /\ ReadCall
  <2> DEFINE m == Msg("reply", h.n)
  <2>1. /\ pump[x] = "read" /\ inbound[x] # <<>> /\ h.kind = "call" /\ h \in Message
        /\ inbound'[x] = Tail(inbound[x]) /\ inbound'[o] = inbound[o]
        /\ over = "no" /\ UNCHANGED <<mocked, outbound, timers, over, peers>>
    BY <1>2, <1>4 DEF ReadCall
  <2>2. PassOn(x, m, ws, buffer)
    BY <1>4 DEF ReadCall
  <2>3. m \in Message /\ m.kind = "reply" /\ m.n = h.n
    BY <2>1 DEF Message, Msg
  <2> HIDE DEF m
  <2>4. /\ Leaves(x, m, ws, buffer)
        /\ LET r == Other(Target(x, m)) IN ws'[r] = ws[r] /\ buffer'[r] = buffer[r]
        /\ held'[x] = m /\ held'[o] = held[o] /\ pump'[o] = pump[o]
    BY <1>1, <2>1, <2>2, <2>3, Sends
  <2>5. Takes(x, m) /\ Acks(x, m)
    BY <2>1, <2>3, <2>4, CloseMessage DEF Takes, Acks
  <2> QED
    BY <1>4, <2>1, <2>3, <2>4, <2>5 DEF Passes
<1>5. CASE ReadClose(x)
  <2> DEFINE w == IF ws[x] = "active" THEN [ws EXCEPT ![x] = "byPeer"] ELSE [ws EXCEPT ![x] = "acked"]
             b == IF ws[x] = "active" THEN [buffer EXCEPT ![x] = Append(buffer[x], Close)] ELSE buffer
  <2>1. /\ pump[x] = "read" /\ inbound[x] # <<>> /\ h.kind = "close" /\ h \in Message
        /\ inbound'[x] = Tail(inbound[x]) /\ inbound'[o] = inbound[o]
        /\ over = "no" /\ UNCHANGED <<mocked, outbound, timers, over, peers>>
    BY <1>2, <1>5 DEF ReadClose
  <2>2. PassOn(x, Close, w, b)
    BY <1>5 DEF ReadClose
  <2>3. h = Close
    BY <2>1, RelayAssumption DEF Message, Close, Msg
  <2>4. /\ w \in [Sides -> WsStates] /\ b \in [Sides -> Seq(Message)]
        /\ w[o] = ws[o] /\ b[o] = buffer[o]
        /\ \/ ws[x] = "active" /\ w[x] = "byPeer" /\ b[x] = Append(buffer[x], Close)
           \/ ws[x] # "active" /\ w[x] = "acked" /\ b[x] = buffer[x]
    BY <1>1, CloseMessage DEF WsStates
  <2>5. Target(x, Close) = o
    BY CloseMessage DEF Target
  <2> HIDE DEF w, b
  <2>6. /\ Leaves(x, Close, w, b)
        /\ ws'[x] = w[x] /\ buffer'[x] = b[x]
        /\ held'[x] = Close /\ held'[o] = held[o] /\ pump'[o] = pump[o]
    BY <1>1, <2>1, <2>2, <2>4, <2>5, CloseMessage, Sends
  <2>7. Leaves(x, Close, ws, buffer)
    BY <2>4, <2>5, <2>6 DEF Leaves
  <2>8. Takes(x, Close) /\ Acks(x, Close)
    BY <1>1, <2>1, <2>3, <2>4, <2>5, <2>6 DEF Takes, Acks
  <2> QED
    BY <2>1, <2>6, <2>7, <2>8, CloseMessage DEF Passes
<1>6. CASE Lock(x)
  <2> DEFINE m == held[x]
  <2>1. /\ pump[x] = "lock" /\ StartSend(x, m, ws, buffer) /\ inbound' = inbound
        /\ over = "no" /\ UNCHANGED <<mocked, outbound, timers, over, peers>>
    BY <1>6 DEF Lock, At, Rest
  <2>2. m \in Message /\ m.kind \in {"data", "close", "reply"} /\ (m.kind = "reply" => x = "c")
    BY DEF Carried, Closing
  <2> HIDE DEF m
  <2>3. /\ Leaves(x, m, ws, buffer)
        /\ LET r == Other(Target(x, m)) IN ws'[r] = ws[r] /\ buffer'[r] = buffer[r]
        /\ held'[x] = m /\ held'[o] = held[o] /\ pump'[o] = pump[o]
    BY <1>1, <2>1, <2>2, Sends
  <2>4. Takes(x, m) /\ Acks(x, m)
    BY <2>1, <2>3 DEF Takes, Acks, m
  <2> QED
    BY <2>1, <2>2, <2>3, <2>4 DEF Passes
<1> QED
  BY <1>3, <1>4, <1>5, <1>6 DEF Reading

(***************************************************************************)
(* What the queues hold, and the invariants about it.                      *)
(***************************************************************************)

Data == {"data"}
Answers == {"reply", "call"}

\* What a lane has delivered, and what has been written to it.
Received(s, K) == IF K = Data THEN got[s] ELSE answered
Written(p, K) == IF K = Data THEN sent[p] ELSE asked

\* Pump p is passing on a close.
Closer(p) == pump[p] = "linger" \/ (pump[p] \in {"lock", "flush"} /\ held[p] = Close)

Running(p) == over = "no" /\ pump[p] # "done"

\* All that peer p wrote and its pump has not read is still there.
Whole(p) == ~gone[p] \/ inbound[p] # <<>> \/ Closer(p)

Front(s, p, K) == \E b \in 0..Written(p, K) : Stretch(outbound[s], buffer[s], K, Received(s, K), b)
Back(s, p, K) ==
    \E d \in 0..Written(p, K) :
        /\ Lane(outbound[s], buffer[s], Pending(p), inbound[p], K, Received(s, K), d)
        /\ Whole(p) => d = Written(p, K)
LaneOf(s, p, K) == ~gone[s] => Front(s, p, K) /\ (Running(p) => Back(s, p, K))

\* Between the sides, the data; at the client, the answers to its calls.
Lanes == (\A s \in Sides : LaneOf(s, Other(s), Data)) /\ LaneOf("c", "c", Answers)

\* A close is on its way to side s, or there.
Told(s) == closeGot[s] \/ Has(outbound[s], "close") \/ Has(buffer[s], "close")

\* Nothing follows a close; no data does.
CloseLast(q) == \A i \in 1..Len(q) : q[i].kind = "close" => i = Len(q)
Ends(q) == \A i, j \in 1..Len(q) : i < j /\ q[i].kind = "close" => q[j].kind # "data"

\* A pump passes a close on after its peer has written it, and then has read all
\* that the peer will ever write; a side is told to close because a peer closed;
\* an invalid frame that waits to be read is one that breaks the tunnel.
SourcedAt(s) ==
    /\ Has(inbound[s], "close") \/ Closer(s) => closeSent[s]
    /\ CloseLast(inbound[s])
    /\ Has(inbound[s], "bad") => broken
    /\ Closer(s) => inbound[s] = <<>>
    /\ Told(s) => ws[s] # "active" /\ (closeSent[s] \/ closeSent[Other(s)])
Sourced == \A s \in Sides : SourcedAt(s)

\* A close that a side did not ask for stands behind all the data of the other one.
OrderlyAt(s) ==
    ~closeSent[s] =>
        LET all == sent[Other(s)]
        IN  /\ closeGot[s] => got[s] = all
            /\ ~gone[s] =>
                   /\ Ends(outbound[s]) /\ Ends(buffer[s])
                   /\ Has(outbound[s], "close") => Run(outbound[s], Data, got[s], all)
                   /\ Has(buffer[s], "close") => Stretch(outbound[s], buffer[s], Data, got[s], all)
Orderly == \A s \in Sides : OrderlyAt(s)

\* While no peer has broken off, a socket leaves the active state only with a
\* close told to both sides, or to one and in the hand of its pump; a pump ends
\* only then; and a close is buffered only while a pump is there to flush it.
ClosesAt(s) ==
    LET o == Other(s)
    IN  /\ gone[s] => closeGot[s]
        /\ ws[s] # "active" => Told(s) /\ (Told(o) \/ (pump[s] = "lock" /\ held[s] = Close))
        /\ Closer(s) => ws[s] # "active"
        /\ pump[s] = "done" => Told(s) \/ Told(o)
        /\ Has(buffer[s], "close") =>
               \/ gone[s]
               \/ pump[o] = "flush" /\ Target(o, held[o]) = s
               \/ ws[s] = "byPeer" /\ pump[s] \in {"lock", "flush", "linger"}
Closes == ~broken => \A s \in Sides : ClosesAt(s)

\* An empty queue has no message.
LEMMA HasNot == \A k : ~Has(<<>>, k)
BY DEF Has

\* A queue has what it had, and what is appended.
LEMMA HasAppend ==
    ASSUME NEW q \in Seq(Message), NEW m \in Message, NEW k
    PROVE  Has(Append(q, m), k) <=> Has(q, k) \/ m.kind = k
<1> DEFINE r == Append(q, m)
<1>1. /\ Len(r) = Len(q) + 1 /\ r[Len(q) + 1] = m /\ \A i \in 1..Len(q) : r[i] = q[i]
      /\ Len(q) \in Nat
  OBVIOUS
<1> HIDE DEF r
<1>2. Has(r, k) => Has(q, k) \/ m.kind = k
  BY <1>1 DEF Has
<1>3. Has(q, k) => Has(r, k)
  <2>1. 1..Len(q) \subseteq 1..Len(r)
    BY <1>1
  <2> QED
    BY <1>1, <2>1 DEF Has
<1>4. m.kind = k => Has(r, k)
  <2>1. Len(q) + 1 \in 1..Len(r)
    BY <1>1
  <2> QED
    BY <1>1, <2>1 DEF Has
<1> QED
  BY <1>2, <1>3, <1>4 DEF r

\* A queue has what its head is, and what its tail has.
LEMMA HasTail ==
    ASSUME NEW q \in Seq(Message), q # <<>>, NEW k
    PROVE  Has(q, k) <=> Head(q).kind = k \/ Has(Tail(q), k)
<1> DEFINE r == Tail(q)
<1>1. /\ Len(r) = Len(q) - 1 /\ Len(q) \in Nat \ {0} /\ Head(q) = q[1]
      /\ \A i \in 1..Len(r) : r[i] = q[i + 1]
  OBVIOUS
<1> HIDE DEF r
<1>2. Has(q, k) => q[1].kind = k \/ Has(r, k)
  <2> SUFFICES ASSUME NEW i \in 1..Len(q), q[i].kind = k, i # 1 PROVE Has(r, k)
    BY DEF Has
  <2>1. i - 1 \in 1..Len(r) /\ (i - 1) + 1 = i
    BY <1>1
  <2>2. r[i - 1] = q[(i - 1) + 1]
    BY <1>1, <2>1
  <2> QED
    BY <2>1, <2>2 DEF Has
<1>3. Has(r, k) => Has(q, k)
  <2> SUFFICES ASSUME NEW i \in 1..Len(r), r[i].kind = k PROVE Has(q, k)
    BY DEF Has
  <2>1. i + 1 \in 1..Len(q) /\ q[i + 1] = r[i]
    BY <1>1
  <2> QED
    BY <2>1 DEF Has
<1>4. q[1].kind = k => Has(q, k)
  BY <1>1 DEF Has
<1> QED
  BY <1>1, <1>2, <1>3, <1>4 DEF r

\* The close that ends a queue is read last, and follows what there was.
LEMMA CloseLastTail ==
    ASSUME NEW q \in Seq(Message), q # <<>>, CloseLast(q)
    PROVE  CloseLast(Tail(q)) /\ (Head(q).kind = "close" => Tail(q) = <<>>)
<1> DEFINE r == Tail(q)
<1>1. /\ Len(r) = Len(q) - 1 /\ Len(q) \in Nat \ {0} /\ Head(q) = q[1] /\ r \in Seq(Message)
      /\ \A i \in 1..Len(r) : r[i] = q[i + 1]
  OBVIOUS
<1> HIDE DEF r
<1>2. CloseLast(r)
  <2> SUFFICES ASSUME NEW i \in 1..Len(r), r[i].kind = "close" PROVE i = Len(r)
    BY DEF CloseLast
  <2>1. i + 1 \in 1..Len(q) /\ q[i + 1] = r[i]
    BY <1>1
  <2>2. i + 1 = Len(q)
    BY <2>1 DEF CloseLast
  <2> QED
    BY <1>1, <2>2
<1>3. Head(q).kind = "close" => r = <<>>
  <2> SUFFICES ASSUME Head(q).kind = "close" PROVE r = <<>>
    OBVIOUS
  <2>1. 1 = Len(q)
    BY <1>1 DEF CloseLast
  <2>2. Len(r) = 0
    BY <1>1, <2>1
  <2> QED
    BY <1>1, <2>2
<1> QED
  BY <1>2, <1>3 DEF r

\* Before the close anything may be written.
LEMMA CloseLastAppend ==
    ASSUME NEW q \in Seq(Message), NEW m \in Message, ~Has(q, "close")
    PROVE  CloseLast(Append(q, m))
<1> DEFINE r == Append(q, m)
<1>1. /\ Len(r) = Len(q) + 1 /\ \A i \in 1..Len(q) : r[i] = q[i]
      /\ Len(q) \in Nat
  OBVIOUS
<1> HIDE DEF r
<1>2. CloseLast(r)
  BY <1>1 DEF CloseLast, Has
<1> QED
  BY <1>2 DEF r

\* When the close is next, no data is behind it.
LEMMA EndsTail ==
    ASSUME NEW q \in Seq(Message), q # <<>>, Ends(q)
    PROVE  Ends(Tail(q)) /\ (Head(q).kind = "close" => ~Has(Tail(q), "data"))
<1> DEFINE r == Tail(q)
<1>1. /\ Len(r) = Len(q) - 1 /\ Len(q) \in Nat \ {0} /\ Head(q) = q[1]
      /\ \A i \in 1..Len(r) : r[i] = q[i + 1]
  OBVIOUS
<1> HIDE DEF r
<1>2. \A i \in 1..Len(r) : i + 1 \in 1..Len(q) /\ r[i] = q[i + 1]
  BY <1>1
<1>3. Ends(r)
  <2> SUFFICES ASSUME NEW i \in 1..Len(r), NEW j \in 1..Len(r), i < j, r[i].kind = "close"
               PROVE  r[j].kind # "data"
    BY DEF Ends
  <2>1. i + 1 < j + 1
    OBVIOUS
  <2> QED
    BY <1>2, <2>1 DEF Ends
<1>4. Head(q).kind = "close" => ~Has(r, "data")
  <2> SUFFICES ASSUME Head(q).kind = "close", NEW j \in 1..Len(r) PROVE r[j].kind # "data"
    BY DEF Has
  <2>1. 1 \in 1..Len(q) /\ 1 < j + 1
    BY <1>1
  <2> QED
    BY <1>1, <1>2, <2>1 DEF Ends
<1> QED
  BY <1>3, <1>4 DEF r

\* After a close anything but data may be put.
LEMMA EndsAppend ==
    ASSUME NEW q \in Seq(Message), NEW m \in Message, Ends(q),
           m.kind # "data" \/ ~Has(q, "close")
    PROVE  Ends(Append(q, m))
<1> DEFINE r == Append(q, m)
<1>1. /\ Len(r) = Len(q) + 1 /\ r[Len(q) + 1] = m /\ \A i \in 1..Len(q) : r[i] = q[i]
      /\ Len(q) \in Nat
  OBVIOUS
<1> HIDE DEF r
<1>2. ASSUME NEW i \in 1..Len(r), NEW j \in 1..Len(r), i < j, r[i].kind = "close"
      PROVE  r[j].kind # "data"
  <2>1. i \in 1..Len(q) /\ q[i].kind = "close"
    BY <1>1, <1>2
  <2>2. CASE j \in 1..Len(q)
    BY <1>1, <1>2, <2>1, <2>2 DEF Ends
  <2>3. CASE j = Len(q) + 1
    BY <1>1, <2>1, <2>3 DEF Has
  <2> QED
    BY <1>1, <2>2, <2>3
<1>3. Ends(r)
  BY <1>2 DEF Ends
<1> QED
  BY <1>3 DEF r

\* There is one close message.
LEMMA CloseOnly == \A m \in Message : m.kind = "close" => m = Close
BY RelayAssumption DEF Message, Close, Msg

(***************************************************************************)
(* The steps of the relay, for the messages and the closes.                *)
(***************************************************************************)

\* Whatever enters or leaves a queue to a peer.
LEMMA Fits ==
    ASSUME NEW q \in Seq(Message), NEW s, Fit(q, s)
    PROVE  /\ q # <<>> => Fit(Tail(q), s) /\ Head(q).kind # "call" /\ (s = "u" => Head(q).kind # "reply")
           /\ \A m \in Message : m.kind # "call" /\ (s = "u" => m.kind # "reply") => Fit(Append(q, m), s)
BY HasTail, HasAppend DEF Fit

\* What pumps hold and queues to the peers have keeps to its kinds.
LEMMA CarriedStep ==
    ASSUME TypeOK, Closing, Carried, [Next]_vars
    PROVE  Carried'
<1> USE Types
<1>1. ASSUME NEW x \in Sides, Reading(x) \/ Lock(x) PROVE Carried'
  <2>1. PICK m \in Message : m.kind \in {"data", "close", "reply"} /\ (m.kind = "reply" => x = "c")
                             /\ Passes(x, m)
    BY <1>1, Passing
  <2>2. /\ held'[x] = m /\ held'[Other(x)] = held[Other(x)] /\ outbound' = outbound
        /\ Leaves(x, m, ws, buffer) /\ Acks(x, m)
    BY <2>1 DEF Passes
  <2> DEFINE t == Target(x, m)
             r == Other(t)
  <2>3. t \in Sides /\ r \in Sides /\ Sides = {t, r} /\ (m.kind = "reply" => t = "c")
    BY <2>1 DEF Target, Other
  <2>4. Fit(buffer[t], t) /\ Fit(buffer[r], r) /\ buffer[t] \in Seq(Message) /\ buffer[r] \in Seq(Message)
    BY <2>3 DEF Carried
  <2>5. Fit(buffer'[t], t)
    <3>1. CASE buffer'[t] = buffer[t]
      BY <2>4, <3>1
    <3>2. CASE buffer'[t] = Append(buffer[t], m)
      BY <2>1, <2>3, <2>4, <3>2, Fits
    <3> QED
      BY <2>2, <3>1, <3>2 DEF Leaves
  <2>6. Fit(buffer'[r], r)
    <3>1. CASE buffer'[r] = buffer[r]
      BY <2>4, <3>1
    <3>2. CASE buffer'[r] = Append(buffer[r], Close)
      BY <2>4, <3>2, CloseMessage, Fits
    <3> QED
      BY <2>2, <3>1, <3>2 DEF Acks
  <2> HIDE DEF t, r
  <2> QED
    BY <2>1, <2>2, <2>3, <2>5, <2>6 DEF Carried, Other
<1>2. CASE UNCHANGED <<held, buffer, outbound>>
  BY <1>2 DEF Carried
<1>3. ASSUME NEW p \in Sides,
             ReadFails(p) \/ SendDone(p) \/ SendFails(p) \/ LastRead(p)
             \/ PeerSends(p) \/ PeerCloses(p) \/ PeerErrs(p)
             \/ ReadNote \/ ClientAsks \/ Finish \/ Tick \/ UNCHANGED vars
      PROVE  UNCHANGED <<held, buffer, outbound>>
  BY <1>3 DEF ReadFails, NextMessage, Rest, SendDone, SendFails, LastRead, PeerSends, PeerCloses,
              PeerErrs, Write, ReadNote, ClientAsks, Finish, Tick
<1>4. ASSUME NEW x \in Sides, Flush(x) PROVE Carried'
  <2>1. /\ buffer[x] # <<>> /\ buffer' = [buffer EXCEPT ![x] = Tail(buffer[x])] /\ held' = held
        /\ outbound' = outbound \/ outbound' = [outbound EXCEPT ![x] = Append(outbound[x], Head(buffer[x]))]
    BY <1>4 DEF Flush
  <2>2. Fit(buffer[x], x) /\ Fit(outbound[x], x) /\ Head(buffer[x]) \in Message
    BY <2>1, NextOne DEF Carried
  <2>3. Fit(Tail(buffer[x]), x) /\ Fit(Append(outbound[x], Head(buffer[x])), x)
    BY <2>1, <2>2, Fits
  <2>4. \A s \in Sides : /\ buffer'[s] = buffer[s] \/ (s = x /\ buffer'[s] = Tail(buffer[x]))
                         /\ \/ outbound'[s] = outbound[s]
                            \/ s = x /\ outbound'[s] = Append(outbound[x], Head(buffer[x]))
    BY <2>1 DEF TypeOK
  <2> QED
    BY <2>1, <2>3, <2>4 DEF Carried
<1>5. ASSUME NEW x \in Sides, PeerReads(x) \/ PeerLeaves(x) PROVE Carried'
  <2>1. /\ UNCHANGED <<held, buffer>>
        /\ \A s \in Sides : \/ outbound'[s] = outbound[s] \/ outbound'[s] = <<>>
                            \/ outbound[s] # <<>> /\ outbound'[s] = Tail(outbound[s])
    BY <1>5 DEF PeerReads, PeerLeaves, TypeOK
  <2>2. \A s \in Sides : Fit(<<>>, s)
    BY HasNot DEF Fit
  <2>3. \A s \in Sides : Fit(outbound[s], s)
    BY DEF Carried
  <2>4. \A s \in Sides : Fit(outbound'[s], s)
    BY <2>1, <2>2, <2>3, Fits
  <2> QED
    BY <2>1, <2>4 DEF Carried
<1> QED
  BY <1>1, <1>2, <1>3, <1>4, <1>5 DEF Next, Pump, Peer, Reading, Stutter

\* A peer writes a message that is one: the next of its data or of its calls, a
\* notification, its close, or a frame that breaks the tunnel.
LEMMA Writes ==
    ASSUME TypeOK, NEW p \in Sides,
           PeerSends(p) \/ PeerCloses(p) \/ PeerErrs(p) \/ (p = "c" /\ ClientAsks)
    PROVE  \E m \in Message :
               /\ Write(p, m)
               /\ UNCHANGED closeSent \/ (m = Close /\ closeSent' = [closeSent EXCEPT ![p] = TRUE])
               /\ m.kind = "close" => closeSent'[p]
               /\ m.kind = "bad" => broken'
               /\ broken => broken'
               /\ IF m.kind = "data"
                  THEN ~closeGot[p] /\ m.n = sent[p] + 1 /\ sent' = [sent EXCEPT ![p] = m.n]
                  ELSE sent' = sent
               /\ IF m.kind = "call" THEN p = "c" /\ m.n = asked + 1 /\ asked' = m.n ELSE asked' = asked
               /\ m.kind # "reply"
<1> USE RelayAssumption
<1>1. CASE PeerSends(p)
  <2> DEFINE m == Msg("data", sent[p] + 1)
  <2>1. sent[p] + 1 \in 1..MaxData
    <3>1. sent[p] \in 0..MaxData /\ sent[p] < (IF mocked THEN MaxMixed ELSE MaxData)
      BY <1>1 DEF PeerSends, TypeOK
    <3>2. MaxMixed \in Nat /\ MaxMixed <= MaxData /\ MaxData \in Nat
      OBVIOUS
    <3> QED
      BY <3>1, <3>2
  <2>2. m \in Message /\ m.kind = "data" /\ m.n = sent[p] + 1
    BY <2>1 DEF Message, Msg
  <2>3. /\ Write(p, m) /\ ~closeGot[p] /\ sent' = [sent EXCEPT ![p] = sent[p] + 1]
        /\ UNCHANGED <<broken, closeSent, asked>>
    BY <1>1 DEF PeerSends
  <2> HIDE DEF m
  <2> QED
    BY <2>2, <2>3
<1>2. CASE PeerCloses(p)
  <2>1. /\ Write(p, Close) /\ closeSent' = [closeSent EXCEPT ![p] = TRUE]
        /\ UNCHANGED <<broken, sent, asked>>
    BY <1>2 DEF PeerCloses
  <2>2. closeSent'[p]
    BY <2>1 DEF TypeOK
  <2> QED
    BY <2>1, <2>2, CloseMessage
<1>3. CASE PeerErrs(p)
  <2>1. Msg("bad", 0) \in Message /\ Msg("bad", 0).kind = "bad"
    BY DEF Message, Msg
  <2> QED
    BY <1>3, <2>1 DEF PeerErrs
<1>4. CASE p = "c" /\ ClientAsks
  <2>1. UNCHANGED <<broken, closeSent, sent>>
    BY <1>4 DEF ClientAsks
  <2>2. CASE asked < MaxCalls /\ Write("c", Msg("call", asked + 1)) /\ asked' = asked + 1
    <3> DEFINE m == Msg("call", asked + 1)
    <3>1. asked + 1 \in 1..MaxCalls
      BY <2>2 DEF TypeOK
    <3>2. m \in Message /\ m.kind = "call" /\ m.n = asked + 1
      BY <3>1 DEF Message, Msg
    <3>3. Write(p, m) /\ asked' = m.n
      BY <1>4, <2>2, <3>2
    <3> HIDE DEF m
    <3> QED
      BY <1>4, <2>1, <3>2, <3>3
  <2>3. CASE Write("c", Msg("note", 0)) /\ UNCHANGED asked
    <3>1. Msg("note", 0) \in Message /\ Msg("note", 0).kind = "note"
      BY DEF Message, Msg
    <3> QED
      BY <1>4, <2>1, <2>3, <3>1
  <2> QED
    BY <1>4, <2>2, <2>3 DEF ClientAsks
<1> QED
  BY <1>1, <1>2, <1>3, <1>4

\* A pump passes a close on after its peer has written it.
LEMMA ClosesKnown ==
    ASSUME TypeOK, Sourced, NEW x \in Sides, NEW m \in Message, m = Close, Takes(x, m)
    PROVE  closeSent[x] /\ inbound'[x] = <<>>
<1> USE Types
<1>1. SourcedAt(x)
  BY DEF Sourced, SourcedAt
<1>2. CASE pump[x] = "read" /\ inbound[x] # <<>> /\ inbound'[x] = Tail(inbound[x])
           /\ Head(inbound[x]).kind = "close"
  <2>1. Has(inbound[x], "close") /\ Tail(inbound[x]) = <<>>
    BY <1>1, <1>2, HasTail, CloseLastTail DEF SourcedAt
  <2> QED
    BY <1>1, <1>2, <2>1 DEF SourcedAt
<1>3. CASE pump[x] = "lock" /\ m = held[x] /\ inbound'[x] = inbound[x]
  BY <1>1, <1>3 DEF SourcedAt, Closer
<1> QED
  BY <1>2, <1>3, CloseMessage DEF Takes

\* A pump passing a message keeps the source of the closes.
LEMMA SourcedPasses ==
    ASSUME TypeOK, Sourced, NEW x \in Sides, NEW m \in Message,
           m.kind \in {"data", "close", "reply"}, Passes(x, m)
    PROVE  Sourced'
<1> USE Types
<1> DEFINE o == Other(x)
           t == Target(x, m)
           r == Other(t)
<1>1. /\ o \in Sides /\ o # x /\ Other(o) = x /\ Sides = {x, o}
      /\ t \in Sides /\ r \in Sides /\ r # t /\ Other(r) = t /\ Sides = {t, r}
      /\ (m = Close => t = o /\ r = x)
  BY CloseMessage DEF Other, Target
<1>2. \A s \in Sides : SourcedAt(s)
  BY DEF Sourced, SourcedAt
<1>3. m.kind = "close" <=> m = Close
  BY CloseOnly, CloseMessage
<1>4. /\ UNCHANGED <<outbound, broken, closeSent, closeGot>> /\ held'[x] = m
      /\ held'[o] = held[o] /\ pump'[o] = pump[o] /\ inbound'[o] = inbound[o]
      /\ Takes(x, m) /\ Leaves(x, m, ws, buffer) /\ Acks(x, m)
  BY DEF Passes
<1>5. m = Close => closeSent[x] /\ inbound'[x] = <<>>
  BY <1>4, ClosesKnown
<1>6. Closer(x)' => m = Close
  <2>1. pump'[x] \in {"lock", "flush"} \/ pump'[x] = AfterError(m)
    BY <1>4 DEF Leaves
  <2> QED
    BY <1>3, <1>4, <2>1 DEF Closer, AfterError
<1>7. /\ CloseLast(inbound'[x])
      /\ Has(inbound'[x], "bad") => broken
      /\ Has(inbound'[x], "close") => closeSent[x]
  <2>1. CASE inbound'[x] = inbound[x]
    BY <1>2, <2>1 DEF SourcedAt
  <2>2. CASE inbound[x] # <<>> /\ inbound'[x] = Tail(inbound[x])
    BY <1>2, <2>2, HasTail, CloseLastTail DEF SourcedAt
  <2> QED
    BY <1>4, <2>1, <2>2 DEF Takes
<1>8. Closer(o)' = Closer(o)
  BY <1>4 DEF Closer
<1>9. Told(t)' => ws'[t] # "active" /\ (closeSent[t] \/ closeSent[r])
  <2>1. Told(t) => ws[t] # "active" /\ (closeSent[t] \/ closeSent[r])
    BY <1>1, <1>2 DEF SourcedAt
  <2>2. CASE buffer'[t] = buffer[t] /\ ws'[t] = ws[t]
    BY <1>4, <2>1, <2>2 DEF Told
  <2>3. CASE ws[t] = "active" /\ buffer'[t] = Append(buffer[t], m)
             /\ ws'[t] = IF m.kind = "close" THEN "byUs" ELSE "active"
    <3>1. Has(buffer'[t], "close") <=> Has(buffer[t], "close") \/ m.kind = "close"
      BY <1>1, <2>3, HasAppend
    <3>2. Told(t)' => m = Close
      BY <1>3, <1>4, <2>1, <2>3, <3>1 DEF Told
    <3> QED
      BY <1>1, <1>3, <1>5, <2>3, <3>2
  <2> QED
    BY <1>4, <2>2, <2>3 DEF Leaves
<1>10. Told(r)' => ws'[r] # "active" /\ (closeSent[t] \/ closeSent[r])
  <2>1. Told(r) => ws[r] # "active" /\ (closeSent[t] \/ closeSent[r])
    BY <1>1, <1>2 DEF SourcedAt
  <2>2. CASE m = Close /\ pump[x] = "read"
    BY <1>1, <1>4, <1>5, <2>2 DEF Acks
  <2>3. CASE ws'[r] = ws[r] /\ buffer'[r] = buffer[r]
    BY <1>4, <2>1, <2>3 DEF Told
  <2> QED
    BY <1>4, <2>2, <2>3 DEF Acks
<1>11. Told(x)' => ws'[x] # "active" /\ (closeSent[x] \/ closeSent[o])
  BY <1>1, <1>9, <1>10
<1>12. Told(o)' => ws'[o] # "active" /\ (closeSent[x] \/ closeSent[o])
  BY <1>1, <1>9, <1>10
<1>13. SourcedAt(x)'
  BY <1>4, <1>5, <1>6, <1>7, <1>11 DEF SourcedAt
<1>14. SourcedAt(o)'
  BY <1>1, <1>2, <1>4, <1>8, <1>12 DEF SourcedAt
<1> QED
  BY <1>1, <1>13, <1>14 DEF Sourced, SourcedAt

\* Every step does.
LEMMA SourcedStep ==
    ASSUME TypeOK, Closing, Carried, Sourced, [Next]_vars
    PROVE  Sourced'
<1> USE Types
<1>1. \A s \in Sides : SourcedAt(s)
  BY DEF Sourced, SourcedAt
<1>2. ASSUME NEW x \in Sides, Reading(x) \/ Lock(x) PROVE Sourced'
  <2>1. PICK m \in Message : m.kind \in {"data", "close", "reply"} /\ Passes(x, m)
    BY <1>2, Passing
  <2> QED
    BY <2>1, SourcedPasses
<1>3. ASSUME NEW p \in Sides, inbound[p] # <<>>, inbound' = [inbound EXCEPT ![p] = Tail(inbound[p])],
             UNCHANGED <<ws, buffer, outbound, held, broken, closeSent, closeGot>>,
             \A s \in Sides : pump'[s] = pump[s] \/ pump'[s] = "done"
      PROVE  Sourced'
  <2>1. ASSUME NEW s \in Sides PROVE SourcedAt(s)'
    <3>1. (Closer(s)' => Closer(s)) /\ (Told(s)' <=> Told(s))
      BY <1>3 DEF Closer, Told
    <3>2. CASE s = p
      <4>1. inbound'[s] = Tail(inbound[s]) /\ inbound[s] # <<>>
        BY <1>3, <3>2 DEF TypeOK
      <4> QED
        BY <1>1, <1>3, <3>1, <4>1, HasTail, CloseLastTail DEF SourcedAt
    <3>3. CASE s # p
      <4>1. inbound'[s] = inbound[s]
        BY <1>3, <3>3 DEF TypeOK
      <4> QED
        BY <1>1, <1>3, <3>1, <4>1 DEF SourcedAt
    <3> QED
      BY <3>2, <3>3
  <2> QED
    BY <2>1 DEF Sourced, SourcedAt
<1>4. ASSUME NEW p \in Sides,
             \/ NextMessage(p, {"bad"}) /\ Goto(p, "done") /\ UNCHANGED <<sockets, held>>
             \/ p = "c" /\ ReadNote
      PROVE  Sourced'
  <2>1. /\ inbound[p] # <<>> /\ inbound' = [inbound EXCEPT ![p] = Tail(inbound[p])]
        /\ UNCHANGED <<ws, buffer, outbound, held, broken, closeSent, closeGot>>
        /\ pump' = pump \/ pump' = [pump EXCEPT ![p] = "done"]
    BY <1>4 DEF NextMessage, Goto, Rest, ReadNote
  <2>2. \A s \in Sides : pump'[s] = pump[s] \/ pump'[s] = "done"
    BY <2>1
  <2> QED
    BY <1>3, <2>1, <2>2
\* What leaves the queues to the peers, and their writing, alone.
<1>5. ASSUME UNCHANGED <<inbound, held, closeSent>>, UNCHANGED broken \/ broken',
             \A s \in Sides : /\ Closer(s)' => Closer(s)
                              /\ Told(s)' => Told(s)
                              /\ ws'[s] = "active" => ws[s] = "active"
      PROVE  Sourced'
  <2>1. ASSUME NEW s \in Sides PROVE SourcedAt(s)'
    BY <1>1, <1>5, <2>1 DEF SourcedAt
  <2> QED
    BY <2>1 DEF Sourced, SourcedAt
<1>6. ASSUME NEW p \in Sides, /\ At(p, "read") /\ inbound[p] = <<>> /\ gone[p] /\ Goto(p, "done")
             /\ ws' = [ws EXCEPT ![p] = "terminated"] /\ UNCHANGED <<buffer, held, sink, inbound>> /\ Rest
      PROVE  Sourced'
  <2>1. /\ pump' = [pump EXCEPT ![p] = "done"] /\ ws' = [ws EXCEPT ![p] = "terminated"]
        /\ UNCHANGED <<buffer, held, inbound, outbound, broken, closeSent, closeGot>>
    BY <1>6 DEF Goto, Rest
  <2>2. \A s \in Sides : /\ Closer(s)' => Closer(s)
                         /\ Told(s)' => Told(s)
                         /\ ws'[s] = "active" => ws[s] = "active"
    BY <2>1 DEF Closer, Told
  <2> QED
    BY <1>5, <2>1, <2>2
<1>7. ASSUME NEW p \in Sides, SendDone(p) \/ SendFails(p) PROVE Sourced'
  <2>1. /\ pump[p] = "flush"
        /\ pump' = [pump EXCEPT ![p] = AfterSend(held[p])] \/ pump' = [pump EXCEPT ![p] = AfterError(held[p])]
        /\ UNCHANGED <<ws, buffer, held, inbound, outbound, broken, closeSent, closeGot>>
    BY <1>7 DEF SendDone, SendFails, Goto, At, Rest
  <2>2. held[p].kind = "close" => held[p] = Close
    BY CloseOnly
  <2>3. \A s \in Sides : Closer(s)' => Closer(s)
    BY <2>1, <2>2 DEF Closer, AfterSend, AfterError
  <2>4. \A s \in Sides : Told(s)' => Told(s)
    BY <2>1 DEF Told
  <2> QED
    BY <1>5, <2>1, <2>3, <2>4
<1>8. ASSUME NEW p \in Sides, LastRead(p) PROVE Sourced'
  <2>1. /\ pump' = [pump EXCEPT ![p] = "done"] /\ broken' = (broken \/ Stuck(p))
        /\ UNCHANGED <<ws, buffer, held, inbound, outbound, closeSent, closeGot>>
    BY <1>8 DEF LastRead, Goto
  <2>2. broken' = broken \/ broken'
    BY <2>1 DEF TypeOK
  <2>3. \A s \in Sides : (Closer(s)' => Closer(s)) /\ (Told(s)' => Told(s))
    BY <2>1 DEF Closer, Told
  <2> QED
    BY <1>5, <2>1, <2>2, <2>3
<1>9. ASSUME NEW p \in Sides, Flush(p) PROVE Sourced'
  <2>1. /\ buffer[p] # <<>> /\ buffer' = [buffer EXCEPT ![p] = Tail(buffer[p])]
        /\ UNCHANGED <<ws, pump, held, inbound, broken, closeSent, closeGot>>
        /\ outbound' = outbound \/ outbound' = [outbound EXCEPT ![p] = Append(outbound[p], Head(buffer[p]))]
    BY <1>9 DEF Flush
  <2>2. ASSUME NEW s \in Sides PROVE Told(s)' => Told(s)
    <3>1. CASE s = p
      <4>1. buffer'[s] = Tail(buffer[s]) /\ buffer[s] # <<>> /\ buffer[s] \in Seq(Message)
            /\ outbound[s] \in Seq(Message)
            /\ (outbound'[s] = outbound[s] \/ outbound'[s] = Append(outbound[s], Head(buffer[s])))
        BY <2>1, <3>1 DEF TypeOK
      <4>2. Head(buffer[s]) \in Message
        BY <4>1, NextOne
      <4>3. Has(buffer[s], "close") <=> Head(buffer[s]).kind = "close" \/ Has(buffer'[s], "close")
        BY <4>1, HasTail
      <4>4. Has(outbound'[s], "close") => Has(outbound[s], "close") \/ Head(buffer[s]).kind = "close"
        <5>1. CASE outbound'[s] = outbound[s]
          BY <5>1
        <5>2. CASE outbound'[s] = Append(outbound[s], Head(buffer[s]))
          BY <4>1, <4>2, <5>2, HasAppend
        <5> QED
          BY <4>1, <5>1, <5>2
      <4> QED
        BY <2>1, <4>3, <4>4 DEF Told
    <3>2. CASE s # p
      <4>1. buffer'[s] = buffer[s] /\ outbound'[s] = outbound[s]
        BY <2>1, <3>2 DEF TypeOK
      <4> QED
        BY <2>1, <4>1 DEF Told
    <3> QED
      BY <3>1, <3>2
  <2>3. \A s \in Sides : Closer(s)' => Closer(s)
    BY <2>1 DEF Closer
  <2> QED
    BY <1>5, <2>1, <2>2, <2>3
<1>10. ASSUME NEW p \in Sides, PeerReads(p) PROVE Sourced'
  <2>1. /\ outbound[p] # <<>> /\ outbound' = [outbound EXCEPT ![p] = Tail(outbound[p])]
        /\ closeGot' = [closeGot EXCEPT ![p] = closeGot[p] \/ Head(outbound[p]).kind = "close"]
        /\ UNCHANGED <<ws, buffer, pump, held, inbound, broken, closeSent>>
    BY <1>10 DEF PeerReads
  <2>2. ASSUME NEW s \in Sides PROVE Told(s)' => Told(s)
    <3>1. CASE s = p
      <4>1. /\ outbound'[s] = Tail(outbound[s]) /\ outbound[s] # <<>> /\ outbound[s] \in Seq(Message)
            /\ closeGot'[s] => closeGot[s] \/ Head(outbound[s]).kind = "close"
        BY <2>1, <3>1 DEF TypeOK
      <4>2. Has(outbound[s], "close") <=> Head(outbound[s]).kind = "close" \/ Has(outbound'[s], "close")
        BY <4>1, HasTail
      <4> QED
        BY <2>1, <4>1, <4>2 DEF Told
    <3>2. CASE s # p
      <4>1. outbound'[s] = outbound[s] /\ closeGot'[s] = closeGot[s]
        BY <2>1, <3>2 DEF TypeOK
      <4> QED
        BY <2>1, <4>1 DEF Told
    <3> QED
      BY <3>1, <3>2
  <2>3. \A s \in Sides : Closer(s)' => Closer(s)
    BY <2>1 DEF Closer
  <2> QED
    BY <1>5, <2>1, <2>2, <2>3
<1>11. ASSUME NEW p \in Sides, PeerLeaves(p) PROVE Sourced'
  <2>1. /\ outbound' = [outbound EXCEPT ![p] = <<>>]
        /\ inbound' = inbound \/ inbound' = [inbound EXCEPT ![p] = <<>>]
        /\ broken' = (broken \/ ~(closeSent[p] /\ closeGot[p]))
        /\ UNCHANGED <<ws, buffer, pump, held, closeSent, closeGot>>
    BY <1>11 DEF PeerLeaves
  <2>2. \A s \in Sides : /\ outbound'[s] = outbound[s] \/ outbound'[s] = <<>>
                         /\ inbound'[s] = inbound[s] \/ inbound'[s] = <<>>
    BY <2>1 DEF TypeOK
  <2>3. CloseLast(<<>>)
    BY DEF CloseLast
  <2>4. broken => broken'
    BY <2>1
  <2>5. ASSUME NEW s \in Sides PROVE SourcedAt(s)'
    <3>1. (Told(s)' => Told(s)) /\ (Closer(s)' <=> Closer(s))
      BY <2>1, <2>2, HasNot DEF Told, Closer
    <3>2. /\ Has(inbound'[s], "close") => Has(inbound[s], "close")
          /\ Has(inbound'[s], "bad") => Has(inbound[s], "bad")
          /\ CloseLast(inbound[s]) => CloseLast(inbound'[s])
          /\ inbound[s] = <<>> => inbound'[s] = <<>>
      BY <2>2, <2>3, HasNot
    <3> QED
      BY <1>1, <2>1, <2>4, <3>1, <3>2 DEF SourcedAt
  <2> QED
    BY <2>5 DEF Sourced, SourcedAt
<1>12. ASSUME NEW p \in Sides, NEW m \in Message, Write(p, m),
              UNCHANGED closeSent \/ (m = Close /\ closeSent' = [closeSent EXCEPT ![p] = TRUE]),
              m.kind = "close" => closeSent'[p],
              m.kind = "bad" => broken', broken => broken'
       PROVE  Sourced'
  <2>1. /\ ~closeSent[p] /\ inbound' = [inbound EXCEPT ![p] = Append(inbound[p], m)]
        /\ UNCHANGED <<ws, buffer, outbound, pump, held, closeGot>>
    BY <1>12 DEF Write
  <2>2. ASSUME NEW s \in Sides PROVE SourcedAt(s)'
    <3>1. (Told(s)' <=> Told(s)) /\ (Closer(s)' <=> Closer(s))
      BY <2>1 DEF Told, Closer
    <3>2. (closeSent[s] => closeSent'[s]) /\ (closeSent[Other(s)] => closeSent'[Other(s)])
      BY <1>12 DEF TypeOK, Other
    <3>3. CASE s = p
      <4>1. inbound'[s] = Append(inbound[s], m) /\ inbound[s] \in Seq(Message) /\ ~closeSent[s]
        BY <2>1, <3>3 DEF TypeOK
      <4>2. ~Has(inbound[s], "close") /\ ~Closer(s)
        BY <1>1, <4>1 DEF SourcedAt
      <4>3. /\ CloseLast(inbound'[s])
            /\ Has(inbound'[s], "close") => m.kind = "close"
            /\ Has(inbound'[s], "bad") => Has(inbound[s], "bad") \/ m.kind = "bad"
        BY <4>1, <4>2, HasAppend, CloseLastAppend
      <4> QED
        BY <1>1, <1>12, <2>1, <3>1, <3>2, <3>3, <4>2, <4>3 DEF SourcedAt
    <3>4. CASE s # p
      <4>1. inbound'[s] = inbound[s]
        BY <2>1, <3>4 DEF TypeOK
      <4> QED
        BY <1>1, <1>12, <2>1, <3>1, <3>2, <4>1 DEF SourcedAt
    <3> QED
      BY <3>3, <3>4
  <2> QED
    BY <2>2 DEF Sourced, SourcedAt
<1>13. ASSUME NEW p \in Sides, PeerSends(p) \/ PeerCloses(p) \/ PeerErrs(p) \/ (p = "c" /\ ClientAsks)
       PROVE  Sourced'
  <2>1. PICK m : /\ Write(p, m) /\ m \in Message
                 /\ UNCHANGED closeSent \/ (m = Close /\ closeSent' = [closeSent EXCEPT ![p] = TRUE])
                 /\ m.kind = "close" => closeSent'[p]
                 /\ m.kind = "bad" => broken'
                 /\ broken => broken'
    BY <1>13, Writes
  <2> QED
    BY <1>12, <2>1
<1>14. CASE Finish \/ Tick \/ UNCHANGED vars
  <2>1. UNCHANGED <<ws, buffer, outbound, pump, held, inbound, broken, closeSent, closeGot>>
    BY <1>14 DEF Finish, Tick
  <2>2. \A s \in Sides : (Closer(s)' => Closer(s)) /\ (Told(s)' => Told(s))
    BY <2>1 DEF Closer, Told
  <2> QED
    BY <1>5, <2>1, <2>2
<1>15. ASSUME NEW p \in Sides, ReadFails(p) PROVE Sourced'
  <2>1. CASE NextMessage(p, {"bad"}) /\ Goto(p, "done") /\ UNCHANGED <<sockets, held>>
    BY <1>4, <2>1
  <2>2. CASE ~(NextMessage(p, {"bad"}) /\ Goto(p, "done") /\ UNCHANGED <<sockets, held>>)
    BY <1>6, <1>15, <2>2 DEF ReadFails
  <2> QED
    BY <2>1, <2>2
<1>16. CASE ClientAsks
  BY <1>13, <1>16
<1> QED
  BY <1>2, <1>4, <1>7, <1>8, <1>9, <1>10, <1>11, <1>13, <1>14, <1>15, <1>16
     DEF Next, Pump, Peer, Reading, Stutter

\* The three lanes.
IsLane(s, p, K) == \/ K = Data /\ p = Other(s)
                   \/ K = Answers /\ s = "c" /\ p = "c"

\* What a lane is made of has its types.
LEMMA LaneTypes ==
    ASSUME TypeOK, NEW s \in Sides, NEW p \in Sides, NEW K
    PROVE  /\ outbound[s] \in Seq(Message) /\ buffer[s] \in Seq(Message) /\ inbound[p] \in Seq(Message)
           /\ Pending(p) \in Seq(Message) /\ held[p] \in Message
           /\ Received(s, K) \in Nat /\ Written(p, K) \in Nat
<1> USE Types, RelayAssumption
<1>1. held[p] \in Message
  OBVIOUS
<1>2. Pending(p) \in Seq(Message)
  <2>1. <<held[p]>> \in Seq(Message) /\ <<>> \in Seq(Message)
    BY <1>1
  <2> QED
    BY <2>1 DEF Pending
<1>3. Received(s, K) \in Nat /\ Written(p, K) \in Nat
  BY DEF TypeOK, Received, Written
<1> QED
  BY <1>1, <1>2, <1>3

\* What a pump does with a message keeps the order of each lane.
LEMMA LanePasses ==
    ASSUME TypeOK, TypeOK', NEW s \in Sides, NEW p \in Sides, NEW K, IsLane(s, p, K), LaneOf(s, p, K),
           NEW x \in Sides, NEW m \in Message, m.kind \in {"data", "close", "reply"},
           m.kind = "reply" => x = "c", Passes(x, m)
    PROVE  LaneOf(s, p, K)'
<1> DEFINE lo == Received(s, K)
           hi == Written(p, K)
           t == Target(x, m)
<1>1. /\ lo \in Nat /\ hi \in Nat /\ Received(s, K)' = lo /\ Written(p, K)' = hi
      /\ outbound'[s] = outbound[s] /\ gone' = gone /\ over = "no" /\ over' = over
      /\ Takes(x, m) /\ Leaves(x, m, ws, buffer) /\ Acks(x, m) /\ held'[x] = m
  BY LaneTypes DEF Passes, Received, Written
<1>2. /\ outbound[s] \in Seq(Message) /\ buffer[s] \in Seq(Message) /\ inbound[p] \in Seq(Message)
      /\ held[p] \in Message /\ buffer'[s] \in Seq(Message) /\ inbound'[p] \in Seq(Message)
      /\ Pending(p) \in Seq(Message)
  BY LaneTypes DEF TypeOK
<1>3. SUFFICES ASSUME ~gone[s] PROVE Front(s, p, K)' /\ (Running(p)' => Back(s, p, K)')
  BY <1>1 DEF LaneOf
<1>4. Front(s, p, K) /\ (Running(p) => Back(s, p, K))
  BY <1>3 DEF LaneOf
<1>5. /\ m.kind \in K /\ t = s => x = p
      /\ m.kind \in K /\ x = p => t = s
      /\ "close" \notin K /\ Close.kind = "close" /\ Close \in Message
      /\ t \in Sides /\ Other(t) \in Sides /\ Sides = {t, Other(t)} /\ Other(t) # t
  BY CloseMessage DEF IsLane, Data, Answers, Target, Other
<1>6. \/ buffer'[s] = buffer[s]
      \/ \E n \in Message : n.kind \notin K /\ buffer'[s] = Append(buffer[s], n)
      \/ m.kind \in K /\ t = s /\ buffer'[s] = Append(buffer[s], m) /\ pump'[x] = "flush"
  <2>1. CASE s = t
    BY <1>1, <2>1 DEF Leaves
  <2>2. CASE s = Other(t)
    BY <1>1, <1>5, <2>2 DEF Acks
  <2> QED
    BY <1>5, <2>1, <2>2
<1> HIDE DEF lo, hi, t
\* A lane after the step, given the one with m let go.
<1>7. ASSUME NEW d \in 0..hi, NEW hand, NEW in, Lane(outbound[s], buffer[s], hand, in, K, lo, d),
             m.kind \notin K \/ t # s \/ pump'[x] # "flush"
      PROVE  Lane(outbound[s], buffer'[s], hand, in, K, lo, d)
  <2>1. CASE buffer'[s] = buffer[s]
    BY <1>7, <2>1
  <2>2. CASE buffer'[s] # buffer[s]
    <3>1. PICK n \in Message : n.kind \notin K /\ buffer'[s] = Append(buffer[s], n)
      BY <1>6, <1>7, <2>2
    <3>2. d \in Nat
      BY <1>1
    <3> QED
      BY <1>1, <1>2, <1>7, <3>1, <3>2, LaneAdd
  <2> QED
    BY <2>1, <2>2
<1>8. ASSUME m.kind \notin K \/ t # s \/ pump'[x] # "flush"
      PROVE  Front(s, p, K)'
  <2>1. PICK b \in 0..hi : Stretch(outbound[s], buffer[s], K, lo, b)
    BY <1>4 DEF Front, lo, hi
  <2>2. Stretch(outbound[s], buffer'[s], K, lo, b)
    <3>1. CASE buffer'[s] = buffer[s]
      BY <2>1, <3>1
    <3>2. CASE buffer'[s] # buffer[s]
      <4>1. PICK n \in Message : n.kind \notin K /\ buffer'[s] = Append(buffer[s], n)
        BY <1>6, <1>8, <3>2
      <4>2. b \in Nat
        BY <1>1
      <4> QED
        BY <1>1, <1>2, <2>1, <4>1, <4>2, StretchAdd
    <3> QED
      BY <3>1, <3>2
  <2> QED
    BY <1>1, <2>2 DEF Front
<1>9. ASSUME NEW d \in 0..hi, Lane(outbound[s], buffer'[s], Pending(p)', inbound'[p], K, lo, d),
             Pending(p)' \in Seq(Message), Whole(p)' => d = hi
      PROVE  Front(s, p, K)' /\ Back(s, p, K)'
  <2>1. \E b \in 0..d : Stretch(outbound[s], buffer'[s], K, lo, b)
    BY <1>1, <1>2, <1>9, LaneLe
  <2> QED
    BY <1>1, <1>9, <2>1 DEF Front, Back
<1>10. CASE x # p
  <2>1. p = Other(x) /\ ~(m.kind \in K /\ t = s)
    BY <1>5, <1>10 DEF Other
  <2>2. held'[p] = held[p] /\ pump'[p] = pump[p] /\ inbound'[p] = inbound[p]
    BY <2>1 DEF Passes
  <2>3. /\ Pending(p)' = Pending(p) /\ (Running(p)' <=> Running(p)) /\ (Whole(p)' <=> Whole(p))
    BY <1>1, <2>2 DEF Pending, Running, Whole, Closer
  <2>4. ASSUME Running(p) PROVE Back(s, p, K)'
    <3>1. PICK d \in 0..hi : /\ Lane(outbound[s], buffer[s], Pending(p), inbound[p], K, lo, d)
                             /\ Whole(p) => d = hi
      BY <1>4, <2>4 DEF Back, lo, hi
    <3>2. Lane(outbound[s], buffer'[s], Pending(p), inbound[p], K, lo, d)
      BY <1>7, <2>1, <3>1
    <3> QED
      BY <1>2, <1>9, <2>2, <2>3, <3>1, <3>2
  <2> QED
    BY <1>8, <2>1, <2>3, <2>4
<1>11. CASE x = p
  <2>1. pump[p] \in {"read", "lock"} /\ Running(p)
    BY <1>1, <1>11 DEF Takes, Running
  <2>2. PICK d \in 0..hi : /\ Lane(outbound[s], buffer[s], Pending(p), inbound[p], K, lo, d)
                           /\ Whole(p) => d = hi
    BY <1>4, <2>1 DEF Back, lo, hi
  <2>3. Lane(outbound[s], buffer[s], <<m>>, inbound'[p], K, lo, d)
    <3>1. CASE pump[p] = "read"
      <4> DEFINE h == Head(inbound[p])
      <4>1. /\ inbound[p] # <<>> /\ inbound'[p] = Tail(inbound[p]) /\ Pending(p) = <<>>
            /\ \/ h.kind \in {"data", "close"} /\ m = h
               \/ h.kind = "call" /\ m.kind = "reply" /\ m.n = h.n
        BY <1>1, <1>11, <3>1 DEF Takes, Pending
      <4>2. /\ h.kind \in K => m.kind \in K /\ m.n = h.n
            /\ h.kind \notin K => m.kind \notin K
        BY <4>1 DEF IsLane, Data, Answers
      <4>3. d \in Nat /\ Lane(outbound[s], buffer[s], <<>>, inbound[p], K, lo, d)
        BY <1>1, <2>2, <4>1
      <4> QED
        BY <1>1, <1>2, <4>1, <4>2, <4>3, LaneTake
    <3>2. CASE pump[p] = "lock"
      BY <1>1, <1>11, <2>2, <3>2 DEF Takes, Pending
    <3> QED
      BY <2>1, <3>1, <3>2
  <2>4. Whole(p)' => d = hi
    <3>1. Closer(p)' /\ pump[p] = "lock" => Closer(p)
      <4>1. m.kind = "close" => m = Close
        BY CloseOnly
      <4>2. pump[p] = "lock" => m = held[p] /\ inbound'[p] = inbound[p]
        BY <1>1, <1>11 DEF Takes
      <4>3. pump'[p] = "linger" => m.kind = "close"
        BY <1>1, <1>11 DEF Leaves, AfterError
      <4> QED
        BY <1>1, <1>11, <4>1, <4>2, <4>3 DEF Closer
    <3>2. Whole(p)' => Whole(p)
      BY <1>1, <1>11, <2>1, <3>1 DEF Whole, Takes
    <3> QED
      BY <2>2, <3>2
  <2>5. CASE pump'[x] = "lock"
    <3>1. Pending(p)' = <<m>> /\ <<m>> \in Seq(Message)
      BY <1>1, <1>11, <2>5 DEF Pending
    <3>2. Lane(outbound[s], buffer'[s], <<m>>, inbound'[p], K, lo, d)
      BY <1>7, <2>3, <2>5
    <3> QED
      BY <1>9, <2>4, <3>1, <3>2
  <2>6. CASE pump'[x] = "flush" /\ m.kind \in K
    <3>1. buffer'[s] = Append(buffer[s], m)
      BY <1>1, <1>5, <1>11, <2>6 DEF Leaves, t, AfterError
    <3>2. Lane(outbound[s], buffer'[s], <<>>, inbound'[p], K, lo, d)
      BY <1>1, <1>2, <2>3, <3>1, LanePut
    <3>3. Pending(p)' = <<>> /\ <<>> \in Seq(Message)
      BY <1>11, <2>6 DEF Pending
    <3> QED
      BY <1>9, <2>4, <3>2, <3>3
  <2>7. CASE pump'[x] # "lock" /\ m.kind \notin K
    <3>1. Lane(outbound[s], buffer[s], <<>>, inbound'[p], K, lo, d)
      BY <1>1, <1>2, <2>3, <2>7, LaneDrop
    <3>2. Lane(outbound[s], buffer'[s], <<>>, inbound'[p], K, lo, d)
      BY <1>7, <2>7, <3>1
    <3>3. Pending(p)' = <<>> /\ <<>> \in Seq(Message)
      BY <1>11, <2>7 DEF Pending
    <3> QED
      BY <1>9, <2>4, <3>2, <3>3
  <2>8. CASE pump'[x] \notin {"lock", "flush"} /\ m.kind \in K
    <3>1. pump'[p] = "done"
      BY <1>1, <1>5, <1>11, <2>8 DEF Leaves, AfterError
    <3>2. ~Running(p)'
      BY <3>1 DEF Running
    <3> QED
      BY <1>8, <2>8, <3>2
  <2> QED
    BY <2>5, <2>6, <2>7, <2>8
<1> QED
  BY <1>10, <1>11

\* No step loses, doubles or reorders a message of a lane.
LEMMA LaneStep ==
    ASSUME TypeOK, TypeOK', Closing, Carried, Sourced, NEW s \in Sides, NEW p \in Sides, NEW K,
           IsLane(s, p, K), LaneOf(s, p, K), [Next]_vars
    PROVE  LaneOf(s, p, K)'
<1> DEFINE lo == Received(s, K)
           hi == Written(p, K)
<1>1. /\ outbound[s] \in Seq(Message) /\ buffer[s] \in Seq(Message) /\ inbound[p] \in Seq(Message)
      /\ held[p] \in Message /\ lo \in Nat /\ hi \in Nat /\ Pending(p) \in Seq(Message)
      /\ outbound'[s] \in Seq(Message) /\ buffer'[s] \in Seq(Message)
      /\ gone[s] \in BOOLEAN /\ gone'[s] \in BOOLEAN
      /\ "close" \notin K /\ "note" \notin K /\ "bad" \notin K
      /\ Received(s, K)' \in Nat /\ Written(p, K)' \in Nat
  <2>1. Received(s, K)' \in Nat /\ Written(p, K)' \in Nat
    <3>1. got'[s] \in 0..MaxData /\ sent'[p] \in 0..MaxData /\ answered' \in 0..MaxCalls /\ asked' \in 0..MaxCalls
      BY DEF TypeOK
    <3>2. got'[s] \in Nat /\ sent'[p] \in Nat /\ answered' \in Nat /\ asked' \in Nat
      BY <3>1, RelayAssumption
    <3> QED
      BY <3>2 DEF Received, Written
  <2> QED
    BY <2>1, LaneTypes DEF TypeOK, IsLane, Data, Answers
<1>2. ASSUME NEW x \in Sides, Reading(x) \/ Lock(x) PROVE LaneOf(s, p, K)'
  <2>1. PICK m \in Message : m.kind \in {"data", "close", "reply"} /\ (m.kind = "reply" => x = "c")
                             /\ Passes(x, m)
    BY <1>2, Passing
  <2> QED
    BY <2>1, LanePasses
\* A step that moves none of the lane's messages.
<1>3. ASSUME UNCHANGED <<outbound, buffer, gone, got, answered, sent, asked, inbound, held>>,
             Running(p)' => /\ Running(p)
                            /\ pump[p] = "lock" <=> pump'[p] = "lock"
                            /\ Closer(p)' => Closer(p)
      PROVE  LaneOf(s, p, K)'
  <2>1. Received(s, K)' = lo /\ Written(p, K)' = hi
    BY <1>3 DEF Received, Written
  <2>2. Front(s, p, K) => Front(s, p, K)'
    BY <1>3, <2>1 DEF Front
  <2>3. Running(p)' => Pending(p)' = Pending(p) /\ (Whole(p)' => Whole(p))
    BY <1>3 DEF Pending, Whole
  <2>4. Running(p)' => (Back(s, p, K) => Back(s, p, K)')
    BY <1>3, <2>1, <2>3 DEF Back
  <2> QED
    BY <1>3, <2>2, <2>4 DEF LaneOf
<1>4. ASSUME NEW x \in Sides, At(x, "read") /\ inbound[x] = <<>> /\ gone[x] /\ Goto(x, "done")
             /\ ws' = [ws EXCEPT ![x] = "terminated"] /\ UNCHANGED <<buffer, held, sink, inbound>> /\ Rest
      PROVE  LaneOf(s, p, K)'
  <2>1. /\ pump' = [pump EXCEPT ![x] = "done"]
        /\ UNCHANGED <<outbound, buffer, gone, got, answered, sent, asked, inbound, held, over>>
    BY <1>4 DEF Goto, Rest
  <2>2. pump'[p] = pump[p] \/ pump'[p] = "done"
    BY <2>1 DEF TypeOK
  <2> QED
    BY <1>3, <2>1, <2>2 DEF Running, Closer
<1>5. ASSUME NEW x \in Sides, SendDone(x) \/ SendFails(x) PROVE LaneOf(s, p, K)'
  <2>1. /\ pump[x] = "flush" /\ over = "no"
        /\ pump' = [pump EXCEPT ![x] = AfterSend(held[x])] \/ pump' = [pump EXCEPT ![x] = AfterError(held[x])]
        /\ UNCHANGED <<outbound, buffer, gone, got, answered, sent, asked, inbound, held, over>>
    BY <1>5 DEF SendDone, SendFails, Goto, At, Rest
  <2>2. held[x].kind = "close" => held[x] = Close
    BY LaneTypes, CloseOnly DEF TypeOK
  <2>3. \/ pump'[p] = pump[p]
        \/ pump[p] = "flush" /\ pump'[p] \in {"read", "done"}
        \/ pump[p] = "flush" /\ pump'[p] = "linger" /\ held[p] = Close
    BY <2>1, <2>2 DEF TypeOK, AfterSend, AfterError
  <2> QED
    BY <1>3, <2>1, <2>3 DEF Running, Closer
<1>6. ASSUME NEW x \in Sides, LastRead(x) PROVE LaneOf(s, p, K)'
  <2>1. /\ pump' = [pump EXCEPT ![x] = "done"]
        /\ UNCHANGED <<outbound, buffer, gone, got, answered, sent, asked, inbound, held, over>>
    BY <1>6 DEF LastRead, Goto
  <2>2. pump'[p] = pump[p] \/ pump'[p] = "done"
    BY <2>1 DEF TypeOK
  <2> QED
    BY <1>3, <2>1, <2>2 DEF Running, Closer
<1>7. CASE Finish \/ Tick \/ UNCHANGED vars
  <2>1. /\ UNCHANGED <<outbound, buffer, gone, got, answered, sent, asked, inbound, held, pump>>
        /\ over' = over \/ over' \in {"ended", "cut"}
    BY <1>7 DEF Finish, Tick
  <2> QED
    BY <1>3, <2>1 DEF Running, Closer
\* A message that is no one's business is read.
<1>8. ASSUME NEW x \in Sides,
             \/ NextMessage(x, {"bad"}) /\ Goto(x, "done") /\ UNCHANGED <<sockets, held>>
             \/ x = "c" /\ ReadNote
      PROVE  LaneOf(s, p, K)'
  <2>1. /\ pump[x] = "read" /\ inbound[x] # <<>> /\ Head(inbound[x]).kind \in {"bad", "note"}
        /\ inbound' = [inbound EXCEPT ![x] = Tail(inbound[x])] /\ over = "no"
        /\ UNCHANGED <<outbound, buffer, gone, got, answered, sent, asked, held, over>>
        /\ pump' = pump \/ pump' = [pump EXCEPT ![x] = "done"]
    BY <1>8 DEF NextMessage, Goto, Rest, ReadNote, At
  <2>2. Received(s, K)' = lo /\ Written(p, K)' = hi
    BY <2>1 DEF Received, Written
  <2>3. CASE x # p
    <3>1. inbound'[p] = inbound[p] /\ pump'[p] = pump[p]
      BY <2>1, <2>3 DEF TypeOK
    <3>2. /\ (Running(p)' <=> Running(p)) /\ Pending(p)' = Pending(p) /\ (Whole(p)' <=> Whole(p))
      BY <2>1, <3>1 DEF Running, Pending, Whole, Closer
    <3>3. (Front(s, p, K) => Front(s, p, K)') /\ (Back(s, p, K) => Back(s, p, K)')
      BY <2>1, <2>2, <3>1, <3>2 DEF Front, Back
    <3> QED
      BY <2>1, <3>2, <3>3 DEF LaneOf
  <2>4. CASE x = p
    <3>1. /\ inbound[p] # <<>> /\ inbound'[p] = Tail(inbound[p]) /\ Pending(p) = <<>> /\ Pending(p)' = <<>>
          /\ Running(p) /\ Whole(p)
      BY <2>1, <2>4 DEF TypeOK, Pending, Running, Whole
    <3>2. Front(s, p, K) => Front(s, p, K)'
      BY <2>1, <2>2 DEF Front
    <3>3. ASSUME Back(s, p, K) PROVE Back(s, p, K)'
      <4>1. PICK d \in 0..hi : /\ Lane(outbound[s], buffer[s], <<>>, inbound[p], K, lo, d) /\ d = hi
        BY <3>1, <3>3 DEF Back
      <4> DEFINE h == Head(inbound[p])
      <4>2. h \in Message /\ h.kind \notin K /\ d \in Nat
        BY <1>1, <2>1, <2>4, <3>1, NextOne
      <4>3. Lane(outbound[s], buffer[s], <<h>>, Tail(inbound[p]), K, lo, d)
        BY <1>1, <3>1, <4>1, <4>2, LaneTake
      <4>4. Tail(inbound[p]) \in Seq(Message)
        BY <1>1, <3>1
      <4>5. Lane(outbound[s], buffer[s], <<>>, Tail(inbound[p]), K, lo, d)
        BY <1>1, <4>2, <4>3, <4>4, LaneDrop
      <4> QED
        BY <2>1, <2>2, <3>1, <4>1, <4>5 DEF Back
    <3> QED
      BY <2>1, <3>1, <3>2, <3>3 DEF LaneOf
  <2> QED
    BY <2>3, <2>4
<1>9. ASSUME NEW x \in Sides, ReadFails(x) PROVE LaneOf(s, p, K)'
  <2>1. CASE NextMessage(x, {"bad"}) /\ Goto(x, "done") /\ UNCHANGED <<sockets, held>>
    BY <1>8, <2>1
  <2>2. CASE ~(NextMessage(x, {"bad"}) /\ Goto(x, "done") /\ UNCHANGED <<sockets, held>>)
    BY <1>4, <1>9, <2>2 DEF ReadFails
  <2> QED
    BY <2>1, <2>2
<1>10. ASSUME NEW x \in Sides, Flush(x) PROVE LaneOf(s, p, K)'
  <2>1. /\ buffer[x] # <<>> /\ buffer' = [buffer EXCEPT ![x] = Tail(buffer[x])]
        /\ UNCHANGED <<gone, got, answered, sent, asked, inbound, held, pump, over>>
        /\ ~gone[x] => outbound' = [outbound EXCEPT ![x] = Append(outbound[x], Head(buffer[x]))]
        /\ gone[x] => outbound' = outbound
    BY <1>10 DEF Flush
  <2>2. Received(s, K)' = lo /\ Written(p, K)' = hi
    BY <2>1 DEF Received, Written
  <2>3. /\ (Running(p)' <=> Running(p)) /\ Pending(p)' = Pending(p) /\ (Whole(p)' <=> Whole(p))
    BY <2>1 DEF Running, Pending, Whole, Closer
  <2>4. CASE s # x
    <3>1. outbound'[s] = outbound[s] /\ buffer'[s] = buffer[s]
      BY <2>1, <2>4 DEF TypeOK
    <3>2. (Front(s, p, K) => Front(s, p, K)') /\ (Back(s, p, K) => Back(s, p, K)')
      BY <2>1, <2>2, <2>3, <3>1 DEF Front, Back
    <3> QED
      BY <2>1, <2>3, <3>2 DEF LaneOf
  <2>5. CASE s = x /\ ~gone[s]
    <3>1. outbound'[s] = Append(outbound[s], Head(buffer[s])) /\ buffer'[s] = Tail(buffer[s]) /\ buffer[s] # <<>>
      BY <2>1, <2>5 DEF TypeOK
    <3>2. ASSUME Front(s, p, K) PROVE Front(s, p, K)'
      <4>1. PICK b \in 0..hi : Stretch(outbound[s], buffer[s], K, lo, b)
        BY <3>2 DEF Front
      <4>2. b \in Nat
        BY <1>1
      <4>3. Stretch(outbound'[s], buffer'[s], K, lo, b)
        BY <1>1, <3>1, <4>1, <4>2, StretchFlush
      <4> QED
        BY <2>2, <4>3 DEF Front
    <3>3. ASSUME Back(s, p, K) PROVE Back(s, p, K)'
      <4>1. PICK d \in 0..hi : /\ Lane(outbound[s], buffer[s], Pending(p), inbound[p], K, lo, d)
                               /\ Whole(p) => d = hi
        BY <3>3 DEF Back
      <4>2. d \in Nat
        BY <1>1
      <4>3. Lane(outbound'[s], buffer'[s], Pending(p), inbound[p], K, lo, d)
        BY <1>1, <3>1, <4>1, <4>2, LaneFlush
      <4> QED
        BY <2>1, <2>2, <2>3, <4>1, <4>3 DEF Back
    <3> QED
      BY <2>1, <2>3, <3>2, <3>3 DEF LaneOf
  <2>6. CASE s = x /\ gone[s]
    BY <2>1, <2>6 DEF LaneOf
  <2> QED
    BY <2>4, <2>5, <2>6
<1>11. ASSUME NEW x \in Sides, PeerReads(x) PROVE LaneOf(s, p, K)'
  <2> DEFINE m == Head(outbound[x])
  <2>1. /\ outbound[x] # <<>> /\ outbound' = [outbound EXCEPT ![x] = Tail(outbound[x])]
        /\ got' = IF m.kind = "data" THEN [got EXCEPT ![x] = m.n] ELSE got
        /\ answered' = IF m.kind = "reply" THEN m.n ELSE answered
        /\ UNCHANGED <<buffer, gone, sent, asked, inbound, held, pump, over>>
    BY <1>11 DEF PeerReads
  <2>2. Written(p, K)' = hi
    BY <2>1 DEF Written
  <2>3. /\ (Running(p)' <=> Running(p)) /\ Pending(p)' = Pending(p) /\ (Whole(p)' <=> Whole(p))
    BY <2>1 DEF Running, Pending, Whole, Closer
  <2>4. m.kind # "call" /\ (m.kind = "reply" => x = "c")
    <3>1. Fit(outbound[x], x) /\ outbound[x] \in Seq(Message) /\ x \in {"c", "u"}
      BY DEF Carried, TypeOK
    <3> QED
      BY <2>1, <3>1, Fits
  <2>5. CASE s # x
    <3>1. outbound'[s] = outbound[s]
      BY <2>1, <2>5 DEF TypeOK
    <3>2. Received(s, K)' = lo
      BY <2>1, <2>4, <2>5 DEF TypeOK, Received, IsLane
    <3>3. (Front(s, p, K) => Front(s, p, K)') /\ (Back(s, p, K) => Back(s, p, K)')
      BY <2>1, <2>2, <2>3, <3>1, <3>2 DEF Front, Back
    <3> QED
      BY <2>1, <2>3, <3>3 DEF LaneOf
  <2>6. CASE s = x
    <3>1. outbound[s] # <<>> /\ outbound'[s] = Tail(outbound[s]) /\ m = Head(outbound[s])
      BY <2>1, <2>6 DEF TypeOK
    <3>2. Received(s, K)' = IF m.kind \in K THEN m.n ELSE lo
      BY <2>1, <2>4, <2>6 DEF TypeOK, Received, IsLane, Data, Answers
    <3>3. ASSUME Front(s, p, K) PROVE Front(s, p, K)'
      <4>1. PICK b \in 0..hi : Stretch(outbound[s], buffer[s], K, lo, b)
        BY <3>3 DEF Front
      <4>2. b \in Nat
        BY <1>1
      <4>3. /\ m.kind \notin K => Stretch(Tail(outbound[s]), buffer[s], K, lo, b)
            /\ m.kind \in K => m.n = lo + 1 /\ Stretch(Tail(outbound[s]), buffer[s], K, lo + 1, b)
        BY <1>1, <3>1, <4>1, <4>2, StretchFetch, SMTT(30)
      <4>4. Stretch(outbound'[s], buffer[s], K, Received(s, K)', b)
        BY <3>1, <3>2, <4>3
      <4> QED
        BY <2>1, <2>2, <4>4 DEF Front
    <3>4. ASSUME Back(s, p, K) PROVE Back(s, p, K)'
      <4>1. PICK d \in 0..hi : /\ Lane(outbound[s], buffer[s], Pending(p), inbound[p], K, lo, d)
                               /\ Whole(p) => d = hi
        BY <3>4 DEF Back
      <4>2. d \in Nat
        BY <1>1
      <4>3. /\ m.kind \notin K => Lane(Tail(outbound[s]), buffer[s], Pending(p), inbound[p], K, lo, d)
            /\ m.kind \in K =>
                   m.n = lo + 1 /\ Lane(Tail(outbound[s]), buffer[s], Pending(p), inbound[p], K, lo + 1, d)
        BY <1>1, <3>1, <4>1, <4>2, LaneFetch
      <4>4. Lane(outbound'[s], buffer[s], Pending(p), inbound[p], K, Received(s, K)', d)
        BY <3>1, <3>2, <4>3
      <4> QED
        BY <2>1, <2>2, <2>3, <4>1, <4>4 DEF Back
    <3> QED
      BY <2>1, <2>3, <3>3, <3>4 DEF LaneOf
  <2> QED
    BY <2>5, <2>6
<1>12. ASSUME NEW x \in Sides, PeerLeaves(x) PROVE LaneOf(s, p, K)'
  <2>1. /\ gone' = [gone EXCEPT ![x] = TRUE] /\ outbound' = [outbound EXCEPT ![x] = <<>>]
        /\ inbound' = inbound \/ inbound' = [inbound EXCEPT ![x] = <<>>]
        /\ UNCHANGED <<buffer, got, answered, sent, asked, held, pump, over>>
    BY <1>12 DEF PeerLeaves
  <2>2. Received(s, K)' = lo /\ Written(p, K)' = hi
    BY <2>1 DEF Received, Written
  <2>3. CASE s = x
    BY <2>1, <2>3 DEF LaneOf, TypeOK
  <2>4. CASE s # x
    <3>1. /\ outbound'[s] = outbound[s] /\ gone'[s] = gone[s]
          /\ inbound'[p] = inbound[p] \/ inbound'[p] = <<>>
          /\ gone[p] => gone'[p]
      BY <2>1, <2>4 DEF TypeOK
    <3>2. /\ (Running(p)' <=> Running(p)) /\ Pending(p)' = Pending(p) /\ (Closer(p)' <=> Closer(p))
      BY <2>1 DEF Running, Pending, Closer
    <3>3. Front(s, p, K) => Front(s, p, K)'
      BY <2>1, <2>2, <3>1 DEF Front
    <3>4. ASSUME Back(s, p, K) PROVE Back(s, p, K)'
      <4>1. PICK d \in 0..hi : /\ Lane(outbound[s], buffer[s], Pending(p), inbound[p], K, lo, d)
                               /\ Whole(p) => d = hi
        BY <3>4 DEF Back
      <4>2. CASE inbound'[p] = inbound[p]
        <5>1. Whole(p)' => Whole(p)
          BY <3>1, <3>2, <4>2 DEF Whole
        <5> QED
          BY <2>1, <2>2, <3>1, <3>2, <4>1, <4>2, <5>1 DEF Back
      <4>3. CASE inbound'[p] = <<>> /\ inbound[p] # <<>>
        <5>1. d \in Nat
          BY <1>1
        <5>2. PICK e \in 0..d : Lane(outbound[s], buffer[s], Pending(p), <<>>, K, lo, e)
          BY <1>1, <4>1, <5>1, LaneLose
        <5>3. ~Closer(p) /\ p = x
          BY <2>1, <4>3 DEF Sourced, SourcedAt, TypeOK
        <5>4. ~Whole(p)' /\ e \in 0..hi
          <6>1. gone'[p]
            BY <2>1, <5>3 DEF TypeOK
          <6>2. d \in Nat /\ d <= hi
            BY <1>1
          <6> QED
            BY <1>1, <3>2, <4>3, <5>3, <6>1, <6>2 DEF Whole
        <5> QED
          BY <2>1, <2>2, <3>1, <3>2, <4>3, <5>2, <5>4 DEF Back
      <4> QED
        BY <3>1, <4>2, <4>3
    <3> QED
      BY <3>1, <3>2, <3>3, <3>4 DEF LaneOf
  <2> QED
    BY <2>3, <2>4
<1>13. ASSUME NEW x \in Sides, PeerSends(x) \/ PeerCloses(x) \/ PeerErrs(x) \/ (x = "c" /\ ClientAsks)
       PROVE  LaneOf(s, p, K)'
  <2>1. PICK m \in Message :
               /\ Write(x, m)
               /\ IF m.kind = "data"
                  THEN ~closeGot[x] /\ m.n = sent[x] + 1 /\ sent' = [sent EXCEPT ![x] = m.n]
                  ELSE sent' = sent
               /\ IF m.kind = "call" THEN x = "c" /\ m.n = asked + 1 /\ asked' = m.n ELSE asked' = asked
               /\ m.kind # "reply"
    BY <1>13, Writes
  <2>2. /\ ~gone[x] /\ ~closeSent[x] /\ inbound' = [inbound EXCEPT ![x] = Append(inbound[x], m)]
        /\ UNCHANGED <<outbound, buffer, gone, got, answered, held, pump, over>>
    BY <2>1 DEF Write
  <2>3. Received(s, K)' = lo
    BY <2>2 DEF Received
  <2>4. /\ (Running(p)' <=> Running(p)) /\ Pending(p)' = Pending(p) /\ (Closer(p)' <=> Closer(p))
    BY <2>2 DEF Running, Pending, Closer
  <2>5. CASE p # x
    <3>1. inbound'[p] = inbound[p]
      BY <2>2, <2>5 DEF TypeOK
    <3>2. Written(p, K)' = hi
      BY <2>1, <2>5 DEF TypeOK, Written, IsLane
    <3>3. Whole(p)' <=> Whole(p)
      BY <2>2, <2>4, <3>1 DEF Whole
    <3>4. (Front(s, p, K) => Front(s, p, K)') /\ (Back(s, p, K) => Back(s, p, K)')
      BY <2>2, <2>3, <2>4, <3>1, <3>2, <3>3 DEF Front, Back
    <3> QED
      BY <2>2, <2>4, <3>4 DEF LaneOf
  <2>6. CASE p = x
    <3>1. inbound'[p] = Append(inbound[p], m) /\ ~gone[p] /\ Whole(p)
      BY <2>2, <2>6 DEF TypeOK, Whole
    <3>2. IF m.kind \in K THEN m.n = hi + 1 /\ Written(p, K)' = hi + 1 ELSE Written(p, K)' = hi
      <4>1. CASE K = Data
        <5>1. hi = sent[p] /\ Written(p, K)' = sent'[p]
          BY <4>1 DEF Written
        <5> QED
          BY <2>1, <2>6, <4>1, <5>1 DEF TypeOK, Data
      <4>2. CASE K = Answers /\ K # Data
        BY <2>1, <4>2 DEF Written, Answers
      <4> QED
        BY <4>1, <4>2 DEF IsLane, Data, Answers
    <3> HIDE DEF lo, hi
    <3>3. ASSUME Front(s, p, K) PROVE Front(s, p, K)'
      <4>1. PICK b \in 0..hi : Stretch(outbound[s], buffer[s], K, lo, b)
        BY <3>3 DEF Front, lo, hi
      <4>2. b \in 0..Written(p, K)'
        BY <1>1, <3>2
      <4> QED
        BY <2>2, <2>3, <4>1, <4>2 DEF Front
    <3>4. ASSUME Back(s, p, K) PROVE Back(s, p, K)'
      <4>1. PICK d \in 0..hi : /\ Lane(outbound[s], buffer[s], Pending(p), inbound[p], K, lo, d)
                               /\ d = hi
        BY <3>1, <3>4 DEF Back, lo, hi
      <4>2. /\ m.kind \notin K => Lane(outbound[s], buffer[s], Pending(p), inbound'[p], K, lo, hi)
            /\ m.kind \in K /\ m.n = hi + 1 =>
                   Lane(outbound[s], buffer[s], Pending(p), inbound'[p], K, lo, hi + 1)
        BY <1>1, <3>1, <4>1, LaneWrite
      <4>3. Lane(outbound[s], buffer[s], Pending(p), inbound'[p], K, lo, Written(p, K)')
        BY <3>2, <4>2
      <4>4. Written(p, K)' \in 0..Written(p, K)'
        BY <1>1
      <4> QED
        BY <2>2, <2>3, <2>4, <4>3, <4>4 DEF Back
    <3> QED
      BY <2>2, <2>4, <3>3, <3>4 DEF LaneOf
  <2> QED
    BY <2>5, <2>6
<1>14. CASE ClientAsks
  BY <1>13, <1>14
<1> QED
  BY <1>2, <1>5, <1>6, <1>7, <1>8, <1>9, <1>10, <1>11, <1>12, <1>13, <1>14
     DEF Next, Pump, Peer, Reading, Stutter

\* A run of data is empty when there is none.
LEMMA NoData ==
    ASSUME NEW q \in Seq(Message), NEW lo \in Nat, NEW hi \in Nat, Run(q, Data, lo, hi)
    PROVE  lo = hi <=> ~Has(q, "data")
<1>1. lo <= hi
  BY RunLe
<1>2. ~Has(q, "data") => lo = hi
  BY <1>1, RunNone DEF Has, Data
<1>3. lo = hi => ~Has(q, "data")
  BY RunSame DEF Has, Data
<1> QED
  BY <1>2, <1>3

\* A close that goes through is put behind all the data that its peer has sent.
LEMMA OrderlyPasses ==
    ASSUME TypeOK, TypeOK', Sourced, Lanes, NEW s \in Sides, OrderlyAt(s),
           NEW x \in Sides, NEW m \in Message, m.kind \in {"data", "close", "reply"},
           m.kind = "reply" => x = "c", Passes(x, m)
    PROVE  OrderlyAt(s)'
<1> DEFINE t == Target(x, m)
<1>1. /\ UNCHANGED <<outbound, over, gone, closeSent, closeGot, sent, got>> /\ held'[x] = m /\ over = "no"
      /\ Takes(x, m) /\ Leaves(x, m, ws, buffer) /\ Acks(x, m)
  BY DEF Passes
<1>2. /\ t \in Sides /\ Other(t) \in Sides /\ Sides = {t, Other(t)}
      /\ m = Close => t = Other(x) /\ x = Other(t)
      /\ m.kind = "close" <=> m = Close
      /\ Close.kind = "close" /\ Close \in Message
  BY CloseMessage, CloseOnly DEF Target, Other
<1>3. SUFFICES ASSUME ~closeSent[s], ~gone[s], buffer'[s] # buffer[s]
               PROVE  /\ Ends(buffer'[s])
                      /\ Has(buffer'[s], "close") =>
                             Stretch(outbound[s], buffer'[s], Data, got[s], sent[Other(s)])
  BY <1>1 DEF OrderlyAt
<1>4. PICK n \in Message : /\ ws[s] = "active" /\ buffer'[s] = Append(buffer[s], n)
                           /\ n = Close => s = t /\ m = Close /\ pump'[x] = "flush"
  <2>1. CASE s = t
    BY <1>1, <1>2, <1>3, <2>1 DEF Leaves
  <2>2. CASE s = Other(t)
    <3>1. m = Close /\ pump[x] = "read" /\ s = x
      BY <1>1, <1>2, <1>3, <2>2 DEF Acks
    <3>2. closeSent[x]
      BY <1>1, <3>1, ClosesKnown
    <3> QED
      BY <1>3, <3>1, <3>2
  <2> QED
    BY <1>2, <2>1, <2>2
<1>5. ~Has(buffer[s], "close") /\ ~Has(outbound[s], "close")
  BY <1>4 DEF Sourced, SourcedAt, Told
<1>6. buffer[s] \in Seq(Message) /\ buffer'[s] \in Seq(Message) /\ outbound[s] \in Seq(Message)
  BY DEF TypeOK
<1>7. Ends(buffer'[s])
  BY <1>1, <1>3, <1>4, <1>5, <1>6, EndsAppend DEF OrderlyAt
<1>8. ASSUME Has(buffer'[s], "close")
      PROVE  Stretch(outbound[s], buffer'[s], Data, got[s], sent[Other(s)])
  <2>1. n = Close
    BY <1>4, <1>5, <1>6, <1>8, HasAppend, CloseOnly
  <2>2. m = Close /\ s = t /\ pump'[x] = "flush" /\ x = Other(s)
    BY <1>2, <1>4, <2>1
  <2>3. inbound'[x] = <<>>
    BY <1>1, <2>2, ClosesKnown
  <2>4. LaneOf(s, x, Data) /\ IsLane(s, x, Data)
    BY <2>2 DEF Lanes, IsLane
  <2>5. LaneOf(s, x, Data)'
    BY <2>4, LanePasses
  <2>6. Running(x)' /\ Whole(x)' /\ Pending(x)' = <<>>
    BY <1>1, <2>2 DEF Running, Whole, Closer, Pending
  <2>7. Back(s, x, Data)'
    BY <1>1, <1>3, <2>5, <2>6 DEF LaneOf
  <2>8. Lane(outbound'[s], buffer'[s], <<>>, <<>>, Data, got'[s], sent'[x])
    BY <2>3, <2>6, <2>7 DEF Back, Received, Written
  <2>9. got[s] \in Nat /\ sent[x] \in Nat
    BY LaneTypes DEF Received, Written
  <2> QED
    BY <1>1, <2>2, <2>8, <2>9, LaneThrough
<1> QED
  BY <1>7, <1>8

\* Every step leaves a forwarded close behind the data.
LEMMA OrderlyStep ==
    ASSUME TypeOK, TypeOK', Closing, Carried, Sourced, Lanes, Orderly, [Next]_vars
    PROVE  Orderly'
<1> SUFFICES ASSUME NEW s \in Sides PROVE OrderlyAt(s)'
  BY DEF Orderly, OrderlyAt
<1> DEFINE o == Other(s)
           all == sent[o]
<1>1. OrderlyAt(s) /\ o \in Sides /\ o # s /\ Sides = {s, o} /\ all \in Nat /\ got[s] \in Nat
      /\ buffer[s] \in Seq(Message) /\ outbound[s] \in Seq(Message) /\ got'[s] \in Nat
  <2>1. all \in 0..MaxData /\ got[s] \in 0..MaxData /\ got'[s] \in 0..MaxData
    BY DEF TypeOK, Other
  <2> QED
    <3>1. OrderlyAt(s)
      BY DEF Orderly, OrderlyAt
    <3>2. o \in Sides /\ o # s /\ Sides = {s, o}
      BY DEF Other
    <3>3. buffer[s] \in Seq(Message) /\ outbound[s] \in Seq(Message)
      BY DEF TypeOK
    <3> QED
      BY <2>1, <3>1, <3>2, <3>3, RelayAssumption
<1>2. ASSUME NEW x \in Sides, Reading(x) \/ Lock(x) PROVE OrderlyAt(s)'
  <2>1. PICK m \in Message : m.kind \in {"data", "close", "reply"} /\ (m.kind = "reply" => x = "c")
                             /\ Passes(x, m)
    BY <1>2, Passing
  <2> QED
    BY <1>1, <2>1, OrderlyPasses
<1>3. ASSUME NEW x \in Sides,
             ReadFails(x) \/ SendDone(x) \/ SendFails(x) \/ LastRead(x) \/ ReadNote \/ Finish \/ Tick
             \/ UNCHANGED vars
      PROVE  OrderlyAt(s)'
  <2>1. UNCHANGED <<outbound, buffer, gone, closeSent, closeGot, sent, got>>
    BY <1>3 DEF ReadFails, NextMessage, Rest, SendDone, SendFails, LastRead, ReadNote, Finish, Tick
  <2> QED
    BY <1>1, <2>1 DEF OrderlyAt
\* The data in front of side s, by its numbers.
<1>4. ASSUME ~gone[s]
      PROVE  \E b \in 0..all : Stretch(outbound[s], buffer[s], Data, got[s], b)
  <2>1. LaneOf(s, o, Data)
    BY DEF Lanes
  <2> QED
    BY <1>4, <2>1 DEF LaneOf, Front, Received, Written
<1>5. ASSUME NEW x \in Sides, Flush(x) PROVE OrderlyAt(s)'
  <2>1. /\ buffer[x] # <<>> /\ buffer' = [buffer EXCEPT ![x] = Tail(buffer[x])]
        /\ UNCHANGED <<gone, closeSent, closeGot, got, sent>>
        /\ ~gone[x] => outbound' = [outbound EXCEPT ![x] = Append(outbound[x], Head(buffer[x]))]
        /\ gone[x] => outbound' = outbound
    BY <1>5 DEF Flush
  <2>2. CASE s # x
    <3>1. outbound'[s] = outbound[s] /\ buffer'[s] = buffer[s]
      BY <2>1, <2>2 DEF TypeOK
    <3> QED
      BY <1>1, <2>1, <3>1 DEF OrderlyAt
  <2>3. CASE s = x /\ (closeSent[s] \/ gone[s])
    BY <1>1, <2>1, <2>3 DEF OrderlyAt
  <2>4. CASE s = x /\ ~closeSent[s] /\ ~gone[s]
    <3> DEFINE h == Head(buffer[s])
    <3>1. /\ buffer[s] # <<>> /\ buffer'[s] = Tail(buffer[s]) /\ outbound'[s] = Append(outbound[s], h)
          /\ h \in Message /\ Tail(buffer[s]) \in Seq(Message)
      BY <1>1, <2>1, <2>4, NextOne DEF TypeOK
    <3>2. /\ closeGot[s] => got[s] = all
          /\ Ends(outbound[s]) /\ Ends(buffer[s])
          /\ Has(outbound[s], "close") => Run(outbound[s], Data, got[s], all)
          /\ Has(buffer[s], "close") => Stretch(outbound[s], buffer[s], Data, got[s], all)
      BY <1>1, <2>4 DEF OrderlyAt
    <3> HIDE DEF all, o, h
    <3>3. Has(outbound[s], "close") => h.kind # "data"
      <4> SUFFICES ASSUME Has(outbound[s], "close") PROVE h.kind # "data"
        OBVIOUS
      <4>1. PICK b \in 0..all : Stretch(outbound[s], buffer[s], Data, got[s], b)
        BY <1>4, <2>4
      <4>2. b \in Nat /\ b <= all
        BY <1>1
      <4>3. PICK a \in Nat : Run(outbound[s], Data, got[s], a) /\ Run(buffer[s], Data, a, b)
        BY <4>1 DEF Stretch
      <4>4. a = all
        BY <1>1, <3>2, <4>3, RunUnique
      <4>5. a = b
        <5>1. a <= b
          BY <4>2, <4>3, RunLe
        <5> QED
          BY <1>1, <4>2, <4>4, <5>1
      <4>6. ~Has(buffer[s], "data")
        BY <1>1, <4>2, <4>3, <4>5, NoData
      <4> QED
        BY <1>1, <3>1, <4>6, HasTail DEF h
    <3>4. Ends(buffer'[s]) /\ Ends(outbound'[s])
      BY <1>1, <3>1, <3>2, <3>3, EndsTail, EndsAppend
    <3>5. ASSUME Has(outbound'[s], "close") PROVE Run(outbound'[s], Data, got[s], all)
      <4>1. CASE h.kind = "close"
        <5>1. Has(buffer[s], "close")
          BY <1>1, <3>1, <4>1, HasTail DEF h
        <5>2. PICK a \in Nat : Run(outbound[s], Data, got[s], a) /\ Run(buffer[s], Data, a, all)
          BY <3>2, <5>1 DEF Stretch
        <5>3. ~Has(Tail(buffer[s]), "data")
          BY <1>1, <3>1, <3>2, <4>1, EndsTail DEF h
        <5>4. h.kind \notin Data
          BY <4>1 DEF Data
        <5>5. Run(Tail(buffer[s]), Data, a, all)
          BY <1>1, <3>1, <5>2, <5>4, RunTail DEF h
        <5>6. a = all
          BY <1>1, <3>1, <5>3, <5>5, NoData
        <5> QED
          BY <1>1, <3>1, <5>2, <5>4, <5>6, RunAppend
      <4>2. CASE h.kind # "close"
        <5>1. Has(outbound[s], "close")
          BY <1>1, <3>1, <3>5, <4>2, HasAppend
        <5>2. h.kind \notin Data
          BY <3>3, <5>1 DEF Data
        <5> QED
          BY <1>1, <3>1, <3>2, <5>1, <5>2, RunAppend
      <4> QED
        BY <4>1, <4>2
    <3>6. ASSUME Has(buffer'[s], "close") PROVE Stretch(outbound'[s], buffer'[s], Data, got[s], all)
      <4>1. Has(buffer[s], "close")
        BY <1>1, <3>1, <3>6, HasTail
      <4> QED
        BY <1>1, <3>1, <3>2, <4>1, StretchFlush DEF h
    <3> QED
      BY <2>1, <3>2, <3>4, <3>5, <3>6 DEF OrderlyAt, all, o
  <2> QED
    BY <2>2, <2>3, <2>4
<1>6. ASSUME NEW x \in Sides, PeerReads(x) PROVE OrderlyAt(s)'
  <2> DEFINE m == Head(outbound[x])
  <2>1. /\ outbound[x] # <<>> /\ outbound' = [outbound EXCEPT ![x] = Tail(outbound[x])]
        /\ closeGot' = [closeGot EXCEPT ![x] = closeGot[x] \/ m.kind = "close"]
        /\ got' = IF m.kind = "data" THEN [got EXCEPT ![x] = m.n] ELSE got
        /\ ~gone[x] /\ UNCHANGED <<buffer, gone, closeSent, sent>>
    BY <1>6 DEF PeerReads
  <2>2. CASE s # x
    <3>1. outbound'[s] = outbound[s] /\ closeGot'[s] = closeGot[s] /\ got'[s] = got[s]
      BY <2>1, <2>2 DEF TypeOK
    <3> QED
      BY <1>1, <2>1, <3>1 DEF OrderlyAt
  <2>3. CASE s = x /\ closeSent[s]
    BY <2>1, <2>3 DEF OrderlyAt
  <2>4. CASE s = x /\ ~closeSent[s]
    <3>1. /\ outbound[s] # <<>> /\ outbound'[s] = Tail(outbound[s]) /\ ~gone[s]
          /\ closeGot'[s] <=> closeGot[s] \/ m.kind = "close"
          /\ got'[s] = IF m.kind = "data" THEN m.n ELSE got[s]
          /\ m = Head(outbound[s]) /\ m \in Message /\ Tail(outbound[s]) \in Seq(Message)
      BY <1>1, <2>1, <2>4, NextOne DEF TypeOK
    <3>2. /\ closeGot[s] => got[s] = all
          /\ Ends(outbound[s]) /\ Ends(buffer[s])
          /\ Has(outbound[s], "close") => Run(outbound[s], Data, got[s], all)
          /\ Has(buffer[s], "close") => Stretch(outbound[s], buffer[s], Data, got[s], all)
      BY <1>1, <2>4, <3>1 DEF OrderlyAt
    <3> HIDE DEF all, o, m
    <3>3. m.kind \in Data <=> m.kind = "data"
      BY DEF Data
    <3>4. closeGot'[s] => got'[s] = all
      <4>1. CASE m.kind = "close"
        <5>1. Has(outbound[s], "close") /\ ~Has(Tail(outbound[s]), "data")
          BY <1>1, <3>1, <3>2, <4>1, HasTail, EndsTail
        <5>2. Run(Tail(outbound[s]), Data, got[s], all)
          BY <1>1, <3>1, <3>2, <3>3, <4>1, <5>1, RunTail
        <5> QED
          BY <1>1, <3>1, <4>1, <5>1, <5>2, NoData
      <4>2. CASE m.kind = "data"
        <5>1. PICK b \in 0..all : Stretch(outbound[s], buffer[s], Data, got[s], b)
          BY <1>4, <3>1
        <5>2. b \in Nat /\ b <= all
          BY <1>1
        <5>3. Stretch(Tail(outbound[s]), buffer[s], Data, got[s] + 1, b)
          BY <1>1, <3>1, <3>3, <4>2, <5>1, <5>2, StretchFetch
        <5>4. got[s] + 1 <= b
          <6>1. got[s] + 1 \in Nat
            BY <1>1
          <6> QED
            BY <1>1, <3>1, <5>2, <5>3, <6>1, StretchLe
        <5> QED
          BY <1>1, <3>1, <3>2, <4>2, <5>2, <5>4
      <4>3. CASE m.kind \notin {"close", "data"}
        BY <3>1, <3>2, <4>3
      <4> QED
        BY <4>1, <4>2, <4>3
    <3>5. Ends(outbound'[s])
      BY <1>1, <3>1, <3>2, EndsTail
    <3>6. ASSUME Has(outbound'[s], "close") PROVE Run(outbound'[s], Data, got'[s], all)
      <4>1. Run(outbound[s], Data, got[s], all)
        BY <1>1, <3>1, <3>2, <3>6, HasTail
      <4>2. /\ m.kind \notin Data => Run(Tail(outbound[s]), Data, got[s], all)
            /\ m.kind \in Data => m.n = got[s] + 1 /\ Run(Tail(outbound[s]), Data, got[s] + 1, all)
        BY <1>1, <3>1, <4>1, RunTail
      <4> QED
        BY <3>1, <3>3, <4>2
    <3>7. ASSUME Has(buffer[s], "close") PROVE Stretch(outbound'[s], buffer[s], Data, got'[s], all)
      <4>1. /\ m.kind \notin Data => Stretch(Tail(outbound[s]), buffer[s], Data, got[s], all)
            /\ m.kind \in Data =>
                   m.n = got[s] + 1 /\ Stretch(Tail(outbound[s]), buffer[s], Data, got[s] + 1, all)
        BY <1>1, <3>1, <3>2, <3>7, StretchFetch
      <4> QED
        BY <3>1, <3>3, <4>1
    <3> QED
      BY <2>1, <3>2, <3>4, <3>5, <3>6, <3>7 DEF OrderlyAt, all, o
  <2> QED
    BY <2>2, <2>3, <2>4
<1>7. ASSUME NEW x \in Sides, PeerLeaves(x) PROVE OrderlyAt(s)'
  <2>1. /\ gone' = [gone EXCEPT ![x] = TRUE] /\ outbound' = [outbound EXCEPT ![x] = <<>>]
        /\ UNCHANGED <<buffer, closeSent, closeGot, sent, got>>
    BY <1>7 DEF PeerLeaves
  <2>2. CASE s = x
    BY <1>1, <2>1, <2>2 DEF OrderlyAt, TypeOK
  <2>3. CASE s # x
    <3>1. outbound'[s] = outbound[s] /\ gone'[s] = gone[s]
      BY <2>1, <2>3 DEF TypeOK
    <3> QED
      BY <1>1, <2>1, <3>1 DEF OrderlyAt
  <2> QED
    BY <2>2, <2>3
<1>8. ASSUME NEW x \in Sides, PeerSends(x) \/ PeerCloses(x) \/ PeerErrs(x) \/ (x = "c" /\ ClientAsks)
      PROVE  OrderlyAt(s)'
  <2>1. PICK m \in Message :
               /\ Write(x, m)
               /\ UNCHANGED closeSent \/ (m = Close /\ closeSent' = [closeSent EXCEPT ![x] = TRUE])
               /\ IF m.kind = "data"
                  THEN ~closeGot[x] /\ m.n = sent[x] + 1 /\ sent' = [sent EXCEPT ![x] = m.n]
                  ELSE sent' = sent
    BY <1>8, Writes
  <2>2. /\ ~closeSent[x] /\ UNCHANGED <<outbound, buffer, gone, closeGot, got>>
    BY <2>1 DEF Write
  <2>3. closeSent'[s] \/ closeSent'[s] = closeSent[s]
    BY <2>1 DEF TypeOK
  <2>4. CASE sent'[o] = all
    BY <1>1, <2>2, <2>3, <2>4 DEF OrderlyAt
  <2>5. CASE sent'[o] # all
    <3>1. x = o
      BY <1>1, <2>1, <2>5 DEF TypeOK
    <3>2. Told(s) => closeSent[s]
      BY <2>2, <3>1 DEF Sourced, SourcedAt
    <3>3. CASE closeSent[s]
      <4>1. closeSent'[s]
        BY <2>1, <3>3 DEF TypeOK
      <4> QED
        BY <4>1 DEF OrderlyAt
    <3>4. CASE ~closeSent[s]
      <4>1. ~closeGot[s] /\ ~Has(outbound[s], "close") /\ ~Has(buffer[s], "close")
        BY <3>2, <3>4 DEF Told
      <4> QED
        BY <1>1, <2>2, <3>4, <4>1 DEF OrderlyAt
    <3> QED
      BY <3>3, <3>4
  <2> QED
    BY <2>4, <2>5
<1>9. CASE ClientAsks
  BY <1>8, <1>9
<1> QED
  BY <1>2, <1>3, <1>5, <1>6, <1>7, <1>8, <1>9
     DEF Next, Pump, Peer, Reading, Stutter

\* A pump passing a message keeps the account of the closes.
LEMMA ClosesPasses ==
    ASSUME TypeOK, Closing, Sourced, \A s \in Sides : ClosesAt(s),
           NEW x \in Sides, NEW m \in Message, m.kind \in {"data", "close", "reply"}, Passes(x, m)
    PROVE  \A s \in Sides : ClosesAt(s)'
<1> DEFINE o == Other(x)
           t == Target(x, m)
           r == Other(t)
<1>1. /\ UNCHANGED <<outbound, gone, closeGot>> /\ held'[x] = m /\ held'[o] = held[o] /\ pump'[o] = pump[o]
      /\ Takes(x, m) /\ Leaves(x, m, ws, buffer) /\ Acks(x, m)
  BY DEF Passes
<1>2. /\ o \in Sides /\ Sides = {x, o} /\ Other(o) = x /\ x # o
      /\ t \in Sides /\ r \in Sides /\ Sides = {t, r} /\ r # t
      /\ m = Close => t = o /\ r = x
      /\ m.kind = "close" <=> m = Close
      /\ Close.kind = "close" /\ Close \in Message
  BY CloseMessage, CloseOnly DEF Target, Other
<1>3. ClosesAt(x) /\ ClosesAt(o)
  BY <1>2
<1>4. \A s \in Sides : buffer[s] \in Seq(Message)
  BY DEF TypeOK
<1>5. /\ pump[x] \in {"read", "lock"} /\ (pump[x] = "lock" => m = held[x])
      /\ pump'[x] \in {"lock", "flush"} \/ pump'[x] = AfterError(m)
  BY <1>1 DEF Takes, Leaves
<1>6. /\ Has(buffer'[t], "close") <=>
             Has(buffer[t], "close") \/ (m = Close /\ pump'[x] = "flush" /\ ws[t] = "active")
      /\ Has(buffer'[r], "close") <=>
             Has(buffer[r], "close") \/ (m = Close /\ pump[x] = "read" /\ ws[x] = "active")
  <2>1. Has(buffer'[t], "close") <=>
            Has(buffer[t], "close") \/ (m = Close /\ pump'[x] = "flush" /\ ws[t] = "active")
    <3>1. CASE pump'[x] = "flush" /\ ws[t] = "active" /\ buffer'[t] = Append(buffer[t], m)
      BY <1>2, <1>4, <3>1, HasAppend
    <3>2. CASE buffer'[t] = buffer[t] /\ ~(pump'[x] = "flush" /\ ws[t] = "active")
      BY <3>2
    <3> QED
      BY <1>1, <3>1, <3>2 DEF Leaves, AfterError
  <2>2. Has(buffer'[r], "close") <=>
            Has(buffer[r], "close") \/ (m = Close /\ pump[x] = "read" /\ ws[x] = "active")
    <3>1. CASE m = Close /\ pump[x] = "read" /\ ws[x] = "active"
      <4>1. buffer'[r] = Append(buffer[r], Close)
        BY <1>1, <1>2, <3>1 DEF Acks
      <4> QED
        BY <1>2, <1>4, <3>1, <4>1, HasAppend
    <3>2. CASE ~(m = Close /\ pump[x] = "read" /\ ws[x] = "active")
      <4>1. buffer'[r] = buffer[r]
        BY <1>1, <1>2, <3>2 DEF Acks
      <4> QED
        BY <3>2, <4>1
    <3> QED
      BY <3>1, <3>2
  <2> QED
    BY <2>1, <2>2
<1>7. \A s \in Sides : Told(s) => Told(s)'
  BY <1>1, <1>2, <1>6 DEF Told
<1>8. CASE m = Close
  <2>1. /\ Told(x)' /\ ws'[x] # "active"
        /\ pump'[x] \in {"lock", "flush", "linger"}
    <3>1. CASE pump[x] = "read"
      <4>1. ws'[x] # "active" /\ (ws[x] = "active" => Has(buffer'[x], "close"))
        BY <1>1, <1>2, <1>6, <1>8, <3>1 DEF Acks
      <4>2. Told(x)'
        BY <1>2, <1>3, <1>7, <4>1 DEF ClosesAt, Told
      <4> QED
        BY <1>2, <1>5, <1>8, <4>1, <4>2 DEF AfterError
    <3>2. CASE pump[x] = "lock"
      <4>1. ws[x] # "active" /\ ws'[x] = ws[x]
        BY <1>1, <1>2, <1>3, <1>5, <1>8, <3>2 DEF ClosesAt, Closer, Acks
      <4> QED
        BY <1>2, <1>3, <1>5, <1>7, <1>8, <4>1 DEF ClosesAt, AfterError
    <3> QED
      BY <1>5, <3>1, <3>2
  <2>2. /\ pump'[x] # "lock" => Told(o)'
        /\ ws'[o] # "active" => Told(o)'
        /\ ws[o] # "active" => ws'[o] # "active"
        /\ ws'[o] = "byPeer" <=> ws[o] = "byPeer"
    <3>1. CASE pump'[x] = "flush" /\ ws[o] = "active" /\ ws'[o] = "byUs"
      BY <1>2, <1>6, <1>8, <3>1 DEF Told
    <3>2. CASE ws'[o] = ws[o] /\ (pump'[x] # "lock" => ws[o] # "active")
      BY <1>3, <1>7, <1>2, <3>2 DEF ClosesAt
    <3> QED
      BY <1>1, <1>2, <1>8, <3>1, <3>2 DEF Leaves
  <2>3. ClosesAt(x)'
    <3>1. Has(buffer'[x], "close") =>
               \/ gone[x]
               \/ pump'[o] = "flush" /\ Target(o, held'[o]) = x
               \/ ws'[x] = "byPeer" /\ pump'[x] \in {"lock", "flush", "linger"}
      <4>1. CASE pump[x] = "read" /\ ws[x] = "active"
        BY <1>1, <1>8, <2>1, <4>1 DEF Acks
      <4>2. CASE pump[x] = "read" /\ ws[x] # "active"
        BY <1>1, <1>2, <1>3, <1>6, <1>8, <4>2 DEF ClosesAt
      <4>3. CASE pump[x] = "lock"
        <5>1. ws'[x] = ws[x]
          BY <1>1, <1>2, <1>8, <4>3 DEF Acks
        <5> QED
          BY <1>1, <1>2, <1>3, <1>6, <1>8, <2>1, <4>3, <5>1 DEF ClosesAt
      <4> QED
        BY <1>5, <4>1, <4>2, <4>3
    <3> HIDE DEF t, r
    <3> QED
      BY <1>1, <1>3, <1>8, <2>1, <2>2, <3>1 DEF ClosesAt
  <2>4. ClosesAt(o)'
    <3>1. Has(buffer'[o], "close") =>
               \/ gone[o]
               \/ pump'[x] = "flush" /\ Target(x, held'[x]) = o
               \/ ws'[o] = "byPeer" /\ pump'[o] \in {"lock", "flush", "linger"}
      BY <1>1, <1>2, <1>3, <1>5, <1>6, <1>8, <2>2 DEF ClosesAt
    <3>2. Closer(o)' <=> Closer(o)
      BY <1>1 DEF Closer
    <3> HIDE DEF t, r
    <3> QED
      BY <1>1, <1>2, <1>3, <1>7, <2>1, <2>2, <3>1, <3>2 DEF ClosesAt
  <2> QED
    BY <1>2, <2>3, <2>4
<1>9. CASE m # Close
  <2>1. ws'[x] = ws[x] /\ ws'[o] = ws[o]
    <3>1. ws'[t] = ws[t] /\ ws'[r] = ws[r]
      BY <1>1, <1>2, <1>9 DEF Leaves, Acks
    <3> QED
      BY <1>2, <3>1
  <2>2. /\ Has(buffer'[x], "close") <=> Has(buffer[x], "close")
        /\ Has(buffer'[o], "close") <=> Has(buffer[o], "close")
    <3>1. \A s \in {t, r} : Has(buffer'[s], "close") <=> Has(buffer[s], "close")
      BY <1>6, <1>9
    <3> QED
      BY <1>2, <3>1
  <2>3. ~Closer(x)' /\ ~(pump[x] = "lock" /\ held[x] = Close) /\ ws[x] # "byPeer"
    BY <1>1, <1>2, <1>5, <1>9 DEF Closer, AfterError, Closing, Ending
  <2>4. pump'[x] = "done" => Told(x)' \/ Told(o)'
    <3>1. pump'[x] = "done" => ws[t] # "active"
      BY <1>1 DEF Leaves
    <3>2. ws[t] # "active" => Told(t)
      BY <1>2 DEF ClosesAt
    <3> QED
      BY <1>2, <1>7, <3>1, <3>2
  <2> HIDE DEF t, r
  <2>5. ClosesAt(x)'
    BY <1>1, <1>2, <1>3, <1>7, <2>1, <2>2, <2>3, <2>4 DEF ClosesAt
  <2>6. Closer(o)' <=> Closer(o)
    BY <1>1 DEF Closer
  <2>7. ClosesAt(o)'
    BY <1>1, <1>2, <1>3, <1>5, <1>7, <2>1, <2>2, <2>6 DEF ClosesAt
  <2> QED
    BY <1>2, <2>5, <2>7
<1> QED
  BY <1>8, <1>9

\* Every step does, unless a peer breaks off.
LEMMA ClosesStep ==
    ASSUME TypeOK, TypeOK', Closing, Carried, Sourced, Closes, [Next]_vars
    PROVE  Closes'
<1> USE Types
<1>1. broken => broken'
  <2>1. ASSUME NEW x \in Sides, Reading(x) \/ Lock(x) PROVE UNCHANGED broken
    BY <2>1, Passing DEF Passes
  <2>2. ASSUME NEW x \in Sides, LastRead(x) \/ PeerLeaves(x) PROVE broken => broken'
    BY <2>2 DEF LastRead, PeerLeaves
  <2>3. ASSUME NEW x \in Sides, PeerSends(x) \/ PeerCloses(x) \/ PeerErrs(x) \/ (x = "c" /\ ClientAsks)
        PROVE  broken => broken'
    BY <2>3, Writes
  <2>4. ASSUME NEW x \in Sides, ReadFails(x) \/ ReadNote \/ SendDone(x) \/ SendFails(x) \/ Flush(x)
                                \/ PeerReads(x) \/ Finish \/ Tick \/ UNCHANGED vars
        PROVE  UNCHANGED broken
    BY <2>4 DEF ReadFails, NextMessage, Rest, ReadNote, SendDone, SendFails, Flush, PeerReads, Finish, Tick
  <2>5. CASE ClientAsks
    BY <2>3, <2>5
  <2> QED
    BY <2>1, <2>2, <2>3, <2>4, <2>5 DEF Next, Pump, Peer, Reading, Stutter
<1>2. SUFFICES ASSUME ~broken, ~broken' PROVE \A s \in Sides : ClosesAt(s)'
  BY <1>1 DEF Closes, ClosesAt
<1>3. \A s \in Sides : ClosesAt(s)
  BY <1>2 DEF Closes, ClosesAt
<1>4. \A s \in Sides : Other(s) \in Sides /\ Other(s) # s /\ Other(Other(s)) = s
  BY DEF Other
<1>5. ASSUME NEW x \in Sides, Reading(x) \/ Lock(x) PROVE \A s \in Sides : ClosesAt(s)'
  <2>1. PICK m \in Message : m.kind \in {"data", "close", "reply"} /\ Passes(x, m)
    BY <1>5, Passing
  <2> QED
    BY <1>3, <2>1, ClosesPasses
\* The pumps and the sockets stay as they are, and what was told stays told.
<1>6. ASSUME UNCHANGED <<ws, pump, held>>,
             \A s \in Sides : /\ Told(s) => Told(s)'
                              /\ Has(buffer'[s], "close") => Has(buffer[s], "close")
                              /\ gone[s] => gone'[s]
                              /\ gone'[s] => closeGot'[s]
      PROVE  \A s \in Sides : ClosesAt(s)'
  <2>1. \A s \in Sides : Closer(s)' <=> Closer(s)
    BY <1>6 DEF Closer
  <2> QED
    BY <1>3, <1>4, <1>6, <2>1 DEF ClosesAt
<1>7. ASSUME UNCHANGED <<ws, pump, held, buffer, outbound, gone, closeGot>>
      PROVE  \A s \in Sides : ClosesAt(s)'
  <2>1. \A s \in Sides : (Told(s)' <=> Told(s)) /\ (gone[s] => closeGot[s])
    BY <1>3, <1>7 DEF Told, ClosesAt
  <2> QED
    BY <1>6, <1>7, <2>1
<1>8. ASSUME NEW x \in Sides, PeerSends(x) \/ PeerCloses(x) \/ PeerErrs(x) \/ ClientAsks \/ ReadNote
                              \/ Finish \/ Tick \/ UNCHANGED vars
      PROVE  \A s \in Sides : ClosesAt(s)'
  <2>1. UNCHANGED <<ws, pump, held, buffer, outbound, gone, closeGot>>
    BY <1>8 DEF PeerSends, PeerCloses, PeerErrs, ClientAsks, Write, ReadNote, NextMessage, Rest, Finish, Tick
  <2> QED
    BY <1>7, <2>1
<1>9. ASSUME NEW x \in Sides, Flush(x) PROVE \A s \in Sides : ClosesAt(s)'
  <2>1. /\ buffer[x] # <<>> /\ buffer' = [buffer EXCEPT ![x] = Tail(buffer[x])]
        /\ UNCHANGED <<ws, pump, held, gone, closeGot>>
        /\ ~gone[x] => outbound' = [outbound EXCEPT ![x] = Append(outbound[x], Head(buffer[x]))]
        /\ gone[x] => outbound' = outbound
    BY <1>9 DEF Flush
  <2>2. Has(buffer[x], "close") <=> Head(buffer[x]).kind = "close" \/ Has(Tail(buffer[x]), "close")
    BY <2>1, HasTail
  <2>3. Has(Append(outbound[x], Head(buffer[x])), "close") <=>
            Has(outbound[x], "close") \/ Head(buffer[x]).kind = "close"
    BY <2>1, NextOne, HasAppend
  <2>4. ASSUME NEW s \in Sides
        PROVE  /\ Told(s) => Told(s)'
               /\ Has(buffer'[s], "close") => Has(buffer[s], "close")
               /\ gone'[s] => closeGot'[s]
    <3>1. CASE s # x
      <4>1. buffer'[s] = buffer[s] /\ outbound'[s] = outbound[s]
        BY <2>1, <3>1 DEF TypeOK
      <4> QED
        BY <1>3, <2>1, <4>1 DEF Told, ClosesAt
    <3>2. CASE s = x
      <4>1. buffer'[s] = Tail(buffer[s]) /\ (~gone[s] => outbound'[s] = Append(outbound[s], Head(buffer[s])))
        BY <2>1, <3>2 DEF TypeOK
      <4> QED
        BY <1>3, <2>1, <2>2, <2>3, <3>2, <4>1 DEF Told, ClosesAt
    <3> QED
      BY <3>1, <3>2
  <2> QED
    BY <1>6, <2>1, <2>4
<1>10. ASSUME NEW x \in Sides, PeerReads(x) PROVE \A s \in Sides : ClosesAt(s)'
  <2>1. /\ outbound[x] # <<>> /\ outbound' = [outbound EXCEPT ![x] = Tail(outbound[x])]
        /\ closeGot' = [closeGot EXCEPT ![x] = closeGot[x] \/ Head(outbound[x]).kind = "close"]
        /\ UNCHANGED <<ws, pump, held, buffer, gone>>
    BY <1>10 DEF PeerReads
  <2>2. Has(outbound[x], "close") <=> Head(outbound[x]).kind = "close" \/ Has(Tail(outbound[x]), "close")
    BY <2>1, HasTail
  <2>3. ASSUME NEW s \in Sides
        PROVE  (Told(s) => Told(s)') /\ (gone'[s] => closeGot'[s])
    <3>1. CASE s # x
      <4>1. closeGot'[s] = closeGot[s] /\ outbound'[s] = outbound[s]
        BY <2>1, <3>1 DEF TypeOK
      <4> QED
        BY <1>3, <2>1, <4>1 DEF Told, ClosesAt
    <3>2. CASE s = x
      <4>1. /\ outbound'[s] = Tail(outbound[s])
            /\ closeGot'[s] <=> closeGot[s] \/ Head(outbound[s]).kind = "close"
        BY <2>1, <3>2 DEF TypeOK
      <4> QED
        BY <1>3, <2>1, <2>2, <3>2, <4>1 DEF Told, ClosesAt
    <3> QED
      BY <3>1, <3>2
  <2> QED
    BY <1>6, <2>1, <2>3
<1>11. ASSUME NEW x \in Sides, PeerLeaves(x) PROVE \A s \in Sides : ClosesAt(s)'
  <2>1. /\ gone' = [gone EXCEPT ![x] = TRUE] /\ outbound' = [outbound EXCEPT ![x] = <<>>]
        /\ closeGot[x] /\ UNCHANGED <<ws, pump, held, buffer, closeGot>>
    BY <1>2, <1>11 DEF PeerLeaves
  <2>2. ASSUME NEW s \in Sides
        PROVE  (Told(s) => Told(s)') /\ (gone[s] => gone'[s]) /\ (gone'[s] => closeGot'[s])
    <3>1. CASE s # x
      <4>1. gone'[s] = gone[s] /\ outbound'[s] = outbound[s]
        BY <2>1, <3>1 DEF TypeOK
      <4> QED
        BY <1>3, <2>1, <4>1 DEF Told, ClosesAt
    <3>2. CASE s = x
      BY <2>1, <3>2 DEF Told, TypeOK
    <3> QED
      BY <3>1, <3>2
  <2> QED
    BY <1>6, <2>1, <2>2
\* Only where a pump is changes.
<1>12. ASSUME NEW x \in Sides, UNCHANGED <<held, buffer, outbound, gone, closeGot>>,
              pump[x] # "lock", pump'[x] \notin {"lock", "flush"}, pump'[Other(x)] = pump[Other(x)],
              ws' = ws \/ (gone[x] /\ ws' = [ws EXCEPT ![x] = "terminated"]),
              Closer(x)' => Closer(x),
              pump'[x] = "done" => Told(x) \/ Told(Other(x)),
              pump[x] = "flush" => LET t == Target(x, held[x]) IN gone[t] \/ ~Has(buffer[t], "close"),
              Has(buffer[x], "close") /\ ws[x] = "byPeer" /\ pump[x] \in {"flush", "linger"} =>
                  gone[x] \/ pump'[x] = "linger"
       PROVE  \A s \in Sides : ClosesAt(s)'
  <2> DEFINE o == Other(x)
  <2>1. o \in Sides /\ x # o /\ Other(o) = x /\ Sides = {x, o}
    BY DEF Other
  <2>2. \A s \in Sides : Told(s)' <=> Told(s)
    BY <1>12 DEF Told
  <2>3. (Closer(o)' <=> Closer(o)) /\ ws'[o] = ws[o]
    BY <1>12, <2>1 DEF Closer, TypeOK
  <2>4. \/ ws'[x] = ws[x]
        \/ gone[x] /\ ws[x] # "active" /\ ws'[x] # "active"
    <3>1. gone[x] => ws[x] # "active"
      BY <1>3 DEF ClosesAt, Sourced, SourcedAt, Told
    <3> QED
      BY <1>12, <3>1 DEF TypeOK
  <2>5. ClosesAt(x) /\ ClosesAt(o)
    BY <1>3, <2>1
  <2>6. ClosesAt(x)'
    BY <1>12, <2>1, <2>2, <2>4, <2>5 DEF ClosesAt
  <2>7. ClosesAt(o)'
    BY <1>12, <2>1, <2>2, <2>3, <2>5 DEF ClosesAt
  <2> QED
    BY <2>1, <2>6, <2>7
<1>13. ASSUME NEW x \in Sides, ReadFails(x) PROVE \A s \in Sides : ClosesAt(s)'
  <2>1. CASE NextMessage(x, {"bad"})
    <3>1. Has(inbound[x], "bad")
      BY <2>1, HasTail DEF NextMessage
    <3> QED
      BY <1>2, <3>1 DEF Sourced, SourcedAt
  <2>2. CASE ~NextMessage(x, {"bad"})
    <3>1. /\ pump[x] = "read" /\ gone[x] /\ pump' = [pump EXCEPT ![x] = "done"]
          /\ ws' = [ws EXCEPT ![x] = "terminated"] /\ UNCHANGED <<held, buffer, outbound, gone, closeGot>>
      BY <1>13, <2>2 DEF ReadFails, At, Goto, Rest
    <3>2. pump'[x] = "done" /\ pump'[Other(x)] = pump[Other(x)] /\ ~Closer(x)'
      BY <1>4, <3>1 DEF Closer
    <3>3. Told(x)
      BY <1>3, <3>1 DEF ClosesAt, Told
    <3> QED
      BY <1>12, <3>1, <3>2, <3>3
  <2> QED
    BY <2>1, <2>2
<1>14. ASSUME NEW x \in Sides, SendDone(x) \/ SendFails(x) PROVE \A s \in Sides : ClosesAt(s)'
  <2> DEFINE t == Target(x, held[x])
  <2>1. /\ pump[x] = "flush" /\ UNCHANGED <<ws, held, buffer, outbound, gone, closeGot>>
        /\ \/ buffer[t] = <<>> /\ pump' = [pump EXCEPT ![x] = AfterSend(held[x])]
           \/ gone[t] /\ pump' = [pump EXCEPT ![x] = AfterError(held[x])]
    BY <1>14 DEF SendDone, SendFails, At, Goto, Rest
  <2>2. /\ held[x].kind = "close" <=> held[x] = Close
        /\ t \in Sides /\ (t = x \/ t = Other(x))
    BY CloseOnly, CloseMessage DEF Target, Other
  <2>3. /\ pump'[Other(x)] = pump[Other(x)]
        /\ \/ buffer[t] = <<>> /\ pump'[x] = AfterSend(held[x])
           \/ gone[t] /\ pump'[x] = AfterError(held[x])
    BY <1>4, <2>1
  <2>4. gone[t] \/ ~Has(buffer[t], "close")
    BY <2>1, HasNot
  <2>5. pump'[x] = "done" => Told(x) \/ Told(Other(x))
    <3>1. pump'[x] = "done" => gone[t]
      BY <2>3 DEF AfterSend
    <3>2. gone[t] => Told(t)
      BY <1>3, <2>2 DEF ClosesAt, Told
    <3> QED
      BY <2>2, <3>1, <3>2
  <2>6. pump'[x] \notin {"lock", "flush"} /\ (Closer(x)' => Closer(x))
    BY <2>1, <2>2, <2>3 DEF AfterSend, AfterError, Closer
  <2>7. ws[x] = "byPeer" => pump'[x] = "linger"
    BY <2>1, <2>2, <2>3 DEF Closing, Ending, AfterSend, AfterError
  <2> HIDE DEF t
  <2> QED
    BY <1>12, <2>1, <2>3, <2>4, <2>5, <2>6, <2>7 DEF t
<1>15. ASSUME NEW x \in Sides, LastRead(x) PROVE \A s \in Sides : ClosesAt(s)'
  <2>1. /\ pump[x] = "linger" /\ pump' = [pump EXCEPT ![x] = "done"] /\ ~Stuck(x)
        /\ UNCHANGED <<ws, held, buffer, outbound, gone, closeGot>>
        /\ \/ buffer[x] = <<>> \/ ws[x] # "byPeer"
           \/ gone[x]
    BY <1>2, <1>15 DEF LastRead, At, Goto
  <2>2. pump'[x] = "done" /\ pump'[Other(x)] = pump[Other(x)] /\ ~Closer(x)'
    BY <1>4, <2>1 DEF Closer
  <2>3. Told(x)
    BY <1>3, <2>1 DEF ClosesAt, Closer
  <2> QED
    BY <1>12, <2>1, <2>2, <2>3, HasNot
<1> QED
  BY <1>5, <1>8, <1>9, <1>10, <1>11, <1>13, <1>14, <1>15
     DEF Next, Pump, Peer, Reading, Stutter

(***************************************************************************)
(* The theorems.                                                           *)
(***************************************************************************)

\* A tunnel starts with empty queues.
LEMMA InvInit == Init => IInv
<1> SUFFICES ASSUME Init PROVE IInv
  OBVIOUS
<1>1. TypeOK
  <2>1. Close \in Message /\ <<>> \in Seq(Message) /\ Len(<<>>) = 0
    BY CloseMessage
  <2>2. \A s \in Sides : buffer[s] = <<>> /\ inbound[s] = <<>> /\ outbound[s] = <<>>
    BY DEF Init
  <2>3. /\ buffer \in [Sides -> Seq(Message)] /\ inbound \in [Sides -> Seq(Message)]
        /\ outbound \in [Sides -> Seq(Message)]
    BY <2>1 DEF Init
  <2>4. \A s \in Sides : Len(buffer[s]) <= 2 /\ Len(inbound[s]) <= Cap /\ Len(outbound[s]) <= Cap
    BY <2>1, <2>2, RelayAssumption
  <2>5. /\ lingered \in [Sides -> 0..Second] /\ waited \in 0..Second
        /\ sent \in [Sides -> 0..MaxData] /\ got \in [Sides -> 0..MaxData]
        /\ asked \in 0..MaxCalls /\ answered \in 0..MaxCalls
    BY RelayAssumption DEF Init
  <2>6. held \in [Sides -> Message]
    BY <2>1 DEF Init
  <2> HIDE DEF Sides
  <2> QED
    BY <2>3, <2>4, <2>5, <2>6 DEF Init, TypeOK
<1>2. Closing
  BY CloseMessage DEF Init, Closing
<1>3. Guarded
  BY DEF Init, Guarded
<1>4. Room
  <2>1. \A s \in Sides : buffer[s] = <<>>
    BY DEF Init
  <2>2. <<>> \in Seq(Message) /\ Len(<<>>) = 0
    OBVIOUS
  <2>3. \A s \in Sides : buffer[s] \in Seq(Message) /\ Len(buffer[s]) = 0
    BY <2>1, <2>2
  <2> QED
    BY <2>3 DEF Room, RoomOf
<1> QED
  BY <1>1, <1>2, <1>4, <1>3 DEF IInv

\* The inductive invariant: types, what follows a close, and whose frames are in
\* the buffers.
THEOREM Invariant == Spec => []IInv
<1>1. IInv /\ [Next]_vars => IInv'
  BY TypeStep, RoomStep, GuardedStep DEF IInv
<1> QED
  BY InvInit, <1>1, PTL DEF Spec

Order == Carried /\ Sourced /\ Lanes /\ Orderly /\ Closes

\* Nothing has been written, and no close.
LEMMA OrderInit == Init => Order
<1> SUFFICES ASSUME Init PROVE Order
  OBVIOUS
<1>1. /\ \A s \in Sides : /\ buffer[s] = <<>> /\ inbound[s] = <<>> /\ outbound[s] = <<>>
                          /\ held[s].kind = "close" /\ ws[s] = "active" /\ pump[s] = "read"
                          /\ ~gone[s] /\ ~closeSent[s] /\ ~closeGot[s] /\ sent[s] = 0 /\ got[s] = 0
                          /\ Other(s) \in Sides
      /\ asked = 0 /\ answered = 0 /\ over = "no"
  BY CloseMessage DEF Init, Other
<1>2. \A s \in Sides : ~Closer(s) /\ ~Told(s) /\ Pending(s) = <<>>
  BY <1>1, HasNot DEF Closer, Told, Pending
<1>3. CloseLast(<<>>) /\ Ends(<<>>) /\ \A s \in Sides : Fit(<<>>, s)
  BY HasNot DEF CloseLast, Ends, Fit
<1>4. Carried
  BY <1>1, <1>3 DEF Carried
<1>5. Sourced
  BY <1>1, <1>2, <1>3, HasNot DEF Sourced, SourcedAt
<1>6. Lanes
  <2>1. \A K : Run(<<>>, K, 0, 0)
    BY RunEmpty
  <2>2. \A K : Stretch(<<>>, <<>>, K, 0, 0) /\ Lane(<<>>, <<>>, <<>>, <<>>, K, 0, 0)
    BY <2>1 DEF Stretch, Lane
  <2>3. \A s, p \in Sides : \A K : Received(s, K) = 0 /\ Written(p, K) = 0
    BY <1>1 DEF Received, Written
  <2>4. 0 \in 0..0
    OBVIOUS
  <2>5. \A s, p \in Sides : \A K : Front(s, p, K) /\ Back(s, p, K)
    BY <1>1, <1>2, <2>2, <2>3, <2>4 DEF Front, Back
  <2> QED
    BY <1>1, <2>5 DEF Lanes, LaneOf
<1>7. Orderly
  BY <1>1, <1>3, HasNot DEF Orderly, OrderlyAt
<1>8. Closes
  BY <1>1, <1>2, HasNot DEF Closes, ClosesAt
<1> QED
  BY <1>4, <1>5, <1>6, <1>7, <1>8 DEF Order

\* Every step keeps the order of messages and closes.
LEMMA OrderStep ==
    ASSUME IInv, TypeOK', Order, [Next]_vars
    PROVE  Order'
<1>1. LaneOf("c", "c", Answers)'
  BY LaneStep DEF IInv, Order, Lanes, IsLane
<1>2. ASSUME NEW s \in Sides PROVE LaneOf(s, Other(s), Data)'
  <2>1. Other(s) \in Sides /\ IsLane(s, Other(s), Data)
    BY DEF Other, IsLane
  <2> QED
    BY <2>1, LaneStep DEF IInv, Order, Lanes
<1>3. Lanes'
  BY <1>1, <1>2 DEF Lanes
<1> QED
  BY <1>3, CarriedStep, SourcedStep, OrderlyStep, ClosesStep DEF IInv, Order

\* The second inductive invariant: where each message is, and each close.
THEOREM OrderInvariant == Spec => [](IInv /\ Order)
<1>1. Init => IInv /\ Order
  BY InvInit, OrderInit
<1>2. IInv /\ Order /\ [Next]_vars => (IInv /\ Order)'
  <2>1. IInv /\ [Next]_vars => IInv'
    BY TypeStep, RoomStep, GuardedStep DEF IInv
  <2> QED
    BY <2>1, OrderStep DEF IInv
<1> QED
  BY <1>1, <1>2, PTL DEF Spec


\* However fast one peer writes and however slowly the other one reads, a tunnel
\* holds two frames for each at most: what it does not pass on it does not read.
THEOREM Bounded == Spec => []TypeOK
<1>1. IInv => TypeOK
  BY DEF IInv
<1> QED
  BY <1>1, Invariant, PTL

\* In mocked mode the frames of a reply and of an upstream's message never mix:
\* one pump at a time writes to the client.
OneWriter == \A p, q \in Sides :
                 mocked /\ pump[p] = "flush" /\ Target(p, held[p]) = "c"
                        /\ pump[q] = "flush" /\ Target(q, held[q]) = "c" => p = q

\* The mutex of the client's sink does what it is for.
THEOREM Alone == Spec => []OneWriter
<1>1. IInv => OneWriter
  BY DEF IInv, Guarded, Locks, OneWriter
<1> QED
  BY <1>1, Invariant, PTL

\* A lane is what the properties say of it.
LEMMA LaneShown ==
    ASSUME TypeOK, NEW s \in Sides, NEW p \in Sides, NEW K, LaneOf(s, p, K), ~gone[s]
    PROVE  /\ \E k \in 0..Written(p, K) : Run(OnTheWay(s), K, Received(s, K), k)
           /\ Running(p) /\ Whole(p) =>
                  Run(OnTheWay(s) \o Pending(p) \o inbound[p], K, Received(s, K), Written(p, K))
<1> DEFINE lo == Received(s, K)
           hi == Written(p, K)
<1>1. /\ outbound[s] \in Seq(Message) /\ buffer[s] \in Seq(Message) /\ inbound[p] \in Seq(Message)
      /\ Pending(p) \in Seq(Message) /\ lo \in Nat /\ hi \in Nat
  BY LaneTypes
<1>2. Front(s, p, K) /\ (Running(p) => Back(s, p, K))
  BY DEF LaneOf
<1>3. PICK b \in 0..hi : Stretch(outbound[s], buffer[s], K, lo, b)
  BY <1>2 DEF Front
<1>4. b \in Nat
  BY <1>1
<1>5. Run(outbound[s] \o buffer[s], K, lo, b)
  BY <1>1, <1>3, <1>4, LaneRuns
<1>6. ASSUME Running(p), Whole(p)
      PROVE  Run(((outbound[s] \o buffer[s]) \o Pending(p)) \o inbound[p], K, lo, hi)
  <2>1. Lane(outbound[s], buffer[s], Pending(p), inbound[p], K, lo, hi)
    BY <1>2, <1>6 DEF Back
  <2> HIDE DEF lo, hi
  <2> QED
    BY <1>1, <2>1, LaneRuns
<1> QED
  BY <1>5, <1>6 DEF OnTheWay

\* Messages arrive in order and once, and a running pump loses none: the data lanes
\* of the invariant, read from the nearest queue to the farthest.
THEOREM Ordered == Spec => []InOrder
<1>1. TypeOK /\ Lanes => InOrder
  <2> SUFFICES ASSUME TypeOK, Lanes, NEW s \in Sides, ~gone[s]
               PROVE  LET o == Other(s)
                      IN  /\ \E k \in 0..sent[o] : Run(OnTheWay(s), {"data"}, got[s], k)
                          /\ over = "no" /\ pump[o] # "done" /\ ~gone[o] =>
                                 Run(OnTheWay(s) \o Pending(o) \o inbound[o], {"data"}, got[s], sent[o])
    BY DEF InOrder
  <2>1. Other(s) \in Sides /\ LaneOf(s, Other(s), Data)
    BY DEF Lanes, Other
  <2> QED
    BY <2>1, LaneShown DEF Received, Written, Data, Running, Whole
<1> QED
  BY <1>1, OrderInvariant, PTL DEF IInv, Order

\* So do the replies to the eth_syncing calls.
THEOREM Answered == Spec => []AnsweredInOrder
<1>1. TypeOK /\ Lanes => AnsweredInOrder
  <2> SUFFICES ASSUME TypeOK, Lanes, ~gone["c"]
               PROVE  /\ \E k \in 0..asked : Run(OnTheWay("c"), {"reply", "call"}, answered, k)
                      /\ over = "no" /\ pump["c"] # "done" =>
                             Run(OnTheWay("c") \o Pending("c") \o inbound["c"], {"reply", "call"}, answered, asked)
    BY DEF AnsweredInOrder
  <2>1. LaneOf("c", "c", Answers) /\ Answers # Data /\ "c" \in Sides
    BY DEF Lanes, Answers, Data
  <2>2. Received("c", Answers) = answered /\ Written("c", Answers) = asked
    BY <2>1 DEF Received, Written
  <2> QED
    BY <2>1, <2>2, LaneShown DEF Answers, Running, Whole
<1> QED
  BY <1>1, OrderInvariant, PTL DEF IInv, Order

\* A peer that is told to close has received all of the other one's data.
THEOREM Orderliness == Spec => []OrderlyClose
<1>1. Orderly => OrderlyClose
  BY DEF Orderly, OrderlyAt, OrderlyClose
<1> QED
  BY <1>1, OrderInvariant, PTL DEF IInv, Order

\* What has been told and is not stuck in the buffer is there.
LEMMA ToldClosed ==
    ASSUME TypeOK, NEW s \in Sides, Told(s), ~Has(buffer[s], "close")
    PROVE  Closed(s)
<1>1. \A i \in 1..Len(outbound[s]) : outbound[s][i] \in Message
  BY Types
<1> QED
  BY <1>1, CloseOnly DEF Told, Has, Closed

\* A relay that ends by itself has sent both sides a close, when no peer broke off
\* and none is stuck.
THEOREM BothClosed == Spec => ClosesBoth
<1>1. IInv /\ Order /\ [Next]_vars =>
          [over' # "no" /\ ~broken /\ (\A s \in Sides : ~Stuck(s)) => \A s \in Sides : Closed(s)]_over
  <2> SUFFICES ASSUME IInv, Order, [Next]_vars, over' # over, over' # "no", ~broken,
                      \A s \in Sides : ~Stuck(s)
               PROVE  \A s \in Sides : Closed(s)
    OBVIOUS
  <2>1. Finish
    <3>1. ASSUME NEW x \in Sides, Reading(x) \/ Lock(x) PROVE UNCHANGED over
      BY <3>1, Passing DEF Passes, IInv, Order
    <3>2. ASSUME NEW x \in Sides, ReadFails(x) \/ ReadNote \/ SendDone(x) \/ SendFails(x) \/ LastRead(x)
                                  \/ Flush(x) \/ Peer(x) \/ ClientAsks \/ Tick \/ UNCHANGED vars
          PROVE  UNCHANGED over
      BY <3>2 DEF ReadFails, NextMessage, Rest, ReadNote, SendDone, SendFails, LastRead, Flush, Peer, PeerSends,
                  PeerCloses, PeerErrs, PeerReads, PeerLeaves, Write, ClientAsks, Tick
    <3> QED
      BY <3>1, <3>2 DEF Next, Pump, Reading, Stutter
  <2>2. \A s \in Sides : ClosesAt(s) /\ (Told(s) => ws[s] # "active")
    BY DEF Order, Closes, ClosesAt, Sourced, SourcedAt
  <2>3. PICK p \in Sides : pump[p] = "done" /\ (pump[Other(p)] = "done" \/ Blocked(Other(p)))
    BY <2>1 DEF Finish, Other
  <2> DEFINE o == Other(p)
  <2>4. o \in Sides /\ Sides = {p, o} /\ Other(o) = p /\ p # o
    BY DEF Other
  <2>5. pump[o] \notin {"lock", "flush"} /\ (pump[o] = "linger" => buffer[o] = <<>>)
    <3>1. CASE pump[o] = "done"
      BY <3>1
    <3>2. CASE Blocked(o)
      <4>1. TypeOK /\ Guarded
        BY DEF IInv
      <4>2. Target(o, held[o]) \in Sides
        BY <2>4, Types, Targets, <4>1
      <4>3. pump[o] # "flush" /\ (pump[o] = "linger" => buffer[o] = <<>>)
        BY <2>4, <3>2, <4>2 DEF Blocked
      <4>4. sink = "free"
        BY <2>3, <2>4, <4>1, <4>3 DEF Guarded, TypeOK
      <4> QED
        BY <3>2, <4>3, <4>4 DEF Blocked
    <3> QED
      BY <2>3, <3>1, <3>2
  <2>6. Told(p) /\ Told(o)
    BY <2>2, <2>3, <2>4, <2>5 DEF ClosesAt
  <2>7. ASSUME NEW s \in Sides PROVE Closed(s)
    <3>1. CASE Has(buffer[s], "close")
      <4>1. gone[s]
        BY <2>2, <2>3, <2>4, <2>5, <3>1, HasNot DEF ClosesAt
      <4> QED
        BY <2>2, <4>1 DEF ClosesAt, Closed
    <3>2. CASE ~Has(buffer[s], "close")
      <4>1. Told(s)
        BY <2>4, <2>6
      <4> QED
        BY <3>2, <4>1, ToldClosed DEF IInv
    <3> QED
      BY <3>1, <3>2
  <2> QED
    BY <2>7
<1> QED
  BY <1>1, OrderInvariant, PTL DEF Spec, ClosesBoth
=============================================================================
