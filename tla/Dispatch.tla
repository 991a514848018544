------------------------------ MODULE Dispatch ------------------------------
(***************************************************************************)
(* One request from its arrival to its answer: dispatch, classify_request, *)
(* the local answers and mocks, the body limit, upstream_uri and send_http *)
(* (src/src/proxy.rs), with the WebSocket handshake of WsHandshake.        *)
(*                                                                         *)
(* Paths are classes of paths.  Upstreams and the client are external: the *)
(* client may leave while its request is handled, and hyper then drops the *)
(* handler; so does the shared deadline of a shutdown.  Which transport    *)
(* carries a call to the execution layer is in ElTransport, what a body is *)
(* to the mock in RpcMock, and what the probes answer in Readiness.        *)
(***************************************************************************)
EXTENDS WsHandshake

CONSTANTS
    Words,      \* segments of paths, and parameters of queries
    Cases,      \* requests, each with the flags and the base it meets
    Answers     \* headers that upstreams answer with (external)

\* A path is its segments: "/" is one empty segment, "/v/" ends in one.  A query is
\* left out, {}, or the sequence of its parameters.
Empty == ""
Root == <<Empty>>

\* A client does not guess the key that is made for another connection.
ASSUME WordsAssumption == {Empty, "builder"} \subseteq Words
ASSUME CasesAssumption ==
    \A c \in Cases :
        /\ c.req.path \in Words \ {Empty} /\ c.req.query \subseteq Seq(Words)
        /\ c.req.headers.protocol \in Seq(Seq(Subprotocols))
        /\ \A i \in 1..Len(c.req.headers.key) : c.req.headers.key[i] # "fresh"
        /\ c.conf.base.path \in Seq(Words) /\ c.conf.base.query \subseteq Seq(Words)

VARIABLES
    conf,       \* the flags, and the base of every upstream's URI
    body,       \* what became of the body that is collected here
    reached,    \* the upstream that the request was sent to: {} or {upstream}
    uri,        \* the URI composed for it
    back,       \* the headers that the upstream answered
    elapsed     \* ticks since the request arrived

http == <<body, reached, uri, back>>
vars == <<req, stage, timer, status, counted, forwarded, returned, wsVars, client, cut,
          conf, http, elapsed>>

Path(class) == IF class = "root" THEN Root ELSE <<class>>
Builder == <<"builder">>        \* /eth/v1/builder/validators

ClPaths == {"node_health", "subscription", "register", "beacon"}

Start == /\ stage = "new" /\ timer = 0 /\ status = 0 /\ counted = 0
         /\ forwarded = {} /\ returned = {} /\ picked = {}
         /\ socket = "none" /\ relay = "none" /\ client = "here" /\ cut = FALSE
         /\ body = "none" /\ reached = {} /\ uri = {} /\ back = {} /\ elapsed = 0

Init == /\ \E c \in Cases : req = c.req /\ conf = c.conf
        /\ Start

(***************************************************************************)
(* Classification.                                                         *)
(***************************************************************************)

Local(r) == r.method \in {"GET", "HEAD"} /\ r.path = "probe"

\* Mutant: an upgrade is one wherever it is asked for.
TargetUpgradeFirst(r) == IF IsWs(r) THEN "ws" ELSE IF r.path \in ClPaths THEN "cl" ELSE "el"

Target(r) == IF r.path \in ClPaths THEN "cl" ELSE IF IsWs(r) THEN "ws" ELSE "el"

\* The answer to a probe, which is neither counted nor logged.
Probe == /\ stage = "new" /\ Local(req)
         /\ stage' = "done" /\ status' \in {200, 503}
         /\ UNCHANGED <<req, timer, counted, forwarded, returned, wsVars, client, cut, conf, http,
                        elapsed>>

Dispatched(t) == stage = "new" /\ ~Local(req) /\ Target(req) = t

\* What an answer made here leaves alone.
Here == UNCHANGED <<req, forwarded, returned, wsVars, client, cut, conf, reached, uri, back, elapsed>>

MockHealth(r) == r.method \in {"GET", "HEAD"} /\ r.path = "node_health" /\ conf.flags.health

MockSubscription(r) == r.method = "POST" /\ r.path = "subscription" /\ conf.flags.subscriptions

MockCl == /\ Dispatched("cl")
          /\ \/ MockHealth(req) /\ \E code \in {200, 206, 503} : Respond(code)
             \/ MockSubscription(req) /\ Respond(200)
          /\ Here /\ UNCHANGED body

(***************************************************************************)
(* upstream_uri.                                                           *)
(***************************************************************************)

\* Without its trailing slashes.
Trim(p) == SubSeq(p, 1, Max({0} \cup {i \in 1..Len(p) : p[i] # Empty}))

\* Parameters of both, the base's first; no query if neither has one.
Both(q, s) == IF q = {} THEN s ELSE IF s = {} THEN q ELSE {x \o y : x \in q, y \in s}

Joined(base, path, query, override) ==
    [path  |-> IF ~override /\ path = Root THEN base.path
               ELSE IF base.path = Root THEN path
               ELSE Trim(base.path) \o path,
     query |-> Both(base.query, query)]

\* Mutant: a request for the root gets the base as it is, whatever its query.
ComposeRootBare(base, path, query, override) ==
    IF ~override /\ path = Root THEN base ELSE Joined(base, path, query, override)

\* The two shortcuts spare the formatting and parsing of most URIs.
Compose(base, path, query, override) ==
    IF ~override /\ path = Root /\ query = {} THEN base
    ELSE IF ~override /\ base = [path |-> Root, query |-> {}] THEN [path |-> path, query |-> query]
    ELSE Joined(base, path, query, override)

Spared(base, path, query, override) ==
    /\ ~override
    /\ (path = Root /\ query = {}) \/ base = [path |-> Root, query |-> {}]

\* What is joined is parsed anew and may be too long for a URI: no upstream is
\* called, and dispatch answers 502.
ComposeFails(path, override) ==
    /\ ~Spared(conf.base, path, req.query, override)
    /\ Respond(502)
    /\ Here

(***************************************************************************)
(* Forwarding over HTTP.                                                   *)
(***************************************************************************)

Cleared(h) == Strip(h)

\* send_http, up to its wait for the upstream's answer.
Send(upstream, path, override) ==
    /\ stage' = "sending" /\ timer' = Timeout
    /\ reached' = {upstream}
    /\ uri' = {Compose(conf.base, path, req.query, override)}
    /\ forwarded' = {Cleared(req.headers)}
    /\ UNCHANGED <<req, status, counted, returned, wsVars, client, cut, conf, back, elapsed>>

Forward(upstream, path, override) ==
    Send(upstream, path, override) \/ ComposeFails(path, override)

ToRelay(r) == r.method = "POST" /\ r.path = "register" /\ conf.flags.mev

ForwardCl == /\ Dispatched("cl")
             /\ ~MockHealth(req) /\ ~MockSubscription(req)
             /\ IF ToRelay(req) THEN Forward("mev", Builder, TRUE)
                                ELSE Forward("beacon", Path(req.path), FALSE)
             /\ UNCHANGED body

Inspects(r) == r.method = "POST" /\ conf.flags.syncing

ForwardEl == /\ Dispatched("el") /\ ~Inspects(req)
             /\ Forward("el", Path(req.path), FALSE)
             /\ UNCHANGED body

\* The body is collected here to be shown to the mock.
Collect == /\ Dispatched("el") /\ Inspects(req)
           /\ stage' = "body" /\ timer' = Timeout
           /\ Here /\ UNCHANGED <<status, counted, body>>

\* It is read whole: all of it is answered here, or all of it goes on.
Collected == /\ stage = "body"
             /\ \/ body' = "calls" /\ Respond(200) /\ Here
                \/ body' = "notifications" /\ Respond(204) /\ Here
                \/ body' = "other" /\ Forward("el", Path(req.path), FALSE)

\* More than 64 MiB, or a broken stream.
BodyFails == /\ stage = "body"
             /\ body' = "broken"
             /\ \E code \in {413, 400} : Respond(code)
             /\ Here

\* Mutant: the body has no timeout of its own.
BodyTimesOutNever == FALSE

BodyTimesOut == /\ stage = "body" /\ timer = 0
                /\ body' = "broken"
                /\ Respond(408)
                /\ Here

\* A Connection of the answer may nominate fields, too.
UpstreamAnswers == /\ stage = "sending"
                   /\ \E h \in Answers : back' = {h} /\ returned' = {Strip(h)}
                   /\ Respond(200)
                   /\ UNCHANGED <<req, forwarded, wsVars, client, cut, conf, body, reached, uri,
                                  elapsed>>

UpstreamFails == /\ stage = "sending"
                 /\ Respond(502)
                 /\ Here /\ UNCHANGED body

\* Mutant: the request is tried again before the client is told.
UpstreamTimesOutRetries == /\ stage = "sending" /\ timer = 0
                           /\ timer' = Timeout
                           /\ UNCHANGED <<stage, status, counted>>
                           /\ Here /\ UNCHANGED body

UpstreamTimesOut == stage = "sending" /\ timer = 0 /\ UpstreamFails

(***************************************************************************)
(* WebSocket requests.                                                     *)
(***************************************************************************)

StartWs == /\ Dispatched("ws")
           /\ \/ Rejected /\ UNCHANGED <<reached, uri>>
              \/ Valid(req) /\ ComposeFails(Path(req.path), FALSE)
              \/ /\ Dial
                 /\ reached' = {"ws"}
                 /\ uri' = {Compose(conf.base, Path(req.path), req.query, FALSE)}
           /\ UNCHANGED <<conf, body, back, elapsed>>

Handshaking == /\ \/ \E p \in Picks : Answered(p)
                  \/ DialFails \/ Upgraded \/ BridgeEnds \/ RelayCut
               /\ UNCHANGED <<conf, http, elapsed>>

(***************************************************************************)
(* The client, shutdown, time, and the specification.                      *)
(***************************************************************************)

Waiting == stage \in {"body", "sending", "dialing"}

ClientLeaves == /\ client = "here"
                /\ client' = "gone"
                /\ UNCHANGED <<req, stage, timer, status, counted, forwarded, returned, wsVars, cut,
                               conf, http, elapsed>>

Deadline == /\ ~cut
            /\ cut' = TRUE
            /\ UNCHANGED <<req, stage, timer, status, counted, forwarded, returned, wsVars, client,
                           conf, http, elapsed>>

\* The handler's future is dropped at its await, with the dial or the call it
\* was waiting for.
Drop == /\ Waiting /\ (client = "gone" \/ cut)
        /\ stage' = "dropped" /\ client' = "gone"
        /\ UNCHANGED <<req, timer, status, counted, forwarded, returned, wsVars, cut, conf, http,
                       elapsed>>

Tick == /\ Waiting /\ timer > 0
        /\ timer' = timer - 1 /\ elapsed' = elapsed + 1
        /\ UNCHANGED <<req, stage, status, counted, forwarded, returned, wsVars, client, cut, conf, http>>

Over == stage \in {"done", "dropped"} /\ relay \in {"none", "over"}

Stutter == Over /\ UNCHANGED vars

Dispatching == Probe \/ MockCl \/ ForwardCl \/ ForwardEl \/ Collect \/ StartWs

Next == \/ Dispatching
        \/ Collected \/ BodyFails \/ BodyTimesOut
        \/ UpstreamAnswers \/ UpstreamFails \/ UpstreamTimesOut
        \/ Handshaking
        \/ ClientLeaves \/ Deadline \/ Drop
        \/ Tick \/ Stutter

\* Handlers are polled, timers fire, and the runtime drops what is cut; peers
\* and bodies may stay silent for ever, and a tunnel may stay open for ever.
Spec == /\ Init /\ [][Next]_vars
        /\ WF_vars(Dispatching) /\ WF_vars(Tick)
        /\ WF_vars(BodyTimesOut) /\ WF_vars(UpstreamTimesOut)
        /\ WF_vars(DialTimesOut /\ UNCHANGED <<conf, http, elapsed>>)
        /\ WF_vars(WsRelays /\ UNCHANGED <<conf, http, elapsed>>)

(***************************************************************************)
(* Properties.                                                             *)
(***************************************************************************)

Upstreams == {"mev", "beacon", "ws", "el"}

\* Whom a request is for: a CL path is the Beacon node's, or the relay's if it is a
\* registration; any other is the execution layer's, for a tunnel or not.  A probe
\* and what a mock takes over are for nobody.
IsFor(up, r, flags) ==
    /\ up \in {"mev", "beacon"} <=> r.path \in ClPaths
    /\ up = "mev" <=> r.path = "register" /\ r.method = "POST" /\ flags.mev
    /\ up = "ws" <=> r.path \notin ClPaths /\ IsWs(r)
    /\ ~(r.path = "probe" /\ r.method \in {"GET", "HEAD"})
    /\ ~(r.path = "node_health" /\ r.method \in {"GET", "HEAD"} /\ flags.health)
    /\ ~(r.path = "subscription" /\ r.method = "POST" /\ flags.subscriptions)

Unforwarded == {"calls", "notifications", "broken"}

\* A request reaches the upstream it is for and no other, and asks for an upgrade
\* there just if it is for a tunnel.  If it is answered without a call, it is for
\* nobody, or the syncing mock, which sees POSTs to the execution layer only, took
\* it or could not read it, or its handshake is invalid, or its URI had to be joined
\* and is none.  Each proxied request that gets an answer is counted, once; a probe
\* and a dropped request are not (proxy.rs 69-135, 204-310, 312-349).
RoutedOnce ==
    /\ \A up \in reached : IsFor(up, req, conf.flags)
    /\ reached = {"ws"} <=> forwarded # {} /\ \A h \in forwarded : h.upgrade # <<>>
    /\ body # "none" => IsFor("el", req, conf.flags) /\ req.method = "POST" /\ conf.flags.syncing
    /\ body \in Unforwarded => reached = {}
    /\ stage = "done" /\ reached = {} =>
           IF \E up \in Upstreams : IsFor(up, req, conf.flags)
           THEN \/ body \in Unforwarded /\ status \in {200, 204, 400, 408, 413}
                \/ IsFor("ws", req, conf.flags) /\ status = 400
                \/ /\ status = 502
                   /\ IsFor("mev", req, conf.flags) \/ conf.base # [path |-> Root, query |-> {}]
           ELSE status \in {200, 206, 503}
    /\ counted = IF stage = "done" /\ ~Local(req) THEN 1 ELSE 0

\* Of what a request or an answer carries, exactly the fields that concern one
\* hop only stay behind: the fixed ones, and those that any Connection line
\* nominates (headers.rs 24-38, proxy.rs 423-455).
Crosses(h, n) == /\ n \notin {"connection", "upgrade", "host", "te"}
                 /\ \A i \in 1..Len(h.connection) : n \notin h.connection[i]
HopsStay ==
    reached # {"ws"} =>
        /\ \A f \in forwarded, n \in Names :
               f[n] = IF Crosses(req.headers, n) THEN req.headers[n] ELSE <<>>
        /\ \A r \in returned, b \in back, n \in Names :
               r[n] = IF Crosses(b, n) THEN b[n] ELSE <<>>

\* What the client asked for, below the base.
Asked == IF reached = {"mev"} THEN Builder ELSE IF req.path = "root" THEN <<>> ELSE <<req.path>>

\* The base up to its trailing slashes and then what was asked for, or the base as
\* it stands when its root was; with the parameters of both, the base's first.
OrEmpty(query) == IF query = {} THEN {<<>>} ELSE query
Pairs(q, s) == {x \o y : x \in q, y \in s}
Extends(u, base, asked, query) ==
    /\ IF asked = <<>> THEN u.path = base.path
       ELSE \E k \in 0..Len(base.path) :
                /\ u.path = SubSeq(base.path, 1, k) \o asked
                /\ k # 0 => base.path[k] # Empty
                /\ \A i \in (k + 1)..Len(base.path) : base.path[i] = Empty
    /\ u.query = IF base.query = {} /\ query = {} THEN {} ELSE Pairs(OrEmpty(base.query), OrEmpty(query))

\* The composed URI has no empty segment between the base and what was asked for,
\* and loses no parameter, with or without the shortcuts (proxy.rs 367-409).
UriWhole == \A u \in uri : Extends(u, conf.base, Asked, req.query)

\* An answer takes at most one timeout, and a second one only for a body that
\* was collected here first (proxy.rs 312-349, 447-449; websocket.rs 200-217).
InTime == elapsed <= IF body = "none" /\ stage # "body" THEN Timeout ELSE 2 * Timeout

\* No request waits for ever, whatever its client and its upstream do not do
\* (proxy.rs 312-349, 447-449; websocket.rs 200-217).
Ends == Waiting ~> (stage \in {"done", "dropped"})
=============================================================================
