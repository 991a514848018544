---------------------------- MODULE ElTransport ----------------------------
(***************************************************************************)
(* Which HTTP version ethryx speaks to the execution layer: the verdict    *)
(* el_use_h2, the poller that maintains it (el_batch_detect, poll_loop and *)
(* the warm-up of run_inner), and the requests that read it when they are  *)
(* forwarded (el_proxy, el_http_proxy, send_http).                         *)
(*                                                                         *)
(* The upstream is external.  It may change the transports it speaks       *)
(* (MaxChanges), and it may leave an attempt unanswered although it speaks *)
(* its transport (MaxGlitches).  An attempt in flight when the upstream    *)
(* changes may end as before the change or as after it.                    *)
(***************************************************************************)
EXTENDS Naturals, FiniteSets

CONSTANTS
    Requests,      \* identities of forwarded requests
    Interval,      \* ticks of --health-poll-interval
    Timeout,       \* ticks of --health-timeout
    MaxChanges,    \* bound on changes of the upstream
    MaxGlitches    \* bound on attempts that a willing upstream leaves unanswered

ASSUME TicksAssumption ==
    /\ Interval \in Nat \ {0} /\ Timeout \in Nat \ {0}
    /\ MaxChanges \in Nat /\ MaxGlitches \in Nat

Transports == {"h1", "h2"}
Other(p) == CHOOSE q \in Transports : q # p

VARIABLES
    mode,        \* cleartext upstream, TLS upstream, or --trust-upstream
    verdict,     \* el_use_h2
    serving,     \* the first probe is over and requests are accepted
    poll,        \* what the poller is doing about the execution layer
    pref,        \* the verdict as this poll loaded it
    cl,          \* the beacon calls of this poll are still out
    timer,       \* ticks left of the attempt, or of the pause between polls
    clTimer,     \* ticks left of the beacon calls
    speaks,      \* the transports the upstream speaks
    ever,        \* those it spoke at some time during the attempt in flight
    always,      \* those it spoke all through the attempt in flight
    changes, glitches,
    lag,         \* ticks since the upstream last changed or left a call unanswered
    req,         \* stage of each request
    via,         \* the transport each request was sent on
    seen         \* how many times the upstream received each request

upstream == <<speaks, ever, always, changes, glitches>>
requests == <<req, via, seen>>
pollVars == <<verdict, serving, poll, pref, cl, timer, clTimer>>
vars == <<mode, pollVars, upstream, lag, requests>>

\* The longest an outdated verdict survives: the calls that were out when the
\* upstream changed, the pause, the attempt that fails, the one that succeeds.
MaxLag == Timeout + Interval + 2 * Timeout

TypeOK ==
    /\ mode \in {"cleartext", "tls", "trust"}
    /\ verdict \in Transports /\ pref \in Transports
    /\ serving \in BOOLEAN /\ cl \in BOOLEAN
    /\ poll \in {"primary", "alternate", "done", "pause", "stopped", "off"}
    /\ timer \in 0..(IF poll = "pause" THEN Interval ELSE Interval + Timeout)
    /\ clTimer \in 0..Timeout
    /\ speaks \subseteq Transports /\ always \subseteq ever /\ ever \subseteq Transports
    /\ changes \in 0..MaxChanges /\ glitches \in 0..MaxGlitches
    /\ lag \in 0..(MaxLag + 1)
    /\ req \in [Requests -> {"new", "reading", "sent", "delivered", "answered",
                            "bad_gateway"}]
    /\ via \in [Requests -> Transports]
    /\ seen \in [Requests -> Nat]

\* run_inner prefers h2c unless the upstream is TLS or trusted, and polls once
\* before it serves; under --trust-upstream there is no poll at all.
Init ==
    /\ mode \in {"cleartext", "tls", "trust"}
    /\ verdict = IF mode = "cleartext" THEN "h2" ELSE "h1"
    /\ pref = verdict
    /\ serving = (mode = "trust")
    /\ poll = IF mode = "trust" THEN "off" ELSE "primary"
    /\ cl = (mode # "trust")
    /\ timer = Timeout /\ clTimer = Timeout
    /\ speaks \in SUBSET Transports
    /\ ever = speaks /\ always = speaks
    /\ changes = 0 /\ glitches = 0
    /\ lag = 0
    /\ req = [r \in Requests |-> "new"]
    /\ via = [r \in Requests |-> "h1"]
    /\ seen = [r \in Requests |-> 0]

(***************************************************************************)
(* The upstream (external).                                                *)
(***************************************************************************)

Change == /\ changes < MaxChanges
          /\ changes' = changes + 1
          /\ speaks' \in SUBSET Transports \ {speaks}
          /\ ever' = ever \cup speaks'
          /\ always' = always \cap speaks'
          /\ lag' = 0
          /\ UNCHANGED <<mode, pollVars, glitches, requests>>

(***************************************************************************)
(* The poller.  TLS upstreams negotiate by ALPN on the default client, so  *)
(* every transport is as good as the other and the verdict is not touched. *)
(***************************************************************************)

\* An answer, be it an HTTP or a decode error, over transport p.
Answers(p) == p \in ever \/ (mode = "tls" /\ ever # {})

\* A refusal, a broken exchange or a timeout over transport p: is_transport.
Fails(p) == \/ /\ p \notin always
               /\ mode = "tls" => always = {}
               /\ UNCHANGED <<glitches, lag>>
            \/ /\ glitches < MaxGlitches
               /\ timer = 0
               /\ glitches' = glitches + 1
               /\ lag' = 0

\* A new attempt starts with the upstream as it is.
Attempt == timer' = Timeout /\ ever' = speaks /\ always' = speaks

PrimaryAnswers ==
    /\ poll = "primary"
    /\ Answers(pref)
    /\ poll' = "done"
    /\ UNCHANGED <<mode, verdict, serving, pref, cl, timer, clTimer, upstream, lag, requests>>

\* Mutant: a failed attempt is not repeated over the other transport.
PrimaryFailsAlone ==
    /\ poll = "primary"
    /\ Fails(pref)
    /\ poll' = "done"
    /\ UNCHANGED <<mode, verdict, serving, pref, cl, timer, clTimer, speaks, ever, always,
                   changes, requests>>

PrimaryFails ==
    /\ poll = "primary"
    /\ Fails(pref)
    /\ IF mode = "tls" THEN poll' = "done" /\ UNCHANGED <<timer, ever, always>>
                       ELSE poll' = "alternate" /\ Attempt
    /\ UNCHANGED <<mode, verdict, serving, pref, cl, clTimer, speaks, changes, requests>>

\* Mutant: the alternate's answer is used but not remembered.
AlternateAnswersForgets ==
    /\ poll = "alternate"
    /\ Answers(Other(pref))
    /\ poll' = "done"
    /\ UNCHANGED <<mode, verdict, serving, pref, cl, timer, clTimer, upstream, lag, requests>>

\* Even an HTTP error proves that the alternate reached the upstream.
AlternateAnswers ==
    /\ poll = "alternate"
    /\ Answers(Other(pref))
    /\ verdict' = Other(pref)
    /\ poll' = "done"
    /\ UNCHANGED <<mode, serving, pref, cl, timer, clTimer, upstream, lag, requests>>

\* Mutant: the verdict flips although neither transport works.
AlternateFailsFlips ==
    /\ poll = "alternate"
    /\ Fails(Other(pref))
    /\ verdict' = Other(pref)
    /\ poll' = "done"
    /\ UNCHANGED <<mode, serving, pref, cl, timer, clTimer, speaks, ever, always, changes, requests>>

\* Both transports failed: the verdict stays.
AlternateFails ==
    /\ poll = "alternate"
    /\ Fails(Other(pref))
    /\ poll' = "done"
    /\ UNCHANGED <<mode, verdict, serving, pref, cl, timer, clTimer, speaks, ever, always,
                   changes, requests>>

\* The beacon calls, joined with the batch, answer or time out.
BeaconDone == /\ cl
              /\ cl' = FALSE
              /\ UNCHANGED <<mode, verdict, serving, poll, pref, timer, clTimer, upstream, lag,
                             requests>>

\* The probe is complete; the first one lets the listeners open.
ProbeDone == /\ poll = "done" /\ ~cl
             /\ poll' = "pause"
             /\ timer' = Interval
             /\ serving' = TRUE
             /\ UNCHANGED <<mode, verdict, pref, cl, clTimer, upstream, lag, requests>>

Poll == /\ poll = "pause" /\ timer = 0
        /\ poll' = "primary"
        /\ pref' = verdict
        /\ cl' = TRUE /\ clTimer' = Timeout
        /\ Attempt
        /\ UNCHANGED <<mode, verdict, serving, speaks, changes, glitches, lag, requests>>

\* Shutdown cancels the poll in flight; requests may go on until the deadline.
Stop == /\ serving
        /\ poll \notin {"stopped", "off"}
        /\ poll' = "stopped"
        /\ cl' = FALSE
        /\ UNCHANGED <<mode, verdict, serving, pref, timer, clTimer, upstream, lag, requests>>

(***************************************************************************)
(* Forwarded requests.                                                     *)
(***************************************************************************)

Step(r, from, to) == req[r] = from /\ req' = [req EXCEPT ![r] = to]

\* With --mock-eth-syncing the body is read first, for as long as it takes.
Arrive(r) == /\ serving
             /\ Step(r, "new", "reading")
             /\ UNCHANGED <<mode, pollVars, upstream, lag, via, seen>>

\* The verdict is loaded once, as the request goes out.
Forward(r) == /\ Step(r, "reading", "sent")
              /\ via' = [via EXCEPT ![r] = verdict]
              /\ UNCHANGED <<mode, pollVars, upstream, lag, seen>>

\* The upstream takes the request (external).
Deliver(r) == /\ via[r] \in speaks \/ (mode = "tls" /\ speaks # {})
              /\ Step(r, "sent", "delivered")
              /\ seen' = [seen EXCEPT ![r] = @ + 1]
              /\ UNCHANGED <<mode, pollVars, upstream, lag, via>>

Answer(r) == /\ Step(r, "delivered", "answered")
             /\ UNCHANGED <<mode, pollVars, upstream, lag, via, seen>>

\* Mutant: a failed call is retried over the other transport.
BadGatewayRetries(r) ==
    /\ Step(r, "sent", "bad_gateway") \/ Step(r, "delivered", "sent")
    /\ via' = [via EXCEPT ![r] = Other(via[r])]
    /\ UNCHANGED <<mode, pollVars, upstream, lag, seen>>

\* A refused, broken or timed-out call becomes a 502 and is not tried again,
\* whether or not the upstream received it.
BadGateway(r) == /\ Step(r, "sent", "bad_gateway") \/ Step(r, "delivered", "bad_gateway")
                 /\ UNCHANGED <<mode, pollVars, upstream, lag, via, seen>>

(***************************************************************************)
(* Time, and the specification.  A step of the poller that is due is taken *)
(* before the clock advances; the upstream and the clients owe nothing.    *)
(***************************************************************************)

Due == \/ poll \in {"primary", "alternate", "pause"} /\ timer = 0
       \/ cl /\ clTimer = 0
       \/ poll = "done" /\ ~cl

Tick == /\ poll \notin {"stopped", "off"}
        /\ ~Due
        /\ timer' = IF poll = "done" THEN timer ELSE timer - 1
        /\ clTimer' = IF cl THEN clTimer - 1 ELSE clTimer
        /\ lag' = IF lag > MaxLag THEN lag ELSE lag + 1
        /\ UNCHANGED <<mode, verdict, serving, poll, pref, cl, upstream, requests>>

\* The poller is gone and every request has been served.
Stutter == /\ poll \in {"stopped", "off"}
           /\ \A r \in Requests : req[r] \in {"answered", "bad_gateway"}
           /\ UNCHANGED vars

Poller == \/ PrimaryAnswers \/ PrimaryFails
          \/ AlternateAnswers \/ AlternateFails
          \/ BeaconDone \/ ProbeDone \/ Poll

Request(r) == Arrive(r) \/ Forward(r) \/ Deliver(r) \/ Answer(r) \/ BadGateway(r)

Next == Change \/ Poller \/ Stop \/ Tick \/ Stutter \/ \E r \in Requests : Request(r)

\* An attempt that is due is answered or given up, and the clock advances.
Spec == Init /\ [][Next]_vars /\ WF_vars(Poller) /\ WF_vars(Tick)

(***************************************************************************)
(* Properties.                                                             *)
(***************************************************************************)

\* A request that has not reached the upstream yet can still be sent once.
Counted == \A r \in Requests :
    seen[r] <= 1 /\ (req[r] \in {"new", "reading", "sent"} => seen[r] = 0)

\* The attempt in flight uses the verdict, or its alternate.  Either the upstream
\* is what it was when the attempt started, or it has changed since.
Attempts ==
    /\ mode = "trust" <=> poll = "off"
    /\ poll = "alternate" => /\ mode # "tls"
                             /\ pref \in speaks => lag + timer <= 2 * Timeout
    /\ poll \in {"primary", "alternate"} =>
           /\ pref = verdict
           /\ timer <= Timeout /\ (cl => clTimer <= timer)
           /\ (ever = speaks /\ always = speaks) \/ lag + timer <= Timeout

Outdated == mode = "cleartext" /\ speaks # {} /\ verdict \notin speaks

\* How long an outdated verdict may have been one, at each stage of the poll.
Window == Outdated =>
    /\ poll = "done" => lag <= Timeout /\ (cl => lag + clTimer <= Timeout)
    /\ poll = "pause" => lag + timer <= Timeout + Interval
    /\ poll = "primary" => lag + timer <= 2 * Timeout + Interval
    /\ poll = "alternate" => lag + timer <= 3 * Timeout + Interval

\* The inductive invariant (health.rs 417-449, 526-536; proxy.rs 411-449).
IInv == TypeOK /\ Counted /\ Attempts /\ Window

\* A call such as eth_sendRawTransaction reaches the upstream at most once:
\* there is no retry across transports (proxy.rs 411-449).
AtMostOnce == \A r \in Requests : seen[r] <= 1

Mismatched(r) == /\ req[r] = "reading" /\ req'[r] = "sent"
                 /\ mode = "cleartext" /\ speaks # {} /\ via'[r] \notin speaks

\* While the poller runs, a request goes out on a transport the upstream does
\* not speak only within MaxLag of the upstream's last change, or of the last
\* call that it left unanswered (health.rs 418-449 and 527-536, proxy.rs 417-420).
MismatchWindow ==
    [][\A r \in Requests : Mismatched(r) => lag <= MaxLag \/ poll = "stopped"]_vars

\* The verdict moves only to a transport the upstream spoke during the attempt,
\* and away from one it speaks only if that one failed in this very poll; a TLS
\* or trusted upstream never moves it (health.rs 420-447).
SwitchJustified ==
    [][verdict' # verdict =>
         /\ mode = "cleartext"
         /\ verdict' \in ever
         /\ verdict \notin speaks \/ lag <= 2 * Timeout]_vars

\* Once the upstream keeps still, the verdict settles on what it speaks.
VerdictSettles ==
    <>[](mode = "cleartext" /\ poll # "stopped" /\ speaks # {} => verdict \in speaks)

\* README.md 156-158: while the upstream switches away from h2c the data-plane
\* can return 502s up to one poll interval.  The calls' timeouts come on top.
MismatchWithinOneInterval ==
    [][\A r \in Requests : Mismatched(r) => lag <= Interval \/ poll = "stopped"]_vars
=============================================================================
