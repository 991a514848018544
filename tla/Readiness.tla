----------------------------- MODULE Readiness -----------------------------
(***************************************************************************)
(* The readiness gate: the probe cache that /readyz, /healthz and          *)
(* /eth/v1/node/health are answered from, the poller that refreshes it,    *)
(* sets the gauges and logs transitions (src/src/health.rs), and the       *)
(* warm-up of run_inner that seeds it (src/src/lib.rs).                    *)
(*                                                                         *)
(* The two upstreams are external: a layer is synced, syncing or down, and *)
(* has a head of some age.  A probe holds what each layer answered at its  *)
(* own instant of the poll; ages go on growing in the cache, because the   *)
(* handlers compute them from timestamps at each request.                  *)
(***************************************************************************)
EXTENDS Naturals

CONSTANTS
    Genesis,     \* whether --cl-genesis-time is set, so that a slot has an age
    Interval,    \* ticks of --health-poll-interval
    Timeout,     \* ticks of --health-timeout
    MaxAge,      \* the greatest head age that is still fresh
    MaxChanges,  \* bound on changes of the upstreams' sync state
    MaxFaults    \* bound on calls that an upstream leaves unanswered or fails

ASSUME ReadinessAssumption ==
    /\ Genesis \in BOOLEAN
    /\ Interval \in Nat \ {0} /\ Timeout \in Nat \ {0}
    /\ MaxAge \in Nat /\ MaxChanges \in Nat /\ MaxFaults \in Nat

VARIABLES
    gate,        \* sync only, --readyz-strict, or --trust-upstream
    stage,       \* where the warm-up or the poller is
    serving,     \* listeners are open
    probe,       \* the probe being collected
    timer,       \* ticks left of the pause, or of each layer's calls
    cache,       \* the probe in the watch channel
    gauges,      \* ethryx_upstream_health_status of each layer
    prev,        \* prev_ready of poll_loop
    log,         \* the last transition line, and how many lines modulo 2
    up,          \* the sync state of each upstream
    age,         \* the age of each upstream's head
    changes, faults,
    steady       \* ticks since an upstream last changed or failed a call

poller   == <<gate, stage, serving, probe, timer, cache, gauges, prev, log>>
upstream == <<up, age, changes, faults, steady>>
vars == <<poller, upstream>>

Layers == {"el", "cl"}
Ages   == 0..(MaxAge + 1)       \* MaxAge + 1 stands for anything older
NoHead == MaxAge + 2            \* the signal is an error

\* One layer of a probe: the sync answer and the head's age, each of which may
\* be an error instead.
Answers == [sync : {"synced", "syncing", "error"}, head : Ages \cup {NoHead}]
Error   == [sync |-> "error", head |-> NoHead]
Warming == [sync |-> "warming", head |-> NoHead]   \* Probe::pending
Out     == [sync |-> "out", head |-> NoHead]       \* the calls are still out

\* EL has two attempts of one call each (the batch over either transport), CL
\* one round of calls.
Budget(l) == IF l = "el" THEN 2 * Timeout ELSE Timeout

\* The longest a change of an upstream stays unseen by the handlers: the poll
\* it just missed, the pause, and the next poll.
MaxLag == 2 * Timeout + Interval + 2 * Timeout

TypeOK ==
    /\ gate \in {"sync", "strict", "trust"} /\ serving \in BOOLEAN
    /\ stage \in {"warm", "pause", "asking", "judged", "off", "stopped"}
    /\ probe \in [Layers -> Answers \cup {Out}]
    /\ timer \in [Layers \cup {"pause"} -> 0..(Interval + 2 * Timeout)]
    /\ cache \in [Layers -> Answers \cup {Warming}]
    /\ gauges \in [Layers -> BOOLEAN]
    /\ prev \in {"none", "ready", "not_ready"}
    /\ log \in [last : {"none", "recovered", "not_ready"}, odd : BOOLEAN]
    /\ up \in [Layers -> {"synced", "syncing", "down"}]
    /\ age \in [Layers -> Ages]
    /\ changes \in 0..MaxChanges /\ faults \in 0..MaxFaults
    /\ steady \in 0..(MaxLag + 1)

(***************************************************************************)
(* Verdicts, as the code computes them from a probe.                       *)
(***************************************************************************)

Trust  == gate = "trust"
Strict == gate = "strict"

SyncOk(p, l) == Trust \/ p[l].sync = "synced"

\* Freshness is looked at under --readyz-strict only.  A slot's age is known
\* only from a genesis time: without one any answered slot passes.
FreshOk(p, l) == \/ Trust \/ ~Strict
                 \/ p[l].head <= MaxAge
                 \/ l = "cl" /\ ~Genesis /\ p[l].head # NoHead

Ready(p) == \A l \in Layers : SyncOk(p, l) /\ FreshOk(p, l)

ReadyzCode == IF Ready(cache) THEN 200 ELSE 503

NodeHealthCode == IF Ready(cache) THEN 200
                  ELSE IF \E l \in Layers : cache[l].sync = "syncing" THEN 206
                  ELSE 503

\* What is logged when the poller's verdict was p and is now ready or not.
Transition(p, ready) ==
    IF ready THEN IF p = "not_ready" THEN "recovered" ELSE "silent"
             ELSE IF p = "not_ready" THEN "silent" ELSE "not_ready"

Init ==
    /\ gate \in {"sync", "strict", "trust"}
    /\ stage = "warm"
    /\ serving = FALSE
    /\ probe = [l \in Layers |-> Out]
    /\ timer = [l \in Layers \cup {"pause"} |-> IF l = "pause" THEN 0 ELSE Budget(l)]
    /\ cache = [l \in Layers |-> Warming]
    /\ gauges = [l \in Layers |-> FALSE]
    /\ prev = "none"
    /\ log = [last |-> "none", odd |-> FALSE]
    /\ up \in [Layers -> {"synced", "syncing", "down"}]
    /\ age \in [Layers -> {0, MaxAge + 1}]
    /\ changes = 0 /\ faults = 0 /\ steady = 0

(***************************************************************************)
(* The upstreams (external).                                               *)
(***************************************************************************)

Change == /\ changes < MaxChanges
          /\ changes' = changes + 1
          /\ \E l \in Layers : \E s \in {"synced", "syncing", "down"} \ {up[l]} :
                 up' = [up EXCEPT ![l] = s]
          /\ steady' = 0
          /\ UNCHANGED <<poller, age, faults>>

NewHead(l) == /\ age[l] > 0
              /\ age' = [age EXCEPT ![l] = 0]
              /\ UNCHANGED <<poller, up, changes, faults, steady>>

(***************************************************************************)
(* One probe.                                                              *)
(***************************************************************************)

Collecting == stage \in {"warm", "asking"} /\ ~Trust

Collect(l, answer) == /\ Collecting
                      /\ probe[l] = Out
                      /\ probe' = [probe EXCEPT ![l] = answer]
                      /\ UNCHANGED <<gate, stage, serving, timer, cache, gauges, prev, log>>

Answered(l) == /\ up[l] # "down"
               /\ Collect(l, [sync |-> up[l], head |-> age[l]])
               /\ UNCHANGED upstream

\* One call of the execution layer's batch comes back as an error.
PartlyAnswered == /\ up["el"] # "down"
                  /\ faults < MaxFaults
                  /\ faults' = faults + 1 /\ steady' = 0
                  /\ \/ Collect("el", [sync |-> up["el"], head |-> NoHead])
                     \/ Collect("el", [sync |-> "error", head |-> age["el"]])
                  /\ UNCHANGED <<up, age, changes>>

\* Mutant: a failed call leaves the cached answer in place.
FailedKeepsCached(l) == \/ /\ up[l] = "down"
                           /\ Collect(l, cache[l])
                           /\ UNCHANGED upstream
                        \/ /\ faults < MaxFaults
                           /\ faults' = faults + 1 /\ steady' = 0
                           /\ Collect(l, cache[l])
                           /\ UNCHANGED <<up, age, changes>>

\* Refused, broken, timed out or undecodable: every signal of the call fails.
Failed(l) == \/ /\ up[l] = "down"
                /\ Collect(l, Error)
                /\ UNCHANGED upstream
             \/ /\ faults < MaxFaults
                /\ faults' = faults + 1 /\ steady' = 0
                /\ Collect(l, Error)
                /\ UNCHANGED <<up, age, changes>>

\* Under --trust-upstream nothing is asked and every layer counts as synced.
Collected == Trust \/ \A l \in Layers : probe[l] # Out
Result == IF Trust THEN [l \in Layers |-> [sync |-> "synced", head |-> MaxAge + 1]]
                   ELSE probe

SetGauges == gauges' = [l \in Layers |-> SyncOk(Result, l)]
Rest(s) == /\ stage' = s
           /\ probe' = [l \in Layers |-> Out]
           /\ timer' = [timer EXCEPT !["pause"] = Interval]

\* Mutant: the listeners open before the first probe is in the cache.
SeedUnpublished == /\ stage = "warm" /\ Collected
                   /\ SetGauges
                   /\ Rest(IF Trust THEN "off" ELSE "pause")
                   /\ serving' = TRUE
                   /\ UNCHANGED <<gate, cache, prev, log, upstream>>

\* run_inner: the first probe sets the gauges and fills the cache; the poller
\* starts, unless the upstream is trusted, and the listeners open.
Seed == /\ stage = "warm" /\ Collected
        /\ SetGauges
        /\ cache' = Result
        /\ Rest(IF Trust THEN "off" ELSE "pause")
        /\ serving' = TRUE
        /\ UNCHANGED <<gate, prev, log, upstream>>

(***************************************************************************)
(* poll_loop.                                                              *)
(***************************************************************************)

Ask == /\ stage = "pause" /\ timer["pause"] = 0
       /\ stage' = "asking"
       /\ timer' = [l \in Layers \cup {"pause"} |-> IF l = "pause" THEN 0 ELSE Budget(l)]
       /\ UNCHANGED <<gate, serving, probe, cache, gauges, prev, log, upstream>>

Line(ready) == LET t == Transition(prev, ready)
               IN  log' = IF t = "silent" THEN log ELSE [last |-> t, odd |-> ~log.odd]

\* Mutant: the previous verdict is not remembered.
JudgeForgetful == /\ stage = "asking" /\ Collected
                  /\ stage' = "judged"
                  /\ SetGauges
                  /\ Line(Ready(probe))
                  /\ UNCHANGED <<gate, serving, probe, timer, cache, prev, upstream>>

\* Mutant: the poller remembers the sync verdict, and logs the strict one.
JudgeSyncOnly == /\ stage = "asking" /\ Collected
                 /\ stage' = "judged"
                 /\ SetGauges
                 /\ Line(Ready(probe))
                 /\ prev' = IF \A l \in Layers : SyncOk(probe, l) THEN "ready" ELSE "not_ready"
                 /\ UNCHANGED <<gate, serving, probe, timer, cache, upstream>>

\* The probe is complete: the poller sets the gauges, logs a transition and
\* remembers the verdict, all before the handlers see the probe.
Judge == /\ stage = "asking" /\ Collected
         /\ stage' = "judged"
         /\ SetGauges
         /\ Line(Ready(probe))
         /\ prev' = IF Ready(probe) THEN "ready" ELSE "not_ready"
         /\ UNCHANGED <<gate, serving, probe, timer, cache, upstream>>

Publish == /\ stage = "judged"
           /\ cache' = probe
           /\ Rest("pause")
           /\ UNCHANGED <<gate, serving, gauges, prev, log, upstream>>

\* Shutdown cancels the pause or the calls in flight.  The cache stays as it
\* is while connections drain.
Stop == /\ serving
        /\ stage \in {"pause", "asking"}
        /\ stage' = "stopped"
        /\ UNCHANGED <<gate, serving, probe, timer, cache, gauges, prev, log, upstream>>

(***************************************************************************)
(* Time, and the specification.                                            *)
(***************************************************************************)

Older(a) == IF a > MaxAge THEN a ELSE a + 1
Aged(p) == [l \in Layers |-> [p[l] EXCEPT !.head = Older(@)]]

Due == \/ Collecting /\ \E l \in Layers : probe[l] = Out /\ timer[l] = 0
       \/ stage \in {"warm", "asking"} /\ Collected
       \/ stage = "pause" /\ timer["pause"] = 0
       \/ stage = "judged"

\* An answer that has arrived keeps ageing too: what is kept is a timestamp.
Tick == /\ ~Due
        /\ timer' = [i \in DOMAIN timer |-> IF timer[i] > 0 THEN timer[i] - 1 ELSE 0]
        /\ age' = [l \in Layers |-> Older(age[l])]
        /\ probe' = Aged(probe)
        /\ cache' = Aged(cache)
        /\ steady' = IF steady > MaxLag THEN steady ELSE steady + 1
        /\ UNCHANGED <<gate, stage, serving, gauges, prev, log, up, changes, faults>>

Next == \/ Change \/ PartlyAnswered
        \/ \E l \in Layers : NewHead(l) \/ Answered(l) \/ Failed(l)
        \/ Seed \/ Ask \/ Judge \/ Publish \/ Stop
        \/ Tick

Spec == Init /\ [][Next]_vars

(***************************************************************************)
(* Properties.                                                             *)
(***************************************************************************)

\* The placeholder is replaced before the first listener opens (health.rs
\* 166-168, lib.rs 176-217).
NeverServesPending == serving => \A l \in Layers : cache[l] # Warming

UpReady == \A l \in Layers : /\ up[l] = "synced"
                             /\ Strict /\ (l = "el" \/ Genesis) => age[l] <= MaxAge

\* What the handlers say follows the upstreams within MaxLag: 200 is not served
\* for longer than that after a layer fell behind or (strict) went stale, nor
\* 503 once both are synced and answer, nor 206 when none is syncing (health.rs
\* 230-325, 346-378, 519-571).
ServedTruth ==
    serving /\ ~Trust /\ stage # "stopped" /\ steady > MaxLag =>
        /\ ReadyzCode = 200 => UpReady
        /\ ~Strict /\ UpReady => ReadyzCode = 200
        /\ NodeHealthCode = 206 => \E l \in Layers : up[l] = "syncing"

\* Between polls the gauges, the log and the cache tell one story: the gauges
\* are the cached layers' verdicts, the last line names the last verdict, and
\* the handlers say ready only if the poller did (health.rs 538-569).
OneStory ==
    stage \in {"pause", "asking"} /\ serving =>
        /\ \A l \in Layers : gauges[l] = SyncOk(cache, l)
        /\ prev = "not_ready" <=> log.last = "not_ready"
        /\ ReadyzCode = 200 /\ prev # "none" => prev = "ready"

\* What the poller knows, the log says; and what it judged is what it publishes.
Story ==
    /\ stage = "warm" <=> ~serving
    /\ stage = "warm" => prev = "none"
    /\ Trust => stage \in {"warm", "off"}
    /\ stage = "off" => Trust
    /\ stage = "pause" => \A l \in Layers : probe[l] = Out
    /\ prev = "not_ready" <=> log.last = "not_ready"
    /\ serving => \A l \in Layers : cache[l].sync # "warming"
    /\ stage = "judged" => /\ Collected
                           /\ \A l \in Layers : gauges[l] = SyncOk(probe, l)
                           /\ prev = IF Ready(probe) THEN "ready" ELSE "not_ready"
    /\ serving /\ stage # "judged" =>
           /\ \A l \in Layers : gauges[l] = SyncOk(cache, l)
           /\ Ready(cache) /\ prev # "none" => prev = "ready"

\* The layer would still answer as it did in p.
Current(p, l) == p[l].sync = IF up[l] = "down" THEN "error" ELSE up[l]

\* A probe is outdated by no more than the time it took; the cache, by that and
\* the time since.
Agreement ==
    /\ stage \in {"warm", "asking"} =>
           /\ timer["cl"] <= timer["el"] /\ timer["el"] <= 2 * Timeout
           /\ \A l \in Layers : probe[l] # Out =>
                  Current(probe, l) \/ steady + timer["el"] <= 2 * Timeout
    /\ stage = "judged" => \A l \in Layers : Current(probe, l) \/ steady <= 2 * Timeout
    /\ stage = "pause" => timer["pause"] <= Interval
    /\ stage \in {"pause", "asking", "judged"} => \A l \in Layers :
           \/ Current(cache, l)
           \/ stage = "pause" /\ steady + timer["pause"] <= 2 * Timeout + Interval
           \/ stage = "asking" /\ steady + timer["el"] <= MaxLag
           \/ stage = "judged" /\ steady <= MaxLag

\* A known head is no younger than the layer's own: heads only get replaced.
HeadsLag == \A l \in Layers : age[l] <= probe[l].head /\ age[l] <= cache[l].head

\* The inductive invariant (health.rs 230-378, 519-571; lib.rs 176-217).
IInv == TypeOK /\ Story /\ Agreement /\ HeadsLag

\* Lines alternate: a lasting state is logged once, and a recovery is only
\* logged after the failure it recovers from (health.rs 327-342, 544-565).
LinesAlternate ==
    [][log'.odd # log.odd =>
         /\ log'.last # log.last
         /\ log'.last = "recovered" => log.last = "not_ready"]_log

\* README.md 103-105: readiness is logged by the poller on transition, once per
\* change.  The warm-up's verdict is not the poller's: a run() that starts not
\* ready and recovers before the first background poll logs neither.
RecoveryIsLogged ==
    [][serving /\ ~Ready(cache) /\ Ready(cache') => log.last = "recovered"]_cache
=============================================================================
