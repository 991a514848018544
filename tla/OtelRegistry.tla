---------------------------- MODULE OtelRegistry ----------------------------
(***************************************************************************)
(* Metrics under the OpenTelemetry recorder: the double-checked            *)
(* registration of instruments (src/src/otel.rs), the guards that count    *)
(* active connections (src/src/metrics.rs), the requests and the peers     *)
(* that are recorded, and the export that follows the drain of a shutdown  *)
(* (src/src/lib.rs).                                                       *)
(*                                                                         *)
(* A metrics macro registers its key, which returns a handle, and applies  *)
(* its operation to that.  A histogram is registered as a counter is.  The *)
(* SDK behind the instruments, which sums and exports, is external.        *)
(***************************************************************************)
EXTENDS Integers, Sequences, FiniteSets

CONSTANTS
    Tasks,      \* connections and relays
    Protocols,  \* labels of ethryx_active_connections
    Poller,     \* the task that sets the gauges of the upstreams
    Peers,      \* the values that it sets
    MaxSets,    \* bound on them
    MaxRequests \* bound on the requests

ASSUME OtelAssumption ==
    /\ Poller \notin Tasks /\ IsFiniteSet(Tasks)
    /\ {"requests", "peers"} \cap Protocols = {}
    /\ Peers \subseteq Int /\ MaxSets \in Nat /\ MaxRequests \in Nat

VARIABLES
    protocol,   \* of each task
    pc,         \* where each thread is
    call,       \* its metrics call: where it is, its key and value, its handle
    registry,   \* the maps: the handle of each key, or 0
    made,       \* the key of each instrument that was built
    total,      \* what the SDK holds for each key
    exported,   \* what was exported in the end
    counted, set, sets,     \* the requests so far, the value set last, and how often
    stopped, flushed        \* the signal, and the end of run()

threads == <<protocol, pc, call>>
maps    == <<registry, made>>
stats   == <<counted, set, sets>>
run     == <<stopped, flushed>>
vars    == <<threads, maps, total, exported, stats, run>>

Threads == Tasks \cup {Poller}
Keys == Protocols \cup {"requests", "peers"}

\* One map and one lock for counters, and one for gauges.
MapOf(k) == IF k = "requests" THEN "counters" ELSE "gauges"

Idle == [at |-> "idle", key |-> "peers", value |-> 0, handle |-> 0]

Init ==
    /\ protocol \in [Tasks -> Protocols]
    /\ pc = [t \in Threads |-> IF t = Poller THEN "live" ELSE "new"]
    /\ call = [t \in Threads |-> Idle]
    /\ registry = [k \in Keys |-> 0] /\ made = <<>>
    /\ total = [k \in Keys |-> 0] /\ exported = [k \in Keys |-> 0]
    /\ counted = 0 /\ set = 0 /\ sets = 0
    /\ stopped = FALSE /\ flushed = FALSE

(***************************************************************************)
(* A call of the recorder.                                                 *)
(***************************************************************************)

Holds(t, how, m) == call[t].at = how /\ MapOf(call[t].key) = m

At(t, where) == call' = [call EXCEPT ![t].at = where]

Got(t, handle) == call' = [call EXCEPT ![t].at = "registered", ![t].handle = handle]

Calling == UNCHANGED <<protocol, pc, exported, stats, run>>

ReadLock(t) ==
    /\ call[t].at = "asked"
    /\ \A u \in Threads : ~Holds(u, "writing", MapOf(call[t].key))
    /\ At(t, "reading")
    /\ UNCHANGED <<maps, total>> /\ Calling

\* A key that is known is returned; the read lock is given back either way.
Lookup(t) ==
    /\ call[t].at = "reading"
    /\ IF registry[call[t].key] # 0 THEN Got(t, registry[call[t].key]) ELSE At(t, "missed")
    /\ UNCHANGED <<maps, total>> /\ Calling

\* Mutant: the read lock is held while the write lock is asked for.
WriteLockUpgrades(t) ==
    /\ call[t].at = "missed"
    /\ \A u \in Threads \ {t} : \A how \in {"reading", "missed", "writing"} :
           ~Holds(u, how, MapOf(call[t].key))
    /\ At(t, "writing")
    /\ UNCHANGED <<maps, total>> /\ Calling

WriteLock(t) ==
    /\ call[t].at = "missed"
    /\ \A u \in Threads, how \in {"reading", "writing"} : ~Holds(u, how, MapOf(call[t].key))
    /\ At(t, "writing")
    /\ UNCHANGED <<maps, total>> /\ Calling

\* Mutant: the key is not looked up again under the write lock.
RegisterAgain(t) ==
    /\ call[t].at = "writing"
    /\ made' = Append(made, call[t].key)
    /\ registry' = [registry EXCEPT ![call[t].key] = Len(made')]
    /\ Got(t, Len(made'))
    /\ UNCHANGED total /\ Calling

\* Another thread may have been here between the two locks.
Register(t) ==
    /\ call[t].at = "writing"
    /\ IF registry[call[t].key] # 0
       THEN /\ Got(t, registry[call[t].key])
            /\ UNCHANGED maps
       ELSE /\ made' = Append(made, call[t].key)
            /\ registry' = [registry EXCEPT ![call[t].key] = Len(made')]
            /\ Got(t, Len(made'))
    /\ UNCHANGED total /\ Calling

\* Counters and the gauge of active connections add up; another gauge holds the
\* last value that was recorded.
Recorded(k, old, value) == IF k = "peers" THEN value ELSE old + value

AfterCall(t) == CASE pc[t] = "starting" -> "live"
                  [] pc[t] = "ending"   -> "dropped"
                  [] OTHER              -> "live"

Apply(t) ==
    /\ call[t].at = "registered"
    /\ LET k == made[call[t].handle]
       IN  total' = [total EXCEPT ![k] = Recorded(k, @, call[t].value)]
    /\ call' = [call EXCEPT ![t] = Idle]
    /\ pc' = [pc EXCEPT ![t] = AfterCall(t)]
    /\ UNCHANGED <<protocol, maps, exported, stats, run>>

(***************************************************************************)
(* The threads that record.                                                *)
(***************************************************************************)

Call(t, key, value) ==
    call' = [call EXCEPT ![t] = [at |-> "asked", key |-> key, value |-> value, handle |-> 0]]

Runs(t) == pc[t] = "live" /\ call[t].at = "idle"

\* ActiveConnectionGuard::new: a task is spawned by an accept loop, or by
\* another task.
Begin(t) ==
    /\ pc[t] = "new"
    /\ ~stopped \/ \E u \in Tasks : Runs(u)
    /\ pc' = [pc EXCEPT ![t] = "starting"]
    /\ Call(t, protocol[t], 1)
    /\ UNCHANGED <<protocol, maps, total, exported, stats, run>>

\* A proxied request has its answer.
Count(t) ==
    /\ t \in Tasks /\ Runs(t) /\ counted < MaxRequests
    /\ Call(t, "requests", 1)
    /\ counted' = counted + 1
    /\ UNCHANGED <<protocol, pc, maps, total, exported, set, sets, run>>

\* The guard is dropped, at the end of the task or with its cancelled future.
End(t) ==
    /\ t \in Tasks /\ Runs(t)
    /\ pc' = [pc EXCEPT ![t] = "ending"]
    /\ Call(t, protocol[t], -1)
    /\ UNCHANGED <<protocol, maps, total, exported, stats, run>>

\* The completion sender goes after it.
Release(t) ==
    /\ pc[t] = "dropped"
    /\ pc' = [pc EXCEPT ![t] = "gone"]
    /\ UNCHANGED <<protocol, call, maps, total, exported, stats, run>>

\* update_metrics, once a poll.
SetPeers ==
    /\ Runs(Poller) /\ ~stopped /\ sets < MaxSets
    /\ \E n \in Peers : Call(Poller, "peers", n) /\ set' = n
    /\ sets' = sets + 1
    /\ UNCHANGED <<protocol, pc, maps, total, exported, counted, run>>

PollerExit ==
    /\ Runs(Poller) /\ stopped
    /\ pc' = [pc EXCEPT ![Poller] = "gone"]
    /\ UNCHANGED <<protocol, call, maps, total, exported, stats, run>>

(***************************************************************************)
(* Shutdown.  The exports of the periodic reader before it are left out.   *)
(***************************************************************************)

Signal ==
    /\ ~stopped
    /\ stopped' = TRUE
    /\ UNCHANGED <<threads, maps, total, exported, stats, flushed>>

\* Mutant: the providers are shut down before the connections are drained.
FlushEarly ==
    /\ stopped /\ ~flushed /\ pc[Poller] = "gone"
    /\ exported' = total
    /\ flushed' = TRUE
    /\ UNCHANGED <<threads, maps, total, stats, stopped>>

\* Telemetry::shutdown, after the joins and the drain: the reader exports once
\* more.
Flush ==
    /\ stopped /\ ~flushed
    /\ pc[Poller] = "gone" /\ \A t \in Tasks : pc[t] \in {"new", "gone"}
    /\ exported' = total
    /\ flushed' = TRUE
    /\ UNCHANGED <<threads, maps, total, stats, stopped>>

Stutter == flushed /\ UNCHANGED vars

Calls(t) == ReadLock(t) \/ Lookup(t) \/ WriteLock(t) \/ Register(t) \/ Apply(t)

Next ==
    \/ \E t \in Threads : Calls(t)
    \/ \E t \in Tasks : Begin(t) \/ Count(t) \/ End(t) \/ Release(t)
    \/ SetPeers \/ PollerExit
    \/ Signal \/ Flush
    \/ Stutter

\* Threads run, and a lock that is free is taken at last; after the signal tasks
\* end, by the deadline if not before.
Spec == /\ Init /\ [][Next]_vars
        /\ \A t \in Threads : WF_vars(Calls(t))
        /\ \A t \in Tasks : WF_vars(stopped /\ End(t)) /\ WF_vars(Release(t))
        /\ WF_vars(PollerExit) /\ WF_vars(Flush)

(***************************************************************************)
(* Properties.                                                             *)
(***************************************************************************)

TypeOK ==
    /\ protocol \in [Tasks -> Protocols]
    /\ pc \in [Threads -> {"new", "starting", "live", "ending", "dropped", "gone"}]
    /\ call \in [Threads -> [at : {"idle", "asked", "reading", "missed", "writing", "registered"},
                             key : Keys, value : Int, handle : Nat]]
    /\ made \in Seq(Keys)
    /\ registry \in [Keys -> Nat]
    /\ total \in [Keys -> Int] /\ exported \in [Keys -> Int]
    /\ counted \in 0..MaxRequests /\ sets \in 0..MaxSets
    /\ set \in Int
    /\ stopped \in BOOLEAN /\ flushed \in BOOLEAN

\* A writer is alone with its map.
Exclusive ==
    \A t, u \in Threads :
        /\ t # u /\ call[t].at = "writing" /\ call[u].at \in {"reading", "writing"}
        => MapOf(call[t].key) # MapOf(call[u].key)

\* What is registered was built for its key, and all that was built is registered.
Registered ==
    /\ \A k \in Keys : registry[k] # 0 => registry[k] \in 1..Len(made) /\ made[registry[k]] = k
    /\ \A i \in 1..Len(made) : registry[made[i]] = i
    /\ \A t \in Threads : call[t].at = "registered" => call[t].handle = registry[call[t].key]
                                                       /\ call[t].handle # 0

\* Which call a thread is in says where it is.
Callers ==
    /\ pc[Poller] \in {"live", "gone"}
    /\ \A t \in Threads :
           /\ pc[t] \in {"new", "dropped", "gone"} => call[t].at = "idle"
           /\ pc[t] \in {"starting", "ending"} =>
                  /\ call[t].at # "idle" /\ call[t].key = protocol[t]
                  /\ call[t].value = IF pc[t] = "starting" THEN 1 ELSE -1
           /\ pc[t] = "live" /\ call[t].at # "idle" =>
                  IF t = Poller THEN call[t].key = "peers" /\ call[t].value = set
                                ELSE call[t].key = "requests" /\ call[t].value = 1

Counts(t) == pc[t] = "live" \/ pc[t] = "ending"
Active(p) == {t \in Tasks : protocol[t] = p /\ Counts(t)}
Pending == {t \in Tasks : pc[t] = "live" /\ call[t].at # "idle"}

\* What the SDK holds is what the calls that have returned recorded.
Recordings ==
    /\ \A p \in Protocols : total[p] = Cardinality(Active(p))
    /\ total["requests"] + Cardinality(Pending) = counted
    /\ call[Poller].at = "idle" => total["peers"] = set

\* Nothing is recorded after the last export.
Settled ==
    flushed => /\ stopped /\ exported = total /\ pc[Poller] = "gone"
               /\ \A t \in Tasks : pc[t] \in {"new", "gone"}

IInv == TypeOK /\ Exclusive /\ Registered /\ Callers /\ Recordings /\ Settled

\* However threads meet in the registration, a key has one instrument, and each
\* caller writes to the instrument of the key that it named (otel.rs 175-234).
OneInstrument ==
    /\ \A i, j \in 1..Len(made) : made[i] = made[j] => i = j
    /\ \A t \in Threads : call[t].at = "registered" => made[call[t].handle] = call[t].key

\* The gauge of active connections is the number of live guards, for each
\* protocol, whatever the order in which connections come and go (metrics.rs,
\* otel.rs 250-281).
ActiveExact ==
    \A p \in Protocols : total[p] = Cardinality(Active(p))

\* The collector's last word on a process that ended in order: no connection is
\* left open, every answered request is there, and the peers are those of the
\* last poll (lib.rs 226-254, lifecycle.rs 36-48).
FinalExport ==
    flushed => /\ \A p \in Protocols : exported[p] = 0
               /\ exported["requests"] = counted
               /\ exported["peers"] = set

\* A metrics call returns: no thread waits for ever for a lock of the recorder
\* (otel.rs 175-234).
CallsReturn == \A t \in Threads : (call[t].at # "idle") ~> (call[t].at = "idle")
=============================================================================
