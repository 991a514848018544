----------------------------- MODULE Lifecycle -----------------------------
(***************************************************************************)
(* One run() of ethryx from its first probe to its return: run_inner and   *)
(* accept_loop of src/src/lib.rs, the deadline and the completion guard of *)
(* src/src/lifecycle.rs, and the relay that a WebSocket upgrade detaches   *)
(* from its request (src/src/websocket.rs).                                *)
(*                                                                         *)
(* A task is a connection, an HTTP/2 request that hyper spawns on the      *)
(* Lifecycle executor, or a WebSocket relay.  Each holds resources (its    *)
(* future and its sockets) and a guard (a clone of the mpsc sender whose   *)
(* last drop ends the drain).  They are released in two steps, in the      *)
(* order the code drops them.                                              *)
(*                                                                         *)
(* Time is discrete.  Scheduling is immediate: the clock does not advance  *)
(* while a step is due, so a bound on the clock is a bound on how long     *)
(* the code itself waits.                                                  *)
(***************************************************************************)
EXTENDS Naturals, FiniteSets

CONSTANTS
    Listeners,   \* one accept loop per configured listen address
    Tasks,       \* task identities, each used once: the bound on spawns
    Poller,      \* the health poller's task
    Main,        \* the primary Lifecycle that run_inner holds
    Grace,       \* ticks of --shutdown-grace
    Backoff,     \* ticks of the pause after a failed accept
    NoTime       \* no deadline yet

ASSUME ListenersAssumption == Listeners # {}
ASSUME GraceAssumption == Grace \in Nat /\ Backoff \in Nat /\ NoTime \notin Nat
ASSUME HoldersAssumption ==
    /\ Listeners \cap Tasks = {}
    /\ Poller \notin Listeners \cup Tasks
    /\ Main \notin Listeners \cup Tasks

VARIABLES
    pc,        \* where run_inner is
    loop,      \* where each accept loop is
    wait,      \* ticks left of each accept loop's pause
    task,      \* what became of each task
    kind,      \* what each task is
    end,       \* the deadline each task has read
    sockets,   \* the listeners, tasks and poller whose resources still exist
    guards,    \* the live clones of the completion sender
    deadline,  \* the value in the shutdown watch channel
    closed,    \* the channel's sender is gone
    now        \* ticks since the shutdown signal, or since the sender went

runVars  == <<pc, deadline, closed>>
loopVars == <<loop, wait>>
taskVars == <<task, kind, end>>
vars == <<runVars, loopVars, taskVars, sockets, guards, now>>

Kinds   == {"conn", "request", "relay"}
Holders == Listeners \cup Tasks \cup {Poller}

TypeOK ==
    /\ pc \in {"warming", "binding", "serving", "joinAccept", "joinPoller",
               "draining", "returned", "failed", "dropped"}
    /\ loop \in [Listeners -> {"unbound", "bound", "select", "checked",
                               "backoff", "leaving", "exited"}]
    /\ wait \in [Listeners -> Nat]
    /\ task \in [Tasks -> {"idle", "live", "completed", "cancelled"}]
    /\ kind \in [Tasks -> Kinds]
    /\ end \in [Tasks -> Nat \cup {NoTime}]
    /\ sockets \subseteq Holders
    /\ guards \subseteq Listeners \cup Tasks \cup {Main}
    /\ deadline \in Nat \cup {NoTime}
    /\ closed \in BOOLEAN
    /\ now \in Nat

Init ==
    /\ pc = "warming"
    /\ loop = [l \in Listeners |-> "unbound"]
    /\ wait = [l \in Listeners |-> 0]
    /\ task = [t \in Tasks |-> "idle"]
    /\ kind = [t \in Tasks |-> "conn"]
    /\ end = [t \in Tasks |-> NoTime]
    /\ sockets = {}
    /\ guards = {}
    /\ deadline = NoTime
    /\ closed = FALSE
    /\ now = 0

\* deadline() is ready: the channel holds a value, or its sender is gone.
Stop == deadline # NoTime \/ closed

(***************************************************************************)
(* run_inner, up to the shutdown signal.                                   *)
(***************************************************************************)

\* The first probe lands; the poller starts, except under --trust-upstream.
Warm == /\ pc = "warming"
        /\ pc' = "binding"
        /\ sockets' \in {{}, {Poller}}
        /\ UNCHANGED <<deadline, closed, loopVars, taskVars, guards, now>>

Bind(l) == /\ pc = "binding"
           /\ loop[l] = "unbound"
           /\ loop' = [loop EXCEPT ![l] = "bound"]
           /\ sockets' = sockets \cup {l}
           /\ UNCHANGED <<runVars, wait, taskVars, guards, now>>

\* The listeners that run_inner holds but has not handed to an accept loop.
Unspawned == {l \in Listeners : loop[l] \in {"unbound", "bound"}}

\* What leaving run_inner drops: the watch sender, the primary Lifecycle and
\* the listeners it still owns.
DropLocals == /\ closed' = TRUE
              /\ loop' = [l \in Listeners |-> IF l \in Unspawned THEN "exited" ELSE loop[l]]
              /\ sockets' = sockets \ Unspawned
              /\ guards' = guards \ {Main}

\* bind(addr)? returns the error with the poller already running.
BindFail == /\ pc = "binding"
            /\ \E l \in Listeners : loop[l] = "unbound"
            /\ pc' = "failed"
            /\ DropLocals
            /\ UNCHANGED <<deadline, wait, taskVars, now>>

NewLifecycle == /\ pc = "binding"
                /\ \A l \in Listeners : loop[l] = "bound"
                /\ pc' = "serving"
                /\ guards' = {Main}
                /\ UNCHANGED <<deadline, closed, loopVars, taskVars, sockets, now>>

SpawnAccept(l) == /\ pc = "serving"
                  /\ loop[l] = "bound"
                  /\ loop' = [loop EXCEPT ![l] = "select"]
                  /\ guards' = guards \cup {l}
                  /\ UNCHANGED <<runVars, wait, taskVars, sockets, now>>

(***************************************************************************)
(* run_inner, from the shutdown signal on.                                 *)
(***************************************************************************)

Shutdown == /\ pc = "serving"
            /\ Unspawned = {}
            /\ pc' = "joinAccept"
            /\ deadline' = now + Grace
            /\ UNCHANGED <<closed, loopVars, taskVars, sockets, guards, now>>

\* Mutant: the drain starts without waiting for the accept loops.
JoinAcceptEarly == /\ pc = "joinAccept"
                   /\ pc' = "joinPoller"
                   /\ UNCHANGED <<deadline, closed, loopVars, taskVars, sockets, guards, now>>

JoinAccept == /\ pc = "joinAccept"
              /\ \A l \in Listeners : loop[l] = "exited"
              /\ pc' = "joinPoller"
              /\ UNCHANGED <<deadline, closed, loopVars, taskVars, sockets, guards, now>>

\* The poller's handle is joined and the primary Lifecycle dropped.
JoinPoller == /\ pc = "joinPoller"
              /\ Poller \notin sockets
              /\ pc' = "draining"
              /\ guards' = guards \ {Main}
              /\ UNCHANGED <<deadline, closed, loopVars, taskVars, sockets, now>>

\* conn_rx.recv() yields None: every sender is gone.
Drained == /\ pc = "draining"
           /\ guards = {}
           /\ pc' = "returned"
           /\ closed' = TRUE
           /\ UNCHANGED <<deadline, loopVars, taskVars, sockets, guards, now>>

\* The caller drops run()'s future at one of its awaits.
DropRun == /\ pc \in {"warming", "binding", "serving", "joinAccept", "joinPoller", "draining"}
           /\ pc = "serving" => Unspawned = {}
           /\ pc' = "dropped"
           /\ DropLocals
           /\ UNCHANGED <<deadline, wait, taskVars, now>>

(***************************************************************************)
(* accept_loop.  The select is biased: the deadline is looked at first and *)
(* the listener only after it, so an accept can still follow a signal that *)
(* arrives in between.                                                     *)
(***************************************************************************)

Check(l) == /\ loop[l] = "select"
            /\ ~Stop
            /\ loop' = [loop EXCEPT ![l] = "checked"]
            /\ UNCHANGED <<runVars, wait, taskVars, sockets, guards, now>>

\* A new task owns its resources and its guard from its first instant.
Born(t, k) == /\ task[t] = "idle"
              /\ task' = [task EXCEPT ![t] = "live"]
              /\ kind' = [kind EXCEPT ![t] = k]
              /\ sockets' = sockets \cup {t}
              /\ guards' = guards \cup {t}
              /\ UNCHANGED <<end, runVars, wait, now>>

Accept(l, t) == /\ loop[l] = "checked"
                /\ loop' = [loop EXCEPT ![l] = "select"]
                /\ Born(t, "conn")

AcceptPending(l) == /\ loop[l] = "checked"
                    /\ loop' = [loop EXCEPT ![l] = "select"]
                    /\ UNCHANGED <<runVars, wait, taskVars, sockets, guards, now>>

AcceptError(l) == /\ loop[l] = "checked"
                  /\ loop' = [loop EXCEPT ![l] = "backoff"]
                  /\ wait' = [wait EXCEPT ![l] = Backoff]
                  /\ UNCHANGED <<runVars, taskVars, sockets, guards, now>>

\* The pause is a plain sleep: a shutdown signal does not cut it short.
Resume(l) == /\ loop[l] = "backoff"
             /\ wait[l] = 0
             /\ loop' = [loop EXCEPT ![l] = "select"]
             /\ UNCHANGED <<runVars, wait, taskVars, sockets, guards, now>>

\* The loop returns.  Its parameters go in reverse order: the Lifecycle, and
\* with it the guard, before the listener.
Leave(l) == /\ loop[l] = "select"
            /\ Stop
            /\ loop' = [loop EXCEPT ![l] = "leaving"]
            /\ guards' = guards \ {l}
            /\ UNCHANGED <<runVars, wait, taskVars, sockets, now>>

CloseListener(l) == /\ loop[l] = "leaving"
                    /\ loop' = [loop EXCEPT ![l] = "exited"]
                    /\ sockets' = sockets \ {l}
                    /\ UNCHANGED <<runVars, wait, taskVars, guards, now>>

(***************************************************************************)
(* Connections, HTTP/2 requests and relays.                                *)
(***************************************************************************)

\* Hyper hands a request of a live HTTP/2 connection to the executor.
SpawnRequest(p, t) == /\ task[p] = "live"
                      /\ kind[p] = "conn"
                      /\ Born(t, "request")
                      /\ UNCHANGED loop

\* Mutant: the relay is spawned without a Lifecycle.
SpawnRelayUntracked(p, t) == /\ task[p] = "live"
                             /\ kind[p] # "relay"
                             /\ task[t] = "idle"
                             /\ task' = [task EXCEPT ![t] = "live"]
                             /\ kind' = [kind EXCEPT ![t] = "relay"]
                             /\ sockets' = sockets \cup {t}
                             /\ UNCHANGED <<end, runVars, loopVars, guards, now>>

\* A handshake that succeeded detaches its relay: from the connection for an
\* HTTP/1.1 upgrade, from the request for an HTTP/2 extended CONNECT.
SpawnRelay(p, t) == /\ task[p] = "live"
                    /\ kind[p] # "relay"
                    /\ Born(t, "relay")
                    /\ UNCHANGED loop

\* Mutant: the grace period is counted from the task's own wake-up.
ObserveStopFreshGrace(t) ==
    /\ task[t] = "live" /\ end[t] = NoTime /\ Stop
    /\ end' = [end EXCEPT ![t] = now + Grace]
    /\ UNCHANGED <<runVars, loopVars, task, kind, sockets, guards, now>>

\* Mutant: a relay waits for a change it has already missed.
ObserveStopMissed(t) ==
    /\ task[t] = "live" /\ end[t] = NoTime /\ Stop
    /\ kind[t] # "relay"
    /\ end' = [end EXCEPT ![t] = IF deadline # NoTime THEN deadline ELSE now]
    /\ UNCHANGED <<runVars, loopVars, task, kind, sockets, guards, now>>

\* Mutant: a closed channel without a value leaves the task waiting.
ObserveStopNotClosed(t) ==
    /\ task[t] = "live" /\ end[t] = NoTime /\ deadline # NoTime
    /\ end' = [end EXCEPT ![t] = deadline]
    /\ UNCHANGED <<runVars, loopVars, task, kind, sockets, guards, now>>

\* deadline() resolves: to the shared instant, or to now if the channel closed
\* without one.  The task keeps running up to that instant.
ObserveStop(t) ==
    /\ task[t] = "live" /\ end[t] = NoTime /\ Stop
    /\ end' = [end EXCEPT ![t] = IF deadline # NoTime THEN deadline ELSE now]
    /\ UNCHANGED <<runVars, loopVars, task, kind, sockets, guards, now>>

\* The future is over, by itself or because its time is up, and is dropped
\* with everything it owns while the guard is still held.
Over(t, how) == /\ task[t] = "live"
                /\ task' = [task EXCEPT ![t] = how]
                /\ sockets' = sockets \ {t}
                /\ UNCHANGED <<runVars, loopVars, kind, end, guards, now>>

Finish(t) == Over(t, "completed")

\* Mutant: the task is dropped as soon as it learns of the shutdown.
CancelAtOnce(t) == end[t] # NoTime /\ Over(t, "cancelled")

Cancel(t) == /\ end[t] # NoTime
             /\ now >= end[t]
             /\ Over(t, "cancelled")

Release(t) == /\ task[t] \in {"completed", "cancelled"}
              /\ t \in guards
              /\ guards' = guards \ {t}
              /\ UNCHANGED <<runVars, loopVars, taskVars, sockets, now>>

\* poll_loop sees the deadline: it drops the poll in flight and returns.
PollerExit == /\ Poller \in sockets
              /\ Stop
              /\ sockets' = sockets \ {Poller}
              /\ UNCHANGED <<runVars, loopVars, taskVars, guards, now>>

(***************************************************************************)
(* Time.                                                                   *)
(***************************************************************************)

\* Some step the runtime owes is ready to run.
Due ==
    \/ \E l \in Listeners : \/ loop[l] \in {"checked", "leaving"}
                            \/ loop[l] = "select" /\ Stop
                            \/ loop[l] = "backoff" /\ wait[l] = 0
    \/ \E t \in Tasks : \/ task[t] = "live" /\ end[t] = NoTime /\ Stop
                        \/ task[t] = "live" /\ end[t] # NoTime /\ now >= end[t]
                        \/ task[t] \in {"completed", "cancelled"} /\ t \in guards
    \/ Poller \in sockets /\ Stop
    \/ pc = "joinAccept" /\ \A l \in Listeners : loop[l] = "exited"
    \/ pc = "joinPoller" /\ Poller \notin sockets
    \/ pc = "draining" /\ guards = {}

\* Something is waiting for time to pass.
Waiting == \/ \E l \in Listeners : loop[l] = "backoff"
           \/ \E t \in Tasks : task[t] = "live" /\ end[t] # NoTime

Tick == /\ Waiting
        /\ ~Due
        /\ wait' = [l \in Listeners |-> IF wait[l] > 0 THEN wait[l] - 1 ELSE 0]
        /\ now' = IF Stop THEN now + 1 ELSE now
        /\ UNCHANGED <<runVars, loop, taskVars, sockets, guards>>

Ended == pc \in {"returned", "failed", "dropped"} /\ sockets = {} /\ guards = {}

\* The process has nothing left to do.
Stutter == Ended /\ UNCHANGED vars

(***************************************************************************)
(* The specification.  Peers and clients owe nothing: an accept, a spawn   *)
(* and a task that ends by itself may never happen.  The runtime polls     *)
(* every task that is ready, and time passes.                              *)
(***************************************************************************)

RunStep == Warm \/ NewLifecycle \/ JoinAccept \/ JoinPoller \/ Drained
LoopStep(l) == AcceptPending(l) \/ Resume(l) \/ Leave(l) \/ CloseListener(l)
TaskStep(t) == ObserveStop(t) \/ Cancel(t) \/ Release(t)

Spawn(p, t) == SpawnRequest(p, t) \/ SpawnRelay(p, t)

Next ==
    \/ RunStep
    \/ BindFail \/ Shutdown \/ DropRun
    \/ \E l \in Listeners : \/ Bind(l) \/ SpawnAccept(l)
                            \/ Check(l) \/ AcceptError(l) \/ LoopStep(l)
                            \/ \E t \in Tasks : Accept(l, t)
    \/ \E t \in Tasks : \/ TaskStep(t) \/ Finish(t)
                        \/ \E p \in Tasks : Spawn(p, t)
    \/ PollerExit \/ Tick \/ Stutter

Fairness == /\ WF_vars(RunStep)
            /\ \A l \in Listeners : WF_vars(LoopStep(l)) /\ WF_vars(SpawnAccept(l))
            /\ \A t \in Tasks : WF_vars(TaskStep(t))
            /\ WF_vars(PollerExit)
            /\ WF_vars(Tick)

Spec == Init /\ [][Next]_vars /\ Fairness

(***************************************************************************)
(* Properties.                                                             *)
(***************************************************************************)

\* run() returns only after every listener, connection, request, relay and
\* the poller has released what it held, with no timeout on that barrier
\* (lib.rs 232-249): the guards alone do not cover listeners and poller, the
\* joins alone do not cover detached relays.
ReturnReleasesAll == pc = "returned" => sockets = {}

\* After the signal a task is cut at the one shared deadline, never earlier
\* and never later, however late it was spawned or woken (lifecycle.rs 36-48,
\* lib.rs 319-325).
CutAtSharedDeadline ==
    [][\A t \in Tasks :
         task[t] = "live" /\ task'[t] = "cancelled" /\ deadline # NoTime
             => now = deadline]_vars

\* The longest the code can wait after the signal.
Bound == IF Grace > Backoff THEN Grace ELSE Backoff

\* run() does not outstay its deadline: past it no task holds a resource or a
\* guard, and the only wait that can exceed the grace period is an accept
\* loop's pause (lib.rs 229-249 and 269-274).
ReturnsInTime ==
    /\ now <= Bound
    /\ deadline # NoTime /\ now > deadline => Tasks \cap (sockets \cup guards) = {}

\* Once signalled, run() returns unless its caller drops it: no guard leaks,
\* no task misses the signal, and dropping the primary Lifecycle before the
\* wait keeps run_inner from waiting for itself (lib.rs 226-249).
ShutdownReturns == (deadline # NoTime) ~> (pc \in {"returned", "dropped"})

\* A run() that failed to bind or was dropped leaves nothing behind: the
\* poller and every detached task see the closed channel (lifecycle.rs 9-16).
AbandonedEnds == closed ~> (sockets = {} /\ guards = {})

(***************************************************************************)
(* The inductive invariant behind the three safety properties.             *)
(***************************************************************************)

Accepting == {"select", "checked", "backoff"}

\* Who owns what, and who vouches for it with a guard.
Ownership ==
    /\ \A t \in Tasks : /\ t \in sockets <=> task[t] = "live"
                        /\ task[t] = "live" => t \in guards
                        /\ task[t] = "idle" => t \notin guards
    /\ \A l \in Listeners : /\ l \in sockets <=> loop[l] \notin {"unbound", "exited"}
                            /\ loop[l] \in Accepting => l \in guards

\* What each stage of run_inner has behind it.
Stages ==
    /\ pc = "warming" => \A l \in Listeners : loop[l] = "unbound"
    /\ pc \in {"warming", "binding"} =>
           /\ \A l \in Listeners : loop[l] \in {"unbound", "bound"}
           /\ \A t \in Tasks : task[t] = "idle"
    /\ pc \in {"warming", "binding", "serving"} =>
           ~closed /\ deadline = NoTime
    /\ pc \in {"joinAccept", "joinPoller", "draining"} => deadline # NoTime
    /\ pc \in {"joinPoller", "draining", "returned"} =>
           \A l \in Listeners : loop[l] = "exited"
    /\ pc \in {"warming", "draining", "returned"} => Poller \notin sockets
    /\ pc = "returned" => guards = {}

\* Every clock reading agrees with the one deadline.
Clocks ==
    /\ ~Stop => now = 0 /\ \A t \in Tasks : end[t] = NoTime
    /\ deadline # NoTime =>
           /\ deadline = Grace
           /\ \A t \in Tasks : /\ end[t] \in {NoTime, deadline}
                               /\ t \in guards => now <= deadline
    /\ closed /\ deadline = NoTime =>
           \A t \in Tasks : end[t] # NoTime => end[t] <= now
    /\ now <= Bound
    /\ \A l \in Listeners : /\ loop[l] = "checked" => now = 0
                            /\ loop[l] = "backoff" => now + wait[l] <= Bound

\* Resources are owned under a guard, stages are passed in order and time is
\* read from one clock: what the code's ordering of drops, joins and reads of
\* the watch channel establishes (lib.rs 198-249, lifecycle.rs 36-48).
IInv == TypeOK /\ Ownership /\ Stages /\ Clocks

\* The abstract barrier this module implements.
BarrierPhase ==
    CASE pc \in {"warming", "binding", "serving"} -> "open"
      [] pc \in {"joinAccept", "joinPoller", "draining"} -> "closing"
      [] pc = "returned" -> "closed"
      [] pc \in {"failed", "dropped"} -> "abandoned"

Barrier == INSTANCE DrainBarrier WITH Work <- Holders, phase <- BarrierPhase, work <- sockets

\* Shutdown implements the drain barrier: late work is only handed over by
\* work that exists, run() closes on no work, and nothing starts afterwards.
ImplementsBarrier == Barrier!Spec
=============================================================================
