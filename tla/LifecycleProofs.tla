--------------------------- MODULE LifecycleProofs ---------------------------
(***************************************************************************)
(* Proofs about Lifecycle, for any listeners, any number of tasks, and any *)
(* grace period and pause.  IInv is inductive (StepInv); the three safety  *)
(* properties and the refinement of the drain barrier follow from it.      *)
(***************************************************************************)
EXTENDS Lifecycle, TLAPS

USE ListenersAssumption, GraceAssumption, HoldersAssumption
USE DEF Holders, Kinds, runVars, loopVars, taskVars

\* The state run() starts in owns nothing and has read no deadline.
LEMMA InitInv == Init => IInv
<1> SUFFICES ASSUME Init PROVE IInv
  OBVIOUS
<1>1. TypeOK  BY DEF Init, TypeOK
<1>2. Ownership  BY DEF Init, Ownership, Accepting
<1>3. Stages  BY DEF Init, Stages
<1>4. Clocks  BY DEF Init, Clocks, Stop, Bound
<1> QED  BY <1>1, <1>2, <1>3, <1>4 DEF IInv

\* Every step of run(), of an accept loop or of a task keeps the invariant.
LEMMA StepInv == IInv /\ [Next]_vars => IInv'
<1> SUFFICES ASSUME TypeOK, Ownership, Stages, Clocks, [Next]_vars PROVE IInv'
  BY DEF IInv
<1>1. ASSUME Warm PROVE IInv'
  <2>1. TypeOK'  BY <1>1 DEF TypeOK, Warm
  <2>2. Ownership'  BY <1>1 DEF TypeOK, Ownership, Stages, Accepting, Warm
  <2>3. Stages'  BY <1>1 DEF TypeOK, Ownership, Stages, Stop, Warm
  <2>4. Clocks'  BY <1>1 DEF TypeOK, Ownership, Stages, Clocks, Stop, Bound, Warm
  <2> QED  BY <2>1, <2>2, <2>3, <2>4 DEF IInv
<1>2. ASSUME BindFail PROVE IInv'
  <2>1. TypeOK'  BY <1>2 DEF TypeOK, BindFail, DropLocals, Unspawned
  <2>2. Ownership'  BY <1>2 DEF TypeOK, Ownership, Stages, Accepting, BindFail, DropLocals, Unspawned
  <2>3. Stages'  BY <1>2 DEF TypeOK, Ownership, Stages, Stop, BindFail, DropLocals, Unspawned
  <2>4. Clocks'  BY <1>2 DEF TypeOK, Ownership, Stages, Clocks, Stop, Bound, BindFail, DropLocals, Unspawned
  <2> QED  BY <2>1, <2>2, <2>3, <2>4 DEF IInv
<1>3. ASSUME NewLifecycle PROVE IInv'
  <2>1. TypeOK'  BY <1>3 DEF TypeOK, NewLifecycle
  <2>2. Ownership'  BY <1>3 DEF TypeOK, Ownership, Stages, Accepting, NewLifecycle
  <2>3. Stages'  BY <1>3 DEF TypeOK, Ownership, Stages, Stop, NewLifecycle
  <2>4. Clocks'  BY <1>3 DEF TypeOK, Ownership, Stages, Clocks, Stop, Bound, NewLifecycle
  <2> QED  BY <2>1, <2>2, <2>3, <2>4 DEF IInv
<1>4. ASSUME Shutdown PROVE IInv'
  <2>1. TypeOK'  BY <1>4 DEF TypeOK, Shutdown, Unspawned
  <2>2. Ownership'  BY <1>4 DEF TypeOK, Ownership, Stages, Accepting, Shutdown, Unspawned
  <2>3. Stages'  BY <1>4 DEF TypeOK, Ownership, Stages, Stop, Shutdown, Unspawned
  <2>4. Clocks'  BY <1>4 DEF TypeOK, Ownership, Stages, Clocks, Stop, Bound, Shutdown, Unspawned
  <2> QED  BY <2>1, <2>2, <2>3, <2>4 DEF IInv
<1>5. ASSUME JoinAccept PROVE IInv'
  <2>1. TypeOK'  BY <1>5 DEF TypeOK, JoinAccept
  <2>2. Ownership'  BY <1>5 DEF TypeOK, Ownership, Stages, Accepting, JoinAccept
  <2>3. Stages'  BY <1>5 DEF TypeOK, Ownership, Stages, Stop, JoinAccept
  <2>4. Clocks'  BY <1>5 DEF TypeOK, Ownership, Stages, Clocks, Stop, Bound, JoinAccept
  <2> QED  BY <2>1, <2>2, <2>3, <2>4 DEF IInv
<1>6. ASSUME JoinPoller PROVE IInv'
  <2>1. TypeOK'  BY <1>6 DEF TypeOK, JoinPoller
  <2>2. Ownership'  BY <1>6 DEF TypeOK, Ownership, Stages, Accepting, JoinPoller
  <2>3. Stages'  BY <1>6 DEF TypeOK, Ownership, Stages, Stop, JoinPoller
  <2>4. Clocks'  BY <1>6 DEF TypeOK, Ownership, Stages, Clocks, Stop, Bound, JoinPoller
  <2> QED  BY <2>1, <2>2, <2>3, <2>4 DEF IInv
<1>7. ASSUME Drained PROVE IInv'
  <2>1. TypeOK'  BY <1>7 DEF TypeOK, Drained
  <2>2. Ownership'  BY <1>7 DEF TypeOK, Ownership, Stages, Accepting, Drained
  <2>3. Stages'  BY <1>7 DEF TypeOK, Ownership, Stages, Stop, Drained
  <2>4. Clocks'  BY <1>7 DEF TypeOK, Ownership, Stages, Clocks, Stop, Bound, Drained
  <2> QED  BY <2>1, <2>2, <2>3, <2>4 DEF IInv
<1>8. ASSUME DropRun PROVE IInv'
  <2>1. TypeOK'  BY <1>8 DEF TypeOK, DropRun, DropLocals, Unspawned
  <2>2. Ownership'  BY <1>8 DEF TypeOK, Ownership, Stages, Accepting, DropRun, DropLocals, Unspawned
  <2>3. Stages'  BY <1>8 DEF TypeOK, Ownership, Stages, Stop, DropRun, DropLocals, Unspawned
  <2>4. Clocks'  BY <1>8 DEF TypeOK, Ownership, Stages, Clocks, Stop, Bound, DropRun, DropLocals, Unspawned
  <2> QED  BY <2>1, <2>2, <2>3, <2>4 DEF IInv
<1>9. ASSUME NEW l \in Listeners, Bind(l) PROVE IInv'
  <2>1. TypeOK'  BY <1>9 DEF TypeOK, Bind
  <2>2. Ownership'  BY <1>9 DEF TypeOK, Ownership, Stages, Accepting, Bind
  <2>3. Stages'  BY <1>9 DEF TypeOK, Ownership, Stages, Stop, Bind
  <2>4. Clocks'  BY <1>9 DEF TypeOK, Ownership, Stages, Clocks, Stop, Bound, Bind
  <2> QED  BY <2>1, <2>2, <2>3, <2>4 DEF IInv
<1>10. ASSUME NEW l \in Listeners, SpawnAccept(l) PROVE IInv'
  <2>1. TypeOK'  BY <1>10 DEF TypeOK, SpawnAccept
  <2>2. Ownership'  BY <1>10 DEF TypeOK, Ownership, Stages, Accepting, SpawnAccept
  <2>3. Stages'  BY <1>10 DEF TypeOK, Ownership, Stages, Stop, SpawnAccept
  <2>4. Clocks'  BY <1>10 DEF TypeOK, Ownership, Stages, Clocks, Stop, Bound, SpawnAccept
  <2> QED  BY <2>1, <2>2, <2>3, <2>4 DEF IInv
<1>11. ASSUME NEW l \in Listeners, Check(l) PROVE IInv'
  <2>1. TypeOK'  BY <1>11 DEF TypeOK, Check
  <2>2. Ownership'  BY <1>11 DEF TypeOK, Ownership, Stages, Accepting, Check
  <2>3. Stages'  BY <1>11 DEF TypeOK, Ownership, Stages, Stop, Check
  <2>4. Clocks'  BY <1>11 DEF TypeOK, Ownership, Stages, Clocks, Stop, Bound, Check
  <2> QED  BY <2>1, <2>2, <2>3, <2>4 DEF IInv
<1>12. ASSUME NEW l \in Listeners, AcceptPending(l) PROVE IInv'
  <2>1. TypeOK'  BY <1>12 DEF TypeOK, AcceptPending
  <2>2. Ownership'  BY <1>12 DEF TypeOK, Ownership, Stages, Accepting, AcceptPending
  <2>3. Stages'  BY <1>12 DEF TypeOK, Ownership, Stages, Stop, AcceptPending
  <2>4. Clocks'  BY <1>12 DEF TypeOK, Ownership, Stages, Clocks, Stop, Bound, AcceptPending
  <2> QED  BY <2>1, <2>2, <2>3, <2>4 DEF IInv
<1>13. ASSUME NEW l \in Listeners, AcceptError(l) PROVE IInv'
  <2>1. TypeOK'  BY <1>13 DEF TypeOK, AcceptError
  <2>2. Ownership'  BY <1>13 DEF TypeOK, Ownership, Stages, Accepting, AcceptError
  <2>3. Stages'  BY <1>13 DEF TypeOK, Ownership, Stages, Stop, AcceptError
  <2>4. Clocks'  BY <1>13 DEF TypeOK, Ownership, Stages, Clocks, Stop, Bound, AcceptError
  <2> QED  BY <2>1, <2>2, <2>3, <2>4 DEF IInv
<1>14. ASSUME NEW l \in Listeners, Resume(l) PROVE IInv'
  <2>1. TypeOK'  BY <1>14 DEF TypeOK, Resume
  <2>2. Ownership'  BY <1>14 DEF TypeOK, Ownership, Stages, Accepting, Resume
  <2>3. Stages'  BY <1>14 DEF TypeOK, Ownership, Stages, Stop, Resume
  <2>4. Clocks'  BY <1>14 DEF TypeOK, Ownership, Stages, Clocks, Stop, Bound, Resume
  <2> QED  BY <2>1, <2>2, <2>3, <2>4 DEF IInv
<1>15. ASSUME NEW l \in Listeners, Leave(l) PROVE IInv'
  <2>1. TypeOK'  BY <1>15 DEF TypeOK, Leave
  <2>2. Ownership'  BY <1>15 DEF TypeOK, Ownership, Stages, Accepting, Leave
  <2>3. Stages'  BY <1>15 DEF TypeOK, Ownership, Stages, Stop, Leave
  <2>4. Clocks'  BY <1>15 DEF TypeOK, Ownership, Stages, Clocks, Stop, Bound, Leave
  <2> QED  BY <2>1, <2>2, <2>3, <2>4 DEF IInv
<1>16. ASSUME NEW l \in Listeners, CloseListener(l) PROVE IInv'
  <2>1. TypeOK'  BY <1>16 DEF TypeOK, CloseListener
  <2>2. Ownership'  BY <1>16 DEF TypeOK, Ownership, Stages, Accepting, CloseListener
  <2>3. Stages'  BY <1>16 DEF TypeOK, Ownership, Stages, Stop, CloseListener
  <2>4. Clocks'  BY <1>16 DEF TypeOK, Ownership, Stages, Clocks, Stop, Bound, CloseListener
  <2> QED  BY <2>1, <2>2, <2>3, <2>4 DEF IInv
<1>17. ASSUME NEW l \in Listeners, NEW t \in Tasks, Accept(l, t) PROVE IInv'
  <2>1. TypeOK'  BY <1>17 DEF TypeOK, Accept, Born
  <2>2. Ownership'  BY <1>17 DEF TypeOK, Ownership, Stages, Accepting, Accept, Born
  <2>3. Stages'  BY <1>17 DEF TypeOK, Ownership, Stages, Stop, Accept, Born
  <2>4. Clocks'  BY <1>17 DEF TypeOK, Ownership, Stages, Clocks, Stop, Bound, Accept, Born
  <2> QED  BY <2>1, <2>2, <2>3, <2>4 DEF IInv
<1>18. ASSUME NEW p \in Tasks, NEW t \in Tasks, SpawnRequest(p, t) PROVE IInv'
  <2>1. TypeOK'  BY <1>18 DEF TypeOK, SpawnRequest, Born
  <2>2. Ownership'  BY <1>18 DEF TypeOK, Ownership, Stages, Accepting, SpawnRequest, Born
  <2>3. Stages'  BY <1>18 DEF TypeOK, Ownership, Stages, Stop, SpawnRequest, Born
  <2>4. Clocks'  BY <1>18 DEF TypeOK, Ownership, Stages, Clocks, Stop, Bound, SpawnRequest, Born
  <2> QED  BY <2>1, <2>2, <2>3, <2>4 DEF IInv
<1>19. ASSUME NEW p \in Tasks, NEW t \in Tasks, SpawnRelay(p, t) PROVE IInv'
  <2>1. TypeOK'  BY <1>19 DEF TypeOK, SpawnRelay, Born
  <2>2. Ownership'  BY <1>19 DEF TypeOK, Ownership, Stages, Accepting, SpawnRelay, Born
  <2>3. Stages'  BY <1>19 DEF TypeOK, Ownership, Stages, Stop, SpawnRelay, Born
  <2>4. Clocks'  BY <1>19 DEF TypeOK, Ownership, Stages, Clocks, Stop, Bound, SpawnRelay, Born
  <2> QED  BY <2>1, <2>2, <2>3, <2>4 DEF IInv
<1>20. ASSUME NEW t \in Tasks, ObserveStop(t) PROVE IInv'
  <2>1. TypeOK'  BY <1>20 DEF TypeOK, ObserveStop
  <2>2. Ownership'  BY <1>20 DEF TypeOK, Ownership, Stages, Accepting, ObserveStop
  <2>3. Stages'  BY <1>20 DEF TypeOK, Ownership, Stages, Stop, ObserveStop
  <2>4. Clocks'  BY <1>20 DEF TypeOK, Ownership, Stages, Clocks, Stop, Bound, ObserveStop
  <2> QED  BY <2>1, <2>2, <2>3, <2>4 DEF IInv
<1>21. ASSUME NEW t \in Tasks, Finish(t) PROVE IInv'
  <2>1. TypeOK'  BY <1>21 DEF TypeOK, Finish, Over
  <2>2. Ownership'  BY <1>21 DEF TypeOK, Ownership, Stages, Accepting, Finish, Over
  <2>3. Stages'  BY <1>21 DEF TypeOK, Ownership, Stages, Stop, Finish, Over
  <2>4. Clocks'  BY <1>21 DEF TypeOK, Ownership, Stages, Clocks, Stop, Bound, Finish, Over
  <2> QED  BY <2>1, <2>2, <2>3, <2>4 DEF IInv
<1>22. ASSUME NEW t \in Tasks, Cancel(t) PROVE IInv'
  <2>1. TypeOK'  BY <1>22 DEF TypeOK, Cancel, Over
  <2>2. Ownership'  BY <1>22 DEF TypeOK, Ownership, Stages, Accepting, Cancel, Over
  <2>3. Stages'  BY <1>22 DEF TypeOK, Ownership, Stages, Stop, Cancel, Over
  <2>4. Clocks'  BY <1>22 DEF TypeOK, Ownership, Stages, Clocks, Stop, Bound, Cancel, Over
  <2> QED  BY <2>1, <2>2, <2>3, <2>4 DEF IInv
<1>23. ASSUME NEW t \in Tasks, Release(t) PROVE IInv'
  <2>1. TypeOK'  BY <1>23 DEF TypeOK, Release
  <2>2. Ownership'  BY <1>23 DEF TypeOK, Ownership, Stages, Accepting, Release
  <2>3. Stages'  BY <1>23 DEF TypeOK, Ownership, Stages, Stop, Release
  <2>4. Clocks'  BY <1>23 DEF TypeOK, Ownership, Stages, Clocks, Stop, Bound, Release
  <2> QED  BY <2>1, <2>2, <2>3, <2>4 DEF IInv
<1>24. ASSUME PollerExit PROVE IInv'
  <2>1. TypeOK'  BY <1>24 DEF TypeOK, PollerExit
  <2>2. Ownership'  BY <1>24 DEF TypeOK, Ownership, Stages, Accepting, PollerExit
  <2>3. Stages'  BY <1>24 DEF TypeOK, Ownership, Stages, Stop, PollerExit
  <2>4. Clocks'  BY <1>24 DEF TypeOK, Ownership, Stages, Clocks, Stop, Bound, PollerExit
  <2> QED  BY <2>1, <2>2, <2>3, <2>4 DEF IInv
<1>25. ASSUME Tick PROVE IInv'
  <2>1. TypeOK'  BY <1>25 DEF TypeOK, Tick, Due, Waiting
  <2>2. Ownership'  BY <1>25 DEF TypeOK, Ownership, Stages, Accepting, Tick, Due, Waiting
  <2>3. Stages'  BY <1>25 DEF TypeOK, Ownership, Stages, Stop, Tick, Due, Waiting
  <2>4. Clocks'  BY <1>25 DEF TypeOK, Ownership, Stages, Clocks, Stop, Bound, Tick, Due, Waiting
  <2> QED  BY <2>1, <2>2, <2>3, <2>4 DEF IInv
<1>26. ASSUME UNCHANGED vars PROVE IInv'
  BY <1>26 DEF IInv, TypeOK, Ownership, Stages, Clocks, Stop, Accepting, Bound, vars
<1> QED
  BY <1>1, <1>2, <1>3, <1>4, <1>5, <1>6, <1>7, <1>8, <1>9, <1>10, <1>11, <1>12, <1>13, <1>14, <1>15, <1>16, <1>17, <1>18, <1>19, <1>20, <1>21, <1>22, <1>23, <1>24, <1>25, <1>26
  DEF Next, RunStep, LoopStep, TaskStep, Spawn, Stutter

\* The types, the ownership of resources and guards, the stages of run_inner
\* and the agreement of the clocks hold in every state of every run.
THEOREM Invariant == Spec => []IInv
<1>1. Spec => Init /\ [][Next]_vars  BY DEF Spec
<1> QED  BY <1>1, InitInv, StepInv, PTL

\* The variables have their types in every state of every run.
THEOREM TypeCorrect == Spec => []TypeOK
<1>1. IInv => TypeOK  BY DEF IInv
<1> QED  BY <1>1, Invariant, PTL

\* run() returns only when nothing it started holds a resource: the joins
\* cover listeners and poller, the empty guard set covers every task.
THEOREM ReturnReleases == Spec => []ReturnReleasesAll
<1>1. IInv => ReturnReleasesAll
  <2> SUFFICES ASSUME IInv, pc = "returned", NEW x \in sockets PROVE FALSE
    BY DEF ReturnReleasesAll
  <2>1. x # Poller  BY DEF IInv, Stages
  <2>2. x \notin Listeners  BY DEF IInv, Stages, Ownership
  <2>3. x \notin Tasks  BY DEF IInv, Stages, Ownership
  <2> QED  BY <2>1, <2>2, <2>3 DEF IInv, TypeOK
<1> QED  BY <1>1, Invariant, PTL

\* The clock never passes the larger of the grace period and the pause, and
\* past the deadline no task holds anything.
THEOREM InTime == Spec => []ReturnsInTime
<1>1. IInv => ReturnsInTime
  <2> SUFFICES ASSUME IInv PROVE ReturnsInTime
    OBVIOUS
  <2>1. now <= Bound  BY DEF IInv, Clocks
  <2>2. ASSUME deadline # NoTime, now > deadline, NEW t \in Tasks
        PROVE  t \notin sockets \cup guards
    BY <2>2 DEF IInv, TypeOK, Ownership, Clocks
  <2> QED  BY <2>1, <2>2 DEF ReturnsInTime
<1> QED  BY <1>1, Invariant, PTL

\* A task that is cut after the signal is cut at the shared deadline exactly.
THEOREM CutShared == Spec => CutAtSharedDeadline
<1> DEFINE Cut == \A t \in Tasks :
                    task[t] = "live" /\ task'[t] = "cancelled" /\ deadline # NoTime
                        => now = deadline
<1>1. IInv /\ [Next]_vars => [Cut]_vars
  <2> SUFFICES ASSUME IInv, Next, NEW u \in Tasks,
                      task[u] = "live", task'[u] = "cancelled", deadline # NoTime
               PROVE  now = deadline
    BY DEF Cut
  <2>1. task'[u] # task[u]  OBVIOUS
  <2>2. ASSUME NEW t \in Tasks, Cancel(t) PROVE now = deadline
    <3>1. u = t  BY <2>1, <2>2 DEF Cancel, Over, IInv, TypeOK
    <3>2. end[u] = deadline /\ now >= end[u]
      BY <2>2, <3>1 DEF Cancel, IInv, Clocks
    <3>3. now <= deadline  BY DEF IInv, Clocks, Ownership
    <3> QED  BY <3>2, <3>3 DEF IInv, TypeOK
  <2>3. ASSUME NEW t \in Tasks, NEW k \in Kinds, Born(t, k) PROVE FALSE
    BY <2>3 DEF Born, IInv, TypeOK
  <2>4. ASSUME NEW t \in Tasks, Finish(t) PROVE FALSE
    BY <2>4 DEF Finish, Over, IInv, TypeOK
  <2>5. ASSUME task' = task PROVE FALSE
    BY <2>1, <2>5
  <2> QED
    BY <2>2, <2>3, <2>4, <2>5
    DEF Next, RunStep, LoopStep, TaskStep, Spawn, Stutter, vars, Warm, BindFail,
        NewLifecycle, Shutdown, JoinAccept, JoinPoller, Drained, DropRun, Bind,
        SpawnAccept, Check, AcceptPending, AcceptError, Resume, Leave, CloseListener,
        Accept, SpawnRequest, SpawnRelay, ObserveStop, Release, PollerExit, Tick
<1> QED  BY <1>1, Invariant, PTL DEF Spec, CutAtSharedDeadline, Cut

\* Each step of Lifecycle is a step of the drain barrier or leaves it alone.
\* What a task spawns, its parent still vouches for; what run() returns past
\* is released.
LEMMA StepBarrier == IInv /\ [Next]_vars => [Barrier!Next]_(Barrier!vars)
<1> SUFFICES ASSUME IInv, [Next]_vars PROVE [Barrier!Next]_(Barrier!vars)
  OBVIOUS
<1> USE DEF BarrierPhase, Barrier!vars, Barrier!Next
<1>1. ASSUME BarrierPhase' = BarrierPhase, sockets' = sockets PROVE [Barrier!Next]_(Barrier!vars)
  BY <1>1
<1>2. ASSUME NEW h \in Holders, h \notin sockets, sockets' = sockets \cup {h},
             BarrierPhase' = BarrierPhase, BarrierPhase # "closed",
             BarrierPhase = "open" \/ sockets # {}
      PROVE  Barrier!Next
  BY <1>2 DEF Barrier!Begin
<1>3. ASSUME NEW h \in sockets, sockets' = sockets \ {h}, BarrierPhase' = BarrierPhase
      PROVE  Barrier!Next
  BY <1>3 DEF Barrier!End, IInv, TypeOK
<1>4. ASSUME BindFail \/ DropRun PROVE Barrier!Abandon
  BY <1>4 DEF BindFail, DropRun, DropLocals, Barrier!Abandon
<1>5. ASSUME Shutdown PROVE Barrier!Close
  BY <1>5 DEF Shutdown, Barrier!Close
<1>6. ASSUME Drained PROVE Barrier!Finish
  <2>1. pc' = "returned" /\ guards = {} /\ sockets' = sockets /\ pc = "draining"
    BY <1>6 DEF Drained
  <2>2. sockets = {}
    BY <2>1 DEF IInv, TypeOK, Ownership, Stages
  <2> QED  BY <2>1, <2>2 DEF Barrier!Finish
<1>7. ASSUME Warm PROVE [Barrier!Next]_(Barrier!vars)
  <2>1. sockets = {}
    BY <1>7 DEF Warm, IInv, TypeOK, Ownership, Stages
  <2> QED  BY <1>1, <1>2, <1>7, <2>1 DEF Warm
<1>8. ASSUME NEW l \in Listeners, Bind(l) PROVE Barrier!Next
  BY <1>2, <1>8 DEF Bind, IInv, Ownership
<1>9. ASSUME NEW l \in Listeners, CloseListener(l) PROVE Barrier!Next
  BY <1>3, <1>9 DEF CloseListener, IInv, Ownership
<1>10. ASSUME NEW l \in Listeners, NEW t \in Tasks, Accept(l, t) PROVE Barrier!Next
  <2>1. l \in sockets /\ t \notin sockets /\ pc # "returned"
    BY <1>10 DEF Accept, Born, IInv, Ownership, Stages
  <2> QED  BY <1>2, <1>10, <2>1 DEF Accept, Born, IInv, TypeOK
<1>11. ASSUME NEW p \in Tasks, NEW t \in Tasks, Spawn(p, t) PROVE Barrier!Next
  <2>1. p \in sockets /\ t \notin sockets /\ pc # "returned"
    BY <1>11 DEF Spawn, SpawnRequest, SpawnRelay, Born, IInv, Ownership, Stages
  <2> QED  BY <1>2, <1>11, <2>1 DEF Spawn, SpawnRequest, SpawnRelay, Born, IInv, TypeOK
<1>12. ASSUME NEW t \in Tasks, Finish(t) \/ Cancel(t) PROVE Barrier!Next
  BY <1>3, <1>12 DEF Finish, Cancel, Over, IInv, Ownership
<1>13. ASSUME PollerExit PROVE Barrier!Next
  BY <1>3, <1>13 DEF PollerExit
<1>14. ASSUME JoinAccept \/ JoinPoller PROVE [Barrier!Next]_(Barrier!vars)
  BY <1>14 DEF JoinAccept, JoinPoller
<1> QED
  <2>1. ASSUME pc' = pc, sockets' = sockets PROVE [Barrier!Next]_(Barrier!vars)
    BY <2>1
  <2>2. NewLifecycle => [Barrier!Next]_(Barrier!vars)
    BY DEF NewLifecycle
  <2> QED
    BY <1>4, <1>5, <1>6, <1>7, <1>8, <1>9, <1>10, <1>11, <1>12, <1>13, <1>14, <2>1, <2>2
    DEF Next, RunStep, LoopStep, TaskStep, Stutter, vars, SpawnAccept, Check, AcceptPending,
        AcceptError, Resume, Leave, ObserveStop, Release, Tick

\* run() implements the drain barrier (its fairness is left to TLC).
THEOREM ImplementsSafety == Spec => Barrier!Safety
<1>1. Init => Barrier!Init
  BY DEF Init, BarrierPhase, Barrier!Init
<1> QED  BY <1>1, StepBarrier, Invariant, PTL DEF Spec, Barrier!Safety
=============================================================================
