------------------------- MODULE OtelRegistryProofs -------------------------
(***************************************************************************)
(* Proofs about OtelRegistry, for any tasks, protocols and values.         *)
(***************************************************************************)
EXTENDS OtelRegistry, FiniteSetTheorems, TLAPS

\* What the steps leave alone, and the sets that they range over.
USE DEF Threads, Keys, threads, maps, stats, run, vars, Calling, Call, Idle, Runs

Places == {"idle", "asked", "reading", "missed", "writing", "registered"}
CallSet == [at : Places, key : Keys, value : Int, handle : Nat]

(***************************************************************************)
(* Types, locks and the registry.                                          *)
(***************************************************************************)

\* A call moves on: only its place changes.
LEMMA AtStep ==
    ASSUME TypeOK, NEW t \in Threads, NEW where \in Places, At(t, where)
    PROVE  /\ call' \in [Threads -> CallSet]
           /\ call'[t].at = where /\ call'[t].key = call[t].key
           /\ call'[t].value = call[t].value /\ call'[t].handle = call[t].handle
           /\ \A u \in Threads : u # t => call'[u] = call[u]
<1>1. call[t] \in CallSet /\ call \in [Threads -> CallSet]
  BY DEF TypeOK, CallSet, Places
<1>2. call' = [call EXCEPT ![t] = [call[t] EXCEPT !.at = where]]
  BY DEF At
<1>3. [call[t] EXCEPT !.at = where] \in CallSet
  BY <1>1 DEF CallSet
<1>4. call'[t] = [call[t] EXCEPT !.at = where]
  BY <1>1, <1>2
<1> QED
  BY <1>1, <1>2, <1>3, <1>4 DEF CallSet

\* A call gets its handle.
LEMMA GotStep ==
    ASSUME TypeOK, NEW t \in Threads, NEW handle \in Nat, Got(t, handle)
    PROVE  /\ call' \in [Threads -> CallSet]
           /\ call'[t].at = "registered" /\ call'[t].key = call[t].key
           /\ call'[t].value = call[t].value /\ call'[t].handle = handle
           /\ \A u \in Threads : u # t => call'[u] = call[u]
<1>1. call[t] \in CallSet /\ call \in [Threads -> CallSet]
  BY DEF TypeOK, CallSet, Places
<1> DEFINE c == [[call[t] EXCEPT !.at = "registered"] EXCEPT !.handle = handle]
<1>2. call' = [call EXCEPT ![t] = c]
  BY <1>1 DEF Got, CallSet
<1>3. c \in CallSet
  BY <1>1 DEF CallSet, Places
<1>4. call'[t] = c
  BY <1>1, <1>2
<1> QED
  BY <1>1, <1>2, <1>3, <1>4 DEF CallSet

\* A key that is not registered is appended to what was built.
LEMMA Built ==
    ASSUME TypeOK, NEW k \in Keys, made' = Append(made, k)
    PROVE  /\ made' \in Seq(Keys) /\ Len(made) \in Nat
           /\ Len(made') = Len(made) + 1 /\ made'[Len(made) + 1] = k
           /\ \A i \in 1..Len(made) : made'[i] = made[i]
BY DEF TypeOK

\* What the steps of the registration have in common: the call goes on, for the
\* same key and value, and nothing is recorded.
Registering(t) == ReadLock(t) \/ Lookup(t) \/ WriteLock(t) \/ Register(t)

LEMMA RegisteringSteps ==
    ASSUME TypeOK, NEW t \in Threads, Registering(t)
    PROVE  /\ call' \in [Threads -> CallSet]
           /\ call[t].at # "idle" /\ call'[t].at # "idle"
           /\ call'[t].key = call[t].key /\ call'[t].value = call[t].value
           /\ \A u \in Threads : u # t => call'[u] = call[u]
           /\ made' \in Seq(Keys) /\ registry' \in [Keys -> Nat]
           /\ UNCHANGED <<protocol, pc, total, exported, stats, run>>
<1> DEFINE k == call[t].key
<1>1. k \in Keys /\ registry[k] \in Nat /\ made \in Seq(Keys) /\ registry \in [Keys -> Nat]
  BY DEF TypeOK
<1>2. CASE ReadLock(t)
  BY <1>1, <1>2, AtStep DEF ReadLock, Places
<1>3. CASE Lookup(t)
  <2>1. CASE registry[k] # 0
    BY <1>1, <1>3, <2>1, GotStep DEF Lookup
  <2>2. CASE registry[k] = 0
    BY <1>1, <1>3, <2>2, AtStep DEF Lookup, Places
  <2> QED
    BY <2>1, <2>2
<1>4. CASE WriteLock(t)
  BY <1>1, <1>4, AtStep DEF WriteLock, Places
<1>5. CASE Register(t)
  <2>1. CASE registry[k] # 0
    BY <1>1, <1>5, <2>1, GotStep DEF Register
  <2>2. CASE registry[k] = 0
    <3>1. /\ made' = Append(made, k) /\ Got(t, Len(made')) /\ call[t].at = "writing"
          /\ registry' = [registry EXCEPT ![k] = Len(made')]
          /\ UNCHANGED <<protocol, pc, total, exported, stats, run>>
      BY <1>5, <2>2 DEF Register
    <3>2. made' \in Seq(Keys) /\ Len(made') \in Nat
      BY <1>1, <3>1, Built
    <3> QED
      BY <1>1, <3>1, <3>2, GotStep
  <2> QED
    BY <2>1, <2>2
<1> QED
  BY <1>2, <1>3, <1>4, <1>5 DEF Registering

\* A look at the map ends with a handle or with the request for the write lock.
LEMMA LooksUp ==
    ASSUME TypeOK, NEW t \in Threads, Lookup(t) \/ Register(t)
    PROVE  call'[t].at \in {"missed", "registered"}
<1> DEFINE k == call[t].key
<1>1. k \in Keys /\ registry[k] \in Nat
  BY DEF TypeOK
<1>2. CASE registry[k] # 0
  BY <1>1, <1>2, GotStep DEF Lookup, Register
<1>3. CASE registry[k] = 0 /\ Lookup(t)
  BY <1>3, AtStep DEF Lookup, Places
<1>4. CASE registry[k] = 0 /\ Register(t)
  <2>1. made' = Append(made, k) /\ Got(t, Len(made'))
    BY <1>4 DEF Register
  <2> QED
    BY <1>1, <2>1, Built, GotStep
<1> QED
  BY <1>2, <1>3, <1>4

\* Where each variable lives.
LEMMA TypeInit == Init => TypeOK
<1> SUFFICES ASSUME Init PROVE TypeOK
  OBVIOUS
<1>1. call \in [Threads -> CallSet]
  BY DEF Init, CallSet, Places
<1>2. made \in Seq(Keys)
  BY DEF Init
<1>3. counted \in 0..MaxRequests /\ sets \in 0..MaxSets
  BY OtelAssumption DEF Init
<1> QED
  BY <1>1, <1>2, <1>3 DEF Init, TypeOK, CallSet, Places

\* Values stay in their sets: a handle that is given out is one that was
\* registered.
LEMMA TypeStep ==
    ASSUME TypeOK, Registered, [Next]_vars
    PROVE  TypeOK'
<1> USE OtelAssumption
<1>1. ASSUME NEW t \in Threads, Registering(t) PROVE TypeOK'
  BY <1>1, RegisteringSteps DEF TypeOK, CallSet, Places
<1>2. ASSUME NEW t \in Threads, Apply(t) PROVE TypeOK'
  <2>1. made[call[t].handle] \in Keys /\ call[t].value \in Int
    BY <1>2 DEF Apply, TypeOK, Registered
  <2>2. \A k \in Keys : Recorded(k, total[k], call[t].value) \in Int
    BY <2>1 DEF Recorded, TypeOK
  <2>3. total' \in [Keys -> Int]
    BY <1>2, <2>1, <2>2 DEF Apply, TypeOK
  <2>4. AfterCall(t) \in {"live", "dropped"}
    BY DEF AfterCall
  <2> QED
    BY <1>2, <2>3, <2>4 DEF Apply, TypeOK
<1>3. ASSUME NEW t \in Tasks, Begin(t) PROVE TypeOK'
  BY <1>3 DEF Begin, TypeOK
<1>4. ASSUME NEW t \in Tasks, Count(t) PROVE TypeOK'
  BY <1>4 DEF Count, TypeOK
<1>5. ASSUME NEW t \in Tasks, End(t) PROVE TypeOK'
  BY <1>5 DEF End, TypeOK
<1>6. ASSUME NEW t \in Tasks, Release(t) PROVE TypeOK'
  BY <1>6 DEF Release, TypeOK
<1>7. CASE SetPeers
  BY <1>7 DEF SetPeers, TypeOK
<1>8. CASE PollerExit
  BY <1>8 DEF PollerExit, TypeOK
<1>9. CASE Signal
  BY <1>9 DEF Signal, TypeOK
<1>10. CASE Flush
  BY <1>10 DEF Flush, TypeOK
<1>11. CASE UNCHANGED vars
  BY <1>11 DEF TypeOK
<1> QED
  BY <1>1, <1>2, <1>3, <1>4, <1>5, <1>6, <1>7, <1>8, <1>9, <1>10, <1>11
     DEF Next, Calls, Stutter, Registering

\* Steps outside the registration leave the maps alone, and no new caller is at a
\* lock or holds a handle.
Outside ==
    /\ UNCHANGED maps
    /\ \A t \in Threads : call'[t].at \in {"reading", "writing", "registered"} => call'[t] = call[t]

LEMMA OutsideSteps ==
    ASSUME TypeOK, [Next]_vars,
           ~\E t \in Threads : Registering(t)
    PROVE  Outside
<1> USE OtelAssumption
<1>1. ASSUME NEW t \in Threads, Apply(t) PROVE Outside
  BY <1>1 DEF Apply, Outside, TypeOK
<1>2. ASSUME NEW t \in Tasks, Begin(t) \/ Count(t) \/ End(t) \/ Release(t) PROVE Outside
  BY <1>2, SMTT(30) DEF Begin, Count, End, Release, Outside, TypeOK
<1>3. CASE SetPeers \/ PollerExit \/ Signal \/ Flush \/ UNCHANGED vars
  BY <1>3 DEF SetPeers, PollerExit, Signal, Flush, Outside, TypeOK
<1> QED
  BY <1>1, <1>2, <1>3 DEF Next, Calls, Stutter, Registering

\* A writer is alone.
LEMMA ExclusiveStep ==
    ASSUME TypeOK, Exclusive, [Next]_vars
    PROVE  Exclusive'
<1> USE OtelAssumption
<1>1. ASSUME NEW t \in Threads, Registering(t) PROVE Exclusive'
  <2>1. /\ call'[t].key = call[t].key
        /\ \A u \in Threads : u # t => call'[u] = call[u]
    BY <1>1, RegisteringSteps
  <2>2. \A u \in Threads : u # t /\ call[u].at = "writing" /\ call'[t].at \in {"reading", "writing"}
            => MapOf(call[u].key) # MapOf(call[t].key)
    <3>1. CASE ReadLock(t) \/ WriteLock(t)
      BY <3>1 DEF ReadLock, WriteLock, Holds
    <3>2. CASE Lookup(t) \/ Register(t)
      <4>1. call'[t].at \in {"missed", "registered"}
        BY <3>2, LooksUp
      <4> QED
        BY <4>1
    <3> QED
      BY <1>1, <3>1, <3>2 DEF Registering
  <2>3. \A u \in Threads : u # t /\ call'[t].at = "writing" /\ call[u].at \in {"reading", "writing"}
            => MapOf(call[u].key) # MapOf(call[t].key)
    <3>1. CASE WriteLock(t)
      BY <3>1 DEF WriteLock, Holds
    <3>2. CASE ~WriteLock(t)
      <4>1. call'[t].at # "writing"
        BY <1>1, <3>2, LooksUp, AtStep DEF Registering, ReadLock, Places
      <4> QED
        BY <4>1
    <3> QED
      BY <3>1, <3>2
  <2> QED
    BY <2>1, <2>2, <2>3 DEF Exclusive
<1>2. CASE ~\E t \in Threads : Registering(t)
  <2>1. Outside
    BY <1>2, OutsideSteps
  <2> QED
    BY <2>1 DEF Outside, Exclusive
<1> QED
  BY <1>1, <1>2

\* An instrument is registered once, and stays registered.
LEMMA RegisteredStep ==
    ASSUME TypeOK, Registered, [Next]_vars
    PROVE  Registered'
<1> USE OtelAssumption
<1>1. ASSUME NEW t \in Threads, ReadLock(t) \/ WriteLock(t) PROVE Registered'
  <2>1. /\ UNCHANGED maps /\ call'[t].at \in {"reading", "writing"}
        /\ \A u \in Threads : u # t => call'[u] = call[u]
    BY <1>1, AtStep DEF ReadLock, WriteLock, Places
  <2> QED
    BY <2>1 DEF Registered
<1>2. ASSUME NEW t \in Threads, Lookup(t) PROVE Registered'
  <2> DEFINE k == call[t].key
  <2>1. UNCHANGED maps /\ k \in Keys /\ registry[k] \in Nat
    BY <1>2 DEF Lookup, TypeOK
  <2>2. \A u \in Threads : u # t => call'[u] = call[u]
    BY <1>2, RegisteringSteps DEF Registering
  <2>3. call'[t].at = "registered" => call'[t].handle = registry[k] /\ call'[t].key = k /\ registry[k] # 0
    <3>1. CASE registry[k] # 0
      BY <1>2, <2>1, <3>1, GotStep DEF Lookup
    <3>2. CASE registry[k] = 0
      BY <1>2, <3>2, AtStep DEF Lookup, Places
    <3> QED
      BY <3>1, <3>2
  <2> QED
    BY <2>1, <2>2, <2>3 DEF Registered
<1>3. ASSUME NEW t \in Threads, Register(t) PROVE Registered'
  <2> DEFINE k == call[t].key
  <2>1. k \in Keys /\ registry[k] \in Nat /\ registry \in [Keys -> Nat]
    BY DEF TypeOK
  <2>2. \A u \in Threads : u # t => call'[u] = call[u]
    BY <1>3, RegisteringSteps DEF Registering
  <2>3. CASE registry[k] # 0
    <3>1. UNCHANGED maps /\ call'[t].handle = registry[k] /\ call'[t].key = k
      BY <1>3, <2>3, <2>1, GotStep DEF Register
    <3> QED
      BY <2>3, <2>2, <3>1 DEF Registered
  <2>4. CASE registry[k] = 0
    <3>1. k \in Keys /\ Len(made) \in Nat
      BY DEF TypeOK
    <3>2. /\ Len(made') = Len(made) + 1 /\ made'[Len(made) + 1] = k
          /\ \A i \in 1..Len(made) : made'[i] = made[i]
      BY <1>3, <2>4, <3>1, Built DEF Register
    <3>3. registry' = [registry EXCEPT ![k] = Len(made) + 1]
      BY <1>3, <2>4, <3>2 DEF Register
    <3>4. \A i \in 1..Len(made) : made[i] # k
      BY <2>4 DEF Registered
    <3>5. \A l \in Keys : registry'[l] # 0 => registry'[l] \in 1..Len(made') /\ made'[registry'[l]] = l
      <4> SUFFICES ASSUME NEW l \in Keys, registry'[l] # 0
                   PROVE  registry'[l] \in 1..Len(made') /\ made'[registry'[l]] = l
        OBVIOUS
      <4>1. CASE l = k
        BY <2>1, <3>1, <3>2, <3>3, <4>1
      <4>2. CASE l # k
        <5>1. registry'[l] = registry[l]
          BY <2>1, <3>3, <4>2
        <5>2. registry[l] \in 1..Len(made) /\ made[registry[l]] = l
          BY <5>1 DEF Registered
        <5> QED
          BY <3>1, <3>2, <5>1, <5>2
      <4> QED
        BY <4>1, <4>2
    <3>6. \A i \in 1..Len(made') : registry'[made'[i]] = i
      <4> SUFFICES ASSUME NEW i \in 1..Len(made') PROVE registry'[made'[i]] = i
        OBVIOUS
      <4>1. CASE i = Len(made) + 1
        BY <3>1, <3>2, <3>3, <4>1 DEF TypeOK
      <4>2. CASE i \in 1..Len(made)
        <5>1. made[i] \in Keys
          BY <4>2 DEF TypeOK
        <5> QED
          BY <3>2, <3>3, <3>4, <4>2, <5>1 DEF Registered, TypeOK
      <4> QED
        BY <3>1, <3>2, <4>1, <4>2
    <3>7. \A u \in Threads : call'[u].at = "registered" =>
              call'[u].handle = registry'[call'[u].key] /\ call'[u].handle # 0
      <4> SUFFICES ASSUME NEW u \in Threads, call'[u].at = "registered"
                   PROVE  call'[u].handle = registry'[call'[u].key] /\ call'[u].handle # 0
        OBVIOUS
      <4>1. CASE u = t
        <5>1. call'[t].handle = Len(made') /\ call'[t].key = k
          BY <1>3, <2>4, <3>1, <3>2, GotStep DEF Register
        <5> QED
          BY <2>1, <3>1, <3>2, <3>3, <4>1, <5>1
      <4>2. CASE u # t
        <5>1. call'[u] = call[u] /\ call[u].key \in Keys
          BY <2>2, <4>2 DEF TypeOK
        <5>2. call[u].key # k
          BY <2>4, <5>1 DEF Registered
        <5> QED
          BY <3>3, <5>1, <5>2 DEF Registered, TypeOK
      <4> QED
        BY <4>1, <4>2
    <3> QED
      BY <3>5, <3>6, <3>7 DEF Registered
  <2> QED
    BY <2>3, <2>4
<1>4. CASE ~\E t \in Threads : Registering(t)
  <2>1. Outside
    BY <1>4, OutsideSteps
  <2> QED
    BY <2>1 DEF Outside, Registered
<1> QED
  BY <1>1, <1>2, <1>3, <1>4 DEF Registering

(***************************************************************************)
(* The callers and what they record.                                       *)
(***************************************************************************)

\* A call in flight belongs to the place that its thread is in.
LEMMA CallersStep ==
    ASSUME TypeOK, Callers, [Next]_vars
    PROVE  Callers'
<1> USE OtelAssumption
<1>1. ASSUME NEW t \in Threads, Registering(t) PROVE Callers'
  <2>1. /\ call[t].at # "idle" /\ call'[t].at # "idle"
        /\ call'[t].key = call[t].key /\ call'[t].value = call[t].value
        /\ \A u \in Threads : u # t => call'[u] = call[u]
        /\ UNCHANGED <<protocol, pc, set>>
    BY <1>1, RegisteringSteps
  <2> QED
    BY <2>1 DEF Callers
<1>2. ASSUME NEW t \in Threads, Apply(t) PROVE Callers'
  BY <1>2 DEF Apply, AfterCall, Callers, TypeOK
<1>3. ASSUME NEW t \in Tasks, Begin(t) PROVE Callers'
  BY <1>3 DEF Begin, Callers, TypeOK
<1>4. ASSUME NEW t \in Tasks, Count(t) PROVE Callers'
  BY <1>4 DEF Count, Callers, TypeOK
<1>5. ASSUME NEW t \in Tasks, End(t) PROVE Callers'
  BY <1>5 DEF End, Callers, TypeOK
<1>6. ASSUME NEW t \in Tasks, Release(t) PROVE Callers'
  BY <1>6 DEF Release, Callers, TypeOK
<1>7. CASE SetPeers
  BY <1>7 DEF SetPeers, Callers, TypeOK
<1>8. CASE PollerExit
  BY <1>8 DEF PollerExit, Callers, TypeOK
<1>9. CASE Signal \/ Flush \/ UNCHANGED vars
  BY <1>9 DEF Signal, Flush, Callers
<1> QED
  BY <1>1, <1>2, <1>3, <1>4, <1>5, <1>6, <1>7, <1>8, <1>9 DEF Next, Calls, Stutter, Registering

\* The sets that are counted are finite.
LEMMA Counted ==
    /\ \A p : IsFiniteSet(Active(p)) /\ Cardinality(Active(p)) \in Nat
    /\ IsFiniteSet(Pending) /\ Cardinality(Pending) \in Nat
<1>1. \A p : Active(p) \subseteq Tasks
  BY DEF Active
<1>2. Pending \subseteq Tasks
  BY DEF Pending
<1> QED
  BY <1>1, <1>2, FS_Subset, FS_CardinalityType, OtelAssumption

\* A step after which the same tasks are counted, and the same ones have a call
\* pending.
LEMMA SameSets ==
    ASSUME UNCHANGED protocol,
           \A t \in Tasks : Counts(t)' = Counts(t),
           \A t \in Tasks : (pc'[t] = "live" /\ call'[t].at # "idle")
                                <=> (pc[t] = "live" /\ call[t].at # "idle")
    PROVE  (\A p : Active(p)' = Active(p)) /\ Pending' = Pending
BY DEF Active, Pending

\* What is held for each key is what was recorded there.
LEMMA RecordingsStep ==
    ASSUME TypeOK, Registered, Callers, Recordings, [Next]_vars
    PROVE  Recordings'
<1> USE OtelAssumption
<1> USE DEF Counts
<1>1. ASSUME NEW t \in Threads, Registering(t) PROVE Recordings'
  <2>1. /\ UNCHANGED <<protocol, pc, total, counted, set>>
        /\ \A u \in Threads : call'[u].at = "idle" <=> call[u].at = "idle"
    BY <1>1, RegisteringSteps
  <2>2. (\A p : Active(p)' = Active(p)) /\ Pending' = Pending
    BY <2>1, SameSets
  <2> QED
    BY <2>1, <2>2 DEF Recordings
<1>2. ASSUME NEW t \in Threads, Apply(t) PROVE Recordings'
  <2> DEFINE k == call[t].key
  <2>1. /\ made[call[t].handle] = k /\ call[t].at # "idle" /\ k \in Keys
        /\ total' = [total EXCEPT ![k] = Recorded(k, @, call[t].value)]
        /\ call' = [call EXCEPT ![t] = Idle]
        /\ pc' = [pc EXCEPT ![t] = AfterCall(t)]
        /\ UNCHANGED <<protocol, counted, set>>
    <3>1. /\ call[t].at = "registered" /\ made[call[t].handle] = k /\ k \in Keys
      <4>1. call[t].at = "registered" /\ call[t].key \in Keys
        BY <1>2 DEF Apply, TypeOK
      <4>2. call[t].handle = registry[k] /\ registry[k] # 0
        BY <4>1 DEF Registered
      <4> QED
        BY <4>1, <4>2 DEF Registered
    <3> QED
      BY <1>2, <3>1 DEF Apply
  <2>2. pc[t] \in {"starting", "ending", "live"} /\ (t = Poller => pc[t] = "live")
    BY <2>1 DEF Callers, TypeOK
  <2>3. CASE pc[t] \in {"starting", "ending"}
    <3>1. t \in Tasks /\ t # Poller /\ k = protocol[t] /\ k \in Protocols
      BY <2>2, <2>3 DEF Callers, TypeOK
    <3>2. PICK p \in Protocols : p = k
      BY <3>1
    <3>3. Pending' = Pending
      BY <2>1, <2>3, <3>1 DEF Pending, AfterCall, TypeOK
    <3>4. \A q \in Protocols : q # p => Active(q)' = Active(q)
      BY <2>1, <2>3, <3>1, <3>2 DEF Active, AfterCall, TypeOK
    <3>5. total'[p] = Cardinality(Active(p)')
      <4>1. CASE pc[t] = "starting"
        <5>1. Active(p)' = Active(p) \cup {t} /\ t \notin Active(p)
          BY <2>1, <3>1, <3>2, <4>1 DEF Active, AfterCall, TypeOK
        <5>2. Cardinality(Active(p)') = Cardinality(Active(p)) + 1
          BY <5>1, Counted, FS_AddElement
        <5>3. total'[p] = total[p] + 1
          BY <2>1, <3>1, <3>2, <4>1 DEF Recorded, Callers, TypeOK
        <5> QED
          BY <3>1, <3>2, <5>2, <5>3, Counted DEF Recordings
      <4>2. CASE pc[t] = "ending"
        <5>1. Active(p)' = Active(p) \ {t} /\ t \in Active(p)
          BY <2>1, <3>1, <3>2, <4>2 DEF Active, AfterCall, TypeOK
        <5>2. Cardinality(Active(p)') = Cardinality(Active(p)) - 1
          BY <5>1, Counted, FS_RemoveElement
        <5>3. total'[p] = total[p] - 1
          BY <2>1, <3>1, <3>2, <4>2 DEF Recorded, Callers, TypeOK
        <5> QED
          BY <3>1, <3>2, <5>2, <5>3, Counted DEF Recordings
      <4> QED
        BY <2>3, <4>1, <4>2
    <3>6. \A l \in Keys : l # k => total'[l] = total[l]
      BY <2>1 DEF TypeOK
    <3>7. call'[Poller] = call[Poller]
      BY <2>1, <3>1 DEF TypeOK
    <3>8. \A q \in Protocols : total'[q] = Cardinality(Active(q)')
      BY <2>1, <3>2, <3>4, <3>5, <3>6 DEF Recordings
    <3>9. "requests" # k /\ "peers" # k
      BY <3>1
    <3>10. total'["requests"] = total["requests"] /\ total'["peers"] = total["peers"]
      BY <3>6, <3>9
    <3> QED
      BY <2>1, <3>3, <3>7, <3>8, <3>10 DEF Recordings
  <2>4. CASE pc[t] = "live" /\ t = Poller
    <3>1. k = "peers" /\ call[t].value = set
      BY <2>1, <2>4 DEF Callers
    <3>2. (\A p : Active(p)' = Active(p)) /\ Pending' = Pending
      BY <2>1, <2>4 DEF Active, Pending, AfterCall, TypeOK
    <3>3. total'["peers"] = set /\ \A l \in Keys : l # "peers" => total'[l] = total[l]
      BY <2>1, <3>1 DEF Recorded, TypeOK
    <3> QED
      BY <2>1, <3>2, <3>3 DEF Recordings
  <2>5. CASE pc[t] = "live" /\ t # Poller
    <3>1. k = "requests" /\ call[t].value = 1 /\ t \in Tasks
      BY <2>1, <2>5 DEF Callers
    <3>2. \A p : Active(p)' = Active(p)
      BY <2>1, <2>5, <3>1 DEF Active, AfterCall, TypeOK
    <3>3. Pending' = Pending \ {t} /\ t \in Pending
      BY <2>1, <2>5, <3>1 DEF Pending, TypeOK
    <3>4. Cardinality(Pending') = Cardinality(Pending) - 1
      BY <3>3, Counted, FS_RemoveElement
    <3>5. /\ total'["requests"] = total["requests"] + 1
          /\ \A l \in Keys : l # "requests" => total'[l] = total[l]
      BY <2>1, <3>1 DEF Recorded, TypeOK
    <3>6. call'[Poller] = call[Poller]
      BY <2>1, <2>5 DEF TypeOK
    <3> QED
      BY <2>1, <3>2, <3>4, <3>5, <3>6, Counted DEF Recordings, TypeOK
  <2> QED
    BY <2>2, <2>3, <2>4, <2>5
<1>3. ASSUME NEW t \in Tasks, Begin(t) \/ End(t) \/ Release(t) PROVE Recordings'
  <2>1. /\ UNCHANGED <<protocol, total, counted, set>>
        /\ call'[Poller] = call[Poller]
    BY <1>3 DEF Begin, End, Release, TypeOK
  <2>2. (\A p : Active(p)' = Active(p)) /\ Pending' = Pending
    <3>1. \A u \in Tasks : u # t => pc'[u] = pc[u] /\ call'[u] = call[u]
      BY <1>3 DEF Begin, End, Release, Call, TypeOK
    <3>2. (Counts(t)' <=> Counts(t)) /\ (pc'[t] # "live") /\ (pc[t] = "live" => call[t].at = "idle")
      BY <1>3 DEF Begin, End, Release, Runs, Call, Counts, TypeOK
    <3>3. \A u \in Tasks : /\ Counts(u)' <=> Counts(u)
                           /\ pc'[u] = "live" /\ call'[u].at # "idle" <=> pc[u] = "live" /\ call[u].at # "idle"
      BY <3>1, <3>2 DEF Counts
    <3> QED
      BY <2>1, <3>3 DEF Active, Pending
  <2> QED
    BY <2>1, <2>2 DEF Recordings
<1>4. ASSUME NEW t \in Tasks, Count(t) PROVE Recordings'
  <2>1. Pending' = Pending \cup {t} /\ t \notin Pending
    BY <1>4 DEF Count, Pending, TypeOK
  <2>2. Cardinality(Pending') = Cardinality(Pending) + 1
    BY <2>1, Counted, FS_AddElement
  <2>3. \A p : Active(p)' = Active(p)
    BY <1>4 DEF Count, Active
  <2>4. UNCHANGED <<total, set>> /\ counted' = counted + 1 /\ call'[Poller] = call[Poller]
    BY <1>4 DEF Count, TypeOK
  <2> QED
    BY <2>2, <2>3, <2>4, Counted DEF Recordings, TypeOK
<1>5. CASE SetPeers \/ PollerExit
  <2>1. UNCHANGED <<protocol, total, counted>>
        /\ \A u \in Tasks : pc'[u] = pc[u] /\ call'[u] = call[u]
    BY <1>5 DEF SetPeers, PollerExit, TypeOK
  <2>2. (\A p : Active(p)' = Active(p)) /\ Pending' = Pending
    BY <2>1 DEF Active, Pending
  <2>3. call'[Poller].at = "idle" => call[Poller].at = "idle" /\ UNCHANGED set
    BY <1>5 DEF SetPeers, PollerExit, TypeOK
  <2> QED
    BY <2>1, <2>2, <2>3 DEF Recordings
<1>6. CASE Signal \/ Flush \/ UNCHANGED vars
  BY <1>6 DEF Signal, Flush, Recordings, Active, Pending
<1> QED
  BY <1>1, <1>2, <1>3, <1>4, <1>5, <1>6 DEF Next, Calls, Stutter, Registering

\* When run() has exported for the last time, nobody is left who could record.
LEMMA SettledStep ==
    ASSUME TypeOK, Callers, Settled, [Next]_vars
    PROVE  Settled'
<1> USE OtelAssumption
<1>1. CASE ~flushed
  <2>1. CASE Flush
    BY <2>1 DEF Flush, Settled
  <2>2. CASE ~Flush
    <3>1. flushed' = flushed
      BY <2>2 DEF Next, Calls, Stutter, ReadLock, Lookup, WriteLock, Register, Apply, Begin, Count,
                  End, Release, SetPeers, PollerExit, Signal
    <3> QED
      BY <1>1, <3>1 DEF Settled
  <2> QED
    BY <2>1, <2>2
<1>2. CASE flushed
  <2>1. \A t \in Threads : pc[t] \in {"new", "gone"} /\ call[t].at = "idle"
    BY <1>2 DEF Settled, Callers
  <2>2. ~\E t \in Threads : Calls(t)
    BY <2>1 DEF Calls, ReadLock, Lookup, WriteLock, Register, Apply
  <2>3. ~\E t \in Tasks : Begin(t) \/ Count(t) \/ End(t) \/ Release(t)
    BY <1>2, <2>1 DEF Begin, Count, End, Release, Settled
  <2>4. ~SetPeers /\ ~PollerExit /\ ~Signal /\ ~Flush
    BY <1>2, <2>1 DEF SetPeers, PollerExit, Signal, Flush, Settled
  <2>5. UNCHANGED vars
    BY <2>2, <2>3, <2>4 DEF Next, Stutter
  <2> QED
    BY <2>5 DEF Settled
<1> QED
  BY <1>1, <1>2

(***************************************************************************)
(* The theorems.                                                           *)
(***************************************************************************)

\* At the start nothing is built, counted or exported.
LEMMA InvInit == Init => IInv
<1> SUFFICES ASSUME Init PROVE IInv
  OBVIOUS
<1> USE OtelAssumption
<1>1. TypeOK
  BY TypeInit
<1>2. Exclusive /\ Callers /\ Settled
  BY DEF Init, Exclusive, Callers, Settled
<1>3. Registered
  <2>1. Len(made) = 0 /\ made = <<>> /\ registry = [k \in Keys |-> 0]
        /\ \A t \in Threads : call[t].at = "idle"
    BY DEF Init
  <2>2. 1..Len(made) = {}
    BY <2>1
  <2> QED
    BY <2>1, <2>2 DEF Registered
<1>4. (\A p : Active(p) = {}) /\ Pending = {}
  BY DEF Init, Active, Pending, Counts
<1>5. Recordings
  <2>1. Cardinality({}) = 0
    BY FS_EmptySet
  <2>2. (\A k \in Keys : total[k] = 0) /\ counted = 0 /\ set = 0
    BY DEF Init
  <2> QED
    BY <1>4, <2>1, <2>2 DEF Recordings
<1> QED
  BY <1>1, <1>2, <1>5, <1>3 DEF IInv

\* The inductive invariant: exclusive writers, a registry without doubles, and
\* totals that account for every call that has returned.
THEOREM Invariant == Spec => []IInv
<1>1. IInv /\ [Next]_vars => IInv'
  BY TypeStep, ExclusiveStep, RegisteredStep, CallersStep, RecordingsStep, SettledStep DEF IInv
<1> QED
  BY InvInit, <1>1, PTL DEF Spec

\* However many threads meet in the registration, a key has one instrument, and
\* each caller writes to that of its key.
THEOREM Unique == Spec => []OneInstrument
<1>1. IInv => OneInstrument
  BY OtelAssumption DEF IInv, TypeOK, Registered, OneInstrument
<1> QED
  BY <1>1, Invariant, PTL

\* The gauge of active connections is exact at every instant.
THEOREM Exact == Spec => []ActiveExact
<1>1. IInv => ActiveExact
  BY DEF IInv, Recordings, ActiveExact
<1> QED
  BY <1>1, Invariant, PTL

\* The last export of a process that ended in order is complete.
THEOREM LastWord == Spec => []FinalExport
<1>1. IInv => FinalExport
  <2> SUFFICES ASSUME IInv, flushed PROVE FinalExport
    BY DEF FinalExport
  <2>1. \A t \in Threads : pc[t] \in {"new", "gone"} /\ call[t].at = "idle"
    BY OtelAssumption DEF IInv, Settled, Callers
  <2>2. (\A p : Active(p) = {}) /\ Pending = {}
    BY <2>1 DEF Active, Pending, Counts
  <2>3. (\A p \in Protocols : total[p] = 0) /\ total["requests"] + 0 = counted /\ total["peers"] = set
    BY <2>1, <2>2, FS_EmptySet DEF IInv, Recordings
  <2> QED
    BY <2>3 DEF IInv, Settled, TypeOK, FinalExport
<1> QED
  BY <1>1, Invariant, PTL
=============================================================================
