-------------------------- MODULE ReadinessProofs --------------------------
(***************************************************************************)
(* Proofs about Readiness, for any interval, timeout and age limit, with   *)
(* or without a genesis time, and any number of changes and faults.        *)
(***************************************************************************)
EXTENDS Readiness, TLAPS

USE ReadinessAssumption
USE DEF Layers, Ages, NoHead, MaxLag, Budget

\* Ageing an answer keeps what it says about sync, and never makes it younger.
LEMMA AgedAnswer ==
    ASSUME NEW a \in Answers
    PROVE  LET b == [a EXCEPT !.head = Older(@)]
           IN  /\ b \in Answers /\ b.sync = a.sync /\ b.head = Older(a.head)
               /\ Older(a.head) >= a.head
               /\ Older(a.head) # NoHead <=> a.head # NoHead
               /\ Older(a.head) <= MaxAge => a.head <= MaxAge
  BY DEF Answers, Older

\* A placeholder does not age.
LEMMA AgedPlaceholder ==
    /\ [Out EXCEPT !.head = Older(@)] = Out
    /\ [Warming EXCEPT !.head = Older(@)] = Warming
  BY DEF Out, Warming, Older

\* The same for a whole probe.
LEMMA AgedProbe ==
    ASSUME NEW W \in {Out, Warming}, NEW p \in [Layers -> Answers \cup {W}]
    PROVE  /\ Aged(p) \in [Layers -> Answers \cup {W}]
           /\ \A l \in Layers : /\ Aged(p)[l].sync = p[l].sync
                                /\ Aged(p)[l].head = Older(p[l].head)
                                /\ Aged(p)[l] = Out <=> p[l] = Out
                                /\ Older(p[l].head) >= p[l].head
                                /\ Older(p[l].head) # NoHead <=> p[l].head # NoHead
                                /\ Older(p[l].head) <= MaxAge => p[l].head <= MaxAge
<1>1. ASSUME NEW l \in Layers
      PROVE  /\ Aged(p)[l] \in Answers \cup {W}
             /\ Aged(p)[l].sync = p[l].sync
             /\ Aged(p)[l].head = Older(p[l].head)
             /\ Aged(p)[l] = Out <=> p[l] = Out
             /\ Older(p[l].head) >= p[l].head
             /\ Older(p[l].head) # NoHead <=> p[l].head # NoHead
             /\ Older(p[l].head) <= MaxAge => p[l].head <= MaxAge
  <2>1. Aged(p)[l] = [p[l] EXCEPT !.head = Older(@)]  BY DEF Aged
  <2>2. CASE p[l] \in Answers
    <3>1. p[l] # Out  BY <2>2 DEF Answers, Out
    <3>2. Aged(p)[l] # Out  BY <2>1, <2>2, AgedAnswer DEF Answers, Out
    <3> QED  BY <2>1, <2>2, <3>1, <3>2, AgedAnswer
  <2>3. CASE p[l] = W
    <3>1. Aged(p)[l] = W  BY <2>1, <2>3, AgedPlaceholder
    <3>2. W.head = NoHead  BY DEF Out, Warming
    <3> QED  BY <2>3, <3>1, <3>2 DEF Older
  <2> QED  BY <2>2, <2>3
<1>2. Aged(p) \in [Layers -> Answers \cup {W}]  BY <1>1 DEF Aged
<1> QED  BY <1>1, <1>2

\* The placeholders are no answers.
LEMMA Distinct ==
    /\ \A a \in Answers : /\ a.sync \in {"synced", "syncing", "error"} /\ a.head \in 0..NoHead
                           /\ a # Out /\ a # Warming
    /\ Out.sync = "out" /\ Out.head = NoHead
    /\ Warming.sync = "warming" /\ Warming.head = NoHead
    /\ Error \in Answers /\ Error.sync = "error" /\ Error.head = NoHead
  BY DEF Answers, Out, Warming, Error

\* run_inner starts from the placeholder.
LEMMA InitInv == Init => IInv
<1> SUFFICES ASSUME Init PROVE IInv
  OBVIOUS
<1>1. TypeOK
  <2>1. timer \in [Layers \cup {"pause"} -> 0..(Interval + 2 * Timeout)]
    BY DEF Init
  <2>2. age \in [Layers -> Ages]
    BY DEF Init
  <2>3. /\ changes \in 0..MaxChanges /\ faults \in 0..MaxFaults
        /\ steady \in 0..(MaxLag + 1)
    BY DEF Init
  <2>4. /\ probe \in [Layers -> Answers \cup {Out}]
        /\ cache \in [Layers -> Answers \cup {Warming}]
        /\ gauges \in [Layers -> BOOLEAN]
        /\ log \in [last : {"none", "recovered", "not_ready"}, odd : BOOLEAN]
    BY DEF Init
  <2> QED  BY <2>1, <2>2, <2>3, <2>4 DEF Init, TypeOK
<1>2. Story  BY DEF Init, Story, Trust
<1>3. Agreement  BY DEF Init, Agreement
<1>4. HeadsLag  BY Distinct DEF Init, HeadsLag
<1> QED  BY <1>1, <1>2, <1>3, <1>4 DEF IInv

\* Every step of the poller or of an upstream keeps the invariant.
LEMMA StepInv == IInv /\ [Next]_vars => IInv'
<1> SUFFICES ASSUME TypeOK, Story, Agreement, HeadsLag, [Next]_vars PROVE IInv'
  BY DEF IInv
<1> USE Distinct

<1>1. ASSUME Change PROVE IInv'
  <2>1. TypeOK'  BY <1>1 DEF TypeOK, Change, upstream, poller, Answers, Trust, Story
  <2>2. Story'  BY <1>1 DEF TypeOK, Story, Change, Ready, SyncOk, FreshOk, Trust, Strict, Collected, upstream, poller
  <2>3. Agreement'  BY <1>1 DEF TypeOK, Story, Agreement, Current, Change, upstream, poller, Trust, Answers
  <2>4. HeadsLag'  BY <1>1 DEF TypeOK, Story, HeadsLag, Change, upstream, poller, Answers, Collected, Trust
  <2> QED  BY <2>1, <2>2, <2>3, <2>4 DEF IInv
<1>2. ASSUME PartlyAnswered PROVE IInv'
  <2>1. TypeOK'  BY <1>2 DEF TypeOK, PartlyAnswered, Collect, Collecting, upstream, poller, Answers, Trust, Story
  <2>2. Story'  BY <1>2 DEF TypeOK, Story, PartlyAnswered, Collect, Collecting, Ready, SyncOk, FreshOk, Trust, Strict, Collected, upstream, poller
  <2>3. Agreement'  BY <1>2 DEF TypeOK, Story, Agreement, Current, PartlyAnswered, Collect, Collecting, upstream, poller, Trust, Answers
  <2>4. HeadsLag'  BY <1>2 DEF TypeOK, Story, HeadsLag, PartlyAnswered, Collect, Collecting, upstream, poller, Answers, Collected, Trust
  <2> QED  BY <2>1, <2>2, <2>3, <2>4 DEF IInv
<1>3. ASSUME NEW l \in Layers, NewHead(l) PROVE IInv'
  <2>1. TypeOK'  BY <1>3 DEF TypeOK, NewHead, upstream, poller, Answers, Trust, Story
  <2>2. Story'  BY <1>3 DEF TypeOK, Story, NewHead, Ready, SyncOk, FreshOk, Trust, Strict, Collected, upstream, poller
  <2>3. Agreement'  BY <1>3 DEF TypeOK, Story, Agreement, Current, NewHead, upstream, poller, Trust, Answers
  <2>4. HeadsLag'  BY <1>3 DEF TypeOK, Story, HeadsLag, NewHead, upstream, poller, Answers, Collected, Trust
  <2> QED  BY <2>1, <2>2, <2>3, <2>4 DEF IInv
<1>4. ASSUME NEW l \in Layers, Answered(l) PROVE IInv'
  <2>1. TypeOK'  BY <1>4 DEF TypeOK, Answered, Collect, Collecting, upstream, poller, Answers, Trust, Story
  <2>2. Story'  BY <1>4 DEF TypeOK, Story, Answered, Collect, Collecting, Ready, SyncOk, FreshOk, Trust, Strict, Collected, upstream, poller
  <2>3. Agreement'  BY <1>4 DEF TypeOK, Story, Agreement, Current, Answered, Collect, Collecting, upstream, poller, Trust, Answers
  <2>4. HeadsLag'  BY <1>4 DEF TypeOK, Story, HeadsLag, Answered, Collect, Collecting, upstream, poller, Answers, Collected, Trust
  <2> QED  BY <2>1, <2>2, <2>3, <2>4 DEF IInv
<1>5. ASSUME NEW l \in Layers, Failed(l) PROVE IInv'
  <2>1. TypeOK'  BY <1>5 DEF TypeOK, Failed, Collect, Collecting, upstream, poller, Answers, Trust, Story
  <2>2. Story'  BY <1>5 DEF TypeOK, Story, Failed, Collect, Collecting, Ready, SyncOk, FreshOk, Trust, Strict, Collected, upstream, poller
  <2>3. Agreement'  BY <1>5 DEF TypeOK, Story, Agreement, Current, Failed, Collect, Collecting, upstream, poller, Trust, Answers
  <2>4. HeadsLag'  BY <1>5 DEF TypeOK, Story, HeadsLag, Failed, Collect, Collecting, upstream, poller, Answers, Collected, Trust
  <2> QED  BY <2>1, <2>2, <2>3, <2>4 DEF IInv
<1>6. ASSUME Seed PROVE IInv'
  <2>1. TypeOK'
    <3>1. Result \in [Layers -> Answers]
      BY <1>6 DEF Seed, TypeOK, Collected, Result, Answers
    <3>2. timer' \in [Layers \cup {"pause"} -> 0..(Interval + 2 * Timeout)]
      BY <1>6 DEF Seed, TypeOK, Rest
    <3>3. gauges' \in [Layers -> BOOLEAN]
      BY <1>6 DEF Seed, SetGauges, SyncOk, Trust
    <3>4. probe' \in [Layers -> Answers \cup {Out}]
      BY <1>6 DEF Seed, Rest
    <3>5. stage' \in {"off", "pause"}
      BY <1>6 DEF Seed, Rest
    <3> QED  BY <1>6, <3>1, <3>2, <3>3, <3>4, <3>5 DEF Seed, TypeOK, upstream
  <2>2. Story'  BY <1>6 DEF TypeOK, Story, Seed, SetGauges, Rest, Collected, Result, Ready, SyncOk, FreshOk, Trust, Strict, upstream, poller
  <2>3. Agreement'  BY <1>6 DEF TypeOK, Story, Agreement, Current, Seed, SetGauges, Rest, Collected, Result, upstream, poller, Trust, Answers
  <2>4. HeadsLag'  BY <1>6 DEF TypeOK, Story, HeadsLag, Seed, SetGauges, Rest, Collected, Result, upstream, poller, Answers, Trust
  <2> QED  BY <2>1, <2>2, <2>3, <2>4 DEF IInv
<1>7. ASSUME Ask PROVE IInv'
  <2>1. TypeOK'  BY <1>7 DEF TypeOK, Ask, upstream, poller, Answers, Trust, Story
  <2>2. Story'  BY <1>7 DEF TypeOK, Story, Ask, Ready, SyncOk, FreshOk, Trust, Strict, Collected, upstream, poller
  <2>3. Agreement'
    <3>1. timer'["el"] = 2 * Timeout /\ timer'["cl"] = Timeout
      BY <1>7 DEF Ask
    <3>2. stage = "pause" /\ stage' = "asking" /\ timer["pause"] = 0
      BY <1>7 DEF Ask
    <3>3. \A l \in Layers : Current(cache, l) \/ steady <= 2 * Timeout + Interval
      BY <3>2 DEF Agreement, TypeOK
    <3>4. \A l \in Layers : probe[l] = Out
      BY <3>2 DEF Story
    <3> QED  BY <1>7, <3>1, <3>2, <3>3, <3>4 DEF Agreement, Ask, Current, upstream, TypeOK
  <2>4. HeadsLag'  BY <1>7 DEF TypeOK, Story, HeadsLag, Ask, upstream, poller, Answers, Collected, Trust
  <2> QED  BY <2>1, <2>2, <2>3, <2>4 DEF IInv
<1>8. ASSUME Judge PROVE IInv'
  <2>1. TypeOK'
    <3>1. log' \in [last : {"none", "recovered", "not_ready"}, odd : BOOLEAN]
      BY <1>8 DEF Judge, Line, Transition, TypeOK
    <3>2. gauges' \in [Layers -> BOOLEAN]
      BY <1>8 DEF Judge, SetGauges, SyncOk, Trust
    <3> QED  BY <1>8, <3>1, <3>2 DEF Judge, TypeOK, upstream
  <2>2. Story'  BY <1>8 DEF TypeOK, Story, Judge, SetGauges, Line, Transition, Collected, Result, Ready, SyncOk, FreshOk, Trust, Strict, upstream, poller
  <2>3. Agreement'  BY <1>8 DEF TypeOK, Story, Agreement, Current, Judge, SetGauges, Line, Transition, Collected, Result, upstream, poller, Trust, Answers
  <2>4. HeadsLag'  BY <1>8 DEF TypeOK, Story, HeadsLag, Judge, SetGauges, Line, Transition, Collected, Result, upstream, poller, Answers, Trust
  <2> QED  BY <2>1, <2>2, <2>3, <2>4 DEF IInv
<1>9. ASSUME Publish PROVE IInv'
  <2>1. TypeOK'
    <3>1. probe \in [Layers -> Answers]
      BY <1>9 DEF Publish, TypeOK, Story, Collected, Trust
    <3>2. timer' \in [Layers \cup {"pause"} -> 0..(Interval + 2 * Timeout)]
      BY <1>9 DEF Publish, TypeOK, Rest
    <3>3. probe' \in [Layers -> Answers \cup {Out}]
      BY <1>9 DEF Publish, Rest
    <3> QED  BY <1>9, <3>1, <3>2, <3>3 DEF Publish, Rest, TypeOK, upstream
  <2>2. Story'  BY <1>9 DEF TypeOK, Story, Publish, Rest, Ready, SyncOk, FreshOk, Trust, Strict, Collected, upstream, poller
  <2>3. Agreement'  BY <1>9 DEF TypeOK, Story, Agreement, Current, Publish, Rest, upstream, poller, Trust, Answers
  <2>4. HeadsLag'  BY <1>9 DEF TypeOK, Story, HeadsLag, Publish, Rest, upstream, poller, Answers, Collected, Trust
  <2> QED  BY <2>1, <2>2, <2>3, <2>4 DEF IInv
<1>10. ASSUME Stop PROVE IInv'
  <2>1. TypeOK'  BY <1>10 DEF TypeOK, Stop, upstream, poller, Answers, Trust, Story
  <2>2. Story'  BY <1>10 DEF TypeOK, Story, Stop, Ready, SyncOk, FreshOk, Trust, Strict, Collected, upstream, poller
  <2>3. Agreement'  BY <1>10 DEF TypeOK, Story, Agreement, Current, Stop, upstream, poller, Trust, Answers
  <2>4. HeadsLag'  BY <1>10 DEF TypeOK, Story, HeadsLag, Stop, upstream, poller, Answers, Collected, Trust
  <2> QED  BY <2>1, <2>2, <2>3, <2>4 DEF IInv
<1>11. ASSUME Tick PROVE IInv'
  <2>1. TypeOK'  BY <1>11, AgedProbe DEF TypeOK, Tick, Due, Collecting, Collected, Older, upstream, poller, Answers, Trust, Story
  <2>2. Story'  BY <1>11, AgedProbe DEF TypeOK, Story, Tick, Due, Collecting, Collected, Ready, SyncOk, FreshOk, Trust, Strict, upstream, poller
  <2>3. Agreement'  BY <1>11, AgedProbe DEF TypeOK, Story, Agreement, Current, Tick, Due, Collecting, Collected, upstream, poller, Trust, Answers
  <2>4. HeadsLag'  BY <1>11, AgedProbe DEF TypeOK, Story, HeadsLag, Tick, Due, Collecting, Collected, Older, upstream, poller, Answers, Trust
  <2> QED  BY <2>1, <2>2, <2>3, <2>4 DEF IInv
<1>12. ASSUME UNCHANGED vars PROVE IInv'
  BY <1>12 DEF IInv, TypeOK, Story, Agreement, HeadsLag, Current, Ready, SyncOk, FreshOk, Trust, Strict, Collected, vars, poller, upstream
<1> QED  BY <1>1, <1>2, <1>3, <1>4, <1>5, <1>6, <1>7, <1>8, <1>9, <1>10, <1>11, <1>12 DEF Next

\* Invariance: from the initial state, step by step.
THEOREM Invariant == Spec => []IInv
<1> QED  BY InitInv, StepInv, PTL DEF Spec

\* Type correctness (health.rs 519-571).
THEOREM TypeCorrect == Spec => []TypeOK
<1>1. IInv => TypeOK  BY DEF IInv
<1> QED  BY <1>1, Invariant, PTL

\* No handler sees the placeholder (health.rs 166-168, lib.rs 176-217).
THEOREM NoPending == Spec => []NeverServesPending
<1>1. IInv => NeverServesPending  BY Distinct DEF IInv, Story, NeverServesPending
<1> QED  BY <1>1, Invariant, PTL

\* Gauges, log and cache agree between polls (health.rs 538-569).
THEOREM SameStory == Spec => []OneStory
<1>1. IInv => OneStory  BY DEF IInv, Story, OneStory, ReadyzCode
<1> QED  BY <1>1, Invariant, PTL

\* What is served follows the upstreams (health.rs 230-325, 346-378, 519-571).
THEOREM Truthful == Spec => []ServedTruth
<1>1. IInv => ServedTruth
  <2> SUFFICES ASSUME IInv, serving, ~Trust, stage # "stopped", steady > MaxLag
               PROVE  /\ ReadyzCode = 200 => UpReady
                      /\ ~Strict /\ UpReady => ReadyzCode = 200
                      /\ NodeHealthCode = 206 => \E l \in Layers : up[l] = "syncing"
    BY DEF ServedTruth
  <2>1. stage \in {"pause", "asking", "judged"}
    BY DEF IInv, TypeOK, Story, Agreement, Trust
  <2>2. \A l \in Layers : Current(cache, l)
    BY <2>1 DEF IInv, TypeOK, Agreement
  <2>3. ReadyzCode = 200 => UpReady
    <3> SUFFICES ASSUME Ready(cache), NEW l \in Layers
                 PROVE  /\ up[l] = "synced"
                        /\ Strict /\ (l = "el" \/ Genesis) => age[l] <= MaxAge
      BY DEF ReadyzCode, UpReady
    <3>1. SyncOk(cache, l) /\ FreshOk(cache, l)
      BY DEF Ready
    <3>2. up[l] = "synced"
      BY <2>2, <3>1 DEF SyncOk, Current
    <3>3. age[l] \in Nat /\ cache[l].head \in Nat /\ age[l] <= cache[l].head
      BY Distinct DEF IInv, TypeOK, HeadsLag
    <3>4. Strict /\ (l = "el" \/ Genesis) => cache[l].head <= MaxAge
      BY <3>1 DEF FreshOk
    <3> QED  BY <3>2, <3>3, <3>4
  <2>4. ~Strict /\ UpReady => ReadyzCode = 200
    BY <2>2 DEF ReadyzCode, Ready, SyncOk, FreshOk, UpReady, Current
  <2>5. NodeHealthCode = 206 => \E l \in Layers : up[l] = "syncing"
    BY <2>2 DEF NodeHealthCode, Current
  <2> QED  BY <2>3, <2>4, <2>5
<1> QED  BY <1>1, Invariant, PTL

\* Log lines alternate (health.rs 327-342, 544-565).
THEOREM Alternation == Spec => LinesAlternate
<1> DEFINE Alternates == log'.odd # log.odd =>
                /\ log'.last # log.last
                /\ log'.last = "recovered" => log.last = "not_ready"
<1>1. IInv /\ [Next]_vars => [Alternates]_log
  <2> SUFFICES ASSUME TypeOK, Story, Next, log' # log PROVE Alternates
    BY DEF IInv, vars, poller
  <2>1. Judge
    BY DEF Next, Change, PartlyAnswered, NewHead, Answered, Failed, Collect, Seed, Ask, Judge, Publish, Stop,
           Tick, poller
  <2> QED  BY <2>1 DEF Judge, Line, Transition, TypeOK, Story
<1> QED  BY <1>1, Invariant, PTL DEF Spec, LinesAlternate
=============================================================================
