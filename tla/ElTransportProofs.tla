------------------------- MODULE ElTransportProofs -------------------------
(***************************************************************************)
(* Proofs about ElTransport, for any requests, interval, timeout and any   *)
(* number of changes and unanswered calls.                                 *)
(***************************************************************************)
EXTENDS ElTransport, TLAPS

USE TicksAssumption
USE DEF Transports, MaxLag, Outdated, upstream, requests, pollVars

\* There is one other transport.
LEMMA OtherTransport ==
    ASSUME NEW p \in Transports
    PROVE  Other(p) \in Transports /\ Other(p) # p /\ \A q \in Transports : q = p \/ q = Other(p)
<1>1. \E q \in Transports : q # p  OBVIOUS
<1>2. Other(p) \in Transports /\ Other(p) # p  BY <1>1 DEF Other
<1> QED  BY <1>2

\* The warm-up poll starts with the upstream as it is.
LEMMA InitInv == Init => IInv
<1> SUFFICES ASSUME Init PROVE IInv
  OBVIOUS
<1>1. TypeOK  BY DEF Init, TypeOK
<1>2. Counted  BY DEF Init, Counted
<1>3. Attempts  BY DEF Init, Attempts
<1>4. Window  BY DEF Init, Window
<1> QED  BY <1>1, <1>2, <1>3, <1>4 DEF IInv

\* Every step of the poller, of a request or of the upstream keeps the invariant.
LEMMA StepInv == IInv /\ [Next]_vars => IInv'
<1> SUFFICES ASSUME TypeOK, Counted, Attempts, Window, [Next]_vars PROVE IInv'
  BY DEF IInv
<1>a. pref \in Transports /\ verdict \in Transports  BY DEF TypeOK
<1>b. Other(pref) \in Transports /\ Other(pref) # pref /\ \A q \in Transports : q = pref \/ q = Other(pref)
  BY <1>a, OtherTransport

<1>1. ASSUME Change PROVE IInv'
  <2>1. TypeOK'  BY <1>1, <1>b DEF TypeOK, Change
  <2>2. Counted'  BY <1>1 DEF TypeOK, Counted, Change
  <2>3. Attempts'  BY <1>1, <1>b DEF TypeOK, Attempts, Change
  <2>4. Window'  BY <1>1, <1>b DEF TypeOK, Attempts, Window, Change
  <2> QED  BY <2>1, <2>2, <2>3, <2>4 DEF IInv
<1>2. ASSUME PrimaryAnswers PROVE IInv'
  <2>1. TypeOK'  BY <1>2, <1>b DEF TypeOK, PrimaryAnswers, Answers
  <2>2. Counted'  BY <1>2 DEF TypeOK, Counted, PrimaryAnswers, Answers
  <2>3. Attempts'  BY <1>2, <1>b DEF TypeOK, Attempts, PrimaryAnswers, Answers
  <2>4. Window'  BY <1>2, <1>b DEF TypeOK, Attempts, Window, PrimaryAnswers, Answers
  <2> QED  BY <2>1, <2>2, <2>3, <2>4 DEF IInv
<1>3. ASSUME PrimaryFails PROVE IInv'
  <2>1. TypeOK'
    <3>1. timer \in 0..(Interval + Timeout) /\ lag' \in 0..(MaxLag + 1) /\ glitches' \in 0..MaxGlitches
      BY <1>3 DEF TypeOK, PrimaryFails, Fails
    <3>2. timer' \in 0..(Interval + Timeout) /\ poll' \in {"done", "alternate"}
      BY <1>3, <3>1 DEF PrimaryFails, Attempt
    <3>3. always' \subseteq ever' /\ ever' \subseteq Transports
      BY <1>3 DEF TypeOK, PrimaryFails, Attempt
    <3> QED  BY <1>3, <3>1, <3>2, <3>3 DEF TypeOK, PrimaryFails
  <2>2. Counted'  BY <1>3 DEF TypeOK, Counted, PrimaryFails, Fails, Attempt
  <2>3. Attempts'  BY <1>3, <1>b DEF TypeOK, Attempts, PrimaryFails, Fails, Attempt
  <2>4. Window'  BY <1>3, <1>b DEF TypeOK, Attempts, Window, PrimaryFails, Fails, Attempt
  <2> QED  BY <2>1, <2>2, <2>3, <2>4 DEF IInv
<1>4. ASSUME AlternateAnswers PROVE IInv'
  <2>1. TypeOK'  BY <1>4, <1>b DEF TypeOK, AlternateAnswers, Answers
  <2>2. Counted'  BY <1>4 DEF TypeOK, Counted, AlternateAnswers, Answers
  <2>3. Attempts'  BY <1>4, <1>b DEF TypeOK, Attempts, AlternateAnswers, Answers
  <2>4. Window'  BY <1>4, <1>b DEF TypeOK, Attempts, Window, AlternateAnswers, Answers
  <2> QED  BY <2>1, <2>2, <2>3, <2>4 DEF IInv
<1>5. ASSUME AlternateFails PROVE IInv'
  <2>1. TypeOK'  BY <1>5, <1>b DEF TypeOK, AlternateFails, Fails
  <2>2. Counted'  BY <1>5 DEF TypeOK, Counted, AlternateFails, Fails
  <2>3. Attempts'  BY <1>5, <1>b DEF TypeOK, Attempts, AlternateFails, Fails
  <2>4. Window'
    <3> SUFFICES ASSUME Outdated' PROVE lag' <= Timeout /\ (cl' => lag' + clTimer' <= Timeout)
      BY <1>5 DEF Window, AlternateFails
    <3>1. Other(pref) \in speaks
      BY <1>5, <1>b DEF TypeOK, Attempts, AlternateFails
    <3>2. CASE Other(pref) \notin always
      BY <1>5, <3>1, <3>2 DEF TypeOK, Attempts, AlternateFails, Fails
    <3>3. CASE lag' = 0
      BY <1>5, <3>3 DEF TypeOK, AlternateFails
    <3> QED  BY <1>5, <3>2, <3>3 DEF AlternateFails, Fails
  <2> QED  BY <2>1, <2>2, <2>3, <2>4 DEF IInv
<1>6. ASSUME BeaconDone PROVE IInv'
  <2>1. TypeOK'  BY <1>6, <1>b DEF TypeOK, BeaconDone
  <2>2. Counted'  BY <1>6 DEF TypeOK, Counted, BeaconDone
  <2>3. Attempts'  BY <1>6, <1>b DEF TypeOK, Attempts, BeaconDone
  <2>4. Window'  BY <1>6, <1>b DEF TypeOK, Attempts, Window, BeaconDone
  <2> QED  BY <2>1, <2>2, <2>3, <2>4 DEF IInv
<1>7. ASSUME ProbeDone PROVE IInv'
  <2>1. TypeOK'  BY <1>7, <1>b DEF TypeOK, ProbeDone
  <2>2. Counted'  BY <1>7 DEF TypeOK, Counted, ProbeDone
  <2>3. Attempts'  BY <1>7, <1>b DEF TypeOK, Attempts, ProbeDone
  <2>4. Window'  BY <1>7, <1>b DEF TypeOK, Attempts, Window, ProbeDone
  <2> QED  BY <2>1, <2>2, <2>3, <2>4 DEF IInv
<1>8. ASSUME Poll PROVE IInv'
  <2>1. TypeOK'  BY <1>8, <1>b DEF TypeOK, Poll, Attempt
  <2>2. Counted'  BY <1>8 DEF TypeOK, Counted, Poll, Attempt
  <2>3. Attempts'  BY <1>8, <1>b DEF TypeOK, Attempts, Poll, Attempt
  <2>4. Window'  BY <1>8, <1>b DEF TypeOK, Attempts, Window, Poll, Attempt
  <2> QED  BY <2>1, <2>2, <2>3, <2>4 DEF IInv
<1>9. ASSUME Stop PROVE IInv'
  <2>1. TypeOK'
    <3>1. timer \in 0..(Interval + Timeout)  BY DEF TypeOK
    <3> QED  BY <1>9, <3>1 DEF TypeOK, Stop
  <2>2. Counted'  BY <1>9 DEF TypeOK, Counted, Stop
  <2>3. Attempts'  BY <1>9, <1>b DEF TypeOK, Attempts, Stop
  <2>4. Window'  BY <1>9, <1>b DEF TypeOK, Attempts, Window, Stop
  <2> QED  BY <2>1, <2>2, <2>3, <2>4 DEF IInv
<1>10. ASSUME Tick PROVE IInv'
  <2>1. TypeOK'  BY <1>10, <1>b DEF TypeOK, Tick, Due
  <2>2. Counted'  BY <1>10 DEF TypeOK, Counted, Tick, Due
  <2>3. Attempts'  BY <1>10, <1>b DEF TypeOK, Attempts, Tick, Due
  <2>4. Window'  BY <1>10, <1>b DEF TypeOK, Attempts, Window, Tick, Due
  <2> QED  BY <2>1, <2>2, <2>3, <2>4 DEF IInv
<1>11. ASSUME NEW r \in Requests, Arrive(r) PROVE IInv'
  <2>1. TypeOK'  BY <1>11, <1>b DEF TypeOK, Arrive, Step
  <2>2. Counted'  BY <1>11 DEF TypeOK, Counted, Arrive, Step
  <2>3. Attempts'  BY <1>11, <1>b DEF TypeOK, Attempts, Arrive, Step
  <2>4. Window'  BY <1>11, <1>b DEF TypeOK, Attempts, Window, Arrive, Step
  <2> QED  BY <2>1, <2>2, <2>3, <2>4 DEF IInv
<1>12. ASSUME NEW r \in Requests, Forward(r) PROVE IInv'
  <2>1. TypeOK'  BY <1>12, <1>b DEF TypeOK, Forward, Step
  <2>2. Counted'  BY <1>12 DEF TypeOK, Counted, Forward, Step
  <2>3. Attempts'  BY <1>12, <1>b DEF TypeOK, Attempts, Forward, Step
  <2>4. Window'  BY <1>12, <1>b DEF TypeOK, Attempts, Window, Forward, Step
  <2> QED  BY <2>1, <2>2, <2>3, <2>4 DEF IInv
<1>13. ASSUME NEW r \in Requests, Deliver(r) PROVE IInv'
  <2>1. TypeOK'  BY <1>13, <1>b DEF TypeOK, Deliver, Step
  <2>2. Counted'  BY <1>13 DEF TypeOK, Counted, Deliver, Step
  <2>3. Attempts'  BY <1>13, <1>b DEF TypeOK, Attempts, Deliver, Step
  <2>4. Window'  BY <1>13, <1>b DEF TypeOK, Attempts, Window, Deliver, Step
  <2> QED  BY <2>1, <2>2, <2>3, <2>4 DEF IInv
<1>14. ASSUME NEW r \in Requests, Answer(r) PROVE IInv'
  <2>1. TypeOK'  BY <1>14, <1>b DEF TypeOK, Answer, Step
  <2>2. Counted'  BY <1>14 DEF TypeOK, Counted, Answer, Step
  <2>3. Attempts'  BY <1>14, <1>b DEF TypeOK, Attempts, Answer, Step
  <2>4. Window'  BY <1>14, <1>b DEF TypeOK, Attempts, Window, Answer, Step
  <2> QED  BY <2>1, <2>2, <2>3, <2>4 DEF IInv
<1>15. ASSUME NEW r \in Requests, BadGateway(r) PROVE IInv'
  <2>1. TypeOK'  BY <1>15, <1>b DEF TypeOK, BadGateway, Step
  <2>2. Counted'  BY <1>15 DEF TypeOK, Counted, BadGateway, Step
  <2>3. Attempts'  BY <1>15, <1>b DEF TypeOK, Attempts, BadGateway, Step
  <2>4. Window'  BY <1>15, <1>b DEF TypeOK, Attempts, Window, BadGateway, Step
  <2> QED  BY <2>1, <2>2, <2>3, <2>4 DEF IInv
<1>16. ASSUME UNCHANGED vars PROVE IInv'
  BY <1>16 DEF IInv, TypeOK, Counted, Attempts, Window, vars
<1> QED  BY <1>1, <1>2, <1>3, <1>4, <1>5, <1>6, <1>7, <1>8, <1>9, <1>10, <1>11, <1>12, <1>13, <1>14, <1>15, <1>16 DEF Next, Poller, Request, Stutter

\* Invariance: from the initial state, step by step.
THEOREM Invariant == Spec => []IInv
<1> QED  BY InitInv, StepInv, PTL DEF Spec

\* Type correctness (health.rs 417-449, proxy.rs 411-454).
THEOREM TypeCorrect == Spec => []TypeOK
<1>1. IInv => TypeOK  BY DEF IInv
<1> QED  BY <1>1, Invariant, PTL

\* No call reaches the upstream twice (proxy.rs 411-449).
THEOREM NoDoubleSend == Spec => []AtMostOnce
<1>1. IInv => AtMostOnce  BY DEF IInv, Counted, AtMostOnce
<1> QED  BY <1>1, Invariant, PTL

\* A request goes out on a dead transport only while the poller cannot know
\* (health.rs 418-449 and 527-536, proxy.rs 417-420).
THEOREM BoundedWindow == Spec => MismatchWindow
<1> DEFINE Bounded == \A r \in Requests : Mismatched(r) => lag <= MaxLag \/ poll = "stopped"
<1>1. IInv /\ [Next]_vars => [Bounded]_vars
  <2> SUFFICES ASSUME TypeOK, Attempts, Window, Next, NEW r \in Requests, Mismatched(r)
               PROVE lag <= MaxLag \/ poll = "stopped"
    BY DEF IInv
  <2>1. Forward(r)
    BY DEF Next, Poller, Request, Mismatched, TypeOK, Stutter, vars, Change, PrimaryAnswers, PrimaryFails,
           AlternateAnswers, AlternateFails, BeaconDone, ProbeDone, Poll, Stop, Tick, Arrive,
           Forward, Deliver, Answer, BadGateway, Step
  <2>2. via'[r] = verdict  BY <2>1 DEF Forward, TypeOK
  <2>3. Outdated /\ poll # "off"  BY <2>2 DEF Mismatched, Attempts
  <2> QED  BY <2>3 DEF TypeOK, Window
<1> QED  BY <1>1, Invariant, PTL DEF Spec, MismatchWindow

\* The verdict moves on evidence only (health.rs 420-447).
THEOREM JustifiedSwitch == Spec => SwitchJustified
<1> DEFINE Justified == verdict' # verdict =>
                /\ mode = "cleartext"
                /\ verdict' \in ever
                /\ verdict \notin speaks \/ lag <= 2 * Timeout
<1>1. IInv /\ [Next]_vars => [Justified]_vars
  <2> SUFFICES ASSUME TypeOK, Attempts, Next, verdict' # verdict
               PROVE Justified
    BY DEF IInv
  <2>1. AlternateAnswers
    BY DEF Next, Poller, Request, Stutter, vars, Change, PrimaryAnswers, PrimaryFails, AlternateAnswers,
           AlternateFails, BeaconDone, ProbeDone, Poll, Stop, Tick, Arrive, Forward, Deliver,
           Answer, BadGateway
  <2> QED  BY <2>1 DEF AlternateAnswers, Answers, TypeOK, Attempts
<1> QED  BY <1>1, Invariant, PTL DEF Spec, SwitchJustified
=============================================================================
