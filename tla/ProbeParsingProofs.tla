------------------------- MODULE ProbeParsingProofs -------------------------
(***************************************************************************)
(* Proofs about ProbeParsing: for words of any width, any values of the    *)
(* upstreams and any number of polls.                                      *)
(***************************************************************************)
EXTENDS ProbeParsing, TLAPS

USE DEF parser, vars

\* The greatest word is a number.
LEMMA TopNat == Top \in Nat
BY ProbeAssumption DEF Top

\* Ages and distances are words.
LEMMA SatSubWord == \A a, b \in Nat : SatSub(a, b) \in Nat /\ SatSub(a, b) <= a
BY DEF SatSub

\* What the gauges take of a result is one of its values or 0.
LEMMA OptionValue ==
    ASSUME NEW S, NEW r \in Option(S)
    PROVE  r = {} \/ (\E x \in S : r = {x} /\ ValueOr0(r) = x)
BY DEF Option, ValueOr0

LEMMA WordOr0 ==
    ASSUME NEW r \in Option(Word)
    PROVE  ValueOr0(r) \in Word
BY TopNat, OptionValue DEF Word, ValueOr0, Option

\* The initial state is one of the invariant's.
LEMMA InvInit == Init => IInv
<1> SUFFICES ASSUME Init PROVE IInv
  OBVIOUS
<1>1. TypeOK
  BY ProbeAssumption, TopNat
     DEF Init, TypeOK, NoEntries, NoEl, NoCl, ElResults, ClResults, Option, Word, Calls
<1>2. Slotted /\ AnswersMatched
  BY ProbeAssumption DEF Init, Slotted, AnswersMatched
<1> QED
  BY <1>1, <1>2 DEF IInv

\* A batch of three is a function.
LEMMA Batch ==
    ASSUME TypeOK, Len(arr) = 3
    PROVE  arr \in [1..3 -> Entries]
<1>1. arr \in Seq(Entries)
  BY DEF TypeOK
<1> QED
  BY <1>1

\* A batch gets no result unless its ids are those of the three calls.
LEMMA SlotMatches ==
    ASSUME TypeOK, Slotted, Slot, stage' = "joining"
    PROVE  {arr[i].id : i \in 1..3} # 1..3
<1>1. /\ next \in 1..3 /\ Len(arr) = 3
      /\ arr \in [1..3 -> Entries]
      /\ ~\E c \in Calls : arr[next].id = Id[c] /\ slots[c] = {}
  <2>1. next \in 1..3 /\ Len(arr) = 3
    BY DEF Slot, TypeOK, Slotted
  <2>2. ~\E c \in Calls : arr[next].id = Id[c] /\ slots[c] = {}
    BY DEF Slot, IsFor, Taken
  <2> QED
    BY <2>1, <2>2, Batch
<1>2. \A i \in 1..3 : arr[i].id \in 0..3
  BY <1>1 DEF Entries
<1>3. \A j \in 1..3 : \E c \in Calls : Id[c] = j
  BY DEF Calls, Id
<1>4. arr[next].id = 0 \/ \E j \in 1..(next - 1) : arr[j].id = arr[next].id
  <2> SUFFICES ASSUME arr[next].id # 0
               PROVE  \E j \in 1..(next - 1) : arr[j].id = arr[next].id
    OBVIOUS
  <2>1. PICK c \in Calls : Id[c] = arr[next].id
    BY <1>1, <1>2, <1>3
  <2>2. slots[c] # {}
    BY <1>1, <2>1
  <2>3. slots[c] = {arr[i] : i \in {j \in Passed : arr[j].id = Id[c]}}
    BY DEF Slotted, Slot
  <2> QED
    BY <2>1, <2>2, <2>3 DEF Passed
<1>5. SUFFICES ASSUME {arr[i].id : i \in 1..3} = 1..3 PROVE FALSE
  OBVIOUS
<1>6. /\ arr[1].id \in 1..3 /\ arr[2].id \in 1..3 /\ arr[3].id \in 1..3
      /\ 1 \in {arr[1].id, arr[2].id, arr[3].id}
      /\ 2 \in {arr[1].id, arr[2].id, arr[3].id}
      /\ 3 \in {arr[1].id, arr[2].id, arr[3].id}
  <2>1. 1 \in 1..3 /\ 2 \in 1..3 /\ 3 \in 1..3
    OBVIOUS
  <2>2. \A i \in 1..3 : i = 1 \/ i = 2 \/ i = 3
    OBVIOUS
  <2> QED
    BY <1>5, <2>1, <2>2
<1>7. arr[1].id # arr[2].id /\ arr[1].id # arr[3].id /\ arr[2].id # arr[3].id
  BY <1>6
<1>8. \A j \in 1..(next - 1) : arr[j].id # arr[next].id
  <2> SUFFICES ASSUME NEW j \in 1..(next - 1) PROVE arr[j].id # arr[next].id
    OBVIOUS
  <2>1. \/ next = 2 /\ j = 1
        \/ next = 3 /\ (j = 1 \/ j = 2)
    BY <1>1
  <2> QED
    BY <1>7, <2>1
<1>9. arr[next].id # 0
  <2>1. next = 1 \/ next = 2 \/ next = 3
    BY <1>1
  <2> QED
    BY <1>6, <2>1
<1> QED
  BY <1>4, <1>8, <1>9

\* Each signal decodes the one entry that answers its call.
LEMMA DecodeMatches ==
    ASSUME TypeOK, Slotted, stage = "slotting", next = 4
    PROVE  /\ {arr[i].id : i \in 1..3} = 1..3
           /\ \A c \in Calls : Decodes(c) <=> arr[Answer(c)].holds = c
<1>1. /\ arr \in [1..3 -> Entries] /\ Passed = 1..3
      /\ \A i \in 1..3 : arr[i].id \in 1..3
      /\ \A i, j \in 1..3 : i # j => arr[i].id # arr[j].id
      /\ \A c \in Calls : slots[c] = {arr[i] : i \in {j \in 1..3 : arr[j].id = Id[c]}}
  <2>1. /\ Passed = 1..3 /\ Len(arr) = 3
        /\ \A c \in Calls : slots[c] = {arr[i] : i \in {j \in Passed : arr[j].id = Id[c]}}
        /\ \A i \in Passed : arr[i].id # 0 /\ \A j \in Passed : i # j => arr[i].id # arr[j].id
    BY DEF Slotted, Passed
  <2>2. arr \in [1..3 -> Entries]
    BY <2>1, Batch
  <2>3. \A i \in 1..3 : arr[i].id \in 0..3
    BY <2>2 DEF Entries
  <2>4. \A i \in 1..3 : arr[i].id \in 1..3
    BY <2>1, <2>3
  <2> QED
    BY <2>1, <2>2, <2>4
<1>2. \A n \in 1..3 : \E i \in 1..3 : arr[i].id = n
  <2>1. \A n \in 1..3 : n = 1 \/ n = 2 \/ n = 3
    OBVIOUS
  <2>2. 1 \in 1..3 /\ 2 \in 1..3 /\ 3 \in 1..3
    OBVIOUS
  <2>3. /\ arr[1].id \in {1, 2, 3} /\ arr[2].id \in {1, 2, 3} /\ arr[3].id \in {1, 2, 3}
        /\ arr[1].id # arr[2].id /\ arr[1].id # arr[3].id /\ arr[2].id # arr[3].id
    BY <1>1, <2>1, <2>2
  <2>4. \A n \in {1, 2, 3} : arr[1].id = n \/ arr[2].id = n \/ arr[3].id = n
    BY <2>3
  <2> QED
    BY <2>1, <2>2, <2>4
<1>3. {arr[i].id : i \in 1..3} = 1..3
  BY <1>1, <1>2
<1>4. ASSUME NEW c \in Calls PROVE Decodes(c) <=> arr[Answer(c)].holds = c
  <2>1. Id[c] \in 1..3
    BY DEF Id, Calls
  <2>2. Answer(c) \in 1..3 /\ arr[Answer(c)].id = Id[c]
    BY <1>2, <2>1 DEF Answer
  <2>3. \A i \in 1..3 : arr[i].id = Id[c] => i = Answer(c)
    BY <1>1, <2>2
  <2>4. slots[c] = {arr[Answer(c)]}
    BY <1>1, <2>2, <2>3
  <2> QED
    BY <2>4 DEF Decodes
<1> QED
  BY <1>3, <1>4

\* A step of the parser finds what Slotted says.
LEMMA SlottedStep ==
    ASSUME TypeOK, Slotted, [Next]_vars
    PROVE  Slotted'
<1>1. ASSUME NEW e \in Entries, Write(e) PROVE Slotted'
  BY <1>1 DEF Write, Slotted, TypeOK, Passed
<1>2. CASE FailBatch
  BY <1>2 DEF FailBatch, Slotted, Passed
<1>3. CASE Parse
  BY <1>3 DEF Parse, Slotted, Passed, NoEntries, TypeOK
<1>4. CASE Slot
  <2>1. CASE stage' = "joining"
    BY <1>4, <2>1 DEF Slot, Slotted
  <2>2. CASE stage' # "joining"
    <3>1. PICK c \in Calls : IsFor(arr[next], c) /\ ~Taken(c)
      BY <1>4, <2>2 DEF Slot
    <3>2. /\ stage = "slotting" /\ next \in 1..3 /\ next' = next + 1 /\ Len(arr) = 3
          /\ slots' = [d \in Calls |-> IF IsFor(arr[next], d) THEN {arr[next]} ELSE slots[d]]
          /\ UNCHANGED <<stage, arr, el, polls>>
      BY <1>4, <3>1 DEF Slot, Slotted, TypeOK
    <3>3. Passed' = Passed \cup {next} /\ next \notin Passed
      BY <3>2 DEF Passed
    <3>4. \A d, f \in Calls : Id[d] = Id[f] => d = f
      BY DEF Id, Calls
    <3>5. \A d \in Calls : slots'[d] = {arr[i] : i \in {j \in Passed' : arr[j].id = Id[d]}}
      <4> SUFFICES ASSUME NEW d \in Calls
                   PROVE  slots'[d] = {arr[i] : i \in {j \in Passed' : arr[j].id = Id[d]}}
        OBVIOUS
      <4>1. slots[d] = {arr[i] : i \in {j \in Passed : arr[j].id = Id[d]}}
        BY <3>2 DEF Slotted
      <4>2. CASE d = c
        BY <3>1, <3>2, <3>3, <4>1, <4>2 DEF IsFor, Taken
      <4>3. CASE d # c
        BY <3>1, <3>2, <3>3, <3>4, <4>1, <4>3 DEF IsFor
      <4> QED
        BY <4>2, <4>3
    <3>6. \A i \in Passed : arr[i].id # arr[next].id
      BY <3>1, <3>2 DEF IsFor, Taken, Slotted
    <3>7. arr[next].id # 0
      BY <3>1 DEF IsFor, Id, Calls
    <3>8. \A i \in Passed' : arr[i].id # 0 /\ \A j \in Passed' : i # j => arr[i].id # arr[j].id
      BY <3>2, <3>3, <3>6, <3>7 DEF Slotted
    <3> QED
      BY <3>2, <3>5, <3>8 DEF Slotted
  <2> QED
    BY <2>1, <2>2
<1>5. CASE Decode
  BY <1>5 DEF Decode, Slotted
<1>6. CASE Join
  BY <1>6 DEF Join, Slotted
<1>7. CASE Tick \/ Again \/ UNCHANGED vars
  BY <1>7 DEF Tick, Again, Slotted, Passed
<1> QED
  BY <1>1, <1>2, <1>3, <1>4, <1>5, <1>6, <1>7 DEF Next, Stutter

\* No step gives a call what is not its own answer.
LEMMA MatchedStep ==
    ASSUME TypeOK, Slotted, AnswersMatched, [Next]_vars
    PROVE  AnswersMatched'
<1>1. CASE Slot /\ stage' = "joining"
  <2>1. {arr[i].id : i \in 1..3} # 1..3
    BY <1>1, SlotMatches
  <2>2. UNCHANGED <<arr, el>> /\ \A c \in Calls : el[c] = {}
    BY <1>1 DEF Slot, Slotted, NoEl, Calls
  <2> QED
    BY <2>1, <2>2 DEF AnswersMatched
<1>2. CASE Decode
  <2>1. /\ {arr[i].id : i \in 1..3} = 1..3
        /\ \A c \in Calls : Decodes(c) <=> arr[Answer(c)].holds = c
    BY <1>2, DecodeMatches DEF Decode
  <2>2. UNCHANGED arr /\ \A c \in Calls : el'[c] # {} <=> Decodes(c)
    BY <1>2 DEF Decode, Calls
  <2>3. \A c \in Calls : Answer(c)' = Answer(c)
    BY <2>2 DEF Answer
  <2> QED
    BY <2>1, <2>2, <2>3 DEF AnswersMatched
<1>3. CASE FailBatch
  BY <1>3 DEF FailBatch, AnswersMatched
<1>4. CASE stage' # "joining"
  BY <1>4 DEF AnswersMatched
<1>5. CASE UNCHANGED vars
  <2>1. \A c \in Calls : Answer(c)' = Answer(c)
    BY <1>5 DEF Answer
  <2>2. UNCHANGED <<stage, arr, el>>
    BY <1>5
  <2>3. ASSUME stage = "joining", arr # <<>>, NEW c \in Calls
        PROVE  el[c] # {} <=> /\ {arr[i].id : i \in 1..3} = 1..3
                              /\ arr[Answer(c)].holds = c
    BY <2>3 DEF AnswersMatched
  <2>4. ASSUME stage' = "joining", arr' # <<>>, NEW c \in Calls
        PROVE  el'[c] # {} <=> /\ {arr'[i].id : i \in 1..3} = 1..3
                               /\ arr'[Answer(c)'].holds = c
    <3>1. {arr'[i].id : i \in 1..3} = {arr[i].id : i \in 1..3}
      BY <2>2
    <3>2. arr'[Answer(c)'] = arr[Answer(c)]
      BY <2>1, <2>2
    <3>3. stage = "joining" /\ arr # <<>> /\ el' = el
      BY <2>2, <2>4
    <3> QED
      BY <2>3, <3>1, <3>2, <3>3
  <2> QED
    BY <2>4 DEF AnswersMatched
<1> QED
  BY <1>1, <1>2, <1>3, <1>4, <1>5
     DEF Next, Write, Parse, Slot, Join, Tick, Again, Stutter


(***************************************************************************)
(* Types.                                                                  *)
(***************************************************************************)

\* What the gauges are set to are words.
LEMMA GaugesType ==
    ASSUME TypeOK, NEW c \in ClResults, SetGauges(el, c)
    PROVE  gauges' \in [elPeers : Word, clPeers : Word, elDistance : Word, clDistance : Word,
                        block : Option(Word), slot : Option(Word)]
<1> USE ProbeAssumption, TopNat
<1>1. el.peers \in Option(Word) /\ c.peers \in Option(Word)
  BY DEF TypeOK, ElResults, ClResults, Option
<1>2. {Distance(v) : v \in {w \in el.syncing : w.is = "progress"}} \in Option(Word)
  <2>1. \A v \in SyncValues : v.highest \in Word /\ v.current \in Word
    <3>1. 0 \in Word
      BY DEF Word
    <3> QED
      BY <3>1 DEF SyncValues
  <2>2. \A v \in SyncValues : Distance(v) \in Word
    <3> SUFFICES ASSUME NEW v \in SyncValues PROVE Distance(v) \in Word
      OBVIOUS
    <3>1. v.highest \in Nat /\ v.highest <= Top /\ v.current \in Nat
      BY <2>1 DEF Word
    <3> QED
      BY <3>1, SatSubWord DEF Distance, Word, SatSub
  <2>3. el.syncing \in Option(SyncValues)
    BY DEF TypeOK, ElResults
  <2>4. CASE el.syncing = {}
    BY <2>4 DEF Option
  <2>5. ASSUME NEW v \in SyncValues, el.syncing = {v}
        PROVE  {Distance(x) : x \in {w \in el.syncing : w.is = "progress"}} \in Option(Word)
    <3>1. CASE v.is = "progress"
      <4>1. {w \in el.syncing : w.is = "progress"} = {v}
        BY <2>5, <3>1
      <4>2. {Distance(x) : x \in {v}} = {Distance(v)}
        OBVIOUS
      <4> QED
        BY <2>2, <4>1, <4>2 DEF Option
    <3>2. CASE v.is # "progress"
      <4>1. {w \in el.syncing : w.is = "progress"} = {}
        BY <2>5, <3>2
      <4> QED
        BY <4>1 DEF Option
    <3> QED
      BY <3>1, <3>2
  <2> QED
    BY <2>3, <2>4, <2>5 DEF Option
<1>3. /\ {s.distance : s \in c.status} \in Option(Word)
      /\ {s.slot : s \in c.status} \in Option(Word)
  <2>1. \A s \in Statuses : s.distance \in Word /\ s.slot \in Word
    BY DEF Statuses
  <2>2. c.status \in Option(Statuses)
    BY DEF ClResults
  <2> QED
    BY <2>1, <2>2 DEF Option
<1>4. {b.number : b \in el.block} \in Option(Word)
  <2>1. \A b \in Blocks : b.number \in Word
    BY DEF Blocks
  <2>2. el.block \in Option(Blocks)
    BY DEF TypeOK, ElResults
  <2> QED
    BY <2>1, <2>2 DEF Option
<1>5. /\ ValueOr0(el.peers) \in Word /\ ValueOr0(c.peers) \in Word
      /\ ValueOr0({Distance(v) : v \in {w \in el.syncing : w.is = "progress"}}) \in Word
      /\ ValueOr0({s.distance : s \in c.status}) \in Word
  BY <1>1, <1>2, <1>3, WordOr0
<1> QED
  BY <1>3, <1>4, <1>5 DEF SetGauges, TypeOK

\* The decoded results are results.
LEMMA DecodeType == ASSUME Decode PROVE el' \in ElResults
BY DEF Decode, ElResults, Option

\* Values stay in their sets.
LEMMA TypeStep ==
    ASSUME TypeOK, Slotted, [Next]_vars
    PROVE  TypeOK'
<1> USE ProbeAssumption, TopNat
<1>1. ASSUME NEW e \in Entries, Write(e) PROVE TypeOK'
  <2>1. arr' \in Seq(Entries) /\ Len(arr') = Len(arr) + 1 /\ Len(arr) \in Nat /\ Len(arr) < 3
    BY <1>1 DEF Write, TypeOK
  <2> QED
    BY <1>1, <2>1 DEF Write, TypeOK
<1>2. CASE FailBatch \/ Parse
  <2>1. arr' \in Seq(Entries) /\ Len(arr') <= 3
    <3>1. CASE arr' = <<>>
      BY <3>1
    <3>2. CASE arr' = arr
      BY <3>2 DEF TypeOK
    <3> QED
      BY <1>2, <3>1, <3>2 DEF FailBatch, Parse
  <2> QED
    BY <1>2, <2>1 DEF FailBatch, Parse, TypeOK
<1>3. CASE Slot
  <2>1. next \in 1..3 /\ arr[next] \in Entries /\ slots \in [Calls -> SUBSET Entries]
    <3>1. next \in 1..3 /\ Len(arr) = 3
      BY <1>3 DEF Slot, Slotted, TypeOK
    <3>2. slots \in [Calls -> SUBSET Entries]
      BY DEF TypeOK
    <3> QED
      BY <3>1, <3>2, Batch
  <2>2. slots' \in [Calls -> SUBSET Entries] /\ next' \in 1..4
    BY <1>3, <2>1 DEF Slot
  <2> QED
    BY <1>3, <2>2 DEF Slot, TypeOK
<1>4. CASE Decode
  BY <1>4, DecodeType DEF Decode, TypeOK
<1>5. CASE Join
  <2>1. PICK c \in ClResults : cl' = c /\ SetGauges(el, c)
    BY <1>5 DEF Join
  <2>2. /\ arr' \in Seq(Entries) /\ Len(arr') <= 3 /\ next' \in 1..4
        /\ slots' \in [Calls -> SUBSET Entries]
    BY <1>5 DEF Join, NoEntries
  <2>3. polls' \in 0..MaxPolls
    BY <1>5 DEF Join, Slotted, TypeOK
  <2> QED
    BY <1>5, <2>1, <2>2, <2>3, GaugesType DEF Join, TypeOK
<1>6. CASE Tick
  <2>1. now' \in Word
    BY <1>6 DEF Tick, TypeOK, Word
  <2> QED
    BY <1>6, <2>1 DEF Tick, TypeOK
<1>7. CASE Again
  <2>1. el' \in ElResults /\ cl' \in ClResults
    BY <1>7 DEF Again, NoEl, NoCl, ElResults, ClResults, Option
  <2> QED
    BY <1>7, <2>1 DEF Again, TypeOK
<1>8. CASE UNCHANGED vars
  BY <1>8 DEF TypeOK
<1> QED
  BY <1>1, <1>2, <1>3, <1>4, <1>5, <1>6, <1>7, <1>8 DEF Next, Stutter

(***************************************************************************)
(* The theorems.                                                           *)
(***************************************************************************)

\* The inductive invariant: types, where the parser stands, and the matching.
THEOREM Invariant == Spec => []IInv
<1>1. IInv /\ [Next]_vars => IInv'
  BY TypeStep, SlottedStep, MatchedStep DEF IInv
<1> QED
  BY InvInit, <1>1, PTL DEF Spec

\* No call is ever given the answer of another one.
THEOREM Matched == Spec => []AnswersMatched
<1>1. IInv => AnswersMatched
  BY DEF IInv
<1> QED
  BY <1>1, Invariant, PTL

\* Saturation loses nothing that a clock of the same width could show.
LEMMA SaturationExact ==
    ASSUME NEW a \in Word, NEW g \in Nat, NEW n \in Nat
    PROVE  SatSub(a, Saturate(g + Saturate(n))) = SatSub(a, g + n)
<1> a \in Nat /\ Top \in Nat /\ a <= Top
  BY TopNat DEF Word
<1>1. CASE n > Top
  BY <1>1 DEF SatSub, Saturate
<1>2. CASE n <= Top
  BY <1>2 DEF SatSub, Saturate
<1> QED
  BY <1>1, <1>2

\* The age of a slot is exact at every width.
THEOREM Ages == Spec => []AgesExact
<1>1. IInv => AgesExact
  <2> SUFFICES ASSUME TypeOK, NEW s \in cl.status
               PROVE  SlotAge(s) = SatSub(now, genesis + s.slot * SlotTime)
    BY DEF IInv, AgesExact
  <2>1. s \in Statuses
    BY DEF TypeOK, ClResults, Option
  <2>2. s.slot \in Nat /\ SlotTime \in Nat /\ genesis \in Nat /\ now \in Word
    <3>1. Word \subseteq Nat
      BY TopNat DEF Word
    <3> QED
      BY <2>1, <3>1, ProbeAssumption DEF Statuses, TypeOK
  <2>3. s.slot * SlotTime \in Nat
    BY <2>2
  <2> QED
    BY <2>2, <2>3, SaturationExact DEF SlotAge
<1> QED
  BY <1>1, Invariant, PTL

\* Strict readiness is what the fields of /healthz say.
THEOREM Endpoints == Spec => []EndpointsAgree
<1>1. IInv => EndpointsAgree
  <2> SUFFICES ASSUME TypeOK PROVE EndpointsAgree
    BY DEF IInv
  <2> DEFINE h == Healthz
  <2>1. /\ el.syncing = {} \/ \E v : el.syncing = {v}
        /\ el.block = {} \/ \E b : el.block = {b}
        /\ cl.status = {} \/ \E s \in Statuses : cl.status = {s}
    BY DEF TypeOK, ElResults, ClResults, Option
  <2>2. Ready(FALSE) <=> FALSE \in h.elSyncing /\ FALSE \in h.clSyncing
    <3>1. FALSE \in h.elSyncing <=> \E v \in el.syncing : v.is = "synced"
      BY DEF Healthz
    <3>2. FALSE \in h.clSyncing <=> \E s \in cl.status : ~s.syncing
      <4>1. \A s \in cl.status : s.syncing \in BOOLEAN
        BY <2>1 DEF Statuses
      <4> QED
        BY <4>1 DEF Healthz
    <3> QED
      BY <3>1, <3>2 DEF Ready
  <2>3. BlockFresh <=> \E a \in h.blockAge : a <= MaxAge
    BY DEF BlockFresh, Healthz
  <2>4. cl.status # {} => (SlotFresh <=> \A a \in h.slotAge : a <= MaxAge)
    BY <2>1 DEF SlotFresh, Healthz
  <2>5. Ready(TRUE) <=> Ready(FALSE) /\ BlockFresh /\ SlotFresh
    BY DEF Ready
  <2>6. Ready(FALSE) => cl.status # {} /\ el.syncing # {}
    BY DEF Ready
  <2>7. BlockFresh => el.block # {}
    BY DEF BlockFresh
  <2>8. el.syncing # {} /\ el.block # {} /\ cl.status # {} => h.errors \subseteq {"peers", "cl_peers"}
    BY DEF Healthz, Calls
  <2> QED
    BY <2>2, <2>3, <2>4, <2>5, <2>6, <2>7, <2>8 DEF EndpointsAgree
<1> QED
  BY <1>1, Invariant, PTL

\* The gauges show what /healthz says.
THEOREM Gauges == Spec => []GaugesAgree
<1>1. Init => GaugesAgree
  BY DEF Init, GaugesAgree
<1>2. TypeOK /\ GaugesAgree /\ [Next]_vars => GaugesAgree'
  <2> SUFFICES ASSUME TypeOK, GaugesAgree, [Next]_vars PROVE GaugesAgree'
    OBVIOUS
  <2>1. CASE Join
    BY <2>1 DEF Join, SetGauges, GaugesAgree, Healthz, TypeOK
  <2>2. CASE Tick \/ UNCHANGED vars
    BY <2>2 DEF Tick, GaugesAgree, Healthz
  <2>3. CASE stage' # "served"
    BY <2>3 DEF GaugesAgree
  <2> QED
    BY <2>1, <2>2, <2>3 DEF Next, Write, FailBatch, Parse, Slot, Decode, Again, Stutter
<1>3. IInv => TypeOK
  BY DEF IInv
<1> QED
  BY <1>1, <1>2, <1>3, Invariant, PTL DEF Spec
=============================================================================
