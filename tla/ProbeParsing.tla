---------------------------- MODULE ProbeParsing ----------------------------
(***************************************************************************)
(* The data of a poll: from the execution layer's batch answer and the two *)
(* Beacon answers to what /healthz and /readyz say of them while the clock *)
(* runs on, and to the gauges (src/src/health.rs).                         *)
(*                                                                         *)
(* A result is a set: {v} for Ok(v) and {} for an error, and so is a field *)
(* of a report that may be left out.  An entry of the batch is its id and  *)
(* what it holds: the value of one of the three calls, or nothing that     *)
(* decodes (an error object, a null, a malformed quantity).  A value       *)
(* decodes under its own call only.  Which instant serves which probe is   *)
(* the matter of Readiness.                                                *)
(***************************************************************************)
EXTENDS Naturals, Sequences

CONSTANTS
    Width,      \* bits of an unsigned integer
    Counts,     \* the peers and distances that the upstreams answer
    Heights,    \* the block numbers they answer
    Times,      \* the block timestamps
    Slots,      \* the head slots
    Geneses,    \* values of the beacon chain's genesis time
    SlotTime,   \* seconds per slot
    MaxAge,     \* the greatest age that is fresh under --readyz-strict
    Start, End, \* bounds of the clock, which runs after the last poll
    MaxPolls    \* bound on polls

Top  == 2^Width - 1
Word == 0..Top

ASSUME ProbeAssumption ==
    /\ Width \in Nat /\ 2^Width \in Nat \ {0}
    /\ Counts \subseteq Word /\ Heights \subseteq Word /\ Times \subseteq Word
    /\ Slots \subseteq Word /\ Geneses \subseteq Word
    /\ SlotTime \in Word /\ MaxAge \in Word
    /\ Start \in Word /\ End \in Word
    /\ MaxPolls \in Nat \ {0}

VARIABLES
    genesis,    \* cl_genesis_time
    now,        \* the clock, in seconds
    stage,      \* where the poll is, or "served"
    arr,        \* the entries of the batch answer
    next,       \* the entry that parse_el_batch looks at
    slots,      \* the entry that it has found for each call
    el, cl,     \* the results of each upstream's calls
    gauges,     \* the gauges of the signals
    polls

parser == <<stage, arr, next, slots>>
vars == <<genesis, now, parser, el, cl, gauges, polls>>

Calls == {"syncing", "peers", "block"}
Id == [syncing |-> 1, peers |-> 2, block |-> 3]     \* EL_BATCH_REQ

\* Id 0 stands for every id that was not asked.
Entries == [id : 0..3, holds : Calls \cup {"nothing"}]
NoEntries == [c \in Calls |-> {}]

Option(S) == {{}} \cup {{x} : x \in S}
SyncValues == [is : {"synced", "syncing"}, current : {0}, highest : {0}]
                  \cup [is : {"progress"}, current : Heights, highest : Heights]
Blocks     == [number : Heights, timestamp : Times]
Statuses   == [slot : Slots, distance : Counts, syncing : BOOLEAN]
ElResults  == [syncing : Option(SyncValues), peers : Option(Counts), block : Option(Blocks)]
ClResults  == [status : Option(Statuses), peers : Option(Counts)]
NoEl == [syncing |-> {}, peers |-> {}, block |-> {}]
NoCl == [status |-> {}, peers |-> {}]

TypeOK ==
    /\ genesis \in Geneses /\ now \in Word
    /\ stage \in {"asking", "slotting", "joining", "served"}
    /\ arr \in Seq(Entries) /\ Len(arr) <= 3 /\ next \in 1..4
    /\ slots \in [Calls -> SUBSET Entries]
    /\ el \in ElResults /\ cl \in ClResults
    /\ gauges \in [elPeers : Word, clPeers : Word, elDistance : Word, clDistance : Word,
                   block : Option(Word), slot : Option(Word)]
    /\ polls \in 0..MaxPolls

Init ==
    /\ genesis \in Geneses /\ now = Start
    /\ stage = "asking" /\ arr = <<>> /\ next = 1 /\ slots = NoEntries
    /\ el = NoEl /\ cl = NoCl
    /\ gauges = [elPeers |-> 0, clPeers |-> 0, elDistance |-> 0, clDistance |-> 0,
                 block |-> {}, slot |-> {}]
    /\ polls = 0

(***************************************************************************)
(* Arithmetic of unsigned words.                                           *)
(***************************************************************************)

SatSub(a, b) == IF b > a THEN 0 ELSE a - b
Saturate(n)  == IF n > Top THEN Top ELSE n

BlockAge(b) == SatSub(now, b.timestamp)

\* Mutant: the expected time of a slot wraps.
SlotAgeWraps(s) == SatSub(now, (genesis + s.slot * SlotTime) % (Top + 1))

SlotAge(s) == SatSub(now, Saturate(genesis + Saturate(s.slot * SlotTime)))

Distance(v) == SatSub(v.highest, v.current)

(***************************************************************************)
(* The execution layer's answer.                                           *)
(***************************************************************************)

\* One more entry of the body (external).
Write(e) == /\ stage = "asking" /\ Len(arr) < 3
            /\ arr' = Append(arr, e)
            /\ UNCHANGED <<genesis, now, stage, next, slots, el, cl, gauges, polls>>

\* No answer in time, a broken connection, an HTTP error, or a body that is not
\* an array of three objects with an integer id each: every signal fails.
FailBatch == /\ stage = "asking"
             /\ stage' = "joining" /\ arr' = <<>>
             /\ UNCHANGED <<genesis, now, next, slots, el, cl, gauges, polls>>

Parse == /\ stage = "asking" /\ Len(arr) = 3
         /\ stage' = "slotting"
         /\ UNCHANGED <<genesis, now, arr, next, slots, el, cl, gauges, polls>>

IsFor(e, c) == e.id = Id[c]

\* Mutant: a second answer to a call replaces the first.
TakenNever(c) == FALSE

Taken(c) == slots[c] # {}

\* An id that was not asked, or was answered before, spoils the whole batch.
Slot == /\ stage = "slotting" /\ next <= 3
        /\ IF \E c \in Calls : IsFor(arr[next], c) /\ ~Taken(c)
           THEN /\ slots' = [c \in Calls |-> IF IsFor(arr[next], c) THEN {arr[next]} ELSE slots[c]]
                /\ next' = next + 1
                /\ UNCHANGED stage
           ELSE /\ stage' = "joining"
                /\ UNCHANGED <<slots, next>>
        /\ UNCHANGED <<genesis, now, arr, el, cl, gauges, polls>>

Decodes(c) == \E e \in slots[c] : e.holds = c

\* Each signal is decoded by itself.
Decode ==
    /\ stage = "slotting" /\ next = 4
    /\ \E v \in SyncValues, n \in Counts, b \in Blocks :
           el' = [syncing |-> IF Decodes("syncing") THEN {v} ELSE {},
                  peers   |-> IF Decodes("peers") THEN {n} ELSE {},
                  block   |-> IF Decodes("block") THEN {b} ELSE {}]
    /\ stage' = "joining"
    /\ UNCHANGED <<genesis, now, arr, next, slots, cl, gauges, polls>>

(***************************************************************************)
(* The end of a poll, and the clock.                                       *)
(***************************************************************************)

ValueOr0(r) == IF r = {} THEN 0 ELSE CHOOSE n \in r : TRUE

\* Mutant: a failed signal leaves its gauge as it was.
SetGaugesSticky(e, c) ==
    gauges' = [gauges EXCEPT
        !.elPeers = IF e.peers = {} THEN @ ELSE ValueOr0(e.peers),
        !.clPeers = IF c.peers = {} THEN @ ELSE ValueOr0(c.peers),
        !.elDistance = ValueOr0({Distance(v) : v \in {w \in e.syncing : w.is = "progress"}}),
        !.clDistance = ValueOr0({s.distance : s \in c.status}),
        !.block = IF e.block = {} THEN @ ELSE {b.number : b \in e.block},
        !.slot = IF c.status = {} THEN @ ELSE {s.slot : s \in c.status}]

\* update_metrics: peers and distances are 0 when unknown, numbers stay.
SetGauges(e, c) ==
    gauges' = [gauges EXCEPT
        !.elPeers = ValueOr0(e.peers),
        !.clPeers = ValueOr0(c.peers),
        !.elDistance = ValueOr0({Distance(v) : v \in {w \in e.syncing : w.is = "progress"}}),
        !.clDistance = ValueOr0({s.distance : s \in c.status}),
        !.block = IF e.block = {} THEN @ ELSE {b.number : b \in e.block},
        !.slot = IF c.status = {} THEN @ ELSE {s.slot : s \in c.status}]

\* The Beacon calls are done too, each with its value or an error.
Join == /\ stage = "joining"
        /\ \E c \in ClResults : cl' = c /\ SetGauges(el, c)
        /\ stage' = "served"
        /\ arr' = <<>> /\ next' = 1 /\ slots' = NoEntries
        /\ polls' = polls + 1
        /\ UNCHANGED <<genesis, now, el>>

Tick == /\ stage = "served" /\ polls = MaxPolls /\ now < End
        /\ now' = now + 1
        /\ UNCHANGED <<genesis, parser, el, cl, gauges, polls>>

Again == /\ stage = "served" /\ polls < MaxPolls
         /\ stage' = "asking"
         /\ el' = NoEl /\ cl' = NoCl
         /\ UNCHANGED <<genesis, now, arr, next, slots, gauges, polls>>

\* The last poll's report is served for good.
Stutter == stage = "served" /\ polls = MaxPolls /\ now >= End /\ UNCHANGED vars

Next == \/ \E e \in Entries : Write(e)
        \/ FailBatch \/ Parse \/ Slot \/ Decode \/ Join
        \/ Tick \/ Again \/ Stutter

Spec == Init /\ [][Next]_vars

(***************************************************************************)
(* What the handlers say.                                                  *)
(***************************************************************************)

\* /healthz: a field for each value, an entry of errors for each failure.
Healthz ==
    [elSyncing  |-> {v.is # "synced" : v \in el.syncing},
     elDistance |-> {Distance(v) : v \in {w \in el.syncing : w.is = "progress"}},
     elPeers    |-> el.peers,
     block      |-> {b.number : b \in el.block},
     blockAge   |-> {BlockAge(b) : b \in el.block},
     clSyncing  |-> {s.syncing : s \in cl.status},
     clDistance |-> {s.distance : s \in cl.status},
     clPeers    |-> cl.peers,
     slot       |-> {s.slot : s \in cl.status},
     slotAge    |-> {SlotAge(s) : s \in {t \in cl.status : genesis # 0}},
     errors     |-> {c \in Calls : el[c] = {}} \cup {c \in {"status"} : cl.status = {}}
                        \cup {c \in {"cl_peers"} : cl.peers = {}}]

BlockFresh == \E b \in el.block : BlockAge(b) <= MaxAge

\* Mutant: without a genesis time a slot is as old as the clock says.
SlotFreshUnknown == \E s \in cl.status : SlotAge(s) <= MaxAge

SlotFresh == \E s \in cl.status : genesis = 0 \/ SlotAge(s) <= MaxAge

\* /readyz, with --readyz-strict or without.
Ready(strict) == /\ \E v \in el.syncing : v.is = "synced"
                 /\ \E s \in cl.status : ~s.syncing
                 /\ strict => BlockFresh /\ SlotFresh

(***************************************************************************)
(* Properties.                                                             *)
(***************************************************************************)

\* The entry that answers call c of a well-matched batch.
Answer(c) == CHOOSE i \in 1..3 : arr[i].id = Id[c]

\* Whatever the order of the entries, each call gets its own answer and fails
\* only by its own; an id that is missing, doubled or was not asked fails all
\* three, so that no answer is ever taken for another one's (health.rs 819-863).
AnswersMatched ==
    stage = "joining" /\ arr # <<>> =>
        \A c \in Calls :
            el[c] # {} <=> /\ {arr[i].id : i \in 1..3} = 1..3
                           /\ arr[Answer(c)].holds = c

\* Where the parser stands: it has found, for each call, the entries with its
\* id among those that it has passed, of which none was unasked or a second one
\* (health.rs 819-838).
Passed == 1..(next - 1)
Slotted ==
    /\ stage \in {"asking", "served"} => slots = NoEntries /\ next = 1
    /\ stage # "served" => polls < MaxPolls
    /\ stage \in {"asking", "slotting"} => el = NoEl
    /\ stage = "served" => arr = <<>>
    /\ stage = "joining" /\ arr = <<>> => el = NoEl
    /\ stage = "joining" /\ arr # <<>> => Len(arr) = 3
    /\ stage = "slotting" =>
           /\ Len(arr) = 3
           /\ \A c \in Calls : slots[c] = {arr[i] : i \in {j \in Passed : arr[j].id = Id[c]}}
           /\ \A i \in Passed : arr[i].id # 0 /\ \A j \in Passed : i # j => arr[i].id # arr[j].id

IInv == TypeOK /\ Slotted /\ AnswersMatched

\* The age of a slot is that of integers without a width, or 0 for a head of the
\* future: a slot number that overflows ends up in the future, not in the past
\* (health.rs 640-680, 700-764).
AgesExact ==
    stage = "served" =>
        \A s \in cl.status : SlotAge(s) = SatSub(now, genesis + s.slot * SlotTime)

\* The two endpoints tell one story: strict readiness is what a consumer of
\* /healthz would conclude from its fields, an age that is left out counting as
\* no objection if the status is there (health.rs 271-325, 592-757).
EndpointsAgree ==
    stage = "served" =>
        LET h == Healthz IN
        /\ Ready(FALSE) <=> FALSE \in h.elSyncing /\ FALSE \in h.clSyncing
        /\ Ready(TRUE) <=> /\ Ready(FALSE)
                           /\ \E a \in h.blockAge : a <= MaxAge
                           /\ \A a \in h.slotAge : a <= MaxAge
        /\ Ready(TRUE) => h.errors \subseteq {"peers", "cl_peers"}

\* Gauges and /healthz tell one story too: what the last poll did not learn does
\* not live on as a peer count or a distance, and a number that it learnt is the
\* one on the dashboard (health.rs 460-508, 700-757).
GaugesAgree ==
    stage = "served" =>
        LET h == Healthz IN
        /\ gauges.elPeers = ValueOr0(h.elPeers) /\ gauges.clPeers = ValueOr0(h.clPeers)
        /\ gauges.elDistance = ValueOr0(h.elDistance)
        /\ gauges.clDistance = ValueOr0(h.clDistance)
        /\ h.block # {} => gauges.block = h.block
        /\ h.slot # {} => gauges.slot = h.slot
=============================================================================
