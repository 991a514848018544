--------------------------- MODULE RpcMockProofs ---------------------------
(***************************************************************************)
(* Proofs about RpcMock, for bodies with any number of objects and members *)
(* and any set of ids.                                                     *)
(***************************************************************************)
EXTENDS RpcMock, TLAPS

USE RpcAssumption

\* Adding a member to an object adds the id it carries.
LEMMA HasIdAppend ==
    ASSUME NEW o \in Seq(Member), NEW m \in Member, NEW i \in Ids
    PROVE  HasId(Append(o, m), i) <=> HasId(o, i) \/ m = [key |-> "id", val |-> i]
<1> DEFINE p == Append(o, m)
<1>1. /\ Len(p) = Len(o) + 1 /\ p[Len(o) + 1] = m
      /\ \A k \in 1..Len(o) : p[k] = o[k]
      /\ Len(o) \in Nat
  OBVIOUS
<1>2. ASSUME HasId(p, i) PROVE HasId(o, i) \/ m = [key |-> "id", val |-> i]
  <2>1. PICK k \in 1..Len(p) : p[k] = [key |-> "id", val |-> i]  BY <1>2 DEF HasId
  <2>2. CASE k = Len(o) + 1  BY <1>1, <2>1, <2>2
  <2>3. CASE k # Len(o) + 1  BY <1>1, <2>1, <2>3 DEF HasId
  <2> QED  BY <2>2, <2>3
<1>3. ASSUME HasId(o, i) PROVE HasId(p, i)
  <2>1. PICK k \in 1..Len(o) : o[k] = [key |-> "id", val |-> i]  BY <1>3 DEF HasId
  <2>2. k \in 1..Len(p) /\ p[k] = [key |-> "id", val |-> i]  BY <1>1, <2>1
  <2> QED  BY <2>2 DEF HasId
<1>4. ASSUME m = [key |-> "id", val |-> i] PROVE HasId(p, i)
  <2>1. Len(o) + 1 \in 1..Len(p) /\ p[Len(o) + 1] = [key |-> "id", val |-> i]  BY <1>1, <1>4
  <2> QED  BY <2>1 DEF HasId
<1> QED  BY <1>2, <1>3, <1>4

\* Replies looks at no more than the first n objects.
LEMMA RepliesSame ==
    ASSUME NEW r, NEW b, NEW c, NEW n \in Nat, Replies(r, b, n),
           \A k \in 1..n : c[k] = b[k]
    PROVE  Replies(r, c, n)
  BY DEF Replies

\* A notification needs no reply.
LEMMA RepliesSkip ==
    ASSUME NEW r \in Seq(Ids), NEW b, NEW n \in Nat, Replies(r, b, n),
           \A x \in Ids : ~HasId(b[n + 1], x)
    PROVE  Replies(r, b, n + 1)
<1>1. PICK call \in [1..Len(r) -> 1..n] :
        /\ \A i, j \in 1..Len(r) : i < j => call[i] < call[j]
        /\ \A i \in 1..Len(r) : HasId(b[call[i]], r[i])
        /\ \A k \in 1..n : (\E x \in Ids : HasId(b[k], x)) => \E i \in 1..Len(r) : call[i] = k
  BY DEF Replies
<1>2. call \in [1..Len(r) -> 1..(n + 1)]  OBVIOUS
<1>3. \A k \in 1..(n + 1) : (\E x \in Ids : HasId(b[k], x)) => \E i \in 1..Len(r) : call[i] = k
  <2> TAKE k \in 1..(n + 1)
  <2>1. CASE k = n + 1  BY <2>1
  <2>2. CASE k # n + 1  BY <1>1, <2>2
  <2> QED  BY <2>1, <2>2
<1> QED  BY <1>1, <1>2, <1>3 DEF Replies

\* A call gets its own.
LEMMA RepliesExtend ==
    ASSUME NEW r \in Seq(Ids), NEW b, NEW n \in Nat, NEW x \in Ids,
           Replies(r, b, n), HasId(b[n + 1], x)
    PROVE  Replies(Append(r, x), b, n + 1)
<1> DEFINE s == Append(r, x)
<1>1. PICK call \in [1..Len(r) -> 1..n] :
        /\ \A i, j \in 1..Len(r) : i < j => call[i] < call[j]
        /\ \A i \in 1..Len(r) : HasId(b[call[i]], r[i])
        /\ \A k \in 1..n : (\E y \in Ids : HasId(b[k], y)) => \E i \in 1..Len(r) : call[i] = k
  BY DEF Replies
<1> DEFINE longer == [i \in 1..Len(s) |-> IF i = Len(s) THEN n + 1 ELSE call[i]]
<1>2. /\ Len(r) \in Nat /\ Len(s) = Len(r) + 1 /\ s[Len(s)] = x
      /\ \A i \in 1..Len(r) : s[i] = r[i] /\ i \in 1..Len(s) /\ i # Len(s)
      /\ \A i \in 1..Len(s) : i # Len(s) => i \in 1..Len(r)
  OBVIOUS
<1> HIDE DEF s
<1>3. longer \in [1..Len(s) -> 1..(n + 1)]  BY <1>2
<1>4. \A i, j \in 1..Len(s) : i < j => longer[i] < longer[j]  BY <1>1, <1>2
<1>5. \A i \in 1..Len(s) : HasId(b[longer[i]], s[i])
  <2> TAKE i \in 1..Len(s)
  <2>1. CASE i = Len(s)
    <3>1. longer[i] = n + 1 /\ s[i] = x  BY <1>2, <2>1
    <3> QED  BY <3>1
  <2>2. CASE i # Len(s)
    <3>1. i \in 1..Len(r) /\ longer[i] = call[i] /\ s[i] = r[i]  BY <1>2, <2>2
    <3> QED  BY <1>1, <3>1
  <2> QED  BY <2>1, <2>2
<1>6. \A k \in 1..(n + 1) : (\E y \in Ids : HasId(b[k], y)) => \E i \in 1..Len(s) : longer[i] = k
  <2> TAKE k \in 1..(n + 1)
  <2>1. CASE k = n + 1
    <3>1. Len(s) \in 1..Len(s) /\ longer[Len(s)] = k  BY <1>2, <2>1
    <3> QED  BY <3>1
  <2>2. CASE k # n + 1
    <3> HAVE \E y \in Ids : HasId(b[k], y)
    <3>1. PICK i \in 1..Len(r) : call[i] = k  BY <1>1, <2>2
    <3>2. i \in 1..Len(s) /\ longer[i] = k  BY <1>2, <3>1
    <3> QED  BY <3>2
  <2> QED  BY <2>1, <2>2
<1> HIDE DEF longer
<1>7. Replies(s, b, n + 1)  BY <1>3, <1>4, <1>5, <1>6 DEF Replies
<1> QED  BY <1>7 DEF s

\* A member that is let pass leaves the object clean and is remembered.
LEMMA CleanAppend ==
    ASSUME NEW o \in Seq(Member), NEW m \in Member, Clean(o), m.val # "bad",
           m.key \in Known => m.key \notin {o[k].key : k \in 1..Len(o)}
    PROVE  /\ Clean(Append(o, m))
           /\ {Append(o, m)[k].key : k \in 1..Len(Append(o, m))}
                = {o[k].key : k \in 1..Len(o)} \cup {m.key}
<1> DEFINE p == Append(o, m)
<1>1. /\ Len(p) = Len(o) + 1 /\ p[Len(p)] = m /\ Len(o) \in Nat
      /\ \A k \in 1..Len(o) : p[k] = o[k] /\ k \in 1..Len(p)
      /\ \A k \in 1..Len(p) : k # Len(p) => k \in 1..Len(o)
      /\ Len(p) \in 1..Len(p)
  OBVIOUS
<1> HIDE DEF p
<1>2. \A k \in 1..Len(p) : p[k].val # "bad"  BY <1>1 DEF Clean
<1>3. \A j, k \in 1..Len(p) : p[j].key = p[k].key /\ p[j].key \in Known => j = k
  BY <1>1 DEF Clean
<1>4. {p[k].key : k \in 1..Len(p)} = {o[k].key : k \in 1..Len(o)} \cup {m.key}
  BY <1>1
<1> QED  BY <1>2, <1>3, <1>4 DEF Clean, p

\* One that is not makes the object one for the upstream, whatever follows.
LEMMA DirtyAppend ==
    ASSUME NEW o \in Seq(Member), NEW m \in Member,
           \/ m.val = "bad"
           \/ m.key \in Known /\ m.key \in {o[k].key : k \in 1..Len(o)}
    PROVE  ~Clean(Append(o, m))
<1> DEFINE p == Append(o, m)
<1>1. /\ Len(p) \in 1..Len(p) /\ p[Len(p)] = m /\ Len(o) \in Nat
      /\ \A k \in 1..Len(o) : p[k] = o[k] /\ k \in 1..Len(p) /\ k # Len(p)
  OBVIOUS
<1> HIDE DEF p
<1>2. CASE m.val = "bad"  BY <1>1, <1>2 DEF Clean, p
<1>3. CASE m.key \in Known /\ m.key \in {o[k].key : k \in 1..Len(o)}
  <2>1. PICK k \in 1..Len(o) : o[k].key = m.key  BY <1>3
  <2> QED  BY <1>1, <1>3, <2>1 DEF Clean, p
<1> QED  BY <1>2, <1>3

\* Nothing is read yet.
LEMMA InitInv == Init => IInv
<1> SUFFICES ASSUME Init PROVE IInv
  OBVIOUS
<1>1. TypeOK
  <2>1. body \in Seq(Seq(Readable)) /\ reply \in Seq(Ids)  BY DEF Init
  <2> QED  BY <2>1 DEF Init, TypeOK
<1>2. Replies(<<>>, <<>>, 0)
  <2>1. 1..Len(<<>>) = {} /\ 1..0 = {}  OBVIOUS
  <2> DEFINE f == [i \in {} |-> 0]
  <2>2. f \in [{} -> {}]  OBVIOUS
  <2> HIDE DEF f
  <2> QED  BY <2>1, <2>2, Zenon DEF Replies
<1>3. Progress  BY <1>2 DEF Init, Progress
<1>4. LocalOrForwarded /\ OneReplyEach /\ PrefilterSound
  BY DEF Init, LocalOrForwarded, OneReplyEach, PrefilterSound
<1> QED  BY <1>1, <1>3, <1>4 DEF IInv

\* What the three properties ask holds while the parser runs and once it has
\* given up: it only gives up on a body that is not read to its end.
LEMMA Unfinished ==
    /\ stage # "done" => LocalOrForwarded /\ OneReplyEach /\ PrefilterSound
    /\ result = "forward" /\ ~whole => LocalOrForwarded /\ OneReplyEach /\ PrefilterSound
  BY DEF LocalOrForwarded, OneReplyEach, PrefilterSound

\* A local object has members that only a body with the name or an escape has.
LEMMA StepInv == IInv /\ [Next]_vars => IInv'
<1> SUFFICES ASSUME TypeOK, Progress, LocalOrForwarded, OneReplyEach, PrefilterSound, [Next]_vars
             PROVE  IInv'
  BY DEF IInv
<1>0. Readable' = Readable
  <2>1. texts' = texts
    BY DEF Next, Open, CloseObject, CloseArray, End, Broken, Returned, Read, vars, request
  <2> QED  BY <2>1 DEF Readable
<1>1. ASSUME Open PROVE IInv'
  <2>1. TypeOK'  BY <1>0, <1>1 DEF Open, TypeOK, request
  <2>2. stage' = "object" /\ result' = result /\ whole' = whole /\ seen' = seen /\ reply' = reply
    BY <1>1 DEF Open
  <2>3. Progress'
    <3> DEFINE n == Len(body)
    <3>1. /\ Len(body') = n + 1 /\ body'[n + 1] = <<>> /\ n \in Nat
          /\ \A k \in 1..n : body'[k] = body[k]
      BY <1>1 DEF Open, TypeOK
    <3>2. \A k \in 1..n : Local(body'[k])  BY <1>1, <3>1 DEF Open, Progress
    <3>3. Clean(<<>>) /\ \A x \in Ids : ~HasId(<<>>, x)  BY DEF Clean, HasId
    <3>4. Replies(reply', body', n)
      <4>1. Replies(reply, body, n)  BY <1>1 DEF Open, Progress
      <4> HIDE DEF n
      <4> QED  BY <2>2, <3>1, <4>1, RepliesSame
    <3>5. fields' = {} /\ id' = NoId  BY <1>1 DEF Open
    <3>6. result' = "none" /\ ~whole'  BY <1>1, <2>2 DEF Open, Progress
    <3>7. {body'[n + 1][k].key : k \in 1..Len(body'[n + 1])} = {}  BY <3>1
    <3> HIDE DEF n
    <3> QED  BY <2>2, <3>1, <3>2, <3>3, <3>4, <3>5, <3>6, <3>7 DEF Progress
  <2> QED  BY <2>1, <2>2, <2>3, Unfinished DEF IInv, LocalOrForwarded, OneReplyEach, PrefilterSound
<1>2. ASSUME NEW m \in Readable, Read(m) PROVE IInv'
  <2> DEFINE n == Len(body)
             o == body[n]
  <2>1. /\ n \in Nat \ {0} /\ o \in Seq(Readable) /\ o \in Seq(Member) /\ m \in Member
        /\ stage = "object" /\ result = "none" /\ ~whole
    <3>1. n \in Nat \ {0} /\ stage = "object" /\ result = "none" /\ ~whole
      BY <1>2 DEF Read, Progress, TypeOK
    <3>2. o \in Seq(Readable)  BY <3>1 DEF TypeOK
    <3>3. Readable \subseteq Member  BY DEF Readable
    <3>4. m \in Member /\ o \in Seq(Member)  BY <3>2, <3>3
    <3> QED  BY <3>1, <3>2, <3>4
  <2>2. /\ body' \in Seq(Seq(Readable)) /\ Len(body') = n /\ body'[n] = Append(o, m)
        /\ \A k \in 1..n : k # n => body'[k] = body[k]
    <3>1. Append(o, m) \in Seq(Readable)  BY <2>1
    <3> QED  BY <1>2, <2>1, <3>1 DEF Read, TypeOK
  <2>3. CASE m.key \in Known /\ Rejects(m)
    <3>1. result' = "forward" /\ stage' = "done" /\ ~whole'
      BY <1>2, <2>1, <2>3 DEF Read, Forward
    <3>2. TypeOK'  BY <1>0, <1>2, <2>2, <2>3 DEF Read, Forward, TypeOK, request
    <3>3. \A k \in 1..n : k < n => Local(body'[k])
      <4>1. \A k \in 1..n : k < n => Local(body[k]) /\ k # n  BY <2>1 DEF Progress
      <4> HIDE DEF n
      <4> QED  BY <2>2, <4>1
    <3>4. Progress'  BY <2>2, <3>1, <3>3 DEF Progress
    <3> QED  BY <3>1, <3>2, <3>4 DEF IInv, LocalOrForwarded, OneReplyEach, PrefilterSound
  <2>4. CASE ~(m.key \in Known /\ Rejects(m))
    <3>1. /\ stage' = "object" /\ result' = "none" /\ ~whole' /\ reply' = reply
          /\ fields' = fields \cup ({m.key} \cap Known)
          /\ id' = IF m.key = "id" THEN m.val ELSE id
      BY <1>2, <2>1, <2>4 DEF Read
    <3>2. m.val # "bad"  BY <2>1, <2>4 DEF Rejects, Member, Known
    <3>3. m.key = "id" => m.val \in Ids  BY <2>1, <3>2 DEF Member
    <3>4. TypeOK'  BY <1>0, <1>2, <2>2, <3>1, <3>3 DEF Read, TypeOK, request
    <3>5. fields = {o[k].key : k \in 1..Len(o)} \cap Known  BY <2>1 DEF Progress
    <3>6. /\ Clean(body'[n])
          /\ {body'[n][k].key : k \in 1..Len(body'[n])} = {o[k].key : k \in 1..Len(o)} \cup {m.key}
      <4>1. Clean(o)  BY <2>1 DEF Progress
      <4>2. m.key \in Known => m.key \notin {o[k].key : k \in 1..Len(o)}
        BY <2>4, <3>5 DEF Rejects
      <4> HIDE DEF n, o
      <4>3. /\ Clean(Append(o, m))
            /\ {Append(o, m)[k].key : k \in 1..Len(Append(o, m))}
                 = {o[k].key : k \in 1..Len(o)} \cup {m.key}
        BY <2>1, <3>2, <4>1, <4>2, CleanAppend
      <4> QED  BY <2>2, <4>3
    <3>7. fields' = {body'[n][k].key : k \in 1..Len(body'[n])} \cap Known
      BY <3>1, <3>5, <3>6
    <3>8. ASSUME NEW x \in Ids PROVE HasId(body'[n], x) <=> id' = x
      <4>1. HasId(body'[n], x) <=> HasId(o, x) \/ m = [key |-> "id", val |-> x]
        BY <2>1, <2>2, HasIdAppend
      <4>2. HasId(o, x) <=> id = x  BY <2>1 DEF Progress
      <4>3. CASE m.key = "id"
        <5>1. "id" \notin fields  BY <2>4, <4>3 DEF Rejects, Known
        <5>2. ~HasId(o, x)
          <6> SUFFICES ASSUME NEW k \in 1..Len(o), o[k] = [key |-> "id", val |-> x] PROVE FALSE
            BY DEF HasId
          <6>1. o[k].key = "id"  OBVIOUS
          <6> QED  BY <3>5, <5>1, <6>1 DEF Known
        <5>3. m = [key |-> "id", val |-> x] <=> m.val = x  BY <2>1, <4>3 DEF Member
        <5> QED  BY <3>1, <4>1, <4>3, <5>2, <5>3
      <4>4. CASE m.key # "id"
        <5>1. m # [key |-> "id", val |-> x]  BY <4>4
        <5> QED  BY <3>1, <4>1, <4>2, <4>4, <5>1
      <4> QED  BY <4>3, <4>4
    <3>9. Replies(reply', body', n - 1)
      <4>1. Replies(reply, body, n - 1)  BY <2>1 DEF Progress
      <4>2. n - 1 \in Nat /\ \A k \in 1..(n - 1) : k \in 1..n /\ k # n  BY <2>1
      <4> HIDE DEF n
      <4> QED  BY <2>2, <3>1, <4>1, <4>2, RepliesSame
    <3>10. \A k \in 1..n : k < n => Local(body'[k])
      <4>1. \A k \in 1..n : k < n => Local(body[k]) /\ k # n  BY <2>1 DEF Progress
      <4> HIDE DEF n
      <4> QED  BY <2>2, <4>1
    <3> HIDE DEF n, o
    <3>11. Progress'  BY <2>1, <2>2, <3>1, <3>6, <3>7, <3>8, <3>9, <3>10 DEF Progress
    <3> QED  BY <3>1, <3>4, <3>11 DEF IInv, LocalOrForwarded, OneReplyEach, PrefilterSound
  <2> QED  BY <2>3, <2>4
<1>3. ASSUME CloseObject PROVE IInv'
  <2> DEFINE n == Len(body)
  <2>1. /\ n \in Nat \ {0} /\ stage = "object" /\ result = "none" /\ ~whole
        /\ body' = body /\ whole' = whole /\ id' = id
    BY <1>3 DEF CloseObject, Progress, TypeOK
  <2>2. CASE ~(Required \subseteq fields)
    <3>1. result' = "forward" /\ stage' = "done" /\ ~whole'
      BY <1>3, <2>1, <2>2 DEF CloseObject, Forward
    <3>2. TypeOK'  BY <1>0, <1>3, <2>2 DEF CloseObject, Forward, TypeOK, request
    <3>3. Progress'  BY <2>1, <3>1 DEF Progress
    <3> QED  BY <3>1, <3>2, <3>3 DEF IInv, LocalOrForwarded, OneReplyEach, PrefilterSound
  <2>3. CASE Required \subseteq fields
    <3>1. /\ stage' = IF batch THEN "value" ELSE "after"
          /\ seen' = TRUE /\ result' = "none" /\ ~whole' /\ batch' = batch
          /\ reply' = IF Answered(id) THEN Append(reply, id) ELSE reply
      BY <1>3, <2>1, <2>3 DEF CloseObject, request
    <3>2. TypeOK'  BY <1>0, <1>3, <2>3, <3>1 DEF CloseObject, TypeOK, request, Answered
    <3>3. Local(body[n])
      <4>1. fields = {body[n][k].key : k \in 1..Len(body[n])} \cap Known /\ Clean(body[n])
        BY <2>1 DEF Progress
      <4> QED  BY <2>3, <4>1 DEF Local, Required
    <3>4. Replies(reply', body, n)
      <4>1. Replies(reply, body, n - 1) /\ \A x \in Ids : HasId(body[n], x) <=> id = x
        BY <2>1 DEF Progress
      <4>2. n - 1 \in Nat /\ (n - 1) + 1 = n /\ reply \in Seq(Ids)  BY <2>1 DEF TypeOK
      <4> HIDE DEF n
      <4>3. CASE id = NoId
        <5>1. \A x \in Ids : ~HasId(body[n], x)  BY <4>1, <4>3
        <5> QED  BY <3>1, <4>1, <4>2, <4>3, <5>1, RepliesSkip DEF Answered
      <4>4. CASE id # NoId
        <5>1. id \in Ids /\ HasId(body[n], id)  BY <4>1, <4>4 DEF TypeOK
        <5> QED  BY <3>1, <4>1, <4>2, <4>4, <5>1, RepliesExtend DEF Answered
      <4> QED  BY <4>3, <4>4
    <3>5. \A k \in 1..n : Local(body[k])  BY <2>1, <3>3 DEF Progress
    <3>6. batch' \/ stage' # "value"  BY <3>1 DEF TypeOK
    <3>7. stage' \in {"value", "after"}  BY <3>1
    <3>8. body # <<>>  BY <2>1
    <3>9. Progress'  BY <2>1, <3>1, <3>4, <3>5, <3>6, <3>7, <3>8 DEF Progress
    <3> QED  BY <3>2, <3>7, <3>9 DEF IInv, LocalOrForwarded, OneReplyEach, PrefilterSound
  <2> QED  BY <2>2, <2>3
<1>4. ASSUME CloseArray PROVE IInv'
  <2>1. TypeOK'  BY <1>0, <1>4 DEF CloseArray, TypeOK, request
  <2>2. Progress'  BY <1>4 DEF CloseArray, Progress, request
  <2> QED  BY <1>4, <2>1, <2>2 DEF IInv, CloseArray, LocalOrForwarded, OneReplyEach, PrefilterSound
<1>5. ASSUME End PROVE IInv'
  <2>1. TypeOK'  BY <1>0, <1>5 DEF End, TypeOK, request
  <2>2. /\ \A k \in 1..Len(body) : Local(body[k])
        /\ Replies(reply, body, Len(body)) /\ (seen <=> body # <<>>)
        /\ body' = body /\ reply' = reply /\ stage' = "done" /\ whole'
        /\ result' = IF ~seen THEN "forward" ELSE IF reply = <<>> THEN "silent" ELSE "reply"
    BY <1>5 DEF End, Progress
  <2>3. Progress'  BY <2>2 DEF Progress
  <2>4. LocalOrForwarded' /\ OneReplyEach'  BY <2>2 DEF LocalOrForwarded, OneReplyEach
  <2>5. PrefilterSound'
    <3> SUFFICES ASSUME texts = {}, seen PROVE FALSE
      BY <1>5, <2>2 DEF PrefilterSound, Filtered, End, request
    <3>1. 1 \in 1..Len(body) /\ body[1] \in Seq(Readable)  BY <2>2 DEF TypeOK
    <3>2. PICK k \in 1..Len(body[1]) : body[1][k].key = "method"  BY <2>2, <3>1 DEF Local
    <3>3. body[1][k].val # "bad" /\ body[1][k] \in Readable  BY <2>2, <3>1 DEF Local, Clean
    <3> QED  BY <3>1, <3>2, <3>3 DEF Readable, Member
  <2> QED  BY <2>1, <2>3, <2>4, <2>5 DEF IInv
<1>6. ASSUME Broken PROVE IInv'
  <2>1. result' = "forward" /\ stage' = "done" /\ ~whole' /\ body' = body
    BY <1>6 DEF Broken, Forward, Progress
  <2>2. TypeOK'  BY <1>0, <1>6 DEF Broken, Forward, TypeOK, request
  <2>3. Progress'  BY <1>6, <2>1 DEF Broken, Progress
  <2> QED  BY <2>1, <2>2, <2>3 DEF IInv, LocalOrForwarded, OneReplyEach, PrefilterSound
<1>7. ASSUME UNCHANGED vars PROVE IInv'
  BY <1>0, <1>7 DEF IInv, TypeOK, Progress, LocalOrForwarded, OneReplyEach, PrefilterSound, Filtered, vars,
     request
<1> QED  BY <1>1, <1>2, <1>3, <1>4, <1>5, <1>6, <1>7 DEF Next, Returned

\* Invariance: whatever the body, member by member.
THEOREM Invariant == Spec => []IInv
<1> QED  BY InitInv, StepInv, PTL DEF Spec
\* Type correctness (rpc.rs 19-52, 141-201).
THEOREM TypeCorrect == Spec => []TypeOK
<1>1. IInv => TypeOK  BY DEF IInv
<1> QED  BY <1>1, Invariant, PTL

\* A body is answered here exactly when all of it can be (rpc.rs 1-2, 141-201).
THEOREM ForwardedWhole == Spec => []LocalOrForwarded
<1>1. IInv => LocalOrForwarded  BY DEF IInv
<1> QED  BY <1>1, Invariant, PTL

\* Replies are those of the calls, in their order (rpc.rs 147-160, 193-198).
THEOREM RepliesInOrder == Spec => []OneReplyEach
<1>1. IInv => OneReplyEach  BY DEF IInv
<1> QED  BY <1>1, Invariant, PTL

\* The shortcut never changes the answer (rpc.rs 169-182).
THEOREM FilterSound == Spec => []PrefilterSound
<1>1. IInv => PrefilterSound  BY DEF IInv
<1> QED  BY <1>1, Invariant, PTL
=============================================================================
