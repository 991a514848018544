------------------------------ MODULE RpcMock ------------------------------
(***************************************************************************)
(* mock_syncing: what becomes of a JSON-RPC body when eth_syncing is       *)
(* mocked (src/src/rpc.rs).                                                *)
(*                                                                         *)
(* The body is read as serde does, member by member and element by         *)
(* element, and left at the first one that has to go upstream.  The text   *)
(* of a member is abstracted to its decoded key and to whether the         *)
(* deserializer of that key takes the value; an id keeps its raw text, a   *)
(* member of Ids, of which "null" is one.  texts says what the undecoded   *)
(* body contains.  The prefilter is an operator of the state, so that its  *)
(* answer can be compared with that of the parser it spares, as the tests  *)
(* of the repository do.                                                   *)
(***************************************************************************)
EXTENDS Naturals, Sequences

CONSTANTS
    Ids,          \* raw ids
    MaxElements,  \* bound on the objects of a body
    MaxMembers    \* bound on the members of an object

NoId == "absent"

ASSUME RpcAssumption == /\ NoId \notin Ids /\ "bad" \notin Ids
                        /\ MaxElements \in Nat /\ MaxMembers \in Nat

VARIABLES
    batch,    \* the first byte that is not white space opens an array
    small,    \* the body has at most 256 bytes, and is valid UTF-8
    texts,    \* of "eth_syncing" and the escape character, those in the body
    stage,    \* what the parser expects next
    body,     \* the objects read so far, each as the sequence of its members
    fields,   \* the known keys seen in the object being read
    id,       \* its id
    seen,     \* some element of the batch was a local request
    reply,    \* ids of the replies written so far
    result,   \* what the parser returns
    whole     \* the body was well-formed JSON and has been read to its end

request == <<batch, small, texts>>
vars == <<request, stage, body, fields, id, seen, reply, result, whole>>

Known == {"jsonrpc", "method", "params", "id"}

\* "good": version 2.0, the method eth_syncing, an empty array of parameters.
Member == [key : {"jsonrpc", "method", "params"}, val : {"good", "bad"}]
              \cup [key : {"id"}, val : Ids \cup {"bad"}]
              \cup [key : {"other"}, val : {"any"}]

\* A body in which a method decodes to eth_syncing has that name in it, or an
\* escape.
Readable == {m \in Member : m.key = "method" /\ m.val = "good" => texts # {}}

TypeOK ==
    /\ batch \in BOOLEAN /\ small \in BOOLEAN /\ whole \in BOOLEAN
    /\ texts \subseteq {"name", "escape"}
    /\ stage \in {"value", "object", "after", "done"}
    /\ body \in Seq(Seq(Readable))
    /\ fields \subseteq Known
    /\ id \in Ids \cup {NoId}
    /\ seen \in BOOLEAN /\ reply \in Seq(Ids)
    /\ result \in {"none", "forward", "silent", "reply"}

Init ==
    /\ batch \in BOOLEAN /\ small \in BOOLEAN
    /\ texts \in SUBSET {"name", "escape"}
    /\ stage = "value"
    /\ body = <<>>
    /\ fields = {} /\ id = NoId
    /\ seen = FALSE /\ reply = <<>>
    /\ result = "none"
    /\ whole = FALSE

\* Mutant: a body with an escape is not parsed either.
FilteredEscapes == small /\ "name" \notin texts

\* The prefilter: a small body without the name and without an escape.
Filtered == small /\ texts = {}

\* Mutant: a batch that turns out to need the upstream keeps the replies so far.
ForwardKeepsReplies == /\ stage' = "done"
                       /\ result' = IF reply # <<>> THEN "reply" ELSE "forward"

Forward == /\ stage' = "done"
           /\ result' = "forward"

\* An element that is not an object, a syntax error, the end of the body where
\* something is missing, or something after its end.
Broken == /\ stage # "done"
          /\ Forward
          /\ UNCHANGED <<request, body, fields, id, seen, reply, whole>>

\* The body of a single request, or the next element of a batch.
Open == /\ stage = "value" /\ (batch \/ body = <<>>)
        /\ Len(body) < MaxElements
        /\ stage' = "object"
        /\ body' = Append(body, <<>>)
        /\ fields' = {} /\ id' = NoId
        /\ UNCHANGED <<request, seen, reply, result, whole>>

Rejects(m) == m.val = "bad" \/ m.key \in fields

\* Unknown members are skipped, whatever they are and however often.
Read(m) == /\ stage = "object"
           /\ Len(body[Len(body)]) < MaxMembers
           /\ body' = [body EXCEPT ![Len(body)] = Append(@, m)]
           /\ IF m.key \in Known /\ Rejects(m)
              THEN Forward /\ UNCHANGED <<fields, id>>
              ELSE /\ fields' = fields \cup ({m.key} \cap Known)
                   /\ id' = IF m.key = "id" THEN m.val ELSE id
                   /\ UNCHANGED <<stage, result>>
           /\ UNCHANGED <<request, seen, reply, whole>>

\* Mutant: an explicit null counts as no id.
AnsweredUnlessNull(i) == i \notin {NoId, "null"}

Answered(i) == i # NoId

Required == {"jsonrpc", "method"}

\* The object ends: a missing version or method sends it upstream.
CloseObject == /\ stage = "object"
               /\ IF Required \subseteq fields
                  THEN /\ stage' = IF batch THEN "value" ELSE "after"
                       /\ seen' = TRUE
                       /\ reply' = IF Answered(id) THEN Append(reply, id) ELSE reply
                       /\ UNCHANGED result
                  ELSE Forward /\ UNCHANGED <<seen, reply>>
               /\ UNCHANGED <<request, body, fields, id, whole>>

CloseArray == /\ batch /\ stage = "value"
              /\ stage' = "after"
              /\ UNCHANGED <<request, body, fields, id, seen, reply, result, whole>>

\* The end of the body, where it is expected: an empty batch goes upstream too.
End == /\ stage = "after"
       /\ stage' = "done"
       /\ whole' = TRUE
       /\ result' = IF ~seen THEN "forward" ELSE IF reply = <<>> THEN "silent" ELSE "reply"
       /\ UNCHANGED <<request, body, fields, id, seen, reply>>

Returned == stage = "done" /\ UNCHANGED vars

Next == \/ Open \/ CloseObject \/ CloseArray \/ End \/ Broken \/ Returned
        \/ \E m \in Readable : Read(m)

Spec == Init /\ [][Next]_vars

(***************************************************************************)
(* Properties.                                                             *)
(***************************************************************************)

HasId(o, i) == \E k \in 1..Len(o) : o[k] = [key |-> "id", val |-> i]

\* No member that calls for the upstream, and no known one twice.
Clean(o) == /\ \A k \in 1..Len(o) : o[k].val # "bad"
            /\ \A j, k \in 1..Len(o) : o[j].key = o[k].key /\ o[j].key \in Known => j = k

\* A request that can be answered here, by JSON-RPC 2.0.
Local(o) == /\ Clean(o)
            /\ \E k \in 1..Len(o) : o[k].key = "jsonrpc"
            /\ \E k \in 1..Len(o) : o[k].key = "method"

\* One reply to each of the first n calls of b that has an id, in their order.
Replies(r, b, n) ==
    \E call \in [1..Len(r) -> 1..n] :
        /\ \A i, j \in 1..Len(r) : i < j => call[i] < call[j]
        /\ \A i \in 1..Len(r) : HasId(b[call[i]], r[i])
        /\ \A k \in 1..n : (\E x \in Ids : HasId(b[k], x)) => \E i \in 1..Len(r) : call[i] = k

\* A body is taken from the upstream if and only if it is well-formed, not empty,
\* and every request in it is local: a mixed batch is forwarded whole (rpc.rs 1-2,
\* 141-160, 188-198).
LocalOrForwarded ==
    stage = "done" =>
        (result # "forward" <=> whole /\ body # <<>> /\ \A k \in 1..Len(body) : Local(body[k]))

\* What is answered is answered call by call, in order, a null id too; silence is
\* for notifications only (rpc.rs 147-160, 193-198).
OneReplyEach ==
    stage = "done" /\ result # "forward" =>
        /\ Replies(reply, body, Len(body))
        /\ result = "silent" <=> reply = <<>>

\* The prefilter only forwards what the parser would forward (rpc.rs 169-182).
PrefilterSound == stage = "done" /\ Filtered => result = "forward"

\* The parser stands after a local prefix of the body, whose replies it has.
Progress ==
    /\ stage = "done" <=> result # "none"
    /\ whole => stage = "done"
    /\ ~batch /\ stage = "value" => body = <<>>
    /\ \A k \in 1..Len(body) : k < Len(body) \/ stage \in {"value", "after"} => Local(body[k])
    /\ stage \in {"value", "after"} => Replies(reply, body, Len(body)) /\ (seen <=> body # <<>>)
    /\ stage = "object" =>
           LET n == Len(body) IN
           /\ n > 0
           /\ Clean(body[n])
           /\ fields = {body[n][k].key : k \in 1..Len(body[n])} \cap Known
           /\ \A x \in Ids : HasId(body[n], x) <=> id = x
           /\ Replies(reply, body, n - 1)

\* The inductive invariant (rpc.rs 19-52, 141-201).
IInv == TypeOK /\ Progress /\ LocalOrForwarded /\ OneReplyEach /\ PrefilterSound
=============================================================================
