---------------------------- MODULE DrainBarrier ----------------------------
(***************************************************************************)
(* What the shutdown of ethryx promises, with no mechanism in it: pieces   *)
(* of work come and go; once the service is closing, or its owner has      *)
(* walked away, new work can only be handed over by work that still        *)
(* exists; the service is closed only when no work is left; and nothing    *)
(* happens after that.  Lifecycle.tla implements it with a deadline, join  *)
(* handles and a completion guard (src/src/lifecycle.rs).                  *)
(***************************************************************************)
CONSTANT Work           \* whatever can hold a socket or a task

VARIABLES phase,        \* "open", "closing", "closed" or "abandoned"
          work          \* the pieces of work that still hold resources

vars == <<phase, work>>

TypeOK == /\ phase \in {"open", "closing", "closed", "abandoned"}
          /\ work \subseteq Work

Init == phase = "open" /\ work = {}

Begin(w) == /\ phase # "closed"
            /\ phase = "open" \/ work # {}
            /\ w \notin work
            /\ work' = work \cup {w}
            /\ UNCHANGED phase

End(w) == /\ w \in work
          /\ work' = work \ {w}
          /\ UNCHANGED phase

Close == phase = "open" /\ phase' = "closing" /\ UNCHANGED work

\* The owner of the service is dropped, with whatever it had not handed out.
Abandon == /\ phase \in {"open", "closing"}
           /\ phase' = "abandoned"
           /\ work' \subseteq work

Finish == /\ phase = "closing"
          /\ work = {}
          /\ phase' = "closed"
          /\ UNCHANGED work

Next == \/ \E w \in Work : Begin(w) \/ End(w)
        \/ Close \/ Abandon \/ Finish

\* A service that is no longer open sheds its work, and then closes.
Shed == phase # "open" /\ \E w \in Work : End(w)

Safety == Init /\ [][Next]_vars

Spec == Safety /\ WF_vars(Shed) /\ WF_vars(Finish)
=============================================================================
