------------------------------- MODULE Headers -------------------------------
(***************************************************************************)
(* Header fields, and what strip_hop_by_hop does to them                   *)
(* (src/src/headers.rs).  Headers are a record: the field lines of each    *)
(* name, in order.  A line of Connection is the set of the names it lists, *)
(* one of Sec-WebSocket-Protocol the sequence of its tokens.               *)
(***************************************************************************)
EXTENDS Naturals, Sequences

\* "te" stands for the eight hop-by-hop fields without a role of their own, and
\* "app" for every field that belongs to the application.
Names == {"connection", "upgrade", "host", "te", "key", "version", "protocol", "extensions", "app"}

HopByHop == {"connection", "upgrade", "host", "te"}

\* Mutant: only the first Connection line is looked at.
NominatedFirstLine(h) == IF h.connection = <<>> THEN {} ELSE h.connection[1]

\* Every Connection line nominates fields.
Nominated(h) == UNION {h.connection[i] : i \in 1..Len(h.connection)}

Strip(h) == [n \in Names |-> IF n \in HopByHop \cup Nominated(h) THEN <<>> ELSE h[n]]

NoHeaders == [n \in Names |-> <<>>]
=============================================================================
