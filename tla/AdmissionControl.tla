--------------------------- MODULE AdmissionControl ---------------------------
(***************************************************************************)
(* What the admission control of the inference endpoints promises: at most *)
(* Capacity requests hold a slot at once, a request gets in only while one *)
(* is free, and nobody who got in stays for ever.  It says nothing of      *)
(* threads, timers or futures.                                             *)
(***************************************************************************)
EXTENDS Naturals, FiniteSets

CONSTANTS Requests,   \* the requests competing for a slot
          Capacity    \* number of slots

VARIABLE inside       \* the requests holding a slot

Init == inside = {}

Enter(r) ==
  /\ r \notin inside
  /\ Cardinality(inside) < Capacity
  /\ inside' = inside \cup {r}

\* One or several leave at once.
Leave(S) ==
  /\ S # {}
  /\ S \subseteq inside
  /\ inside' = inside \ S

Next ==
  \/ \E r \in Requests : Enter(r)
  \/ \E S \in SUBSET Requests : Leave(S)

SafeSpec == Init /\ [][Next]_inside

Spec ==
  /\ SafeSpec
  /\ \A r \in Requests : WF_inside(\E S \in SUBSET Requests : r \in S /\ Leave(S))
===============================================================================
