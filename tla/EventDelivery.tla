----------------------------- MODULE EventDelivery ----------------------------
(***************************************************************************)
(* What the streaming of the audit log promises: every receiver is told of *)
(* the recorded events, in the order of the log, of each one once, and in  *)
(* the end of all of them.  It says nothing of buffers, batches, locks and *)
(* loops.                                                                  *)
(***************************************************************************)
EXTENDS Naturals, Sequences

CONSTANT Receivers    \* who is told of the events

VARIABLES recorded,   \* number of the events recorded so far
          told        \* per receiver: the events it was told of

deliveryVars == <<recorded, told>>

DeliveryInit == recorded = 0 /\ told = [e \in Receivers |-> <<>>]

EventRecorded == recorded' = recorded + 1 /\ UNCHANGED told

\* One or several of the events the receiver was not told of yet, from the first one on.
Tell(e) ==
  \E n \in 1 .. recorded - Len(told[e]) :
    /\ told' = [told EXCEPT ![e] = @ \o [i \in 1 .. n |-> Len(@) + i]]
    /\ UNCHANGED recorded

DeliveryNext == EventRecorded \/ \E e \in Receivers : Tell(e)

SafeDelivery == DeliveryInit /\ [][DeliveryNext]_deliveryVars

DeliverySpec == SafeDelivery /\ \A e \in Receivers : WF_deliveryVars(Tell(e))
===============================================================================
