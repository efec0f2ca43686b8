------------------------------- MODULE MCRequests ------------------------------
(***************************************************************************)
(* Instances of ModelReadiness, NetworkModels and Investigation for TLC,   *)
(* side by side: they share no variable, so each part is explored with the *)
(* others at rest.                                                         *)
(***************************************************************************)
EXTENDS ModelReadiness, NetworkModels, Investigation, TLC

CONSTANT Parts
VARIABLE part

MCInit ==
  /\ Init /\ NetworkInit /\ InvestigationInit
  /\ part \in Parts
  /\ part # "readiness" => storeHealthy /\ \A g \in Groups : intact[g]

\* The page has its result, and nothing has to happen any more.
Over == part = "investigation" /\ page.phase = "done"

MCNext ==
  \/ part = "readiness" /\ Next /\ UNCHANGED <<networkVars, investigationVars, part>>
  \/ part = "network" /\ NetworkNext /\ UNCHANGED <<vars, investigationVars, part>>
  \/ /\ part = "investigation" /\ InvestigationNext
     /\ UNCHANGED <<vars, networkVars, part>>
  \/ Over /\ UNCHANGED <<vars, networkVars, investigationVars, part>>

MCSpec == /\ MCInit /\ [][MCNext]_<<vars, networkVars, investigationVars, part>>
          /\ part = "readiness" => Fairness /\ Traffic
          /\ part = "investigation" => InvestigationFairness

-------------------------------------------------------------------------------
\* Types of the three parts.
TypesOK == TypeOK /\ NetworkTypeOK /\ InvestigationTypeOK

\* ReadyUnderTraffic, for the behaviours in which requests arrive.
BecomesReady == part = "readiness" => ReadyUnderTraffic
===============================================================================
