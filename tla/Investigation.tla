------------------------------ MODULE Investigation ----------------------------
(***************************************************************************)
(* runInvestigation of the browser bridge (frontend/webmcp_bridge.js) and  *)
(* the requests it makes: the server-side agent loop first and, when that  *)
(* request fails, the six tools one after the other from the page.  Every  *)
(* request goes through _send, with a timer, and is sent again up to its   *)
(* number of retries.  The server does not notice that a page gave up: the *)
(* agent loop of an abandoned request runs on beside the fallback.         *)
(*                                                                         *)
(* One investigation, of one user whose telemetry record may come and go.  *)
(* Tools are numbered 1 to 6 in the order of their calls, 0 is the agent.  *)
(***************************************************************************)
EXTENDS Naturals

CONSTANTS Retries,     \* retries of a read tool (2 in the code)
          MaxChanges   \* bound on the changes of the telemetry store

ASSUME RetriesAssumption == Retries \in Nat

VARIABLES
  known,    \* the store has a record of the user
  changes,  \* how often that changed (bounds the model)
  page,     \* the page's call: what it waits for, the tool, the attempt, the result
  wire,     \* requests at the server and answers on their way
  reports   \* incident reports generated by the agent and for the page's calls

investigationVars == <<known, changes, page, wire, reports>>

Agent == 0
Summary == 1
Suspicious == 2
InvestigateUser == 3
RiskScore == 4
AttackPattern == 5
Report == 6
Tools == Agent .. Report

\* What an answer says: a body of the tool, an empty list of users, an unknown user,
\* the agent's {"status": "ERROR"}; 4xx of the checks before the handler; 5xx or 429.
Codes == {"ok", "empty", "missing", "error", "refused", "unavailable"}
Stages == {"sent", "triaged", "found"} \cup Codes
Statuses == {"COMPLETE", "NO_TARGETS", "TARGET_NOT_FOUND", "ERROR"}

Running == [by |-> "none", status |-> "none"]
Result(by, status) == [by |-> by, status |-> status]

InvestigationInit ==
  /\ known \in BOOLEAN
  /\ changes = 0
  /\ page = [phase |-> "idle", tool |-> Agent, attempt |-> 0,
             targeted |-> FALSE, result |-> Running]
  /\ wire = {}
  /\ reports = [agent |-> 0, page |-> 0]

-------------------------------------------------------------------------------
\* Slip: the report is retried like the tools that only read.
RetriesOfAny(tool) == IF tool = Agent THEN 0 ELSE Retries

\* _rest and runInvestigation: calls with a side effect are never sent again.
RetriesOf(tool) == IF tool \in {Agent, Report} THEN 0 ELSE Retries

Retryable(tool, attempt) == attempt < RetriesOf(tool)

Request(tool, attempt) == [tool |-> tool, attempt |-> attempt, stage |-> "sent"]
Awaited(m) == /\ page.phase \in {"waiting", "reading"}
              /\ m.tool = page.tool /\ m.attempt = page.attempt

\* What an abandoned request may still do: the reads leave nothing behind, and nobody
\* looks at the answers.
Lasting == {m \in wire : m.tool \in {Agent, Report} /\ m.stage \notin Codes}

\* The page sends a request; it no longer waits for any of the earlier ones.
Send(tool, attempt) ==
  /\ page' = [page EXCEPT !.phase = "waiting", !.tool = tool, !.attempt = attempt]
  /\ wire' = Lasting \cup {Request(tool, attempt)}

End(by, status) ==
  /\ page' = [page EXCEPT !.phase = "done", !.result = Result(by, status)]
  /\ wire' = Lasting

\* runInvestigation(userId), with a user or without.
Start(targeted) ==
  /\ page.phase = "idle"
  /\ page' = [page EXCEPT !.phase = "waiting", !.targeted = targeted]
  /\ wire' = {Request(Agent, 0)}
  /\ UNCHANGED <<known, changes, reports>>

\* A failure that is final: the agent's starts the fallback, a tool's ends it.
GiveUp ==
  \/ /\ page.tool = Agent
     /\ Send(IF page.targeted THEN InvestigateUser ELSE Summary, 0)
  \/ /\ page.tool # Agent
     /\ End("page", "ERROR")

\* A failure _send may retry: it waits for the backoff when there are retries left.
Fail ==
  \/ /\ Retryable(page.tool, page.attempt)
     /\ page' = [page EXCEPT !.phase = "backoff"]
     /\ wire' = Lasting
  \/ /\ ~Retryable(page.tool, page.attempt)
     /\ GiveUp

\* The timer fires, or the connection breaks; once the headers have arrived the timer
\* is cleared and only a broken connection ends the wait.
AttemptFails ==
  /\ \/ page.phase = "waiting"
     \/ page.phase = "reading" /\ ~\E m \in wire : Awaited(m)
  /\ Fail
  /\ UNCHANGED <<known, changes, reports>>

\* Slip: the attempt is not counted.
ResumeUncounted ==
  /\ page.phase = "backoff"
  /\ Send(page.tool, page.attempt)
  /\ UNCHANGED <<known, changes, reports>>

Resume ==
  /\ page.phase = "backoff"
  /\ Send(page.tool, page.attempt + 1)
  /\ UNCHANGED <<known, changes, reports>>

Headers ==
  /\ page.phase = "waiting"
  /\ \E m \in wire : Awaited(m) /\ m.stage \in Codes
  /\ page' = [page EXCEPT !.phase = "reading"]
  /\ UNCHANGED <<known, changes, wire, reports>>

\* The body of the agent's answer, whatever status it tells: an HTTP success.
AgentStatus ==
  [ok |-> "COMPLETE", empty |-> "NO_TARGETS", missing |-> "TARGET_NOT_FOUND", error |-> "ERROR"]

\* The body has arrived: the page takes the agent's result, calls the next tool, ends,
\* or treats the HTTP error.
Body ==
  /\ page.phase = "reading"
  /\ \E m \in wire :
       /\ Awaited(m)
       /\ \/ /\ m.stage \in DOMAIN AgentStatus
             /\ page.tool = Agent
             /\ End("agent", AgentStatus[m.stage])
          \/ /\ m.stage = "ok" /\ page.tool \in Tools \ {Agent, Report}
             /\ Send(page.tool + 1, 0)
          \/ /\ m.stage = "ok" /\ page.tool = Report
             /\ End("page", "COMPLETE")
          \/ /\ m.stage = "empty" /\ page.tool = Suspicious
             /\ End("page", "NO_TARGETS")
          \/ m.stage = "unavailable" /\ Fail
          \/ /\ \/ m.stage = "refused"
                \/ m.stage = "missing" /\ page.tool # Agent
             /\ GiveUp
  /\ UNCHANGED <<known, changes, reports>>

-------------------------------------------------------------------------------
\* A request reaches a stage, or its answer is on its way.
Put(m, stage) == wire' = (wire \ {m}) \cup {[m EXCEPT !.stage = stage]}

\* The key check, the rate limiter or a proxy answers, or a read of the store fails.
TurnAway(m) ==
  /\ m.stage = "sent"
  /\ \/ Put(m, "refused")
     \/ Put(m, "unavailable")
  /\ UNCHANGED <<known, changes, page, reports>>

\* The handlers of the tools.
HandleTool(m) ==
  /\ m.stage = "sent" /\ m.tool # Agent
  /\ \/ /\ m.tool = Summary
        /\ Put(m, "ok") /\ UNCHANGED reports
     \/ /\ m.tool = Suspicious
        /\ Put(m, IF known THEN "ok" ELSE "empty") /\ UNCHANGED reports
     \/ /\ m.tool \in {InvestigateUser, RiskScore, AttackPattern}
        /\ Put(m, IF known THEN "ok" ELSE "missing") /\ UNCHANGED reports
     \/ /\ m.tool = Report
        /\ Put(m, "ok") /\ reports' = [reports EXCEPT !.page = @ + 1]
  /\ UNCHANGED <<known, changes, page>>

\* _run_investigation up to the list of suspicious users.
AgentTriage(m) ==
  /\ m.tool = Agent /\ m.stage = "sent" /\ ~page.targeted
  /\ \/ Put(m, IF known THEN "triaged" ELSE "empty")
     \/ Put(m, "error")
  /\ UNCHANGED <<known, changes, page, reports>>

\* aget_user; any exception becomes the structured ERROR.
AgentLookup(m) ==
  /\ m.tool = Agent /\ m.stage = IF page.targeted THEN "sent" ELSE "triaged"
  /\ \/ Put(m, IF known THEN "found" ELSE "missing")
     \/ Put(m, "error")
  /\ UNCHANGED <<known, changes, page, reports>>

\* arisk_score reads the record again and raises when it is gone; the rest of the
\* loop is not interrupted.
AgentScore(m) ==
  /\ m.tool = Agent /\ m.stage = "found"
  /\ \/ /\ known
        /\ Put(m, "ok") /\ reports' = [reports EXCEPT !.agent = @ + 1]
     \/ Put(m, "error") /\ UNCHANGED reports
  /\ UNCHANGED <<known, changes, page>>

\* The connection breaks under a request before its handler sees it, or under an answer.
Lose(m) ==
  /\ m.stage = "sent" \/ m.stage \in Codes
  /\ wire' = wire \ {m}
  /\ UNCHANGED <<known, changes, page, reports>>

\* The telemetry service adds the user's record or drops it.
RecordChanges ==
  /\ changes < MaxChanges
  /\ known' = ~known
  /\ changes' = changes + 1
  /\ UNCHANGED <<page, wire, reports>>

PageStep == AttemptFails \/ Resume \/ Headers \/ Body
InvestigationNext ==
  \/ \E targeted \in BOOLEAN : Start(targeted)
  \/ AttemptFails \/ Resume \/ Headers \/ Body
  \/ \E m \in wire : \/ TurnAway(m) \/ HandleTool(m) \/ Lose(m)
                     \/ AgentTriage(m) \/ AgentLookup(m) \/ AgentScore(m)
  \/ RecordChanges

\* The timer and the backoff fire and the browser goes on; a body whose headers have
\* arrived arrives as well or its connection breaks (no timer of the page covers it).
\* Nothing is asked of the server.
InvestigationFairness == WF_investigationVars(PageStep)

InvestigationSpec ==
  InvestigationInit /\ [][InvestigationNext]_investigationVars /\ InvestigationFairness

-------------------------------------------------------------------------------
\* The state is well typed, and no request is an attempt its tool does not have.
InvestigationTypeOK ==
  /\ known \in BOOLEAN /\ changes \in 0 .. MaxChanges
  /\ page \in [phase : {"idle", "waiting", "reading", "backoff", "done"}, tool : Tools,
               attempt : 0 .. Retries, targeted : BOOLEAN,
               result : {Running} \cup [by : {"agent", "page"}, status : Statuses]]
  /\ page.attempt <= RetriesOf(page.tool)
  /\ page.phase = "done" <=> page.result # Running
  /\ \A m \in wire : /\ m.tool \in Tools /\ m.stage \in Stages
                     /\ m.attempt \in 0 .. RetriesOf(m.tool)
  /\ reports \in [agent : Nat, page : Nat]

\* Whatever is lost, late or sent again, the agent and the fallback each generate at most
\* one report; a result called COMPLETE rests on exactly one of its own path, and a
\* result that ends before the report, or tells the agent's own failure, on none.
\* (_rest and runInvestigation send calls with side effects once; run_autonomous_investigation
\* generates the report last.)
ReportedOnce ==
  /\ reports.agent <= 1 /\ reports.page <= 1
  /\ page.result.by = "agent" =>
       reports.agent = IF page.result.status = "COMPLETE" THEN 1 ELSE 0
  /\ page.result = Result("page", "COMPLETE") => reports.page = 1
  /\ page.result.by = "page" /\ page.tool # Report => reports.page = 0

\* Every investigation ends with a result, so the page's `running` flag is cleared,
\* even when the server never answers.
Settles == page.phase # "idle" ~> page.phase = "done"
===============================================================================
