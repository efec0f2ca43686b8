---------------------------- MODULE SecurityConsole ---------------------------
(***************************************************************************)
(* The admin console (frontend/app.jsx) driving the decision engine.  An   *)
(* administrator opens the dialog of an incident the queue shows as ACTIVE *)
(* and confirms; the console posts a denial that names the incident's user *)
(* and shows a toast when the answer is a success.  The queue is a polled  *)
(* snapshot, several consoles may be open, and an answer may come too late *)
(* (the 8 s abort), the server handling the request all the same.          *)
(***************************************************************************)
EXTENDS SecurityDecision, Functions

CONSTANTS Consoles,   \* open browser tabs of administrators
          MaxLate     \* bound on abandoned requests still on their way

VARIABLES
  shown,    \* per console: the incidents its queue shows as ACTIVE
  dialog,   \* selectedIncident of each console, NoIncident when closed
  post,     \* the denial each console waits for: its incident and how far it is
  late,     \* per user: abandoned denials the server has yet to handle
  toasts    \* incidents whose confirmation was answered "Demo containment recorded"

console == <<shown, dialog, post, toasts>>
cvars == <<vars, console, late>>

Idle == [incident |-> NoIncident, state |-> "idle"]
Active == {i \in DOMAIN incidents : incidents[i].status = "ACTIVE"}

ConsoleInit ==
  /\ Init
  /\ shown = [c \in Consoles |-> {}]
  /\ dialog = [c \in Consoles |-> NoIncident]
  /\ post = [c \in Consoles |-> Idle]
  /\ late = [u \in Users |-> 0]
  /\ toasts = <<>>

\* loadSecurityCenter, every 5 s.
Poll(c) ==
  /\ shown' = [shown EXCEPT ![c] = Active]
  /\ UNCHANGED <<vars, dialog, post, late, toasts>>

\* A row of the queue; the dialog keeps the incident as it was shown.
OpenDialog(c, i) ==
  /\ dialog[c] = NoIncident
  /\ i \in shown[c]
  /\ dialog' = [dialog EXCEPT ![c] = i]
  /\ UNCHANGED <<vars, shown, post, late, toasts>>

CloseDialog(c) ==
  /\ dialog[c] # NoIncident
  /\ dialog' = [dialog EXCEPT ![c] = NoIncident]
  /\ UNCHANGED <<vars, shown, post, late, toasts>>

\* denySelectedIncident: the request names the user only.
Confirm(c) ==
  /\ dialog[c] # NoIncident
  /\ post[c] = Idle
  /\ post' = [post EXCEPT ![c] = [incident |-> dialog[c], state |-> "sent"]]
  /\ UNCHANGED <<vars, shown, dialog, late, toasts>>

\* The engine raises: no active incident (404) or contained already (409).
Refused(u) == ActiveOf(u) = {} \/ Contained(u)

\* The server handles a console's request.
HandleDeny(c) ==
  LET u == incidents[post[c].incident].user
  IN /\ post[c].state = "sent"
     /\ \/ /\ DenyAccess(u)
           /\ post' = [post EXCEPT ![c].state = "granted"]
        \/ /\ Refused(u)
           /\ post' = [post EXCEPT ![c].state = "refused"]
           /\ UNCHANGED vars
     /\ UNCHANGED <<shown, dialog, late, toasts>>

\* Slip: the console does not look at response.ok.
AnswerUnchecked(c) ==
  /\ post[c].state \in {"granted", "refused"}
  /\ post' = [post EXCEPT ![c] = Idle]
  /\ shown' = [shown EXCEPT ![c] = Active]
  /\ dialog' = [dialog EXCEPT ![c] = NoIncident]
  /\ toasts' = Append(toasts, post[c].incident)
  /\ UNCHANGED <<vars, late>>

\* The answer arrives: a success reloads the queue, closes whatever dialog is
\* open by now and shows the toast; a failure leaves the dialog open.
Answer(c) ==
  /\ post' = [post EXCEPT ![c] = Idle]
  /\ \/ /\ post[c].state = "granted"
        /\ shown' = [shown EXCEPT ![c] = Active]
        /\ dialog' = [dialog EXCEPT ![c] = NoIncident]
        /\ toasts' = Append(toasts, post[c].incident)
     \/ /\ post[c].state = "refused"
        /\ UNCHANGED <<shown, dialog, toasts>>
  /\ UNCHANGED <<vars, late>>

\* The 8 s are over: the banner says so, whatever the server did or will do.
Abort(c) ==
  LET u == incidents[post[c].incident].user
  IN /\ post[c] # Idle
     /\ post[c].state = "sent" => FoldFunction(LAMBDA x, y : x + y, 0, late) < MaxLate
     /\ late' = IF post[c].state = "sent" THEN [late EXCEPT ![u] = @ + 1] ELSE late
     /\ post' = [post EXCEPT ![c] = Idle]
     /\ UNCHANGED <<vars, shown, dialog, toasts>>

\* The server handles an abandoned request; nobody sees the answer.
HandleLate(u) ==
  /\ late[u] > 0
  /\ late' = [late EXCEPT ![u] = @ - 1]
  /\ DenyAccess(u) \/ (Refused(u) /\ UNCHANGED vars)
  /\ UNCHANGED console

ConsoleNext ==
  \/ \E c \in Consoles :
       \/ \E i \in DOMAIN incidents : OpenDialog(c, i)
       \/ Poll(c) \/ CloseDialog(c) \/ Confirm(c)
       \/ HandleDeny(c) \/ Answer(c) \/ Abort(c)
  \/ \E u \in Users : HandleLate(u)
  \/ /\ \E u \in Users : \/ \E score \in Scores : AssessLogin(u, score)
                         \/ RestoreAccess(u)
     /\ UNCHANGED <<console, late>>

ConsoleSpec == ConsoleInit /\ [][ConsoleNext]_cvars

-------------------------------------------------------------------------------
(* Properties *)

ToastsOf(u)  == {n \in DOMAIN toasts : incidents[toasts[n]].user = u}
GrantedTo(u) == {c \in Consoles : /\ post[c].state = "granted"
                                  /\ incidents[post[c].incident].user = u}

\* No console claims a denial that another console's request, or an abandoned
\* one, made: per user, toasts shown and due never exceed the recorded denials.
OneDenialPerToast ==
  \A u \in Users :
    Cardinality(ToastsOf(u)) + Cardinality(GrantedTo(u))
      <= Cardinality(Entries("ACCESS_DENIED_DEMO", u))
===============================================================================
