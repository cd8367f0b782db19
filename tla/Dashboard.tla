------------------------------ MODULE Dashboard ------------------------------
(***************************************************************************)
(* The analyst page (web/templates/index.html): one form that starts an     *)
(* analysis, one gate that approves the remediation artifact of the report  *)
(* on screen.  JavaScript runs one handler at a time; a handler is one      *)
(* action up to its `await fetch(...)`, and the rest of it another, taken   *)
(* when the answer comes.  The analyst may do anything an enabled, visible  *)
(* control allows in between.                                               *)
(***************************************************************************)
EXTENDS Naturals, FiniteSets

CONSTANTS
  MaxAnalyses,  \* bound on the analyses started
  MaxApprovals  \* bound on the approvals sent

ASSUME BoundsAssumption == MaxAnalyses \in Nat /\ MaxApprovals \in Nat

\* Analysis n yields report n; 0 stands for null.
Reports == 1 .. MaxAnalyses
NoReport == 0

VARIABLES
  view,        \* the visible one of the four views
  analyses,    \* analyses started; the last one is the one awaited
  analyzing,   \* an orchestrate request is in flight, analyzeButton disabled
  report,      \* currentIncidentReport
  busy,        \* executionBusy
  complete,    \* executionComplete
  confirmed,   \* approvalConfirmed.checked
  identity,    \* approvedBy holds a valid name
  locked,      \* approvedBy and approvalConfirmed are disabled
  enabled,     \* executePlaybook is not disabled
  receipt,     \* the report whose receipt executionReceipt shows, if any
  inFlight,    \* execute-playbook requests not yet answered
  approvals,   \* approvals sent so far
  confirmedFor \* history: the report on screen when the box was ticked

gate == <<busy, complete, confirmed, identity, locked, enabled, receipt>>
vars == <<view, analyses, analyzing, report, gate, inFlight, approvals, confirmedFor>>

Requests == [id : 1 .. MaxApprovals, report : Reports]

Init ==
  /\ view = "empty"
  /\ analyses = 0
  /\ analyzing = FALSE
  /\ report = NoReport
  /\ busy = FALSE /\ complete = FALSE
  /\ confirmed = FALSE /\ identity = FALSE
  /\ locked = FALSE /\ enabled = FALSE
  /\ receipt = NoReport
  /\ inFlight = {}
  /\ approvals = 0
  /\ confirmedFor = NoReport

\* What updateExecutionButton computes, from the values after the handler.
MayExecute == ~busy /\ ~complete /\ report # NoReport /\ confirmed /\ identity

UpdateExecutionButton == enabled' = MayExecute'

SetExecutionBusy(isBusy) ==
  /\ busy' = isBusy
  /\ locked' = (isBusy \/ complete')
  /\ UpdateExecutionButton

\* Faulty variant: the ticked box survives.
ResetExecutionGateTicked ==
  /\ busy' = FALSE
  /\ complete' = FALSE
  /\ identity' = FALSE
  /\ locked' = FALSE
  /\ receipt' = NoReport
  /\ UNCHANGED <<confirmed, confirmedFor>>
  /\ UpdateExecutionButton

ResetExecutionGate ==
  /\ busy' = FALSE
  /\ complete' = FALSE
  /\ confirmed' = FALSE
  /\ identity' = FALSE
  /\ locked' = FALSE
  /\ receipt' = NoReport
  /\ confirmedFor' = NoReport
  /\ UpdateExecutionButton

-----------------------------------------------------------------------------
\* Faulty variant: the old report stays on screen while the next is awaited.
SubmitKeeping ==
  /\ ~analyzing
  /\ analyses < MaxAnalyses
  /\ analyses' = analyses + 1
  /\ analyzing' = TRUE
  /\ UNCHANGED <<view, report, gate, inFlight, approvals, confirmedFor>>

\* The form's submit handler up to its fetch.  A submission without input only
\* shows a message.  The form does not look at executionBusy.
Submit ==
  /\ ~analyzing
  /\ analyses < MaxAnalyses
  /\ analyses' = analyses + 1
  /\ analyzing' = TRUE
  /\ report' = NoReport
  /\ ResetExecutionGate
  /\ view' = "loading"
  /\ UNCHANGED <<inFlight, approvals>>

\* renderResults, and the `finally` of the submit handler.
AnalysisSucceeds ==
  /\ analyzing
  /\ analyzing' = FALSE
  /\ report' = analyses
  /\ ResetExecutionGate
  /\ view' = "results"
  /\ UNCHANGED <<analyses, inFlight, approvals>>

\* Faulty variant: the loading view is not replaced.
AnalysisFailsSilently ==
  /\ analyzing
  /\ analyzing' = FALSE
  /\ UNCHANGED <<view, analyses, report, gate, inFlight, approvals, confirmedFor>>

\* A network error, an error status or an answer without a report.
AnalysisFails ==
  /\ analyzing
  /\ analyzing' = FALSE
  /\ view' = "error"
  /\ UNCHANGED <<analyses, report, gate, inFlight, approvals, confirmedFor>>

DismissError ==
  /\ view = "error"
  /\ view' = "empty"
  /\ UNCHANGED <<analyses, analyzing, report, gate, inFlight, approvals, confirmedFor>>

-----------------------------------------------------------------------------
\* The analyst ticks or unticks the box; the listener updates the button.
Confirm ==
  /\ view = "results"
  /\ ~locked
  /\ confirmed' = ~confirmed
  /\ confirmedFor' = IF confirmed' THEN report ELSE NoReport
  /\ UNCHANGED <<view, analyses, analyzing, report, busy, complete, identity,
                 locked, receipt, inFlight, approvals>>
  /\ UpdateExecutionButton

\* The analyst types a name that is, or is no longer, valid.
Identify ==
  /\ view = "results"
  /\ ~locked
  /\ identity' = ~identity
  /\ UNCHANGED <<view, analyses, analyzing, report, busy, complete, confirmed,
                 locked, receipt, inFlight, approvals, confirmedFor>>
  /\ UpdateExecutionButton

\* The click handler of executePlaybook up to its fetch.
Execute ==
  /\ view = "results"
  /\ enabled
  /\ report # NoReport /\ identity /\ confirmed
  /\ approvals < MaxApprovals
  /\ approvals' = approvals + 1
  /\ inFlight' = inFlight \cup {[id |-> approvals + 1, report |-> report]}
  /\ UNCHANGED <<view, analyses, analyzing, report, complete, confirmed, identity,
                 receipt, confirmedFor>>
  /\ SetExecutionBusy(TRUE)

\* Faulty variant: the gate stays busy after an answer.
ExecuteFailsBusy(request) ==
  /\ request \in inFlight
  /\ inFlight' = inFlight \ {request}
  /\ UNCHANGED <<view, analyses, analyzing, report, gate, approvals, confirmedFor>>

\* The answer is 201 with a receipt.  Which report was approved is not compared
\* with the one on screen.
ExecuteSucceeds(request) ==
  /\ request \in inFlight
  /\ inFlight' = inFlight \ {request}
  /\ complete' = TRUE
  /\ receipt' = request.report
  /\ UNCHANGED <<view, analyses, analyzing, report, confirmed, identity, approvals,
                 confirmedFor>>
  /\ SetExecutionBusy(FALSE)

\* A network error, an error status or an invalid receipt.
ExecuteFails(request) ==
  /\ request \in inFlight
  /\ inFlight' = inFlight \ {request}
  /\ UNCHANGED <<view, analyses, analyzing, report, complete, confirmed, identity,
                 receipt, approvals, confirmedFor>>
  /\ SetExecutionBusy(FALSE)

Next ==
  \/ Submit \/ AnalysisSucceeds \/ AnalysisFails \/ DismissError
  \/ Confirm \/ Identify \/ Execute
  \/ \E request \in inFlight : ExecuteSucceeds(request) \/ ExecuteFails(request)

Spec == Init /\ [][Next]_vars

-----------------------------------------------------------------------------
TypeOK ==
  /\ view \in {"empty", "loading", "error", "results"}
  /\ analyses \in 0 .. MaxAnalyses
  /\ report \in Reports \cup {NoReport}
  /\ \A flag \in {analyzing, busy, complete, confirmed, identity, locked, enabled} :
       flag \in BOOLEAN
  /\ receipt \in Reports \cup {NoReport}
  /\ inFlight \subseteq Requests
  /\ approvals \in 0 .. MaxApprovals
  /\ confirmedFor \in Reports \cup {NoReport}
  /\ view = "loading" <=> analyzing
  /\ enabled <=> MayExecute

\* A ticked box was ticked for the report now on screen: no confirmation is
\* carried over to another report by an analysis, its failure, or the late
\* answer to an approval.
ConfirmationFresh == confirmed => confirmedFor = report /\ report # NoReport

\* An approval is sent only with a confirmation given for the very report it
\* carries, with that report on screen and no analysis under way.
ApprovalBound ==
  [][\A request \in inFlight' \ inFlight :
       /\ request.report = confirmedFor
       /\ request.report = report
       /\ view = "results"
       /\ ~analyzing]_vars

\* The page never stays locked: an approval that is under way is answered.
GateReopens == busy ~> ~busy

\* "approve generation of the inert remediation artifact for this report"
\* (index.html:515): a receipt on screen is that of the report on screen.
ReceiptForThisReport ==
  view = "results" /\ receipt # NoReport => receipt = report
=============================================================================
