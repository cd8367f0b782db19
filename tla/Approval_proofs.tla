--------------------------- MODULE Approval_proofs ---------------------------
(* Proofs about an approval from the click to the disk, for any number of    *)
(* analyses and approvals: the page and the server are each what their own   *)
(* modules say, and together they show no receipt that is not true.          *)
EXTENDS Approval, TLAPS

-----------------------------------------------------------------------------
(* The page.                                                                 *)

\* What keeps the page's properties: a report comes from an analysis that was
\* started, and the results view has one.
PageIInv ==
  /\ TypeOK
  /\ ConfirmationFresh
  /\ analyzing => analyses # 0
  /\ view = "results" => report # NoReport

\* Every handler preserves the page's inductive invariant.
LEMMA PageStep == PageIInv /\ [Next]_vars => PageIInv'
<1> SUFFICES ASSUME PageIInv, [Next]_vars PROVE PageIInv'
  OBVIOUS
<1> USE BoundsAssumption
        DEF PageIInv, TypeOK, ConfirmationFresh, MayExecute, UpdateExecutionButton,
            SetExecutionBusy, ResetExecutionGate, Reports, NoReport, gate
<1>1. CASE Submit
  <2>1. analyses' \in 0 .. MaxAnalyses /\ analyses' # 0
    BY <1>1 DEF Submit
  <2> QED
    BY <1>1, <2>1 DEF Submit
<1>2. CASE AnalysisSucceeds
  <2>1. report' \in Reports /\ report' # NoReport
    BY <1>2 DEF AnalysisSucceeds
  <2> QED
    BY <1>2, <2>1 DEF AnalysisSucceeds
<1>3. CASE AnalysisFails
  BY <1>3 DEF AnalysisFails
<1>4. CASE DismissError
  BY <1>4 DEF DismissError
<1>5. CASE Confirm
  BY <1>5 DEF Confirm
<1>6. CASE Identify
  BY <1>6 DEF Identify
<1>7. CASE Execute
  BY <1>7 DEF Execute, Requests
<1>8. ASSUME NEW request \in inFlight, ExecuteSucceeds(request) PROVE PageIInv'
  BY <1>8 DEF ExecuteSucceeds, Requests
<1>9. ASSUME NEW request \in inFlight, ExecuteFails(request) PROVE PageIInv'
  BY <1>9 DEF ExecuteFails
<1>10. CASE UNCHANGED vars
  BY <1>10 DEF vars
<1> QED
  BY <1>1, <1>2, <1>3, <1>4, <1>5, <1>6, <1>7, <1>8, <1>9, <1>10 DEF Next

\* An approval is sent for the report its confirmation was given for.
LEMMA PageSendsConfirmed ==
  ASSUME PageIInv, [Next]_vars, NEW request \in inFlight' \ inFlight
  PROVE  /\ Execute
         /\ request.report = confirmedFor
         /\ request.report = report
         /\ view = "results"
         /\ ~analyzing
<1>1. Execute
  BY DEF Next, Submit, AnalysisSucceeds, AnalysisFails, DismissError, Confirm, Identify,
         ExecuteSucceeds, ExecuteFails, vars
<1>2. request = [id |-> approvals + 1, report |-> report]
  BY <1>1 DEF Execute
<1> QED
  BY <1>1, <1>2 DEF Execute, PageIInv, TypeOK, ConfirmationFresh

\* With the server behind it, the page takes only steps of its own.
LEMMA PageStepOfApproval == [ApprovalNext]_allVars => [Next]_vars
BY DEF ApprovalNext, Browse, Send, Serve, Deliver, Disconnect, PowerLoss, page, allVars, Next

\* Page and server together implement the page.
THEOREM PageImplemented == ApprovalSpec => Spec
<1>1. ApprovalInit => Init
  BY DEF ApprovalInit
<1> QED
  BY <1>1, PageStepOfApproval, PTL DEF ApprovalSpec, Spec

\* The page starts without a report.
LEMMA PageInit == Init => PageIInv
<1> SUFFICES ASSUME Init PROVE PageIInv
  OBVIOUS
<1>1. analyses \in 0 .. MaxAnalyses /\ approvals \in 0 .. MaxApprovals
  BY BoundsAssumption DEF Init
<1>2. enabled <=> MayExecute
  BY DEF Init, MayExecute
<1> QED
  BY <1>1, <1>2 DEF Init, PageIInv, TypeOK, ConfirmationFresh, NoReport

\* The page's inductive invariant holds, with the server and without it.
LEMMA PageInvariance == Spec => []PageIInv
BY PageInit, PageStep, PTL DEF Spec

\* A confirmation never outlives the report it was given for.
THEOREM ConfirmationsFresh == Spec => []ConfirmationFresh
<1>1. PageIInv => ConfirmationFresh
  BY DEF PageIInv
<1> QED
  BY <1>1, PageInvariance, PTL

\* Every approval is sent with a confirmation for the very report it carries.
THEOREM ApprovalsBound == ApprovalSpec => ApprovalBound
<1>1. PageIInv /\ [Next]_vars =>
        [\A request \in inFlight' \ inFlight :
           /\ request.report = confirmedFor
           /\ request.report = report
           /\ view = "results"
           /\ ~analyzing]_vars
  BY PageSendsConfirmed
<1> QED
  BY <1>1, PageImplemented, PageInvariance, PTL DEF Spec, ApprovalBound

-----------------------------------------------------------------------------
(* The page and the server.                                                  *)

\* A receipt on screen is for an approval the server acknowledged.
ReceiptGiven ==
  receipt # NoReport =>
    \E request \in sent : request.report = receipt /\ stage[request] = "created"

\* Whatever a power loss may leave was published no earlier than any approval
\* that was acknowledged.
SurvivorsLatest ==
  \A request \in Requests, i \in DOMAIN published :
    stage[request] = "created" /\ published[i] = request =>
      \A s \in survivors : \E j \in i .. Len(published) : s = published[j]

ServerTypeOK ==
  /\ stage \in [Requests -> {"pending", "published", "created", "failed", "rejected"}]
  /\ published \in Seq(Requests)
  /\ survivors \subseteq {Absent, Prior, Special} \cup sent
  /\ \A i \in DOMAIN published : stage[published[i]] # "pending"

ApprovalIInv ==
  /\ PageIInv
  /\ ApprovalTypeOK
  /\ ServerTypeOK
  /\ ReceiptGiven
  /\ SurvivorsLatest

\* What the server does with a request preserves the inductive invariant.
LEMMA ServeStep ==
  ASSUME ApprovalIInv, NEW request \in sent, Serve(request)
  PROVE  ApprovalIInv'
<1>0. PageIInv' /\ TypeOK'
  BY DEF ApprovalIInv, Serve, page, vars, gate, PageIInv, TypeOK, ConfirmationFresh, MayExecute
<1> USE DEF ApprovalIInv, ApprovalTypeOK, ServerTypeOK, Serve, page, vars, gate
<1>1. request \in Requests
  OBVIOUS
<1>2. CASE Register!Publish(request) /\ published' = Append(published, request)
  <2> USE <1>2 DEF Register!Publish
  <2>1. /\ Len(published') = Len(published) + 1
        /\ published' \in Seq(Requests)
        /\ published'[Len(published')] = request
        /\ \A i \in DOMAIN published : published'[i] = published[i]
    BY <1>1
  <2>2. \A i \in DOMAIN published : published[i] # request
    OBVIOUS
  <2>3. /\ artifact' \in {Absent, Prior, Special} \cup sent'
        /\ artifact' \in survivors'
        /\ inFlight' \subseteq sent' /\ sent' \subseteq Requests
        /\ survivors' \subseteq {Absent, Prior, Special} \cup sent'
    OBVIOUS
  <2>4. \A i, j \in DOMAIN published' : published'[i] = published'[j] => i = j
    BY <2>1, <2>2
  <2>5. /\ stage' \in [Requests -> {"pending", "published", "created", "failed", "rejected"}]
        /\ \A q \in Requests \ sent' : stage'[q] = "pending"
        /\ \A i \in DOMAIN published' : stage'[published'[i]] # "pending"
    BY <1>1, <2>1
  <2>6. ReceiptGiven'
    BY <1>1 DEF ReceiptGiven
  <2>7. SurvivorsLatest'
    <3> SUFFICES ASSUME NEW q \in Requests, NEW i \in DOMAIN published',
                        stage'[q] = "created", published'[i] = q, NEW s \in survivors'
                 PROVE  \E j \in i .. Len(published') : s = published'[j]
      BY DEF SurvivorsLatest
    <3>1. q # request /\ stage[q] = "created"
      BY <1>1
    <3>2. i \in DOMAIN published /\ published[i] = q
      BY <2>1, <3>1
    <3>3. CASE s = request
      BY <2>1, <3>2, <3>3
    <3>4. CASE s \in survivors
      BY <2>1, <3>1, <3>2, <3>4 DEF SurvivorsLatest
    <3> QED
      BY <3>3, <3>4
  <2> QED
    BY <1>0, <2>1, <2>3, <2>4, <2>5, <2>6, <2>7
<1>3. CASE Register!Acknowledge(request) /\ UNCHANGED published
  <2> USE <1>3 DEF Register!Acknowledge
  <2>1. ReceiptGiven'
    BY <1>1 DEF ReceiptGiven
  <2>2. SurvivorsLatest'
    <3> SUFFICES ASSUME NEW q \in Requests, NEW i \in DOMAIN published,
                        stage'[q] = "created", published[i] = q
                 PROVE  \E j \in i .. Len(published) : request = published[j]
      BY DEF SurvivorsLatest
    <3>1. CASE q = request
      BY <3>1
    <3>2. CASE q # request
      BY <1>1, <3>2 DEF SurvivorsLatest
    <3> QED
      BY <3>1, <3>2
  <2> QED
    BY <1>0, <1>1, <2>1, <2>2
<1>4. CASE Register!Refuse(request) /\ UNCHANGED published
  <2>1. PICK s \in {"failed", "rejected"} : stage' = [stage EXCEPT ![request] = s]
    BY <1>4 DEF Register!Refuse
  <2>2. \A q \in Requests : stage'[q] = "created" <=> stage[q] = "created"
    BY <1>1, <1>4, <2>1 DEF Register!Refuse
  <2>3. UNCHANGED <<artifact, survivors>>
    BY <1>4 DEF Register!Refuse
  <2>4. ReceiptGiven' /\ SurvivorsLatest'
    BY <1>4, <2>2, <2>3 DEF ReceiptGiven, SurvivorsLatest
  <2> QED
    BY <1>0, <1>1, <1>4, <2>1, <2>3, <2>4
<1> QED
  BY <1>2, <1>3, <1>4

\* A power loss leaves what an acknowledged approval wrote, or takes the place
\* with everything that was published in it.
LEMMA PowerLossStep ==
  ASSUME ApprovalIInv, PowerLoss
  PROVE  ApprovalIInv'
<1>0. PageIInv' /\ TypeOK'
  BY DEF ApprovalIInv, PowerLoss, page, vars, gate, PageIInv, TypeOK, ConfirmationFresh, MayExecute
<1> USE DEF ApprovalIInv, ApprovalTypeOK, ServerTypeOK, PowerLoss, page, vars, gate
<1>1. CASE Register!Revert /\ UNCHANGED published
  BY <1>0, <1>1 DEF Register!Revert, ReceiptGiven, SurvivorsLatest
<1>2. CASE Register!Vanish /\ published' = <<>>
  BY <1>0, <1>2 DEF Register!Vanish, ReceiptGiven, SurvivorsLatest
<1> QED
  BY <1>1, <1>2

\* What the page does, its answers included, preserves the inductive invariant.
LEMMA PageOfApprovalStep ==
  ASSUME ApprovalIInv, [Next]_vars,
         \/ Browse
         \/ Send
         \/ \E request \in inFlight : Deliver(request) \/ Disconnect(request)
  PROVE  ApprovalIInv'
<1>0. PageIInv' /\ TypeOK'
  BY PageStep DEF ApprovalIInv, PageIInv
<1> USE DEF ApprovalIInv, ApprovalTypeOK, ServerTypeOK, page, server
<1>1. CASE Browse
  <2>1. UNCHANGED <<sent, server, published, inFlight>> /\ receipt' \in {receipt, NoReport}
    BY <1>1 DEF Browse, Submit, AnalysisSucceeds, AnalysisFails, DismissError, Confirm,
                Identify, ResetExecutionGate, gate
  <2> QED
    BY <1>0, <2>1 DEF ReceiptGiven, SurvivorsLatest
<1>2. CASE Send
  <2>1. /\ UNCHANGED <<server, published, receipt>>
        /\ inFlight \subseteq inFlight' /\ sent' = sent \cup inFlight'
    BY <1>2 DEF Send, Execute
  <2>2. sent' \subseteq Requests
    BY <1>0, <2>1 DEF TypeOK
  <2> QED
    BY <1>0, <2>1, <2>2 DEF ReceiptGiven, SurvivorsLatest
<1>3. ASSUME NEW request \in inFlight, Deliver(request)
      PROVE  ApprovalIInv'
  <2>1. UNCHANGED <<sent, server, published>> /\ inFlight' \subseteq inFlight
    BY <1>3 DEF Deliver, ExecuteSucceeds, ExecuteFails
  <2>2. \/ receipt' = receipt
        \/ receipt' = request.report /\ stage[request] = "created"
    BY <1>3 DEF Deliver, ExecuteSucceeds, ExecuteFails
  <2>3. ReceiptGiven'
    BY <2>1, <2>2 DEF ReceiptGiven
  <2> QED
    BY <1>0, <2>1, <2>3 DEF SurvivorsLatest
<1>4. ASSUME NEW request \in inFlight, Disconnect(request)
      PROVE  ApprovalIInv'
  <2>1. UNCHANGED <<sent, server, published, receipt>> /\ inFlight' \subseteq inFlight
    BY <1>4 DEF Disconnect, ExecuteFails
  <2> QED
    BY <1>0, <2>1 DEF ReceiptGiven, SurvivorsLatest
<1> QED
  BY <1>1, <1>2, <1>3, <1>4

\* Every step of page, server and machine preserves the inductive invariant.
LEMMA ApprovalStep == ApprovalIInv /\ [ApprovalNext]_allVars => ApprovalIInv'
<1> SUFFICES ASSUME ApprovalIInv, [ApprovalNext]_allVars PROVE ApprovalIInv'
  OBVIOUS
<1>1. [Next]_vars
  BY PageStepOfApproval
<1>2. CASE UNCHANGED allVars
  BY <1>2
     DEF allVars, page, server, vars, gate, ApprovalIInv, ApprovalTypeOK, ServerTypeOK,
         PageIInv, TypeOK, ConfirmationFresh, MayExecute, ReceiptGiven, SurvivorsLatest
<1> QED
  BY <1>1, <1>2, ServeStep, PowerLossStep, PageOfApprovalStep DEF ApprovalNext

\* The inductive invariant of page and server.
LEMMA ApprovalInvariance == ApprovalSpec => []ApprovalIInv
<1>1. ApprovalInit => ApprovalIInv
  <2> SUFFICES ASSUME ApprovalInit PROVE ApprovalIInv
    OBVIOUS
  <2>1. PageIInv
    BY PageInit DEF ApprovalInit
  <2>2. /\ artifact \in {Absent, Prior, Special} /\ survivors = {artifact}
        /\ stage = [r \in Requests |-> "pending"]
        /\ sent = {} /\ published = <<>> /\ inFlight = {} /\ receipt = NoReport
    BY DEF ApprovalInit, Register!Init, Init
  <2> QED
    BY <2>1, <2>2
       DEF ApprovalIInv, PageIInv, ApprovalTypeOK, ServerTypeOK, ReceiptGiven, SurvivorsLatest
<1> QED
  BY <1>1, ApprovalStep, PTL DEF ApprovalSpec

\* Page and server keep their types; what is published is published once.
THEOREM ApprovalTypeCorrect == ApprovalSpec => []ApprovalTypeOK
<1>1. ApprovalIInv => ApprovalTypeOK
  BY DEF ApprovalIInv
<1> QED
  BY <1>1, ApprovalInvariance, PTL

\* A receipt on screen is true: its approval was acknowledged, and the artifact
\* is that approval's or was published after it.
THEOREM ReceiptsHonest == ApprovalSpec => []ReceiptHonest
<1>1. ApprovalIInv => ReceiptHonest
  <2> SUFFICES ASSUME ApprovalIInv, receipt # NoReport
               PROVE  \E request \in sent :
                        /\ request.report = receipt
                        /\ stage[request] = "created"
                        /\ \A i \in DOMAIN published :
                             published[i] = request =>
                               \E j \in i .. Len(published) : artifact = published[j]
    BY DEF ReceiptHonest
  <2>1. PICK request \in sent : request.report = receipt /\ stage[request] = "created"
    BY DEF ApprovalIInv, ReceiptGiven
  <2>2. request \in Requests /\ artifact \in survivors
    BY DEF ApprovalIInv, ApprovalTypeOK
  <2> QED
    BY <2>1, <2>2 DEF ApprovalIInv, SurvivorsLatest
<1> QED
  BY <1>1, ApprovalInvariance, PTL

\* The server does what ArtifactRegister promises, and nothing else.
THEOREM RegisterUsed == ApprovalSpec => Register!Spec
<1>1. ApprovalInit => Register!Init
  BY DEF ApprovalInit
<1>2. ApprovalIInv /\ [ApprovalNext]_allVars => [Register!Next]_(Register!vars)
  <2> SUFFICES ASSUME ApprovalIInv, [ApprovalNext]_allVars
               PROVE  [Register!Next]_(Register!vars)
    OBVIOUS
  <2>1. CASE PowerLoss
    BY <2>1 DEF PowerLoss, Register!Next
  <2>2. ASSUME NEW request \in sent, Serve(request) PROVE Register!Next
    BY <2>2 DEF Serve, Register!Next, ApprovalIInv, ApprovalTypeOK
  <2>3. CASE \/ Browse \/ Send \/ UNCHANGED allVars
             \/ \E request \in inFlight : Deliver(request) \/ Disconnect(request)
    <3>1. UNCHANGED server
      BY <2>3 DEF Browse, Send, Deliver, Disconnect, allVars
    <3> QED
      BY <3>1 DEF server, Register!vars
  <2> QED
    BY <2>1, <2>2, <2>3 DEF ApprovalNext
<1> QED
  BY <1>1, <1>2, ApprovalInvariance, PTL DEF ApprovalSpec, Register!Spec
=============================================================================
