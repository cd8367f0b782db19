------------------------------ MODULE Approval ------------------------------
(***************************************************************************)
(* An approval from the click to the disk: the analyst page (Dashboard) and *)
(* the server behind POST /api/execute-playbook, which is the register that *)
(* the remediation writer implements (ArtifactRegister; see                 *)
(* Remediation!ImplementsRegister).  An answer may be lost while the server *)
(* goes on, the server may stop, and the machine may lose its power.        *)
(***************************************************************************)
EXTENDS Dashboard, Sequences

CONSTANTS Absent, Prior, Special

VARIABLES
  sent,       \* approvals that left the page
  artifact, survivors, anchored, stage, overwrote,  \* see ArtifactRegister
  published   \* history: the order of publication, since the place was made

Register == INSTANCE ArtifactRegister

page == vars
server == <<artifact, survivors, anchored, stage, overwrote>>
allVars == <<page, sent, server, published>>

ApprovalInit ==
  /\ Init
  /\ Register!Init
  /\ sent = {}
  /\ published = <<>>

-----------------------------------------------------------------------------
\* What does not involve the server.
Browse ==
  /\ \/ Submit \/ AnalysisSucceeds \/ AnalysisFails \/ DismissError
     \/ Confirm \/ Identify
  /\ UNCHANGED <<sent, server, published>>

Send ==
  /\ Execute
  /\ sent' = sent \cup inFlight'
  /\ UNCHANGED <<server, published>>

\* execute_playbook: validation and the writer.  A request that is on its way
\* is served whether or not the page still waits for the answer.
Serve(request) ==
  /\ request \in sent
  /\ \/ /\ Register!Publish(request)
        /\ published' = Append(published, request)
     \/ /\ Register!Acknowledge(request) \/ Register!Refuse(request)
        /\ UNCHANGED published
  /\ UNCHANGED <<page, sent>>

\* Faulty variant: the server answers before the directory is synced.
DeliverEarly(request) ==
  /\ \/ stage[request] \in {"published", "created"} /\ ExecuteSucceeds(request)
     \/ stage[request] \in {"failed", "rejected"} /\ ExecuteFails(request)
  /\ UNCHANGED <<sent, server, published>>

\* The answer reaches the page: 201 with the receipt, 422 or 500.
Deliver(request) ==
  /\ \/ stage[request] = "created" /\ ExecuteSucceeds(request)
     \/ stage[request] \in {"failed", "rejected"} /\ ExecuteFails(request)
  /\ UNCHANGED <<sent, server, published>>

\* The connection breaks, at whatever point the server is.
Disconnect(request) ==
  /\ ExecuteFails(request)
  /\ UNCHANGED <<sent, server, published>>

PowerLoss ==
  /\ \/ Register!Revert /\ UNCHANGED published
     \/ Register!Vanish /\ published' = <<>>
  /\ UNCHANGED <<page, sent>>

ApprovalNext ==
  \/ Browse
  \/ Send
  \/ \E request \in sent : Serve(request)
  \/ \E request \in inFlight : Deliver(request) \/ Disconnect(request)
  \/ PowerLoss

\* The server comes to an end with every request it got, and an answer it gave
\* reaches the page; the analyst need not do anything.
ApprovalSpec ==
  /\ ApprovalInit
  /\ [][ApprovalNext]_allVars
  /\ \A request \in Requests :
       WF_allVars(Serve(request)) /\ WF_allVars(Deliver(request))

-----------------------------------------------------------------------------
ApprovalTypeOK ==
  /\ TypeOK
  /\ inFlight \subseteq sent /\ sent \subseteq Requests
  /\ artifact \in {Absent, Prior, Special} \cup sent
  /\ artifact \in survivors
  /\ \A i, j \in DOMAIN published : published[i] = published[j] => i = j
  /\ \A request \in Requests \ sent : stage[request] = "pending"

\* A receipt on screen tells the truth: an approval of that report was
\* acknowledged, and the artifact is its artifact or one published after it,
\* whatever answers were lost and whatever power loss left the directory.
ReceiptHonest ==
  receipt # NoReport =>
    \E request \in sent :
      /\ request.report = receipt
      /\ stage[request] = "created"
      /\ \A i \in DOMAIN published :
           published[i] = request =>
             \E j \in i .. Len(published) : artifact = published[j]
=============================================================================
