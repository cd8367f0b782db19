------------------------------ MODULE AgentGraph ------------------------------
(***************************************************************************)
(* One run of the agent graph (agents/graph.py, nodes.py): triage, intel    *)
(* and response, one after the other, on a report that does not change.     *)
(* Each node asks the model for a selection, if it may, and falls back to   *)
(* the default one; a run's nodes share a circuit breaker, if it has one.   *)
(***************************************************************************)
EXTENDS Selection

CONSTANTS
  Reports, \* the reports a run may be given
  Answers  \* the selections a model may answer with

ASSUME ReportsAssumption ==
  \A r \in Reports :
    /\ r.offline \in BOOLEAN
    /\ r.findings \in Seq([category : Categories, source : {NoIP} \cup Nat, risk : Nat,
                           evidence : Nat \ {0}, techniques : Seq(Nat)])

VARIABLES
  report,    \* the report of the run
  wiring,    \* the arguments of build_graph
  circuit,   \* CircuitBreakingLLM: its model and whether it has failed
  node,      \* the node that runs next
  thread,    \* the messages: role and generation mode of each
  selection, \* validated_selection of the last message
  playbook,  \* the playbook was composed
  requests,  \* history: requests sent to the model
  failures   \* history: requests that failed and models that were unavailable

inputs == <<report, wiring>>
vars == <<report, wiring, circuit, node, thread, selection, playbook, requests, failures>>

NoSelection == [findings |-> {}, evidence |-> {}, techniques |-> {},
                addresses |-> {}, focus |-> {}, repeats |-> FALSE]

Init ==
  /\ report \in Reports
  /\ wiring \in [llm : {"none", "auto", "injected"}, breaker : BOOLEAN]
  /\ circuit = [model |-> IF wiring.llm = "injected" THEN "ready" ELSE "unset",
                failed |-> FALSE]
  /\ node = "triage"
  /\ thread = <<>>
  /\ selection = NoSelection
  /\ playbook = FALSE
  /\ requests = 0
  /\ failures = 0

Running == node \in Roles

\* _resolve_llm: the reasons for not using a model at all.
MayUseModel ==
  /\ report.findings # <<>>
  /\ ~report.offline
  /\ wiring.llm # "none"

\* The circuit is closed, or there is none.
Closed == wiring.breaker => ~circuit.failed

\* The edges of the graph.
Successor == [triage |-> "intel", intel |-> "response", response |-> "done"]

\* The node's message, and the edge to the next node.
Finish(chosen, mode) ==
  /\ selection' = chosen
  /\ thread' = Append(thread, [role |-> node, mode |-> mode])
  /\ playbook' = (playbook \/ node = "response")
  /\ node' = Successor[node]
  /\ UNCHANGED inputs

FallBack == Finish(DefaultSelection(report, node), "deterministic_fallback")

WithoutModel ==
  /\ Running
  /\ ~MayUseModel
  /\ FallBack
  /\ UNCHANGED <<circuit, requests, failures>>

\* A model call after the failure of an earlier one.
OpenCircuit ==
  /\ Running /\ MayUseModel /\ ~Closed
  /\ FallBack
  /\ UNCHANGED <<circuit, requests, failures>>

\* The model is still to be made: once with a circuit breaker, otherwise by
\* every node.
MustSetUp == wiring.llm = "auto" /\ (wiring.breaker => circuit.model = "unset")

\* create_chat_model returns None: no key, or a client that cannot be made.
ModelUnavailable ==
  /\ Running /\ MayUseModel /\ Closed /\ MustSetUp
  /\ circuit' = IF wiring.breaker THEN [model |-> "none", failed |-> TRUE] ELSE circuit
  /\ failures' = failures + 1
  /\ FallBack
  /\ UNCHANGED requests

\* Reading the settings raises (a .env that is not UTF-8): the breaker's caller
\* falls back, and the next node tries again.
SetUpRaises ==
  /\ Running /\ MayUseModel /\ Closed /\ MustSetUp
  /\ IF wiring.breaker
       THEN FallBack
       ELSE node' = "raised" /\ UNCHANGED <<inputs, thread, selection, playbook>>
  /\ UNCHANGED <<circuit, requests, failures>>

\* The model is there, or has just been made, and is sent the prompt.
Ask ==
  /\ Running /\ MayUseModel /\ Closed
  /\ requests' = requests + 1

\* Faulty variant: the failure is not remembered.
RequestFailsForgotten ==
  /\ Ask
  /\ circuit' = [circuit EXCEPT !.model = IF wiring.breaker THEN "ready" ELSE @]
  /\ failures' = failures + 1
  /\ FallBack

\* Faulty variant: the exception is not suppressed.
RequestFailsLoudly ==
  /\ Ask
  /\ circuit' = [model |-> IF wiring.breaker THEN "ready" ELSE circuit.model,
                 failed |-> wiring.breaker]
  /\ failures' = failures + 1
  /\ node' = "raised"
  /\ UNCHANGED <<inputs, thread, selection, playbook>>

\* The request raises: a timeout, an error status, a refused key.
RequestFails ==
  /\ Ask
  /\ circuit' = [model |-> IF wiring.breaker THEN "ready" ELSE circuit.model,
                 failed |-> wiring.breaker]
  /\ failures' = failures + 1
  /\ FallBack

\* The answer is not a selection, or not one the report supports.
AnswerRefused ==
  /\ Ask
  /\ circuit' = [circuit EXCEPT !.model = IF wiring.breaker THEN "ready" ELSE @]
  /\ FallBack
  /\ UNCHANGED failures

AnswerAccepted ==
  /\ Ask
  /\ circuit' = [circuit EXCEPT !.model = IF wiring.breaker THEN "ready" ELSE @]
  /\ \E answer \in Answers :
       /\ WellFormed(answer)
       /\ SelectionIsGrounded(answer, report, node)
       /\ Finish(answer, "llm_selected_validated_facts")
  /\ UNCHANGED failures

\* The run is over; a state that is neither this nor has a step is a deadlock.
Ended ==
  /\ ~Running
  /\ UNCHANGED vars

Next ==
  \/ WithoutModel \/ OpenCircuit
  \/ ModelUnavailable \/ SetUpRaises
  \/ RequestFails \/ AnswerRefused \/ AnswerAccepted
  \/ Ended

Spec == Init /\ [][Next]_vars

-----------------------------------------------------------------------------
Modes == {"deterministic_fallback", "llm_selected_validated_facts"}

TypeOK ==
  /\ report \in Reports
  /\ wiring \in [llm : {"none", "auto", "injected"}, breaker : BOOLEAN]
  /\ circuit \in [model : {"unset", "none", "ready"}, failed : BOOLEAN]
  /\ node \in Roles \cup {"done", "raised"}
  /\ thread \in Seq([role : Roles, mode : Modes])
  /\ WellFormed(selection)
  /\ playbook \in BOOLEAN
  /\ requests \in 0 .. 3
  /\ failures \in 0 .. 3
  /\ circuit.failed => wiring.breaker

LastMessage == thread[Len(thread)]

\* Every selection, a model's or the default, names only what the packet of its
\* role showed, and passes the check a model's answer must pass: the packet
\* (L179-341), the check (L503) and the fallback (L447), written apart and with
\* caps of their own, agree.
SelectionInPacket ==
  thread # <<>> =>
    /\ selection.findings \subseteq
         (IF LastMessage.role = "intel" THEN {} ELSE PacketFindings(report))
    /\ selection.evidence \subseteq PacketEvidence(report)
    /\ selection.techniques \subseteq PacketTechniques(report, LastMessage.role)
    /\ selection.addresses \subseteq PacketAddresses(report, LastMessage.role)
    /\ SelectionIsGrounded(selection, report, LastMessage.role)

\* A selection moves things in a narrative, it cannot push one out.  However a
\* model prioritises, the triage message shows the findings of the highest risk
\* (L703-722, L748); and every address and technique a selection cites is shown
\* by the intel message, although the packet it was chosen from is cut in the
\* order of the report and the message in the order of the text (L784-856).
NarrativeShowsSelection ==
  thread # <<>> =>
    CASE LastMessage.role = "triage" ->
           ShownFindings(report, selection) = PacketFindings(report)
      [] LastMessage.role = "intel" ->
           /\ selection.addresses \subseteq ShownAddresses(report, selection)
           /\ selection.techniques \subseteq ShownTechniques(report, selection)
      [] OTHER -> TRUE

\* With a circuit breaker a run's first failure is its last call: the nodes
\* that follow send nothing (graph.py L25: "an execution-scoped model circuit").
StopsAfterFailure ==
  [][wiring.breaker /\ failures > 0 => requests' = requests /\ failures' = failures]_vars

\* A run with a circuit breaker, or without a model, always comes to a playbook
\* and to the three messages _agent_thread insists on (app.py L818), in order.
ThreadComplete ==
  /\ node = "done" =>
       playbook /\ [n \in DOMAIN thread |-> thread[n].role] = <<"triage", "intel", "response">>
  /\ node = "raised" => wiring.llm = "auto" /\ ~wiring.breaker
=============================================================================
