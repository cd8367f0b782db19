------------------------------ MODULE Endpoints ------------------------------
(***************************************************************************)
(* One request to /api/orchestrate or /api/execute-playbook (web/app.py),   *)
(* after the boundary let it through: the body is read in chunks under a    *)
(* limit, the input is extracted from it, the server's policy is consulted, *)
(* and the pipeline runs on a temporary file.                               *)
(*                                                                          *)
(* Sizes are in units in which a chunk has at most MaxChunk.  A body is the *)
(* log and whatever its encoding adds: JSON escapes quotes and newlines, a  *)
(* form has boundaries; plain text adds nothing.                            *)
(***************************************************************************)
EXTENDS Naturals

CONSTANTS
  MaxLog,      \* MAX_LOG_BYTES: 2 MiB
  MaxRequest,  \* _MAX_REQUEST_BYTES: 64 KiB more
  MaxApproval, \* MAX_APPROVAL_REQUEST_BYTES: 4 MiB
  MaxChunk,    \* the largest chunk the server hands on
  MaxBody      \* bound on the size of a body

ASSUME SizesAssumption ==
  /\ MaxLog \in Nat \ {0} /\ MaxChunk \in Nat \ {0} /\ MaxBody \in Nat
  /\ MaxRequest \in Nat /\ MaxLog <= MaxRequest
  /\ MaxApproval \in Nat

Forms == {"multipart", "urlencoded"}
Media == Forms \cup {"json", "text", "other"}

VARIABLES
  request,   \* endpoint, media type, Content-Length, size of the body and the log
  policy,    \* _ENABLE_LIVE_PROVIDERS
  pc,        \* where the handler is
  received,  \* bytes in the body buffer
  form,      \* the parsed form, whose uploads are spooled files
  offline,   \* the extracted offline option
  temporary, \* the temporary directory exists
  live,      \* history: providers or a model could be called
  status     \* the answer

handlerVars == <<request, policy, pc, received, form, offline, temporary, live, status>>

HandlerInit ==
  /\ request \in [endpoint : {"orchestrate", "approve"}, media : Media,
                  declared : {"absent", "invalid", "given"},
                  size : 0 .. MaxBody, log : 0 .. MaxBody]
  /\ request.log <= request.size
  /\ request.media = "text" => request.log = request.size
  /\ policy \in BOOLEAN
  /\ pc = "start"
  /\ received = 0
  /\ form = "none"
  /\ offline = TRUE
  /\ temporary = FALSE
  /\ live = FALSE
  /\ status = "none"

Orchestrating == request.endpoint = "orchestrate"
Accepted == IF Orchestrating THEN Media \ {"other"} ELSE {"json"}
Limit ==
  IF ~Orchestrating THEN MaxApproval
  ELSE IF request.media = "text" THEN MaxLog
  ELSE MaxRequest

\* The handler is left; a form is closed on the way out.
AnswerWith(code) ==
  /\ pc' = "answered"
  /\ status' = code
  /\ form' = IF form = "open" THEN "closed" ELSE form

Continue(at) == pc' = at /\ UNCHANGED status

-----------------------------------------------------------------------------
(* Reading the body.                                                         *)

RefuseMedia ==
  /\ pc = "start"
  /\ request.media \notin Accepted
  /\ AnswerWith("415")
  /\ UNCHANGED <<request, policy, received, offline, temporary, live>>

\* _validate_content_length, and its copy in _extract_approval_request.
RefuseLength ==
  /\ pc = "start"
  /\ request.media \in Accepted
  /\ \/ request.declared = "invalid" /\ AnswerWith("400")
     \/ request.declared = "given" /\ request.size > Limit /\ AnswerWith("413")
  /\ UNCHANGED <<request, policy, received, offline, temporary, live>>

Begin ==
  /\ pc = "start"
  /\ request.media \in Accepted
  /\ request.declared = "absent" \/ (request.declared = "given" /\ request.size <= Limit)
  /\ Continue("body")
  /\ UNCHANGED <<request, policy, received, form, offline, temporary, live>>

\* Faulty variant: the buffer is only measured once the body is complete.
ReceiveUnchecked ==
  /\ pc = "body"
  /\ received < request.size
  /\ \E chunk \in 1 .. MaxChunk :
       received + chunk <= request.size /\ received' = received + chunk
  /\ IF received' = request.size /\ received' > Limit
       THEN AnswerWith("413")
       ELSE Continue("body") /\ UNCHANGED form
  /\ UNCHANGED <<request, policy, offline, temporary, live>>

\* One chunk: the buffer is measured after it was added.
Receive ==
  /\ pc = "body"
  /\ received < request.size
  /\ \E chunk \in 1 .. MaxChunk :
       received + chunk <= request.size /\ received' = received + chunk
  /\ IF received' > Limit
       THEN AnswerWith("413")
       ELSE Continue("body") /\ UNCHANGED form
  /\ UNCHANGED <<request, policy, offline, temporary, live>>

\* request.stream() raises when the client goes away.
Disconnect ==
  /\ pc = "body"
  /\ AnswerWith("500")
  /\ UNCHANGED <<request, policy, received, offline, temporary, live>>

BodyComplete ==
  /\ pc = "body"
  /\ received = request.size
  /\ Continue(IF Orchestrating /\ request.media # "text" THEN "content"
              ELSE IF Orchestrating THEN "log" ELSE "approval")
  /\ UNCHANGED <<request, policy, received, form, offline, temporary, live>>

-----------------------------------------------------------------------------
(* Extracting the input.                                                     *)

\* JSON that is not UTF-8, not JSON, not an object or has other fields; a form
\* that cannot be parsed or has a part that is too large.  Whatever else parsing
\* raises is an internal error: JSON nested beyond the recursion limit or with an
\* integer of too many digits, a form for which there is no room.
RefuseContent ==
  /\ pc = "content"
  /\ \E code \in {"422", "500", IF request.media = "json" THEN "400" ELSE "413"} :
       AnswerWith(code)
  /\ UNCHANGED <<request, policy, received, offline, temporary, live>>

\* The payload is parsed.  A form stays open until the handler has what it
\* needs of it; JSON has nothing to close.
ParseContent ==
  /\ pc = "content"
  /\ form' = IF request.media \in Forms THEN "open" ELSE "none"
  /\ Continue("log")
  /\ UNCHANGED <<request, policy, received, offline, temporary, live>>

\* No log, more than one, an upload and a text, or one that is blank or is not
\* UTF-8.
RefuseLog ==
  /\ pc = "log"
  /\ \E code \in {"400", "422"} : AnswerWith(code)
  /\ UNCHANGED <<request, policy, received, offline, temporary, live>>

RefuseLargeLog ==
  /\ pc = "log"
  /\ request.log > MaxLog
  /\ AnswerWith("413")
  /\ UNCHANGED <<request, policy, received, offline, temporary, live>>

\* Faulty variant: the limit of the body is taken for a limit of the log.
AcceptLogUnmeasured ==
  /\ pc = "log"
  /\ request.log # 0
  /\ Continue("options")
  /\ UNCHANGED <<request, policy, received, form, offline, temporary, live>>

\* _validate_raw_log, or _read_upload: what is left is not blank.
AcceptLog ==
  /\ pc = "log"
  /\ request.log \in 1 .. MaxLog
  /\ Continue("options")
  /\ UNCHANGED <<request, policy, received, form, offline, temporary, live>>

RefuseOptions ==
  /\ pc = "options"
  /\ AnswerWith("422")
  /\ UNCHANGED <<request, policy, received, offline, temporary, live>>

\* log_format and offline are valid or absent; absent, offline is true.
AcceptOptions ==
  /\ pc = "options"
  /\ offline' \in BOOLEAN
  /\ form' = IF form = "open" THEN "closed" ELSE form
  /\ Continue("policy")
  /\ UNCHANGED <<request, policy, received, temporary, live>>

-----------------------------------------------------------------------------
(* Running the pipeline.                                                     *)

RefuseLive ==
  /\ pc = "policy"
  /\ ~offline /\ ~policy
  /\ AnswerWith("403")
  /\ UNCHANGED <<request, policy, received, offline, temporary, live>>

\* The log is written to a file in a new temporary directory.
StoreInput ==
  /\ pc = "policy"
  /\ offline \/ policy
  /\ temporary' = TRUE
  /\ Continue("analysis")
  /\ UNCHANGED <<request, policy, received, form, offline, live>>

\* There is no room for the directory or the file; what was made is removed.
StoreFails ==
  /\ pc = "policy"
  /\ offline \/ policy
  /\ AnswerWith("500")
  /\ UNCHANGED <<request, policy, received, offline, temporary, live>>

\* The directory is removed before the agents are run.
Analyze ==
  /\ pc = "analysis"
  /\ temporary' = FALSE
  /\ live' = ~offline
  /\ Continue("agents")
  /\ UNCHANGED <<request, policy, received, form, offline>>

\* Faulty variant: the directory is only removed after an analysis.
AnalysisFailsLeaving ==
  /\ pc = "analysis"
  /\ live' = ~offline
  /\ \E code \in {"422", "500"} : AnswerWith(code)
  /\ UNCHANGED <<request, policy, received, offline, temporary>>

\* AnalysisError, the log is malformed; or any other exception.
AnalysisFails ==
  /\ pc = "analysis"
  /\ temporary' = FALSE
  /\ live' = ~offline
  /\ \E code \in {"422", "500"} : AnswerWith(code)
  /\ UNCHANGED <<request, policy, received, offline>>

\* The graph has a model only when the request is not offline.  A report or a
\* thread that is not as it should be is an internal error.
RunAgents ==
  /\ pc = "agents"
  /\ live' = (live \/ ~offline)
  /\ \E code \in {"200", "500"} : AnswerWith(code)
  /\ UNCHANGED <<request, policy, received, offline, temporary>>

\* The approval is not valid; or what generate_firewall_remediation comes to.
Decide ==
  /\ pc = "approval"
  /\ \E code \in {"400", "422", "201", "500"} : AnswerWith(code)
  /\ UNCHANGED <<request, policy, received, offline, temporary, live>>

Answered ==
  /\ pc = "answered"
  /\ UNCHANGED handlerVars

HandlerNext ==
  \/ RefuseMedia \/ RefuseLength \/ Begin \/ Receive \/ Disconnect \/ BodyComplete
  \/ RefuseContent \/ ParseContent
  \/ RefuseLog \/ RefuseLargeLog \/ AcceptLog \/ RefuseOptions \/ AcceptOptions
  \/ RefuseLive \/ StoreInput \/ StoreFails \/ Analyze \/ AnalysisFails \/ RunAgents
  \/ Decide \/ Answered

HandlerSpec == HandlerInit /\ [][HandlerNext]_handlerVars

-----------------------------------------------------------------------------
\* Beside the types, the bound on the body buffer: it never holds more than the
\* limit and one chunk, however long the body is and whether it was announced.
HandlerTypeOK ==
  /\ pc \in {"start", "body", "content", "log", "options", "policy", "analysis",
             "agents", "approval", "answered"}
  /\ received \in 0 .. MaxBody /\ received <= Limit + MaxChunk
  /\ form \in {"none", "open", "closed"}
  /\ \A flag \in {policy, offline, temporary, live} : flag \in BOOLEAN
  /\ status \in {"none", "200", "201", "400", "403", "413", "415", "422", "500"}

\* What is analysed is allowed: "uploads remain limited to 2 MiB" (README.md:319)
\* whichever of the four ways a log comes in, and no provider and no model is
\* within reach of a request unless it asked for live operation and the server's
\* policy has it (README.md:245-247).
AnalysedAsAllowed ==
  /\ pc \in {"analysis", "agents"} \/ status = "200" => request.log \in 1 .. MaxLog
  /\ live => policy /\ ~offline

\* "Uploaded logs remain temporary" (README.md:271): when a request has its
\* answer, neither its temporary file nor its spooled upload is left.
NothingLeftBehind == pc = "answered" => ~temporary /\ form # "open"

\* "Log input must not exceed {MAX_LOG_BYTES} bytes." (app.py:475): a JSON
\* request, as long as its log and the escapes it needs, is answered 413 only
\* if the log does exceed them.
RefusedOnlyWhenTooLarge ==
  /\ Orchestrating /\ request.media = "json"
  /\ request.size <= 2 * request.log + 1
  /\ status = "413"
  => request.log > MaxLog
=============================================================================
