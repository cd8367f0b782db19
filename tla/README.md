# A TLA+ model of AutoSOC

AutoSOC reads log files, detects SQL injection and weak TLS in them by fixed
rules, asks two reputation services about the sources, computes a risk score,
lets three agents summarise the report, and composes a containment playbook. A
web page shows the result; an analyst may approve the report, upon which the
server writes an inert, comment-only firewall script. This directory holds TLA+
modules of the parts of it that have state or arithmetic worth checking, the
TLC configurations that check them, and proofs for the TLA+ proof system.

Paths below are relative to the repository's root; `L` numbers are lines of the
file the module names at its top. `PROJECT.json` maps every definition to the
lines it stands for.

## The system

| Component | State | Operations | Hard behaviours | What makes it correct |
|---|---|---|---|---|
| Artifact writer, `src/autosoc/web/remediation.py` | the artifact and its directory on disk, a process-wide lock | derive targets, write a temporary file, fsync, replace, fsync the directory, clean up | threads of the pool racing; any system call failing; process and power failure between any two | the artifact is whole; a receipt is durable and truthful; nothing is left behind; the lock is always given back |
| Endpoints, `src/autosoc/web/app.py` L455-978 | one request each: body buffer, form, temporary directory | read the body, extract the input, consult the policy, run the pipeline, answer | chunked bodies, disconnects, exceptions with resources open | bounded buffer, bounded logs, nothing left behind, no live calls without policy |
| Request boundary, `app.py` L147-168, L278-344 | the deque of recent requests | authenticate, check origin, count | window boundaries, rounding of Retry-After | never more than the limit in any window; Retry-After is right |
| Analyst page, `web/templates/index.html` | view, report, approval gate | submit, confirm, approve, and the answers | answers arriving late, and in any order | an approval is of the report on screen, confirmed for it |
| Pipeline, `cli.py`, and clients, `integrations/*.py` | events, findings, results by source, HTTP clients | read, parse, detect, look up, rescore, build the report | malformed records among good ones, timeouts, contradictory answers, exceptions half-way | all records or none; every finding there and laid to its own source; neutral unless live; asked once; the report passes its own validators |
| Log parser, `parsers/log_parser.py` | none | one object, one access-log line, a file of lines | aliases, blank values, records spread over lines, dates at the ends of the calendar | what a record says is what its event says |
| Detectors, `detectors/sqli.py`, `weak_tls.py` | none | inspect an event | layers of encoding, comments, several matches | a finding for each thing wrong, no other |
| Sigma engine, `detectors/sigma_engine.py` | a compiled ruleset | load, evaluate an event, a stream | conditions without evidence, patterns that time out, values of every kind | rulesets load whole; findings are the matches; evidence is sound and sufficient |
| Risk scoring, `scoring/risk.py`, `models.py` | none | the score | rounding, clamping | score in range, lowered only by known noise |
| Agents, `agents/nodes.py`, `graph.py` | thread, circuit breaker | ask the model, check its answer, fall back | missing or failing models, answers that name what they must not | three messages and a playbook; only supported identifiers |
| Configuration, `config.py` | none | find a key in the environment or in `.env` | a `.env` that is not UTF-8 raises in whoever asks for a key | in part: the failure, where it strikes |
| Command line | none | | | not modelled, see below |

The page calls the two endpoints. The orchestration endpoint runs the pipeline
and then the agent graph on its report, in a thread; the approval endpoint runs
the artifact writer in a thread. All requests of a process share the limiter,
the artifact lock and the data directory, and nothing else. The report travels
to the page and back: the server keeps none.

## The modules

**`Remediation`** is the artifact writer: any number of approvals, each a thread
whose `pc` stands before its next system call, one action per call (`Mkdir`,
`Open`, `Stat`, `Create`, `Write`, `SyncFile`, `Replace`, `SyncDirectory`,
`Cleanup`), `Acquire` and the release of `_ARTIFACT_LOCK`, and `Fail` and
`FailWithTemporary` for the exception each call may raise. The file system is
modelled as far as POSIX promises: `target` and `temps` are what processes see;
`diskTargets` and `diskTemps` are what a power loss may leave; `synced` is how
much of a file's content is on disk. `Crash` ends the process, `PowerLoss`
also everything that was not synced, `PowerLossTakesDirectory` a directory whose
entry in its parent was never synced. A file's content is whose script it is and
how many of its `Chunks` are written. `replaces`, `turn`, `abandoned` and
`vanished` are history variables.

**`ArtifactRegister`** says what the writer promises: a register that whole
scripts replace, one after the other; an acknowledged script is not undone
(except together with the directory); a power loss may otherwise revert it to an
earlier one. `Remediation!Register` is the refinement mapping.

**`Endpoints`** is one request to either endpoint, from the first byte of the
body to the answer. `request` fixes the media type, the announced length and the
sizes of the body and of the log in it; contents are reduced to the verdict
they get: parsed, refused, or an internal error (500), as of JSON nested beyond the
recursion limit. A form whose parsing breaks off is no form yet, and what it
spooled goes with its parser.

**`RateLimiter`** is the middleware, one step per request, and the sliding
window. The clock is in ticks so that sub-second arrivals and the rounding of
`Retry-After` are seen. `admitted` is a history variable: what was let through,
against which the deque is judged.

**`Dashboard`** is the page: a handler is one action up to its `await fetch`,
and another for what follows the answer. In between the analyst may use any
enabled, visible control. **`Approval`** puts it before the server: the
register of `ArtifactRegister`, which stands for the writer because the writer
implements it. `Send` and `Deliver` are the request and its answer, `Disconnect`
loses the answer wherever the server is, `Serve` is the server, which goes on
regardless, and `PowerLoss` what may happen to the artifact. `published` is a
history variable.

**`RiskScore`** has the arithmetic of the score as operators, in hundredths.
`FloatBelowHalf` lists the two products whose binary floating-point value falls
just below a half, so that the model's rounding is the code's.

**`Findings`** has findings and reports with their audit trails: `NewFinding` is
what a detector builds, `RescoreFinding` what the pipeline makes of it, `Report`
what `_build_report` aggregates; `FindingValid` and `ReportValid` are the
cross-field validators of `models.py`.

**`Enrichment`** is `analyze_file` from the detectors' findings to the rescored
ones: the clients, each of which loads its key and connects before the next
(`EnterAbuse`, `EnterGrey`; offline ones need neither); `SourceKeys` in order, each looked up at AbuseIPDB and then GreyNoise, one
request at a time; the parsers of the answers; rescoring; and the exit stack
that closes the clients. `apiKeys` are the providers with a key, `dotenv` says whether
`.env` is text: where it is not, a key that the environment does not have raises
(`KeyUnreadable`), perhaps with the first client open.

**`Parser`** is what becomes of one record. A record is known by what stands
under each name (absent, empty, blank, nested, or a text), by its timestamp and
numbers as far as they are refused, and by the suffix of an access-log line.
`Lookup` and `OptionalString` are the search through aliases, `JsonEvent` and
`CombinedEvent` the event, `Outcome` whether there is one. **`Detectors`** are
the two detectors on such events; a text is known by the signatures it carries
once decoded, its layers of encoding, its comments, and by the matches in it that are too
long for `Evidence` to quote (`EvidenceRaises`).

**`Analysis`** composes `Parser`, `Detectors`, `Enrichment` and `Findings` into the
whole of `analyze_file`: the attempt on the whole text (`ParseWhole`,
`WholeRaises`), the lines (`ParseLines`, `LineRefused`), `Detect` and `DetectRaises`, the steps of
`Enrichment`, and `BuildReport`. `record.spread` says that `splitlines` breaks an
object in two. `FilesAssumption` says what a log is: a sequence of objects and
access-log lines, the objects with a value of some kind, or none, under each name,
the lines with texts only.

**`Sigma`** is the engine: `LoadRuleset` or `RefuseRuleset`, then `EvaluateEvent`
for each event, `TimesOut` wherever a pattern is tried on a text, `EvidenceRefused`
where evidence does not fit the fields of `Evidence`, `Finish`.
`Guarantees`, `Combine`, `Candidates` and `Satisfies` are the code's functions. The code
calls `guarantees_evidence` and `evaluate` on the operands of an expression first; so a
condition is the list of its nodes with operands before them, and `Values` goes
through the list, each node told what its operands came to. `IsCondition` is any
expression tree the code can build, with lists in lists and typed scalars
abstracted (`IsValue`, `"number"`). What a condition says of an event, apart from
how it is evaluated, is `Holds`, of the set of tests that are true.

**`Selection`** has the operators of the agents' fact packet, the check an
answer must pass, the default selection and what the narratives show of a
selection. The code sorts and cuts lists; here an order is a relation and a cut
list the set of members with fewer than so many before them. **`AgentGraph`** runs the three
nodes on them, with every wiring `build_graph` has and every way the model can be
missing, fail or answer.

**`Containment`** derives the addresses to block twice, as the code does: for the
preview (`_command_targets`) and for the artifact (`derive_firewall_targets`).
**`Addresses`** gives the classes of addresses, with the flags Python's
`ipaddress` reports for them, and the two filters. They disagree in one direction
only on deprecated site-local IPv6 (`fec0::/10`), which Python reports as global:
`ApprovalCoversPreview` says so.

**`ListFacts`** states what the proofs need to know of lists: what the first
members of an order are and how many, and what joining lists yields. Each
`X_proofs` module holds the theorems about `X` (and, for `Approval_proofs`, about
`Dashboard`; for `Analysis_proofs`, about the modules `Analysis` is composed of).
`Requests_proofs` has those about `RateLimiter` and `Endpoints`, the two modules of what
becomes of a request; the names of `Endpoints` begin with `Handler` where they would
otherwise be those of `RateLimiter`.

Definitions that begin with "Faulty variant" in their comment are not part of
any specification: each is a plausible bug in the definition it precedes, and
`PROJECT.json` says which property finds it.

## The runs

A configuration `MCX_y.cfg` belongs to module `MCX`: `tlc -config MCX_y.cfg MCX`.
The proofs are checked with `tlapm ListFacts.tla` and `tlapm X_proofs.tla` for `X`
each of `Remediation`, `Approval`, `Requests`, `Containment`, `AgentGraph`, `Sigma` and
`Analysis` (the last two take some minutes).

| Run | Bounds | Shows |
|---|---|---|
| `MCRemediation` | 2 approvals, 2 chunks, 2 crashes, fair | `IInv`, `ArtifactWhole`, `ReceiptDurable`, `NoStrayTemporary`, `ReplacementReported`, the refinement `ImplementsRegister`, `EveryApprovalAnswered` |
| `MCRemediation_firstdir` | 1 approval, 1 crash | violates `ReceiptSafelyWritten` |
| `MCApproval` | 3 analyses, 2 approvals, fair | `ApprovalTypeOK`, `ConfirmationFresh`, `ReceiptHonest`, `ApprovalBound`, `GateReopens` |
| `MCDashboard_overlap` | 2 analyses, 1 approval | violates `ReceiptForThisReport` |
| `MCAnalysis` | logs of 2 records of 19 kinds and of 3 of 6 kinds, 3 formats | `AnalysisTypeOK`, `AskedOnce`, `ClientsHeld`, `NeutralUnlessLive`, `LoweredOnlyByNoise`, `AllOrNothing`, `FindingsComplete`, `ReportBuilt` |
| `MCEnrichment` | 1 finding | violates `InvalidResponsesNeutral` |
| `MCSigma` | rulesets of 2 rules, streams of 2 events, condition trees over 2 fields | `TypeOK`, `FindingIffMatch`, `EvidencePositive`, `EvidenceSuffices` |
| `MCEndpoints` | logs to 2 units, bodies to 7, chunks of 1 or 2 | `HandlerTypeOK`, `AnalysedAsAllowed`, `NothingLeftBehind` |
| `MCEndpoints_escaped` | bodies to 5 | violates `RefusedOnlyWhenTooLarge` |
| `MCRateLimiter` | window of 6 ticks, 13 ticks, limits 0 to 3 | `TypeOK`, `WindowBound`, `RetryAfterExact`, `ServedExactly` |
| `MCAgentGraph` | 3 findings, packets of 2 | `TypeOK`, `SelectionInPacket`, `NarrativeShowsSelection`, `ThreadComplete`, `StopsAfterFailure` |
| `MCContainment` | 3 events, 7 hosts, caps of 1 and 2 | `TypeOK`, `SourcesAccounted`, `ApprovalCoversPreview`, `ArtifactWholeOrNone` |

Why these bounds are enough to be interesting:

- Of two approvals one holds the lock while the other waits, and both may wait
  when the process ends; two chunks make a partly written file possible; one
  crash or power loss falls between any two calls, and a second meets the
  leftovers of the first. The proofs remove both bounds.
- Two approvals on the page are of one report, the second after a lost answer,
  or of two of the three reports.
- The kinds of record each exercise one path of the parser, alone and before,
  after and between others: plain and spread objects, values under a second
  alias, empty and blank ones before it, versions logged as protocols, payloads
  within and beyond three layers of encoding, behind comments and around a gap too
  long to be quoted, access-log
  lines with each suffix, and every way to be refused or to raise.
- The conditions for Sigma include each operator over each other, a "not" within
  a "not", and every kind of value under a URL field and another.
- A body of seven units exceeds every limit by more than a chunk; the three
  limits (log, request, approval) are all different.
- Thirteen ticks hold two windows of six and their boundary; two ticks make a
  second, so arrivals fall within and between seconds.
- Two findings can share a source or not, and the kinds of source are
  each treated differently; the profiles include one whose confidence product
  rounds down only because it is a binary fraction.
- Three findings are one more than a packet holds, and one has more evidence
  than is shown; the answers include ones that name each kind of thing the
  packet left out.
- With caps of one and two, three attackers exceed both.

`CHECK_DEADLOCK FALSE` is set where the system may stop: all approvals answered
(`Remediation`), the page's bounded clicks used up (`Approval`, `Dashboard`), the clock at its
bound (`RateLimiter`), the artifact derived (`Containment`). `Analysis`, `AgentGraph`,
`Enrichment`, `Sigma` and `Endpoints` have an explicit last step instead, so
a run that is stuck in the middle is reported as a deadlock.

**Fairness.** `Remediation!FairSpec` has weak fairness of each thread's steps: the
pool has a thread for an approval that was started, and system calls return.
For `Acquire` weak fairness is enough because approvals are finitely many: from
some point on the lock is free for whoever still waits. Approvals need not be started, and nothing is
assumed of crashes. `ApprovalSpec` has weak fairness of `Serve`, which the writer's
`EveryApprovalAnswered` justifies, and of `Deliver`: an answer that was given
arrives, unless the connection breaks, which the page notices. Nothing is
assumed of the analyst.

## Where code and text disagree

- `MCRemediation_firstdir`: `docs/architecture.md:313-314` has the endpoint answer
  201 "only after it safely writes the artifact". The directory that the first
  approval creates (`remediation.py` L166-173) is never synced in its parent, and
  a power loss may take it and the acknowledged artifact. Where the directory
  exists beforehand, as in the container image, `ReceiptDurable` holds.
- `MCEnrichment`: `README.md:93-95` has invalid provider responses become
  neutral results. A score of `1e999` is an infinite float; `int(score)`
  (`abuseipdb.py` L230) raises `OverflowError`, which L178 does not catch, and the
  analysis fails.
- `MCDashboard_overlap`: the confirmation (`index.html:515`) speaks of "this
  report". A second analysis may be submitted while an approval is in flight
  (the submit handler does not look at `executionBusy`), and the late receipt is
  shown, and the gate closed, under the second report.
- `MCEndpoints_escaped`: a 413 says "Log input must not exceed ... bytes"
  (`app.py:475`) of a JSON body more than 64 KiB longer than `MAX_LOG_BYTES`, though
  the log in it may be within the limit and only its escapes are not.

Met while modelling, and noted here only:

- `docs/architecture.md` has malformed records fail with a parser error. A
  timestamp in the year 1 or 9999 with an offset across the calendar's end, or a
  number too large for a float, raises `OverflowError` in `_parse_timestamp`, which
  is no `LogParseError`: `analyze_file` fails with it (`Analysis!WholeRaises`,
  `LineRefused` with an outcome "raised"), and the endpoint answers 500, not 422.
- A detector quotes a match in the description of its evidence (`sqli.py` L275-283), and
  `Evidence` takes 1000 characters there (`models.py` L145). `UNION` and `SELECT` with a
  comment between them that is longer match, since comments are masked by blanks, and
  the `ValidationError` ends the analysis with all its findings (`DetectRaises`). The
  Sigma engine's evidence may be refused likewise (`Sigma!EvidenceRefused`): for a long
  field name, pattern or description, or for offsets past a decoded text whose outer
  blanks may be stripped (`models.py` L48).
- A `.env` that is not UTF-8 raises `UnicodeDecodeError`, which `read_dotenv` (`config.py`
  L29-31) does not catch: an analysis that needs a key from it fails before its first
  lookup (`Enrichment!KeyUnreadable`), and so does a graph without a circuit breaker.
- `sigma_engine.py` L8 has only positively matched fields as evidence; a test
  `exists: false` of an absent field yields evidence whose value is null.
- A text over 8192 characters is not inspected by the Sigma engine, so a test of
  it under a "not" is true (`ScalarCandidates`).
- The page announces "Artifact generation failed safely" for a lost answer too,
  though the artifact may have been written (`Disconnect`).

- The service section of a playbook (nodes.py L1173-1227) names the protocols of the
  first 20 protocol findings and the first 20 cipher findings without saying that
  others are left out, though its text says "the exact deprecated protocol(s)
  observed"; and a report with findings of other kinds only (a Sigma rule that is
  neither SQL injection nor one of the two TLS rules) gets an empty section.

## What is proved

`Remediation_proofs`, for any set of approvals, any number of chunks and crashes
(assumptions: at least one chunk, a natural bound on crashes, distinct names for
absent, prior and special targets and no holder):

- `TypeCorrect`, `ArtifactAlwaysWhole`, `ReceiptsDurable`, `TemporariesAccounted`,
  `ReplacementsReported`: the safety properties of `MCRemediation`, and
- `RegisterImplemented`: the writer implements `ArtifactRegister`.

None of these properties is inductive. The strengthening `IInv` adds that the
lock is held by exactly the thread that is inside it (`LockHeld`), that a thread's
file has been written and synced as far as its `pc` says (`ThreadsInStep`), that
every file with a durable name is complete and synced (`FilesSafe`), that what
`Stat` saw is still there until `Replace` (`StatHolds`: only the lock makes this
true), and that outside the window between `Replace` and `SyncDirectory` the
disk has what processes see (`DiskUpToDate`). `Invariance` proves it, action by
action; the other theorems follow from it, and the refinement proof uses it to
show that each step is a step of the register or leaves it alone.

`Approval_proofs`, for any number of analyses and approvals:

- `PageImplemented`: the page before the server behaves as the page alone may, so
  what is proved of `Dashboard` holds of the composition: `ConfirmationsFresh` and
  `ApprovalsBound`, that a request names the report on screen, which the analyst
  confirmed. They need, beyond types, that an analysis that is running was
  started and that the results view has a report (`PageIInv`).
- `ApprovalTypeCorrect`, `ReceiptsHonest`: a receipt on the page is true. The page
  knows nothing of the disk, so `ApprovalIInv` ties them: a receipt in hand was given
  (`ReceiptGiven`), and what a power loss may leave is, for each acknowledged
  approval, itself or a later one (`SurvivorsLatest`).
- `RegisterUsed`: the server is an `ArtifactRegister`, which by `RegisterImplemented`
  the writer implements.

`Requests_proofs` about `Endpoints`, for every limit, size and chunking: `BufferBounded`, `AnalysesAllowed`, `NothingIsLeftBehind`. `HandlerIInv`
carries through the handler what was
checked early and is used late: the log was measured (`LogMeasured`), the policy
consulted before anything is called (`PolicyConsulted`), and what is open is open
between two places of the handler only (`HeldBetween`).

`Requests_proofs` about `RateLimiter`, for every limit, window, clock resolution and
clock bound:
`LimiterTypeCorrect`, `WindowNeverOverrun`, `RetryAfterIsExact`, `QuotaServedExactly`. The
properties speak of what was admitted and the code of its deque; `IInv` says the
deque is the newest part of the admissions, which are in order, and what it no
longer holds has left the window (`NewestAdmitted`), and that a refusal was measured
against the admission `limit` places back (`RefusalExplained`).

`Containment_proofs`, for all hosts, reports and caps: `ListsWithinCaps`,
`EverySourceAccounted`, `ApprovalCovers`, `ArtifactIsWhole`. The invariant is that
playbook and artifact are what the code derives from the report; the work is in
the operators: how many members the first `n` are, and that what the preview finds
eligible the artifact finds eligible too, but for site-local addresses. So every
source that is previewed or counted as left out is blocked. The converse does not
hold: the artifact also blocks private addresses, which no preview shows.

`AgentGraph_proofs`, for every set of reports and answers and all caps:
`RunTypeCorrect`, `SelectionsInPacket`, `NarrativesShowSelections`, `ThreadsComplete`,
`FailuresStopCalls`. The messages tell how far a run is (`InCourse`), the breaker
remembers a failure (`CircuitRemembers`), and the last selection, a model's or the
default, passed the check (`Grounded`): the default is never checked by the code, and
`DefaultGrounded` and `DefaultWellFormed` are why it need not be.
`NarrativesShowSelections` uses that the schema's bound is at least the packet's
(`CapsAssumption`).

`Analysis_proofs`, for every log, format, set of sources, confidence and answer.
The operators first:

- `SubtotalInRange` (the clamp before the noise filter never bites),
  `ScoreIsSubtotalOrQuarter`, `ReputationNeverLowers`, `NoiseFilterBounds`, for every
  severity, confidence in hundredths, reputation and GreyNoise result;
- lemmas that what a detector builds and what rescoring makes of it passes the
  cross-field validators of `models.py`, and so does the report built of them;
  that the records read are those of the log, and a line refused the first;
- `AcceptedOwed`: what an accepted record says, wherever it stands among aliases and
  under layers of encoding, is what its event shows the detectors, and
  `DetectedExactly`: they have one finding for each such thing.

Then the pipeline: `TypeCorrect`, `AsksOnce` (and not without a key), `HoldsClients`,
`ReadsAllOrNothing`, `StaysNeutral`,
`LowersOnlyByNoise`; `ReportsOnceParsed`: no cross-field validator of a finding or of the
report refuses what the pipeline builds, so past the parser only a match too long to
be quoted, a `.env` that a key cannot be read from and an overflowing answer end a run; and `FindsEverything`: there is a finding for each record and each
thing wrong with it, and no other, laid to the address of its record.

`AnalysisInv` says where everything
comes from: events are the log's records (`EventsRead`), findings are what a detector
makes of an event and, after the lookups, what rescoring makes of one of those
(`FindingsMade`), each source has its turn or is settled (`SourcesInTurn`) and was not
asked about while it waits (`NotAskedYet`), offline nobody answers
(`OfflineSilent`), and the clients that are connected are those `pc` says
(`ClientsCounted`). `FindsEverything` needs besides that the records were accepted and
that from detection on the findings are exactly those owed, which rescoring
leaves alone (`Accounted`).

`AsksOnce`, `StaysNeutral` and `LowersOnlyByNoise` are about lists and sums of any
length. Induction over data being out of reach, `ListFacts` proves what it needs
through sets of numbers: a set that holds 0 and with each number below N the next
holds all up to N (`UpTo`), which follows from the least member of a finite set, and
`Recursion` is the equation of a function defined by it.

`Sigma_proofs`, for all rulesets of well-formed conditions, of any size and depth
(`RulesetsAssumption`: expression trees), and all streams of events
(`StreamsAssumption`: each field has a value of one of the kinds):

- `SigmaTypeCorrect`: the order and uniqueness of findings;
- `FindingsIffMatched`: a loaded ruleset is evaluated as it was written. It needs that
  the static check is right (`GuaranteeHolds`: a condition it accepts has evidence
  whenever it matches), and that evaluation agrees with what the condition says of
  the event (`MatchedIffHeld`), decoding included (`TestShown`);
- `EvidenceIsPositive`: evidence is a true test under no "not" (`Positive`,
  `EvidenceOfTests`);
- `EvidenceIsSufficient`: where no "not" is inside another, the tests in evidence
  make every condition true that was (`EvidenceMakesHold`). Evidence leaves out the
  tests under a "not", so this rests on `MoreTestsHoldMore`: under no "not", what
  follows from some true tests follows from more.

A condition has any depth, and the facts about it are proved for all nodes at
once: `FromTheOperands` says that a set of nodes which has each node whose operands it
has is all of them, and the four readings of a condition (what the check promises,
what evaluation finds, what holds of a set of tests, how often a test is negated)
are each given by an equation for every node (`GuaranteedEquation` and its like).
That the recursive function `Values` has such an equation at all is `TreeValues`.
Both rest on `UpTo` of `ListFacts`. The four properties are not
inductive: `IInv` adds that past loading the whole ruleset compiles
(`RulesetLoaded`), that each finding is the evidence of its rule in its event
(`FindingsTrue`), and that up to `position` none is missing unless the run ended early
(`FindingsAll`). TLC found `IInv` to hold on the instance of `MCSigma`.

Every safety property that a passing run checks is thereby a theorem. Only
model-checked is liveness, `EveryApprovalAnswered` and `GateReopens`: fairness speaks of
ENABLED, which is out of the prover's reach. The four properties that a run finds
violated are not theorems: their counterexamples need no proof.

## Assumptions and what is left out

- One server process, as the deployment files start it: `_ARTIFACT_LOCK` does not
  reach further. Nobody else edits the data directory. Closing a descriptor does
  not fail. The file system has POSIX durability, no more.
- Reports are those `analyze_file` builds. Ties in risk, which the code breaks by
  random identifier, are broken by position; a MITRE mapping is identified with
  its technique; sorted order in `Containment` is the order of numbers.
- Wording, rendering and logging are left out everywhere, as is `approved_at`
  (stamped before the lock is taken, so not in the order of the artifacts).
- Text is abstracted: regular expressions to the signatures or weaknesses a text
  carries, encodings to their number of layers, JSON to what stands under a
  name. That the expressions match what their names say is left to tests.
- Not modelled: the syntax of `.env` and the cleaning of its values (which keys there are
  is `Enrichment!apiKeys`, and the failure to read it `Enrichment!KeyUnreadable` and
  `AgentGraph!SetUpRaises`); the command line, which runs one analysis and
  prints it; the wording of narratives and of the playbook; the container files.

## Plan

Done: the writer with its abstract specification; scoring; the pipeline from the
log to the report; the page before the server; the boundary; the endpoints; the
agents; containment; the Sigma engine; and the proofs listed above.

What may be added: several server processes, which the lock does not reach; the
findings of `Sigma` as input of `Findings`, so that their evidence and trace are judged
by the validators too; the wording of the playbook's sections.
