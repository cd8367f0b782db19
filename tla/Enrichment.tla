------------------------------ MODULE Enrichment ------------------------------
(***************************************************************************)
(* analyze_file (cli.py) between the detectors and the report: the source   *)
(* of each finding is looked up at AbuseIPDB and GreyNoise, one request at  *)
(* a time (integrations/*.py), and the findings are rescored                *)
(* (scoring/risk.py).                                                       *)
(*                                                                          *)
(* An address is a member of Sources; its class is what Python's ipaddress  *)
(* says of it.  A provider's answer is reduced to what the parser           *)
(* distinguishes.                                                           *)
(***************************************************************************)
EXTENDS Findings, Naturals, FiniteSets

CONSTANTS
  Sources,       \* source addresses of the events
  NoIP,          \* an event without a source address
  GlobalUnicast, \* the addresses _is_global_unicast accepts
  GlobalIPv4,    \* the addresses _is_global_ipv4 accepts
  MaxFindings,   \* bound on the findings of one run
  Profiles,      \* <<severity, confidence>> pairs detectors produce
  AbuseScores    \* whole scores AbuseIPDB may answer

ASSUME SourcesAssumption ==
  /\ NoIP \notin Sources
  /\ GlobalIPv4 \subseteq GlobalUnicast
  /\ GlobalUnicast \subseteq Sources
ASSUME ProfilesAssumption == Profiles \subseteq Severities \X Percent
ASSUME AbuseScoresAssumption == AbuseScores \subseteq Percent /\ 0 \in Percent
ASSUME MaxFindingsAssumption == MaxFindings \in Nat

Providers == {"abuseipdb", "greynoise"}
Keys == Sources \cup {NoIP}

VARIABLES
  offline,     \* the --offline option
  apiKeys,     \* the providers a key is found for, in the environment or in .env
  dotenv,      \* what .env holds: text, or something that is not UTF-8
  findings,    \* what the detectors found, then the rescored findings
  pc,          \* where analyze_file is
  pending,     \* source_keys still to be looked up
  abuse,       \* abuse_by_ip
  grey,        \* greynoise_by_ip
  connections, \* HTTP clients held open by the exit stack
  raised,      \* an exception is on its way out
  requests     \* history: requests sent, per provider and address

inputs == <<offline, apiKeys, dotenv>>
vars == <<offline, apiKeys, dotenv, findings, pc, pending, abuse, grey, connections,
          raised, requests>>

Unknown == [mode |-> "none"]
Mock == [mode |-> "mock", score |-> 0]
NeutralNoise(mode, status) ==
  [mode |-> mode, status |-> status, class |-> "none", noise |-> FALSE, riot |-> FALSE]
MockNoise == NeutralNoise("mock", "unavailable")

AbuseResults == [mode : {"live"}, score : AbuseScores] \cup {Mock}

Finding == DOMAIN findings
Source(i) == findings[i].source
Detected(i) == DetectionScore(findings[i].profile[1], findings[i].profile[2])

\* Faulty variant: one key per finding, whether seen before or not.
SourceKeysRepeated == [n \in 1 .. Len(findings) |-> Source(n)]

\* source_keys: the sources in the order of their first finding.
SourceKeys == Deduplicated([i \in Finding |-> Source(i)])

\* Findings of as many events, one detector's each.
DetectedFindings ==
  UNION {{[i \in 1 .. n |-> NewFinding(i, s[i][1], "rule", s[i][2], <<"field">>, <<>>)] :
            s \in [1 .. n -> Keys \X Profiles]} : n \in 0 .. MaxFindings}

\* No client has been made yet.
BeforeLookups ==
  /\ offline \in BOOLEAN
  /\ apiKeys \in SUBSET Providers
  /\ dotenv \in {"text", "not_utf8"}
  /\ pending = <<>>
  /\ abuse = [k \in Keys |-> Unknown]
  /\ grey = [k \in Keys |-> Unknown]
  /\ connections = {}
  /\ raised = FALSE
  /\ requests = [p \in Providers |-> [k \in Keys |-> 0]]

Init ==
  /\ BeforeLookups
  /\ findings \in DetectedFindings
  /\ pc = "start"

-----------------------------------------------------------------------------
\* Without findings there is nothing to look up, and no client is opened.
NoFindings ==
  /\ pc = "start"
  /\ findings = <<>>
  /\ pc' = "report"
  /\ UNCHANGED <<inputs, findings, pending, abuse, grey, connections, raised, requests>>

\* load_setting looks for a key in the environment before it reads .env, which
\* raises UnicodeDecodeError when it is not UTF-8.
KeyRaises(provider) == dotenv = "not_utf8" /\ provider \notin apiKeys

\* Only a client with a key connects.
Connected(provider) == {provider} \cap apiKeys

\* Offline clients are given no key.
EnterOffline ==
  /\ pc = "start"
  /\ findings # <<>>
  /\ offline
  /\ pending' = SourceKeys
  /\ pc' = "abuse"
  /\ UNCHANGED <<inputs, findings, abuse, grey, connections, raised, requests>>

EnterAbuse ==
  /\ pc = "start"
  /\ findings # <<>>
  /\ ~offline /\ ~KeyRaises("abuseipdb")
  /\ connections' = connections \cup Connected("abuseipdb")
  /\ pc' = "entering"
  /\ UNCHANGED <<inputs, findings, pending, abuse, grey, raised, requests>>

EnterGrey ==
  /\ pc = "entering"
  /\ ~KeyRaises("greynoise")
  /\ connections' = connections \cup Connected("greynoise")
  /\ pending' = SourceKeys
  /\ pc' = "abuse"
  /\ UNCHANGED <<inputs, findings, abuse, grey, raised, requests>>

\* Faulty variant: a key is loaded where no exit stack is entered yet.
KeyUnreadableOutside ==
  /\ ~offline
  /\ \/ pc = "start" /\ findings # <<>> /\ KeyRaises("abuseipdb")
     \/ pc = "entering" /\ KeyRaises("greynoise")
  /\ raised' = TRUE
  /\ pc' = "failed"
  /\ UNCHANGED <<inputs, findings, pending, abuse, grey, connections, requests>>

\* from_env of either client raises; the first may already be open.
KeyUnreadable ==
  /\ ~offline
  /\ \/ pc = "start" /\ findings # <<>> /\ KeyRaises("abuseipdb")
     \/ pc = "entering" /\ KeyRaises("greynoise")
  /\ raised' = TRUE
  /\ pc' = "closing"
  /\ UNCHANGED <<inputs, findings, pending, abuse, grey, connections, requests>>

\* The gates of check_ip, in order: address, offline, address class, key.
MayAsk(provider, address) ==
  /\ address # NoIP
  /\ ~offline
  /\ address \in IF provider = "abuseipdb" THEN GlobalUnicast ELSE GlobalIPv4
  /\ provider \in apiKeys

Send(provider, address) ==
  requests' = [requests EXCEPT ![provider][address] = @ + 1]

AbuseNotAsked ==
  /\ pc = "abuse"
  /\ ~MayAsk("abuseipdb", Head(pending))
  /\ abuse' = [abuse EXCEPT ![Head(pending)] = Mock]
  /\ pc' = "grey"
  /\ UNCHANGED <<inputs, findings, pending, grey, connections, raised, requests>>

\* A transport error, a timeout, an error status or a payload the parser
\* refuses all become the neutral result.
AbuseAnswered ==
  /\ pc = "abuse"
  /\ MayAsk("abuseipdb", Head(pending))
  /\ Send("abuseipdb", Head(pending))
  /\ \E result \in AbuseResults : abuse' = [abuse EXCEPT ![Head(pending)] = result]
  /\ pc' = "grey"
  /\ UNCHANGED <<inputs, findings, pending, grey, connections, raised>>

\* A score that is an infinite float (JSON 1e999) makes int(score) raise
\* OverflowError, which check_ip does not catch.
AbuseOverflows ==
  /\ pc = "abuse"
  /\ MayAsk("abuseipdb", Head(pending))
  /\ Send("abuseipdb", Head(pending))
  /\ raised' = TRUE
  /\ pc' = "closing"
  /\ UNCHANGED <<inputs, findings, pending, abuse, grey, connections>>

\* What GreyNoise may send: a status code and the fields of its payload.
\* "bad" stands for a code or a field that raises before these are looked at.
NoiseReplies ==
  [code : {"200", "404", "bad"}, sameIP : BOOLEAN, noise : BOOLEAN, riot : BOOLEAN,
   class : Classifications \cup {"none"}]

\* Faulty variant: a match without a classification is accepted.
ParseNoiseUnclassified(reply) ==
  IF reply.sameIP /\ reply.code = "200"
    THEN [mode |-> "live", status |-> "matched", class |-> reply.class,
          noise |-> reply.noise, riot |-> reply.riot]
    ELSE MockNoise

\* _parse_live_response and the validator of GreyNoiseResult.
ParseNoise(reply) ==
  LET context == reply.noise \/ reply.riot
      claims == context \/ reply.class # "none"
  IN  IF reply.sameIP /\ reply.code = "404" /\ ~claims
        THEN NeutralNoise("live", "not_found")
      ELSE IF reply.sameIP /\ reply.code = "200" /\ reply.class # "none" /\ context
        THEN [mode |-> "live", status |-> "matched", class |-> reply.class,
              noise |-> reply.noise, riot |-> reply.riot]
      ELSE MockNoise

\* The loop over source_keys goes on, or the findings are rescored.
NextSource ==
  /\ pending' = Tail(pending)
  /\ pc' = IF Len(pending) = 1 THEN "rescore" ELSE "abuse"

GreyNotAsked ==
  /\ pc = "grey"
  /\ ~MayAsk("greynoise", Head(pending))
  /\ grey' = [grey EXCEPT ![Head(pending)] = MockNoise]
  /\ NextSource
  /\ UNCHANGED <<inputs, findings, abuse, connections, raised, requests>>

GreyAnswered ==
  /\ pc = "grey"
  /\ MayAsk("greynoise", Head(pending))
  /\ Send("greynoise", Head(pending))
  /\ \E reply \in NoiseReplies :
       grey' = [grey EXCEPT ![Head(pending)] = ParseNoise(reply)]
  /\ NextSource
  /\ UNCHANGED <<inputs, findings, abuse, connections, raised>>

\* Faulty variant: every finding gets the results of the first one's source.
RescoreFirst ==
  /\ pc = "rescore"
  /\ findings' = [i \in Finding |->
       RescoreFinding(findings[i], abuse[Source(1)].score, grey[Source(1)])]
  /\ raised' = ~\A f \in ToSet(findings') : FindingValid(f)
  /\ pc' = "closing"
  /\ UNCHANGED <<inputs, pending, abuse, grey, connections, requests>>

\* _rescore_finding on every finding, with the results of its own source; a
\* finding its validator refuses ends the run.
Rescore ==
  /\ pc = "rescore"
  /\ findings' = [i \in Finding |->
       RescoreFinding(findings[i], abuse[Source(i)].score, grey[Source(i)])]
  /\ raised' = ~\A f \in ToSet(findings') : FindingValid(f)
  /\ pc' = "closing"
  /\ UNCHANGED <<inputs, pending, abuse, grey, connections, requests>>

\* The exit stack closes the clients, on success and on an exception.
ExitClients ==
  /\ pc = "closing"
  /\ connections' = {}
  /\ pc' = IF raised THEN "failed" ELSE "report"
  /\ UNCHANGED <<inputs, findings, pending, abuse, grey, raised, requests>>

\* The run is over; a state that is neither this nor has a step is a deadlock.
Ended ==
  /\ pc \in {"report", "failed"}
  /\ UNCHANGED vars

Next ==
  \/ NoFindings \/ EnterOffline \/ EnterAbuse \/ EnterGrey \/ KeyUnreadable
  \/ AbuseNotAsked \/ AbuseAnswered \/ AbuseOverflows
  \/ GreyNotAsked \/ GreyAnswered
  \/ Rescore \/ ExitClients

Spec == Init /\ [][Next \/ Ended]_vars

-----------------------------------------------------------------------------
\* The consistency GreyNoiseResult demands: a match is live, classified and has
\* context; anything else claims nothing.
Consistent(g) ==
  IF g.status = "matched"
    THEN g.mode = "live" /\ g.class # "none" /\ (g.noise \/ g.riot)
    ELSE g = NeutralNoise(g.mode, g.status)

LookupsOK ==
  /\ offline \in BOOLEAN
  /\ apiKeys \subseteq Providers
  /\ dotenv \in {"text", "not_utf8"}
  /\ pending \in Seq(Keys)
  /\ abuse \in [Keys -> AbuseResults \cup {Unknown}]
  /\ grey \in [Keys -> NoiseResults \cup {Unknown}]
  /\ \A k \in Keys : grey[k] # Unknown => Consistent(grey[k])
  /\ connections \subseteq Providers
  /\ raised \in BOOLEAN
  /\ requests \in [Providers -> [Keys -> Nat]]

TypeOK ==
  /\ LookupsOK
  /\ pc \in {"start", "entering", "abuse", "grey", "rescore", "closing", "report", "failed"}

\* However many findings share a source, each provider is asked about it at
\* most once in a run (L262-274: the results are cached by source), and not at
\* all in an offline run or without a key for it.
AskedOnce ==
  \A p \in Providers, k \in Keys :
    requests[p][k] <= IF offline \/ p \notin apiKeys THEN 0 ELSE 1

\* The lookups share the clients that were opened for them, where check_ip would
\* open one for each request (abuseipdb.py L195-202); and none is left open when
\* they are over, whichever of a key, an answer or a finding ended them.
ClientsHeld ==
  /\ pc \in {"abuse", "grey", "rescore"} => connections = IF offline THEN {} ELSE apiKeys
  /\ pc \in {"report", "done", "failed"} => connections = {}

Rescored == pc \in {"report", "done"}

\* A finding whose source no provider answered about keeps the score its
\* detector gave, whatever was learnt about other sources.
NeutralUnlessLive ==
  Rescored =>
    \A i \in Finding :
      abuse[Source(i)].mode # "live" /\ grey[Source(i)].mode # "live" =>
        findings[i].score = Detected(i)

\* Enrichment lowers a score only for live, matched noise from the finding's
\* own source, and never for a source classified as malicious.
LoweredOnlyByNoise ==
  Rescored =>
    \A i \in Finding :
      findings[i].score < Detected(i) =>
        /\ grey[Source(i)].mode = "live"
        /\ grey[Source(i)].class \in {"benign", "unknown"}
        /\ grey[Source(i)].class = "unknown" => grey[Source(i)].noise

\* "invalid provider responses ... return explicitly labeled, neutral results"
\* (README.md:94-95): an analysis that has asked a provider does not fail,
\* whatever it is answered.
InvalidResponsesNeutral ==
  pc = "failed" => \A p \in Providers, k \in Keys : requests[p][k] = 0
=============================================================================
