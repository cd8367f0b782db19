--------------------------------- MODULE Sigma ---------------------------------
(***************************************************************************)
(* The Sigma engine (detectors/sigma_engine.py): a ruleset is compiled or   *)
(* refused as a whole, and then evaluated against one event after another.  *)
(*                                                                          *)
(* A condition is a tree of "and", "or" and "not" over tests of one field,  *)
(* kept as the list of its nodes: operands stand before the node they are   *)
(* operands of, and the last node is the whole condition.  A text is known  *)
(* by its word and the layers of URL encoding around it; a pattern is known *)
(* by the word it matches.                                                  *)
(***************************************************************************)
EXTENDS Naturals, FiniteSets, SequencesExt

CONSTANTS
  Fields,   \* the fields of an event, with its attributes
  Rulesets, \* lists of rules
  Streams   \* lists of events

\* One of the event's own fields holds a URL; the others are taken as they are.
UrlFields == {"url"}
MaxUrlDecodeRounds == 3

IsList(s) == s \in Seq(ToSet(s))

\* The matchers; "number" stands for those of typed scalars, "unsupported" for
\* keywords without a field and for what no matcher is made of.  The display, of
\* what is expected, is longer than 1000 characters for some numbers and strings.
IsTest(node) ==
  /\ node.field \in Fields
  /\ node.matcher \in {"exists", "null", "number", "string", "regex", "unsupported"}
  /\ node.matcher = "exists" => node.expected \in BOOLEAN
  /\ node.display \in {"short", "long"}
  /\ node.matcher \in {"exists", "null"} => node.display = "short"

\* Every node but the last is an operand of a later one.
IsCondition(c) ==
  /\ IsList(c) /\ c # <<>>
  /\ \A n \in DOMAIN c :
       /\ c[n].op \in {"field", "and", "or", "not"}
       /\ IsList(c[n].args) /\ ToSet(c[n].args) \subseteq 1 .. n - 1
       /\ c[n].op = "field" => IsTest(c[n])
  /\ \A n \in 1 .. Len(c) - 1 : \E m \in DOMAIN c : n \in ToSet(c[m].args)

ASSUME RulesetsAssumption ==
  \A ruleset \in Rulesets :
    /\ IsList(ruleset)
    /\ \A rule \in ToSet(ruleset) :
         IsList(rule.conditions) /\ \A c \in ToSet(rule.conditions) : IsCondition(c)

\* "long" is a text that is too long to be inspected.
IsScalar(value) ==
  /\ value.kind \in {"absent", "null", "number", "object", "long", "text"}
  /\ value.kind = "text" =>
       /\ value = [kind |-> "text", word |-> value.word, layers |-> value.layers]
       /\ value.layers \in Nat

IsValue(value) ==
  IF value.kind = "list" THEN \A item \in value.items : IsScalar(item) ELSE IsScalar(value)

ASSUME StreamsAssumption ==
  \A events \in Streams :
    IsList(events) /\ \A event \in ToSet(events), field \in Fields : IsValue(event.fields[field])

VARIABLES
  rules,   \* the ruleset as it is given
  stream,  \* the events to evaluate
  engine,  \* "loading", "refused", "ready", "raised" or "done"
  position,\* events evaluated
  findings \* what evaluate has collected: event, rule and evidence of each

vars == <<rules, stream, engine, position, findings>>

Init ==
  /\ rules \in Rulesets
  /\ stream \in Streams
  /\ engine = "loading"
  /\ position = 0
  /\ findings = <<>>

-----------------------------------------------------------------------------
\* _EVENT_TYPES_BY_LOGSOURCE_CATEGORY
TypesOfCategory(category) ==
  CASE category \in {"webserver", "webproxy"} -> {"web_access"}
    [] category \in {"network_connection", "network_traffic"} -> {"network_connection"}
    [] category = "tls_handshake" -> {"tls_handshake"}
    [] OTHER -> {}

\* What each node of a condition comes to, where Of tells it of a node and what
\* its operands come to.
Values(c, Of(_, _)) ==
  LET value[n \in DOMAIN c] == Of(c[n], [i \in DOMAIN c[n].args |-> value[c[n].args[i]]])
  IN  value

Tests(c) == {node \in ToSet(c) : node.op = "field"}

\* _compile_expression and _compile_matcher: keywords without a field, unmapped
\* fields, placeholders and patterns that do not compile are unsupported.
Compiles(c) ==
  \A node \in ToSet(c) :
    \/ node.op = "field" /\ node.matcher # "unsupported"
    \/ node.op = "not" /\ Len(node.args) = 1
    \/ node.op \in {"and", "or"} /\ node.args # <<>>

\* Faulty variant: one branch with evidence is enough for an "or" too.
GuaranteesSomehow(node, operands) ==
  \/ node.op = "field"
  \/ node.op \in {"and", "or"} /\ \E i \in DOMAIN operands : operands[i]

\* Every way for the condition to hold involves a test that holds.
Guarantees(node, operands) ==
  \/ node.op = "field"
  \/ node.op = "and" /\ \E i \in DOMAIN operands : operands[i]
  \/ node.op = "or" /\ \A i \in DOMAIN operands : operands[i]

GuaranteesEvidence(c) == Values(c, Guarantees)[Len(c)]

\* _compile_rule.  "complete" stands for the identifier, the level, the
\* metadata, the texts and the known techniques.
CompilesRule(rule) ==
  /\ rule.complete
  /\ rule.types # {} /\ rule.types \subseteq TypesOfCategory(rule.category)
  /\ rule.conditions # <<>>
  /\ \A c \in ToSet(rule.conditions) : Compiles(c)
  /\ \A c \in ToSet(rule.conditions) : GuaranteesEvidence(c)

\* One rule that does not compile, an empty ruleset, or a text that is not one.
RefuseRuleset ==
  /\ engine = "loading"
  /\ rules = <<>> \/ \E rule \in ToSet(rules) : ~CompilesRule(rule)
  /\ engine' = "refused"
  /\ UNCHANGED <<rules, stream, position, findings>>

LoadRuleset ==
  /\ engine = "loading"
  /\ rules # <<>> /\ \A rule \in ToSet(rules) : CompilesRule(rule)
  /\ engine' = "ready"
  /\ UNCHANGED <<rules, stream, position, findings>>

-----------------------------------------------------------------------------
Candidate(value, rounds) == [value |-> value, rounds |-> rounds]

\* Faulty variant: decoding goes on until nothing changes.
DecodedToTheEnd(text) == Candidate([text EXCEPT !.layers = 0], text.layers)

\* _decode_request_target, _decode_form_value
Decoded(text) ==
  LET rounds == IF text.layers < MaxUrlDecodeRounds THEN text.layers ELSE MaxUrlDecodeRounds
  IN  Candidate([text EXCEPT !.layers = @ - rounds], rounds)

\* What is inspected of a value that is not a list.  An object and a text that
\* is too long are not looked at.
ScalarCandidates(field, value) ==
  IF value.kind \in {"absent", "object", "long"} THEN {}
  ELSE {Candidate(value, 0)} \cup
         (IF value.kind = "text" /\ field \in UrlFields THEN {Decoded(value)} ELSE {})

\* _candidate_values
Candidates(field, value) ==
  IF value.kind = "list"
    THEN UNION {ScalarCandidates(field, item) : item \in value.items}
    ELSE ScalarCandidates(field, value)

Present(value) == value.kind \notin {"absent", "null"}

\* _Matcher.evaluate
Satisfies(test, candidate, value) ==
  \/ test.matcher = "exists" /\ Present(value) = test.expected
  \/ test.matcher \in {"null", "number"} /\ candidate.value.kind = test.matcher
  \/ /\ test.matcher \in {"string", "regex"}
     /\ candidate.value.kind = "text"
     /\ candidate.value.word = test.expected /\ candidate.value.layers = 0

\* The tests' matches: the field, the pattern, the value and its decoding.  A
\* test of existence also inspects a value without candidates.
MatchesOf(test, event) ==
  LET value == event.fields[test.field]
      found == Candidates(test.field, value)
      inspected == IF test.matcher = "exists" /\ found = {}
                     THEN {Candidate([kind |-> "null"], 0)} ELSE found
  IN  {[test |-> test, seen |-> candidate] :
         candidate \in {x \in inspected : Satisfies(test, x, value)}}

Evaluation(matched, matches) ==
  [matched |-> matched, matches |-> IF matched THEN matches ELSE {}]

AllMatches(operands) == UNION {operands[i].matches : i \in DOMAIN operands}

\* Faulty variant: an "and" keeps the matches of its first operand only.
CombineFirst(node, operands, event) ==
  CASE node.op = "field" -> Evaluation(MatchesOf(node, event) # {}, MatchesOf(node, event))
    [] node.op = "not" -> Evaluation(~operands[1].matched, {})
    [] node.op = "and" -> Evaluation(\A i \in DOMAIN operands : operands[i].matched,
                                     operands[1].matches)
    [] OTHER -> Evaluation(\E i \in DOMAIN operands : operands[i].matched,
                           AllMatches(operands))

Combine(node, operands, event) ==
  CASE node.op = "field" -> Evaluation(MatchesOf(node, event) # {}, MatchesOf(node, event))
    [] node.op = "not" -> Evaluation(~operands[1].matched, {})
    [] node.op = "and" -> Evaluation(\A i \in DOMAIN operands : operands[i].matched,
                                     AllMatches(operands))
    [] OTHER -> Evaluation(\E i \in DOMAIN operands : operands[i].matched,
                           AllMatches(operands))

\* _Expression.evaluate
Evaluate(c, event) ==
  Values(c, LAMBDA node, operands : Combine(node, operands, event))[Len(c)]

\* The evidence a rule finds in an event, whichever of its conditions hold.
Evidence(rule, event) ==
  IF event.type \notin rule.types THEN {}
  ELSE UNION {Evaluate(c, event).matches : c \in ToSet(rule.conditions)}

FindingOf(n, k, evidence) ==
  IF evidence = {} THEN <<>> ELSE <<[event |-> n, rule |-> k, evidence |-> evidence]>>

\* Faulty variant: a rule has a finding for each condition that holds.
FindingsOfConditions(n) ==
  FlattenSeq([k \in DOMAIN rules |->
    FlattenSeq([m \in DOMAIN rules[k].conditions |->
      FindingOf(n, k, Evidence([rules[k] EXCEPT !.conditions = <<@[m]>>], stream[n]))])])

\* evaluate_event: a finding for each rule that has evidence, in their order.
FindingsOf(n) ==
  FlattenSeq([k \in DOMAIN rules |-> FindingOf(n, k, Evidence(rules[k], stream[n]))])

\* The evidence that will be made of the next event.
EvidenceDue == UNION {Evidence(rule, stream[position + 1]) : rule \in ToSet(rules)}

EvaluateEvent ==
  /\ engine = "ready"
  /\ position < Len(stream)
  /\ \A m \in EvidenceDue : m.test.display = "short"
  /\ position' = position + 1
  /\ findings' = findings \o FindingsOf(position + 1)
  /\ UNCHANGED <<rules, stream, engine>>

\* A pattern may take longer than REGEX_TIMEOUT_SECONDS on any text it is tried
\* on; no operand is skipped, and the findings so far are lost.
TimesOut ==
  /\ engine = "ready"
  /\ position < Len(stream)
  /\ LET event == stream[position + 1]
     IN  \E rule \in ToSet(rules) :
           /\ event.type \in rule.types
           /\ \E c \in ToSet(rule.conditions) : \E test \in Tests(c) :
                /\ test.matcher \in {"string", "regex"}
                /\ \E x \in Candidates(test.field, event.fields[test.field]) :
                     x.value.kind = "text"
  /\ engine' = "raised"
  /\ findings' = <<>>
  /\ UNCHANGED <<rules, stream, position>>

\* Evidence takes no pattern of more than 1000 characters.  Nor does it take a
\* match that ends in the blanks decoding may leave at a text's ends, if these
\* are stripped of the value.
EvidenceRefused ==
  /\ engine = "ready"
  /\ position < Len(stream)
  /\ \E m \in EvidenceDue :
       m.test.display = "long" \/ (m.test.matcher \in {"string", "regex"} /\ m.seen.rounds > 0)
  /\ engine' = "raised"
  /\ findings' = <<>>
  /\ UNCHANGED <<rules, stream, position>>

Finish ==
  /\ engine = "ready"
  /\ position = Len(stream)
  /\ engine' = "done"
  /\ UNCHANGED <<rules, stream, position, findings>>

\* The run is over; a state that is neither this nor has a step is a deadlock.
Ended == engine \in {"refused", "raised", "done"} /\ UNCHANGED vars

Next ==
  \/ RefuseRuleset \/ LoadRuleset
  \/ EvaluateEvent \/ TimesOut \/ EvidenceRefused \/ Finish
  \/ Ended

Spec == Init /\ [][Next]_vars

-----------------------------------------------------------------------------
\* In the order of events and, for an event, of rules: one finding at most for
\* each pair, none without evidence, and none of a run that did not finish.
TypeOK ==
  /\ engine \in {"loading", "refused", "ready", "raised", "done"}
  /\ position \in 0 .. Len(stream)
  /\ \A i \in DOMAIN findings :
       /\ findings[i].event \in 1 .. position
       /\ findings[i].rule \in DOMAIN rules
       /\ findings[i].evidence # {}
  /\ \A i, j \in DOMAIN findings : i < j =>
       \/ findings[i].event < findings[j].event
       \/ findings[i].event = findings[j].event /\ findings[i].rule < findings[j].rule
  /\ engine \in {"loading", "refused", "raised"} => findings = <<>>

\* What a test means, said of the event itself.
TestHolds(test, event) ==
  LET value == event.fields[test.field]
      parts == IF value.kind = "list" THEN value.items ELSE {value}
      layers == IF test.field \in UrlFields THEN 3 ELSE 0
  IN  \/ /\ test.matcher = "exists"
         /\ test.expected = (value.kind \in {"text", "long", "number", "object", "list"})
      \/ /\ test.matcher \in {"null", "number"}
         /\ \E part \in parts : part.kind = test.matcher
      \/ /\ test.matcher \in {"string", "regex"}
         /\ \E part \in parts :
              part.kind = "text" /\ part.word = test.expected /\ part.layers <= layers

NodeHolds(node, operands, true) ==
  \/ node.op = "field" /\ node \in true
  \/ node.op = "not" /\ ~operands[1]
  \/ node.op = "and" /\ \A i \in DOMAIN operands : operands[i]
  \/ node.op = "or" /\ \E i \in DOMAIN operands : operands[i]

\* A condition holds of those tests that are true.
Holds(c, true) == Values(c, LAMBDA node, operands : NodeHolds(node, operands, true))[Len(c)]

HoldsOf(c, event) == Holds(c, {test \in Tests(c) : TestHolds(test, event)})

\* A ruleset is evaluated as it was written: once it has loaded, an event has a
\* finding of a rule exactly when the rule is meant for such events and one of
\* its conditions is true of it.  No rule is dropped, and the static check of
\* guarantees_evidence (L339) lets no condition through that can be true
\* without evidence, which evaluate_event (L941) would pass over in silence.
FindingIffMatch ==
  engine = "done" =>
    \A i \in DOMAIN stream, j \in DOMAIN rules :
      (\E f \in ToSet(findings) : f.event = i /\ f.rule = j)
        <=> /\ stream[i].type \in rules[j].types
            /\ \E c \in ToSet(rules[j].conditions) : HoldsOf(c, stream[i])

NodeTests(node, operands) ==
  IF node.op = "field" THEN {<<node, 0>>}
  ELSE {<<t[1], t[2] + (IF node.op = "not" THEN 1 ELSE 0)>> :
          t \in UNION {operands[i] : i \in DOMAIN operands}}

\* The tests of a condition, each with the number of "not"s above it.
Negations(c) == Values(c, NodeTests)[Len(c)]

PositiveTests(c) == {test \in Tests(c) : <<test, 0>> \in Negations(c)}

\* "Only positively matched ... fields become finding evidence" (L8): each piece
\* of evidence is a test of the rule, under no "not", that is true of the event,
\* and a pattern's text was reached within the three rounds of decoding.
EvidencePositive ==
  \A f \in ToSet(findings) : \A m \in f.evidence :
    /\ m.test \in UNION {PositiveTests(c) : c \in ToSet(rules[f.rule].conditions)}
    /\ TestHolds(m.test, stream[f.event])
    /\ m.seen.rounds <= 3

DoublyNegates(c) == \E t \in Negations(c) : t[2] > 1

\* The evidence tells the whole story: whoever takes its tests for true, and all
\* others for false, finds every condition true that was true of the event.
\* Conditions with a "not" inside a "not" are excepted: their tests leave none.
EvidenceSuffices ==
  \A f \in ToSet(findings) : \A c \in ToSet(rules[f.rule].conditions) :
    HoldsOf(c, stream[f.event]) /\ ~DoublyNegates(c) =>
      Holds(c, {m.test : m \in f.evidence})
=============================================================================
