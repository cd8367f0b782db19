------------------------------- MODULE Analysis -------------------------------
(***************************************************************************)
(* analyze_file (cli.py) from the log file to the report: the file is read  *)
(* and parsed, the detectors run on each event, the findings are enriched   *)
(* (Enrichment) and the report is built and validated.                      *)
(*                                                                          *)
(* A file is a sequence of records (Parser), some of them blank lines.      *)
(* record.spread says that a JSON object takes more than one physical line: *)
(* it is pretty-printed, or holds a character splitlines breaks at.         *)
(***************************************************************************)
EXTENDS Enrichment, Detectors

CONSTANTS
  Files,   \* the logs a run may be given
  Formats  \* the values of --format

ASSUME FormatsAssumption == Formats \subseteq {"auto", "json", "apache", "nginx"}

Rules == {Signatures[k].rule : k \in DOMAIN Signatures}
Payloads == [signatures : SUBSET Rules, overlong : SUBSET Rules, layers : Nat,
             comments : {"none", "closed", "open"}]

\* What the text of a JSON field may be.
Contents(name) ==
  CASE name \in {"source", "destination"} -> Sources \cup {"hostname"}
    [] name \in {"path", "query", "body"} -> Payloads
    [] name = "cipher" -> SUBSET Weaknesses
    [] OTHER -> STRING

IsObject(record) ==
  /\ DOMAIN record = {"form", "broken", "spread", "timestamp", "number", "fields"}
  /\ record.form \in {"json", "blank"}
  /\ record.spread => record.form = "json"
  /\ \A name \in StringFields \cup {"body", "type"} :
       record.fields[name] \in Values(Contents(name)) \X Values(Contents(name))

IsLine(record) ==
  /\ DOMAIN record = {"form", "broken", "spread", "timestamp", "number", "source", "request",
                      "path", "prefix", "suffix", "tls_version", "tls_cipher"}
  /\ record.form = "combined"
  /\ ~record.spread
  /\ record.source \in [kind : {"text"}, content : Contents("source")]
  /\ record.request \in {"none", "parts", "spaced", "spaced_long", "incomplete"}
  /\ record.path \in [kind : {"text"}, content : Payloads]
  /\ record.prefix \in [kind : {"text"}, content : Payloads]
  /\ record.suffix \in {"none", "named", "positional", "unreadable"}
  /\ record.tls_version \in [kind : {"text"}, content : STRING] \cup {Absent}
  /\ record.tls_cipher \in [kind : {"text"}, content : SUBSET Weaknesses] \cup {Absent}
  /\ record.suffix = "none" => record.tls_version = Absent /\ record.tls_cipher = Absent

ASSUME FilesAssumption ==
  \A log \in Files :
    /\ log \in Seq(ToSet(log))
    /\ \A record \in ToSet(log) : IsObject(record) \/ IsLine(record)

VARIABLES
  file,   \* the log
  format, \* log_format
  events, \* what was parsed
  error,  \* why the parser gave up, and at which line
  report  \* the report

given == <<file, format>>
analysisVars == <<file, format, events, error, report, vars>>

NoError == [kind |-> "none", line |-> 0]
NoReport == [score |-> 0, components |-> <<>>, techniques |-> <<>>, trace |-> <<>>]

AnalysisInit ==
  /\ BeforeLookups
  /\ findings = <<>>
  /\ pc = "ingest"
  /\ file \in Files
  /\ format \in Formats
  /\ events = <<>>
  /\ error = NoError
  /\ report = NoReport

-----------------------------------------------------------------------------
Blank(record) == record.form = "blank"
Records(log) == Only(log, LAMBDA record : ~Blank(record))

\* The lines of a spread object, each of them read by itself: neither is an
\* object or an access-log line.
Fragments(record) == <<[record EXCEPT !.broken = TRUE],
                       [record EXCEPT !.broken = TRUE, !.form = "combined"]>>

\* splitlines
Lines(log) ==
  FlattenSeq([n \in DOMAIN log |-> IF log[n].spread THEN Fragments(log[n]) ELSE <<log[n]>>])

\* A text that begins with a brace may be one object over several lines.
TryWhole ==
  /\ format \in {"auto", "json"}
  /\ Records(file) # <<>> /\ Records(file)[1].form = "json"

\* What parse_json_log makes of the whole text: two records are not an object.
WholeOutcome ==
  IF TryWhole /\ Len(Records(file)) = 1 THEN Outcome(Records(file)[1], "json") ELSE "refused"

\* Faulty variant: a line that is refused is passed over.
FirstBadSkipping ==
  SelectInSeq(Lines(file), LAMBDA r : ~Blank(r) /\ Outcome(r, format) = "raised")

\* The line at which parse_log_lines stops, or 0.
FirstBad ==
  SelectInSeq(Lines(file), LAMBDA r : ~Blank(r) /\ Outcome(r, format) # "event")

Fail(kind, line) ==
  /\ error' = [kind |-> kind, line |-> line]
  /\ pc' = "failed"
  /\ UNCHANGED <<given, events, report, inputs, findings, pending, abuse, grey,
                 connections, raised, requests>>

\* The file cannot be read, is not UTF-8, or holds only blanks.
ReadFails == pc = "ingest" /\ Fail("unreadable", 0)

Ingested(records) ==
  /\ events' = [n \in DOMAIN records |-> EventOf(records[n])]
  /\ pc' = "detect"
  /\ UNCHANGED <<given, error, report, inputs, findings, pending, abuse, grey,
                 connections, raised, requests>>

ParseWhole ==
  /\ pc = "ingest"
  /\ WholeOutcome = "event"
  /\ Ingested(Records(file))

\* An overflowing date in the whole text is nobody's LogParseError.
WholeRaises ==
  /\ pc = "ingest"
  /\ WholeOutcome = "raised"
  /\ Fail("raised", 0)

\* parse_log_lines: blank lines are passed over, the first line it cannot
\* parse ends it, whatever was parsed before.
ParseLines ==
  /\ pc = "ingest"
  /\ WholeOutcome = "refused"
  /\ Records(file) # <<>> /\ FirstBad = 0
  /\ Ingested(Only(Records(Lines(file)), LAMBDA r : Outcome(r, format) = "event"))

LineRefused ==
  /\ pc = "ingest"
  /\ WholeOutcome = "refused"
  /\ FirstBad # 0
  /\ LET outcome == Outcome(Lines(file)[FirstBad], format)
     IN  Fail(outcome, IF outcome = "refused" THEN FirstBad ELSE 0)

SourceOf(event) == IF IsAbsent(event.source) THEN NoIP ELSE event.source.content

\* _run_detectors, on each event in turn.
Detect ==
  /\ pc = "detect"
  /\ ~\E n \in DOMAIN events : EvidenceRaises(events[n])
  /\ findings' = FlattenSeq([n \in DOMAIN events |->
       DetectSqli(events[n], n, SourceOf(events[n]))
         \o DetectWeakTls(events[n], n, SourceOf(events[n]))])
  /\ raised' = ~\A f \in ToSet(findings') : FindingValid(f)
  /\ pc' = IF raised' THEN "failed" ELSE "start"
  /\ UNCHANGED <<given, events, error, report, inputs, pending, abuse, grey,
                 connections, requests>>

\* An Evidence that is refused ends the run, with nothing of what was found.
DetectRaises ==
  /\ pc = "detect"
  /\ \E n \in DOMAIN events : EvidenceRaises(events[n])
  /\ raised' = TRUE
  /\ pc' = "failed"
  /\ UNCHANGED <<given, events, error, report, inputs, findings, pending, abuse, grey,
                 connections, requests>>

Enrich == Next /\ UNCHANGED <<given, events, error, report>>

Modes == {abuse[k].mode : k \in Keys} \cup {grey[k].mode : k \in Keys}

BuildReport ==
  /\ pc = "report"
  /\ IF ReportValid(Report(findings), findings, events, offline, Modes)
       THEN report' = Report(findings) /\ pc' = "done"
       ELSE pc' = "failed" /\ UNCHANGED report
  /\ UNCHANGED <<given, events, error, inputs, findings, pending, abuse, grey,
                 connections, raised, requests>>

\* The run is over; a state that is neither this nor has a step is a deadlock.
Returned == pc \in {"done", "failed"} /\ UNCHANGED analysisVars

AnalysisNext ==
  \/ ReadFails \/ ParseWhole \/ WholeRaises \/ ParseLines \/ LineRefused
  \/ Detect \/ DetectRaises \/ Enrich \/ BuildReport
  \/ Returned

AnalysisSpec == AnalysisInit /\ [][AnalysisNext]_analysisVars
-----------------------------------------------------------------------------
Stages == {"ingest", "detect", "start", "entering", "abuse", "grey", "rescore", "closing",
           "report", "done", "failed"}

\* Enrichment's types, with the stages before and after it.
AnalysisTypeOK ==
  /\ LookupsOK
  /\ pc \in Stages
  /\ pc \notin {"closing", "failed"} => ~raised
  /\ Len(events) <= Len(file)
  /\ error.kind \in {"none", "unreadable", "refused", "raised"}
  /\ error # NoError => events = <<>> /\ pc = "failed"
  /\ report # NoReport <=> pc = "done"

Parsed == pc \notin {"ingest", "failed"}

\* Either every record of the log becomes an event, in order, or the whole log
\* is refused at the first physical line that is no record, and no detector
\* sees what was parsed before it (L514-533).  A log that is one object is not
\* refused for being spread over lines (cli.py L88-92).
AllOrNothing ==
  /\ Parsed => events = [n \in DOMAIN Records(file) |-> EventOf(Records(file)[n])]
  /\ error.kind = "refused" =>
       /\ Outcome(Lines(file)[error.line], format) = "refused"
       /\ \A m \in 1 .. error.line - 1 :
            Blank(Lines(file)[m]) \/ Outcome(Lines(file)[m], format) = "event"
       /\ ~(TryWhole /\ Len(Records(file)) = 1 /\ Outcome(Records(file)[1], "json") = "event")

\* A reader of the JSON object finds a content like that under the field's
\* first alias that is neither missing nor empty.
Says(record, name, Like(_)) ==
  \E n \in 1 .. 2 :
    /\ record.fields[name][n].kind \in {"text", "nested"}
    /\ Like(record.fields[name][n].content)
    /\ \A m \in 1 .. n - 1 : record.fields[name][m].kind \in {"absent", "empty"}

Carries(text, rule) ==
  rule \in text.signatures /\ text.layers <= MaxUrlDecodeRounds /\ text.comments # "open"

\* A raw space ends the target of an access-log line, so what precedes it is all
\* a reader of the line has.
Injects(record, rule) ==
  IF record.form = "json"
    THEN \E name \in {"path", "query", "body"} :
           Says(record, name, LAMBDA text : Carries(text, rule))
    ELSE \/ record.request = "parts" /\ Carries(record.path.content, rule)
         \/ record.request = "spaced" /\ Carries(record.prefix.content, rule)

Deprecated == {"SSLv3", "TLSv1.0", "TLS-1.0"}

NegotiatesDeprecated(record) ==
  IF record.form = "json"
    THEN IF Says(record, "tls_version", LAMBDA version : TRUE)
           THEN Says(record, "tls_version", LAMBDA version : version \in Deprecated)
           ELSE Says(record, "protocol", LAMBDA name : name \in Deprecated \ {"TLS-1.0"})
    ELSE /\ record.suffix # "unreadable"
         /\ record.tls_version.content \in Deprecated
         /\ record.suffix = "positional" => record.tls_version.content # "TLS-1.0"

NegotiatesWeakCipher(record) ==
  IF record.form = "json"
    THEN Says(record, "cipher", LAMBDA weaknesses : weaknesses # {})
    ELSE /\ record.suffix # "unreadable"
         /\ record.suffix = "positional" => LooksLikeTlsVersion(record.tls_version)
         /\ record.tls_cipher.kind = "text" /\ record.tls_cipher.content # {}

Expected(record) ==
  {rule \in {s.rule : s \in ToSet(Signatures)} : Injects(record, rule)}
    \cup {rule \in {"DEPRECATED_PROTOCOL"} : NegotiatesDeprecated(record)}
    \cup {rule \in {"WEAK_CIPHER"} : NegotiatesWeakCipher(record)}

Names(record, address) ==
  IF record.form = "combined" THEN record.source.content = address
  ELSE IF address = NoIP THEN ~Says(record, "source", LAMBDA any : TRUE)
  ELSE Says(record, "source", LAMBDA named : named = address)

\* The report's findings are one for each record and each thing wrong with it,
\* and each is laid to the address its own record names: nothing on the way
\* from the text through aliases, promotion, decoding and lookups loses a
\* finding, doubles one, or moves it to another record.
FindingsComplete ==
  pc = "done" =>
    /\ {<<f.event, f.rule>> : f \in ToSet(findings)} =
         UNION {{n} \X Expected(Records(file)[n]) : n \in DOMAIN Records(file)}
    /\ IsInjective([i \in Finding |-> <<findings[i].event, findings[i].rule>>])
    /\ \A i \in Finding : Names(Records(file)[findings[i].event], Source(i))

\* The parsed log has a match that is too long to be quoted; some key is to be
\* read from a .env that cannot be; an answer left its source waiting.
MatchTooLong == \E n \in DOMAIN events : EvidenceRaises(events[n])
KeysUnread == findings # <<>> /\ ~offline /\ \E p \in Providers : KeyRaises(p)
CutShort == pending # <<>>

\* An analysis fails only in the parser or for one of these three causes: neither
\* the validator of a finding, made by a detector or rescored, nor that of the
\* report (models.py L425-468, L503-583) ever refuses what the pipeline builds.
ReportBuilt ==
  pc = "failed" => error # NoError \/ MatchTooLong \/ KeysUnread \/ CutShort
=============================================================================
