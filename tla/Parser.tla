-------------------------------- MODULE Parser --------------------------------
(***************************************************************************)
(* One record of a log becomes one normalized event, or is refused          *)
(* (parsers/log_parser.py).                                                 *)
(*                                                                          *)
(* A record is what some system wrote about one request or connection: a    *)
(* JSON object or an access-log line.  "broken" says that its text is       *)
(* neither; the other fields say what it holds.  A number, which is a port, *)
(* a status or both, stands for the checks it passes.  A JSON field has two *)
(* names here, an earlier and a later alias.                                *)
(***************************************************************************)
EXTENDS SequencesExt, Naturals

\* What stands under a name of a JSON object.  "empty" is null, "" or "-",
\* "blank" a string of spaces, "nested" an object or a list.
Absent == [kind |-> "absent", content |-> "none"]
Text(content) == [kind |-> "text", content |-> content]
IsAbsent(value) == value.kind = "absent"

Values(contents) ==
  [kind : {"absent", "empty", "blank", "boolean"}, content : {"none"}]
    \cup [kind : {"text", "nested"}, content : contents]

\* The members of a sequence that pass a test, in order.
Only(s, Test(_)) ==
  FlattenSeq([n \in DOMAIN s |-> IF Test(s[n]) THEN <<s[n]>> ELSE <<>>])

StringFields == {"source", "destination", "method", "path", "tls_version",
                 "cipher", "protocol", "query"}
EventTypes == {"web_access", "tls_handshake", "network_connection", "generic"}

\* Faulty variant: an empty value ends the search, later aliases are not read.
LookupFirst(aliases) ==
  LET there(value) == value.kind # "absent"
      usable(value) == value.kind # "empty"
      first == SelectInSeq(aliases, there)
  IN  IF first = 0 \/ ~usable(aliases[first]) THEN Absent ELSE aliases[first]

\* _lookup: the first alias that is there and not empty.
Lookup(aliases) ==
  LET usable(value) == value.kind \notin {"absent", "empty"}
      first == SelectInSeq(aliases, usable)
  IN  IF first = 0 THEN Absent ELSE aliases[first]

\* A blank string passes _lookup, and is dropped only then: it hides the
\* aliases that follow.
OptionalString(value) == IF value.kind = "blank" THEN Absent ELSE value

Field(record, name) == OptionalString(Lookup(record.fields[name]))

\* The protocol names that _TLS_VERSION_TOKEN takes for a version of TLS.
LooksLikeTlsVersion(value) ==
  value.kind = "text" /\ value.content \in {"SSLv3", "TLSv1.0", "TLSv1.2"}

\* A version logged as the protocol is moved to where it belongs.
Promoted(record) ==
  IsAbsent(Field(record, "tls_version")) /\ LooksLikeTlsVersion(Field(record, "protocol"))

TlsVersion(record) ==
  IF Promoted(record) THEN Field(record, "protocol") ELSE Field(record, "tls_version")

Protocol(record) == IF Promoted(record) THEN Text("TLS") ELSE Field(record, "protocol")

\* A body that is an object or a list is kept as its JSON text.
RequestBody(record) ==
  LET value == Lookup(record.fields["body"])
  IN  IF value.kind = "nested" THEN Text(value.content) ELSE value

KnownType(requested) == requested.kind = "text" /\ requested.content \in EventTypes

\* _infer_event_type: what was asked for, if there is such a type.
InferEventType(record) ==
  LET requested == Lookup(record.fields["type"])
      has(names) == \E name \in names : ~IsAbsent(Field(record, name))
  IN  CASE KnownType(requested) -> requested.content
        [] ~KnownType(requested) /\ has({"method", "path"}) -> "web_access"
        [] ~KnownType(requested) /\ ~has({"method", "path"}) /\ ~IsAbsent(TlsVersion(record))
             -> "tls_handshake"
        [] OTHER -> IF has({"source", "destination", "protocol"})
                      THEN "network_connection" ELSE "generic"

\* parse_json_log, for a record it accepts.
JsonEvent(record) ==
  [type |-> InferEventType(record),
   source |-> Field(record, "source"),
   protocol |-> Protocol(record),
   request_path |-> Field(record, "path"),
   query_string |-> Field(record, "query"),
   request_body |-> RequestBody(record),
   tls_version |-> TlsVersion(record),
   tls_cipher |-> Field(record, "cipher"),
   warned |-> \/ record.timestamp \in {"none", "naive"}
              \/ ~IsAbsent(Lookup(record.fields["type"]))
                   /\ ~KnownType(Lookup(record.fields["type"]))]

\* A host name is text, but no address.
ValidAddress(value) == value.kind = "text" => value.content # "hostname"

\* Every check of parse_json_log and of SecurityEvent's schema, whichever is
\* made first; the timestamp's own follow in Outcome.
JsonRefused(record) ==
  \/ \E name \in StringFields : Field(record, name).kind \in {"nested", "boolean"}
  \/ Lookup(record.fields["body"]).kind = "boolean"
  \/ record.number \in {"not_integer", "out_of_range"}
  \/ \E name \in {"source", "destination"} : ~ValidAddress(Field(record, name))

-----------------------------------------------------------------------------
\* _parse_tls_suffix: name=value pairs, or a version and a cipher in this order.
SuffixRead(record) ==
  \/ record.suffix = "named"
  \/ record.suffix = "positional" /\ LooksLikeTlsVersion(record.tls_version)

\* _parse_combined_log, for a line it accepts.  A raw space in the request's
\* target ends it: the rest is taken for part of the protocol.
CombinedEvent(record) ==
  [type |-> IF record.request = "none" THEN "network_connection" ELSE "web_access",
   source |-> record.source,
   protocol |-> IF record.request = "none" THEN Absent ELSE Text("HTTP"),
   request_path |-> CASE record.request = "none" -> Absent
                      [] record.request = "parts" -> record.path
                      [] record.request = "spaced" -> record.prefix,
   query_string |-> Absent,
   request_body |-> Absent,
   tls_version |-> IF SuffixRead(record) THEN record.tls_version ELSE Absent,
   tls_cipher |-> IF SuffixRead(record) THEN record.tls_cipher ELSE Absent,
   warned |-> record.suffix = "unreadable" \/ record.timestamp = "naive"]

\* "spaced_long": with the target's rest the protocol exceeds its 32 characters.
CombinedRefused(record) ==
  \/ record.request \in {"incomplete", "spaced_long"}
  \/ ~ValidAddress(record.source)
  \/ record.number = "out_of_range"

-----------------------------------------------------------------------------
\* parse_log: "auto" looks at the first character; Nginx lines are read as
\* Apache's.
ReadAs(record, format) ==
  CASE format = "auto" -> record.form
    [] format = "json" -> "json"
    [] format \in {"apache", "nginx"} -> "combined"

\* A date whose conversion to UTC leaves the calendar, or a number too large for a
\* float, raises OverflowError.
Outcome(record, format) ==
  IF record.broken \/ record.form # ReadAs(record, format) THEN "refused"
  ELSE IF record.timestamp = "overflowing" THEN "raised"
  ELSE IF \/ record.timestamp = "unreadable"
          \/ record.form = "json" /\ JsonRefused(record)
          \/ record.form = "combined" /\ CombinedRefused(record)
    THEN "refused"
  ELSE "event"

EventOf(record) == IF record.form = "json" THEN JsonEvent(record) ELSE CombinedEvent(record)
=============================================================================
