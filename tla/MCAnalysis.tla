------------------------------ MODULE MCAnalysis ------------------------------
(* Instances of Analysis for TLC: a record for each way the parsers and the   *)
(* detectors tell records apart, and the logs of up to two of them.           *)
EXTENDS Analysis

CONSTANTS publicV4, publicV6, private

MCProfiles == {<<"high", 99>>}
MCAbuseScores == {0, 43, 100}

Sql(rules, layers, comments) ==
  Text([signatures |-> rules, overlong |-> {}, layers |-> layers, comments |-> comments])
Empty == [kind |-> "empty", content |-> "none"]
BlankText == [kind |-> "blank", content |-> "none"]
Flag == [kind |-> "boolean", content |-> "none"]

Object == [form |-> "json", broken |-> FALSE, spread |-> FALSE, timestamp |-> "aware",
           number |-> "none", fields |-> [n \in StringFields \cup {"body", "type"} |->
                                            <<Absent, Absent>>]]
From(record, address) == [record EXCEPT !.fields.source = <<Text(address), Absent>>]
Blanks == [Object EXCEPT !.form = "blank"]

Encoded == [From(Object, publicV4) EXCEPT
  !.fields.path = <<Sql({"UNION_SELECT"}, 3, "none"), Absent>>, !.timestamp = "naive"]
EncodedTooOften == [From(Object, publicV4) EXCEPT
  !.fields.path = <<Sql({"UNION_SELECT"}, 4, "none"), Absent>>,
  !.fields.type = <<Text("web_access"), Absent>>]
Aliased == [Object EXCEPT !.spread = TRUE,
  !.fields.source = <<Empty, Text(publicV6)>>,
  !.fields.query = <<Empty, Sql({"STACKED_QUERY", "UNION_SELECT"}, 0, "closed")>>]
Hidden == [From(Object, publicV6) EXCEPT
  !.fields.query = <<BlankText, Sql({"UNION_SELECT"}, 0, "none")>>,
  !.fields.path = <<Sql({"TIME_BASED"}, 0, "open"), Absent>>,
  !.fields.type = <<Text("odd"), Absent>>]
InBody == [From(Object, publicV6) EXCEPT !.timestamp = "none",
  !.fields.body = <<[Sql({"TIME_BASED"}, 1, "none") EXCEPT !.kind = "nested"], Absent>>]
LongGap == [From(Object, publicV4) EXCEPT !.fields.query =
  <<Text([signatures |-> {"TIME_BASED", "UNION_SELECT"}, overlong |-> {"UNION_SELECT"},
          layers |-> 1, comments |-> "closed"]), Absent>>]
OldTls == [Object EXCEPT !.fields.protocol = <<Text("TLSv1.0"), Absent>>,
  !.fields.cipher = <<Text({"MD5"}), Absent>>]
DashedTls == [From(Object, private) EXCEPT
  !.fields.tls_version = <<Text("TLS-1.0"), Text("TLSv1.2")>>,
  !.fields.cipher = <<Text({"MD5", "RC4"}), Absent>>]
DashedProtocol == [Object EXCEPT !.fields.protocol = <<Text("TLS-1.0"), Absent>>]

BrokenObject == [Object EXCEPT !.broken = TRUE]
HostName == From(Object, "hostname")
BooleanQuery == [Object EXCEPT !.fields.query = <<Flag, Absent>>]
YearOne == [Object EXCEPT !.timestamp = "overflowing"]

Line == [form |-> "combined", broken |-> FALSE, spread |-> FALSE, timestamp |-> "aware",
         number |-> "in_range", source |-> Text(publicV4), request |-> "parts",
         path |-> Sql({"BOOLEAN_INFERENCE"}, 1, "none"), prefix |-> Sql({}, 0, "none"),
         suffix |-> "named", tls_version |-> Text("SSLv3"), tls_cipher |-> Absent]
SpacedLine == [Line EXCEPT !.request = "spaced", !.suffix = "unreadable",
  !.prefix = Sql({"TIME_BASED"}, 0, "none")]
SpacedLongLine == [Line EXCEPT !.request = "spaced_long"]
NoRequestLine == [Line EXCEPT !.request = "none", !.suffix = "positional",
  !.tls_version = Text("TLS-1.0"), !.tls_cipher = Text({"DES"}), !.timestamp = "naive"]
Status600 == [Line EXCEPT !.number = "out_of_range"]

MCRecords == {Blanks, Encoded, EncodedTooOften, Aliased, Hidden, InBody, LongGap, OldTls,
              DashedTls, DashedProtocol, BrokenObject, HostName, BooleanQuery, YearOne, Line,
              SpacedLine, SpacedLongLine, NoRequestLine, Status600}
MCFiles ==
  UNION {[1 .. n -> MCRecords] : n \in 1 .. 2}
    \cup [1 .. 3 -> {Blanks, Encoded, InBody, OldTls, DashedTls, BrokenObject}]
=============================================================================
