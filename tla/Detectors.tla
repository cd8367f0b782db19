------------------------------ MODULE Detectors ------------------------------
(***************************************************************************)
(* The two detectors analyze_file runs on every event, detect_sqli and      *)
(* detect_weak_tls.                                                         *)
(*                                                                          *)
(* An inspected text is known by the signatures it carries once all its     *)
(* layers of URL encoding are undone, which of them match more of it than a *)
(* piece of evidence takes, how many layers that is, and whether its gaps   *)
(* are SQL comments, closed or not.  A cipher suite is the set of           *)
(* weaknesses its name shows.                                               *)
(***************************************************************************)
EXTENDS Findings, Parser

\* _SIGNATURES, in order.
Signatures == <<
  [rule |-> "UNION_SELECT", profile |-> <<"high", 99>>],
  [rule |-> "BOOLEAN_INFERENCE", profile |-> <<"high", 94>>],
  [rule |-> "TIME_BASED", profile |-> <<"high", 97>>],
  [rule |-> "STACKED_QUERY", profile |-> <<"critical", 97>>] >>

MaxUrlDecodeRounds == 3

\* The fields _payload_candidates takes from an event the parsers made.
InspectedFields == <<"request_path", "query_string", "request_body">>

\* _decode_component, _decode_request_target: at most three rounds.
Decoded(text) ==
  [text EXCEPT !.layers = IF @ <= MaxUrlDecodeRounds THEN 0 ELSE @ - MaxUrlDecodeRounds]

\* Closed comments are masked by blanks; an open one is left as it is.
Masked(text) == [text EXCEPT !.comments = IF @ = "closed" THEN "none" ELSE @]

Matches(value, rule) ==
  /\ value.kind = "text"
  /\ LET text == Masked(Decoded(value.content))
     IN  rule \in text.signatures /\ text.layers = 0 /\ text.comments = "none"

\* The description of a piece of evidence quotes the match, with the gaps in it,
\* and Evidence takes a description of 1000 characters.  Any other limit of its
\* that a text may pass is not told apart from this one.
EvidenceRaises(event) ==
  \E s \in ToSet(Signatures), field \in ToSet(InspectedFields) :
    Matches(event[field], s.rule) /\ s.rule \in event[field].content.overlong

Technique == <<"T1190", "initial_access">>

\* detect_sqli: a finding for each signature that some field shows, unless a piece
\* of their evidence is refused.
DetectSqli(event, n, source) ==
  LET matched(rule) == Only(InspectedFields, LAMBDA field : Matches(event[field], rule))
      found(s) ==
        IF matched(s.rule) = <<>> THEN <<>>
        ELSE <<NewFinding(n, source, s.rule, s.profile, matched(s.rule), <<Technique>>)>>
  IN  FlattenSeq([k \in DOMAIN Signatures |-> found(Signatures[k])])

\* _canonical_protocol: the severity of a deprecated protocol, however spelt.
ProtocolSeverity == [p \in {"SSLv3", "TLSv1.0", "TLS-1.0"} |->
                       IF p = "SSLv3" THEN "high" ELSE "medium"]

\* _CIPHER_WEAKNESSES, of which two are of medium severity.
Weaknesses == {"NULL", "EXPORT", "RC4", "3DES", "DES", "MD5", "ANON", "IDEA"}
MediumWeaknesses == {"MD5", "IDEA"}

CipherSeverity(weaknesses) ==
  IF weaknesses \subseteq MediumWeaknesses THEN "medium" ELSE "high"

\* Neither finding is mapped to a technique.
ProtocolFinding(n, source, protocol) ==
  NewFinding(n, source, "DEPRECATED_PROTOCOL", <<ProtocolSeverity[protocol], 100>>,
             <<"tls_version">>, <<>>)

CipherFinding(n, source, weaknesses) ==
  NewFinding(n, source, "WEAK_CIPHER", <<CipherSeverity(weaknesses), 99>>,
             [k \in 1 .. Cardinality(weaknesses) |-> "tls_cipher"], <<>>)

\* detect_weak_tls: one finding for the protocol, one for the cipher suite.
DetectWeakTls(event, n, source) ==
  LET protocol == event.tls_version
      cipher == event.tls_cipher
      deprecated == protocol.kind = "text" /\ protocol.content \in DOMAIN ProtocolSeverity
      weak == cipher.kind = "text" /\ cipher.content # {}
  IN  (IF deprecated THEN <<ProtocolFinding(n, source, protocol.content)>> ELSE <<>>)
      \o (IF weak THEN <<CipherFinding(n, source, cipher.content)>> ELSE <<>>)
=============================================================================
