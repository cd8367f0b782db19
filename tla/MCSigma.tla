------------------------------- MODULE MCSigma -------------------------------
(* Instances of Sigma for TLC: every condition of up to two operators over     *)
(* five tests against every event of two fields, and rulesets of two rules     *)
(* against streams of two events.                                              *)
EXTENDS Sigma

Test(field, matcher, expected) ==
  <<[op |-> "field", field |-> field, matcher |-> matcher, expected |-> expected,
     display |-> "short", args |-> <<>>]>>

\* The nodes of the operands, one list after the other, and the operator.
Joined(cs) ==
  LET before == [i \in 1 .. Len(cs) + 1 |-> SumFunction([j \in 1 .. i - 1 |-> Len(cs[j])])]
      placed == [i \in 1 .. Len(cs) |-> [n \in DOMAIN cs[i] |->
                   [cs[i][n] EXCEPT !.args = [j \in DOMAIN @ |-> @[j] + before[i]]]]]
  IN  [nodes |-> FlattenSeq(placed), roots |-> [i \in 1 .. Len(cs) |-> before[i + 1]]]
Op(op, cs) ==
  Append(Joined(cs).nodes,
         [op |-> op, field |-> "none", matcher |-> "none", expected |-> "none",
          display |-> "none", args |-> Joined(cs).roots])

UrlIs == Test("url", "string", "attack")
NoteIs == Test("note", "regex", "attack")
NoteNull == Test("note", "null", "none")
NoteThere == Test("note", "exists", TRUE)
NoteMissing == Test("note", "exists", FALSE)
UrlNumber == Test("url", "number", "none")
NoteIsLong == <<[NoteIs[1] EXCEPT !.display = "long"]>>
Keyword == Test("note", "unsupported", "attack")

Leaves == {UrlIs, NoteIs, NoteNull, NoteThere, NoteMissing}
Over(S, T) ==
  {Op("not", <<c>>) : c \in S \cup T}
    \cup {Op(op, <<c, d>>) : op \in {"and", "or"}, c \in S, d \in T}
One == Over(Leaves, Leaves)
Two == Over(Leaves, One) \cup Over({Op("not", <<c>>) : c \in Leaves},
                                   {Op("and", <<c, UrlIs>>) : c \in Leaves})
Malformed == {Keyword, Op("and", <<>>), Op("or", <<UrlIs, Op("not", <<UrlIs, UrlIs>>)>>)}

Rule(types, conditions) ==
  [complete |-> TRUE, category |-> "webserver", types |-> types, conditions |-> conditions]
Web(c) == Rule({"web_access"}, <<c>>)

Attack(layers) == [kind |-> "text", word |-> "attack", layers |-> layers]
Kind(k) == [kind |-> k]
Event(type, url, note) == [type |-> type, fields |-> [url |-> url, note |-> note]]
Urls == {Kind("null"), Attack(0), Attack(3), Attack(4), Kind("long")}
Notes == {Kind("absent"), Kind("null"), Attack(0), Attack(1), Kind("number"), Kind("object"),
          [kind |-> "list", items |-> {}],
          [kind |-> "list", items |-> {Kind("null"), Attack(0)}]}
Events == {Event("web_access", url, note) : url \in Urls, note \in Notes}

Pool == {Web(UrlIs), Web(Op("and", <<NoteThere, Op("not", <<UrlIs>>)>>)),
         Rule({"web_access"}, <<UrlIs, NoteIs>>),
         Rule({"web_access", "tls_handshake"}, <<UrlIs>>),
         [Web(UrlIs) EXCEPT !.complete = FALSE],
         [Rule({"tls_handshake"}, <<UrlNumber, NoteIs>>) EXCEPT !.category = "tls_handshake"],
         Rule({}, <<UrlIs>>), Rule({"web_access"}, <<>>)}
Few == {Event("web_access", Attack(0), Attack(0)), Event("web_access", Kind("null"), Attack(0)),
        Event("tls_handshake", Kind("number"), Kind("absent")),
        Event("tls_handshake", Attack(3), Attack(0))}

LongTests == {NoteIsLong, Op("or", <<UrlIs, NoteIsLong>>), Op("and", <<UrlIs, NoteIsLong>>),
              Op("and", <<UrlIs, Op("not", <<NoteIsLong>>)>>)}

Single == {<<Web(c)>> : c \in LongTests \cup Leaves \cup One \cup Two \cup Malformed}
MCRulesets == Single \cup {<<>>} \cup (Pool \X Pool)
MCStreams == {<<event>> : event \in Events} \cup (Few \X Few)
=============================================================================
