----------------------------- MODULE MCAgentGraph -----------------------------
(* Instances of AgentGraph for TLC: up to three findings where a packet holds *)
(* two, with up to three pieces of evidence where it shows two.               *)
EXTENDS AgentGraph

ip1 == 1
ip2 == 2
ip3 == 3
t1 == 1
t2 == 2
t3 == 3

Profiles ==
  {[category |-> "sql_injection", source |-> ip1, risk |-> 90, evidence |-> 3, techniques |-> <<t1>>],
   [category |-> "weak_tls", source |-> ip2, risk |-> 45, evidence |-> 2, techniques |-> <<>>],
   [category |-> "other", source |-> NoIP, risk |-> 90, evidence |-> 1, techniques |-> <<t3, t2>>],
   [category |-> "other", source |-> ip3, risk |-> 20, evidence |-> 1, techniques |-> <<t3>>]}

MCReports ==
  [findings : UNION {[1 .. n -> Profiles] : n \in 0 .. 3}, offline : BOOLEAN]

\* Among the answers are some that name a finding, evidence, a technique, an
\* address or a focus the report does not support.
Citations ==
  {<<{}, {}>>} \cup
  {{1}, {3}, {1, 2}} \X {{}, {<<1, 1>>}, {<<1, 3>>}, {<<2, 1>>}, {<<3, 1>>}}

Answer(c, techniques, addresses, focus, repeats) ==
  [findings |-> c[1], evidence |-> c[2], techniques |-> techniques,
   addresses |-> addresses, focus |-> focus, repeats |-> repeats]

MCAnswers ==
  {Answer(c, ts, as, fs, FALSE) : c \in Citations, ts \in {{}, {t1}, {t3}},
                                  as \in {{}, {ip1}, {ip2}, {ip3}}, fs \in {{}, {"monitoring"}}}
    \cup {Answer(c, {}, {}, fs, FALSE) : c \in Citations,
            fs \in {{"network_containment"}, {"tls_hardening", "monitoring"}}}
    \cup {Answer(c, {}, {}, {}, TRUE) : c \in Citations}
=============================================================================
