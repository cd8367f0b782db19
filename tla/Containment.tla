----------------------------- MODULE Containment -----------------------------
(***************************************************************************)
(* The addresses a report proposes to block, twice: previewed in the        *)
(* playbook the response node composes (_command_targets, nodes.py), and,   *)
(* once the report is approved, derived again for the artifact              *)
(* (derive_firewall_targets, web/remediation.py).  The two share no code    *)
(* and no state but the report.                                             *)
(*                                                                          *)
(* An address is a class and a number; sorted order, which decides what a   *)
(* cap leaves out, is the order of the numbers.                             *)
(***************************************************************************)
EXTENDS Naturals, FiniteSets, Addresses

CONSTANTS
  Hosts,        \* the addresses: records [class, number]
  NoIP,         \* the source of an event without an address
  MaxEvents,    \* bound on the events of a report
  MaxCommands,  \* MAX_COMMAND_TARGETS: 20
  MaxTargets    \* MAX_FIREWALL_TARGETS: 50

ASSUME HostsAssumption ==
  /\ \A h \in Hosts : h.class \in Classes /\ h.number \in Nat
  /\ \A g, h \in Hosts : g.number = h.number => g = h
  /\ NoIP \notin Hosts
ASSUME CapsAssumption == {MaxEvents, MaxCommands, MaxTargets} \subseteq Nat

VARIABLES
  events,   \* the events: source, and categories of the findings about each
  playbook, \* the section on network containment, once composed
  artifact  \* the targets of the artifact, or why there is none

vars == <<events, playbook, artifact>>

Categories == {"sql_injection", "weak_tls"}

NotComposed == [commands |-> {}, withheld |-> {}, omitted |-> 0, omittedWithheld |-> 0,
                composed |-> FALSE]
NoArtifact == [status |-> "none", targets |-> {}]

Init ==
  /\ events \in UNION {[1 .. n -> [source : Hosts \cup {NoIP}, found : SUBSET Categories]]
                         : n \in 1 .. MaxEvents}
  /\ playbook = NotComposed
  /\ artifact = NoArtifact

\* The sources of the events that have a SQL-injection finding.
Attackers ==
  {events[i].source : i \in {i \in DOMAIN events : "sql_injection" \in events[i].found}}
    \ {NoIP}

First(S, n) == {h \in S : Cardinality({g \in S : g.number < h.number}) < n}

Excess(S, n) == IF Cardinality(S) > n THEN Cardinality(S) - n ELSE 0

\* Faulty variant: the withheld addresses are counted after they are cut.
CommandTargetsMiscounted ==
  LET public == {h \in Attackers : IsGlobalUnicast(h.class)}
      withheld == First(Attackers \ public, MaxCommands)
  IN  [commands |-> First(public, MaxCommands),
       withheld |-> withheld,
       omitted |-> Excess(public, MaxCommands),
       omittedWithheld |-> Excess(withheld, MaxCommands),
       composed |-> TRUE]

CommandTargets ==
  LET public == {h \in Attackers : IsGlobalUnicast(h.class)}
      withheld == Attackers \ public
  IN  [commands |-> First(public, MaxCommands),
       withheld |-> First(withheld, MaxCommands),
       omitted |-> Excess(public, MaxCommands),
       omittedWithheld |-> Excess(withheld, MaxCommands),
       composed |-> TRUE]

\* Faulty variant: the targets above the limit are cut.
DeriveFirewallTargetsCut ==
  LET eligible == {h \in Attackers : IsEligibleUnicast(h.class)}
  IN  [status |-> IF eligible = {} THEN "no target" ELSE "generated",
       targets |-> First(eligible, MaxTargets)]

\* Faulty variant: there is no limit.
DeriveFirewallTargetsUnlimited ==
  LET eligible == {h \in Attackers : IsEligibleUnicast(h.class)}
  IN  [status |-> IF eligible = {} THEN "no target" ELSE "generated", targets |-> eligible]

DeriveFirewallTargets ==
  LET eligible == {h \in Attackers : IsEligibleUnicast(h.class)}
  IN  IF eligible = {} THEN [status |-> "no target", targets |-> {}]
      ELSE IF Cardinality(eligible) > MaxTargets THEN [status |-> "too many", targets |-> {}]
      ELSE [status |-> "generated", targets |-> eligible]

-----------------------------------------------------------------------------
\* response_node
Compose ==
  /\ playbook = NotComposed
  /\ playbook' = CommandTargets
  /\ UNCHANGED <<events, artifact>>

\* execute_playbook, on the report the playbook came with.
Approve ==
  /\ playbook.composed
  /\ artifact = NoArtifact
  /\ artifact' = DeriveFirewallTargets
  /\ UNCHANGED <<events, playbook>>

Next == Compose \/ Approve

Spec == Init /\ [][Next]_vars

-----------------------------------------------------------------------------
TypeOK ==
  /\ playbook.commands \subseteq Hosts /\ playbook.withheld \subseteq Hosts
  /\ Cardinality(playbook.commands) <= MaxCommands
  /\ Cardinality(playbook.withheld) <= MaxCommands
  /\ artifact.status \in {"none", "no target", "too many", "generated"}
  /\ Cardinality(artifact.targets) <= MaxTargets
  /\ artifact.targets # {} <=> artifact.status = "generated"

\* No source of a SQL-injection finding goes unmentioned: it has a command, is
\* named as withheld, or is counted among the omitted (nodes.py L934-941).
SourcesAccounted ==
  playbook.composed =>
    Cardinality(playbook.commands) + Cardinality(playbook.withheld)
      + playbook.omitted + playbook.omittedWithheld = Cardinality(Attackers)

\* What the analyst saw previewed is what the approval covers: every address
\* with a command is a target of the artifact.  A deprecated site-local address
\* is the one the two filters disagree on in this direction.
ApprovalCoversPreview ==
  artifact.status = "generated" =>
    \A h \in playbook.commands : h \in artifact.targets \/ h.class = "site local"

\* An artifact is never a part of what it should be: a host that may be named
\* and has a SQL-injection finding is named, an internal host too
\* (docs/architecture.md:322-325).
ArtifactWholeOrNone ==
  artifact.status = "generated" =>
    \A i \in DOMAIN events :
      LET h == events[i].source
      IN  h # NoIP /\ "sql_injection" \in events[i].found
            /\ h.class \in {"global", "private", "shared", "documentation"}
          => h \in artifact.targets
=============================================================================
