---------------------------- MODULE MCContainment ----------------------------
(* Instances of Containment for TLC: two public hosts, and one host of each   *)
(* of the classes the two filters treat differently.                          *)
EXTENDS Containment

Host(class, number) == [class |-> class, number |-> number]

MCHosts ==
  {Host("global", 3), Host("global", 6), Host("private", 2), Host("shared", 1),
   Host("loopback", 7), Host("multicast", 4), Host("site local", 5)}
=============================================================================
