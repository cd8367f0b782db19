------------------------------ MODULE Addresses ------------------------------
(***************************************************************************)
(* Source addresses, by the class they belong to, and the three tests the   *)
(* code makes of them.  Flags is what Python's ipaddress reports of an      *)
(* address of the class: is_global, is_private, and so on.                  *)
(***************************************************************************)
Classes == {"global", "private", "shared", "documentation", "this network",
            "unspecified", "loopback", "link local", "multicast", "reserved",
            "translated", "site local"}

Flags(class) ==
  CASE class = "global" -> {"global"}
    [] class \in {"private", "documentation"} -> {"private"}
    [] class = "shared" -> {}
    [] class = "this network" -> {"private", "zero"}
    [] class = "unspecified" -> {"private", "unspecified", "zero"}
    [] class = "loopback" -> {"private", "loopback"}
    [] class = "link local" -> {"private", "link_local"}
    [] class = "multicast" -> {"global", "multicast"}
    [] class = "reserved" -> {"private", "reserved"}
    [] class = "translated" -> {"global", "reserved"}
    [] class = "site local" -> {"global", "site_local"}

NotAHost == {"multicast", "unspecified", "loopback", "link_local", "reserved"}

\* May be sent to a provider, and may have a command previewed.
IsGlobalUnicast(class) ==
  "global" \in Flags(class) /\ Flags(class) \cap (NotAHost \cup {"private"}) = {}

\* Faulty variant: is_global is asked for, as the previews do.
IsEligibleUnicastGlobal(class) == IsGlobalUnicast(class)

\* May be named in an approved artifact: internal hosts are.
IsEligibleUnicast(class) ==
  Flags(class) \cap (NotAHost \cup {"zero", "site_local"}) = {}
=============================================================================
