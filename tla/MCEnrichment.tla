----------------------------- MODULE MCEnrichment -----------------------------
(* Instances of Enrichment for TLC: one address of each class, an event       *)
(* without one, a critical finding and one whose confidence rounds down.      *)
EXTENDS Enrichment

CONSTANTS publicV4, publicV6, private

MCSources == {publicV4, publicV6, private}
MCGlobalUnicast == {publicV4, publicV6}
MCGlobalIPv4 == {publicV4}
MCProfiles == {<<"critical", 97>>, <<"low", 58>>}
MCAbuseScores == {0, 43, 100}
=============================================================================
