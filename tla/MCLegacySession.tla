--------------------------- MODULE MCLegacySession ---------------------------
(* Two concurrent calls on one session that is lost and renewed. *)
EXTENDS LegacySession, TLC

CONSTANTS c1, c2

TwoCallers == {c1, c2}
BothFamilies == {"UnifiOs", "Standalone"}
UnifiOsOnly == {"UnifiOs"}
=============================================================================
