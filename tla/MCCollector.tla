----------------------------- MODULE MCCollector -----------------------------
(***************************************************************************)
(* Small instances of the collector.  With two hours of history and a      *)
(* clock that passes four hours, hours enter, are corrected, expire and    *)
(* are missed by a stopped worker.                                         *)
(***************************************************************************)
EXTENDS Collector

CONSTANTS full, partial, b1, b2

OneBinding == {b1}
TwoBindings == {b1, b2}
TwoHours == {2}
ThreeHours == {3}
OneOrTwoHours == {1, 2}
=============================================================================
