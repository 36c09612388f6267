----------------------------- MODULE MCReadTools -----------------------------
(* All read tools.  Three rows and a fourth that may appear; limits of one  *)
(* to three rows of which the controller serves two; scans of two rows per  *)
(* page that are cut after two; three names or times, two of them ids too.  *)
EXTENDS ReadTools

FourIds == 1..4
ThreeKeys == 0..2
TwoWanted == {1, 3}
OneToThree == 1..3
NamesAndIds == {0, 1, 3}
=============================================================================
