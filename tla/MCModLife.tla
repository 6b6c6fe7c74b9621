----------------------------- MODULE MCModLife ------------------------------
(* Two boards with the two BARs the driver uses, interchangeable.          *)
EXTENDS ModLife, TLC

PresentBars == {0, 1}
DevSymmetry == Permutations(Devs)
=============================================================================
