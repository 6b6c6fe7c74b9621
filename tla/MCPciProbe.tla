----------------------------- MODULE MCPciProbe -----------------------------
(* PciProbe on small instances.  BAR 0 and BAR 1 are the ones the driver   *)
(* uses; in the three-BAR instance BAR 2 is absent.  The devices are       *)
(* interchangeable: no action or property tells one from another.          *)
EXTENDS PciProbe, TLC

PresentBars == {0, 1}
DevSymmetry == Permutations(Devs)
=============================================================================
