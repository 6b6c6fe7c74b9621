------------------------------ MODULE BoardLife ------------------------------
(***************************************************************************)
(* What binding a board promises to its users: a board is set up before it *)
(* goes live, goes live at most once per setup, and is fully torn down     *)
(* before it can be set up again.                                          *)
(***************************************************************************)
CONSTANT Devs
VARIABLE state

LifeStates == {"absent", "setup", "live", "teardown"}

Init == state = [d \in Devs |-> "absent"]

Move(d, from, to) == state[d] = from /\ state' = [state EXCEPT ![d] = to]

Begin(d) == Move(d, "absent", "setup")
Abort(d) == Move(d, "setup", "absent")
GoLive(d) == Move(d, "setup", "live")
GoDown(d) == Move(d, "live", "teardown")
Finish(d) == Move(d, "teardown", "absent")

Next == \E d \in Devs : Begin(d) \/ Abort(d) \/ GoLive(d) \/ GoDown(d) \/ Finish(d)

Spec == Init /\ [][Next]_state
=============================================================================
