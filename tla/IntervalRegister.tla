-------------------------- MODULE IntervalRegister --------------------------
(***************************************************************************)
(* What SetTelemetryInterval and telemetryLoop promise together: one slot   *)
(* that the newest accepted interval overwrites in one step and the loop    *)
(* empties in one step.  An interval is in effect only if it was accepted,  *)
(* none takes effect twice, and an older one never after a newer one.       *)
(***************************************************************************)
CONSTANTS Accepted, Initial, Empty

VARIABLES
    slot,   \* the interval that waits to take effect, or Empty
    active  \* the one in effect

Init == slot = Empty /\ active = Initial

Set(x) == slot' = x /\ UNCHANGED active

Take == slot # Empty /\ active' = slot /\ slot' = Empty

Next == (\E x \in Accepted : Set(x)) \/ Take

Spec == Init /\ [][Next]_<<slot, active>>
=============================================================================
