------------------------- MODULE AtomicProvisioning -------------------------
(***************************************************************************)
(* What boot provisioning promises of config.xml over any number of starts, *)
(* crashes and reboots: while the agent is not up, the network section      *)
(* changes only by all of one plan, to what the start found; never to a     *)
(* part of a plan, to two plans or to anything else.  Once a start was      *)
(* marked done only the operator changes it, while the agent is up.         *)
(***************************************************************************)
CONSTANTS Good, Plan, Apply

VARIABLES
    box,   \* the network section, as the last finished start left it
    done,  \* the box is marked as provisioned
    up     \* the agent serves commands

Init == box \in Good /\ done = FALSE /\ up = FALSE

(* A start ends with its plan applied: marked, or to be tried again. *)
Provision(p) ==
    /\ ~up /\ ~done
    /\ box' = Apply[p][box]
    /\ done' \in BOOLEAN
    /\ UNCHANGED up

(* A start ends with the box as it was: reverted, not touched, or found good *)
(* without a plan.                                                           *)
Mark == ~up /\ done' = TRUE /\ UNCHANGED <<box, up>>

Serve == up' = ~up /\ UNCHANGED <<box, done>>

Edit == up /\ box' \in Good /\ UNCHANGED <<done, up>>

Next == (\E p \in Plan : Provision(p)) \/ Mark \/ Serve \/ Edit

Spec == Init /\ [][Next]_<<box, done, up>>
=============================================================================
