------------------------- MODULE BootNetwork_proofs -------------------------
(* Proofs about BootNetwork, for every set of configurations, plans and      *)
(* failures.  BootInv is the inductive invariant behind the properties that  *)
(* hold whatever fails; ReachInv adds what holds up to the first of          *)
(* HardFaults; StepAtomic is the step simulation of AtomicProvisioning.      *)
EXTENDS BootNetwork, TLAPS

(* From the marker check to the marker write, the marker is not there. *)
Unmarked ==
    pc \in Steps \ {"check", "password"} => ~marker

(* A plan is applied only when there is one. *)
PlanChosen ==
    /\ pc = "match" => plan # NoCards
    /\ pc \in {"snapshot", "apply", "applyLive"} => plan \in Plan

(* What the start found is still on disk, or in the snapshot, unless that    *)
(* came out unusable; a restore that has written had a usable one.           *)
BaseKept ==
    /\ pc \in {"check", "match", "snapshot", "apply", "revertLive"} => cfg = base
    /\ pc \in {"apply", "applyLive", "probe", "revert"} =>
          snap \in {base, NoSnapshot, BadSnapshot}
    /\ pc \in {"check", "match", "snapshot"} => snap = NoSnapshot
    /\ pc = "revertLive" => snap = base

(* Nothing is concluded before the last step, and the marker is written only *)
(* on what the probe got through.                                            *)
NothingConcluded ==
    /\ pc \in Steps \ {"password"} => outcome = "none"
    /\ pc = "mark" => MayReach

(* Until the start ends, the file holds what it found or all of its plan. *)
WholePlan ==
    pc \in Midway => cfg = base \/ (plan \in Plan /\ cfg = Apply[plan][base])

BootInv ==
    /\ TypeOK
    /\ Unmarked
    /\ PlanChosen
    /\ BaseKept
    /\ NothingConcluded
    /\ WholePlan
    /\ RevertUndoes
    /\ VerifiedMeansReached

USE GoodAssumption, ApplyAssumption, OffersAssumption, NoPlanAssumption,
    SnapAssumption, FaultsAssumption, PasswordAssumption

(* A box before the agent's first start. *)
LEMMA InitBoot == Init => BootInv
<1> SUFFICES ASSUME Init PROVE BootInv
    OBVIOUS
<1>1. TypeOK
    <2>1. cfg \in Config /\ live \in SUBSET Config /\ faults \in 0..MaxFaults
        BY DEF Init
    <2> QED
        BY <2>1 DEF Init, TypeOK, Steps, Outcomes
<1> QED
    BY <1>1 DEF Init, BootInv, Unmarked, PlanChosen, BaseKept, NothingConcluded,
       WholePlan, RevertUndoes, VerifiedMeansReached, Steps, Midway

(* Type correctness, one step per action. *)
LEMMA NextType == TypeOK /\ PlanChosen /\ BaseKept /\ [Next]_vars => TypeOK'
<1> SUFFICES ASSUME TypeOK, PlanChosen, BaseKept, [Next]_vars PROVE TypeOK'
    OBVIOUS
<1>0. hard' \in BOOLEAN
    BY DEF TypeOK, Next, AgentStep, Start, CheckMarker, MatchNICs, TakeSnapshot,
       ApplyWrite, ApplyLive, ProbeReached, ProbeUnreachable, RevertWrite,
       RevertLive, WriteMarker, ApplyPassword, Stop, Crash, OperatorEdit,
       OperatorPassword, Fault, failures, vars
<1> USE <1>0 DEF TypeOK, Steps, Outcomes, disk, failures
<1>1. CASE Start
    BY <1>1 DEF Start
<1>2. CASE CheckMarker
    BY <1>2 DEF CheckMarker
<1>3. CASE MatchNICs
    BY <1>3 DEF MatchNICs, Fault
<1>4. CASE TakeSnapshot
    BY <1>4 DEF TakeSnapshot, Fault
<1>5. CASE ApplyWrite
    BY <1>5 DEF ApplyWrite, Fault, PlanChosen
<1>6. CASE ApplyLive
    BY <1>6 DEF ApplyLive, PlanLoaded, Fault
<1>7. CASE ProbeReached
    BY <1>7 DEF ProbeReached
<1>8. CASE ProbeUnreachable
    BY <1>8 DEF ProbeUnreachable, Fault
<1>9. CASE RevertWrite
    BY <1>9 DEF RevertWrite, Fault, BaseKept
<1>10. CASE RevertLive
    BY <1>10 DEF RevertLive, Fault
<1>11. CASE WriteMarker
    <2>1. marker' \in BOOLEAN
        BY <1>11 DEF WriteMarker
    <2>2. faults' \in 0..MaxFaults /\ outcome' \in Outcomes
        BY <1>11 DEF WriteMarker, Fault
    <2> QED
        BY <1>11, <2>1, <2>2 DEF WriteMarker
<1>12. CASE ApplyPassword
    BY <1>12 DEF ApplyPassword, Fault
<1>13. CASE Stop
    BY <1>13 DEF Stop
<1>14. CASE Crash
    BY <1>14 DEF Crash, Fault
<1>15. CASE OperatorEdit
    BY <1>15 DEF OperatorEdit
<1>16. CASE OperatorPassword
    BY <1>16 DEF OperatorPassword
<1>17. CASE UNCHANGED vars
    BY <1>17 DEF vars
<1> QED
    BY <1>1, <1>2, <1>3, <1>4, <1>5, <1>6, <1>7, <1>8, <1>9, <1>10, <1>11,
       <1>12, <1>13, <1>14, <1>15, <1>16, <1>17 DEF Next, AgentStep

(* Every step of the provisioning and its surroundings, one CASE each. *)
LEMMA NextBoot == BootInv /\ [Next]_vars => BootInv'
<1> SUFFICES ASSUME BootInv, [Next]_vars PROVE BootInv'
    OBVIOUS
<1>0. TypeOK'
    BY NextType DEF BootInv
<1> USE <1>0 DEF BootInv, Unmarked, PlanChosen, BaseKept, NothingConcluded,
                 WholePlan, RevertUndoes, VerifiedMeansReached, MayReach, Steps,
                 Midway, disk
<1>1. CASE Start
    BY <1>1 DEF Start, TypeOK
<1>2. CASE CheckMarker
    BY <1>2 DEF CheckMarker
<1>3. CASE MatchNICs
    BY <1>3 DEF MatchNICs, Fault, TypeOK
<1>4. CASE TakeSnapshot
    BY <1>4 DEF TakeSnapshot, Fault
<1>5. CASE ApplyWrite
    BY <1>5 DEF ApplyWrite, Fault
<1>6. CASE ApplyLive
    BY <1>6 DEF ApplyLive, PlanLoaded, Fault
<1>7. CASE ProbeReached
    BY <1>7 DEF ProbeReached
<1>8. CASE ProbeUnreachable
    BY <1>8 DEF ProbeUnreachable, Fault
<1>9. CASE RevertWrite
    BY <1>9 DEF RevertWrite, Fault
<1>10. CASE RevertLive
    BY <1>10 DEF RevertLive, Fault
<1>11. CASE WriteMarker
    BY <1>11 DEF WriteMarker, Fault
<1>12. CASE ApplyPassword
    BY <1>12 DEF ApplyPassword, Fault
<1>13. CASE Stop
    BY <1>13 DEF Stop
<1>14. CASE Crash
    BY <1>14 DEF Crash, Fault
<1>15. CASE OperatorEdit
    BY <1>15 DEF OperatorEdit
<1>16. CASE OperatorPassword
    BY <1>16 DEF OperatorPassword
<1>17. CASE UNCHANGED vars
    BY <1>17 DEF vars
<1> QED
    BY <1>1, <1>2, <1>3, <1>4, <1>5, <1>6, <1>7, <1>8, <1>9, <1>10, <1>11,
       <1>12, <1>13, <1>14, <1>15, <1>16, <1>17 DEF Next, AgentStep

(* The inductive invariant holds in every execution, whatever fails. *)
THEOREM BootInvariant == Spec => []BootInv
BY InitBoot, NextBoot, PTL DEF Spec

(* Type correctness of boot provisioning. *)
THEOREM BootTypeCorrect == Spec => []TypeOK
<1>1. BootInv => TypeOK
    BY DEF BootInv
<1> QED
    BY <1>1, BootInvariant, PTL

(* A start that reports "reverted" has put back, on disk and in the kernel,  *)
(* exactly what it found, whatever failed earlier.                           *)
THEOREM BootRevertUndoes == Spec => []RevertUndoes
<1>1. BootInv => RevertUndoes
    BY DEF BootInv
<1> QED
    BY <1>1, BootInvariant, PTL

(* A start that reports "applied and verified" did get through to NATS.      *)
THEOREM BootVerifiedMeansReached == Spec => []VerifiedMeansReached
<1>1. BootInv => VerifiedMeansReached
    BY DEF BootInv
<1> QED
    BY <1>1, BootInvariant, PTL

(* No step of a start that found the marker touches the configuration.       *)
LEMMA StepOneShot ==
    BootInv /\ [Next]_vars => [marker /\ pc # "up" => cfg' = cfg /\ marker']_vars
<1> SUFFICES ASSUME BootInv, Next, marker, pc # "up" PROVE cfg' = cfg /\ marker'
    OBVIOUS
<1>1. pc \notin {"apply", "applyLive", "revert", "revertLive", "mark"}
    BY DEF BootInv, Unmarked, Steps
<1> QED
    BY <1>1 DEF Next, AgentStep, Start, CheckMarker, MatchNICs, TakeSnapshot,
       ApplyWrite, ApplyLive, ProbeReached, ProbeUnreachable, RevertWrite,
       RevertLive, WriteMarker, ApplyPassword, Stop, Crash, OperatorEdit,
       OperatorPassword, disk

(* Once the marker is written, provisioning leaves the network configuration *)
(* and the marker alone, at every start and after every crash.               *)
THEOREM BootOneShot == Spec => OneShot
BY BootInvariant, StepOneShot, PTL DEF Spec, OneShot

----------------------------------------------------------------------------
(* Up to the first of HardFaults the provisioning runs to its end between    *)
(* its writes and its conclusion: what is on disk is what the kernel runs.   *)
Settled ==
    /\ pc \in Steps => base \in Good
    /\ pc \in Steps \ {"applyLive", "revertLive"} => live = {cfg}
    /\ pc = "applyLive" => live = {base}
    /\ pc \in {"applyLive", "probe", "mark"} /\ plan \in Plan => cfg = Apply[plan][base]
    /\ pc \in {"apply", "applyLive", "revert"} => snap = base
    /\ pc = "probe" => snap = base \/ (snap = NoSnapshot /\ cfg \in Good)
    /\ pc = "mark" => cfg \in Good

ReachInv ==
    /\ BootInv
    /\ ~hard => Settled
    /\ StaysReachable
    /\ VerifiedMeansApplied

(* The box comes reachable. *)
LEMMA InitReach == Init => ReachInv
BY InitBoot DEF Init, ReachInv, Settled, StaysReachable, VerifiedMeansApplied, Steps

(* A failure is not forgotten. *)
LEMMA HardStays == [Next]_vars => (hard => hard')
BY DEF Next, AgentStep, Start, CheckMarker, MatchNICs, TakeSnapshot,
   ApplyWrite, ApplyLive, ProbeReached, ProbeUnreachable, RevertWrite,
   RevertLive, WriteMarker, ApplyPassword, Stop, Crash, OperatorEdit,
   OperatorPassword, Fault, failures, vars

(* Without HardFaults, what is written is loaded, probed and, if need be,    *)
(* reverted before the provisioning ends.                                    *)
LEMMA NextReach == ReachInv /\ [Next]_vars => ReachInv'
<1> SUFFICES ASSUME ReachInv, [Next]_vars, ~hard'
             PROVE  Settled' /\ StaysReachable' /\ VerifiedMeansApplied'
    BY NextBoot DEF ReachInv, StaysReachable, VerifiedMeansApplied
<1>0. BootInv' /\ ~hard
    BY NextBoot, HardStays DEF ReachInv
<1>a. BootInv /\ TypeOK
    BY DEF ReachInv, BootInv
<1>b. /\ ~Fault("apply")   /\ ~Fault("garbled")
      /\ ~Fault("restore") /\ ~Fault("crash") /\ ~Fault("badSnapshot")
    BY DEF Fault, HardFaults
<1> USE <1>0, <1>a DEF ReachInv, Settled, StaysReachable, VerifiedMeansApplied, Steps, disk
<1>1. CASE Start
    BY <1>1 DEF Start
<1>2. CASE CheckMarker
    BY <1>2 DEF CheckMarker, BootInv, NothingConcluded, BaseKept
<1>3. CASE MatchNICs
    BY <1>3 DEF MatchNICs, BootInv, NothingConcluded, BaseKept, PlanChosen, TypeOK
<1>4. CASE TakeSnapshot
    BY <1>4, <1>b DEF TakeSnapshot, BootInv, NothingConcluded, BaseKept
<1>5. CASE ApplyWrite
    BY <1>5, <1>b DEF ApplyWrite, BootInv, BaseKept, NothingConcluded, PlanChosen
<1>6. CASE ApplyLive
    BY <1>6, <1>b DEF ApplyLive, PlanLoaded, BootInv, BaseKept, TypeOK
<1>7. CASE ProbeReached
    BY <1>7 DEF ProbeReached, MayReach, TypeOK
<1>8. CASE ProbeUnreachable
    BY <1>8 DEF ProbeUnreachable, BootInv, NothingConcluded
<1>9. CASE RevertWrite
    BY <1>9, <1>b DEF RevertWrite, BootInv, BaseKept
<1>10. CASE RevertLive
    BY <1>10, <1>b DEF RevertLive, BootInv, BaseKept
<1>11. CASE WriteMarker
    BY <1>11 DEF WriteMarker, BootInv, NothingConcluded
<1>12. CASE ApplyPassword
    BY <1>12 DEF ApplyPassword
<1>13. CASE Stop
    BY <1>13 DEF Stop
<1>14. CASE Crash
    BY <1>14, <1>b DEF Crash
<1>15. CASE OperatorEdit
    BY <1>15 DEF OperatorEdit
<1>16. CASE OperatorPassword
    BY <1>16 DEF OperatorPassword
<1>17. CASE UNCHANGED vars
    BY <1>17 DEF vars
<1> QED
    BY <1>1, <1>2, <1>3, <1>4, <1>5, <1>6, <1>7, <1>8, <1>9, <1>10, <1>11,
       <1>12, <1>13, <1>14, <1>15, <1>16, <1>17 DEF Next, AgentStep

(* Until a script is cut short, prints output that does not parse, fails to  *)
(* restore, or the agent is interrupted, no metadata and no outage of the    *)
(* platform can leave the box on a configuration that does not reach it.     *)
THEOREM BootStaysReachable == Spec => []StaysReachable
<1>1. ReachInv => StaysReachable
    BY DEF ReachInv
<1> QED
    BY <1>1, InitReach, NextReach, PTL DEF Spec

(* And the marker of a non-empty plan stands for that plan applied in full.  *)
THEOREM BootVerifiedMeansApplied == Spec => []VerifiedMeansApplied
<1>1. ReachInv => VerifiedMeansApplied
    BY DEF ReachInv
<1> QED
    BY <1>1, InitReach, NextReach, PTL DEF Spec

----------------------------------------------------------------------------
Box == IF pc \in Midway THEN base ELSE cfg
abstract == <<Box, marker, pc = "up">>

(* Every step of a start is a stutter of AtomicProvisioning, except the one  *)
(* that ends it and a crash, which keep or apply the whole plan.             *)
LEMMA StepAtomic == BootInv /\ [Next]_vars => [Atomic!Next]_abstract
<1> SUFFICES ASSUME BootInv, [Next]_vars PROVE Atomic!Next \/ UNCHANGED abstract
    OBVIOUS
<1>a. TypeOK /\ Unmarked /\ BaseKept /\ WholePlan
    BY DEF BootInv
<1> USE <1>a DEF Box, abstract, Midway, Steps, disk
(* A start that ends unmarked at pc', with the file as it is. *)
<1>b. ASSUME pc \in Midway, pc' \in {"password", "down"}, cfg' = cfg, marker' = marker,
             ~marker \/ cfg = base
      PROVE  Atomic!Next \/ UNCHANGED abstract
    <2>1. CASE cfg = base
        BY <2>1, <1>b
    <2>2. CASE ~marker /\ plan \in Plan /\ cfg = Apply[plan][base]
        <3>1. Atomic!Provision(plan)
            BY <2>2, <1>b DEF Atomic!Provision, TypeOK
        <3> QED
            BY <3>1, <2>2 DEF Atomic!Next
    <2> QED
        BY <2>1, <2>2, <1>b DEF WholePlan
(* A start that goes on. *)
<1>c. ASSUME pc \in Midway, pc' \in Midway, base' = base, marker' = marker
      PROVE  UNCHANGED abstract
    BY <1>c
<1>1. CASE Start
    BY <1>1 DEF Start
<1>2. CASE CheckMarker
    <2>1. CASE pc' = "password"
        BY <1>2, <1>b, <2>1 DEF CheckMarker, BaseKept
    <2>2. CASE pc' # "password"
        BY <1>2, <1>c, <2>2 DEF CheckMarker
    <2> QED
        BY <2>1, <2>2
<1>3. CASE MatchNICs \/ TakeSnapshot
    <2>1. CASE pc' = "password"
        BY <1>3, <1>b, <2>1 DEF MatchNICs, TakeSnapshot, Unmarked
    <2>2. CASE pc' # "password"
        BY <1>3, <1>c, <2>2 DEF MatchNICs, TakeSnapshot
    <2> QED
        BY <2>1, <2>2
<1>5. CASE ApplyWrite
    BY <1>5, <1>c DEF ApplyWrite
<1>6. CASE ApplyLive \/ ProbeReached \/ ProbeUnreachable
    <2>1. CASE pc' = "password"
        BY <1>6, <1>b, <2>1 DEF ApplyLive, PlanLoaded, ProbeReached, ProbeUnreachable, Unmarked
    <2>2. CASE pc' # "password"
        BY <1>6, <1>c, <2>2 DEF ApplyLive, PlanLoaded, ProbeReached, ProbeUnreachable
    <2> QED
        BY <2>1, <2>2
<1>9. CASE RevertWrite
    <2>1. CASE pc' = "password"
        BY <1>9, <1>b, <2>1 DEF RevertWrite, Unmarked
    <2>2. CASE pc' # "password"
        BY <1>9, <1>c, <2>2 DEF RevertWrite
    <2> QED
        BY <2>1, <2>2
<1>10. CASE RevertLive
    BY <1>10, <1>b DEF RevertLive, Unmarked
<1>11. CASE WriteMarker
    <2>1. CASE marker' = marker
        BY <1>11, <1>b, <2>1 DEF WriteMarker, Unmarked
    <2>2. CASE marker' = TRUE /\ cfg = base
        <3>1. Atomic!Mark
            BY <1>11, <2>2 DEF WriteMarker, Atomic!Mark
        <3> QED
            BY <3>1 DEF Atomic!Next
    <2>3. CASE marker' = TRUE /\ plan \in Plan /\ cfg = Apply[plan][base]
        <3>1. Atomic!Provision(plan)
            BY <1>11, <2>3 DEF WriteMarker, Atomic!Provision, Unmarked
        <3> QED
            BY <3>1, <2>3 DEF Atomic!Next
    <2> QED
        BY <1>11, <2>1, <2>2, <2>3 DEF WriteMarker, WholePlan
<1>12. CASE ApplyPassword
    <2>1. Atomic!Serve
        BY <1>12 DEF ApplyPassword, Atomic!Serve
    <2> QED
        BY <2>1 DEF Atomic!Next
<1>13. CASE Stop
    <2>1. Atomic!Serve
        BY <1>13 DEF Stop, Atomic!Serve
    <2> QED
        BY <2>1 DEF Atomic!Next
<1>14. CASE Crash
    <2>1. CASE pc = "password"
        BY <1>14, <2>1 DEF Crash
    <2>2. CASE pc \in Midway
        BY <1>14, <2>2, <1>b DEF Crash, Unmarked, BaseKept
    <2> QED
        BY <1>14, <2>1, <2>2 DEF Crash
<1>15. CASE OperatorEdit
    <2>1. Atomic!Edit
        BY <1>15 DEF OperatorEdit, Atomic!Edit
    <2> QED
        BY <2>1 DEF Atomic!Next
<1>16. CASE OperatorPassword
    BY <1>16 DEF OperatorPassword
<1>17. CASE UNCHANGED vars
    BY <1>17 DEF vars
<1> QED
    BY <1>1, <1>2, <1>3, <1>5, <1>6, <1>9, <1>10, <1>11, <1>12, <1>13, <1>14,
       <1>15, <1>16, <1>17 DEF Next, AgentStep

(* Boot provisioning implements AtomicProvisioning, whatever fails: no start *)
(* leaves a part of a plan, or anything it did not find or was not told, in  *)
(* config.xml, and none changes it once a start was marked done.             *)
THEOREM BootAtomic == Spec => AtomicBoot
<1>1. Init => Atomic!Init
    BY DEF Init, Atomic!Init, Midway, Steps
<1>2. BootInv /\ [Next]_vars =>
        [Atomic!Next]_<<IF pc \in Midway THEN base ELSE cfg, marker, pc = "up">>
    BY StepAtomic DEF abstract, Box
<1> QED
    BY <1>1, <1>2, BootInvariant, PTL DEF Spec, AtomicBoot, Atomic!Spec
=============================================================================
