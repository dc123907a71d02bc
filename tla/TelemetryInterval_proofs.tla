---------------------- MODULE TelemetryInterval_proofs ----------------------
(* Proofs about TelemetryInterval, for every word size, every length of a     *)
(* second and every set of requests.                                          *)
EXTENDS TelemetryInterval, TLAPS

(* What the platform was told last is queued or in effect, also while the     *)
(* next call is under way; only between drain and refill it is neither.       *)
Reported ==
    /\ spc # "refill" => lastSet = (IF chan = Empty THEN ticker ELSE chan)
    /\ spc = "refill" => chan = Empty

(* The clamp is behind every value on its way to the ticker. *)
Clamped ==
    /\ TickerPositive
    /\ spc # "idle" => d \in Accepted /\ d >= minTelemetryInterval

IntervalInv == TypeOK /\ Reported /\ Clamped

(* However interval_s times time.Second wraps, the clamp brings it back.     *)
LEMMA ClampBound ==
    ASSUME NEW n \in Requests
    PROVE  /\ Clamp(Requested(n)) \in Accepted
           /\ Clamp(Requested(n)) \in Int
           /\ Clamp(Requested(n)) >= minTelemetryInterval
<1>1. n * Second \in Int
    BY WordAssumption
<1>2. (n * Second) % Word \in Int
    BY <1>1, WordAssumption
<1>3. Requested(n) \in Int
    BY <1>2, WordAssumption DEF Requested, Wrap
<1> QED
    BY <1>3, WordAssumption DEF Clamp, minTelemetryInterval, Accepted

(* The configured interval, or 30 s, is positive. *)
LEMMA InitInterval == Init => IntervalInv
<1> SUFFICES ASSUME Init PROVE IntervalInv
    OBVIOUS
<1>1. Initial \in Int /\ Initial > 0
    BY WordAssumption, ConfiguredAssumption DEF Initial
<1> QED
    BY <1>1 DEF Init, IntervalInv, TypeOK, Reported, Clamped,
       TickerPositive

(* Every channel operation of the two goroutines. *)
LEMMA NextInterval == IntervalInv /\ [Next]_vars => IntervalInv'
<1> SUFFICES ASSUME IntervalInv, [Next]_vars PROVE IntervalInv'
    OBVIOUS
<1>0. minTelemetryInterval \in Nat \ {0}
    BY WordAssumption DEF minTelemetryInterval
<1> USE <1>0, EmptyAssumption
    DEF IntervalInv, TypeOK, Reported, Clamped, TickerPositive,
        setter, loop
<1>1. ASSUME NEW n \in Requests, SetCall(n) PROVE IntervalInv'
    BY <1>1, ClampBound DEF SetCall
<1>2. CASE SetSelect
    BY <1>2 DEF SetSelect, Return
<1>3. CASE SetDrain
    BY <1>3 DEF SetDrain
<1>4. CASE SetRefill
    BY <1>4 DEF SetRefill, Return
<1>5. CASE LoopStart
    BY <1>5 DEF LoopStart
<1>6. CASE LoopSent
    BY <1>6 DEF LoopSent
<1>7. CASE LoopReceive
    BY <1>7 DEF LoopReceive
<1>8. CASE LoopTick
    BY <1>8 DEF LoopTick
<1>9. CASE LoopDone
    BY <1>9 DEF LoopDone
<1>10. CASE UNCHANGED vars
    BY <1>10 DEF vars
<1> QED
    BY <1>1, <1>2, <1>3, <1>4, <1>5, <1>6, <1>7, <1>8, <1>9, <1>10
    DEF Next, SetStep, LoopStep

(* The inductive invariant. *)
THEOREM IntervalInvariant == Spec => []IntervalInv
BY InitInterval, NextInterval, PTL DEF Spec

(* Type correctness of the interval hand-over. *)
THEOREM IntervalTypeCorrect == Spec => []TypeOK
<1>1. IntervalInv => TypeOK
    BY DEF IntervalInv
<1> QED
    BY <1>1, IntervalInvariant, PTL

(* No interleaving of the dispatcher and the telemetry loop leaves a stale    *)
(* interval in effect behind a newer one the platform was told of.            *)
THEOREM IntervalNewestWins == Spec => []NewestWins
<1>1. IntervalInv => NewestWins
    BY DEF IntervalInv, Reported, NewestWins
<1> QED
    BY <1>1, IntervalInvariant, PTL

(* Whatever interval_s is, also when it overflows, ticker.Reset never gets a  *)
(* period it panics on.                                                       *)
THEOREM IntervalTickerPositive == Spec => []TickerPositive
<1>1. IntervalInv => TickerPositive
    BY DEF IntervalInv, Clamped
<1> QED
    BY <1>1, IntervalInvariant, PTL

(* A step of either goroutine sets or takes the value of the register, or    *)
(* changes neither slot nor interval in effect.                              *)
LEMMA IntervalSimulates ==
    IntervalInv /\ [Next]_vars =>
        [Register!Next]_<<IF spc = "refill" THEN d ELSE chan, ticker>>
<1> DEFINE slot == IF spc = "refill" THEN d ELSE chan
<1> SUFFICES ASSUME IntervalInv, [Next]_vars
             PROVE  Register!Next \/ (slot' = slot /\ ticker' = ticker)
    OBVIOUS
<1> USE EmptyAssumption DEF IntervalInv, Reported, Clamped, setter, loop
<1>1. ASSUME NEW n \in Requests, SetCall(n) PROVE slot' = slot /\ ticker' = ticker
    BY <1>1 DEF SetCall
<1>2. CASE SetSelect
    <2>1. CASE chan = Empty
        <3>1. Register!Set(d) /\ d \in Accepted
            BY <1>2, <2>1 DEF SetSelect, Return, Register!Set
        <3> QED
            BY <3>1 DEF Register!Next
    <2>2. CASE chan # Empty
        BY <1>2, <2>2 DEF SetSelect
    <2> QED
        BY <2>1, <2>2
<1>3. CASE SetDrain
    <2>1. Register!Set(d) /\ d \in Accepted
        BY <1>3 DEF SetDrain, Register!Set
    <2> QED
        BY <2>1 DEF Register!Next
<1>4. CASE SetRefill
    BY <1>4 DEF SetRefill, Return
<1>5. CASE LoopStart \/ LoopSent \/ LoopTick \/ LoopDone
    BY <1>5 DEF LoopStart, LoopSent, LoopTick, LoopDone
<1>6. CASE LoopReceive
    <2>1. Register!Take
        BY <1>6 DEF LoopReceive, Register!Take
    <2> QED
        BY <2>1 DEF Register!Next
<1>7. CASE UNCHANGED vars
    BY <1>7 DEF vars
<1> QED
    BY <1>1, <1>2, <1>3, <1>4, <1>5, <1>6, <1>7 DEF Next, SetStep, LoopStep

(* The hand-over of the interval is linearizable: it implements the register *)
(* of IntervalRegister, for every word size and every set of requests.       *)
THEOREM IntervalRegisterImplemented == Spec => OverwritesAtomically
<1>1. Init => Register!Init
    BY DEF Init, Register!Init
<1> QED
    BY <1>1, IntervalInvariant, IntervalSimulates, PTL
    DEF Spec, OverwritesAtomically, Register!Spec
=============================================================================
