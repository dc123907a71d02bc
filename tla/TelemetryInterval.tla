-------------------------- MODULE TelemetryInterval --------------------------
(***************************************************************************)
(* How a telemetry.set_interval command reaches the running telemetry loop  *)
(* (internal/publisher): the dispatcher's goroutine calls                   *)
(* SetTelemetryInterval, telemetryLoop receives from the channel of         *)
(* capacity 1, and the two interleave at every channel operation.           *)
(*                                                                          *)
(* A Duration is an integer of one machine word: seconds are multiplied by  *)
(* Second modulo Word, and the upper half of the words is negative.         *)
(***************************************************************************)
EXTENDS Integers

CONSTANTS
    Word,        \* number of values of an int64
    Second,      \* time.Second in Durations
    Requests,    \* positive interval_s values the platform may ask for
    Configured,  \* cfg.TelemetryInterval, as a Duration
    Empty        \* nothing in the channel

ASSUME WordAssumption ==
    /\ Word \in Nat \ {0}
    /\ Second \in Nat \ {0}
    /\ Requests \subseteq Nat \ {0}
ASSUME ConfiguredAssumption == Configured \in Int
ASSUME EmptyAssumption == Empty \notin Int

VARIABLES
    chan,    \* telemetryIntervalCh
    spc,     \* where SetTelemetryInterval is; "idle" outside it
    d,       \* its argument, then the clamped value
    lastSet, \* the value its last return reported
    lpc,     \* where telemetryLoop is
    ticker   \* period of the loop's ticker

setter == <<spc, d, lastSet>>
loop   == <<lpc, ticker>>
vars   == <<chan, spc, d, lastSet, lpc, ticker>>

(* Two's complement. *)
Wrap(x) == LET w == x % Word IN IF 2 * w >= Word THEN w - Word ELSE w

(* time.Duration(p.IntervalS) * time.Second. *)
Requested(n) == Wrap(n * Second)

(* Seeded fault: the clamp is left out. *)
NoClamp(x) == x

minTelemetryInterval == Second

Clamp(x) == IF x < minTelemetryInterval THEN minTelemetryInterval ELSE x

(* The ticker before the loop runs stands for the configured interval; a     *)
(* value <= 0 is replaced by 30 s.                                           *)
Initial == IF Configured <= 0 THEN 30 * Second ELSE Configured

(* Every value that goes through the channel is a Duration, and the loop     *)
(* resets its ticker to one only when it really received one.                *)
TypeOK ==
    /\ chan \in Int \cup {Empty}
    /\ spc \in {"idle", "select", "drain", "refill"}
    /\ d \in Int
    /\ lastSet \in Int
    /\ lpc \in {"off", "send", "select", "done"}
    /\ ticker \in Int

Init ==
    /\ chan = Empty
    /\ spc = "idle"
    /\ d = Initial
    /\ lastSet = Initial
    /\ lpc = "off"
    /\ ticker = Initial

----------------------------------------------------------------------------
(* The dispatcher's goroutine. *)
SetCall(n) ==
    /\ spc = "idle"
    /\ d' = Clamp(Requested(n))
    /\ spc' = "select"
    /\ UNCHANGED <<chan, lastSet, loop>>

Return ==
    /\ spc' = "idle"
    /\ lastSet' = d
    /\ UNCHANGED d

(* Seeded fault: a pending update is kept and the new value dropped. *)
SetSelectDrops ==
    /\ spc = "select"
    /\ chan' = IF chan = Empty THEN d ELSE chan
    /\ Return
    /\ UNCHANGED loop

(* select: send when there is room, else fall into default. *)
SetSelect ==
    /\ spc = "select"
    /\ \/ /\ chan = Empty
          /\ chan' = d
          /\ Return
       \/ /\ chan # Empty
          /\ spc' = "drain"
          /\ UNCHANGED <<chan, d, lastSet>>
    /\ UNCHANGED loop

(* Seeded fault: the pending value is looked at and left in the channel. *)
SetDrainPeek ==
    /\ spc = "drain"
    /\ chan # Empty
    /\ spc' = "refill"
    /\ UNCHANGED <<chan, d, lastSet, loop>>

(* <-p.telemetryIntervalCh: blocks while the channel is empty. *)
SetDrain ==
    /\ spc = "drain"
    /\ chan # Empty
    /\ chan' = Empty
    /\ spc' = "refill"
    /\ UNCHANGED <<d, lastSet, loop>>

SetRefill ==
    /\ spc = "refill"
    /\ chan = Empty
    /\ chan' = d
    /\ Return
    /\ UNCHANGED loop

----------------------------------------------------------------------------
(* The telemetry goroutine: started by Start, it sends once, then selects.   *)
LoopStart ==
    /\ lpc = "off"
    /\ lpc' = "send"
    /\ UNCHANGED <<chan, setter, ticker>>

(* sendTelemetry: its errors are logged only. *)
LoopSent ==
    /\ lpc = "send"
    /\ lpc' = "select"
    /\ UNCHANGED <<chan, setter, ticker>>

(* Seeded faults: a receive that does not wait; the ticker keeps its period. *)
LoopReceiveEmpty ==
    /\ lpc = "select"
    /\ ticker' = chan
    /\ chan' = Empty
    /\ lpc' = "send"
    /\ UNCHANGED setter

LoopReceiveNoReset ==
    /\ lpc = "select"
    /\ chan # Empty
    /\ chan' = Empty
    /\ lpc' = "send"
    /\ UNCHANGED <<setter, ticker>>

LoopReceive ==
    /\ lpc = "select"
    /\ chan # Empty
    /\ ticker' = chan
    /\ chan' = Empty
    /\ lpc' = "send"
    /\ UNCHANGED setter

LoopTick ==
    /\ lpc = "select"
    /\ lpc' = "send"
    /\ UNCHANGED <<chan, setter, ticker>>

(* ctx.Done() *)
LoopDone ==
    /\ lpc = "select"
    /\ lpc' = "done"
    /\ UNCHANGED <<chan, setter, ticker>>

SetStep == SetSelect \/ SetDrain \/ SetRefill
LoopStep == LoopStart \/ LoopSent \/ LoopReceive \/ LoopTick

Next == (\E n \in Requests : SetCall(n)) \/ SetStep \/ LoopStep \/ LoopDone

(* Goroutines run; a select that finds several cases ready picks one at      *)
(* random, so a channel that stays ready is served in the end.               *)
Spec ==
    /\ Init
    /\ [][Next]_vars
    /\ WF_vars(SetStep)
    /\ WF_vars(LoopStart \/ LoopSent)
    /\ SF_vars(LoopReceive)

----------------------------------------------------------------------------
(* Whatever the interleaving, no stale interval survives: once               *)
(* SetTelemetryInterval has returned d to the platform, d is what waits in   *)
(* the channel, or already the period of the ticker.                         *)
NewestWins ==
    spc = "idle" => lastSet = (IF chan = Empty THEN ticker ELSE chan)

(* ticker.Reset panics on a period that is not positive, which would end the *)
(* agent: no request, overflowing or not, gets one to the ticker, and every  *)
(* queued one is at least the minimum.                                       *)
TickerPositive ==
    ticker > 0 /\ (chan # Empty => chan >= minTelemetryInterval)

Accepted == {Clamp(Requested(n)) : n \in Requests}

Register == INSTANCE IntervalRegister
            WITH slot <- IF spc = "refill" THEN d ELSE chan, active <- ticker

(* The two goroutines together implement a slot that is overwritten in one   *)
(* step, although SetTelemetryInterval needs up to three channel operations  *)
(* between which the loop may receive.  The value counts as set when it is   *)
(* sent, or when the one it replaces is drained.                             *)
OverwritesAtomically == Register!Spec

(* An interval that was accepted takes effect, unless it is superseded or    *)
(* the agent shuts down.                                                     *)
TakesEffect ==
    \A x \in Accepted :
        (spc = "idle" /\ chan = x) ~> (ticker = x \/ spc # "idle" \/ lpc = "done")
=============================================================================
