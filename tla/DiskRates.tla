----------------------------- MODULE DiskRates -----------------------------
(***************************************************************************)
(* The disk I/O rates of internal/modules/system: Module keeps the counters *)
(* of the previous GetDisk call, and two goroutines call it, the telemetry  *)
(* loop (GetMetrics at every tick) and the command callback (system.metrics *)
(* or system.disk).  mu protects the exchange of the stored counters; the  *)
(* clock and the counters are read before it is taken.                      *)
(*                                                                          *)
(* The five counters of a device grow and are subtracted alike: one stands  *)
(* for them.  Its value is kept unwrapped (n, with gen, the device's        *)
(* incarnation, as history); the code subtracts in uint64.  The clock is    *)
(* Go's monotonic one.  Memory, CPU and network figures are read and        *)
(* forwarded; what matters of them is that each can fail.                   *)
(***************************************************************************)
EXTENDS Integers

CONSTANTS
    Callers,     \* goroutines that share the Module
    Metrics,     \* those that call GetMetrics; the others call GetDisk
    Devices,     \* block devices that can carry a mounted file system
    Word,        \* number of values of a uint64
    Nil,         \* a nil map, and io omitted from an entry
    MaxTime, MaxCount, MaxGen   \* bounds: clock, counter, times a device is attached

ASSUME WordAssumption == Word \in Nat \ {0}
ASSUME BoundAssumption == MaxTime \in Nat /\ MaxCount \in Nat /\ MaxGen \in Nat

VARIABLES
    clock,
    here,      \* devices that are attached
    count,     \* count[d].n: the kernel's counter, count[d].gen: of which incarnation
    prevIO,    \* Module.prevIO
    prevIOAt,  \* Module.prevIOAt, 0 the zero Time
    pc,        \* where each caller is
    parts,     \* the partitions GetDisk found
    now,       \* its local now
    io,        \* its local ioCounters, read some time after now
    report,    \* history: what GetDisk reported, if it returned in the last step
    raced,     \* history: another caller exchanged the counters since it read its own
    clean,     \* history: no exchange so far was raced
    total      \* history: what the reports add up to for the first device of a name

world == <<clock, here, count>>
module == <<prevIO, prevIOAt>>
local == <<parts, now, io>>
history == <<raced, clean, total>>
vars == <<world, module, pc, local, report, history>>

NoRates == [d \in {} |-> Nil]
NoReport == [rates |-> NoRates, from |-> Nil, to |-> Nil, raced |-> FALSE]

Init ==
    /\ clock = 1
    /\ here = Devices
    /\ count = [d \in Devices |-> [n |-> 0, gen |-> 0]]
    /\ prevIO = Nil
    /\ prevIOAt = 0
    /\ pc = [c \in Callers |-> "idle"]
    /\ parts = [c \in Callers |-> {}]
    /\ now = [c \in Callers |-> 0]
    /\ io = [c \in Callers |-> Nil]
    /\ report = NoReport
    /\ raced = [c \in Callers |-> FALSE]
    /\ clean = TRUE
    /\ total = [d \in Devices |-> 0]

At(c, p) == pc[c] = p
Goto(c, p) == pc' = [pc EXCEPT ![c] = p]
Quiet == report' = NoReport

----------------------------------------------------------------------------
(* The box: time passes, devices work, are detached and attached again.      *)
Tick ==
    /\ clock < MaxTime
    /\ clock' = clock + 1
    /\ Quiet
    /\ UNCHANGED <<here, count, module, pc, local, history>>

Work(d) ==
    /\ d \in here
    /\ count[d].n < MaxCount
    /\ count' = [count EXCEPT ![d].n = @ + 1]
    /\ Quiet
    /\ UNCHANGED <<clock, here, module, pc, local, history>>

Detach(d) ==
    /\ d \in here
    /\ here' = here \ {d}
    /\ Quiet
    /\ UNCHANGED <<clock, count, module, pc, local, history>>

(* Another volume under the old name: its counters start at zero. *)
Attach(d) ==
    /\ d \notin here
    /\ count[d].gen < MaxGen
    /\ here' = here \cup {d}
    /\ count' = [count EXCEPT ![d] = [n |-> 0, gen |-> @.gen + 1]]
    /\ Quiet
    /\ UNCHANGED <<clock, module, pc, local, history>>

----------------------------------------------------------------------------
(* A call.  GetMetrics first reads CPU (for half a second) and memory; an    *)
(* error there, or in the list of partitions, ends it with nothing changed.  *)
Call(c) ==
    /\ At(c, "idle")
    /\ Goto(c, IF c \in Metrics THEN "cpu" ELSE "disk")
    /\ Quiet
    /\ UNCHANGED <<world, module, local, history>>

GetCPUAndMemory(c) ==
    /\ At(c, "cpu")
    /\ Goto(c, "idle") \/ Goto(c, "disk")
    /\ Quiet
    /\ UNCHANGED <<world, module, local, history>>

(* disk.Partitions, then time.Now(). *)
GetDisk(c) ==
    /\ At(c, "disk")
    /\ \/ /\ parts' = [parts EXCEPT ![c] = here]
          /\ now' = [now EXCEPT ![c] = clock]
          /\ Goto(c, "counters")
       \/ /\ Goto(c, "idle")
          /\ UNCHANGED <<parts, now>>
    /\ Quiet
    /\ UNCHANGED <<world, module, io, history>>

(* disk.IOCounters; an error leaves a nil map and is not fatal. *)
ReadCounters(c) ==
    /\ At(c, "counters")
    /\ \/ io' = [io EXCEPT ![c] = [d \in here |-> count[d]]]
       \/ io' = [io EXCEPT ![c] = Nil]
    /\ raced' = [raced EXCEPT ![c] = FALSE]
    /\ Goto(c, "swap")
    /\ Quiet
    /\ UNCHANGED <<world, module, parts, now, clean, total>>

(* Seeded fault: operands the wrong way round. *)
DeltaReversed(cur, old) == (old.n - cur.n) % Word

(* cur.X - old.X in uint64. *)
Delta(cur, old) == (cur.n - old.n) % Word

(* What is divided by elapsed in the entry of a device that is in both sets *)
(* of counters.                                                              *)
Rates(shown, cur, old, elapsed) ==
    [d \in shown |->
        IF elapsed > 0 /\ old # Nil /\ cur # Nil /\ d \in DOMAIN cur \cap DOMAIN old
        THEN Delta(cur[d], old[d])
        ELSE Nil]

(* prevAt.IsZero() leaves elapsed at 0. *)
Elapsed(t) == IF prevIOAt = 0 THEN 0 ELSE t - prevIOAt

Added(d, r) ==
    IF d \in DOMAIN r.rates /\ r.rates[d] # Nil /\ r.to[d].gen = 0 THEN r.rates[d] ELSE 0

(* The entries: a partition whose usage cannot be read is left out. *)
Report(c) ==
    \E shown \in SUBSET parts[c] :
        /\ report' = [rates |-> Rates(shown, io[c], prevIO, Elapsed(now[c])),
                      from |-> prevIO, to |-> io[c], raced |-> raced[c]]
        /\ clean' = (clean /\ ~raced[c])
        /\ total' = [d \in Devices |-> IF clean' THEN total[d] + Added(d, report') ELSE total[d]]

(* Whoever has read its counters and waits for the lock is overtaken by c.   *)
Overtake(c) == raced' = [b \in Callers |-> b # c /\ At(b, "swap")]

(* The locals of GetDisk are gone. *)
Return(c) ==
    /\ Goto(c, IF c \in Metrics THEN "network" ELSE "idle")
    /\ parts' = [parts EXCEPT ![c] = {}]
    /\ now' = [now EXCEPT ![c] = 0]
    /\ io' = [io EXCEPT ![c] = Nil]

(* Seeded fault: the counters are compared and not stored. *)
ExchangeOnce(c) ==
    /\ At(c, "swap")
    /\ prevIO' = IF prevIO = Nil THEN io[c] ELSE prevIO
    /\ prevIOAt' = IF prevIO = Nil THEN now[c] ELSE prevIOAt
    /\ Overtake(c)
    /\ Report(c)
    /\ Return(c)
    /\ UNCHANGED world

(* The exchange under the lock, and the entries, which need nothing shared.  *)
Exchange(c) ==
    /\ At(c, "swap")
    /\ prevIO' = io[c]
    /\ prevIOAt' = now[c]
    /\ Overtake(c)
    /\ Report(c)
    /\ Return(c)
    /\ UNCHANGED world

(* The last part of GetMetrics: an error drops the report, after the stored  *)
(* counters have moved on; without one it is sent.                           *)
GetNetwork(c) ==
    /\ At(c, "network")
    /\ Goto(c, "idle")
    /\ Quiet
    /\ UNCHANGED <<world, module, local, history>>

Next ==
    \/ Tick
    \/ \E d \in Devices : Work(d) \/ Detach(d) \/ Attach(d)
    \/ \E c \in Callers :
          \/ Call(c) \/ GetCPUAndMemory(c) \/ GetDisk(c) \/ ReadCounters(c) \/ Exchange(c) \/ GetNetwork(c)

Spec == Init /\ [][Next]_vars
----------------------------------------------------------------------------
(* The devices the report has a rate for. *)
Rated == {d \in DOMAIN report.rates : report.rates[d] # Nil}
From(d) == report.from[d]
To(d) == report.to[d]

(* "I/O rates are calculated as a delta from the previous call": unless      *)
(* another caller overtook this one between its reading of the counters and  *)
(* the lock, or the device was replaced, what is divided is exactly what the *)
(* device did between the two readings.  The uint64 subtraction does not     *)
(* underflow.                                                                *)
RateIsGrowth ==
    \A d \in Rated : ~report.raced /\ From(d).gen = To(d).gen =>
        /\ From(d).n <= To(d).n
        /\ To(d).n - From(d).n < Word => report.rates[d] = To(d).n - From(d).n

(* The telemetry and the commands share one baseline.  As long as no call    *)
(* was overtaken, no I/O of a device shows up in two reports, also when      *)
(* reports are dropped, reads fail and partitions are left out.              *)
NeverCountedTwice ==
    clean => \A d \in Devices : count[d].gen = 0 => total[d] <= count[d].n
=============================================================================
