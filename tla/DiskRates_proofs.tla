-------------------------- MODULE DiskRates_proofs --------------------------
(* Proofs about DiskRates, for any number of goroutines and devices, any     *)
(* word size, and any number of calls, failed reads and replaced devices.    *)
EXTENDS DiskRates, TLAPS

(* What is known of a set of counters that is not nil. *)
Counter(k) == k.n \in Nat /\ k.gen \in Nat
IsReading(r) == r # Nil => \A d \in DOMAIN r : d \in Devices /\ Counter(r[d])

TypeInv ==
    /\ clock \in Nat \ {0}
    /\ here \subseteq Devices
    /\ count \in [Devices -> [n : Nat, gen : Nat]]
    /\ total \in [Devices -> Nat]
    /\ prevIOAt \in Nat
    /\ IsReading(prevIO)
    /\ DOMAIN pc = Callers /\ DOMAIN io = Callers /\ DOMAIN now = Callers /\ DOMAIN raced = Callers
    /\ \A c \in Callers : now[c] \in Nat /\ IsReading(io[c])

(* A value of a device's counter that was read before another one. *)
Older(a, b) == a.gen < b.gen \/ (a.gen = b.gen /\ a.n <= b.n)

(* Counters that were read are not ahead of the kernel's, and the stored     *)
(* ones not ahead of those of a caller that nobody overtook.                 *)
Waiting(c) == pc[c] = "swap" /\ io[c] # Nil
Current(c) == Waiting(c) /\ ~raced[c]

Ordered ==
    /\ prevIO # Nil => \A d \in DOMAIN prevIO : Older(prevIO[d], count[d])
    /\ \A c \in Callers : Waiting(c) => \A d \in DOMAIN io[c] :
          /\ Older(io[c][d], count[d])
          /\ ~raced[c] /\ prevIO # Nil /\ d \in DOMAIN prevIO =>
                Older(prevIO[d], io[c][d])

(* What was counted for the first device of a name is within every reading   *)
(* that the next delta can be taken from.                                    *)
Counted ==
    clean => \A d \in Devices :
        /\ count[d].gen = 0 => total[d] <= count[d].n
        /\ prevIO # Nil /\ d \in DOMAIN prevIO /\ prevIO[d].gen = 0 =>
              total[d] <= prevIO[d].n
        /\ \A c \in Callers : Current(c) /\ d \in DOMAIN io[c] /\ io[c][d].gen = 0 =>
              total[d] <= io[c][d].n

RateInv == TypeInv /\ Ordered /\ Counted

USE WordAssumption, BoundAssumption

(* The subtraction modulo Word of a reading and an earlier one. *)
LEMMA DeltaFacts ==
    ASSUME NEW cur, NEW old, Counter(cur), Counter(old), old.n <= cur.n
    PROVE  /\ Delta(cur, old) \in Nat
           /\ Delta(cur, old) <= cur.n - old.n
           /\ cur.n - old.n < Word => Delta(cur, old) = cur.n - old.n
<1> DEFINE x == cur.n - old.n
<1>1. x \in Nat
    BY DEF Counter
<1>2. Word \in Nat /\ Word > 0
    OBVIOUS
<1> HIDE DEF x
<1>3. x % Word \in Nat
    BY <1>1, <1>2
<1>4. x % Word <= x
    BY <1>1, <1>2
<1>5. x < Word => x % Word = x
    BY <1>1, <1>2
<1> QED
    BY <1>3, <1>4, <1>5 DEF Delta, x

(* A fresh Module. *)
LEMMA InitRate == Init => RateInv
BY DEF Init, RateInv, TypeInv, Ordered, Counted, Current, Waiting, IsReading

(* The box's own steps: counters grow or start again under a new number.     *)
LEMMA WorldRate ==
    ASSUME RateInv, Tick \/ (\E d \in Devices : Work(d) \/ Detach(d) \/ Attach(d))
    PROVE  RateInv'
<1> USE DEF RateInv, TypeInv, Ordered, Counted, Current, Waiting, IsReading, Counter, Older,
            module, local, history
<1>1. CASE Tick
    BY <1>1 DEF Tick
<1>2. ASSUME NEW d \in Devices, Work(d) PROVE RateInv'
    <2>1. \A e \in Devices : count'[e].gen = count[e].gen /\ count[e].n <= count'[e].n
        BY <1>2 DEF Work
    <2>2. TypeInv'
        BY <1>2 DEF Work
    <2>4. Ordered'
        BY <1>2, <2>1, <2>2 DEF Work
    <2>5. Counted'
        BY <1>2, <2>1, <2>2 DEF Work
    <2> QED
        BY <2>2, <2>4, <2>5
<1>3. ASSUME NEW d \in Devices, Detach(d) PROVE RateInv'
    BY <1>3 DEF Detach
<1>4. ASSUME NEW d \in Devices, Attach(d) PROVE RateInv'
    <2>1. \A e \in Devices : count'[e] = count[e] \/ count'[e].gen = count[e].gen + 1
        BY <1>4 DEF Attach
    <2>2. TypeInv'
        BY <1>4 DEF Attach
    <2>4. Ordered'
        BY <1>4, <2>1, <2>2 DEF Attach
    <2>5. Counted'
        BY <1>4, <2>1, <2>2 DEF Attach
    <2> QED
        BY <2>2, <2>4, <2>5
<1> QED
    BY <1>1, <1>2, <1>3, <1>4

(* The steps of a call before the exchange, and after it. *)
LEMMA LocalRate ==
    ASSUME RateInv, NEW c \in Callers,
           Call(c) \/ GetCPUAndMemory(c) \/ GetDisk(c) \/ GetNetwork(c)
    PROVE  RateInv'
<1> USE DEF RateInv, TypeInv, Ordered, Counted, Current, Waiting, IsReading,
            world, module, local, history, At, Goto
<1>1. CASE Call(c)
    BY <1>1 DEF Call
<1>2. CASE GetCPUAndMemory(c)
    BY <1>2 DEF GetCPUAndMemory
<1>3. CASE GetDisk(c)
    BY <1>3 DEF GetDisk
<1>4. CASE GetNetwork(c)
    BY <1>4 DEF GetNetwork
<1> QED
    BY <1>1, <1>2, <1>3, <1>4

(* The counters as they are now are not behind anything read before. *)
LEMMA ReadRate ==
    ASSUME RateInv, NEW c \in Callers, ReadCounters(c)
    PROVE  RateInv'
<1> USE DEF RateInv, ReadCounters, world, module, At, Goto
<1>1. TypeInv'
    BY DEF TypeInv, IsReading, Counter
<1>3. Ordered'
    BY DEF Ordered, Current, Waiting, TypeInv, Older, IsReading, Counter
<1>4. Counted'
    BY DEF Counted, Current, Waiting, TypeInv
<1> QED
    BY <1>1, <1>3, <1>4

(* What the exchange adds up stays within the counters it stores.            *)
LEMMA ExchangeCounts ==
    ASSUME RateInv, NEW c \in Callers, Exchange(c), NEW d \in Devices, clean'
    PROVE  /\ total'[d] \in Nat
           /\ count[d].gen = 0 => total'[d] <= count[d].n
           /\ io[c] # Nil /\ d \in DOMAIN io[c] /\ io[c][d].gen = 0 =>
                 total'[d] <= io[c][d].n
<1>1. PICK shown \in SUBSET parts[c] :
          /\ report' = [rates |-> Rates(shown, io[c], prevIO, Elapsed(now[c])),
                        from |-> prevIO, to |-> io[c], raced |-> raced[c]]
          /\ clean' = (clean /\ ~raced[c])
          /\ total' = [e \in Devices |-> IF clean' THEN total[e] + Added(e, report') ELSE total[e]]
    BY DEF Exchange, Report
<1>2. clean /\ ~raced[c] /\ pc[c] = "swap"
    BY <1>1 DEF Exchange, At
<1>3. total'[d] = total[d] + Added(d, report')
    BY <1>1
<1>4. total[d] \in Nat /\ Counter(count[d])
    BY DEF RateInv, TypeInv, Counter
<1>5. CASE Added(d, report') = 0
    BY <1>2, <1>3, <1>4, <1>5 DEF RateInv, Counted, Current, Waiting, Ordered, TypeInv
<1>6. CASE Added(d, report') # 0
    <2> DEFINE rates == Rates(shown, io[c], prevIO, Elapsed(now[c]))
    <2>1. report'.rates = rates /\ report'.to = io[c]
        BY <1>1
    <2>2. d \in DOMAIN rates /\ rates[d] # Nil /\ io[c][d].gen = 0
        BY <1>6, <2>1 DEF Added
    <2>3. /\ prevIO # Nil /\ io[c] # Nil
          /\ d \in DOMAIN io[c] /\ d \in DOMAIN prevIO
          /\ rates[d] = Delta(io[c][d], prevIO[d])
        BY <2>2 DEF Rates
    <2>4. Counter(io[c][d]) /\ Counter(prevIO[d])
        BY <2>3 DEF RateInv, TypeInv, IsReading
    <2>5. Older(prevIO[d], io[c][d]) /\ Older(io[c][d], count[d])
        BY <1>2, <2>3 DEF RateInv, Ordered, Current, Waiting
    <2>6. prevIO[d].gen = 0 /\ prevIO[d].n <= io[c][d].n
        BY <2>2, <2>4, <2>5 DEF Older, Counter
    <2>7. total[d] <= prevIO[d].n
        BY <1>2, <2>3, <2>6 DEF RateInv, Counted
    <2>8. /\ Delta(io[c][d], prevIO[d]) \in Nat
          /\ Delta(io[c][d], prevIO[d]) <= io[c][d].n - prevIO[d].n
        BY <2>4, <2>6, DeltaFacts
    <2>9. Added(d, report') = Delta(io[c][d], prevIO[d])
        BY <1>6, <2>1, <2>3 DEF Added
    <2>10. total'[d] \in Nat /\ total'[d] <= io[c][d].n
        BY <1>3, <1>4, <2>4, <2>7, <2>8, <2>9 DEF Counter
    <2>11. count[d].gen = 0 => io[c][d].n <= count[d].n
        BY <1>4, <2>2, <2>4, <2>5 DEF Older, Counter
    <2> QED
        BY <1>4, <2>4, <2>10, <2>11 DEF Counter
<1> QED
    BY <1>5, <1>6

(* The exchange makes every caller that waits for the lock an overtaken one. *)
LEMMA ExchangeRate ==
    ASSUME RateInv, NEW c \in Callers, Exchange(c)
    PROVE  RateInv'
<1>0. /\ UNCHANGED <<clock, here, count>>
      /\ prevIO' = io[c] /\ prevIOAt' = now[c]
      /\ pc' = [pc EXCEPT ![c] = IF c \in Metrics THEN "network" ELSE "idle"]
      /\ now' = [now EXCEPT ![c] = 0]
      /\ io' = [io EXCEPT ![c] = Nil]
      /\ raced' = [b \in Callers |-> b # c /\ pc[b] = "swap"]
      /\ pc[c] = "swap"
    BY DEF Exchange, Return, Overtake, At, Goto, world
<1>1. \A b \in Callers : ~Current(b)'
    BY <1>0 DEF Current, Waiting, RateInv, TypeInv
<1>2. total' \in [Devices -> Nat]
    <2>1. total' = [e \in Devices |-> IF clean' THEN total[e] + Added(e, report') ELSE total[e]]
        BY DEF Exchange, Report
    <2>2. ASSUME NEW d \in Devices PROVE total'[d] \in Nat
        <3>1. CASE clean'
            BY <3>1, ExchangeCounts
        <3>2. CASE ~clean'
            BY <2>1, <3>2 DEF RateInv, TypeInv
        <3> QED
            BY <3>1, <3>2
    <2> QED
        BY <2>1, <2>2
<1>3. TypeInv'
    BY <1>0, <1>2 DEF RateInv, TypeInv, IsReading
<1>5. Ordered'
    <2>1. ASSUME io[c] # Nil, NEW d \in DOMAIN io[c] PROVE Older(io[c][d], count[d])
        BY <1>0, <2>1 DEF RateInv, Ordered, Waiting
    <2>2. ASSUME NEW b \in Callers, Waiting(b)'
          PROVE  raced'[b] /\ io'[b] = io[b] /\ Waiting(b)
        BY <1>0, <2>2 DEF Waiting, RateInv, TypeInv
    <2>3. ASSUME NEW b \in Callers, Waiting(b)', NEW d \in DOMAIN io'[b]
          PROVE  Older(io[b][d], count[d])
        BY <2>2, <2>3 DEF RateInv, Ordered
    <2> QED
        BY <1>0, <2>1, <2>2, <2>3 DEF Ordered
<1>6. Counted'
    BY <1>0, <1>1, ExchangeCounts DEF Counted
<1> QED
    BY <1>3, <1>5, <1>6 DEF RateInv

(* One step of the box or of a caller. *)
LEMMA NextRate == RateInv /\ [Next]_vars => RateInv'
<1> SUFFICES ASSUME RateInv, [Next]_vars PROVE RateInv'
    OBVIOUS
<1>1. CASE UNCHANGED vars
    BY <1>1 DEF vars, world, module, local, history, RateInv, TypeInv, Ordered,
       Counted, Current, Waiting, IsReading
<1> QED
    BY <1>1, WorldRate, LocalRate, ReadRate, ExchangeRate DEF Next

(* The inductive invariant. *)
THEOREM RateInvariant == Spec => []RateInv
BY InitRate, NextRate, PTL DEF Spec

----------------------------------------------------------------------------
(* Only the exchange under the lock makes a report, of the caller's counters *)
(* and the stored ones.                                                      *)
LEMMA ReportStep ==
    ASSUME RateInv, Next
    PROVE  \/ report' = NoReport
           \/ \E c \in Callers :
                 /\ Waiting(c) \/ (pc[c] = "swap" /\ io[c] = Nil)
                 /\ \E shown \in SUBSET parts[c] :
                       report' = [rates |-> Rates(shown, io[c], prevIO, Elapsed(now[c])),
                                  from |-> prevIO, to |-> io[c], raced |-> raced[c]]
BY DEF Next, Tick, Work, Detach, Attach, Call, GetCPUAndMemory, GetDisk, ReadCounters, GetNetwork,
   Exchange, Report, Quiet, At, Waiting

(* A report's rates are right at the step that makes it, and no other step   *)
(* leaves one.                                                               *)
LEMMA ReportSound == RateInv /\ [Next]_vars /\ RateIsGrowth => RateIsGrowth'
<1> SUFFICES ASSUME RateInv, [Next]_vars, RateIsGrowth
             PROVE  RateIsGrowth'
    OBVIOUS
<1>1. CASE UNCHANGED vars
    BY <1>1 DEF vars, RateIsGrowth, Rated, From, To
<1>2. CASE report' = NoReport
    BY <1>2 DEF NoReport, NoRates, RateIsGrowth, Rated
<1>3. ASSUME NEW c \in Callers, pc[c] = "swap", NEW shown \in SUBSET parts[c],
             report' = [rates |-> Rates(shown, io[c], prevIO, Elapsed(now[c])),
                        from |-> prevIO, to |-> io[c], raced |-> raced[c]]
      PROVE  RateIsGrowth'
    <2> DEFINE rates == Rates(shown, io[c], prevIO, Elapsed(now[c]))
    <2>1. /\ report'.rates = rates /\ report'.from = prevIO
          /\ report'.to = io[c] /\ report'.raced = raced[c]
        BY <1>3
    <2>2. ASSUME NEW d \in Rated'
          PROVE  /\ prevIO # Nil /\ io[c] # Nil
                 /\ d \in DOMAIN io[c] /\ d \in DOMAIN prevIO
                 /\ rates[d] = Delta(io[c][d], prevIO[d])
        BY <2>1, <2>2 DEF Rated, Rates
    <2>3. RateIsGrowth'
        <3> SUFFICES ASSUME NEW d \in Rated', ~raced[c],
                            prevIO[d].gen = io[c][d].gen
                     PROVE  /\ prevIO[d].n <= io[c][d].n
                            /\ io[c][d].n - prevIO[d].n < Word =>
                                  rates[d] = io[c][d].n - prevIO[d].n
            BY <2>1 DEF RateIsGrowth, From, To
        <3>1. Counter(io[c][d]) /\ Counter(prevIO[d])
            BY <2>2 DEF RateInv, TypeInv, IsReading
        <3>2. Older(prevIO[d], io[c][d])
            BY <1>3, <2>2 DEF RateInv, Ordered, Waiting
        <3>3. prevIO[d].n <= io[c][d].n
            BY <3>1, <3>2 DEF Older, Counter
        <3> QED
            BY <2>2, <3>1, <3>3, DeltaFacts
    <2> QED
        BY <2>3
<1> QED
    BY <1>1, <1>2, <1>3, ReportStep DEF Waiting

(* For any number of goroutines: a rate is what the device did between the   *)
(* two readings, and no subtraction underflows, unless the caller was        *)
(* overtaken between its reading and the lock.                               *)
THEOREM DiskRateIsGrowth == Spec => []RateIsGrowth
<1>1. Init => RateIsGrowth
    BY DEF Init, NoReport, NoRates, RateIsGrowth, Rated
<1> QED
    BY <1>1, RateInvariant, ReportSound, PTL DEF Spec

(* As long as no call was overtaken, nothing is reported twice. *)
THEOREM DiskNeverCountedTwice == Spec => []NeverCountedTwice
<1>1. RateInv => NeverCountedTwice
    BY DEF RateInv, Counted, NeverCountedTwice
<1> QED
    BY <1>1, RateInvariant, PTL
=============================================================================
