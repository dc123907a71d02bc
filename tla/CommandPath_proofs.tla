------------------------- MODULE CommandPath_proofs -------------------------
(***************************************************************************)
(* Proofs about CommandPath, for any set of messages and operations, any    *)
(* number of sends, restarts and disconnects, and queues of any size.       *)
(***************************************************************************)
EXTENDS CommandPath, FiniteSetTheorems, TLAPS

(* What the library holds for the connection. *)
Envelopes ==
    [msg : Msgs \cup {NoMsg}, status : {"none", "completed", "failed", "rejected"},
     success : BOOLEAN, to : {m.reply : m \in Msgs} \cup {Evt}]

(* A result, wherever it is, tells the truth as far as StatusTruthful goes; a *)
(* message that is rejected once is rejected always.  e is what has had an   *)
(* effect.                                                                   *)
Sound(e, r) ==
    /\ r.msg \in Msgs
    /\ r.status = "completed" /\ r.success => e[r.msg] > 0
    /\ r.status = "rejected" => Rejected(r.msg)

(* The callback has come past the checks before anything has an effect. *)
Checked ==
    /\ hpc \in {"idle", "dispatch", "job", "lost", "call", "publish"}
    /\ hpc # "idle" => cur \in Msgs /\ cur.form # "garbage"
    /\ hpc \in {"job", "lost", "call"} => ~Rejected(cur)
    /\ hpc = "publish" =>
          /\ status \in {"completed", "failed", "rejected"} /\ success \in BOOLEAN
          /\ status = "completed" /\ success => effects[cur] > 0
          /\ status = "rejected" => Rejected(cur)

EffectsChecked ==
    /\ effects \in [Msgs -> Nat]
    /\ \A m \in Msgs : effects[m] > 0 => ~Rejected(m) /\ m.form # "garbage"

PathInv ==
    /\ inbox \in Seq(Msgs)
    /\ buf \in Seq(Envelopes)
    /\ \A k \in DOMAIN buf : buf[k] = Event \/ Sound(effects, buf[k])
    /\ \A a \in answers : Sound(effects, a)
    /\ Checked
    /\ EffectsChecked

(* No message and no result is anywhere at first. *)
LEMMA InitPath == Init => PathInv
BY DEF Init, PathInv, Checked, EffectsChecked

(* effects[cur] has grown by k, by a step of the callback past its checks. *)
LEMMA EffectStep ==
    ASSUME PathInv, NEW k \in {0, 1}, Effect(k), cur \in Msgs,
           ~Rejected(cur), cur.form # "garbage"
    PROVE  /\ EffectsChecked'
           /\ effects'[cur] = effects[cur] + k
           /\ \A m \in Msgs : effects'[m] >= effects[m]
BY DEF PathInv, EffectsChecked, Effect, Rejected

(* Every step: effects only grow, and only for messages that may run. *)
LEMMA EffectsGrow ==
    ASSUME PathInv, [Next]_vars
    PROVE  EffectsChecked' /\ \A m \in Msgs : effects'[m] >= effects[m]
<1>1. CASE UNCHANGED effects
    BY <1>1 DEF PathInv, EffectsChecked, Rejected
<1> USE EffectStep DEF PathInv, Checked
<1>2. CASE Exit
    <2>1. CASE hpc \in {"dispatch", "job"} /\ Runs(cur) /\ Effect(1)
        BY <2>1 DEF Runs
    <2> QED
        BY <1>1, <1>2, <2>1 DEF Exit
<1>3. CASE RunModule
    BY <1>3 DEF RunModule, Runs
<1>4. CASE Announce
    BY <1>4 DEF Announce
<1>5. CASE RunUnsuccessful
    BY <1>5 DEF RunUnsuccessful, Runs
<1>6. CASE JobRemoved
    BY <1>6 DEF JobRemoved
<1>7. CASE BusLost
    BY <1>7 DEF BusLost
<1>8. CASE SetIntervalReturns
    BY <1>8 DEF SetIntervalReturns
<1> QED
    BY <1>1, <1>2, <1>3, <1>4, <1>5, <1>6, <1>7, <1>8
    DEF Next, Handler, Send, Flush, ConnectionChange, Restart, PublishEvent, Receive,
        Reject, Refuse, QueueJob, CallSetInterval, PublishResult, Telemetry, vars

(* What was true when it was written stays true. *)
LEMMA StaysSound ==
    ASSUME PathInv, [Next]_vars
    PROVE  \A r : Sound(effects, r) => Sound(effects', r)
<1>1. \A m \in Msgs : effects'[m] >= effects[m] /\ effects[m] \in Nat /\ effects'[m] \in Nat
    BY EffectsGrow DEF PathInv, EffectsChecked
<1> QED
    BY <1>1 DEF Sound

(* The queue of messages holds messages. *)
LEMMA InboxStep ==
    ASSUME PathInv, [Next]_vars
    PROVE  inbox' \in Seq(Msgs)
<1> USE DEF PathInv
<1>1. ASSUME NEW m \in Msgs, Send(m) PROVE inbox' \in Seq(Msgs)
    BY <1>1 DEF Send
<1>2. CASE Receive
    BY <1>2 DEF Receive
<1>3. CASE Exit
    BY <1>3 DEF Exit
<1> QED
    BY <1>1, <1>2, <1>3
    DEF Next, Handler, Flush, ConnectionChange, Restart, PublishEvent, Reject, Refuse,
        RunModule, Announce, RunUnsuccessful, QueueJob, JobRemoved, BusLost,
        CallSetInterval, SetIntervalReturns, PublishResult, Telemetry, vars

(* The library only adds what is an event or sound, at the end, and only     *)
(* takes from the front.                                                     *)
LEMMA BufStep ==
    ASSUME PathInv, [Next]_vars
    PROVE  /\ buf' \in Seq(Envelopes)
           /\ \A k \in DOMAIN buf' : buf'[k] = Event \/ Sound(effects', buf'[k])
<1> DEFINE Holds(q) == /\ q \in Seq(Envelopes)
                       /\ \A k \in DOMAIN q : q[k] = Event \/ Sound(effects', q[k])
<1>a. Holds(buf)
    BY StaysSound DEF PathInv
<1>b. ASSUME NEW r \in Envelopes, r = Event \/ Sound(effects', r)
      PROVE  Holds(Append(buf, r)) /\ Holds(Queued(r))
    <2>1. /\ Append(buf, r) \in Seq(Envelopes)
          /\ DOMAIN Append(buf, r) = 1..Len(buf) + 1 /\ DOMAIN buf = 1..Len(buf)
          /\ \A k \in 1..Len(buf) : Append(buf, r)[k] = buf[k]
          /\ Append(buf, r)[Len(buf) + 1] = r
          /\ Len(buf) \in Nat
        BY <1>a, <1>b
    <2>2. \A k \in 1..Len(buf) + 1 : k \in 1..Len(buf) \/ k = Len(buf) + 1
        BY <2>1
    <2> QED
        BY <1>a, <1>b, <2>1, <2>2 DEF Queued
<1>c. Event \in Envelopes
    BY DEF Event, Envelopes
<1>1. CASE UNCHANGED buf
    BY <1>1, <1>a
<1>2. CASE Flush
    BY <1>2, <1>a DEF Flush
<1>3. CASE Exit
    BY <1>3 DEF Exit
<1>4. CASE PublishEvent
    BY <1>4, <1>b, <1>c DEF PublishEvent
<1>5. CASE Announce
    BY <1>5, <1>b, <1>c DEF Announce
<1>6. CASE PublishResult
    <2> DEFINE r == [msg |-> cur, status |-> status, success |-> success, to |-> cur.reply]
    <2>1. r \in Envelopes /\ Sound(effects, r)
        BY <1>6 DEF PublishResult, PathInv, Checked, Sound, Envelopes
    <2>2. Sound(effects', r)
        BY <2>1, StaysSound
    <2> HIDE DEF r
    <2> QED
        BY <1>6, <1>b, <2>1, <2>2 DEF PublishResult, r
<1> QED
    BY <1>1, <1>2, <1>3, <1>4, <1>5, <1>6
    DEF Next, Handler, Send, ConnectionChange, Restart, Receive, Reject, Refuse,
        RunModule, RunUnsuccessful, QueueJob, JobRemoved, BusLost, CallSetInterval,
        SetIntervalReturns, Telemetry, vars

(* The platform gets nothing but the head of the buffer. *)
LEMMA AnswersStep ==
    ASSUME PathInv, [Next]_vars
    PROVE  \A a \in answers' : Sound(effects', a)
<1>1. CASE UNCHANGED answers
    BY <1>1, StaysSound DEF PathInv
<1>2. CASE Flush
    <2>1. Head(buf) = Event \/ Sound(effects, Head(buf))
        <3>1. 1 \in DOMAIN buf /\ Head(buf) = buf[1]
            BY <1>2 DEF Flush, PathInv
        <3> QED
            BY <3>1 DEF PathInv
    <2> QED
        BY <1>2, <2>1, StaysSound DEF Flush, PathInv
<1> QED
    BY <1>1, <1>2
    DEF Next, Handler, Send, ConnectionChange, Exit, Restart, PublishEvent, Receive, Reject,
        Refuse, RunModule, Announce, RunUnsuccessful, QueueJob, JobRemoved, BusLost,
        CallSetInterval, SetIntervalReturns, PublishResult, Telemetry, vars

(* The callback, one step per action that moves it. *)
LEMMA CheckedStep ==
    ASSUME PathInv, [Next]_vars
    PROVE  Checked'
<1>a. \A m \in Msgs : effects'[m] >= effects[m] /\ effects[m] \in Nat /\ effects'[m] \in Nat
    BY EffectsGrow DEF PathInv, EffectsChecked
<1> USE <1>a DEF PathInv, Checked, Result
<1>1. CASE UNCHANGED hvars
    BY <1>1 DEF hvars, Rejected
<1>2. CASE Exit
    BY <1>2 DEF Exit
<1>3. CASE Receive
    <2>1. Head(inbox) \in Msgs
        BY <1>3 DEF Receive
    <2> QED
        BY <1>3, <2>1 DEF Receive, Rejected
<1>4. CASE Reject
    BY <1>4 DEF Reject, Rejected
<1>5. CASE Refuse
    BY <1>5 DEF Refuse
<1>6. CASE RunModule
    <2>1. cur \in Msgs /\ ~Rejected(cur) /\ cur.form # "garbage"
        BY <1>6 DEF RunModule, Runs
    <2>2. CASE status' = "completed" /\ Effect(1)
        BY <1>6, <2>1, <2>2, EffectStep DEF RunModule
    <2>3. CASE status' = "failed"
        BY <1>6, <2>1, <2>3 DEF RunModule
    <2> QED
        BY <1>6, <2>2, <2>3 DEF RunModule
<1>7. CASE Announce
    BY <1>7, EffectStep DEF Announce
<1>8. CASE RunUnsuccessful
    BY <1>8 DEF RunUnsuccessful
<1>9. CASE QueueJob
    BY <1>9 DEF QueueJob, Runs, Rejected
<1>10. CASE JobRemoved
    <2>1. cur \in Msgs /\ ~Rejected(cur) /\ cur.form # "garbage"
        BY <1>10 DEF JobRemoved
    <2>2. CASE success' = TRUE /\ Effect(1)
        BY <1>10, <2>1, <2>2, EffectStep DEF JobRemoved
    <2>3. CASE success' = FALSE
        BY <1>10, <2>1, <2>3 DEF JobRemoved
    <2> QED
        BY <1>10, <2>2, <2>3 DEF JobRemoved
<1>11. CASE BusLost
    BY <1>11 DEF BusLost, Rejected
<1>12. CASE CallSetInterval
    BY <1>12 DEF CallSetInterval, Rejected
<1>13. CASE SetIntervalReturns
    BY <1>13, EffectStep DEF SetIntervalReturns
<1>14. CASE PublishResult
    BY <1>14 DEF PublishResult
<1> QED
    BY <1>1, <1>2, <1>3, <1>4, <1>5, <1>6, <1>7, <1>8, <1>9, <1>10, <1>11, <1>12,
       <1>13, <1>14
    DEF Next, Handler, Send, Flush, ConnectionChange, Restart, PublishEvent, Telemetry, vars

(* The invariant is kept, part by part. *)
LEMMA NextPath == PathInv /\ [Next]_vars => PathInv'
BY EffectsGrow, InboxStep, BufStep, AnswersStep, CheckedStep DEF PathInv

(* The inductive invariant holds in every execution. *)
THEOREM PathInvariant == Spec => []PathInv
BY InitPath, NextPath, PTL DEF Spec

(* Over any number of retries, restarts and lost results, completed with     *)
(* success means an effect, rejected means none, and what is not allowed     *)
(* never has one.                                                            *)
THEOREM CommandStatusTruthful == Spec => []StatusTruthful
<1>1. PathInv => StatusTruthful
    <2> SUFFICES ASSUME PathInv PROVE StatusTruthful
        OBVIOUS
    <2>1. \A r \in Results : Sound(effects, r)
        BY DEF PathInv, Results, ToSet
    <2>2. \A m \in Msgs : effects[m] \in Nat /\ (effects[m] > 0 => ~Rejected(m) /\ m.form # "garbage")
        BY DEF PathInv, EffectsChecked
    <2>3. \A m \in Msgs : effects[m] > 0 => m.op \in AllowedOperations /\ m.form = "ok"
        BY <2>2, MsgAssumption DEF Rejected
    <2> QED
        BY <2>1, <2>2, <2>3 DEF StatusTruthful, Sound
<1> QED
    BY <1>1, PathInvariant, PTL

----------------------------------------------------------------------------
(* Where in a queue a message stands. *)
Positions(q, m) == {k \in DOMAIN q : q[k] = m}
Copies(q, m) == Cardinality(Positions(q, m))

(* The callback has m in hand and it has not had its effect. *)
InHand(m) == IF cur = m /\ hpc \in {"dispatch", "job", "call"} THEN 1 ELSE 0

(* Every send pays for one effect, which has happened or is still to come    *)
(* from the callback or the queue; lost and rejected messages leave a rest.  *)
Accounted ==
    /\ sent \in [Msgs -> Nat]
    /\ \A m \in Msgs : effects[m] + InHand(m) + Copies(inbox, m) <= sent[m]

(* The copies in a queue can be counted. *)
LEMMA CountFinite ==
    ASSUME NEW q \in Seq(Msgs), NEW m
    PROVE  IsFiniteSet(Positions(q, m)) /\ Copies(q, m) \in Nat
<1>1. IsFiniteSet(1..Len(q)) /\ Positions(q, m) \in SUBSET (1..Len(q))
    BY FS_Interval DEF Positions
<1>2. IsFiniteSet(Positions(q, m))
    BY <1>1, FS_Subset
<1> QED
    BY <1>2, FS_CardinalityType DEF Copies

(* One more message at the end. *)
LEMMA CountAppend ==
    ASSUME NEW q \in Seq(Msgs), NEW n \in Msgs, NEW m
    PROVE  Copies(Append(q, n), m) = Copies(q, m) + (IF n = m THEN 1 ELSE 0)
<1>0. IsFiniteSet(Positions(q, m)) /\ Copies(q, m) \in Nat
    BY CountFinite
<1>1. /\ DOMAIN Append(q, n) = 1..(Len(q) + 1) /\ DOMAIN q = 1..Len(q) /\ Len(q) \in Nat
      /\ \A k \in 1..Len(q) : Append(q, n)[k] = q[k]
      /\ Append(q, n)[Len(q) + 1] = n
    OBVIOUS
<1>2. CASE n = m
    <2>1. Positions(Append(q, n), m) = Positions(q, m) \cup {Len(q) + 1}
        BY <1>1, <1>2 DEF Positions
    <2>2. Len(q) + 1 \notin Positions(q, m)
        BY <1>1 DEF Positions
    <2> QED
        BY <1>0, <1>2, <2>1, <2>2, FS_AddElement DEF Copies
<1>3. CASE n # m
    <2>1. Positions(Append(q, n), m) = Positions(q, m)
        BY <1>1, <1>3 DEF Positions
    <2> QED
        BY <1>0, <1>3, <2>1 DEF Copies
<1> QED
    BY <1>2, <1>3

(* The first message taken away. *)
LEMMA CountTail ==
    ASSUME NEW q \in Seq(Msgs), q # <<>>, NEW m
    PROVE  Copies(Tail(q), m) + (IF Head(q) = m THEN 1 ELSE 0) <= Copies(q, m)
<1> DEFINE S == Positions(q, m) \ {1}
           P == Positions(Tail(q), m)
           f == [j \in S |-> j - 1]
<1>a. Tail(q) \in Seq(Msgs)
    OBVIOUS
<1>0. /\ IsFiniteSet(Positions(q, m)) /\ Copies(q, m) \in Nat
      /\ Copies(Tail(q), m) \in Nat
    BY <1>a, CountFinite
<1>1. /\ DOMAIN q = 1..Len(q) /\ Len(q) \in Nat \ {0} /\ Head(q) = q[1]
      /\ DOMAIN Tail(q) = 1..(Len(q) - 1)
      /\ \A k \in 1..(Len(q) - 1) : Tail(q)[k] = q[k + 1]
    OBVIOUS
<1>2. \A j \in S : j - 1 \in P
    BY <1>1 DEF Positions
<1>3. \A k \in P : k + 1 \in S /\ f[k + 1] = k
    BY <1>1 DEF Positions
<1>4. f \in Surjection(S, P)
    <2>1. f \in [S -> P]
        BY <1>2
    <2>2. \A k \in P : \E j \in S : f[j] = k
        BY <1>3
    <2> QED
        BY <2>1, <2>2 DEF Surjection
<1>5. /\ IsFiniteSet(S)
      /\ Cardinality(S) = IF 1 \in Positions(q, m) THEN Copies(q, m) - 1 ELSE Copies(q, m)
    BY <1>0, FS_RemoveElement DEF Copies
<1> HIDE DEF f, S, P
<1>6. Cardinality(P) <= Cardinality(S)
    BY <1>4, <1>5, FS_Surjection
<1>7. (1 \in Positions(q, m)) <=> (Head(q) = m)
    BY <1>1 DEF Positions
<1> QED
    BY <1>0, <1>5, <1>6, <1>7 DEF Copies, P

(* Nothing was sent, nothing had an effect. *)
LEMMA InitAccounted == Init => Accounted
<1> SUFFICES ASSUME Init PROVE Accounted
    OBVIOUS
<1>1. ASSUME NEW m \in Msgs PROVE effects[m] + InHand(m) + Copies(inbox, m) <= sent[m]
    <2>1. Positions(<<>>, m) = {}
        BY DEF Positions
    <2>2. Copies(<<>>, m) = 0
        BY <2>1, FS_EmptySet DEF Copies
    <2> QED
        BY <2>2 DEF Init, InHand
<1>2. sent \in [Msgs -> Nat]
    BY DEF Init
<1> QED
    BY <1>1, <1>2 DEF Accounted

(* Each step: a send pays for the copy it queues, the callback takes one     *)
(* copy in hand, and an effect uses up what is in hand.                      *)
LEMMA NextAccounted == PathInv /\ Accounted /\ [Next]_vars => Accounted'
<1> SUFFICES ASSUME PathInv, Accounted, [Next]_vars PROVE Accounted'
    OBVIOUS
<1>a. /\ sent \in [Msgs -> Nat] /\ effects \in [Msgs -> Nat]
      /\ inbox \in Seq(Msgs) /\ Checked
    BY DEF Accounted, PathInv, EffectsChecked
<1>b. \A m \in Msgs : Copies(inbox, m) \in Nat
    BY <1>a, CountFinite
<1>c. \A m \in Msgs : effects[m] + InHand(m) + Copies(inbox, m) <= sent[m]
    BY DEF Accounted
<1>d. \A m \in Msgs : InHand(m) \in {0, 1}
    BY DEF InHand
(* The callback moves on without an effect. *)
<1>e. ASSUME UNCHANGED <<inbox, sent, effects>>, \A m \in Msgs : InHand(m)' \in {0, InHand(m)}
      PROVE  Accounted'
    BY <1>a, <1>b, <1>c, <1>d, <1>e DEF Accounted
(* It has used up what it had in hand. *)
<1>f. ASSUME UNCHANGED <<inbox, sent>>, NEW k \in {0, 1}, Effect(k),
             hpc \in {"dispatch", "job", "call"},
             \A m \in Msgs : InHand(m)' = 0
      PROVE  Accounted'
    <2>1. \A m \in Msgs : effects'[m] <= effects[m] + InHand(m) /\ effects'[m] \in Nat
        BY <1>a, <1>f DEF Effect, InHand
    <2> SUFFICES ASSUME NEW m \in Msgs
                 PROVE  effects'[m] + InHand(m)' + Copies(inbox', m) <= sent'[m]
        BY <1>f, <1>a DEF Accounted
    <2>q. /\ effects[m] \in Nat /\ sent[m] \in Nat /\ Copies(inbox, m) \in Nat
          /\ InHand(m) \in {0, 1}
          /\ effects[m] + InHand(m) + Copies(inbox, m) <= sent[m]
        BY <1>a, <1>b, <1>c, <1>d
    <2> QED
        BY <2>q, <1>f, <2>1
<1>1. ASSUME NEW n \in Msgs, Send(n) PROVE Accounted'
    <2>1. \A m \in Msgs : sent'[m] = sent[m] + (IF m = n THEN 1 ELSE 0)
        BY <1>1, <1>a DEF Send
    <2>2. \A m \in Msgs : /\ Copies(inbox', m) \in Nat
                          /\ Copies(inbox', m) <= Copies(inbox, m) + (IF m = n THEN 1 ELSE 0)
        <3>1. CASE inbox' = inbox
            BY <3>1, <1>b
        <3>2. CASE inbox' = Append(inbox, n)
            BY <3>2, <1>a, <1>b, CountAppend
        <3> QED
            BY <1>1, <3>1, <3>2 DEF Send
    <2>3. /\ sent' \in [Msgs -> Nat]
          /\ \A m \in Msgs : effects'[m] = effects[m] /\ InHand(m)' = InHand(m)
        BY <1>1, <1>a DEF Send, hvars, InHand
    <2> SUFFICES ASSUME NEW m \in Msgs
                 PROVE  effects'[m] + InHand(m)' + Copies(inbox', m) <= sent'[m]
        BY <2>3, <1>a DEF Accounted
    <2>q. /\ effects[m] \in Nat /\ sent[m] \in Nat /\ Copies(inbox, m) \in Nat
          /\ InHand(m) \in {0, 1}
          /\ effects[m] + InHand(m) + Copies(inbox, m) <= sent[m]
        BY <1>a, <1>b, <1>c, <1>d
    <2> QED
        BY <2>q, <2>1, <2>2, <2>3
<1>2. CASE Receive
    <2>1. /\ hpc = "idle" /\ inbox # <<>> /\ inbox' = Tail(inbox) /\ inbox' \in Seq(Msgs)
          /\ sent' = sent /\ effects' = effects
        BY <1>2, <1>a DEF Receive
    <2>2. \A m \in Msgs : InHand(m) = 0 /\ InHand(m)' \in {0, IF Head(inbox) = m THEN 1 ELSE 0}
        BY <1>2, <2>1 DEF Receive, InHand
    <2>3. \A m \in Msgs :
              Copies(inbox', m) + (IF Head(inbox) = m THEN 1 ELSE 0) <= Copies(inbox, m)
        BY <1>a, <2>1, CountTail
    <2>4. \A m \in Msgs : Copies(inbox', m) \in Nat
        BY <2>1, CountFinite
    <2> SUFFICES ASSUME NEW m \in Msgs
                 PROVE  effects'[m] + InHand(m)' + Copies(inbox', m) <= sent'[m]
        BY <2>1, <1>a DEF Accounted
    <2>q. /\ effects[m] \in Nat /\ sent[m] \in Nat /\ Copies(inbox, m) \in Nat
          /\ InHand(m) \in {0, 1}
          /\ effects[m] + InHand(m) + Copies(inbox, m) <= sent[m]
        BY <1>a, <1>b, <1>c, <1>d
    <2>5. /\ Copies(inbox', m) \in Nat
          /\ InHand(m)' \in {0, 1}
          /\ InHand(m)' + Copies(inbox', m) <= Copies(inbox, m)
        <3>1. CASE Head(inbox) = m
            <4>1. InHand(m)' \in {0, 1} /\ Copies(inbox', m) + 1 <= Copies(inbox, m)
                BY <2>2, <2>3, <3>1
            <4> QED
                BY <4>1, <2>4, <2>q
        <3>2. CASE Head(inbox) # m
            <4>1. InHand(m)' = 0 /\ Copies(inbox', m) + 0 <= Copies(inbox, m)
                BY <2>2, <2>3, <3>2
            <4> QED
                BY <4>1, <2>4, <2>q
        <3> QED
            BY <3>1, <3>2
    <2>6. effects'[m] = effects[m] /\ sent'[m] = sent[m]
        BY <2>1
    <2> QED
        BY <2>q, <2>5, <2>6
<1>3. CASE Exit
    <2>1. \A m \in Msgs : InHand(m)' = 0 /\ Copies(inbox', m) = 0
        <3>1. \A m \in Msgs : Positions(<<>>, m) = {}
            BY DEF Positions
        <3>2. \A m \in Msgs : Copies(<<>>, m) = 0
            BY <3>1, FS_EmptySet DEF Copies
        <3> QED
            BY <1>3, <3>2 DEF Exit, InHand
    <2>2. \A m \in Msgs : effects'[m] <= effects[m] + InHand(m) /\ effects'[m] \in Nat
        <3>1. CASE UNCHANGED effects
            BY <3>1, <1>a, <1>d
        <3>2. CASE hpc \in {"dispatch", "job"} /\ Effect(1)
            BY <3>2, <1>a DEF Effect, InHand
        <3> QED
            BY <1>3, <3>1, <3>2 DEF Exit
    <2>3. sent' = sent
        BY <1>3 DEF Exit
    <2> SUFFICES ASSUME NEW m \in Msgs
                 PROVE  effects'[m] + InHand(m)' + Copies(inbox', m) <= sent'[m]
        BY <2>3, <1>a DEF Accounted
    <2>q. /\ effects[m] \in Nat /\ sent[m] \in Nat /\ Copies(inbox, m) \in Nat
          /\ InHand(m) \in {0, 1}
          /\ effects[m] + InHand(m) + Copies(inbox, m) <= sent[m]
        BY <1>a, <1>b, <1>c, <1>d
    <2> QED
        BY <2>q, <2>1, <2>2, <2>3
<1>4. CASE RunModule
    BY <1>4, <1>f DEF RunModule, Result, InHand
<1>5. CASE Announce
    BY <1>5, <1>f DEF Announce, Result, InHand
<1>6. CASE RunUnsuccessful
    BY <1>6, <1>f DEF RunUnsuccessful, Result, InHand
<1>7. CASE JobRemoved
    BY <1>7, <1>f DEF JobRemoved, Result, InHand
<1>8. CASE BusLost
    BY <1>8, <1>f DEF BusLost, InHand
<1>9. CASE SetIntervalReturns
    BY <1>9, <1>f DEF SetIntervalReturns, Result, InHand
<1>10. CASE Reject \/ Refuse \/ QueueJob \/ CallSetInterval \/ PublishResult
    BY <1>10, <1>e DEF Reject, Refuse, QueueJob, CallSetInterval, PublishResult, Result, InHand
<1>11. CASE Flush \/ ConnectionChange \/ Restart \/ PublishEvent \/ Telemetry \/ UNCHANGED vars
    BY <1>11, <1>e DEF Flush, ConnectionChange, Restart, PublishEvent, Telemetry, vars, hvars,
                       InHand
<1> QED
    BY <1>1, <1>2, <1>3, <1>4, <1>5, <1>6, <1>7, <1>8, <1>9, <1>10, <1>11 DEF Next, Handler

(* Without any deduplication, over retries, restarts and crashes in the      *)
(* middle of an operation, no command has its effect more often than the     *)
(* platform sent it.                                                         *)
THEOREM CommandOncePerSend == Spec => []OncePerSend
<1>1. PathInv /\ Accounted => OncePerSend
    <2> SUFFICES ASSUME PathInv, Accounted, NEW m \in Msgs PROVE effects[m] <= sent[m]
        BY DEF OncePerSend
    <2>1. effects[m] \in Nat /\ sent[m] \in Nat /\ InHand(m) \in Nat /\ Copies(inbox, m) \in Nat
        BY CountFinite DEF PathInv, EffectsChecked, Accounted, InHand
    <2> QED
        BY <2>1 DEF Accounted
<1> QED
    BY <1>1, PathInvariant, InitAccounted, NextAccounted, PTL DEF Spec

----------------------------------------------------------------------------
(* The callback and SetTelemetryInterval, which it calls: a message is in     *)
(* hand except when idle, a status only when it is published; and whatever    *)
(* interval_s the platform asks for, the interval hand-over is as sound as in *)
(* TelemetryInterval, also across an exit in its middle.                     *)
Places ==
    /\ alive \in BOOLEAN /\ conn \in BOOLEAN
    /\ Len(inbox) <= InboxMax
    /\ hpc = "idle" <=> cur = NoMsg
    /\ hpc = "publish" <=> status # "none"

HandOver ==
    /\ T!TypeOK
    /\ hpc # "call" => spc = "idle"
    /\ T!TickerPositive
    /\ spc # "idle" => d >= Second
    /\ spc # "refill" => lastSet = (IF chan = Empty THEN ticker ELSE chan)
    /\ spc = "refill" => chan = Empty

(* However interval_s times time.Second wraps, the clamp brings it back. *)
LEMMA ClampedValue ==
    ASSUME NEW n \in Int
    PROVE  T!Clamp(T!Requested(n)) \in Int /\ T!Clamp(T!Requested(n)) >= Second
<1>1. n * Second \in Int
    BY DurationAssumption
<1>2. (n * Second) % Word \in Int
    BY <1>1, DurationAssumption
<1>3. T!Requested(n) \in Int
    BY <1>2, DurationAssumption DEF T!Requested, T!Wrap
<1> QED
    BY <1>3, DurationAssumption DEF T!Clamp, T!minTelemetryInterval

(* The configured interval, or 30 s, is positive. *)
LEMMA InitialInterval == T!Initial \in Int /\ T!Initial > 0
BY DurationAssumption DEF T!Initial

(* Nothing in hand, nothing handed over at first. *)
LEMMA InitHandOver == Init => Places /\ HandOver
<1> SUFFICES ASSUME Init PROVE Places /\ HandOver
    OBVIOUS
<1>1. Places
    BY PathAssumption DEF Init, Places
<1>2. HandOver
    BY InitialInterval DEF Init, HandOver, T!Init, T!TypeOK, T!TickerPositive
<1> QED
    BY <1>1, <1>2

(* Each step moves the callback and its message and status together. *)
LEMMA PlacesStep ==
    ASSUME PathInv, Places, [Next]_vars
    PROVE  Places'
<1>a. NoMsg \notin Msgs /\ InboxMax \in Nat /\ inbox \in Seq(Msgs)
    BY PathAssumption DEF PathInv
<1> USE DEF Places
<1>1. ASSUME NEW m \in Msgs, Send(m) PROVE Places'
    <2>1. Len(inbox') <= InboxMax
        BY <1>1, <1>a DEF Send
    <2> QED
        BY <1>1, <2>1 DEF Send, hvars
<1>2. CASE Receive
    <2>1. Head(inbox) \in Msgs /\ Len(inbox') <= InboxMax
        BY <1>2, <1>a DEF Receive
    <2> QED
        BY <1>2, <1>a, <2>1 DEF Receive
<1>3. CASE Exit
    <2>1. /\ alive' = FALSE /\ conn' = FALSE /\ inbox' = <<>>
          /\ hpc' = "idle" /\ cur' = NoMsg /\ status' = "none"
        BY <1>3, Zenon DEF Exit
    <2>2. Len(inbox') <= InboxMax
        BY <1>a, <2>1
    <2>3. alive' \in BOOLEAN /\ conn' \in BOOLEAN
        BY <2>1, Zenon
    <2>4. (hpc' = "idle" <=> cur' = NoMsg) /\ (hpc' = "publish" <=> status' # "none")
        BY <2>1
    <2> QED
        BY <2>2, <2>3, <2>4, Zenon
<1>4. CASE Reject \/ Refuse \/ RunModule \/ Announce \/ RunUnsuccessful
    BY <1>4 DEF Reject, Refuse, RunModule, Announce, RunUnsuccessful, Result
<1>5. CASE QueueJob \/ JobRemoved \/ BusLost \/ CallSetInterval \/ SetIntervalReturns
    BY <1>5 DEF QueueJob, JobRemoved, BusLost, CallSetInterval, SetIntervalReturns, Result
<1>6. CASE PublishResult
    BY <1>6 DEF PublishResult
<1>7. CASE Flush \/ ConnectionChange \/ Restart \/ PublishEvent \/ Telemetry \/ UNCHANGED vars
    BY <1>7 DEF Flush, ConnectionChange, Restart, PublishEvent, Telemetry, vars, hvars
<1> QED
    BY <1>1, <1>2, <1>3, <1>4, <1>5, <1>6, <1>7 DEF Next, Handler

(* The call, the channel operations and the exit; nothing else matters. *)
LEMMA HandOverStep ==
    ASSUME PathInv, HandOver, [Next]_vars
    PROVE  HandOver'
<1> USE DEF HandOver, T!TypeOK, T!TickerPositive, T!minTelemetryInterval, tvars
<1>1. CASE UNCHANGED tvars /\ (hpc' # hpc => hpc # "call" \/ spc = "idle")
    BY <1>1
<1>2. CASE Exit
    BY <1>2, InitialInterval DEF Exit
<1>3. CASE CallSetInterval
    <2>1. cur.n \in Int
        BY <1>3, MsgAssumption DEF CallSetInterval, PathInv, Checked
    <2>2. T!SetCall(cur.n) /\ hpc' = "call"
        BY <1>3 DEF CallSetInterval
    <2> QED
        BY <2>1, <2>2, ClampedValue DEF T!SetCall, T!loop
<1>4. CASE Telemetry
    <2>0. hpc' = hpc
        BY <1>4 DEF Telemetry, hvars
    <2> USE <2>0, DurationAssumption DEF T!setter, T!loop, T!Return
    <2>1. CASE T!SetSelect
        BY <2>1 DEF T!SetSelect
    <2>2. CASE T!SetDrain
        BY <2>2 DEF T!SetDrain
    <2>3. CASE T!SetRefill
        BY <2>3 DEF T!SetRefill
    <2>4. CASE T!LoopReceive
        BY <2>4 DEF T!LoopReceive
    <2>5. CASE T!LoopStart \/ T!LoopSent \/ T!LoopTick
        BY <2>5 DEF T!LoopStart, T!LoopSent, T!LoopTick
    <2> QED
        BY <1>4, <2>1, <2>2, <2>3, <2>4, <2>5 DEF Telemetry, T!SetStep, T!LoopStep
<1>5. CASE Reject \/ Refuse \/ RunModule \/ Announce \/ RunUnsuccessful
    BY <1>1, <1>5 DEF Reject, Refuse, RunModule, Announce, RunUnsuccessful
<1>6. CASE QueueJob \/ JobRemoved \/ BusLost \/ SetIntervalReturns \/ PublishResult \/ Receive
    BY <1>1, <1>6 DEF QueueJob, JobRemoved, BusLost, SetIntervalReturns, PublishResult, Receive
<1>7. CASE (\E m \in Msgs : Send(m)) \/ Flush \/ ConnectionChange \/ Restart \/ PublishEvent
           \/ UNCHANGED vars
    BY <1>1, <1>7 DEF Send, Flush, ConnectionChange, Restart, PublishEvent, vars, hvars
<1> QED
    BY <1>2, <1>3, <1>4, <1>5, <1>6, <1>7 DEF Next, Handler

(* The invariant of the callback and the interval hand-over together. *)
THEOREM HandOverInvariant == Spec => [](PathInv /\ Places /\ HandOver)
BY PathInvariant, InitHandOver, PlacesStep, HandOverStep, PTL DEF Spec

(* The callback is in one place at a time, holds a status exactly when it is  *)
(* about to publish, and is the only way into SetTelemetryInterval.          *)
THEOREM CommandTypeCorrect == Spec => []TypeOK
<1>1. PathInv /\ Places /\ HandOver => TypeOK
    <2> SUFFICES ASSUME PathInv, Places, HandOver PROVE TypeOK
        OBVIOUS
    <2>1. /\ alive \in BOOLEAN /\ conn \in BOOLEAN
          /\ inbox \in Seq(Msgs) /\ Len(inbox) <= InboxMax
        BY DEF PathInv, Places
    <2>2. /\ hpc \in {"idle", "dispatch", "job", "lost", "call", "publish"}
          /\ cur \in Msgs \cup {NoMsg}
          /\ (hpc = "idle") = (cur = NoMsg)
          /\ (hpc = "publish") = (status # "none")
        BY DEF PathInv, Checked, Places
    <2>3. T!TypeOK /\ (hpc # "call" => spc = "idle")
        BY DEF HandOver
    <2> QED
        BY <2>1, <2>2, <2>3 DEF TypeOK
<1> QED
    BY <1>1, HandOverInvariant, PTL

(* No message of the platform, decoded, refused or run, and no exit in the    *)
(* middle of SetTelemetryInterval, leaves a stale interval behind a newer one *)
(* or gets the ticker a period it panics on.                                 *)
THEOREM CommandIntervalSound == Spec => [](T!NewestWins /\ T!TickerPositive)
<1>1. HandOver => T!NewestWins /\ T!TickerPositive
    BY DEF HandOver, T!NewestWins
<1> QED
    BY <1>1, HandOverInvariant, PTL
=============================================================================
