---------------------------- MODULE CommandPath ----------------------------
(***************************************************************************)
(* A command's way through the agent: the plain NATS subscription           *)
(* (internal/nats), the callback of run() in cmd/agent/main.go, Dispatch    *)
(* and run of internal/dispatcher, and the result's way back, composed with *)
(* the telemetry goroutine (TelemetryInterval), which one of the operations *)
(* has to hand a value to.                                                  *)
(*                                                                          *)
(* The platform sends a command again when it saw no result.  The server    *)
(* delivers to a connected subscriber or not at all; the client library     *)
(* runs the callbacks of a subscription one after the other, keeps at most  *)
(* InboxMax messages for it and, while disconnected, at most BufMax results *)
(* and events, which heartbeats and telemetry compete for (external:        *)
(* nats.go).  A shutdown cancels the context and leaves: Drain              *)
(* only starts to drain, so whatever is queued in the process is gone, as   *)
(* with a crash.                                                            *)
(*                                                                          *)
(* A message is a record: form says what can be decoded of it, op is its    *)
(* operation, n the interval_s of a telemetry.set_interval, reply its       *)
(* reply_to inbox or Evt.  The work a module does for an operation is one   *)
(* effect, which a failing operation may or may not have had.  Operations   *)
(* whose module returns an ActionResult or SetPasswordResult tell a failure *)
(* in the output (success: false), next to the status "completed".          *)
(***************************************************************************)
EXTENDS Integers, Sequences, SequencesExt

CONSTANTS
    Msgs,               \* messages the platform may put on the cmd subject
    KnownOperations,    \* operations with a case in run()
    AllowedOperations,  \* cfg.Agent.AllowedOperations
    ActionOperations,   \* set_password and the services actions
    JobOperations,      \* those of them that wait for a systemd job
    MaxSends,           \* bound on the messages sent in all
    InboxMax, BufMax,   \* limits of the client library
    Evt, NoMsg,
    Word, Second, Requests, Configured, Empty   \* of TelemetryInterval

ASSUME MsgAssumption ==
    \A m \in Msgs : m.form \in {"garbage", "badPayload", "badParams", "ok"} /\ m.n \in Int
ASSUME PathAssumption == NoMsg \notin Msgs /\ InboxMax \in Nat
ASSUME DurationAssumption ==
    Word \in Nat \ {0} /\ Second \in Nat \ {0} /\ Configured \in Int /\ Empty \notin Int

VARIABLES
    alive,    \* the agent process runs and is subscribed
    conn,     \* its connection to the server is up
    inbox,    \* messages waiting for the callback
    hpc,      \* where the callback is
    cur,      \* the message it works on
    status,   \* Status of the result it built
    success,  \* what the output of the result says
    buf,      \* results and events written to the connection, not on the wire yet
    answers,  \* results the platform got
    sends,    \* messages sent in all
    sent,     \* history: how often each message was sent
    effects,  \* history: how often each message had its effect
    chan, spc, d, lastSet, lpc, ticker

T == INSTANCE TelemetryInterval

tvars == <<chan, spc, d, lastSet, lpc, ticker>>
hvars == <<hpc, cur, status, success>>
vars  == <<alive, conn, inbox, hvars, buf, answers, sends, sent, effects, tvars>>

Init ==
    /\ alive = TRUE
    /\ conn = TRUE
    /\ hpc = "idle" /\ cur = NoMsg /\ status = "none" /\ success = FALSE
    /\ inbox = <<>> /\ buf = <<>>
    /\ T!Init
    /\ answers = {}
    /\ sends = 0
    /\ sent = [m \in Msgs |-> 0]
    /\ effects = [m \in Msgs |-> 0]

----------------------------------------------------------------------------
(* What Dispatch makes of a message. *)

(* Seeded fault: only the payload is looked at before the operation runs. *)
RejectedOnDecode(m) == m.form = "badPayload"

Rejected(m) ==
    \/ m.form = "badPayload"
    \/ m.op \notin AllowedOperations
    \/ m.form = "badParams"

(* run() refuses: no such case, or an interval that is not positive. *)
Refused(m) ==
    \/ m.op \notin KnownOperations
    \/ m.op = "telemetry.set_interval" /\ m.n <= 0

(* A module is called. *)
Runs(m) ==
    /\ ~Rejected(m) /\ ~Refused(m)
    /\ m.op \notin {"telemetry.set_interval", "agent.allowed_operations"}

Effect(k) == effects' = [effects EXCEPT ![cur] = @ + k]

----------------------------------------------------------------------------
(* The platform and the connection. *)

Answered(m) == \E a \in answers : a.msg = m

(* A heartbeat, a telemetry snapshot or a capabilities list. *)
Event == [msg |-> NoMsg, status |-> "none", success |-> FALSE, to |-> Evt]

(* Publish and PublishToSubject: while disconnected the library buffers, and *)
(* fails when it has no room.                                                *)
Queued(r) == IF conn \/ Len(buf) < BufMax THEN Append(buf, r) ELSE buf

(* A message goes out, again if no answer came; no subscriber, no delivery; *)
(* a full subscription drops it.                                            *)
Send(m) ==
    /\ sends < MaxSends
    /\ sends' = sends + 1
    /\ ~Answered(m)
    /\ sent' = [sent EXCEPT ![m] = @ + 1]
    /\ inbox' = IF alive /\ conn /\ Len(inbox) < InboxMax THEN Append(inbox, m) ELSE inbox
    /\ UNCHANGED <<alive, conn, hvars, buf, answers, effects, tvars>>

Flush ==
    /\ alive /\ conn
    /\ buf # <<>>
    /\ answers' = answers \cup ({Head(buf)} \ {Event})
    /\ buf' = Tail(buf)
    /\ UNCHANGED <<alive, conn, inbox, hvars, sends, sent, effects, tvars>>

ConnectionChange ==
    /\ alive
    /\ conn' = ~conn
    /\ UNCHANGED <<alive, inbox, hvars, buf, answers, sends, sent, effects, tvars>>

(* A signal, a crash or a reboot; a module that was at work may have had its *)
(* effect.                                                                   *)
Exit ==
    /\ alive
    /\ \/ UNCHANGED effects
       \/ hpc \in {"dispatch", "job"} /\ Runs(cur) /\ Effect(1)
    /\ alive' = FALSE
    /\ conn' = FALSE
    /\ hpc' = "idle" /\ cur' = NoMsg /\ status' = "none" /\ success' = FALSE
    /\ inbox' = <<>> /\ buf' = <<>>
    /\ chan' = Empty /\ spc' = "idle" /\ lpc' = "off"
    /\ d' = T!Initial /\ lastSet' = T!Initial /\ ticker' = T!Initial
    /\ UNCHANGED <<answers, sends, sent>>

(* Supervised restart: connect, subscribe. *)
Restart ==
    /\ ~alive
    /\ alive' = TRUE
    /\ conn' = TRUE
    /\ UNCHANGED <<inbox, hvars, buf, answers, sends, sent, effects, tvars>>

(* The goroutines of the publisher send without being asked; what counts    *)
(* here is the room they take.                                              *)
PublishEvent ==
    /\ alive
    /\ Len(buf) < BufMax
    /\ buf' = Append(buf, Event)
    /\ UNCHANGED <<alive, conn, inbox, hvars, answers, sends, sent, effects, tvars>>

----------------------------------------------------------------------------
(* The callback goroutine. *)

(* Seeded fault: a message that does not parse is not taken from the queue. *)
ReceiveStuck ==
    /\ alive
    /\ hpc = "idle"
    /\ inbox # <<>>
    /\ Head(inbox).form # "garbage"
    /\ inbox' = Tail(inbox)
    /\ hpc' = "dispatch" /\ cur' = Head(inbox)
    /\ UNCHANGED <<alive, conn, status, success, buf, answers, sends, sent, effects, tvars>>

(* Unparseable JSON and unknown versions are dropped without a word. *)
Receive ==
    /\ alive
    /\ hpc = "idle"
    /\ inbox # <<>>
    /\ inbox' = Tail(inbox)
    /\ IF Head(inbox).form = "garbage"
       THEN UNCHANGED <<hpc, cur>>
       ELSE hpc' = "dispatch" /\ cur' = Head(inbox)
    /\ UNCHANGED <<alive, conn, status, success, buf, answers, sends, sent, effects, tvars>>

Result(s, ok) == status' = s /\ success' = ok /\ hpc' = "publish" /\ UNCHANGED cur

Reject ==
    /\ hpc = "dispatch"
    /\ Rejected(cur)
    /\ Result("rejected", FALSE)
    /\ UNCHANGED <<alive, conn, inbox, buf, answers, sends, sent, effects, tvars>>

Refuse ==
    /\ hpc = "dispatch"
    /\ ~Rejected(cur)
    /\ Refused(cur)
    /\ Result("failed", FALSE)
    /\ UNCHANGED <<alive, conn, inbox, buf, answers, sends, sent, effects, tvars>>

(* The module does the work, or returns an error before or after it had its *)
(* effect.                                                                  *)
RunModule ==
    /\ hpc = "dispatch"
    /\ Runs(cur)
    /\ cur.op \notin JobOperations
    /\ \/ Result("completed", TRUE) /\ Effect(1)
       \/ Result("failed", FALSE) /\ \E k \in {0, 1} : Effect(k)
    /\ UNCHANGED <<alive, conn, inbox, buf, answers, sends, sent, tvars>>

(* agent.allowed_operations: the capabilities go out on the evt subject      *)
(* before the result; that they could not is logged only.                    *)
Announce ==
    /\ hpc = "dispatch"
    /\ ~Rejected(cur)
    /\ ~Refused(cur)
    /\ cur.op = "agent.allowed_operations"
    /\ buf' = Queued(Event)
    /\ Result("completed", TRUE)
    /\ Effect(1)
    /\ UNCHANGED <<alive, conn, inbox, answers, sends, sent, tvars>>

(* The error is in the output: a script that failed, no D-Bus, a D-Bus call *)
(* that failed, or a platform without service management.                   *)
RunUnsuccessful ==
    /\ hpc = "dispatch"
    /\ Runs(cur)
    /\ cur.op \in ActionOperations
    /\ Result("completed", FALSE)
    /\ \E k \in {0, 1} : Effect(k)
    /\ UNCHANGED <<alive, conn, inbox, buf, answers, sends, sent, tvars>>

(* systemd has queued the job; the callback waits for its result on a       *)
(* channel, without a timeout.                                              *)
QueueJob ==
    /\ hpc = "dispatch"
    /\ Runs(cur)
    /\ cur.op \in JobOperations
    /\ hpc' = "job"
    /\ UNCHANGED <<alive, conn, inbox, cur, status, success, buf, answers, sends, sent,
                   effects, tvars>>

JobRemoved ==
    /\ hpc = "job"
    /\ \/ Result("completed", TRUE) /\ Effect(1)
       \/ Result("completed", FALSE) /\ \E k \in {0, 1} : Effect(k)
    /\ UNCHANGED <<alive, conn, inbox, buf, answers, sends, sent, tvars>>

(* The D-Bus connection goes while the job runs: its result never comes.    *)
BusLost ==
    /\ hpc = "job"
    /\ hpc' = "lost"
    /\ \E k \in {0, 1} : Effect(k)
    /\ UNCHANGED <<alive, conn, inbox, cur, status, success, buf, answers, sends, sent, tvars>>

(* Seeded fault: the result does not wait for SetTelemetryInterval. *)
CallSetIntervalAsync ==
    /\ hpc = "dispatch"
    /\ cur.op = "telemetry.set_interval"
    /\ T!SetCall(cur.n)
    /\ Result("completed", TRUE)
    /\ UNCHANGED <<alive, conn, inbox, buf, answers, sends, sent, effects>>

CallSetInterval ==
    /\ hpc = "dispatch"
    /\ ~Rejected(cur)
    /\ ~Refused(cur)
    /\ cur.op = "telemetry.set_interval"
    /\ T!SetCall(cur.n)
    /\ hpc' = "call"
    /\ UNCHANGED <<alive, conn, inbox, cur, status, success, buf, answers, sends, sent, effects>>

SetIntervalReturns ==
    /\ hpc = "call"
    /\ spc = "idle"
    /\ Result("completed", TRUE)
    /\ Effect(1)
    /\ UNCHANGED <<alive, conn, inbox, buf, answers, sends, sent, tvars>>

(* Seeded fault: the message is taken up again in place of the result. *)
PublishAndRepeat ==
    /\ hpc = "publish"
    /\ hpc' = "dispatch" /\ status' = "none" /\ success' = FALSE /\ cur' = cur
    /\ buf' = buf
    /\ UNCHANGED <<alive, conn, inbox, answers, sends, sent, effects, tvars>>

(* The result goes to the caller's inbox if it named one, else to the evt   *)
(* subject; when the library has no room the error is logged.               *)
PublishResult ==
    /\ hpc = "publish"
    /\ buf' = Queued([msg |-> cur, status |-> status, success |-> success, to |-> cur.reply])
    /\ hpc' = "idle" /\ cur' = NoMsg /\ status' = "none" /\ success' = FALSE
    /\ UNCHANGED <<alive, conn, inbox, answers, sends, sent, effects, tvars>>

Handler ==
    \/ Receive \/ Reject \/ Refuse \/ RunModule \/ Announce \/ RunUnsuccessful
    \/ QueueJob \/ JobRemoved \/ CallSetInterval \/ SetIntervalReturns \/ PublishResult

(* The channel operations inside SetTelemetryInterval, and the other        *)
(* goroutine.                                                               *)
Telemetry ==
    /\ alive
    /\ T!SetStep \/ T!LoopStep
    /\ UNCHANGED <<alive, conn, inbox, hvars, buf, answers, sends, sent, effects>>

Next ==
    \/ \E m \in Msgs : Send(m)
    \/ Flush \/ ConnectionChange \/ Exit \/ Restart \/ PublishEvent
    \/ BusLost \/ Handler \/ Telemetry

(* Goroutines run, module calls return, systemd ends its jobs, and the      *)
(* client library writes what it has while it is connected; nothing is      *)
(* assumed of the platform and of how long a connection lasts.              *)
Spec ==
    /\ Init
    /\ [][Next]_vars
    /\ WF_vars(Handler)
    /\ WF_vars(Flush)
    /\ WF_vars(Telemetry /\ T!SetStep)
    /\ WF_vars(Telemetry /\ (T!LoopStart \/ T!LoopSent))
    /\ SF_vars(Telemetry /\ T!LoopReceive)

----------------------------------------------------------------------------
(* The callback is in one place at a time: it works on a message, holds a    *)
(* status exactly when it is about to publish, and SetTelemetryInterval is   *)
(* entered only from it.                                                     *)
TypeOK ==
    /\ alive \in BOOLEAN /\ conn \in BOOLEAN
    /\ inbox \in Seq(Msgs) /\ Len(inbox) <= InboxMax
    /\ hpc \in {"idle", "dispatch", "job", "lost", "call", "publish"}
    /\ (hpc = "idle") = (cur = NoMsg)
    /\ cur \in Msgs \cup {NoMsg}
    /\ (hpc = "publish") = (status # "none")
    /\ (hpc # "call") => spc = "idle"
    /\ T!TypeOK

Results == answers \cup (ToSet(buf) \ {Event})

(* What the platform can conclude from a result, over retries, restarts and  *)
(* lost results: "completed" next to success in the output means that the    *)
(* operation had its effect, "rejected" that it never had one, in this life  *)
(* of the agent or an earlier one; and an operation that is not in           *)
(* allowed_operations, or cannot be decoded, never has one.  The status      *)
(* alone does not say as much: see CompletedMeansDone.                       *)
StatusTruthful ==
    /\ \A r \in Results : r.status = "completed" /\ r.success => effects[r.msg] > 0
    /\ \A r \in Results : r.status = "rejected" => effects[r.msg] = 0
    /\ \A m \in Msgs : effects[m] > 0 => m.op \in AllowedOperations /\ m.form = "ok"

(* docs/protocol.md: "`completed` means success".                            *)
CompletedMeansDone == \A r \in Results : r.status = "completed" => effects[r.msg] > 0

(* The agent does not deduplicate: a command that is sent again may run      *)
(* again.  It never runs more often than it was sent.                        *)
OncePerSend == \A m \in Msgs : effects[m] <= sent[m]

Pending(m) == cur = m \/ m \in ToSet(inbox)

(* "Dispatch always returns a valid result": every message that reached the  *)
(* agent is dealt with (its result published) unless the process ends.       *)
EveryCommandAnswered == \A m \in Msgs : Pending(m) ~> ~Pending(m)

(* SetTelemetryInterval waits for a pending update that is no longer there,  *)
(* or a services action for a job whose result was lost.                     *)
Wedged == (spc = "drain" /\ chan = Empty) \/ hpc = "lost"

Settled(m) == IF m.form = "garbage" THEN ~Pending(m) ELSE Answered(m)

(* Those two waits are all that can stop the callback goroutine, and with    *)
(* the connection up all that can keep a result from the platform: the       *)
(* callback always comes back for the next message, and every message that   *)
(* reached the agent is answered (dropped, if it cannot be decoded), unless  *)
(* the connection is lost or the process ends.                               *)
AnsweredUnlessWedged ==
    /\ []<>(hpc = "idle" \/ Wedged)
    /\ \A m \in Msgs : Pending(m) ~> Settled(m) \/ Wedged \/ ~conn
=============================================================================
