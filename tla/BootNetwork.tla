---------------------------- MODULE BootNetwork ----------------------------
(***************************************************************************)
(* One-shot boot provisioning of a pfSense box: runBootProvisioning,        *)
(* applyBootNetworkConfig and applyBootPassword (cmd/agent/main.go) with    *)
(* the manager calls they make (ApplyBootNetworkConfig, Revert and          *)
(* SetDefaultUserPassword of internal/modules/pfsense), followed over any   *)
(* number of agent starts, reboots and power losses.                        *)
(*                                                                          *)
(* What survives a restart: marker, cfg (the network part of config.xml)    *)
(* and passwd.  What a reboot resets: live, the addressing the kernel runs. *)
(* What every start loses: pc, plan, snap, outcome, base.                   *)
(*                                                                          *)
(* live is a set of configurations: {c} when all of c is loaded, more than  *)
(* one when a script was killed between two interface_configure() calls.    *)
(*                                                                          *)
(* Abstracted: what a plan does to a configuration is the constant Apply    *)
(* (modules NetPlan and NetScripts do apply.php itself); whether a          *)
(* configuration reaches the platform is the constant Good; a child process *)
(* does not outlive the agent that started it past the agent's next start.  *)
(***************************************************************************)
EXTENDS Naturals

CONSTANTS
    Config,      \* network sections config.xml can hold
    Good,        \* those from which the NATS server can be reached
    Plan,        \* non-empty interface plans the metadata can yield
    Apply,       \* Apply[p][c]: config.xml after apply.php ran plan p on c
    NoPlan,      \* cards present, but none matched a NIC with an IP/subnet
    NoCards,     \* the metadata names no network cards
    Offers,      \* what the metadata may yield at a start
    HasPassword, \* the metadata carries a password
    NoSnapshot,  \* BootNetworkResult without a snapshot
    BadSnapshot, \* a snapshot restore.php does not accept: not a JSON object
    Faults,      \* the kinds of failure the environment may cause
    MaxFaults    \* bound on how many failures happen in all

FaultKind == {"nics", "snapshot", "badSnapshot", "apply", "garbled", "outage",
              "restore", "marker", "crash", "password"}

ASSUME GoodAssumption   == Good \subseteq Config
ASSUME ApplyAssumption  == Apply \in [Plan -> [Config -> Config]]
ASSUME OffersAssumption == Offers \subseteq Plan \cup {NoPlan, NoCards}
ASSUME NoPlanAssumption == NoPlan \notin Plan /\ NoCards \notin Plan /\ NoPlan # NoCards
ASSUME SnapAssumption   == /\ NoSnapshot \notin Config /\ BadSnapshot \notin Config
                           /\ NoSnapshot # BadSnapshot
ASSUME FaultsAssumption == Faults \subseteq FaultKind /\ MaxFaults \in Nat
ASSUME PasswordAssumption == HasPassword \in BOOLEAN

VARIABLES
    pc,       \* where the agent process is; "down" when there is none
    plan,     \* the plan of this start
    marker,   \* netconfigMarkerPath exists
    cfg,      \* persisted configuration
    live,     \* configurations the kernel runs (parts of)
    snap,     \* result.Snapshot
    outcome,  \* the conclusion applyBootNetworkConfig last logged
    base,     \* history: cfg when this start reached the marker check
    passwd,   \* who set the password of uid 0 last
    faults,   \* number of failures so far
    hard      \* history: one of HardFaults was among them

failures == <<faults, hard>>
vars == <<pc, plan, marker, cfg, live, snap, outcome, base, passwd, failures>>

(* The files and interfaces outside the agent's memory. *)
disk == <<marker, cfg, passwd>>

Outcomes == {"none", "reverted", "verified"}
Steps == {"check", "match", "snapshot", "apply", "applyLive", "probe",
          "revert", "revertLive", "mark", "password"}

(* The process, the files and the kernel hold values of their kinds at every *)
(* step of applyBootNetworkConfig; in particular a snapshot that came out    *)
(* empty or garbled, which nobody looks at before the apply, is never        *)
(* written over the configuration when the probe fails.                      *)
TypeOK ==
    /\ pc \in Steps \cup {"down", "up"}
    /\ plan \in Plan \cup {NoPlan, NoCards}
    /\ marker \in BOOLEAN
    /\ cfg \in Config
    /\ live \in SUBSET Config
    /\ snap \in Config \cup {NoSnapshot, BadSnapshot}
    /\ outcome \in Outcomes
    /\ base \in Config
    /\ passwd \in {"factory", "metadata", "operator"}
    /\ faults \in 0..MaxFaults
    /\ hard \in BOOLEAN

Init ==
    /\ pc = "down"
    /\ plan = NoCards
    /\ marker = FALSE
    /\ cfg \in Good
    /\ live = {cfg}
    /\ snap = NoSnapshot
    /\ outcome = "none"
    /\ base = cfg
    /\ passwd = "factory"
    /\ faults = 0
    /\ hard = FALSE

(* The failures that leave a written configuration neither probed nor        *)
(* reverted, without a snapshot to revert to, or probed while something else *)
(* is live.                                                                  *)
HardFaults == {"badSnapshot", "apply", "garbled", "restore", "crash"}

Fault(kind) ==
    /\ kind \in Faults
    /\ faults < MaxFaults
    /\ faults' = faults + 1
    /\ hard' = (hard \/ kind \in HardFaults)

(* A probe gets through only on a fully loaded Good configuration, or, by   *)
(* chance, on a mixture.                                                    *)
MayReach == \A c \in Config : live = {c} => c \in Good

----------------------------------------------------------------------------
(* A start of the agent; the metadata of this start offers one plan. *)
Start ==
    /\ pc = "down"
    /\ pc' = "check"
    /\ \E p \in Offers : plan' = p
    /\ snap' = NoSnapshot
    /\ outcome' = "none"
    /\ base' = cfg
    /\ UNCHANGED <<disk, live, failures>>

(* Seeded faults, for validation of the properties only: the marker is not  *)
(* looked at; the early return leaves the password step out too.            *)
CheckMarkerIgnored ==
    /\ pc = "check"
    /\ pc' = IF plan = NoCards THEN "password" ELSE "match"
    /\ UNCHANGED <<plan, disk, live, snap, outcome, base, failures>>

CheckMarkerSkipsPassword ==
    /\ pc = "check"
    /\ pc' = IF marker \/ plan = NoCards THEN "up" ELSE "match"
    /\ UNCHANGED <<plan, disk, live, snap, outcome, base, failures>>

(* os.Stat(netconfigMarkerPath) and the length of iso.NetworkCards(). *)
CheckMarker ==
    /\ pc = "check"
    /\ pc' = IF marker \/ plan = NoCards THEN "password" ELSE "match"
    /\ UNCHANGED <<plan, disk, live, snap, outcome, base, failures>>

(* net.Interfaces(), the MAC match and the plan.  An empty plan returns a   *)
(* result without a snapshot, and no error.                                 *)
MatchNICs ==
    /\ pc = "match"
    /\ \/ /\ pc' = IF plan = NoPlan THEN "probe" ELSE "snapshot"
          /\ UNCHANGED failures
       \/ /\ Fault("nics")
          /\ pc' = "password"
    /\ UNCHANGED <<plan, disk, live, snap, outcome, base>>

(* snapshot.php reads config.xml, not the running interfaces.  Its output is *)
(* kept unread: with exit 0 it may be empty (json_encode() fails on text     *)
(* that is not UTF-8 and prints nothing) or not a JSON object.               *)
TakeSnapshot ==
    /\ pc = "snapshot"
    /\ \/ /\ snap' = cfg
          /\ pc' = "apply"
          /\ UNCHANGED failures
       \/ /\ Fault("badSnapshot")
          /\ snap' \in {NoSnapshot, BadSnapshot}
          /\ pc' = "apply"
       \/ /\ Fault("snapshot")
          /\ pc' = "password"
          /\ UNCHANGED snap
    /\ UNCHANGED <<plan, disk, live, outcome, base>>

(* Seeded fault: the snapshot is taken after the new configuration.         *)
ApplyWriteThenSnapshot ==
    /\ pc = "apply"
    /\ cfg' = Apply[plan][cfg]
    /\ snap' = cfg'
    /\ pc' = "applyLive"
    /\ UNCHANGED <<plan, marker, live, outcome, base, passwd, failures>>

(* apply.php up to and including write_config().  A script that fails or    *)
(* times out before it still yields a result and a nil error.               *)
ApplyWrite ==
    /\ pc = "apply"
    /\ \/ /\ cfg' = Apply[plan][cfg]
          /\ pc' = "applyLive"
          /\ UNCHANGED failures
       \/ /\ Fault("apply")
          /\ pc' = "probe"
          /\ UNCHANGED cfg
    /\ UNCHANGED <<plan, marker, live, snap, outcome, base, passwd>>

(* The planned roles loaded over what the kernel ran: all of cfg when that    *)
(* was all of what the script started from, else perhaps still a mixture.    *)
PlanLoaded == IF live = {base} THEN {{cfg}} ELSE {{cfg}, live \cup {cfg}}

(* The interface_configure() loop and system_routing_configure().  The      *)
(* script may be killed on the way (nil error), or finish and print output  *)
(* that does not parse (an error: neither probe nor revert follows).        *)
ApplyLive ==
    /\ pc = "applyLive"
    /\ \/ /\ live' \in PlanLoaded
          /\ pc' = "probe"
          /\ UNCHANGED failures
       \/ /\ Fault("apply")
          /\ live' \in {live, live \cup {cfg}, {cfg}}
          /\ pc' = "probe"
       \/ /\ Fault("garbled")
          /\ live' \in PlanLoaded
          /\ pc' = "password"
    /\ UNCHANGED <<plan, disk, snap, outcome, base>>

(* Seeded fault: no revert at all. *)
ProbeUnreachableNoRevert ==
    /\ pc = "probe"
    /\ \A c \in Good : live # {c}
    /\ pc' = "password"
    /\ UNCHANGED <<plan, disk, live, snap, outcome, base, failures>>

(* The non-retrying NATS connect.  ErrAuthorization counts as reached. *)
ProbeReached ==
    /\ pc = "probe"
    /\ MayReach
    /\ pc' = "mark"
    /\ UNCHANGED <<plan, disk, live, snap, outcome, base, failures>>

ProbeUnreachable ==
    /\ pc = "probe"
    /\ \/ /\ \A c \in Good : live # {c}
          /\ UNCHANGED failures
       \/ Fault("outage")
    /\ pc' = IF snap = NoSnapshot THEN "password" ELSE "revert"
    /\ UNCHANGED <<plan, disk, live, snap, outcome, base>>

(* Seeded fault: a restore that is killed leaves the file half written.     *)
RevertWriteTorn ==
    /\ pc = "revert"
    /\ \/ /\ cfg' = snap
          /\ pc' = "revertLive"
          /\ UNCHANGED failures
       \/ /\ Fault("restore")
          /\ pc' = "password"
          /\ cfg' \in Config
    /\ UNCHANGED <<plan, marker, live, snap, outcome, base, passwd>>

(* Seeded fault: restore.php without its is_array() check. *)
RevertWriteUnchecked ==
    /\ pc = "revert"
    /\ cfg' = snap
    /\ pc' = "revertLive"
    /\ UNCHANGED <<plan, marker, live, snap, outcome, base, passwd, failures>>

(* Revert, which refuses an empty snapshot, and restore.php, which refuses   *)
(* one that is not an array, up to and including write_config().             *)
RevertWrite ==
    /\ pc = "revert"
    /\ \/ /\ snap \in Config
          /\ cfg' = snap
          /\ pc' = "revertLive"
          /\ UNCHANGED failures
       \/ /\ snap \notin Config
          /\ pc' = "password"
          /\ UNCHANGED <<cfg, failures>>
       \/ /\ snap \in Config
          /\ Fault("restore")
          /\ pc' = "password"
          /\ UNCHANGED cfg
    /\ UNCHANGED <<plan, marker, live, snap, outcome, base, passwd>>

(* Seeded fault: the marker does not survive (never written).               *)
WriteMarkerLost ==
    /\ pc = "mark"
    /\ pc' = "password"
    /\ outcome' = "verified"
    /\ UNCHANGED <<plan, disk, live, snap, base, failures>>

(* Seeded fault: no return after the revert, so the marker is written.      *)
RevertLiveThenMark ==
    /\ pc = "revertLive"
    /\ pc' = "mark"
    /\ live' = {cfg}
    /\ outcome' = "reverted"
    /\ UNCHANGED <<plan, disk, snap, base, failures>>

(* interfaces_configure() and system_routing_configure() of restore.php. *)
RevertLive ==
    /\ pc = "revertLive"
    /\ pc' = "password"
    /\ \/ /\ live' = {cfg}
          /\ outcome' = "reverted"
          /\ UNCHANGED failures
       \/ /\ Fault("restore")
          /\ live' \in {live, live \cup {cfg}, {cfg}}
          /\ UNCHANGED outcome
    /\ UNCHANGED <<plan, disk, snap, base>>

WriteMarker ==
    /\ pc = "mark"
    /\ pc' = "password"
    /\ \/ /\ marker' = TRUE
          /\ outcome' = "verified"
          /\ UNCHANGED failures
       \/ /\ Fault("marker")
          /\ UNCHANGED <<marker, outcome>>
    /\ UNCHANGED <<plan, cfg, live, snap, base, passwd>>

(* applyBootPassword, then the rest of run(): connect and serve.  A script  *)
(* that is killed may or may not have written the new hash.                 *)
ApplyPassword ==
    /\ pc = "password"
    /\ pc' = "up"
    /\ \/ /\ passwd' = IF HasPassword THEN "metadata" ELSE passwd
          /\ UNCHANGED failures
       \/ /\ Fault("password")
          /\ HasPassword
          /\ passwd' \in {passwd, "metadata"}
    /\ UNCHANGED <<plan, marker, cfg, live, snap, outcome, base>>

(* A restart of the agent alone, or of the whole box, which loads cfg. *)
Stop ==
    /\ pc = "up"
    /\ pc' = "down"
    /\ live' \in {live, {cfg}}
    /\ UNCHANGED <<plan, disk, snap, outcome, base, failures>>

Crash ==
    /\ pc \in Steps
    /\ Fault("crash")
    /\ pc' = "down"
    /\ live' \in {live, {cfg}}
    /\ UNCHANGED <<plan, disk, snap, outcome, base>>

(* The operator reconfigures the box (keeping it reachable) ... *)
OperatorEdit ==
    /\ pc = "up"
    /\ \E c \in Good : cfg' = c /\ live' = {c}
    /\ UNCHANGED <<pc, plan, marker, snap, outcome, base, passwd, failures>>

(* ... or changes the password (GUI, or a pfsense.set_password command). *)
OperatorPassword ==
    /\ pc = "up"
    /\ passwd' = "operator"
    /\ UNCHANGED <<pc, plan, marker, cfg, live, snap, outcome, base, failures>>

AgentStep ==
    \/ CheckMarker \/ MatchNICs \/ TakeSnapshot \/ ApplyWrite \/ ApplyLive
    \/ ProbeReached \/ ProbeUnreachable \/ RevertWrite \/ RevertLive
    \/ WriteMarker \/ ApplyPassword

Next == AgentStep \/ Start \/ Stop \/ Crash \/ OperatorEdit \/ OperatorPassword

Spec == Init /\ [][Next]_vars /\ WF_vars(AgentStep)
----------------------------------------------------------------------------
(* Once the marker file exists, no agent start changes the persisted network *)
(* configuration or takes the marker away: provisioning is one-shot, also    *)
(* over crashes and a marker write that was retried.  Only the operator,     *)
(* who acts while the agent is up, may still reconfigure the box.            *)
OneShot == [][marker /\ pc # "up" => cfg' = cfg /\ marker']_vars

(* When applyBootNetworkConfig logs "reverted to pre-boot config", the file  *)
(* and the kernel are back at what this start found, with the marker unset.  *)
RevertUndoes ==
    outcome = "reverted" /\ pc = "password" =>
        cfg = base /\ live = {base} /\ ~marker

(* "applied and verified" is logged, and the marker written, only when the   *)
(* probe got through on what the kernel runs, never on a configuration       *)
(* known not to reach the platform.                                          *)
VerifiedMeansReached ==
    outcome = "verified" /\ pc = "password" => marker /\ MayReach

GoodPlans == {p \in Plan : \A c \in Config : Apply[p][c] \in Good}

(* "Retries on the next boot until it succeeds": if the agent is started     *)
(* again and again with metadata whose plan is right, then, failures being   *)
(* finite, a start succeeds and writes the marker.                           *)
RetriesUntilMarked ==
    []<>(pc = "check" /\ plan \in GoodPlans) => <>marker

(* The two steps are independent: however the network step ends, repeated    *)
(* starts set the password of the metadata again and again.                  *)
PasswordReapplied ==
    HasPassword /\ []<>(pc = "check") => []<>(passwd = "metadata")

Midway == Steps \ {"password"}

Atomic == INSTANCE AtomicProvisioning
          WITH box <- IF pc \in Midway THEN base ELSE cfg, done <- marker, up <- (pc = "up")

(* The promise of AtomicProvisioning: however a start is interrupted, what   *)
(* it leaves on disk is what it found or all of one plan.  Until a start has *)
(* come to its end, the box stands where the start found it.                 *)
AtomicBoot == Atomic!Spec

(* As long as none of HardFaults has happened, and whatever else fails,      *)
(* between two runs of the provisioning the box runs the configuration it    *)
(* has on disk and can be reached through it: a plan that cuts the box off   *)
(* is undone by the revert.                                                  *)
StaysReachable ==
    ~hard /\ pc \in {"down", "password", "up"} => cfg \in Good /\ live = {cfg}

(* Likewise, a start that logs "applied and verified" for a non-empty plan   *)
(* has left exactly that plan, applied to what the start found, on disk and  *)
(* live.                                                                     *)
VerifiedMeansApplied ==
    ~hard /\ outcome = "verified" /\ pc = "password" /\ plan \in Plan =>
        cfg = Apply[plan][base] /\ live = {cfg}

----------------------------------------------------------------------------
(* What the comment of applyBootNetworkConfig says, and HardFaults refute:   *)
(* "it reverts to the pre-change snapshot so the box stays reachable" and    *)
(* "Only a verified-successful apply is marked done".  When a start has      *)
(* concluded with either, what is on disk must reach the platform: with the  *)
(* marker set nothing will touch the network again, and after a revert the   *)
(* next start begins from it.                                                *)
ConcludedMeansReachable ==
    (marker \/ outcome = "reverted") /\ pc \in {"down", "password"} => cfg \in Good
=============================================================================
