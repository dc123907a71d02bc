----------------------------- MODULE NetScripts -----------------------------
(***************************************************************************)
(* snapshot.php, apply.php and restore.php as the boot provisioning runs    *)
(* them, over several starts of the agent, with the box or without it: what *)
(* is on disk (cfg) and what the kernel runs (live, route), with a power    *)
(* loss, an end of the agent or a kill by the 30 s script timeout between   *)
(* any two effects.  The verdict of the NATS probe is any; when it is bad   *)
(* the snapshot is restored.                                                *)
(***************************************************************************)
EXTENDS NetPlan

CONSTANTS
    Ifaces,      \* net.Interfaces(): sequence of [name, mac]
    CardLists,   \* cards the metadata may hold at a boot
    Configs      \* network sections the box may come with

(* An interface has a name of its own; a metadata document describes a card  *)
(* (a MAC address) once.                                                     *)
ASSUME IfaceAssumption ==
    /\ Len(Ifaces) \in Nat /\ DOMAIN Ifaces = 1..Len(Ifaces)
    /\ \A i, j \in DOMAIN Ifaces : Ifaces[i].name = Ifaces[j].name => i = j
ASSUME CardAssumption ==
    \A cards \in CardLists :
        /\ Len(cards) \in Nat /\ DOMAIN cards = 1..Len(cards)
        /\ \A i, j \in DOMAIN cards : cards[i].mac = cards[j].mac => i = j

(* A network section as pfSense keeps it: a NIC has one role, and an         *)
(* interface names only gateways that are defined.                           *)
IsFunction(f) == f = [x \in DOMAIN f |-> f[x]]
IfsOK(ifs) ==
    /\ ifs = [r \in DOMAIN ifs |-> [nic |-> ifs[r].nic, ip |-> ifs[r].ip,
                                    mtu |-> ifs[r].mtu, gw |-> ifs[r].gw]]
    /\ None \notin DOMAIN ifs
    /\ \A r, s \in DOMAIN ifs : ifs[r].nic = ifs[s].nic => r = s
ItemsOK(ifs, items) ==
    /\ IsFunction(items)
    /\ None \notin DOMAIN items
    /\ \A r \in DOMAIN ifs : ifs[r].gw = None \/ ifs[r].gw \in DOMAIN items
SectionOK(c) ==
    /\ c = [ifs |-> c.ifs, items |-> c.items, defgw |-> c.defgw, dns |-> c.dns]
    /\ IfsOK(c.ifs)
    /\ ItemsOK(c.ifs, c.items)
ASSUME ConfigAssumption == \A c \in Configs : SectionOK(c)

VARIABLES pc, plan, cfg, live, route, snap, todo, def, last, synced

vars == <<pc, plan, cfg, live, route, snap, todo, def, last, synced>>

(* History: last is the plan that gave cfg, when no revert followed; synced  *)
(* says whether the kernel ran what was on disk when apply.php started.      *)
Init ==
    /\ pc = "off"
    /\ plan = <<>>
    /\ cfg \in Configs
    /\ live = cfg.ifs
    /\ route = RouteOf(cfg)
    /\ snap = cfg
    /\ todo = {}
    /\ def = None
    /\ last = <<>>
    /\ synced = TRUE

(* Provisioning runs at every start of the agent: with the box, which then   *)
(* runs what is on disk, or without it, in a kernel that keeps what it has.  *)
(* The agent turns the cards into a plan.                                    *)
Start ==
    /\ pc = "off"
    /\ \E cards \in CardLists : plan' = PlanOf(cards, Ifaces)
    /\ pc' = IF plan' = <<>> THEN "probe" ELSE "snapshot"
    /\ \/ live' = cfg.ifs /\ route' = RouteOf(cfg)
       \/ UNCHANGED <<live, route>>
    /\ UNCHANGED <<cfg, snap, todo, def, last, synced>>

Snapshot ==
    /\ pc = "snapshot"
    /\ snap' = cfg
    /\ synced' = (live = cfg.ifs)
    /\ pc' = "write"
    /\ UNCHANGED <<plan, cfg, live, route, todo, def, last>>

(* The whole plan loop and write_config(): the loop works in memory. *)
ApplyWrite ==
    /\ pc = "write"
    /\ LET run == ApplyPlan(cfg, plan)
       IN  /\ cfg' = run.c
           /\ todo' = run.applied
           /\ def' = run.def
    /\ last' = plan
    /\ pc' = "configure"
    /\ UNCHANGED <<plan, live, route, snap, synced>>

(* interface_configure() of one of the planned interfaces.  It installs the  *)
(* route too, except while pfSense itself boots.                             *)
Configure ==
    /\ pc = "configure"
    /\ \E r \in todo :
          /\ live' = Put(live, r, cfg.ifs[r])
          /\ todo' = todo \ {r}
    /\ route' \in {route, RouteOf(cfg)}
    /\ UNCHANGED <<pc, plan, cfg, snap, def, last, synced>>

(* Seeded fault: routing is left to interface_configure(), which does not    *)
(* install it while pfSense boots.                                           *)
RoutingSkipped ==
    /\ pc = "configure"
    /\ todo = {}
    /\ pc' = "probe"
    /\ UNCHANGED <<plan, cfg, live, route, snap, todo, def, last, synced>>

(* The explicit system_routing_configure() at the end of apply.php. *)
Routing ==
    /\ pc = "configure"
    /\ todo = {}
    /\ route' = IF def # None THEN RouteOf(cfg) ELSE route
    /\ pc' = "probe"
    /\ UNCHANGED <<plan, cfg, live, snap, todo, def, last, synced>>

(* The script is killed; the agent probes all the same. *)
Killed ==
    /\ pc \in {"write", "configure"}
    /\ pc' = "killed"
    /\ todo' = {}
    /\ def' = None
    /\ UNCHANGED <<plan, cfg, live, route, snap, last, synced>>

(* What ends with the agent, or with applyBootNetworkConfig. *)
Forget ==
    /\ plan' = <<>>
    /\ snap' = cfg
    /\ todo' = {}
    /\ def' = None
    /\ synced' = TRUE

(* The probe got through, or there is nothing to revert to. *)
Done ==
    /\ pc \in {"probe", "killed"}
    /\ pc' = "off"
    /\ Forget
    /\ UNCHANGED <<cfg, live, route, last>>

(* The probe failed: restore.php up to write_config() ... *)
RestoreWrite ==
    /\ pc \in {"probe", "killed"}
    /\ plan # <<>>
    /\ cfg' = snap
    /\ last' = <<>>
    /\ pc' = "restore"
    /\ def' = None
    /\ UNCHANGED <<plan, live, route, snap, todo, synced>>

(* Seeded fault: restore.php reloads the interfaces, not the routing. *)
RestoreLiveNoRouting ==
    /\ pc = "restore"
    /\ live' = Over(cfg.ifs, live)
    /\ pc' = "restored"
    /\ UNCHANGED <<plan, cfg, route, snap, todo, def, last, synced>>

(* ... and interfaces_configure() with system_routing_configure(): all the   *)
(* roles on disk; the kernel keeps what a role no longer on disk had set.    *)
RestoreLive ==
    /\ pc = "restore"
    /\ live' = Over(cfg.ifs, live)
    /\ route' = RouteOf(cfg)
    /\ pc' = "restored"
    /\ UNCHANGED <<plan, cfg, snap, todo, def, last, synced>>

(* Power loss or an end of the agent anywhere, or a start that reverted is   *)
(* over.                                                                     *)
Stop ==
    /\ pc \notin {"off", "probe", "killed"}
    /\ pc' = "off"
    /\ Forget
    /\ UNCHANGED <<cfg, live, route, last>>

Next ==
    \/ Start \/ Snapshot \/ ApplyWrite \/ Configure \/ Routing \/ Killed
    \/ Done \/ RestoreWrite \/ RestoreLive \/ Stop

Spec == Init /\ [][Next]_vars

----------------------------------------------------------------------------
(* config.xml never names a gateway it does not define, at any point where   *)
(* apply.php may be killed, and the script reloads only roles that exist.    *)
TypeOK ==
    /\ pc \in {"off", "snapshot", "write", "configure", "probe", "killed",
               "restore", "restored"}
    /\ \A r \in DOMAIN cfg.ifs : cfg.ifs[r].gw = None \/ cfg.ifs[r].gw \in DOMAIN cfg.items
    /\ todo \subseteq DOMAIN cfg.ifs
    /\ def \in DOMAIN cfg.items \cup {None}

Written == pc \in {"configure", "probe"} /\ plan # <<>>

(* "wan and an existing lan are never reassigned or touched, and at most one *)
(* NIC per run is assigned": a role keeps its NIC through every apply and    *)
(* restore; only lan may be new; and no NIC ever holds two roles.            *)
RolesKept ==
    /\ DOMAIN cfg.ifs \ DOMAIN snap.ifs \subseteq {"lan"}
    /\ \A r \in DOMAIN snap.ifs : r \in DOMAIN cfg.ifs /\ cfg.ifs[r].nic = snap.ifs[r].nic
    /\ \A r, s \in DOMAIN cfg.ifs : cfg.ifs[r].nic = cfg.ifs[s].nic => r = s

(* Every NIC of the plan that has a role after the apply has its planned     *)
(* address and gateway there; only the first NIC without a role gets one;    *)
(* a role that no planned NIC holds is left as it was.                       *)
PlanApplied ==
    Written =>
        /\ \A k \in DOMAIN plan :
              LET r == LogicalOf(cfg.ifs, plan[k].nic)
              IN  IF r = None
                  THEN "lan" \in DOMAIN cfg.ifs
                  ELSE /\ cfg.ifs[r].ip = plan[k].ip
                       /\ (plan[k].gw = None) = (cfg.ifs[r].gw = None)
                       /\ plan[k].gw # None => cfg.items[cfg.ifs[r].gw] = plan[k].gw
        /\ \A r \in DOMAIN cfg.ifs :
              (\A k \in DOMAIN plan : plan[k].nic # cfg.ifs[r].nic) =>
                  r \in DOMAIN snap.ifs /\ cfg.ifs[r] = snap.ifs[r]

(* "The agent never guesses a route": the default gateway changes only to    *)
(* one the plan gives, that of wan or the only one of the plan; and the only *)
(* gateway of the plan does become the default unless its NIC has no role.   *)
DefaultRoute ==
    Written =>
        /\ cfg.defgw # snap.defgw =>
              \E k \in Gateways(plan) :
                  /\ cfg.defgw = LogicalOf(cfg.ifs, plan[k].nic)
                  /\ cfg.defgw = "wan" \/ Gateways(plan) = {k}
        /\ \A k \in DOMAIN plan :
              Gateways(plan) = {k} /\ LogicalOf(cfg.ifs, plan[k].nic) # None =>
                  RouteOf(cfg) = plan[k].gw

(* When apply.php has ended, every NIC of the plan that has a role runs as   *)
(* it is on disk, and so does the route whenever the script chose a default  *)
(* gateway, whatever earlier starts left in the kernel; and a kernel that    *)
(* ran what was on disk before the script does so wholly after it.           *)
LiveAfterApply ==
    pc = "probe" /\ plan # <<>> =>
        /\ \A k \in DOMAIN plan :
              LET r == LogicalOf(cfg.ifs, plan[k].nic)
              IN  r # None => r \in DOMAIN live /\ live[r] = cfg.ifs[r]
        /\ synced => live = cfg.ifs
        /\ def # None => route = RouteOf(cfg)

(* A completed restore undoes the apply, on disk and, for every role the box *)
(* came with, in the kernel, at whatever point the apply was killed.         *)
RestoreExact ==
    pc = "restored" =>
        /\ cfg = snap
        /\ \A r \in DOMAIN snap.ifs : live[r] = snap.ifs[r]
        /\ route = RouteOf(snap)

(* A start that repeats an apply which was never reverted (the marker could   *)
(* not be written, or the power went) changes nothing on disk.               *)
RetryIdempotent == [][pc = "write" /\ plan = last => cfg' = cfg]_vars
=============================================================================
