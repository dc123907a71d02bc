------------------------------ MODULE NetPlan ------------------------------
(***************************************************************************)
(* The pure part of boot network provisioning: how the metadata's cards     *)
(* become an interface plan (ApplyBootNetworkConfig, netmatch.go) and what  *)
(* the loop of scripts/netconfig/apply.php makes of config.xml.             *)
(*                                                                          *)
(* The network part of config.xml is a record                               *)
(*   ifs   : assigned roles ("wan", "lan", ...) -> [nic, ip, mtu, gw]       *)
(*   items : gateway names -> gateway address (gateways/gateway_item)       *)
(*   defgw : gateways/defaultgw4, a gateway name or None                    *)
(*   dns   : system/dnsserver, as a set                                     *)
(* The agent's own gateway for role r ("R_PCGW") is named r here.  Address  *)
(* texts (CIDR suffix, subnet) and descriptions are left out.               *)
(***************************************************************************)
EXTENDS Naturals, Sequences, SequencesExt

None == "none"

(* f with x set to v; the values of new over those of old. *)
Put(f, x, v) == [y \in DOMAIN f \cup {x} |-> IF y = x THEN v ELSE f[y]]
Over(new, old) ==
    [y \in DOMAIN new \cup DOMAIN old |-> IF y \in DOMAIN new THEN new[y] ELSE old[y]]

(* byMAC of matchNICsByMAC: of two interfaces with one MAC the last counts.  *)
IfNameOf(mac, ifaces) ==
    LET k == SelectLastInSeq(ifaces, LAMBDA i : i.mac = mac)
    IN  IF k = 0 THEN None ELSE ifaces[k].name

(* One turn of the loop over the cards: one without a local interface or     *)
(* without an address is left out.                                           *)
AddCard(plan, card, ifaces) ==
    LET nic == IfNameOf(card.mac, ifaces)
    IN  IF nic # None /\ card.ip # None
        THEN Append(plan, [nic |-> nic, ip |-> card.ip, gw |-> card.gw,
                           dns |-> card.dns, mtu |-> card.mtu])
        ELSE plan

PlanSteps(cards, ifaces) ==
    LET plan[k \in 0..Len(cards)] ==
            IF k = 0 THEN <<>> ELSE AddCard(plan[k - 1], cards[k], ifaces)
    IN  plan

PlanOf(cards, ifaces) == PlanSteps(cards, ifaces)[Len(cards)]

(* The role whose 'if' is nic. *)
LogicalOf(ifs, nic) ==
    IF \E r \in DOMAIN ifs : ifs[r].nic = nic
    THEN CHOOSE r \in DOMAIN ifs : ifs[r].nic = nic
    ELSE None

(* Seeded fault: lan is assigned although there is one. *)
NeverSkipped(ifs, nic) == FALSE

(* An unassigned NIC is left alone when lan exists. *)
Skipped(ifs, nic) == LogicalOf(ifs, nic) = None /\ "lan" \in DOMAIN ifs

(* Seeded fault: without a planned gateway the interface keeps its own. *)
KeepGateway(old, role, p) == IF p.gw # None THEN role ELSE old

(* interfaces/{role}/gateway: set, or deleted. *)
NewGateway(old, role, p) == IF p.gw # None THEN role ELSE None

(* Seeded faults: the item is not written; the existing one is not found. *)
NoItem(items, role, p) == items

DuplicateItem(items, role, p) ==
    IF p.gw = None THEN items
    ELSE Put(items, IF role \in DOMAIN items THEN "copy" ELSE role, p.gw)

(* The gateway item of the role is updated or appended, never removed. *)
NewItems(items, role, p) == IF p.gw # None THEN Put(items, role, p.gw) ELSE items

(* Seeded fault: only wan's gateway can be the default. *)
DefaultOnWan(single, role, p) == p.gw # None /\ role = "wan"

(* Is the entry's gateway the default?  single: $gateway_count is 1. *)
BecomesDefault(single, role, p) == p.gw # None /\ (role = "wan" \/ single)

(* The role an entry is for, and the interface section it leaves there. *)
RoleOf(ifs, p) == IF LogicalOf(ifs, p.nic) = None THEN "lan" ELSE LogicalOf(ifs, p.nic)

NewIface(ifs, role, p) ==
    LET old == IF role \in DOMAIN ifs THEN ifs[role] ELSE [mtu |-> None, gw |-> None]
    IN  [nic |-> p.nic, ip |-> p.ip,
         mtu |-> IF p.mtu # None THEN p.mtu ELSE old.mtu,
         gw  |-> NewGateway(old.gw, role, p)]

(* One turn of the plan loop.  run holds the interfaces and gateways of the  *)
(* in-memory config and the script's $all_dns, $default_gw_name and          *)
(* $logicals_to_apply.                                                       *)
ApplyEntry(single, run, p) ==
    LET role == RoleOf(run.ifs, p)
    IN  IF Skipped(run.ifs, p.nic) THEN run
        ELSE [ifs     |-> Put(run.ifs, role, NewIface(run.ifs, role, p)),
              items   |-> NewItems(run.items, role, p),
              dns     |-> run.dns \cup p.dns,
              def     |-> IF BecomesDefault(single, role, p) THEN role ELSE run.def,
              applied |-> run.applied \cup {role}]

Gateways(plan) == {k \in DOMAIN plan : plan[k].gw # None}
Single(plan) == \E k \in DOMAIN plan : Gateways(plan) = {k}

RunStart(c) == [ifs |-> c.ifs, items |-> c.items, dns |-> {}, def |-> None, applied |-> {}]

(* The plan loop: its state after each entry. *)
ApplySteps(c, plan) ==
    LET run[k \in 0..Len(plan)] ==
            IF k = 0 THEN RunStart(c) ELSE ApplyEntry(Single(plan), run[k - 1], plan[k])
    IN  run

(* apply.php up to write_config(). *)
ApplyPlan(c, plan) ==
    LET run == ApplySteps(c, plan)[Len(plan)]
    IN  [c |-> [ifs   |-> run.ifs,
                items |-> run.items,
                dns   |-> IF run.dns # {} THEN run.dns ELSE c.dns,
                defgw |-> IF run.def # None THEN run.def ELSE c.defgw],
         def |-> run.def, applied |-> run.applied]

(* The default route the kernel gets from a configuration. *)
RouteOf(c) == IF c.defgw \in DOMAIN c.items THEN c.items[c.defgw] ELSE None
=============================================================================
