---------------------------- MODULE MCNetScripts ----------------------------
(* Three NICs and a VLAN that shares the MAC of the third; boxes that come    *)
(* with no role assigned, with wan, with lan, and with wan and lan and a      *)
(* gateway of the operator's; up to two cards per boot.                       *)
EXTENDS NetScripts, TLC

MCIfaces == <<[name |-> "n1", mac |-> "m1"], [name |-> "n2", mac |-> "m2"],
              [name |-> "n3", mac |-> "m3"], [name |-> "v3", mac |-> "m3"]>>

Iface(n, g) == [nic |-> n, ip |-> "dhcp", mtu |-> None, gw |-> g]
Section(ifs, items, d) == [ifs |-> ifs, items |-> items, defgw |-> d, dns |-> {}]

MCConfigs ==
    { Section(<<>>, <<>>, None),
      Section("wan" :> Iface("n1", None), <<>>, None),
      Section("lan" :> Iface("n1", None), <<>>, None),
      Section(("wan" :> Iface("n1", "isp")) @@ ("lan" :> Iface("n2", None)),
              "isp" :> "g0", "isp") }

Card(m, a, g) == [mac |-> m, ip |-> a, gw |-> g, dns |-> {g} \ {None}, mtu |-> None]
MCCards ==
    {Card(m, "static", g) : m \in {"m1", "m2", "m3"}, g \in {None, "g1"}}
        \cup {Card("m1", None, "g1"), Card("m9", "static", "g1")}
MCCardLists ==
    {<<c>> : c \in MCCards}
        \cup {<<p[1], p[2]>> : p \in {q \in MCCards \X MCCards : q[1].mac # q[2].mac}}
=============================================================================
