--------------------------- MODULE MCBootNetwork ---------------------------
(* A box with two interfaces.  wan starts on an address that works ("dhcp"); *)
(* the metadata may offer the right static address, a wrong one that cuts    *)
(* the box off, a change of lan only, no usable NIC, or no cards.            *)
EXTENDS BootNetwork, TLC

MCConfig == [{"wan", "lan"} -> {"dhcp", "right", "wrong"}]
MCGood   == {c \in MCConfig : c["wan"] # "wrong"}

MCPlan  == {"wan" :> "right", "wan" :> "wrong", "lan" :> "right"}
MCApply == [p \in MCPlan |-> [c \in MCConfig |-> p @@ c]]
MCOffers == MCPlan \cup {NoPlan, NoCards}
=============================================================================
