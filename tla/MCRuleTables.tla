---------------------------- MODULE MCRuleTables ----------------------------
(* One spec of each kind: none, blanks (which mean any), an address, an alias *)
(* with a blank before it.  A box with a filter rule of the administrator's   *)
(* and no port-forward.                                                       *)
EXTENDS RuleTables

MCSpecs == {"", " ", "10.0.0.5", " lan"}
MCTexts == MCSpecs \cup {"any", "lan", OwnIp}
MCTrim == [s \in MCTexts |-> CASE s = " " -> "" [] s = " lan" -> "lan" [] OTHER -> s]
MCAnySpecs == {"", "any"}
MCIpSpecs == {"10.0.0.5"}
MCBoxes ==
    {[filter |-> <<[tracker |-> 1, by |-> Gui, dst |-> Parse("any"), edited |-> FALSE]>>,
      nat |-> <<>>]}
=============================================================================
