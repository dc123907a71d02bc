--------------------------- MODULE MCCommandPath ---------------------------
(* A set_interval command (which may be sent twice), a synchronous command   *)
(* that waits for a systemd job, the same with bad params, one that runs a   *)
(* script, one for the capabilities, one that is not allowed, one that is    *)
(* allowed but unknown, and a message that does not parse.                   *)
EXTENDS CommandPath

Msg(f, o, n, r) == [form |-> f, op |-> o, n |-> n, reply |-> r]
Set(n) == Msg("ok", "telemetry.set_interval", n, Evt)
Work == Msg("ok", "services.restart", 0, "inbox")
Password == Msg("ok", "pfsense.set_password", 0, "inbox")

SetMsgs == {Set(1), Set(2)}
AllMsgs ==
    { Set(1), Work, Password, Msg("badParams", "services.restart", 0, "inbox"),
      Msg("ok", "agent.allowed_operations", 0, Evt), Msg("ok", "exec", 0, Evt),
      Msg("ok", "vm.rebot", 0, Evt), Msg("garbage", "none", 0, Evt) }

MCKnown ==
    {"agent.allowed_operations", "telemetry.set_interval", "services.restart",
     "pfsense.set_password", "exec"}
MCAllowed ==
    {"agent.allowed_operations", "telemetry.set_interval", "services.restart",
     "pfsense.set_password", "vm.rebot"}
MCActions == {"services.restart", "pfsense.set_password"}
MCJobs == {"services.restart"}
MCRequests == {1, 2}
=============================================================================
