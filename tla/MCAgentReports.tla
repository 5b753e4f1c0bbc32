--------------------------- MODULE MCAgentReports ---------------------------
(* Small instances of AgentReports for TLC.                                *)
EXTENDS AgentReports

(* The parts of a sample, the identity, the presence connection, the       *)
(* receipt through a crash, and the stop with all workers.                 *)
MCFocuses ==
    {{"network", "legacy", "state"}, {"cpu", "state"}, {"tables", "state"},
     {"providers", "host"}, {"presence"},
     {"heartbeat", "state", "controller", "disk", "crash"},
     {"once", "stop", "controller", "disk", "crash"},
     {"console", "stop", "heartbeat", "host", "state"},
     {"service", "stop", "heartbeat", "host", "state", "controller"}}

(* The interfaces, without and with readings of the legacy table.          *)
MCNetwork == {{"network", "state"}}
MCLegacy == {{"network", "legacy", "state"}}
=============================================================================
