-------------------------- MODULE MCProbeScheduler --------------------------
(* Small instances of ProbeScheduler and ProbeRun for TLC.                 *)
EXTENDS ProbeScheduler

T(id, type, count, timeout, interval, address) ==
    [id |-> id, type |-> type, count |-> count, timeout |-> timeout,
     interval |-> interval, address |-> address]

U(scheme, host, port) == [scheme |-> scheme, host |-> host, port |-> port]

MCURLs == {U("https", "name", FALSE), U("http", "name", FALSE),
           U("http", "localhost", FALSE), U("http", "literal", TRUE),
           U("http", "unsafe", TRUE)}
MCPublic == {"p", "q"}
MCLoopback == {"l"}
MCUnsafe == {"u"}
MCAnswers == {{}, {"p"}, {"q"}, {"p", "u"}, {"l"}}

(* Three targets for two slots that one run affords, with values out of    *)
(* their range; three that it does not, one of them without an ID; three   *)
(* of which the second is cut and the third still fits; a round cut down   *)
(* to the samples that are left; and HTTP clients.                         *)
MCConfigs ==
    {<<T("a", "tcp", 1, 1, 1, "name"), T("b", "ping", 0, 1, 9, "name"),
       T("c", "tcp", 1, 0, 0, "invalid")>>,
     <<T("a", "tcp", 9, 7, 2, "name"), T("", "ping", 1, 1, 2, "loopback"),
       T("c", "other", 2, 1, 2, "name")>>,
     <<T("a", "tcp", 2, 1, 2, "name"), T("b", "tcp", 2, 2, 2, "unsafe"),
       T("c", "other", 1, 1, 2, "name")>>,
     <<T("a", "tcp", 3, 1, 2, "name"), T("h", "http", 2, 1, 2, U("https", "name", FALSE))>>,
     <<T("h", "http", 2, 1, 2, U("http", "localhost", FALSE))>>}

(* Three targets of which a run affords one.                               *)
MCCrowded ==
    {<<T("a", "tcp", 4, 1, 2, "name"), T("b", "tcp", 4, 1, 2, "name"),
       T("c", "tcp", 4, 1, 2, "name")>>}
=============================================================================
