---------------------------- MODULE MCProbeConfig ----------------------------
(* Small instances of ProbeConfig for TLC.                                 *)
EXTENDS ProbeConfig

(* No targets, or one: enough for a version with two different contents.   *)
MCContents == {{}, {"a"}}
=============================================================================
