--------------------------- MODULE MCProbeUploader ---------------------------
(* Small instances of ProbeUploader for TLC.                               *)
EXTENDS ProbeUploader

MCBatchNames == 1..2
MCTempNames == {-2, -1}
MCBodySizes == {1}
=============================================================================
