---------------------------- MODULE MCProbeSpool ----------------------------
(* Small instances of ProbeSpool for TLC.                                  *)
EXTENDS ProbeSpool

MCBatchNames == 1..3
MCTempNames == {-2, -1}
MCBodySizes == {1, 5}
=============================================================================
