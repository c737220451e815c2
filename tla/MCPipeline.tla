---------------------------- MODULE MCPipeline -----------------------------
(* A small instance of Pipeline: two tools, the second of which can re-run *)
(* its units once.                                                         *)
EXTENDS Pipeline

SecondTool == {2}
=============================================================================
