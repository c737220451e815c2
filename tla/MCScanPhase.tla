---------------------------- MODULE MCScanPhase ----------------------------
(* Small instances of ScanPhase: three units, the first the longest, a    *)
(* pool that is larger than the gate at first, three commands.             *)
EXTENDS ScanPhase

PromptOf == [u \in Units |-> IF u = 1 THEN 2 ELSE 1]
=============================================================================
