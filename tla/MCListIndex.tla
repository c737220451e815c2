---------------------------- MODULE MCListIndex ----------------------------
(* Three defects.  Under the second profile the first is no longer listed *)
(* and the third is; the second run lost the second defect.               *)
EXTENDS ListIndex

MCListed == << << {1, 2}, {1} >>, << {2, 3}, {3} >> >>

(* The conversation builds the list as well as the job, but only the first *)
(* list of the first run, and until one of the two has put its file there. *)
FirstListOnly ==
    \A t \in Agents : pc[t] # "idle" =>
        runs = 1 /\ profile = 1 /\ decided = <<>> /\ kills = 0 /\ ~(Current /\ pc[Job] = "open")
=============================================================================
