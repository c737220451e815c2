---------------------------- MODULE MCReviewLane ----------------------------
(* A small instance of ReviewLane: one conversation, a plan of two tasks   *)
(* with room for one second look.                                          *)
EXTENDS ReviewLane

(* Requests that do not fit the window: every second one; or the first of  *)
(* every task but task 1, which may then ask twice.                        *)
SecondRequests == {p \in Prompts : p[2] = 2}
LaterTasks == {p \in Prompts : p[1] > 1 /\ p[2] = 1}
MCLengths == {SecondRequests, LaterTasks}
=============================================================================
