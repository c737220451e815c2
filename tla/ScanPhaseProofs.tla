-------------------------- MODULE ScanPhaseProofs --------------------------
(***************************************************************************)
(* No unit is lost, no token is spent or given back twice and a dead       *)
(* endpoint is left alone, for any number of units, threads, slots, rounds *)
(* and commands.                                                           *)
(***************************************************************************)
EXTENDS ScanPhase, FiniteSetTheorems, TLAPS

(***************************************************************************)
(* The inductive invariant.                                                *)
(***************************************************************************)
(* A unit that is out has left a record, until an error ends the phase;    *)
(* between rounds all are out, and after an error none is still running.   *)
Recorded ==
    /\ phase # "failed" => \A u \in Units : at[u] = "out" => record[u] # "none"
    /\ phase = "failed" => \A u \in Units : at[u] \in {"out", "lost"}
    /\ phase \in {"between", "done"} => \A u \in Units : at[u] = "out"

(* The gate counts the units in it, and no more than the ceiling.          *)
Gated == active = Cardinality(At(InGate)) /\ active <= Ceiling

(* Units that have passed the breaker but not yet begun their session may  *)
(* still ask a dead endpoint: they count as well.                          *)
Broken ==
    BreakerLimit > 0 =>
        /\ ~breaker => consecutive < BreakerLimit
        /\ consecutive + Cardinality(At({"reserve", "session"})) <= BreakerLimit + Ceiling - 1

IInv == TypeOK /\ Recorded /\ Gated /\ CompletionsPaid /\ Broken

(***************************************************************************)
(* Counting.                                                               *)
(***************************************************************************)
LEMMA UnitsFinite ==
    ASSUME ScanAssumption, NEW places
    PROVE  /\ IsFiniteSet(At(places)) /\ Cardinality(At(places)) \in Nat
           /\ \A more : places \subseteq more => Cardinality(At(places)) <= Cardinality(At(more))
<1>1. IsFiniteSet(Units)
  BY FS_Interval DEF Units, ScanAssumption
<1>2. \A p : IsFiniteSet(At(p))
  BY <1>1, FS_Subset DEF At
<1>3. \A more : places \subseteq more => At(places) \subseteq At(more)
  BY DEF At
<1> QED
  BY <1>2, <1>3, FS_Subset, FS_CardinalityType

(* A step of one unit moves it from a place to another.                    *)
LEMMA Moved ==
    ASSUME ScanAssumption, at \in [Units -> Places], NEW u \in Units, NEW place \in Places, Move(u, place)
    PROVE  /\ at' \in [Units -> Places] /\ at'[u] = place /\ \A v \in Units \ {u} : at'[v] = at[v]
           /\ \A S : at[u] \in S /\ place \in S => At(S)' = At(S)
           /\ \A S : at[u] \notin S /\ place \notin S => At(S)' = At(S)
           /\ \A S : at[u] \in S /\ place \notin S =>
                Cardinality(At(S)') = Cardinality(At(S)) - 1 /\ Cardinality(At(S)) >= 1
           /\ \A S : at[u] \notin S /\ place \in S => Cardinality(At(S)') = Cardinality(At(S)) + 1
<1>1. at' \in [Units -> Places] /\ at'[u] = place /\ \A v \in Units \ {u} : at'[v] = at[v]
  BY DEF Move
<1>2. \A S : at[u] \in S /\ place \in S => At(S)' = At(S)
  BY <1>1 DEF At
<1>3. \A S : at[u] \notin S /\ place \notin S => At(S)' = At(S)
  BY <1>1 DEF At
<1>4. ASSUME NEW S, at[u] \in S, place \notin S
      PROVE  Cardinality(At(S)') = Cardinality(At(S)) - 1 /\ Cardinality(At(S)) >= 1
  <2>1. At(S)' = At(S) \ {u} /\ u \in At(S)
    BY <1>1, <1>4 DEF At
  <2>2. IsFiniteSet(At(S)) /\ Cardinality(At(S)) \in Nat
    BY UnitsFinite
  <2>3. Cardinality(At(S) \ {u}) = Cardinality(At(S)) - 1 /\ IsFiniteSet(At(S) \ {u})
    BY <2>1, <2>2, FS_RemoveElement
  <2>4. Cardinality(At(S) \ {u}) \in Nat
    BY <2>3, FS_CardinalityType
  <2> QED
    BY <2>1, <2>2, <2>3, <2>4
<1>5. ASSUME NEW S, at[u] \notin S, place \in S
      PROVE  Cardinality(At(S)') = Cardinality(At(S)) + 1
  <2>1. At(S)' = At(S) \cup {u} /\ u \notin At(S)
    BY <1>1, <1>5 DEF At
  <2> QED
    BY <2>1, UnitsFinite, FS_AddElement
<1> QED
  BY <1>1, <1>2, <1>3, <1>4, <1>5

(* A unit moves on without a record, leaves with one, or raises.           *)
Unrecorded(u, place) == Move(u, place) /\ UNCHANGED record
Leaves(u) == (\E status \in Statuses : Report(u, status)) \/ Unrecorded(u, "lost")
Gone(u) == Move(u, "out") \/ Move(u, "lost")

LEMMA LeavesGone ==
    ASSUME NEW u \in Units, Leaves(u)
    PROVE  Gone(u)
BY DEF Leaves, Gone, Report, Unrecorded

LEMMA Reported ==
    ASSUME ScanAssumption, TypeOK, NEW u \in Units, NEW status \in Statuses, Report(u, status)
    PROVE  /\ Move(u, "out") /\ record' \in [Units -> Statuses \cup {"none"}] /\ record'[u] = status /\ status # "none"
           /\ \A v \in Units \ {u} : record'[v] = record[v]
BY DEF Report, TypeOK, Statuses

(***************************************************************************)
(* The numbers a session leaves.                                           *)
(***************************************************************************)
LEMMA Settles ==
    ASSUME ScanAssumption, NEW n \in Nat, n >= 1, NEW tokens \in 0..Reservation + 1, NEW reported \in BOOLEAN,
           used \in Nat, reserved \in Nat, used + Reservation * n <= reserved
    PROVE  /\ reserved - Unused(reported, tokens) \in Nat /\ reserved - Unused(reported, tokens) <= reserved
           /\ used + Lesser(tokens, Reservation) \in Nat
           /\ used + Lesser(tokens, Reservation) + Reservation * (n - 1) <= reserved - Unused(reported, tokens)
<1>1. Reservation \in Nat /\ tokens \in Nat
  BY DEF ScanAssumption
<1> DEFINE L == Lesser(tokens, Reservation)
           U == Unused(reported, tokens)
<1>2. L \in Nat /\ L <= Reservation
  BY <1>1 DEF Lesser
<1>3. U \in Nat /\ U <= Reservation - L
  BY <1>1, <1>2 DEF Unused
<1>4. PICK m \in Nat : n = m + 1
  <2>1. n - 1 \in Nat /\ n = (n - 1) + 1
    OBVIOUS
  <2> QED
    BY <2>1
<1>5. Reservation * n = Reservation * m + Reservation /\ Reservation * m \in Nat
  BY <1>1, <1>4
<1>6. n - 1 = m
  BY <1>4
<1> DEFINE p == Reservation * m
<1>7. p \in Nat /\ used + (p + Reservation) <= reserved
  BY <1>5
<1> HIDE DEF L, U, p
<1>8. reserved - U \in Nat /\ reserved - U <= reserved /\ used + L \in Nat /\ used + L + p <= reserved - U
  BY <1>1, <1>2, <1>3, <1>7
<1> QED
  BY <1>6, <1>8 DEF L, U, p

LEMMA Counted ==
    ASSUME ScanAssumption, TypeOK, NEW how \in Outcomes
    PROVE  /\ Count(how) \in Nat /\ Count(how) <= consecutive + 1
           /\ how # "transport" => Count(how) <= consecutive
           /\ Trips(how) \in BOOLEAN
           /\ StatusOf[how] \in Statuses
<1>1. consecutive \in Nat
  BY DEF TypeOK
<1> QED
  BY <1>1 DEF Outcomes, Count, Trips, StatusOf, Statuses

(* What EndSession leaves, for the units that still have a session.        *)
LEMMA SessionLeaves ==
    ASSUME ScanAssumption, TypeOK, CompletionsPaid, NEW u \in Units, EndSession(u)
    PROVE  /\ at[u] = "session" /\ Gone(u) /\ Leaves(u) /\ LeaveGate
           /\ reserved' \in Nat /\ used' \in Nat /\ promptSpent' \in Nat /\ consecutive' \in Nat
           /\ breaker' \in BOOLEAN /\ cache' \subseteq Units
           /\ CompletionsPaid'
           /\ consecutive' <= consecutive + 1
           /\ BreakerLimit > 0 /\ ~breaker' /\ (~breaker => consecutive < BreakerLimit) => consecutive' < BreakerLimit
           /\ breaker => breaker'
           /\ UNCHANGED <<control, expired, rounds>>
<1> DEFINE n == Cardinality(At({"session"}))
<1>0. at[u] = "session" /\ LeaveGate /\ UNCHANGED <<control, expired, rounds>>
  BY DEF EndSession
<1>1. PICK how \in Outcomes, reported \in BOOLEAN, tokens \in 0..Reservation + 1 :
         /\ reserved' = reserved - Unused(reported, tokens)
         /\ used' = used + Lesser(tokens, Reservation)
         /\ promptSpent' = IF how = "transport" THEN promptSpent - Lesser(Prompt[u], promptSpent) ELSE promptSpent
         /\ consecutive' = Count(how)
         /\ breaker' = (breaker \/ Trips(how))
         /\ cache' \in IF how = "answered" THEN {cache, cache \cup {u}} ELSE {cache}
         /\ Report(u, StatusOf[how]) \/ Lose(u)
  BY DEF EndSession
<1>2. Leaves(u) /\ Gone(u)
  <2>1. StatusOf[how] \in Statuses
    BY Counted
  <2>2. Leaves(u)
    BY <1>1, <2>1 DEF Leaves, Lose, Unrecorded
  <2> QED
    BY <2>2, LeavesGone
<1>3. n \in Nat /\ n >= 1 /\ Cardinality(At({"session"})') = n - 1
  <2>1. at \in [Units -> Places] /\ "out" \in Places /\ "lost" \in Places
    BY DEF TypeOK, Places
  <2>2. \E place \in Places \ {"session"} : Move(u, place)
    BY <1>2, <2>1 DEF Gone
  <2> QED
    BY <1>0, <2>1, <2>2, Moved, UnitsFinite
<1>4. used \in Nat /\ reserved \in Nat /\ promptSpent \in Nat /\ consecutive \in Nat /\ breaker \in BOOLEAN /\ cache \subseteq Units
  BY DEF TypeOK
<1>5. used + Reservation * n <= reserved /\ reserved <= CompletionBudget
  BY DEF CompletionsPaid
<1> HIDE DEF n
<1>6. /\ reserved' \in Nat /\ reserved' <= reserved /\ used' \in Nat
      /\ used' + Reservation * (n - 1) <= reserved'
  BY <1>1, <1>3, <1>4, <1>5, Settles
<1>7. CompletionsPaid'
  <2>1. reserved' <= CompletionBudget
    BY <1>4, <1>5, <1>6 DEF ScanAssumption
  <2> QED
    BY <1>3, <1>6, <2>1 DEF CompletionsPaid
<1>8. promptSpent' \in Nat
  <2>1. Prompt[u] \in Nat
    BY DEF ScanAssumption
  <2> QED
    BY <1>1, <1>4, <2>1 DEF Lesser
<1>9. consecutive' \in Nat /\ breaker' \in BOOLEAN /\ consecutive' <= consecutive + 1
  BY <1>1, <1>4, Counted
<1>10. BreakerLimit > 0 /\ ~breaker' /\ (~breaker => consecutive < BreakerLimit) => consecutive' < BreakerLimit
  <2>0. ~breaker' => ~Trips(how)
    BY <1>1, Zenon
  <2>1. CASE how = "transport"
    <3>1. consecutive' = Count(how) /\ BreakerLimit \in Nat
      BY <1>1 DEF ScanAssumption
    <3>2. ~breaker' /\ BreakerLimit > 0 => ~(Count(how) >= BreakerLimit)
      BY <2>0, <2>1 DEF Trips
    <3> QED
      BY <1>9, <3>1, <3>2
  <2>2. CASE how # "transport"
    BY <1>1, <1>4, <1>9, <2>2, Counted DEF ScanAssumption
  <2> QED
    BY <2>1, <2>2
<1>11. cache' \subseteq Units
  BY <1>1, <1>4
<1> QED
  BY <1>0, <1>1, <1>2, <1>4, <1>6, <1>7, <1>8, <1>9, <1>10, <1>11

(***************************************************************************)
(* A step of a unit: from where, to where, and what it leaves alone.       *)
(***************************************************************************)
Ways(u) ==
    \/ Start(u) \/ Checkpoint(u) \/ Acquire(u) \/ GiveUp(u) \/ Admit(u) \/ Reserve(u) \/ EndReplay(u)

LEMMA WayOf ==
    ASSUME ScanAssumption, TypeOK, NEW u \in Units
    PROVE  /\ Start(u) => at[u] = "queued" /\ (Leaves(u) \/ Unrecorded(u, "checkpoint")) /\ UNCHANGED active
           /\ Checkpoint(u) => at[u] = "checkpoint" /\ (Leaves(u) \/ Unrecorded(u, "gate")) /\ UNCHANGED active
           /\ Acquire(u) => at[u] = "gate" /\ Unrecorded(u, "admit") /\ active < limit /\ active' = active + 1
           /\ GiveUp(u) => at[u] = "gate" /\ Leaves(u) /\ UNCHANGED active
           /\ Admit(u) => at[u] = "admit" /\ \/ Leaves(u) /\ LeaveGate
                                             \/ Unrecorded(u, "reserve") /\ UNCHANGED active /\ ~breaker
           /\ Reserve(u) => at[u] = "reserve" /\ \/ Leaves(u) /\ LeaveGate /\ UNCHANGED <<promptSpent, reserved>>
                                                 \/ /\ Fits(u) /\ UNCHANGED active
                                                    /\ Unrecorded(u, "replay") \/ Unrecorded(u, "session")
                                                    /\ promptSpent' = promptSpent + Prompt[u]
                                                    /\ reserved' = reserved + Reservation
           /\ EndReplay(u) => at[u] = "replay" /\ Leaves(u) /\ LeaveGate
                              /\ consecutive' \in Nat /\ consecutive' <= consecutive
<1> USE DEF Statuses, Leaves, Unrecorded
<1>1. Start(u) => at[u] = "queued" /\ (Leaves(u) \/ Unrecorded(u, "checkpoint")) /\ UNCHANGED active
  BY DEF Start, At
<1>2. Checkpoint(u) => at[u] = "checkpoint" /\ (Leaves(u) \/ Unrecorded(u, "gate")) /\ UNCHANGED active
  BY DEF Checkpoint
<1>3. Acquire(u) => at[u] = "gate" /\ Unrecorded(u, "admit") /\ active < limit /\ active' = active + 1
  BY DEF Acquire
<1>4. GiveUp(u) => at[u] = "gate" /\ Leaves(u) /\ UNCHANGED active
  BY DEF GiveUp
<1>5. Admit(u) => at[u] = "admit" /\ \/ Leaves(u) /\ LeaveGate
                                     \/ Unrecorded(u, "reserve") /\ UNCHANGED active /\ ~breaker
  BY DEF Admit, Refusal
<1>6. Reserve(u) => at[u] = "reserve" /\ \/ Leaves(u) /\ LeaveGate /\ UNCHANGED <<promptSpent, reserved>>
                                         \/ /\ Fits(u) /\ UNCHANGED active
                                            /\ Unrecorded(u, "replay") \/ Unrecorded(u, "session")
                                            /\ promptSpent' = promptSpent + Prompt[u]
                                            /\ reserved' = reserved + Reservation
  BY DEF Reserve
<1>7. ASSUME EndReplay(u)
      PROVE  at[u] = "replay" /\ Leaves(u) /\ LeaveGate /\ consecutive' \in Nat /\ consecutive' <= consecutive
  <2>1. PICK how \in {"answered", "failed", "interrupted"} :
                consecutive' = Count(how) /\ (Report(u, StatusOf[how]) \/ Lose(u))
    BY <1>7 DEF EndReplay
  <2>2. how \in Outcomes /\ how # "transport"
    BY DEF Outcomes
  <2>3. Count(how) \in Nat /\ Count(how) <= consecutive /\ StatusOf[how] \in Statuses
    BY <2>2, Counted
  <2>4. Leaves(u)
    BY <2>1, <2>3 DEF Lose
  <2> QED
    BY <1>7, <2>1, <2>3, <2>4 DEF EndReplay
<1> QED
  BY <1>1, <1>2, <1>3, <1>4, <1>5, <1>6, <1>7

LEMMA WayKeeps ==
    ASSUME NEW u \in Units, Ways(u)
    PROVE  /\ UNCHANGED <<control, cache, expired, used, breaker, rounds>>
           /\ Reserve(u) \/ UNCHANGED <<promptSpent, reserved>>
           /\ EndReplay(u) \/ UNCHANGED consecutive
BY DEF Ways, Start, Checkpoint, Acquire, GiveUp, Admit, Reserve, EndReplay, budget, trip

(* Where a step of a unit leads.                                           *)
LEMMA Goes ==
    ASSUME ScanAssumption, TypeOK, CompletionsPaid, NEW u \in Units, Thread(u)
    PROVE  /\ at' \in [Units -> Places] /\ record' \in [Units -> Statuses \cup {"none"}]
           /\ \A v \in Units \ {u} : at'[v] = at[v] /\ record'[v] = record[v]
           /\ at[u] # "out" /\ (at'[u] = "out" => record'[u] # "none")
<1>1. (\E status \in Statuses : Report(u, status)) \/ \E place \in Places \ {"out"} : Unrecorded(u, place)
  <2>1. Leaves(u) \/ \E place \in Places \ {"out"} : Unrecorded(u, place)
    BY WayOf, SessionLeaves DEF Thread, Places
  <2> QED
    BY <2>1 DEF Leaves, Places
<1>2. at \in [Units -> Places] /\ record \in [Units -> Statuses \cup {"none"}] /\ "out" \in Places
  BY DEF TypeOK, Places
<1>3. at[u] # "out"
  BY WayOf, SessionLeaves DEF Thread
<1>4. CASE \E status \in Statuses : Report(u, status)
  <2>1. PICK status \in Statuses : Report(u, status)
    BY <1>4
  <2>2. Move(u, "out") /\ record' \in [Units -> Statuses \cup {"none"}] /\ record'[u] # "none"
        /\ \A v \in Units \ {u} : record'[v] = record[v]
    BY <2>1, Reported
  <2>3. at' \in [Units -> Places] /\ \A v \in Units \ {u} : at'[v] = at[v]
    BY <1>2, <2>2, Moved
  <2> QED
    BY <1>3, <2>2, <2>3
<1>5. CASE \E place \in Places \ {"out"} : Unrecorded(u, place)
  <2>1. PICK place \in Places \ {"out"} : Move(u, place) /\ UNCHANGED record
    BY <1>5 DEF Unrecorded
  <2>2. at' \in [Units -> Places] /\ at'[u] = place /\ \A v \in Units \ {u} : at'[v] = at[v]
    BY <1>2, <2>1, Moved
  <2> QED
    BY <1>2, <1>3, <2>1, <2>2
<1> QED
  BY <1>1, <1>4, <1>5

(***************************************************************************)
(* Types.                                                                  *)
(***************************************************************************)
LEMMA TypesStart == ScanAssumption /\ Init => IInv
<1> SUFFICES ASSUME ScanAssumption, Init PROVE IInv
  OBVIOUS
<1>1. TypeOK
  <2>1. at \in [Units -> Places] /\ record \in [Units -> Statuses \cup {"none"}]
    BY DEF Init, Places
  <2>2. limit \in 1..Ceiling /\ commands \in 0..MaxCommands /\ retries \in 0..Rounds /\ active \in Nat
    BY DEF Init, ScanAssumption
  <2>3. {promptSpent, reserved, used, consecutive} \subseteq Nat
    BY DEF Init
  <2>4. skipped \subseteq Units /\ cache \subseteq Units /\ named \subseteq Units
    BY DEF Init, ScanAssumption
  <2> QED
    BY <2>1, <2>2, <2>3, <2>4 DEF Init, TypeOK
<1>2. \A S : "queued" \notin S => Cardinality(At(S)) = 0
  <2>1. \A S : "queued" \notin S => At(S) = {}
    BY DEF Init, At
  <2> QED
    BY <2>1, FS_EmptySet
<1>3. Recorded
  BY DEF Init, Recorded
<1>4. Gated
  BY <1>2 DEF Init, Gated, InGate, ScanAssumption
<1>5. CompletionsPaid
  <2>1. Cardinality(At({"session"})) = 0 /\ Reservation * 0 = 0
    BY <1>2 DEF ScanAssumption
  <2> QED
    BY <2>1 DEF Init, CompletionsPaid, ScanAssumption
<1>6. Broken
  BY <1>2 DEF Init, Broken, ScanAssumption
<1> QED
  BY <1>1, <1>3, <1>4, <1>5, <1>6 DEF IInv

LEMMA TypesThread ==
    ASSUME ScanAssumption, TypeOK, Gated, CompletionsPaid, NEW u \in Units, Thread(u)
    PROVE  TypeOK'
<1>1. at' \in [Units -> Places] /\ record' \in [Units -> Statuses \cup {"none"}]
  BY Goes
<1>2. active' \in Nat
  BY WayOf, SessionLeaves DEF Thread, LeaveGate, TypeOK
<1>3. CASE EndSession(u)
  BY <1>1, <1>2, <1>3, SessionLeaves DEF TypeOK, control, rounds
<1>4. CASE Ways(u)
  <2>1. UNCHANGED <<control, cache, expired, used, breaker, rounds>>
    BY <1>4, WayKeeps
  <2>2. consecutive' \in Nat
    BY <1>4, WayKeeps, WayOf DEF TypeOK
  <2>3. promptSpent' \in Nat /\ reserved' \in Nat
    <3>1. promptSpent \in Nat /\ reserved \in Nat /\ Prompt[u] \in Nat /\ Reservation \in Nat
      BY DEF TypeOK, ScanAssumption
    <3> QED
      BY <1>4, <3>1, WayKeeps, WayOf
  <2> QED
    BY <1>1, <1>2, <2>1, <2>2, <2>3 DEF TypeOK, control, rounds
<1> QED
  BY <1>3, <1>4 DEF Thread, Ways

LEMMA TypesMain ==
    ASSUME ScanAssumption, TypeOK, Main
    PROVE  TypeOK'
<1>1. CASE RoundOver \/ Finish
  BY <1>1 DEF RoundOver, Finish, TypeOK, control, budget, trip
<1>2. CASE Retry
  <2>1. at' \in [Units -> Places]
    BY <1>2 DEF Retry, TypeOK, Places
  <2>2. retries' \in 0..Rounds
    BY <1>2 DEF Retry, TypeOK, ScanAssumption
  <2>3. breaker' \in BOOLEAN /\ consecutive' \in Nat /\ phase' \in {"round", "between", "done", "failing", "failed"}
    <3>1. \/ UNCHANGED <<phase, consecutive, breaker>>
          \/ phase' = "round" /\ consecutive' = 0 /\ breaker' = FALSE
      BY <1>2, Zenon DEF Retry, trip
    <3>2. breaker \in BOOLEAN /\ consecutive \in Nat /\ phase \in {"round", "between", "done", "failing", "failed"}
      BY DEF TypeOK
    <3>3. CASE UNCHANGED <<phase, consecutive, breaker>>
      BY <3>2, <3>3
    <3>4. CASE phase' = "round" /\ consecutive' = 0 /\ breaker' = FALSE
      BY <3>4
    <3> QED
      BY <3>1, <3>3, <3>4
  <2>4. retry' = "none" /\ named' = {}
        /\ UNCHANGED <<paused, cancelled, skipped, limit, commands, active, record, cache, expired>>
        /\ UNCHANGED <<promptSpent, reserved, used>>
    BY <1>2 DEF Retry, budget
  <2> QED
    BY <2>1, <2>2, <2>3, <2>4 DEF TypeOK
<1>3. CASE Abort
  <2>1. at' \in [Units -> Places]
    BY <1>3 DEF Abort, TypeOK, Places
  <2> QED
    BY <1>3, <2>1 DEF Abort, TypeOK, control, budget, trip
<1>4. CASE Fail
  <2>1. record' \in [Units -> Statuses \cup {"none"}]
    BY <1>4 DEF Fail
  <2> QED
    BY <1>4, <2>1 DEF Fail, TypeOK, control, budget, trip
<1> QED
  BY <1>1, <1>2, <1>3, <1>4 DEF Main

LEMMA TypesOperator ==
    ASSUME ScanAssumption, TypeOK, Operator
    PROVE  TypeOK'
<1>1. commands' \in 0..MaxCommands /\ UNCHANGED <<active, at, record, cache, expired, budget, trip, rounds>>
  BY DEF Operator, Pause, Resume, Cancel, Skip, SetJobs, RequestRetry, Steer, TypeOK, ScanAssumption
<1>2. paused' \in BOOLEAN /\ cancelled' \in BOOLEAN /\ skipped' \subseteq Units /\ limit' \in 1..Ceiling
  BY DEF Operator, Pause, Resume, Cancel, Skip, SetJobs, RequestRetry, TypeOK, ScanAssumption
<1>3. retry' \in {"none", "failed", "named"} /\ named' \subseteq Units
  BY DEF Operator, Pause, Resume, Cancel, Skip, SetJobs, RequestRetry, TypeOK, ScanAssumption
<1> QED
  BY <1>1, <1>2, <1>3 DEF TypeOK, budget, trip, rounds

(***************************************************************************)
(* The parts, over a unit's step.                                          *)
(***************************************************************************)
LEMMA RecordedThread ==
    ASSUME ScanAssumption, TypeOK, Recorded, CompletionsPaid, NEW u \in Units, Thread(u)
    PROVE  Recorded'
<1>1. UNCHANGED rounds
  BY WayKeeps, SessionLeaves DEF Thread, Ways
<1>2. phase' = phase
  BY <1>1 DEF rounds
<1>3. phase \notin {"between", "done"}
  BY Goes DEF Recorded
<1>4. phase # "failed"
  <2>1. at[u] \notin {"out", "lost"}
    BY WayOf, SessionLeaves DEF Thread
  <2> QED
    BY <2>1 DEF Recorded
<1> QED
  BY <1>2, <1>3, <1>4, Goes DEF Recorded

LEMMA GatedThread ==
    ASSUME ScanAssumption, TypeOK, Gated, CompletionsPaid, NEW u \in Units, Thread(u)
    PROVE  Gated'
<1> DEFINE n == Cardinality(At(InGate))
<1>0. active = n /\ n \in Nat /\ n <= Ceiling /\ limit \in 1..Ceiling
  BY UnitsFinite DEF Gated, TypeOK
<1>1. at \in [Units -> Places] /\ {"out", "lost", "checkpoint", "gate", "admit", "reserve", "replay", "session"} \subseteq Places
  BY DEF TypeOK, Places
<1>2. \A place \in Places : Move(u, place) =>
        /\ at[u] \in InGate /\ place \in InGate => At(InGate)' = At(InGate)
        /\ at[u] \notin InGate /\ place \notin InGate => At(InGate)' = At(InGate)
        /\ at[u] \in InGate /\ place \notin InGate => Cardinality(At(InGate)') = n - 1 /\ n >= 1
        /\ at[u] \notin InGate /\ place \in InGate => Cardinality(At(InGate)') = n + 1
  BY <1>1, Moved
<1>3. Leaves(u) => Move(u, "out") \/ Move(u, "lost")
  BY LeavesGone DEF Gone
<1>4. (Cardinality(At(InGate)) = n)
  OBVIOUS
<1> HIDE DEF n
<1>5. CASE Start(u) \/ Checkpoint(u) \/ GiveUp(u)
  <2>1. at[u] \notin InGate /\ UNCHANGED active /\ (Gone(u) \/ Move(u, "checkpoint") \/ Move(u, "gate"))
    BY <1>5, LeavesGone, WayOf DEF InGate, Unrecorded
  <2> QED
    BY <1>0, <1>1, <1>2, <1>4, <2>1 DEF Gated, Gone, InGate
<1>6. CASE Acquire(u)
  <2>1. at[u] \notin InGate /\ Move(u, "admit") /\ active < limit /\ active' = active + 1
    BY <1>6, WayOf DEF InGate, Unrecorded
  <2>2. Cardinality(At(InGate)') = n + 1
    BY <1>1, <1>2, <2>1 DEF InGate
  <2> QED
    BY <1>0, <2>1, <2>2 DEF Gated, ScanAssumption
<1>7. CASE Admit(u) \/ Reserve(u) \/ EndReplay(u) \/ EndSession(u)
  <2>1. /\ at[u] \in InGate
        /\ \/ Gone(u) /\ LeaveGate
           \/ (Move(u, "reserve") \/ Move(u, "replay") \/ Move(u, "session")) /\ UNCHANGED active
    BY <1>7, LeavesGone, WayOf, SessionLeaves DEF InGate, Unrecorded
  <2>2. CASE Gone(u) /\ LeaveGate
    <3>1. Cardinality(At(InGate)') = n - 1 /\ n >= 1
      BY <1>1, <1>2, <2>1, <2>2 DEF Gone, InGate
    <3> QED
      BY <1>0, <2>2, <3>1 DEF Gated, LeaveGate, ScanAssumption
  <2>3. CASE (Move(u, "reserve") \/ Move(u, "replay") \/ Move(u, "session")) /\ UNCHANGED active
    <3>1. At(InGate)' = At(InGate)
      BY <1>1, <1>2, <2>1, <2>3 DEF InGate
    <3> QED
      BY <1>0, <1>4, <2>3, <3>1 DEF Gated
  <2> QED
    BY <2>1, <2>2, <2>3
<1> QED
  BY <1>5, <1>6, <1>7 DEF Thread

LEMMA CompletionsThread ==
    ASSUME ScanAssumption, TypeOK, CompletionsPaid, NEW u \in Units, Thread(u)
    PROVE  CompletionsPaid'
<1> DEFINE n == Cardinality(At({"session"}))
<1>0. n \in Nat /\ Cardinality(At({"session"})) = n
  BY UnitsFinite
<1>1. at \in [Units -> Places] /\ {"out", "lost", "checkpoint", "gate", "admit", "reserve", "replay", "session"} \subseteq Places
  BY DEF TypeOK, Places
<1>2. Leaves(u) => Move(u, "out") \/ Move(u, "lost")
  BY LeavesGone DEF Gone
<1>3. used \in Nat /\ reserved \in Nat /\ used + Reservation * n <= reserved /\ reserved <= CompletionBudget
  BY DEF TypeOK, CompletionsPaid
<1>4. \A place \in Places \ {"session"} : at[u] # "session" /\ Move(u, place) => At({"session"})' = At({"session"})
  BY <1>1, Moved
<1> HIDE DEF n
<1>5. CASE EndSession(u)
  BY <1>5, SessionLeaves
<1>6. CASE Start(u) \/ Checkpoint(u) \/ Acquire(u) \/ GiveUp(u) \/ Admit(u) \/ EndReplay(u)
  <2>1. UNCHANGED <<used, reserved>>
    BY <1>6 DEF Start, Checkpoint, Acquire, GiveUp, Admit, EndReplay, budget
  <2>2. at[u] # "session" /\ \E place \in Places \ {"session"} : Move(u, place)
    BY <1>1, <1>2, <1>6, WayOf DEF Unrecorded
  <2>3. At({"session"})' = At({"session"})
    BY <1>4, <2>2
  <2> QED
    BY <1>3, <1>0, <2>1, <2>3 DEF CompletionsPaid
<1>7. CASE Reserve(u)
  <2>1. at[u] = "reserve" /\ UNCHANGED used
    BY <1>7, WayOf, WayKeeps DEF Ways
  <2>2. CASE Leaves(u) /\ UNCHANGED <<promptSpent, reserved>>
    <3>1. At({"session"})' = At({"session"})
      BY <1>1, <1>2, <1>4, <2>1, <2>2
    <3> QED
      BY <1>0, <1>3, <2>1, <2>2, <3>1 DEF CompletionsPaid
  <2>3. CASE Fits(u) /\ (Unrecorded(u, "replay") \/ Unrecorded(u, "session")) /\ reserved' = reserved + Reservation
    <3>1. reserved' <= CompletionBudget /\ reserved' = reserved + Reservation /\ Reservation \in Nat /\ reserved' \in Nat
      BY <1>3, <2>3 DEF Fits, ScanAssumption
    <3>2. Cardinality(At({"session"})') \in {n, n + 1}
      BY <1>0, <1>1, <1>4, <2>1, <2>3, Moved DEF Unrecorded
    <3>3. Reservation * (n + 1) = Reservation * n + Reservation /\ Reservation * n \in Nat
      BY <1>0, <3>1
    <3> DEFINE p == Reservation * n
    <3>4. p \in Nat /\ used + p <= reserved /\ Reservation * (n + 1) = p + Reservation
      BY <1>3, <3>3
    <3> HIDE DEF p
    <3>5. used + p <= reserved' /\ used + (p + Reservation) <= reserved'
      BY <1>3, <3>1, <3>4
    <3>6. used' + Reservation * Cardinality(At({"session"})') <= reserved'
      BY <2>1, <3>2, <3>4, <3>5 DEF p
    <3> QED
      BY <3>1, <3>6 DEF CompletionsPaid
  <2> QED
    BY <1>7, <2>2, <2>3, WayOf
<1> QED
  BY <1>5, <1>6, <1>7 DEF Thread

(* Failures counted and sessions open, while both change.                  *)
LEMMA Sums ==
    ASSUME NEW c \in Nat, NEW d \in Nat, NEW n \in Nat, NEW m, NEW fails \in Nat, NEW ceiling \in Nat,
           c + n <= fails + ceiling - 1
    PROVE  /\ d <= c + 1 /\ m = n - 1 => d + m <= fails + ceiling - 1
           /\ d <= c /\ (m = n \/ m = n - 1) => d + m <= fails + ceiling - 1
           /\ d < fails /\ m \in Nat /\ m <= ceiling => d + m <= fails + ceiling - 1
OBVIOUS

LEMMA BrokenThread ==
    ASSUME ScanAssumption, TypeOK, Gated, CompletionsPaid, Broken, NEW u \in Units, Thread(u)
    PROVE  Broken'
<1> SUFFICES ASSUME BreakerLimit > 0
             PROVE  /\ ~breaker' => consecutive' < BreakerLimit
                    /\ consecutive' + Cardinality(At({"reserve", "session"})') <= BreakerLimit + Ceiling - 1
  BY DEF Broken
<1> DEFINE S == {"reserve", "session"}
           n == Cardinality(At(S))
           m == Cardinality(At(S)')
<1>0. n \in Nat /\ Cardinality(At(S)) = n /\ Cardinality(At({"reserve", "session"})') = m
  BY UnitsFinite
<1>1. at \in [Units -> Places] /\ {"out", "lost", "checkpoint", "gate", "admit", "reserve", "replay", "session"} \subseteq Places
  BY DEF TypeOK, Places
<1>2. Leaves(u) => Move(u, "out") \/ Move(u, "lost")
  BY LeavesGone DEF Gone
<1>3. /\ BreakerLimit \in Nat /\ Ceiling \in Nat /\ Ceiling > 0 /\ consecutive \in Nat /\ breaker \in BOOLEAN
      /\ ~breaker => consecutive < BreakerLimit
      /\ consecutive + n <= BreakerLimit + Ceiling - 1
  BY DEF ScanAssumption, TypeOK, Broken
<1>b. consecutive \in Nat /\ BreakerLimit \in Nat /\ Ceiling \in Nat /\ consecutive + n <= BreakerLimit + Ceiling - 1
  BY <1>3
<1>4. \A place \in Places : Move(u, place) =>
        /\ (at[u] \in S <=> place \in S) => m = n
        /\ at[u] \in S /\ place \notin S => m = n - 1
  BY <1>1, Moved
<1> HIDE DEF n, m
<1>5. CASE EndSession(u)
  <2>1. m = n - 1
    BY <1>1, <1>4, <1>5, SessionLeaves DEF Gone
  <2>2. consecutive' \in Nat /\ consecutive' <= consecutive + 1 /\ (~breaker' => consecutive' < BreakerLimit)
    BY <1>3, <1>5, SessionLeaves
  <2>3. consecutive' + m <= BreakerLimit + Ceiling - 1
    <3>1. consecutive' \in Nat /\ consecutive' <= consecutive + 1 /\ n \in Nat
      BY <1>0, <2>2
    <3> QED
      BY <1>b, <2>1, <3>1, Sums
  <2> QED
    BY <1>0, <2>2, <2>3
<1>6. CASE Ways(u)
  <2>1. UNCHANGED breaker /\ consecutive' \in Nat /\ consecutive' <= consecutive
    BY <1>3, <1>6, WayKeeps, WayOf
  <2>2. ~breaker' => consecutive' < BreakerLimit
    BY <1>3, <2>1
  <2>3. CASE Admit(u) /\ Unrecorded(u, "reserve") /\ ~breaker
    <3>1. At(S)' \subseteq At(InGate) /\ IsFiniteSet(At(InGate))
      <4>1. at[u] = "admit" /\ Move(u, "reserve")
        BY <2>3, WayOf DEF Unrecorded
      <4>2. at'[u] = "reserve" /\ \A v \in Units \ {u} : at'[v] = at[v]
        BY <1>1, <4>1, Moved
      <4> QED
        BY <4>1, <4>2, UnitsFinite DEF At, InGate
    <3>2. m <= Cardinality(At(InGate)) /\ m \in Nat
      BY <3>1, FS_Subset, FS_CardinalityType DEF m
    <3>3. m <= Ceiling
      BY <1>3, <3>2 DEF Gated, TypeOK
    <3>4. consecutive' < BreakerLimit
      BY <2>2, <2>1, <2>3
    <3>5. consecutive' + m <= BreakerLimit + Ceiling - 1
      <4>1. consecutive' \in Nat
        BY <2>1
      <4>2. n \in Nat
        BY <1>0
      <4> QED
        BY <1>b, <3>2, <3>3, <3>4, <4>1, <4>2, Sums
    <3> QED
      BY <1>0, <2>2, <3>5
  <2>4. CASE ~(Admit(u) /\ Unrecorded(u, "reserve") /\ ~breaker)
    <3>1. \E place \in Places : Move(u, place) /\ (place \in S => at[u] \in S)
      BY <1>1, <1>2, <1>6, <2>4, WayOf DEF Ways, Unrecorded
    <3>2. m = n \/ m = n - 1
      BY <1>4, <3>1
    <3> QED
      BY <1>0, <1>3, <2>1, <2>2, <3>2
  <2> QED
    BY <2>3, <2>4
<1> QED
  BY <1>5, <1>6 DEF Thread, Ways

(***************************************************************************)
(* The invariant.                                                          *)
(***************************************************************************)
(* The units and the budgets stay as they are.                             *)
LEMMA Still ==
    ASSUME IInv, TypeOK', UNCHANGED <<at, record, active, phase, used, reserved, breaker, consecutive>>
    PROVE  IInv'
BY DEF IInv, Recorded, Gated, CompletionsPaid, Broken, At

(* An error takes none but the waiting out of a round.                     *)
LEMMA AbortMoves ==
    ASSUME Abort, NEW S, "queued" \notin S, "lost" \notin S
    PROVE  At(S)' = At(S)
<1>1. \A u \in Units : at'[u] = IF at[u] = "queued" THEN "lost" ELSE at[u]
  BY DEF Abort
<1> QED
  BY <1>1 DEF At

(* Nobody is in the gate when a round ends.                                *)
LEMMA MainStep ==
    ASSUME ScanAssumption, IInv, Main
    PROVE  IInv'
<1>1. TypeOK'
  BY TypesMain DEF IInv
<1>2. CASE RoundOver \/ Finish
  <2>1. \A u \in Units : at[u] = "out"
    BY <1>2 DEF RoundOver, Finish, IInv, Recorded
  <2>2. UNCHANGED <<at, record, active, used, reserved, breaker, consecutive>>
    BY <1>2 DEF RoundOver, Finish, control, budget, trip
  <2>3. phase \in {"round", "between"} /\ phase' \in {"between", "done"}
    BY <1>2 DEF RoundOver, Finish
  <2>4. Recorded'
    BY <2>1, <2>2, <2>3 DEF IInv, Recorded
  <2> QED
    BY <1>1, <2>2, <2>4 DEF IInv, Gated, CompletionsPaid, Broken, At
<1>3. CASE Retry
  <2>1. \A u \in Units : at[u] = "out" /\ record[u] # "none"
    BY <1>3 DEF Retry, IInv, Recorded
  <2>2. UNCHANGED <<active, record, used, reserved>>
    BY <1>3 DEF Retry, budget
  <2>3. /\ \A u \in Units : at'[u] = "out" \/ (at'[u] = "queued" /\ phase' = "round")
        /\ UNCHANGED <<consecutive, breaker>> \/ (consecutive' = 0 /\ breaker' = FALSE)
    BY <1>3, <2>1 DEF Retry, trip
  <2>4. \A S : "out" \notin S /\ "queued" \notin S => At(S) = {} /\ At(S)' = {}
    BY <2>1, <2>3 DEF At
  <2>5. At(InGate) = {} /\ At(InGate)' = {} /\ At({"session"}) = {} /\ At({"session"})' = {}
        /\ At({"reserve", "session"}) = {} /\ At({"reserve", "session"})' = {}
    BY <2>4 DEF InGate
  <2>6. Recorded'
    BY <2>1, <2>2, <2>3 DEF Recorded
  <2>7. Gated' /\ CompletionsPaid'
    BY <2>2, <2>5 DEF IInv, Gated, CompletionsPaid
  <2>8. Broken'
    <3>1. Cardinality(At({"reserve", "session"})') = 0 /\ Cardinality(At({"reserve", "session"})) = 0
      BY <2>5, FS_EmptySet
    <3>2. CASE UNCHANGED <<consecutive, breaker>>
      BY <3>1, <3>2 DEF IInv, Broken
    <3>3. CASE consecutive' = 0 /\ breaker' = FALSE
      BY <3>1, <3>3 DEF Broken, ScanAssumption
    <3> QED
      BY <2>3, <3>2, <3>3
  <2> QED
    BY <1>1, <2>6, <2>7, <2>8 DEF IInv
<1>4. CASE Abort
  <2>1. \A S : "queued" \notin S /\ "lost" \notin S => At(S)' = At(S)
    BY <1>4, AbortMoves
  <2>2. UNCHANGED <<active, record, used, reserved, consecutive, breaker>> /\ phase = "round" /\ phase' = "failing"
    BY <1>4 DEF Abort, budget, trip
  <2>3. Recorded'
    <3>1. \A u \in Units : at'[u] = "out" => at[u] = "out"
      BY <1>4 DEF Abort
    <3> QED
      BY <2>2, <3>1 DEF IInv, Recorded
  <2>4. At(InGate)' = At(InGate) /\ At({"session"})' = At({"session"})
        /\ At({"reserve", "session"})' = At({"reserve", "session"})
    BY <2>1 DEF InGate
  <2>5. Gated' /\ CompletionsPaid' /\ Broken'
    BY <2>2, <2>4 DEF IInv, Gated, CompletionsPaid, Broken
  <2> QED
    BY <1>1, <2>3, <2>5 DEF IInv
<1>5. CASE Fail
  <2>1. (\A u \in Units : at[u] \in {"out", "lost"}) /\ phase' = "failed"
    BY <1>5 DEF Fail
  <2>2. UNCHANGED <<at, active, used, reserved, breaker, consecutive>>
    BY <1>5 DEF Fail, control, budget, trip
  <2> QED
    BY <1>1, <2>1, <2>2 DEF IInv, Recorded, Gated, CompletionsPaid, Broken, At
<1> QED
  BY <1>2, <1>3, <1>4, <1>5 DEF Main

LEMMA StepOrStutter ==
    ASSUME ScanAssumption, IInv, [Next]_vars
    PROVE  IInv'
<1>1. CASE \E u \in Units : Thread(u)
  BY <1>1, TypesThread, RecordedThread, GatedThread, CompletionsThread, BrokenThread DEF IInv
<1>2. CASE Main
  BY <1>2, MainStep
<1>3. CASE Operator
  <2>1. UNCHANGED <<active, at, record, cache, expired, budget, trip, rounds>>
    BY <1>3 DEF Operator, Pause, Resume, Cancel, Skip, SetJobs, RequestRetry, Steer
  <2> QED
    BY <1>3, <2>1, TypesOperator, Still DEF IInv, budget, trip, rounds
<1>4. CASE Expire
  <2>1. TypeOK'
    BY <1>4 DEF Expire, IInv, TypeOK, control, budget, trip, rounds
  <2> QED
    BY <1>4, <2>1, Still DEF Expire, budget, trip, rounds
<1>5. CASE UNCHANGED vars
  <2>1. TypeOK'
    BY <1>5 DEF vars, IInv, TypeOK, control, budget, trip, rounds
  <2> QED
    BY <1>5, <2>1, Still DEF vars, budget, trip, rounds
<1> QED
  BY <1>1, <1>2, <1>3, <1>4, <1>5 DEF Next, Threads

(* The invariant holds in every state of every phase.                      *)
THEOREM Inductive == ScanAssumption /\ Spec => []IInv
<1> SUFFICES ASSUME ScanAssumption PROVE Spec => []IInv
  OBVIOUS
<1>1. Init => IInv
  BY TypesStart
<1>2. IInv /\ [Next]_vars => IInv'
  BY StepOrStutter
<1> QED
  BY <1>1, <1>2, PTL DEF Spec

(* Once a round is over every unit has a record, whatever was skipped,     *)
(* refused, stopped or retried on the way; a round in which a unit's       *)
(* thread raised is never over, and the phase keeps none of its records.   *)
THEOREM NoneLost == ScanAssumption /\ Spec => []NeverLost
<1>1. IInv => NeverLost
  BY DEF IInv, Recorded, NeverLost
<1> QED
  BY <1>1, Inductive, PTL

(***************************************************************************)
(* The prompts.                                                            *)
(***************************************************************************)
LEMMA PromptTokensFinite ==
    ASSUME ScanAssumption, NEW units \in SUBSET Units
    PROVE  IsFiniteSet(PromptTokens(units)) /\ Cardinality(PromptTokens(units)) \in Nat
<1> DEFINE prompts == {{u} \X (1..Prompt[u]) : u \in units}
           f == [u \in units |-> {u} \X (1..Prompt[u])]
<1>1. IsFiniteSet(units)
  <2>1. IsFiniteSet(Units)
    BY FS_Interval DEF Units, ScanAssumption
  <2> QED
    BY <2>1, FS_Subset
<1>2. f \in Surjection(units, prompts)
  <2>1. f \in [units -> prompts]
    OBVIOUS
  <2>2. \A p \in prompts : \E u \in units : f[u] = p
    OBVIOUS
  <2> QED
    BY <2>1, <2>2 DEF Surjection
<1>3. IsFiniteSet(prompts)
  BY <1>1, <1>2, FS_Surjection
<1>4. ASSUME NEW u \in units PROVE IsFiniteSet({u} \X (1..Prompt[u]))
  <2>1. Prompt[u] \in Int
    BY DEF ScanAssumption
  <2>2. IsFiniteSet(1..Prompt[u])
    BY <2>1, 1 \in Int, FS_Interval
  <2>3. IsFiniteSet({u})
    BY FS_Singleton
  <2> QED
    BY <2>2, <2>3, FS_Product
<1>5. \A T \in prompts : IsFiniteSet(T)
  BY <1>4
<1>6. IsFiniteSet(UNION prompts)
  <2> HIDE DEF prompts
  <2> QED
    BY <1>3, <1>5, FS_UNION
<1> QED
  BY <1>6, FS_CardinalityType DEF PromptTokens

(* One unit more, and its prompt's tokens with it.                         *)
LEMMA PromptTokensAdd ==
    ASSUME ScanAssumption, NEW units \in SUBSET Units, NEW u \in Units \ units
    PROVE  Cardinality(PromptTokens(units \cup {u})) = Cardinality(PromptTokens(units)) + Prompt[u]
<1> DEFINE S == PromptTokens(units)
           T == {u} \X (1..Prompt[u])
<1>1. PromptTokens(units \cup {u}) = S \cup T
  BY DEF PromptTokens
<1>2. S \cap T = {}
  BY DEF PromptTokens
<1>3. IsFiniteSet(S) /\ Cardinality(S) \in Nat
  BY PromptTokensFinite
<1>4. IsFiniteSet(T) /\ Cardinality(T) = Prompt[u] /\ Prompt[u] \in Nat
  <2>1. Prompt[u] \in Nat
    BY DEF ScanAssumption
  <2>2. IsFiniteSet({u}) /\ Cardinality({u}) = 1
    BY FS_Singleton
  <2>3. IsFiniteSet(1..Prompt[u]) /\ Cardinality(1..Prompt[u]) = Prompt[u]
    BY <2>1, FS_Interval
  <2>4. IsFiniteSet(T) /\ Cardinality(T) = 1 * Prompt[u]
    BY <2>2, <2>3, FS_Product
  <2> QED
    BY <2>1, <2>4
<1> HIDE DEF S, T
<1>5. Cardinality(S \cup T) = Cardinality(S) + Cardinality(T) - Cardinality(S \cap T) /\ Cardinality(S \cap T) = 0
  BY <1>2, <1>3, <1>4, FS_Union, FS_EmptySet
<1>6. Cardinality(S \cup T) = Cardinality(S) + Prompt[u]
  BY <1>3, <1>4, <1>5
<1> QED
  BY <1>1, <1>6 DEF S

LEMMA PromptsThread ==
    ASSUME ScanAssumption, TypeOK, CompletionsPaid, PromptsPaid, NEW u \in Units, Thread(u)
    PROVE  PromptsPaid'
<1> DEFINE open == At({"session"})
           c(units) == Cardinality(PromptTokens(units))
<1>1. at \in [Units -> Places] /\ {"out", "lost", "checkpoint", "gate", "admit", "reserve", "replay", "session"} \subseteq Places
  BY DEF TypeOK, Places
<1>2. Leaves(u) => Move(u, "out") \/ Move(u, "lost")
  BY LeavesGone DEF Gone
<1>3. /\ promptSpent \in Nat /\ PromptBudget \in Nat /\ Prompt[u] \in Nat /\ open \in SUBSET Units
      /\ c(open) \in Nat /\ c(open) <= promptSpent /\ promptSpent <= PromptBudget
  <2>1. open \in SUBSET Units
    BY DEF At
  <2> QED
    BY <2>1, PromptTokensFinite DEF TypeOK, ScanAssumption, PromptsPaid
<1>4. \A place \in Places \ {"session"} : at[u] # "session" /\ Move(u, place) => open' = open
  BY <1>1, Moved
<1>5. CASE EndSession(u)
  <2>1. PICK how \in Outcomes :
           promptSpent' = IF how = "transport" THEN promptSpent - Lesser(Prompt[u], promptSpent) ELSE promptSpent
    BY <1>5 DEF EndSession
  <2>2. at[u] = "session" /\ Gone(u)
    BY <1>5, SessionLeaves
  <2>3. at'[u] # "session" /\ \A v \in Units \ {u} : at'[v] = at[v]
    BY <1>1, <2>2, Moved DEF Gone
  <2>4. open' \in SUBSET Units /\ u \notin open' /\ open = open' \cup {u}
    BY <2>2, <2>3 DEF At
  <2>5. c(open) = c(open') + Prompt[u] /\ c(open') \in Nat
    BY <2>4, PromptTokensAdd, PromptTokensFinite
  <2>6. promptSpent' = promptSpent \/ promptSpent' = promptSpent - Prompt[u]
    BY <1>3, <2>1, <2>5 DEF Lesser
  <2>7. c(open') <= promptSpent' /\ promptSpent' <= PromptBudget
    <3> HIDE DEF c, open
    <3> QED
      BY <1>3, <2>5, <2>6
  <2> QED
    BY <2>7 DEF PromptsPaid
<1>6. CASE Start(u) \/ Checkpoint(u) \/ Acquire(u) \/ GiveUp(u) \/ Admit(u) \/ EndReplay(u)
  <2>1. UNCHANGED promptSpent
    BY <1>6 DEF Start, Checkpoint, Acquire, GiveUp, Admit, EndReplay, budget
  <2>2. at[u] # "session" /\ \E place \in Places \ {"session"} : Move(u, place)
    BY <1>1, <1>2, <1>6, WayOf DEF Unrecorded
  <2>3. open' = open
    BY <1>4, <2>2
  <2> QED
    BY <1>3, <2>1, <2>3 DEF PromptsPaid
<1>7. CASE Reserve(u)
  <2>1. at[u] = "reserve"
    BY <1>7, WayOf
  <2>2. CASE Leaves(u) /\ UNCHANGED <<promptSpent, reserved>>
    <3>1. open' = open
      BY <1>1, <1>2, <1>4, <2>1, <2>2
    <3> QED
      BY <1>3, <2>2, <3>1 DEF PromptsPaid
  <2>3. CASE Fits(u) /\ (Unrecorded(u, "replay") \/ Unrecorded(u, "session")) /\ promptSpent' = promptSpent + Prompt[u]
    <3>1. promptSpent' = promptSpent + Prompt[u] /\ promptSpent' <= PromptBudget
      BY <2>3 DEF Fits
    <3>2. CASE Unrecorded(u, "replay")
      <4>1. open' = open
        BY <1>1, <1>4, <2>1, <3>2 DEF Unrecorded
      <4> QED
        BY <1>3, <3>1, <4>1 DEF PromptsPaid
    <3>3. CASE Unrecorded(u, "session")
      <4>1. at'[u] = "session" /\ \A v \in Units \ {u} : at'[v] = at[v]
        BY <1>1, <3>3, Moved DEF Unrecorded
      <4>2. u \notin open /\ open' = open \cup {u}
        BY <2>1, <4>1 DEF At
      <4>3. c(open') = c(open) + Prompt[u]
        BY <1>3, <4>2, PromptTokensAdd
      <4>4. c(open') <= promptSpent'
        <5> HIDE DEF c, open
        <5> QED
          BY <1>3, <3>1, <4>3
      <4> QED
        BY <3>1, <4>4 DEF PromptsPaid
    <3> QED
      BY <2>3, <3>2, <3>3
  <2> QED
    BY <1>7, <2>2, <2>3, WayOf
<1> QED
  BY <1>5, <1>6, <1>7 DEF Thread

LEMMA PromptsStep ==
    ASSUME ScanAssumption, IInv, PromptsPaid, [Next]_vars
    PROVE  PromptsPaid'
<1>1. CASE \E u \in Units : Thread(u)
  BY <1>1, PromptsThread DEF IInv
<1>2. CASE Main
  <2>1. UNCHANGED promptSpent
    BY <1>2 DEF Main, RoundOver, Retry, Finish, Abort, Fail, budget
  <2>2. At({"session"})' = At({"session"})
    <3>1. CASE RoundOver \/ Finish \/ Fail
      BY <3>1 DEF RoundOver, Finish, Fail, At
    <3>2. CASE Retry
      <4>1. \A u \in Units : at[u] = "out" /\ at'[u] \in {"out", "queued"}
        BY <3>2 DEF Retry, IInv, Recorded
      <4> QED
        BY <4>1 DEF At
    <3>3. CASE Abort
      BY <3>3, AbortMoves
    <3> QED
      BY <1>2, <3>1, <3>2, <3>3 DEF Main
  <2> QED
    BY <2>1, <2>2 DEF PromptsPaid
<1>3. CASE Operator
  <2>1. UNCHANGED <<at, promptSpent>>
    BY <1>3 DEF Operator, Pause, Resume, Cancel, Skip, SetJobs, RequestRetry, Steer, budget
  <2> QED
    BY <2>1 DEF PromptsPaid, At
<1>4. CASE Expire \/ UNCHANGED vars
  BY <1>4 DEF Expire, vars, budget, PromptsPaid, At
<1> QED
  BY <1>1, <1>2, <1>3, <1>4 DEF Next, Threads

(* The two budgets cover what was sent and generated and what every open   *)
(* session holds and may still generate (_reserve, _release), over         *)
(* refunds, retries and failures of every kind.                            *)
THEOREM NoneOverspent == ScanAssumption /\ Spec => []WithinBudget
<1> SUFFICES ASSUME ScanAssumption PROVE Spec => []WithinBudget
  OBVIOUS
<1>1. Init => PromptsPaid
  <2> SUFFICES ASSUME Init PROVE PromptsPaid
    OBVIOUS
  <2>1. PromptTokens(At({"session"})) = {}
    BY DEF Init, At, PromptTokens
  <2>2. Cardinality(PromptTokens(At({"session"}))) = 0
    BY <2>1, FS_EmptySet
  <2> QED
    BY <2>2 DEF Init, PromptsPaid, ScanAssumption
<1>2. IInv /\ PromptsPaid /\ [Next]_vars => PromptsPaid'
  BY PromptsStep
<1>3. IInv /\ PromptsPaid => WithinBudget
  BY DEF IInv, WithinBudget
<1> QED
  BY Inductive, <1>1, <1>2, <1>3, PTL DEF Spec

(* A dead endpoint is asked fewer than breaker_limit + jobs times, even by *)
(* the units that had passed the breaker when it opened.                   *)
THEOREM LeftAlone == ScanAssumption /\ Spec => []DeadEndpoint
<1> SUFFICES ASSUME ScanAssumption PROVE Spec => []DeadEndpoint
  OBVIOUS
<1>1. IInv => DeadEndpoint
  <2> SUFFICES ASSUME IInv, BreakerLimit > 0
               PROVE  consecutive + Cardinality(At({"session"})) <= BreakerLimit + Ceiling - 1
    BY DEF DeadEndpoint
  <2> DEFINE few == Cardinality(At({"session"}))
             all == Cardinality(At({"reserve", "session"}))
  <2>1. few \in Nat /\ all \in Nat /\ few <= all
    BY UnitsFinite
  <2>2. consecutive + all <= BreakerLimit + Ceiling - 1
    BY DEF IInv, Broken
  <2>3. consecutive \in Nat /\ BreakerLimit \in Nat /\ Ceiling \in Nat
    BY DEF IInv, TypeOK, ScanAssumption
  <2> HIDE DEF few, all
  <2>4. consecutive + few <= BreakerLimit + Ceiling - 1
    BY <2>1, <2>2, <2>3
  <2> QED
    BY <2>4 DEF few
<1> QED
  BY <1>1, Inductive, PTL
=============================================================================
