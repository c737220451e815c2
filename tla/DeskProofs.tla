----------------------------- MODULE DeskProofs -----------------------------
(***************************************************************************)
(* The numbering of jobs and exports, the grants of GPU time and the calls *)
(* are right for any requests that overlap, any appends that fail and any  *)
(* kills; a card that was decided acts no more often than it was granted,  *)
(* and is decided again only by requests that were deciding it already.    *)
(***************************************************************************)
EXTENDS Desk, SequenceTheorems, FiniteSetTheorems, TLAPS

In(t, places) == request[t].at \in places
Granted == {grants[i] : i \in DOMAIN grants}
Exported == {exports[i] : i \in DOMAIN exports}
Announced(n, kind) == \E i \in DOMAIN recorded : recorded[i] = [number |-> n, kind |-> kind]

(***************************************************************************)
(* The inductive invariant.                                                *)
(***************************************************************************)
(* Nothing runs while the server is down, a settled job leaves nothing, a  *)
(* job is in a call only if there is one.                                  *)
Quiet ==
    /\ ~up => job = NoJob /\ \A t \in Threads : request[t] = Idle
    /\ job.at = "none" => job = NoJob
    /\ job.at = "call" => Len(calls) > 0

(* One thread at a time is between numbering a job and starting it; the    *)
(* number it holds is above all that were announced.                       *)
Starting ==
    /\ \A t \in Threads : In(t, {"announce", "launch"}) =>
         job.at = "new" /\ job.kind = request[t].tool /\ request[t].tool \in Kinds
    /\ \A s, t \in Threads : In(s, {"announce", "launch"}) /\ In(t, {"announce", "launch"}) => s = t
    /\ Running => job.number = number /\ number > 0
    /\ number > 0 => \A m \in Numbers : m <= number
    /\ \E n \in Numbers \cup {0} : \A m \in Numbers : m <= n
    /\ \A t \in Threads : In(t, {"announce"}) => number \notin Numbers
    /\ \A t \in Threads : In(t, {"launch"}) => Announced(number, request[t].tool)
    /\ \A i, j \in DOMAIN recorded : recorded[i].number = recorded[j].number => i = j

(* What is about to be charged is an announced review without a grant, and *)
(* no other thread's.                                                      *)
Charging ==
    /\ GrantsAreReviews
    /\ \A t \in Threads : In(t, {"charge"}) => Announced(request[t].id, "review") /\ request[t].id \notin Granted
    /\ \A s, t \in Threads : In(s, {"charge"}) /\ In(t, {"charge"}) /\ request[s].id = request[t].id => s = t
    /\ \A s, t \in Threads : In(t, {"launch"}) /\ request[t].tool = "review" =>
         number \notin Granted /\ (In(s, {"charge"}) => request[s].id # number)

(* An export that is being written has its directory to itself.            *)
Exporting ==
    /\ Exported \subseteq folders
    /\ \A t \in Threads : In(t, {"mkdir", "write"}) => request[t].id \in 1..MaxExports
    /\ \A t \in Threads : In(t, {"write"}) => request[t].id \in folders /\ request[t].id \notin Exported
    /\ \A s, t \in Threads : In(s, {"write"}) /\ In(t, {"write"}) /\ request[s].id = request[t].id => s = t
    /\ \A i, j \in DOMAIN exports : exports[i] = exports[j] => i = j

Calling ==
    /\ CallsClosedOnce
    /\ job.at = "call" => calls[Len(calls)] = 0

Holding(card, places) == {t \in Threads : request[t].card = card /\ request[t].at \in places}
Acting(card) == Holding(card, {"act", "mkdir"})

(* Each grant is used up by one action: the threads that have still to act *)
(* on a card and the actions it had are within its grants.                 *)
Counted ==
    /\ \A t \in Threads : In(t, {"grant", "close"}) => request[t].card # 0
    /\ \A card \in Cards : acted[card] + Cardinality(Acting(card)) <= approved[card]

(* The step's part of ActsOnce: no request joins those that may decide.    *)
NoneJoins ==
    \A card \in Cards : Decisions(card) > 0 =>
      (Decisions(card) + Cardinality(Deciding(card)))' <= Decisions(card) + Cardinality(Deciding(card))

Types == TypeOK /\ Quiet
IInv == Types /\ Starting /\ Charging /\ Exporting

(***************************************************************************)
(* Requests and jobs as records.                                           *)
(***************************************************************************)
LEMMA IdleIs == DeskAssumption => Idle \in Requests /\ NoJob \in Jobs
BY DEF DeskAssumption, Idle, Doing, Requests, Places, NoJob, Jobs

LEMMA ReqSteps ==
    ASSUME DeskAssumption, NEW r \in Requests
    PROVE  /\ \A place \in Places : [r EXCEPT !.at = place] \in Requests
           /\ \A place \in Places, id \in 0..MaxJobs \cup 0..MaxExports : [r EXCEPT !.at = place, !.id = id] \in Requests
           /\ \A place \in Places, card \in Cards \cup {0}, tool \in CardTools \cup Kinds : Doing(place, card, tool) \in Requests
<1>1. \A place \in Places : [r EXCEPT !.at = place] \in Requests
  BY DEF Requests
<1>2. \A place \in Places, id \in 0..MaxJobs \cup 0..MaxExports : [r EXCEPT !.at = place, !.id = id] \in Requests
  BY DEF Requests
<1>3. Cards \cup {0} \subseteq 0..MaxCards /\ 0 \in 0..MaxJobs \cup 0..MaxExports
  BY DEF DeskAssumption, Cards
<1>4. \A place \in Places, card \in Cards \cup {0}, tool \in CardTools \cup Kinds : Doing(place, card, tool) \in Requests
  BY <1>3 DEF Requests, Doing
<1> QED
  BY <1>1, <1>2, <1>4

LEMMA Bump ==
    ASSUME NEW f \in [Cards -> Nat], NEW card
    PROVE  [f EXCEPT ![card] = @ + 1] \in [Cards -> Nat]
<1>1. CASE card \in Cards
  <2>1. f[card] + 1 \in Nat
    BY <1>1
  <2>2. ASSUME NEW n \in Nat
        PROVE  [f EXCEPT ![card] = n] \in [Cards -> Nat]
    BY <2>2
  <2> QED
    BY <2>1, <2>2, Zenon
<1>2. CASE card \notin Cards
  BY <1>2
<1> QED
  BY <1>1, <1>2

LEMMA Elements ==
    ASSUME NEW S, NEW s \in Seq(S)
    PROVE  DOMAIN s = 1..Len(s) /\ Len(s) \in Nat /\ \A i \in DOMAIN s : s[i] \in S
OBVIOUS

Reaches(j, place) == job' \in Jobs /\ job'.at = place /\ job'.number = j.number

LEMMA JobSteps ==
    ASSUME job \in Jobs
    PROVE  /\ \A place \in {"work", "call", "reviewed", "tail", "settling"} :
                job' = [job EXCEPT !.at = place] => Reaches(job, place)
           /\ \A u \in Nat : job' = [job EXCEPT !.at = "reviewed", !.used = u] => Reaches(job, "reviewed")
           /\ \A kind \in Kinds, n \in 1..MaxJobs : [at |-> "new", kind |-> kind, number |-> n, used |-> 0] \in Jobs
           /\ job.used \in Nat /\ job.number \in 0..MaxJobs
<1>1. \A place \in {"work", "call", "reviewed", "tail", "settling"} : job' = [job EXCEPT !.at = place] => Reaches(job, place)
  BY DEF Jobs, Reaches
<1>2. \A u \in Nat : job' = [job EXCEPT !.at = "reviewed", !.used = u] => Reaches(job, "reviewed")
  BY DEF Jobs, Reaches
<1>3. \A kind \in Kinds, n \in 1..MaxJobs : [at |-> "new", kind |-> kind, number |-> n, used |-> 0] \in Jobs
  <2>1. 1..MaxJobs \subseteq 0..MaxJobs /\ 0 \in Nat
    OBVIOUS
  <2> QED
    BY <2>1 DEF Jobs
<1>4. job.used \in Nat /\ job.number \in 0..MaxJobs
  BY DEF Jobs
<1> QED
  BY <1>1, <1>2, <1>3, <1>4

LEMMA WorkMoves ==
    ASSUME DeskAssumption, job \in Jobs
    PROVE  /\ OpenCall => Reaches(job, "call")
           /\ CloseCall => Reaches(job, "tail") \/ Reaches(job, "settling")
           /\ Review => Reaches(job, "reviewed")
           /\ FinishReview => Reaches(job, "tail")
           /\ FinishWork \/ WorkRaises => Reaches(job, "settling")
<1>1. OpenCall => Reaches(job, "call")
  BY JobSteps DEF OpenCall
<1>2. CloseCall => Reaches(job, "tail") \/ Reaches(job, "settling")
  BY JobSteps DEF CloseCall
<1>3. Review => Reaches(job, "reviewed")
  <2>1. 0..Grant \subseteq Nat
    BY DEF DeskAssumption
  <2> QED
    BY <2>1, JobSteps DEF Review
<1>4. FinishReview => Reaches(job, "tail")
  BY JobSteps DEF FinishReview
<1>5. FinishWork \/ WorkRaises => Reaches(job, "settling")
  BY JobSteps DEF FinishWork, WorkRaises
<1> QED
  BY <1>1, <1>2, <1>3, <1>4, <1>5

(* A step of one thread leaves the others where they are.                  *)
LEMMA Only ==
    ASSUME NEW t \in Threads, request \in [Threads -> Requests], NEW r \in Requests, request' = [request EXCEPT ![t] = r]
    PROVE  /\ request' \in [Threads -> Requests]
           /\ request'[t] = r /\ \A s \in Threads \ {t} : request'[s] = request[s]
OBVIOUS

LEMMA Moving ==
    ASSUME DeskAssumption, NEW t \in Threads, request \in [Threads -> Requests]
    PROVE  /\ \A place \in Places : Goes(t, place) =>
                /\ request' \in [Threads -> Requests] /\ request'[t] = [request[t] EXCEPT !.at = place]
                /\ \A s \in Threads \ {t} : request'[s] = request[s]
           /\ Ends(t) => /\ request' \in [Threads -> Requests] /\ request'[t] = Idle
                         /\ \A s \in Threads \ {t} : request'[s] = request[s]
<1>1. ASSUME NEW place \in Places, Goes(t, place)
      PROVE  request' = [request EXCEPT ![t] = [request[t] EXCEPT !.at = place]] /\ [request[t] EXCEPT !.at = place] \in Requests
  BY <1>1, ReqSteps DEF Goes
<1> QED
  BY <1>1, Only, IdleIs DEF Ends

(***************************************************************************)
(* Types.                                                                  *)
(***************************************************************************)
LEMMA TypesStart == DeskAssumption /\ Init => Types
<1> SUFFICES ASSUME DeskAssumption, Init PROVE Types
  OBVIOUS
<1>1. request \in [Threads -> Requests] /\ job \in Jobs /\ number \in 0..MaxJobs
  BY IdleIs DEF Init, DeskAssumption
<1>2. job = NoJob /\ NoJob.at = "none" /\ up = TRUE
  BY DEF Init, NoJob
<1>3. TypeOK
  BY <1>1 DEF DeskAssumption, Init, TypeOK
<1> QED
  BY <1>2, <1>3 DEF Types, Quiet

LEMMA TypesRequests ==
    ASSUME DeskAssumption, Types, Starting, Charging, Exporting, NEW t \in Threads,
           SelectProfile(t) \/ Press(t) \/ ReadCard(t) \/ Serve(t)
    PROVE  Types'
<1> USE DEF Types, TypeOK, Quiet, At, ledger, history
<1>0. Idle \in Requests /\ NoJob \in Jobs
  BY IdleIs
<1>1. CASE SelectProfile(t)
  <2>1. request' = request \/ request' = [request EXCEPT ![t] = Doing("act", 0, "reindex")]
    BY <1>1 DEF SelectProfile
  <2>2. request' \in [Threads -> Requests]
    BY <2>1, ReqSteps, <1>0, Only DEF Places, Kinds
  <2> QED
    BY <1>1, <2>2 DEF SelectProfile
<1>2. CASE Press(t)
  <2>1. request' \in [Threads -> Requests]
    BY <1>2, ReqSteps, <1>0, Only DEF Press, Places, Kinds, CardTools, DeskAssumption
  <2> QED
    BY <1>2, <2>1 DEF Press
<1>3. CASE ReadCard(t)
  <2>1. PICK card \in Cards, tool \in CardTools, decision \in {"grant", "close"} :
          request' = [request EXCEPT ![t] = Doing(decision, card, tool)]
    <3>1. DOMAIN shown = 1..Len(shown) /\ \A card \in DOMAIN shown : shown[card] \in [tool : CardTools, state : States]
      BY Elements
    <3>2. \A card \in DOMAIN shown : card \in Cards /\ shown[card].tool \in CardTools
      <4>1. Len(shown) \in Nat /\ Len(shown) <= MaxCards /\ MaxCards \in Nat
        BY Elements DEF DeskAssumption
      <4>2. 1..Len(shown) \subseteq Cards
        BY <4>1 DEF Cards
      <4> QED
        BY <3>1, <4>2
    <3> QED
      BY <1>3, <3>2 DEF ReadCard
  <2>2. request' \in [Threads -> Requests]
    BY <2>1, ReqSteps, <1>0, Only DEF Places
  <2> QED
    BY <1>3, <2>2 DEF ReadCard
<1>4. CASE Close(t)
  <2>1. request' \in [Threads -> Requests]
    BY <1>4, Moving DEF Close
  <2>2. closed' \in [Cards -> Nat]
    BY <1>4, Bump DEF Close
  <2> QED
    BY <1>4, <2>1, <2>2 DEF Close
<1>5. CASE GrantCard(t)
  <2>1. request' \in [Threads -> Requests]
    BY <1>5, Moving DEF GrantCard, Places
  <2>2. approved' \in [Cards -> Nat]
    BY <1>5, Bump DEF GrantCard
  <2> QED
    BY <1>5, <2>1, <2>2 DEF GrantCard
<1>6. CASE Refuse(t)
  BY <1>6, Moving DEF Refuse
<1>7. CASE NumberJob(t)
  <2>1. request' \in [Threads -> Requests]
    BY <1>7, Moving DEF NumberJob, Places
  <2>2. acted' \in [Cards -> Nat]
    BY <1>7, Bump DEF NumberJob, Acts
  <2>3. (IF number = 0 THEN Seed ELSE number) \in Nat
    <3>1. \A m \in Numbers : m \in Nat
      <4>1. \A i \in DOMAIN recorded : recorded[i] \in [number : 1..MaxJobs, kind : Kinds]
        BY Elements
      <4> QED
        BY <4>1 DEF Numbers
    <3>2. \E n \in Numbers \cup {0} : \A m \in Numbers : m <= n
      BY DEF Starting
    <3>3. Seed \in Numbers \cup {0}
      BY <3>2, Zenon DEF Seed
    <3> QED
      BY <3>1, <3>3
  <2>4. job' \in Jobs /\ number' \in 1..MaxJobs
    <3>1. PICK n : /\ n = (IF number = 0 THEN Seed ELSE number) + 1 /\ n <= MaxJobs /\ number' = n
                   /\ job' = [at |-> "new", kind |-> request[t].tool, number |-> n, used |-> 0]
      BY <1>7 DEF NumberJob
    <3>2. n \in 1..MaxJobs
      BY <2>3, <3>1 DEF DeskAssumption
    <3>3. request[t].tool \in Kinds
      BY <1>7 DEF NumberJob
    <3>4. [at |-> "new", kind |-> request[t].tool, number |-> n, used |-> 0] \in Jobs
      BY <3>2, <3>3, JobSteps
    <3> QED
      BY <3>1, <3>2, <3>4
  <2>5. job'.at # "none" /\ up
    BY <1>7 DEF NumberJob
  <2> QED
    BY <1>7, <2>1, <2>2, <2>4, <2>5 DEF NumberJob
<1>8. CASE Announce(t)
  <2>1. request' \in [Threads -> Requests]
    BY <1>8, Moving DEF Announce, Places
  <2>2. job.number \in 1..MaxJobs /\ job.kind \in Kinds
    <3>1. job.at = "new" /\ job.kind \in Kinds
      BY <1>8 DEF Announce, Starting, In
    <3>2. Running
      BY <3>1 DEF Running, NoJob
    <3>3. job.number = number /\ number > 0
      BY <3>2 DEF Starting
    <3> QED
      BY <3>1, <3>3 DEF DeskAssumption
  <2>3. recorded' \in Seq([number : 1..MaxJobs, kind : Kinds])
    BY <1>8, <2>2 DEF Announce
  <2> QED
    BY <1>8, <2>1, <2>3 DEF Announce
<1>9. CASE Launch(t)
  <2>1. job' \in Jobs /\ job'.at # "none" /\ up /\ job.number \in 0..MaxJobs
    BY <1>9, JobSteps DEF Launch, Reaches
  <2>2. request' \in [Threads -> Requests]
    <3>1. CASE Ends(t)
      BY <3>1, Moving
    <3>2. CASE request' = [request EXCEPT ![t].at = "charge", ![t].id = job.number]
      <4>1. request' = [request EXCEPT ![t] = [request[t] EXCEPT !.at = "charge", !.id = job.number]]
        BY <3>2
      <4> QED
        BY <2>1, <4>1, ReqSteps, Only DEF Places
    <3> QED
      BY <1>9, <3>1, <3>2 DEF Launch
  <2>3. UNCHANGED <<ledger, folders, up, number, history>> /\ job'.at = "work"
    BY <1>9, JobSteps DEF Launch, Reaches
  <2> QED
    BY <2>1, <2>2, <2>3
<1>10. CASE Charge(t)
  <2>1. request' \in [Threads -> Requests]
    BY <1>10, Moving DEF Charge
  <2>2. request[t].id \in 1..MaxJobs
    BY <1>10 DEF Charge, Charging, In, Announced
  <2>3. grants' \in Seq(1..MaxJobs)
    BY <1>10, <2>2 DEF Charge, Charged
  <2> QED
    BY <1>10, <2>1, <2>3 DEF Charge
<1>11. CASE CountExports(t)
  <2>1. Len(exports) + 1 \in 1..MaxExports
    BY <1>11 DEF CountExports, DeskAssumption
  <2>2. request' = [request EXCEPT ![t] = [request[t] EXCEPT !.at = "mkdir", !.id = Len(exports) + 1]]
    BY <1>11 DEF CountExports, NextExport
  <2>3. request' \in [Threads -> Requests]
    <3>1. Len(exports) + 1 \in 0..MaxJobs \cup 0..MaxExports
      BY <2>1
    <3> QED
      BY <2>2, <3>1, ReqSteps, Only DEF Places
  <2> QED
    BY <1>11, <2>3 DEF CountExports
<1>12. CASE MakeFolder(t)
  <2>1. request' \in [Threads -> Requests]
    BY <1>12, Moving DEF MakeFolder, Places
  <2>2. acted' \in [Cards -> Nat]
    BY <1>12, Bump DEF MakeFolder, Acts
  <2>3. folders' \subseteq 1..MaxExports
    BY <1>12 DEF MakeFolder, Exporting, In
  <2> QED
    BY <1>12, <2>1, <2>2, <2>3 DEF MakeFolder
<1>13. CASE FolderExists(t)
  BY <1>13, Moving DEF FolderExists
<1>14. CASE RecordExport(t)
  BY <1>14, Moving, SMTT(30) DEF RecordExport, Exporting, In
<1>15. CASE AppendRaises(t)
  BY <1>15, Moving DEF AppendRaises
<1> QED
  BY <1>1, <1>2, <1>3, <1>4, <1>5, <1>6, <1>7, <1>8, <1>9, <1>10, <1>11, <1>12, <1>13, <1>14, <1>15 DEF Serve

LEMMA TypesOthers ==
    ASSUME DeskAssumption, Types, Show \/ PlanSmall \/ Work \/ Kill \/ Restart
    PROVE  Types'
<1> USE DEF Types, TypeOK, Quiet, At, Works, ledger, history
<1>0. Idle \in Requests /\ NoJob \in Jobs /\ NoJob.at = "none"
  BY IdleIs DEF NoJob
<1>c. Reconciled \in Seq(Nat) /\ Len(Reconciled) = Len(calls)
  <2>1. DOMAIN calls = 1..Len(calls) /\ Len(calls) \in Nat /\ \A n \in DOMAIN calls : calls[n] \in Nat
    BY Elements
  <2> QED
    BY <2>1 DEF Reconciled
<1>1. CASE Show
  <2>1. PICK tool \in CardTools : shown' = Append(shown, [tool |-> tool, state |-> state])
    BY <1>1 DEF Show
  <2>2. shown' \in Seq([tool : CardTools, state : States]) /\ Len(shown') = Len(shown) + 1
    BY <2>1
  <2>3. Len(shown') <= MaxCards
    BY <1>1, <2>2, Elements DEF Show, DeskAssumption
  <2> QED
    BY <1>1, <2>2, <2>3 DEF Show
<1>2. CASE PlanSmall
  <2>1. Agent \in Threads /\ request' = [request EXCEPT ![Agent] = Doing("act", 0, "review")]
    BY <1>2 DEF PlanSmall, Threads
  <2>2. request' \in [Threads -> Requests]
    BY <2>1, ReqSteps, <1>0, Only DEF Places, Kinds
  <2> QED
    BY <1>2, <2>2 DEF PlanSmall
<1>3. CASE OpenCall
  <2>1. job' \in Jobs /\ job'.at = "call"
    BY <1>3, WorkMoves DEF Reaches
  <2>2. calls' \in Seq(Nat) /\ Len(calls') > 0
    BY <1>3, <1>c DEF OpenCall
  <2>3. /\ UNCHANGED <<shown, closed, approved, state, recorded, grants, used, exports, folders, up, request, number, history>>
        /\ up
    BY <1>3 DEF OpenCall
  <2> QED
    BY <2>1, <2>2, <2>3
<1>4. CASE CloseCall
  <2>1. job' \in Jobs /\ job'.at \in {"tail", "settling"}
    BY <1>4, WorkMoves DEF Reaches
  <2>2. calls' \in Seq(Nat)
    <3>1. Len(calls) \in 1..Len(calls) /\ calls[Len(calls)] + 1 \in Nat
      BY <1>4, Elements, SMTT(30) DEF CloseCall
    <3> QED
      BY <1>4, <3>1, ExceptSeq DEF CloseCall
  <2> QED
    BY <1>4, <2>1, <2>2 DEF CloseCall
<1>5. CASE Review
  <2>1. job' \in Jobs /\ job'.at = "reviewed"
    BY <1>5, WorkMoves DEF Reaches
  <2> QED
    BY <1>5, <2>1 DEF Review
<1>6. CASE FinishReview
  <2>1. job' \in Jobs /\ job'.at = "tail"
    BY <1>6, WorkMoves DEF Reaches
  <2>2. used' \in Nat
    <3>1. used' = used + job.used
      BY <1>6 DEF FinishReview
    <3>2. job.used \in Nat /\ used \in Nat
      BY JobSteps
    <3> QED
      BY <3>1, <3>2
  <2> QED
    BY <1>6, <2>1, <2>2 DEF FinishReview
<1>7. CASE FinishWork
  <2>1. job' \in Jobs /\ job'.at = "settling" /\ up
    BY <1>7, WorkMoves DEF Reaches, FinishWork
  <2> QED
    BY <1>7, <2>1 DEF FinishWork
<1>8. CASE WorkRaises
  <2>1. job' \in Jobs /\ job'.at = "settling" /\ up
    BY <1>8, WorkMoves DEF Reaches, WorkRaises
  <2> QED
    BY <1>8, <2>1 DEF WorkRaises
<1>9. CASE Settle
  BY <1>9, <1>0 DEF Settle
<1>10. CASE Kill
  <2>1. request' \in [Threads -> Requests] /\ \A t \in Threads : request'[t] = Idle
    BY <1>10, <1>0 DEF Kill
  <2>2. job' = NoJob /\ number' = 0 /\ up' = FALSE /\ kills' = kills + 1
        /\ UNCHANGED <<ledger, folders, acted>>
    BY <1>10 DEF Kill
  <2>3. 0 \in 0..MaxJobs
    BY DEF DeskAssumption
  <2>4. TypeOK'
    <3>1. job' \in Jobs /\ number' \in 0..MaxJobs /\ up' \in BOOLEAN
      BY <1>0, <2>2, <2>3
    <3>2. kills \in Nat
      OBVIOUS
    <3>3. kills' \in Nat
      BY <2>2, <3>2
    <3> QED
      BY <2>1, <2>2, <3>1, <3>3
  <2>5. Quiet'
    BY <1>0, <2>1, <2>2
  <2> QED
    BY <2>4, <2>5
<1>11. CASE Restart
  BY <1>11, <1>c DEF Restart
<1> QED
  BY <1>1, <1>2, <1>3, <1>4, <1>5, <1>6, <1>7, <1>8, <1>9, <1>10, <1>11 DEF Work

(***************************************************************************)
(* Where a step leaves its thread: Moves(t, r), at r.                      *)
(***************************************************************************)
Moves(t, r) == request'[t] = r /\ \A s \in Threads \ {t} : request'[s] = request[s]

LEMMA Where ==
    ASSUME DeskAssumption, Types, NEW t \in Threads
    PROVE  /\ SelectProfile(t) => Moves(t, request[t]) \/ Moves(t, Doing("act", 0, "reindex"))
           /\ Press(t) => \E tool \in MayPress[t] : Moves(t, Doing("act", 0, tool))
           /\ ReadCard(t) => \E card \in DOMAIN shown, decision \in {"grant", "close"} :
                Undecided(card) /\ Moves(t, Doing(decision, card, shown[card].tool))
           /\ Close(t) \/ Refuse(t) \/ Charge(t) \/ FolderExists(t) \/ RecordExport(t) \/ AppendRaises(t)
                => Moves(t, Idle)
           /\ GrantCard(t) => Moves(t, [request[t] EXCEPT !.at = "act"])
           /\ NumberJob(t) => Moves(t, [request[t] EXCEPT !.at = "announce"])
           /\ Announce(t) => Moves(t, [request[t] EXCEPT !.at = "launch"])
           /\ MakeFolder(t) => Moves(t, [request[t] EXCEPT !.at = "write"])
           /\ CountExports(t) => Moves(t, [request[t] EXCEPT !.at = "mkdir", !.id = Len(exports) + 1])
           /\ Launch(t) => \/ Moves(t, Idle)
                           \/ /\ request[t].tool = "review"
                              /\ Moves(t, [request[t] EXCEPT !.at = "charge", !.id = job.number])
<1> USE DEF Types, TypeOK
<1>0. \A r : request' = [request EXCEPT ![t] = r] => Moves(t, r)
  BY DEF Moves
<1>1. SelectProfile(t) => Moves(t, request[t]) \/ Moves(t, Doing("act", 0, "reindex"))
  <2>1. request' = request => Moves(t, request[t])
    BY DEF Moves
  <2> QED
    BY <1>0, <2>1 DEF SelectProfile
<1>2. Press(t) => \E tool \in MayPress[t] : Moves(t, Doing("act", 0, tool))
  BY <1>0 DEF Press
<1>3. ReadCard(t) => \E card \in DOMAIN shown, decision \in {"grant", "close"} :
        Undecided(card) /\ Moves(t, Doing(decision, card, shown[card].tool))
  BY <1>0, Zenon DEF ReadCard
<1>4. Close(t) \/ Refuse(t) \/ Charge(t) \/ FolderExists(t) \/ RecordExport(t) \/ AppendRaises(t) => Moves(t, Idle)
  BY <1>0 DEF Close, Refuse, Charge, FolderExists, RecordExport, AppendRaises, Ends
<1>5. ASSUME NEW place, Goes(t, place) PROVE Moves(t, [request[t] EXCEPT !.at = place])
  <2>1. request' = [request EXCEPT ![t] = [request[t] EXCEPT !.at = place]]
    BY <1>5 DEF Goes
  <2> QED
    BY <1>0, <2>1
<1>6. /\ GrantCard(t) => Moves(t, [request[t] EXCEPT !.at = "act"])
      /\ NumberJob(t) => Moves(t, [request[t] EXCEPT !.at = "announce"])
      /\ Announce(t) => Moves(t, [request[t] EXCEPT !.at = "launch"])
      /\ MakeFolder(t) => Moves(t, [request[t] EXCEPT !.at = "write"])
  BY <1>5, Zenon DEF GrantCard, NumberJob, Announce, MakeFolder
<1>7. ASSUME NEW place, NEW n, request' = [request EXCEPT ![t].at = place, ![t].id = n]
      PROVE  Moves(t, [request[t] EXCEPT !.at = place, !.id = n])
  <2>1. request' = [request EXCEPT ![t] = [request[t] EXCEPT !.at = place, !.id = n]]
    BY <1>7
  <2> QED
    BY <1>0, <2>1
<1>8. CountExports(t) => Moves(t, [request[t] EXCEPT !.at = "mkdir", !.id = Len(exports) + 1])
  BY <1>7, Zenon DEF CountExports, NextExport
<1>9. Launch(t) => \/ Moves(t, Idle)
                   \/ request[t].tool = "review" /\ Moves(t, [request[t] EXCEPT !.at = "charge", !.id = job.number])
  BY <1>0, <1>7, Zenon DEF Launch, Ends
<1> QED
  BY <1>1, <1>2, <1>3, <1>4, <1>6, <1>8, <1>9, Zenon

(* The same, field by field.                                               *)
Others(t) == \A s \in Threads \ {t} : request'[s] = request[s]
Keeps(t) == /\ request'[t].card = request[t].card /\ request'[t].tool = request[t].tool
            /\ Others(t)

LEMMA Spots ==
    ASSUME DeskAssumption, Types, NEW t \in Threads
    PROVE  /\ SelectProfile(t) \/ Press(t) =>
                Others(t) /\ (request'[t] = request[t] \/ (request'[t].at = "act" /\ request'[t].card = 0))
           /\ ReadCard(t) => Others(t) /\ \E card \in DOMAIN shown, decision \in {"grant", "close"} :
                Undecided(card) /\ request'[t].at = decision /\ request'[t].card = card
           /\ Close(t) \/ Refuse(t) \/ Charge(t) \/ FolderExists(t) \/ RecordExport(t) \/ AppendRaises(t)
                => Others(t) /\ request'[t].at = "idle" /\ request'[t].card = 0
           /\ GrantCard(t) => Keeps(t) /\ request'[t].at = "act"
           /\ NumberJob(t) => Keeps(t) /\ request'[t].at = "announce"
           /\ Announce(t) => Keeps(t) /\ request'[t].at = "launch" /\ request'[t].id = request[t].id
           /\ MakeFolder(t) => Keeps(t) /\ request'[t].at = "write" /\ request'[t].id = request[t].id
           /\ CountExports(t) => Keeps(t) /\ request'[t].at = "mkdir" /\ request'[t].id = Len(exports) + 1
           /\ Launch(t) => Others(t) /\ \/ request'[t].at = "idle" /\ request'[t].card = 0
                                        \/ /\ request'[t].at = "charge" /\ request'[t].card = request[t].card
                                           /\ request[t].tool = "review" /\ request'[t].id = job.number
           /\ Show => \A s \in Threads : request'[s] = request[s]
           /\ PlanSmall => /\ \A s \in Threads \ {Agent} : request'[s] = request[s]
                           /\ request'[Agent].at = "act" /\ request'[Agent].card = 0
<1>1. request[t] \in Requests
  BY DEF Types, TypeOK
<1>2. \A place : /\ [request[t] EXCEPT !.at = place].at = place
                 /\ [request[t] EXCEPT !.at = place].card = request[t].card
                 /\ [request[t] EXCEPT !.at = place].tool = request[t].tool
                 /\ [request[t] EXCEPT !.at = place].id = request[t].id
  BY <1>1 DEF Requests
<1>3. \A place, n : /\ [request[t] EXCEPT !.at = place, !.id = n].at = place
                    /\ [request[t] EXCEPT !.at = place, !.id = n].card = request[t].card
                    /\ [request[t] EXCEPT !.at = place, !.id = n].tool = request[t].tool
                    /\ [request[t] EXCEPT !.at = place, !.id = n].id = n
  BY <1>1 DEF Requests
<1>4. \A place, card, tool : Doing(place, card, tool).at = place /\ Doing(place, card, tool).card = card
  BY DEF Doing
<1>5. Idle.at = "idle" /\ Idle.card = 0
  BY DEF Idle, Doing
<1>s. \A r : Moves(t, r) => request'[t] = r /\ Others(t)
  BY DEF Moves, Others
<1>6. SelectProfile(t) \/ Press(t) =>
        Others(t) /\ (request'[t] = request[t] \/ (request'[t].at = "act" /\ request'[t].card = 0))
  <2>1. ASSUME NEW tool, Moves(t, Doing("act", 0, tool))
        PROVE  Others(t) /\ request'[t].at = "act" /\ request'[t].card = 0
    BY <2>1, <1>4 DEF Moves, Others
  <2>2. SelectProfile(t) \/ Press(t) => Moves(t, request[t]) \/ \E tool : Moves(t, Doing("act", 0, tool))
    BY Where, Zenon
  <2>3. Moves(t, request[t]) => Others(t) /\ request'[t] = request[t]
    BY DEF Moves, Others
  <2>4. CASE \E tool : Moves(t, Doing("act", 0, tool))
    BY <2>1, <2>4
  <2>5. CASE Moves(t, request[t])
    BY <2>3, <2>5
  <2> QED
    BY <2>2, <2>4, <2>5
<1>7. ReadCard(t) => Others(t) /\ \E card \in DOMAIN shown, decision \in {"grant", "close"} :
        Undecided(card) /\ request'[t].at = decision /\ request'[t].card = card
  <2>1. ReadCard(t) => \E card \in DOMAIN shown, decision \in {"grant", "close"} :
          Undecided(card) /\ Moves(t, Doing(decision, card, shown[card].tool))
    BY Where, Zenon
  <2> QED
    BY <2>1, <1>s, <1>4
<1>8. Close(t) \/ Refuse(t) \/ Charge(t) \/ FolderExists(t) \/ RecordExport(t) \/ AppendRaises(t)
        => Others(t) /\ request'[t].at = "idle" /\ request'[t].card = 0
  BY Where, <1>5, Zenon DEF Moves, Others
<1>9. /\ GrantCard(t) => Keeps(t) /\ request'[t].at = "act"
      /\ NumberJob(t) => Keeps(t) /\ request'[t].at = "announce"
      /\ Announce(t) => Keeps(t) /\ request'[t].at = "launch" /\ request'[t].id = request[t].id
      /\ MakeFolder(t) => Keeps(t) /\ request'[t].at = "write" /\ request'[t].id = request[t].id
  <2>1. ASSUME NEW place, Moves(t, [request[t] EXCEPT !.at = place])
        PROVE  Keeps(t) /\ request'[t].at = place /\ request'[t].id = request[t].id
    <3>1. request'[t] = [request[t] EXCEPT !.at = place] /\ Others(t)
      BY <2>1 DEF Moves, Others
    <3> QED
      BY <3>1, <1>2 DEF Keeps
  <2>2. GrantCard(t) => Moves(t, [request[t] EXCEPT !.at = "act"])
    BY Where, Zenon
  <2>3. NumberJob(t) => Moves(t, [request[t] EXCEPT !.at = "announce"])
    BY Where, Zenon
  <2>4. Announce(t) => Moves(t, [request[t] EXCEPT !.at = "launch"])
    BY Where, Zenon
  <2>5. MakeFolder(t) => Moves(t, [request[t] EXCEPT !.at = "write"])
    BY Where, Zenon
  <2> QED
    BY <2>1, <2>2, <2>3, <2>4, <2>5, Zenon
<1>10. CountExports(t) => Keeps(t) /\ request'[t].at = "mkdir" /\ request'[t].id = Len(exports) + 1
  <2>1. CountExports(t) => Moves(t, [request[t] EXCEPT !.at = "mkdir", !.id = Len(exports) + 1])
    BY Where
  <2>2. ASSUME CountExports(t)
        PROVE  request'[t] = [request[t] EXCEPT !.at = "mkdir", !.id = Len(exports) + 1] /\ Others(t)
    BY <2>1, <2>2 DEF Moves, Others
  <2>3. ASSUME NEW n, request'[t] = [request[t] EXCEPT !.at = "mkdir", !.id = n], Others(t)
        PROVE  Keeps(t) /\ request'[t].at = "mkdir" /\ request'[t].id = n
    BY <2>3, <1>3 DEF Keeps
  <2> QED
    BY <2>2, <2>3
<1>11. Launch(t) => Others(t) /\ \/ request'[t].at = "idle" /\ request'[t].card = 0
                                 \/ /\ request'[t].at = "charge" /\ request'[t].card = request[t].card
                                    /\ request[t].tool = "review" /\ request'[t].id = job.number
  <2>1. Launch(t) => \/ Moves(t, Idle)
                     \/ /\ request[t].tool = "review"
                        /\ Moves(t, [request[t] EXCEPT !.at = "charge", !.id = job.number])
    BY Where
  <2>2. Moves(t, Idle) => Others(t) /\ request'[t].at = "idle" /\ request'[t].card = 0
    BY <1>5 DEF Moves, Others
  <2>3. ASSUME Moves(t, [request[t] EXCEPT !.at = "charge", !.id = job.number])
        PROVE  Others(t) /\ request'[t].at = "charge" /\ request'[t].card = request[t].card /\ request'[t].id = job.number
    <3>1. request'[t] = [request[t] EXCEPT !.at = "charge", !.id = job.number] /\ Others(t)
      BY <2>3 DEF Moves, Others
    <3> QED
      BY <3>1, <1>3
  <2> QED
    BY <2>1, <2>2, <2>3
<1>12. Show => \A s \in Threads : request'[s] = request[s]
  BY DEF Show
<1>13. PlanSmall => /\ \A s \in Threads \ {Agent} : request'[s] = request[s]
                    /\ request'[Agent].at = "act" /\ request'[Agent].card = 0
  BY <1>4 DEF PlanSmall, Threads, Types, TypeOK
<1> QED
  BY <1>6, <1>7, <1>8, <1>9, <1>10, <1>11, <1>12, <1>13, Zenon

(***************************************************************************)
(* Starting.                                                               *)
(***************************************************************************)
LEMMA StartingStart == DeskAssumption /\ Init => Starting
BY DEF DeskAssumption, Init, Starting, In, Idle, Doing, Running, Numbers, Announced

(* A thread that is not starting a job does not disturb one that is.       *)
LEMMA StartingCalm ==
    ASSUME Starting, UNCHANGED <<job, number, recorded>>,
           \A s \in Threads : request'[s] = request[s] \/ request'[s].at \notin {"announce", "launch"}
    PROVE  Starting'
BY DEF Starting, In, Running, Numbers, Announced

(* Nor does a job that has been started.                                   *)
LEMMA StartingWork ==
    ASSUME Starting, UNCHANGED <<number, recorded>>, job.at # "new",
           job' = NoJob \/ (Running /\ job'.number = job.number),
           \A s \in Threads : request'[s] = request[s]
    PROVE  Starting'
BY DEF Starting, In, Running, Numbers, Announced

LEMMA NumberIs ==
    ASSUME DeskAssumption, Types, Starting, NEW t \in Threads, NumberJob(t)
    PROVE  /\ request[t].tool \in Kinds /\ ~Running /\ UNCHANGED recorded /\ UNCHANGED grants
           /\ number' \in 1..MaxJobs /\ job' \in Jobs /\ Running'
           /\ job'.at = "new" /\ job'.kind = request[t].tool /\ job'.number = number'
           /\ \A m \in Numbers : m <= number' /\ m # number'
<1> USE DEF Types, TypeOK
<1>1. \A m \in Numbers : m \in 1..MaxJobs
  <2>1. \A i \in DOMAIN recorded : recorded[i] \in [number : 1..MaxJobs, kind : Kinds]
    BY Elements
  <2> QED
    BY <2>1 DEF Numbers
<1>2. Seed \in Numbers \cup {0} /\ \A m \in Numbers : m <= Seed
  <2>1. \E n \in Numbers \cup {0} : \A m \in Numbers : m <= n
    BY DEF Starting
  <2> QED
    BY <2>1, Zenon DEF Seed
<1>3. PICK last : last = (IF number = 0 THEN Seed ELSE number)
  OBVIOUS
<1>4. last \in Nat /\ \A m \in Numbers : m <= last
  <2>1. CASE number = 0
    BY <1>1, <1>2, <1>3, <2>1
  <2>2. CASE number # 0
    BY <1>3, <2>2 DEF Starting, DeskAssumption
  <2> QED
    BY <2>1, <2>2
<1>5. number' = last + 1 /\ last + 1 <= MaxJobs
      /\ job' = [at |-> "new", kind |-> request[t].tool, number |-> last + 1, used |-> 0]
  BY <1>3 DEF NumberJob
<1>6. request[t].tool \in Kinds /\ ~Running /\ UNCHANGED recorded /\ UNCHANGED grants
  BY DEF NumberJob, ledger
<1>7. number' \in 1..MaxJobs /\ \A m \in Numbers : m <= number' /\ m # number'
  BY <1>1, <1>4, <1>5 DEF DeskAssumption
<1>8. job' \in Jobs
  BY <1>5, <1>6, <1>7, JobSteps
<1>9. Running'
  BY <1>5 DEF Running, NoJob
<1> QED
  BY <1>5, <1>6, <1>7, <1>8, <1>9

LEMMA WorkAt ==
    ASSUME DeskAssumption, Work
    PROVE  /\ job.at \notin {"none", "new"} /\ UNCHANGED <<number, recorded, request, grants, exports, folders, up>>
           /\ UNCHANGED <<shown, closed, approved, acted>>
<1>1. job.at \in {"work", "call", "reviewed", "tail", "settling"} \cup MayFail
  BY DEF Work, OpenCall, CloseCall, Review, FinishReview, FinishWork, WorkRaises, Settle, Works
<1> QED
  BY <1>1 DEF DeskAssumption, Work, OpenCall, CloseCall, Review, FinishReview, FinishWork, WorkRaises, Settle, ledger, history

LEMMA StartingNumber ==
    ASSUME DeskAssumption, Types, Starting, NEW t \in Threads, NumberJob(t)
    PROVE  Starting'
<1>2. request'[t].at = "announce" /\ request'[t].tool = request[t].tool /\ Others(t)
  BY Spots, Zenon DEF Keeps
<1>3. \A s \in Threads \ {t} : request'[s] = request[s] /\ ~In(s, {"announce", "launch"})
  BY <1>2, NumberIs DEF Others, Starting, Running, NoJob
<1>4. Numbers' = Numbers /\ Running' /\ job'.at = "new" /\ job'.kind = request[t].tool /\ request[t].tool \in Kinds
      /\ job'.number = number' /\ number' \in 1..MaxJobs /\ \A m \in Numbers : m <= number' /\ m # number'
  BY NumberIs DEF Numbers
<1>5. \A s \in Threads : In(s, {"announce", "launch"})' => s = t
  BY <1>3 DEF In
<1>6. \A s \in Threads : In(s, {"announce"})' => number' \notin Numbers'
  BY <1>4
<1>7. \A s \in Threads : ~In(s, {"launch"})'
  BY <1>2, <1>3 DEF In
<1>8. UNCHANGED recorded /\ \E n \in Numbers' \cup {0} : \A m \in Numbers' : m <= n
  BY <1>4, NumberIs DEF Starting
<1>9. number' > 0
  BY <1>4
<1>10. \A s \in Threads : In(s, {"announce", "launch"})' =>
         job'.at = "new" /\ job'.kind = request'[s].tool /\ request'[s].tool \in Kinds
  BY <1>2, <1>4, <1>5
<1>11. (\A i, j \in DOMAIN recorded : recorded[i].number = recorded[j].number => i = j)'
  BY <1>8 DEF Starting
<1> QED
  BY <1>4, <1>5, <1>6, <1>7, <1>8, <1>9, <1>10, <1>11 DEF Starting

LEMMA Extended ==
    ASSUME NEW S, NEW s \in Seq(S), NEW e
    PROVE  /\ DOMAIN Append(s, e) = DOMAIN s \cup {Len(s) + 1} /\ Len(s) + 1 \notin DOMAIN s
           /\ Append(s, e)[Len(s) + 1] = e /\ \A i \in DOMAIN s : Append(s, e)[i] = s[i]
OBVIOUS

LEMMA StartingAnnounce ==
    ASSUME DeskAssumption, Types, Starting, NEW t \in Threads, Announce(t)
    PROVE  /\ Starting'
           /\ Numbers' = Numbers \cup {number} /\ number \notin Numbers
           /\ \A n, kind : Announced(n, kind) => Announced(n, kind)'
<1>2. request'[t].at = "launch" /\ request'[t].tool = request[t].tool /\ request'[t].id = request[t].id /\ Others(t)
  BY Spots, Zenon DEF Keeps
<1>3. In(t, {"announce"}) /\ UNCHANGED <<job, number>> /\ recorded' = Append(recorded, [number |-> job.number, kind |-> job.kind])
  BY DEF Announce, At, In
<1>4. job.at = "new" /\ job.kind = request[t].tool /\ request[t].tool \in Kinds /\ job.number = number /\ number > 0
      /\ number \notin Numbers /\ \A m \in Numbers : m <= number
  BY <1>3 DEF Starting, In, Running, NoJob
<1>5. \A s \in Threads \ {t} : request'[s] = request[s] /\ ~In(s, {"announce", "launch"})
  BY <1>2, <1>3 DEF Others, Starting, In
<1> DEFINE r == [number |-> number, kind |-> job.kind]
           k == Len(recorded) + 1
<1>6. /\ DOMAIN recorded' = DOMAIN recorded \cup {k} /\ k \notin DOMAIN recorded
      /\ recorded'[k] = r /\ \A i \in DOMAIN recorded : recorded'[i] = recorded[i]
  <2>1. recorded \in Seq([number : 1..MaxJobs, kind : Kinds])
    BY DEF Types, TypeOK
  <2>2. recorded' = Append(recorded, r)
    BY <1>3, <1>4
  <2> HIDE DEF r
  <2> QED
    BY <2>1, <2>2, Extended
<1> HIDE DEF k
<1>7. Numbers' = Numbers \cup {number}
  BY <1>6 DEF Numbers
<1>8. Announced(number, request[t].tool)'
  <2>1. recorded'[k] = [number |-> number', kind |-> request'[t].tool] /\ k \in DOMAIN recorded'
    BY <1>2, <1>3, <1>4, <1>6
  <2> QED
    BY <2>1 DEF Announced
<1>9. \A n, kind : Announced(n, kind) => Announced(n, kind)'
  BY <1>6 DEF Announced
<1>10. (\A i, j \in DOMAIN recorded : recorded[i].number = recorded[j].number => i = j)'
  <2>1. \A i \in DOMAIN recorded : recorded[i].number # number
    BY <1>4 DEF Numbers
  <2> QED
    BY <1>6, <2>1 DEF Starting
<1>11. number \in Nat
  BY DEF Types, TypeOK, DeskAssumption
<1>12. \E n \in Numbers' \cup {0} : \A m \in Numbers' : m <= n
  BY <1>4, <1>7, <1>11
<1>13. \A m \in Numbers' : m <= number
  BY <1>4, <1>7, <1>11
<1>14. \A s \in Threads : In(s, {"announce", "launch"})' => s = t
  BY <1>5 DEF In
<1>15. Starting'
  <2>1. (\A s \in Threads : In(s, {"announce", "launch"}) =>
           job.at = "new" /\ job.kind = request[s].tool /\ request[s].tool \in Kinds)'
    BY <1>2, <1>3, <1>4, <1>14
  <2>2. (\A s \in Threads : In(s, {"announce"}) => number \notin Numbers)'
    BY <1>2, <1>5 DEF In
  <2>3. (\A s \in Threads : In(s, {"launch"}) => Announced(number, request[s].tool))'
    BY <1>2, <1>3, <1>5, <1>8 DEF In
  <2>4. (Running => job.number = number /\ number > 0)'
    BY <1>3, <1>4
  <2> QED
    BY <1>3, <1>10, <1>12, <1>13, <1>14, <2>1, <2>2, <2>3, <2>4 DEF Starting
<1> QED
  BY <1>4, <1>7, <1>9, <1>15

LEMMA StartingLaunch ==
    ASSUME DeskAssumption, Types, Starting, NEW t \in Threads, Launch(t)
    PROVE  /\ Starting'
           /\ \A s \in Threads : ~In(s, {"announce", "launch"})'
           /\ job.at = "new" /\ Reaches(job, "work") /\ job.number = number /\ Announced(number, request[t].tool)
           /\ UNCHANGED <<recorded, number>>
<1>2. request'[t].at \in {"idle", "charge"} /\ Others(t)
  BY Spots
<1>3. In(t, {"launch"}) /\ UNCHANGED <<recorded, number>> /\ Reaches(job, "work")
  BY JobSteps DEF Launch, At, In, Types, TypeOK, ledger
<1>4. job.at = "new" /\ job.number = number /\ number > 0 /\ Announced(number, request[t].tool)
  BY <1>3 DEF Starting, In, Running, NoJob
<1>5. \A s \in Threads : ~In(s, {"announce", "launch"})'
  BY <1>2, <1>3 DEF Others, Starting, In
<1>6. Starting'
  <2>1. \A s \in Threads : ~In(s, {"announce"})' /\ ~In(s, {"launch"})'
    BY <1>5 DEF In
  <2>2. Numbers' = Numbers
    BY <1>3 DEF Numbers
  <2>3. (Running => job.number = number /\ number > 0)'
    BY <1>3, <1>4 DEF Reaches
  <2> QED
    BY <1>3, <1>5, <2>1, <2>2, <2>3 DEF Starting
<1> QED
  BY <1>3, <1>4, <1>5, <1>6

LEMMA StartingStep ==
    ASSUME DeskAssumption, Types, Starting, Next
    PROVE  Starting'
<1> USE DEF Types, TypeOK
<1>1. ASSUME NEW t \in Threads, SelectProfile(t) \/ Press(t) \/ ReadCard(t) \/ Serve(t)
      PROVE  Starting'
  <2>1. CASE NumberJob(t)
    BY <2>1, StartingNumber
  <2>2. CASE Announce(t)
    BY <2>2, StartingAnnounce
  <2>3. CASE Launch(t)
    BY <2>3, StartingLaunch
  <2>4. CASE SelectProfile(t) \/ Press(t) \/ ReadCard(t)
    <3>1. \A s \in Threads : request'[s] = request[s] \/ request'[s].at \notin {"announce", "launch"}
      BY <2>4, Spots DEF Others
    <3>2. UNCHANGED <<job, number, recorded>>
      BY <2>4 DEF SelectProfile, Press, ReadCard, ledger
    <3> QED
      BY <3>1, <3>2, StartingCalm
  <2>5. CASE Close(t) \/ Refuse(t) \/ Charge(t) \/ FolderExists(t) \/ RecordExport(t) \/ AppendRaises(t)
    <3>1. \A s \in Threads : request'[s] = request[s] \/ request'[s].at \notin {"announce", "launch"}
      BY <2>5, Spots DEF Others
    <3>2. UNCHANGED <<job, number, recorded>>
      BY <2>5 DEF Close, Refuse, Charge, FolderExists, RecordExport, AppendRaises, ledger
    <3> QED
      BY <3>1, <3>2, StartingCalm
  <2>6. CASE GrantCard(t) \/ MakeFolder(t) \/ CountExports(t)
    <3>1. \A s \in Threads : request'[s] = request[s] \/ request'[s].at \notin {"announce", "launch"}
      BY <2>6, Spots DEF Others, Keeps
    <3>2. UNCHANGED <<job, number, recorded>>
      BY <2>6 DEF GrantCard, MakeFolder, CountExports, ledger
    <3> QED
      BY <3>1, <3>2, StartingCalm
  <2> QED
    BY <1>1, <2>1, <2>2, <2>3, <2>4, <2>5, <2>6 DEF Serve
<1>2. CASE Show \/ PlanSmall
  <2>1. \A s \in Threads : request'[s] = request[s] \/ request'[s].at \notin {"announce", "launch"}
    BY <1>2, Spots
  <2>2. UNCHANGED <<job, number, recorded>>
    BY <1>2 DEF Show, PlanSmall, ledger
  <2> QED
    BY <2>1, <2>2, StartingCalm
<1>3. CASE Work
  <2>1. job.at # "new" /\ Running
    BY <1>3, WorkAt DEF Running, NoJob
  <2>2. job' = NoJob \/ job'.number = job.number
    BY <1>3, WorkMoves DEF Work, Settle, Reaches
  <2>3. UNCHANGED <<number, recorded, request>>
    BY <1>3, WorkAt
  <2>4. \A s \in Threads : request'[s] = request[s]
    BY <2>3
  <2>5. UNCHANGED <<number, recorded>> /\ (job' = NoJob \/ (Running /\ job'.number = job.number))
    BY <2>1, <2>2, <2>3
  <2> QED
    BY <2>1, <2>4, <2>5, StartingWork
<1>4. CASE Kill
  <2>1. \A s \in Threads : request'[s].at = "idle"
    BY <1>4 DEF Kill, Idle, Doing
  <2>2. ~Running' /\ number' = 0 /\ UNCHANGED recorded
    BY <1>4 DEF Kill, Running, ledger
  <2>3. \A s \in Threads : ~In(s, {"announce", "launch"})' /\ ~In(s, {"announce"})' /\ ~In(s, {"launch"})'
    BY <2>1 DEF In
  <2>4. ~(number' > 0) /\ Numbers' = Numbers
    BY <2>2 DEF Numbers
  <2> QED
    BY <2>2, <2>3, <2>4 DEF Starting
<1>5. CASE Restart
  BY <1>5, StartingCalm DEF Restart
<1> QED
  BY <1>1, <1>2, <1>3, <1>4, <1>5 DEF Next

(***************************************************************************)
(* Charging.                                                               *)
(***************************************************************************)
LEMMA ChargingStart == DeskAssumption /\ Init => Charging
BY DEF DeskAssumption, Init, Charging, GrantsAreReviews, Granted, In, Idle, Doing

(* A thread that neither launches nor charges does not disturb one that    *)
(* does.                                                                   *)
LEMMA ChargingCalm ==
    ASSUME Charging, UNCHANGED <<recorded, grants>>,
           \A s \in Threads : request'[s] = request[s] \/ request'[s].at \notin {"charge", "launch"},
           UNCHANGED number \/ \A s \in Threads : request'[s].at # "launch"
    PROVE  Charging'
BY DEF Charging, GrantsAreReviews, Granted, In, Announced

LEMMA ChargingAnnounce ==
    ASSUME DeskAssumption, Types, Starting, Charging, NEW t \in Threads, Announce(t)
    PROVE  Charging'
<1>1. request'[t].at = "launch" /\ Others(t)
  BY Spots, Zenon DEF Keeps
<1>2. Numbers' = Numbers \cup {number} /\ number \notin Numbers /\ \A n, kind : Announced(n, kind) => Announced(n, kind)'
  BY StartingAnnounce
<1>3. UNCHANGED <<grants, number>> /\ Granted' = Granted
  BY DEF Announce, Granted
<1>4. \A n, kind : Announced(n, kind) => n \in Numbers
  BY DEF Announced, Numbers
<1>5. \A i \in DOMAIN grants : Announced(grants[i], "review")
  BY DEF Charging, GrantsAreReviews, Announced
<1>6. number \notin Granted
  BY <1>2, <1>4, <1>5 DEF Granted
<1>7. GrantsAreReviews'
  <2>1. \A i \in DOMAIN grants : Announced(grants[i], "review")'
    BY <1>2, <1>3, <1>5, Zenon
  <2> QED
    BY <1>3, <2>1 DEF Charging, GrantsAreReviews, Announced
<1>8. \A s \in Threads : In(s, {"charge"})' =>
        /\ s # t /\ request'[s] = request[s] /\ In(s, {"charge"})
        /\ Announced(request[s].id, "review") /\ Announced(request[s].id, "review")' /\ request[s].id \notin Granted
        /\ request[s].id # number
  <2>1. \A s \in Threads : In(s, {"charge"})' => s # t /\ request'[s] = request[s] /\ In(s, {"charge"})
    BY <1>1 DEF In, Others
  <2>2. \A s \in Threads : In(s, {"charge"}) => Announced(request[s].id, "review") /\ request[s].id \notin Granted
    BY DEF Charging
  <2> QED
    BY <1>2, <1>4, <2>1, <2>2
<1>9. (\A s \in Threads : In(s, {"charge"}) => Announced(request[s].id, "review") /\ request[s].id \notin Granted)'
  BY <1>3, <1>8 DEF Announced
<1>10. (\A s, u \in Threads : In(s, {"charge"}) /\ In(u, {"charge"}) /\ request[s].id = request[u].id => s = u)'
  BY <1>8 DEF Charging
<1>11. (\A s, u \in Threads : In(u, {"launch"}) /\ request[u].tool = "review" =>
          number \notin Granted /\ (In(s, {"charge"}) => request[s].id # number))'
  BY <1>3, <1>6, <1>8
<1> QED
  BY <1>7, <1>9, <1>10, <1>11 DEF Charging

LEMMA ChargingLaunch ==
    ASSUME DeskAssumption, Types, Starting, Charging, NEW t \in Threads, Launch(t)
    PROVE  Charging'
<1>1. Others(t) /\ \/ request'[t].at = "idle"
                   \/ request'[t].at = "charge" /\ request[t].tool = "review" /\ request'[t].id = job.number
  BY Spots
<1>2. /\ \A s \in Threads : ~In(s, {"announce", "launch"})'
      /\ job.number = number /\ Announced(number, request[t].tool)
      /\ UNCHANGED <<recorded, grants>>
  BY StartingLaunch DEF Launch, ledger
<1>3. In(t, {"launch"})
  BY DEF Launch, At, In
<1>4. Granted' = Granted /\ GrantsAreReviews' /\ \A n, kind : Announced(n, kind)' <=> Announced(n, kind)
  BY <1>2 DEF Granted, GrantsAreReviews, Announced, Charging
<1>5. \A s \in Threads : In(s, {"charge"})' =>
        \/ s # t /\ request'[s] = request[s] /\ In(s, {"charge"})
        \/ s = t /\ request'[t].id = number /\ request[t].tool = "review"
  BY <1>1, <1>2 DEF In, Others
<1>6. request[t].tool = "review" =>
        number \notin Granted /\ \A s \in Threads : In(s, {"charge"}) => request[s].id # number
  BY <1>3 DEF Charging
<1>7. (\A s \in Threads : In(s, {"charge"}) => Announced(request[s].id, "review") /\ request[s].id \notin Granted)'
  <2>1. \A s \in Threads : In(s, {"charge"})' => Announced(request'[s].id, "review") /\ request'[s].id \notin Granted
    BY <1>2, <1>5, <1>6 DEF Charging
  <2> QED
    BY <1>2, <1>4, <2>1 DEF Announced
<1>8. (\A s, u \in Threads : In(s, {"charge"}) /\ In(u, {"charge"}) /\ request[s].id = request[u].id => s = u)'
  BY <1>5, <1>6 DEF Charging
<1>9. \A s \in Threads : ~In(s, {"launch"})'
  BY <1>2 DEF In
<1> QED
  BY <1>4, <1>7, <1>8, <1>9 DEF Charging

LEMMA ChargingCharge ==
    ASSUME DeskAssumption, Types, Starting, Charging, NEW t \in Threads, Charge(t)
    PROVE  Charging'
<1>1. Others(t) /\ request'[t].at = "idle"
  BY Spots
<1>2. In(t, {"charge"}) /\ grants' = Append(grants, request[t].id) /\ UNCHANGED <<recorded, number>>
  BY DEF Charge, At, In, Charged
<1>3. Announced(request[t].id, "review") /\ request[t].id \notin Granted
  BY <1>2 DEF Charging
<1> DEFINE k == Len(grants) + 1
<1>4. /\ DOMAIN grants' = DOMAIN grants \cup {k} /\ k \notin DOMAIN grants
      /\ grants'[k] = request[t].id /\ \A i \in DOMAIN grants : grants'[i] = grants[i]
  BY <1>2, Extended DEF Types, TypeOK
<1> HIDE DEF k
<1>5. Granted' = Granted \cup {request[t].id}
  BY <1>4 DEF Granted
<1>6. GrantsAreReviews'
  <2>1. \A i \in DOMAIN grants : grants[i] # request[t].id
    BY <1>3 DEF Granted
  <2>2. \A i, j \in DOMAIN grants' : grants'[i] = grants'[j] => i = j
    BY <1>4, <2>1 DEF Charging, GrantsAreReviews
  <2>3. \A i \in DOMAIN grants' : Announced(grants'[i], "review")
    BY <1>3, <1>4 DEF Charging, GrantsAreReviews, Announced
  <2> QED
    BY <1>2, <2>2, <2>3 DEF GrantsAreReviews, Announced
<1>7. \A s \in Threads : \A place \in {"charge", "launch"} : In(s, {place})' =>
        s # t /\ request'[s] = request[s] /\ In(s, {place})
  BY <1>1 DEF In, Others
<1>8. (\A s \in Threads : In(s, {"charge"}) => Announced(request[s].id, "review") /\ request[s].id \notin Granted)'
  <2>1. \A s \in Threads : In(s, {"charge"})' => Announced(request'[s].id, "review") /\ request'[s].id \notin Granted'
    BY <1>2, <1>5, <1>7 DEF Charging
  <2> QED
    BY <1>2, <2>1 DEF Announced
<1>9. (\A s, u \in Threads : In(s, {"charge"}) /\ In(u, {"charge"}) /\ request[s].id = request[u].id => s = u)'
  BY <1>7 DEF Charging
<1>10. (\A s, u \in Threads : In(u, {"launch"}) /\ request[u].tool = "review" =>
          number \notin Granted /\ (In(s, {"charge"}) => request[s].id # number))'
  BY <1>2, <1>5, <1>7 DEF Charging
<1> QED
  BY <1>6, <1>8, <1>9, <1>10 DEF Charging

LEMMA ChargingStep ==
    ASSUME DeskAssumption, Types, Starting, Charging, Next
    PROVE  Charging'
<1>1. ASSUME NEW t \in Threads, SelectProfile(t) \/ Press(t) \/ ReadCard(t) \/ Serve(t)
      PROVE  Charging'
  <2>1. CASE Announce(t)
    BY <2>1, ChargingAnnounce
  <2>2. CASE Launch(t)
    BY <2>2, ChargingLaunch
  <2>3. CASE Charge(t)
    BY <2>3, ChargingCharge
  <2>4. CASE SelectProfile(t) \/ Press(t) \/ ReadCard(t)
    <3>1. \A s \in Threads : request'[s] = request[s] \/ request'[s].at \notin {"charge", "launch"}
      BY <2>4, Spots DEF Others
    <3>2. UNCHANGED <<number, recorded, grants>>
      BY <2>4 DEF SelectProfile, Press, ReadCard, ledger
    <3> QED
      BY <3>1, <3>2, ChargingCalm
  <2>5. CASE Close(t) \/ Refuse(t) \/ FolderExists(t) \/ RecordExport(t) \/ AppendRaises(t)
    <3>1. \A s \in Threads : request'[s] = request[s] \/ request'[s].at \notin {"charge", "launch"}
      BY <2>5, Spots DEF Others
    <3>2. UNCHANGED <<number, recorded, grants>>
      BY <2>5 DEF Close, Refuse, FolderExists, RecordExport, AppendRaises, ledger
    <3> QED
      BY <3>1, <3>2, ChargingCalm
  <2>6. CASE GrantCard(t) \/ MakeFolder(t) \/ CountExports(t)
    <3>1. \A s \in Threads : request'[s] = request[s] \/ request'[s].at \notin {"charge", "launch"}
      BY <2>6, Spots DEF Others, Keeps
    <3>2. UNCHANGED <<number, recorded, grants>>
      BY <2>6 DEF GrantCard, MakeFolder, CountExports, ledger
    <3> QED
      BY <3>1, <3>2, ChargingCalm
  <2>7. CASE NumberJob(t)
    <3>1. request'[t].at = "announce" /\ Others(t)
      BY <2>7, Spots, Zenon DEF Keeps
    <3>2. ~Running /\ UNCHANGED <<recorded, grants>>
      BY <2>7, NumberIs
    <3>3. \A s \in Threads : request[s].at # "launch"
      BY <3>2 DEF Starting, Running, In, NoJob
    <3> QED
      BY <3>1, <3>2, <3>3, ChargingCalm DEF Others
  <2> QED
    BY <1>1, <2>1, <2>2, <2>3, <2>4, <2>5, <2>6, <2>7 DEF Serve
<1>2. CASE Show \/ PlanSmall
  <2>1. \A s \in Threads : request'[s] = request[s] \/ request'[s].at \notin {"charge", "launch"}
    <3>1. \E t : t \in Threads
      BY DEF Threads
    <3> QED
      BY <1>2, <3>1, Spots
  <2>2. UNCHANGED <<number, recorded, grants>>
    BY <1>2 DEF Show, PlanSmall, ledger
  <2> QED
    BY <2>1, <2>2, ChargingCalm
<1>3. CASE Work
  <2>1. UNCHANGED <<number, recorded, request, grants>>
    BY <1>3, WorkAt
  <2> QED
    BY <2>1, ChargingCalm
<1>4. CASE Kill
  <2>1. \A s \in Threads : request'[s].at = "idle"
    BY <1>4 DEF Kill, Idle, Doing
  <2>2. UNCHANGED <<recorded, grants>>
    BY <1>4 DEF Kill, ledger
  <2> QED
    BY <2>1, <2>2, ChargingCalm
<1>5. CASE Restart
  BY <1>5, ChargingCalm DEF Restart
<1> QED
  BY <1>1, <1>2, <1>3, <1>4, <1>5 DEF Next

(***************************************************************************)
(* Exporting.                                                              *)
(***************************************************************************)
LEMMA ExportingStart == DeskAssumption /\ Init => Exporting
BY DEF DeskAssumption, Init, Exporting, Exported, In, Idle, Doing

LEMMA ExportingCalm ==
    ASSUME Exporting, UNCHANGED <<folders, exports>>,
           \A s \in Threads : request'[s] = request[s] \/ request'[s].at \notin {"mkdir", "write"}
    PROVE  Exporting'
BY DEF Exporting, Exported, In

LEMMA ExportingCount ==
    ASSUME DeskAssumption, Types, Exporting, NEW t \in Threads, CountExports(t)
    PROVE  Exporting'
<1>1. Others(t) /\ request'[t].at = "mkdir" /\ request'[t].id = Len(exports) + 1
  BY Spots DEF Keeps
<1>2. UNCHANGED <<folders, exports>> /\ Len(exports) + 1 \in 1..MaxExports
  BY Elements DEF CountExports, DeskAssumption, Types, TypeOK
<1>3. \A s \in Threads : In(s, {"write"})' => request'[s] = request[s] /\ In(s, {"write"})
  BY <1>1 DEF In, Others
<1>4. (\A s \in Threads : In(s, {"mkdir", "write"}) => request[s].id \in 1..MaxExports)'
  BY <1>1, <1>2 DEF In, Others, Exporting
<1> QED
  BY <1>2, <1>3, <1>4 DEF Exporting, Exported

LEMMA ExportingMake ==
    ASSUME DeskAssumption, Types, Exporting, NEW t \in Threads, MakeFolder(t)
    PROVE  Exporting'
<1>1. Others(t) /\ request'[t].at = "write" /\ request'[t].id = request[t].id
  BY Spots DEF Keeps
<1>2. In(t, {"mkdir", "write"}) /\ folders' = folders \cup {request[t].id} /\ request[t].id \notin folders /\ UNCHANGED exports
  BY DEF MakeFolder, At, In, Taken, ledger
<1>3. request[t].id \in 1..MaxExports /\ request[t].id \notin Exported
  BY <1>2 DEF Exporting
<1>4. \A s \in Threads : In(s, {"write"})' =>
        (s # t => request'[s] = request[s] /\ In(s, {"write"}) /\ request[s].id \in folders /\ request[s].id \notin Exported)
  BY <1>1 DEF In, Others, Exporting
<1>5. (\A s \in Threads : In(s, {"mkdir", "write"}) => request[s].id \in 1..MaxExports)'
  BY <1>1, <1>3 DEF In, Others, Exporting
<1>6. Exported' = Exported
  BY <1>2 DEF Exported
<1>7. (\A s \in Threads : In(s, {"write"}) => request[s].id \in folders /\ request[s].id \notin Exported)'
  BY <1>1, <1>2, <1>3, <1>4, <1>6
<1>8. (\A s, u \in Threads : In(s, {"write"}) /\ In(u, {"write"}) /\ request[s].id = request[u].id => s = u)'
  BY <1>1, <1>2, <1>4 DEF Exporting
<1> QED
  BY <1>2, <1>5, <1>6, <1>7, <1>8 DEF Exporting

LEMMA ExportingRecord ==
    ASSUME DeskAssumption, Types, Exporting, NEW t \in Threads, RecordExport(t)
    PROVE  Exporting'
<1>1. Others(t) /\ request'[t].at = "idle"
  BY Spots
<1>2. In(t, {"write"}) /\ exports' = Append(exports, request[t].id) /\ UNCHANGED folders
  BY DEF RecordExport, At, In
<1>3. request[t].id \in folders /\ request[t].id \notin Exported
  BY <1>2 DEF Exporting
<1> DEFINE k == Len(exports) + 1
<1>4. /\ DOMAIN exports' = DOMAIN exports \cup {k} /\ k \notin DOMAIN exports
      /\ exports'[k] = request[t].id /\ \A i \in DOMAIN exports : exports'[i] = exports[i]
  BY <1>2, Extended DEF Types, TypeOK
<1> HIDE DEF k
<1>5. Exported' = Exported \cup {request[t].id}
  BY <1>4 DEF Exported
<1>6. (\A i, j \in DOMAIN exports : exports[i] = exports[j] => i = j)'
  <2>1. \A i \in DOMAIN exports : exports[i] # request[t].id
    BY <1>3 DEF Exported
  <2> QED
    BY <1>4, <2>1 DEF Exporting
<1>7. \A s \in Threads : In(s, {"write"})' => s # t /\ request'[s] = request[s] /\ In(s, {"write"})
  BY <1>1 DEF In, Others
<1>8. (\A s \in Threads : In(s, {"mkdir", "write"}) => request[s].id \in 1..MaxExports)'
  BY <1>1 DEF In, Others, Exporting
<1>9. (\A s \in Threads : In(s, {"write"}) => request[s].id \in folders /\ request[s].id \notin Exported)'
  BY <1>2, <1>5, <1>7 DEF Exporting
<1>10. (\A s, u \in Threads : In(s, {"write"}) /\ In(u, {"write"}) /\ request[s].id = request[u].id => s = u)'
  BY <1>7 DEF Exporting
<1>11. (Exported \subseteq folders)'
  BY <1>2, <1>3, <1>5 DEF Exporting
<1> QED
  BY <1>6, <1>8, <1>9, <1>10, <1>11 DEF Exporting

LEMMA ExportingStep ==
    ASSUME DeskAssumption, Types, Exporting, Next
    PROVE  Exporting'
<1>1. ASSUME NEW t \in Threads, SelectProfile(t) \/ Press(t) \/ ReadCard(t) \/ Serve(t)
      PROVE  Exporting'
  <2>1. CASE CountExports(t)
    BY <2>1, ExportingCount
  <2>2. CASE MakeFolder(t)
    BY <2>2, ExportingMake
  <2>3. CASE RecordExport(t)
    BY <2>3, ExportingRecord
  <2>4. CASE SelectProfile(t) \/ Press(t) \/ ReadCard(t)
    <3>1. \A s \in Threads : request'[s] = request[s] \/ request'[s].at \notin {"mkdir", "write"}
      BY <2>4, Spots DEF Others
    <3>2. UNCHANGED <<folders, exports>>
      BY <2>4 DEF SelectProfile, Press, ReadCard, ledger
    <3> QED
      BY <3>1, <3>2, ExportingCalm
  <2>5. CASE Close(t) \/ Refuse(t) \/ Charge(t) \/ FolderExists(t) \/ AppendRaises(t)
    <3>1. \A s \in Threads : request'[s] = request[s] \/ request'[s].at \notin {"mkdir", "write"}
      BY <2>5, Spots DEF Others
    <3>2. UNCHANGED <<folders, exports>>
      BY <2>5 DEF Close, Refuse, Charge, FolderExists, AppendRaises, ledger
    <3> QED
      BY <3>1, <3>2, ExportingCalm
  <2>6. CASE GrantCard(t) \/ NumberJob(t) \/ Announce(t) \/ Launch(t)
    <3>1. \A s \in Threads : request'[s] = request[s] \/ request'[s].at \notin {"mkdir", "write"}
      BY <2>6, Spots DEF Others, Keeps
    <3>2. UNCHANGED <<folders, exports>>
      BY <2>6 DEF GrantCard, NumberJob, Announce, Launch, ledger
    <3> QED
      BY <3>1, <3>2, ExportingCalm
  <2> QED
    BY <1>1, <2>1, <2>2, <2>3, <2>4, <2>5, <2>6 DEF Serve
<1>2. CASE Show \/ PlanSmall
  <2>1. \A s \in Threads : request'[s] = request[s] \/ request'[s].at \notin {"mkdir", "write"}
    <3>1. \E t : t \in Threads
      BY DEF Threads
    <3> QED
      BY <1>2, <3>1, Spots
  <2>2. UNCHANGED <<folders, exports>>
    BY <1>2 DEF Show, PlanSmall, ledger
  <2> QED
    BY <2>1, <2>2, ExportingCalm
<1>3. CASE Work
  <2>1. UNCHANGED <<folders, exports, request>>
    BY <1>3, WorkAt
  <2> QED
    BY <2>1, ExportingCalm
<1>4. CASE Kill
  <2>1. \A s \in Threads : request'[s].at = "idle"
    BY <1>4 DEF Kill, Idle, Doing
  <2>2. UNCHANGED <<folders, exports>>
    BY <1>4 DEF Kill, ledger
  <2> QED
    BY <2>1, <2>2, ExportingCalm
<1>5. CASE Restart
  BY <1>5, ExportingCalm DEF Restart
<1> QED
  BY <1>1, <1>2, <1>3, <1>4, <1>5 DEF Next

(***************************************************************************)
(* Calling.                                                                *)
(***************************************************************************)
LEMMA CallingStart == DeskAssumption /\ Init => Calling
BY DEF Init, Calling, CallsClosedOnce, NoJob

LEMMA CallingCalm ==
    ASSUME Calling, UNCHANGED calls, up' => up, job'.at = job.at \/ (job.at # "call" /\ job'.at # "call") \/ (~up' /\ job'.at # "call")
    PROVE  Calling'
BY DEF Calling, CallsClosedOnce

LEMMA CallingOpen ==
    ASSUME DeskAssumption, Types, Calling, OpenCall
    PROVE  Calling'
<1>1. Reconciled \in Seq(Nat) /\ Len(Reconciled) = Len(calls)
      /\ \A n \in DOMAIN Reconciled : Reconciled[n] # 0 /\ Reconciled[n] <= 1
  <2>1. DOMAIN calls = 1..Len(calls) /\ Len(calls) \in Nat /\ \A n \in DOMAIN calls : calls[n] \in Nat /\ calls[n] <= 1
    BY Elements DEF Types, TypeOK, Calling, CallsClosedOnce
  <2> QED
    BY <2>1 DEF Reconciled
<1>2. calls' = Append(Reconciled, 0) /\ job'.at = "call"
  BY WorkMoves DEF OpenCall, Reaches, Types, TypeOK
<1> DEFINE k == Len(Reconciled) + 1
<1>3. /\ DOMAIN calls' = DOMAIN Reconciled \cup {k} /\ Len(calls') = k /\ k > 0
      /\ calls'[k] = 0 /\ \A n \in DOMAIN Reconciled : calls'[n] = Reconciled[n]
  BY <1>1, <1>2, Extended, Elements
<1> HIDE DEF k
<1>4. \A n \in DOMAIN calls' : calls'[n] <= 1 /\ (calls'[n] = 0 => n = Len(calls'))
  BY <1>1, <1>3
<1> QED
  BY <1>2, <1>3, <1>4 DEF Calling, CallsClosedOnce

LEMMA CallingClose ==
    ASSUME DeskAssumption, Types, Calling, CloseCall
    PROVE  Calling'
<1>1. Len(calls) \in DOMAIN calls /\ calls[Len(calls)] = 0 /\ up
  BY Elements DEF CloseCall, Works, Calling, Types, TypeOK, Quiet
<1>2. job'.at # "call"
  BY WorkMoves DEF Reaches, Types, TypeOK
<1>3. calls' = [calls EXCEPT ![Len(calls)] = 1] /\ UNCHANGED up
  BY <1>1 DEF CloseCall
<1>4. DOMAIN calls' = DOMAIN calls /\ calls'[Len(calls)] = 1 /\ \A n \in DOMAIN calls \ {Len(calls)} : calls'[n] = calls[n]
  BY <1>1, <1>3
<1>5. \A n \in DOMAIN calls' : calls'[n] <= 1 /\ calls'[n] # 0
  BY <1>1, <1>4 DEF Calling, CallsClosedOnce
<1> QED
  BY <1>2, <1>5 DEF Calling, CallsClosedOnce

LEMMA CallingStep ==
    ASSUME DeskAssumption, Types, Starting, Calling, Next, "call" \notin MayFail
    PROVE  Calling'
<1>1. ASSUME NEW t \in Threads, SelectProfile(t) \/ Press(t) \/ ReadCard(t) \/ Serve(t)
      PROVE  Calling'
  <2>1. CASE NumberJob(t)
    <3>1. job.at # "call" /\ job'.at # "call"
      BY <2>1, NumberIs DEF Running, NoJob
    <3>2. UNCHANGED <<calls, up>>
      BY <2>1 DEF NumberJob, ledger
    <3> QED
      BY <3>1, <3>2, CallingCalm
  <2>2. CASE Launch(t)
    <3>1. job.at # "call" /\ job'.at # "call"
      BY <2>2, StartingLaunch DEF Reaches
    <3>2. UNCHANGED <<calls, up>>
      BY <2>2 DEF Launch, ledger
    <3> QED
      BY <3>1, <3>2, CallingCalm
  <2>3. CASE SelectProfile(t) \/ Press(t) \/ ReadCard(t) \/ Close(t) \/ GrantCard(t) \/ Refuse(t)
    <3>1. UNCHANGED <<calls, up, job>>
      BY <2>3 DEF SelectProfile, Press, ReadCard, Close, GrantCard, Refuse, ledger
    <3> QED
      BY <3>1, CallingCalm
  <2>4. CASE Announce(t) \/ Charge(t) \/ CountExports(t) \/ MakeFolder(t) \/ FolderExists(t) \/ RecordExport(t) \/ AppendRaises(t)
    <3>1. UNCHANGED <<calls, up, job>>
      BY <2>4 DEF Announce, Charge, CountExports, MakeFolder, FolderExists, RecordExport, AppendRaises, ledger
    <3> QED
      BY <3>1, CallingCalm
  <2> QED
    BY <1>1, <2>1, <2>2, <2>3, <2>4 DEF Serve
<1>2. CASE Show \/ PlanSmall
  <2>1. UNCHANGED <<calls, up, job>>
    BY <1>2 DEF Show, PlanSmall, ledger
  <2> QED
    BY <2>1, CallingCalm
<1>3. CASE OpenCall
  BY <1>3, CallingOpen
<1>4. CASE CloseCall
  BY <1>4, CallingClose
<1>5. CASE Review \/ FinishReview \/ FinishWork \/ WorkRaises \/ Settle
  <2>1. job.at # "call"
    BY <1>5 DEF Review, FinishReview, FinishWork, WorkRaises, Settle, Works
  <2>2. job'.at # "call"
    BY <1>5, WorkMoves DEF Settle, NoJob, Reaches, Types, TypeOK
  <2>3. UNCHANGED <<calls, up>>
    BY <1>5 DEF Review, FinishReview, FinishWork, WorkRaises, Settle, ledger
  <2> QED
    BY <2>1, <2>2, <2>3, CallingCalm
<1>6. CASE Kill
  <2>1. up' = FALSE /\ job'.at # "call" /\ UNCHANGED calls
    BY <1>6 DEF Kill, NoJob, ledger
  <2> QED
    BY <2>1, CallingCalm
<1>7. CASE Restart
  <2>1. job'.at # "call"
    BY <1>7 DEF Restart, Types, Quiet, NoJob
  <2>2. \A n \in DOMAIN calls' : calls'[n] # 0 /\ calls'[n] <= 1
    <3>1. \A n \in DOMAIN calls : calls[n] \in Nat /\ calls[n] <= 1
      BY Elements DEF Types, TypeOK, Calling, CallsClosedOnce
    <3> QED
      BY <1>7, <3>1 DEF Restart, Reconciled
  <2> QED
    BY <2>1, <2>2 DEF Calling, CallsClosedOnce
<1> QED
  BY <1>1, <1>2, <1>3, <1>4, <1>5, <1>6, <1>7 DEF Next, Work

(***************************************************************************)
(* The cards: who decides one and who has still to act on one.             *)
(***************************************************************************)
LEMMA Held ==
    ASSUME DeskAssumption, NEW card, NEW places
    PROVE  /\ IsFiniteSet(Holding(card, places)) /\ Cardinality(Holding(card, places)) \in Nat
           /\ Holding(card, places)' \subseteq Holding(card, places) =>
                Cardinality(Holding(card, places)') <= Cardinality(Holding(card, places))
           /\ Cardinality(Holding(card, places)') \in Nat
<1>1. IsFiniteSet(Threads)
  BY FS_AddElement DEF DeskAssumption, Threads
<1>2. Holding(card, places) \subseteq Threads /\ Holding(card, places)' \subseteq Threads
  BY DEF Holding
<1> QED
  BY <1>1, <1>2, FS_Subset, FS_CardinalityType

LEMMA Joins ==
    ASSUME DeskAssumption, NEW t \in Threads, Others(t), NEW card, NEW places,
           request'[t].card = card, request'[t].at \in places, request[t].at \notin places
    PROVE  Cardinality(Holding(card, places)') = Cardinality(Holding(card, places)) + 1
<1> DEFINE H == Holding(card, places)
<1>1. Holding(card, places)' = H \cup {t} /\ t \notin H
  BY DEF Holding, Others
<1>2. IsFiniteSet(H)
  BY Held
<1> HIDE DEF H
<1>3. Cardinality(H \cup {t}) = Cardinality(H) + 1
  BY <1>1, <1>2, FS_AddElement
<1> QED
  BY <1>1, <1>3 DEF H

LEMMA Leaves ==
    ASSUME DeskAssumption, NEW t \in Threads, Others(t), NEW card, NEW places,
           request[t].card = card, request[t].at \in places, request'[t].at \notin places
    PROVE  Cardinality(Holding(card, places)') = Cardinality(Holding(card, places)) - 1
<1> DEFINE H == Holding(card, places)
<1>1. Holding(card, places)' = H \ {t} /\ t \in H
  BY DEF Holding, Others
<1>2. IsFiniteSet(H)
  BY Held
<1> HIDE DEF H
<1>3. Cardinality(H \ {t}) = Cardinality(H) - 1
  BY <1>1, <1>2, FS_RemoveElement
<1> QED
  BY <1>1, <1>3 DEF H

(* A thread that is not in these places afterwards, or is elsewhere, does  *)
(* not add to them.                                                        *)
LEMMA Apart ==
    ASSUME DeskAssumption, NEW t \in Threads, Others(t), NEW card, NEW places,
           request'[t].card # card \/ request'[t].at \notin places
    PROVE  Holding(card, places)' \subseteq Holding(card, places)
BY DEF Holding, Others

LEMMA DecidingIs == \A card : Deciding(card) = Holding(card, {"grant", "close"})
                              /\ Deciding(card)' = Holding(card, {"grant", "close"})'
BY DEF Deciding, Holding

LEMMA Bumped ==
    ASSUME NEW f \in [Cards -> Nat], NEW c \in Cards, NEW g, g = [f EXCEPT ![c] = @ + 1]
    PROVE  g[c] = f[c] + 1 /\ (\A d \in Cards \ {c} : g[d] = f[d]) /\ \A d \in Cards : f[d] \in Nat
OBVIOUS

LEMMA CardTypes ==
    ASSUME DeskAssumption, Types
    PROVE  /\ closed \in [Cards -> Nat] /\ approved \in [Cards -> Nat] /\ acted \in [Cards -> Nat]
           /\ \A t \in Threads : request[t].card # 0 => request[t].card \in Cards
           /\ \A card \in DOMAIN shown : card \in Cards /\ card # 0
<1>1. \A t \in Threads : request[t].card \in 0..MaxCards
  BY DEF Types, TypeOK, Requests
<1>2. \A card \in DOMAIN shown : card \in Cards /\ card # 0
  <2>1. DOMAIN shown = 1..Len(shown) /\ Len(shown) \in Nat /\ Len(shown) <= MaxCards
    BY Elements DEF Types, TypeOK
  <2>2. MaxCards \in Nat
    BY DEF DeskAssumption
  <2> QED
    BY <2>1, <2>2 DEF Cards
<1>3. MaxCards \in Nat
  BY DEF DeskAssumption
<1>4. \A t \in Threads : request[t].card # 0 => request[t].card \in Cards
  BY <1>1, <1>3 DEF Cards
<1> QED
  BY <1>2, <1>4 DEF Types, TypeOK

LEMMA CountedStart == DeskAssumption /\ Init => Counted
<1> SUFFICES ASSUME DeskAssumption, Init PROVE Counted
  OBVIOUS
<1>1. \A t \in Threads : request[t].at = "idle"
  BY DEF Init, Idle, Doing
<1>2. \A card : Acting(card) = {}
  BY <1>1 DEF Acting, Holding
<1>3. Cardinality({}) = 0
  BY FS_EmptySet
<1>4. \A card \in Cards : acted[card] = 0 /\ approved[card] = 0
  BY DEF Init
<1>5. \A card \in Cards : acted[card] + Cardinality(Acting(card)) <= approved[card]
  BY <1>2, <1>3, <1>4
<1> QED
  BY <1>1, <1>5 DEF Counted, In

LEMMA CountedCalm ==
    ASSUME DeskAssumption, Types, Counted, UNCHANGED <<closed, approved, acted>>,
           \A s \in Threads : \/ request'[s] = request[s]
                              \/ /\ request'[s].card \in {0, request[s].card}
                                 /\ request'[s].at \notin {"grant", "close"}
                                 /\ \/ request'[s].card = 0
                                    \/ request'[s].at \notin {"act", "mkdir"}
                                    \/ request[s].at \in {"act", "mkdir"}
    PROVE  Counted' /\ NoneJoins
<1>1. (\A t \in Threads : In(t, {"grant", "close"}) => request[t].card # 0)'
  BY DEF Counted, In
<1>2. ASSUME NEW card \in Cards
      PROVE  /\ Holding(card, {"act", "mkdir"})' \subseteq Holding(card, {"act", "mkdir"})
             /\ Holding(card, {"grant", "close"})' \subseteq Holding(card, {"grant", "close"})
  <2>1. card # 0
    BY DEF Cards
  <2> QED
    BY <2>1 DEF Holding
<1>3. ASSUME NEW card \in Cards
      PROVE  (acted[card] + Cardinality(Acting(card)) <= approved[card])'
  <2>1. acted[card] + Cardinality(Holding(card, {"act", "mkdir"})) <= approved[card]
    BY DEF Counted, Acting
  <2>2. acted[card] \in Nat /\ approved[card] \in Nat
    BY CardTypes
  <2> QED
    BY <1>2, <2>1, <2>2, Held DEF Acting
<1>4. ASSUME NEW card \in Cards
      PROVE  (Decisions(card) + Cardinality(Deciding(card)))' <= Decisions(card) + Cardinality(Deciding(card))
  <2>1. Decisions(card) \in Nat /\ Decisions(card)' = Decisions(card)
    BY CardTypes DEF Decisions
  <2> QED
    BY <1>2, <2>1, Held, DecidingIs
<1> QED
  BY <1>1, <1>3, <1>4 DEF Counted, NoneJoins

LEMMA CountedRead ==
    ASSUME DeskAssumption, Types, Counted, NEW t \in Threads, ReadCard(t)
    PROVE  Counted' /\ NoneJoins
<1>1. PICK c \in DOMAIN shown, decision \in {"grant", "close"} :
        Undecided(c) /\ request'[t].at = decision /\ request'[t].card = c
  BY Spots
<1>2. Others(t) /\ UNCHANGED <<closed, approved, acted>>
  BY Spots DEF ReadCard, ledger, history
<1>3. c \in Cards /\ c # 0
  BY CardTypes
<1>4. (\A s \in Threads : In(s, {"grant", "close"}) => request[s].card # 0)'
  BY <1>1, <1>2, <1>3 DEF Counted, In, Others
<1>5. ASSUME NEW card \in Cards
      PROVE  (acted[card] + Cardinality(Acting(card)) <= approved[card])'
  <2>1. Holding(card, {"act", "mkdir"})' \subseteq Holding(card, {"act", "mkdir"})
    BY <1>1, <1>2, Apart
  <2>2. acted[card] + Cardinality(Holding(card, {"act", "mkdir"})) <= approved[card]
    BY DEF Counted, Acting
  <2>3. acted[card] \in Nat /\ approved[card] \in Nat
    BY CardTypes
  <2> QED
    BY <1>2, <2>1, <2>2, <2>3, Held DEF Acting
<1>6. ASSUME NEW card \in Cards, Decisions(card) > 0
      PROVE  (Decisions(card) + Cardinality(Deciding(card)))' <= Decisions(card) + Cardinality(Deciding(card))
  <2>1. card # c
    BY <1>1, <1>6 DEF Decisions, Undecided
  <2>2. Holding(card, {"grant", "close"})' \subseteq Holding(card, {"grant", "close"})
    BY <1>1, <1>2, <2>1, Apart
  <2>3. Decisions(card) \in Nat /\ Decisions(card)' = Decisions(card)
    BY <1>2, CardTypes DEF Decisions
  <2> QED
    BY <2>2, <2>3, Held, DecidingIs
<1> QED
  BY <1>4, <1>5, <1>6 DEF Counted, NoneJoins

LEMMA CountedClose ==
    ASSUME DeskAssumption, Types, Counted, NEW t \in Threads, Close(t)
    PROVE  Counted' /\ NoneJoins
<1>1. Others(t) /\ request'[t].at = "idle" /\ request'[t].card = 0
  BY Spots
<1>c. PICK c : c = request[t].card
  OBVIOUS
<1>2. request[t].at = "close" /\ closed' = [closed EXCEPT ![c] = @ + 1] /\ UNCHANGED <<approved, acted>>
  BY <1>c DEF Close, At, history
<1>3. c \in Cards
  BY <1>c, <1>2, CardTypes DEF Counted, In
<1>4. (\A s \in Threads : In(s, {"grant", "close"}) => request[s].card # 0)'
  BY <1>1 DEF Counted, In, Others
<1>5. ASSUME NEW card \in Cards
      PROVE  (acted[card] + Cardinality(Acting(card)) <= approved[card])'
  <2>1. Holding(card, {"act", "mkdir"})' \subseteq Holding(card, {"act", "mkdir"})
    BY <1>1, Apart
  <2>2. acted[card] + Cardinality(Holding(card, {"act", "mkdir"})) <= approved[card]
    BY DEF Counted, Acting
  <2>3. acted[card] \in Nat /\ approved[card] \in Nat
    BY CardTypes
  <2> QED
    BY <1>2, <2>1, <2>2, <2>3, Held DEF Acting
<1>6. closed'[c] = closed[c] + 1 /\ \A d \in Cards \ {c} : closed'[d] = closed[d]
  BY <1>2, <1>3, CardTypes, Bumped
<1>7. Cardinality(Holding(c, {"grant", "close"})') = Cardinality(Holding(c, {"grant", "close"})) - 1
  <2>1. request[t].at \in {"grant", "close"} /\ request'[t].at \notin {"grant", "close"}
    BY <1>1, <1>2
  <2> QED
    BY <1>c, <1>1, <2>1, Leaves
<1>8. ASSUME NEW card \in Cards
      PROVE  (Decisions(card) + Cardinality(Deciding(card)))' <= Decisions(card) + Cardinality(Deciding(card))
  <2>1. closed[card] \in Nat /\ approved[card] \in Nat /\ approved'[card] = approved[card]
    BY <1>2, CardTypes
  <2>2. CASE card = c
    <3>1. closed'[card] = closed[card] + 1
      BY <1>6, <2>2
    <3>2. Cardinality(Deciding(card)') = Cardinality(Deciding(card)) - 1 /\ Cardinality(Deciding(card)) \in Nat
      BY <1>7, <2>2, Held, DecidingIs
    <3> QED
      BY <2>1, <3>1, <3>2 DEF Decisions
  <2>3. CASE card # c
    <3>1. Holding(card, {"grant", "close"})' \subseteq Holding(card, {"grant", "close"})
      BY <1>c, <1>1, Apart
    <3>2. closed'[card] = closed[card]
      BY <1>6, <2>3
    <3> QED
      BY <2>1, <3>1, <3>2, Held, DecidingIs DEF Decisions
  <2> QED
    BY <2>2, <2>3
<1> QED
  BY <1>4, <1>5, <1>8 DEF Counted, NoneJoins

LEMMA CountedGrant ==
    ASSUME DeskAssumption, Types, Counted, NEW t \in Threads, GrantCard(t)
    PROVE  Counted' /\ NoneJoins
<1>1. Others(t) /\ request'[t].at = "act" /\ request'[t].card = request[t].card
  BY Spots DEF Keeps
<1>c. PICK c : c = request[t].card
  OBVIOUS
<1>2. request[t].at = "grant" /\ approved' = [approved EXCEPT ![c] = @ + 1] /\ UNCHANGED <<closed, acted>>
  BY <1>c DEF GrantCard, At, history
<1>3. c \in Cards
  BY <1>c, <1>2, CardTypes DEF Counted, In
<1>4. (\A s \in Threads : In(s, {"grant", "close"}) => request[s].card # 0)'
  BY <1>1 DEF Counted, In, Others
<1>5. approved'[c] = approved[c] + 1 /\ \A d \in Cards \ {c} : approved'[d] = approved[d]
  BY <1>2, <1>3, CardTypes, Bumped
<1>6. Cardinality(Holding(c, {"grant", "close"})') = Cardinality(Holding(c, {"grant", "close"})) - 1
  BY <1>c, <1>1, <1>2, Leaves
<1>7. Cardinality(Holding(c, {"act", "mkdir"})') = Cardinality(Holding(c, {"act", "mkdir"})) + 1
  BY <1>c, <1>1, <1>2, Joins
<1>8. request'[t].card = c
  BY <1>c, <1>1
<1>9. ASSUME NEW card \in Cards
      PROVE  /\ (acted[card] + Cardinality(Acting(card)) <= approved[card])'
             /\ (Decisions(card) + Cardinality(Deciding(card)))' <= Decisions(card) + Cardinality(Deciding(card))
  <2>1. /\ closed[card] \in Nat /\ approved[card] \in Nat /\ acted[card] \in Nat
        /\ closed'[card] = closed[card] /\ acted'[card] = acted[card]
    BY <1>2, CardTypes
  <2>2. acted[card] + Cardinality(Holding(card, {"act", "mkdir"})) <= approved[card]
    BY DEF Counted, Acting
  <2>3. CASE card = c
    <3>1. approved'[card] = approved[card] + 1
      BY <1>5, <2>3
    <3>2. Cardinality(Acting(card)') = Cardinality(Acting(card)) + 1 /\ Cardinality(Acting(card)) \in Nat
      BY <1>7, <2>3, Held DEF Acting
    <3>3. Cardinality(Deciding(card)') = Cardinality(Deciding(card)) - 1 /\ Cardinality(Deciding(card)) \in Nat
      BY <1>6, <2>3, Held, DecidingIs
    <3>4. acted[card] + Cardinality(Acting(card)) <= approved[card]
      BY <2>2 DEF Acting
    <3>5. (acted[card] + Cardinality(Acting(card)) <= approved[card])'
      BY <2>1, <3>1, <3>2, <3>4
    <3> QED
      BY <2>1, <3>1, <3>3, <3>5 DEF Decisions
  <2>4. CASE card # c
    <3>1. /\ Holding(card, {"grant", "close"})' \subseteq Holding(card, {"grant", "close"})
          /\ Holding(card, {"act", "mkdir"})' \subseteq Holding(card, {"act", "mkdir"})
      BY <1>1, <1>8, <2>4, Apart
    <3>2. approved'[card] = approved[card]
      BY <1>5, <2>4
    <3>3. (acted[card] + Cardinality(Acting(card)) <= approved[card])'
      BY <2>1, <2>2, <3>1, <3>2, Held DEF Acting
    <3> QED
      BY <2>1, <3>1, <3>2, <3>3, Held, DecidingIs DEF Decisions
  <2> QED
    BY <2>3, <2>4
<1> QED
  BY <1>4, <1>9 DEF Counted, NoneJoins

(* The job is numbered or the export's directory is made: the card acts.   *)
LEMMA CountedAct ==
    ASSUME DeskAssumption, Types, Counted, NEW t \in Threads, NumberJob(t) \/ MakeFolder(t)
    PROVE  Counted' /\ NoneJoins
<1>1. Others(t) /\ request'[t].at \in {"announce", "write"} /\ request'[t].card = request[t].card
  BY Spots DEF Keeps
<1>c. PICK c : c = request[t].card
  OBVIOUS
<1>2. request[t].at \in {"act", "mkdir"} /\ UNCHANGED <<closed, approved>> /\ Acts(t)
  BY DEF NumberJob, MakeFolder, At, ledger
<1>3. (\A s \in Threads : In(s, {"grant", "close"}) => request[s].card # 0)'
  BY <1>1 DEF Counted, In, Others
<1>4. Cardinality(Holding(c, {"act", "mkdir"})') = Cardinality(Holding(c, {"act", "mkdir"})) - 1
  BY <1>c, <1>1, <1>2, Leaves
<1>5. ASSUME NEW card \in Cards
      PROVE  acted'[card] = IF card = c THEN acted[card] + 1 ELSE acted[card]
  <2>1. CASE c = 0
    <3>1. card # c
      BY <2>1 DEF Cards
    <3> QED
      BY <1>c, <1>2, <2>1, <3>1 DEF Acts
  <2>2. CASE c # 0
    <3>1. c \in Cards /\ acted \in [Cards -> Nat]
      BY <1>c, <2>2, CardTypes
    <3>2. acted' = [acted EXCEPT ![c] = @ + 1]
      BY <1>c, <1>2, <2>2 DEF Acts
    <3> QED
      BY <3>1, <3>2
  <2> QED
    BY <2>1, <2>2
<1>6. ASSUME NEW card \in Cards
      PROVE  (acted[card] + Cardinality(Acting(card)) <= approved[card])'
  <2>1. acted[card] \in Nat /\ approved[card] \in Nat /\ approved'[card] = approved[card]
    BY <1>2, CardTypes
  <2>2. acted[card] + Cardinality(Holding(card, {"act", "mkdir"})) <= approved[card]
    BY DEF Counted, Acting
  <2>3. CASE card = c
    <3>1. Cardinality(Acting(card)') = Cardinality(Acting(card)) - 1 /\ Cardinality(Acting(card)) \in Nat
      BY <1>4, <2>3, Held DEF Acting
    <3>2. acted[card] + Cardinality(Acting(card)) <= approved[card]
      BY <2>2 DEF Acting
    <3> QED
      BY <1>5, <2>1, <2>3, <3>1, <3>2
  <2>4. CASE card # c
    <3>1. Holding(card, {"act", "mkdir"})' \subseteq Holding(card, {"act", "mkdir"})
      BY <1>c, <1>1, Apart
    <3> QED
      BY <1>5, <2>1, <2>2, <2>4, <3>1, Held DEF Acting
  <2> QED
    BY <2>3, <2>4
<1>7. ASSUME NEW card \in Cards
      PROVE  (Decisions(card) + Cardinality(Deciding(card)))' <= Decisions(card) + Cardinality(Deciding(card))
  <2>1. Holding(card, {"grant", "close"})' \subseteq Holding(card, {"grant", "close"})
    BY <1>1, Apart
  <2>2. Decisions(card) \in Nat /\ Decisions(card)' = Decisions(card)
    BY <1>2, CardTypes DEF Decisions
  <2> QED
    BY <2>1, <2>2, Held, DecidingIs
<1> QED
  BY <1>3, <1>6, <1>7 DEF Counted, NoneJoins

LEMMA CountedStep ==
    ASSUME DeskAssumption, Types, Counted, Next
    PROVE  Counted' /\ NoneJoins
<1>1. ASSUME NEW t \in Threads, SelectProfile(t) \/ Press(t) \/ ReadCard(t) \/ Serve(t)
      PROVE  Counted' /\ NoneJoins
  <2>1. CASE ReadCard(t)
    BY <2>1, CountedRead
  <2>2. CASE Close(t)
    BY <2>2, CountedClose
  <2>3. CASE GrantCard(t)
    BY <2>3, CountedGrant
  <2>4. CASE NumberJob(t) \/ MakeFolder(t)
    BY <2>4, CountedAct
  <2>5. CASE SelectProfile(t) \/ Press(t)
    <3>1. Others(t) /\ (request'[t] = request[t] \/ (request'[t].at = "act" /\ request'[t].card = 0))
      BY <2>5, Spots
    <3>2. UNCHANGED <<closed, approved, acted>>
      BY <2>5 DEF SelectProfile, Press, ledger, history
    <3> QED
      BY <3>1, <3>2, CountedCalm DEF Others
  <2>6. CASE Refuse(t) \/ Charge(t) \/ FolderExists(t) \/ RecordExport(t) \/ AppendRaises(t)
    <3>1. Others(t) /\ request'[t].at = "idle" /\ request'[t].card = 0
      BY <2>6, Spots
    <3>2. UNCHANGED <<closed, approved, acted>>
      BY <2>6 DEF Refuse, Charge, FolderExists, RecordExport, AppendRaises, ledger, history
    <3> QED
      BY <3>1, <3>2, CountedCalm DEF Others
  <2>7. CASE Announce(t) \/ Launch(t)
    <3>1. Others(t) /\ request'[t].at \in {"idle", "charge", "launch"} /\ request'[t].card \in {0, request[t].card}
      BY <2>7, Spots DEF Keeps
    <3>2. UNCHANGED <<closed, approved, acted>>
      BY <2>7 DEF Announce, Launch, ledger, history
    <3> QED
      BY <3>1, <3>2, CountedCalm DEF Others
  <2>8. CASE CountExports(t)
    <3>1. Others(t) /\ request'[t].at = "mkdir" /\ request'[t].card = request[t].card /\ request[t].at = "act"
      BY <2>8, Spots DEF Keeps, CountExports, At
    <3>2. UNCHANGED <<closed, approved, acted>>
      BY <2>8 DEF CountExports, history
    <3> QED
      BY <3>1, <3>2, CountedCalm DEF Others
  <2> QED
    BY <1>1, <2>1, <2>2, <2>3, <2>4, <2>5, <2>6, <2>7, <2>8 DEF Serve
<1>2. CASE Show \/ PlanSmall
  <2>1. \A s \in Threads : request'[s] = request[s] \/ (request'[s].at = "act" /\ request'[s].card = 0)
    <3>1. \E t : t \in Threads
      BY DEF Threads
    <3> QED
      BY <1>2, <3>1, Spots
  <2>2. UNCHANGED <<closed, approved, acted>>
    BY <1>2 DEF Show, PlanSmall, ledger, history
  <2> QED
    BY <2>1, <2>2, CountedCalm
<1>3. CASE Work
  <2>1. UNCHANGED <<closed, approved, acted, request>>
    BY <1>3, WorkAt
  <2> QED
    BY <2>1, CountedCalm
<1>4. CASE Kill
  <2>1. \A s \in Threads : request'[s].at = "idle" /\ request'[s].card = 0
    BY <1>4 DEF Kill, Idle, Doing
  <2>2. UNCHANGED <<closed, approved, acted>>
    BY <1>4 DEF Kill, ledger
  <2> QED
    BY <2>1, <2>2, CountedCalm
<1>5. CASE Restart
  BY <1>5, CountedCalm DEF Restart, history
<1> QED
  BY <1>1, <1>2, <1>3, <1>4, <1>5 DEF Next

(***************************************************************************)
(* The theorems.                                                           *)
(***************************************************************************)
(* A step, or none, keeps the types and the parts.                         *)
LEMMA StepOrStutter ==
    ASSUME DeskAssumption, IInv, [Next]_vars
    PROVE  IInv'
<1>1. CASE Next
  <2>1. Types'
    BY <1>1, TypesRequests, TypesOthers DEF IInv, Next
  <2> QED
    BY <1>1, <2>1, StartingStep, ChargingStep, ExportingStep DEF IInv
<1>2. CASE UNCHANGED vars
  <2>1. UNCHANGED ledger /\ UNCHANGED <<folders, up, request, job, number>> /\ UNCHANGED history
    BY <1>2 DEF vars
  <2>2. UNCHANGED <<shown, closed, approved, state, recorded, grants, used, calls, exports, acted, kills>>
    BY <2>1 DEF ledger, history
  <2>3. TypeOK' /\ Quiet'
    BY <2>1, <2>2 DEF IInv, Types, TypeOK, Quiet
  <2>4. Starting'
    BY <2>1, <2>2, StartingCalm DEF IInv
  <2>5. Charging'
    BY <2>1, <2>2, ChargingCalm DEF IInv
  <2>6. Exporting'
    BY <2>1, <2>2, ExportingCalm DEF IInv
  <2> QED
    BY <2>3, <2>4, <2>5, <2>6 DEF IInv, Types
<1> QED
  BY <1>1, <1>2

(* The invariant holds in every state, for any threads and buttons, any    *)
(* appends that fail and any kills.                                        *)
THEOREM Inductive == DeskAssumption /\ Spec => []IInv
<1> SUFFICES ASSUME DeskAssumption PROVE Spec => []IInv
  OBVIOUS
<1>1. Init => IInv
  BY TypesStart, StartingStart, ChargingStart, ExportingStart DEF IInv
<1>2. IInv /\ [Next]_vars => IInv'
  BY StepOrStutter
<1> QED
  BY <1>1, <1>2, PTL DEF Spec

(* "J3" is one job and an export's id one export: start numbers on from    *)
(* the ledger under its lock, and mkdir lets one writer in.                *)
THEOREM OneName == DeskAssumption /\ Spec => []NamedForGood
<1>1. IInv => NamedForGood
  BY DEF IInv, Starting, Exporting, NamedForGood
<1> QED
  BY <1>1, Inductive, PTL

(* Every grant of GPU time is of a review that was announced, and its only *)
(* one, however many requests are between starting and charging.           *)
THEOREM GrantsAreOwed == DeskAssumption /\ Spec => []GrantsAreReviews
<1>1. IInv => GrantsAreReviews
  BY DEF IInv, Charging
<1> QED
  BY <1>1, Inductive, PTL

(* No reader of the ledger takes a dead call for a running one, as long as *)
(* the append that closes a call does not fail: if it does, the call stays *)
(* open when its job has settled.                                          *)
THEOREM CallsEnd == DeskAssumption /\ "call" \notin MayFail /\ Spec => []CallsClosedOnce
<1> SUFFICES ASSUME DeskAssumption, "call" \notin MayFail PROVE Spec => []CallsClosedOnce
  OBVIOUS
<1>1. Init => Calling
  BY CallingStart
<1>2. IInv /\ Calling /\ [Next]_vars => Calling'
  <2>1. CASE Next
    BY <2>1, CallingStep DEF IInv
  <2>2. CASE UNCHANGED vars
    <3>1. UNCHANGED <<calls, up, job>>
      BY <2>2 DEF vars, ledger
    <3> QED
      BY <3>1, CallingCalm
  <2> QED
    BY <2>1, <2>2
<1>3. Calling => CallsClosedOnce
  BY DEF Calling
<1> QED
  BY <1>1, <1>2, <1>3, Inductive, PTL DEF Spec

(* A card acts once for each grant, over any kills and any overlapping     *)
(* requests; once a decision is recorded, only requests that had read the  *)
(* card before still decide it, each once, and no further request does.    *)
THEOREM OneAct == DeskAssumption /\ Spec => ActsOnce
<1> SUFFICES ASSUME DeskAssumption PROVE Spec => ActsOnce
  OBVIOUS
<1>1. Init => Counted
  BY CountedStart
<1>2. IInv /\ Counted /\ [Next]_vars => Counted' /\ NoneJoins
  <2>1. CASE Next
    BY <2>1, CountedStep DEF IInv
  <2>2. CASE UNCHANGED vars
    <3>1. UNCHANGED <<closed, approved, acted, request>>
      BY <2>2 DEF vars, ledger, history
    <3> QED
      BY <3>1, CountedCalm DEF IInv
  <2> QED
    BY <2>1, <2>2
<1>3. ASSUME IInv, IInv', Counted'
      PROVE  \A card \in Cards : acted'[card] <= approved'[card]
  <2>1. ASSUME NEW card \in Cards
        PROVE  acted'[card] <= approved'[card]
    <3>1. (acted[card] + Cardinality(Holding(card, {"act", "mkdir"})) <= approved[card])'
      BY <1>3 DEF Counted, Acting
    <3>2. acted'[card] \in Nat /\ approved'[card] \in Nat
      BY <1>3 DEF IInv, Types, TypeOK
    <3> QED
      BY <3>1, <3>2, Held
  <2> QED
    BY <2>1
<1>4. IInv /\ Counted /\ IInv' /\ [Next]_vars =>
        [\A card \in Cards :
           /\ acted'[card] <= approved'[card]
           /\ Decisions(card) > 0 =>
                (Decisions(card) + Cardinality(Deciding(card)))'
                  <= Decisions(card) + Cardinality(Deciding(card))]_vars
  BY <1>2, <1>3 DEF NoneJoins
<1> QED
  BY <1>1, <1>2, <1>4, Inductive, PTL DEF Spec, ActsOnce
==============================================================================
