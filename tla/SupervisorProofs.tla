-------------------------- MODULE SupervisorProofs --------------------------
(***************************************************************************)
(* The supervisor's type correctness and its fencing guarantees, for every *)
(* sequence of decisions, restarts, stalls, promotions, failed psql calls  *)
(* and watchdog interventions.                                             *)
(***************************************************************************)
EXTENDS Supervisor, TLAPS

(* A decision adopted by a pass is a decision.                             *)
LEMMA NewDecidedType == TypeOK => NewDecided \in Decision \cup {NoDecision}
  BY DEF TypeOK, NewDecided

(* A restarted worker's memory is well typed.                              *)
LEMMA WorkerStartType ==
  ASSUME TypeOK, NEW d \in Decision \cup {NoDecision},
         NEW at \in 0 .. MaxDecisions, WorkerStart(d, at)
  PROVE  /\ decided' \in Decision \cup {NoDecision}
         /\ promoted' \in BOOLEAN /\ promote_overdue' \in BOOLEAN /\ rejoining' \in BOOLEAN
         /\ applied_primary' \in Primary \cup {"none"}
         /\ slots_ensured' \in BOOLEAN /\ reconfirm_pending' \in BOOLEAN
         /\ dir_known' \in BOOLEAN /\ cluster_marker' \in BOOLEAN
         /\ applied_read_only' \in {"none", "on", "off"}
         /\ applied_sync' \in {"none", "empty", "own"}
         /\ authorized_since' \in {"none", "fresh", "ripe"}
         /\ decided_at' \in 0 .. MaxDecisions
         /\ stalled_at' \in 0 .. MaxDecisions
         /\ failed' \in {"never", "earlier", "now"}
         /\ branch' = "none"
         /\ todo' = {}
         /\ step' = "alter"
<1>1. decided_at' \in 0 .. MaxDecisions /\ stalled_at' \in 0 .. MaxDecisions
  BY SupervisorAssumption DEF SupervisorAssumption, WorkerStart
<1>2. failed' \in {"never", "earlier", "now"}
  BY DEF WorkerStart, Earlier
<1>3. QED
  BY <1>1, <1>2, Zenon DEF WorkerStart

(* One pass keeps every variable's type.                                   *)
LEMMA LoopType ==
  ASSUME TypeOK, NEW found \in BOOLEAN, Loop(found)
  PROVE  TypeOK'
<1>1. decided' \in Decision \cup {NoDecision}
  BY NewDecidedType DEF Loop
<1>2. /\ promoted' \in BOOLEAN /\ promote_overdue' \in BOOLEAN /\ rejoining' \in BOOLEAN
      /\ slots_ensured' \in BOOLEAN /\ reconfirm_pending' \in BOOLEAN
      /\ dir_known' \in BOOLEAN /\ marker' \in BOOLEAN /\ cluster_marker' \in BOOLEAN
  BY Zenon DEF Loop, Promoted, Reconfirm, TypeOK
<1>3. /\ applied_primary' \in Primary \cup {"none"}
      /\ applied_read_only' \in {"none", "on", "off"}
      /\ authorized_since' \in {"none", "fresh", "ripe"}
      /\ hb' \in {"fresh", "stall", "stale"}
      /\ step' \in {"alter", "reload", "promote"}
  BY DEF Loop, TypeOK, BeliefRo, NewSince, Since
<1>4. faults' \in 0 .. MaxFaults
  BY SupervisorAssumption DEF Loop, TypeOK, May
<1>5. /\ branch' \in {"standby", "authorized", "fenced"}
      /\ todo' \subseteq CASE branch' = "none" -> {}
                           [] branch' = "standby" -> {"clear_sync", "promote", "repoint"}
                           [] branch' = "authorized" -> {"slots", "set_sync", "unfence"}
                           [] branch' = "fenced" -> {"slots", "fence", "set_sync", "rejoin"}
  BY DEF Loop, StandbyJobs, PrimaryJobs
<1>6. /\ decided_at' \in 0 .. MaxDecisions /\ stalled_at' \in 0 .. MaxDecisions
      /\ failed' \in {"never", "earlier", "now"}
  BY DEF Loop, TypeOK, NewDecidedAt, Earlier
<1>7. QED
  BY <1>1, <1>2, <1>3, <1>4, <1>5, <1>6
     DEF Loop, TypeOK, cluster, conf, live

(* A psql call keeps every variable's type.                                *)
LEMMA SqlStepType == TypeOK /\ SqlStep => TypeOK'
<1> SUFFICES ASSUME TypeOK, NEW outcome \in Outcomes,
                    \/ \E job \in Jobs : Alter(job, outcome) \/ Reload(job, outcome)
                    \/ Promote(outcome)
                    \/ EnsureSlots(outcome)
                    \/ SpawnRejoin(outcome)
             PROVE  TypeOK'
  BY DEF SqlStep
<1>1. CountCall(outcome) =>
        faults' \in 0 .. MaxFaults /\ failed' \in {"never", "earlier", "now"}
  BY SupervisorAssumption DEF CountCall, Count, Outcomes, May, TypeOK
<1> USE DEF TypeOK, Done, cluster, beliefs, conf, live, role, others
<1>2. ASSUME NEW job \in Jobs, Alter(job, outcome) PROVE TypeOK'
  <2>1. conf_ro' \in {"on", "off"} /\ conf_sync' \in {"empty", "own", "foreign"}
    BY <1>2 DEF Alter, ConfRoAfter, ConfSyncAfter
  <2>2. todo' \subseteq todo /\ step' \in {"alter", "reload", "promote"}
    BY <1>2 DEF Alter
  <2>3. QED
    BY <1>1, <1>2, <2>1, <2>2 DEF Alter
<1>3. ASSUME NEW job \in Jobs, Reload(job, outcome) PROVE TypeOK'
  <2>1. /\ applied_read_only' \in {"none", "on", "off"}
        /\ applied_sync' \in {"none", "empty", "own"}
    BY <1>3 DEF Reload, BeliefRoAfter, BeliefSyncAfter, ConfSyncAfter
  <2>2. applied_primary' \in Primary \cup {"none"}
    BY <1>3 DEF Reload, Decision, NoDecision
  <2>3. todo' \subseteq todo /\ step' \in {"alter", "reload", "promote"}
    BY <1>3 DEF Reload
  <2>4. live_ro' \in {"on", "off"} /\ live_sync' \in {"empty", "own", "foreign"}
    BY <1>3 DEF Reload, ReloadConf
  <2>5. QED
    BY <1>1, <1>3, <2>1, <2>2, <2>3, <2>4 DEF Reload
<1>4. CASE Promote(outcome)
  <2>1. promoting' \in BOOLEAN /\ promoted' \in BOOLEAN
    BY <1>4, Zenon DEF Promote
  <2>2. QED
    BY <1>1, <1>4, <2>1 DEF Promote
<1>5. CASE EnsureSlots(outcome)
  <2>1. slots' \in BOOLEAN /\ slots_ensured' \in BOOLEAN
    BY <1>5, Zenon DEF EnsureSlots
  <2>2. QED
    BY <1>1, <1>5, <2>1 DEF EnsureSlots
<1>6. CASE SpawnRejoin(outcome)
  <2>1. rejoining' \in BOOLEAN /\ rejoin' \in BOOLEAN
    BY <1>6, Zenon DEF SpawnRejoin
  <2>2. QED
    BY <1>1, <1>6, <2>1 DEF SpawnRejoin
<1>7. QED
  BY <1>2, <1>3, <1>4, <1>5, <1>6

(* The watchdog, the rejoin script and the restarts keep every type.       *)
LEMMA OtherStepType ==
  ASSUME TypeOK,
         \/ RestartWorker
         \/ \E raft_lost \in BOOLEAN : RestartPostgres(raft_lost)
         \/ RejoinStep
         \/ WdStep
  PROVE  TypeOK'
<1>1. published \in Decision \cup {NoDecision} /\ pos \in 0 .. MaxDecisions
  BY DEF TypeOK
<1>2. ASSUME NEW fault, May(fault) PROVE faults + 1 \in 0 .. MaxFaults
  BY <1>2, SupervisorAssumption DEF May, TypeOK
<1>3. CASE RestartWorker
  <2>1. WorkerStart(published, pos) /\ faults' \in 0 .. MaxFaults
    BY <1>2, <1>3 DEF RestartWorker
  <2>2. peer_seq' \in BOOLEAN
    BY <1>3, Zenon DEF RestartWorker
  <2>3. QED
    BY <1>1, <1>3, <2>1, <2>2, WorkerStartType DEF RestartWorker, TypeOK, conf, live, role
<1>4. ASSUME NEW raft_lost \in BOOLEAN, RestartPostgres(raft_lost) PROVE TypeOK'
  <2>1. /\ published' \in Decision \cup {NoDecision}
        /\ pos' \in 0 .. MaxDecisions
        /\ WorkerStart(published', pos')
    BY <1>1, <1>4, SupervisorAssumption DEF SupervisorAssumption, RestartPostgres
  <2>2. faults' \in 0 .. MaxFaults
    BY <1>2, <1>4 DEF RestartPostgres
  <2>3. peer_seq' \in BOOLEAN /\ promoting' \in BOOLEAN
    BY <1>4, Zenon DEF RestartPostgres
  <2>4. /\ promoted' \in BOOLEAN /\ promote_overdue' \in BOOLEAN /\ rejoining' \in BOOLEAN
        /\ slots_ensured' \in BOOLEAN /\ reconfirm_pending' \in BOOLEAN
        /\ dir_known' \in BOOLEAN /\ cluster_marker' \in BOOLEAN
    BY <2>1, Zenon DEF WorkerStart
  <2>5. /\ decided' \in Decision \cup {NoDecision}
        /\ applied_primary' \in Primary \cup {"none"}
        /\ applied_read_only' \in {"none", "on", "off"}
        /\ applied_sync' \in {"none", "empty", "own"}
        /\ authorized_since' \in {"none", "fresh", "ripe"}
        /\ decided_at' \in 0 .. MaxDecisions /\ stalled_at' \in 0 .. MaxDecisions
        /\ failed' \in {"never", "earlier", "now"}
        /\ branch' = "none" /\ todo' = {} /\ step' = "alter"
    BY <2>1, SupervisorAssumption DEF SupervisorAssumption, WorkerStart, Earlier
  <2>6. QED
    BY <1>4, <2>1, <2>2, <2>3, <2>4, <2>5 DEF RestartPostgres, TypeOK, conf
<1>5. ASSUME NEW sync \in {"empty", "foreign"}, NEW marked \in BOOLEAN,
             RejoinCompletes(sync, marked)
      PROVE  TypeOK'
  BY <1>1, <1>5, WorkerStartType DEF RejoinCompletes, TypeOK
<1>6. CASE WdStep
  <2>1. ASSUME NEW outcome \in Outcomes, Count(outcome) PROVE faults' \in 0 .. MaxFaults
    BY <2>1, SupervisorAssumption DEF Count, Outcomes, May, TypeOK
  <2> USE DEF TypeOK, cluster, beliefs, pass, conf, live, role
  <2>2. CASE WdCheck
    BY <2>2 DEF WdCheck
  <2>3. ASSUME NEW outcome \in Outcomes, WdAlter(outcome) PROVE TypeOK'
    BY <2>1, <2>3 DEF WdAlter
  <2>4. ASSUME NEW outcome \in Outcomes, WdReload(outcome) PROVE TypeOK'
    BY <2>1, <2>4 DEF WdReload, ReloadConf
  <2>5. QED
    BY <1>6, <2>2, <2>3, <2>4 DEF WdStep
<1>7. QED
  BY <1>3, <1>4, <1>5, <1>6 DEF RejoinStep

(* Type correctness of the supervisor, whatever faults may happen.         *)
THEOREM TypeCorrect == Spec => []TypeOK
<1>1. Init => TypeOK
  <2> SUFFICES ASSUME Init PROVE TypeOK
    OBVIOUS
  <2>1. /\ quorum_ok \in BOOLEAN /\ peer_seq \in BOOLEAN
        /\ promoted \in BOOLEAN /\ promote_overdue \in BOOLEAN /\ rejoining \in BOOLEAN
        /\ slots_ensured \in BOOLEAN /\ reconfirm_pending \in BOOLEAN
        /\ dir_known \in BOOLEAN /\ cluster_marker \in BOOLEAN
        /\ in_recovery \in BOOLEAN /\ promoting \in BOOLEAN
        /\ slots \in BOOLEAN /\ marker \in BOOLEAN /\ rejoin \in BOOLEAN
    BY Zenon DEF Init
  <2>2. QED
    BY <2>1, SupervisorAssumption DEF Init, TypeOK
<1>2. TypeOK /\ [Next]_vars => TypeOK'
  <2> SUFFICES ASSUME TypeOK, [Next]_vars PROVE TypeOK'
    OBVIOUS
  <2> USE SupervisorAssumption DEF cluster, beliefs, pass, conf, live, role, others
  <2>1. ASSUME NEW n \in 1 .. MaxDecisions, NEW p \in Primary, Decide(n, p) PROVE TypeOK'
    <3>1. published' \in Decision /\ pos' \in 0 .. MaxDecisions
      BY <2>1 DEF Decide, Decision, TypeOK
    <3>2. QED
      BY <2>1, <3>1 DEF Decide, TypeOK
  <2>2. CASE QuorumChanges
    BY <2>2 DEF QuorumChanges, TypeOK
  <2>3. CASE HearPeerSeq
    BY <2>3 DEF HearPeerSeq, TypeOK
  <2>4. CASE ConfirmWindowPasses
    BY <2>4 DEF ConfirmWindowPasses, TypeOK
  <2>5. CASE PromotionOverdue
    BY <2>5 DEF PromotionOverdue, TypeOK
  <2>6. CASE Hang
    BY <2>6 DEF Hang, TypeOK, May
  <2>7. CASE EndRecovery
    <3>1. in_recovery' \in BOOLEAN /\ promoting' \in BOOLEAN
      BY <2>7, Zenon DEF EndRecovery
    <3>2. QED
      BY <2>7, <3>1 DEF EndRecovery, TypeOK
  <2>8. CASE LosePromotion
    <3>1. promoting' \in BOOLEAN
      BY <2>8, Zenon DEF LosePromotion
    <3>2. QED
      BY <2>8, <3>1 DEF LosePromotion, TypeOK, May
  <2>9. CASE RejoinDies
    <3>1. rejoin' \in BOOLEAN
      BY <2>9, Zenon DEF RejoinDies
    <3>2. QED
      BY <2>9, <3>1 DEF RejoinDies, TypeOK, May
  <2>10. CASE UNCHANGED vars
    BY <2>10 DEF vars, TypeOK
  <2>11. QED
    BY <2>1, <2>2, <2>3, <2>4, <2>5, <2>6, <2>7, <2>8, <2>9, <2>10,
       LoopType, SqlStepType, OtherStepType DEF Next
<1>3. QED
  BY <1>1, <1>2, PTL DEF Spec

-----------------------------------------------------------------------------
(* One pass keeps the history of stalls in order.                          *)
LEMMA LoopStall ==
  ASSUME TypeOK, StallInv, NEW found \in BOOLEAN, Loop(found)
  PROVE  StallInv'
<1> USE DEF StallInv, AdoptsForward, ReconfirmHeld
<1>1. decided_at \in Nat /\ pos \in Nat /\ stalled_at \in Nat
  BY SupervisorAssumption DEF SupervisorAssumption, TypeOK
<1>2. /\ decided' = NewDecided /\ decided_at' = NewDecidedAt
      /\ published' = published /\ pos' = pos
      /\ stalled_at' = IF Stalled THEN decided_at ELSE stalled_at
      /\ reconfirm_pending' = Reconfirm
  BY DEF Loop, cluster
<1>3. Adopts => decided' = published /\ decided_at' = pos /\ pos > decided_at
  BY <1>1, <1>2 DEF Adopts, NewDecided, NewDecidedAt
<1>4. ~Adopts => decided' = decided /\ decided_at' = decided_at
  BY <1>2 DEF NewDecided, NewDecidedAt
<1>5. AdoptsForward'
  BY <1>1, <1>2, <1>3, <1>4
<1>6. ReconfirmHeld'
  <2>1. CASE Adopts
    <3>1. pos > stalled_at'
      BY <1>1, <1>2, <1>3, <2>1
    <3>2. QED
      BY <1>1, <1>2, <1>3, <2>1, <3>1
  <2>2. CASE ~Adopts /\ Stalled
    <3>1. reconfirm_pending'
      BY <1>2, <2>2, Zenon DEF Reconfirm
    <3>2. stalled_at' = decided_at /\ decided_at' = decided_at
      BY <1>2, <1>4, <2>2
    <3>3. QED
      BY <1>1, <3>1, <3>2
  <2>3. CASE ~Adopts /\ ~Stalled
    <3>1. reconfirm_pending => reconfirm_pending'
      BY <1>2, <2>3, Zenon DEF Reconfirm
    <3>2. stalled_at' = stalled_at /\ decided_at' = decided_at
      BY <1>2, <1>4, <2>3
    <3>3. QED
      BY <3>1, <3>2
  <2>4. QED
    BY <2>1, <2>2, <2>3
<1>7. StallNeedsDecision'
  <2> SUFFICES ASSUME branch' = "authorized", decided' # NoDecision
               PROVE  decided_at' > stalled_at'
    BY DEF StallNeedsDecision
  <2>1. ~reconfirm_pending'
    BY <1>2 DEF Loop, Authorized, RawAuth
  <2>2. stalled_at' \in Nat /\ decided_at' \in Nat /\ decided_at' > 0
    BY <1>1, <1>2, <1>3, <1>4
  <2>3. QED
    BY <1>6, <2>1, <2>2
<1>8. QED
  BY <1>5, <1>6, <1>7

(* Under every fault, a worker that noticed a stall is authorized again    *)
(* only by a decision published after the one it held.                     *)
THEOREM StalledStaysFenced == Spec => []StallNeedsDecision
<1>1. Init => StallInv
  BY DEF Init, StallInv, AdoptsForward, ReconfirmHeld, StallNeedsDecision, NoDecision
<1>2. TypeOK /\ StallInv /\ [Next]_vars => StallInv'
  <2> SUFFICES ASSUME TypeOK, StallInv, [Next]_vars PROVE StallInv'
    OBVIOUS
  <2> USE DEF StallInv, AdoptsForward, ReconfirmHeld, StallNeedsDecision
  <2>1. ASSUME WorkerStart(published', pos'),
               pos' \in Nat, published' # NoDecision => pos' > 0
        PROVE  StallInv'
    BY <2>1 DEF WorkerStart
  <2>2. ASSUME NEW n \in 1 .. MaxDecisions, NEW p \in Primary, Decide(n, p) PROVE StallInv'
    <3>1. decided_at \in Nat /\ pos \in Nat /\ pos' = pos + 1
      BY <2>2 DEF TypeOK, Decide
    <3>2. UNCHANGED <<decided, decided_at, stalled_at, reconfirm_pending, branch>>
      BY <2>2 DEF Decide, beliefs, pass
    <3>3. QED
      BY <3>1, <3>2
  <2>3. pos \in Nat /\ (published # NoDecision => pos > 0)
    BY DEF TypeOK
  <2>4. CASE RestartWorker
    BY <2>1, <2>3, <2>4 DEF RestartWorker
  <2>5. ASSUME NEW raft_lost \in BOOLEAN, RestartPostgres(raft_lost) PROVE StallInv'
    BY <2>1, <2>3, <2>5 DEF RestartPostgres
  <2>6. CASE RejoinStep
    BY <2>1, <2>3, <2>6 DEF RejoinStep, RejoinCompletes
  <2>7. CASE UNCHANGED <<published, pos, decided, decided_at, stalled_at, reconfirm_pending, branch>>
    BY <2>7
  <2>8. ASSUME QuorumChanges \/ HearPeerSeq \/ SqlStep \/ ConfirmWindowPasses
               \/ PromotionOverdue \/ Hang \/ EndRecovery \/ LosePromotion \/ RejoinDies
               \/ WdStep \/ UNCHANGED vars
        PROVE  UNCHANGED <<published, pos, decided, decided_at, stalled_at, reconfirm_pending, branch>>
    BY <2>8
    DEF QuorumChanges, HearPeerSeq, SqlStep, Alter, Reload, Promote, EnsureSlots, SpawnRejoin,
        ConfirmWindowPasses, PromotionOverdue, Hang, EndRecovery, LosePromotion, RejoinDies,
        WdStep, WdCheck, WdAlter, WdReload, cluster, beliefs, pass, vars
  <2>9. QED
    BY <2>2, <2>4, <2>5, <2>6, <2>7, <2>8, LoopStall DEF Next
<1>3. StallInv => StallNeedsDecision
  BY DEF StallInv
<1>4. QED
  BY <1>1, <1>2, <1>3, TypeCorrect, PTL DEF Spec

-----------------------------------------------------------------------------
(* At most one call is the next one.                                       *)
LEMMA CurrentUnique ==
  ASSUME NEW i \in Jobs, NEW j \in Jobs, IsCurrent(i), IsCurrent(j)
  PROVE  i = j
<1>1. Rank[i] \in Nat /\ Rank[j] \in Nat
  BY DEF Jobs, Rank
<1>2. Rank[i] = Rank[j]
  BY <1>1 DEF IsCurrent
<1>3. QED
  BY <1>2 DEF Jobs, Rank

(* unfence is the last call of an authorized pass.                         *)
LEMMA UnfenceLast == TypeOK /\ IsCurrent("unfence") => todo = {"unfence"} /\ branch = "authorized"
  BY DEF TypeOK, IsCurrent, Rank

(* clear_sync is the first call of a standby's pass.                       *)
LEMMA PromoteAlone ==
  TypeOK /\ IsCurrent("promote") => branch = "standby" /\ "clear_sync" \notin todo
  BY DEF TypeOK, IsCurrent, Rank

(* A pass establishes the invariant.                                       *)
LEMMA LoopFencing ==
  ASSUME TypeOK, FencingInv, NEW found \in BOOLEAN, Loop(found)
  PROVE  FencingInv'
<1> USE DEF FencingInv
<1>1. todo = {}
  BY DEF Loop
<1>2. /\ UNCHANGED <<conf_ro, conf_sync, live_ro, live_sync, in_recovery, promoting, applied_sync>>
      /\ failed' = "never" => failed = "never"
  BY DEF Loop, conf, live, Earlier
<1>3. branch' \in {"authorized", "fenced"} <=> ~in_recovery'
  BY <1>2 DEF Loop
<1>4. SyncQueued'
  BY <1>2 DEF Loop, SyncQueued, PrimaryJobs, WantSync
<1>5. BeliefSync'
  BY <1>2, <1>3 DEF BeliefSync
<1>6. AlterWritten'
  BY DEF Loop, AlterWritten
<1>7. ASSUME failed' = "never" PROVE BeliefOn' /\ FenceQueued' /\ PromotionFenced'
  <2>1. BeliefOn'
    BY <1>1, <1>2, <1>7 DEF Loop, BeliefOn, BeliefRo
  <2>2. FenceQueued'
    BY DEF Loop, FenceQueued, PrimaryJobs
  <2>3. PromotionFenced'
    BY <1>2, <1>7 DEF Loop, PromotionFenced
  <2>4. QED
    BY <2>1, <2>2, <2>3
<1>8. QED
  BY <1>3, <1>4, <1>5, <1>6, <1>7

(* A psql call that succeeds keeps the invariant.                          *)
LEMMA SqlFencing ==
  ASSUME TypeOK, FencingInv,
         \/ \E job \in Jobs : Alter(job, "ok") \/ Reload(job, "ok")
         \/ Promote("ok") \/ EnsureSlots("ok") \/ SpawnRejoin("ok")
  PROVE  FencingInv'
<1> USE DEF FencingInv
<1>1. failed' = failed
  BY DEF Alter, Reload, Promote, EnsureSlots, SpawnRejoin, CountCall
<1>2. ASSUME NEW job \in Jobs, Alter(job, "ok") PROVE FencingInv'
  <2>1. /\ todo' = todo /\ step' = "reload" /\ step = "alter" /\ IsCurrent(job)
        /\ conf_ro' = ConfRoAfter(job) /\ conf_sync' = ConfSyncAfter(job)
        /\ UNCHANGED <<applied_read_only, applied_sync, decided, branch, live_ro, live_sync,
                       in_recovery, promoting>>
    BY <1>2 DEF Alter, beliefs, live, role
  <2>2. failed = "never" => BeliefOn'
    BY <2>1, UnfenceLast DEF BeliefOn, ConfRoAfter
  <2>3. SyncQueued' /\ (failed = "never" => FenceQueued')
    BY <1>1, <2>1 DEF FenceQueued, SyncQueued
  <2>4. BeliefSync'
    BY <2>1 DEF BeliefSync, ConfSyncAfter, TypeOK, IsCurrent
  <2>5. failed = "never" => PromotionFenced'
    <3>1. job = "unfence" => ~in_recovery /\ branch = "authorized"
      BY <2>1, UnfenceLast
    <3>2. IsCurrent("promote")' => IsCurrent("promote")
      BY <2>1 DEF IsCurrent
    <3>3. IsCurrent("promote") => branch = "standby"
      BY PromoteAlone
    <3>4. IsCurrent("promote") => job = "promote"
      BY <2>1, CurrentUnique DEF Jobs, Rank
    <3>5. QED
      BY <2>1, <3>1, <3>2, <3>3, <3>4 DEF PromotionFenced, ConfRoAfter
  <2>6. AlterWritten'
    <3>1. \A j \in {"fence", "set_sync"} : IsCurrent(j)' => job = j
      BY <2>1, CurrentUnique DEF IsCurrent, Jobs, Rank
    <3>2. QED
      BY <2>1, <3>1 DEF AlterWritten, ConfRoAfter, ConfSyncAfter
  <2>7. QED
    BY <1>1, <2>1, <2>2, <2>3, <2>4, <2>5, <2>6
<1>3. ASSUME NEW job \in Jobs, Reload(job, "ok") PROVE FencingInv'
  <2>1. /\ step = "reload" /\ IsCurrent(job)
        /\ live_ro' = conf_ro /\ live_sync' = conf_sync
        /\ applied_read_only' = BeliefRoAfter(job)
        /\ applied_sync' = BeliefSyncAfter(job)
        /\ UNCHANGED <<decided, branch, conf_ro, conf_sync, in_recovery, promoting>>
    BY <1>3 DEF Reload, ReloadConf, conf, role
  <2>2. \/ job = "promote" /\ todo' = todo /\ step' = "promote"
        \/ job # "promote" /\ todo' = todo \ {job} /\ step' = "alter"
    BY <1>3 DEF Reload, Done
  <2>3. failed = "never" => BeliefOn'
    <3>1. CASE job = "fence"
      BY <2>1, <3>1 DEF BeliefOn, AlterWritten
    <3>2. CASE job = "unfence"
      BY <2>1, <3>2 DEF BeliefOn, BeliefRoAfter
    <3>3. CASE job \notin {"fence", "unfence"}
      <4>1. todo # {"unfence"}
        BY <2>1, <3>3 DEF IsCurrent
      <4>2. QED
        BY <2>1, <3>3, <4>1 DEF BeliefOn, BeliefRoAfter
    <3>4. QED
      BY <3>1, <3>2, <3>3
  <2>4. failed = "never" => FenceQueued'
    BY <2>1, <2>2, UnfenceLast DEF FenceQueued, BeliefRoAfter
  <2>5. SyncQueued'
    BY <1>1, <2>1, <2>2 DEF SyncQueued, BeliefSyncAfter, ConfSyncAfter, IsCurrent, TypeOK
  <2>6. BeliefSync'
    <3>1. CASE job = "set_sync"
      <4>1. branch \in {"authorized", "fenced"}
        BY <2>1, <3>1 DEF IsCurrent, TypeOK
      <4>2. QED
        BY <2>1, <3>1, <4>1 DEF BeliefSync, AlterWritten, BeliefSyncAfter, ConfSyncAfter
    <3>2. CASE job = "clear_sync"
      BY <2>1, <3>2 DEF BeliefSync, BeliefSyncAfter, ConfSyncAfter
    <3>3. CASE job \notin {"set_sync", "clear_sync"}
      BY <2>1, <2>2, <3>3 DEF BeliefSync, BeliefSyncAfter
    <3>4. QED
      BY <3>1, <3>2, <3>3
  <2>7. failed = "never" => PromotionFenced'
    <3>1. ASSUME job = "promote" PROVE IsCurrent("promote")'
      <4>1. todo' = todo /\ IsCurrent("promote")
        BY <2>1, <2>2, <3>1
      <4>2. QED
        BY <4>1 DEF IsCurrent
    <3>2. failed = "never" /\ job = "promote" => conf_ro = "on"
      BY <2>1 DEF PromotionFenced
    <3>3. QED
      BY <2>1, <2>2, <3>1, <3>2 DEF PromotionFenced
  <2>8. AlterWritten'
    BY <2>2 DEF AlterWritten
  <2>9. QED
    BY <1>1, <2>1, <2>3, <2>4, <2>5, <2>6, <2>7, <2>8
<1>4. ASSUME Promote("ok") PROVE FencingInv'
  <2>1. /\ step = "promote" /\ IsCurrent("promote")
        /\ todo' = todo \ {"promote"} /\ step' = "alter"
        /\ promoting' = (promoting \/ in_recovery)
        /\ UNCHANGED <<decided, branch, conf_ro, conf_sync, live_ro, live_sync, in_recovery,
                       applied_read_only, applied_sync>>
    BY <1>4 DEF Promote, Done, conf, live
  <2>2. branch = "standby" /\ todo # {"unfence"}
    BY <2>1, PromoteAlone DEF IsCurrent
  <2>3. SyncQueued' /\ BeliefSync' /\ (failed = "never" => BeliefOn' /\ FenceQueued')
    BY <1>1, <2>1, <2>2 DEF BeliefOn, FenceQueued, SyncQueued, BeliefSync
  <2>4. AlterWritten' /\ (failed = "never" => PromotionFenced')
    BY <2>1, <2>2 DEF PromotionFenced, AlterWritten
  <2>5. QED
    BY <1>1, <2>1, <2>3, <2>4
<1>5. ASSUME NEW job \in {"slots", "rejoin"}, IsCurrent(job), Done(job),
             UNCHANGED <<decided, branch, conf_ro, conf_sync, live_ro, live_sync, in_recovery,
                         promoting, applied_read_only, applied_sync>>
      PROVE  FencingInv'
  <2>1. todo # {"unfence"} /\ todo' = todo \ {job} /\ step' = "alter"
    BY <1>5 DEF IsCurrent, Done
  <2>2. QED
    BY <1>1, <1>5, <2>1
    DEF BeliefOn, FenceQueued, SyncQueued, BeliefSync, PromotionFenced, AlterWritten
<1>6. CASE EnsureSlots("ok")
  BY <1>5, <1>6 DEF EnsureSlots, conf, live
<1>7. CASE SpawnRejoin("ok")
  BY <1>5, <1>7 DEF SpawnRejoin, conf, live, role
<1>8. QED
  BY <1>2, <1>3, <1>4, <1>6, <1>7

(* A psql call that fails, with or without having had its effect, keeps    *)
(* what has to survive a failure.                                          *)
LEMMA FailFencing ==
  ASSUME TypeOK, FencingInv, NEW outcome \in {"lost", "late"},
         \/ \E job \in Jobs : Alter(job, outcome) \/ Reload(job, outcome)
         \/ Promote(outcome) \/ EnsureSlots(outcome) \/ SpawnRejoin(outcome)
  PROVE  FencingInv'
<1>1. /\ failed' = "now"
      /\ UNCHANGED <<branch, in_recovery, applied_sync>>
  BY DEF Alter, Reload, Promote, EnsureSlots, SpawnRejoin, CountCall, beliefs, role
<1>2. branch' \in {"authorized", "fenced"} => ~in_recovery'
  BY <1>1 DEF FencingInv
<1>3. BeliefSync'
  <2>1. ASSUME applied_sync = "own" PROVE conf_sync' = "own"
    <3>1. ASSUME NEW job \in Jobs, Alter(job, outcome), conf_sync' # conf_sync
          PROVE  conf_sync' = "own"
      <4>1. job \in todo /\ conf_sync' = ConfSyncAfter(job)
        BY <3>1 DEF Alter, IsCurrent, conf
      <4>2. job # "clear_sync"
        BY <2>1, <4>1 DEF FencingInv, BeliefSync, TypeOK
      <4>3. QED
        BY <2>1, <3>1, <4>1, <4>2 DEF ConfSyncAfter, FencingInv, BeliefSync
    <3>2. conf_sync = "own"
      BY <2>1 DEF FencingInv, BeliefSync
    <3>3. QED
      BY <3>1, <3>2 DEF Reload, Promote, EnsureSlots, SpawnRejoin, conf
  <2>2. QED
    BY <1>1, <2>1 DEF FencingInv, BeliefSync
<1>4. AlterWritten'
  <2>1. ASSUME NEW job \in Jobs, Alter(job, outcome), step' = "reload"
        PROVE  AlterWritten'
    <3>1. job = "promote" /\ todo' = todo /\ IsCurrent("promote")
      BY <2>1 DEF Alter, Done
    <3>2. \A j \in {"fence", "set_sync"} : ~IsCurrent(j)'
      BY <3>1, CurrentUnique DEF IsCurrent, Jobs, Rank
    <3>3. QED
      BY <3>2 DEF AlterWritten
  <2>2. ASSUME step' # "reload" PROVE AlterWritten'
    BY <2>2 DEF AlterWritten
  <2>3. (\A job \in Jobs : ~Alter(job, outcome)) => step' # "reload"
    BY DEF Reload, Promote, EnsureSlots, SpawnRejoin, Done
  <2>4. QED
    BY <2>1, <2>2, <2>3
<1>5. QED
  BY <1>1, <1>2, <1>3, <1>4 DEF FencingInv, SyncQueued

(* So do the restarts, Postgres, the scripts and the environment.          *)
LEMMA OtherFencing ==
  ASSUME TypeOK, FencingInv, [Next]_vars,
         ~SqlStep, ~\E found \in BOOLEAN : Loop(found)
  PROVE  FencingInv'
<1> USE DEF FencingInv
<1>1. ASSUME UNCHANGED <<decided, applied_read_only, applied_sync, pass, conf, live_ro,
                         in_recovery, promoting>>
      PROVE  FencingInv'
  <2>1. UNCHANGED <<decided, applied_read_only, applied_sync, branch, todo, step, failed,
                    conf_ro, conf_sync, live_ro, in_recovery, promoting>>
    BY <1>1 DEF pass, conf
  <2>2. \A j : IsCurrent(j)' <=> IsCurrent(j)
    BY <2>1 DEF IsCurrent
  <2>3. QED
    BY <2>1, <2>2
    DEF BeliefOn, FenceQueued, SyncQueued, BeliefSync, PromotionFenced, AlterWritten
<1>2. ASSUME WorkerStart(published, pos) \/ WorkerStart(published', pos'),
             failed = "never" /\ promoting' => in_recovery' /\ conf_ro' = "on" /\ live_ro' = "on"
      PROVE  FencingInv'
  <2>1. /\ branch' = "none" /\ todo' = {} /\ step' = "alter"
        /\ applied_read_only' = "none" /\ applied_sync' = "none"
        /\ failed' = "never" => failed = "never"
    BY <1>2 DEF WorkerStart, Earlier
  <2>2. QED
    BY <1>2, <2>1
    DEF BeliefOn, FenceQueued, SyncQueued, BeliefSync, PromotionFenced, AlterWritten
<1>3. CASE EndRecovery \/ LosePromotion
  <2>1. UNCHANGED <<decided, applied_read_only, applied_sync, branch, todo, step, failed,
                    conf_ro, conf_sync, live_ro>>
    BY <1>3 DEF EndRecovery, LosePromotion, beliefs, pass, conf, live
  <2>2. promoting /\ ~promoting' /\ (in_recovery' => in_recovery)
    BY <1>3 DEF EndRecovery, LosePromotion
  <2>3. \A j : IsCurrent(j)' <=> IsCurrent(j)
    BY <2>1 DEF IsCurrent
  <2>4. failed = "never" => PromotionFenced'
    BY <2>1, <2>2, <2>3 DEF PromotionFenced
  <2>5. QED
    BY <2>1, <2>2, <2>3, <2>4 DEF BeliefOn, FenceQueued, SyncQueued, BeliefSync, AlterWritten
<1>4. CASE RestartWorker
  BY <1>2, <1>4 DEF RestartWorker, PromotionFenced, conf, live, role
<1>5. ASSUME NEW raft_lost \in BOOLEAN, RestartPostgres(raft_lost) PROVE FencingInv'
  BY <1>2, <1>5 DEF RestartPostgres
<1>6. ASSUME NEW sync, NEW marked, RejoinCompletes(sync, marked) PROVE FencingInv'
  BY <1>2, <1>6 DEF RejoinCompletes
<1>7. CASE WdStep
  <2>1. CASE WdCheck
    BY <1>1, <2>1 DEF WdCheck, beliefs, live, role
  <2>2. ASSUME NEW outcome \in Outcomes, WdAlter(outcome) \/ WdReload(outcome) PROVE FencingInv'
    <3>1. UNCHANGED <<decided, applied_read_only, applied_sync, branch, todo, step, failed,
                      conf_sync, in_recovery, promoting>>
      BY <2>2 DEF WdAlter, WdReload, beliefs, pass, conf, role
    <3>2. \/ conf_ro' \in {conf_ro, "on"} /\ live_ro' = live_ro
          \/ conf_ro' = conf_ro /\ live_ro' = conf_ro
      BY <2>2 DEF WdAlter, WdReload, ReloadConf, live, conf
    <3>3. \A j : IsCurrent(j)' <=> IsCurrent(j)
      BY <3>1 DEF IsCurrent
    <3>4. SyncQueued' /\ BeliefSync' /\ (failed = "never" => BeliefOn' /\ FenceQueued')
      BY <3>1, <3>2 DEF BeliefOn, FenceQueued, SyncQueued, BeliefSync
    <3>5. AlterWritten' /\ (failed = "never" => PromotionFenced')
      BY <3>1, <3>2, <3>3 DEF PromotionFenced, AlterWritten
    <3>6. QED
      BY <3>1, <3>4, <3>5
  <2>3. QED
    BY <1>7, <2>1, <2>2 DEF WdStep
<1>8. CASE \/ \E n \in 1 .. MaxDecisions, p \in Primary : Decide(n, p)
           \/ QuorumChanges \/ HearPeerSeq \/ ConfirmWindowPasses \/ PromotionOverdue
           \/ Hang \/ RejoinDies \/ UNCHANGED vars
  <2>1. UNCHANGED <<decided, applied_read_only, applied_sync, pass, conf, live_ro,
                    in_recovery, promoting>>
    BY <1>8 DEF Decide, QuorumChanges, HearPeerSeq, ConfirmWindowPasses, PromotionOverdue,
                Hang, RejoinDies, vars, beliefs, live, role
  <2>2. QED
    BY <1>1, <2>1
<1>9. QED
  BY <1>3, <1>4, <1>5, <1>6, <1>7, <1>8 DEF Next, RejoinStep

(* The inductive invariant holds under every fault, failing psql calls     *)
(* included.                                                               *)
THEOREM FencingInvariant == Spec => []FencingInv
<1>1. Init => FencingInv
  BY DEF Init, FencingInv, BeliefOn, FenceQueued, SyncQueued, BeliefSync, PromotionFenced,
         AlterWritten
<1>2. TypeOK /\ FencingInv /\ [Next]_vars => FencingInv'
  <2>1. Outcomes \subseteq {"ok", "lost", "late"}
    BY DEF Outcomes
  <2>2. TypeOK /\ FencingInv /\ SqlStep => FencingInv'
    BY <2>1, SqlFencing, FailFencing DEF SqlStep
  <2>3. QED
    BY <2>2, LoopFencing, OtherFencing
<1>3. QED
  BY <1>1, <1>2, TypeCorrect, PTL DEF Spec

(* After every pass that found the node unauthorized, it is read-only, as  *)
(* long as no psql call has failed.                                        *)
THEOREM UnauthorizedIsFenced == Spec => []FencedAfterPass
<1>1. FencingInv => FencedAfterPass
  BY DEF FencingInv, FencedAfterPass, FenceQueued, BeliefOn
<1>2. QED
  BY <1>1, FencingInvariant, PTL

(* Only an unfence, made after the quorum was configured, switches a       *)
(* decided primary to read-write, in every pass of which no call failed    *)
(* before it.                                                              *)
THEOREM SyncComesFirst == Spec => UnfenceAfterSync
<1> DEFINE Step == Synchronous /\ conf_ro = "on" /\ conf_ro' = "off" /\ ~in_recovery'
                     /\ decided # NoDecision => conf_sync' = "own" \/ failed = "now"
<1>1. TypeOK /\ FencingInv /\ [Next]_vars => [Step]_vars
  <2> SUFFICES ASSUME TypeOK, FencingInv, Next,
                      Synchronous, conf_ro = "on", conf_ro' = "off", ~in_recovery',
                      decided # NoDecision, failed # "now"
               PROVE  conf_sync' = "own"
    OBVIOUS
  <2>1. \E outcome \in Outcomes : Alter("unfence", outcome)
    <3>1. ASSUME NEW job \in Jobs, NEW outcome \in Outcomes, Alter(job, outcome)
          PROVE  job = "unfence"
      BY <3>1 DEF Alter, ConfRoAfter, conf
    <3>2. SqlStep \/ RejoinStep
      BY DEF Next, Decide, QuorumChanges, HearPeerSeq, Loop, ConfirmWindowPasses,
         PromotionOverdue, Hang, EndRecovery, LosePromotion, RestartWorker, RestartPostgres,
         RejoinDies, WdStep, WdCheck, WdAlter, WdReload, conf
    <3>3. ~RejoinStep
      BY DEF RejoinStep, RejoinCompletes
    <3>4. \E job \in Jobs, outcome \in Outcomes : Alter(job, outcome)
      BY <3>2, <3>3 DEF SqlStep, Reload, Promote, EnsureSlots, SpawnRejoin, conf
    <3>5. QED
      BY <3>1, <3>4
  <2>2. IsCurrent("unfence") /\ conf_sync' = conf_sync
    BY <2>1 DEF Alter, ConfSyncAfter, conf
  <2>3. todo = {"unfence"} /\ branch = "authorized"
    BY <2>2, UnfenceLast
  <2>4. QED
    BY <2>2, <2>3 DEF FencingInv, SyncQueued, BeliefSync
<1>2. QED
  BY <1>1, TypeCorrect, FencingInvariant, PTL DEF Spec, UnfenceAfterSync

(* No step makes a node writable outside an authorized pass, except a      *)
(* restart and what follows it up to the fence of the first pass, as long  *)
(* as no psql call has failed.                                             *)
THEOREM PromotedIsFenced == Spec => FencedUntilAuthorized
<1> DEFINE Step == failed' = "never" /\ ~Writable /\ Writable' =>
                     branch = "authorized" \/ branch' = "none" \/ "fence" \in todo
<1>1. TypeOK /\ FencingInv /\ [Next]_vars => [Step]_vars
  <2> SUFFICES ASSUME TypeOK, FencingInv, Next, failed' = "never", ~Writable, Writable',
                      branch # "authorized", branch' # "none", "fence" \notin todo
               PROVE  FALSE
    OBVIOUS
  <2>1. ~in_recovery' /\ live_ro' = "off"
    BY DEF Writable
  <2> failed = "never"
    BY DEF Next, Decide, QuorumChanges, HearPeerSeq, Loop, SqlStep, Alter, Reload, Promote,
           EnsureSlots, SpawnRejoin, CountCall, ConfirmWindowPasses, PromotionOverdue, Hang,
           EndRecovery, LosePromotion, RestartWorker, RestartPostgres, WorkerStart, Earlier,
           RejoinStep, RejoinCompletes, RejoinDies, WdStep, WdCheck, WdAlter, WdReload, pass
  <2>2. CASE in_recovery
    <3>1. EndRecovery
      BY <2>1, <2>2
      DEF Next, Decide, QuorumChanges, HearPeerSeq, Loop, SqlStep, Alter, Reload, Promote,
          EnsureSlots, SpawnRejoin, ConfirmWindowPasses, PromotionOverdue, Hang, LosePromotion,
          RestartWorker, RestartPostgres, RejoinStep, RejoinCompletes, RejoinDies, WdStep,
          WdCheck, WdAlter, WdReload, role
    <3>2. QED
      BY <2>1, <3>1 DEF EndRecovery, live, FencingInv, PromotionFenced
  <2>3. CASE ~in_recovery
    <3>1. live_ro = "on"
      BY <2>3 DEF Writable, TypeOK
    <3>2. \/ \E job \in Jobs, outcome \in Outcomes : Reload(job, outcome)
          \/ \E outcome \in Outcomes : WdReload(outcome)
      BY <2>1, <3>1
      DEF Next, Decide, QuorumChanges, HearPeerSeq, Loop, SqlStep, Alter, Promote,
          EnsureSlots, SpawnRejoin, ConfirmWindowPasses, PromotionOverdue, Hang, EndRecovery,
          LosePromotion, RestartWorker, RestartPostgres, WorkerStart, RejoinStep,
          RejoinCompletes, RejoinDies, WdStep, WdCheck, WdAlter, live
    <3>3. branch' = branch /\ conf_ro = "off"
      BY <2>1, <3>1, <3>2 DEF Reload, WdReload, ReloadConf, live, pass
    <3>4. branch \in {"standby", "fenced"}
      BY <3>3 DEF TypeOK
    <3>5. branch # "standby"
      BY <2>3, <3>3 DEF FencingInv, PromotionFenced
    <3>6. applied_read_only = "on" /\ todo # {"unfence"}
      BY <3>4, <3>5 DEF FencingInv, FenceQueued, TypeOK
    <3>7. QED
      BY <3>3, <3>6 DEF FencingInv, BeliefOn
  <2>4. QED
    BY <2>2, <2>3 DEF TypeOK
<1>2. QED
  BY <1>1, TypeCorrect, FencingInvariant, PTL DEF Spec, FencedUntilAuthorized

-----------------------------------------------------------------------------
(* What the worker remembers of the marker file is what the file says: it  *)
(* looks in its first pass, before anything is authorized, and it is the   *)
(* only one to write it while it runs.                                     *)
MarkInv ==
  /\ failed = "never" /\ branch # "none" => dir_known
  /\ dir_known => (cluster_marker <=> marker)
  /\ MarkedNeverBootstraps

(* A pass reads the marker before it applies the bootstrap rule.           *)
LEMMA LoopMark ==
  ASSUME TypeOK, MarkInv, NEW found \in BOOLEAN, Loop(found)
  PROVE  MarkInv'
<1>1. failed' = "never" => found
  BY DEF Loop, Earlier, MarkInv, FirstPass
<1>2. found => (MarkerRead(found) <=> marker)
  BY Zenon DEF MarkerRead, MarkInv
<1>3. /\ marker' <=> (marker \/ MarkerWrite(found))
      /\ cluster_marker' <=> (MarkerRead(found) \/ MarkerWrite(found))
      /\ dir_known' <=> found
  BY Zenon DEF Loop
<1>4. dir_known' => (cluster_marker' <=> marker')
  BY <1>2, <1>3, Zenon
<1>5. ASSUME failed' = "never", branch' = "authorized", decided' = NoDecision
      PROVE  ~marker'
  <2>1. NewDecided = NoDecision
    BY <1>5 DEF Loop
  <2>2. Authorized(found)
    BY <1>5 DEF Loop
  <2>3. ~MarkerRead(found)
    BY <2>1, <2>2, Zenon DEF Authorized, RawAuth
  <2>4. ~MarkerWrite(found)
    BY <2>1, Zenon DEF MarkerWrite
  <2>5. QED
    BY <1>1, <1>2, <1>3, <1>5, <2>3, <2>4, Zenon
<1>6. QED
  BY <1>1, <1>3, <1>4, <1>5, Zenon DEF MarkInv, MarkedNeverBootstraps

(* Unless SHOW data_directory fails, a node whose data directory belonged  *)
(* to a decided cluster is never authorized by the bootstrap rule, however *)
(* often it restarts or rejoins and with its Raft directory gone.          *)
THEOREM MarkedStaysFenced == Spec => []MarkedNeverBootstraps
<1>1. Init => MarkInv
  BY Zenon DEF Init, MarkInv, MarkedNeverBootstraps
<1>2. TypeOK /\ MarkInv /\ [Next]_vars => MarkInv'
  <2> SUFFICES ASSUME TypeOK, MarkInv, [Next]_vars PROVE MarkInv'
    OBVIOUS
  <2>1. ASSUME NEW found \in BOOLEAN, Loop(found) PROVE MarkInv'
    BY <2>1, LoopMark
  <2>2. ASSUME branch' = "none", dir_known' = FALSE PROVE MarkInv'
    BY <2>2 DEF MarkInv, MarkedNeverBootstraps
  <2>3. ASSUME RestartWorker \/ (\E raft_lost \in BOOLEAN : RestartPostgres(raft_lost)) \/ RejoinStep
        PROVE  branch' = "none" /\ dir_known' = FALSE
    BY <2>3, Zenon DEF RestartWorker, RestartPostgres, RejoinStep, RejoinCompletes, WorkerStart
  <2>4. ASSUME UNCHANGED <<decided, branch, dir_known, cluster_marker, marker>>,
               failed' = "never" => failed = "never"
        PROVE  MarkInv'
    BY <2>4 DEF MarkInv, MarkedNeverBootstraps
  <2>5. ASSUME (\E n \in 1 .. MaxDecisions, p \in Primary : Decide(n, p)) \/ QuorumChanges \/ HearPeerSeq \/ SqlStep
               \/ ConfirmWindowPasses \/ PromotionOverdue \/ Hang \/ EndRecovery \/ LosePromotion
               \/ RejoinDies \/ WdStep \/ UNCHANGED vars
        PROVE  /\ UNCHANGED <<decided, branch, dir_known, cluster_marker, marker>>
               /\ failed' = "never" => failed = "never"
    BY <2>5
    DEF Decide, QuorumChanges, HearPeerSeq, SqlStep, CountCall, Alter, Reload, Promote, EnsureSlots,
        SpawnRejoin, ConfirmWindowPasses, PromotionOverdue, Hang, EndRecovery, LosePromotion,
        RejoinDies, WdStep, WdCheck, WdAlter, WdReload, beliefs, pass, role, vars
  <2>6. QED
    BY <2>1, <2>2, <2>3, <2>4, <2>5 DEF Next
<1>3. MarkInv => MarkedNeverBootstraps
  BY DEF MarkInv
<1>4. QED
  BY <1>1, <1>2, <1>3, TypeCorrect, PTL DEF Spec
=============================================================================
