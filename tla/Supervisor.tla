----------------------------- MODULE Supervisor -----------------------------
(***************************************************************************)
(* The supervisor of one node (pg_replica_supervisor_main), the Postgres   *)
(* it drives through psql, the deadman watchdog and the rejoin script.     *)
(*                                                                         *)
(* One pass of the 100 ms loop is the action Loop, which takes every       *)
(* decision of the pass, followed by the psql calls it queued in todo.     *)
(* Between two calls everything else may happen: a decision is published,  *)
(* a promotion ends, the watchdog acts, Postgres or the worker restarts.   *)
(* The rest of the cluster is the environment: it publishes decisions,     *)
(* grants and withdraws the gossip quorum. What the leader proposes is not *)
(* part of this module.                                                    *)
(***************************************************************************)
EXTENDS Integers, FiniteSets

CONSTANTS
  Synchronous,  \* pg_replica.synchronous
  Watchdog,     \* is pg_replica.watchdog_script set
  MaxDecisions, \* bound on the decisions published
  Faults,       \* which faults may happen
  MaxFaults     \* how many of them, together

FaultKinds ==
  {"lost",      \* a psql call fails and had no effect
   "late",      \* a psql call fails (timed out) and had its effect
   "promote",   \* pg_promote is accepted and recovery does not end
   "crash",     \* Postgres, and the worker in it, stop and start again
   "raft_dir",  \* the same, and the Raft directory is gone
   "worker",    \* the background worker alone dies and starts again
   "hang",      \* the worker does not run for longer than the thresholds
   "rejoin"}    \* the rejoin script dies before it stops Postgres

ASSUME SupervisorAssumption ==
  /\ Synchronous \in BOOLEAN
  /\ Watchdog \in BOOLEAN
  /\ MaxDecisions \in Nat
  /\ Faults \subseteq FaultKinds
  /\ MaxFaults \in Nat

VARIABLES
  \* The cluster, as this node sees it.
  published,          \* SharedDecision: the last decision applied by Raft
  pos,                \* history: how many decisions were published
  quorum_ok,          \* enough peers heard within quorum_lease
  peer_seq,           \* some peer gossiped a decision (cluster_seq > 0)
  \* Memory of the worker.
  decided, promoted, promote_overdue, rejoining, applied_primary,
  slots_ensured, applied_read_only, applied_sync, authorized_since,
  reconfirm_pending, dir_known, cluster_marker,
  decided_at,         \* history: the position of the decision held
  stalled_at,         \* history: the position held when a stall was last noticed
  failed,             \* history: has a psql call failed, in this pass or earlier
  branch,             \* the verdict of the current pass
  todo, step,         \* the psql calls the pass still has to make
  \* Postgres: configuration file, configuration in force, role.
  conf_ro, conf_sync, live_ro, live_sync,
  in_recovery, promoting, slots, marker,
  \* Processes beside the worker.
  hb,                 \* age of the heartbeat, in classes
  wd,                 \* the watchdog's place in its script
  rejoin,             \* a rejoin script is running
  faults              \* faults so far

cluster == <<published, pos, quorum_ok, peer_seq>>
beliefs == <<decided, promoted, promote_overdue, rejoining, applied_primary,
             slots_ensured, applied_read_only, applied_sync, authorized_since,
             reconfirm_pending, dir_known, cluster_marker, decided_at, stalled_at>>
pass == <<branch, todo, step, failed>>
conf == <<conf_ro, conf_sync>>
live == <<live_ro, live_sync>>
role == <<in_recovery, promoting, slots, marker>>
others == <<hb, wd, rejoin>>
vars == <<cluster, beliefs, pass, conf, live, role, others, faults>>

-----------------------------------------------------------------------------
Primary == {"me", "other"}
NoDecision == [seq |-> 0, primary |-> "none"]
Decision == [seq : 1 .. MaxDecisions, primary : Primary]

\* The calls that failed in a pass that is over.
Earlier == IF failed = "never" THEN "never" ELSE "earlier"

\* What the worker knows when its main function enters the loop.
WorkerStart(decision, at) ==
  /\ decided' = decision
  /\ decided_at' = at
  /\ promoted' = FALSE
  /\ promote_overdue' = FALSE
  /\ rejoining' = FALSE
  /\ applied_primary' = "none"
  /\ slots_ensured' = FALSE
  /\ applied_read_only' = "none"
  /\ applied_sync' = "none"
  /\ authorized_since' = "none"
  /\ reconfirm_pending' = FALSE
  /\ dir_known' = FALSE
  /\ cluster_marker' = FALSE
  /\ stalled_at' = 0
  /\ branch' = "none"
  /\ todo' = {}
  /\ step' = "alter"
  /\ failed' = Earlier

\* A new cluster: one node was seeded writable, the others are its standbys.
Init ==
  /\ published = NoDecision
  /\ pos = 0
  /\ quorum_ok = FALSE
  /\ peer_seq = FALSE
  /\ decided = NoDecision
  /\ promoted = FALSE
  /\ promote_overdue = FALSE
  /\ rejoining = FALSE
  /\ applied_primary = "none"
  /\ slots_ensured = FALSE
  /\ applied_read_only = "none"
  /\ applied_sync = "none"
  /\ authorized_since = "none"
  /\ reconfirm_pending = FALSE
  /\ dir_known = FALSE
  /\ cluster_marker = FALSE
  /\ decided_at = 0
  /\ stalled_at = 0
  /\ branch = "none"
  /\ todo = {}
  /\ step = "alter"
  /\ failed = "never"
  /\ conf_ro = "off"
  /\ conf_sync = "empty"
  /\ live_ro = "off"
  /\ live_sync = "empty"
  /\ in_recovery \in BOOLEAN
  /\ promoting = FALSE
  /\ slots = FALSE
  /\ marker = FALSE
  /\ hb = "fresh"
  /\ wd = "watch"
  /\ rejoin = FALSE
  /\ faults = 0

Writable == ~in_recovery /\ live_ro = "off"

May(fault) == fault \in Faults /\ faults < MaxFaults

\* How a psql call may end; every failure counts as a fault.
Outcomes == {"ok"} \cup {f \in {"lost", "late"} : May(f)}
Count(outcome) == faults' = IF outcome = "ok" THEN faults ELSE faults + 1

-----------------------------------------------------------------------------
(* The environment.                                                        *)

\* A proposal is numbered after the decision its leader had adopted; one
\* that timed out may still commit, and a new leader may be behind: numbers
\* repeat and go back.
Decide(n, p) ==
  /\ pos < MaxDecisions
  /\ n \in 1 .. published.seq + 1
  /\ published' = [seq |-> n, primary |-> p]
  /\ pos' = pos + 1
  /\ UNCHANGED <<quorum_ok, peer_seq, beliefs, pass, conf, live, role, others, faults>>

QuorumChanges ==
  /\ quorum_ok' = ~quorum_ok
  /\ UNCHANGED <<published, pos, peer_seq, beliefs, pass, conf, live, role, others, faults>>

HearPeerSeq ==
  /\ ~peer_seq
  /\ peer_seq' = TRUE
  /\ UNCHANGED <<published, pos, quorum_ok, beliefs, pass, conf, live, role, others, faults>>

-----------------------------------------------------------------------------
(* The head of a pass: lines 237 to 521 of lib.rs, up to the first change  *)
(* made through psql.                                                      *)

\* loop_now - last_loop > stall_threshold; last_loop is set before the first
\* pass, whatever the age of the heartbeat file.
FirstPass == branch = "none"
Stalled == hb # "fresh" /\ ~FirstPass

Adopts == published # NoDecision /\ published # decided
NewDecided == IF Adopts THEN published ELSE decided
NewDecidedAt == IF Adopts THEN pos ELSE decided_at

\* The three variables a stall resets, as the rest of the pass sees them.
BeliefRo == IF Stalled THEN "none" ELSE applied_read_only
Since == IF Stalled THEN "none" ELSE authorized_since

\* Mutant of Reconfirm: a stall does not ask for a new decision.
ReconfirmForgotten == reconfirm_pending /\ ~Adopts

Reconfirm == (reconfirm_pending \/ Stalled) /\ ~Adopts

\* SHOW data_directory runs while the directory is unknown, from the first
\* pass on; the marker file is looked at when it is found, and written once
\* there is a decision.
MarkerRead(found) == IF found /\ ~dir_known THEN marker ELSE cluster_marker
MarkerWrite(found) == found /\ ~MarkerRead(found) /\ NewDecided # NoDecision

\* Mutant of RawAuth: the gossip quorum is not asked for.
RawAuthNoQuorum(found) ==
  IF NewDecided = NoDecision
    THEN ~peer_seq /\ ~MarkerRead(found)
    ELSE NewDecided.primary = "me" /\ ~Reconfirm

\* Mutant of RawAuth: the marker is not looked at.
RawAuthNoMarker(found) ==
  IF NewDecided = NoDecision
    THEN quorum_ok /\ ~peer_seq
    ELSE NewDecided.primary = "me" /\ quorum_ok /\ ~Reconfirm

RawAuth(found) ==
  IF NewDecided = NoDecision
    THEN quorum_ok /\ ~peer_seq /\ ~MarkerRead(found)
    ELSE NewDecided.primary = "me" /\ quorum_ok /\ ~Reconfirm

\* Authorized at once while already writable or before any decision;
\* otherwise only when raw_auth has held for confirm_window.
Immediate == NewDecided = NoDecision \/ BeliefRo = "off"
Authorized(found) == RawAuth(found) /\ (Immediate \/ Since = "ripe")

NewSince(found) ==
  CASE in_recovery \/ ~RawAuth(found) -> "none"
    [] Immediate \/ Since = "none" -> "fresh"
    [] OTHER -> Since

\* The value synchronous_standby_names should have, or "leave".
WantSync(auth) ==
  IF ~Synchronous THEN "empty"
  ELSE IF auth /\ NewDecided # NoDecision THEN "own" ELSE "leave"

\* Mutant of Promoted: a promotion that had no effect is not tried again.
PromotedForever == promoted /\ ~Adopts

\* A promotion counts as done until recovery has not ended for too long.
Promoted == promoted /\ ~Adopts /\ ~(NewDecided.primary = "me" /\ in_recovery /\ promote_overdue)

StandbyJobs ==
  {j \in {"clear_sync", "promote", "repoint"} :
     \/ j = "clear_sync" /\ applied_sync # "empty"
     \/ j = "promote" /\ NewDecided.primary = "me" /\ ~Promoted
     \/ j = "repoint" /\ NewDecided.primary = "other" /\ (Adopts \/ applied_primary # "other")}

\* Mutant of PrimaryJobs: a deposed primary is fenced and never rejoined.
PrimaryJobsNoRejoin(auth) ==
  {j \in {"slots", "fence", "set_sync", "unfence"} :
     \/ j = "slots" /\ NewDecided.primary = "me" /\ (Adopts \/ ~slots_ensured)
     \/ j = "fence" /\ ~auth /\ BeliefRo # "on"
     \/ j = "set_sync" /\ WantSync(auth) \notin {"leave", applied_sync}
     \/ j = "unfence" /\ auth /\ BeliefRo # "off"}

\* Mutant of PrimaryJobs: the unfence is not conditional on authorization.
PrimaryJobsUnfenceAlways(auth) ==
  PrimaryJobsNoRejoin(auth) \cup (IF BeliefRo # "off" THEN {"unfence"} ELSE {})

\* Mutant of PrimaryJobs: only a node known to be writable is fenced.
PrimaryJobsFenceKnown(auth) ==
  {j \in PrimaryJobsNoRejoin(auth) : j # "fence" \/ BeliefRo = "off"}

PrimaryJobs(auth) ==
  {j \in {"slots", "fence", "set_sync", "unfence", "rejoin"} :
     \/ j = "slots" /\ NewDecided.primary = "me" /\ (Adopts \/ ~slots_ensured)
     \/ j = "fence" /\ ~auth /\ BeliefRo # "on"
     \/ j = "set_sync" /\ WantSync(auth) \notin {"leave", applied_sync}
     \/ j = "unfence" /\ auth /\ BeliefRo # "off"
     \/ j = "rejoin" /\ ~auth /\ NewDecided.primary = "other" /\ (Adopts \/ ~rejoining)}

\* found: the data directory is known after this pass's SHOW.
Loop(found) ==
  /\ todo = {}
  /\ dir_known => found
  /\ FirstPass /\ ~found => May("lost")
  /\ faults' = IF FirstPass /\ ~found THEN faults + 1 ELSE faults
  /\ hb' = "fresh"
  /\ decided' = NewDecided
  /\ decided_at' = NewDecidedAt
  /\ promoted' = Promoted
  /\ promote_overdue' = (promote_overdue /\ Promoted)
  /\ rejoining' = (rejoining /\ ~Adopts)
  /\ applied_primary' = IF Adopts THEN "none" ELSE applied_primary
  /\ slots_ensured' = (slots_ensured /\ ~Adopts)
  /\ reconfirm_pending' = Reconfirm
  /\ dir_known' = found
  /\ marker' = (marker \/ MarkerWrite(found))
  /\ cluster_marker' = (MarkerRead(found) \/ MarkerWrite(found))
  /\ stalled_at' = IF Stalled THEN decided_at ELSE stalled_at
  /\ applied_read_only' = IF in_recovery THEN "none" ELSE BeliefRo
  /\ authorized_since' = NewSince(found)
  /\ branch' = IF in_recovery THEN "standby"
               ELSE IF Authorized(found) THEN "authorized" ELSE "fenced"
  /\ todo' = IF in_recovery THEN StandbyJobs ELSE PrimaryJobs(Authorized(found))
  /\ step' = "alter"
  /\ failed' = IF FirstPass /\ ~found THEN "now" ELSE Earlier
  /\ UNCHANGED <<cluster, applied_sync, conf, live, in_recovery, promoting, slots, wd, rejoin>>

-----------------------------------------------------------------------------
(* The psql calls of the pass, in the order of the code.                   *)

\* Mutant of Rank: unfence before the quorum is configured.
RankUnfenceFirst ==
  [clear_sync |-> 1, promote |-> 2, repoint |-> 3,
   slots |-> 4, fence |-> 5, set_sync |-> 7, unfence |-> 6, rejoin |-> 8]

Rank ==
  [clear_sync |-> 1, promote |-> 2, repoint |-> 3,
   slots |-> 4, fence |-> 5, set_sync |-> 6, unfence |-> 7, rejoin |-> 8]

IsCurrent(job) == job \in todo /\ \A j \in todo : Rank[job] <= Rank[j]

Done(job) == todo' = todo \ {job} /\ step' = "alter"

\* Mutant of ConfRoAfter: a promotion does not fence the node first.
ConfRoAfterUnfencedPromotion(job) ==
  CASE job = "fence" -> "on"
    [] job = "unfence" -> "off"
    [] OTHER -> conf_ro

\* What ALTER SYSTEM leaves in postgresql.auto.conf. (repoint sets
\* primary_conninfo, which no property here reads.)
ConfRoAfter(job) ==
  CASE job \in {"fence", "promote"} -> "on"
    [] job = "unfence" -> "off"
    [] OTHER -> conf_ro
ConfSyncAfter(job) ==
  CASE job = "clear_sync" -> "empty"
    [] job = "set_sync" -> (IF Synchronous THEN "own" ELSE "empty")
    [] OTHER -> conf_sync

\* A call of the pass ended.
CountCall(outcome) ==
  /\ Count(outcome)
  /\ failed' = IF outcome = "ok" THEN failed ELSE "now"

\* ALTER SYSTEM: a failure ends the job, except for the promotion, which
\* ignores the result.
Alter(job, outcome) ==
  /\ IsCurrent(job)
  /\ job \notin {"slots", "rejoin"}
  /\ step = "alter"
  /\ CountCall(outcome)
  /\ IF outcome = "lost" THEN UNCHANGED conf
     ELSE conf_ro' = ConfRoAfter(job) /\ conf_sync' = ConfSyncAfter(job)
  /\ IF outcome = "ok" \/ job = "promote" THEN todo' = todo /\ step' = "reload" ELSE Done(job)
  /\ UNCHANGED <<cluster, beliefs, branch, live, role, others>>

\* What the worker remembers once ALTER SYSTEM and the reload both succeeded.
BeliefRoAfter(job) ==
  CASE job = "fence" -> "on"
    [] job = "unfence" -> "off"
    [] OTHER -> applied_read_only
BeliefSyncAfter(job) ==
  IF job \in {"clear_sync", "set_sync"} THEN ConfSyncAfter(job) ELSE applied_sync

\* SELECT pg_reload_conf(): the whole file comes into force, whoever wrote it.
ReloadConf(outcome) ==
  IF outcome = "lost" THEN UNCHANGED live
  ELSE live_ro' = conf_ro /\ live_sync' = conf_sync

Reload(job, outcome) ==
  /\ IsCurrent(job)
  /\ step = "reload"
  /\ CountCall(outcome)
  /\ ReloadConf(outcome)
  /\ IF job = "promote" THEN todo' = todo /\ step' = "promote" ELSE Done(job)
  /\ IF outcome = "ok"
       THEN /\ applied_read_only' = BeliefRoAfter(job)
            /\ applied_sync' = BeliefSyncAfter(job)
            /\ applied_primary' = IF job = "repoint" THEN decided.primary ELSE applied_primary
       ELSE UNCHANGED <<applied_read_only, applied_sync, applied_primary>>
  /\ UNCHANGED <<cluster, decided, promoted, promote_overdue, rejoining, slots_ensured,
                 authorized_since, reconfirm_pending, dir_known, cluster_marker, decided_at,
                 stalled_at, branch,
                 conf, role, others>>

\* SELECT pg_promote(false)
Promote(outcome) ==
  /\ IsCurrent("promote")
  /\ step = "promote"
  /\ CountCall(outcome)
  /\ promoting' = (promoting \/ (outcome # "lost" /\ in_recovery))
  /\ promoted' = (outcome = "ok" /\ in_recovery)
  /\ Done("promote")
  /\ UNCHANGED <<cluster, decided, promote_overdue, rejoining, applied_primary, slots_ensured,
                 applied_read_only, applied_sync, authorized_since, reconfirm_pending,
                 dir_known, cluster_marker, decided_at,
                 stalled_at, branch, conf, live, in_recovery, slots, marker,
                 others>>

\* pg_create_physical_replication_slot for every other member; the result is
\* not looked at.
EnsureSlots(outcome) ==
  /\ IsCurrent("slots")
  /\ CountCall(outcome)
  /\ slots' = (slots \/ outcome # "lost")
  /\ slots_ensured' = TRUE
  /\ Done("slots")
  /\ UNCHANGED <<cluster, decided, promoted, promote_overdue, rejoining, applied_primary,
                 applied_read_only, applied_sync, authorized_since, reconfirm_pending,
                 dir_known, cluster_marker, decided_at,
                 stalled_at, branch, conf, live, in_recovery, promoting, marker,
                 others>>

\* spawn_rejoin: needs the data directory, asked for again when unknown.
SpawnRejoin(outcome) ==
  /\ IsCurrent("rejoin")
  /\ outcome = "ok" \/ ~dir_known
  /\ CountCall(outcome)
  /\ rejoining' = (rejoining \/ outcome = "ok")
  /\ rejoin' = (rejoin \/ outcome = "ok")
  /\ Done("rejoin")
  /\ UNCHANGED <<cluster, decided, promoted, promote_overdue, applied_primary, slots_ensured,
                 applied_read_only, applied_sync, authorized_since, reconfirm_pending,
                 dir_known, cluster_marker, decided_at,
                 stalled_at, branch, conf, live, role, hb, wd>>

-----------------------------------------------------------------------------
(* Time, as far as the worker measures it.                                 *)

ConfirmWindowPasses ==
  /\ authorized_since = "fresh"
  /\ authorized_since' = "ripe"
  /\ UNCHANGED <<cluster, decided, promoted, promote_overdue, rejoining, applied_primary,
                 slots_ensured, applied_read_only, applied_sync, reconfirm_pending, dir_known,
                 cluster_marker, decided_at, stalled_at, pass, conf, live, role, others, faults>>

PromotionOverdue ==
  /\ promoted
  /\ ~promote_overdue
  /\ promote_overdue' = TRUE
  /\ UNCHANGED <<cluster, decided, promoted, rejoining, applied_primary,
                 slots_ensured, applied_read_only, applied_sync, authorized_since,
                 reconfirm_pending, dir_known, cluster_marker, decided_at, stalled_at, pass, conf, live, role, others,
                 faults>>

\* First past stall_threshold (1500 ms), then past the watchdog's 2000 ms.
Hang ==
  /\ hb # "stale"
  /\ hb = "fresh" => May("hang")
  /\ hb' = IF hb = "fresh" THEN "stall" ELSE "stale"
  /\ faults' = IF hb = "fresh" THEN faults + 1 ELSE faults
  /\ UNCHANGED <<cluster, beliefs, pass, conf, live, role, wd, rejoin>>

-----------------------------------------------------------------------------
(* Postgres (external).                                                    *)

EndRecovery ==
  /\ promoting
  /\ in_recovery' = FALSE
  /\ promoting' = FALSE
  /\ UNCHANGED <<cluster, beliefs, pass, conf, live, slots, marker, others, faults>>

LosePromotion ==
  /\ promoting
  /\ May("promote")
  /\ promoting' = FALSE
  /\ faults' = faults + 1
  /\ UNCHANGED <<cluster, beliefs, pass, conf, live, in_recovery, slots, marker, others>>

\* The worker starts over after 5 s; Postgres and its configuration stay.
RestartWorker ==
  /\ May("worker")
  /\ faults' = faults + 1
  /\ WorkerStart(published, pos)
  /\ peer_seq' = FALSE
  /\ hb' = "stale"
  /\ UNCHANGED <<published, pos, quorum_ok, conf, live, role, wd, rejoin>>

\* Postgres starts over from its files.
RestartPostgres(raft_lost) ==
  /\ May(IF raft_lost THEN "raft_dir" ELSE "crash")
  /\ faults' = faults + 1
  /\ published' = IF raft_lost THEN NoDecision ELSE published
  /\ pos' = IF raft_lost THEN 0 ELSE pos
  /\ WorkerStart(published', pos')
  /\ peer_seq' = FALSE
  /\ live_ro' = conf_ro
  /\ live_sync' = conf_sync
  /\ promoting' = FALSE
  /\ hb' \in {hb, "stale"}
  /\ UNCHANGED <<quorum_ok, conf, in_recovery, slots, marker, wd, rejoin>>

-----------------------------------------------------------------------------
(* scripts/rejoin.sh: Postgres is stopped, its directory replaced by the   *)
(* new primary's (whose auto.conf names that node's standbys), read_only   *)
(* switched off in the file, and Postgres started as a standby.            *)

RejoinCompletes(sync, marked) ==
  /\ rejoin
  /\ rejoin' = FALSE
  /\ in_recovery' = TRUE
  /\ promoting' = FALSE
  /\ slots' = FALSE
  /\ marker' = marked
  /\ hb' = "stale"
  /\ conf_ro' = "off"
  /\ conf_sync' = sync
  /\ live_ro' = "off"
  /\ live_sync' = sync
  /\ WorkerStart(published, pos)
  /\ peer_seq' = FALSE
  /\ UNCHANGED <<published, pos, quorum_ok, wd, faults>>

RejoinDies ==
  /\ rejoin
  /\ May("rejoin")
  /\ rejoin' = FALSE
  /\ faults' = faults + 1
  /\ UNCHANGED <<cluster, beliefs, pass, conf, live, role, hb, wd>>

-----------------------------------------------------------------------------
(* scripts/watchdog.sh                                                     *)

\* Mutant of WdStale: the watchdog's threshold is never reached.
WdStaleNever == FALSE

WdStale == hb = "stale"

WdCheck ==
  /\ Watchdog
  /\ wd = "watch"
  /\ ~in_recovery
  /\ WdStale
  /\ live_ro # "on"
  /\ wd' = "alter"
  /\ UNCHANGED <<cluster, beliefs, pass, conf, live, role, hb, rejoin, faults>>

WdAlter(outcome) ==
  /\ wd = "alter"
  /\ Count(outcome)
  /\ conf_ro' = IF outcome = "lost" THEN conf_ro ELSE "on"
  /\ wd' = "reload"
  /\ UNCHANGED <<cluster, beliefs, pass, conf_sync, live, role, hb, rejoin>>

WdReload(outcome) ==
  /\ wd = "reload"
  /\ Count(outcome)
  /\ ReloadConf(outcome)
  /\ wd' = "watch"
  /\ UNCHANGED <<cluster, beliefs, pass, conf, role, hb, rejoin>>

-----------------------------------------------------------------------------
Jobs == DOMAIN Rank

SqlStep ==
  \E outcome \in Outcomes :
    \/ \E job \in Jobs : Alter(job, outcome) \/ Reload(job, outcome)
    \/ Promote(outcome)
    \/ EnsureSlots(outcome)
    \/ SpawnRejoin(outcome)

RejoinStep ==
  \E sync \in {"empty", "foreign"}, marked \in BOOLEAN : RejoinCompletes(sync, marked)

WdStep ==
  \E outcome \in Outcomes : WdCheck \/ WdAlter(outcome) \/ WdReload(outcome)

Next ==
  \/ \E n \in 1 .. MaxDecisions, p \in Primary : Decide(n, p)
  \/ QuorumChanges
  \/ HearPeerSeq
  \/ \E found \in BOOLEAN : Loop(found)
  \/ SqlStep
  \/ ConfirmWindowPasses
  \/ PromotionOverdue
  \/ Hang
  \/ EndRecovery
  \/ LosePromotion
  \/ RestartWorker
  \/ \E raft_lost \in BOOLEAN : RestartPostgres(raft_lost)
  \/ RejoinStep
  \/ RejoinDies
  \/ WdStep

Spec == Init /\ [][Next]_vars

\* The latch wakes the worker every 100 ms, psql calls time out, Postgres
\* serves signals, clocks advance and the scripts are ordinary processes.
Fairness ==
  /\ WF_vars(\E found \in BOOLEAN : Loop(found))
  /\ WF_vars(SqlStep)
  /\ WF_vars(ConfirmWindowPasses)
  /\ WF_vars(PromotionOverdue)
  /\ WF_vars(EndRecovery)
  /\ WF_vars(RejoinStep)
  /\ WF_vars(WdStep)

FairSpec == Spec /\ Fairness

\* Only the watchdog is assumed to run: the worker may hang for ever.
WatchdogSpec == Spec /\ WF_vars(WdStep)

-----------------------------------------------------------------------------
(* Every variable keeps its type, and what is queued fits the branch the   *)
(* pass took: a primary's calls are never mixed with a standby's.          *)
TypeOK ==
  /\ published \in Decision \cup {NoDecision}
  /\ decided \in Decision \cup {NoDecision}
  /\ quorum_ok \in BOOLEAN /\ peer_seq \in BOOLEAN
  /\ promoted \in BOOLEAN /\ promote_overdue \in BOOLEAN /\ rejoining \in BOOLEAN
  /\ applied_primary \in Primary \cup {"none"}
  /\ slots_ensured \in BOOLEAN /\ reconfirm_pending \in BOOLEAN
  /\ dir_known \in BOOLEAN /\ cluster_marker \in BOOLEAN
  /\ pos \in 0 .. MaxDecisions
  /\ decided_at \in 0 .. MaxDecisions
  /\ stalled_at \in 0 .. MaxDecisions
  /\ failed \in {"never", "earlier", "now"}
  /\ applied_read_only \in {"none", "on", "off"}
  /\ applied_sync \in {"none", "empty", "own"}
  /\ authorized_since \in {"none", "fresh", "ripe"}
  /\ branch \in {"none", "standby", "authorized", "fenced"}
  /\ todo \subseteq CASE branch = "none" -> {}
                      [] branch = "standby" -> {"clear_sync", "promote", "repoint"}
                      [] branch = "authorized" -> {"slots", "set_sync", "unfence"}
                      [] branch = "fenced" -> {"slots", "fence", "set_sync", "rejoin"}
  /\ step \in {"alter", "reload", "promote"}
  /\ conf_ro \in {"on", "off"} /\ live_ro \in {"on", "off"}
  /\ conf_sync \in {"empty", "own", "foreign"} /\ live_sync \in {"empty", "own", "foreign"}
  /\ in_recovery \in BOOLEAN /\ promoting \in BOOLEAN
  /\ slots \in BOOLEAN /\ marker \in BOOLEAN
  /\ hb \in {"fresh", "stall", "stale"}
  /\ wd \in {"watch", "alter", "reload"}
  /\ rejoin \in BOOLEAN
  /\ faults \in 0 .. MaxFaults

(* What the worker remembers is true of Postgres, or the call that will    *)
(* make it true is the next one; and a node is fenced from before its      *)
(* promotion on. What it remembers of the fence, and the fence before the  *)
(* promotion, are only good as long as no psql call has failed. Together   *)
(* these make the guarantees below inductive.                              *)
BeliefOn ==
  applied_read_only = "on" =>
    (conf_ro = "on" /\ live_ro = "on") \/ (todo = {"unfence"} /\ step = "reload")
FenceQueued == branch = "fenced" => "fence" \in todo \/ applied_read_only = "on"
SyncQueued ==
  Synchronous /\ branch = "authorized" /\ decided # NoDecision /\ failed # "now" =>
    "set_sync" \in todo \/ applied_sync = "own"
BeliefSync ==
  applied_sync = "own" =>
    Synchronous /\ conf_sync = "own" /\ ~in_recovery /\ branch \in {"authorized", "fenced"}
PromotionFenced ==
  /\ promoting => in_recovery /\ conf_ro = "on" /\ live_ro = "on"
  /\ branch = "standby" /\ ~in_recovery => conf_ro = "on" /\ live_ro = "on"
  /\ step # "alter" /\ IsCurrent("promote") => conf_ro = "on"
  /\ step = "promote" => IsCurrent("promote") /\ live_ro = "on"
AlterWritten ==
  step = "reload" =>
    /\ IsCurrent("fence") => conf_ro = "on"
    /\ IsCurrent("set_sync") /\ Synchronous => conf_sync = "own"
FencingInv ==
  /\ branch \in {"authorized", "fenced"} => ~in_recovery
  /\ SyncQueued /\ BeliefSync /\ AlterWritten
  /\ failed = "never" => BeliefOn /\ FenceQueued /\ PromotionFenced

(* A pass that found the node unauthorized leaves it read-only, although   *)
(* the call is skipped whenever the worker remembers having fenced: as     *)
(* long as no psql call has failed, the memory is never ahead of the file  *)
(* nor of Postgres.                                                        *)
FencedAfterPass ==
  failed = "never" /\ branch = "fenced" /\ todo = {} => conf_ro = "on" /\ live_ro = "on"

(* "Unfence last": a primary under a decision is not switched to           *)
(* read-write in the file before the file names the sync quorum, unless    *)
(* another call of that very pass has failed, and whatever failed before.  *)
UnfenceAfterSync ==
  [][ Synchronous /\ conf_ro = "on" /\ conf_ro' = "off" /\ ~in_recovery' /\ decided # NoDecision
        => conf_sync' = "own" \/ failed = "now" ]_vars

(* A node becomes writable only in a pass that found it authorized: not by *)
(* the end of a promotion ("fenced until authorized"), a reload made for   *)
(* another setting, or the watchdog. (A restarted worker finds what the    *)
(* file says, up to the fence of its first pass; and pg_promote is called  *)
(* even when the calls that fence the node have failed.)                   *)
FencedUntilAuthorized ==
  [][ failed' = "never" /\ ~Writable /\ Writable' =>
        branch = "authorized" \/ branch' = "none" \/ "fence" \in todo ]_vars

(* A node whose data directory already belonged to a decided cluster is    *)
(* not authorized by the bootstrap rule, even with its Raft directory gone *)
(* and whatever the worker remembers of the marker file. (It remembers     *)
(* nothing when SHOW data_directory failed.)                               *)
MarkedNeverBootstraps ==
  failed = "never" /\ branch = "authorized" /\ decided = NoDecision => ~marker

(* After a stall, noticed at the next pass, no pass finds the node         *)
(* authorized under the decision it held, however long the quorum lasts:   *)
(* it has to adopt a later one first, which may carry the same number.     *)
StallNeedsDecision ==
  branch = "authorized" /\ decided # NoDecision => decided_at > stalled_at

(* What makes it inductive: adopted decisions only get later, and the flag *)
(* stays up until one is adopted.                                          *)
AdoptsForward ==
  /\ decided_at <= pos
  /\ decided_at = pos => decided = published
  /\ published # NoDecision => pos > 0
  /\ decided # NoDecision => decided_at > 0
ReconfirmHeld ==
  /\ stalled_at <= decided_at
  /\ stalled_at > 0 => reconfirm_pending \/ decided_at > stalled_at
StallInv == AdoptsForward /\ ReconfirmHeld /\ StallNeedsDecision

(* Whatever restarts, lost promotions and failed calls came before, a node *)
(* the cluster keeps as its primary, with its quorum and with an answer to *)
(* its requests for a new decision, ends up writable, its sync quorum in   *)
(* force.                                                                  *)
EventuallyWritable ==
  Fairness =>
  (<>[](/\ published.primary = "me" /\ quorum_ok
        /\ reconfirm_pending => published # decided
        /\ applied_read_only = "off" => conf_ro = "off")
     => <>[](Writable /\ (Synchronous => live_sync = "own")))

(* A node that has lost its quorum for good ends up read-only, even if     *)
(* psql calls fail on the way with or without having had their effect:     *)
(* the fence is tried until it succeeds, unless a failed call left the     *)
(* worker remembering a fence that the file does not have.                 *)
EventuallyFenced ==
  Fairness => (<>[](~quorum_ok /\ (applied_read_only = "on" => conf_ro = "on")) => <>[]~Writable)

(* A deposed primary ends up as a standby, unless the script it launched   *)
(* for this decision has died: it is launched once per decision.           *)
EventuallyRejoined ==
  Fairness => (<>[](published.primary = "other" /\ (rejoining => rejoin)) => <>[]in_recovery)

(* A hung control plane is fenced by the watchdog: a stale heartbeat does  *)
(* not leave a primary writable.                                           *)
HungIsFenced == hb = "stale" /\ Writable ~> hb # "stale" \/ ~Writable
=============================================================================
