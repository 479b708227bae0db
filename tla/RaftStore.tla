------------------------------ MODULE RaftStore ------------------------------
(***************************************************************************)
(* The Raft storage of one node (store.rs): the log store, the state       *)
(* machine and the SharedDecision the supervisor reads, with their two     *)
(* files and power loss.                                                   *)
(*                                                                         *)
(* Every operation first changes memory and then runs atomic_write, whose  *)
(* rename and directory fsync are separate steps. openraft (external)      *)
(* drives the store from three tasks that interleave here: the core, one   *)
(* log operation at a time; the state machine worker, one apply or         *)
(* install_snapshot at a time; and a snapshot builder.                     *)
(*                                                                         *)
(* A log id is abstracted to its index (0 for None) and an entry to the    *)
(* kind of its payload; a decision, or a membership, is named by the index *)
(* of the entry that carried it.                                           *)
(***************************************************************************)
EXTENDS Integers, FiniteSets, Sequences

CONSTANTS
  Payload,   \* the kinds of entry: "Blank", "Normal" (a decision), "Membership"
  MaxIndex,  \* bound on the log
  MaxVote,   \* bound on votes
  MaxBatch,  \* entries in one append
  Faults,    \* "crash": power loss, "io": atomic_write fails
  MaxFaults

ASSUME RaftStoreAssumption ==
  /\ Payload \subseteq {"Blank", "Normal", "Membership"}
  /\ MaxIndex \in Nat /\ MaxVote \in Nat /\ MaxBatch \in Nat /\ MaxFaults \in Nat
  /\ Faults \subseteq {"crash", "io"}

VARIABLES
  log,        \* LogStoreState in memory
  sm,         \* SmState in memory
  snapshot,   \* the stored snapshot, memory only
  shared,     \* SharedDecision
  file,       \* what the two files show
  disk,       \* what power loss is sure to leave of them
  log_op,     \* the log operation under way, and its place in atomic_write
  sm_op,      \* the same for the state machine
  build,      \* what the snapshot builder has read
  \* openraft
  phase, ready, purge_upto,
  \* the cluster, and what this node has promised
  chosen, acked, voted, faults,
  ahead       \* history: has a builder read what is not on disk ("now"), and
              \* was power lost before it was ("lost")

store == <<log, sm, snapshot, shared>>
files == <<file, disk>>
ops == <<log_op, sm_op, build>>
engine == <<phase, ready, purge_upto>>
promises == <<acked, voted>>
vars == <<store, files, ops, engine, chosen, promises, faults, ahead>>

-----------------------------------------------------------------------------
Index == 1 .. MaxIndex
Larger(a, b) == IF a >= b THEN a ELSE b
Restriction(f, S) == [i \in DOMAIN f \cap S |-> f[i]]

EmptyLog == [vote |-> 0, last_purged |-> 0, committed |-> 0, log |-> <<>>]
EmptySm == [last_applied |-> 0, last_membership |-> 0, decision |-> 0]
None == [last_applied |-> -1, last_membership |-> 0, decision |-> 0]
Idle == [op |-> "idle", at |-> "none"]

Init ==
  /\ log = EmptyLog
  /\ sm = EmptySm
  /\ snapshot = None
  /\ shared = 0
  /\ file = [log |-> EmptyLog, sm |-> EmptySm]
  /\ disk = file
  /\ log_op = Idle
  /\ sm_op = Idle
  /\ build = None
  /\ phase = "run"
  /\ ready = 0
  /\ purge_upto = 0
  /\ chosen = <<>>
  /\ acked = <<>>
  /\ voted = 0
  /\ faults = 0
  /\ ahead = "no"

May(fault) == fault \in Faults /\ faults < MaxFaults

\* get_log_state: the last entry, or the last purged one.
LastLog == IF DOMAIN log.log = {} THEN log.last_purged
           ELSE CHOOSE i \in DOMAIN log.log : \A j \in DOMAIN log.log : j <= i

\* What openraft takes as committed: never behind what was applied.
Committed == Larger(log.committed, sm.last_applied)

-----------------------------------------------------------------------------
(* atomic_write and the two persist functions.                             *)

AtRename(op) == [op |-> op, at |-> "rename"]
AtFsync(op) == [op |-> op, at |-> "fsync"]

\* Mutant of DirFsync: the directory is not synced.
DirFsyncSkipped == UNCHANGED disk

\* Syncing the directory makes every rename in it durable.
DirFsync == disk' = file

LogRename ==
  /\ log_op.at = "rename"
  /\ file' = [file EXCEPT !.log = log]
  /\ log_op' = AtFsync(log_op.op)
  /\ UNCHANGED <<store, disk, sm_op, build, engine, chosen, ahead, promises, faults>>

\* The operation returns: openraft may rely on it. An append calls back.
LogDone ==
  /\ log_op.at = "fsync"
  /\ DirFsync
  /\ log_op' = Idle
  /\ voted' = IF log_op.op = "vote" THEN log.vote ELSE voted
  /\ acked' = IF log_op.op # "append" THEN acked
              ELSE [i \in DOMAIN acked \cup DOMAIN log.log |->
                      IF i \in DOMAIN log.log THEN log.log[i] ELSE acked[i]]
  /\ ready' = IF log_op.op = "committed" THEN log.committed ELSE ready
  /\ UNCHANGED <<store, file, sm_op, build, phase, purge_upto, chosen, ahead, faults>>

\* An error ends the operation; openraft stops and nothing follows it.
LogFails ==
  /\ log_op # Idle
  /\ May("io")
  /\ faults' = faults + 1
  /\ log_op' = Idle
  /\ phase' = "failed"
  /\ UNCHANGED <<store, files, sm_op, build, ready, purge_upto, chosen, ahead, promises>>

SmRename ==
  /\ sm_op.at = "rename"
  /\ file' = [file EXCEPT !.sm = sm]
  /\ sm_op' = AtFsync(sm_op.op)
  /\ UNCHANGED <<store, disk, log_op, build, engine, chosen, ahead, promises, faults>>

SmFsync ==
  /\ sm_op.at = "fsync"
  /\ DirFsync
  /\ sm_op' = [op |-> sm_op.op, at |-> "publish"]
  /\ ahead' = IF ahead = "now" THEN "no" ELSE ahead
  /\ UNCHANGED <<store, file, log_op, build, engine, chosen, promises, faults>>

SmFails ==
  /\ sm_op.at \in {"rename", "fsync"}
  /\ May("io")
  /\ faults' = faults + 1
  /\ sm_op' = Idle
  /\ phase' = "failed"
  /\ UNCHANGED <<store, files, log_op, build, ready, purge_upto, chosen, ahead, promises>>

-----------------------------------------------------------------------------
(* The log store.                                                          *)

LogIdle == phase = "run" /\ log_op = Idle

\* The operation has changed the memory and goes on to persist it.
LogBegins(op, new) ==
  /\ log' = new
  /\ log_op' = AtRename(op)
  /\ UNCHANGED <<sm, snapshot, shared, files, sm_op, build, engine, chosen, ahead, voted, faults>>

save_vote(v) ==
  /\ LogIdle
  /\ v > log.vote
  /\ LogBegins("vote", [log EXCEPT !.vote = v])
  /\ UNCHANGED acked

\* openraft saves a committed index once the log holds the committed entries.
save_committed(c) ==
  /\ LogIdle
  /\ c > Committed
  /\ \A i \in Committed + 1 .. c : i \in DOMAIN log.log /\ log.log[i] = chosen[i]
  /\ LogBegins("committed", [log EXCEPT !.committed = c])
  /\ UNCHANGED acked

append(entries) ==
  /\ LogIdle
  /\ LastLog + Len(entries) <= MaxIndex
  /\ LogBegins("append",
       [log EXCEPT !.log = [i \in DOMAIN log.log \cup (LastLog + 1 .. LastLog + Len(entries)) |->
                              IF i > LastLog THEN entries[i - LastLog] ELSE log.log[i]]])
  /\ UNCHANGED acked

\* Only entries that are not the committed ones are ever truncated.
truncate(i) ==
  /\ LogIdle
  /\ i > Committed /\ i \in DOMAIN log.log
  /\ i <= Len(chosen) => log.log[i] # chosen[i]
  /\ LogBegins("truncate", [log EXCEPT !.log = Restriction(log.log, 0 .. i - 1)])
  /\ acked' = Restriction(acked, 0 .. i - 1)

\* Mutant of Purged: the boundary entry is kept.
PurgedExclusive(i) ==
  [log EXCEPT !.last_purged = i, !.log = Restriction(log.log, i .. MaxIndex)]

Purged(i) ==
  [log EXCEPT !.last_purged = i, !.log = Restriction(log.log, i + 1 .. MaxIndex)]

purge ==
  /\ LogIdle
  /\ purge_upto > log.last_purged
  /\ LogBegins("purge", Purged(purge_upto))
  /\ UNCHANGED acked

-----------------------------------------------------------------------------
(* The state machine.                                                      *)

LastOf(payload, n) ==
  CHOOSE i \in 0 .. n :
    /\ i = 0 \/ chosen[i] = payload
    /\ \A j \in 1 .. n : chosen[j] = payload => j <= i

\* The state after the committed entries up to n.
StateAt(n) ==
  [last_applied |-> n, last_membership |-> LastOf("Membership", n), decision |-> LastOf("Normal", n)]

HasNormal(from, to) == \E i \in from .. to : chosen[i] = "Normal"

\* Mutant of AfterApply: the decision of the last entry only.
AfterApplyLastOnly(c) ==
  [last_applied |-> c,
   last_membership |-> IF LastOf("Membership", c) > sm.last_applied
                         THEN LastOf("Membership", c) ELSE sm.last_membership,
   decision |-> IF chosen[c] = "Normal" THEN c ELSE sm.decision]

\* The loop over the entries after last_applied, up to c.
AfterApply(c) ==
  [last_applied |-> c,
   last_membership |-> IF LastOf("Membership", c) > sm.last_applied
                         THEN LastOf("Membership", c) ELSE sm.last_membership,
   decision |-> IF HasNormal(sm.last_applied + 1, c) THEN LastOf("Normal", c) ELSE sm.decision]

apply(c) ==
  /\ phase # "failed"
  /\ sm_op = Idle
  /\ c > sm.last_applied
  /\ phase = "start" => sm.last_applied + 1 .. c \subseteq DOMAIN log.log
  /\ sm' = AfterApply(c)
  /\ sm_op' = AtRename(IF HasNormal(sm.last_applied + 1, c) THEN "decide" ELSE "apply")
  /\ UNCHANGED <<log, snapshot, shared, files, log_op, build, engine, chosen, ahead, promises, faults>>

\* A snapshot another node built after applying the entries up to s, once
\* conflicting entries are truncated.
install_snapshot(s) ==
  /\ phase = "run"
  /\ sm_op = Idle
  /\ ready <= sm.last_applied
  /\ s > Committed
  /\ \A i \in DOMAIN log.log : i <= s => log.log[i] = chosen[i]
  /\ sm' = StateAt(s)
  /\ snapshot' = StateAt(s)
  /\ sm_op' = AtRename("install")
  /\ UNCHANGED <<log, shared, files, log_op, build, engine, chosen, ahead, promises, faults>>

\* Mutant of Publishes: apply does not notice that it changed the decision.
PublishesInstalledOnly == sm_op.op = "install"

Publishes == sm_op.op \in {"decide", "install"}

\* The end of apply or install_snapshot; what a snapshot covers is purged.
SmDone ==
  /\ sm_op.at = "publish"
  /\ shared' = IF Publishes THEN sm.decision ELSE shared
  /\ sm_op' = Idle
  /\ purge_upto' = IF sm_op.op = "install" THEN Larger(purge_upto, sm.last_applied) ELSE purge_upto
  /\ UNCHANGED <<log, sm, snapshot, files, log_op, build, phase, ready, chosen, ahead, promises, faults>>

\* build_snapshot copies the memory, and stores and returns the copy; with
\* max_in_snapshot_log_to_keep = 0 openraft then purges up to it. openraft runs
\* it in a task of its own, and apply has given up its lock before it persists:
\* the copy may be of a state that is on its way to the disk.
BuildRead ==
  /\ phase = "run"
  /\ build = None
  /\ sm.last_applied > 0
  /\ build' = sm
  /\ ahead' = IF ahead = "no" /\ sm_op.at \in {"rename", "fsync"} THEN "now" ELSE ahead
  /\ UNCHANGED <<store, files, log_op, sm_op, engine, chosen, promises, faults>>

BuildDone ==
  /\ phase = "run"
  /\ build # None
  /\ snapshot' = build
  /\ purge_upto' = Larger(purge_upto, build.last_applied)
  /\ build' = None
  /\ UNCHANGED <<log, sm, shared, files, log_op, sm_op, phase, ready, chosen, ahead, promises, faults>>

-----------------------------------------------------------------------------
(* Power loss or a killed process, open, and openraft's start.             *)

\* load reads each file; open publishes the decision the file holds.
Reopened(l, s) ==
  log' = l /\ sm' = s /\ shared' = s.decision

\* A rename whose directory is not synced yet may or may not survive. A
\* node that a failed write has stopped is restarted at no further fault.
Crash(l, s) ==
  /\ phase # "failed" => May("crash")
  /\ faults' = IF phase = "failed" THEN faults ELSE faults + 1
  /\ Reopened(l, s)
  /\ file' = [log |-> l, sm |-> s]
  /\ disk' = file'
  /\ snapshot' = None
  /\ log_op' = Idle /\ sm_op' = Idle /\ build' = None
  /\ phase' = "start"
  /\ ready' = l.committed
  /\ purge_upto' = l.last_purged
  /\ ahead' = IF ahead = "now" THEN "lost" ELSE ahead
  /\ UNCHANGED <<chosen, promises>>

\* openraft first applies again what is committed and not applied (apply),
\* then drops a log that ends before the state machine,
StartPurge ==
  /\ phase = "start"
  /\ log_op = Idle /\ sm_op = Idle
  /\ ready <= sm.last_applied
  /\ LastLog < sm.last_applied
  /\ LogBegins("purge", Purged(sm.last_applied))
  /\ UNCHANGED acked

\* and builds the snapshot again if the log was purged.
StartDone ==
  /\ phase = "start"
  /\ log_op = Idle /\ sm_op = Idle
  /\ ready <= sm.last_applied
  /\ LastLog >= sm.last_applied
  /\ snapshot' = IF log.last_purged > 0 THEN sm ELSE None
  /\ phase' = "run"
  /\ UNCHANGED <<log, sm, shared, files, ops, ready, purge_upto, chosen, ahead, promises, faults>>

\* The cluster commits one more entry.
Choose(payload) ==
  /\ Len(chosen) < MaxIndex
  /\ chosen' = Append(chosen, payload)
  /\ UNCHANGED <<store, files, ops, engine, promises, faults, ahead>>

-----------------------------------------------------------------------------
Batches == UNION {[1 .. n -> Payload] : n \in 1 .. MaxBatch}

LogStep ==
  \/ LogRename \/ LogDone
  \/ purge
  \/ StartPurge

SmStep ==
  \/ \E c \in 1 .. ready : apply(c)
  \/ SmRename \/ SmFsync \/ SmDone

Next ==
  \/ \E v \in 1 .. MaxVote : save_vote(v)
  \/ \E c \in 1 .. Len(chosen) : save_committed(c)
  \/ \E entries \in Batches : append(entries)
  \/ \E i \in Index : truncate(i)
  \/ LogStep
  \/ SmStep
  \/ \E s \in 1 .. Len(chosen) : install_snapshot(s)
  \/ BuildRead \/ BuildDone
  \/ LogFails \/ SmFails
  \/ \E l \in {file.log, disk.log}, s \in {file.sm, disk.sm} : Crash(l, s)
  \/ StartDone
  \/ \E payload \in Payload : Choose(payload)

Spec == Init /\ [][Next]_vars

\* Disk writes end and openraft's tasks are scheduled; nothing is assumed of
\* the cluster.
FairSpec == Spec /\ WF_vars(LogStep) /\ WF_vars(SmStep) /\ WF_vars(StartDone)

-----------------------------------------------------------------------------
Entries == UNION {[S -> Payload] : S \in SUBSET Index}
LogState == [vote : 0 .. MaxVote, last_purged : 0 .. MaxIndex, committed : 0 .. MaxIndex, log : Entries]
SmState == [last_applied : 0 .. MaxIndex, last_membership : 0 .. MaxIndex, decision : 0 .. MaxIndex]
LogOp == [op : {"vote", "committed", "append", "truncate", "purge"}, at : {"rename", "fsync"}]
SmOp == [op : {"apply", "decide", "install"}, at : {"rename", "fsync", "publish"}]
NonePurged(l) == \A i \in DOMAIN l.log : i > l.last_purged

(* Types; and no file ever keeps an entry at or below its last_purged.     *)
TypeOK ==
  /\ log \in LogState /\ sm \in SmState
  /\ file \in [log : LogState, sm : SmState] /\ disk \in [log : LogState, sm : SmState]
  /\ NonePurged(log) /\ NonePurged(file.log) /\ NonePurged(disk.log)
  /\ snapshot \in SmState \cup {None} /\ build \in SmState \cup {None}
  /\ shared \in 0 .. MaxIndex
  /\ log_op \in {Idle} \cup LogOp
  /\ sm_op \in {Idle} \cup SmOp
  /\ phase \in {"start", "run", "failed"}
  /\ ready \in 0 .. MaxIndex /\ purge_upto \in 0 .. MaxIndex
  /\ chosen \in Seq(Payload) /\ Len(chosen) <= MaxIndex
  /\ acked \in Entries
  /\ voted \in 0 .. MaxVote
  /\ faults \in 0 .. MaxFaults
  /\ ahead \in {"no", "now", "lost"}

LogFiles == {file.log, disk.log}
SmFiles == {file.sm, disk.sm}

(* "an entry acknowledged as durable survives power loss" (README.md):     *)
(* whichever renames survive, a vote that was saved is in the log file,    *)
(* and an entry whose append has called back is there or its effect is in  *)
(* the state machine file. The entries are exempt where a builder has read *)
(* the state machine between an apply and its persist: the log may then be *)
(* purged, durably, up to entries the state machine file does not have.    *)
AcknowledgedSurvives ==
  \A l \in LogFiles :
    /\ l.vote >= voted
    /\ ahead = "no" => \A s \in SmFiles, i \in DOMAIN acked :
         \/ i \in DOMAIN l.log /\ l.log[i] = acked[i]
         \/ i <= s.last_applied

(* Whichever renames survive, the two files fit together: nothing is       *)
(* missing between what the state machine file covers and what the log     *)
(* file starts with, and the committed entries can be applied again. That  *)
(* is so from the moment the state a builder has read is on disk, and for  *)
(* good unless power was lost before.                                      *)
FilesFit ==
  ahead = "no" => \A l \in LogFiles, s \in SmFiles :
    /\ l.last_purged <= s.last_applied
    /\ s.last_applied + 1 .. l.committed \subseteq DOMAIN l.log

(* What the supervisor may act on is the outcome of the committed entries: *)
(* the decision a power loss would bring back is never older than the      *)
(* published one, and both are the last decision of a committed prefix.    *)
PublishedIsDurable ==
  /\ \A s \in SmFiles : s = StateAt(s.last_applied) /\ s.decision >= shared
  /\ \E n \in 0 .. sm.last_applied : shared = StateAt(n).decision

(* A decision this node has saved as committed reaches the supervisor,     *)
(* even if power is lost before or while the state machine takes it; a     *)
(* node that a failed write has stopped takes it once it is restarted, and *)
(* so does any but one whose files no longer fit (FilesFit).               *)
DecisionsReachSupervisor ==
  []<>(phase # "failed") /\ [](ahead # "lost") =>
    \A d \in Index : ready >= d /\ chosen[d] = "Normal" ~> shared >= d
=============================================================================
