------------------------------- MODULE Rejoin -------------------------------
(***************************************************************************)
(* How a deposed primary becomes a standby: scripts/rejoin.sh step by step *)
(* (several at once when decisions follow each other), the mark file it    *)
(* holds, and docker/entrypoint.sh, which watches Postgres and the mark,   *)
(* ends the container, and seeds or clones a data directory when it starts *)
(* without one.                                                            *)
(***************************************************************************)
EXTENDS Integers

CONSTANTS
  Slots,    \* the scripts that may run at once
  Seed,     \* is this node 1, which seeds with initdb
  Faults,   \* what may befall the node
  MaxFaults \* bound on how often

ASSUME RejoinAssumption ==
  Seed \in BOOLEAN /\ Faults \subseteq {"die", "kill", "stop"} /\ MaxFaults \in Nat

VARIABLES
  pg,         \* Postgres: "up", "down", or "orphan": runs without its files
  data,       \* what the data directory holds
  mark,       \* does the mark file exist
  script,     \* where each script is
  monitor,    \* where the entry point's loop is, or "gone"
  disturbed,  \* history: a script has changed the files of a running Postgres
  overlapped, \* history: a script was started while another was running
  unstopped,  \* history: a script went on although its stop had failed
  cut_short,  \* history: the container ended in the middle of a script
  faults

history == <<overlapped, unstopped, cut_short>>
vars == <<pg, data, mark, script, monitor, history, disturbed, faults>>

-----------------------------------------------------------------------------
Contents ==
  {"primary",   \* a primary's, which may have diverged
   "seeded",    \* a new cluster's, made by initdb
   "torn",      \* half rewound or half copied; has a PG_VERSION
   "rewound",   \* rewound or cloned, without standby.signal
   "standby",
   "none"}
Startable == Contents \ {"torn", "none"}

Init ==
  /\ pg = "up" /\ data = "primary" /\ mark = FALSE
  /\ script = [i \in Slots |-> "none"]
  /\ monitor = "watch"
  /\ disturbed = FALSE /\ overlapped = FALSE /\ unstopped = FALSE /\ cut_short = FALSE
  /\ faults = 0

At(i, step) == monitor # "gone" /\ script[i] = step
Goto(i, step) == script' = [script EXCEPT ![i] = step]
Disturb == disturbed' = (disturbed \/ pg # "down")
Fault(f) ==
  /\ f \in Faults /\ faults < MaxFaults
  /\ faults' = faults + 1

\* The worker runs inside Postgres; every new decision lets it spawn again.
Spawn(i) ==
  /\ pg # "down" /\ data # "standby"
  /\ At(i, "none")
  /\ Goto(i, "begin")
  /\ overlapped' = (overlapped \/ \E j \in Slots : script[j] # "none")
  /\ UNCHANGED <<pg, data, mark, monitor, unstopped, cut_short, disturbed, faults>>

-----------------------------------------------------------------------------
(* rejoin.sh.                                                              *)

\* Mutant of Begin: the mark is not where the monitor looks for it.
BeginUnmarked(i) ==
  /\ At(i, "begin") /\ Goto(i, "stop")
  /\ UNCHANGED <<pg, data, mark, monitor, history, disturbed, faults>>

Begin(i) ==
  /\ At(i, "begin") /\ Goto(i, "stop")
  /\ mark' = TRUE
  /\ UNCHANGED <<pg, data, monitor, history, disturbed, faults>>

\* Mutant of Stopped: the stop is not waited for.
StoppedLater == pg

\* pg_ctl finds the server by the pid file in its directory.
Stopped == IF pg = "up" THEN "down" ELSE pg

Stop(i) ==
  /\ At(i, "stop") /\ Goto(i, "rewind")
  /\ pg' = Stopped
  /\ UNCHANGED <<data, mark, monitor, history, disturbed, faults>>

\* "|| true": when the stop fails, as it does when Postgres has not ended after
\* a minute, the script goes on beside it.
StopFails(i) ==
  /\ Fault("stop")
  /\ At(i, "stop") /\ Goto(i, "rewind")
  /\ pg = "up"
  /\ unstopped' = TRUE
  /\ UNCHANGED <<pg, data, mark, monitor, overlapped, cut_short, disturbed>>

\* pg_rewind refuses a running server, a torn directory and another cluster.
Rewind(i) ==
  /\ At(i, "rewind")
  /\ pg # "up" /\ data \in {"primary", "rewound", "standby"}
  /\ Goto(i, "rewinding")
  /\ data' = "torn"
  /\ UNCHANGED <<pg, mark, monitor, history, disturbed, faults>>

Rewound(i) ==
  /\ At(i, "rewinding") /\ Goto(i, "finish")
  /\ data' = "rewound"
  /\ Disturb
  /\ UNCHANGED <<pg, mark, monitor, history, faults>>

RewindFails(i) ==
  /\ At(i, "rewind") \/ At(i, "rewinding")
  /\ Goto(i, "remove")
  /\ UNCHANGED <<pg, data, mark, monitor, history, disturbed, faults>>

Remove(i) ==
  /\ At(i, "remove") /\ Goto(i, "clone")
  /\ data' = "none"
  /\ pg' = IF pg = "up" THEN "orphan" ELSE pg
  /\ Disturb
  /\ UNCHANGED <<mark, monitor, history, faults>>

\* pg_basebackup refuses a directory that is not empty.
Clone(i) ==
  /\ At(i, "clone")
  /\ data = "none"
  /\ Goto(i, "cloning")
  /\ data' = "torn"
  /\ UNCHANGED <<pg, mark, monitor, history, disturbed, faults>>

Cloned(i) ==
  /\ At(i, "cloning") /\ Goto(i, "finish")
  /\ data' = "rewound"
  /\ Disturb
  /\ UNCHANGED <<pg, mark, monitor, history, faults>>

\* When it fails half way it removes what it has copied.
CloneFails(i) ==
  /\ At(i, "clone") \/ At(i, "cloning")
  /\ Goto(i, "exit")
  /\ data' = IF script[i] = "cloning" THEN "none" ELSE data
  /\ UNCHANGED <<pg, mark, monitor, history, disturbed, faults>>

\* Mutant of Signalled: standby.signal is left out.
SignalledNot == data

Signalled == IF data = "none" THEN "none" ELSE IF data = "torn" THEN "torn" ELSE "standby"

Finish(i) ==
  /\ At(i, "finish") /\ Goto(i, "start")
  /\ data' = Signalled
  /\ UNCHANGED <<pg, mark, monitor, history, disturbed, faults>>

Start(i) ==
  /\ At(i, "start") /\ Goto(i, "exit")
  /\ pg' = IF pg = "down" /\ data \in Startable THEN "up" ELSE pg
  /\ UNCHANGED <<data, mark, monitor, history, disturbed, faults>>

\* Mutant of Exit: an exit without the trap.
ExitMarked(i) ==
  /\ At(i, "exit") /\ Goto(i, "none")
  /\ UNCHANGED <<pg, data, mark, monitor, history, disturbed, faults>>

\* trap 'rm -f "$REJOIN_MARK"' EXIT.
Exit(i) ==
  /\ At(i, "exit") /\ Goto(i, "none")
  /\ mark' = FALSE
  /\ UNCHANGED <<pg, data, monitor, history, disturbed, faults>>

-----------------------------------------------------------------------------
(* entrypoint.sh.                                                          *)

\* Postgres and the mark are looked at one after the other, and both once
\* more five seconds later.
SeesDown ==
  /\ monitor = "watch" /\ pg # "up"
  /\ monitor' = "down"
  /\ UNCHANGED <<pg, data, mark, script, history, disturbed, faults>>

SeesNoRejoin ==
  /\ monitor = "down"
  /\ monitor' = IF mark THEN "watch" ELSE "recheck"
  /\ UNCHANGED <<pg, data, mark, script, history, disturbed, faults>>

Recheck ==
  /\ monitor = "recheck"
  /\ monitor' = IF pg = "up" THEN "watch" ELSE "still_down"
  /\ UNCHANGED <<pg, data, mark, script, history, disturbed, faults>>

SeesRejoin ==
  /\ monitor = "still_down" /\ mark
  /\ monitor' = "watch"
  /\ UNCHANGED <<pg, data, mark, script, history, disturbed, faults>>

\* With the first process of the container every other ends, untrapped.
Leave ==
  /\ monitor' = "gone"
  /\ pg' = "down"
  /\ script' = [i \in Slots |-> "none"]
  /\ cut_short' = (cut_short \/ \E i \in Slots : script[i] \notin {"none", "begin"})
  /\ UNCHANGED <<data, mark, overlapped, unstopped, disturbed>>

GivesUp ==
  /\ monitor = "still_down" /\ ~mark
  /\ Leave /\ UNCHANGED faults

Kill ==
  /\ Fault("kill")
  /\ monitor # "gone"
  /\ Leave

Die ==
  /\ Fault("die")
  /\ pg # "down" /\ pg' = "down"
  /\ UNCHANGED <<data, mark, script, monitor, history, disturbed>>

\* A postmaster whose directory is gone ends itself within a minute.
Notice ==
  /\ pg = "orphan" /\ pg' = "down"
  /\ UNCHANGED <<data, mark, script, monitor, history, disturbed, faults>>

\* The restart policy starts the container again; files outlive it.
Restart ==
  /\ monitor = "gone"
  /\ monitor' = "watch"
  /\ data' = IF data # "none" THEN data ELSE IF Seed THEN "seeded" ELSE "standby"
  /\ pg' = IF data' \in Startable THEN "up" ELSE "down"
  /\ UNCHANGED <<mark, script, history, disturbed, faults>>

Step(i) ==
  \/ Begin(i) \/ Stop(i) \/ StopFails(i) \/ Rewind(i) \/ Rewound(i) \/ RewindFails(i) \/ Remove(i)
  \/ Clone(i) \/ Cloned(i) \/ CloneFails(i) \/ Finish(i) \/ Start(i) \/ Exit(i)

Next ==
  \/ \E i \in Slots : Spawn(i) \/ Step(i)
  \/ SeesDown \/ SeesNoRejoin \/ Recheck \/ SeesRejoin \/ GivesUp \/ Restart
  \/ Kill \/ Die \/ Notice

Spec == Init /\ [][Next]_vars

\* Processes run, and a copy that is tried again and again succeeds some time.
FairSpec ==
  /\ Spec
  /\ WF_vars(SeesDown) /\ WF_vars(SeesNoRejoin) /\ WF_vars(Recheck) /\ WF_vars(SeesRejoin)
  /\ WF_vars(GivesUp) /\ WF_vars(Restart) /\ WF_vars(Notice)
  /\ \A i \in Slots : WF_vars(Spawn(i)) /\ WF_vars(Step(i))
                      /\ SF_vars(Clone(i)) /\ SF_vars(Cloned(i))

-----------------------------------------------------------------------------
(* As long as scripts do not overlap, no script rewinds, removes or        *)
(* replaces the data directory of a Postgres that is running, unless its   *)
(* own stop has failed: then pg_rewind refuses, and rejoin.sh goes on to   *)
(* remove the files of a running server. Even so a Postgres that finds its *)
(* pid file never has a directory that is half copied or gone.             *)
FilesAtRest ==
  ~overlapped => /\ ~unstopped => ~disturbed
                 /\ pg = "up" => data \in Startable

(* The mark is there only while a script runs: a mark left behind would    *)
(* keep the monitor from ever recovering a Postgres that is down. However  *)
(* scripts overlap and end, only the end of the container in the middle of *)
(* one leaves it behind.                                                   *)
NoStaleMark == mark /\ ~cut_short => \E i \in Slots : script[i] \notin {"none", "begin"}

(* "postgres down and no rejoin in progress" (entrypoint.sh): the monitor  *)
(* ends the container only when no script is past its stop, unless scripts *)
(* overlap: the first to end takes the mark of the others along.           *)
Working(i) == script[i] \notin {"none", "begin", "exit"}
NoExitDuringRejoin == [][GivesUp /\ ~overlapped => \A i \in Slots : ~Working(i)]_vars

(* "exiting so the container restart policy can recover it"                *)
(* (entrypoint.sh): however often Postgres dies, the container is killed   *)
(* between scripts and copies fail, the node is a running standby in the   *)
(* end and stays one.                                                      *)
ComesBack == <>[](~overlapped /\ ~cut_short) => <>[](pg = "up" /\ data = "standby")
=============================================================================
