------------------------------ MODULE Startup -------------------------------
(***************************************************************************)
(* The life of the processes on one node that is a primary: Postgres, the  *)
(* background worker from its start to its loop (settings, their checks,   *)
(* the watchdog it spawns, the Raft port), and watchdog.sh processes with  *)
(* their lock and their count of missed answers. What a pass of the loop   *)
(* decides is Supervisor's.                                                *)
(***************************************************************************)
EXTENDS Integers, FiniteSets, Sequences

CONSTANTS
  Configs,   \* settings Postgres may be started with
  Bad,       \* an entry of a peer list that parse_peers cannot read
  Slots,     \* watchdog processes that may exist at once
  MaxMiss,   \* 20 in the script
  Every,     \* passes between two spawns of a watchdog; 50 in the loop
  Faults, MaxFaults

FaultKinds ==
  {"restart",  \* Postgres stops and is started again
   "stall",    \* Postgres does not answer psql for a while
   "crash",    \* the worker dies; Postgres starts another after 5 s
   "hang",     \* the worker makes no more passes
   "port",     \* another process holds the Raft port for a while
   "store"}    \* the Raft store cannot be opened, however often it is tried

ASSUME StartupAssumption ==
  /\ MaxMiss \in Nat \ {0} /\ Every \in Nat \ {0} /\ MaxFaults \in Nat
  /\ Faults \subseteq FaultKinds
  /\ Slots \subseteq Nat \ {0}

VARIABLES
  config, pg, answering, port_free, faults,
  worker,      \* where the background worker is
  ticks,       \* its passes, modulo Every
  fresh,       \* is the heartbeat younger than STALE_MS
  read_only,
  wd,          \* each watchdog process: its place, misses and last answer
  lock         \* which of them holds the lock, or 0

node == <<config, pg, answering, port_free, faults>>
vars == <<node, worker, ticks, fresh, read_only, wd, lock>>

-----------------------------------------------------------------------------
(* Settings.                                                               *)

parse_peers(spec) == SelectSeq(spec, LAMBDA entry : entry # Bad)
Ids(spec) == {parse_peers(spec)[i] : i \in 1 .. Len(parse_peers(spec))}
Duplicates(spec) == Cardinality(Ids(spec)) # Len(parse_peers(spec))

Unset == config.node_id = 0 \/ parse_peers(config.peers) = <<>>
config_errors ==
  \/ Duplicates(config.peers) \/ Duplicates(config.pg_addrs)
  \/ config.node_id \notin Ids(config.peers)
  \/ config.node_id \notin Ids(config.pg_addrs)
  \/ ~config.raft_dir

-----------------------------------------------------------------------------
Off == [at |-> "none", miss |-> 0, answer |-> FALSE]

Init ==
  /\ config \in Configs
  /\ pg = "up" /\ answering = TRUE /\ port_free = TRUE /\ faults = 0
  /\ worker = "starting" /\ ticks = 0 /\ fresh = FALSE
  /\ read_only \in BOOLEAN
  /\ wd = [i \in Slots |-> Off] /\ lock = 0

May(fault) == fault \in Faults /\ faults < MaxFaults /\ faults' = faults + 1

\* The main function up to the start of Raft.
Idle ==
  /\ worker = "starting"
  /\ Unset \/ config_errors
  /\ worker' = "idle"
  /\ UNCHANGED <<node, ticks, fresh, read_only, wd, lock>>

Spawned(i) ==
  /\ wd[i].at = "none"
  /\ wd' = IF config.watchdog THEN [wd EXCEPT ![i] = [Off EXCEPT !.at = "launch"]] ELSE wd

\* Mutant of Launched: the watchdog is left to the loop.
LaunchedLater(i) == UNCHANGED wd

Launched(i) == Spawned(i)

Configured(i) ==
  /\ worker = "starting"
  /\ ~Unset /\ ~config_errors
  /\ Launched(i)
  /\ worker' = "raft"
  /\ UNCHANGED <<node, ticks, fresh, read_only, lock>>

\* When the port cannot be bound the function returns, and a worker that
\* returns is not started again.
StartRaft ==
  /\ worker = "raft"
  /\ worker' = IF port_free THEN "running" ELSE "returned"
  /\ ticks' = 0
  /\ UNCHANGED <<node, fresh, read_only, wd, lock>>

\* The store is opened once the port is bound, and panics where it cannot be:
\* Postgres starts the worker again after 5 s.
Panic ==
  /\ "store" \in Faults
  /\ worker = "raft" /\ port_free
  /\ worker' = "crashed"
  /\ UNCHANGED <<node, ticks, fresh, read_only, wd, lock>>

\* Mutant of Respawned: the watchdog is spawned only at the start.
RespawnedNever(i) == UNCHANGED wd

Respawned(i) == IF ticks = Every - 1 THEN Spawned(i) ELSE UNCHANGED wd

\* The heartbeat is written, and the node fenced, unfenced or left as it is.
Pass(i) ==
  /\ worker = "running"
  /\ fresh' = TRUE
  /\ Respawned(i)
  /\ ticks' = (ticks + 1) % Every
  /\ read_only' \in BOOLEAN
  /\ UNCHANGED <<node, worker, lock>>

Age ==
  /\ worker # "running" /\ fresh
  /\ fresh' = FALSE
  /\ UNCHANGED <<node, worker, ticks, read_only, wd, lock>>

-----------------------------------------------------------------------------
(* watchdog.sh.                                                            *)

At(i, place) == wd[i].at = place
Goto(i, place) == wd' = [wd EXCEPT ![i].at = place]

Lock(i) ==
  /\ At(i, "launch")
  /\ IF lock = 0 THEN Goto(i, "sleep") /\ lock' = i
                 ELSE Goto(i, "none") /\ UNCHANGED lock
  /\ UNCHANGED <<node, worker, ticks, fresh, read_only>>

Reachable == pg = "up" /\ answering

\* pg_is_in_recovery is asked for; here it is always "f" when it comes.
Ask(i) ==
  /\ At(i, "sleep")
  /\ wd' = [wd EXCEPT ![i].at = "asked", ![i].answer = Reachable]
  /\ UNCHANGED <<node, worker, ticks, fresh, read_only, lock>>

Missed(i) ==
  IF wd[i].miss + 1 >= MaxMiss THEN Off ELSE [wd[i] EXCEPT !.at = "sleep", !.miss = @ + 1]

Miss(i) ==
  /\ At(i, "asked") /\ ~wd[i].answer
  /\ wd' = [wd EXCEPT ![i] = Missed(i)]
  /\ lock' = IF Missed(i) = Off THEN 0 ELSE lock
  /\ UNCHANGED <<node, worker, ticks, fresh, read_only>>

\* A fresh heartbeat, or a node that is read-only, ends the round.
Look(i) ==
  /\ At(i, "asked") /\ wd[i].answer
  /\ wd' = [wd EXCEPT ![i] = [Off EXCEPT !.at = IF fresh \/ read_only THEN "sleep" ELSE "fence"]]
  /\ UNCHANGED <<node, worker, ticks, fresh, read_only, lock>>

Fence(i) ==
  /\ At(i, "fence") /\ Goto(i, "sleep")
  /\ read_only' = (read_only \/ Reachable)
  /\ UNCHANGED <<node, worker, ticks, fresh, lock>>

-----------------------------------------------------------------------------
(* Faults, and what ends them.                                             *)

Stop ==
  /\ May("restart")
  /\ pg = "up" /\ pg' = "down" /\ worker' = "none"
  /\ UNCHANGED <<config, answering, port_free, ticks, fresh, read_only, wd, lock>>

\* Settings are read when Postgres starts, and only then.
Start ==
  /\ pg = "down" /\ pg' = "up" /\ worker' = "starting"
  /\ config' \in Configs
  /\ UNCHANGED <<answering, port_free, faults, ticks, fresh, read_only, wd, lock>>

Stall ==
  /\ May("stall")
  /\ answering /\ answering' = FALSE
  /\ UNCHANGED <<config, pg, port_free, worker, ticks, fresh, read_only, wd, lock>>

Answer ==
  /\ ~answering /\ answering' = TRUE
  /\ UNCHANGED <<config, pg, port_free, faults, worker, ticks, fresh, read_only, wd, lock>>

TakePort ==
  /\ May("port")
  /\ worker # "running" /\ port_free /\ port_free' = FALSE
  /\ UNCHANGED <<config, pg, answering, worker, ticks, fresh, read_only, wd, lock>>

FreePort ==
  /\ ~port_free /\ port_free' = TRUE
  /\ UNCHANGED <<config, pg, answering, faults, worker, ticks, fresh, read_only, wd, lock>>

Crash ==
  /\ May("crash")
  /\ worker \in {"running", "hung"} /\ worker' = "crashed"
  /\ UNCHANGED <<config, pg, answering, port_free, ticks, fresh, read_only, wd, lock>>

Again ==
  /\ worker = "crashed" /\ worker' = "starting"
  /\ UNCHANGED <<node, ticks, fresh, read_only, wd, lock>>

Hang ==
  /\ May("hang")
  /\ worker = "running" /\ worker' = "hung"
  /\ UNCHANGED <<config, pg, answering, port_free, ticks, fresh, read_only, wd, lock>>

-----------------------------------------------------------------------------
Main == Idle \/ StartRaft \/ Panic \/ \E i \in Slots : Configured(i)
Watch(i) == Lock(i) \/ Ask(i) \/ Miss(i) \/ Look(i) \/ Fence(i)

Next ==
  \/ Main \/ Age
  \/ \E i \in Slots : Pass(i) \/ Watch(i)
  \/ Stop \/ Start \/ Stall \/ Answer \/ TakePort \/ FreePort \/ Crash \/ Again \/ Hang

Spec == Init /\ [][Next]_vars

\* Processes run, time passes, and Postgres starts and answers again.
FairSpec ==
  /\ Spec
  /\ WF_vars(Main) /\ WF_vars(\E i \in Slots : Pass(i)) /\ WF_vars(Age) /\ WF_vars(Start) /\ WF_vars(Answer) /\ WF_vars(Again)
  /\ \A i \in Slots : WF_vars(Watch(i))

-----------------------------------------------------------------------------
(* A watchdog gives up when Postgres does not answer it for about 10 s:    *)
(* once Postgres answers again and the worker goes on, one is at work for  *)
(* good, whichever of the old one and its successors ends first.           *)
Tended == pg = "up" /\ answering /\ worker = "running" /\ config.watchdog
WatchedAgain == <>[]Tended => <>[](lock # 0)

(* "a control plane that is alive but hung is fenced, not trusted"         *)
(* (README.md:46): a configured primary whose worker hangs, has returned   *)
(* because Raft could not have its port, or panics at every start, does    *)
(* not stay writable, if Postgres has been up and has answered the         *)
(* watchdog in time.                                                       *)
Silent ==
  pg = "up" /\ worker \notin {"running", "idle"} /\ config.watchdog /\ ~read_only
SilentIsFenced == [](pg = "up" /\ answering) => []<>~Silent
=============================================================================
