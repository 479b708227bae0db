---------------------------- MODULE ScriptProofs ----------------------------
(***************************************************************************)
(* For any number of scripts at once and any faults, a failing stop        *)
(* included: rejoin.sh leaves a running Postgres its files, leaves no mark *)
(* behind it, and is not cut off by the entry point's monitor.             *)
(***************************************************************************)
EXTENDS Rejoin, TLAPS

-----------------------------------------------------------------------------
Places ==
  {"none", "begin", "stop", "rewind", "rewinding", "remove", "clone", "cloning", "finish",
   "start", "exit"}

(* The steps between the stop of Postgres and its start.                   *)
Between == {"rewind", "rewinding", "remove", "clone", "cloning", "finish", "start"}

(* The steps that are reached only over a Postgres that is stopped or has  *)
(* lost its pid file.                                                      *)
Unserved == {"rewinding", "clone", "cloning", "finish", "start"}

RejoinTypes ==
  /\ pg \in {"up", "down", "orphan"}
  /\ script \in [Slots -> Places]
  /\ data \in Contents
  /\ mark \in BOOLEAN /\ disturbed \in BOOLEAN /\ overlapped \in BOOLEAN
  /\ unstopped \in BOOLEAN /\ cut_short \in BOOLEAN

(* Scripts that do not overlap: there is one at most, Postgres is down     *)
(* from its stop to its start, so that nothing running is disturbed unless *)
(* the stop has failed, and the mark is there as long as it works.         *)
Untouched == pg # "orphan" /\ ~disturbed /\ \A i \in Slots : script[i] \in Between => pg = "down"

OneAtATime ==
  ~overlapped =>
    /\ ~unstopped => Untouched
    /\ \A i, j \in Slots : script[i] # "none" /\ script[j] # "none" => i = j
    /\ \A i \in Slots : Working(i) => mark
    /\ \A i \in Slots : script[i] \in Unserved => pg # "up"
    /\ pg = "up" => data \in Startable

RejoinInv == RejoinTypes /\ OneAtATime /\ NoStaleMark

(* A node begins as a running primary without a script.                    *)
LEMMA InitRejoin == Init => RejoinInv
  BY DEF Init, RejoinInv, RejoinTypes, OneAtATime, NoStaleMark, Places, Between, Working,
         Untouched, Unserved, Contents, Startable

(* One step of a script: where it goes, and what the others keep.          *)
LEMMA Moves ==
  ASSUME RejoinTypes, NEW i \in Slots, NEW step \in Places, Goto(i, step)
  PROVE  /\ script' \in [Slots -> Places]
         /\ script'[i] = step
         /\ \A j \in Slots : j # i => script'[j] = script[j]
  BY DEF RejoinTypes, Goto

(* A step of a script after its start keeps the scripts apart.             *)
LEMMA StepRejoin ==
  ASSUME RejoinInv, NEW i \in Slots, Step(i)
  PROVE  RejoinInv'
<1>t. RejoinTypes /\ OneAtATime /\ NoStaleMark  BY DEF RejoinInv
<1>m. ASSUME NEW step \in Places \ {"none", "begin"}, Goto(i, step), script[i] # "none",
             UNCHANGED <<overlapped, cut_short>>, unstopped => unstopped',
             mark' \in BOOLEAN, disturbed' \in BOOLEAN, unstopped' \in BOOLEAN,
             pg' \in {"up", "down", "orphan"}, data' \in Contents,
             mark' = mark \/ (mark' = TRUE /\ step # "exit"),
             ~overlapped => /\ ~unstopped' => /\ pg' # "orphan" /\ ~disturbed'
                                              /\ step \in Between => pg' = "down"
                            /\ step # "exit" => mark'
                            /\ step \in Unserved => pg' # "up"
                            /\ pg' = "up" => data' \in Startable
      PROVE  RejoinInv'
  <2>a. /\ script' \in [Slots -> Places] /\ script'[i] = step
        /\ \A j \in Slots : j # i => script'[j] = script[j]
    BY <1>t, <1>m, Moves
  <2>b. RejoinTypes'  BY <1>t, <1>m, <2>a DEF RejoinTypes
  <2>c. ASSUME ~overlapped, NEW j \in Slots, j # i PROVE script'[j] = "none"
    BY <1>t, <1>m, <2>a, <2>c DEF OneAtATime
  <2>d. OneAtATime'
    BY <1>t, <1>m, <2>a, <2>c DEF OneAtATime, Untouched, Working, Between, Unserved
  <2>e. NoStaleMark'  BY <1>m, <2>a DEF NoStaleMark
  <2>q. QED  BY <2>b, <2>d, <2>e DEF RejoinInv
<1> USE DEF At, Disturb, RejoinTypes
<1>begin. CASE Begin(i)
  BY <1>t, <1>m, <1>begin DEF Begin, OneAtATime, Untouched, Places, Between, Unserved, history
<1>working. /\ ~overlapped /\ ~unstopped =>
                 pg # "orphan" /\ ~disturbed /\ (script[i] \in Between => pg = "down")
            /\ ~overlapped /\ script[i] \in Between \cup {"stop"} => mark
            /\ ~overlapped /\ script[i] \in Unserved => pg # "up"
            /\ ~overlapped /\ pg = "up" => data \in Startable
  BY <1>t DEF OneAtATime, Untouched, Between, Unserved, Working
<1>stop. CASE Stop(i)
  <2>a. ~overlapped => mark /\ pg' # "up" /\ (~unstopped => pg' = "down")
    BY <1>t, <1>stop, <1>working DEF Stop, Stopped
  <2>q. QED
    BY <1>t, <1>m, <1>stop, <1>working, <2>a DEF Stop, Stopped, Places, Between, Unserved, history
<1>nostop. CASE StopFails(i)
  BY <1>t, <1>m, <1>nostop, <1>working DEF StopFails, Places, Between, Unserved
<1>rewind. CASE Rewind(i)
  BY <1>t, <1>m, <1>rewind, <1>working DEF Rewind, Places, Between, Unserved, Contents, history
<1>fails. CASE RewindFails(i)
  BY <1>t, <1>m, <1>fails, <1>working DEF RewindFails, Places, Between, Unserved, history
<1>rewound. CASE Rewound(i) \/ Cloned(i)
  BY <1>t, <1>m, <1>rewound, <1>working
  DEF Rewound, Cloned, Places, Between, Unserved, Contents, history
<1>remove. CASE Remove(i)
  BY <1>t, <1>m, <1>remove, <1>working DEF Remove, Places, Between, Unserved, Contents, history
<1>clone. CASE Clone(i)
  BY <1>t, <1>m, <1>clone, <1>working DEF Clone, Places, Between, Unserved, Contents, history
<1>nocopy. CASE CloneFails(i)
  BY <1>t, <1>m, <1>nocopy, <1>working
  DEF CloneFails, Places, Between, Unserved, Contents, history
<1>finish. CASE Finish(i)
  BY <1>t, <1>m, <1>finish, <1>working
  DEF Finish, Signalled, Places, Between, Unserved, Contents, history
<1>start. CASE Start(i)
  BY <1>t, <1>m, <1>start, <1>working
  DEF Start, Places, Between, Unserved, Contents, Startable, history
<1>exit. CASE Exit(i)
  <2>a. /\ script' \in [Slots -> Places] /\ script'[i] = "none"
        /\ \A j \in Slots : j # i => script'[j] = script[j]
    BY <1>t, <1>exit, Moves DEF Exit, Places
  <2>b. RejoinTypes'  BY <1>t, <1>exit, <2>a DEF Exit, history
  <2>c. ASSUME ~overlapped, NEW j \in Slots PROVE script'[j] = "none"
    BY <1>t, <1>exit, <2>a, <2>c DEF Exit, OneAtATime
  <2>d. OneAtATime'
    BY <1>t, <1>exit, <2>c DEF Exit, OneAtATime, Untouched, Working, Between, Unserved, history
  <2>e. NoStaleMark'  BY <1>exit DEF Exit, NoStaleMark
  <2>q. QED  BY <2>b, <2>d, <2>e DEF RejoinInv
<1>q. QED
  BY <1>begin, <1>stop, <1>nostop, <1>rewind, <1>fails, <1>rewound, <1>remove, <1>clone, <1>nocopy, <1>finish,
     <1>start, <1>exit
  DEF Step

(* A script that starts beside another overlaps it.                        *)
LEMMA SpawnRejoin ==
  ASSUME RejoinInv, NEW i \in Slots, Spawn(i)
  PROVE  RejoinInv'
<1>t. RejoinTypes /\ OneAtATime /\ NoStaleMark  BY DEF RejoinInv
<1>a. /\ script' \in [Slots -> Places] /\ script'[i] = "begin"
      /\ \A j \in Slots : j # i => script'[j] = script[j]
  BY <1>t, Moves DEF Spawn, Places
<1>u. /\ overlapped' = (overlapped \/ \E j \in Slots : script[j] # "none") /\ script[i] = "none"
      /\ UNCHANGED <<pg, data, mark, unstopped, cut_short, disturbed>>
  BY DEF Spawn, At
<1>b. RejoinTypes'  BY <1>t, <1>a, <1>u DEF RejoinTypes
<1>d. OneAtATime'  BY <1>t, <1>a, <1>u DEF OneAtATime, Untouched, Working, Between, Unserved
<1>e. NoStaleMark'  BY <1>t, <1>a, <1>u DEF NoStaleMark
<1>q. QED  BY <1>b, <1>d, <1>e DEF RejoinInv

(* The entry point and the faults.                                         *)
LEMMA MonitorRejoin ==
  ASSUME RejoinInv,
         \/ SeesDown \/ SeesNoRejoin \/ Recheck \/ SeesRejoin \/ GivesUp \/ Restart
         \/ Kill \/ Die \/ Notice,
         monitor = "gone" => \A i \in Slots : script[i] = "none"
  PROVE  RejoinInv'
<1>t. RejoinTypes /\ OneAtATime /\ NoStaleMark  BY DEF RejoinInv
<1>leave. CASE Leave
  <2>a. RejoinTypes'  BY <1>t, <1>leave DEF Leave, RejoinTypes, Places
  <2>b. OneAtATime'
    BY <1>t, <1>leave DEF Leave, OneAtATime, Untouched, Between, Unserved, Working
  <2>c. NoStaleMark'  BY <1>t, <1>leave DEF Leave, NoStaleMark
  <2>q. QED  BY <2>a, <2>b, <2>c DEF RejoinInv
<1>restart. CASE Restart
  <2>u. /\ pg' \in {"up", "down"} /\ (pg' = "up" => data' \in Startable) /\ data' \in Contents
        /\ UNCHANGED <<mark, script, overlapped, unstopped, cut_short, disturbed>>
    BY <1>t, <1>restart DEF Restart, RejoinTypes, Contents, history
  <2>s. \A i \in Slots : script[i] = "none"  BY <1>restart DEF Restart
  <2>a. RejoinTypes'  BY <1>t, <2>u DEF RejoinTypes
  <2>b. OneAtATime'
    BY <1>t, <2>u, <2>s DEF OneAtATime, Untouched, Between, Unserved, Working
  <2>c. NoStaleMark'  BY <1>t, <2>u DEF NoStaleMark
  <2>q. QED  BY <2>a, <2>b, <2>c DEF RejoinInv
<1>rest. CASE SeesDown \/ SeesNoRejoin \/ Recheck \/ SeesRejoin \/ Die \/ Notice
  <2>u. /\ pg' \in {pg, "down"}
        /\ UNCHANGED <<data, mark, script, overlapped, unstopped, cut_short, disturbed>>
    BY <1>rest DEF SeesDown, SeesNoRejoin, Recheck, SeesRejoin, Die, Notice, history
  <2>a. RejoinTypes'  BY <1>t, <2>u DEF RejoinTypes
  <2>b. OneAtATime'
    BY <1>t, <2>u DEF OneAtATime, Untouched, Between, Unserved, Working
  <2>c. NoStaleMark'  BY <1>t, <2>u DEF NoStaleMark
  <2>q. QED  BY <2>a, <2>b, <2>c DEF RejoinInv
<1>q. QED  BY <1>leave, <1>restart, <1>rest DEF GivesUp, Kill

(* With the container every script ends, and none starts without it.       *)
NoneOutside == monitor = "gone" => \A i \in Slots : script[i] = "none"

(* Every step keeps that so.                                               *)
LEMMA StepOutside ==
  ASSUME RejoinInv, NoneOutside, [Next]_vars
  PROVE  NoneOutside'
<1>a. ASSUME NEW i \in Slots, Spawn(i) \/ Step(i) PROVE NoneOutside'
  <2>a. monitor # "gone" /\ monitor' = monitor
    BY <1>a DEF Spawn, Step, Begin, Stop, StopFails, Rewind, Rewound, RewindFails, Remove, Clone, Cloned,
                CloneFails, Finish, Start, Exit, At
  <2>q. QED  BY <2>a DEF NoneOutside
<1>b. CASE GivesUp \/ Kill  BY <1>b DEF GivesUp, Kill, Leave, NoneOutside
<1>c. CASE SeesDown \/ SeesNoRejoin \/ Recheck \/ SeesRejoin \/ Restart \/ Die \/ Notice \/ UNCHANGED vars
  BY <1>c DEF SeesDown, SeesNoRejoin, Recheck, SeesRejoin, Restart, Die, Notice, NoneOutside, vars
<1>q. QED  BY <1>a, <1>b, <1>c DEF Next

(* The inductive invariant holds throughout.                               *)
THEOREM RejoinInvariant == Spec => [](RejoinInv /\ NoneOutside)
<1>i. Init => NoneOutside  BY DEF Init, NoneOutside
<1>s. RejoinInv /\ NoneOutside /\ [Next]_vars => RejoinInv' /\ NoneOutside'
  <2> SUFFICES ASSUME RejoinInv, NoneOutside, [Next]_vars PROVE RejoinInv'  BY StepOutside
  <2>u. CASE UNCHANGED vars
    BY <2>u DEF vars, history, RejoinInv, RejoinTypes, OneAtATime, Untouched, NoStaleMark, Working
  <2>n. CASE Next
    BY <2>n, SpawnRejoin, StepRejoin, MonitorRejoin DEF Next, NoneOutside
  <2>q. QED  BY <2>u, <2>n
<1>q. QED  BY <1>i, <1>s, InitRejoin, PTL DEF Spec

(* Scripts that do not overlap change the files of a Postgres that is      *)
(* running only when their own stop has failed, and never leave one that   *)
(* finds its pid file with a directory it could not have started from.     *)
THEOREM RejoinAtRest == Spec => []FilesAtRest
<1>a. RejoinInv => FilesAtRest  BY DEF RejoinInv, OneAtATime, Untouched, FilesAtRest
<1>q. QED  BY <1>a, RejoinInvariant, PTL

(* However scripts overlap and end, the trap of the last one to end leaves *)
(* no mark, unless the container ends in the middle of one.                *)
THEOREM RejoinMark == Spec => []NoStaleMark
<1>a. RejoinInv => NoStaleMark  BY DEF RejoinInv
<1>q. QED  BY <1>a, RejoinInvariant, PTL

(* The monitor of the entry point does not end the container in the middle *)
(* of a script that has the mark for itself.                               *)
THEOREM RejoinUndisturbed == Spec => NoExitDuringRejoin
<1>a. RejoinInv => [GivesUp /\ ~overlapped => \A i \in Slots : ~Working(i)]_vars
  BY DEF RejoinInv, OneAtATime, GivesUp
<1>q. QED  BY <1>a, RejoinInvariant, PTL DEF NoExitDuringRejoin

=============================================================================
