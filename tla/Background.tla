------------------------------ MODULE Background ------------------------------
(***************************************************************************)
(* The child processes of the server and who collects their exit status    *)
(* (executor.py).  Three parties wait for children:                        *)
(*   - the thread that handles tool calls, one call at a time, for the     *)
(*     stages of the foreground pipeline it has launched;                  *)
(*   - the reaper thread, for the pids in _bg_pids;                        *)
(*   - the subprocess module, inside the calling thread: a Popen object    *)
(*     dropped before its child is collected polls it once and, while it   *)
(*     runs, stays in subprocess._active, which every Popen() polls first. *)
(* All of them name a child by its pid, and a pid is free to be handed out *)
(* again as soon as its child is collected.                                *)
(***************************************************************************)
EXTENDS Integers, Sequences, FiniteSets

CONSTANTS
  Pids,       \* bound of the model: the pids the kernel hands out
  Codes,      \* exit codes of the children
  NoCode,     \* no exit code yet
  Failure,    \* the pipeline timed out or could not be launched
  MaxStages   \* bound of the model: stages of a pipeline

ASSUME CodesAssumption ==
  /\ {0, 1} \subseteq Codes
  /\ NoCode \notin Codes /\ Failure \notin Codes /\ NoCode # Failure
  /\ MaxStages \in Nat \ {0}

VARIABLES
  proc,      \* kernel: the child each pid names
  pc,        \* where the calling thread is
  job,       \* what it launches: "fg" or "bg"
  left,      \* stages it has yet to launch
  procs,     \* the pids of its Popen objects, one for each stage launched
  polls,     \* pids it has yet to poll, drop or kill in the step it is at
  code,      \* exit code of the foreground pipeline
  active,    \* subprocess._active
  bg_pids,   \* _bg_pids
  rpc,       \* where the reaper is; "off" until _start_reaper
  scan,      \* its copy of _bg_pids, what is left of it
  found,     \* the pid it has to discard, as a set of at most one
  real,      \* history: the code the last stage exited with
  stale      \* history: the pids that were in _bg_pids when handed out

mainVars == <<pc, job, left, procs, polls, code, active>>
reaperVars == <<rpc, scan, found>>
vars == <<proc, mainVars, bg_pids, reaperVars, real, stale>>

Free == [state |-> "free", job |-> "fg", code |-> NoCode]
Running(j) == [state |-> "running", job |-> j, code |-> NoCode]
Zombie(j, c) == [state |-> "zombie", job |-> j, code |-> c]
Children == {Free} \cup {Running(j) : j \in {"fg", "bg"}}
                   \cup {Zombie(j, c) : j \in {"fg", "bg"}, c \in Codes}

(* waitpid collects a zombie.                                              *)
Collected(ps) == [p \in Pids |-> IF p \in ps THEN Free ELSE proc[p]]
IsZombie(p) == proc[p].state = "zombie"
IsRunning(p) == proc[p].state = "running"

Last == procs[Len(procs)]
Held == {procs[i] : i \in 1..Len(procs)}

Init ==
  /\ proc = [p \in Pids |-> Free]
  /\ pc = "idle" /\ job = "fg" /\ left = 0
  /\ procs = <<>> /\ polls = {} /\ code = NoCode
  /\ active = {} /\ bg_pids = {}
  /\ rpc = "off" /\ scan = {} /\ found = {}
  /\ real = NoCode /\ stale = {}

-----------------------------------------------------------------------------
(* The calling thread: launching.                                          *)

Call(j, n) ==
  /\ pc = "idle"
  /\ pc' = "cleanup" /\ job' = j /\ left' = n
  /\ polls' = active
  /\ UNCHANGED <<proc, procs, code, active, bg_pids, reaperVars, real, stale>>

(* Popen() polls the abandoned objects and drops those whose child is      *)
(* collected, by this poll or before it.                                   *)
Cleanup(p) ==
  /\ pc = "cleanup" /\ p \in polls
  /\ polls' = polls \ {p}
  /\ active' = IF IsRunning(p) THEN active ELSE active \ {p}
  /\ proc' = IF IsZombie(p) THEN Collected({p}) ELSE proc
  /\ UNCHANGED <<pc, job, left, procs, code, bg_pids, reaperVars, real, stale>>

Fork(p) ==
  /\ pc = "cleanup" /\ polls = {}
  /\ proc[p] = Free
  /\ proc' = [proc EXCEPT ![p] = Running(job)]
  /\ procs' = Append(procs, p)
  /\ left' = left - 1
  /\ IF left > 1 THEN pc' = pc /\ polls' = active
     ELSE pc' = (IF job = "fg" THEN "communicate" ELSE "register") /\ polls' = {}
  /\ stale' = IF p \in bg_pids THEN stale \cup {p} ELSE stale \ {p}
  /\ UNCHANGED <<job, code, active, bg_pids, reaperVars, real>>

(* A stage cannot be launched: the earlier ones are killed and waited for. *)
ForkFails ==
  /\ pc = "cleanup" /\ polls = {}
  /\ pc' = "collect" /\ polls' = Held /\ code' = Failure
  /\ UNCHANGED <<proc, job, left, procs, active, bg_pids, reaperVars, real, stale>>

-----------------------------------------------------------------------------
(* Waiting for a foreground pipeline.  A child somebody else collected     *)
(* counts as one that exited with 0.                                       *)

Communicate ==
  /\ pc = "communicate" /\ ~IsRunning(Last)
  /\ code' = IF IsZombie(Last) THEN proc[Last].code ELSE 0
  /\ proc' = Collected({Last})
  /\ pc' = "collect" /\ polls' = Held
  /\ UNCHANGED <<job, left, procs, active, bg_pids, reaperVars, real, stale>>

\* Mutant: on a timeout only the last stage is killed.
TimeOutKillsLast ==
  /\ pc = "communicate"
  /\ code' = Failure
  /\ pc' = "collect" /\ polls' = {Last}
  /\ UNCHANGED <<proc, job, left, procs, active, bg_pids, reaperVars, real, stale>>

TimeOut ==
  /\ pc = "communicate"
  /\ code' = Failure
  /\ pc' = "collect" /\ polls' = Held
  /\ UNCHANGED <<proc, job, left, procs, active, bg_pids, reaperVars, real, stale>>

(* poll, kill and wait: the status of this stage is not used any more.     *)
Collect(p) ==
  /\ pc = "collect" /\ p \in polls
  /\ polls' = polls \ {p}
  /\ proc' = Collected({p})
  /\ UNCHANGED <<pc, job, left, procs, code, active, bg_pids, reaperVars, real,
                 stale>>

\* Mutant: the Popen objects of a call are kept for the next one.
AnswerKeepsObjects ==
  /\ pc \in {"collect", "drop"} /\ polls = {}
  /\ pc' = "idle" /\ left' = 0 /\ code' = NoCode
  /\ real' = NoCode
  /\ UNCHANGED <<proc, job, polls, procs, active, bg_pids, reaperVars, stale>>

Answer ==
  /\ pc \in {"collect", "drop"} /\ polls = {}
  /\ pc' = "idle" /\ left' = 0 /\ procs' = <<>> /\ code' = NoCode
  /\ real' = NoCode
  /\ UNCHANGED <<proc, job, polls, active, bg_pids, reaperVars, stale>>

-----------------------------------------------------------------------------
(* Leaving a background pipeline to the reaper.                            *)

\* Mutant: only the pid shown in the answer is registered.
RegisterFirst ==
  /\ pc = "register"
  /\ bg_pids' = bg_pids \cup {procs[1]}
  /\ pc' = "start"
  /\ UNCHANGED <<proc, job, left, procs, polls, code, active, reaperVars, real,
                 stale>>

Register ==
  /\ pc = "register"
  /\ bg_pids' = bg_pids \cup Held
  /\ pc' = "start"
  /\ UNCHANGED <<proc, job, left, procs, polls, code, active, reaperVars, real,
                 stale>>

StartReaper ==
  /\ pc = "start"
  /\ rpc' = IF rpc = "off" THEN "sleep" ELSE rpc
  /\ pc' = "drop" /\ polls' = Held
  /\ UNCHANGED <<proc, job, left, procs, code, active, bg_pids, scan, found, real,
                 stale>>

\* Mutant: the Popen objects are kept somewhere and never looked at again.
DropNothing(p) ==
  /\ pc = "drop" /\ p \in polls
  /\ polls' = polls \ {p}
  /\ UNCHANGED <<proc, pc, job, left, procs, code, active, bg_pids, reaperVars,
                 real, stale>>

(* _launch_background returns and its Popen objects are dropped.           *)
Drop(p) ==
  /\ pc = "drop" /\ p \in polls
  /\ polls' = polls \ {p}
  /\ active' = IF IsRunning(p) THEN active \cup {p} ELSE active
  /\ proc' = IF IsZombie(p) THEN Collected({p}) ELSE proc
  /\ UNCHANGED <<pc, job, left, procs, code, bg_pids, reaperVars, real, stale>>

-----------------------------------------------------------------------------
(* The reaper thread.  It takes _bg_pids_lock for the copy and for each    *)
(* discard, not for the waitpid between them.                              *)

\* Mutant: the reaper waits for any child, as waitpid(-1) does.
SnapshotAll ==
  /\ rpc = "sleep"
  /\ rpc' = "scan" /\ scan' = {p \in Pids : proc[p] # Free}
  /\ UNCHANGED <<proc, mainVars, bg_pids, found, real, stale>>

Snapshot ==
  /\ rpc = "sleep"
  /\ rpc' = "scan" /\ scan' = bg_pids
  /\ UNCHANGED <<proc, mainVars, bg_pids, found, real, stale>>

\* Mutant: a child that still runs is forgotten as well.
WaitForgets(p) ==
  /\ rpc = "scan" /\ found = {} /\ p \in scan
  /\ scan' = scan \ {p} /\ found' = {p}
  /\ proc' = IF IsRunning(p) THEN proc ELSE Collected({p})
  /\ UNCHANGED <<mainVars, bg_pids, rpc, real, stale>>

Wait(p) ==
  /\ rpc = "scan" /\ found = {} /\ p \in scan
  /\ scan' = scan \ {p}
  /\ IF IsRunning(p) THEN found' = {} /\ proc' = proc
     ELSE found' = {p} /\ proc' = Collected({p})
  /\ UNCHANGED <<mainVars, bg_pids, rpc, real, stale>>

Discard ==
  /\ found # {}
  /\ bg_pids' = bg_pids \ found /\ found' = {}
  /\ UNCHANGED <<proc, mainVars, rpc, scan, real, stale>>

Sleep ==
  /\ rpc = "scan" /\ found = {} /\ scan = {}
  /\ rpc' = "sleep"
  /\ UNCHANGED <<proc, mainVars, bg_pids, scan, found, real, stale>>

(* A child exits.  Nobody looks at the exit code of a background child.    *)
Exit(p, c) ==
  /\ IsRunning(p)
  /\ proc[p].job = "bg" => c = 0
  /\ proc' = [proc EXCEPT ![p] = Zombie(proc[p].job, c)]
  /\ real' = IF pc = "communicate" /\ p = Last THEN c ELSE real
  /\ UNCHANGED <<mainVars, bg_pids, reaperVars, stale>>

Handle ==
  \/ \E p \in Pids : Cleanup(p) \/ Fork(p) \/ Collect(p) \/ Drop(p)
  \/ ForkFails \/ Communicate \/ TimeOut \/ Answer \/ Register \/ StartReaper

Reaper == Snapshot \/ (\E p \in Pids : Wait(p)) \/ Discard \/ Sleep

Next ==
  \/ \E j \in {"fg", "bg"}, n \in 1..MaxStages : Call(j, n)
  \/ Handle
  \/ Reaper
  \/ \E p \in Pids, c \in Codes : Exit(p, c)

(* The reaper is a thread of its own in an endless loop: nothing but the   *)
(* end of the server stops it.  The thread that handles a call goes on to  *)
(* its end: it blocks in Communicate only, and TimeOut ends that.  No      *)
(* child has to exit and no call has to be made.                           *)
Spec == Init /\ [][Next]_vars /\ WF_vars(Reaper) /\ WF_vars(Handle)

-----------------------------------------------------------------------------
TypeOK ==
  /\ proc \in [Pids -> Children]
  /\ pc \in {"idle", "cleanup", "communicate", "collect", "register", "start",
             "drop"}
  /\ job \in {"fg", "bg"} /\ left \in 0..MaxStages
  /\ procs \in Seq(Pids) /\ Len(procs) <= MaxStages
  /\ polls \subseteq Pids
  /\ code \in Codes \cup {NoCode, Failure}
  /\ active \subseteq Pids /\ bg_pids \subseteq Pids
  /\ rpc \in {"off", "sleep", "scan"}
  /\ scan \subseteq Pids /\ found \subseteq Pids
  /\ real \in Codes \cup {NoCode}
  /\ stale \subseteq Pids

(* The exit code reported for a foreground pipeline is the one its last    *)
(* stage exited with, unless the kernel gave that stage the pid of a       *)
(* background child that had ended and that the reaper had yet to forget.  *)
OwnStatus == code \in Codes => code = real \/ Last \in stale

(* "so we never steal an exit status from a concurrent foreground process" *)
(* (_start_reaper, executor.py).                                           *)
NeverSteals == code \in Codes => code = real

Unreaped(p) == ~(proc[p] = Free)
Background(p) == Unreaped(p) /\ proc[p].job = "bg"

(* A background child is never orphaned: until its status is collected it  *)
(* is in _bg_pids, in subprocess._active or in the hands of the thread     *)
(* that is launching it, with and without pids handed out again.           *)
NoOrphans ==
  \A p \in Pids : Background(p) => p \in bg_pids \cup active \cup Held

(* Once launched, it is in _bg_pids itself.                                *)
Registered ==
  \A p \in Pids \ stale :
    Background(p) => p \in bg_pids \/ (p \in Held /\ pc # "drop")

(* The calling thread leaves no foreground child behind, running or not:   *)
(* with the answer of a pipeline all of its stages are gone, even when it  *)
(* timed out or could not be launched.                                     *)
ForegroundCollected ==
  \A p \in Pids : Unreaped(p) /\ proc[p].job = "fg" => p \in Held

(* Every background child that ends is collected without any further tool  *)
(* call, and its pid is forgotten.                                         *)
Reaped ==
  \A p \in Pids :
    /\ IsZombie(p) /\ proc[p].job = "bg" ~> proc[p] = Free \/ p \in stale
    /\ p \in bg_pids /\ ~IsRunning(p) ~> p \notin bg_pids \/ p \in stale
=============================================================================
