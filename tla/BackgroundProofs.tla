---------------------------- MODULE BackgroundProofs ----------------------------
(***************************************************************************)
(* Proofs about Background, for any number of pids, stages and exit codes: *)
(* who holds which child at every moment between fork and waitpid.         *)
(***************************************************************************)
EXTENDS Background, TLAPS, SequenceTheorems

(* What the place of the calling thread says of its variables.             *)
Phase ==
  /\ pc = "idle" => procs = <<>>
  /\ pc = "cleanup" => left >= 1 /\ Len(procs) + left <= MaxStages
  /\ pc = "communicate" => procs # <<>>
  /\ pc \in {"register", "start", "drop"} => job = "bg"
  /\ pc # "collect" => code = NoCode

(* Where the children are.  Those of a foreground pipeline belong to the   *)
(* call at work; a background child is in the hands of the thread that     *)
(* launched it until it is in subprocess._active.                          *)
Kids ==
  /\ \A p \in Pids : Unreaped(p) /\ proc[p].job = "fg" => p \in Held /\ job = "fg"
  /\ \A p \in Pids : Background(p) => p \in active \cup Held
  /\ pc = "collect" => \A p \in Held : Unreaped(p) => p \in polls
  /\ pc = "drop" => \A p \in Held : Unreaped(p) => p \in polls \cup active

(* What the reaper is about to look at or to forget is in _bg_pids; what   *)
(* it is about to forget is collected, unless its pid was handed out again.*)
Reaping ==
  /\ rpc # "scan" => scan = {} /\ found = {}
  /\ scan \cup found \subseteq bg_pids /\ scan \cap found = {}
  /\ \A p \in found \ stale : proc[p] = Free
  /\ pc = "start" => \A p \in Held \ stale : Unreaped(p) => p \in bg_pids
  /\ Registered

(* The status of the last stage is still to be had, and is its own.        *)
Status ==
  /\ pc = "communicate" /\ Last \notin stale =>
       /\ Last \notin bg_pids
       /\ proc[Last] = Running("fg") \/ proc[Last] = Zombie("fg", real)
  /\ OwnStatus

IInv == TypeOK /\ Phase /\ Kids /\ Reaping /\ Status

-----------------------------------------------------------------------------
LEMMA ChildFacts ==
  ASSUME NEW j \in {"fg", "bg"}, NEW c \in Codes
  PROVE  /\ Free \in Children /\ Running(j) \in Children /\ Zombie(j, c) \in Children
         /\ Running(j) # Free /\ Zombie(j, c) # Free
         /\ Free.state = "free" /\ Running(j).state = "running"
         /\ Zombie(j, c).state = "zombie"
         /\ Running(j).job = j /\ Zombie(j, c).job = j /\ Zombie(j, c).code = c
BY DEF Children, Free, Running, Zombie

(* A child is free, running or a zombie.                                   *)
LEMMA States ==
  ASSUME TypeOK, NEW p \in Pids
  PROVE  /\ proc[p] \in Children /\ proc[p].job \in {"fg", "bg"}
         /\ IsRunning(p) <=> proc[p] = Running(proc[p].job)
         /\ IsZombie(p) => /\ proc[p].code \in Codes
                           /\ proc[p] = Zombie(proc[p].job, proc[p].code)
         /\ Unreaped(p) <=> IsRunning(p) \/ IsZombie(p)
BY DEF TypeOK, Children, Free, Running, Zombie, IsRunning, IsZombie, Unreaped

LEMMA HeldPids ==
  ASSUME TypeOK
  PROVE  Held \subseteq Pids /\ (procs # <<>> => Last \in Held)
<1>1. procs \in Seq(Pids) /\ Len(procs) \in Nat
  BY LenProperties DEF TypeOK
<1>2. Held \subseteq Pids
  BY <1>1, ElementOfSeq DEF Held
<1>3. procs # <<>> => Len(procs) \in 1..Len(procs)
  BY <1>1, EmptySeq
<1> QED
  BY <1>2, <1>3 DEF Held, Last

LEMMA HeldAfterFork ==
  ASSUME TypeOK, NEW p \in Pids, procs' = Append(procs, p)
  PROVE  /\ procs' \in Seq(Pids) /\ procs' # <<>> /\ Len(procs') = Len(procs) + 1
         /\ Held' = Held \cup {p} /\ Last' = p
<1>1. /\ procs' \in Seq(Pids) /\ procs' # <<>> /\ Len(procs') = Len(procs) + 1
      /\ \A i \in 1..Len(procs) : procs'[i] = procs[i]
      /\ procs'[Len(procs) + 1] = p /\ Len(procs) \in Nat
  BY AppendProperties, LenProperties DEF TypeOK
<1>2. Held' = Held \cup {p}
  BY <1>1 DEF Held
<1> QED
  BY <1>1, <1>2 DEF Last

LEMMA CollectedFacts ==
  ASSUME TypeOK, NEW ps, proc' = Collected(ps)
  PROVE  /\ proc' \in [Pids -> Children]
         /\ \A p \in Pids : proc'[p] = IF p \in ps THEN Free ELSE proc[p]
BY DEF TypeOK, Collected, Children

(* Whoever collects a child that is not the last stage of a foreground     *)
(* pipeline, with nothing else changed that these parts speak of.          *)
LEMMA CollectKeeps ==
  ASSUME IInv, NEW p \in Pids, proc' = proc \/ proc' = Collected({p}),
         UNCHANGED <<pc, job, left, procs, code, bg_pids, scan, found, real, stale, rpc>>,
         pc = "communicate" => p # Last \/ Last \in stale
  PROVE  /\ proc' \in [Pids -> Children]
         /\ \A q \in Pids : proc'[q] = proc[q] \/ proc'[q] = Free
         /\ Reaping' /\ Status'
<1>1. /\ proc' \in [Pids -> Children]
      /\ \A q \in Pids : proc'[q] = proc[q] \/ (q = p /\ proc'[q] = Free)
  BY CollectedFacts DEF IInv, TypeOK
<1>2. Held' = Held /\ Held \subseteq Pids /\ Last' = Last
  BY HeldPids DEF IInv, Held, Last
<1>3. found \subseteq Pids
  BY DEF IInv, TypeOK
<1>4. Reaping'
  BY <1>1, <1>2, <1>3 DEF IInv, Reaping, Registered, Background, Unreaped
<1>5. Status'
  <2>1. OwnStatus'
    BY <1>2 DEF IInv, Status, OwnStatus
  <2>2. ASSUME pc = "communicate", Last \notin stale PROVE proc'[Last] = proc[Last]
    BY <1>1, <1>2, <2>2, HeldPids DEF IInv, Phase
  <2> QED
    BY <1>2, <2>1, <2>2 DEF IInv, Status
<1> QED
  BY <1>1, <1>4, <1>5

-----------------------------------------------------------------------------
LEMMA CallStep ==
  ASSUME IInv, NEW j \in {"fg", "bg"}, NEW n \in 1..MaxStages, Call(j, n)
  PROVE  IInv'
<1>1. /\ procs = <<>> /\ UNCHANGED <<proc, procs, code, active, bg_pids, rpc, scan,
                                     found, real, stale>>
      /\ pc = "idle" /\ pc' = "cleanup" /\ job' = j /\ left' = n /\ polls' = active
  BY DEF Call, IInv, Phase, reaperVars
<1>2. Len(procs) = 0 /\ Held = {} /\ Held' = {}
  BY <1>1 DEF Held
<1>3. TypeOK'
  BY <1>1, <1>2, CodesAssumption DEF IInv, TypeOK
<1>4. Phase'
  BY <1>1, <1>2, CodesAssumption DEF IInv, Phase
<1>5. Kids'
  BY <1>1, <1>2, States DEF IInv, Kids, Background, Unreaped
<1>6. Reaping'
  BY <1>1, <1>2 DEF IInv, Reaping, Registered, Background, Unreaped
<1>7. Status'
  BY <1>1 DEF IInv, Status, OwnStatus, Last
<1> QED
  BY <1>3, <1>4, <1>5, <1>6, <1>7 DEF IInv

LEMMA CleanupStep ==
  ASSUME IInv, NEW p \in Pids, Cleanup(p)
  PROVE  IInv'
<1>1. /\ pc = "cleanup" /\ polls' = polls \ {p}
      /\ active' = IF IsRunning(p) THEN active ELSE active \ {p}
      /\ proc' = IF IsZombie(p) THEN Collected({p}) ELSE proc
      /\ UNCHANGED <<pc, job, left, procs, code, bg_pids, rpc, scan, found, real,
                     stale>>
  BY DEF Cleanup, reaperVars
<1>2. /\ proc' \in [Pids -> Children] /\ Reaping' /\ Status'
      /\ \A q \in Pids : proc'[q] = proc[q] \/ proc'[q] = Free
  BY <1>1, CollectKeeps
<1>3. Held' = Held
  BY <1>1 DEF Held
<1>4. ~IsRunning(p) => proc'[p] = Free
  <2>1. CASE IsZombie(p)
    BY <1>1, <2>1, CollectedFacts DEF IInv
  <2>2. CASE ~IsZombie(p) /\ ~IsRunning(p)
    BY <1>1, <2>2, States DEF IInv, Unreaped
  <2> QED
    BY <2>1, <2>2
<1>5. TypeOK'
  BY <1>1, <1>2 DEF IInv, TypeOK
<1>6. Phase'
  BY <1>1 DEF IInv, Phase
<1>7. Kids'
  BY <1>1, <1>2, <1>3, <1>4 DEF IInv, Kids, Background, Unreaped
<1> QED
  BY <1>2, <1>5, <1>6, <1>7 DEF IInv

LEMMA ForkStep ==
  ASSUME IInv, NEW p \in Pids, Fork(p)
  PROVE  IInv'
<1>1. /\ pc = "cleanup" /\ proc[p] = Free /\ proc' = [proc EXCEPT ![p] = Running(job)]
      /\ procs' = Append(procs, p) /\ left' = left - 1
      /\ IF left > 1 THEN pc' = pc /\ polls' = active
         ELSE pc' = (IF job = "fg" THEN "communicate" ELSE "register") /\ polls' = {}
      /\ stale' = IF p \in bg_pids THEN stale \cup {p} ELSE stale \ {p}
      /\ UNCHANGED <<job, code, active, bg_pids, rpc, scan, found, real>>
  BY DEF Fork, reaperVars
<1>2. /\ procs' \in Seq(Pids) /\ procs' # <<>> /\ Len(procs') = Len(procs) + 1
      /\ Held' = Held \cup {p} /\ Last' = p
  BY <1>1, HeldAfterFork DEF IInv
<1>3. /\ job \in {"fg", "bg"} /\ left >= 1 /\ left \in Nat /\ Len(procs) \in Nat
      /\ Len(procs) + left <= MaxStages /\ MaxStages \in Nat
  BY <1>1, LenProperties, CodesAssumption DEF IInv, TypeOK, Phase
<1>4. /\ Running(job) \in Children /\ Running(job) # Free /\ Running(job).job = job
  BY <1>3, CodesAssumption, ChildFacts
<1>5. /\ proc' \in [Pids -> Children] /\ proc'[p] = Running(job)
      /\ \A q \in Pids \ {p} : proc'[q] = proc[q]
  BY <1>1, <1>4 DEF IInv, TypeOK
<1>6. TypeOK'
  BY <1>1, <1>2, <1>3, <1>5 DEF IInv, TypeOK
<1>7. Phase'
  BY <1>1, <1>2, <1>3 DEF IInv, Phase
<1>8. Kids'
  BY <1>1, <1>2, <1>3, <1>4, <1>5 DEF IInv, Kids, Background, Unreaped
<1>9. Reaping'
  <2>1. p \in found => p \in stale'
    BY <1>1 DEF IInv, Reaping
  <2>2. \A q \in Pids \ {p} : q \in stale' <=> q \in stale
    BY <1>1
  <2>3. \A q \in found' \ stale' : proc'[q] = Free
    BY <1>1, <1>5, <2>1, <2>2 DEF IInv, Reaping, TypeOK
  <2>4. pc' # "start" /\ pc' # "drop" /\ pc # "drop"
    BY <1>1
  <2>5. Registered'
    BY <1>1, <1>2, <1>5, <2>2, <2>4 DEF IInv, Reaping, Registered, Background, Unreaped
  <2> QED
    BY <1>1, <2>3, <2>4, <2>5 DEF IInv, Reaping
<1>10. Status'
  <2>1. code = NoCode /\ NoCode \notin Codes
    BY <1>1, CodesAssumption DEF IInv, Phase
  <2>2. OwnStatus'
    BY <1>1, <2>1 DEF OwnStatus
  <2>3. ASSUME pc' = "communicate", p \notin stale'
        PROVE  p \notin bg_pids' /\ proc'[p] = Running("fg")
    BY <1>1, <1>3, <1>5, <2>3
  <2> QED
    BY <1>2, <2>2, <2>3 DEF Status
<1> QED
  BY <1>6, <1>7, <1>8, <1>9, <1>10 DEF IInv

(* The pipeline failed or timed out: every stage is polled and killed.     *)
LEMMA GiveUpStep ==
  ASSUME IInv, ForkFails \/ TimeOut
  PROVE  IInv'
<1>1. /\ pc \in {"cleanup", "communicate"} /\ pc' = "collect" /\ polls' = Held
      /\ code' = Failure
      /\ UNCHANGED <<proc, job, left, procs, active, bg_pids, rpc, scan, found, real,
                     stale>>
  BY DEF ForkFails, TimeOut, reaperVars
<1>2. Held' = Held /\ Held \subseteq Pids
  BY <1>1, HeldPids DEF IInv, Held
<1>3. TypeOK'
  BY <1>1, <1>2 DEF IInv, TypeOK
<1>4. Phase'
  BY <1>1 DEF IInv, Phase
<1>5. Kids'
  BY <1>1, <1>2 DEF IInv, Kids, Background, Unreaped
<1>6. Reaping'
  BY <1>1, <1>2 DEF IInv, Reaping, Registered, Background, Unreaped
<1>7. Status'
  BY <1>1, CodesAssumption DEF IInv, Status, OwnStatus
<1> QED
  BY <1>3, <1>4, <1>5, <1>6, <1>7 DEF IInv

LEMMA CommunicateStep ==
  ASSUME IInv, Communicate
  PROVE  IInv'
<1>1. /\ pc = "communicate" /\ ~IsRunning(Last)
      /\ code' = IF IsZombie(Last) THEN proc[Last].code ELSE 0
      /\ proc' = Collected({Last}) /\ pc' = "collect" /\ polls' = Held
      /\ UNCHANGED <<job, left, procs, active, bg_pids, rpc, scan, found, real, stale>>
  BY DEF Communicate, reaperVars
<1>2. Held' = Held /\ Held \subseteq Pids /\ Last \in Held /\ Last' = Last
  BY <1>1, HeldPids DEF IInv, Held, Last, Phase
<1>3. /\ proc' \in [Pids -> Children]
      /\ \A q \in Pids : proc'[q] = proc[q] \/ proc'[q] = Free
  BY <1>1, CollectedFacts DEF IInv
<1>4. code' \in Codes
  BY <1>1, <1>2, States, CodesAssumption DEF IInv
<1>5. TypeOK'
  BY <1>1, <1>2, <1>3, <1>4 DEF IInv, TypeOK
<1>6. Phase'
  BY <1>1 DEF IInv, Phase
<1>7. Kids'
  BY <1>1, <1>2, <1>3 DEF IInv, Kids, Background, Unreaped
<1>8. Reaping'
  <2>1. found \subseteq Pids
    BY DEF IInv, TypeOK
  <2> QED
    BY <1>1, <1>2, <1>3, <2>1 DEF IInv, Reaping, Registered, Background, Unreaped
<1>9. Last \in stale \/ code' = real
  <2> SUFFICES ASSUME Last \notin stale PROVE code' = real
    OBVIOUS
  <2>1. proc[Last] = Zombie("fg", real)
    BY <1>1 DEF IInv, Status, IsRunning, Running
  <2>2. IsZombie(Last) /\ proc[Last].code = real
    BY <2>1 DEF IsZombie, Zombie
  <2> QED
    BY <1>1, <2>2
<1>10. Status'
  BY <1>1, <1>2, <1>9 DEF Status, OwnStatus
<1> QED
  BY <1>5, <1>6, <1>7, <1>8, <1>10 DEF IInv

LEMMA CollectStep ==
  ASSUME IInv, NEW p \in Pids, Collect(p)
  PROVE  IInv'
<1>1. /\ pc = "collect" /\ polls' = polls \ {p} /\ proc' = Collected({p})
      /\ UNCHANGED <<pc, job, left, procs, code, active, bg_pids, rpc, scan, found,
                     real, stale>>
  BY DEF Collect, reaperVars
<1>2. /\ proc' \in [Pids -> Children] /\ Reaping' /\ Status'
      /\ \A q \in Pids : proc'[q] = proc[q] \/ proc'[q] = Free
  BY <1>1, CollectKeeps
<1>3. Held' = Held /\ Held \subseteq Pids
  BY <1>1, HeldPids DEF IInv, Held
<1>4. proc'[p] = Free
  BY <1>1, CollectedFacts DEF IInv
<1>5. TypeOK'
  BY <1>1, <1>2 DEF IInv, TypeOK
<1>6. Phase'
  BY <1>1 DEF IInv, Phase
<1>7. Kids'
  BY <1>1, <1>2, <1>3, <1>4 DEF IInv, Kids, Background, Unreaped
<1> QED
  BY <1>2, <1>5, <1>6, <1>7 DEF IInv

(* The answer drops the Popen objects: whatever was running or a zombie    *)
(* among their children is collected, or in subprocess._active.            *)
LEMMA AnswerStep ==
  ASSUME IInv, Answer
  PROVE  IInv'
<1>1. /\ pc \in {"collect", "drop"} /\ polls = {} /\ pc' = "idle" /\ left' = 0
      /\ procs' = <<>> /\ code' = NoCode /\ real' = NoCode
      /\ UNCHANGED <<proc, job, polls, active, bg_pids, rpc, scan, found, stale>>
  BY DEF Answer, reaperVars
<1>2. Held \subseteq Pids /\ Held' = {} /\ Len(procs') = 0
  BY <1>1, HeldPids DEF IInv, Held
<1>3. \A p \in Held : Unreaped(p) => pc = "drop" /\ p \in active
  BY <1>1 DEF IInv, Kids
<1>4. TypeOK'
  BY <1>1, <1>2, CodesAssumption DEF IInv, TypeOK
<1>5. Phase'
  BY <1>1 DEF Phase
<1>6. Kids'
  <2>1. ASSUME NEW p \in Pids, Unreaped(p), proc[p].job = "fg" PROVE FALSE
    <3>1. p \in Held /\ job = "fg"
      BY <2>1 DEF IInv, Kids
    <3> QED
      BY <1>3, <3>1, <2>1 DEF IInv, Phase
  <2>2. \A p \in Pids : Background(p) => p \in active
    BY <1>3 DEF IInv, Kids, Background
  <2> QED
    BY <1>1, <1>2, <2>1, <2>2 DEF Kids, Background, Unreaped
<1>7. Reaping'
  <2>1. \A p \in Pids \ stale : Background(p) => p \in bg_pids
    BY <1>1, <1>3 DEF IInv, Reaping, Registered, Background
  <2> QED
    BY <1>1, <2>1 DEF IInv, Reaping, Registered, Background, Unreaped
<1>8. Status'
  BY <1>1, CodesAssumption DEF Status, OwnStatus
<1> QED
  BY <1>4, <1>5, <1>6, <1>7, <1>8 DEF IInv

LEMMA RegisterStep ==
  ASSUME IInv, Register
  PROVE  IInv'
<1>1. /\ pc = "register" /\ bg_pids' = bg_pids \cup Held /\ pc' = "start"
      /\ UNCHANGED <<proc, job, left, procs, polls, code, active, rpc, scan, found,
                     real, stale>>
  BY DEF Register, reaperVars
<1>2. Held' = Held /\ Held \subseteq Pids
  BY <1>1, HeldPids DEF IInv, Held
<1>3. TypeOK'
  BY <1>1, <1>2 DEF IInv, TypeOK
<1>4. Phase'
  BY <1>1 DEF IInv, Phase
<1>5. Kids'
  BY <1>1, <1>2 DEF IInv, Kids, Background, Unreaped
<1>6. Reaping'
  BY <1>1, <1>2 DEF IInv, Reaping, Registered, Background, Unreaped
<1>7. Status'
  BY <1>1, CodesAssumption DEF IInv, Phase, Status, OwnStatus
<1> QED
  BY <1>3, <1>4, <1>5, <1>6, <1>7 DEF IInv

LEMMA StartReaperStep ==
  ASSUME IInv, StartReaper
  PROVE  IInv'
<1>1. /\ pc = "start" /\ rpc' = (IF rpc = "off" THEN "sleep" ELSE rpc)
      /\ pc' = "drop" /\ polls' = Held
      /\ UNCHANGED <<proc, job, left, procs, code, active, bg_pids, scan, found, real,
                     stale>>
  BY DEF StartReaper
<1>2. Held' = Held /\ Held \subseteq Pids
  BY <1>1, HeldPids DEF IInv, Held
<1>3. TypeOK'
  BY <1>1, <1>2 DEF IInv, TypeOK
<1>4. Phase'
  BY <1>1 DEF IInv, Phase
<1>5. Kids'
  BY <1>1, <1>2 DEF IInv, Kids, Background, Unreaped
<1>6. Reaping'
  <2>1. \A p \in Pids \ stale : Background(p) => p \in bg_pids
    BY <1>1 DEF IInv, Reaping, Registered, Background
  <2> QED
    BY <1>1, <1>2, <2>1 DEF IInv, Reaping, Registered, Background, Unreaped
<1>7. Status'
  BY <1>1, CodesAssumption DEF IInv, Phase, Status, OwnStatus
<1> QED
  BY <1>3, <1>4, <1>5, <1>6, <1>7 DEF IInv

LEMMA DropStep ==
  ASSUME IInv, NEW p \in Pids, Drop(p)
  PROVE  IInv'
<1>1. /\ pc = "drop" /\ polls' = polls \ {p}
      /\ active' = IF IsRunning(p) THEN active \cup {p} ELSE active
      /\ proc' = IF IsZombie(p) THEN Collected({p}) ELSE proc
      /\ UNCHANGED <<pc, job, left, procs, code, bg_pids, rpc, scan, found, real,
                     stale>>
  BY DEF Drop, reaperVars
<1>2. /\ proc' \in [Pids -> Children] /\ Reaping' /\ Status'
      /\ \A q \in Pids : proc'[q] = proc[q] \/ proc'[q] = Free
  BY <1>1, CollectKeeps
<1>3. Held' = Held /\ Held \subseteq Pids
  BY <1>1, HeldPids DEF IInv, Held
<1>4. p \in active' \/ proc'[p] = Free
  <2>1. CASE IsZombie(p)
    BY <1>1, <2>1, CollectedFacts DEF IInv
  <2>2. CASE ~IsZombie(p)
    BY <1>1, <2>2, States DEF IInv, Unreaped
  <2> QED
    BY <2>1, <2>2
<1>5. TypeOK'
  BY <1>1, <1>2 DEF IInv, TypeOK
<1>6. Phase'
  BY <1>1 DEF IInv, Phase
<1>7. Kids'
  BY <1>1, <1>2, <1>3, <1>4 DEF IInv, Kids, Background, Unreaped
<1> QED
  BY <1>2, <1>5, <1>6, <1>7 DEF IInv

-----------------------------------------------------------------------------
(* The reaper.                                                             *)
LEMMA SnapshotStep ==
  ASSUME IInv, Snapshot \/ Sleep
  PROVE  IInv'
<1>1. /\ rpc' \in {"sleep", "scan"} /\ scan' \subseteq bg_pids
      /\ found = {} /\ found' = {} /\ (rpc' = "sleep" => scan' = {})
      /\ UNCHANGED <<proc, pc, job, left, procs, polls, code, active, bg_pids, real,
                     stale>>
  BY DEF Snapshot, Sleep, mainVars, IInv, Reaping
<1>2. Held' = Held
  BY <1>1 DEF Held
<1>3. TypeOK'
  BY <1>1 DEF IInv, TypeOK
<1>4. Phase'
  BY <1>1 DEF IInv, Phase
<1>5. Kids'
  BY <1>1, <1>2 DEF IInv, Kids, Background, Unreaped
<1>6. Reaping'
  BY <1>1, <1>2 DEF IInv, Reaping, Registered, Background, Unreaped
<1>7. Status'
  BY <1>1 DEF IInv, Status, OwnStatus, Last
<1> QED
  BY <1>3, <1>4, <1>5, <1>6, <1>7 DEF IInv

(* What the reaper waits for is in _bg_pids, so it is not the last stage of*)
(* a foreground pipeline unless that has the pid of a background child.    *)
LEMMA WaitStep ==
  ASSUME IInv, NEW p \in Pids, Wait(p)
  PROVE  IInv'
<1>1. /\ rpc = "scan" /\ found = {} /\ p \in scan /\ scan' = scan \ {p}
      /\ IF IsRunning(p) THEN found' = {} /\ proc' = proc
         ELSE found' = {p} /\ proc' = Collected({p})
      /\ UNCHANGED <<pc, job, left, procs, polls, code, active, bg_pids, rpc, real,
                     stale>>
  BY DEF Wait, mainVars
<1>2. /\ proc' \in [Pids -> Children]
      /\ \A q \in Pids : proc'[q] = proc[q] \/ (q = p /\ proc'[q] = Free)
      /\ p \in found' => proc'[p] = Free
  BY <1>1, CollectedFacts DEF IInv, TypeOK
<1>3. Held' = Held /\ Held \subseteq Pids /\ Last' = Last
  BY <1>1, HeldPids DEF IInv, Held, Last
<1>4. TypeOK'
  BY <1>1, <1>2 DEF IInv, TypeOK
<1>5. Phase'
  BY <1>1 DEF IInv, Phase
<1>6. Kids'
  BY <1>1, <1>2, <1>3 DEF IInv, Kids, Background, Unreaped
<1>7. Reaping'
  <2>1. /\ scan' \cup found' \subseteq bg_pids' /\ scan' \cap found' = {}
        /\ \A q \in found' \ stale' : proc'[q] = Free
    BY <1>1, <1>2 DEF IInv, Reaping
  <2>2. pc' = "start" => \A q \in Held' \ stale' : Unreaped(q)' => q \in bg_pids'
    BY <1>1, <1>2, <1>3 DEF IInv, Reaping, Unreaped
  <2>3. Registered'
    BY <1>1, <1>2, <1>3 DEF IInv, Reaping, Registered, Background, Unreaped
  <2> QED
    BY <1>1, <2>1, <2>2, <2>3 DEF Reaping
<1>8. Status'
  <2>1. OwnStatus'
    BY <1>1, <1>3 DEF IInv, Status, OwnStatus
  <2>2. ASSUME pc = "communicate", Last \notin stale PROVE proc'[Last] = proc[Last]
    <3>1. p # Last /\ Last \in Pids
      BY <1>1, <1>3, <2>2, HeldPids DEF IInv, Reaping, Status, Phase
    <3> QED
      BY <1>2, <3>1
  <2> QED
    BY <1>1, <1>3, <2>1, <2>2 DEF IInv, Status
<1> QED
  BY <1>4, <1>5, <1>6, <1>7, <1>8 DEF IInv

LEMMA DiscardStep ==
  ASSUME IInv, Discard
  PROVE  IInv'
<1>1. /\ found # {} /\ bg_pids' = bg_pids \ found /\ found' = {}
      /\ UNCHANGED <<proc, pc, job, left, procs, polls, code, active, rpc, scan, real,
                     stale>>
  BY DEF Discard, mainVars
<1>2. Held' = Held /\ Held \subseteq Pids /\ Last' = Last
  BY <1>1, HeldPids DEF IInv, Held, Last
<1>3. \A p \in found \ stale : ~Unreaped(p)
  BY DEF IInv, Reaping, Unreaped
<1>4. TypeOK'
  BY <1>1 DEF IInv, TypeOK
<1>5. Phase'
  BY <1>1 DEF IInv, Phase
<1>6. Kids'
  BY <1>1, <1>2 DEF IInv, Kids, Background, Unreaped
<1>7. Reaping'
  BY <1>1, <1>2, <1>3 DEF IInv, Reaping, Registered, Background, Unreaped
<1>8. Status'
  BY <1>1, <1>2 DEF IInv, Status, OwnStatus
<1> QED
  BY <1>4, <1>5, <1>6, <1>7, <1>8 DEF IInv

LEMMA ExitStep ==
  ASSUME IInv, NEW p \in Pids, NEW c \in Codes, Exit(p, c)
  PROVE  IInv'
<1>1. /\ IsRunning(p) /\ proc' = [proc EXCEPT ![p] = Zombie(proc[p].job, c)]
      /\ real' = IF pc = "communicate" /\ p = Last THEN c ELSE real
      /\ UNCHANGED <<pc, job, left, procs, polls, code, active, bg_pids, rpc, scan,
                     found, stale>>
  BY DEF Exit, mainVars, reaperVars
<1> DEFINE j == proc[p].job
<1>2. /\ j \in {"fg", "bg"} /\ proc[p] = Running(j) /\ Unreaped(p)
  BY <1>1, States DEF IInv
<1> HIDE DEF j
<1>3. Zombie(j, c) \in Children /\ Zombie(j, c).job = j /\ Zombie(j, c) # Free
  BY <1>2, ChildFacts
<1>4. /\ proc' \in [Pids -> Children] /\ proc'[p] = Zombie(j, c)
      /\ \A q \in Pids \ {p} : proc'[q] = proc[q]
  BY <1>1, <1>3 DEF IInv, TypeOK, j
<1>5. Held' = Held /\ Held \subseteq Pids /\ Last' = Last
  BY <1>1, HeldPids DEF IInv, Held, Last
<1>6. \A q \in Pids : /\ Unreaped(q)' <=> Unreaped(q)
                      /\ proc'[q].job = proc[q].job
                      /\ Background(q)' <=> Background(q)
  BY <1>2, <1>3, <1>4 DEF Unreaped, Background, j
<1>7. TypeOK'
  BY <1>1, <1>4 DEF IInv, TypeOK
<1>8. Phase'
  BY <1>1 DEF IInv, Phase
<1>9. Kids'
  BY <1>1, <1>5, <1>6 DEF IInv, Kids
<1>10. Reaping'
  <2>1. p \notin found \/ p \in stale
    BY <1>2 DEF IInv, Reaping, Unreaped
  <2>2. \A q \in found' \ stale' : proc'[q] = Free
    BY <1>1, <1>4, <2>1 DEF IInv, Reaping, TypeOK
  <2> QED
    BY <1>1, <1>5, <1>6, <2>2 DEF IInv, Reaping, Registered
<1>11. Status'
  <2>1. OwnStatus'
    <3>1. pc = "communicate" => code \notin Codes
      BY CodesAssumption DEF IInv, Phase
    <3> QED
      BY <1>1, <1>5, <3>1 DEF IInv, Status, OwnStatus
  <2>2. ASSUME pc = "communicate", Last \notin stale
        PROVE  /\ Last \notin bg_pids
               /\ proc'[Last] = Running("fg") \/ proc'[Last] = Zombie("fg", real')
    <3>1. Last \in Pids /\ Last \notin bg_pids
      BY <1>5, <2>2, HeldPids DEF IInv, Phase, Status
    <3>2. CASE p = Last
      <4>1. proc[Last] = Running("fg") \/ proc[Last] = Zombie("fg", real)
        BY <2>2 DEF IInv, Status
      <4>2. j = "fg"
        BY <3>2, <4>1, <1>2 DEF Running, Zombie
      <4> QED
        BY <1>1, <1>4, <2>2, <3>1, <3>2, <4>2
    <3>3. CASE p # Last
      BY <1>1, <1>4, <2>2, <3>1, <3>3 DEF IInv, Status
    <3> QED
      BY <3>2, <3>3
  <2> QED
    BY <1>1, <1>5, <2>1, <2>2 DEF Status
<1> QED
  BY <1>7, <1>8, <1>9, <1>10, <1>11 DEF IInv

-----------------------------------------------------------------------------
LEMMA Initially == Init => IInv
<1> SUFFICES ASSUME Init PROVE IInv
  OBVIOUS
<1>1. /\ \A p \in Pids : proc[p] = Free
      /\ proc \in [Pids -> Children] /\ procs = <<>> /\ Len(procs) = 0
  BY DEF Init, Children
<1>2. Held = {}
  BY <1>1 DEF Held
<1>3. TypeOK
  BY <1>1, CodesAssumption DEF Init, TypeOK
<1>4. Phase
  BY DEF Init, Phase
<1>5. Kids
  BY <1>1, <1>2 DEF Init, Kids, Background, Unreaped
<1>6. Reaping
  BY <1>1, <1>2 DEF Init, Reaping, Registered, Background, Unreaped
<1>7. Status
  BY CodesAssumption DEF Init, Status, OwnStatus
<1> QED
  BY <1>3, <1>4, <1>5, <1>6, <1>7 DEF IInv

LEMMA StutterStep ==
  ASSUME IInv, UNCHANGED vars
  PROVE  IInv'
<1>1. UNCHANGED <<proc, pc, job, left, procs, polls, code, active, bg_pids, rpc, scan,
                  found, real, stale>>
  BY DEF vars, mainVars, reaperVars
<1>2. Held' = Held /\ Last' = Last
  BY <1>1 DEF Held, Last
<1> QED
  BY <1>1, <1>2 DEF IInv, TypeOK, Phase, Kids, Reaping, Registered, Status, OwnStatus,
                    Background, Unreaped

LEMMA Invariant == Spec => []IInv
<1>1. ASSUME IInv, Handle PROVE IInv'
  <2>1. CASE \E p \in Pids : Cleanup(p) \/ Fork(p) \/ Collect(p) \/ Drop(p)
    BY <1>1, <2>1, CleanupStep, ForkStep, CollectStep, DropStep
  <2>2. CASE ForkFails \/ Communicate \/ TimeOut
    BY <1>1, <2>2, GiveUpStep, CommunicateStep
  <2>3. CASE Answer \/ Register \/ StartReaper
    BY <1>1, <2>3, AnswerStep, RegisterStep, StartReaperStep
  <2> QED
    BY <1>1, <2>1, <2>2, <2>3 DEF Handle
<1>2. ASSUME IInv, Reaper PROVE IInv'
  BY <1>2, SnapshotStep, WaitStep, DiscardStep DEF Reaper
<1>3. IInv /\ [Next]_vars => IInv'
  BY <1>1, <1>2, CallStep, ExitStep, StutterStep DEF Next
<1> QED
  BY <1>3, Initially, PTL DEF Spec

-----------------------------------------------------------------------------
(* The type invariant, with the bound on the stages of a pipeline.         *)
THEOREM TypeCorrect == Spec => []TypeOK
<1>1. IInv => TypeOK
  BY DEF IInv
<1> QED
  BY <1>1, Invariant, PTL

(* The reported exit code is that of the pipeline's last stage, except     *)
(* where the stage got the pid of a background child the reaper had yet to *)
(* forget: the exception of run steals is the only one there is.           *)
THEOREM StatusIsOwn == Spec => []OwnStatus
<1>1. IInv => OwnStatus
  BY DEF IInv, Status
<1> QED
  BY <1>1, Invariant, PTL

(* No background child is out of everybody's sight, with any number of     *)
(* pids that are handed out again at any time.                             *)
THEOREM NoneIsOrphaned == Spec => []NoOrphans
<1>1. IInv => NoOrphans
  BY DEF IInv, Kids, NoOrphans
<1> QED
  BY <1>1, Invariant, PTL

(* Between its launch and its collection a background child is registered, *)
(* unless its pid was registered already when it was handed out.           *)
THEOREM LaunchedAreRegistered == Spec => []Registered
<1>1. IInv => Registered
  BY DEF IInv, Reaping
<1> QED
  BY <1>1, Invariant, PTL

(* No foreground child survives the call that launched it, whatever fails  *)
(* and whenever it exits.                                                  *)
THEOREM NoForegroundChildIsLeft == Spec => []ForegroundCollected
<1>1. IInv => ForegroundCollected
  BY DEF IInv, Kids, ForegroundCollected
<1> QED
  BY <1>1, Invariant, PTL
=============================================================================
