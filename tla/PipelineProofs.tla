---------------------------- MODULE PipelineProofs ----------------------------
(***************************************************************************)
(* Proofs about Pipeline, for every number of stages, redirects and bytes, *)
(* in three layers that each use the ones before:                          *)
(*   IInv    at each place of the calling thread, which stages were        *)
(*           launched and which ends the server can hold: every stage has  *)
(*           been waited for and every end closed when a call is answered; *)
(*   Wiring  which process can hold which end of which pipe: nobody in a   *)
(*           pipeline without a shared pipe waits for ever;                *)
(*   Unread  bytes are in a pipe of the server only while it has it open:  *)
(*           all output has been read when a call is answered.             *)
(* Programs never add an end to a pipe, and threads only close some.       *)
(***************************************************************************)
EXTENDS Pipeline, SelectionProofs, FiniteSetTheorems

Pcs == {"plan", "launch", "communicate", "reap", "join", "close", "read", "done"}
States == {"none", "running", "zombie", "collected"}

(* The length of the plan at each place.                                   *)
Planned ==
  /\ pc \in Pcs
  /\ N \in 0..MaxStages
  /\ pc = "plan" => plan = <<>>
  /\ pc \notin {"plan", "done"} => N >= 1
  /\ pc \in {"reap", "join", "close"} => N > 1
  /\ pc = "read" => N = 1

(* The first k stages were launched, and no others.                        *)
LaunchedFirst(k) == \A i \in Stages : proc[i] # "none" <=> i <= k
NoneLeft == \A i \in Stages : proc[i] \in {"none", "collected"}

Waited ==
  /\ proc \in [Stages -> States]
  /\ pc = "plan" => LaunchedFirst(0)
  /\ pc = "launch" => \E k \in 0..(N - 1) : LaunchedFirst(k)
  /\ pc = "communicate" => LaunchedFirst(N)
  /\ pc \in {"read", "join", "close", "done"} => NoneLeft

(* The ends that the server may hold when k stages were launched.          *)
Feeder == {<<In, "w", Server>>}
SharedPlanned == IF has_shared THEN SharedEnds(N) ELSE {}
MayHold(k) ==
  SharedPlanned \cup {<<Out(k), "r", Server>>}
  \cup {<<Err(i), "r", Server>> : i \in 1..k}
  \cup IF k >= 1 THEN Feeder ELSE {}

LeftAtAnswer ==
  HeldBy(Server) \subseteq
    (IF N > 1 THEN Feeder \cup {<<Err(i), "r", Server>> : i \in 1..(N - 1)} ELSE {})
    \cup IF result = "escaped" \/ PlanLeaks
         THEN UNION {SharedEnds(i) : i \in Stages} ELSE {}

Holdings ==
  /\ pc = "plan" => HeldBy(Server) = {}
  /\ pc = "launch" => \A k \in Nat : LaunchedFirst(k) /\ k < N
                                     => HeldBy(Server) \subseteq MayHold(k)
  /\ pc \in {"communicate", "reap", "join", "close"} =>
       HeldBy(Server) \subseteq MayHold(N)
  /\ pc = "read" => HeldBy(Server) \subseteq SharedEnds(1)
  /\ pc = "done" => LeftAtAnswer

IInv == Planned /\ Waited /\ Holdings

-----------------------------------------------------------------------------
LEMMA StageFacts ==
  /\ MaxStages \in Nat \ {0} /\ 0 \notin Stages /\ 1 \in Stages
  /\ \A i \in Stages : i \in Nat /\ i <= MaxStages /\ Helper(i) # Server
  /\ \A n \in 1..MaxStages : n \in Stages
  BY BoundsAssumption DEF Stages, Helper, Server

(* Each redirect leaves targets that are right for one another: nothing    *)
(* goes to a shared pipe that was not made, and only a redirect of stdout, *)
(* which the stages before the last have none of, can make one.            *)
Unshared(p) == p.stdout # "shared" /\ p.stderr # "shared"
Resolved == {p \in FdPlan : p.has_shared \/ Unshared(p)}

LEMMA ApplyFacts ==
  ASSUME NEW p \in Resolved, NEW r \in Redirect, NEW snapshot \in BOOLEAN
  PROVE  /\ Apply(p, r, snapshot) \in Resolved
         /\ ~p.has_shared /\ ~snapshot /\ ~OnStdout(r)
              => ~Apply(p, r, snapshot).has_shared
<1>1. p \in FdPlan /\ p.stdout \in Target /\ p.stderr \in Target
      /\ p.has_shared \in BOOLEAN /\ (p.has_shared \/ Unshared(p))
  BY DEF FdPlan, Resolved
<1>2. CASE r = "out"
  <2>1. Apply(p, r, snapshot) = [p EXCEPT !.stdout = "file"]
    BY <1>2 DEF Apply
  <2> QED
    BY <1>1, <2>1 DEF FdPlan, Target, Resolved, Unshared
<1>3. CASE r = "err"
  <2>1. Apply(p, r, snapshot) = [p EXCEPT !.stderr = "file"]
    BY <1>3 DEF Apply
  <2> QED
    BY <1>1, <2>1 DEF FdPlan, Target, Resolved, Unshared
<1>4. share_stdout_stderr_via_pipe \in Resolved
  BY DEF share_stdout_stderr_via_pipe, Resolved, FdPlan, Target, Unshared
<1>5. CASE r = "merge"
  <2>1. CASE snapshot /\ p.stdout = "PIPE"
    BY <1>4, <1>5, <2>1 DEF Apply
  <2>2. CASE ~(snapshot /\ p.stdout = "PIPE")
    <3>1. Apply(p, r, snapshot) = [p EXCEPT !.stderr = "STDOUT"]
      BY <1>5, <2>2 DEF Apply
    <3> QED
      BY <1>1, <3>1 DEF FdPlan, Target, Resolved, Unshared
  <2> QED
    BY <2>1, <2>2
<1>6. CASE r = "swap"
  <2>1. CASE p.stderr = "PIPE"
    BY <1>4, <1>6, <2>1 DEF Apply, OnStdout
  <2>2. CASE p.stderr # "PIPE"
    <3>1. Apply(p, r, snapshot) = [p EXCEPT !.stdout = p.stderr]
      BY <1>6, <2>2 DEF Apply
    <3> QED
      BY <1>1, <3>1 DEF FdPlan, Target, Resolved, Unshared
  <2> QED
    BY <2>1, <2>2
<1> QED
  BY <1>2, <1>3, <1>5, <1>6 DEF Redirect

LEMMA ResolveByRecursion ==
  ASSUME NEW n \in Nat, NEW redirects \in [1..n -> Redirect], NEW snapshot \in BOOLEAN
  PROVE  LET After[j \in 0..n] ==
               IF j = 0 THEN FdDefaults ELSE Apply(After[j - 1], redirects[j], snapshot)
         IN /\ After[n] \in Resolved
            /\ (~snapshot /\ \A k \in 1..n : ~OnStdout(redirects[k]))
                 => ~After[n].has_shared
<1> DEFINE Is(f) == f = [j \in 0..n |->
                           IF j = 0 THEN FdDefaults
                           ELSE Apply(f[j - 1], redirects[j], snapshot)]
           Step == [j \in 1..n |-> [p \in Resolved |-> Apply(p, redirects[j], snapshot)]]
           f == CHOOSE g : Is(g)
<1>1. FdDefaults \in Resolved /\ ~FdDefaults.has_shared
  BY DEF FdDefaults, Resolved, FdPlan, Target, Unshared
<1>2. \A j \in 1..n : redirects[j] \in Redirect
  OBVIOUS
<1>3. Step \in StepFunctions(n, Resolved)
  BY <1>2, ApplyFacts DEF StepFunctions
<1>4. \A j \in 1..n, p \in Resolved : Step[j][p] = Apply(p, redirects[j], snapshot)
  OBVIOUS
<1> HIDE DEF Step
<1>5. PICK g \in [0..n -> Resolved] : Iterates(g, Step, FdDefaults, n)
  BY <1>1, <1>3, Recursion
<1>6. Is(g)
  <2>1. \A j \in 0..n : j # 0 => j \in 1..n /\ j - 1 \in 0..n
    OBVIOUS
  <2>2. \A j \in 0..n : g[j] = IF j = 0 THEN FdDefaults
                               ELSE Apply(g[j - 1], redirects[j], snapshot)
    BY <1>4, <1>5, <2>1 DEF Iterates
  <2> QED
    BY <1>5, <2>2
<1>7. Is(f)
  BY <1>6
<1> HIDE DEF f
<1>8. f[0] = FdDefaults /\ \A j \in 1..n : f[j] = Apply(f[j - 1], redirects[j], snapshot)
  BY <1>7
<1> HIDE DEF Is
<1> DEFINE Silent == ~snapshot /\ \A k \in 1..n : ~OnStdout(redirects[k])
           T == {j \in 0..n : f[j] \in Resolved /\ (Silent => ~f[j].has_shared)}
<1>9. n \in T
  <2>1. 0 \in T
    BY <1>1, <1>8
  <2>2. \A j \in 1..n : j - 1 \in T => j \in T
    <3> SUFFICES ASSUME NEW j \in 1..n, f[j - 1] \in Resolved,
                        Silent => ~f[j - 1].has_shared
                 PROVE  f[j] \in Resolved /\ (Silent => ~f[j].has_shared)
      OBVIOUS
    <3> QED
      BY <1>2, <1>8, ApplyFacts
  <2> HIDE DEF T
  <2>3. 0..n \subseteq T
    BY <2>1, <2>2, Induction
  <2> QED
    BY <2>3
<1>10. f[n] \in Resolved /\ (Silent => ~f[n].has_shared)
  BY <1>9
<1> QED
  BY <1>10 DEF f, Is

LEMMA ResolveFacts ==
  ASSUME NEW redirects \in RedirectLists, NEW is_last \in BOOLEAN
  PROVE  /\ Resolve(redirects, is_last) \in Resolved
         /\ ~is_last /\ (\A k \in DOMAIN redirects : ~OnStdout(redirects[k]))
              => ~Resolve(redirects, is_last).has_shared
<1>1. PICK n \in 0..MaxRedirects : redirects \in [1..n -> Redirect]
  BY DEF RedirectLists
<1>2. n \in Nat /\ DOMAIN redirects = 1..n
  BY <1>1
<1>3. redirects \in Seq(Redirect)
  BY <1>1, <1>2
<1>4. Len(redirects) = n
  BY <1>2, <1>3, LenProperties
<1> DEFINE snapshot == is_last /\ has_later_stdout_file(redirects)
<1>5. snapshot \in BOOLEAN /\ (~is_last => ~snapshot)
  BY DEF has_later_stdout_file
<1> HIDE DEF snapshot
<1>6. LET After[j \in 0..n] ==
            IF j = 0 THEN FdDefaults ELSE Apply(After[j - 1], redirects[j], snapshot)
      IN /\ After[n] \in Resolved
         /\ (~snapshot /\ \A k \in 1..n : ~OnStdout(redirects[k]))
              => ~After[n].has_shared
  BY <1>1, <1>2, <1>5, ResolveByRecursion
<1>7. Resolve(redirects, is_last) =
        LET After[j \in 0..n] ==
              IF j = 0 THEN FdDefaults
              ELSE Apply(After[j - 1], redirects[j], snapshot)
        IN After[n]
  BY <1>4 DEF Resolve, ResolveFirst, snapshot
<1> QED
  BY <1>2, <1>5, <1>6, <1>7

(* A plan has one entry per stage, and only the last one may share.        *)
LEMMA PlanFacts ==
  ASSUME NEW lists \in Commands
  PROVE  LET f == [i \in DOMAIN lists |-> Resolve(lists[i], i = Len(lists))]
         IN /\ Len(lists) \in Stages /\ Len(f) = Len(lists)
            /\ f \in [1..Len(lists) -> FdPlan]
            /\ \A i \in 1..Len(lists) :
                 f[i] \in Resolved /\ (i < Len(lists) => ~f[i].has_shared)
<1>1. PICK n \in Stages : lists \in [1..n -> RedirectLists]
  BY DEF Commands
<1>2. n \in Nat
  BY <1>1, StageFacts
<1>3. Len(lists) = n /\ DOMAIN lists = 1..n
  <2>1. lists \in Seq(RedirectLists)
    BY <1>1, <1>2
  <2> QED
    BY <1>1, <1>2, <2>1, LenProperties
<1> DEFINE f == [i \in DOMAIN lists |-> Resolve(lists[i], i = Len(lists))]
<1>4. ASSUME NEW i \in 1..n
      PROVE  f[i] \in Resolved /\ (i < n => ~f[i].has_shared)
  <2>1. lists[i] \in RedirectLists /\ (i = n) \in BOOLEAN
        /\ f[i] = Resolve(lists[i], i = n)
    BY <1>1, <1>3
  <2>2. i < n => i # n /\ \A k \in DOMAIN lists[i] : ~OnStdout(lists[i][k])
    BY <1>2, <1>3 DEF Commands, Allowed
  <2> HIDE DEF f
  <2> QED
    BY <2>1, <2>2, ResolveFacts
<1>5. f \in [1..n -> FdPlan]
  <2>1. \A i \in 1..n : f[i] \in FdPlan
    BY <1>4 DEF Resolved
  <2> QED
    BY <1>3, <2>1
<1>6. f \in Seq(FdPlan) /\ DOMAIN f = 1..n
  BY <1>2, <1>5
<1> HIDE DEF f
<1>7. Len(f) = n
  BY <1>2, <1>6, LenProperties
<1> QED
  BY <1>1, <1>3, <1>4, <1>5, <1>7 DEF f

LEMMA LaunchedCount ==
  ASSUME NEW k \in 0..MaxStages, LaunchedFirst(k)
  PROVE  Launched = k /\ Following = k + 1
<1>1. {i \in Stages : proc[i] # "none"} = 1..k
  BY StageFacts DEF LaunchedFirst, Stages
<1>2. Cardinality(1..k) = k
  BY FS_Interval, StageFacts
<1> QED
  BY <1>1, <1>2 DEF Launched, Following

LEMMA InitInv == Init => IInv
<1> SUFFICES ASSUME Init PROVE IInv
  OBVIOUS
<1>1. N = 0 /\ pc = "plan" /\ ends = {} /\ plan = <<>>
  BY DEF Init, N
<1>2. Planned
  BY <1>1, StageFacts DEF Planned, Pcs
<1>3. Waited
  BY <1>1, StageFacts DEF Init, Waited, States, LaunchedFirst
<1>4. Holdings
  BY <1>1 DEF Holdings, HeldBy
<1> QED
  BY <1>2, <1>3, <1>4 DEF IInv

(* The ends that launching a stage adds to those of the server.            *)
LEMMA ParentFacts ==
  ASSUME NEW i \in Stages
  PROVE  /\ \A e \in ChildEnds(i) : e[3] # Server
         /\ ParentEnds(i) \subseteq
              {<<Out(i), "r", Server>>, <<Err(i), "r", Server>>} \cup Feeder
<1>1. StdoutPipes(i) \subseteq {Out(i), Shared(i)}
  BY DEF StdoutPipes
<1>2. StderrPipes(i) \subseteq {Out(i), Err(i), Shared(i)}
  BY <1>1 DEF StderrPipes
<1>3. \A e \in ChildEnds(i) : e[3] # Server
  BY StageFacts DEF ChildEnds, Server
<1>4. ParentEnds(i) \subseteq
        {<<Out(i), "r", Server>>, <<Err(i), "r", Server>>} \cup Feeder
  BY <1>1, <1>2 DEF ParentEnds, Feeder
<1> QED
  BY <1>3, <1>4

(* The ends MayHold names are different ends.                              *)
LEMMA EndFacts ==
  /\ \A i : In # Out(i) /\ In # Err(i) /\ In # Shared(i)
  /\ \A i, j : Out(i) # Err(j) /\ Out(i) # Shared(j) /\ Err(i) # Shared(j)
  /\ \A i, j : i # j => Out(i) # Out(j) /\ Err(i) # Err(j)
  BY DEF In, Out, Err, Shared

-----------------------------------------------------------------------------
LEMMA PlanStep ==
  ASSUME IInv, NEW lists \in Commands, NEW stdin, Plan(lists, stdin)
  PROVE  IInv'
<1>1. /\ pc = "plan" /\ pc' = "launch" /\ N' = Len(lists) /\ N' \in Stages
      /\ UNCHANGED proc /\ HeldBy(Server) = {}
  BY PlanFacts DEF Plan, N, IInv, Holdings
<1>2. ends' = IF plan'[N'].has_shared THEN SharedEnds(N') ELSE {}
  BY <1>1 DEF Plan
<1>3. ends' \subseteq SharedPlanned'
  BY <1>1, <1>2, StageFacts DEF SharedPlanned, has_shared, N, SharedEnds
<1>4. Planned'
  BY <1>1, StageFacts DEF Planned, Pcs, Stages
<1>5. Waited'
  BY <1>1, StageFacts DEF IInv, Waited, LaunchedFirst
<1>6. Holdings'
  BY <1>1, <1>3 DEF Holdings, MayHold, HeldBy
<1> QED
  BY <1>4, <1>5, <1>6 DEF IInv

LEMMA PlanFailsStep ==
  ASSUME IInv, NEW lists \in Commands,
         (\E k \in 1..MaxRedirects : PlanFails(lists, k)) \/ StdinTaken(lists)
  PROVE  IInv'
<1>1. /\ pc = "plan" /\ pc' = "done" /\ result' = "error"
      /\ UNCHANGED <<plan, proc>> /\ plan = <<>>
      /\ \E n \in Stages : ends' \subseteq SharedEnds(n)
  BY PlanFacts, StageFacts DEF PlanFails, StdinTaken, IInv, Planned
<1>2. Planned'
  BY <1>1 DEF IInv, Planned, Pcs, N
<1>3. Waited'
  BY <1>1, StageFacts DEF IInv, Waited, LaunchedFirst, NoneLeft
<1>4. PlanLeaks'
  BY <1>1 DEF PlanLeaks
<1>5. LeftAtAnswer'
  BY <1>1, <1>4 DEF LeftAtAnswer, HeldBy
<1>6. Holdings'
  BY <1>1, <1>5 DEF Holdings
<1> QED
  BY <1>2, <1>3, <1>6 DEF IInv

LEMMA LaunchStep == ASSUME IInv, Launch PROVE IInv'
<1>1. pc = "launch" /\ N \in 1..MaxStages /\ UNCHANGED <<plan, result>> /\ N' = N
  BY DEF Launch, IInv, Planned, N
<1>2. PICK k \in 0..(N - 1) : LaunchedFirst(k)
  BY <1>1 DEF IInv, Waited
<1>3. Launched = k /\ Following = k + 1 /\ k + 1 \in Stages /\ k \in Nat
  BY <1>1, <1>2, LaunchedCount, StageFacts DEF Stages
<1>4. /\ proc' = [proc EXCEPT ![k + 1] = "running"]
      /\ ends' = (ends \cup ChildEnds(k + 1) \cup ParentEnds(k + 1))
                 \ {<<Out(k), "r", Server>>}
      /\ pc' = IF k + 1 = N THEN "communicate" ELSE "launch"
  BY <1>3 DEF Launch
<1>5. LaunchedFirst(k + 1)' /\ proc' \in [Stages -> States]
  BY <1>2, <1>3, <1>4, StageFacts DEF LaunchedFirst, IInv, Waited, States
<1>6. HeldBy(Server)' \subseteq MayHold(k + 1)'
  <2>1. HeldBy(Server) \subseteq MayHold(k)
    BY <1>1, <1>2, <1>3 DEF IInv, Holdings
  <2>2. HeldBy(Server)' \subseteq (HeldBy(Server) \cup ParentEnds(k + 1))
                                  \ {<<Out(k), "r", Server>>}
    BY <1>3, <1>4, ParentFacts DEF HeldBy
  <2>3. SharedPlanned' = SharedPlanned
    BY <1>1 DEF SharedPlanned, has_shared, N, SharedEnds
  <2>4. (MayHold(k) \cup ParentEnds(k + 1)) \ {<<Out(k), "r", Server>>}
          \subseteq MayHold(k + 1)
    BY <1>3, ParentFacts DEF MayHold
  <2>5. MayHold(k + 1)' = MayHold(k + 1)
    BY <2>3 DEF MayHold, Feeder
  <2> QED
    BY <2>1, <2>2, <2>4, <2>5
<1>7. \A j \in Nat : LaunchedFirst(j)' /\ j < N => j = k + 1
  BY <1>1, <1>3, <1>5, StageFacts DEF LaunchedFirst, Stages
<1>8. Planned'
  BY <1>1, <1>4 DEF IInv, Planned, Pcs
<1>9. Waited'
  BY <1>1, <1>3, <1>4, <1>5 DEF Waited
<1>10. Holdings'
  BY <1>1, <1>4, <1>6, <1>7 DEF Holdings
<1> QED
  BY <1>8, <1>9, <1>10 DEF IInv

LEMMA KilledFacts ==
  ASSUME IInv, proc' = Killed
  PROVE  NoneLeft' /\ proc' \in [Stages -> States]
  BY DEF Killed, NoneLeft, States

(* What of the server's ends is left where only NotStages is kept.         *)
LEMMA KeptFacts ==
  HeldBy(Server) \subseteq NotStages /\ {e \in NotStages : e[3] = Server} = HeldBy(Server)
  BY StageFacts DEF NotStages, HeldBy, Server

LEMMA LaunchFailsStep == ASSUME IInv, LaunchFails PROVE IInv'
<1>1. /\ pc = "launch" /\ pc' = "done" /\ N \in 1..MaxStages
      /\ UNCHANGED plan /\ N' = N /\ proc' = Killed
  BY DEF LaunchFails, IInv, Planned, N
<1>2. PICK k \in 0..(N - 1) : LaunchedFirst(k)
  BY <1>1 DEF IInv, Waited
<1>3. HeldBy(Server) \subseteq MayHold(k) /\ k \in Nat
  BY <1>1, <1>2 DEF IInv, Holdings
<1> DEFINE escapes == N > 1 /\ has_shared
<1>4. /\ result' = IF escapes THEN "escaped" ELSE "error"
      /\ ends' = (NotStages \ HeldBy(Server)) \cup FeederEnds
                 \cup IF escapes THEN SharedEnds(N) ELSE {}
  BY DEF LaunchFails
<1>5. FeederEnds \subseteq IF k >= 1 THEN Feeder ELSE {}
  <2>1. \A e \in MayHold(k) : e[1] = In => e \in IF k >= 1 THEN Feeder ELSE {}
    <3>1. \A e \in SharedPlanned : e[1] # In
      BY EndFacts DEF SharedPlanned, SharedEnds
    <3> QED
      BY <3>1, EndFacts DEF MayHold
  <2> QED
    BY <1>3, <2>1 DEF FeederEnds
<1>6. HeldBy(Server)' \subseteq FeederEnds \cup IF escapes THEN SharedEnds(N) ELSE {}
  BY <1>4, KeptFacts DEF HeldBy
<1>7. LeftAtAnswer'
  <2>1. FeederEnds \subseteq IF N > 1 THEN Feeder ELSE {}
    BY <1>1, <1>2, <1>5
  <2>2. N \in Stages
    BY <1>1, StageFacts
  <2>3. escapes => result' = "escaped" /\ N \in Stages
    BY <1>4, <2>2
  <2> HIDE DEF escapes
  <2> QED
    BY <1>1, <1>6, <2>1, <2>3 DEF LeftAtAnswer, Feeder, SharedEnds
<1>8. Planned'
  BY <1>1 DEF IInv, Planned, Pcs
<1>9. Waited'
  BY <1>1, KilledFacts DEF Waited
<1>10. Holdings'
  BY <1>1, <1>7 DEF Holdings
<1> QED
  BY <1>8, <1>9, <1>10 DEF IInv

LEMMA CommunicatesStep == ASSUME IInv, Communicates PROVE IInv'
<1>1. /\ pc = "communicate" /\ N \in 1..MaxStages /\ N \in Stages
      /\ UNCHANGED plan /\ N' = N /\ Complete
      /\ proc' = [proc EXCEPT ![N] = "collected"]
      /\ ends' = ends \ LastEnds
      /\ pc' = CASE N > 1 -> "reap" [] N = 1 /\ has_shared -> "read"
                 [] OTHER -> "done"
  BY StageFacts DEF Communicates, IInv, Planned, N
<1>2. LaunchedFirst(N) /\ HeldBy(Server) \subseteq MayHold(N)
  BY <1>1 DEF IInv, Waited, Holdings
<1>3. proc' \in [Stages -> States]
  BY <1>1 DEF IInv, Waited, States
<1>4. SharedPlanned' = SharedPlanned /\ MayHold(N)' = MayHold(N)
  BY <1>1 DEF SharedPlanned, MayHold, has_shared, N, SharedEnds, Feeder
<1>5. HeldBy(Server)' = HeldBy(Server) \ LastEnds
  BY <1>1 DEF HeldBy, LastEnds
<1>6. CASE N > 1
  <2>1. pc' = "reap"
    BY <1>1, <1>6
  <2>2. Planned' /\ Waited'
    BY <1>1, <1>3, <1>6, <2>1 DEF IInv, Planned, Pcs, Waited
  <2>3. Holdings'
    BY <1>1, <1>2, <1>4, <1>5, <2>1 DEF Holdings
  <2> QED
    BY <2>2, <2>3 DEF IInv
<1>7. CASE N = 1
  <2>1. NoneLeft'
    BY <1>1, <1>2, <1>3, <1>7, StageFacts DEF NoneLeft, LaunchedFirst, IInv, Waited
  <2>2. <<In, "w", Server>> \notin ends
    BY <1>1, <1>7 DEF Complete, Feeds, Holds
  <2>3. HeldBy(Server) \ LastEnds \subseteq SharedPlanned
    <3>1. \A i \in 1..N : i = 1
      BY <1>7
    <3>2. MayHold(N) \subseteq SharedPlanned \cup {<<Out(1), "r", Server>>}
                     \cup {<<Err(1), "r", Server>>} \cup {<<In, "w", Server>>}
      BY <1>7, <3>1 DEF MayHold, Feeder
    <3>3. \A e \in HeldBy(Server) : e \in ends
      BY DEF HeldBy
    <3>4. \A e \in HeldBy(Server) : e[1] \in {Out(1), Err(1)} => e \in LastEnds
      BY <1>7 DEF LastEnds, LastPipes
    <3> QED
      BY <1>2, <2>2, <3>2, <3>3, <3>4
  <2>4. CASE has_shared
    <3>1. pc' = "read" /\ SharedPlanned = SharedEnds(1)
      BY <1>1, <1>7, <2>4 DEF SharedPlanned
    <3>2. Planned' /\ Waited'
      BY <1>1, <1>3, <1>7, <2>1, <3>1 DEF IInv, Planned, Pcs, Waited
    <3>3. Holdings'
      BY <1>5, <2>3, <3>1 DEF Holdings, SharedEnds
    <3> QED
      BY <3>2, <3>3 DEF IInv
  <2>5. CASE ~has_shared
    <3>1. pc' = "done" /\ SharedPlanned = {}
      BY <1>1, <1>7, <2>5 DEF SharedPlanned
    <3>2. Planned' /\ Waited'
      BY <1>1, <1>3, <1>7, <2>1, <3>1 DEF IInv, Planned, Pcs, Waited
    <3>3. Holdings'
      BY <1>5, <2>3, <3>1 DEF Holdings, LeftAtAnswer
    <3> QED
      BY <3>2, <3>3 DEF IInv
  <2> QED
    BY <2>4, <2>5
<1> QED
  BY <1>1, <1>6, <1>7

LEMMA TimesOutStep == ASSUME IInv, TimesOut PROVE IInv'
<1>1. /\ pc = "communicate" /\ N \in 1..MaxStages /\ UNCHANGED plan /\ N' = N
  BY DEF TimesOut, IInv, Planned, N
<1>2. CASE N = 1
  <2>1. /\ proc' = Killed /\ pc' = "done" /\ ends' = NotStages \ HeldBy(Server)
    BY <1>2 DEF TimesOut
  <2>2. HeldBy(Server)' = {}
    BY <2>1, KeptFacts DEF HeldBy
  <2>3. Planned' /\ Waited'
    BY <1>1, <2>1, KilledFacts DEF IInv, Planned, Pcs, Waited
  <2>4. Holdings'
    BY <2>1, <2>2 DEF Holdings, LeftAtAnswer
  <2> QED
    BY <2>3, <2>4 DEF IInv
<1>3. CASE N # 1
  <2>1. pc' = "reap" /\ UNCHANGED <<proc, ends>> /\ N > 1
    BY <1>1, <1>3 DEF TimesOut
  <2>2. Planned' /\ Waited'
    BY <1>1, <2>1 DEF IInv, Planned, Pcs, Waited
  <2>3. HeldBy(Server)' = HeldBy(Server) /\ MayHold(N)' = MayHold(N)
    BY <1>1, <2>1 DEF HeldBy, MayHold, SharedPlanned, has_shared, N,
                      SharedEnds, Feeder
  <2>4. Holdings'
    BY <1>1, <2>1, <2>3 DEF IInv, Holdings
  <2> QED
    BY <2>2, <2>4 DEF IInv
<1> QED
  BY <1>2, <1>3

LEMMA ReadsSharedStep == ASSUME IInv, ReadsShared PROVE IInv'
<1>1. /\ pc = "read" /\ pc' = "done" /\ UNCHANGED <<plan, proc>> /\ N' = N
      /\ ends' = ends \ SharedEnds(1)
  BY DEF ReadsShared, N
<1>2. HeldBy(Server)' = {}
  BY <1>1 DEF IInv, Holdings, HeldBy
<1>3. Planned' /\ Waited'
  BY <1>1 DEF IInv, Planned, Pcs, Waited, NoneLeft
<1>4. Holdings'
  BY <1>1, <1>2 DEF Holdings, LeftAtAnswer
<1> QED
  BY <1>3, <1>4 DEF IInv

LEMMA CollectSteps == ASSUME IInv, Reap \/ Join PROVE IInv'
<1>1. /\ UNCHANGED plan /\ N' = N
      /\ \/ pc = "reap" /\ pc' = "join" /\ proc' = Killed /\ ends' = NotStages
         \/ pc = "join" /\ pc' = "close" /\ UNCHANGED <<proc, ends>>
  BY DEF Reap, Join, N
<1>2. HeldBy(Server)' = HeldBy(Server) /\ MayHold(N)' = MayHold(N)
  BY <1>1, KeptFacts DEF HeldBy, MayHold, SharedPlanned, has_shared, N,
                         SharedEnds, Feeder
<1>3. Planned'
  BY <1>1 DEF IInv, Planned, Pcs
<1>4. Waited'
  BY <1>1, KilledFacts DEF IInv, Waited, NoneLeft
<1>5. Holdings'
  BY <1>1, <1>2 DEF IInv, Holdings
<1> QED
  BY <1>3, <1>4, <1>5 DEF IInv

LEMMA CloseStep == ASSUME IInv, Close PROVE IInv'
<1>1. /\ pc = "close" /\ pc' = "done" /\ UNCHANGED <<plan, proc>> /\ N' = N
      /\ N \in Stages /\ N > 1
      /\ ends' = ends \ LastEnds /\ (has_shared => result' = "escaped")
  BY StageFacts DEF Close, IInv, Planned, N
<1>2. Planned' /\ Waited'
  BY <1>1 DEF IInv, Planned, Pcs, Waited, NoneLeft
<1>3. HeldBy(Server) \subseteq MayHold(N)
  BY <1>1 DEF IInv, Holdings
<1>4. HeldBy(Server)' \subseteq
        SharedPlanned \cup Feeder \cup {<<Err(i), "r", Server>> : i \in 1..(N - 1)}
  <2>1. HeldBy(Server)' = HeldBy(Server) \ LastEnds
    BY <1>1 DEF HeldBy
  <2>2. \A e \in HeldBy(Server) : e[1] \in {Out(N), Err(N)} => e \in LastEnds
    BY DEF LastEnds, LastPipes
  <2>3. \A i \in 1..N : i = N \/ i \in 1..(N - 1)
    BY <1>1, StageFacts
  <2> QED
    BY <1>3, <2>1, <2>2, <2>3 DEF MayHold
<1>5. LeftAtAnswer'
  <2>1. SharedPlanned \subseteq IF result' = "escaped"
                                THEN UNION {SharedEnds(i) : i \in Stages} ELSE {}
    BY <1>1 DEF SharedPlanned
  <2> QED
    BY <1>1, <1>4, <2>1 DEF LeftAtAnswer, Feeder, SharedEnds
<1>6. Holdings'
  BY <1>1, <1>5 DEF Holdings
<1> QED
  BY <1>2, <1>6 DEF IInv

-----------------------------------------------------------------------------
(* Threads and programs leave the calling thread where it is, close ends   *)
(* of the server or leave them, and end stages that run.                   *)
Beside ==
  /\ UNCHANGED caller
  /\ HeldBy(Server)' \subseteq HeldBy(Server)
  /\ proc' = proc \/ \E i \in Stages : /\ proc[i] = "running"
                                       /\ proc' = [proc EXCEPT ![i] = "zombie"]

LEMMA BesideStep == ASSUME IInv, Beside PROVE IInv'
<1>1. UNCHANGED <<pc, result, plan, first>> /\ N' = N
  BY DEF Beside, caller, N
<1>2. Planned'
  BY <1>1 DEF IInv, Planned
<1>3. /\ proc' \in [Stages -> States]
      /\ \A i \in Stages : proc'[i] # "none" <=> proc[i] # "none"
      /\ NoneLeft => proc' = proc
  BY DEF IInv, Waited, Beside, States, NoneLeft
<1>4. \A k : LaunchedFirst(k)' <=> LaunchedFirst(k)
  BY <1>3 DEF LaunchedFirst
<1>5. Waited'
  <2>1. NoneLeft => NoneLeft'
    BY <1>3 DEF NoneLeft
  <2> QED
    BY <1>1, <1>3, <1>4, <2>1 DEF IInv, Waited
<1>6. /\ \A k : MayHold(k)' = MayHold(k)
      /\ SharedEnds(1)' = SharedEnds(1)
      /\ HeldBy(Server)' \subseteq HeldBy(Server)
  BY <1>1 DEF MayHold, SharedPlanned, has_shared, N, SharedEnds, Feeder, Beside
<1>7. LeftAtAnswer => LeftAtAnswer'
  BY <1>1, <1>6 DEF LeftAtAnswer, PlanLeaks
<1>8. Holdings'
  BY <1>1, <1>4, <1>6, <1>7 DEF IInv, Holdings
<1> QED
  BY <1>2, <1>5, <1>8 DEF IInv

LEMMA ThreadsBeside == Threads => Beside
  BY DEF Threads, Feed, FeedEnd, Drain, DrainEnd, Beside, HeldBy, caller

LEMMA ProgramsBeside == Programs => Beside
<1> SUFFICES ASSUME NEW i \in Stages,
                    \/ \E w \in {"read", "out", "err"} : Starts(i, w)
                    \/ \E p \in Pipes : Reads(i, p) \/ Writes(i, p)
                    \/ \E forked \in BOOLEAN : Exits(i, forked)
                    \/ HelperExits(i)
             PROVE  Beside
  BY DEF Programs
<1>1. CASE \E w \in {"read", "out", "err"} : Starts(i, w)
  BY <1>1 DEF Starts, Beside, HeldBy, caller
<1>2. CASE \E p \in Pipes : Reads(i, p) \/ Writes(i, p)
  BY <1>2 DEF Reads, Writes, Beside, HeldBy, caller
<1>3. CASE \E forked \in BOOLEAN : Exits(i, forked)
  <2>1. PICK forked \in BOOLEAN : Exits(i, forked)
    BY <1>3
  <2>2. /\ UNCHANGED caller /\ proc[i] = "running"
        /\ proc' = [proc EXCEPT ![i] = "zombie"]
    BY <2>1 DEF Exits, Running
  <2>3. \A e \in ends' : e \in ends \/ e[3] = Helper(i)
    BY <2>1 DEF Exits
  <2>4. HeldBy(Server)' \subseteq HeldBy(Server)
    BY <2>3, StageFacts DEF HeldBy
  <2> QED
    BY <2>2, <2>4 DEF Beside
<1>4. CASE HelperExits(i)
  BY <1>4 DEF HelperExits, Beside, HeldBy, caller
<1> QED
  BY <1>1, <1>2, <1>3, <1>4

LEMMA StepInv == IInv /\ [Next]_vars => IInv'
<1> SUFFICES ASSUME IInv, [Next]_vars PROVE IInv'
  OBVIOUS
<1>1. CASE \E lists \in Commands :
             \/ \E stdin \in {"inherit", "file", "bytes"} : Plan(lists, stdin)
             \/ \E k \in 1..MaxRedirects : PlanFails(lists, k)
             \/ StdinTaken(lists)
  BY <1>1, PlanStep, PlanFailsStep
<1>2. CASE Launch \/ LaunchFails
  BY <1>2, LaunchStep, LaunchFailsStep
<1>3. CASE Communicates \/ TimesOut \/ ReadsShared
  BY <1>3, CommunicatesStep, TimesOutStep, ReadsSharedStep
<1>4. CASE Reap \/ Join \/ Close
  BY <1>4, CollectSteps, CloseStep
<1>5. CASE \E p \in Pipes : ReadsOutput(p)
  <2>1. Beside
    BY <1>5 DEF ReadsOutput, Beside, HeldBy, caller
  <2> QED
    BY <2>1, BesideStep
<1>6. CASE Threads \/ Programs
  BY <1>6, ThreadsBeside, ProgramsBeside, BesideStep
<1>7. CASE UNCHANGED vars
  <2>1. Beside
    BY <1>7 DEF vars, Beside, HeldBy, caller
  <2> QED
    BY <2>1, BesideStep
<1> QED
  BY <1>1, <1>2, <1>3, <1>4, <1>5, <1>6, <1>7 DEF Next, Caller

-----------------------------------------------------------------------------
(* Every stage has been waited for when the call is answered, by an error  *)
(* of the plan or the launch, a timeout or the exit of its last stage.     *)
THEOREM StagesAreWaitedFor == Spec => []NoStageLeft
<1>1. IInv => NoStageLeft
  BY DEF IInv, Waited, NoneLeft, NoStageLeft
<1> QED
  BY <1>1, InitInv, StepInv, PTL DEF Spec

(* The server is left with no end of a pipe but those a thread holds that  *)
(* a process outliving its stage keeps from its end, and the shared pipe   *)
(* of the failures that _build_pipeline_plan and the close loop leak.      *)
THEOREM EndsAreClosed == Spec => []Tidy
<1>1. IInv => Tidy
  <2> SUFFICES ASSUME IInv, pc = "done"
               PROVE  HeldBy(Server) \subseteq
                        ThreadEnds \cup IF result = "escaped" \/ PlanLeaks
                                        THEN UNION {SharedEnds(i) : i \in Stages}
                                        ELSE {}
    BY DEF Tidy
  <2>1. LeftAtAnswer /\ N \in 0..MaxStages
    BY DEF IInv, Holdings, Planned
  <2>2. N > 1 => HeldBy(Server) \cap Feeder \subseteq ThreadEnds
    BY DEF Feeder, ThreadEnds
  <2>3. ASSUME NEW i \in 1..(N - 1), <<Err(i), "r", Server>> \in HeldBy(Server)
        PROVE  <<Err(i), "r", Server>> \in ThreadEnds
    <3>1. i < N /\ i \in Stages
      BY <2>1, StageFacts DEF Stages
    <3>2. Drains(i)
      BY <2>3, <3>1 DEF Drains, Holds, HeldBy
    <3> QED
      BY <2>3, <3>1, <3>2 DEF ThreadEnds
  <2> QED
    BY <2>1, <2>2, <2>3 DEF LeftAtAnswer
<1> QED
  BY <1>1, InitInv, StepInv, PTL DEF Spec

-----------------------------------------------------------------------------
(* Who holds which end.  A second layer over IInv: what each pipe is for   *)
(* (Targets, Wired), and that what holds an end or is in the middle of a   *)
(* read or write runs and has a pipe for it (Alive).                       *)
HelperEnds(i) == {<<e[1], e[2], Helper(i)>> : e \in ChildEnds(i)}
SharedOnes == UNION {SharedEnds(i) : i \in Stages}

Types ==
  /\ result \in {"none", "ok", "error", "timeout", "escaped"}
  /\ plan \in UNION {[1..n -> FdPlan] : n \in 0..MaxStages}
  /\ first \in {"inherit", "file", "bytes"} /\ input \in 0..MaxInput
  /\ fill \in [Pipes -> 0..Cap]
  /\ wants \in [Stages -> {"none", "read", "out", "err"}]
  /\ ops \in [Stages -> 0..MaxOps]

Targets ==
  \A i \in 1..N : plan[i] \in Resolved /\ (i < N => ~plan[i].has_shared)

Wired ==
  \A e \in ends :
    \/ e \in SharedOnes
    \/ \E i \in 1..N : e \in ChildEnds(i) \cup HelperEnds(i) \cup ParentEnds(i)

Alive ==
  \A i \in Stages :
    /\ HeldBy(i) # {} => proc[i] = "running"
    /\ wants[i] # "none" => proc[i] = "running"
    /\ wants[i] = "read" => StdinPipes(i) # {}
    /\ wants[i] \in {"out", "err"} => WritesTo(i) # {}

Uncollected ==
  pc \in {"launch", "communicate"} => \A i \in Stages : proc[i] # "collected"

Wiring == Types /\ Targets /\ Wired /\ Alive /\ Uncollected

LEMMA PipesOfStage ==
  ASSUME NEW i \in Stages
  PROVE  /\ StdoutPipes(i) \subseteq {Out(i), Shared(i)}
         /\ StderrPipes(i) \subseteq {Out(i), Err(i), Shared(i)}
         /\ StdinPipes(i) \subseteq IF i = 1 THEN {In} ELSE {Out(i - 1)}
         /\ i > 1 => StdinPipes(i) = {Out(i - 1)}
         /\ StdoutPipes(i) \cup StderrPipes(i) \cup StdinPipes(i) \subseteq Pipes
         /\ {In, Out(i), Err(i), Shared(i)} \subseteq Pipes
         /\ i > 1 => i - 1 \in Stages
<1>1. StdoutPipes(i) \subseteq {Out(i), Shared(i)}
  BY DEF StdoutPipes
<1>2. StderrPipes(i) \subseteq {Out(i), Err(i), Shared(i)}
  BY <1>1 DEF StderrPipes
<1>3. i \in Nat /\ i >= 1 /\ (i > 1 => i - 1 \in Stages)
  BY StageFacts DEF Stages
<1>4. /\ StdinPipes(i) \subseteq IF i = 1 THEN {In} ELSE {Out(i - 1)}
      /\ i > 1 => StdinPipes(i) = {Out(i - 1)}
  BY <1>3 DEF StdinPipes
<1>5. /\ {In, Out(i), Err(i), Shared(i)} \subseteq Pipes
      /\ \A j \in Stages : Out(j) \in Pipes
  BY StageFacts DEF Pipes, In, Out, Err, Shared
<1> QED
  BY <1>1, <1>2, <1>3, <1>4, <1>5

LEMMA SamePlan ==
  ASSUME UNCHANGED <<plan, first>>
  PROVE  /\ N' = N /\ SharedOnes' = SharedOnes /\ has_shared' = has_shared
         /\ \A i : /\ StdinPipes(i)' = StdinPipes(i)
                   /\ StdoutPipes(i)' = StdoutPipes(i)
                   /\ StderrPipes(i)' = StderrPipes(i)
                   /\ ChildEnds(i)' = ChildEnds(i)
                   /\ HelperEnds(i)' = HelperEnds(i)
                   /\ ParentEnds(i)' = ParentEnds(i)
<1>1. N' = N /\ has_shared' = has_shared
  BY DEF N, has_shared
<1>2. \A i : /\ StdinPipes(i)' = StdinPipes(i)
            /\ StdoutPipes(i)' = StdoutPipes(i)
            /\ StderrPipes(i)' = StderrPipes(i)
  BY DEF StdinPipes, StdoutPipes, StderrPipes
<1>3. \A i : ChildEnds(i)' = ChildEnds(i) /\ ParentEnds(i)' = ParentEnds(i)
  BY <1>2 DEF ChildEnds, ParentEnds
<1>4. \A i : HelperEnds(i)' = HelperEnds(i)
  BY <1>3 DEF HelperEnds
<1> QED
  BY <1>1, <1>2, <1>3, <1>4 DEF SharedOnes, SharedEnds

(* An end of a stage, of a process it left behind, of the server.          *)
LEMMA ChildEndFacts ==
  ASSUME NEW i \in Stages, NEW e \in ChildEnds(i)
  PROVE  /\ e[3] = i /\ e = <<e[1], e[2], i>>
         /\ \/ e[2] = "r" /\ e[1] \in StdinPipes(i)
            \/ e[2] = "w" /\ e[1] \in StdoutPipes(i) \cup StderrPipes(i)
  BY DEF ChildEnds

LEMMA HelperEndFacts ==
  ASSUME NEW i \in Stages, NEW e \in HelperEnds(i)
  PROVE  /\ e[3] = Helper(i) /\ e = <<e[1], e[2], Helper(i)>>
         /\ \/ e[2] = "r" /\ e[1] \in StdinPipes(i)
            \/ e[2] = "w" /\ e[1] \in StdoutPipes(i) \cup StderrPipes(i)
<1>1. PICK c \in ChildEnds(i) : e = <<c[1], c[2], Helper(i)>>
  BY DEF HelperEnds
<1> QED
  BY <1>1, ChildEndFacts

LEMMA ParentEndFacts ==
  ASSUME NEW i \in Stages, NEW e \in ParentEnds(i)
  PROVE  /\ e[3] = Server /\ e = <<e[1], e[2], Server>>
         /\ \/ e[2] = "r" /\ e[1] \in {Out(i), Err(i)}
            \/ e[2] = "w" /\ e[1] = In
<1>1. StdoutPipes(i) \cup StderrPipes(i) \subseteq {Out(i), Err(i), Shared(i)}
  BY PipesOfStage
<1>2. \/ \E p \in (StdoutPipes(i) \cup StderrPipes(i)) \ {Shared(i)} :
             e = <<p, "r", Server>>
      \/ e = <<In, "w", Server>>
  BY DEF ParentEnds
<1> QED
  BY <1>1, <1>2

LEMMA SharedEndFacts ==
  ASSUME NEW e \in SharedOnes
  PROVE  e[3] = Server /\ \E i \in Stages : e[1] = Shared(i) /\ e[2] \in {"r", "w"}
                                        /\ e = <<Shared(i), e[2], Server>>
  BY DEF SharedOnes, SharedEnds

LEMMA HolderFacts ==
  /\ \A i \in Stages : i # Server /\ Helper(i) # Server
  /\ \A i, j \in Stages : Helper(i) # j
  /\ \A i \in Stages : {i, Helper(i), Server} \subseteq -MaxStages..MaxStages
  BY StageFacts DEF Stages, Helper, Server

(* Who can hold an end of which pipe.                                      *)
NextTo(i) == IF i < N THEN {i + 1, Helper(i + 1)} ELSE {}

LEMMA Holders ==
  ASSUME IInv, Wired, NEW e \in ends
  PROVE  /\ e \in Pipes \X {"r", "w"} \X (-MaxStages..MaxStages)
         /\ \A i \in Stages : e[3] = i => e \in ChildEnds(i) /\ i <= N
         /\ e[1] = In => e[3] \in IF e[2] = "w" THEN {Server} ELSE {1, Helper(1)}
         /\ \A i \in Stages :
              /\ e[1] = Err(i) => e[3] \in IF e[2] = "w" THEN {i, Helper(i)}
                                          ELSE {Server}
              /\ e[1] = Out(i) => e[3] \in IF e[2] = "w" THEN {i, Helper(i)}
                                          ELSE {Server} \cup NextTo(i)
         /\ e[2] \in {"r", "w"}
<1>1. N \in 0..MaxStages /\ N \in Nat /\ 1..N \subseteq Stages
  BY StageFacts DEF IInv, Planned, Stages
<1>2. \A i \in Stages : i \in Nat /\ i - 1 + 1 = i
  BY StageFacts
<1>3. CASE e \in SharedOnes
  <2>1. PICK i \in Stages : e = <<Shared(i), e[2], Server>> /\ e[2] \in {"r", "w"}
                             /\ e[1] = Shared(i) /\ e[3] = Server
    BY <1>3, SharedEndFacts
  <2>2. Shared(i) \in Pipes
    BY PipesOfStage
  <2> QED
    BY <2>1, <2>2, HolderFacts, EndFacts
<1>4. ASSUME NEW i \in 1..N, e \in ParentEnds(i)
      PROVE  /\ e = <<e[1], e[2], Server>> /\ e[3] = Server
             /\ \/ e[2] = "r" /\ e[1] \in {Out(i), Err(i)}
                \/ e[2] = "w" /\ e[1] = In
             /\ e[1] \in Pipes /\ i \in Stages
  BY <1>1, <1>4, ParentEndFacts, PipesOfStage
<1>5. CASE \E i \in 1..N : e \in ParentEnds(i)
  BY <1>4, <1>5, HolderFacts, EndFacts
<1>6. ASSUME NEW i \in 1..N, e \in ChildEnds(i) \cup HelperEnds(i)
      PROVE  /\ e = <<e[1], e[2], e[3]>> /\ e[3] \in {i, Helper(i)} /\ e[1] \in Pipes
             /\ \/ e[2] = "r" /\ e[1] = IF i = 1 THEN In ELSE Out(i - 1)
                \/ e[2] = "w" /\ e[1] \in {Out(i), Err(i), Shared(i)}
             /\ i \in Stages
             /\ e[3] = i => e \in ChildEnds(i)
  <2>1. i \in Stages
    BY <1>1
  <2>2. /\ StdoutPipes(i) \cup StderrPipes(i) \subseteq {Out(i), Err(i), Shared(i)}
        /\ StdinPipes(i) \subseteq IF i = 1 THEN {In} ELSE {Out(i - 1)}
        /\ StdoutPipes(i) \cup StderrPipes(i) \cup StdinPipes(i) \subseteq Pipes
    BY <2>1, PipesOfStage
  <2>3. CASE e \in ChildEnds(i)
    BY <2>1, <2>2, <2>3, ChildEndFacts
  <2>4. CASE e \in HelperEnds(i)
    BY <2>1, <2>2, <2>4, HelperEndFacts, HolderFacts
  <2> QED
    BY <1>6, <2>3, <2>4
<1>7. ASSUME NEW i \in 1..N, e \in ChildEnds(i) \cup HelperEnds(i)
      PROVE  /\ e \in Pipes \X {"r", "w"} \X (-MaxStages..MaxStages)
             /\ \A j \in Stages : e[3] = j => e \in ChildEnds(j) /\ j <= N
             /\ e[1] = In => e[3] \in IF e[2] = "w" THEN {Server} ELSE {1, Helper(1)}
             /\ \A j \in Stages :
                  /\ e[1] = Err(j) => e[3] \in IF e[2] = "w" THEN {j, Helper(j)}
                                              ELSE {Server}
                  /\ e[1] = Out(j) => e[3] \in IF e[2] = "w" THEN {j, Helper(j)}
                                              ELSE {Server} \cup NextTo(j)
             /\ e[2] \in {"r", "w"}
  <2> USE <1>6, <1>7
  <2>1. e \in Pipes \X {"r", "w"} \X (-MaxStages..MaxStages)
    BY HolderFacts
  <2>2. \A j \in Stages : e[3] = j => e \in ChildEnds(j) /\ j <= N
    BY <1>1, HolderFacts
  <2>3. e[1] = In => e[3] \in IF e[2] = "w" THEN {Server} ELSE {1, Helper(1)}
    BY EndFacts
  <2>4. ASSUME NEW j \in Stages
        PROVE  /\ e[1] = Err(j) => e[3] \in IF e[2] = "w" THEN {j, Helper(j)}
                                              ELSE {Server}
               /\ e[1] = Out(j) => e[3] \in IF e[2] = "w" THEN {j, Helper(j)}
                                              ELSE {Server} \cup NextTo(j)
    BY <1>1, <1>2, EndFacts DEF NextTo
  <2> QED
    BY <2>1, <2>2, <2>3, <2>4
<1> QED
  BY <1>3, <1>5, <1>7 DEF Wired

LEMMA WiringInit == Init => Wiring
<1> SUFFICES ASSUME Init PROVE Wiring
  OBVIOUS
<1>1. N = 0 /\ pc = "plan" /\ ends = {} /\ plan = <<>>
  BY DEF Init, N
<1>2. Types
  <2>1. <<>> \in [1..0 -> FdPlan] /\ 0 \in 0..MaxStages
    BY StageFacts
  <2>2. plan \in UNION {[1..n -> FdPlan] : n \in 0..MaxStages}
    BY <1>1, <2>1
  <2> QED
    BY <2>2, BoundsAssumption DEF Init, Types
<1>3. Targets /\ Wired /\ Uncollected
  BY <1>1 DEF Targets, Wired, Uncollected
<1>4. Alive
  BY <1>1 DEF Alive, HeldBy, Init
<1> QED
  BY <1>2, <1>3, <1>4 DEF Wiring

(* Steps that change the variables as Types says.                          *)
LEMMA TypesPlan ==
  ASSUME IInv, Types, NEW lists \in Commands, NEW stdin \in {"inherit", "file", "bytes"},
         Plan(lists, stdin)
  PROVE  Types'
<1>1. Len(lists) \in Stages /\ plan' \in [1..Len(lists) -> FdPlan]
  BY PlanFacts DEF Plan
<1>2. Len(lists) \in 0..MaxStages
  BY <1>1, StageFacts
<1>3. plan' \in UNION {[1..n -> FdPlan] : n \in 0..MaxStages}
  BY <1>1, <1>2
<1>4. PICK n \in 0..MaxInput : input' = IF stdin = "bytes" THEN n ELSE 0
  BY DEF Plan
<1>5. input' \in 0..MaxInput
  BY <1>4, BoundsAssumption
<1> QED
  BY <1>3, <1>5 DEF Plan, Types

LEMMA TypesCaller ==
  ASSUME IInv, Types,
         \/ \E lists \in Commands, k \in 1..MaxRedirects : PlanFails(lists, k)
         \/ \E lists \in Commands : StdinTaken(lists)
         \/ Launch \/ LaunchFails \/ Communicates \/ TimesOut
         \/ (\E p \in Pipes : ReadsOutput(p))
         \/ ReadsShared \/ Reap \/ Join \/ Close
  PROVE  Types'
<1>1. CASE (\E lists \in Commands, k \in 1..MaxRedirects : PlanFails(lists, k))
           \/ (\E lists \in Commands : StdinTaken(lists)) \/ Launch
  BY <1>1 DEF PlanFails, StdinTaken, Launch, Types
<1>2. CASE LaunchFails \/ Reap
  BY <1>2 DEF LaunchFails, Reap, Types
<1>3. CASE Communicates
  BY <1>3 DEF Communicates, Types
<1>4. CASE TimesOut
  <2>1. wants' \in [Stages -> {"none", "read", "out", "err"}]
    BY <1>4 DEF TimesOut, Types
  <2> QED
    BY <1>4, <2>1 DEF TimesOut, Types
<1>5. CASE \E p \in Pipes : ReadsOutput(p)
  <2>1. PICK p \in Pipes : ReadsOutput(p)
    BY <1>5
  <2>2. fill[p] - 1 \in 0..Cap
    BY <2>1, BoundsAssumption DEF ReadsOutput, Types
  <2>3. fill' \in [Pipes -> 0..Cap]
    BY <2>1, <2>2 DEF ReadsOutput, Types
  <2> QED
    BY <2>1, <2>3 DEF ReadsOutput, Types, caller
<1>6. CASE ReadsShared
  <2>1. 0 \in 0..Cap
    BY BoundsAssumption
  <2>2. fill' \in [Pipes -> 0..Cap]
    BY <1>6, <2>1 DEF ReadsShared, Types
  <2> QED
    BY <1>6, <2>2 DEF ReadsShared, Types
<1>7. CASE Join \/ Close
  BY <1>7 DEF Join, Close, Types
<1> QED
  BY <1>1, <1>2, <1>3, <1>4, <1>5, <1>6, <1>7

LEMMA TypesBeside == ASSUME IInv, Types, Threads \/ Programs PROVE Types'
<1>1. UNCHANGED <<result, plan, first>>
  BY DEF Threads, Feed, FeedEnd, Drain, DrainEnd, Programs, Starts, Reads,
         Writes, Exits, HelperExits, caller
<1>2. ASSUME NEW p \in Pipes, NEW n \in 0..Cap, fill' = [fill EXCEPT ![p] = n]
      PROVE  fill' \in [Pipes -> 0..Cap]
  BY <1>2 DEF Types
<1>3. CASE Feed
  <2>1. In \in Pipes
    BY StageFacts, PipesOfStage
  <2>2. fill[In] + 1 \in 0..Cap /\ input' \in 0..MaxInput
    BY <1>3, <2>1, BoundsAssumption DEF Feed, FeedGuard, Types
  <2> QED
    BY <1>1, <1>2, <1>3, <2>1, <2>2 DEF Feed, Types
<1>4. CASE FeedEnd \/ \E i \in Stages : DrainEnd(i)
  BY <1>1, <1>4 DEF FeedEnd, DrainEnd, Types
<1>5. CASE \E i \in Stages : Drain(i)
  <2>1. PICK i \in Stages : Drain(i)
    BY <1>5
  <2>2. Err(i) \in Pipes
    BY PipesOfStage
  <2>3. fill[Err(i)] - 1 \in 0..Cap
    BY <2>1, <2>2, BoundsAssumption DEF Drain, Types
  <2> QED
    BY <1>1, <1>2, <2>1, <2>2, <2>3 DEF Drain, Types
<1>6. CASE \E i \in Stages, w \in {"read", "out", "err"} : Starts(i, w)
  <2>1. PICK i \in Stages, w \in {"read", "out", "err"} : Starts(i, w)
    BY <1>6
  <2>2. ops[i] + 1 \in 0..MaxOps
    BY <2>1, BoundsAssumption DEF Starts, Types
  <2> QED
    BY <1>1, <2>1, <2>2 DEF Starts, Types
<1>7. CASE \E i \in Stages, p \in Pipes : Reads(i, p)
  <2>1. PICK i \in Stages, p \in Pipes : Reads(i, p)
    BY <1>7
  <2> DEFINE n == IF fill[p] > 0 THEN fill[p] - 1 ELSE 0
  <2>2. n \in 0..Cap /\ fill' = [fill EXCEPT ![p] = n]
    BY <2>1, BoundsAssumption DEF Reads, Types
  <2> QED
    BY <1>1, <1>2, <2>1, <2>2 DEF Reads, Types
<1>8. CASE \E i \in Stages, p \in Pipes : Writes(i, p)
  <2>1. PICK i \in Stages, p \in Pipes : Writes(i, p)
    BY <1>8
  <2>2. fill[p] + 1 \in 0..Cap
    BY <2>1, BoundsAssumption DEF Writes, WriteGuard, Types
  <2> QED
    BY <1>1, <1>2, <2>1, <2>2 DEF Writes, Types
<1>9. CASE \E i \in Stages : HelperExits(i) \/ \E forked \in BOOLEAN : Exits(i, forked)
  BY <1>1, <1>9 DEF HelperExits, Exits, Types
<1> QED
  BY <1>3, <1>4, <1>5, <1>6, <1>7, <1>8, <1>9 DEF Threads, Programs

LEMMA TypesStep == ASSUME IInv, Types, [Next]_vars PROVE Types'
<1>1. CASE UNCHANGED vars
  BY <1>1 DEF vars, caller, Types
<1> QED
  BY <1>1, TypesPlan, TypesCaller, TypesBeside DEF Next, Caller

-----------------------------------------------------------------------------
(* A step that adds no end but to the shared pipe and to processes left    *)
(* behind, and in which a stage keeps what it is doing or does nothing.    *)
LEMMA Ebbs ==
  ASSUME IInv, Wiring, Types', Uncollected', UNCHANGED <<plan, first>>,
         \A e \in ends' : \/ e \in ends \/ e \in SharedOnes
                          \/ \E i \in 1..N : e \in HelperEnds(i),
         \A i \in Stages :
           /\ HeldBy(i)' = {} \/ proc'[i] = proc[i]
           /\ \/ wants'[i] = "none"
              \/ wants'[i] = wants[i] /\ proc'[i] = proc[i]
  PROVE  Wiring'
<1>1. Targets'
  BY SamePlan DEF Wiring, Targets
<1>2. Wired'
  BY SamePlan DEF Wiring, Wired
<1>3. N \in 0..MaxStages /\ 1..N \subseteq Stages
  BY StageFacts DEF IInv, Planned, Stages
<1>4. \A i \in Stages : HeldBy(i)' \subseteq HeldBy(i)
  <2>1. ASSUME NEW i \in Stages, NEW e \in ends', e[3] = i
        PROVE  e \in ends
    BY <1>3, <2>1, SharedEndFacts, HelperEndFacts, HolderFacts
  <2> QED
    BY <2>1 DEF HeldBy
<1>5. Alive'
  <2> SUFFICES ASSUME NEW i \in Stages
               PROVE  /\ HeldBy(i)' # {} => proc'[i] = "running"
                      /\ wants'[i] # "none" => proc'[i] = "running"
                      /\ wants'[i] = "read" => StdinPipes(i)' # {}
                      /\ wants'[i] \in {"out", "err"} => WritesTo(i)' # {}
    BY DEF Alive
  <2>1. wants'[i] = wants[i] => WritesTo(i)' = WritesTo(i)
    BY SamePlan DEF WritesTo
  <2>2. /\ HeldBy(i) # {} => proc[i] = "running"
        /\ wants[i] # "none" => proc[i] = "running"
        /\ wants[i] = "read" => StdinPipes(i) # {}
        /\ wants[i] \in {"out", "err"} => WritesTo(i) # {}
    BY DEF Wiring, Alive
  <2>3. StdinPipes(i)' = StdinPipes(i)
    BY SamePlan
  <2> QED
    BY <1>4, <2>1, <2>2, <2>3
<1> QED
  BY <1>1, <1>2, <1>5 DEF Wiring

LEMMA WiringPlan ==
  ASSUME IInv, Wiring, Types', NEW lists \in Commands,
         \/ \E stdin : Plan(lists, stdin)
         \/ (\E k \in 1..MaxRedirects : PlanFails(lists, k)) \/ StdinTaken(lists)
  PROVE  Wiring'
<1>1. /\ pc = "plan" /\ UNCHANGED <<proc, wants>> /\ LaunchedFirst(0)
      /\ Len(lists) \in Stages
      /\ ends' \subseteq SharedEnds(Len(lists)) \cup SharedEnds(1)
  <2>1. Len(lists) \in Stages
    BY PlanFacts
  <2>2. pc = "plan" /\ UNCHANGED <<proc, wants>>
    BY DEF Plan, PlanFails, StdinTaken
  <2>3. ends' \subseteq SharedEnds(Len(lists)) \cup SharedEnds(1)
    BY DEF Plan, PlanFails, StdinTaken
  <2> QED
    BY <2>1, <2>2, <2>3 DEF IInv, Waited
<1>2. \A i \in Stages : proc'[i] = "none" /\ wants'[i] = "none"
  BY <1>1, StageFacts DEF LaunchedFirst, Wiring, Alive
<1>3. ends' \subseteq SharedOnes
  BY <1>1, StageFacts DEF SharedOnes
<1>4. SharedOnes' = SharedOnes
  BY DEF SharedOnes, SharedEnds
<1>5. \A i \in Stages : HeldBy(i)' = {}
  BY <1>3, SharedEndFacts, HolderFacts DEF HeldBy
<1>6. Wired' /\ Alive' /\ Uncollected'
  BY <1>2, <1>3, <1>4, <1>5 DEF Wired, Alive, Uncollected
<1>7. Targets'
  <2>1. CASE \E stdin : Plan(lists, stdin)
    <3>1. plan' = [i \in DOMAIN lists |-> Resolve(lists[i], i = Len(lists))]
      BY <2>1 DEF Plan
    <3>2. Len(plan') = Len(lists)
          /\ \A i \in 1..Len(lists) :
               plan'[i] \in Resolved /\ (i < Len(lists) => ~plan'[i].has_shared)
      BY <3>1, PlanFacts
    <3> QED
      BY <3>2 DEF Targets, N
  <2>2. CASE (\E k \in 1..MaxRedirects : PlanFails(lists, k)) \/ StdinTaken(lists)
    BY <2>2 DEF PlanFails, StdinTaken, Wiring, Targets, N
  <2> QED
    BY <2>1, <2>2
<1> QED
  BY <1>6, <1>7 DEF Wiring

LEMMA WiringLaunch == ASSUME IInv, Wiring, Types', Launch PROVE Wiring'
<1>1. pc = "launch" /\ N \in 1..MaxStages /\ UNCHANGED <<plan, first, wants>>
  BY DEF Launch, IInv, Planned, N
<1>2. PICK k \in 0..(N - 1) : LaunchedFirst(k)
  BY <1>1 DEF IInv, Waited
<1>3. Launched = k /\ Following = k + 1 /\ k + 1 \in Stages /\ k \in Nat
      /\ k + 1 \in 1..N
  BY <1>1, <1>2, LaunchedCount, StageFacts DEF Stages
<1> DEFINE i == k + 1
<1>4. /\ proc' = [proc EXCEPT ![i] = "running"]
      /\ \A e \in ends' : e \in ends \cup ChildEnds(i) \cup ParentEnds(i)
  BY <1>3 DEF Launch
<1>5. proc[i] = "none" /\ i \in Stages /\ i \in 1..N
  BY <1>2, <1>3 DEF LaunchedFirst
<1> HIDE DEF i
<1>6. \A j \in Stages : proc'[j] = IF j = i THEN "running" ELSE proc[j]
  BY <1>4 DEF IInv, Waited
<1>7. Targets'
  BY <1>1, SamePlan DEF Wiring, Targets
<1>8. Wired'
  BY <1>1, <1>4, <1>5, SamePlan DEF Wiring, Wired
<1>9. Uncollected'
  BY <1>1, <1>6 DEF Wiring, Uncollected
<1>10. Alive'
  <2> SUFFICES ASSUME NEW j \in Stages
               PROVE  /\ HeldBy(j)' # {} => proc'[j] = "running"
                      /\ wants'[j] # "none" => proc'[j] = "running"
                      /\ wants'[j] = "read" => StdinPipes(j)' # {}
                      /\ wants'[j] \in {"out", "err"} => WritesTo(j)' # {}
    BY DEF Alive
  <2>1. /\ HeldBy(j) # {} => proc[j] = "running"
        /\ wants[j] # "none" => proc[j] = "running"
        /\ wants[j] = "read" => StdinPipes(j) # {}
        /\ wants[j] \in {"out", "err"} => WritesTo(j) # {}
    BY DEF Wiring, Alive
  <2>2. j # i => HeldBy(j)' \subseteq HeldBy(j)
    BY <1>4, <1>5, ChildEndFacts, ParentEndFacts, HolderFacts DEF HeldBy
  <2>3. StdinPipes(j)' = StdinPipes(j) /\ WritesTo(j)' = WritesTo(j)
    BY <1>1, SamePlan DEF WritesTo
  <2> QED
    BY <1>1, <1>6, <2>1, <2>2, <2>3
<1> QED
  BY <1>7, <1>8, <1>9, <1>10 DEF Wiring

(* Nothing of a stage is kept by NotStages.                                *)
LEMMA KilledEnds ==
  ASSUME NEW i \in Stages, \A e \in ends' : e \in NotStages \/ e \in SharedOnes
  PROVE  HeldBy(i)' = {}
  BY SharedEndFacts, HolderFacts DEF NotStages, HeldBy

LEMMA WiringKills ==
  ASSUME IInv, Wiring, Types', LaunchFails \/ Reap \/ (TimesOut /\ N = 1)
  PROVE  Wiring'
<1>1. /\ UNCHANGED <<plan, first>> /\ pc' \notin {"launch", "communicate"}
      /\ \A i \in Stages : wants'[i] = "none"
  <2>1. CASE LaunchFails \/ Reap
    BY <2>1 DEF LaunchFails, Reap
  <2>2. CASE TimesOut /\ N = 1
    <3>1. wants' = [wants EXCEPT ![1] = "none"]
      BY <2>2 DEF TimesOut
    <3>2. \A i \in Stages : i # 1 => proc[i] = "none"
      BY <2>2, StageFacts DEF TimesOut, IInv, Waited, LaunchedFirst
    <3>3. \A i \in Stages : i # 1 => wants[i] = "none"
      BY <3>2 DEF Wiring, Alive
    <3> QED
      BY <2>2, <3>1, <3>3 DEF TimesOut, Wiring, Types
  <2> QED
    BY <2>1, <2>2
<1>2. \A e \in ends' : e \in NotStages \/ e \in SharedOnes
  <2>1. NotStages \subseteq ends /\ HeldBy(Server) \subseteq NotStages
    BY KeptFacts DEF NotStages
  <2>2. CASE LaunchFails
    <3>1. N \in Stages
      BY <2>2, StageFacts DEF LaunchFails, IInv, Planned
    <3>2. SharedEnds(N) \subseteq SharedOnes
      BY <3>1 DEF SharedOnes
    <3> QED
      BY <2>1, <2>2, <3>2 DEF LaunchFails, FeederEnds
  <2>3. CASE Reap \/ (TimesOut /\ N = 1)
    BY <2>3 DEF Reap, TimesOut
  <2> QED
    BY <2>2, <2>3
<1>3. \A i \in Stages : HeldBy(i)' = {}
  BY <1>2, KilledEnds
<1>4. \A e \in ends' : e \in ends \/ e \in SharedOnes
  BY <1>2 DEF NotStages
<1>5. Uncollected'
  BY <1>1 DEF Uncollected
<1> QED
  BY <1>1, <1>3, <1>4, <1>5, Ebbs

LEMMA WiringExits ==
  ASSUME IInv, Wiring, Types', NEW i \in Stages, NEW forked \in BOOLEAN,
         Exits(i, forked)
  PROVE  Wiring'
<1>1. /\ UNCHANGED <<plan, first, pc>> /\ proc[i] = "running"
      /\ \A j \in Stages : j # i => proc'[j] = proc[j] /\ wants'[j] = wants[j]
      /\ proc'[i] = "zombie" /\ wants'[i] = "none"
  BY DEF Exits, Running, caller, IInv, Waited, Wiring, Types
<1>2. \A e \in ends' : \/ e \in ends \ HeldBy(i)
                       \/ \E h \in HeldBy(i) : e = <<h[1], h[2], Helper(i)>>
  BY DEF Exits
<1>3. \A h \in HeldBy(i) : h \in ChildEnds(i) /\ i \in 1..N
  BY Holders, StageFacts DEF Wiring, HeldBy, IInv, Planned
<1>4. \A e \in ends' : e \in ends \/ \E j \in 1..N : e \in HelperEnds(j)
  BY <1>2, <1>3 DEF HelperEnds
<1>5. HeldBy(i)' = {}
  BY <1>2, HolderFacts DEF HeldBy
<1>6. Uncollected'
  BY <1>1 DEF Wiring, Uncollected
<1> QED
  BY <1>1, <1>4, <1>5, <1>6, Ebbs

LEMMA WiringStarts ==
  ASSUME IInv, Wiring, Types', NEW i \in Stages, NEW w \in {"read", "out", "err"},
         Starts(i, w)
  PROVE  Wiring'
<1>1. /\ UNCHANGED <<plan, first, pc, ends, proc>> /\ proc[i] = "running"
      /\ wants' = [wants EXCEPT ![i] = w]
      /\ w = "read" => StdinPipes(i) # {}
      /\ w = "out" => StdoutPipes(i) # {}
      /\ w = "err" => StderrPipes(i) # {}
  BY DEF Starts, Running, caller
<1>2. Targets' /\ Wired' /\ Uncollected'
  BY <1>1, SamePlan DEF Wiring, Targets, Wired, Uncollected
<1>3. Alive'
  <2> SUFFICES ASSUME NEW j \in Stages
               PROVE  /\ HeldBy(j)' # {} => proc'[j] = "running"
                      /\ wants'[j] # "none" => proc'[j] = "running"
                      /\ wants'[j] = "read" => StdinPipes(j)' # {}
                      /\ wants'[j] \in {"out", "err"} => WritesTo(j)' # {}
    BY DEF Alive
  <2>1. /\ HeldBy(j) # {} => proc[j] = "running"
        /\ wants[j] # "none" => proc[j] = "running"
        /\ wants[j] = "read" => StdinPipes(j) # {}
        /\ wants[j] \in {"out", "err"} => WritesTo(j) # {}
        /\ wants \in [Stages -> {"none", "read", "out", "err"}]
    BY DEF Wiring, Alive, Types
  <2>2. /\ StdinPipes(j)' = StdinPipes(j) /\ HeldBy(j)' = HeldBy(j)
        /\ StdoutPipes(j)' = StdoutPipes(j) /\ StderrPipes(j)' = StderrPipes(j)
    BY <1>1, SamePlan DEF HeldBy
  <2>3. CASE j = i
    <3>1. wants'[j] = w
      BY <1>1, <2>1, <2>3
    <3>2. w \in {"out", "err"} => WritesTo(j)' # {}
      BY <1>1, <2>2, <2>3, <3>1 DEF WritesTo
    <3> QED
      BY <1>1, <2>1, <2>2, <2>3, <3>1, <3>2
  <2>4. CASE j # i
    <3>1. wants'[j] = wants[j]
      BY <1>1, <2>1, <2>4
    <3>2. WritesTo(j)' = WritesTo(j)
      BY <2>2, <3>1 DEF WritesTo
    <3> QED
      BY <1>1, <2>1, <2>2, <3>1, <3>2
  <2> QED
    BY <2>3, <2>4
<1> QED
  BY <1>2, <1>3 DEF Wiring

(* The steps that only take ends away and leave the stages alone, but for  *)
(* one that has read or written, or that was waited for.                   *)
LEMMA WiringRest ==
  ASSUME IInv, Wiring, Types',
         \/ Threads \/ (\E p \in Pipes : ReadsOutput(p)) \/ ReadsShared \/ Join \/ Close
         \/ Communicates \/ (TimesOut /\ N # 1)
         \/ (\E i \in Stages, p \in Pipes : Reads(i, p) \/ Writes(i, p))
         \/ (\E i \in Stages : HelperExits(i))
         \/ UNCHANGED vars
  PROVE  Wiring'
<1> DEFINE Calm == /\ UNCHANGED <<plan, first>> /\ ends' \subseteq ends
                   /\ pc' = pc \/ pc' \notin {"launch", "communicate"}
<1>1. ASSUME Calm, UNCHANGED <<proc, wants>> PROVE Wiring'
  <2>1. Uncollected'
    BY <1>1 DEF Wiring, Uncollected
  <2> QED
    BY <1>1, <2>1, Ebbs
<1>2. CASE Threads
  BY <1>1, <1>2 DEF Threads, Feed, FeedEnd, Drain, DrainEnd, caller
<1>3. CASE (\E p \in Pipes : ReadsOutput(p)) \/ ReadsShared \/ Join \/ Close
           \/ (TimesOut /\ N # 1) \/ UNCHANGED vars
  BY <1>1, <1>3 DEF ReadsOutput, ReadsShared, Join, Close, TimesOut, caller, vars
<1>4. CASE \E i \in Stages : HelperExits(i)
  BY <1>1, <1>4 DEF HelperExits, caller
<1>5. ASSUME NEW i \in Stages, NEW p \in Pipes, Reads(i, p) \/ Writes(i, p)
      PROVE  Wiring'
  <2>1. /\ Calm /\ UNCHANGED proc /\ wants' = [wants EXCEPT ![i] = "none"]
    BY <1>5 DEF Reads, Writes, caller
  <2>2. \A j \in Stages : wants'[j] = "none" \/ wants'[j] = wants[j]
    BY <2>1 DEF Wiring, Types
  <2>3. Uncollected'
    BY <2>1 DEF Wiring, Uncollected
  <2> QED
    BY <2>1, <2>2, <2>3, Ebbs
<1>6. CASE Communicates
  <2>1. /\ Calm /\ pc' \notin {"launch", "communicate"} /\ UNCHANGED wants
        /\ proc' = [proc EXCEPT ![N] = "collected"] /\ proc[N] = "zombie"
        /\ N \in Stages
    BY <1>6, StageFacts DEF Communicates, Complete, IInv, Planned
  <2>2. PICK n \in Stages : n = N
    BY <2>1
  <2>3. HeldBy(n) = {} /\ wants[n] = "none"
    BY <2>1, <2>2 DEF Wiring, Alive
  <2>4. HeldBy(n)' = {}
    BY <2>1, <2>3 DEF HeldBy
  <2>5. \A i \in Stages : i # n => proc'[i] = proc[i]
    BY <2>1, <2>2 DEF IInv, Waited
  <2>6. \A i \in Stages : /\ HeldBy(i)' = {} \/ proc'[i] = proc[i]
                          /\ \/ wants'[i] = "none"
                             \/ wants'[i] = wants[i] /\ proc'[i] = proc[i]
    BY <2>1, <2>3, <2>4, <2>5
  <2>7. Uncollected'
    BY <2>1 DEF Uncollected
  <2> QED
    BY <2>1, <2>6, <2>7, Ebbs
<1> QED
  BY <1>2, <1>3, <1>4, <1>5, <1>6

LEMMA WiringStep == ASSUME IInv, Wiring, [Next]_vars PROVE Wiring'
<1>1. Types'
  BY TypesStep DEF Wiring
<1>2. CASE Caller
  BY <1>1, <1>2, WiringPlan, WiringLaunch, WiringKills, WiringRest DEF Caller
<1>3. CASE Threads \/ UNCHANGED vars
  BY <1>1, <1>3, WiringRest
<1>4. CASE Programs
  BY <1>1, <1>4, WiringStarts, WiringExits, WiringRest DEF Programs
<1> QED
  BY <1>2, <1>3, <1>4 DEF Next

LEMMA WiringTypes == IInv /\ Wiring => TypeOK
<1> SUFFICES ASSUME IInv, Wiring PROVE TypeOK
  OBVIOUS
<1>1. ends \subseteq Pipes \X {"r", "w"} \X (-MaxStages..MaxStages)
  BY Holders DEF Wiring
<1>2. proc \in [Stages -> {"none", "running", "zombie", "collected"}]
  BY DEF IInv, Waited, States
<1>3. pc \in {"plan", "launch", "communicate", "reap", "join", "close", "read", "done"}
  BY DEF IInv, Planned, Pcs
<1> QED
  BY <1>1, <1>2, <1>3 DEF Wiring, Types, TypeOK

(* The variables keep their types, whatever the redirects and however many *)
(* stages.                                                                 *)
THEOREM TypeCorrect == Spec => []TypeOK
  BY InitInv, StepInv, WiringInit, WiringStep, WiringTypes, PTL DEF Spec

-----------------------------------------------------------------------------
(* Nobody is left to wait for: with every stage running or gone and no     *)
(* process left behind, an end of a pipe tells who runs at the other one.  *)
Waiting ==
  /\ IInv /\ Wiring /\ pc = "communicate" /\ ~has_shared
  /\ \A i \in Stages : HeldBy(Helper(i)) = {}

LEMMA WaitingFacts ==
  ASSUME Waiting
  PROVE  /\ N \in Stages /\ N \in Nat /\ 1..N \subseteq Stages /\ Cap \in Nat \ {0}
         /\ \A i \in 1..N : proc[i] \in {"running", "zombie"}
         /\ fill \in [Pipes -> 0..Cap]
         /\ \A i \in Stages : proc[i] = "running" => i \in 1..N
<1>1. N \in Stages /\ N \in Nat /\ 1..N \subseteq Stages
  BY StageFacts DEF Waiting, IInv, Planned, Stages
<1>2. LaunchedFirst(N) /\ proc \in [Stages -> States]
  BY DEF Waiting, IInv, Waited
<1>3. \A i \in Stages : i \in 1..N <=> proc[i] # "none"
  BY <1>1, <1>2, StageFacts DEF LaunchedFirst, Stages
<1>4. \A i \in Stages : proc[i] # "collected"
  BY DEF Waiting, Wiring, Uncollected
<1> QED
  BY <1>1, <1>2, <1>3, <1>4, BoundsAssumption DEF States, Waiting, Wiring, Types

LEMMA Partners ==
  ASSUME Waiting
  PROVE  /\ \A i \in Stages : Readers(Err(i)) # {} => Holds(Server, Err(i), "r")
         /\ \A i \in 1..(N - 1) : Readers(Out(i)) # {} => proc[i + 1] = "running"
         /\ \A i \in 1..N : Writers(Out(i)) # {} \/ Writers(Err(i)) # {}
                              => proc[i] = "running"
         /\ Writers(In) # {} => Holds(Server, In, "w")
         /\ Readers(In) # {} => proc[1] = "running"
<1>1. \A e \in ends : \A i \in Stages : e[3] # Helper(i)
  BY DEF Waiting, HeldBy
<1>2. \A e \in ends, i \in Stages : e[3] = i => proc[i] = "running"
  BY DEF Waiting, Wiring, Alive, HeldBy
<1>3. \A e \in ends : e = <<e[1], e[2], e[3]>>
  BY Holders DEF Waiting, Wiring
<1>4. 1 \in Stages /\ \A i \in 1..(N - 1) : i \in Stages /\ i + 1 \in Stages /\ i # N
  BY WaitingFacts, StageFacts DEF Stages
<1>5. \A i \in 1..(N - 1) : <<Out(i), "r", Server>> \notin ends
  <2>1. HeldBy(Server) \subseteq MayHold(N) /\ SharedPlanned = {}
    BY DEF Waiting, IInv, Holdings, SharedPlanned
  <2>2. \A i \in 1..(N - 1) : <<Out(i), "r", Server>> \notin MayHold(N)
    BY <1>4, <2>1, EndFacts DEF MayHold, Feeder
  <2> QED
    BY <2>1, <2>2 DEF HeldBy
<1>6. ASSUME NEW i \in Stages, Readers(Err(i)) # {} PROVE Holds(Server, Err(i), "r")
  <2>1. PICK e \in ends : e[1] = Err(i) /\ e[2] = "r"
    BY <1>6 DEF Readers
  <2>2. e[3] = Server
    BY <2>1, Holders DEF Waiting, Wiring
  <2> QED
    BY <1>3, <2>1, <2>2 DEF Holds
<1>7. ASSUME NEW i \in 1..(N - 1), Readers(Out(i)) # {} PROVE proc[i + 1] = "running"
  <2>1. PICK e \in ends : e[1] = Out(i) /\ e[2] = "r"
    BY <1>7 DEF Readers
  <2>2. e[3] \in {Server, i + 1, Helper(i + 1)}
    BY <1>4, <2>1, Holders DEF Waiting, Wiring, NextTo
  <2>3. e[3] = i + 1
    BY <1>1, <1>3, <1>4, <1>5, <2>1, <2>2
  <2> QED
    BY <1>2, <1>4, <2>3
<1>8. ASSUME NEW i \in 1..N, Writers(Out(i)) # {} \/ Writers(Err(i)) # {}
      PROVE  proc[i] = "running"
  <2>1. PICK e \in ends : e[1] \in {Out(i), Err(i)} /\ e[2] = "w"
    BY <1>8 DEF Writers
  <2>2. i \in Stages
    BY WaitingFacts
  <2>3. e[3] \in {i, Helper(i)}
    BY <2>1, <2>2, Holders DEF Waiting, Wiring
  <2> QED
    BY <1>1, <1>2, <2>2, <2>3
<1>9. ASSUME Writers(In) # {} PROVE Holds(Server, In, "w")
  <2>1. PICK e \in ends : e[1] = In /\ e[2] = "w"
    BY <1>9 DEF Writers
  <2>2. e[3] = Server
    BY <2>1, Holders DEF Waiting, Wiring
  <2> QED
    BY <1>3, <2>1, <2>2 DEF Holds
<1>10. ASSUME Readers(In) # {} PROVE proc[1] = "running"
  <2>1. PICK e \in ends : e[1] = In /\ e[2] = "r"
    BY <1>10 DEF Readers
  <2>2. e[3] \in {1, Helper(1)}
    BY <2>1, Holders DEF Waiting, Wiring
  <2> QED
    BY <1>1, <1>2, <1>4, <2>2
<1> QED
  BY <1>6, <1>7, <1>8, <1>9, <1>10

(* A stage stuck in a write waits for the next stage, which then is stuck  *)
(* in a write as well: the last such stage would wait for nobody.          *)
LEMMA NoStuckWriter ==
  ASSUME Waiting, ~SomebodyMoves
  PROVE  \A i \in 1..N : proc[i] = "running" => wants[i] = "read"
<1> DEFINE Stuck == {i \in 1..N : proc[i] = "running" /\ wants[i] # "read"}
<1> SUFFICES ASSUME Stuck # {} PROVE FALSE
  OBVIOUS
<1>1. Stuck \in SUBSET (0..N) /\ N \in Nat
  BY WaitingFacts
<1>2. PICK i \in Stuck : \A j \in Stuck : j <= i
  <2> HIDE DEF Stuck
  <2> QED
    BY <1>1, Greatest
<1>3. i \in 1..N /\ i \in Stages /\ i \in Nat /\ Running(i) /\ wants[i] # "read"
  BY <1>1, WaitingFacts DEF Running
<1>4. \A p \in Pipes : wants[i] # "none" /\ ~WriteGuard(i, p) /\ ~BrokenPipe(i, p)
  BY <1>3 DEF SomebodyMoves
<1>5. wants[i] \in {"out", "err"}
  BY <1>3, <1>4, PipesOfStage DEF Waiting, Wiring, Types
<1>6. PICK p : p \in WritesTo(i)
  BY <1>3, <1>5 DEF Waiting, Wiring, Alive
<1>7. p \in {Out(i), Err(i)} /\ p \in Pipes
  <2>1. plan[i] \in Resolved /\ (i < N => ~plan[i].has_shared)
    BY <1>3 DEF Waiting, Wiring, Targets
  <2>2. ~plan[i].has_shared
    BY <1>3, <2>1, WaitingFacts DEF Waiting, has_shared
  <2>3. Unshared(plan[i])
    BY <2>1, <2>2 DEF Resolved
  <2>4. StdoutPipes(i) \subseteq {Out(i)} /\ StderrPipes(i) \subseteq {Out(i), Err(i)}
    BY <2>3 DEF Unshared, StdoutPipes, StderrPipes
  <2> QED
    BY <1>3, <1>5, <1>6, <2>4, PipesOfStage DEF WritesTo
<1>8. fill[p] = Cap /\ Readers(p) # {} /\ Cap > 0
  BY <1>4, <1>6, <1>7, WaitingFacts DEF WriteGuard, BrokenPipe
<1>9. i < N
  <2>1. \A q \in LastPipes : ~(fill[q] > 0)
    BY DEF SomebodyMoves
  <2> QED
    BY <1>3, <1>7, <1>8, <2>1, WaitingFacts DEF LastPipes
<1>10. p = Out(i)
  <2>1. CASE p = Err(i)
    <3>1. Holds(Server, Err(i), "r")
      BY <1>3, <1>8, <2>1, Partners
    <3>2. Drains(i)
      BY <1>9, <3>1 DEF Drains, Waiting
    <3>3. HeldUp(i)
      BY <1>3, <3>2 DEF SomebodyMoves
    <3> QED
      BY <1>8, <2>1, <3>3 DEF HeldUp
  <2> QED
    BY <1>7, <2>1
<1>11. i + 1 \in 1..N /\ i + 1 \in Stages /\ i \in 1..(N - 1) /\ (i + 1) - 1 = i
  BY <1>3, <1>9, WaitingFacts
<1>12. proc[i + 1] = "running"
  BY <1>8, <1>10, <1>11, Partners
<1>13. StdinPipes(i + 1) = {Out(i)}
  <2>1. i + 1 > 1
    BY <1>11
  <2> QED
    BY <1>11, <2>1, PipesOfStage
<1>14. ~ReadGuard(i + 1, Out(i))
  BY <1>7, <1>10, <1>11, <1>12 DEF SomebodyMoves, Running
<1>15. wants[i + 1] # "read"
  BY <1>8, <1>10, <1>13, <1>14 DEF ReadGuard
<1>16. i + 1 \in Stuck /\ ~(i + 1 <= i)
  BY <1>3, <1>11, <1>12, <1>15
<1> QED
  BY <1>2, <1>16

(* Then every stage that runs waits for the one before, and the first of   *)
(* them for the thread that writes stdin, which does not wait.             *)
LEMMA NoneRuns ==
  ASSUME Waiting, ~SomebodyMoves
  PROVE  \A i \in 1..N : proc[i] # "running"
<1> DEFINE Up == {i \in 1..N : proc[i] = "running"}
<1> SUFFICES ASSUME Up # {} PROVE FALSE
  OBVIOUS
<1>1. Up \in SUBSET Nat
  BY WaitingFacts
<1>2. PICK i \in Up : \A j \in Up : i <= j
  <2> HIDE DEF Up
  <2> QED
    BY <1>1, Least
<1>3. i \in 1..N /\ i \in Stages /\ i \in Nat /\ Running(i) /\ wants[i] = "read"
  BY <1>1, WaitingFacts, NoStuckWriter DEF Running
<1>4. PICK p \in StdinPipes(i) : TRUE
  BY <1>3 DEF Waiting, Wiring, Alive
<1>5. p \in Pipes /\ ~ReadGuard(i, p)
  <2>1. p \in Pipes
    BY <1>3, <1>4, PipesOfStage
  <2> QED
    BY <1>3, <2>1 DEF SomebodyMoves
<1>6. fill[p] = 0 /\ Writers(p) # {}
  BY <1>3, <1>4, <1>5, WaitingFacts DEF ReadGuard, AtEnd
<1>7. CASE i = 1
  <2>1. p = In
    BY <1>3, <1>4, <1>7, PipesOfStage
  <2>2. Feeds
    BY <1>6, <2>1, Partners DEF Feeds, Waiting
  <2>3. ~FeedGuard /\ input # 0 /\ Readers(In) # {}
    BY <2>2 DEF SomebodyMoves
  <2>4. input > 0
    BY <2>3, BoundsAssumption DEF Waiting, Wiring, Types
  <2> QED
    BY <1>6, <2>1, <2>3, <2>4, WaitingFacts DEF FeedGuard
<1>8. CASE i # 1
  <2>1. i - 1 \in 1..N /\ ~(i <= i - 1) /\ p = Out(i - 1)
    BY <1>3, <1>4, <1>8, WaitingFacts, PipesOfStage
  <2>2. i - 1 \in Up
    BY <1>6, <2>1, Partners
  <2> QED
    BY <1>2, <2>1, <2>2
<1> QED
  BY <1>7, <1>8

LEMMA Unwedged == IInv /\ Wiring => NeverWedged
<1> SUFFICES ASSUME IInv, Wiring, pc = "communicate", ~has_shared, ~SomebodyMoves
             PROVE  FALSE
  BY DEF NeverWedged
<1>1. Waiting
  BY DEF Waiting, SomebodyMoves
<1>2. N \in 1..N /\ 1 \in 1..N /\ N \in Stages /\ proc[N] = "zombie"
  <2>1. N \in Stages /\ N \in 1..N /\ 1 \in 1..N
    BY <1>1, WaitingFacts DEF Stages
  <2> QED
    BY <1>1, <2>1, WaitingFacts, NoneRuns
<1>3. \A p \in LastPipes : AtEnd(p)
  <2>1. Writers(Out(N)) = {} /\ Writers(Err(N)) = {}
    BY <1>1, <1>2, Partners
  <2>2. \A p \in LastPipes : p \in Pipes /\ ~(fill[p] > 0)
    BY <1>2, PipesOfStage DEF SomebodyMoves, LastPipes
  <2>3. \A p \in LastPipes : fill[p] = 0
    BY <1>1, <2>2, WaitingFacts
  <2> QED
    BY <2>1, <2>3 DEF AtEnd, LastPipes
<1>4. ~Feeds
  <2>1. Readers(In) = {}
    BY <1>1, <1>2, Partners, NoneRuns
  <2> QED
    BY <2>1 DEF SomebodyMoves
<1>5. Complete
  BY <1>2, <1>3, <1>4 DEF Complete
<1> QED
  BY <1>5 DEF SomebodyMoves

(* While the calling thread waits for a pipeline without a shared pipe,    *)
(* its stages, the threads and communicate() never all wait for each       *)
(* other, for any number of stages and any capacity of a pipe, unless a    *)
(* process that outlived its stage holds a pipe.                           *)
THEOREM PipelineIsNeverWedged == Spec => []NeverWedged
  BY InitInv, StepInv, WiringInit, WiringStep, Unwedged, PTL DEF Spec

-----------------------------------------------------------------------------
(* What was written and not read yet.  A third layer: bytes are in a pipe  *)
(* of the server only while the server has it open.                        *)
Answering ==
  \/ pc \in {"reap", "join", "close", "read"} /\ result = "none"
  \/ pc = "done" /\ result = "ok"

Ranked ==
  /\ pc = "plan" => \A p \in Pipes \ {In} : fill[p] = 0
  /\ pc \notin {"reap", "join", "close", "done"} => result = "none"
  /\ pc # "done" => result \in {"none", "timeout"}
  /\ \A i \in Stages : proc[i] # "none" => i <= N

SharedUse == \A i \in Stages : fill[Shared(i)] > 0 => i = N /\ has_shared

Open ==
  /\ pc # "done" => \A i \in 1..(N - 1) : fill[Err(i)] > 0 => Holds(Server, Err(i), "r")
  /\ pc \in {"launch", "communicate"} =>
       \A p \in {Out(N), Err(N)} : fill[p] > 0 => Holds(Server, p, "r")

Emptied ==
  /\ Answering => /\ N \in Stages
                  /\ \A p \in {Out(N), Err(N)} : fill[p] = 0
                  /\ proc[N] = "collected"
  /\ pc = "close" => \A i \in 1..(N - 1) : fill[Err(i)] = 0
  /\ pc = "done" /\ result = "ok" =>
       (\A i \in 1..(N - 1) : fill[Err(i)] = 0) /\ fill[Shared(N)] = 0

Unread == Ranked /\ SharedUse /\ Open /\ Emptied
UInv == IInv /\ Wiring /\ Unread

LEMMA UnreadInit == Init => Unread
<1> SUFFICES ASSUME Init PROVE Unread
  OBVIOUS
<1>1. \A i \in Stages : fill[Shared(i)] = 0
  BY PipesOfStage DEF Init
<1> QED
  BY <1>1, StageFacts DEF Init, Unread, Ranked, SharedUse, Open, Emptied, Answering, N

LEMMA OutputPipes ==
  \A i \in Stages : {Out(i), Err(i), Shared(i)} \subseteq Pipes \ {In}
  BY PipesOfStage, EndFacts

LEMMA PlanRange == ASSUME IInv PROVE N \in Nat /\ 1..N \subseteq Stages
                                     /\ \A i \in 1..(N - 1) : i \in Stages /\ i < N
  BY StageFacts DEF IInv, Planned, Stages

(* Threads and programs that write nothing but stdin.                      *)
LEMMA UnreadBeside ==
  ASSUME UInv, UNCHANGED caller,
         \A p \in Pipes \ {In} : fill'[p] \in Nat /\ fill'[p] <= fill[p],
         \A e \in HeldBy(Server) : e \in ends' \/ e[1] = In \/ fill[e[1]] = 0,
         \A i \in Stages : \/ proc'[i] = proc[i]
                           \/ proc[i] = "running" /\ proc'[i] = "zombie"
  PROVE  Unread'
<1>1. UNCHANGED <<pc, result, plan, first>> /\ N' = N /\ has_shared' = has_shared
      /\ (Answering <=> Answering')
  BY SamePlan DEF caller, Answering
<1>2. N \in Nat /\ 1..N \subseteq Stages /\ \A i \in 1..(N - 1) : i \in Stages
  BY PlanRange DEF UInv
<1>3. fill \in [Pipes -> Nat]
  BY BoundsAssumption DEF UInv, Wiring, Types
<1>4. \A p \in Pipes \ {In} : fill[p] = 0 => fill'[p] = 0
  BY <1>3
<1>5. Ranked'
  BY <1>1, <1>4 DEF UInv, Unread, Ranked
<1>6. SharedUse'
  <2>1. \A i \in Stages : fill'[Shared(i)] > 0 => fill[Shared(i)] > 0
    BY <1>3, OutputPipes
  <2> QED
    BY <1>1, <2>1 DEF UInv, Unread, SharedUse
<1>7. ASSUME NEW p \in Pipes \ {In}, fill'[p] > 0, Holds(Server, p, "r")
      PROVE  Holds(Server, p, "r")'
  <2>1. fill[p] # 0
    BY <1>4, <1>7
  <2> QED
    BY <1>7, <2>1 DEF Holds, HeldBy
<1>8. Open'
  <2>1. ASSUME pc # "done", NEW i \in 1..(N - 1), fill'[Err(i)] > 0
        PROVE  Holds(Server, Err(i), "r")'
    <3>1. Err(i) \in Pipes \ {In} /\ fill[Err(i)] > 0
      BY <1>2, <1>3, <2>1, OutputPipes
    <3> QED
      BY <1>7, <2>1, <3>1 DEF UInv, Unread, Open
  <2>2. ASSUME pc \in {"launch", "communicate"}, NEW p \in {Out(N), Err(N)}, fill'[p] > 0
        PROVE  Holds(Server, p, "r")'
    <3>1. N \in Stages
      BY <2>2, StageFacts DEF UInv, IInv, Planned
    <3>2. p \in Pipes \ {In} /\ fill[p] > 0
      BY <1>3, <2>2, <3>1, OutputPipes
    <3> QED
      BY <1>7, <2>2, <3>2 DEF UInv, Unread, Open
  <2> QED
    BY <1>1, <2>1, <2>2 DEF Open
<1>9. Emptied'
  <2>1. Answering => proc'[N] = "collected"
    BY DEF UInv, Unread, Emptied
  <2>2. \A i \in 1..(N - 1) : fill[Err(i)] = 0 => fill'[Err(i)] = 0
    BY <1>2, <1>4, OutputPipes
  <2>3. N \in Stages => \A p \in {Out(N), Err(N), Shared(N)} : fill[p] = 0 => fill'[p] = 0
    BY <1>4, OutputPipes
  <2>4. pc = "done" /\ result = "ok" => Answering
    BY DEF Answering
  <2> QED
    BY <1>1, <2>1, <2>2, <2>3, <2>4 DEF UInv, Unread, Emptied
<1> QED
  BY <1>5, <1>6, <1>8, <1>9 DEF Unread

(* A stage writes to pipes of its own, as long as somebody reads them.     *)
LEMMA UnreadWrites ==
  ASSUME UInv, NEW i \in Stages, NEW p \in Pipes, Writes(i, p)
  PROVE  Unread'
<1>1. /\ UNCHANGED <<pc, result, plan, first, ends, proc>> /\ N' = N
      /\ has_shared' = has_shared /\ (Answering <=> Answering')
      /\ fill' = [fill EXCEPT ![p] = @ + 1] /\ proc[i] = "running"
      /\ p \in WritesTo(i) /\ Readers(p) # {}
  BY SamePlan DEF Writes, WriteGuard, Running, caller, Answering
<1>2. N \in Nat /\ 1..N \subseteq Stages /\ \A j \in 1..(N - 1) : j \in Stages /\ j < N
  BY PlanRange DEF UInv
<1>3. \A q \in Pipes : q # p => fill'[q] = fill[q]
  BY <1>1 DEF UInv, Wiring, Types
<1>4. pc \in {"launch", "communicate", "reap"} /\ i \in 1..N
  <2>1. pc \notin {"read", "join", "close", "done"}
    BY <1>1 DEF UInv, IInv, Waited, NoneLeft
  <2>2. pc # "plan"
    BY <1>1, StageFacts DEF UInv, IInv, Waited, LaunchedFirst
  <2>3. i <= N
    BY <1>1 DEF UInv, Unread, Ranked
  <2> QED
    BY <1>2, <2>1, <2>2, <2>3, StageFacts DEF UInv, IInv, Planned, Pcs, Stages
<1>5. p \in {Out(i), Err(i), Shared(i)}
      /\ (p = Shared(i) => plan[i].stdout = "shared" \/ plan[i].stderr = "shared")
  <2>1. StdoutPipes(i) \subseteq {Out(i), Shared(i)}
        /\ (Shared(i) \in StdoutPipes(i) => plan[i].stdout = "shared")
    BY EndFacts DEF StdoutPipes
  <2>2. StderrPipes(i) \subseteq {Out(i), Err(i), Shared(i)}
        /\ (Shared(i) \in StderrPipes(i)
              => plan[i].stdout = "shared" \/ plan[i].stderr = "shared")
    BY <2>1, EndFacts DEF StderrPipes
  <2> QED
    BY <1>1, <2>1, <2>2 DEF WritesTo
<1>6. PICK e \in ends : e[1] = p /\ e[2] = "r"
  BY <1>1 DEF Readers
<1>7. /\ e = <<e[1], e[2], e[3]>>
      /\ \A j \in Stages : /\ p = Err(j) => e[3] = Server
                           /\ p = Out(j) /\ ~(j < N) => e[3] = Server
  <2>1. /\ e \in Pipes \X {"r", "w"} \X (-MaxStages..MaxStages)
        /\ \A j \in Stages : /\ e[1] = Err(j) => e[3] \in IF e[2] = "w" THEN {j, Helper(j)}
                                                          ELSE {Server}
                             /\ e[1] = Out(j) => e[3] \in IF e[2] = "w" THEN {j, Helper(j)}
                                                          ELSE {Server} \cup NextTo(j)
    BY <1>6, Holders DEF UInv, Wiring
  <2>2. e = <<e[1], e[2], e[3]>>
    BY <2>1
  <2>3. \A j \in Stages : p = Err(j) => e[3] = Server
    BY <1>6, <2>1
  <2>4. ASSUME NEW j \in Stages, p = Out(j), ~(j < N)
        PROVE  e[3] = Server
    BY <1>6, <2>1, <2>4 DEF NextTo
  <2> QED
    BY <2>2, <2>3, <2>4
<1>8. \A j, k \in Stages : /\ j # k => Shared(j) # Shared(k)
                           /\ \A q \in {Out(j), Err(j), Shared(j)} :
                                q \in {Out(k), Err(k), Shared(k)} => j = k
  BY EndFacts DEF Shared, Out, Err
<1>9. Ranked'
  BY <1>1, <1>4 DEF UInv, Unread, Ranked
<1>10. SharedUse'
  <2> SUFFICES ASSUME NEW j \in Stages, fill'[Shared(j)] > 0
               PROVE  j = N /\ has_shared
    BY <1>1 DEF SharedUse
  <2>1. CASE Shared(j) = p
    <3>1. j = i /\ p = Shared(i)
      BY <1>5, <1>8, <2>1, EndFacts
    <3>2. plan[i] \in Resolved /\ (i < N => ~plan[i].has_shared)
      BY <1>4 DEF UInv, Wiring, Targets
    <3>3. plan[i].has_shared
      BY <1>5, <3>1, <3>2 DEF Resolved, Unshared
    <3> QED
      BY <1>2, <1>4, <3>1, <3>2, <3>3 DEF has_shared
  <2>2. CASE Shared(j) # p
    BY <1>3, <2>2, OutputPipes DEF UInv, Unread, SharedUse
  <2> QED
    BY <2>1, <2>2
<1>11. Open'
  <2>1. ASSUME pc # "done", NEW j \in 1..(N - 1), fill'[Err(j)] > 0
        PROVE  Holds(Server, Err(j), "r")
    <3>1. CASE Err(j) = p
      BY <1>2, <1>6, <1>7, <3>1 DEF Holds
    <3>2. CASE Err(j) # p
      BY <1>2, <1>3, <2>1, <3>2, OutputPipes DEF UInv, Unread, Open
    <3> QED
      BY <3>1, <3>2
  <2>2. ASSUME pc \in {"launch", "communicate"}, NEW q \in {Out(N), Err(N)}, fill'[q] > 0
        PROVE  Holds(Server, q, "r")
    <3>1. N \in Stages /\ ~(N < N)
      BY <1>2, <1>4
    <3>2. CASE q = p
      BY <1>6, <1>7, <3>1, <3>2 DEF Holds
    <3>3. CASE q # p
      BY <1>3, <2>2, <3>1, <3>3, OutputPipes DEF UInv, Unread, Open
    <3> QED
      BY <3>2, <3>3
  <2>3. \A q : Holds(Server, q, "r")' <=> Holds(Server, q, "r")
    BY <1>1 DEF Holds
  <2> QED
    BY <1>1, <2>1, <2>2, <2>3 DEF Open
<1>12. Emptied'
  <2>1. Answering => i # N /\ N \in Stages
    BY <1>1 DEF UInv, Unread, Emptied
  <2>2. Answering => \A q \in {Out(N), Err(N)} : fill'[q] = fill[q]
    BY <1>3, <1>5, <1>8, <2>1, OutputPipes
  <2> QED
    BY <1>1, <1>4, <2>1, <2>2 DEF UInv, Unread, Emptied
<1> QED
  BY <1>9, <1>10, <1>11, <1>12 DEF Unread

LEMMA UnreadPlan ==
  ASSUME UInv, IInv', NEW lists \in Commands,
         \/ \E stdin : Plan(lists, stdin)
         \/ (\E k \in 1..MaxRedirects : PlanFails(lists, k)) \/ StdinTaken(lists)
  PROVE  Unread'
<1>1. /\ pc = "plan" /\ UNCHANGED <<fill, proc>>
      /\ \/ pc' = "launch" /\ result' = "none"
         \/ pc' = "done" /\ result' = "error"
  BY DEF Plan, PlanFails, StdinTaken, UInv, Unread, Ranked
<1>2. /\ \A i \in Stages : proc[i] = "none"
      /\ \A i \in Stages : \A p \in {Out(i), Err(i), Shared(i)} : fill[p] = 0
  BY <1>1, StageFacts, OutputPipes
     DEF UInv, IInv, Waited, LaunchedFirst, Unread, Ranked
<1>3. N' \in Nat /\ (\A i \in 1..(N' - 1) : i \in Stages) /\ (pc' = "launch" => N' \in Stages)
  <2>1. MaxStages \in Nat /\ N' \in 0..MaxStages
        /\ (pc' \notin {"plan", "done"} => N' >= 1)
    BY StageFacts DEF IInv, Planned
  <2>2. PICK n \in 0..MaxStages : n = N'
    BY <2>1
  <2>3. n \in Nat /\ (\A i \in 1..(n - 1) : i \in Stages) /\ (n >= 1 => n \in Stages)
    BY <2>1 DEF Stages
  <2> QED
    BY <2>1, <2>2, <2>3
<1>4. Ranked'
  BY <1>1, <1>2 DEF Ranked
<1>5. SharedUse'
  BY <1>1, <1>2 DEF SharedUse
<1>6. Open'
  <2>1. ASSUME NEW i \in 1..(N' - 1) PROVE fill'[Err(i)] = 0
    BY <1>1, <1>2, <1>3, <2>1
  <2>2. ASSUME pc' = "launch", NEW p \in {Out(N'), Err(N')} PROVE fill'[p] = 0
    BY <1>1, <1>2, <1>3, <2>2
  <2>3. {Out(N'), Err(N')} = {Out(N), Err(N)}'
    BY DEF Out, Err
  <2> QED
    BY <1>1, <2>1, <2>2, <2>3 DEF Open
<1>7. Emptied'
  BY <1>1 DEF Emptied, Answering
<1> QED
  BY <1>4, <1>5, <1>6, <1>7 DEF Unread

LEMMA UnreadLaunch == ASSUME UInv, Launch \/ LaunchFails PROVE Unread'
<1>1. /\ pc = "launch" /\ UNCHANGED <<plan, first, fill>> /\ N \in 1..MaxStages
      /\ N' = N /\ has_shared' = has_shared
  BY SamePlan DEF Launch, LaunchFails, UInv, IInv, Planned
<1>2. PICK k \in 0..(N - 1) : LaunchedFirst(k)
  BY <1>1 DEF UInv, IInv, Waited
<1>3. Launched = k /\ Following = k + 1 /\ k + 1 \in Stages /\ k \in Nat /\ k < N
  BY <1>1, <1>2, LaunchedCount, StageFacts DEF Stages
<1>4. SharedUse'
  BY <1>1 DEF UInv, Unread, SharedUse
<1>5. CASE LaunchFails
  <2>1. pc' = "done" /\ result' \in {"escaped", "error"} /\ proc' = Killed
    BY <1>5 DEF LaunchFails
  <2>2. ASSUME NEW i \in Stages, proc'[i] # "none" PROVE i <= N
    <3>1. proc'[i] = IF proc[i] = "none" THEN "none" ELSE "collected"
      BY <2>1 DEF Killed
    <3> QED
      BY <2>2, <3>1 DEF UInv, Unread, Ranked
  <2> QED
    BY <1>1, <1>4, <2>1, <2>2 DEF Unread, Ranked, Open, Emptied, Answering
<1>6. CASE Launch
  <2>1. /\ proc' = [proc EXCEPT ![k + 1] = "running"] /\ UNCHANGED result
        /\ pc' \in {"launch", "communicate"}
        /\ \A e \in ends : e \in ends' \/ e = <<Out(k), "r", Server>>
    BY <1>3, <1>6 DEF Launch
  <2>2. Ranked'
    <3>1. ASSUME NEW i \in Stages, proc'[i] # "none" PROVE i <= N
      <4>1. CASE i = k + 1
        BY <1>1, <1>3, <4>1
      <4>2. CASE i # k + 1
        <5>1. proc'[i] = proc[i]
          BY <2>1, <4>2 DEF UInv, IInv, Waited
        <5> QED
          BY <3>1, <5>1 DEF UInv, Unread, Ranked
      <4> QED
        BY <4>1, <4>2
    <3> QED
      BY <1>1, <2>1, <3>1 DEF UInv, Unread, Ranked
  <2>3. \A p : p # Out(k) /\ Holds(Server, p, "r") => Holds(Server, p, "r")'
    BY <2>1 DEF Holds
  <2>4. \A i : Err(i) # Out(k) /\ (i = N => Out(i) # Out(k))
    BY <1>3, EndFacts
  <2>5. Open'
    BY <1>1, <2>1, <2>3, <2>4 DEF UInv, Unread, Open
  <2> QED
    BY <1>4, <2>1, <2>2, <2>5, <1>1 DEF UInv, Unread, Ranked, Emptied, Answering
<1> QED
  BY <1>5, <1>6

LEMMA UnreadCommunicates == ASSUME UInv, Communicates PROVE Unread'
<1>1. /\ pc = "communicate" /\ UNCHANGED <<plan, first, fill>> /\ Complete
      /\ N' = N /\ has_shared' = has_shared /\ N \in Stages /\ result = "none"
      /\ proc' = [proc EXCEPT ![N] = "collected"]
      /\ ends' = ends \ LastEnds
      /\ result' = IF pc' = "done" THEN "ok" ELSE result
      /\ \/ N > 1 /\ pc' = "reap"
         \/ N = 1 /\ has_shared /\ pc' = "read"
         \/ N = 1 /\ ~has_shared /\ pc' = "done"
  BY SamePlan, StageFacts DEF Communicates, UInv, IInv, Planned, Unread, Ranked, Stages
<1>2. N \in Nat /\ \A i \in 1..(N - 1) : i \in Stages /\ i < N
  BY PlanRange DEF UInv
<1>3. \A p \in {Out(N), Err(N)} : fill[p] = 0
  <2> TAKE p \in {Out(N), Err(N)}
  <2>1. p \in Pipes /\ fill[p] \in Nat
    BY <1>1, OutputPipes, BoundsAssumption DEF UInv, Wiring, Types
  <2>2. CASE Holds(Server, p, "r")
    BY <1>1, <2>2 DEF Complete, LastPipes, AtEnd
  <2>3. CASE ~Holds(Server, p, "r")
    BY <1>1, <2>1, <2>3 DEF UInv, Unread, Open
  <2> QED
    BY <2>2, <2>3
<1>4. Ranked'
  <2>1. \A i \in Stages : proc'[i] # "none" => i <= N
    BY <1>1, <1>2 DEF UInv, Unread, Ranked, IInv, Waited
  <2> QED
    BY <1>1, <2>1 DEF UInv, Unread, Ranked
<1>5. SharedUse'
  BY <1>1 DEF UInv, Unread, SharedUse
<1>6. Open'
  <2>1. ASSUME NEW i \in 1..(N - 1), Holds(Server, Err(i), "r")
        PROVE  Holds(Server, Err(i), "r")'
    <3>1. i # N
      BY <1>2
    <3>2. Err(i) \notin LastPipes
      BY <3>1, EndFacts DEF LastPipes
    <3> QED
      BY <1>1, <2>1, <3>2 DEF Holds, LastEnds
  <2> QED
    BY <1>1, <2>1 DEF UInv, Unread, Open
<1>7. Emptied'
  <2>1. proc'[N] = "collected"
    BY <1>1 DEF UInv, IInv, Waited
  <2>2. ~has_shared => fill[Shared(N)] = 0
    <3>1. fill[Shared(N)] \in Nat
      BY <1>1, OutputPipes, BoundsAssumption DEF UInv, Wiring, Types
    <3> QED
      BY <1>1, <3>1 DEF UInv, Unread, SharedUse
  <2> QED
    BY <1>1, <1>3, <2>1, <2>2 DEF Emptied
<1> QED
  BY <1>4, <1>5, <1>6, <1>7 DEF Unread

LEMMA UnreadTimesOut == ASSUME UInv, TimesOut PROVE Unread'
<1>1. /\ pc = "communicate" /\ UNCHANGED <<plan, first, fill>>
      /\ N' = N /\ has_shared' = has_shared /\ N \in Stages
      /\ result' = "timeout" /\ pc' \in {"done", "reap"}
      /\ pc' = "reap" => UNCHANGED <<proc, ends>>
      /\ pc' = "done" => proc' = Killed
  BY SamePlan, StageFacts DEF TimesOut, UInv, IInv, Planned
<1>2. Ranked'
  <2>1. ASSUME NEW i \in Stages, proc'[i] # "none" PROVE i <= N
    <3>1. proc[i] # "none"
      BY <1>1, <2>1 DEF Killed
    <3> QED
      BY <3>1 DEF UInv, Unread, Ranked
  <2> QED
    BY <1>1, <2>1 DEF Ranked
<1>3. SharedUse'
  BY <1>1 DEF UInv, Unread, SharedUse
<1>4. Open'
  <2>1. pc' # "done" => \A p : Holds(Server, p, "r") <=> Holds(Server, p, "r")'
    BY <1>1 DEF Holds
  <2> QED
    BY <1>1, <2>1 DEF UInv, Unread, Open
<1>5. Emptied'
  BY <1>1 DEF Emptied, Answering
<1> QED
  BY <1>2, <1>3, <1>4, <1>5 DEF Unread

LEMMA UnreadReadsShared == ASSUME UInv, ReadsShared PROVE Unread'
<1>1. /\ pc = "read" /\ pc' = "done" /\ result' = "ok" /\ UNCHANGED <<plan, first, proc>>
      /\ N' = N /\ has_shared' = has_shared /\ N = 1 /\ result = "none" /\ Answering
      /\ fill' = [fill EXCEPT ![Shared(1)] = 0]
  BY SamePlan DEF ReadsShared, UInv, IInv, Planned, Unread, Ranked, Answering
<1>2. N \in Stages /\ Shared(1) \in Pipes /\ fill' \in [Pipes -> Nat]
      /\ \A p \in Pipes : fill'[p] = IF p = Shared(1) THEN 0 ELSE fill[p]
  BY <1>1, StageFacts, OutputPipes, BoundsAssumption DEF UInv, Wiring, Types
<1>3. Ranked'
  BY <1>1 DEF UInv, Unread, Ranked
<1>4. SharedUse'
  <2>1. \A i \in Stages : fill'[Shared(i)] > 0 => fill[Shared(i)] > 0
    BY <1>2, OutputPipes
  <2> QED
    BY <1>1, <2>1 DEF UInv, Unread, SharedUse
<1>5. Open'
  BY <1>1 DEF Open
<1>6. Emptied'
  <2>1. \A p \in {Out(N), Err(N)} : fill'[p] = 0
    BY <1>1, <1>2, OutputPipes DEF UInv, Unread, Emptied
  <2>2. ~\E i : i \in 1..(N - 1)
    BY <1>1
  <2>3. fill'[Shared(N)] = 0
    BY <1>1, <1>2
  <2> QED
    BY <1>1, <1>2, <2>1, <2>2, <2>3 DEF UInv, Unread, Emptied
<1> QED
  BY <1>3, <1>4, <1>5, <1>6 DEF Unread

LEMMA UnreadReap == ASSUME UInv, Reap PROVE Unread'
<1>1. /\ pc = "reap" /\ pc' = "join" /\ UNCHANGED <<result, plan, first, fill>>
      /\ N' = N /\ has_shared' = has_shared /\ (Answering <=> Answering')
      /\ proc' = Killed /\ ends' = NotStages
  BY SamePlan DEF Reap, Answering
<1>2. Ranked'
  <2>1. ASSUME NEW i \in Stages, proc'[i] # "none" PROVE i <= N
    <3>1. proc[i] # "none"
      BY <1>1, <2>1 DEF Killed
    <3> QED
      BY <3>1 DEF UInv, Unread, Ranked
  <2> QED
    BY <1>1, <2>1 DEF UInv, Unread, Ranked
<1>3. SharedUse'
  BY <1>1 DEF UInv, Unread, SharedUse
<1>4. Open'
  <2>1. \A p : Holds(Server, p, "r") => Holds(Server, p, "r")'
    BY <1>1, KeptFacts DEF Holds, HeldBy
  <2> QED
    BY <1>1, <2>1 DEF UInv, Unread, Open
<1>5. Emptied'
  <2>1. Answering => proc'[N] = "collected"
    BY <1>1 DEF UInv, Unread, Emptied, Killed
  <2> QED
    BY <1>1, <2>1 DEF UInv, Unread, Emptied
<1> QED
  BY <1>2, <1>3, <1>4, <1>5 DEF Unread

(* A thread that is not held up has read all there was before join()       *)
(* returns; one that is held up waits in front of an empty pipe.           *)
LEMMA UnreadJoin == ASSUME UInv, Join PROVE Unread'
<1>1. /\ pc = "join" /\ pc' = "close" /\ UNCHANGED <<result, plan, first, ends, fill, proc>>
      /\ N' = N /\ has_shared' = has_shared /\ (Answering <=> Answering')
      /\ \A i \in Stages : Drains(i) => fill[Err(i)] = 0
  BY SamePlan DEF Join, HeldUp, Answering
<1>2. N \in Nat /\ \A i \in 1..(N - 1) : i \in Stages /\ i < N
  BY PlanRange DEF UInv
<1>3. ASSUME NEW i \in 1..(N - 1) PROVE fill[Err(i)] = 0
  <2>1. fill[Err(i)] \in Nat
    BY <1>2, OutputPipes, BoundsAssumption DEF UInv, Wiring, Types
  <2>2. CASE Holds(Server, Err(i), "r")
    BY <1>1, <1>2, <2>2 DEF Drains
  <2>3. CASE ~Holds(Server, Err(i), "r")
    BY <1>1, <2>1, <2>3 DEF UInv, Unread, Open
  <2> QED
    BY <2>2, <2>3
<1>4. Ranked'
  BY <1>1 DEF UInv, Unread, Ranked
<1>5. SharedUse'
  BY <1>1 DEF UInv, Unread, SharedUse
<1>6. Open'
  <2>1. \A p : Holds(Server, p, "r") <=> Holds(Server, p, "r")'
    BY <1>1 DEF Holds
  <2> QED
    BY <1>1, <2>1 DEF UInv, Unread, Open
<1>7. Emptied'
  BY <1>1, <1>3 DEF UInv, Unread, Emptied
<1> QED
  BY <1>4, <1>5, <1>6, <1>7 DEF Unread

LEMMA UnreadClose == ASSUME UInv, Close PROVE Unread'
<1>1. /\ pc = "close" /\ pc' = "done" /\ UNCHANGED <<plan, first, fill, proc>>
      /\ N' = N /\ has_shared' = has_shared
      /\ result' = "ok" => ~has_shared /\ result # "timeout"
  BY SamePlan DEF Close
<1>2. Ranked'
  BY <1>1 DEF UInv, Unread, Ranked
<1>3. SharedUse'
  BY <1>1 DEF UInv, Unread, SharedUse
<1>4. Open'
  BY <1>1 DEF Open
<1>5. Emptied'
  <2> SUFFICES ASSUME result' = "ok" PROVE Emptied'
    BY <1>1 DEF Emptied, Answering
  <2>1. Answering /\ N \in Stages
    BY <1>1 DEF UInv, Unread, Ranked, Emptied, Answering
  <2>2. fill[Shared(N)] \in Nat
    BY <2>1, OutputPipes, BoundsAssumption DEF UInv, Wiring, Types
  <2>3. fill[Shared(N)] = 0
    BY <1>1, <2>1, <2>2 DEF UInv, Unread, SharedUse
  <2> QED
    BY <1>1, <2>1, <2>3 DEF UInv, Unread, Emptied
<1> QED
  BY <1>2, <1>3, <1>4, <1>5 DEF Unread

(* What only lowers what is in the pipes of the server, and closes none of *)
(* its ends of a pipe that has something in it.                            *)
LEMMA UnreadFalls ==
  ASSUME UInv, NEW p \in Pipes, UNCHANGED <<caller, ends, proc>>,
         \/ fill' = [fill EXCEPT ![p] = @ - 1] /\ fill[p] > 0
         \/ fill' = [fill EXCEPT ![p] = IF @ > 0 THEN @ - 1 ELSE 0]
         \/ fill' = [fill EXCEPT ![p] = @ + 1] /\ p = In
         \/ fill' = fill
  PROVE  Unread'
<1>1. fill \in [Pipes -> Nat]
  BY BoundsAssumption DEF UInv, Wiring, Types
<1>2. \A q \in Pipes \ {In} : fill'[q] \in Nat /\ fill'[q] <= fill[q]
  BY <1>1
<1>3. \A e \in HeldBy(Server) : e \in ends'
  BY DEF HeldBy
<1> QED
  BY <1>2, <1>3, UnreadBeside

LEMMA UnreadCloses ==
  ASSUME UInv, UNCHANGED <<caller, fill>>,
         \A e \in HeldBy(Server) : e \in ends' \/ e[1] = In \/ fill[e[1]] = 0,
         \A i \in Stages : \/ proc'[i] = proc[i]
                           \/ proc[i] = "running" /\ proc'[i] = "zombie"
  PROVE  Unread'
<1>1. fill \in [Pipes -> Nat]
  BY BoundsAssumption DEF UInv, Wiring, Types
<1>2. \A q \in Pipes \ {In} : fill'[q] \in Nat /\ fill'[q] <= fill[q]
  BY <1>1
<1> QED
  BY <1>2, UnreadBeside

LEMMA UnreadThreads == ASSUME UInv, Threads PROVE Unread'
<1>1. CASE Feed
  BY <1>1, UnreadFalls, PipesOfStage, StageFacts DEF Feed
<1>2. CASE FeedEnd
  BY <1>2, UnreadCloses DEF FeedEnd, HeldBy
<1>3. ASSUME NEW i \in Stages, Drain(i) PROVE Unread'
  BY <1>3, UnreadFalls, OutputPipes DEF Drain
<1>4. ASSUME NEW i \in Stages, DrainEnd(i) PROVE Unread'
  BY <1>4, UnreadCloses DEF DrainEnd, AtEnd, HeldBy
<1> QED
  BY <1>1, <1>2, <1>3, <1>4 DEF Threads

LEMMA UnreadPrograms == ASSUME UInv, Programs PROVE Unread'
<1>1. ASSUME NEW i \in Stages, NEW w \in {"read", "out", "err"}, Starts(i, w) PROVE Unread'
  BY <1>1, UnreadCloses DEF Starts, HeldBy
<1>2. ASSUME NEW i \in Stages, NEW p \in Pipes, Reads(i, p) PROVE Unread'
  BY <1>2, UnreadFalls DEF Reads
<1>3. ASSUME NEW i \in Stages, NEW p \in Pipes, Writes(i, p) PROVE Unread'
  BY <1>3, UnreadWrites
<1>4. ASSUME NEW i \in Stages, NEW forked \in BOOLEAN, Exits(i, forked) PROVE Unread'
  <2>1. \A e \in HeldBy(Server) : e \in ends'
    BY <1>4, HolderFacts DEF Exits, HeldBy
  <2>2. \A j \in Stages : \/ proc'[j] = proc[j]
                          \/ proc[j] = "running" /\ proc'[j] = "zombie"
    BY <1>4 DEF Exits, Running, UInv, IInv, Waited
  <2> QED
    BY <1>4, <2>1, <2>2, UnreadCloses DEF Exits
<1>5. ASSUME NEW i \in Stages, HelperExits(i) PROVE Unread'
  <2>1. \A e \in HeldBy(Server) : e \in ends'
    BY <1>5, HolderFacts DEF HelperExits, HeldBy
  <2> QED
    BY <1>5, <2>1, UnreadCloses DEF HelperExits
<1> QED
  BY <1>1, <1>2, <1>3, <1>4, <1>5 DEF Programs

LEMMA UnreadStep == UInv /\ [Next]_vars => UInv'
<1> SUFFICES ASSUME UInv, [Next]_vars PROVE UInv'
  OBVIOUS
<1>1. IInv' /\ Wiring'
  BY StepInv, WiringStep DEF UInv
<1>2. Unread'
  <2>1. ASSUME pc = "plan", NEW lists \in Commands,
               \/ \E stdin \in {"inherit", "file", "bytes"} : Plan(lists, stdin)
               \/ \E k \in 1..MaxRedirects : PlanFails(lists, k)
               \/ StdinTaken(lists)
        PROVE  Unread'
    BY <1>1, <2>1, UnreadPlan
  <2>2. ASSUME NEW p \in Pipes, ReadsOutput(p) PROVE Unread'
    BY <2>2, UnreadFalls DEF ReadsOutput
  <2>3. CASE Caller
    BY <2>1, <2>2, <2>3, UnreadLaunch, UnreadCommunicates, UnreadTimesOut,
       UnreadReadsShared, UnreadReap, UnreadJoin, UnreadClose DEF Caller
  <2>4. CASE UNCHANGED vars
    BY <2>4, UnreadCloses DEF vars, HeldBy
  <2> QED
    BY <2>3, <2>4, UnreadThreads, UnreadPrograms DEF Next
<1> QED
  BY <1>1, <1>2 DEF UInv

LEMMA UnreadNothing == UInv => NothingLeftUnread
<1> SUFFICES ASSUME UInv, result = "ok", pc = "done"
             PROVE  /\ \A p \in LastPipes \cup {Shared(N)} : fill[p] = 0
                    /\ \A i \in 1..(N - 1) : fill[Err(i)] = 0
  BY DEF NothingLeftUnread
<1> QED
  BY DEF UInv, Unread, Emptied, Answering, LastPipes

(* A pipeline that is answered without a timeout has had all of its output *)
(* read, however many stages wrote it and however little a pipe holds:     *)
(* also what a stage wrote to stderr before the reaper killed it.          *)
THEOREM AllOutputIsRead == Spec => []NothingLeftUnread
<1>1. Init => UInv
  BY InitInv, WiringInit, UnreadInit DEF UInv
<1> QED
  BY <1>1, UnreadStep, UnreadNothing, PTL DEF Spec
=============================================================================
