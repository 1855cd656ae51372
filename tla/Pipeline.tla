-------------------------------- MODULE Pipeline --------------------------------
(***************************************************************************)
(* One foreground pipeline, from its plan to its answer (executor.py):     *)
(* the calling thread, the threads that drain stderr and write stdin, the  *)
(* stages, and the pipes between all of them.  A pipe has room for Cap     *)
(* bytes; who holds which end decides whether a reader sees its end and    *)
(* whether a writer is told that nobody reads.                             *)
(***************************************************************************)
EXTENDS Integers, FiniteSets, Redirects

CONSTANTS
  MaxStages,     \* bound of the model: stages of the pipeline
  MaxRedirects,  \* bound of the model: redirects of stdout and stderr per stage
  Cap,           \* bytes a pipe has room for
  MaxInput,      \* bound of the model: bytes of a here-document
  MaxOps         \* bound of the model: reads and writes of a stage

ASSUME BoundsAssumption ==
  /\ MaxStages \in Nat \ {0} /\ Cap \in Nat \ {0}
  /\ {MaxRedirects, MaxInput, MaxOps} \subseteq Nat

VARIABLES
  pc,        \* where the calling thread is
  result,    \* how the call was answered; "none" before
  plan,      \* for each stage the targets of its stdout and stderr
  first,     \* what the first stage has for stdin: "inherit", "file", "bytes"
  input,     \* bytes of first_stdin_bytes yet to be written
  ends,      \* the open ends of pipes: <<pipe, "r" or "w", holder>>
  fill,      \* bytes in each pipe
  proc,      \* the stages: "none", "running", "zombie", "collected"
  wants,     \* what a stage is in the middle of: "read", "out", "err", "none"
  ops        \* what it has done

caller == <<pc, result, plan, first>>
vars == <<caller, input, ends, fill, proc, wants, ops>>

(* Holders of an end: the server, a stage, or a process that a stage left  *)
(* behind and that has the ends the stage had.                             *)
Server == 0
Helper(i) == -i
Stages == 1..MaxStages
Pipes == {"in", "out", "err", "shared"} \X Stages
In == <<"in", 1>>
Out(i) == <<"out", i>>
Err(i) == <<"err", i>>
Shared(i) == <<"shared", i>>

N == Len(plan)
Holds(who, p, end) == <<p, end, who>> \in ends
Readers(p) == {e \in ends : e[1] = p /\ e[2] = "r"}
Writers(p) == {e \in ends : e[1] = p /\ e[2] = "w"}
HeldBy(who) == {e \in ends : e[3] = who}
AtEnd(p) == fill[p] = 0 /\ Writers(p) = {}

(* The pipe a target stands for; a file is none.                           *)
StdoutPipes(i) == CASE plan[i].stdout = "PIPE" -> {Out(i)}
                    [] plan[i].stdout = "shared" -> {Shared(i)}
                    [] OTHER -> {}
StderrPipes(i) == CASE plan[i].stderr = "PIPE" -> {Err(i)}
                    [] plan[i].stderr = "shared" -> {Shared(i)}
                    [] plan[i].stderr = "STDOUT" -> StdoutPipes(i)
                    [] OTHER -> {}
StdinPipes(i) == CASE i > 1 -> {Out(i - 1)}
                   [] i = 1 /\ first = "bytes" -> {In}
                   [] OTHER -> {}

(* The shared pipe is two raw file descriptors: no object closes them.     *)
SharedEnds(i) == {<<Shared(i), "r", Server>>, <<Shared(i), "w", Server>>}
has_shared == N > 0 /\ plan[N].has_shared

Init ==
  /\ pc = "plan" /\ result = "none" /\ plan = <<>> /\ first = "inherit" /\ input = 0
  /\ ends = {} /\ fill = [p \in Pipes |-> 0]
  /\ proc = [i \in Stages |-> "none"]
  /\ wants = [i \in Stages |-> "none"]
  /\ ops = [i \in Stages |-> 0]

-----------------------------------------------------------------------------
(* The plan.                                                               *)

RedirectLists == UNION {[1..k -> Redirect] : k \in 0..MaxRedirects}

(* Only the last stage may redirect its stdout.                            *)
Allowed(lists) ==
  \A i \in 1..Len(lists) - 1 : \A k \in DOMAIN lists[i] : ~OnStdout(lists[i][k])

Commands == {lists \in UNION {[1..n -> RedirectLists] : n \in Stages} : Allowed(lists)}

Plan(lists, stdin) ==
  /\ pc = "plan"
  /\ plan' = [i \in DOMAIN lists |-> Resolve(lists[i], i = Len(lists))]
  /\ first' = stdin
  /\ \E n \in 0..MaxInput : input' = IF stdin = "bytes" THEN n ELSE 0
  /\ ends' = IF plan'[Len(lists)].has_shared THEN SharedEnds(Len(lists)) ELSE {}
  /\ pc' = "launch"
  /\ UNCHANGED <<result, fill, proc, wants, ops>>

(* The file of the last stage's k-th redirect cannot be opened.  What the  *)
(* list opened before is not in all_to_close yet; file objects close       *)
(* themselves.                                                             *)
PlanFails(lists, k) ==
  /\ pc = "plan"
  /\ LET n == Len(lists) IN
     /\ k \in DOMAIN lists[n] /\ lists[n][k] \in {"out", "err"}
     /\ ends' = IF ResolveFirst(k - 1, lists[n], TRUE).has_shared
                THEN SharedEnds(n) ELSE {}
  /\ pc' = "done" /\ result' = "error"
  /\ UNCHANGED <<plan, first, input, fill, proc, wants, ops>>

(* A builtin before the pipeline injects stdin, and the first stage has a  *)
(* redirect of its own: found after its targets are resolved, and nothing  *)
(* is closed.                                                              *)
StdinTaken(lists) ==
  /\ pc = "plan"
  /\ ends' = IF Len(lists) = 1 /\ Resolve(lists[1], TRUE).has_shared
             THEN SharedEnds(1) ELSE {}
  /\ pc' = "done" /\ result' = "error"
  /\ UNCHANGED <<plan, first, input, fill, proc, wants, ops>>

-----------------------------------------------------------------------------
(* Launching.                                                              *)

Launched == Cardinality({i \in Stages : proc[i] # "none"})
Following == Launched + 1

(* What Popen leaves the child and the parent with.                        *)
ChildEnds(i) == {<<p, "r", i>> : p \in StdinPipes(i)}
                \cup {<<p, "w", i>> : p \in StdoutPipes(i) \cup StderrPipes(i)}
ParentEnds(i) ==
  {<<p, "r", Server>> : p \in (StdoutPipes(i) \cup StderrPipes(i)) \ {Shared(i)}}
  \cup {<<p, "w", Server>> : p \in StdinPipes(i) \cap {In}}

\* Mutant: prev.stdout is not closed.
LaunchKeepsPrevious ==
  /\ pc = "launch" /\ plan[Following].stdout # "STDOUT"
  /\ proc' = [proc EXCEPT ![Following] = "running"]
  /\ ends' = ends \cup ChildEnds(Following) \cup ParentEnds(Following)
  /\ pc' = IF Following = N THEN "communicate" ELSE "launch"
  /\ UNCHANGED <<result, plan, first, input, fill, wants, ops>>

(* prev.stdout.close(): the parent no longer holds the read end.           *)
Launch ==
  /\ pc = "launch" /\ plan[Following].stdout # "STDOUT"
  /\ proc' = [proc EXCEPT ![Following] = "running"]
  /\ ends' = (ends \cup ChildEnds(Following) \cup ParentEnds(Following))
             \ {<<Out(Launched), "r", Server>>}
  /\ pc' = IF Following = N THEN "communicate" ELSE "launch"
  /\ UNCHANGED <<result, plan, first, input, fill, wants, ops>>

Killed == [i \in Stages |-> IF proc[i] = "none" THEN "none" ELSE "collected"]
NotStages == {e \in ends : e[3] \notin Stages}
FeederEnds == {e \in HeldBy(Server) : e[1] = In}

(* Any stage may fail to start, and one whose stdout is subprocess.STDOUT  *)
(* always does.  The stages before it are killed; what is left of the      *)
(* pipes is dropped with the Popen objects, except what the thread that    *)
(* writes stdin holds.  With more than one stage, closing the shared       *)
(* pipe's write end raises AttributeError.                                 *)
LaunchFails ==
  /\ pc = "launch"
  /\ proc' = Killed /\ wants' = [i \in Stages |-> "none"]
  /\ LET escapes == N > 1 /\ has_shared IN
     /\ ends' = (NotStages \ HeldBy(Server)) \cup FeederEnds
                \cup IF escapes THEN SharedEnds(N) ELSE {}
     /\ result' = IF escapes THEN "escaped" ELSE "error"
  /\ pc' = "done"
  /\ UNCHANGED <<plan, first, input, fill, ops>>

-----------------------------------------------------------------------------
(* The threads.  stdin is written by a thread as soon as the first stage   *)
(* of several runs, and by communicate when there is one stage only.       *)

Feeds == Holds(Server, In, "w") /\ (N > 1 \/ pc = "communicate")
\* Mutant: bytes are written whether there is room for them or not.
FeedsBlindly == input > 0 /\ Readers(In) # {}
FeedGuard == input > 0 /\ fill[In] < Cap /\ Readers(In) # {}

Feed ==
  /\ Feeds /\ FeedGuard
  /\ input' = input - 1
  /\ fill' = [fill EXCEPT ![In] = @ + 1]
  /\ UNCHANGED <<caller, ends, proc, wants, ops>>

(* All is written, or nobody reads it.                                     *)
FeedEnd ==
  /\ Feeds /\ (input = 0 \/ Readers(In) = {})
  /\ ends' = ends \ {<<In, "w", Server>>}
  /\ UNCHANGED <<caller, input, fill, proc, wants, ops>>

\* Mutant: the threads are started after communicate().
DrainsLate(i) ==
  i < N /\ Holds(Server, Err(i), "r") /\ pc \notin {"launch", "communicate"}

(* _drain_stderr of every stage but the last, started once all of them run *)
Drains(i) == i < N /\ Holds(Server, Err(i), "r") /\ pc # "launch"

Drain(i) ==
  /\ Drains(i) /\ fill[Err(i)] > 0
  /\ fill' = [fill EXCEPT ![Err(i)] = @ - 1]
  /\ UNCHANGED <<caller, input, ends, proc, wants, ops>>

DrainEnd(i) ==
  /\ Drains(i) /\ AtEnd(Err(i))
  /\ ends' = ends \ {<<Err(i), "r", Server>>}
  /\ UNCHANGED <<caller, input, fill, proc, wants, ops>>

-----------------------------------------------------------------------------
(* The stages.  A program reads and writes as it likes and is stuck in the *)
(* middle of it while a pipe is empty or full.                             *)

Running(i) == proc[i] = "running"
Starts(i, w) == /\ Running(i) /\ wants[i] = "none" /\ ops[i] < MaxOps
                /\ CASE w = "read" -> StdinPipes(i) # {}
                     [] w = "out" -> StdoutPipes(i) # {}
                     [] w = "err" -> StderrPipes(i) # {}
                /\ wants' = [wants EXCEPT ![i] = w]
                /\ ops' = [ops EXCEPT ![i] = @ + 1]
                /\ UNCHANGED <<caller, input, ends, fill, proc>>

WritesTo(i) == CASE wants[i] = "out" -> StdoutPipes(i)
                [] wants[i] = "err" -> StderrPipes(i)
                [] OTHER -> {}

ReadGuard(i, p) == wants[i] = "read" /\ p \in StdinPipes(i) /\ (fill[p] > 0 \/ AtEnd(p))
WriteGuard(i, p) == p \in WritesTo(i) /\ fill[p] < Cap /\ Readers(p) # {}
BrokenPipe(i, p) == p \in WritesTo(i) /\ Readers(p) = {}

Reads(i, p) ==
  /\ Running(i) /\ ReadGuard(i, p)
  /\ fill' = [fill EXCEPT ![p] = IF @ > 0 THEN @ - 1 ELSE 0]
  /\ wants' = [wants EXCEPT ![i] = "none"]
  /\ UNCHANGED <<caller, input, ends, proc, ops>>

Writes(i, p) ==
  /\ Running(i) /\ WriteGuard(i, p)
  /\ fill' = [fill EXCEPT ![p] = @ + 1]
  /\ wants' = [wants EXCEPT ![i] = "none"]
  /\ UNCHANGED <<caller, input, ends, proc, ops>>

(* It exits when it likes, or by SIGPIPE; whoever it forked lives on with  *)
(* the same ends.                                                          *)
Exits(i, forked) ==
  /\ Running(i)
  /\ wants[i] = "none" \/ \E p \in Pipes : BrokenPipe(i, p)
  /\ proc' = [proc EXCEPT ![i] = "zombie"]
  /\ wants' = [wants EXCEPT ![i] = "none"]
  /\ ends' = (ends \ HeldBy(i))
             \cup IF forked THEN {<<e[1], e[2], Helper(i)>> : e \in HeldBy(i)} ELSE {}
  /\ UNCHANGED <<caller, input, fill, ops>>

HelperExits(i) ==
  /\ HeldBy(Helper(i)) # {}
  /\ ends' = ends \ HeldBy(Helper(i))
  /\ UNCHANGED <<caller, input, fill, proc, wants, ops>>

-----------------------------------------------------------------------------
(* communicate() of the last stage, or of the only one.                    *)

LastPipes == {Out(N), Err(N)}

ReadsOutput(p) ==
  /\ pc = "communicate" /\ p \in LastPipes /\ fill[p] > 0
  /\ fill' = [fill EXCEPT ![p] = @ - 1]
  /\ UNCHANGED <<caller, input, ends, proc, wants, ops>>

(* Both pipes at their end, stdin closed, the process gone.                *)
Complete ==
  /\ \A p \in LastPipes : Holds(Server, p, "r") => AtEnd(p)
  /\ N = 1 => ~Feeds
  /\ proc[N] = "zombie"

LastEnds == {e \in HeldBy(Server) : e[1] \in LastPipes}

\* Mutant: it returns as soon as the process has exited.
CommunicatesUntilExit ==
  /\ pc = "communicate" /\ proc[N] = "zombie"
  /\ proc' = [proc EXCEPT ![N] = "collected"]
  /\ ends' = ends \ LastEnds
  /\ pc' = CASE N > 1 -> "reap" [] N = 1 /\ has_shared -> "read" [] OTHER -> "done"
  /\ result' = IF pc' = "done" THEN "ok" ELSE result
  /\ UNCHANGED <<plan, first, input, fill, wants, ops>>

Communicates ==
  /\ pc = "communicate" /\ Complete
  /\ proc' = [proc EXCEPT ![N] = "collected"]
  /\ ends' = ends \ LastEnds
  /\ pc' = CASE N > 1 -> "reap" [] N = 1 /\ has_shared -> "read" [] OTHER -> "done"
  /\ result' = IF pc' = "done" THEN "ok" ELSE result
  /\ UNCHANGED <<plan, first, input, fill, wants, ops>>

(* One stage: subprocess.run kills it, waits for it and closes its pipes,  *)
(* and the finally clause closes the shared pipe.                          *)
TimesOut ==
  /\ pc = "communicate" /\ ~Complete
  /\ IF N = 1
     THEN /\ proc' = Killed /\ wants' = [wants EXCEPT ![1] = "none"]
          /\ ends' = NotStages \ HeldBy(Server)
          /\ pc' = "done" /\ result' = "timeout"
     ELSE pc' = "reap" /\ result' = "timeout" /\ UNCHANGED <<proc, wants, ends>>
  /\ UNCHANGED <<plan, first, input, fill, ops>>

(* os.read of the shared pipe, then the finally clause.  There is no end   *)
(* of file to read while the server has a write end itself.                *)
ReadsShared ==
  /\ pc = "read" /\ (fill[Shared(1)] > 0 \/ Writers(Shared(1)) = {})
  /\ fill' = [fill EXCEPT ![Shared(1)] = 0]
  /\ ends' = ends \ SharedEnds(1)
  /\ pc' = "done" /\ result' = "ok"
  /\ UNCHANGED <<plan, first, input, proc, wants, ops>>

-----------------------------------------------------------------------------
(* After communicate() of several stages.                                  *)

\* Mutant: only stages that have ended are waited for.
ReapsZombies ==
  /\ pc = "reap"
  /\ proc' = [i \in Stages |-> IF proc[i] = "zombie" THEN "collected" ELSE proc[i]]
  /\ pc' = "join"
  /\ UNCHANGED <<result, plan, first, input, ends, fill, wants, ops>>

Reap ==
  /\ pc = "reap"
  /\ proc' = Killed /\ wants' = [i \in Stages |-> "none"]
  /\ ends' = NotStages
  /\ pc' = "join"
  /\ UNCHANGED <<result, plan, first, input, fill, ops>>

(* t.join(timeout=1): a second is taken to be enough for a thread that     *)
(* nobody holds up.                                                        *)
HeldUp(i) == Drains(i) /\ fill[Err(i)] = 0 /\ Writers(Err(i)) # {}

\* Mutant: join() without a timeout.
JoinsForEver ==
  /\ pc = "join" /\ \A i \in Stages : ~Drains(i)
  /\ pc' = "close"
  /\ UNCHANGED <<result, plan, first, input, ends, fill, proc, wants, ops>>

Join ==
  /\ pc = "join" /\ \A i \in Stages : Drains(i) => HeldUp(i)
  /\ pc' = "close"
  /\ UNCHANGED <<result, plan, first, input, ends, fill, proc, wants, ops>>

(* all_to_close and last_shared_read_fd.  The write end of the shared pipe *)
(* is an int, which has no close().                                        *)
Close ==
  /\ pc = "close"
  /\ ends' = ends \ LastEnds
  /\ result' = CASE has_shared -> "escaped"
                 [] ~has_shared /\ result = "timeout" -> "timeout"
                 [] OTHER -> "ok"
  /\ pc' = "done"
  /\ UNCHANGED <<plan, first, input, fill, proc, wants, ops>>

-----------------------------------------------------------------------------
Caller == \/ /\ pc = "plan"
             /\ \E lists \in Commands :
                  \/ \E stdin \in {"inherit", "file", "bytes"} : Plan(lists, stdin)
                  \/ \E k \in 1..MaxRedirects : PlanFails(lists, k)
                  \/ StdinTaken(lists)
          \/ Launch \/ LaunchFails \/ Communicates \/ TimesOut
          \/ \E p \in Pipes : ReadsOutput(p)
          \/ ReadsShared \/ Reap \/ Join \/ Close
Threads == Feed \/ FeedEnd \/ \E i \in Stages : Drain(i) \/ DrainEnd(i)
Programs ==
  \E i \in Stages :
    \/ \E w \in {"read", "out", "err"} : Starts(i, w)
    \/ \E p \in Pipes : Reads(i, p) \/ Writes(i, p)
    \/ \E forked \in BOOLEAN : Exits(i, forked)
    \/ HelperExits(i)

Next == Caller \/ Threads \/ Programs

(* The calling thread and the others are scheduled; the timeout is one of  *)
(* the steps of the calling thread.  Programs owe nothing.                 *)
Spec == Init /\ [][Next]_vars /\ WF_vars(Caller) /\ WF_vars(Threads)

-----------------------------------------------------------------------------
(* The variables have the values their comments say.                       *)
TypeOK ==
  /\ pc \in {"plan", "launch", "communicate", "reap", "join", "close", "read", "done"}
  /\ result \in {"none", "ok", "error", "timeout", "escaped"}
  /\ plan \in UNION {[1..n -> FdPlan] : n \in 0..MaxStages}
  /\ first \in {"inherit", "file", "bytes"} /\ input \in 0..MaxInput
  /\ ends \subseteq Pipes \X {"r", "w"} \X (-MaxStages..MaxStages)
  /\ fill \in [Pipes -> 0..Cap]
  /\ proc \in [Stages -> {"none", "running", "zombie", "collected"}]
  /\ wants \in [Stages -> {"none", "read", "out", "err"}]
  /\ ops \in [Stages -> 0..MaxOps]

(* While the calling thread waits for its pipeline, the stages and threads *)
(* never all wait for each other: unless the shared pipe is used, which is *)
(* read only afterwards, somebody can move, or a process that outlived its *)
(* stage still holds a pipe (_launch_pipeline_foreground: the drain        *)
(* threads, the thread that writes stdin, the ends the parent closes).     *)
SomebodyMoves ==
  \/ \E i \in Stages, p \in Pipes :
       /\ Running(i)
       /\ wants[i] = "none" \/ ReadGuard(i, p) \/ WriteGuard(i, p) \/ BrokenPipe(i, p)
  \/ Feeds /\ (FeedGuard \/ input = 0 \/ Readers(In) = {})
  \/ \E i \in Stages : Drains(i) /\ ~HeldUp(i)
  \/ \E p \in LastPipes : fill[p] > 0
  \/ Complete
  \/ \E i \in Stages : HeldBy(Helper(i)) # {}
NeverWedged == pc = "communicate" /\ ~has_shared => SomebodyMoves

(* When the call is answered the server has no end of a pipe open, but for *)
(* the threads that a process outliving its stage holds up, and the shared *)
(* pipe of a plan or a pipeline of several stages that failed.             *)
ThreadEnds == {e \in HeldBy(Server) : e[1] = In /\ N > 1}
              \cup {e \in HeldBy(Server) : \E i \in Stages : e[1] = Err(i) /\ Drains(i)}
PlanLeaks == result = "error" /\ plan = <<>>
Tidy == pc = "done" =>
          HeldBy(Server) \subseteq
            ThreadEnds \cup IF result = "escaped" \/ PlanLeaks
                            THEN UNION {SharedEnds(i) : i \in Stages} ELSE {}

(* Whatever the stages of a pipeline that did not time out wrote to a pipe *)
(* of the server has been read when the answer is given, the stderr of     *)
(* stages that were killed in between included.                            *)
NothingLeftUnread ==
  result = "ok" /\ pc = "done" =>
    /\ \A p \in LastPipes \cup {Shared(N)} : fill[p] = 0
    /\ \A i \in 1..N - 1 : fill[Err(i)] = 0

(* However the call is answered, every stage has been waited for.          *)
NoStageLeft == pc = "done" => \A i \in Stages : proc[i] \in {"none", "collected"}

(* A call is answered, unless it reads the shared pipe of a stage that did *)
(* not write to it (executor.py:544).                                      *)
SilentShared == pc = "read" /\ fill[Shared(1)] = 0
AnsweredOrSilent == <>(pc = "done" \/ SilentShared)

(* server.py:324 "timeout: Timeout in seconds (default 30, max 300)": a    *)
(* call is answered.  Does not hold.                                       *)
Answered == <>(pc = "done")
================================================================================
