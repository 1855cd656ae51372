------------------------------- MODULE RunChain -------------------------------
(***************************************************************************)
(* Runner.run_chain (runner.py): shell_run without variables, functions or *)
(* compound commands.  The command was expanded and parsed as a whole      *)
(* before; the walk keeps the last exit code, whether anything ran and the *)
(* directory in fields of the Runner.                                      *)
(***************************************************************************)
EXTENDS ChainHistory

VARIABLES
  ops,       \* the operator of each chain of program_to_chain
  prev_rc, ran_any, skipped, work_dir,   \* fields of the Runner
  stages,    \* its field stages; fate, dir and to are history
  substs,    \* history: the directory in which the $() of each stage ran
  answer     \* the Result

vars == <<ops, prev_rc, ran_any, skipped, work_dir, stages, substs, answer>>

List == INSTANCE AndOrList WITH history <- stages, DropsAfter <- {}

NoSubst == "none"

Init ==
  /\ ops \in Lists
  /\ prev_rc = 0 /\ ran_any = FALSE /\ skipped = FALSE
  /\ work_dir = Start
  /\ stages = <<>> /\ substs = <<>>
  /\ answer = NoAnswer

Op == ops[Len(stages) + 1]
Walking == answer = NoAnswer /\ Len(stages) < Len(ops)

SkipsAnd == Op = "and" /\ ran_any /\ prev_rc # 0
\* Mutant: `||' looks at the exit code even when nothing ran.
SkipsOrAtStart == Op = "or" /\ prev_rc = 0

SkipsOr == Op = "or" /\ ran_any /\ prev_rc = 0
Reached == Walking /\ ~SkipsAnd /\ ~SkipsOr

(* A stage is recorded.  Its $(), if it has one, ran when the command was  *)
(* expanded, before the first stage, in the directory of the call.         *)
Stage(fate, rc, to) ==
  /\ stages' = Append(stages, [fate |-> fate, rc |-> rc,
                               dir |-> work_dir, to |-> to])
  /\ \E d \in {NoSubst, Start} : substs' = Append(substs, d)
  /\ UNCHANGED <<ops, answer>>

Skip ==
  /\ Walking /\ (SkipsAnd \/ SkipsOr)
  /\ skipped' = TRUE
  /\ Stage("skipped", NoRc, work_dir)
  /\ UNCHANGED <<prev_rc, ran_any, work_dir>>

(* The timeout builtin or cd reports an error; nothing is executed.        *)
BuiltinError ==
  /\ Reached
  /\ prev_rc' = 1 /\ ran_any' = TRUE
  /\ Stage("ran", 1, work_dir)
  /\ UNCHANGED <<skipped, work_dir>>

\* Mutant: cd that succeeds leaves the exit code of the pipeline before it.
ChangeDirKeepsRc(d) ==
  /\ Reached
  /\ work_dir' = d /\ ran_any' = TRUE
  /\ Stage("ran", 0, d)
  /\ UNCHANGED <<prev_rc, skipped>>

ChangeDir(d) ==
  /\ Reached
  /\ work_dir' = d /\ prev_rc' = 0 /\ ran_any' = TRUE
  /\ Stage("ran", 0, d)
  /\ UNCHANGED skipped

(* The exit code of a backgrounded pipeline, even one that could not be    *)
(* launched, leaves prev_rc alone.                                         *)
Background ==
  /\ Reached
  /\ ran_any' = TRUE
  /\ Stage("background", NoRc, work_dir)
  /\ UNCHANGED <<prev_rc, skipped, work_dir>>

(* A segment or a pipeline runs in work_dir.                               *)
Execute(rc) ==
  /\ Reached
  /\ prev_rc' = rc /\ ran_any' = TRUE
  /\ Stage("ran", rc, work_dir)
  /\ UNCHANGED <<skipped, work_dir>>

Finish ==
  /\ answer = NoAnswer /\ Len(stages) = Len(ops)
  /\ answer' = [rc |-> prev_rc, skipped |-> skipped]
  /\ UNCHANGED <<ops, prev_rc, ran_any, skipped, work_dir, stages, substs>>

(* shell_run returns the error of _expand_command without a walk.          *)
ExpansionError ==
  /\ answer = NoAnswer /\ stages = <<>>
  /\ answer' = [rc |-> 1, skipped |-> FALSE]
  /\ UNCHANGED <<ops, prev_rc, ran_any, skipped, work_dir, stages, substs>>

Next ==
  \/ Skip \/ BuiltinError \/ Background \/ Finish \/ ExpansionError
  \/ \E d \in Dirs : ChangeDir(d)
  \/ \E rc \in Rcs : Execute(rc)

Spec == Init /\ [][Next]_vars

-----------------------------------------------------------------------------
TypeOK ==
  /\ ops \in Lists
  /\ prev_rc \in Rcs /\ ran_any \in BOOLEAN /\ skipped \in BOOLEAN
  /\ work_dir \in Dirs
  /\ stages \in Seq(Entries)
  /\ substs \in Seq(Dirs \cup {NoSubst}) /\ Len(substs) = Len(stages)
  /\ answer \in Answers \cup {NoAnswer}

(* run_chain handles every chain of the command exactly as the docstring   *)
(* of shell_run says: in order, skipping by the exit code of the last      *)
(* pipeline that ran, from the directory the last cd left.                 *)
ImplementsList == List!ASpec

(* The fields say what the stages say: no stage leaves prev_rc, ran_any,   *)
(* skipped or work_dir out of step with the stages a structured answer     *)
(* shows.                                                                  *)
FieldsAgree ==
  /\ prev_rc = LastRc(stages)
  /\ ran_any = RanAny(stages)
  /\ skipped = Skipped(stages)
  /\ work_dir = Cwd(stages)

(* "`&&` runs its pipeline only if the previous one succeeded" (server.py, *)
(* shell_run): of a skipped pipeline nothing is executed, not its $()      *)
(* either.                                                                 *)
SkippedRunsNothing ==
  \A i \in 1..Len(stages) : stages[i].fate = "skipped" => substs[i] = NoSubst

(* "it changes the working directory for subsequent segments of the SAME   *)
(* call" (server.py, shell_run): the $() of a segment run where it does.   *)
SubstitutionFollowsCd ==
  \A i \in 1..Len(stages) :
    stages[i].fate = "ran" => substs[i] \in {NoSubst, stages[i].dir}
=============================================================================
