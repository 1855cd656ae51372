------------------------------ MODULE RunCommand ------------------------------
(***************************************************************************)
(* Runner.run_command (runner.py): shell_run when a segment assigns a      *)
(* variable or uses a function, a compound command or one of the builtins. *)
(* split_chains cuts the text into segments; each is expanded and parsed   *)
(* when the walk reaches it.  A compound command or function call is one   *)
(* segment here; RunnerStack has the Runners that its bodies run in.       *)
(***************************************************************************)
EXTENDS ChainHistory

VARIABLES
  ops,       \* the operator of each segment of split_chains
  prev_rc, ran_any, skipped, work_dir,   \* fields of the Runner
  stages,    \* its field stages: the rc of each
  history,   \* history: what was done with each segment so far
  substs,    \* history: the directory in which the $() of each segment ran
  answer     \* the Result

vars == <<ops, prev_rc, ran_any, skipped, work_dir, stages, history, substs,
          answer>>

NoSubst == "none"

Init ==
  /\ ops \in Lists
  /\ prev_rc = 0 /\ ran_any = FALSE /\ skipped = FALSE
  /\ work_dir = Start
  /\ stages = <<>> /\ history = <<>> /\ substs = <<>>
  /\ answer = NoAnswer

Op == ops[Len(history) + 1]
Walking == answer = NoAnswer /\ Len(history) < Len(ops)

SkipsAnd == Op = "and" /\ ran_any /\ prev_rc # 0
SkipsOr == Op = "or" /\ ran_any /\ prev_rc = 0
Reached == Walking /\ ~SkipsAnd /\ ~SkipsOr

\* Mutant: any failure drops the segments after it.
DroppingAny == ran_any /\ prev_rc # 0 /\ stages # <<>>

(* The check after the loop over the assignment prefixes, meant for an     *)
(* error in that loop, also holds when an earlier segment failed with 1.   *)
Dropping == ran_any /\ prev_rc = 1 /\ stages # <<>>
Dispatched == Reached /\ ~Dropping

Note(fate, rc, to) ==
  /\ history' = Append(history, [fate |-> fate, rc |-> rc,
                                 dir |-> work_dir, to |-> to])
  /\ UNCHANGED <<ops, answer>>

(* The $() of a segment, if it has one, runs when the segment is expanded: *)
(* after the && / || check, in the directory the walk is in.               *)
Substituted == \E d \in {NoSubst, work_dir} : substs' = Append(substs, d)

Stage(fate, rc, to) ==
  /\ Note(fate, rc, to) /\ Substituted
  /\ stages' = Append(stages, rc)

\* Mutant: a skipped segment gets no stage.
SkipUnrecorded ==
  /\ Walking /\ (SkipsAnd \/ SkipsOr)
  /\ skipped' = TRUE
  /\ Note("skipped", NoRc, work_dir)
  /\ substs' = Append(substs, NoSubst)
  /\ UNCHANGED <<prev_rc, ran_any, work_dir, stages>>

\* Mutant: a segment is expanded before the && / || check.
SkipExpanded ==
  /\ Walking /\ (SkipsAnd \/ SkipsOr)
  /\ skipped' = TRUE
  /\ Note("skipped", NoRc, work_dir)
  /\ stages' = Append(stages, NoRc) /\ Substituted
  /\ UNCHANGED <<prev_rc, ran_any, work_dir>>

Skip ==
  /\ Walking /\ (SkipsAnd \/ SkipsOr)
  /\ skipped' = TRUE
  /\ Note("skipped", NoRc, work_dir)
  /\ stages' = Append(stages, NoRc) /\ substs' = Append(substs, NoSubst)
  /\ UNCHANGED <<prev_rc, ran_any, work_dir>>

(* An expansion or parse error, or an error in an assignment prefix.       *)
SegmentError ==
  /\ Reached
  /\ prev_rc' = 1 /\ ran_any' = TRUE
  /\ Stage("ran", 1, work_dir)
  /\ UNCHANGED <<skipped, work_dir>>

(* Bodies get a copy of work_dir, so that cd in one of them stays there.   *)
Compound(rc) ==
  /\ Reached
  /\ prev_rc' = rc /\ ran_any' = TRUE
  /\ Stage("ran", rc, work_dir)
  /\ UNCHANGED <<skipped, work_dir>>

Drop ==
  /\ Reached /\ Dropping
  /\ Note("dropped", NoRc, work_dir) /\ Substituted
  /\ UNCHANGED <<prev_rc, ran_any, skipped, work_dir, stages>>

(* Assignments only in a pipeline, timeout or cd misused, a builtin in a   *)
(* backgrounded pipeline, break outside of a loop: reported, not executed. *)
BuiltinError ==
  /\ Dispatched
  /\ prev_rc' = 1 /\ ran_any' = TRUE
  /\ Stage("ran", 1, work_dir)
  /\ UNCHANGED <<skipped, work_dir>>

ChangeDir(d) ==
  /\ Dispatched
  /\ work_dir' = d /\ prev_rc' = 0 /\ ran_any' = TRUE
  /\ Stage("ran", 0, d)
  /\ UNCHANGED skipped

Background ==
  /\ Dispatched
  /\ ran_any' = TRUE
  /\ Stage("background", NoRc, work_dir)
  /\ UNCHANGED <<prev_rc, skipped, work_dir>>

(* An assignment, builtin, function call, command or pipeline.             *)
Execute(rc) ==
  /\ Dispatched
  /\ prev_rc' = rc /\ ran_any' = TRUE
  /\ Stage("ran", rc, work_dir)
  /\ UNCHANGED <<skipped, work_dir>>

Finish ==
  /\ answer = NoAnswer /\ Len(history) = Len(ops)
  /\ answer' = [rc |-> prev_rc, skipped |-> skipped]
  /\ UNCHANGED <<ops, prev_rc, ran_any, skipped, work_dir, stages, history,
                 substs>>

Next ==
  \/ Skip \/ SegmentError \/ Drop \/ BuiltinError \/ Background \/ Finish
  \/ \E d \in Dirs : ChangeDir(d)
  \/ \E rc \in Rcs : Compound(rc) \/ Execute(rc)

Spec == Init /\ [][Next]_vars

-----------------------------------------------------------------------------
TypeOK ==
  /\ ops \in Lists
  /\ prev_rc \in Rcs /\ ran_any \in BOOLEAN /\ skipped \in BOOLEAN
  /\ work_dir \in Dirs
  /\ stages \in Seq(Rcs \cup {NoRc})
  /\ history \in Seq(Entries)
  /\ substs \in Seq(Dirs \cup {NoSubst}) /\ Len(substs) = Len(history)
  /\ answer \in Answers \cup {NoAnswer}

(* But for segments dropped after an exit code of exactly 1, run_command   *)
(* handles a list as the docstring of shell_run says and as run_chain      *)
(* does: in order, skipping by the exit code of the last segment that ran, *)
(* from the directory the last cd left.                                    *)
List == INSTANCE AndOrList WITH DropsAfter <- {1}
ImplementsDroppingList == List!ASpec

KeptSegments == Keep(history, Handled(Fates \ {"dropped"}))

(* A structured answer's stages are those of the segments that were not    *)
(* dropped, in their order: its rc is the last one among them.             *)
StagesTellHistory ==
  LET kept == KeptSegments
  IN /\ stages = [i \in 1..Len(kept) |-> kept[i].rc]
     /\ answer # NoAnswer => answer.rc = LastRc(kept)

(* The $() of a segment runs in the directory the segment runs in, and not *)
(* at all when && or || skips the segment.                                 *)
SubstitutionInPlace ==
  \A i \in 1..Len(history) :
    substs[i] \in {NoSubst} \cup
                  IF history[i].fate = "skipped" THEN {} ELSE {history[i].dir}

(* "`;` always runs" and "``stages`` records one entry per pipeline"       *)
(* (server.py, shell_run): no segment is passed over without a stage.      *)
NothingDropped == Len(stages) = Len(history)
=============================================================================
