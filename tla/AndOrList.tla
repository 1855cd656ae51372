------------------------------ MODULE AndOrList ------------------------------
(***************************************************************************)
(* What shell_run promises of a list of pipelines joined by `;', `&&' and  *)
(* `||' (docstring of shell_run, server.py): the pipelines are handled in  *)
(* their order, each is run, launched in the background or skipped, and    *)
(* what is done with one follows from what the earlier ones did alone.     *)
(*                                                                         *)
(* There is no running state here: the exit code, the directory and the    *)
(* skipping are read off the history.  RunChain and RunCommand are the two *)
(* walkers of runner.py, which keep them in fields instead.                *)
(***************************************************************************)
EXTENDS ChainHistory

CONSTANT
  DropsAfter   \* exit codes after which a pipeline may be dropped; the
               \* docstring promises {}

VARIABLES
  ops,      \* the operator before each pipeline of the list
  history,  \* what was done with each pipeline so far
  answer    \* NoAnswer, or what the tool call returned

avars == <<ops, history, answer>>

(* A pipeline of the list is handled: what becomes of it and, if it is cd, *)
(* the directory it leaves.                                                *)
NextOp == ops[Len(history) + 1]
Waiting == answer = NoAnswer /\ Len(history) < Len(ops)

Record(fate, rc, to) ==
  /\ history' = Append(history, [fate |-> fate, rc |-> rc,
                                 dir |-> Cwd(history), to |-> to])
  /\ UNCHANGED <<ops, answer>>

AInit ==
  /\ ops \in Lists
  /\ history = <<>>
  /\ answer = NoAnswer

ASkip ==
  /\ Waiting /\ ShortCircuits(NextOp, history)
  /\ Record("skipped", NoRc, Cwd(history))

ARun(rc, to) ==
  /\ Waiting /\ ~ShortCircuits(NextOp, history)
  /\ rc = 0 \/ to = Cwd(history)
  /\ Record("ran", rc, to)

ABackground ==
  /\ Waiting /\ ~ShortCircuits(NextOp, history)
  /\ Record("background", NoRc, Cwd(history))

ADrop ==
  /\ Waiting /\ ~ShortCircuits(NextOp, history)
  /\ RanAny(history) /\ LastRc(history) \in DropsAfter
  /\ Record("dropped", NoRc, Cwd(history))

(* The call answers when the whole list is handled...                      *)
AAnswer ==
  /\ answer = NoAnswer /\ Len(history) = Len(ops)
  /\ answer' = [rc |-> LastRc(history),
                skipped |-> Skipped(history)]
  /\ UNCHANGED <<ops, history>>

(* ...or before any of it, when the command cannot be expanded.            *)
AReject ==
  /\ answer = NoAnswer /\ history = <<>>
  /\ answer' = [rc |-> 1, skipped |-> FALSE]
  /\ UNCHANGED <<ops, history>>

ANext ==
  \/ ASkip \/ ABackground \/ ADrop \/ AAnswer \/ AReject
  \/ \E rc \in Rcs, to \in Dirs : ARun(rc, to)

ASpec == AInit /\ [][ANext]_avars
=============================================================================
