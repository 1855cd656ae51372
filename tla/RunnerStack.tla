----------------------------- MODULE RunnerStack -----------------------------
(***************************************************************************)
(* The nested Runners of one shell_run call (runner.py).                   *)
(*                                                                         *)
(* run_command executes a command text one segment at a time.  A compound  *)
(* command, a function call and `source' each execute a body text in a     *)
(* fresh Runner (_run_body, _try_source), so the Python call stack is a    *)
(* stack of Runners, each executing a body on behalf of a construct of     *)
(* the Runner below it.  `break' and `continue' are a LoopSignal exception *)
(* that unwinds this stack.                                                *)
(*                                                                         *)
(* Which segments a text holds is left open: at each step the top Runner   *)
(* meets any segment, or its text ends.  A segment that && or || skips, or *)
(* that run_command drops, changes nothing here (see RunCommand for both). *)
(***************************************************************************)
EXTENDS Integers, Sequences, FiniteSets

CONSTANTS
  MaxFrames,       \* bound of the model: Runners alive at once
  MaxFuncDepth,    \* config.MAX_FUNC_DEPTH
  MaxSourceDepth,  \* config.MAX_SOURCE_DEPTH
  MaxLoopIter,     \* config.MAX_LOOP_ITER
  MaxCount,        \* bound of the model: the n of `break n'
  MaxArgs,         \* bound of the model: arguments of a function call
  Rcs              \* exit codes of the simple commands

ASSUME BoundsAssumption ==
  /\ MaxFrames \in Nat \ {0}
  /\ MaxFuncDepth \in Nat
  /\ MaxSourceDepth \in Nat
  /\ MaxLoopIter \in Nat \ {0}
  /\ MaxCount \in Nat \ {0}
  /\ MaxArgs \in Nat

ASSUME RcsAssumption == Rcs \subseteq Int /\ {0, 1} \subseteq Rcs

VARIABLES
  stack,   \* the Runners, innermost last, each with the construct it serves
  store,   \* the VariableStore in use: positional (how many) and func_depth
  signal,  \* the LoopSignal in flight, or NoSignal
  mark,    \* where the output of one arbitrary simple command is held
  status   \* "running", or "done" when shell_run has answered

vars == <<stack, store, signal, mark, status>>

-----------------------------------------------------------------------------
(* What a Runner can be executing for: the program text itself, the list   *)
(* after `if' or `elif', a body whose exit code is the construct's own (a  *)
(* branch, a case clause, a brace group), and so on.                       *)

LoopRoles == {"while_cond", "while_body", "for_body"}
Roles == LoopRoles \cup
         {"main", "if_cond", "block", "subshell", "function", "source"}

Stores == [positional : 0..MaxArgs, func_depth : 0..MaxFuncDepth]
NewStore == [positional |-> 0, func_depth |-> 0]

Frames == [role : Roles, prev_rc : Rcs, in_loop : BOOLEAN, loop_depth : Nat,
           iterations : 0..MaxLoopIter, until : BOOLEAN,
           args : 0..MaxArgs,   \* of a function call
           saved : Stores]      \* what the construct restores when it ends

(* goal is history: the index of the loop body the signal is meant for,    *)
(* or 0 when there are fewer than count loops to leave.                    *)
Signals == [kind : {"break", "continue"}, count : 1..MaxCount, goal : Nat]
NoSignal == [kind |-> "none", count |-> 0, goal |-> 0]

(* The marked output: not written yet, in the outputs of Runner `at', in   *)
(* the local list of the construct Runner `at' is executing, or lost.      *)
Marks == [where : {"none", "runner", "construct", "lost"}, at : Nat]
NoMark == [where |-> "none", at |-> 0]
Lost == [where |-> "lost", at |-> 0]
InRunner(i) == [where |-> "runner", at |-> i]
InConstruct(i) == [where |-> "construct", at |-> i]

Depth == Len(stack)
Top == stack[Depth]
Caller == stack[Depth - 1]

NewRunner(role, in_loop, loop_depth) ==
  [role |-> role, prev_rc |-> 0, in_loop |-> in_loop,
   loop_depth |-> loop_depth, iterations |-> 0, until |-> FALSE,
   args |-> 0, saved |-> NewStore]

(* _run_body: the sub-Runner starts with prev_rc 0 and copies the loop     *)
(* fields of the Runner that executes the construct.                       *)
Body(role, caller) == NewRunner(role, caller.in_loop, caller.loop_depth)

WithRc(f, rc) == [f EXCEPT !.prev_rc = rc]
EnterLoop(f) == [f EXCEPT !.in_loop = TRUE, !.loop_depth = @ + 1]
LeaveLoop(f) == [f EXCEPT !.in_loop = FALSE, !.loop_depth = @ - 1]

Replace(f) == [stack EXCEPT ![Depth] = f]
Enter(f, g) == Append(Replace(f), g)
Return(f) == Append(SubSeq(stack, 1, Depth - 2), f)

(* Output of the Runner that ends goes to the construct below it, and with *)
(* the construct's own list to the Runner below when the construct ends.   *)
HandToConstruct == IF mark = InRunner(Depth) THEN InConstruct(Depth - 1)
                   ELSE mark

\* Mutant: only the output of the last body of a construct is handed on.
HandLastToRunner == IF mark = InRunner(Depth) THEN InRunner(Depth - 1) ELSE mark

HandToRunner == IF mark \in {InRunner(Depth), InConstruct(Depth - 1)}
                THEN InRunner(Depth - 1) ELSE mark

(* An exception leaves the Runner, and the construct too when it is not a  *)
(* loop that catches it, with what they hold.                              *)
DropRunner(m) == IF m.at = Depth THEN Lost ELSE m
DropConstruct(m) == IF m = InConstruct(Depth - 1) THEN Lost ELSE m

-----------------------------------------------------------------------------
Init ==
  /\ stack = <<NewRunner("main", FALSE, 0)>>
  /\ store = NewStore
  /\ signal = NoSignal
  /\ mark = NoMark
  /\ status = "running"

Running == status = "running" /\ signal = NoSignal

(* run_command drops the segments that are not compound commands once the  *)
(* last exit code is 1 (runner.py, after the prefix loop).                 *)
NotDropped == Running /\ Top.prev_rc # 1

MayEnter == Depth < MaxFrames

(* A pipeline of commands, an assignment, cd, export...: anything that     *)
(* leaves an exit code and perhaps an output.                              *)
Simple(rc) ==
  /\ NotDropped
  /\ stack' = Replace(WithRc(Top, rc))
  /\ mark' \in IF mark = NoMark THEN {NoMark, InRunner(Depth)} ELSE {mark}
  /\ UNCHANGED <<store, signal, status>>

Shift(n) ==
  /\ NotDropped
  /\ IF store.positional < n
     THEN /\ store' = [store EXCEPT !.positional = 0]
          /\ stack' = Replace(WithRc(Top, 1))
     ELSE /\ store' = [store EXCEPT !.positional = @ - n]
          /\ stack' = Replace(WithRc(Top, 0))
  /\ UNCHANGED <<signal, mark, status>>

(* The loops a `break' of the top Runner can reach: those not outside of   *)
(* the innermost function, subshell or sourced file.                       *)
LoopsInReach ==
  {i \in 1..Depth : /\ stack[i].role \in LoopRoles
                    /\ \A j \in i..Depth :
                         stack[j].role \notin {"function", "subshell", "source"}}

Goal(n) ==
  LET goals == {i \in LoopsInReach :
                  Cardinality({j \in LoopsInReach : j >= i}) = n}
  IN IF goals = {} THEN 0 ELSE CHOOSE i \in goals : TRUE

BreakOrContinue(kind, n) ==
  /\ NotDropped
  /\ IF Top.in_loop
     THEN /\ signal' = [kind |-> kind, count |-> n, goal |-> Goal(n)]
          /\ stack' = stack
     ELSE /\ stack' = Replace(WithRc(Top, 1))
          /\ signal' = signal
  /\ UNCHANGED <<store, mark, status>>

\* Mutant: the recursion limit is checked one call too late.
FunctionCallTooDeep(n) ==
  /\ NotDropped
  /\ IF store.func_depth > MaxFuncDepth
     THEN stack' = Replace(WithRc(Top, 1)) /\ store' = store
     ELSE /\ MayEnter
          /\ stack' = Enter(Top, [Body("function", Top) EXCEPT
                                    !.args = n, !.saved = store])
          /\ store' = [positional |-> n, func_depth |-> store.func_depth + 1]
  /\ UNCHANGED <<signal, mark, status>>

FunctionCall(n) ==
  /\ NotDropped
  /\ IF store.func_depth >= MaxFuncDepth
     THEN /\ stack' = Replace(WithRc(Top, 1))
          /\ store' = store
     ELSE /\ MayEnter
          /\ stack' = Enter(Top, [Body("function", Top) EXCEPT
                                    !.args = n, !.saved = store])
          /\ store' = [positional |-> n, func_depth |-> store.func_depth + 1]
  /\ UNCHANGED <<signal, mark, status>>

\* Mutant: a sourced file inherits the loop fields, as the bodies do.
SourceInLoop ==
  /\ NotDropped /\ MayEnter
  /\ stack' = Enter(Top, Body("source", Top))
  /\ UNCHANGED <<store, signal, mark, status>>

(* The depth argument of run_command is 0 for the program text and one     *)
(* more for each Runner above it, whatever that Runner executes.           *)
Source ==
  /\ NotDropped
  /\ IF Depth - 1 >= MaxSourceDepth
     THEN stack' = Replace(WithRc(Top, 1))
     ELSE /\ MayEnter
          /\ stack' = Enter(Top, NewRunner("source", FALSE, 0))
  /\ UNCHANGED <<store, signal, mark, status>>

(* Function definitions and `case' without a matching clause.              *)
TrivialCompound ==
  /\ Running
  /\ stack' = Replace(WithRc(Top, 0))
  /\ UNCHANGED <<store, signal, mark, status>>

EnterBlock(role) ==
  /\ Running /\ MayEnter
  /\ stack' = Enter(Top, Body(role, Top))
  /\ UNCHANGED <<store, signal, mark, status>>

(* A subshell runs on a copy of the store.                                 *)
EnterSubshell ==
  /\ Running /\ MayEnter
  /\ stack' = Enter(Top, [Body("subshell", Top) EXCEPT !.saved = store])
  /\ UNCHANGED <<store, signal, mark, status>>

EnterWhile(until) ==
  /\ Running /\ MayEnter
  /\ stack' = Enter(EnterLoop(Top),
                    [Body("while_cond", EnterLoop(Top)) EXCEPT !.until = until])
  /\ UNCHANGED <<store, signal, mark, status>>

EnterFor ==
  /\ Running /\ MayEnter
  /\ stack' = Enter(EnterLoop(Top), Body("for_body", EnterLoop(Top)))
  /\ UNCHANGED <<store, signal, mark, status>>

EnterForWithoutWords ==
  /\ Running
  /\ stack' = Replace(WithRc(LeaveLoop(EnterLoop(Top)), 0))
  /\ UNCHANGED <<store, signal, mark, status>>

-----------------------------------------------------------------------------
(* The text of the top Runner ends: run_command returns its prev_rc and    *)
(* the joined outputs to the construct that wanted them.                   *)

Ending(roles) == Running /\ Depth > 1 /\ Top.role \in roles

Finish(caller, rc) ==
  /\ stack' = Return(WithRc(caller, rc))
  /\ mark' = HandToRunner

NextBody(f) ==
  /\ stack' = Replace(f)
  /\ mark' = HandToConstruct

EndBlock ==
  /\ Ending({"block", "source"})
  /\ Finish(Caller, Top.prev_rc)
  /\ UNCHANGED <<store, signal, status>>

(* The isolated copy is dropped; the parent Runner still has its own.      *)
EndSubshell ==
  /\ Ending({"subshell"})
  /\ Finish(Caller, Top.prev_rc)
  /\ store' = Top.saved
  /\ UNCHANGED <<signal, status>>

(* The finally clause of _run_function_call.                               *)
LeaveFunction(f) ==
  [positional |-> f.saved.positional, func_depth |-> store.func_depth - 1]

EndFunction ==
  /\ Ending({"function"})
  /\ Finish(Caller, Top.prev_rc)
  /\ store' = LeaveFunction(Top)
  /\ UNCHANGED <<signal, status>>

(* The branch taken, the next elif, or (only after a failed condition) the *)
(* else branch or the end of the construct.                                *)
EndIfCond ==
  /\ Ending({"if_cond"})
  /\ \/ NextBody(Body("block", Caller))
     \/ Top.prev_rc # 0 /\ NextBody(Body("if_cond", Caller))
     \/ Top.prev_rc # 0 /\ Finish(Caller, 0)
  /\ UNCHANGED <<store, signal, status>>

EndWhileCond ==
  /\ Ending({"while_cond"})
  /\ IF (Top.prev_rc = 0) # Top.until
     THEN NextBody([Body("while_body", Caller) EXCEPT
                      !.iterations = Top.iterations, !.until = Top.until])
     ELSE Finish(LeaveLoop(Caller), Top.prev_rc)
  /\ UNCHANGED <<store, signal, status>>

NextWhileCond ==
  [Body("while_cond", Caller) EXCEPT !.iterations = Top.iterations + 1,
                                     !.until = Top.until]

EndWhileBody ==
  /\ Ending({"while_body"})
  /\ IF Top.iterations + 1 < MaxLoopIter
     THEN NextBody(NextWhileCond)
     ELSE Finish(LeaveLoop(Caller), 1)
  /\ UNCHANGED <<store, signal, status>>

EndForBody ==
  /\ Ending({"for_body"})
  /\ \/ NextBody(Body("for_body", Caller))
     \/ Finish(LeaveLoop(Caller), Top.prev_rc)
  /\ UNCHANGED <<store, signal, status>>

-----------------------------------------------------------------------------
(* A LoopSignal leaves run_command of the top Runner.                      *)

Unwinding(roles) ==
  status = "running" /\ signal # NoSignal /\ Depth > 1 /\ Top.role \in roles

(* The handler around _run_compound in the Runner below: it re-raises when *)
(* that Runner is inside a loop and reports an error otherwise.            *)
RaiseIn(caller, n) ==
  /\ IF caller.loop_depth > 0
     THEN /\ stack' = Return(caller)
          /\ signal' = [signal EXCEPT !.count = n]
     ELSE /\ stack' = Return(WithRc(caller, 1))
          /\ signal' = NoSignal
  /\ mark' = DropConstruct(DropRunner(mark))

(* The handlers of _run_while_until and _run_for.                          *)
CatchLast(kind) ==
  signal.kind = kind /\ signal.count <= 1 /\ signal' = NoSignal

UnwindBreak ==
  /\ Unwinding(LoopRoles)
  /\ CatchLast("break")
  /\ stack' = Return(WithRc(LeaveLoop(Caller), 0))
  /\ mark' = LET m == DropRunner(mark)
             IN IF m = InConstruct(Depth - 1) THEN InRunner(Depth - 1) ELSE m
  /\ UNCHANGED <<store, status>>

UnwindContinueFor ==
  /\ Unwinding({"for_body"})
  /\ CatchLast("continue")
  /\ \/ /\ stack' = Replace(Body("for_body", Caller))
        /\ mark' = DropRunner(mark)
     \/ /\ stack' = Return(WithRc(LeaveLoop(Caller), 0))
        /\ mark' = LET m == DropRunner(mark)
                   IN IF m = InConstruct(Depth - 1) THEN InRunner(Depth - 1)
                      ELSE m
  /\ UNCHANGED <<store, status>>

UnwindContinueWhile ==
  /\ Unwinding({"while_cond", "while_body"})
  /\ CatchLast("continue")
  /\ IF Top.iterations + 1 < MaxLoopIter
     THEN /\ stack' = Replace(NextWhileCond)
          /\ mark' = DropRunner(mark)
     ELSE /\ stack' = Return(WithRc(LeaveLoop(Caller), 1))
          /\ mark' = LET m == DropRunner(mark)
                     IN IF m = InConstruct(Depth - 1) THEN InRunner(Depth - 1)
                        ELSE m
  /\ UNCHANGED <<store, status>>

\* Mutant: a loop that a signal passes through is still counted.
UnwindOuterLoopCounted ==
  /\ Unwinding(LoopRoles)
  /\ signal.count > 1
  /\ RaiseIn(Caller, signal.count - 1)
  /\ UNCHANGED <<store, status>>

\* Mutant: the signal is re-raised with the count it came with.
UnwindOuterLoopSameCount ==
  /\ Unwinding(LoopRoles)
  /\ signal.count > 1
  /\ RaiseIn(LeaveLoop(Caller), signal.count)
  /\ UNCHANGED <<store, status>>

UnwindOuterLoop ==
  /\ Unwinding(LoopRoles)
  /\ signal.count > 1
  /\ RaiseIn(LeaveLoop(Caller), signal.count - 1)
  /\ UNCHANGED <<store, status>>

UnwindBlock ==
  /\ Unwinding({"block", "if_cond"})
  /\ RaiseIn(Caller, signal.count)
  /\ UNCHANGED <<store, status>>

(* _run_subshell and _run_function_call turn the signal into an error.     *)
UnwindSubshell ==
  /\ Unwinding({"subshell"})
  /\ stack' = Return(WithRc(Caller, 1))
  /\ signal' = NoSignal
  /\ store' = Top.saved
  /\ mark' = DropRunner(mark)
  /\ UNCHANGED status

\* Mutant: the parameters are restored on a normal return only.
UnwindFunctionKeepsArgs ==
  /\ Unwinding({"function"})
  /\ stack' = Return(WithRc(Caller, 1))
  /\ signal' = NoSignal
  /\ store' = [store EXCEPT !.func_depth = @ - 1]
  /\ mark' = DropRunner(mark)
  /\ UNCHANGED status

UnwindFunction ==
  /\ Unwinding({"function"})
  /\ stack' = Return(WithRc(Caller, 1))
  /\ signal' = NoSignal
  /\ store' = LeaveFunction(Top)
  /\ mark' = DropRunner(mark)
  /\ UNCHANGED status

(* Nothing catches a LoopSignal that leaves the Runner of the program text *)
(* or of a sourced file: no action handles it there.                       *)

-----------------------------------------------------------------------------
(* The program text ends; shell_run answers, and a later call of it starts *)
(* afresh.                                                                 *)
Done ==
  /\ Running /\ Depth = 1
  /\ status' = "done"
  /\ UNCHANGED <<stack, store, signal, mark>>

NextCall ==
  /\ status = "done"
  /\ stack' = <<NewRunner("main", FALSE, 0)>>
  /\ store' = NewStore
  /\ signal' = NoSignal
  /\ mark' = NoMark
  /\ status' = "running"

Segment ==
  \/ \E rc \in Rcs : Simple(rc)
  \/ \E n \in 1..(MaxArgs + 1) : Shift(n)
  \/ \E kind \in {"break", "continue"}, n \in 1..MaxCount : BreakOrContinue(kind, n)
  \/ \E n \in 0..MaxArgs : FunctionCall(n)
  \/ Source
  \/ TrivialCompound
  \/ \E role \in {"if_cond", "block"} : EnterBlock(role)
  \/ EnterSubshell
  \/ \E until \in BOOLEAN : EnterWhile(until)
  \/ EnterFor
  \/ EnterForWithoutWords

End ==
  \/ EndBlock \/ EndSubshell \/ EndFunction \/ EndIfCond
  \/ EndWhileCond \/ EndWhileBody \/ EndForBody

Unwind ==
  \/ UnwindBreak \/ UnwindContinueFor \/ UnwindContinueWhile
  \/ UnwindOuterLoop \/ UnwindBlock \/ UnwindSubshell \/ UnwindFunction

Next == Segment \/ End \/ Unwind \/ Done \/ NextCall

Spec == Init /\ [][Next]_vars

-----------------------------------------------------------------------------
TypeOK ==
  /\ stack \in Seq(Frames) /\ stack # <<>>
  /\ store \in Stores
  /\ signal \in Signals \cup {NoSignal}
  /\ mark \in Marks
  /\ status \in {"running", "done"}

(* What _loop_depth means: the loops below a Runner's segment, counted     *)
(* from the innermost sourced file, functions and subshells included.      *)
Inherited(s, i) ==
  IF i = 1 \/ s[i].role = "source" THEN 0 ELSE s[i - 1].loop_depth
Hosting(s, i) ==
  IF i < Len(s) /\ s[i + 1].role \in LoopRoles THEN 1 ELSE 0

(* After any sequence of loops entered, finished, broken out of or unwound *)
(* from the inside, the counter _loop_depth that decides whether a signal  *)
(* is re-raised or reported counts exactly the loops that are running.     *)
LoopDepthCounted ==
  \A i \in 1..Depth : stack[i].loop_depth = Inherited(stack, i) + Hosting(stack, i)

(* A break or continue never leaves shell_run as an exception: every one   *)
(* raised meets a loop, a function, a subshell or a reporting handler      *)
(* before it reaches a Runner around which nothing catches it.             *)
NoUncaughtSignal ==
  signal # NoSignal => Top.role \notin {"main", "source"}

(* break n ends the n-th loop around it, with exit code 0, and continue n  *)
(* goes on with that loop, however many blocks, conditions and loops are   *)
(* unwound on the way; when there are not that many loops the command that *)
(* contains them all fails with exit code 1.                               *)
LandsAtItsLoop ==
  signal # NoSignal /\ signal' = NoSignal /\ status = "running" =>
    LET top == stack'[Len(stack')]
    IN IF signal.goal = 0 THEN top.prev_rc = 1
       ELSE IF signal.kind = "break"
       THEN Len(stack') = signal.goal - 1 /\ top.prev_rc = 0
       ELSE \/ Len(stack') = signal.goal - 1
            \/ Len(stack') = signal.goal /\ top.role \in LoopRoles

SignalLandsAtItsLoop == [][LandsAtItsLoop]_vars

(* The function calls among the first k Runners.                          *)
Calls(s, k) == {i \in 1..k : s[i].role = "function"}

(* st is the state of functions that the first k Runners account for.      *)
Scoped(st, s, k) ==
  /\ st.func_depth = Cardinality(Calls(s, k))
  /\ Calls(s, k) = {} => st.positional = 0
  /\ \A i \in Calls(s, k) :
       (\A j \in Calls(s, k) : j <= i) => st.positional <= s[i].args

(* func_depth counts the function calls on the stack and positional never  *)
(* has more parameters than the innermost of them was given, none outside  *)
(* of functions: no way out of a function or a subshell, normal or by a    *)
(* signal, leaks either.                                                   *)
FunctionStateScoped == Scoped(store, stack, Depth)

(* Until a LoopSignal drops it, the output of a command that ran is held   *)
(* by a Runner that is still running, or by a construct that is: no branch *)
(* taken, iteration or end of a body leaves it behind, and when shell_run  *)
(* answers the outermost Runner has it.                                    *)
OutputHeld ==
  /\ mark.where = "runner" => mark.at \in 1..Depth
  /\ mark.where = "construct" => mark.at \in 1..(Depth - 1)
  /\ status = "done" => mark \in {NoMark, InRunner(1), Lost}

(* Variable `_in_loop' (runner.py): "True when Runner is executing inside  *)
(* a for/while/until body".                                                *)
InLoopInsideBody ==
  Running /\ LoopsInReach # {} => Top.in_loop

(* shell_run (server.py): returns "the per-pipeline outputs joined with    *)
(* newlines".                                                              *)
OutputsReturned == status = "done" => mark # Lost
=============================================================================
