# Verification of shell-sandbox-mcp

TLA+ models, TLC runs and TLAPS proofs about the control logic of
`src/shell_sandbox_mcp`: an MCP server with one tool, `shell_run`, that parses
a shell command and runs its pipelines in a pledge sandbox.  This file says
what the system's parts are, which module models which, what each run checks,
what is proved, and what is left.

## 1. The system

FastMCP calls the synchronous tool `shell_run` in its event loop, so **tool
calls are handled one after another** by one thread.  Concurrency comes from

- child processes (every pipeline stage is a sandboxed process),
- the reaper thread, which lives as long as the server,
- per pipeline, threads that drain stderr and one that writes stdin.

| component | state | operations | interacts with |
|---|---|---|---|
| entry point (`server.py`) | `_SESSION_FUNCTIONS` | `shell_run`: validate cwd, choose a walk | both walks |
| chain walk (`runner.py`, `run_chain`) | `prev_rc`, `ran_any`, `skipped`, `work_dir`, `outputs`, `stages` | skip, timeout/cd builtin, background, run | executor; `$()` expanded before |
| segment walk (`runner.py`, `run_command`) | the same, and the variable store | the same, assignments, builtins, compound commands, functions | parser per segment, bodies |
| nested Runners (`_run_body`, `_run_if`, ...) | `_in_loop`, `_loop_depth` per Runner; `positional`, `func_depth` of the store; LoopSignal in flight | enter, finish, unwind | segment walk, recursively |
| builtins (`builtins.py`, `variables.py`) | `variables`, `exported`, `positional`, `functions` | assign, export, unset, set, shift, source | segment walk; environment of children |
| pipeline execution (`executor.py`, `redirects.py`) | Popen objects, pipe ends, files | plan, launch, communicate, kill, collect, close | kernel, drain threads |
| background and reaper (`executor.py`) | `_bg_pids`, `_reaper_started`, `subprocess._active` | register, scan, waitpid, discard | pipeline execution |
| command substitution (`executor.py`, `_capture_stdout`; `parser.py`, `parse_command`) | `_PARSE_CACHE`; deadline, `subst_count`, depth per call | parse and expand, a third walk of a list | parser, pipeline execution |
| lexer and parser (`parser.py`) | per call: lexer flags, nesting counters | lex, build the tree, slice bodies, `split_chains`, the gate | everything |
| words to arguments (`parser.py`) | fields in flight | split at IFS, fan out `"$@"`, limit | walks, builtins |
| policy, containment, config | none (tables) | look up, resolve, test a prefix | executor |
| `vendor/sandbox.c`, `bin/run-sandbox` | none | pledge, unveil, exec | kernel |

What makes each of them correct, and where it is hard:

- **Walks.** Three pieces of code (`run_chain`, `run_command`,
  `_capture_stdout`) walk a list joined by `;`, `&&`, `||`, `&`; they must do
  the same, what the docstring of `shell_run` says.  What decides about a
  pipeline depends on the whole list before it.
- **Nested Runners.** Bodies are run by fresh Runners that copy some fields,
  share the store and may be left by an exception; everything a construct
  changed must be undone on every way out, and a `break n` has to end exactly
  the loop it names although each Runner sees only its own fields.
- **Children.** Three parties wait for the same processes and know them only by
  pids, which the kernel hands out again.
- **Pipes.** Every end has to be closed by exactly one party on every path,
  the error paths included, or a reader waits for ever.
- **Substitution.** Nested calls share a deadline and limits, some of them per
  outermost `$()` and some per text, and the cache is used again while an entry
  of it is at work.
- **Store.** A pipeline mixes assignments, builtins and commands; what a child
  sees was taken from the store at one moment and overlaid at another, and
  subshells and functions have to give back what they borrowed.
- **Reading.** One text is read by three pieces of code with different notions
  of where a command starts: `split_chains` and the gate go by tokens,
  `_slice_body` by words, the parser by the grammar.  Where they disagree, a
  command is cut in the middle, dropped, or run without its store.

Every hazard of this kind that was found in the code is listed in
`PROJECT.json` under `hazards`, at its line, with the properties that watch it.

## 2. Modules

| module | models | state and actions in the code |
|---|---|---|
| `ChainHistory` | vocabulary: what was done with each pipeline of a list | `(op, nodes, backgrounded)` of `program_to_chain` / `split_chains`, `Result.stages` |
| `AndOrList` | **abstract specification** of such a list: in order, skip by the last known exit code, cd moves the later ones | docstring of `shell_run` |
| `RunChain` | `Runner.run_chain` | one action per branch of the loop, `Finish` for the Result, `ExpansionError` for the early answers of `shell_run` |
| `RunCommand` | `Runner.run_command` | the same plus `SegmentError`, `Compound` and `Drop` (line 726) |
| `RunnerStack` | the nested Runners of one call | `stack` is the Python call stack of Runners with the construct each serves; `Enter*`, `End*` are the calls and returns of `_run_body`, `Unwind*` the handlers a LoopSignal meets |
| `Background` | children, calling thread, reaper, `subprocess._active` | `pc`, `polls` are the position of the calling thread; `Snapshot`, `Wait`, `Discard`, `Sleep` the loop of `_reap` |
| `Redirects` | where the redirects of a stage send its stdout and stderr | `Apply` is `Redirect.apply`, `Resolve` is `RedirectPlan.apply` |
| `Pipeline` | one foreground pipeline, from plan to answer | `pc` is the position in `_build_pipeline_plan`, `_launch_segment_run` (one stage) or `_launch_pipeline_foreground` (several); `ends` says who holds which end of which pipe |
| `Substitution` | `parse_command` with its LRU cache and `_capture_stdout`, which call each other, and the tasks a walk gives them | `frames` is the Python stack of the two functions in turn; `own`, `shared`, `left` are the two `subst_count` and the deadline; one action per branch |
| `Fields` | `_field_split` and the loop over the parts of a word in `_extract_from_node` | `fields` is the list of the same name; one action per kind of part |
| `Variables` | `VariableStore`, `export`, `set`, `unset`, and what `run_command` does with the stages of a pipeline | `variables`, `exported`; `frames` are subshells and functions with what each restores; a builtin is read word by word |
| `Tokens` | the Lexer over items: which parenthesis or brace is a token, where a command may start | flags of `Lexer` |
| `Chains` | `split_chains`, `segment_needs_variable_state` | depth, expect-command; the gate's flags |
| `Grammar` | `_build_ast` with `_slice_body` and the parsers of each construct | `at` is the place in the recursive descent |
| `Reader` | the three above, reading one text side by side | `whole` is what `run_chain` gets, `segment` what `run_command` gets |
| `*MC` | instances for TLC; `SubstitutionMC` has `Substitution` and `Fields`, `ShellMC` has `Variables` and `Reader` | |
| `Selections` | what a comprehension keeps of a list, as a recursive function | used where the code filters stages, entries or texts |
| `SelectionProofs` | induction and recursion over the naturals, and the lemmas about `Keep` | |
| `ChainProofs` | theorems about chains: how `RunChain` walks them, how `Reader` finds them | |
| `RunnerStackProofs`, `RunCommandProofs`, `SubstitutionProofs`, `VariablesProofs`, `BackgroundProofs`, `PipelineProofs` | theorems | |

`AndOrList` is what both `RunChain` and `RunCommand` are shown to implement,
through `INSTANCE AndOrList WITH history <- ...` (in `RunChain` the history is
the variable `stages`).  Its constant `DropsAfter` is empty for the promise of
the docstring and `{1}` for what `run_command` really does.

`RunnerStack` describes the inside of a step `Compound` or `Execute` of
`RunCommand`: which segments a body has is left open there, so every sequence
of them is explored, and what `&&` or `||` does between them is `RunCommand`'s
subject.

A run that has two modules lets one of them rest in its initial state while the
other works: a text is read before a pipeline of it changes the store, and the
words of a command are split after its `$()` have run.

### Abstractions

- What a simple command does is an exit code; text is not modelled.  In
  `RunnerStack` one arbitrary simple command's output is followed (`mark`) to
  the place it is held, which is enough to say that no output is lost.
- `history`, `substs` (walks), `goal` of a signal and `mark` (`RunnerStack`),
  `real` and `stale` (`Background`) are history variables: no action of the
  program reads them.
- Builtins that are a stage of a longer pipeline (`_run_mixed_pipeline`) count
  as one simple command.
- The empty-segment branches of `run_command` (lines 661 and 667) are left out:
  `split_chains` drops blank segments, and no other text parses to nothing.
- An exception that is not a LoopSignal ends the call; it is not modelled
  (`_run_for` can raise one out of the expansion of its words).
- In `Pipeline` a program's output is a number of bytes in a pipe; it reads and
  writes in any order, exits at any time, and may leave a process behind that
  keeps its ends open and does nothing else.  All files are one file, and files
  are always written to; file objects close themselves when dropped, the two
  raw descriptors of the shared pipe do not.  `t.join(timeout=1)` gives up only
  on a thread that such a process holds up.  Reading from the server's own
  stdin, which the first stage inherits, is not modelled.
- In `Substitution` a text is a model value with its list of `$()` and
  operators (`Prog`); what a `$()` prints is one unit of size or none; time is
  in whole seconds.  Joining the words of a `for` list gives one text more.
- In `Fields` a value is a sequence of at most two characters of three kinds
  (a letter, whitespace of IFS, another character of IFS).  Globbing, tildes
  and the validation of redirect targets are left out.
- In `Variables` a value is empty or not; what the operators of `${...}` give
  and what builtins print are left out.  `$()` starts from the environment of
  the server and not from the store (`_capture_stdout` passes none), which is
  not modelled.
- In `Reader` a text is a sequence of items: a word by the role it can play,
  a separator, a parenthesis or brace, a redirect, a newline.  Quotes and
  escapes are inside of words.  Redirects are of four kinds: `>`, which takes a
  word as its target; `2>&1`, which takes none; `<<`, one token with the rest
  of its line, its text, the line that ends it and that line's newline; `<<<`,
  one token with the rest of its line.  The text of the last two has no
  parenthesis or brace.  In a text that was expanded before, as `_run_body`
  does, a here-document is `<<` and a word and reads as `>`.  `set` stands for
  every word the gate looks for, `a` for every other.
- In `Background` a kill and the wait after it are one step, because whoever
  collects the child in between changes nothing that is read later; the codes
  of background children are not read by anybody and not told apart.

## 3. Runs

| run | bounds | shows |
|---|---|---|
| `runner_stack` | 4 Runners at once, recursion limits 2 and 3, 2 iterations per loop, counts of break to 3, 1 argument, exit codes 0 and 1 | `TypeOK`, `LoopDepthCounted`, `NoUncaughtSignal`, `FunctionStateScoped`, `OutputHeld`, `SignalLandsAtItsLoop` |
| `in_loop` | 3 Runners | violation of `InLoopInsideBody` |
| `lost_output` | 3 Runners | violation of `OutputsReturned` |
| `run_chain` | lists of up to 3 pipelines, exit codes 0, 1, 2, two directories | `FieldsAgree`, `ImplementsList` |
| `run_command` | the same | `StagesTellHistory`, `SubstitutionInPlace`, `ImplementsDroppingList` |
| `dropped` | the same | violation of `NothingDropped` |
| `background` | 2 pids, pipelines of up to 2 stages, exit codes 0 and 1, any number of calls | `OwnStatus`, `NoOrphans`, `Registered`, `ForegroundCollected`, `Reaped` |
| `steals` | the same | violation of `NeverSteals` |
| `pipeline` | up to 2 stages, 3 redirects per stage, pipes of 1 byte, a here-document of 2, 2 reads or writes per stage | `NeverWedged`, `Tidy`, `NothingLeftUnread`, `NoStageLeft`, `AnsweredOrSilent` |
| `hang` | 1 stage, 2 redirects | violation of `Answered` |
| `substitution` | 13 texts with nesting to 3, cache of 3, depth 4, 3 substitutions, output 1, timeout 2; words of up to 3 parts, values of 2 characters, 2 arguments, every IFS | `CacheIsLRU`, `WorkBounded`, `OverrunBounded`, `RepeatsBounded`, `RunsItsSubstitutions`, `Answered`; `ArgumentsAsDefined`, `OnlyDelimitersLost` |
| `shell` | 2 names, a bad one, 1 function, 11 pipelines, 1 subshell or function deep, any number of calls; texts of any length over 29 items, nesting 1 of each kind | `ExportedAreSet`, `ChildEnvironment`, `WordsTakeEffect`, `SubshellKeepsFunctions`; `NothingDropped`, `SameChains`, `GateSound` |

Why the bounds are enough.  *RunnerStack*: with four Runners there are three
nested constructs, so a signal can pass through a loop or a block between the
`break` and the loop it names, `break 3` can exceed the loops there are, and a
function, a subshell or a sourced file can lie at each level; both recursion
limits are reached within four Runners, and two iterations make a loop body
run again and hit the iteration limit.  *Walks*: what is done with a pipeline
depends on the last known exit code and on whether anything ran, so three
pipelines (one to fail, one to be skipped or backgrounded, one to decide about)
show every dependency; code 2 is there because the code treats 1 specially.
*Background*: two pids are a two-stage background pipeline, or a background
child and a foreground one whose pid was used before; they are handed out
again without end.
*Pipeline*: a deadlock over pipes needs a full pipe, an empty one and two who
wait, which pipes of one byte and two stages show; three redirects are enough
to set up the shared pipe and to undo it again.  The safety properties were
also checked once with three stages, no redirects and one operation each.

*Substitution*: a cache of three is smaller than what one expansion parses, so
that eviction meets entries at work; three substitutions and a timeout of two
seconds are exceeded by one text, by a list and by a nest.  *Fields*: two
characters can be a delimiter at either end or a pair of delimiters, and three
parts put an expansion between two others.  *Variables*: the pipelines hold one
example each of what `export`, `set` and `unset` do with a word, of a refused
word behind good ones, of prefixes on each kind of stage, and of a builtin
before commands.  *Reader*: texts grow without end, because a finite number of
flags tells everything about what was read; nesting one deep makes every
construct appear inside every other kind of bracket.  `&`, `||`, `elif`,
`while` and `until` are left out of the run, as `;`, `&&`, `else`, and `if` and
`for` take the same branches.

Two modules were compared with the Python code by running both outside of TLC:
`FieldSplit` with `_field_split` on 9 555 inputs and `Reader` with the lexer,
`split_chains`, the gate and the parser on 62 000 random texts, redirects
of all four kinds among them, without a difference.

Deadlock is checked for `RunnerStack`, `Background`, `substitution` and
`shell`.  It is switched off for
the two walks and for `Pipeline`, which stop when they have answered; that
`Pipeline` does not stop earlier is `NeverWedged` and `AnsweredOrSilent`.

**Fairness** is assumed in `Pipeline`: `WF(Caller)` and `WF(Threads)`, because
every wait of the calling thread but the read of the shared pipe has a timeout,
which is one of its steps, and the threads are ordinary threads of the server;
programs owe nothing.  And in `Background`: `WF(Reaper)`, because the reaper
is a daemon thread in an endless loop whose only waits are a sleep and a lock
held for a few statements; and `WF(Handle)`, because the thread of a tool call
blocks only in `communicate`, which has a timeout.  No child has to exit, and
no call has to be made.  In `Substitution`: `WF(Serve)`, because a pipeline is
killed at its timeout and everything else is computation of one thread; the
time a kill and the joins after it take is not counted, and the silent shared
pipe of `hang`, which would break it, belongs to `Pipeline`.

### Where the code and its documentation differ

- `dropped`: after a segment that exits with exactly 1, `run_command` passes
  over every following segment that is not a compound command, until `&&` or
  `||` decides otherwise, without output or stage (`runner.py:726`).
- `in_loop`: a loop that ends clears `_in_loop` of its Runner even when that
  Runner executes the body of an outer loop; a `break` after it is refused
  (`runner.py:1277`, `1350`).
- `lost_output`: what a body printed before `break` or `continue` is lost
  (`runner.py:810`).
- `steals`: the reaper can take the exit status of a foreground child that got
  the pid of a background child which subprocess had collected and the reaper
  had yet to forget; it needs the kernel to come round to that pid within
  about five seconds (`executor.py:1157`).
- `hang`: a single command that sends stderr to the shared pipe (`1>&2`, or
  `2>&1` before `> f`) and prints nothing there leaves the server waiting for
  ever in `os.read`, since it holds the pipe's write end itself
  (`executor.py:544`).  `make 2>&1 > log` without errors is enough.

Two more, which no run of the project repeats:

- `shell_run` expands the whole command before `run_chain` starts, so that
  `cd build && echo $(pwd)` prints the directory of before and
  `false && echo $(mkdir d)` makes `d`, although the docstring says that cd
  "changes the working directory for subsequent segments of the SAME call"
  (`server.py:216`) and that "`&&` runs its pipeline only if the previous one
  succeeded" (`server.py:193`).  `RunChain` states both as
  `SubstitutionFollowsCd` and `SkippedRunsNothing`; TLC refutes each in three
  steps.  `run_command`, which one builtin anywhere in the text selects, does
  neither (`SubstitutionInPlace`).
- The docstring says "no IFS field-splitting is performed for any `$VAR`
  expansion" (`server.py:288`); `_extract_from_node` splits (`parser.py:3814`),
  and `AddExpansion` of `Fields` with it.

What `Pipeline` says besides, as exceptions in its properties or as reachable
states: `a | b 1>&2` always ends in an AttributeError and leaves both raw
descriptors open (`executor.py:690`, result `escaped`); a redirect that cannot
be opened after `1>&2` leaves them open too (`PlanLeaks`); `2>&1 1>&2` gives
Popen `subprocess.STDOUT` as stdout, which fails; more output to the shared
pipe than it holds blocks the command until its timeout, because it is read
afterwards only; stages still at work when the last one ends are killed.

Facts of the other models that no text of the repository denies, or that the
properties except by name:

- *Substitution.*  Between the lookup of a cached text and `move_to_end` its
  `$()` run and may evict it; the KeyError is caught by nobody (action
  `Evicted`; with the cache of 256 it takes as many other texts in one
  expansion).  The words of a `for` list are parsed joined by newlines, which
  gives one chain, and then one by one, so that every `$()` of a list of two
  or more words runs twice; a body is expanded as a whole and again segment
  by segment (`RepeatsBounded`).  Each outermost `$()` has a deadline and a count
  of its own, a nested one counts twice, a short circuit inside of `$()`
  ends the list, and each pipeline gets at least a second (`OverrunBounded`).
- *Fields.*  `x$V` with `V=' y'` is the one argument `xy`: the blank at the
  edge of an expansion does not separate it from what stands beside it (the
  exception `edge` of `ArgumentsAsDefined`, which still says that there are no
  more arguments than defined).
- *Variables.*  Builtins in a pipeline change the store at once while later
  stages get the environment taken at the start (the exception `named` of
  `ChildEnvironment`; the docstring says so).  Assignments in front of a
  function or a builtin are ignored, `X=1 | cmd` keeps X, `set` accepts names
  it cannot export, `unset` with both flags refuses, and a pipeline with `&`
  is refused only after the assignments in it were made.  The words of a `for`
  see the environment of the server and not the variables (`runner.py:1302`).
- *Reader.*  The three readings agree on every text in which none of the
  things listed above `Odd` occurs.  Among what does occur there:
  `( case x in a ) b ;; esac ; c )` and `if while a; do b; done; then c; fi`
  are cut in the middle by `split_chains`; `function f { a ; b ; }` and
  `if ( a ) ; then ...` are ParseErrors; what follows a compound command
  without an operator, as `c` in `if ... fi c`, and `b` of `a ;; b` are
  dropped; `timeout > f 5 export A=1` is not seen by the gate; an operator
  with nothing before it ends the parse; redirects without a target are read
  in three ways, so that the `fi` behind a here-document in a body is one for
  the parser (`parser.py:2075`) and none for `split_chains` (3245), and `b` of

      if a; then cat <<E
      h
      E
      fi; b

  is in the same segment and is dropped (`runner.py:665`); `2>&1 unset X` goes
  unseen to `run_chain`, because the gate takes `unset` for a target
  (3367-3374); a `done` or `fi` on the line after `2>&1` is skipped as if it
  were one, which makes the text a ParseError (2077-2080).  No oddity, as all
  three agree on it: the line after a here-document goes on with the same
  command, with what it holds as arguments.  Finally, `_at_command_pos` skips
  newlines, though its docstring counts them among the separators.

`NothingDropped` of `Reader` (run `shell`) is about chains of a segment that
`run_command` ignores because it looks at the first only; that of `RunCommand`
(run `dropped`) is about segments it passes over.

## 4. Proofs

Every theorem holds for all values of the constants that the ASSUMEs of the
component's module allow; every proof is checked to the last leaf.

| module | theorems | inductive invariant |
|---|---|---|
| `RunnerStackProofs` | `TypeCorrect`, `LoopDepthIsCounted`, `SignalsAreCaught`, `FunctionStateIsScoped` | `IInv` |
| | `OutputIsHeld` | `MarkInv`, over `IInv` |
| | `SignalsLandAtTheirLoops` (a step property) | `SignalInv`, over `IInv` |
| `ChainProofs` | `FieldsAlwaysAgree`, `RunChainImplementsList` | `IInv` |
| | `NothingIsDropped`, `TreesHaveTheCuts`, `GateSeesState` | `ReaderInv` |
| `RunCommandProofs` | `TypeCorrect`, `SubstitutionsRunInPlace`, `AnswersTellHistory`, `RunCommandImplementsDroppingList` | `IInv` |
| `BackgroundProofs` | `TypeCorrect`, `StatusIsOwn`, `NoneIsOrphaned`, `LaunchedAreRegistered`, `NoForegroundChildIsLeft` | `IInv` |
| `PipelineProofs` | `StagesAreWaitedFor`, `EndsAreClosed` | `IInv` |
| | `TypeCorrect`, `PipelineIsNeverWedged` | `Wiring`, over `IInv` |
| | `AllOutputIsRead` | `Unread`, over `IInv` and `Wiring` |
| `SubstitutionProofs` | `WorkIsBounded`, `OverrunIsBounded` | `Counters` |
| | `TypeCorrect` | `Typed`, with `Counters` |
| | `CacheHoldsLastTexts` | `Recency`, over `Typed` |
| | `RepeatsAreBounded`, `SubstitutionsRunOnce` (a step property) | `Tally`, over `Typed` |
| | `CharactersAreKept` | `Expansion` |
| | `WordsBecomeTheirArguments` | `Words`, with `Expansion` |
| `VariablesProofs` | `ExportedHaveValues`, `SubshellsKeepFunctions` (a step property) | `IInv` |
| | `TypeCorrect` | `Typed`, over `IInv` |
| | `ChildrenGetTheirEnvironment` | `Launching`, over `Typed` |
| | `WordsActInOrder` | `InOrder`, over `Typed` |

*RunnerStack.*  `IInv` adds to the properties the shape of the stack
(`WellNested`: the first Runner and no other is `main`, `_loop_depth` is what
the Runner inherited plus the loop it hosts, and it is positive wherever
`_in_loop` is set), what each function or subshell saved (`SavedScoped`), so
that unwinding restores a store that is right for the shorter stack, and that a
signal is in flight only inside a loop (`SignalInLoop`).  `MarkInv` adds
`Held`: a construct holds output only while a body that is neither a function,
a subshell nor a sourced file runs above it, since those hand their output to
the Runner at once.  `SignalInv` adds `LoopInherited`, that below a loop the
counter stays positive until a scope ends, and `Aims`, that the count of a
signal in flight is the number of loops in reach from the top down to its goal.
There is one lemma per action, and one step under it per conjunct.

*Walks.*  The initial states map to initial states of `AndOrList` and every
step to a step of it or a stutter, with the agreement of fields and history as
the invariant that makes the guards on `prev_rc` and `ran_any` equivalent to
those on the history.  `LastRc` is the exit code of the last entry that `Keep`
selects; appending an entry to the history changes it as the entry says
(`LastRcFacts`).  `run_command` is shown to implement the list with
`DropsAfter = {1}`; that no other segment is ever dropped is what the theorem
adds to the finding `dropped`.  Its invariant also says (`Telling`) that the
stages are those of the segments that were not dropped, and `prev_rc` the exit
code of the last of those that ran.

*Selections.*  Where the code filters a list the models use `Keep`, a recursive
function.  What such a function computes is a matter of induction, and the
library's induction theorems cannot be instantiated; `SelectionProofs` gets
along without them: a set of naturals that is not empty has a least element
(`Least`, from the well-foundedness of `<`), a set that contains 0 and with
each number the next one leaves out none (`Induction`, by its least
exception), and a step function has an iteration (`Recursion`).  From these
follow what `Keep` does to an empty list, to one with an element more, to one
of which all or not all is kept, and which elements it returns.

*Background.*  `IInv` says, for each place of the calling thread, what it holds
(`Phase`) and which children it is responsible for (`Kids`), that a pid which
the reaper is about to discard is one that was collected or handed out anew
(`Reaping`), and that the exit code of a pipeline can still be had, and is its
own, when its pid is not one the reaper has yet to forget (`Status`).

*Pipeline.*  `IInv` says, for each place of the calling thread, how long the
plan is (`Planned`), which stages were launched and which are waited for
(`Waited`), and which ends the server may hold (`Holdings`).  Programs never
add an end of the server and threads only close some.

`Wiring` adds which process can hold which end of which pipe (`Wired`), what
the redirects of a stage make of its targets (`Targets`: nothing goes to a
shared pipe that was not made), and that what holds an end, or is in the middle
of a read or a write, runs and has a pipe for it (`Alive`, `Uncollected`).  If nothing could move, some stage would be stuck in a
write; it waits for the next stage, which is stuck in a write too, so the last
such stage would wait for nobody.  Without one every stage that runs waits for
the stage before, and the first of those for the thread that writes stdin, which
does not wait.  `Unread` adds that bytes are in a pipe of the server only while
it has it open (`Open`), and which pipes are empty at which place of the calling
thread (`Emptied`).

*Substitution.*  `Counters` says that the shared count stays at most
`MAX_SUBST_COUNT`, that no more substitutions were begun than it counted, and
that the time left is at least minus the pipelines that started late.

`Typed` says that the calls in progress are parses and walks in turn, that the
outermost one is for the text the task is at, and that the text of each call is
shorter than that of every parse below it (`Shrinking`).  The last part rests on
`LengthAssumption`: the text of a `$()` is what its parentheses enclose, so it
has fewer characters than the text it is in (`parser.py:985`, `:1291`,
`:1766`, `:3462`).  Without it the cache could not be shown to be in order: a text that
was looked for and missed is stored after its `$()` have been parsed, and had
one of those been the same text it would be in the cache already.  `Recency`
says that a text whose parse is in progress and was missed is still not cached.

`Tally` compares what was run for the task with how far the outermost parse has
got (`Through`): all `$()` before that place, unneeded operands excepted, have
been run once.  For bodies and words it adds up the texts that ended, which
together have no more `$()` than the whole (the last part of `TaskAssumption`:
segments and words are slices of the text that was expanded first).

*Fields.*  `Expansion` is `OnlyDelimitersLost` with the types of what it
compares.  Its steps rest on what the recursive functions do: reading a character
adds it to what the pieces and the current field hold (`Held`), or adds nothing
when it is a delimiter, so that the pieces of `_field_split` together are what
`Keep` leaves of the value without its delimiters (`FieldSplitFacts`); to add to
the last field, or to fan out into new ones, adds the same characters at the end
of the flattened fields (`GrowFacts`, `FanOutFacts`).

`Words` compares the fields with the gaps between the borders of the word. The
borders are a set: an item is in the gap whose number is that of the borders up
to it (`Places`), and one more item opens a gap or adds to the last one
(`BordersAppend`, `GapAppend`). Two parts put together merge the last gap of the
one with the first of the other, provided that their delimiters do not run into
each other (`GapsConcat`); `Aged` says that those of the next part never do.
What `_field_split` has read at any place is compared with the gaps there
(`Fits`), which shows that its pieces are the gaps that are arguments, but for
one at either end (`SplitMade`). From this follow the three parts of `Words`:
fields and gaps are alike as long as no expansion had blanks at an end, since
then there is no such gap (`StayAlike`); a single part makes the same arguments
even so (`FirstPart`); and of the gaps there are never fewer arguments, neither
in all nor before the last one (`StayFewer`).

*Variables.*  `IInv` says that what is exported has a value, in the store in
use and in each that a frame saved, and that an inner subshell has a later
dictionary of functions than an outer one (`Scoped`).  `Typed` gives every
variable its type.  `Launching` says that overrides and stages are aligned, that
the environment taken at the start of a pipeline agrees with the store but for
the names that builtins were given since (`Current`), and that each child's
does; `InOrder` that the store is what the words read so far make of the one
before the builtin, so that a step has to look at one word only.

*Reader.*  The theorems are about `ReadSpec`: texts of any length over any
subset of the items, read to any nesting.  `ReaderInv` has five parts.
`ReadTyped` gives the records of the three readers their types, and
`CommandInv` says that a lexer expects a command wherever the one that began
later does.  The other three compare two readers each, by counting what is open:

- `WholeInv`, for the tree of the whole text.  The depth of `split_chains` is
  the number of parentheses, braces (`Braced`) and compound commands
  (`Commands`) that the parser has open, and it expects a command where the
  parser does (`Expected`).  So it is zero exactly where a chain can end: each
  cut ends a chain, and each chain ends at a cut.  The parser does not keep
  these numbers.  It takes a part out of the text and calls itself for it, so
  that the numbers are sums over the parts it is in, and the lemma about a step
  (`Proceed`) says by how much each token changes the sum.
- `SegmentInv`, for the first chain of a segment.  The lexer of a segment
  begins afresh and may take for a sign what that of the whole text takes for
  part of a word, so that there is only a bound: `split_chains` is never deeper
  than the parser of the segment.  That is enough for every chain to end at a cut.
- `GateInv`, for the gate.  Until the gate has seen something that needs state,
  nothing is open and the parser is at the place in a simple command at which
  the gate is (`Quiet`, `Level`).

Each part says nothing of a parser that failed, since what it would have read is
a ParseError for the program, or of a text that is `Odd`.

Every invariant and every step property that a passing run checks is proved.
Liveness (`Reaped`, `AnsweredOrSilent`, `Answered`) is out of the prover's reach.

## 5. What is left

Done of the plan: the third walk, the store, the readers, the fields, the
caches, and the proofs about both walks, the readers, the fields, the caches,
the stack, the store, the children and the pipes.
It would be worth having next:

1. Log files and pipes of background pipelines (`executor.py`, `hazards`).
2. Field splitting with globbing and tildes.
3. Two calls in a row with different session functions in `Reader`'s gate.

### Not modelled

- The characters inside of words: quotes, escapes, `$((...))`, the operators of
  `${...}`, the text of here-documents.  They are functions from strings to
  strings without state, which the test suite enumerates better.
- `policy.py`, `containment.py`, `config.py`: tables, and prefix tests of
  resolved paths; their limits are constants of the models.
- `vendor/sandbox.c` and `bin/run-sandbox`: a sequence of system calls before
  `exec`.
- What a child does with its output, other than how much of it there is.
- Building an invocation (sandbox arguments, promises) and formatting an answer.
