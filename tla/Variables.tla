------------------------------ MODULE Variables ------------------------------
(***************************************************************************)
(* The VariableStore of a call (variables.py), the builtins that change it *)
(* (builtins.py) and what run_command does with the stages of a pipeline:  *)
(* assignments, builtins and commands mixed (runner.py, from               *)
(* _split_assignment_prefix to _run_mixed_pipeline).  Functions outlive    *)
(* the call.  Which segments of a list run is in RunCommand, positional    *)
(* parameters are in RunnerStack; what a command prints is not modelled.   *)
(***************************************************************************)
EXTENDS Selections, FiniteSets

CONSTANTS
  Names,      \* variable names
  BadNames,   \* what looks like name=value but is not a valid name
  Values, Empty,
  NoValue,    \* an argument without =
  Base,       \* the environment the server passes on, _base_env
  FunNames,   \* function names
  Segments,   \* pipelines that calls are made of, see SegmentAssumption
  NoBuiltin,  \* no builtin is at work
  MaxNest     \* bound of the model: nested subshells and function calls

None == "none"
Mapping(names, values) == UNION {[s -> values] : s \in SUBSET names}
Prefixes == Mapping(Names, Values)

(* A word of a builtin: name=value, name or an option.                     *)
Options == {"-f", "-v", "--", "-x"}
WordNames == Names \cup BadNames \cup FunNames \cup Options
Arguments == [name : WordNames, value : Values \cup {NoValue}]
Builtins == {"export", "set", "unset"}

(* A stage has assignments in front of a command, of a builtin, or of      *)
(* nothing.                                                                *)
StagesOf(cmds) == [prefix : Prefixes, cmd : cmds, args : Seq(Arguments)]
Commands == Builtins \cup FunNames \cup {"command"}
Stages == StagesOf(Commands \cup {None})

ASSUME ValueAssumption ==
  /\ Empty \in Values /\ NoValue \notin Values
  /\ Names \cap BadNames = {} /\ Names \cap Options = {}
  /\ FunNames \cap (Builtins \cup {"command", None}) = {}
  /\ Base \in Prefixes /\ MaxNest \in Nat
  /\ NoBuiltin \notin Seq(Arguments)
ASSUME SegmentAssumption == Segments \subseteq Seq(Stages) \ {<<>>}

VARIABLES
  variables, exported,   \* the store in use
  functions,  \* the dictionaries of functions: _SESSION_FUNCTIONS, then
              \* those of subshells, the last one the store's
  frames,     \* subshells and functions around, with what each restores
  nodes, overrides,      \* stages that are not assignments only, and
                         \* stage_env_overrides
  base,       \* the environment taken when the pipeline started
  pos,        \* the stage that is next
  words,      \* what the builtin at work has yet to read
  rc,         \* prev_rc of the Runner at work
  before,     \* history: the store when the builtin started
  named,      \* history: names given to builtins of this pipeline
  child       \* history: the commands launched last

store == <<variables, exported>>
pipeline == <<nodes, overrides, base, pos, words, before, named>>
vars == <<store, functions, frames, pipeline, rc, child>>
dict == Len(functions)

Over(f, g) == [n \in DOMAIN f \cup DOMAIN g |-> IF n \in DOMAIN g THEN g[n]
                                                ELSE f[n]]
Only(f, names) == [n \in DOMAIN f \cap names |-> f[n]]
Without(f, names) == Only(f, DOMAIN f \ names)

(* env_for_subprocess                                                      *)
Environment == Only(variables, exported)

Fresh == <<Base, DOMAIN Base>>
Init ==
  /\ variables = Base /\ exported = DOMAIN Base
  /\ functions = <<{}>> /\ frames = <<>>
  /\ nodes = <<>> /\ overrides = <<>> /\ base = Base /\ pos = 1
  /\ words = NoBuiltin /\ rc = 0
  /\ before = Fresh /\ named = {} /\ child = {}

Idle == pos > Len(nodes)
NoPipeline ==
  /\ nodes' = <<>> /\ overrides' = <<>> /\ base' = Base /\ pos' = 1
  /\ words' = NoBuiltin /\ before' = Fresh /\ named' = {}

-----------------------------------------------------------------------------
(* shell_run makes a store for a call; its functions are the session's.    *)
NewCall ==
  /\ Idle /\ frames = <<>>
  /\ variables' = Base /\ exported' = DOMAIN Base
  /\ NoPipeline /\ rc' = 0 /\ child' = {}
  /\ UNCHANGED <<functions, frames>>

Define(f) ==
  /\ Idle
  /\ functions' = [functions EXCEPT ![dict] = @ \cup {f}]
  /\ rc' = 0 /\ child' = {} /\ NoPipeline
  /\ UNCHANGED <<store, frames>>

(* A subshell works on a copy of the store, the dictionary included.  Like *)
(* a function it has a Runner of its own, whose prev_rc is 0 at first.     *)
Saved(kind) == [kind |-> kind, variables |-> variables, exported |-> exported,
                dict |-> dict]

\* Mutant: the copy shares the dictionary of functions.
EnterSubshellShallow ==
  /\ Idle /\ Len(frames) < MaxNest
  /\ frames' = Append(frames, Saved("subshell"))
  /\ rc' = 0 /\ NoPipeline /\ child' = {} /\ UNCHANGED <<store, functions>>

EnterSubshell ==
  /\ Idle /\ Len(frames) < MaxNest
  /\ frames' = Append(frames, Saved("subshell"))
  /\ functions' = Append(functions, functions[dict])
  /\ rc' = 0 /\ NoPipeline /\ child' = {} /\ UNCHANGED store

Top == frames[Len(frames)]
Below == SubSeq(frames, 1, Len(frames) - 1)
LeaveSubshell ==
  /\ Idle /\ frames # <<>> /\ Top.kind = "subshell"
  /\ variables' = Top.variables /\ exported' = Top.exported
  /\ functions' = SubSeq(functions, 1, Top.dict)
  /\ frames' = Below /\ NoPipeline /\ child' = {} /\ UNCHANGED rc

(* A function works on the store of its caller.                            *)
LeaveFunction ==
  /\ Idle /\ frames # <<>> /\ Top.kind = "function"
  /\ frames' = Below /\ NoPipeline /\ child' = {}
  /\ UNCHANGED <<store, functions, rc>>

-----------------------------------------------------------------------------
(* A pipeline.  Stages that only assign do it at once, whatever the others *)
(* do; a prefix of another stage is kept for the command's environment.    *)
(* After exit code 1 a Runner skips its pipelines (see RunCommand).        *)
Starts == Idle /\ rc # 1

Assigning(seg) == {i \in 1..Len(seg) : seg[i].cmd = None}
Kept(seg) == Keep(seg, StagesOf(Commands))
Merged(seg) ==
  [n \in DOMAIN variables \cup UNION {DOMAIN seg[i].prefix : i \in Assigning(seg)} |->
     LET by == {i \in Assigning(seg) : n \in DOMAIN seg[i].prefix}
     IN IF by = {} THEN variables[n]
        ELSE seg[CHOOSE i \in by : \A j \in by : j <= i].prefix[n]]

(* An assignment alone is one; several in a pipeline are refused.          *)
Assign(seg) ==
  /\ Starts /\ Kept(seg) = <<>>
  /\ IF Len(seg) = 1 THEN variables' = Merged(seg) /\ rc' = 0
                     ELSE rc' = 1 /\ UNCHANGED variables
  /\ NoPipeline /\ child' = {} /\ UNCHANGED <<exported, functions, frames>>

(* A function is only called when it is the whole pipeline, and with no    *)
(* regard to a prefix; elsewhere its name is that of a command.            *)
Calls(seg) == Len(Kept(seg)) = 1 /\ Kept(seg)[1].cmd \in functions[dict]
Call(seg) ==
  /\ Starts /\ Calls(seg) /\ Len(frames) < MaxNest
  /\ variables' = Merged(seg)
  /\ frames' = Append(frames, Saved("function"))
  /\ rc' = 0 /\ NoPipeline /\ child' = {} /\ UNCHANGED <<exported, functions>>

(* What _build_pipeline_plan puts together for commands in a row.  The     *)
(* variables of the sandbox, which come on top, are left out.              *)
Launched(run, env, from) ==
  {[prefix |-> run[i].prefix, env |-> Over(from, env[i])] : i \in 1..Len(run)}

(* With &, a builtin is refused, but assignments were made already.        *)
Background(seg) ==
  /\ Starts /\ Kept(seg) # <<>>
  /\ variables' = Merged(seg)
  /\ LET run == Kept(seg)
     IN IF \E i \in 1..Len(run) : run[i].cmd \in Builtins
        THEN rc' = 1 /\ child' = {}
        ELSE /\ child' = Launched(run, [i \in 1..Len(run) |-> run[i].prefix],
                                  Only(Merged(seg), exported))
             /\ UNCHANGED rc
  /\ NoPipeline /\ UNCHANGED <<exported, functions, frames>>

\* Mutant: every stage of the text has its place in the list of overrides.
BeginUnaligned(seg) ==
  /\ Starts /\ Kept(seg) # <<>> /\ ~Calls(seg)
  /\ variables' = Merged(seg)
  /\ nodes' = Kept(seg)
  /\ overrides' = [i \in 1..Len(Kept(seg)) |-> seg[i].prefix]
  /\ base' = Only(Merged(seg), exported)
  /\ pos' = 1 /\ words' = NoBuiltin /\ named' = {} /\ child' = {}
  /\ UNCHANGED <<exported, functions, frames, rc, before>>

Begin(seg) ==
  /\ Starts /\ Kept(seg) # <<>> /\ ~Calls(seg)
  /\ variables' = Merged(seg)
  /\ nodes' = Kept(seg)
  /\ overrides' = [i \in 1..Len(Kept(seg)) |-> Kept(seg)[i].prefix]
  /\ base' = Only(Merged(seg), exported)
  /\ pos' = 1 /\ words' = NoBuiltin /\ named' = {} /\ child' = {}
  /\ UNCHANGED <<exported, functions, frames, rc, before>>

-----------------------------------------------------------------------------
Node == nodes[pos]
Between == ~Idle /\ words = NoBuiltin
IsBuiltin(i) == nodes[i].cmd \in Builtins

(* Commands that follow each other are launched together, in the           *)
(* environment of the time when the pipeline began.                        *)
Launch(code) ==
  /\ Between /\ ~IsBuiltin(pos)
  /\ LET last == CHOOSE j \in pos..Len(nodes) :
                   /\ \A i \in pos..j : ~IsBuiltin(i)
                   /\ j = Len(nodes) \/ IsBuiltin(j + 1)
     IN /\ child' = Launched(SubSeq(nodes, pos, last), SubSeq(overrides, pos, last),
                             base)
        /\ pos' = last + 1
  /\ rc' = code
  /\ UNCHANGED <<store, functions, frames, nodes, overrides, base, words, before,
                 named>>

StartBuiltin ==
  /\ Between /\ IsBuiltin(pos)
  /\ words' = Node.args /\ before' = store
  /\ named' = named \cup {Node.args[i].name : i \in 1..Len(Node.args)}
  /\ child' = {}
  /\ UNCHANGED <<store, functions, frames, nodes, overrides, base, pos, rc>>

Reading(name) == ~Idle /\ words # NoBuiltin /\ words # <<>> /\ Node.cmd = name
Argument == words[1]

ReadOn == words' = Tail(words)
         /\ UNCHANGED <<frames, nodes, overrides, base, pos, rc, before, named,
                        child>>

(* The loops of export and set stop at the first word they refuse; what    *)
(* the words before it did stays.                                          *)
Stop ==
  /\ words' = NoBuiltin /\ before' = Fresh /\ pos' = pos + 1 /\ rc' = 1
  /\ UNCHANGED <<store, functions, frames, nodes, overrides, base, named, child>>

\* Mutant: export does not look at the name.
ExportWordUnchecked ==
  /\ Reading("export")
  /\ variables' = Over(variables, [n \in {Argument.name} |-> Empty])
  /\ exported' = exported \cup {Argument.name}
  /\ ReadOn /\ UNCHANGED functions

\* Mutant: the value of a name without one is lost.
ExportWordEmpties ==
  /\ Reading("export") /\ Argument.name \in Names
  /\ variables' = Over(variables,
                       [n \in {Argument.name} |-> IF Argument.value = NoValue THEN Empty
                                              ELSE Argument.value])
  /\ exported' = exported \cup {Argument.name}
  /\ ReadOn /\ UNCHANGED functions

ExportWord ==
  /\ Reading("export") /\ Argument.name \in Names
  /\ variables' = IF Argument.value = NoValue
                  THEN Over([n \in {Argument.name} |-> Empty], variables)
                  ELSE Over(variables, [n \in {Argument.name} |-> Argument.value])
  /\ exported' = exported \cup {Argument.name}
  /\ ReadOn /\ UNCHANGED functions

ExportRefuses == Reading("export") /\ Argument.name \notin Names /\ Stop

(* set does not look at the name.                                          *)
SetWord ==
  /\ Reading("set") /\ Argument.value # NoValue
  /\ variables' = Over(variables, [n \in {Argument.name} |-> Argument.value])
  /\ ReadOn /\ UNCHANGED <<exported, functions>>

SetOption ==
  /\ Reading("set") /\ Argument.value = NoValue /\ Argument.name \in Options
  /\ ReadOn /\ UNCHANGED <<store, functions>>

SetRefuses ==
  /\ Reading("set") /\ Argument.value = NoValue /\ Argument.name \notin Options
  /\ Stop

(* unset reads its options first, and does nothing when -f and -v are      *)
(* there; a name is removed from the variables, the functions or both.     *)
Flags ==
  LET stop == {i \in 1..Len(words) : words[i].name \notin Options}
      end == {i \in 1..Len(words) : words[i].name = "--"}
  IN {i \in 1..Len(words) : /\ \A j \in stop : i < j
                            /\ \A j \in end : i <= j}
Given(flag) == \E i \in Flags : words[i].name = flag

\* Mutant: a variable that is unset stays exported.
UnsetKeepsMark ==
  /\ Reading("unset") /\ ~(Given("-f") /\ Given("-v"))
  /\ LET gone == {words[i].name : i \in (1..Len(words)) \ Flags}
     IN /\ IF Given("-f") THEN UNCHANGED store
           ELSE variables' = Without(variables, gone) /\ UNCHANGED exported
        /\ functions' = IF Given("-v") THEN functions
                        ELSE [functions EXCEPT ![dict] = @ \ gone]
  /\ words' = <<>>
  /\ UNCHANGED <<frames, nodes, overrides, base, pos, rc, before, named, child>>

Unset ==
  /\ Reading("unset") /\ ~(Given("-f") /\ Given("-v"))
  /\ LET gone == {words[i].name : i \in (1..Len(words)) \ Flags}
     IN /\ IF Given("-f") THEN UNCHANGED store
           ELSE /\ variables' = Without(variables, gone)
                /\ exported' = exported \ gone
        /\ functions' = IF Given("-v") THEN functions
                        ELSE [functions EXCEPT ![dict] = @ \ gone]
  /\ words' = <<>>
  /\ UNCHANGED <<frames, nodes, overrides, base, pos, rc, before, named, child>>

UnsetRefuses == Reading("unset") /\ Given("-f") /\ Given("-v") /\ Stop

EndBuiltin ==
  /\ ~Idle /\ words = <<>>
  /\ words' = NoBuiltin /\ before' = Fresh /\ pos' = pos + 1 /\ rc' = 0
  /\ UNCHANGED <<store, functions, frames, nodes, overrides, base, named, child>>

Next ==
  \/ NewCall \/ EnterSubshell \/ LeaveSubshell \/ LeaveFunction
  \/ \E f \in FunNames : Define(f)
  \/ \E seg \in Segments :
       Assign(seg) \/ Background(seg) \/ Call(seg) \/ Begin(seg)
  \/ \E code \in {0, 1} : Launch(code)
  \/ StartBuiltin \/ ExportWord \/ ExportRefuses \/ SetWord \/ SetOption
  \/ SetRefuses \/ Unset \/ UnsetRefuses \/ EndBuiltin

Spec == Init /\ [][Next]_vars

-----------------------------------------------------------------------------
Frames == [kind : {"subshell", "function"},
           variables : Mapping(WordNames, Values), exported : SUBSET Names,
           dict : Nat \ {0}]

TypeOK ==
  /\ variables \in Mapping(WordNames, Values) /\ exported \in SUBSET Names
  /\ functions \in Seq(SUBSET FunNames) /\ functions # <<>>
  /\ frames \in Seq(Frames)
  /\ nodes \in Seq(Stages) /\ overrides \in Seq(Prefixes)
  /\ Len(overrides) = Len(nodes) /\ base \in Prefixes /\ pos \in Nat \ {0}
  /\ words = NoBuiltin \/ (words \in Seq(Arguments) /\ pos \in 1..Len(nodes))
  /\ rc \in {0, 1} /\ named \subseteq WordNames

(* What is exported has a value and a valid name, in the store in use and  *)
(* in those that subshells give back: env_for_subprocess and the listing   *)
(* of export skip nothing, and no child gets a name set did not check.     *)
ExportedAreSet ==
  /\ exported \subseteq DOMAIN variables \cap Names
  /\ \A i \in 1..Len(frames) :
       frames[i].exported \subseteq DOMAIN frames[i].variables \cap Names

(* A command has its own prefix and nothing of another's on top of the     *)
(* exported variables; names given to builtins that came before it in the  *)
(* pipeline are the exception, as theirs may be stale.                     *)
ChildEnvironment ==
  \A c \in child : \A n \in Names \ (named \ DOMAIN c.prefix) :
    IF n \in DOMAIN c.prefix
    THEN n \in DOMAIN c.env /\ c.env[n] = c.prefix[n]
    ELSE IF n \in exported THEN n \in DOMAIN c.env /\ c.env[n] = variables[n]
                           ELSE n \notin DOMAIN c.env

(* The words of export and set take effect in their order, the last one of *)
(* a name for good, and those before a refused one stay; only export       *)
(* exports.                                                                *)
WordsTakeEffect ==
  words # NoBuiltin /\ Node.cmd \in {"export", "set"} =>
    LET read == 1..(Len(Node.args) - Len(words))
        given(n) == {i \in read : Node.args[i].name = n}
        valued(n) == {i \in given(n) : Node.args[i].value # NoValue}
    IN /\ exported = before[2] \cup (IF Node.cmd = "set" THEN {}
                                     ELSE {Node.args[i].name : i \in read})
       /\ \A n \in WordNames :
            IF valued(n) # {}
            THEN /\ n \in DOMAIN variables
                 /\ \E i \in valued(n) : /\ \A j \in valued(n) : j <= i
                                         /\ variables[n] = Node.args[i].value
            ELSE IF n \in DOMAIN before[1]
            THEN n \in DOMAIN variables /\ variables[n] = before[1][n]
            ELSE IF Node.cmd = "export" /\ given(n) # {}
            THEN n \in DOMAIN variables /\ variables[n] = Empty
            ELSE n \notin DOMAIN variables

(* Nothing in a subshell, functions called there included, defines or      *)
(* removes a function of the shells around it, the session's among them.   *)
SubshellKeepsFunctions ==
  [][\A i \in 1..Len(frames) :
       frames[i].kind = "subshell" =>
         SubSeq(functions', 1, frames[i].dict) = SubSeq(functions, 1, frames[i].dict)]_vars
=============================================================================
