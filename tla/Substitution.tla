----------------------------- MODULE Substitution -----------------------------
(***************************************************************************)
(* Command substitution: parse_command with its LRU cache (parser.py) and  *)
(* _capture_stdout (executor.py), which call each other.  Parsing a text   *)
(* runs every $() in it at once; running a $() parses its text and then    *)
(* runs its pipelines one after another.  Frames are the Python calls in   *)
(* progress.  A task is what a walk asks for: the text of a call, the body *)
(* of a compound command, or the words of a for loop.                      *)
(***************************************************************************)
EXTENDS Selections, FiniteSets

CONSTANTS
  Texts,      \* command texts
  Prog,       \* what each text says, see ProgAssumption
  Length,     \* how many characters it has
  Tasks,      \* what a walk may ask for, see TaskAssumption
  Rcs,        \* exit codes of pipelines
  CacheMax,   \* _PARSE_CACHE_MAX
  MaxDepth, MaxCount, MaxOutput,   \* MAX_SUBST_*
  Timeout,    \* seconds, the timeout of the call
  NoTask

(* A substitution is a word or part of one (`arg'), the operand of a       *)
(* parameter expansion, which is used or not (`operand'), or in the text   *)
(* of a here-document (`doc').                                             *)
Kinds == {"arg", "operand", "doc"}
Ops == {"seq", "and", "or", "bg"}

(* ops has the operator before each pipeline, `bg' if it ends with &.  bad *)
(* is a text with a syntax error.                                          *)
ASSUME ProgAssumption ==
  Prog \in [Texts -> [ops : Seq(Ops), subs : Seq([src : Texts, kind : Kinds]),
                      bad : BOOLEAN]]

Subs(text) == Prog[text].subs

(* The text of a $() is what its parentheses enclose.                      *)
ASSUME LengthAssumption ==
  /\ Length \in [Texts -> Nat]
  /\ \A text \in Texts : \A i \in 1..Len(Subs(text)) :
       Length[Subs(text)[i].src] < Length[text]

ASSUME BoundAssumption ==
  /\ CacheMax \in Nat \ {0} /\ MaxDepth \in Nat /\ MaxCount \in Nat
  /\ MaxOutput \in Nat /\ Timeout \in Nat
  /\ Rcs \subseteq Int /\ 0 \in Rcs

(* How many $() there are in the texts after the first, up to each.        *)
SubsInParts(texts) ==
  LET Sum[n \in 0..(Len(texts) - 1)] ==
        IF n = 0 THEN 0 ELSE Sum[n - 1] + Len(Subs(texts[n + 1]))
  IN Sum

(* A body comes with its segments and a list of words with the words, both *)
(* after the text that has them all, and so all their $().                 *)
TaskKinds == {"call", "body", "words"}
ASSUME TaskAssumption ==
  /\ NoTask \notin Tasks
  /\ Tasks \subseteq [kind : TaskKinds, texts : Seq(Texts) \ {<<>>}, depth : Nat]
  /\ \A t \in Tasks :
       t.kind # "call" =>
         SubsInParts(t.texts)[Len(t.texts) - 1] <= Len(Subs(t.texts[1]))

VARIABLES
  cache,     \* _PARSE_CACHE: its keys, the least recently used first
  frames,    \* the calls of parse_command and _capture_stdout in progress
  task,      \* what is asked for
  step,      \* which of its texts is next
  own,       \* subst_count of the outermost parse_command
  shared,    \* subst_count of the outermost $() and all inside it
  left,      \* seconds until the deadline of the outermost $()
  result,    \* how the last text ended
  recent,    \* history: the CacheMax texts parsed last, the last one last
  begun,     \* history: $() begun since and with the outermost one
  late,      \* history: pipelines started with less than a second left
  taken      \* history: outermost $() run for the task

\* the counters and the deadline are local to the outermost calls
limits == <<own, shared, left, begun, late>>
vars == <<cache, frames, task, step, result, recent, taken, limits>>

Cached(text) == \E i \in 1..Len(cache) : cache[i] = text

\* Mutant: a hit brings the values of the last time along.
ParseWithValues(text) ==
  [at |-> "parse", text |-> text, hit |-> Cached(text),
   next |-> IF Cached(text) THEN Len(Subs(text)) + 1 ELSE 1]

Parse(text) == [at |-> "parse", text |-> text, hit |-> Cached(text), next |-> 1]
Walk(text) == [at |-> "walk", text |-> text, pos |-> 1, rc |-> 0, ran |-> FALSE,
               out |-> 0, done |-> FALSE]

Init ==
  /\ cache = <<>> /\ frames = <<>> /\ task = NoTask /\ step = 1
  /\ own = 0 /\ shared = 0 /\ left = 0 /\ result = "none"
  /\ recent = <<>> /\ begun = 0 /\ late = 0 /\ taken = 0

Top == frames[Len(frames)]
Below == SubSeq(frames, 1, Len(frames) - 1)
Running(at) == frames # <<>> /\ Top.at = at
Outermost == Len(frames) = 1

NoLimits == own' = 0 /\ shared' = 0 /\ left' = 0 /\ begun' = 0 /\ late' = 0

(* Depth of the parse on top: one more for every $() around it.            *)
Depth == task.depth + (Len(frames) - 1) \div 2

AtEnd(text, s) == Append(Keep(s, Texts \ {text}), text)
LastTexts(s) == IF Len(s) > CacheMax THEN Tail(s) ELSE s

\* Mutant: the number of chains is compared with that of all the texts.
EndedMiscounted(ok) ==
  LET done == \/ task.kind = "call"
              \/ task.kind = "body" /\ step = 1 /\ ~ok
              \/ task.kind = "words" /\ step = 1 /\ ok
                 /\ Len(task.texts) = 1
              \/ step = Len(task.texts)
  IN /\ frames' = <<>>
     /\ IF done THEN task' = NoTask /\ step' = 1
                ELSE task' = task /\ step' = step + 1

(* A text ended: the Runner goes on with the next, or is done.  A body is  *)
(* done when it cannot be parsed as a whole.  Words are parsed one by one  *)
(* again unless parsing them together gives as many chains as there are    *)
(* words; as a newline does not end a chain, it gives one.                 *)
Ended(ok) ==
  LET done == \/ task.kind = "call"
              \/ task.kind = "body" /\ step = 1 /\ ~ok
              \/ task.kind = "words" /\ step = 1 /\ ok
                 /\ Len(task.texts) = 2
              \/ step = Len(task.texts)
  IN /\ frames' = <<>>
     /\ IF done THEN task' = NoTask /\ step' = 1
                ELSE task' = task /\ step' = step + 1

(* A ParseError or ValueError leaves every call up to the Runner.          *)
Raise ==
  /\ result' = "error" /\ Ended(FALSE)
  /\ NoLimits /\ UNCHANGED <<cache, recent, taken>>

StartTask(t) ==
  /\ task = NoTask
  /\ task' = t /\ step' = 1 /\ result' = "none" /\ taken' = 0
  /\ UNCHANGED <<cache, frames, recent, limits>>

(* Every text has a subst_count of its own.                                *)
StartText ==
  /\ task # NoTask /\ frames = <<>>
  /\ frames' = <<Parse(task.texts[step])>>
  /\ UNCHANGED <<cache, task, step, result, recent, taken, limits>>

-----------------------------------------------------------------------------
(* parse_command: the substitutions of the text, in their order.  A miss   *)
(* runs them while it builds the tree, a hit in _populate_expansion.       *)
Parsing == Running("parse") /\ Top.next <= Len(Subs(Top.text))
Sub == Subs(Top.text)[Top.next]

(* The default of a variable that is set is not expanded.                  *)
SkipOperand ==
  /\ Parsing /\ Sub.kind = "operand"
  /\ frames' = Append(Below, [Top EXCEPT !.next = @ + 1])
  /\ UNCHANGED <<cache, task, step, result, recent, taken, limits>>

(* The parser counts a $() that is not in a here-document, _capture_stdout *)
(* counts every one.  Only the $() at the outermost level have a list of   *)
(* their own there; inside, both count in the same list.                   *)
ParserCount == IF Sub.kind = "doc" THEN 0 ELSE 1
CountBefore == (IF Outermost THEN own ELSE shared) + ParserCount
CountIn == IF Outermost THEN 1 ELSE CountBefore + 1

\* Mutant: the depth at the limit is allowed.
RefusedLate ==
  \/ ParserCount = 1 /\ CountBefore > MaxCount
  \/ Depth + 1 > MaxDepth \/ CountIn > MaxCount

Refused ==
  \/ ParserCount = 1 /\ (Depth + 1 > MaxDepth \/ CountBefore > MaxCount)
  \/ Depth + 1 >= MaxDepth \/ CountIn > MaxCount

Refuse == Parsing /\ Refused /\ Raise

\* Mutant: every $() starts counting afresh.
CaptureCountsAfresh ==
  /\ Parsing /\ ~Refused
  /\ frames' = frames \o <<Walk(Sub.src), Parse(Sub.src)>>
  /\ IF Outermost
     THEN own' = CountBefore /\ left' = Timeout /\ late' = 0 /\ begun' = 1
          /\ taken' = taken + 1
     ELSE begun' = begun + 1 /\ UNCHANGED <<own, left, late, taken>>
  /\ shared' = 1
  /\ UNCHANGED <<cache, task, step, result, recent>>

(* Without the deadline and the count of an outer $(), as at the outermost *)
(* level, it makes its own.                                                *)
Capture ==
  /\ Parsing /\ ~Refused
  /\ frames' = frames \o <<Walk(Sub.src), Parse(Sub.src)>>
  /\ IF Outermost
     THEN own' = CountBefore /\ left' = Timeout /\ late' = 0 /\ begun' = 1
          /\ taken' = taken + 1
     ELSE begun' = begun + 1 /\ UNCHANGED <<own, left, late, taken>>
  /\ shared' = CountIn
  /\ UNCHANGED <<cache, task, step, result, recent>>

Parsed == Running("parse") /\ Top.next > Len(Subs(Top.text))

(* The value goes to the caller: a walk, or the Runner.                    *)
Return ==
  IF Outermost THEN Ended(TRUE) /\ NoLimits
  ELSE frames' = Below /\ UNCHANGED <<task, step, limits>>

Misbuilt ==
  /\ Parsed /\ ~Top.hit /\ Prog[Top.text].bad
  /\ Raise

Store ==
  /\ Parsed /\ ~Top.hit /\ ~Prog[Top.text].bad
  /\ cache' = LastTexts(Append(cache, Top.text))
  /\ recent' = LastTexts(AtEnd(Top.text, recent))
  /\ result' = "ok" /\ Return /\ UNCHANGED taken

\* Mutant: a hit does not make a text the most recently used one.
HitUntouched ==
  /\ Parsed /\ Top.hit /\ Cached(Top.text)
  /\ recent' = LastTexts(AtEnd(Top.text, recent))
  /\ result' = "ok" /\ Return /\ UNCHANGED <<cache, taken>>

Hit ==
  /\ Parsed /\ Top.hit /\ Cached(Top.text)
  /\ cache' = AtEnd(Top.text, cache) /\ recent' = LastTexts(AtEnd(Top.text, recent))
  /\ result' = "ok" /\ Return /\ UNCHANGED taken

(* Texts parsed for the substitutions of a hit may have pushed its text    *)
(* out of the cache: move_to_end raises a KeyError, which no handler up to *)
(* shell_run's caller takes.                                               *)
Evicted ==
  /\ Parsed /\ Top.hit /\ ~Cached(Top.text)
  /\ result' = "KeyError" /\ frames' = <<>> /\ task' = NoTask /\ step' = 1
  /\ NoLimits /\ UNCHANGED <<cache, recent, taken>>

-----------------------------------------------------------------------------
(* _capture_stdout: the pipelines of the parsed text.                      *)
Pipelines == Prog[Top.text].ops
Walking == Running("walk") /\ ~Top.done /\ Top.pos <= Len(Pipelines)
Op == Pipelines[Top.pos]

RejectBackground ==
  /\ Walking /\ Op = "bg"
  /\ Raise

(* && or || that skips its pipeline ends the whole list.                   *)
Stops ==
  Walking /\ Top.ran /\ Op = (IF Top.rc = 0 THEN "or" ELSE "and")

\* Mutant: && or || that skips its pipeline does not end the loop.
StopForgotten ==
  /\ Stops
  /\ UNCHANGED vars

Stop ==
  /\ Stops
  /\ frames' = Append(Below, [Top EXCEPT !.done = TRUE])
  /\ UNCHANGED <<cache, task, step, result, recent, taken, limits>>

\* Mutant: each pipeline may take as long as the call.
WholeTimeout == Timeout

(* A pipeline always gets a second, whatever is left.                      *)
Remaining == IF left < 1 THEN 1 ELSE left

(* It ends by itself or is killed when its time is over.  Its output is    *)
(* nothing, or one unit of what MaxOutput counts.                          *)
Run(rc, time, size) ==
  /\ Walking /\ Op # "bg" /\ ~Stops
  /\ time <= Remaining
  /\ left' = left - time
  /\ late' = IF left < 1 THEN late + 1 ELSE late
  /\ LET full == Top.out + size > MaxOutput
     IN frames' = Append(Below,
          [Top EXCEPT !.pos = @ + 1, !.rc = rc, !.ran = TRUE,
                      !.out = IF full THEN MaxOutput ELSE @ + size,
                      !.done = full])
  /\ UNCHANGED <<cache, task, step, result, recent, taken, own, shared, begun>>

(* The output becomes the value of the substitution in the parse below.    *)
EndCapture ==
  /\ Running("walk") /\ (Top.done \/ Top.pos > Len(Pipelines))
  /\ frames' = Append(SubSeq(frames, 1, Len(frames) - 2),
                      [frames[Len(frames) - 1] EXCEPT !.next = @ + 1])
  /\ IF Len(frames) = 2
     THEN shared' = 0 /\ left' = 0 /\ begun' = 0 /\ late' = 0 /\ UNCHANGED own
     ELSE UNCHANGED limits
  /\ UNCHANGED <<cache, task, step, result, recent, taken>>

Serve ==
  \/ StartText \/ SkipOperand \/ Refuse \/ Capture \/ Misbuilt \/ Store \/ Hit
  \/ Evicted \/ RejectBackground \/ Stop \/ EndCapture
  \/ \E rc \in Rcs, time \in 0..(Timeout + 1), size \in 0..1 : Run(rc, time, size)

Next == Serve \/ \E t \in Tasks : StartTask(t)

(* Every pipeline is killed at its timeout, so that the thread of the call *)
(* always goes on.                                                         *)
Spec == Init /\ [][Next]_vars /\ WF_vars(Serve)

-----------------------------------------------------------------------------
ParseFrames == [at : {"parse"}, text : Texts, hit : BOOLEAN, next : Nat \ {0}]
WalkFrames == [at : {"walk"}, text : Texts, pos : Nat \ {0}, rc : Rcs,
               ran : BOOLEAN, out : 0..MaxOutput, done : BOOLEAN]

TypeOK ==
  /\ cache \in Seq(Texts) /\ recent \in Seq(Texts)
  /\ frames \in Seq(ParseFrames \cup WalkFrames)
  /\ \A i \in 1..Len(frames) : (frames[i].at = "parse") = (i % 2 = 1)
  /\ frames # <<>> => task # NoTask /\ (Depth < MaxDepth \/ Outermost)
  /\ task \in Tasks \cup {NoTask}
  /\ IF task = NoTask THEN step = 1 ELSE step \in 1..Len(task.texts)
  /\ own \in 0..MaxCount /\ shared \in 0..MaxCount
  /\ left \in Int /\ begun \in Nat /\ late \in Nat /\ taken \in Nat
  /\ result \in {"none", "ok", "error", "KeyError"}

(* The cache holds the texts that were parsed last, in the order in which  *)
(* their parsing ended, nested ones included, and no text twice, whatever  *)
(* errors and evictions came in between.                                   *)
CacheIsLRU == cache = recent

(* Nested as they may be, the substitutions run for one $() are not more   *)
(* than MAX_SUBST_COUNT: all of them count in the list it was given.       *)
WorkBounded == begun <= MaxCount

(* A $() list outlives its deadline by a second per pipeline that started  *)
(* with less than a second left, and by no more.                           *)
OverrunBounded == left >= -late

(* A call whose text was parsed has run each of its $() anew and once,     *)
(* also when the text was cached, but for operands that are not needed.    *)
Needed(text) ==
  Cardinality({i \in 1..Len(Subs(text)) : Subs(text)[i].kind # "operand"})
RunsItsSubstitutions ==
  [][task # NoTask /\ task' = NoTask /\ task.kind = "call" /\ result' = "ok"
     => taken \in Needed(task.texts[1])..Len(Subs(task.texts[1]))]_vars

(* The $() of a body or of the words of a for loop run for the whole and   *)
(* once more for the part, never a third time; those of a single word only *)
(* run twice when the word cannot be expanded.                             *)
RepeatsBounded ==
  task # NoTask =>
    /\ taken <= (IF step = 1 THEN 1 ELSE 2) * Len(Subs(task.texts[1]))
    /\ task.kind = "words" /\ Len(task.texts) = 2 /\ step = 2 /\ frames = <<>>
       => result = "error"

(* Every request is answered: limits and deadlines end any nesting.        *)
Answered == task # NoTask ~> task = NoTask
=============================================================================
