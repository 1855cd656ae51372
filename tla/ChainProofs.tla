------------------------------ MODULE ChainProofs -----------------------------
(***************************************************************************)
(* Proofs about chains: how run_chain walks them (RunChain) and how they   *)
(* are read from a text (Reader).                                          *)
(*   IInv       for lists of any length, the fields of run_chain agree     *)
(*              with its stages, so each of its guards decides as          *)
(*              AndOrList does and every step is one of AndOrList;         *)
(*   ReaderInv  for texts of any length and nesting, split_chains and the  *)
(*              parser count alike what is open, for the whole text and    *)
(*              for each segment, and the gate is where the parser is.     *)
(***************************************************************************)
EXTENDS RunChain, Reader, SelectionProofs

-----------------------------------------------------------------------------
(* What one more entry changes of what is read off a history.              *)
LEMMA AppendFacts ==
  ASSUME NEW h \in Seq(Entries), NEW e \in Entries
  PROVE  /\ Append(h, e) \in Seq(Entries) /\ Append(h, e) # <<>>
         /\ Len(Append(h, e)) = Len(h) + 1 /\ Len(h) \in Nat
         /\ Append(h, e)[Len(h) + 1] = e
         /\ \A i \in 1..Len(h) : Append(h, e)[i] = h[i]
  OBVIOUS

LEMMA LastRcFacts ==
  ASSUME NEW h \in Seq(Entries), NEW e \in Entries
  PROVE  LastRc(Append(h, e)) = IF e.fate = "ran" THEN e.rc ELSE LastRc(h)
<1> DEFINE Ran(s) == Keep(s, Handled({"ran"}))
<1>1. e \in Handled({"ran"}) <=> e.fate = "ran"
  BY DEF Entries, Handled
<1>2. Ran(Append(h, e)) = IF e.fate = "ran" THEN Append(Ran(h), e) ELSE Ran(h)
  BY <1>1, KeepAppend
<1>3. Ran(h) \in Seq(Entries \cap Handled({"ran"}))
  BY KeepType
<1>4. \A s : LastRc(s) = IF Ran(s) = <<>> THEN 0 ELSE Ran(s)[Len(Ran(s))].rc
  BY DEF LastRc
<1> HIDE DEF Ran
<1>5. Append(Ran(h), e) # <<>> /\ Append(Ran(h), e)[Len(Append(Ran(h), e))] = e
  BY <1>3
<1> QED
  BY <1>2, <1>4, <1>5

LEMMA HistoryFacts ==
  ASSUME NEW h \in Seq(Entries), NEW e \in Entries
  PROVE  LET t == Append(h, e)
         IN /\ LastRc(t) = IF e.fate = "ran" THEN e.rc ELSE LastRc(h)
            /\ RanAny(t) <=> RanAny(h) \/ e.fate \in {"ran", "background"}
            /\ Skipped(t) <=> Skipped(h) \/ e.fate = "skipped"
            /\ Cwd(t) = e.to
<1> DEFINE t == Append(h, e)
           n == Len(h)
<1>1. /\ t # <<>> /\ Len(t) = n + 1 /\ n \in Nat
      /\ t[n + 1] = e /\ \A i \in 1..n : t[i] = h[i]
  BY AppendFacts
<1>2. LastRc(t) = IF e.fate = "ran" THEN e.rc ELSE LastRc(h)
  BY LastRcFacts
<1> HIDE DEF t, n
<1>3. RanAny(t) <=> RanAny(h) \/ e.fate \in {"ran", "background"}
  BY <1>1 DEF RanAny, n
<1>4. Skipped(t) <=> Skipped(h) \/ e.fate = "skipped"
  BY <1>1 DEF Skipped, n
<1>5. Cwd(t) = e.to
  BY <1>1 DEF Cwd
<1> QED
  BY <1>2, <1>3, <1>4, <1>5 DEF t

LEMMA StartFacts ==
  /\ 0 \in Rcs /\ 1 \in Rcs /\ NoRc \notin Rcs /\ Start \in Dirs
  /\ LastRc(<<>>) = 0 /\ ~RanAny(<<>>) /\ ~Skipped(<<>>) /\ Cwd(<<>>) = Start
<1>1. \A i : ~(i \in 1..Len(<<>>))
  OBVIOUS
<1>2. LastRc(<<>>) = 0
  BY KeepEmpty DEF LastRc
<1> QED
  BY <1>1, <1>2, ListAssumption DEF RanAny, Skipped, Cwd

-----------------------------------------------------------------------------
IInv == TypeOK /\ FieldsAgree

LEMMA InitInv == Init => IInv
<1> SUFFICES ASSUME Init PROVE IInv
  OBVIOUS
<1>1. RanAny(<<>>) = FALSE /\ Skipped(<<>>) = FALSE
  BY StartFacts DEF RanAny, Skipped
<1>2. FieldsAgree
  BY <1>1, StartFacts DEF Init, FieldsAgree
<1>3. TypeOK
  <2>1. stages \in Seq(Entries) /\ substs \in Seq(Dirs \cup {NoSubst})
        /\ Len(substs) = Len(stages)
    BY DEF Init
  <2>2. ops \in Lists /\ prev_rc \in Rcs /\ work_dir \in Dirs
        /\ ran_any \in BOOLEAN /\ skipped \in BOOLEAN /\ answer = NoAnswer
    BY StartFacts DEF Init
  <2> QED
    BY <2>1, <2>2 DEF TypeOK
<1> QED
  BY <1>2, <1>3 DEF IInv

(* A recorded stage leaves the invariant when the fields follow it.        *)
LEMMA StageStep ==
  ASSUME IInv, NEW fate \in {"ran", "background", "skipped"},
         NEW rc \in Rcs \cup {NoRc}, NEW to \in Dirs,
         Stage(fate, rc, to), fate = "ran" => rc \in Rcs,
         prev_rc' = IF fate = "ran" THEN rc ELSE prev_rc,
         ran_any' = (ran_any \/ fate \in {"ran", "background"}),
         skipped' = (skipped \/ fate = "skipped"),
         work_dir' = to
  PROVE  IInv'
<1> DEFINE e == [fate |-> fate, rc |-> rc, dir |-> work_dir, to |-> to]
<1>1. e \in Entries /\ e.fate = fate /\ e.rc = rc /\ e.to = to
  BY DEF Entries, Handled, Fates, IInv, TypeOK
<1>2. stages' = Append(stages, e) /\ UNCHANGED <<ops, answer>>
  BY DEF Stage
<1> HIDE DEF e
<1>3. stages \in Seq(Entries)
  BY DEF IInv, TypeOK
<1>4. /\ LastRc(stages') = IF fate = "ran" THEN rc ELSE LastRc(stages)
      /\ RanAny(stages') <=> RanAny(stages) \/ fate \in {"ran", "background"}
      /\ Skipped(stages') <=> Skipped(stages) \/ fate = "skipped"
      /\ Cwd(stages') = to
  BY <1>1, <1>2, <1>3, HistoryFacts
<1>5. stages' \in Seq(Entries) /\ Len(stages') = Len(stages) + 1
  BY <1>1, <1>2, <1>3, AppendFacts
<1>6. substs' \in Seq(Dirs \cup {NoSubst}) /\ Len(substs') = Len(stages')
  <2>1. PICK d \in {NoSubst, Start} : substs' = Append(substs, d)
    BY DEF Stage
  <2>2. d \in Dirs \cup {NoSubst} /\ substs \in Seq(Dirs \cup {NoSubst})
        /\ Len(substs) = Len(stages)
    BY <2>1, StartFacts DEF IInv, TypeOK
  <2> QED
    BY <1>5, <2>1, <2>2
<1>7. TypeOK'
  BY <1>2, <1>5, <1>6 DEF IInv, TypeOK
<1>8. RanAny(stages) \in BOOLEAN /\ Skipped(stages) \in BOOLEAN
      /\ RanAny(stages') \in BOOLEAN /\ Skipped(stages') \in BOOLEAN
  BY DEF RanAny, Skipped
<1>9. FieldsAgree'
  BY <1>4, <1>8 DEF IInv, FieldsAgree
<1> QED
  BY <1>4, <1>7, <1>9 DEF IInv

LEMMA AnswerStep ==
  ASSUME IInv, answer' \in Answers,
         UNCHANGED <<ops, prev_rc, ran_any, skipped, work_dir, stages, substs>>
  PROVE  IInv'
  BY DEF IInv, TypeOK, FieldsAgree

LEMMA StepInv == IInv /\ [Next]_vars => IInv'
<1> SUFFICES ASSUME IInv, [Next]_vars PROVE IInv'
  OBVIOUS
<1>1. prev_rc \in Rcs /\ work_dir \in Dirs /\ skipped \in BOOLEAN /\ ran_any \in BOOLEAN
  BY DEF IInv, TypeOK
<1>2. CASE Skip
  BY <1>1, <1>2, StageStep DEF Skip
<1>3. CASE BuiltinError
  BY <1>1, <1>3, StartFacts, StageStep DEF BuiltinError
<1>4. CASE Background
  BY <1>1, <1>4, StageStep DEF Background
<1>5. ASSUME NEW d \in Dirs, ChangeDir(d)
      PROVE  IInv'
  BY <1>1, <1>5, StartFacts, StageStep DEF ChangeDir
<1>6. ASSUME NEW rc \in Rcs, Execute(rc)
      PROVE  IInv'
  BY <1>1, <1>6, StageStep DEF Execute
<1>7. CASE Finish
  BY <1>1, <1>7, AnswerStep DEF Finish, Answers
<1>8. CASE ExpansionError
  BY <1>8, StartFacts, AnswerStep DEF ExpansionError, Answers
<1>9. CASE UNCHANGED vars
  BY <1>9 DEF vars, IInv, TypeOK, FieldsAgree
<1> QED
  BY <1>2, <1>3, <1>4, <1>5, <1>6, <1>7, <1>8, <1>9 DEF Next

(* The fields of the Runner agree with its stages in every reachable       *)
(* state, however long the list.                                           *)
THEOREM FieldsAlwaysAgree == Spec => [](TypeOK /\ FieldsAgree)
<1>1. IInv => TypeOK /\ FieldsAgree
  BY DEF IInv
<1> QED
  BY <1>1, InitInv, StepInv, PTL DEF Spec

-----------------------------------------------------------------------------
(* Refinement.  With the fields in agreement, the guards of run_chain are  *)
(* those of AndOrList.                                                     *)
LEMMA ListOperators ==
  /\ List!NoAnswer = NoAnswer /\ List!Lists = Lists
  /\ List!LastRc(stages) = LastRc(stages) /\ List!RanAny(stages) = RanAny(stages)
  /\ List!Cwd(stages) = Cwd(stages) /\ List!Skipped(stages) = Skipped(stages)
  BY DEF List!NoAnswer, NoAnswer, List!Lists, Lists, List!Ops, Ops,
         List!LastRc, LastRc, List!Handled, Handled, List!Keep, Keep,
         List!RanAny, RanAny, List!Cwd, Cwd,
         List!Skipped, Skipped

LEMMA Guards ==
  ASSUME IInv
  PROVE  /\ Walking <=> List!Waiting
         /\ SkipsAnd \/ SkipsOr <=> List!ShortCircuits(List!NextOp, stages)
  BY ListOperators
     DEF IInv, FieldsAgree, Walking, List!Waiting, SkipsAnd, SkipsOr, Op,
         List!NextOp, List!ShortCircuits

LEMMA RecordedStage ==
  ASSUME IInv, NEW fate, NEW rc, NEW to, Stage(fate, rc, to)
  PROVE  List!Record(fate, rc, to)
  BY ListOperators DEF IInv, FieldsAgree, Stage, List!Record

LEMMA RefinesInit == Init => List!AInit
  BY ListOperators DEF Init, List!AInit

LEMMA RefinesStep == IInv /\ [Next]_vars => [List!ANext]_(List!avars)
<1> SUFFICES ASSUME IInv, [Next]_vars PROVE [List!ANext]_(List!avars)
  OBVIOUS
<1>1. prev_rc = LastRc(stages) /\ work_dir = Cwd(stages) /\ skipped = Skipped(stages)
      /\ prev_rc \in Rcs /\ work_dir \in Dirs
  BY DEF IInv, FieldsAgree, TypeOK
<1>2. CASE Skip
  BY <1>1, <1>2, Guards, RecordedStage, ListOperators
     DEF Skip, List!ANext, List!ASkip
<1>3. ASSUME NEW rc \in Rcs, NEW to \in Dirs, Reached, Stage("ran", rc, to),
             rc = 0 \/ to = work_dir
      PROVE  List!ANext
  <2>1. List!ARun(rc, to)
    BY <1>1, <1>3, Guards, RecordedStage, ListOperators DEF Reached, List!ARun
  <2> QED
    BY <2>1 DEF List!ANext
<1>4. CASE BuiltinError
  BY <1>1, <1>3, <1>4, StartFacts DEF BuiltinError
<1>5. CASE Background
  BY <1>1, <1>5, Guards, RecordedStage, ListOperators
     DEF Background, Reached, List!ANext, List!ABackground
<1>6. ASSUME NEW d \in Dirs, ChangeDir(d)
      PROVE  List!ANext
  BY <1>3, <1>6, StartFacts DEF ChangeDir
<1>7. ASSUME NEW rc \in Rcs, Execute(rc)
      PROVE  List!ANext
  BY <1>1, <1>3, <1>7 DEF Execute
<1>8. CASE Finish
  BY <1>1, <1>8, ListOperators DEF Finish, List!ANext, List!AAnswer
<1>9. CASE ExpansionError
  BY <1>9, ListOperators DEF ExpansionError, List!ANext, List!AReject
<1>10. CASE UNCHANGED vars
  BY <1>10 DEF vars, List!avars
<1> QED
  BY <1>2, <1>4, <1>5, <1>6, <1>7, <1>8, <1>9, <1>10 DEF Next

(* run_chain implements the list of pipelines that shell_run promises.     *)
THEOREM RunChainImplementsList == Spec => ImplementsList
  BY InitInv, StepInv, RefinesInit, RefinesStep, PTL
     DEF Spec, ImplementsList, List!ASpec

-----------------------------------------------------------------------------
(* Reading a text.  What the variables and records of Tokens, Chains and   *)
(* Grammar can be, and what the operators of the parser give back.         *)

(* What each of the variables can hold.                                    *)
Tokenised == (AllItems \ Glyphs) \cup Marks \cup {"glyph"}
Lexers == [command : BOOLEAN, parens : Nat, braces : Nat, pattern : BOOLEAN,
           line : BOOLEAN]
Splits == [depth : Nat, expect : BOOLEAN]
Gates == [at : {"first", "target", "duration", "skip"}, needs : BOOLEAN]

Slices == [expect : BOOLEAN, target : BOOLEAN, depth : Nat, braces : Nat,
           compounds : Seq({"case", "other"}),
           content : {"nothing", "semicolon", "some"}, open : Nat]
ChainPlaces == {"start", "stage", "command", "target", "after"}
ForPlaces == {"name", "in", "list", "do", "body"}
CasePlaces == {"case", "opened"}
Places == ChainPlaces \cup ForPlaces \cup CasePlaces
            \cup {"function", "pattern", "slice", "skip", "fail", "stop"}
Operators == {"none", ";", "&&", "||"}
Parsers == [at : Places, part : Parts \cup {NoPart}, slice : Slices, op : Operators,
            chains : 0..2, have : BOOLEAN, first : {"none", "first", "duration"},
            stateful : BOOLEAN, nested : Int]

(* What the lexer makes of an item.                                        *)
LEMMA TokenKind ==
  ASSUME NEW l \in Lexers, NEW item \in AllItems
  PROVE  /\ Token(l, item) \in Tokenised
         /\ item \notin Glyphs => Token(l, item) = item
         /\ item \in Glyphs => Token(l, item) \in Marks \cup {"glyph"}
         /\ Token(l, item) = "LPAREN" <=> item = "(" /\ l.command
         /\ Token(l, item) = "RPAREN" <=> item = ")" /\ l.parens > 0
         /\ Token(l, item) = "LBRACE" <=> item = "{" /\ l.command
         /\ Token(l, item) = "RBRACE" <=> item = "}" /\ l.braces > 0
         /\ Token(l, item) = "FUNC" <=> item = "f()" /\ l.command
BY DEF Token, Tokenised, AllItems, Redirects, NoTarget, Documents, Glyphs, Marks,
     Lexers, Words, Openers, Closers,
       Always, Separators

(* The lexer's counts stay natural numbers.                                *)
LEMMA LexedKind ==
  ASSUME NEW l \in Lexers, NEW item \in AllItems
  PROVE  Lexed(l, item) \in Lexers
<1>0. /\ Token(l, item) = "RPAREN" => l.parens > 0
      /\ Token(l, item) = "RBRACE" => l.braces > 0
  BY TokenKind
<1>1. Token(l, item) = "RPAREN" => l.parens - 1 \in Nat
  BY <1>0 DEF Lexers
<1>2. Token(l, item) = "RBRACE" => l.braces - 1 \in Nat
  BY <1>0 DEF Lexers
<1> DEFINE t == Token(l, item)
<1> HIDE DEF t
<1>3. /\ l.parens \in Nat /\ l.parens + 1 \in Nat /\ (t = "RPAREN" => l.parens - 1 \in Nat)
      /\ l.braces \in Nat /\ l.braces + 1 \in Nat /\ (t = "RBRACE" => l.braces - 1 \in Nat)
      /\ l.command \in BOOLEAN /\ l.pattern \in BOOLEAN
  BY <1>1, <1>2 DEF Lexers, t
<1> DEFINE m == Lexed(l, item)
<1>4. m =
        [command |-> IF t = "\n" THEN l.command
                     ELSE t \in Separators \cup {"|", ";;", "LPAREN", "LBRACE", "FUNC"}
                                \cup Always \cup {"function"},
         parens |-> CASE t = "LPAREN" -> l.parens + 1
                      [] t = "RPAREN" -> IF l.pattern THEN l.parens ELSE l.parens - 1
                      [] OTHER -> l.parens,
         braces |-> CASE t = "LBRACE" -> l.braces + 1
                      [] t = "RBRACE" -> l.braces - 1
                      [] OTHER -> l.braces,
         pattern |-> (l.pattern /\ t # "RPAREN") \/ (l.command /\ t = "case"),
         line |-> t = "<<<"]
  BY DEF Lexed, t
<1> HIDE DEF m
<1>5. m.parens \in Nat
  BY <1>3, <1>4
<1>6. m.braces \in Nat
  BY <1>3, <1>4
<1>7. m.command \in BOOLEAN /\ m.pattern \in BOOLEAN /\ m.line \in BOOLEAN
  <2> DEFINE After == Separators \cup {"|", ";;", "LPAREN", "LBRACE", "FUNC"}
                        \cup Always \cup {"function"}
             c == IF t = "\n" THEN l.command ELSE t \in After
             d == (l.pattern /\ t # "RPAREN") \/ (l.command /\ t = "case")
  <2>1. m.command = c /\ m.pattern = d
    BY <1>4
  <2>2. c \in BOOLEAN
    <3> HIDE DEF After
    <3>1. CASE t = "\n"
      <4>1. c = l.command
        BY <3>1
      <4> QED
        BY <4>1, <1>3
    <3>2. CASE t # "\n"
      <4>1. c = (t \in After)
        BY <3>2
      <4>2. (t \in After) \in BOOLEAN
        OBVIOUS
      <4> HIDE DEF c
      <4> QED
        BY <4>1, <4>2
    <3> QED
      BY <3>1, <3>2
  <2>3. d \in BOOLEAN
    OBVIOUS
  <2>4. m.line = (t = "<<<")
    BY <1>4
  <2>5. (t = "<<<") \in BOOLEAN
    OBVIOUS
  <2> HIDE DEF c, d
  <2> QED
    BY <2>1, <2>2, <2>3, <2>4, <2>5
<1>8. m = [command |-> m.command, parens |-> m.parens, braces |-> m.braces,
           pattern |-> m.pattern, line |-> m.line]
  BY <1>4
<1>9. m \in Lexers
  BY <1>5, <1>6, <1>7, <1>8 DEF Lexers
<1> QED
  BY <1>9 DEF m

(* What each small operator of the parser returns, and which fields it     *)
(* leaves alone.                                                           *)
LEMMA FreshSliceKind == FreshSlice \in Slices
<1>1. <<>> \in Seq({"case", "other"})
  BY EmptySeq
<1> QED
  BY <1>1 DEF FreshSlice, Slices

LEMMA FreshParserKind == FreshParser \in Parsers
<1>1. "start" \in Places /\ "none" \in Operators
  BY DEF Places, ChainPlaces, Operators
<1> QED
  BY <1>1, FreshSliceKind DEF FreshParser, Parsers

LEMMA AtKind ==
  ASSUME NEW p \in Parsers, NEW at \in Places
  PROVE  /\ At(p, at) \in Parsers
         /\ At(p, at).at = at /\ At(p, at).part = NoPart /\ At(p, at).slice = FreshSlice
         /\ At(p, at).op = p.op /\ At(p, at).chains = p.chains /\ At(p, at).have = p.have
         /\ At(p, at).first = p.first /\ At(p, at).stateful = p.stateful
         /\ At(p, at).nested = -1
<1>1. -1 \in Int
  OBVIOUS
<1> QED
  BY <1>1, FreshSliceKind DEF At, Parsers

LEMMA CutKind ==
  ASSUME NEW p \in Parsers, NEW part \in Parts
  PROVE  /\ Cut(p, part) \in Parsers
         /\ Cut(p, part).at = "slice" /\ Cut(p, part).part = part
         /\ Cut(p, part).slice = FreshSlice
         /\ Cut(p, part).op = p.op /\ Cut(p, part).chains = p.chains
         /\ Cut(p, part).have = p.have
         /\ Cut(p, part).first = p.first /\ Cut(p, part).stateful = p.stateful
<1>1. "slice" \in Places
  BY DEF Places
<1>2. At(p, "slice") \in Parsers
  BY <1>1, AtKind
<1> QED
  BY <1>1, <1>2, AtKind DEF Cut, Parsers

LEMMA FailKind ==
  ASSUME NEW p
  PROVE  /\ Fail(p) \in Parsers /\ Fail(p).at = "fail" /\ ~Fail(p).stateful
<1>1. "fail" \in Places
  BY DEF Places
<1>2. FreshParser.stateful = FALSE
  BY DEF FreshParser
<1> QED
  BY <1>1, <1>2, FreshParserKind DEF Fail, Parsers

LEMMA RestKind ==
  ASSUME NEW p \in Parsers
  PROVE  /\ Rest(p) \in Parsers
         /\ Rest(p).at = "start" /\ Rest(p).part = NoPart
         /\ Rest(p).slice = FreshSlice
         /\ Rest(p).op = "none" /\ Rest(p).chains = p.chains
         /\ ~Rest(p).have
         /\ Rest(p).first = "none" /\ Rest(p).stateful = p.stateful
<1>1. "start" \in Places
  BY DEF Places, ChainPlaces
<1> DEFINE q == At(p, "start")
<1>2. /\ q \in Parsers /\ q.at = "start" /\ q.part = NoPart /\ q.slice = FreshSlice
      /\ q.chains = p.chains /\ q.stateful = p.stateful
  BY <1>1, AtKind
<1>3. Rest(p) = [q EXCEPT !.op = "none", !.have = FALSE, !.first = "none"]
  BY DEF Rest
<1>4. "none" \in Operators
  BY DEF Operators
<1> HIDE DEF q
<1> QED
  BY <1>2, <1>3, <1>4 DEF Parsers

LEMMA CommandKind ==
  ASSUME NEW p \in Parsers
  PROVE  /\ Command(p) \in Parsers
         /\ Command(p).at = p.at /\ Command(p).part = p.part
         /\ Command(p).slice = p.slice
         /\ Command(p).op = p.op /\ (p.chains = 0 => Command(p).chains = 1)
         /\ Command(p).have
         /\ Command(p).first = p.first /\ Command(p).stateful = p.stateful
<1>1. p.chains \in 0..2
  BY DEF Parsers
<1> DEFINE c == IF p.chains < 2 THEN p.chains + 1 ELSE 2
<1>2. c \in 0..2 /\ (p.chains = 0 => c = 1)
  BY <1>1
<1>3. Command(p) = [p EXCEPT !.have = TRUE, !.chains = c]
  BY DEF Command, Parsers
<1> HIDE DEF c
<1> QED
  BY <1>2, <1>3 DEF Parsers

-----------------------------------------------------------------------------
(* Inside a chain.  Of where the parser is, what counts is how many        *)
(* parentheses, braces and compound commands it has open.                  *)

(* What the parser has open: parentheses, braces, and commands that are    *)
(* closed by a word.                                                       *)
One(b) == IF b THEN 1 ELSE 0
CommandParts == {"if", "then", "else", "while", "do", "subject", "clause"}
CommandPlaces == ForPlaces \cup CasePlaces \cup {"pattern"}
Parentheses(p) == p.slice.depth + One(p.part = "subshell")
Braced(p) == p.slice.braces + One(p.part = "group")
Commands(p) == Len(p.slice.compounds) + One(p.part \in CommandParts)
                 + One(p.part = NoPart /\ p.at \in CommandPlaces)

(* Outside the parts of compound commands.                                 *)
Fresh(p) == p \in Parsers /\ p.part = NoPart /\ p.slice = FreshSlice
Same(q, p) == q.op = p.op /\ q.chains = p.chains /\ q.have = p.have

(* What follows an operator.                                               *)
Ended(q, p, t) ==
  /\ Fresh(q) /\ q.at = "start" /\ q.op = NextOp(t) /\ q.chains = p.chains /\ ~q.have
  /\ q.stateful = p.stateful

(* A simple command goes on.                                               *)
Going(q, p, t) ==
  /\ Fresh(q) /\ q.at \in {"stage", "command", "target"} /\ Same(q, p)
  /\ q.at = "stage" <=> t = "|"

(* A compound command begins.                                              *)
Inside == [if |-> "if", while |-> "while", until |-> "while", case |-> "subject",
           FUNC |-> "function", LPAREN |-> "subshell", LBRACE |-> "group"]
Entered(q, p, t) ==
  /\ q \in Parsers /\ q.slice = FreshSlice
  /\ q.op = p.op /\ q.chains = 1 /\ q.have
  /\ \/ t \in DOMAIN Inside /\ q.at = "slice" /\ q.part = Inside[t]
     \/ t = "for" /\ q.at = "name" /\ q.part = NoPart
     \/ t = "function" /\ q.at = "function" /\ q.part = NoPart

(* What ends a chain, and what goes on with it.                            *)
LEMMA EndChainKind ==
  ASSUME NEW p \in Parsers, NEW t \in Separators
  PROVE  Ended(EndChain(p, t), p, t)
<1> DEFINE r == Rest(p)
<1>1. /\ r \in Parsers /\ r.at = "start" /\ r.part = NoPart /\ r.slice = FreshSlice
      /\ r.op = "none" /\ r.chains = p.chains /\ ~r.have /\ r.stateful = p.stateful
  BY RestKind
<1>2. t = "&" => EndChain(p, t) = r
  BY DEF EndChain
<1>3. t # "&" => EndChain(p, t) = [r EXCEPT !.op = t]
  BY DEF EndChain, Separators
<1>4. NextOp(t) = IF t = "&" THEN "none" ELSE t
  BY DEF NextOp, Separators
<1>5. t # "&" => t \in Operators
  BY DEF Operators, Separators
<1> HIDE DEF r
<1>6. CASE t = "&"
  BY <1>1, <1>2, <1>4, <1>6 DEF Ended, Fresh
<1>7. CASE t # "&"
  BY <1>1, <1>3, <1>4, <1>5, <1>7 DEF Ended, Fresh, Parsers
<1> QED
  BY <1>6, <1>7

LEMMA InAfterKind ==
  ASSUME NEW p \in Parsers, NEW t \in Separators
  PROVE  Ended(InAfter(p, t), p, t)
<1> DEFINE r == Rest(p)
<1>1. /\ r \in Parsers /\ r.at = "start" /\ r.part = NoPart /\ r.slice = FreshSlice
      /\ r.op = "none" /\ r.chains = p.chains /\ ~r.have /\ r.stateful = p.stateful
  BY RestKind
<1>2. t = "&" => InAfter(p, t) = r
  BY DEF InAfter
<1>3. t # "&" => InAfter(p, t) = [r EXCEPT !.op = t]
  <2>1. t # "&" => InAfter(p, t) = InStart(r, t)
    BY DEF InAfter, Separators
  <2>2. t # "&" => InStart(r, t) = [r EXCEPT !.op = t]
    BY DEF InStart, Separators
  <2> QED
    BY <2>1, <2>2
<1>4. NextOp(t) = IF t = "&" THEN "none" ELSE t
  BY DEF NextOp, Separators
<1>5. t # "&" => t \in Operators
  BY DEF Operators, Separators
<1> HIDE DEF r
<1>6. CASE t = "&"
  BY <1>1, <1>2, <1>4, <1>6 DEF Ended, Fresh
<1>7. CASE t # "&"
  BY <1>1, <1>3, <1>4, <1>5, <1>7 DEF Ended, Fresh, Parsers
<1> QED
  BY <1>6, <1>7

(* A word is looked at for what it is the first word of.                   *)
LEMMA WordKind ==
  ASSUME NEW p \in Parsers, NEW t
  PROVE  /\ Fresh(Word(p, t)) /\ Word(p, t).at = "command" /\ Same(Word(p, t), p)
         /\ Word(p, t).stateful = (p.stateful \/ (p.first = "first" /\ t = "set"))
         /\ Word(p, t).first = IF p.first = "duration" THEN "first"
                               ELSE IF p.first = "first" /\ t = "timeout" THEN "duration"
                               ELSE "none"
<1> DEFINE c == At(p, "command")
           st == p.stateful \/ (p.first = "first" /\ t = "set")
           fi == IF p.first = "duration" THEN "first"
                 ELSE IF p.first = "first" /\ t = "timeout" THEN "duration" ELSE "none"
<1>1. "command" \in Places
  BY DEF Places, ChainPlaces
<1>2. /\ c \in Parsers /\ c.at = "command" /\ c.part = NoPart /\ c.slice = FreshSlice
      /\ c.op = p.op /\ c.chains = p.chains /\ c.have = p.have /\ c.first = p.first
      /\ c.stateful = p.stateful
  BY <1>1, AtKind
<1>3. Word(p, t) = [c EXCEPT !.stateful = st, !.first = fi]
  BY <1>2 DEF Word, Parsers
<1>4. st \in BOOLEAN /\ fi \in {"none", "first", "duration"}
  OBVIOUS
<1> HIDE DEF c, st, fi
<1>5. /\ Fresh(Word(p, t)) /\ Word(p, t).at = "command" /\ Same(Word(p, t), p)
      /\ Word(p, t).stateful = st /\ Word(p, t).first = fi
  BY <1>2, <1>3, <1>4 DEF Fresh, Same, Parsers
<1> QED
  BY <1>5 DEF st, fi

(* A redirect is no word and no other sign.                                *)
LEMMA RedirectTokens ==
  \A t \in Redirects :
    t \notin {"\n", "|", ";;", "$v", "glyph"} \cup Separators \cup Marks \cup Words
BY DEF Redirects, NoTarget, Documents, Separators, Marks, Words, Openers, Closers,
       Always

(* The words are none of the signs.                                        *)
LEMMA WordTokens ==
  \A t : t = "$v" \/ IsWord(t) =>
    t \notin {"\n", "|", ";;"} \cup Separators \cup Marks \cup Redirects
<1> SUFFICES ASSUME NEW t, t = "$v" \/ IsWord(t)
             PROVE  t \notin {"\n", "|", ";;"} \cup Separators \cup Marks \cup Redirects
  OBVIOUS
<1>1. t \notin {"\n", "|", ";;"} \cup Separators \cup Marks
  BY DEF IsWord, Words, Openers, Closers, Always, Separators, Marks
<1>2. t \notin Redirects
  BY RedirectTokens DEF IsWord
<1> QED
  BY <1>1, <1>2

(* Only a redirect to or from a file waits for a target.                   *)
LEMMA RedirectKind ==
  ASSUME NEW p, NEW t \in Redirects
  PROVE  /\ t = ">" => InCommand(p, t) = At(p, "target")
         /\ t \in NoTarget => InCommand(p, t) = At(p, "command")
         /\ InCommand(p, t) \in {At(p, "target"), At(p, "command")}
<1>1. /\ t \notin {"\n", "|", "$v", "FUNC"} /\ ~IsWord(t)
      /\ t = ">" \/ t \in NoTarget
  BY RedirectTokens DEF IsWord, Marks, Redirects
<1>2. t \in NoTarget => t # ">"
  BY DEF NoTarget, Documents
<1>3. t = ">" => InCommand(p, t) = At(p, "target")
  BY <1>1, <1>2 DEF InCommand
<1>4. t \in NoTarget => InCommand(p, t) = At(p, "command")
  BY <1>1, <1>2 DEF InCommand
<1> QED
  BY <1>1, <1>3, <1>4

(* The signs that end a command.                                           *)
LEMMA SignKind ==
  ASSUME NEW p, NEW t
  PROVE  /\ t = "|" => InCommand(p, t) = At(p, "stage")
         /\ t \in Separators \cup {"RPAREN", "RBRACE"} => InCommand(p, t) = EndChain(p, t)
<1>1. t \in {"|", "RPAREN", "RBRACE"} \cup Separators => t \notin Redirects
  BY RedirectTokens DEF Marks
<1>2. t \in {"|", "RPAREN", "RBRACE"} \cup Separators => t # ">" /\ t \notin NoTarget
  BY <1>1 DEF Redirects
<1>3. t \in {"|", "RPAREN", "RBRACE"} \cup Separators =>
        t \notin {"\n", "FUNC", "$v"} /\ ~IsWord(t)
  BY DEF Separators, IsWord, Words, Openers, Closers, Always
<1>4. t \in {"RPAREN", "RBRACE"} \cup Separators => t # "|"
  BY DEF Separators
<1>5. t = "|" => InCommand(p, t) = At(p, "stage")
  BY <1>2, <1>3 DEF InCommand
<1>6. t \in Separators \cup {"RPAREN", "RBRACE"} => InCommand(p, t) = EndChain(p, t)
  BY <1>2, <1>3, <1>4 DEF InCommand
<1> QED
  BY <1>5, <1>6

(* The next token of a simple command.                                     *)
LEMMA InCommandKind ==
  ASSUME NEW p \in Parsers, NEW t \in Tokenised \ {"\n", ";;", "LPAREN", "LBRACE", "FUNC"},
         p.part = NoPart, p.slice = FreshSlice, InCommand(p, t).at # "stop"
  PROVE  \/ t \in Separators /\ Ended(InCommand(p, t), p, t)
         \/ t \notin Separators \cup Marks /\ Going(InCommand(p, t), p, t)
<1>1. CASE t = "|"
  <2>1. InCommand(p, t) = At(p, "stage") /\ "stage" \in Places
    BY <1>1, SignKind DEF Places, ChainPlaces
  <2> QED
    BY <2>1, <1>1, AtKind DEF Going, Fresh, Same, Separators, Marks
<1>2. CASE t \in Redirects
  <2>1. PICK at \in {"target", "command"} : InCommand(p, t) = At(p, at)
    BY <1>2, RedirectKind
  <2>2. at \in Places
    BY <2>1 DEF Places, ChainPlaces
  <2>3. t \notin Separators \cup Marks /\ t # "|"
    BY <1>2, RedirectTokens
  <2> DEFINE a == At(p, at)
  <2>4. /\ Fresh(a) /\ a.at = at /\ Same(a, p)
    BY <2>2, AtKind DEF Fresh, Same
  <2> HIDE DEF a
  <2>5. Going(a, p, t)
    BY <2>1, <2>3, <2>4 DEF Going
  <2> QED
    BY <2>1, <2>3, <2>5 DEF a
<1>3. CASE t = "$v" \/ IsWord(t)
  <2>1. t \notin {"\n", "|", "FUNC"} \cup Redirects \cup Separators \cup Marks
    BY <1>3, WordTokens
  <2>2. InCommand(p, t) = Word(p, t)
    BY <2>1, <1>3 DEF InCommand, Redirects
  <2>3. t \notin Separators \cup Marks /\ t # "|"
    BY <2>1
  <2> DEFINE w == Word(p, t)
  <2>4. Fresh(w) /\ w.at = "command" /\ Same(w, p)
    BY WordKind
  <2> HIDE DEF w
  <2>5. Going(w, p, t)
    BY <2>3, <2>4 DEF Going
  <2> QED
    BY <2>2, <2>3, <2>5 DEF w
<1>4. CASE t \in Separators
  <2>1. InCommand(p, t) = EndChain(p, t)
    BY <1>4, SignKind
  <2> QED
    BY <1>4, <2>1, EndChainKind
<1>5. CASE t \in {"RPAREN", "RBRACE"}
  <2>1. InCommand(p, t) = EndChain(p, t)
    BY <1>5, SignKind
  <2>2. EndChain(p, t) = At(p, "stop") /\ "stop" \in Places
    BY <1>5 DEF EndChain, Places
  <2>3. At(p, "stop").at = "stop"
    BY <2>2, AtKind
  <2> QED
    BY <2>1, <2>2, <2>3
<1>6. t \in {"|", "$v", "glyph", "RPAREN", "RBRACE"} \cup Words \cup Separators \cup Redirects
  BY DEF Tokenised, AllItems, Glyphs, Marks
<1>7. IsWord(t) <=> t \in Words \cup {"glyph"}
  BY DEF IsWord
<1>8. \/ t = "|" \/ t \in Redirects \/ t = "$v" \/ t \in {"RPAREN", "RBRACE"}
      \/ t \in Separators \/ IsWord(t)
  BY <1>6, <1>7
<1> QED
  BY <1>1, <1>2, <1>3, <1>4, <1>5, <1>8

(* The token after a redirect's sign.                                      *)
LEMMA InTargetKind ==
  ASSUME NEW p \in Parsers, NEW t \in Tokenised \ {"\n", ";;", "LPAREN", "LBRACE", "FUNC"},
         p.part = NoPart, p.slice = FreshSlice, InTarget(p, t).at # "stop"
  PROVE  \/ t \in Separators /\ Ended(InTarget(p, t), p, t)
         \/ t \notin Separators \cup Marks /\ Going(InTarget(p, t), p, t)
<1> DEFINE c == At(p, "command")
<1>1. "command" \in Places
  BY DEF Places, ChainPlaces
<1>2. /\ c \in Parsers /\ c.at = "command" /\ c.part = NoPart /\ c.slice = FreshSlice
      /\ c.op = p.op /\ c.chains = p.chains /\ c.have = p.have /\ c.first = p.first
      /\ c.stateful = p.stateful
  BY <1>1, AtKind
<1>3. CASE IsWord(t)
  <2>1. t \notin {"\n", "|", "FUNC"} \cup Redirects \cup Separators \cup Marks
    BY <1>3, WordTokens
  <2>2. InTarget(p, t) = c
    BY <2>1, <1>3 DEF InTarget
  <2> HIDE DEF c
  <2> QED
    BY <2>1, <2>2, <1>2 DEF Going, Fresh, Same
<1>4. CASE ~IsWord(t)
  <2>1. InTarget(p, t) = InCommand(c, t)
    BY <1>4 DEF InTarget
  <2> HIDE DEF c
  <2>2. \/ t \in Separators /\ Ended(InCommand(c, t), c, t)
        \/ t \notin Separators \cup Marks /\ Going(InCommand(c, t), c, t)
    BY <2>1, <1>2, InCommandKind
  <2> QED
    BY <2>1, <2>2, <1>2 DEF Going, Same, Ended
<1> QED
  BY <1>3, <1>4

(* The tokens that begin a compound command or a simple one.               *)
Heads == Openers \cup {"function", "FUNC", "LPAREN", "LBRACE"}
Simple == {"a", "set", "timeout", "glyph", "$v"} \cup Redirects

(* What begins a simple command is no sign of another kind.                *)
LEMMA SimpleTokens ==
  \A t \in Simple :
    /\ t \in Tokenised
    /\ t \notin {"\n", "|", ";;"} \cup Separators \cup Marks
    /\ t \notin Openers \cup Closers \cup Always \cup {"function"}
<1>1. \A t \in {"a", "set", "timeout", "glyph", "$v"} :
        /\ t \notin {"\n", "|", ";;"} \cup Separators \cup Marks
        /\ t \notin Openers \cup Closers \cup Always \cup {"function"}
  BY DEF Separators, Marks, Openers, Closers, Always
<1>2. \A t \in {"a", "set", "timeout", "glyph", "$v"} : t \in Tokenised
  BY DEF Tokenised, AllItems, Words, Glyphs
<1>3. \A t \in Redirects :
        /\ t \notin {"\n", "|", ";;"} \cup Separators \cup Marks
        /\ t \notin Openers \cup Closers \cup Always \cup {"function"}
  BY RedirectTokens DEF Words
<1>4. \A t \in Redirects : t \in Tokenised
  BY DEF Tokenised, AllItems, Redirects, NoTarget, Documents, Glyphs
<1> QED
  BY <1>1, <1>2, <1>3, <1>4 DEF Simple

(* A compound command begins, unless its pipeline has one already.         *)
LEMMA CompoundKind ==
  ASSUME NEW p \in Parsers, NEW t \in Heads, p.chains = One(p.have)
  PROVE  \/ Compound(p, t).at = "fail"
         \/ ~p.have /\ Entered(Compound(p, t), p, t)
<1>1. CASE p.have
  BY <1>1, FailKind DEF Compound
<1>2. CASE ~p.have
  <2> DEFINE d == Command(p)
             q == [d EXCEPT !.stateful = TRUE]
  <2>1. /\ d \in Parsers /\ d.op = p.op /\ d.chains = 1 /\ d.have
    BY CommandKind, <1>2 DEF One
  <2> HIDE DEF d
  <2>2. q \in Parsers /\ q.op = p.op /\ q.chains = 1 /\ q.have
    BY <2>1 DEF Parsers
  <2> HIDE DEF q
  <2>3. \A part \in Parts :
          /\ Cut(q, part) \in Parsers /\ Cut(q, part).slice = FreshSlice
          /\ Cut(q, part).op = p.op /\ Cut(q, part).chains = 1 /\ Cut(q, part).have
          /\ Cut(q, part).at = "slice" /\ Cut(q, part).part = part
    BY <2>2, CutKind
  <2>4. \A at \in Places :
          /\ At(q, at) \in Parsers /\ At(q, at).slice = FreshSlice
          /\ At(q, at).op = p.op /\ At(q, at).chains = 1 /\ At(q, at).have
          /\ At(q, at).at = at /\ At(q, at).part = NoPart
    BY <2>2, AtKind
  <2>5. t \in DOMAIN Inside => Compound(p, t) = Cut(q, Inside[t]) /\ Inside[t] \in Parts
    BY <1>2 DEF Compound, Inside, q, d, Parts, Ends
  <2>6. /\ t = "for" => Compound(p, t) = At(q, "name")
        /\ t = "function" => Compound(p, t) = At(q, "function")
    BY <1>2 DEF Compound, q, d
  <2>7. "name" \in Places /\ "function" \in Places
    BY DEF Places, ForPlaces
  <2>8. t \in DOMAIN Inside \cup {"for", "function"}
    BY DEF Heads, Openers, Inside
  <2>9. CASE t \in DOMAIN Inside
    BY <1>2, <2>3, <2>5, <2>9 DEF Entered
  <2>10. CASE t \in {"for", "function"}
    BY <1>2, <2>4, <2>6, <2>7, <2>10 DEF Entered
  <2> QED
    BY <2>8, <2>9, <2>10
<1> QED
  BY <1>1, <1>2

(* What the first token of a stage does.                                   *)
Staged(r, p, t) ==
  \/ r.at = "fail"
  \/ t = "|" /\ Fresh(r) /\ r.at = "stage" /\ Same(r, p)
  \/ t \in Heads /\ Entered(r, p, t)
  \/ t \in Separators /\ Ended(r, p, t)
  \/ /\ t \in Simple /\ Fresh(r) /\ r.at \in {"command", "target"}
     /\ r.op = p.op /\ r.chains = 1 /\ r.have

(* A separator in a stage ends a chain that has a command.                 *)
LEMMA InStageKind ==
  ASSUME NEW p \in Parsers, NEW t \in Tokenised \ {"\n", ";;"},
         p.part = NoPart, p.slice = FreshSlice, p.at = "stage",
         p.chains = One(p.have), InStage(p, t).at # "stop"
  PROVE  /\ Staged(InStage(p, t), p, t)
         /\ t \in Separators => p.have
<1>1. CASE t = "|"
  <2>1. InStage(p, t) = p
    BY <1>1 DEF InStage, Openers, Closers, Always, Separators
  <2> QED
    BY <1>1, <2>1 DEF Staged, Fresh, Same, Separators
<1>2. CASE t \in Heads
  <2>1. InStage(p, t) = Compound(p, t) /\ t \notin Separators
    BY <1>2 DEF InStage, Heads, Openers, Closers, Always, Separators
  <2> QED
    BY <1>2, <2>1, CompoundKind DEF Staged
<1>3. CASE t \in Closers \cup Always
  <2>1. InStage(p, t) = Fail(p) /\ t \notin Separators
    BY <1>3 DEF InStage, Openers, Closers, Always, Separators
  <2> QED
    BY <2>1, FailKind DEF Staged
<1>4. CASE t \in Separators \cup {"RPAREN", "RBRACE"}
  <2>1. InStage(p, t) = IF p.have THEN EndChain(p, t) ELSE At(p, "stop")
    BY <1>4 DEF InStage, Openers, Closers, Always, Separators
  <2>2. At(p, "stop").at = "stop"
    <3>1. "stop" \in Places
      BY DEF Places
    <3> QED
      BY <3>1, AtKind
  <2>3. t \in {"RPAREN", "RBRACE"} => EndChain(p, t) = At(p, "stop")
    BY DEF EndChain
  <2>4. p.have /\ t \in Separators
    BY <1>4, <2>1, <2>2, <2>3
  <2> QED
    BY <2>1, <2>4, EndChainKind DEF Staged
<1>5. CASE t \in Simple
  <2> DEFINE q == IF p.have THEN p ELSE Command(p)
             c == [q EXCEPT !.first = "first"]
  <2>1. /\ q \in Parsers /\ q.part = NoPart /\ q.slice = FreshSlice
        /\ q.op = p.op /\ q.chains = 1 /\ q.have
    BY CommandKind DEF One
  <2>2. InStage(p, t) = InCommand(c, t)
    BY <1>5, SimpleTokens DEF InStage, Marks
  <2> HIDE DEF q
  <2>3. /\ c \in Parsers /\ c.part = NoPart /\ c.slice = FreshSlice
        /\ c.op = p.op /\ c.chains = 1 /\ c.have
    BY <2>1 DEF Parsers
  <2> HIDE DEF c
  <2>4. t \in Tokenised \ {"\n", ";;", "LPAREN", "LBRACE", "FUNC"} /\ t \notin Separators
        /\ t # "|"
    BY <1>5, SimpleTokens DEF Marks
  <2>5. Going(InCommand(c, t), c, t)
    BY <2>2, <2>3, <2>4, InCommandKind
  <2> QED
    BY <1>5, <2>2, <2>3, <2>4, <2>5 DEF Staged, Going, Same
<1>6. \/ t = "|" \/ t \in Heads \/ t \in Closers \cup Always \/ t \in Simple
      \/ t \in Separators \cup {"RPAREN", "RBRACE"}
  BY DEF Heads, Simple, Tokenised, AllItems, Redirects, NoTarget, Documents, Words,
       Glyphs, Marks
<1> QED
  BY <1>1, <1>2, <1>3, <1>4, <1>5, <1>6

(* The same where a chain starts.                                          *)
LEMMA InStartKind ==
  ASSUME NEW p \in Parsers, NEW t \in Tokenised \ {"\n", ";;"},
         p.part = NoPart, p.slice = FreshSlice, p.at = "start",
         p.chains = 0, ~p.have, InStart(p, t).at # "stop"
  PROVE  Staged(InStart(p, t), p, t)
<1>1. CASE t \in {";", "&&", "||"}
  <2>1. InStart(p, t) = [p EXCEPT !.op = t] /\ t \in Separators
    BY <1>1 DEF InStart, Separators
  <2>2. NextOp(t) = t /\ t \in Operators
    BY <1>1 DEF NextOp, Operators
  <2> QED
    BY <2>1, <2>2 DEF Staged, Ended, Fresh, Parsers
<1>2. CASE t \notin {";", "&&", "||"}
  <2> DEFINE q == [p EXCEPT !.at = "stage"]
  <2>1. InStart(p, t) = InStage(q, t)
    BY <1>2 DEF InStart
  <2>2. "stage" \in Places
    BY DEF Places, ChainPlaces
  <2>3. /\ q \in Parsers /\ q.part = NoPart /\ q.slice = FreshSlice /\ q.at = "stage"
        /\ q.op = p.op /\ q.chains = p.chains /\ ~q.have /\ q.have = p.have
    BY <2>2 DEF Parsers
  <2> HIDE DEF q
  <2>4. q.chains = One(q.have)
    BY <2>3 DEF One
  <2>5. Staged(InStage(q, t), q, t) /\ t \notin Separators
    BY <2>1, <2>3, <2>4, InStageKind
  <2> QED
    BY <2>1, <2>3, <2>5 DEF Staged, Entered, Same
<1> QED
  BY <1>1, <1>2

-----------------------------------------------------------------------------
(* A step of the parser at a token that is not odd.                        *)

(* A token that is not odd.                                                *)
Regular(p, t) ==
  /\ t \in {"\n", ";;"} =>
       /\ p.at \notin ChainPlaces \cup {"function"}
       /\ ~(p.part = "function" /\ (p.slice.content = "nothing" \/ p.slice.target))
  /\ ~Misread(p, t) /\ ~Missed(p, t)
  /\ Step(p, t, t).at # "stop"
  /\ p.at = "after" => t \in Separators \cup {"|", "\n"}
  /\ t \in Marks => /\ p.at \notin {"opened", "pattern", "skip"}
                    /\ p.part # "subject"
                    /\ p.at = "case" => t = "LPAREN"
  /\ ~(p.at = "slice" /\ EndsPart(p, t) /\ p.slice.braces > 0)

(* Odd says that a token is not regular, but for the first words of        *)
(* commands.                                                               *)
LEMMA OddParts ==
  ASSUME NEW ps, NEW t, ~Odd(ps, t)
  PROVE  Regular(ps[1], t) /\ ~(Len(ps) > 1)
BY DEF Odd, Regular, ChainPlaces

(* Where the parser can be, what it has of its chain there, and what       *)
(* split_chains expects.                                                   *)
Formed(p) ==
  /\ p \in Parsers
  /\ p.at \notin {"skip", "stop"}
  /\ p.part = NoPart => p.slice = FreshSlice
  /\ p.at \notin {"slice", "pattern"} => p.part = NoPart
  /\ p.at = "slice" => p.part \in Parts
  /\ p.at = "pattern" /\ p.part # NoPart => p.slice.compounds # <<>>
Expected(p, e) == p.at \in {"start", "stage", "case"} => e
Chained(p) ==
  /\ p.at = "start" => p.chains = 0 /\ ~p.have
  /\ p.at = "stage" => p.chains = One(p.have)
  /\ p.at \notin {"start", "stage"} => p.chains = 1
  /\ p.at \in {"command", "target"} => p.have
Closed(p) == [p EXCEPT !.chains = 0]

(* Counting anew at a cut changes nothing else.                            *)
LEMMA ClosedKind ==
  ASSUME NEW p \in Parsers
  PROVE  /\ Closed(p) \in Parsers /\ Closed(p).at = p.at /\ Closed(p).part = p.part
         /\ Closed(p).slice = p.slice /\ Closed(p).op = p.op /\ Closed(p).chains = 0
         /\ Closed(p).have = p.have /\ Closed(p).first = p.first
         /\ Closed(p).stateful = p.stateful
BY DEF Closed, Parsers

(* Which part of the parser is at work.                                    *)
LEMMA StepAt ==
  ASSUME NEW p, NEW t, NEW item
  PROVE  /\ p.at = "start" => Step(p, t, item) = InStart(p, t)
         /\ p.at = "stage" => Step(p, t, item) = InStage(p, t)
         /\ p.at = "command" => Step(p, t, item) = InCommand(p, t)
         /\ p.at = "target" => Step(p, t, item) = InTarget(p, t)
         /\ p.at = "after" => Step(p, t, item) = InAfter(p, t)
         /\ p.at \in ForPlaces => Step(p, t, item) = InFor(p, t)
         /\ p.at = "function" => Step(p, t, item) = InFunction(p, t)
         /\ p.at \in CasePlaces => Step(p, t, item) = InCase(p, t, item)
         /\ p.at = "pattern" => Step(p, t, item) = InPattern(p, item)
         /\ p.at = "slice" => Step(p, t, item) = InSlice(p, t, item)
         /\ p.at = "fail" => Step(p, t, item) = p
BY DEF Step, ForPlaces, CasePlaces

(* A token that goes on with a chain.                                      *)
Onward(q, p, t) ==
  \/ q.at = "fail"
  \/ t = "|" /\ Fresh(q) /\ q.at = "stage" /\ q.op = p.op /\ q.chains = One(q.have)
  \/ t \in Heads /\ p.at \in {"start", "stage"} /\ Entered(q, p, t)
  \/ /\ Fresh(q) /\ q.at \in {"command", "target"} /\ q.op = p.op
     /\ q.chains = 1 /\ q.have
     /\ t \notin Separators \cup Marks \cup Always \cup {"function", "|", "\n", ";;"}
     /\ ~(split.expect /\ t \in Openers \cup Closers)

(* At the level of chains a token fails, enters a compound command or goes *)
(* on with the chain.                                                      *)
LEMMA ChainStep ==
  ASSUME NEW p, Formed(p), Chained(p), p.at \in ChainPlaces,
         NEW t \in Tokenised \ Separators, NEW item, Regular(p, t),
         p.at \in {"command", "target"} => t \notin {"LPAREN", "LBRACE", "FUNC"}
  PROVE  Onward(Step(p, t, item), p, t)
<1>1. /\ p \in Parsers /\ p.part = NoPart /\ p.slice = FreshSlice
      /\ t \in Tokenised \ {"\n", ";;"} /\ Step(p, t, t).at # "stop"
      /\ ~Misread(p, t)
  BY DEF Formed, Regular, ChainPlaces
<1>2. CASE p.at = "start"
  <2>1. Staged(InStart(p, t), p, t)
    BY <1>1, <1>2, StepAt, InStartKind DEF Chained
  <2>2. Step(p, t, item) = InStart(p, t)
    BY <1>2, StepAt
  <2> QED
    BY <1>2, <2>1, <2>2, SimpleTokens DEF Staged, Onward, Chained, Same, One
<1>3. CASE p.at = "stage"
  <2>1. Staged(InStage(p, t), p, t)
    BY <1>1, <1>3, StepAt, InStageKind DEF Chained
  <2>2. Step(p, t, item) = InStage(p, t)
    BY <1>3, StepAt
  <2> QED
    BY <1>3, <2>1, <2>2, SimpleTokens DEF Staged, Onward, Chained, Same, One
<1>4. CASE p.at \in {"command", "target"}
  <2>1. Going(Step(p, t, item), p, t) /\ t \notin Separators \cup Marks
    <3>1. CASE p.at = "command"
      BY <1>1, <3>1, StepAt, InCommandKind
    <3>2. CASE p.at = "target"
      BY <1>1, <3>2, StepAt, InTargetKind
    <3> QED
      BY <1>4, <3>1, <3>2
  <2>2. t \notin Always \cup {"function"} /\ ~(split.expect /\ t \in Openers \cup Closers)
    BY <1>1, <1>4 DEF Misread, Structural
  <2>3. p.chains = 1 /\ p.have
    BY <1>4 DEF Chained
  <2> QED
    BY <1>1, <2>1, <2>2, <2>3 DEF Going, Same, Onward, One
<1>5. CASE p.at = "after"
  <2>1. t = "|"
    BY <1>1, <1>5 DEF Regular
  <2>2. Step(p, t, item) = Fail(p)
    BY <1>5, <2>1, StepAt DEF InAfter
  <2> QED
    BY <2>2, FailKind DEF Onward
<1> QED
  BY <1>2, <1>3, <1>4, <1>5 DEF ChainPlaces

(* A separator ends the chain.                                             *)
LEMMA ChainEnd ==
  ASSUME NEW p, Formed(p), p.at = "start" => ~p.have, p.at \in ChainPlaces,
         NEW t \in Separators, NEW item, Regular(p, t)
  PROVE  Ended(Step(Closed(p), t, item), Closed(p), t)
<1> DEFINE d == Closed(p)
<1>1. /\ p \in Parsers /\ p.part = NoPart /\ p.slice = FreshSlice /\ Step(p, t, t).at # "stop"
  BY DEF Formed, Regular, ChainPlaces
<1>2. /\ d \in Parsers /\ d.at = p.at /\ d.part = NoPart /\ d.slice = FreshSlice
      /\ d.chains = 0 /\ d.have = p.have
  BY <1>1, ClosedKind
<1>3. t \in Tokenised \ {"\n", ";;", "LPAREN", "LBRACE", "FUNC"} /\ t # "|"
  BY DEF Separators, Tokenised, AllItems, Redirects, NoTarget, Documents, Glyphs, Words
<1>4. "stop" \in Places
  BY DEF Places
<1> HIDE DEF d
<1>5. /\ InStage(d, t) = IF d.have THEN EndChain(d, t) ELSE At(d, "stop")
      /\ InStage(p, t) = IF p.have THEN EndChain(p, t) ELSE At(p, "stop")
  BY DEF InStage, Openers, Closers, Always, Separators
<1>6. At(p, "stop").at = "stop"
  BY <1>1, <1>4, AtKind
<1>7. CASE p.at = "start"
  <2>1. CASE t = "&"
    <3> DEFINE r == [p EXCEPT !.at = "stage"]
    <3>1. InStart(p, t) = InStage(r, t)
      BY <2>1 DEF InStart
    <3>2. r \in Parsers /\ ~r.have
      BY <1>1, <1>7 DEF Parsers, Places, ChainPlaces
    <3> HIDE DEF r
    <3>3. InStage(r, t) = At(r, "stop")
      BY <3>2 DEF InStage, Openers, Closers, Always, Separators
    <3>4. At(r, "stop").at = "stop"
      BY <3>2, <1>4, AtKind
    <3>5. Step(p, t, t) = InStart(p, t)
      BY <1>7, StepAt
    <3> QED
      BY <1>1, <3>1, <3>3, <3>4, <3>5
  <2>2. CASE t # "&"
    <3>1. Step(d, t, item) = InStart(d, t)
      BY <1>2, <1>7, StepAt
    <3>2. InStart(d, t) = [d EXCEPT !.op = t] /\ NextOp(t) = t /\ t \in Operators
      BY <2>2 DEF InStart, NextOp, Separators, Operators
    <3> DEFINE r == [d EXCEPT !.op = t]
    <3>3. /\ r \in Parsers /\ r.at = "start" /\ r.part = NoPart /\ r.slice = FreshSlice
          /\ r.chains = d.chains /\ ~r.have /\ r.op = t /\ r.stateful = d.stateful
      BY <1>2, <1>7, <3>2 DEF Parsers
    <3> HIDE DEF r
    <3>4. Ended(r, d, t)
      BY <3>2, <3>3 DEF Ended, Fresh
    <3> QED
      BY <3>1, <3>2, <3>4 DEF d, r
  <2> QED
    BY <2>1, <2>2
<1>8. CASE p.at = "stage"
  <2>1. p.have
    BY <1>1, <1>5, <1>6, <1>8, StepAt
  <2>2. Step(d, t, item) = EndChain(d, t)
    BY <1>2, <1>5, <1>8, <2>1, StepAt
  <2> QED
    BY <1>2, <2>2, EndChainKind DEF d
<1>9. CASE p.at = "command"
  <2>1. Step(d, t, item) = EndChain(d, t)
    <3>1. Step(d, t, item) = InCommand(d, t)
      BY <1>2, <1>9, StepAt
    <3>2. InCommand(d, t) = EndChain(d, t)
      BY SignKind
    <3> QED
      BY <3>1, <3>2
  <2> QED
    BY <1>2, <2>1, EndChainKind DEF d
<1>10. CASE p.at = "target"
  <2> DEFINE c == At(d, "command")
  <2>1. c \in Parsers /\ c.chains = d.chains /\ c.stateful = d.stateful
    BY <1>2, AtKind DEF Places, ChainPlaces
  <2>2. Step(d, t, item) = InCommand(c, t)
    <3>1. Step(d, t, item) = InTarget(d, t)
      BY <1>2, <1>10, StepAt
    <3>2. InTarget(d, t) = InCommand(c, t)
      BY DEF InTarget, Separators, IsWord, Words, Openers, Closers, Always
    <3> QED
      BY <3>1, <3>2
  <2> HIDE DEF c
  <2>3. InCommand(c, t) = EndChain(c, t)
    BY SignKind
  <2>4. Ended(EndChain(c, t), c, t)
    BY <2>1, EndChainKind
  <2> QED
    BY <2>1, <2>2, <2>3, <2>4 DEF Ended, d
<1>11. CASE p.at = "after"
  <2>1. Step(d, t, item) = InAfter(d, t)
    BY <1>2, <1>11, StepAt
  <2> QED
    BY <1>2, <2>1, InAfterKind DEF d
<1> QED
  BY <1>7, <1>8, <1>9, <1>10, <1>11 DEF ChainPlaces

-----------------------------------------------------------------------------
(* A step of the parser counts what is open as split_chains does.  x of    *)
(* the parser are parentheses: one more than those of its part when that   *)
(* of a pattern is open.                                                   *)

(* How one token moves the counts: by itself, or, for the esac that closes *)
(* the parenthesis of a pattern, in that parenthesis.                      *)
Overs(p, x) ==
  /\ x \in {Parentheses(p), Parentheses(p) + 1}
  /\ p.at = "opened" => x = Parentheses(p) + 1
  /\ p.at \notin {"opened", "pattern"} => x = Parentheses(p)
Advance(q, p, t, x, y) ==
  /\ Overs(q, y)
  /\ Braced(q) = Braced(p) + One(t = "LBRACE") - One(t = "RBRACE")
  /\ \/ /\ y = x + One(t = "LPAREN") - One(t = "RPAREN")
        /\ Commands(q) = Commands(p) + One(split.expect /\ t \in Openers)
                           - One(split.expect /\ t \in Closers)
     \/ y = x - 1 /\ Commands(q) = Commands(p) /\ split.expect /\ t = "esac"
(* Where a command may start, one may start in split_chains, too.          *)
Awaits(q, t) ==
  q.at \in {"start", "stage", "case"} =>
    t \in Separators \cup {"|", ";;", "in", "\n"}
Forward(q, p, t, x) ==
  \/ q.at = "fail"
  \/ /\ Formed(q) /\ Same(q, p) /\ q.at \notin {"start", "stage", "command", "target"}
     /\ Awaits(q, t)
     /\ \E y \in Nat : Advance(q, p, t, x, y)

(* The counts are natural numbers; what they are where nothing is cut out, *)
(* and at the start of a part.                                             *)
LEMMA CountsKind ==
  ASSUME NEW p, p \in Parsers
  PROVE  /\ Parentheses(p) \in Nat /\ Braced(p) \in Nat /\ Commands(p) \in Nat
         /\ Len(p.slice.compounds) \in Nat
<1>1. p.slice \in Slices
  BY DEF Parsers
<1>2. p.slice.depth \in Nat /\ p.slice.braces \in Nat /\ Len(p.slice.compounds) \in Nat
  BY <1>1, LenProperties DEF Slices
<1>3. /\ One(p.part = "subshell") \in Nat /\ One(p.part = "group") \in Nat
      /\ One(p.part \in CommandParts) \in Nat
      /\ One(p.part = NoPart /\ p.at \in CommandPlaces) \in Nat
  BY DEF One
<1>4. Parentheses(p) \in Nat
  BY <1>2, <1>3 DEF Parentheses
<1>5. Braced(p) \in Nat
  BY <1>2, <1>3 DEF Braced
<1>6. Commands(p) \in Nat
  <2> DEFINE a == Len(p.slice.compounds)
             b == One(p.part \in CommandParts)
             c == One(p.part = NoPart /\ p.at \in CommandPlaces)
  <2>1. a \in Nat /\ b \in Nat /\ c \in Nat /\ Commands(p) = a + b + c
    BY <1>2, <1>3 DEF Commands
  <2> HIDE DEF a, b, c
  <2> QED
    BY <2>1
<1> QED
  BY <1>2, <1>4, <1>5, <1>6

LEMMA FreshCounts ==
  ASSUME NEW p, p.slice = FreshSlice
  PROVE  /\ Parentheses(p) = One(p.part = "subshell")
         /\ Braced(p) = One(p.part = "group")
         /\ Commands(p) = One(p.part \in CommandParts)
                            + One(p.part = NoPart /\ p.at \in CommandPlaces)
<1>1. FreshSlice.depth = 0 /\ FreshSlice.braces = 0 /\ Len(FreshSlice.compounds) = 0
  BY DEF FreshSlice
<1> QED
  BY <1>1 DEF Parentheses, Braced, Commands, One

LEMMA NoPartCounts ==
  ASSUME NEW p, Fresh(p)
  PROVE  /\ Parentheses(p) = 0 /\ Braced(p) = 0
         /\ Commands(p) = One(p.at \in CommandPlaces)
<1>1. p.part = NoPart /\ p.slice = FreshSlice
  BY DEF Fresh
<1> QED
  BY <1>1, FreshCounts DEF One, NoPart, CommandParts

LEMMA PartCounts ==
  ASSUME NEW p, p.slice = FreshSlice, p.part \in Parts
  PROVE  /\ Parentheses(p) = One(p.part = "subshell") /\ Braced(p) = One(p.part = "group")
         /\ Commands(p) = One(p.part \in CommandParts)
<1>1. p.part # NoPart
  BY DEF NoPart, Parts, Ends
<1> QED
  BY <1>1, FreshCounts DEF One

(* Tokens that change no count.                                            *)
LEMMA Uncounted ==
  ASSUME NEW t, t \notin Marks \ {"FUNC"}, ~(split.expect /\ t \in Openers \cup Closers)
  PROVE  /\ One(t = "LPAREN") = 0 /\ One(t = "RPAREN") = 0
         /\ One(t = "LBRACE") = 0 /\ One(t = "RBRACE") = 0
         /\ One(split.expect /\ t \in Openers) = 0
         /\ One(split.expect /\ t \in Closers) = 0
BY DEF One, Marks

(* The ways in which a step leaves the counts in order: staying, going to  *)
(* another place, cutting out a part, failing.                             *)
LEMMA StayingForward ==
  ASSUME NEW p, Formed(p), Expected(p, split.expect), NEW x \in Nat, Overs(p, x),
         p.at \notin {"start", "stage", "command", "target"},
         NEW t, t \notin Marks, ~(split.expect /\ t \in Openers \cup Closers),
         p.at = "case" => t = "\n"
  PROVE  Forward(p, p, t, x)
<1>1. Braced(p) \in Nat /\ Commands(p) \in Nat
  BY CountsKind DEF Formed
<1>2. Advance(p, p, t, x, x)
  BY <1>1, Uncounted DEF Advance
<1>3. Awaits(p, t)
  BY DEF Awaits
<1> QED
  BY <1>2, <1>3 DEF Forward, Same

LEMMA PlacedForward ==
  ASSUME NEW p, Formed(p), NEW x \in Nat, Overs(p, x),
         NEW at \in ForPlaces \cup {"function", "after"},
         p.at \in ForPlaces \cup {"function"}, at = "function" <=> p.at = "function",
         at # "after",
         NEW t, t \notin Marks, ~(split.expect /\ t \in Openers \cup Closers)
  PROVE  Forward(At(p, at), p, t, x)
<1> DEFINE q == At(p, at)
<1>1. p \in Parsers /\ Fresh(p)
  BY DEF Formed, Fresh, ForPlaces
<1>2. at \in Places
  BY DEF Places, ChainPlaces
<1>3. Fresh(q) /\ Same(q, p) /\ q.at = at
  BY <1>1, <1>2, AtKind DEF Fresh, Same
<1> HIDE DEF q
<1>4. Formed(q) /\ q.at \notin {"start", "stage", "command", "target", "case"}
  BY <1>3 DEF Formed, Fresh, ForPlaces, NoPart
<1>5. /\ Parentheses(q) = 0 /\ Braced(q) = 0 /\ Commands(q) = One(q.at \in CommandPlaces)
      /\ Parentheses(p) = 0 /\ Braced(p) = 0 /\ Commands(p) = One(p.at \in CommandPlaces)
  BY <1>1, <1>3, NoPartCounts
<1>6. Commands(q) = Commands(p)
  <2>1. CASE p.at = "function"
    BY <1>3, <1>5, <2>1 DEF One
  <2>2. CASE p.at # "function"
    <3>1. p.at \in CommandPlaces /\ q.at \in CommandPlaces
      BY <1>3, <2>2 DEF CommandPlaces
    <3> QED
      BY <3>1, <1>5 DEF One
  <2> QED
    BY <2>1, <2>2
<1>7. x = 0
  BY <1>5 DEF Overs, ForPlaces
<1>8. Commands(p) \in Nat
  BY <1>5 DEF One
<1>9. Overs(q, 0)
  BY <1>3, <1>4, <1>5 DEF Overs, ForPlaces
<1>10. Advance(q, p, t, x, 0)
  BY <1>5, <1>6, <1>7, <1>8, <1>9, Uncounted DEF Advance
<1> QED
  BY <1>3, <1>4, <1>10 DEF Forward, Awaits, q

LEMMA CutForward ==
  ASSUME NEW p, Formed(p), NEW x \in Nat, Overs(p, x),
         NEW part \in Parts \ {"subshell", "group"},
         Parentheses(p) = 0, Braced(p) = 0, Commands(p) = One(part \in CommandParts),
         x = 0,
         NEW t, t \notin Marks \ {"FUNC"}, ~(split.expect /\ t \in Openers \cup Closers)
  PROVE  Forward(Cut(p, part), p, t, x)
<1> DEFINE q == Cut(p, part)
<1>1. p \in Parsers
  BY DEF Formed
<1>2. /\ q \in Parsers /\ q.slice = FreshSlice /\ q.part = part /\ q.at = "slice"
      /\ Same(q, p)
  BY <1>1, CutKind DEF Same
<1> HIDE DEF q
<1>3. Formed(q)
  BY <1>2 DEF Formed, NoPart, Parts, Ends
<1>4. /\ Parentheses(q) = 0 /\ Braced(q) = 0 /\ Commands(q) = One(part \in CommandParts)
  BY <1>2, PartCounts DEF One
<1>5. Commands(p) \in Nat
  BY DEF One
<1>6. Overs(q, 0)
  BY <1>2, <1>4 DEF Overs, One
<1>7. Advance(q, p, t, x, 0)
  BY <1>4, <1>5, <1>6, Uncounted DEF Advance, One
<1> QED
  BY <1>2, <1>3, <1>7 DEF Forward, Awaits, q

LEMMA FailForward ==
  ASSUME NEW p, NEW t, NEW x
  PROVE  Forward(Fail(p), p, t, x)
BY FailKind DEF Forward

(* What the next token can be is what split_chains goes by.                *)
LEMMA AwaitsExpected ==
  ASSUME NEW q, NEW t, Awaits(q, t)
  PROVE  Expected(q, Split(split, t).expect)
BY DEF Awaits, Expected, Split, Always

(* So does each of the parser's functions: of for and function, of case    *)
(* and its patterns, of parts.                                             *)
LEMMA ForForward ==
  ASSUME NEW p, Formed(p), p.at \in ForPlaces, Expected(p, split.expect),
         NEW x \in Nat, Overs(p, x),
         NEW t \in Tokenised, NEW item, Regular(p, t)
  PROVE  Forward(Step(p, t, item), p, t, x)
<1>1. Step(p, t, item) = InFor(p, t)
  BY StepAt
<1>2. p \in Parsers /\ Fresh(p) /\ ~Misread(p, t)
  BY DEF Formed, Fresh, ForPlaces, Regular
<1>3. /\ Parentheses(p) = 0 /\ Braced(p) = 0 /\ Commands(p) = 1 /\ x = 0
  BY <1>2, NoPartCounts DEF One, CommandPlaces, Overs, ForPlaces
<1>4. CASE InFor(p, t) = Fail(p)
  BY <1>1, <1>4, FailForward
<1>5. CASE InFor(p, t) # Fail(p)
  <2>1. p.at = "name" => t \in Words \cup {"\n"}
    BY <1>5 DEF InFor
  <2>2. t \notin Marks
    BY <1>5, <2>1 DEF InFor, ForPlaces, Marks, IsWord, Words, Openers, Closers, Always
  <2>3. ~(split.expect /\ t \in Openers \cup Closers)
    <3>1. CASE p.at = "name"
      BY <1>2, <3>1 DEF Misread, Structural
    <3>2. CASE p.at = "list"
      BY <1>2, <3>2 DEF Misread, Structural, Openers, Closers
    <3>3. CASE p.at \in {"in", "do", "body"}
      BY <1>5, <3>3 DEF InFor, Openers, Closers
    <3> QED
      BY <3>1, <3>2, <3>3 DEF ForPlaces
  <2>4. \/ InFor(p, t) = p
        \/ \E at \in {"in", "list", "do", "body"} : InFor(p, t) = At(p, at)
        \/ InFor(p, t) = Cut(p, "do")
    BY <1>5 DEF InFor, ForPlaces, IsWord, Words, Openers, Closers, Always
  <2>5. p.at \notin {"start", "stage", "command", "target", "case", "function"}
    BY DEF ForPlaces
  <2>6. CASE InFor(p, t) = p
    BY <1>1, <2>2, <2>3, <2>5, <2>6, StayingForward
  <2>7. CASE \E at \in {"in", "list", "do", "body"} : InFor(p, t) = At(p, at)
    <3>1. PICK at \in {"in", "list", "do", "body"} : InFor(p, t) = At(p, at)
      BY <2>7
    <3>2. at \in ForPlaces \cup {"function"} /\ at # "function" /\ at # "after"
      BY DEF ForPlaces
    <3>3. Forward(At(p, at), p, t, x)
      BY <2>2, <2>3, <2>5, <3>2, PlacedForward
    <3> QED
      BY <1>1, <3>1, <3>3
  <2>8. CASE InFor(p, t) = Cut(p, "do")
    <3>1. "do" \in Parts \ {"subshell", "group"} /\ One("do" \in CommandParts) = 1
      BY DEF Parts, Ends, One, CommandParts
    <3> QED
      BY <1>1, <1>3, <2>2, <2>3, <2>8, <3>1, CutForward
  <2> QED
    BY <2>4, <2>6, <2>7, <2>8
<1> QED
  BY <1>4, <1>5

LEMMA FunctionForward ==
  ASSUME NEW p, Formed(p), p.at = "function", NEW x \in Nat, Overs(p, x),
         NEW t \in Tokenised, NEW item, Regular(p, t)
  PROVE  Forward(Step(p, t, item), p, t, x)
<1>1. Step(p, t, item) = InFunction(p, t)
  BY StepAt
<1>2. Fresh(p) /\ t # "\n"
  BY DEF Formed, Fresh, Regular
<1>3. /\ Parentheses(p) = 0 /\ Braced(p) = 0 /\ Commands(p) = 0 /\ x = 0
  BY <1>2, NoPartCounts DEF One, CommandPlaces, ForPlaces, CasePlaces, Overs
<1>4. CASE t = "FUNC" \/ t \in Words \ (Openers \cup Closers \cup Always \cup {"function"})
  <2>1. InFunction(p, t) = Cut(p, "function")
    BY <1>2, <1>4 DEF InFunction
  <2>2. t \notin Marks \ {"FUNC"} /\ t \notin Openers \cup Closers
    BY <1>4 DEF Marks, Words, Openers, Closers, Always
  <2>3. "function" \in Parts \ {"subshell", "group"} /\ One("function" \in CommandParts) = 0
    BY DEF Parts, Ends, One, CommandParts
  <2> QED
    BY <1>1, <1>3, <2>1, <2>2, <2>3, CutForward
<1>5. CASE ~(t = "FUNC"
             \/ t \in Words \ (Openers \cup Closers \cup Always \cup {"function"}))
  <2>1. InFunction(p, t) = Fail(p)
    BY <1>2, <1>5 DEF InFunction
  <2> QED
    BY <1>1, <2>1, FailForward
<1> QED
  BY <1>4, <1>5

(* A step that keeps the part and what is known of it.                     *)
LEMMA MovedForward ==
  ASSUME NEW p, Formed(p), NEW q, Formed(q), q.part = p.part, q.slice = p.slice,
         Same(q, p), q.at \in {"opened", "pattern", "slice"},
         p.part = NoPart => p.at \in CommandPlaces /\ q.at \in CommandPlaces,
         NEW x \in Nat, Overs(q, x),
         NEW t, t \notin Marks, ~(split.expect /\ t \in Openers \cup Closers)
  PROVE  Forward(q, p, t, x)
<1>1. Braced(p) \in Nat /\ Commands(p) \in Nat
  BY CountsKind DEF Formed
<1>2. Braced(q) = Braced(p)
  BY DEF Braced
<1>3. Commands(q) = Commands(p)
  <2>1. One(q.part = NoPart /\ q.at \in CommandPlaces)
          = One(p.part = NoPart /\ p.at \in CommandPlaces)
    BY DEF One
  <2> QED
    BY <2>1 DEF Commands
<1>4. Advance(q, p, t, x, x)
  <2>1. /\ One(t = "LPAREN") = 0 /\ One(t = "RPAREN") = 0
        /\ One(t = "LBRACE") = 0 /\ One(t = "RBRACE") = 0
        /\ One(split.expect /\ t \in Openers) = 0
        /\ One(split.expect /\ t \in Closers) = 0
    BY Uncounted
  <2>2. x = x + 0 - 0 /\ Braced(p) = Braced(p) + 0 - 0 /\ Commands(p) = Commands(p) + 0 - 0
    <3>1. \A n \in Nat : n = n + 0 - 0
      OBVIOUS
    <3> QED
      BY <1>1, <3>1
  <2> QED
    BY <1>2, <1>3, <2>1, <2>2 DEF Advance
<1>5. q.at \notin {"start", "stage", "command", "target", "case"}
  BY DEF CasePlaces
<1>6. Awaits(q, t)
  BY <1>5 DEF Awaits
<1> QED
  BY <1>4, <1>5, <1>6 DEF Forward

LEMMA CaseForward ==
  ASSUME NEW p, Formed(p), p.at \in CasePlaces, Expected(p, split.expect),
         NEW x \in Nat, Overs(p, x),
         NEW t \in Tokenised, NEW item, Regular(p, t),
         item = ")" => t \in {"RPAREN", "glyph"}
  PROVE  Forward(Step(p, t, item), p, t, x)
<1>1. Step(p, t, item) = InCase(p, t, item)
  BY StepAt
<1>2. p \in Parsers /\ Fresh(p) /\ ~Misread(p, t)
  BY DEF Formed, Fresh, CasePlaces, Regular
<1>3. /\ Parentheses(p) = 0 /\ Braced(p) = 0 /\ Commands(p) = 1
      /\ x = IF p.at = "opened" THEN 1 ELSE 0
  <2>1. Parentheses(p) = 0 /\ Braced(p) = 0 /\ Commands(p) = 1
    BY <1>2, NoPartCounts DEF One, CommandPlaces
  <2>2. 0 + 1 = 1
    OBVIOUS
  <2> QED
    BY <2>1, <2>2 DEF Overs, CasePlaces
<1>4. t \in Marks => p.at = "case" /\ t = "LPAREN"
  BY DEF Regular, CasePlaces
<1>5. split.expect /\ t \in Openers \cup Closers => t = "esac"
  BY <1>2 DEF Misread, Structural, CasePlaces
<1>6. CASE t = "\n"
  <2>1. InCase(p, t, item) = p
    BY <1>6 DEF InCase
  <2> QED
    BY <1>1, <1>6, <2>1, StayingForward DEF Marks, CasePlaces, Openers, Closers
<1>7. CASE p.at = "case" /\ t = "esac"
  <2> DEFINE q == At(p, "after")
  <2>1. InCase(p, t, item) = q
    BY <1>7 DEF InCase
  <2>2. "after" \in Places
    BY DEF Places, ChainPlaces
  <2>3. Fresh(q) /\ Same(q, p) /\ q.at = "after"
    BY <1>2, <2>2, AtKind DEF Fresh, Same
  <2> HIDE DEF q
  <2>4. Formed(q)
    BY <2>3 DEF Formed, Fresh
  <2>5. Parentheses(q) = 0 /\ Braced(q) = 0 /\ Commands(q) = 0
    BY <2>3, NoPartCounts DEF One, CommandPlaces, ForPlaces, CasePlaces
  <2>6. /\ One(t = "LPAREN") = 0 /\ One(t = "RPAREN") = 0
        /\ One(t = "LBRACE") = 0 /\ One(t = "RBRACE") = 0
        /\ One(split.expect /\ t \in Openers) = 0
        /\ One(split.expect /\ t \in Closers) = 1
    BY <1>7 DEF One, Openers, Closers, Expected
  <2>7. Overs(q, 0)
    BY <2>3, <2>5 DEF Overs
  <2>8. Advance(q, p, t, x, 0)
    BY <1>3, <1>7, <2>5, <2>6, <2>7 DEF Advance
  <2> QED
    BY <1>1, <2>1, <2>3, <2>4, <2>8 DEF Forward, Awaits
<1>8. CASE p.at = "case" /\ t = "LPAREN"
  <2> DEFINE q == At(p, "opened")
  <2>1. InCase(p, t, item) = q
    BY <1>8 DEF InCase
  <2>2. "opened" \in Places
    BY DEF Places, CasePlaces
  <2>3. Fresh(q) /\ Same(q, p) /\ q.at = "opened"
    BY <1>2, <2>2, AtKind DEF Fresh, Same
  <2> HIDE DEF q
  <2>4. Formed(q)
    BY <2>3 DEF Formed, Fresh
  <2>5. Parentheses(q) = 0 /\ Braced(q) = 0 /\ Commands(q) = 1
    BY <2>3, NoPartCounts DEF One, CommandPlaces, ForPlaces, CasePlaces
  <2>6. /\ One(t = "LPAREN") = 1 /\ One(t = "RPAREN") = 0
        /\ One(t = "LBRACE") = 0 /\ One(t = "RBRACE") = 0
        /\ One(split.expect /\ t \in Openers) = 0
        /\ One(split.expect /\ t \in Closers) = 0
    BY <1>8 DEF One, Openers, Closers
  <2>7. Overs(q, 1)
    <3>1. 0 + 1 = 1
      OBVIOUS
    <3> QED
      BY <2>3, <2>5, <3>1 DEF Overs
  <2>8. Advance(q, p, t, x, 1)
    BY <1>3, <1>8, <2>5, <2>6, <2>7 DEF Advance
  <2> QED
    BY <1>1, <2>1, <2>3, <2>4, <2>8 DEF Forward, Awaits
<1>9. CASE t # "\n" /\ ~(p.at = "case" /\ t \in {"esac", "LPAREN"})
  <2>1. CASE item = ")"
    <3>1. InCase(p, t, item) = Fail(p)
      BY <1>9, <2>1 DEF InCase
    <3> QED
      BY <1>1, <3>1, FailForward
  <2>2. CASE item # ")"
    <3> DEFINE n == IF item = "(" THEN 1 ELSE 0
               q == [p EXCEPT !.at = "pattern", !.nested = n]
    <3>1. InCase(p, t, item) = q
      BY <1>9, <2>2 DEF InCase
    <3>2. "pattern" \in Places /\ n \in Int
      BY DEF Places
    <3> HIDE DEF n
    <3>3. Fresh(q) /\ Same(q, p) /\ q.at = "pattern" /\ q.part = p.part /\ q.slice = p.slice
      BY <1>2, <3>2 DEF Fresh, Same, Parsers
    <3> HIDE DEF q
    <3>4. Formed(q)
      BY <3>3 DEF Formed, Fresh
    <3>5. Parentheses(q) = 0 /\ Braced(q) = 0 /\ Commands(q) = 1
      BY <3>3, NoPartCounts DEF One, CommandPlaces
    <3>6. t \notin Marks
      BY <1>4, <1>9
    <3>7. Overs(q, x) /\ Overs(q, 0)
      BY <1>3, <3>3, <3>5 DEF Overs
    <3>8. CASE split.expect /\ t = "esac"
      <4>1. p.at = "opened" /\ x = 1
        BY <1>3, <1>9, <3>8 DEF CasePlaces
      <4>2. One(t = "LBRACE") = 0 /\ One(t = "RBRACE") = 0
        BY <3>8 DEF One
      <4>3. 1 - 1 = 0 /\ 0 + 0 - 0 = 0
        OBVIOUS
      <4>4. Advance(q, p, t, x, 0)
        BY <1>3, <3>5, <3>7, <3>8, <4>1, <4>2, <4>3 DEF Advance
      <4> QED
        BY <1>1, <3>1, <3>3, <3>4, <4>4 DEF Forward, Awaits
    <3>9. CASE ~(split.expect /\ t = "esac")
      <4>1. ~(split.expect /\ t \in Openers \cup Closers)
        BY <1>5, <3>9
      <4>2. p.at \in CommandPlaces /\ q.at \in CommandPlaces
        BY <3>3 DEF CommandPlaces
      <4>3. Forward(q, p, t, x)
        BY <3>3, <3>4, <3>6, <3>7, <4>1, <4>2, MovedForward
      <4> QED
        BY <1>1, <3>1, <4>3
    <3> QED
      BY <3>8, <3>9
  <2> QED
    BY <2>1, <2>2
<1> QED
  BY <1>6, <1>7, <1>8, <1>9

LEMMA PatternForward ==
  ASSUME NEW p, Formed(p), p.at = "pattern", NEW x \in Nat, Overs(p, x),
         NEW t \in Tokenised, NEW item, Regular(p, t),
         item = ")" => t \in Marks \/ x = 0
  PROVE  Forward(Step(p, t, item), p, t, x)
<1>1. Step(p, t, item) = InPattern(p, item)
  BY StepAt
<1>2. p \in Parsers /\ t \notin Marks /\ ~(split.expect /\ t \in Openers \cup Closers)
  BY DEF Formed, Regular, Misread, Structural
<1>3. p.nested \in Int /\ -1 \in Int /\ "slice" \in Places /\ "pattern" \in Places
  BY <1>2 DEF Parsers, Places
<1>4. \A q : Formed(q) /\ q.part = p.part /\ q.slice = p.slice /\ Same(q, p)
             /\ q.at \in {"pattern", "slice"} /\ (p.part = NoPart => q.at = "pattern")
             /\ Overs(q, x) => Forward(q, p, t, x)
  BY <1>2, MovedForward DEF CommandPlaces
<1>5. \A n \in Int : Forward([p EXCEPT !.nested = n], p, t, x)
  <2> TAKE n \in Int
  <2> DEFINE q == [p EXCEPT !.nested = n]
  <2>1. /\ q \in Parsers /\ q.part = p.part /\ q.slice = p.slice /\ Same(q, p)
        /\ q.at = "pattern"
    BY <1>2 DEF Parsers, Same
  <2> HIDE DEF q
  <2>2. Formed(q) /\ Overs(q, x)
    BY <2>1 DEF Formed, Overs, Parentheses
  <2>3. Forward(q, p, t, x)
    BY <1>4, <2>1, <2>2
  <2> QED
    BY <2>3 DEF q
<1>6. p = [p EXCEPT !.nested = p.nested]
  BY <1>2 DEF Parsers
<1>7. CASE item = ")" /\ p.nested = 0
  <2>1. x = 0 /\ Parentheses(p) = 0
    <3>1. Parentheses(p) \in Nat
      BY <1>2, CountsKind
    <3> QED
      BY <1>2, <1>7, <3>1 DEF Overs
  <2>2. CASE p.part = NoPart
    <3>1. InPattern(p, item) = Cut(p, "clause")
      BY <1>7, <2>2 DEF InPattern
    <3>2. Fresh(p)
      BY <2>2 DEF Formed, Fresh
    <3>3. Braced(p) = 0 /\ Commands(p) = 1
      BY <3>2, NoPartCounts DEF One, CommandPlaces
    <3>4. "clause" \in Parts \ {"subshell", "group"} /\ One("clause" \in CommandParts) = 1
      BY DEF Parts, Ends, One, CommandParts
    <3> QED
      BY <1>1, <1>2, <2>1, <3>1, <3>3, <3>4, CutForward
  <2>3. CASE p.part # NoPart
    <3> DEFINE q == [p EXCEPT !.at = "slice", !.nested = -1]
    <3>1. ~(p.slice.depth > 0)
      <4>1. p.slice.depth \in Nat
        BY <1>2 DEF Parsers, Slices
      <4> QED
        BY <2>1, <4>1 DEF Parentheses, One
    <3>2. InPattern(p, item) = q
      <4> DEFINE a == IF p.slice.depth > 0 THEN "skip" ELSE "slice"
      <4>1. InPattern(p, item) = [p EXCEPT !.at = a, !.nested = -1]
        BY <1>7, <2>3 DEF InPattern
      <4>2. a = "slice"
        BY <3>1
      <4> HIDE DEF a
      <4> QED
        BY <4>1, <4>2
    <3>3. /\ q \in Parsers /\ q.part = p.part /\ q.slice = p.slice /\ Same(q, p)
          /\ q.at = "slice"
      BY <1>2, <1>3 DEF Parsers, Same
    <3> HIDE DEF q
    <3>4. p.part \in Parts
      BY <1>2, <2>3 DEF Parsers
    <3>5. Formed(q) /\ Overs(q, x)
      BY <2>1, <2>3, <3>3, <3>4 DEF Formed, Overs, Parentheses
    <3> QED
      BY <1>1, <1>4, <2>3, <3>2, <3>3, <3>5
  <2> QED
    BY <2>2, <2>3
<1>8. CASE ~(item = ")" /\ p.nested = 0)
  <2>1. \E n \in Int : InPattern(p, item) = [p EXCEPT !.nested = n]
    <3>1. InPattern(p, item) \in {[p EXCEPT !.nested = p.nested + 1],
                                  [p EXCEPT !.nested = p.nested - 1], p}
      BY <1>8 DEF InPattern
    <3>2. p.nested + 1 \in Int /\ p.nested - 1 \in Int
      BY <1>3
    <3> QED
      BY <1>3, <1>6, <3>1, <3>2
  <2> QED
    BY <1>1, <1>5, <2>1
<1> QED
  BY <1>7, <1>8

(* The ends of parts.                                                      *)
LEMMA OneKind ==
  ASSUME NEW b
  PROVE  One(b) \in {0, 1} /\ (b => One(b) = 1) /\ (~b => One(b) = 0)
BY DEF One

(* A part ends that nothing in it is left open in.                         *)
LEMMA EndForward ==
  ASSUME NEW p, Formed(p), p.at = "slice", Flat(p.slice), p.slice.braces = 0,
         NEW x \in Nat, Overs(p, x),
         NEW q \in Parsers, q.slice = FreshSlice, Same(q, p),
         (q.at = "slice" /\ q.part \in Parts) \/ (q.at \in {"case", "after"} /\ q.part = NoPart),
         NEW t, Awaits(q, t),
         One(q.part = "subshell") =
           One(p.part = "subshell") + One(t = "LPAREN") - One(t = "RPAREN"),
         One(q.part = "group") =
           One(p.part = "group") + One(t = "LBRACE") - One(t = "RBRACE"),
         One(q.part \in CommandParts) + One(q.at = "case") =
           One(p.part \in CommandParts) + One(split.expect /\ t \in Openers)
             - One(split.expect /\ t \in Closers)
  PROVE  Forward(q, p, t, x)
<1>1. p.part \in Parts /\ p.part # NoPart
  BY DEF Formed, NoPart, Parts, Ends
<1>2. p.slice.depth = 0 /\ Len(p.slice.compounds) = 0
  BY DEF Flat
<1>3. /\ Parentheses(p) = One(p.part = "subshell") /\ Braced(p) = One(p.part = "group")
      /\ Commands(p) = One(p.part \in CommandParts)
  <2>1. One(p.part = NoPart /\ p.at \in CommandPlaces) = 0
    BY <1>1 DEF One
  <2>2. One(p.part = "subshell") \in Nat /\ One(p.part = "group") \in Nat
        /\ One(p.part \in CommandParts) \in Nat
    BY DEF One
  <2> QED
    BY <1>2, <2>1, <2>2 DEF Parentheses, Braced, Commands
<1>4. Formed(q)
  BY DEF Formed, NoPart, Parts, Ends
<1>5. /\ Parentheses(q) = One(q.part = "subshell") /\ Braced(q) = One(q.part = "group")
      /\ Commands(q) = One(q.part \in CommandParts) + One(q.at = "case")
  <2>1. CASE q.at = "slice"
    <3>1. q.part # NoPart
      BY <2>1 DEF Formed, NoPart, Parts, Ends
    <3>2. One(q.at = "case") = 0 /\ One(q.part = NoPart /\ q.at \in CommandPlaces) = 0
      BY <2>1, <3>1 DEF One
    <3> QED
      BY <3>2, FreshCounts
  <2>2. CASE q.at # "slice"
    <3>1. One(q.part = NoPart /\ q.at \in CommandPlaces) = One(q.at = "case")
      BY <2>2 DEF One, CommandPlaces, ForPlaces, CasePlaces
    <3> QED
      BY <3>1, FreshCounts
  <2> QED
    BY <2>1, <2>2
<1>6. x = Parentheses(p)
  BY DEF Overs
<1>7. Overs(q, Parentheses(q)) /\ Parentheses(q) \in Nat
  BY CountsKind DEF Overs
<1>8. Advance(q, p, t, x, Parentheses(q))
  BY <1>3, <1>5, <1>6, <1>7 DEF Advance
<1> QED
  BY <1>4, <1>7, <1>8 DEF Forward

(* What PartDone makes of the end of a part.                               *)
LEMMA PartForward ==
  ASSUME NEW p, Formed(p), p.at = "slice", NEW x \in Nat, Overs(p, x),
         NEW t \in Tokenised, Regular(p, t), EndsPart(p, t), p.part # "function"
  PROVE  Forward(PartDone(p, t), p, t, x)
<1>1. p \in Parsers /\ p.part \in Parts /\ Flat(p.slice)
  BY DEF Formed, EndsPart
<1>2. p.slice.braces = 0
  <2>1. p.slice.braces \in Nat /\ ~(p.slice.braces > 0)
    BY <1>1 DEF Regular, Parsers, Slices
  <2> QED
    BY <2>1
<1>3. \A q \in Parsers :
        /\ q.slice = FreshSlice /\ Same(q, p)
        /\ (q.at = "slice" /\ q.part \in Parts) \/ (q.at \in {"case", "after"} /\ q.part = NoPart)
        /\ Awaits(q, t)
        /\ One(q.part = "subshell") =
             One(p.part = "subshell") + One(t = "LPAREN") - One(t = "RPAREN")
        /\ One(q.part = "group") =
             One(p.part = "group") + One(t = "LBRACE") - One(t = "RBRACE")
        /\ One(q.part \in CommandParts) + One(q.at = "case") =
             One(p.part \in CommandParts) + One(split.expect /\ t \in Openers)
               - One(split.expect /\ t \in Closers)
        => Forward(q, p, t, x)
  BY <1>1, <1>2, EndForward
<1>4. ASSUME NEW part \in CommandParts, p.part \in CommandParts, t \in Always
      PROVE  Forward(Cut(p, part), p, t, x)
  <2> DEFINE q == Cut(p, part)
  <2>1. part \in Parts /\ part \notin {"subshell", "group"}
        /\ p.part \notin {"subshell", "group"}
    BY <1>4 DEF CommandParts, Parts, Ends
  <2>2. /\ q \in Parsers /\ q.slice = FreshSlice /\ q.at = "slice" /\ q.part = part
        /\ Same(q, p)
    BY <1>1, <2>1, CutKind DEF Same
  <2> HIDE DEF q
  <2>3. /\ One(t = "LPAREN") = 0 /\ One(t = "RPAREN") = 0
        /\ One(t = "LBRACE") = 0 /\ One(t = "RBRACE") = 0
        /\ One(split.expect /\ t \in Openers) = 0
        /\ One(split.expect /\ t \in Closers) = 0
    BY <1>4 DEF One, Always, Openers, Closers
  <2>4. /\ One(q.part = "subshell") = 0 /\ One(p.part = "subshell") = 0
        /\ One(q.part = "group") = 0 /\ One(p.part = "group") = 0
        /\ One(q.part \in CommandParts) = 1 /\ One(p.part \in CommandParts) = 1
        /\ One(q.at = "case") = 0
    BY <1>4, <2>1, <2>2 DEF One
  <2>5. Awaits(q, t)
    BY <2>2 DEF Awaits
  <2>6. 0 = 0 + 0 - 0 /\ 1 + 0 = 1 + 0 - 0
    OBVIOUS
  <2>7. q.part \in Parts
    BY <2>1, <2>2
  <2>8. Forward(q, p, t, x)
    BY <1>3, <2>2, <2>3, <2>4, <2>5, <2>6, <2>7
  <2> QED
    BY <2>8 DEF q
<1>5. ASSUME p.part \in CommandParts, t = "in" \/ t = ";;"
      PROVE  Forward(At(p, "case"), p, t, x)
  <2> DEFINE q == At(p, "case")
  <2>1. "case" \in Places /\ p.part \notin {"subshell", "group"}
    BY <1>5 DEF CommandParts, Places, CasePlaces
  <2>2. /\ q \in Parsers /\ q.slice = FreshSlice /\ q.at = "case" /\ q.part = NoPart
        /\ Same(q, p)
    BY <1>1, <2>1, AtKind DEF Same
  <2> HIDE DEF q
  <2>3. /\ One(t = "LPAREN") = 0 /\ One(t = "RPAREN") = 0
        /\ One(t = "LBRACE") = 0 /\ One(t = "RBRACE") = 0
        /\ One(split.expect /\ t \in Openers) = 0
        /\ One(split.expect /\ t \in Closers) = 0
    BY <1>5 DEF One, Openers, Closers
  <2>4. /\ One(q.part = "subshell") = 0 /\ One(p.part = "subshell") = 0
        /\ One(q.part = "group") = 0 /\ One(p.part = "group") = 0
        /\ One(q.part \in CommandParts) = 0 /\ One(p.part \in CommandParts) = 1
        /\ One(q.at = "case") = 1
    BY <1>5, <2>1, <2>2 DEF One, NoPart, CommandParts
  <2>6. 0 = 0 + 0 - 0 /\ 0 + 1 = 1 + 0 - 0
    OBVIOUS
  <2>7. Awaits(q, t)
    BY <1>5 DEF Awaits
  <2>8. Forward(q, p, t, x)
    BY <1>3, <2>2, <2>3, <2>4, <2>6, <2>7
  <2> QED
    BY <2>8 DEF q
<1>6. "after" \in Places /\ At(p, "after") \in Parsers
  BY <1>1, AtKind DEF Places, ChainPlaces
<1>7. ASSUME p.part \in CommandParts, split.expect, t \in Closers
      PROVE  Forward(At(p, "after"), p, t, x)
  <2> DEFINE q == At(p, "after")
  <2>1. p.part \notin {"subshell", "group"}
    BY <1>7 DEF CommandParts
  <2>2. /\ q \in Parsers /\ q.slice = FreshSlice /\ q.at = "after" /\ q.part = NoPart
        /\ Same(q, p)
    BY <1>1, <1>6, AtKind DEF Same
  <2> HIDE DEF q
  <2>3. /\ One(t = "LPAREN") = 0 /\ One(t = "RPAREN") = 0
        /\ One(t = "LBRACE") = 0 /\ One(t = "RBRACE") = 0
        /\ One(split.expect /\ t \in Openers) = 0
        /\ One(split.expect /\ t \in Closers) = 1
    BY <1>7 DEF One, Openers, Closers
  <2>4. /\ One(q.part = "subshell") = 0 /\ One(p.part = "subshell") = 0
        /\ One(q.part = "group") = 0 /\ One(p.part = "group") = 0
        /\ One(q.part \in CommandParts) = 0 /\ One(p.part \in CommandParts) = 1
        /\ One(q.at = "case") = 0
    BY <1>7, <2>1, <2>2 DEF One, NoPart, CommandParts
  <2>5. 0 = 0 + 0 - 0 /\ 0 + 0 = 1 + 0 - 1
    OBVIOUS
  <2>6. Awaits(q, t)
    BY <2>2 DEF Awaits
  <2>7. Forward(q, p, t, x)
    BY <1>3, <2>2, <2>3, <2>4, <2>5, <2>6
  <2> QED
    BY <2>7 DEF q
<1>8. ASSUME (p.part = "subshell" /\ t = "RPAREN") \/ (p.part = "group" /\ t = "RBRACE")
      PROVE  Forward(At(p, "after"), p, t, x)
  <2> DEFINE q == At(p, "after")
  <2>1. /\ q \in Parsers /\ q.slice = FreshSlice /\ q.at = "after" /\ q.part = NoPart
        /\ Same(q, p)
    BY <1>1, <1>6, AtKind DEF Same
  <2> HIDE DEF q
  <2>2. /\ One(t = "LPAREN") = 0 /\ One(t = "RPAREN") = One(p.part = "subshell")
        /\ One(t = "LBRACE") = 0 /\ One(t = "RBRACE") = One(p.part = "group")
        /\ One(split.expect /\ t \in Openers) = 0
        /\ One(split.expect /\ t \in Closers) = 0
    BY <1>8 DEF One, Openers, Closers
  <2>3. /\ One(q.part = "subshell") = 0 /\ One(q.part = "group") = 0
        /\ One(q.part \in CommandParts) = 0 /\ One(p.part \in CommandParts) = 0
        /\ One(q.at = "case") = 0
    BY <1>8, <2>1 DEF One, NoPart, CommandParts
  <2>4. One(p.part = "subshell") \in {0, 1} /\ One(p.part = "group") \in {0, 1}
    BY OneKind
  <2>5. \A a \in {0, 1} : 0 = a + 0 - a
    OBVIOUS
  <2>6. Awaits(q, t)
    BY <2>1 DEF Awaits
  <2>7. 0 + 0 = 0 + 0 - 0
    OBVIOUS
  <2>8. Forward(q, p, t, x)
    BY <1>3, <2>1, <2>2, <2>3, <2>4, <2>5, <2>6, <2>7
  <2> QED
    BY <2>8 DEF q
<1>9. /\ p.part = "subshell" => t = "RPAREN"
      /\ p.part = "group" => t = "RBRACE"
      /\ p.part = "clause" => t \in {";;", "esac"}
      /\ p.part \notin {"subshell", "group", "clause"} => t \in Ends[p.part]
      /\ t \in Closers => p.slice.expect
  <2>1. Ends.subshell = {} /\ Ends.group = {} /\ Ends.clause = {"esac"}
    BY DEF Ends
  <2>2. CASE t = "RPAREN"
    <3>1. p.part = "subshell" /\ t \notin Closers
      BY <2>2 DEF EndsPart, IsWord, Words, Openers, Closers, Always, Separators
    <3> QED
      BY <2>2, <3>1
  <2>3. CASE t = "RBRACE"
    <3>1. p.part = "group" /\ t \notin Closers
      BY <2>3 DEF EndsPart, IsWord, Words, Openers, Closers, Always, Separators
    <3> QED
      BY <2>3, <3>1
  <2>4. CASE t = ";;"
    <3>1. p.part = "clause" /\ t \notin Closers
      BY <2>4 DEF EndsPart, IsWord, Words, Openers, Closers, Always, Separators
    <3> QED
      BY <2>4, <3>1
  <2>5. CASE t \in Separators \cup {"\n"}
    BY <2>5 DEF EndsPart, IsWord, Words, Openers, Closers, Always, Separators
  <2>6. CASE IsWord(t)
    <3>1. t \notin {"RPAREN", "RBRACE", ";;", "\n"} \cup Separators
      BY <2>6 DEF IsWord, Words, Openers, Closers, Always, Separators
    <3>2. t \in Ends[p.part] /\ (p.slice.expect \/ t \in Always)
      BY <2>6, <3>1 DEF EndsPart
    <3>3. t \notin Closers \/ t \notin Always
      BY DEF Closers, Always
    <3> QED
      BY <2>1, <3>2, <3>3
  <2>7. CASE ~IsWord(t) /\ t \notin {"RPAREN", "RBRACE", ";;", "\n"} \cup Separators
    BY <2>7 DEF EndsPart
  <2> QED
    BY <2>2, <2>3, <2>4, <2>5, <2>6, <2>7
<1>10. t \in Closers => split.expect \/ p.part = "subject"
  BY <1>9 DEF Regular, Missed, Tracked
<1>11. CASE p.part \in {"subshell", "group"}
  <2>1. PartDone(p, t) = At(p, "after")
    BY <1>11 DEF PartDone
  <2>2. (p.part = "subshell" /\ t = "RPAREN") \/ (p.part = "group" /\ t = "RBRACE")
    BY <1>9, <1>11
  <2> QED
    BY <1>8, <2>1, <2>2
<1>12. CASE p.part = "if"
  <2>1. t = "then" /\ p.part \in CommandParts /\ "then" \in CommandParts /\ t \in Always
    BY <1>9, <1>12 DEF Ends, CommandParts, Always
  <2>2. PartDone(p, t) \in {Fail(p), Cut(p, "then")}
    BY <1>12, <2>1 DEF PartDone
  <2> QED
    BY <1>4, <2>1, <2>2, FailForward
<1>13. CASE p.part = "while"
  <2>1. t = "do" /\ p.part \in CommandParts /\ "do" \in CommandParts /\ t \in Always
    BY <1>9, <1>13 DEF Ends, CommandParts, Always
  <2>2. PartDone(p, t) \in {Fail(p), Cut(p, "do")}
    BY <1>13, <2>1 DEF PartDone
  <2> QED
    BY <1>4, <2>1, <2>2, FailForward
<1>14. CASE p.part = "then"
  <2>1. /\ t \in {"elif", "else", "fi"} /\ p.part \in CommandParts
        /\ "if" \in CommandParts /\ "else" \in CommandParts
    BY <1>9, <1>14 DEF Ends, CommandParts
  <2>2. CASE t = "fi"
    <3>1. PartDone(p, t) = At(p, "after") /\ t \in Closers /\ split.expect
      BY <1>10, <1>14, <2>2 DEF PartDone, Closers
    <3> QED
      BY <1>7, <2>1, <3>1
  <2>3. CASE t \in {"elif", "else"}
    <3>1. PartDone(p, t) \in {Cut(p, "if"), Cut(p, "else")} /\ t \in Always
      BY <1>14, <2>3 DEF PartDone, Always
    <3> QED
      BY <1>4, <2>1, <3>1
  <2> QED
    BY <2>1, <2>2, <2>3
<1>15. CASE p.part \in {"else", "do"}
  <2>1. p.part \in CommandParts /\ t \in Closers
    <3>1. t \in Ends[p.part]
      BY <1>9, <1>15
    <3>2. Ends["else"] = {"fi"} /\ Ends["do"] = {"done"}
      BY DEF Ends
    <3> QED
      BY <1>15, <3>1, <3>2 DEF CommandParts, Closers
  <2>2. PartDone(p, t) = At(p, "after") /\ split.expect
    BY <1>10, <1>15, <2>1 DEF PartDone
  <2> QED
    BY <1>7, <2>1, <2>2
<1>16. CASE p.part = "subject"
  <2>1. t = "in" /\ p.part \in CommandParts
    BY <1>9, <1>16 DEF Ends, CommandParts
  <2>2. PartDone(p, t) \in {Fail(p), At(p, "case")}
    BY <1>16 DEF PartDone
  <2> QED
    BY <1>5, <2>1, <2>2, FailForward
<1>17. CASE p.part = "clause"
  <2>1. t \in {";;", "esac"} /\ p.part \in CommandParts
    BY <1>9, <1>17 DEF CommandParts
  <2>2. CASE t = "esac"
    <3>1. PartDone(p, t) = At(p, "after") /\ t \in Closers /\ split.expect
      BY <1>10, <1>17, <2>2 DEF PartDone, Closers
    <3> QED
      BY <1>7, <2>1, <3>1
  <2>3. CASE t = ";;"
    <3>1. PartDone(p, t) = At(p, "case")
      BY <1>17, <2>3 DEF PartDone
    <3> QED
      BY <1>5, <2>1, <2>3, <3>1
  <2> QED
    BY <2>1, <2>2, <2>3
<1> QED
  BY <1>1, <1>11, <1>12, <1>13, <1>14, <1>15, <1>16, <1>17 DEF Parts, Ends

(* What a token inside a part does to what is open there.                  *)
LEMMA SlicedKind ==
  ASSUME NEW p, Formed(p), p.at = "slice", NEW t \in Tokenised, NEW item,
         Regular(p, t), ~Unexpected(p, t)
  PROVE  /\ Sliced(p, t, item) \in Slices
         /\ Sliced(p, t, item).depth
              = p.slice.depth + One(t = "LPAREN") - One(t = "RPAREN")
         /\ Sliced(p, t, item).braces
              = p.slice.braces + One(t = "LBRACE") - One(t = "RBRACE")
         /\ Len(Sliced(p, t, item).compounds)
              = Len(p.slice.compounds) + One(split.expect /\ t \in Openers)
                  - One(split.expect /\ t \in Closers)
         /\ t \notin Openers \cup Closers =>
              Sliced(p, t, item).compounds = p.slice.compounds
<1> DEFINE s == p.slice
           word == IsWord(t) /\ ~s.target
           opens == word /\ s.expect /\ Tracked(p) /\ t \in Openers
           closes == word /\ s.expect /\ Tracked(p) /\ t \in Closers
           expect == \/ t \in Separators \cup {"\n", "|", ";;", "LPAREN", "LBRACE"}
                                 \cup Documents
                     \/ word /\ t \in Always
           target == t \in Redirects \ Documents
           depth == IF t = "LPAREN" /\ Tracked(p) THEN s.depth + 1
                    ELSE IF t = "RPAREN" THEN s.depth - 1 ELSE s.depth
           braces == IF t = "LBRACE" THEN s.braces + 1
                     ELSE IF t = "RBRACE" THEN s.braces - 1 ELSE s.braces
           compounds == IF opens THEN Append(s.compounds, IF t = "case" THEN "case" ELSE "other")
                        ELSE IF closes THEN SubSeq(s.compounds, 1, Len(s.compounds) - 1)
                        ELSE s.compounds
           content == IF t = "\n" THEN s.content ELSE Content(s, t)
           open == IF p.part = "function" THEN Open(s, item) ELSE 0
           q == Sliced(p, t, item)
<1>1. /\ p \in Parsers /\ s \in Slices /\ s.depth \in Nat /\ s.braces \in Nat /\ s.open \in Nat
      /\ s.compounds \in Seq({"case", "other"}) /\ Len(s.compounds) \in Nat
      /\ s.content \in {"nothing", "semicolon", "some"}
      /\ s.expect \in BOOLEAN /\ s.target \in BOOLEAN
  BY LenProperties DEF Formed, Parsers, Slices
<1>2. q = [s EXCEPT !.expect = expect, !.target = target, !.depth = depth,
                    !.braces = braces, !.compounds = compounds,
                    !.content = content, !.open = open]
  BY <1>1 DEF Sliced, Slices
<1>3. expect \in BOOLEAN /\ target \in BOOLEAN
  OBVIOUS
<1>4. content \in {"nothing", "semicolon", "some"}
  BY <1>1 DEF Content
<1>5. open \in Nat
  <2>1. \/ Open(s, item) = 0 \/ Open(s, item) = s.open + 1 \/ Open(s, item) = s.open
        \/ s.open > 0 /\ Open(s, item) = s.open - 1
    BY DEF Open
  <2>2. 0 \in Nat /\ s.open + 1 \in Nat /\ (s.open > 0 => s.open - 1 \in Nat)
    BY <1>1
  <2>3. Open(s, item) \in Nat
    BY <1>1, <2>1, <2>2
  <2> QED
    BY <2>2, <2>3
<1>6. /\ t = "LPAREN" => Tracked(p)
      /\ t = "RPAREN" => s.depth # 0
      /\ t = "RBRACE" => s.braces # 0
  BY DEF Regular, Tracked, Unexpected, Marks, Openers, Closers, Always
<1>7. depth \in Nat /\ depth = s.depth + One(t = "LPAREN") - One(t = "RPAREN")
  <2>1. CASE t = "LPAREN"
    <3>1. depth = s.depth + 1 /\ One(t = "LPAREN") = 1 /\ One(t = "RPAREN") = 0
      BY <1>6, <2>1 DEF One
    <3> QED
      BY <1>1, <3>1
  <2>2. CASE t = "RPAREN"
    <3>1. depth = s.depth - 1 /\ One(t = "LPAREN") = 0 /\ One(t = "RPAREN") = 1
      BY <2>2 DEF One
    <3> QED
      BY <1>1, <1>6, <2>2, <3>1
  <2>3. CASE t \notin {"LPAREN", "RPAREN"}
    <3>1. depth = s.depth /\ One(t = "LPAREN") = 0 /\ One(t = "RPAREN") = 0
      BY <2>3 DEF One
    <3> QED
      BY <1>1, <3>1
  <2> QED
    BY <2>1, <2>2, <2>3
<1>8. braces \in Nat /\ braces = s.braces + One(t = "LBRACE") - One(t = "RBRACE")
  <2>1. CASE t = "LBRACE"
    <3>1. braces = s.braces + 1 /\ One(t = "LBRACE") = 1 /\ One(t = "RBRACE") = 0
      BY <2>1 DEF One
    <3> QED
      BY <1>1, <3>1
  <2>2. CASE t = "RBRACE"
    <3>1. braces = s.braces - 1 /\ One(t = "LBRACE") = 0 /\ One(t = "RBRACE") = 1
      BY <2>2 DEF One
    <3> QED
      BY <1>1, <1>6, <2>2, <3>1
  <2>3. CASE t \notin {"LBRACE", "RBRACE"}
    <3>1. braces = s.braces /\ One(t = "LBRACE") = 0 /\ One(t = "RBRACE") = 0
      BY <2>3 DEF One
    <3> QED
      BY <1>1, <3>1
  <2> QED
    BY <2>1, <2>2, <2>3
<1>9. ~Misread(p, t) /\ ~Missed(p, t)
  BY DEF Regular
<1>10. t \in Openers \cup Closers => (split.expect <=> word /\ s.expect /\ Tracked(p))
  <2> SUFFICES ASSUME t \in Openers \cup Closers
               PROVE  split.expect <=> word /\ s.expect /\ Tracked(p)
    OBVIOUS
  <2>1. IsWord(t) /\ t # "in"
    BY DEF IsWord, Words, Openers, Closers
  <2>2. split.expect => s.expect /\ ~s.target /\ p.part # "subject"
    BY <1>9, <2>1 DEF Misread, Structural
  <2>3. s.expect /\ Tracked(p) => split.expect
    BY <1>9 DEF Missed
  <2> QED
    BY <2>1, <2>2, <2>3 DEF Tracked
<1>11. closes => s.compounds # <<>>
  BY DEF Unexpected, Openers, Closers, Always
<1>12. /\ compounds \in Seq({"case", "other"})
       /\ Len(compounds) = Len(s.compounds) + One(split.expect /\ t \in Openers)
                             - One(split.expect /\ t \in Closers)
       /\ t \notin Openers \cup Closers => compounds = s.compounds
  <2>1. t \notin Openers \/ t \notin Closers
    BY DEF Openers, Closers
  <2>2. CASE opens
    <3> DEFINE e == IF t = "case" THEN "case" ELSE "other"
    <3>1. compounds = Append(s.compounds, e) /\ e \in {"case", "other"}
      BY <2>2
    <3>2. One(split.expect /\ t \in Openers) = 1 /\ One(split.expect /\ t \in Closers) = 0
      BY <1>10, <2>1, <2>2 DEF One
    <3> HIDE DEF e
    <3>3. /\ Append(s.compounds, e) \in Seq({"case", "other"})
          /\ Len(Append(s.compounds, e)) = Len(s.compounds) + 1
      BY <1>1, <3>1, AppendProperties
    <3> HIDE DEF compounds
    <3> QED
      BY <1>1, <2>2, <3>1, <3>2, <3>3
  <2>3. CASE closes
    <3> DEFINE n == Len(s.compounds) - 1
    <3>1. compounds = SubSeq(s.compounds, 1, n)
      BY <2>1, <2>3
    <3>2. One(split.expect /\ t \in Openers) = 0 /\ One(split.expect /\ t \in Closers) = 1
      BY <1>10, <2>1, <2>3 DEF One
    <3>3. Len(s.compounds) # 0
      BY <1>1, <1>11, <2>3, EmptySeq
    <3>4. n \in Nat /\ n <= Len(s.compounds) /\ n = Len(s.compounds) + 0 - 1
      BY <1>1, <3>3
    <3>5. SubSeq(s.compounds, 1, n) \in Seq({"case", "other"}) /\ Len(SubSeq(s.compounds, 1, n)) = n
      BY <1>1, <3>4, SubSeqProperties
    <3> HIDE DEF compounds, n
    <3> QED
      BY <1>1, <2>3, <3>1, <3>2, <3>4, <3>5
  <2>4. CASE ~opens /\ ~closes
    <3>1. compounds = s.compounds
      BY <2>4
    <3>2. One(split.expect /\ t \in Openers) = 0 /\ One(split.expect /\ t \in Closers) = 0
      BY <1>10, <2>4 DEF One
    <3> HIDE DEF compounds
    <3> QED
      BY <1>1, <3>1, <3>2
  <2> QED
    BY <2>2, <2>3, <2>4
<1> HIDE DEF expect, target, depth, braces, compounds, content, open, q, s
<1>13. depth \in Nat /\ braces \in Nat /\ compounds \in Seq({"case", "other"}) /\ s \in Slices
  BY <1>1, <1>7, <1>8, <1>12
<1>14. /\ q \in Slices /\ q.depth = depth /\ q.braces = braces /\ q.compounds = compounds
  BY <1>2, <1>3, <1>4, <1>5, <1>13 DEF Slices
<1> QED
  BY <1>7, <1>8, <1>12, <1>14 DEF q, s

(* A token inside a part.                                                  *)
LEMMA SliceForward ==
  ASSUME NEW p, Formed(p), p.at = "slice", Expected(p, split.expect),
         NEW x \in Nat, Overs(p, x),
         NEW t \in Tokenised, NEW item, Regular(p, t),
         ~(p.part = "function" /\ EndsPart(p, t))
  PROVE  Forward(Step(p, t, item), p, t, x)
<1>1. Step(p, t, item) = InSlice(p, t, item)
  BY StepAt
<1>2. CASE t = "\n" /\ (p.slice.target \/ p.slice.content = "nothing")
  <2>1. InSlice(p, t, item) = p
    BY <1>2 DEF InSlice
  <2>2. t \notin Marks /\ t \notin Openers \cup Closers
    BY <1>2 DEF Marks, Openers, Closers
  <2> QED
    BY <1>1, <2>1, <2>2, StayingForward
<1>3. CASE ~(t = "\n" /\ (p.slice.target \/ p.slice.content = "nothing")) /\ EndsPart(p, t)
  <2>1. InSlice(p, t, item) = PartDone(p, t) /\ p.part # "function"
    BY <1>3 DEF InSlice
  <2> QED
    BY <1>1, <1>3, <2>1, PartForward
<1>4. CASE /\ ~(t = "\n" /\ (p.slice.target \/ p.slice.content = "nothing"))
           /\ ~EndsPart(p, t) /\ Unexpected(p, t)
  <2>1. InSlice(p, t, item) = Fail(p)
    BY <1>4 DEF InSlice
  <2> QED
    BY <1>1, <2>1, FailForward
<1>5. CASE /\ ~(t = "\n" /\ (p.slice.target \/ p.slice.content = "nothing"))
           /\ ~EndsPart(p, t) /\ ~Unexpected(p, t)
  <2> DEFINE into == t = "in" /\ ~p.slice.target /\ InnerCase(p.slice)
             s == Sliced(p, t, item)
             a == IF into THEN "pattern" ELSE "slice"
             n == IF into THEN 0 ELSE -1
             q == [p EXCEPT !.slice = s, !.at = a, !.nested = n]
  <2>1. InSlice(p, t, item) = q
    BY <1>5 DEF InSlice
  <2>2. /\ s \in Slices
        /\ s.depth = p.slice.depth + One(t = "LPAREN") - One(t = "RPAREN")
        /\ s.braces = p.slice.braces + One(t = "LBRACE") - One(t = "RBRACE")
        /\ Len(s.compounds) = Len(p.slice.compounds) + One(split.expect /\ t \in Openers)
                                - One(split.expect /\ t \in Closers)
        /\ t \notin Openers \cup Closers => s.compounds = p.slice.compounds
    BY <1>5, SlicedKind
  <2>3. into => s.compounds # <<>>
    BY <2>2 DEF InnerCase, Openers, Closers
  <2>4. /\ p \in Parsers /\ p.part \in Parts /\ p.part # NoPart
        /\ p.slice.depth \in Nat /\ p.slice.braces \in Nat /\ Len(p.slice.compounds) \in Nat
    BY LenProperties DEF Formed, NoPart, Parts, Ends, Parsers, Slices
  <2>5. a \in Places /\ a \in {"pattern", "slice"} /\ n \in Int /\ (a = "pattern" => into)
    BY DEF Places
  <2> HIDE DEF s, a, n
  <2>6. /\ q \in Parsers /\ q.slice = s /\ q.at = a /\ q.part = p.part /\ Same(q, p)
    BY <2>2, <2>4, <2>5 DEF Parsers, Same
  <2> HIDE DEF q, into
  <2>7. Formed(q)
    BY <2>3, <2>4, <2>5, <2>6 DEF Formed
  <2>8. /\ One(q.part = NoPart /\ q.at \in CommandPlaces) = 0
        /\ One(p.part = NoPart /\ p.at \in CommandPlaces) = 0
    BY <2>4, <2>6 DEF One
  <2>9. \A i, j, k, l \in Int : (i + j - k) + l = (i + l) + j - k
    OBVIOUS
  <2>10. Parentheses(q) = Parentheses(p) + One(t = "LPAREN") - One(t = "RPAREN")
    <3> DEFINE i == p.slice.depth
               j == One(t = "LPAREN")
               k == One(t = "RPAREN")
               l == One(p.part = "subshell")
    <3>1. i \in Int /\ j \in Int /\ k \in Int /\ l \in Int
      BY <2>4, OneKind
    <3>2. Parentheses(q) = (i + j - k) + l /\ Parentheses(p) = i + l
      BY <2>2, <2>6 DEF Parentheses
    <3> HIDE DEF i, j, k, l
    <3>3. Parentheses(q) = Parentheses(p) + j - k
      BY <2>9, <3>1, <3>2
    <3> QED
      BY <3>3 DEF j, k
  <2>11. Braced(q) = Braced(p) + One(t = "LBRACE") - One(t = "RBRACE")
    <3> DEFINE i == p.slice.braces
               j == One(t = "LBRACE")
               k == One(t = "RBRACE")
               l == One(p.part = "group")
    <3>1. i \in Int /\ j \in Int /\ k \in Int /\ l \in Int
      BY <2>4, OneKind
    <3>2. Braced(q) = (i + j - k) + l /\ Braced(p) = i + l
      BY <2>2, <2>6 DEF Braced
    <3> HIDE DEF i, j, k, l
    <3>3. Braced(q) = Braced(p) + j - k
      BY <2>9, <3>1, <3>2
    <3> QED
      BY <3>3 DEF j, k
  <2>12. Commands(q) = Commands(p) + One(split.expect /\ t \in Openers)
                         - One(split.expect /\ t \in Closers)
    <3> DEFINE i == Len(p.slice.compounds)
               j == One(split.expect /\ t \in Openers)
               k == One(split.expect /\ t \in Closers)
               l == One(p.part \in CommandParts)
    <3>1. i \in Int /\ j \in Int /\ k \in Int /\ l \in Int
      BY <2>4, OneKind
    <3>2. Commands(q) = (i + j - k) + l + 0 /\ Commands(p) = i + l + 0
      BY <2>2, <2>6, <2>8 DEF Commands
    <3> HIDE DEF i, j, k, l
    <3>3. Commands(q) = Commands(p) + j - k
      BY <2>9, <3>1, <3>2
    <3> QED
      BY <3>3 DEF j, k
  <2>13. x = Parentheses(p) /\ Parentheses(q) \in Nat /\ Overs(q, Parentheses(q))
    BY <2>5, <2>6, CountsKind DEF Overs
  <2>14. Advance(q, p, t, x, Parentheses(q))
    BY <2>10, <2>11, <2>12, <2>13 DEF Advance
  <2>15. Forward(q, p, t, x)
    BY <2>5, <2>6, <2>7, <2>13, <2>14 DEF Forward, Awaits
  <2> QED
    BY <1>1, <2>1, <2>15
<1> QED
  BY <1>2, <1>3, <1>4, <1>5

-----------------------------------------------------------------------------
(* Any token that does not end a chain, and one that does.                 *)

(* A function's body ends, which ends its chain.                           *)
FunctionEnds(p, t) == p.at = "slice" /\ p.part = "function" /\ EndsPart(p, t)

(* The counts at the level of chains are zero.                             *)
LEMMA FreshForms ==
  ASSUME NEW q, Fresh(q), q.at \in ChainPlaces
  PROVE  /\ Formed(q) /\ Overs(q, 0)
         /\ Parentheses(q) = 0 /\ Braced(q) = 0 /\ Commands(q) = 0
<1>1. q.at \notin CommandPlaces /\ q.at \notin {"opened", "pattern", "skip", "stop", "slice"}
  BY DEF ChainPlaces, CommandPlaces, ForPlaces, CasePlaces
<1>2. Parentheses(q) = 0 /\ Braced(q) = 0 /\ Commands(q) = 0
  BY <1>1, NoPartCounts DEF One
<1>3. Formed(q)
  BY <1>1 DEF Formed, Fresh
<1> QED
  BY <1>1, <1>2, <1>3 DEF Overs

LEMMA ChainCounts ==
  ASSUME NEW p, Formed(p), p.at \in ChainPlaces \cup {"function"}, NEW x, Overs(p, x)
  PROVE  Fresh(p) /\ x = 0 /\ Braced(p) = 0 /\ Commands(p) = 0
<1>1. Fresh(p)
  BY DEF Formed, Fresh, ChainPlaces
<1>2. p.at \notin CommandPlaces /\ p.at # "opened" /\ p.at # "pattern"
  BY DEF ChainPlaces, CommandPlaces, ForPlaces, CasePlaces
<1>3. Parentheses(p) = 0 /\ Braced(p) = 0 /\ Commands(p) = 0
  BY <1>1, <1>2, NoPartCounts DEF One
<1> QED
  BY <1>1, <1>2, <1>3 DEF Overs

LEMMA PlainAdvance ==
  ASSUME NEW p, Formed(p), p.at \in ChainPlaces, NEW x, Overs(p, x),
         NEW q, Fresh(q), q.at \in ChainPlaces,
         NEW t, t \notin Marks, ~(split.expect /\ t \in Openers \cup Closers)
  PROVE  Formed(q) /\ Advance(q, p, t, x, 0)
<1>1. /\ Formed(q) /\ Overs(q, 0)
      /\ Parentheses(q) = 0 /\ Braced(q) = 0 /\ Commands(q) = 0
  BY FreshForms
<1>2. x = 0 /\ Braced(p) = 0 /\ Commands(p) = 0
  BY ChainCounts
<1>3. 0 = 0 + 0 - 0
  OBVIOUS
<1> QED
  BY <1>1, <1>2, <1>3, Uncounted DEF Advance

(* Into a compound command: its first token counts for what is now open.   *)
LEMMA EnteredAdvance ==
  ASSUME NEW p, Formed(p), p.at \in ChainPlaces, NEW x, Overs(p, x),
         NEW q, NEW t \in Heads, Entered(q, p, t), split.expect
  PROVE  Formed(q) /\ \E y \in Nat : Advance(q, p, t, x, y)
<1>1. x = 0 /\ Braced(p) = 0 /\ Commands(p) = 0
  BY ChainCounts
<1>2. q \in Parsers /\ q.slice = FreshSlice
  BY DEF Entered
<1>3. /\ Parentheses(q) = One(t = "LPAREN") /\ Braced(q) = One(t = "LBRACE")
      /\ Commands(q) = One(t \in Openers) /\ Formed(q) /\ q.at \notin {"opened", "pattern"}
  <2>1. CASE t = "for"
    <3>1. q.at = "name" /\ q.part = NoPart
      BY <2>1 DEF Entered, Inside
    <3>2. /\ One(q.part = "subshell") = 0 /\ One(q.part = "group") = 0
          /\ One(q.part \in CommandParts) = 0 /\ One(q.part = NoPart /\ q.at \in CommandPlaces) = 1
          /\ One(t = "LPAREN") = 0 /\ One(t = "LBRACE") = 0 /\ One(t \in Openers) = 1
      BY <2>1, <3>1 DEF One, NoPart, CommandParts, CommandPlaces, ForPlaces, Openers
    <3>3. Formed(q)
      BY <1>2, <3>1 DEF Formed
    <3> QED
      BY <1>2, <3>1, <3>2, <3>3, FreshCounts
  <2>2. CASE t = "function"
    <3>1. q.at = "function" /\ q.part = NoPart
      BY <2>2 DEF Entered, Inside
    <3>2. /\ One(q.part = "subshell") = 0 /\ One(q.part = "group") = 0
          /\ One(q.part \in CommandParts) = 0 /\ One(q.part = NoPart /\ q.at \in CommandPlaces) = 0
          /\ One(t = "LPAREN") = 0 /\ One(t = "LBRACE") = 0 /\ One(t \in Openers) = 0
      BY <2>2, <3>1 DEF One, NoPart, CommandParts, CommandPlaces, ForPlaces, CasePlaces, Openers
    <3>3. Formed(q)
      BY <1>2, <3>1 DEF Formed
    <3> QED
      BY <1>2, <3>1, <3>2, <3>3, FreshCounts
  <2>3. CASE t \in DOMAIN Inside
    <3>1. q.at = "slice" /\ q.part = Inside[t]
      BY <2>3 DEF Entered, Inside
    <3>2. /\ Inside["if"] = "if" /\ Inside["while"] = "while" /\ Inside["until"] = "while"
          /\ Inside["case"] = "subject" /\ Inside["FUNC"] = "function"
          /\ Inside["LPAREN"] = "subshell" /\ Inside["LBRACE"] = "group"
          /\ t \in {"if", "while", "until", "case", "FUNC", "LPAREN", "LBRACE"}
      BY <2>3 DEF Inside
    <3>3. q.part \in Parts /\ q.part # NoPart
      BY <3>1, <3>2 DEF Parts, Ends, NoPart
    <3>4. /\ One(q.part = "subshell") = One(t = "LPAREN")
          /\ One(q.part = "group") = One(t = "LBRACE")
          /\ One(q.part \in CommandParts) = One(t \in Openers)
      BY <3>1, <3>2 DEF One, CommandParts, Openers
    <3>5. Formed(q)
      BY <1>2, <3>1, <3>3 DEF Formed
    <3> QED
      BY <1>2, <3>1, <3>3, <3>4, <3>5, PartCounts
  <2> QED
    BY <2>1, <2>2, <2>3 DEF Heads, Openers, Inside
<1>4. /\ One(t = "RPAREN") = 0 /\ One(t = "RBRACE") = 0
      /\ One(split.expect /\ t \in Openers) = One(t \in Openers)
      /\ One(split.expect /\ t \in Closers) = 0
  BY DEF One, Heads, Openers, Closers
<1>5. One(t = "LPAREN") \in Nat /\ One(t = "LBRACE") \in Nat /\ One(t \in Openers) \in Nat
  BY OneKind
<1>6. \A n \in Nat : n = 0 + n - 0
  OBVIOUS
<1>7. Overs(q, One(t = "LPAREN"))
  BY <1>3, <1>5 DEF Overs
<1>8. Advance(q, p, t, x, One(t = "LPAREN"))
  BY <1>1, <1>3, <1>4, <1>5, <1>6, <1>7 DEF Advance
<1> QED
  BY <1>3, <1>5, <1>8

(* A token that ends no chain.                                             *)
Proceeded(q, p, t, x) ==
  /\ Formed(q) /\ Chained(q) /\ Awaits(q, t)
  /\ q.op = p.op /\ q.at # "start"
  /\ \E y \in Nat : Advance(q, p, t, x, y)
  /\ q.at \in {"command", "target"} =>
       t \notin Separators \cup Marks \cup Always \cup {"function", "|", "\n", ";;"}

(* The step of the parser at any token that does not end a chain.          *)
LEMMA Proceed ==
  ASSUME NEW p, Formed(p), Chained(p), Expected(p, split.expect), p.at # "fail",
         NEW x \in Nat, Overs(p, x),
         NEW t \in Tokenised, NEW item, Regular(p, t),
         item = ")" => t = "RPAREN" \/ (t = "glyph" /\ x = 0),
         p.at \in {"command", "target"} => t \notin {"LPAREN", "LBRACE", "FUNC"},
         p.at \in ChainPlaces => t \notin Separators, ~FunctionEnds(p, t)
  PROVE  Step(p, t, item).at = "fail" \/ Proceeded(Step(p, t, item), p, t, x)
<1> DEFINE q == Step(p, t, item)
<1>1. p \in Parsers
  BY DEF Formed
<1>2. CASE p.at \in ChainPlaces
  <2>1. Onward(q, p, t)
    BY <1>2, ChainStep
  <2> HIDE DEF q
  <2>2. CASE q.at = "fail"
    BY <2>2 DEF q
  <2>3. CASE t = "|" /\ Fresh(q) /\ q.at = "stage" /\ q.op = p.op /\ q.chains = One(q.have)
    <3>1. t \notin Marks /\ t \notin Openers \cup Closers /\ q.at \in ChainPlaces
      BY <2>3 DEF Marks, Openers, Closers, ChainPlaces
    <3>2. Formed(q) /\ Advance(q, p, t, x, 0)
      BY <1>2, <2>3, <3>1, PlainAdvance
    <3> QED
      BY <2>3, <3>2 DEF Proceeded, Chained, Awaits, q
  <2>4. CASE t \in Heads /\ p.at \in {"start", "stage"} /\ Entered(q, p, t)
    <3>1. split.expect
      BY <2>4 DEF Expected
    <3>2. Formed(q) /\ \E y \in Nat : Advance(q, p, t, x, y)
      BY <1>2, <2>4, <3>1, EnteredAdvance
    <3>3. q.at \in {"slice", "name", "function"} /\ q.op = p.op /\ q.chains = 1
      BY <2>4 DEF Entered
    <3> QED
      BY <3>2, <3>3 DEF Proceeded, Chained, Awaits, q
  <2>5. CASE /\ Fresh(q) /\ q.at \in {"command", "target"} /\ q.op = p.op
             /\ q.chains = 1 /\ q.have
             /\ t \notin Separators \cup Marks \cup Always \cup {"function", "|", "\n", ";;"}
             /\ ~(split.expect /\ t \in Openers \cup Closers)
    <3>1. t \notin Marks /\ q.at \in ChainPlaces
      BY <2>5 DEF ChainPlaces
    <3>2. Formed(q) /\ Advance(q, p, t, x, 0)
      BY <1>2, <2>5, <3>1, PlainAdvance
    <3> QED
      BY <2>5, <3>2 DEF Proceeded, Chained, Awaits, q
  <2> QED
    BY <2>1, <2>2, <2>3, <2>4, <2>5 DEF Onward
<1>3. CASE p.at \notin ChainPlaces
  <2>1. p.at \in ForPlaces \cup CasePlaces \cup {"function", "pattern", "slice"}
    BY <1>1, <1>3 DEF Formed, Parsers, Places
  <2>2. Forward(q, p, t, x)
    <3>1. CASE p.at \in ForPlaces
      BY <3>1, ForForward
    <3>2. CASE p.at \in CasePlaces
      BY <3>2, CaseForward
    <3>3. CASE p.at = "function"
      BY <3>3, FunctionForward
    <3>4. CASE p.at = "pattern"
      BY <3>4, PatternForward DEF Marks
    <3>5. CASE p.at = "slice"
      BY <3>5, SliceForward DEF FunctionEnds
    <3> QED
      BY <2>1, <3>1, <3>2, <3>3, <3>4, <3>5
  <2>3. p.chains = 1
    BY <1>3 DEF Chained, ChainPlaces
  <2> QED
    BY <2>2, <2>3 DEF Forward, Proceeded, Chained, Same
<1> QED
  BY <1>2, <1>3

(* Where a token may end a chain.                                          *)
Outermost(p) ==
  \/ p.at \in ChainPlaces \cup {"function"}
  \/ p.at = "slice" /\ p.part = "function" /\ Flat(p.slice) /\ p.slice.braces = 0

(* When nothing is open the parser is where a token may end a chain, and   *)
(* such a token does so only there.                                        *)
LEMMA DepthZero ==
  ASSUME NEW p, Formed(p), p.at # "fail", NEW x \in Nat, Overs(p, x),
         x + Braced(p) + Commands(p) = 0
  PROVE  Outermost(p)
<1>1. p \in Parsers /\ p.slice \in Slices /\ p.slice.depth \in Nat /\ p.slice.braces \in Nat
      /\ p.slice.compounds \in Seq({"case", "other"})
  BY DEF Formed, Parsers, Slices
<1>2. /\ Parentheses(p) \in Nat /\ Braced(p) \in Nat /\ Commands(p) \in Nat
      /\ Len(p.slice.compounds) \in Nat
  BY <1>1, CountsKind
<1>3. Parentheses(p) <= x
  BY <1>2 DEF Overs
<1>4. Parentheses(p) = 0 /\ Braced(p) = 0 /\ Commands(p) = 0
  BY <1>2, <1>3
<1> DEFINE b1 == One(p.part = "subshell")
           b2 == One(p.part = "group")
           b3 == One(p.part \in CommandParts)
           b4 == One(p.part = NoPart /\ p.at \in CommandPlaces)
<1>5. b1 \in Nat /\ b2 \in Nat /\ b3 \in Nat /\ b4 \in Nat
  BY OneKind
<1>6. /\ Parentheses(p) = p.slice.depth + b1 /\ Braced(p) = p.slice.braces + b2
      /\ Commands(p) = Len(p.slice.compounds) + b3 + b4
  BY DEF Parentheses, Braced, Commands
<1> HIDE DEF b1, b2, b3, b4
<1>7. /\ p.slice.depth = 0 /\ b1 = 0 /\ p.slice.braces = 0 /\ b2 = 0
      /\ Len(p.slice.compounds) = 0 /\ b3 = 0 /\ b4 = 0
  <2>1. \A i, j, k \in Nat : i + j + k = 0 => i = 0 /\ j = 0 /\ k = 0
    OBVIOUS
  <2>2. \A i, j \in Nat : i + j = 0 => i = 0 /\ j = 0
    OBVIOUS
  <2>3. p.slice.depth = 0 /\ b1 = 0
    BY <1>1, <1>4, <1>5, <1>6, <2>2
  <2>4. p.slice.braces = 0 /\ b2 = 0
    BY <1>1, <1>4, <1>5, <1>6, <2>2
  <2>5. Len(p.slice.compounds) = 0 /\ b3 = 0 /\ b4 = 0
    BY <1>2, <1>4, <1>5, <1>6, <2>1
  <2> QED
    BY <2>3, <2>4, <2>5
<1>8. /\ p.part \notin {"subshell", "group"} \cup CommandParts
      /\ ~(p.part = NoPart /\ p.at \in CommandPlaces)
  <2>1. /\ ~(p.part = "subshell") /\ ~(p.part = "group") /\ ~(p.part \in CommandParts)
        /\ ~(p.part = NoPart /\ p.at \in CommandPlaces)
    BY <1>7 DEF b1, b2, b3, b4, One
  <2> QED
    BY <2>1
<1>9. p.slice.compounds = <<>>
  BY <1>1, <1>7, EmptySeq
<1>10. p.part \in {NoPart, "function"}
  BY <1>1, <1>8 DEF Parsers, Parts, Ends, CommandParts
<1>11. p.at \in ChainPlaces \cup {"function", "slice"}
  <2>1. p.at \in Places
    BY <1>1 DEF Parsers
  <2>2. p.at # "pattern"
    BY <1>8, <1>9 DEF Formed, CommandPlaces
  <2>3. p.at \notin ForPlaces \cup CasePlaces
    BY <1>8 DEF Formed, CommandPlaces, ForPlaces, CasePlaces
  <2> QED
    BY <2>1, <2>2, <2>3 DEF Places, Formed
<1>12. p.at = "slice" => p.part = "function"
  BY <1>10 DEF Formed, NoPart, Parts, Ends
<1> QED
  BY <1>7, <1>9, <1>11, <1>12 DEF Outermost, Flat

LEMMA FunctionEndsKind ==
  ASSUME NEW p, Formed(p), NEW x \in Nat, Overs(p, x), NEW t, Regular(p, t),
         FunctionEnds(p, t)
  PROVE  t \in Separators \cup {"\n"} /\ x + Braced(p) + Commands(p) = 0
<1>1. p \in Parsers /\ p.slice \in Slices /\ p.slice.braces \in Nat
  BY DEF Formed, Parsers, Slices
<1>2. Flat(p.slice) /\ p.slice.braces = 0
  <2>1. Flat(p.slice) /\ ~(p.slice.braces > 0)
    BY DEF FunctionEnds, EndsPart, Regular
  <2> QED
    BY <1>1, <2>1
<1>3. p.slice.depth = 0 /\ Len(p.slice.compounds) = 0
  BY <1>2 DEF Flat
<1>4. /\ One(p.part = "subshell") = 0 /\ One(p.part = "group") = 0
      /\ One(p.part \in CommandParts) = 0 /\ One(p.part = NoPart /\ p.at \in CommandPlaces) = 0
  BY DEF FunctionEnds, One, CommandParts, NoPart
<1>5. Parentheses(p) = 0 /\ Braced(p) = 0 /\ Commands(p) = 0
  BY <1>2, <1>3, <1>4 DEF Parentheses, Braced, Commands
<1>6. x = 0
  BY <1>5 DEF Overs, FunctionEnds
<1>7. t \in Separators \cup {"\n"}
  <2>1. p.part = "function" /\ EndsPart(p, t) /\ Ends[p.part] = {}
    BY DEF FunctionEnds, Ends
  <2> QED
    BY <2>1 DEF EndsPart, IsWord, Words, Openers, Closers, Always, Separators
<1>8. 0 + 0 + 0 = 0
  OBVIOUS
<1> QED
  BY <1>5, <1>6, <1>7, <1>8

(* After a compound command there is no pipeline.                          *)
LEMMA AfterFails ==
  ASSUME NEW p, p.at = "after", NEW t, t \notin Separators, Regular(p, t), NEW item
  PROVE  Step(p, t, item).at = "fail"
<1>1. t = "|"
  BY DEF Regular, ChainPlaces
<1>2. Step(p, t, item) = Fail(p)
  BY <1>1, StepAt DEF InAfter
<1> QED
  BY <1>2, FailKind

(* What a cut leaves behind.                                               *)
CutBehind(q, t) ==
  \/ q.at = "fail"
  \/ /\ Fresh(q) /\ q.at = "start" /\ ~q.have /\ q.chains = 0 /\ q.op = NextOp(t)
     /\ t \in Separators
  \/ Fresh(q) /\ q.at = "after" /\ q.chains = 0

(* A separator, or a newline behind a function's body, ends the chain.     *)
LEMMA CutStep ==
  ASSUME NEW p, Formed(p), p.at = "start" => ~p.have, Outermost(p),
         NEW t \in Separators \cup {"\n"}, Regular(p, t), NEW item
  PROVE  CutBehind(Step(Closed(p), t, item), t)
<1> DEFINE d == Closed(p)
<1>1. /\ d \in Parsers /\ d.at = p.at /\ d.part = p.part /\ d.slice = p.slice /\ d.chains = 0
  BY ClosedKind DEF Formed
<1>2. CASE p.at \in ChainPlaces
  <2>1. t \in Separators
    BY <1>2 DEF Regular
  <2>2. Ended(Step(d, t, item), d, t)
    BY <1>2, <2>1, ChainEnd
  <2> HIDE DEF d
  <2>3. CutBehind(Step(d, t, item), t)
    BY <1>1, <2>1, <2>2 DEF Ended, CutBehind
  <2> QED
    BY <2>3 DEF d
<1>3. CASE p.at = "function"
  <2> HIDE DEF d
  <2>1. t # "\n"
    BY <1>3 DEF Regular
  <2>2. InFunction(d, t) = Fail(d)
    BY <2>1 DEF InFunction, Separators, Words, Openers, Closers, Always
  <2>3. Step(d, t, item) = Fail(d)
    BY <1>1, <1>3, <2>2, StepAt
  <2>4. CutBehind(Step(d, t, item), t)
    BY <2>3, FailKind DEF CutBehind
  <2> QED
    BY <2>4 DEF d
<1>4. CASE p.at = "slice" /\ p.part = "function" /\ Flat(p.slice) /\ p.slice.braces = 0
  <2> HIDE DEF d
  <2>1. ~(t = "\n" /\ (d.slice.target \/ d.slice.content = "nothing"))
    BY <1>1, <1>4 DEF Regular
  <2>2. EndsPart(d, t)
    BY <1>1, <1>4 DEF EndsPart, Separators, IsWord, Words, Openers, Closers, Always
  <2>3. Step(d, t, item) = InSlice(d, t, item)
    BY <1>1, <1>4, StepAt
  <2>4. InSlice(d, t, item) = PartDone(d, t)
    BY <2>1, <2>2 DEF InSlice
  <2>5. PartDone(d, t) \in {Fail(d), InAfter(At(d, "after"), t)}
    BY <1>1, <1>4 DEF PartDone
  <2>6. "after" \in Places
    BY DEF Places, ChainPlaces
  <2> DEFINE a == At(d, "after")
  <2>7. Fresh(a) /\ a.at = "after" /\ a.chains = 0
    BY <1>1, <2>6, AtKind DEF Fresh
  <2> HIDE DEF a
  <2>8. CutBehind(InAfter(a, t), t)
    <3>1. CASE t \in Separators
      <4>1. Ended(InAfter(a, t), a, t)
        BY <2>7, <3>1, InAfterKind DEF Fresh
      <4> QED
        BY <2>7, <3>1, <4>1 DEF Ended, CutBehind
    <3>2. CASE t = "\n"
      <4>1. InAfter(a, t) = a
        BY <3>2 DEF InAfter
      <4> QED
        BY <2>7, <4>1 DEF CutBehind
    <3> QED
      BY <3>1, <3>2
  <2>9. CutBehind(Fail(d), t)
    BY FailKind DEF CutBehind
  <2>10. CutBehind(Step(d, t, item), t)
    BY <2>3, <2>4, <2>5, <2>8, <2>9 DEF a
  <2> QED
    BY <2>10 DEF d
<1> QED
  BY <1>2, <1>3, <1>4 DEF Outermost

-----------------------------------------------------------------------------
(* A parse of one parser, and split_chains beside it.                      *)

(* A sequence of one.                                                      *)
LEMMA Single ==
  ASSUME NEW e
  PROVE  /\ [i \in 1..1 |-> e] \in Seq({e}) /\ Len([i \in 1..1 |-> e]) = 1
         /\ [i \in 1..1 |-> e][1] = e
<1> DEFINE s == [i \in 1..1 |-> e]
<1>1. s \in [1..1 -> {e}] /\ s[1] = e /\ 1 \in Nat /\ DOMAIN s = 1..1
  OBVIOUS
<1>2. s \in Seq({e})
  BY <1>1, SeqDef
<1>3. Len(s) = 1
  <2>1. Len(s) \in Nat /\ DOMAIN s = 1..Len(s)
    BY <1>2, LenProperties
  <2> QED
    BY <1>1, <2>1
<1> QED
  BY <1>1, <1>2, <1>3

(* A parse goes on as one, or as two when a clause could end.              *)
LEMMA ParseOne ==
  ASSUME NEW ps, Len(ps) = 1, NEW t, NEW item
  PROVE  /\ Parse(ps, t, item)[1] = Step(ps[1], t, item)
         /\ \/ Len(Parse(ps, t, item)) = 1
            \/ /\ Len(Parse(ps, t, item)) = 2 /\ ClosesClause(ps[1], t)
               /\ Parse(ps, t, item)[2] = At(ps[1], "after")
<1> DEFINE e == Step(ps[1], t, item)
           s == [i \in 1..1 |-> e]
           f == At(ps[1], "after")
<1>1. [i \in 1..Len(ps) |-> Step(ps[i], t, item)] = s
  <2>1. \A i \in 1..1 : Step(ps[i], t, item) = e
    OBVIOUS
  <2> QED
    BY <2>1
<1>2. Parse(ps, t, item) = IF ClosesClause(ps[1], t) THEN Append(s, f) ELSE s
  BY <1>1 DEF Parse
<1>3. s \in Seq({e}) /\ Len(s) = 1 /\ s[1] = e
  BY Single
<1> HIDE DEF e, f, s
<1>4. s \in Seq({e, f})
  BY <1>3
<1>5. Len(Append(s, f)) = 2 /\ Append(s, f)[1] = e /\ Append(s, f)[2] = f
  <2>1. /\ Len(Append(s, f)) = Len(s) + 1
        /\ \A i \in 1..Len(s) : Append(s, f)[i] = s[i]
        /\ Append(s, f)[Len(s) + 1] = f
    BY <1>4, AppendProperties
  <2>2. Len(s) + 1 = 2 /\ 1 \in 1..Len(s)
    BY <1>3
  <2> QED
    BY <1>3, <2>1, <2>2
<1> QED
  BY <1>2, <1>3, <1>5 DEF e, f

LEMMA CountedOne ==
  ASSUME NEW ps, Len(ps) = 1
  PROVE  Len(Counted(ps)) = 1 /\ Counted(ps)[1] = Closed(ps[1])
<1>1. Counted(ps) = [i \in 1..1 |-> Closed(ps[1])]
  <2>1. \A i \in 1..1 : [ps[i] EXCEPT !.chains = 0] = Closed(ps[1])
    BY DEF Closed
  <2> QED
    BY <2>1 DEF Counted
<1> QED
  BY <1>1, Single

LEMMA FreshOne == Len(FreshParse) = 1 /\ FreshParse[1] = FreshParser
BY DEF FreshParse

(* The depth that split_chains has is that of the parser.                  *)
LEMMA SplitKind ==
  ASSUME NEW s \in Splits, NEW t
  PROVE  /\ Split(s, t) \in Splits
         /\ Opens(s, t) => Split(s, t).depth = s.depth + 1
         /\ ~Opens(s, t) /\ Closes(s, t) /\ s.depth > 0 => Split(s, t).depth = s.depth - 1
         /\ ~Opens(s, t) /\ ~(Closes(s, t) /\ s.depth > 0) => Split(s, t).depth = s.depth
<1> DEFINE d == IF Opens(s, t) THEN s.depth + 1
                ELSE IF Closes(s, t) /\ s.depth > 0 THEN s.depth - 1 ELSE s.depth
           e == t \in Separators \cup {"\n", "|", ";;", "LPAREN", "LBRACE", "FUNC"} \cup Always
<1>1. Split(s, t) = [depth |-> d, expect |-> e]
  BY DEF Split
<1>2. s.depth \in Nat
  BY DEF Splits
<1>3. d \in Nat
  BY <1>2
<1>4. e \in BOOLEAN
  OBVIOUS
<1>5. /\ Opens(s, t) => d = s.depth + 1
      /\ ~Opens(s, t) /\ Closes(s, t) /\ s.depth > 0 => d = s.depth - 1
      /\ ~Opens(s, t) /\ ~(Closes(s, t) /\ s.depth > 0) => d = s.depth
  OBVIOUS
<1> HIDE DEF d, e
<1> QED
  BY <1>1, <1>3, <1>4, <1>5 DEF Splits

(* How a token counts.                                                     *)
LEMMA Counting ==
  ASSUME NEW t
  PROVE  /\ Opens(split, t) => /\ One(t = "LPAREN") + One(t = "LBRACE")
                                    + One(split.expect /\ t \in Openers) = 1
                               /\ One(t = "RPAREN") = 0 /\ One(t = "RBRACE") = 0
                               /\ One(split.expect /\ t \in Closers) = 0
         /\ Closes(split, t) => /\ One(t = "RPAREN") + One(t = "RBRACE")
                                     + One(split.expect /\ t \in Closers) = 1
                                /\ One(t = "LPAREN") = 0 /\ One(t = "LBRACE") = 0
                                /\ One(split.expect /\ t \in Openers) = 0
         /\ ~Opens(split, t) => /\ One(t = "LPAREN") = 0 /\ One(t = "LBRACE") = 0
                                /\ One(split.expect /\ t \in Openers) = 0
         /\ ~Closes(split, t) => /\ One(t = "RPAREN") = 0 /\ One(t = "RBRACE") = 0
                                 /\ One(split.expect /\ t \in Closers) = 0
         /\ ~(Opens(split, t) /\ Closes(split, t))
<1>1. 1 + 0 + 0 = 1 /\ 0 + 1 + 0 = 1 /\ 0 + 0 + 1 = 1
  OBVIOUS
<1>2. t \in Openers => t \notin {"LPAREN", "LBRACE", "RPAREN", "RBRACE"} \cup Closers
  BY DEF Openers, Closers
<1>3. t \in Closers => t \notin {"LPAREN", "LBRACE", "RPAREN", "RBRACE"} \cup Openers
  BY DEF Openers, Closers
<1>4. ~(Opens(split, t) /\ Closes(split, t))
  BY <1>2, <1>3 DEF Opens, Closes
<1>5. Opens(split, t) => /\ One(t = "LPAREN") + One(t = "LBRACE")
                              + One(split.expect /\ t \in Openers) = 1
  BY <1>1, <1>2 DEF Opens, One
<1>6. Closes(split, t) => /\ One(t = "RPAREN") + One(t = "RBRACE")
                              + One(split.expect /\ t \in Closers) = 1
  BY <1>1, <1>3 DEF Closes, One
<1>7. ~Opens(split, t) => /\ One(t = "LPAREN") = 0 /\ One(t = "LBRACE") = 0
                          /\ One(split.expect /\ t \in Openers) = 0
  BY DEF Opens, One
<1>8. ~Closes(split, t) => /\ One(t = "RPAREN") = 0 /\ One(t = "RBRACE") = 0
                           /\ One(split.expect /\ t \in Closers) = 0
  BY DEF Closes, One
<1> QED
  BY <1>4, <1>5, <1>6, <1>7, <1>8

(* So split_chains stays in step.                                          *)
LEMMA DepthKept ==
  ASSUME split \in Splits, NEW p \in Parsers, NEW q \in Parsers, NEW t,
         NEW x \in Nat, NEW y \in Nat, Advance(q, p, t, x, y),
         split.depth = x + Braced(p) + Commands(p)
  PROVE  Split(split, t).depth = y + Braced(q) + Commands(q)
<1> DEFINE d == split.depth
           b == Braced(p)
           c == Commands(p)
           b2 == Braced(q)
           c2 == Commands(q)
           i == One(t = "LPAREN")
           j == One(t = "LBRACE")
           k == One(split.expect /\ t \in Openers)
           l == One(t = "RPAREN")
           m == One(t = "RBRACE")
           n == One(split.expect /\ t \in Closers)
           opens == Opens(split, t)
           closes == Closes(split, t)
           z == Split(split, t).depth
<1>1. /\ d \in Nat /\ b \in Nat /\ c \in Nat /\ b2 \in Nat /\ c2 \in Nat /\ d = x + b + c
  BY CountsKind DEF Splits
<1>2. i \in Nat /\ j \in Nat /\ k \in Nat /\ l \in Nat /\ m \in Nat /\ n \in Nat
  BY OneKind
<1>3. /\ opens => i + j + k = 1 /\ l = 0 /\ m = 0 /\ n = 0
      /\ closes => l + m + n = 1 /\ i = 0 /\ j = 0 /\ k = 0
      /\ ~opens => i = 0 /\ j = 0 /\ k = 0
      /\ ~closes => l = 0 /\ m = 0 /\ n = 0
      /\ ~(opens /\ closes)
  BY Counting
<1>4. /\ opens => z = d + 1
      /\ ~opens /\ closes /\ d > 0 => z = d - 1
      /\ ~opens /\ ~(closes /\ d > 0) => z = d
  BY SplitKind
<1>5. /\ b2 = b + j - m
      /\ \/ y = x + i - l /\ c2 = c + k - n
         \/ y = x - 1 /\ c2 = c /\ closes /\ j = 0 /\ m = 0
  <2>1. split.expect /\ t = "esac" => closes /\ j = 0 /\ m = 0
    BY DEF Closes, Closers, One
  <2> HIDE DEF i, j, k, l, m, n, closes
  <2>2. /\ b2 = b + j - m
        /\ \/ y = x + i - l /\ c2 = c + k - n
           \/ y = x - 1 /\ c2 = c /\ split.expect /\ t = "esac"
    BY DEF Advance, i, j, k, l, m, n
  <2> QED
    BY <2>1, <2>2
<1> HIDE DEF d, b, c, b2, c2, i, j, k, l, m, n, opens, closes, z
<1>6. z = y + b2 + c2
  <2>1. CASE opens
    BY <1>1, <1>2, <1>3, <1>4, <1>5, <2>1
  <2>2. CASE closes
    <3>1. d > 0
      BY <1>1, <1>2, <1>3, <1>5, <2>2
    <3> QED
      BY <1>1, <1>2, <1>3, <1>4, <1>5, <2>2, <3>1
  <2>3. CASE ~opens /\ ~closes
    BY <1>1, <1>2, <1>3, <1>4, <1>5, <2>3
  <2> QED
    BY <2>1, <2>2, <2>3
<1> QED
  BY <1>6 DEF b2, c2, z

-----------------------------------------------------------------------------
(* The whole text: while nothing is odd, the depth of split_chains is what *)
(* the parser has open, so that it cuts where the parser's chains end.     *)

(* Types.                                                                  *)
ReadTyped == lexer \in Lexers /\ segLexer \in Lexers /\ split \in Splits

LEMMA ItemKind ==
  ASSUME NEW item \in Items
  PROVE  item \in AllItems
BY ItemAssumption

LEMMA TypedStep ==
  ASSUME ReadTyped, NEW item \in Items, Read(item)
  PROVE  ReadTyped'
<1>1. item \in AllItems
  BY ItemKind
<1>2. lexer' = Lexed(lexer, item) /\ split' = Split(split, Token(lexer, item))
  BY DEF Read
<1>3. segLexer' \in {FreshLexer, Lexed(segLexer, item)}
  BY DEF Read
<1>4. FreshLexer \in Lexers
  BY DEF FreshLexer, Lexers
<1>5. Lexed(lexer, item) \in Lexers /\ Lexed(segLexer, item) \in Lexers
  BY <1>1, LexedKind DEF ReadTyped
<1>6. Split(split, Token(lexer, item)) \in Splits
  BY SplitKind DEF ReadTyped
<1> QED
  BY <1>2, <1>3, <1>4, <1>5, <1>6 DEF ReadTyped

(* The lexer has at least the parentheses that the parser has.             *)
LEMMA ParensKept ==
  ASSUME NEW l \in Lexers, NEW item \in AllItems, NEW p, NEW q, NEW x \in Nat, NEW y \in Nat,
         Advance(q, p, Token(l, item), x, y), x <= l.parens
  PROVE  y <= Lexed(l, item).parens
<1> DEFINE t == Token(l, item)
           m == Lexed(l, item).parens
           i == One(t = "LPAREN")
           j == One(t = "RPAREN")
<1>1. l.parens \in Nat
  BY DEF Lexers
<1>2. /\ t = "LPAREN" => m = l.parens + 1
      /\ t = "RPAREN" => m \in {l.parens, l.parens - 1}
      /\ t \notin {"LPAREN", "RPAREN"} => m = l.parens
  BY DEF Lexed
<1>3. y = x + i - j \/ (y = x - 1 /\ t = "esac")
  BY DEF Advance
<1>4. /\ t = "LPAREN" => i = 1 /\ j = 0
      /\ t = "RPAREN" => i = 0 /\ j = 1
      /\ t \notin {"LPAREN", "RPAREN"} => i = 0 /\ j = 0
  BY DEF One
<1> HIDE DEF t, m, i, j
<1>5. CASE t = "LPAREN"
  BY <1>1, <1>2, <1>3, <1>4, <1>5 DEF m
<1>6. CASE t = "RPAREN"
  <2>1. y = x - 1 /\ (m = l.parens \/ m = l.parens - 1)
    BY <1>2, <1>3, <1>4, <1>6
  <2>2. y <= m
    BY <1>1, <2>1
  <2> QED
    BY <2>2 DEF m
<1>7. CASE t \notin {"LPAREN", "RPAREN"}
  <2>1. m = l.parens /\ (y = x + 0 - 0 \/ y = x - 1)
    BY <1>2, <1>3, <1>4, <1>7
  <2>2. y <= m
    BY <1>1, <2>1
  <2> QED
    BY <2>2 DEF m
<1> QED
  BY <1>5, <1>6, <1>7

(* The inductive invariant of the whole text.  Its parser has failed or is *)
(* in step with split_chains, and its chain is the one of the last         *)
(* segment, with that operator.                                            *)
WholeAlive(p) ==
  /\ Formed(p) /\ Expected(p, split.expect)
  /\ p.at \in {"command", "target"} => ~lexer.command
  /\ \E x \in Nat : /\ Overs(p, x) /\ x <= lexer.parens
                    /\ split.depth = x + Braced(p) + Commands(p)
  /\ begun => Chained(p) /\ p.at # "start" /\ p.op = segOp
  /\ ~begun => /\ p.chains = 0
               /\ (p.at = "start" /\ ~p.have /\ p.op = segOp) \/ p.at = "after"
WholeInv ==
  ~odd =>
    /\ Len(whole) \in {1, 2}
    /\ whole[1].at = "fail" \/ WholeAlive(whole[1])
    /\ Len(whole) = 2 => begun /\ whole[2].chains = 1 /\ whole[2].op = segOp

(* The tokens of an item, where they matter.                               *)
LEMMA TokenFacts ==
  ASSUME NEW l \in Lexers, NEW item \in AllItems
  PROVE  /\ Token(l, item) \in Tokenised
         /\ item = ")" => \/ Token(l, item) = "RPAREN"
                          \/ Token(l, item) = "glyph" /\ l.parens = 0
         /\ ~l.command => Token(l, item) \notin {"LPAREN", "LBRACE", "FUNC"}
         /\ Token(l, item) = "\n" <=> item = "\n"
<1>1. item = "\n" => item \notin Glyphs
  BY DEF Glyphs
<1>2. item = ")" => item \in Glyphs
  BY DEF Glyphs
<1>3. "\n" \notin Marks \cup {"glyph"}
  BY DEF Marks
<1>4. ~(l.parens > 0) => l.parens = 0
  BY DEF Lexers
<1>5. /\ Token(l, item) \in Tokenised
      /\ item \notin Glyphs => Token(l, item) = item
      /\ item \in Glyphs => Token(l, item) \in Marks \cup {"glyph"}
      /\ Token(l, item) = "LPAREN" <=> item = "(" /\ l.command
      /\ Token(l, item) = "RPAREN" <=> item = ")" /\ l.parens > 0
      /\ Token(l, item) = "LBRACE" <=> item = "{" /\ l.command
      /\ Token(l, item) = "FUNC" <=> item = "f()" /\ l.command
  BY TokenKind
<1>6. item = ")" => Token(l, item) \in {"RPAREN", "glyph"}
  BY DEF Token, Glyphs
<1> QED
  BY <1>1, <1>2, <1>3, <1>4, <1>5, <1>6

(* A cut leaves split_chains where a command may start.                    *)
LEMMA CutSplit ==
  ASSUME split \in Splits, NEW t, Cuts(split, t)
  PROVE  Split(split, t).depth = 0 /\ Split(split, t).expect
<1>1. ~Opens(split, t)
  BY DEF Cuts, Opens, Separators, Openers
<1>2. split.depth = 0 /\ ~(0 > 0)
  BY DEF Cuts
<1>3. Split(split, t).depth = 0
  BY <1>1, <1>2, SplitKind
<1>4. Split(split, t).expect
  BY DEF Split, Cuts
<1> QED
  BY <1>3, <1>4

(* A parser that failed does nothing more.                                 *)
LEMMA FailStays ==
  ASSUME NEW p, p.at = "fail", NEW t, NEW item
  PROVE  Step(p, t, item).at = "fail"
BY StepAt

(* At a cut the whole text's parser is where a chain ends.                 *)
LEMMA WholeCut ==
  ASSUME split \in Splits, lexer \in Lexers, WholeAlive(whole[1]), Len(whole) = 1,
         whole[1].at # "fail",
         NEW item, NEW t, Regular(whole[1], t), Cuts(split, t)
  PROVE  /\ Len(Parse(Counted(whole), t, item)) = 1
         /\ CutBehind(Parse(Counted(whole), t, item)[1], t)
<1> DEFINE p == whole[1]
           r == Parse(Counted(whole), t, item)
<1>1. Len(Counted(whole)) = 1 /\ Counted(whole)[1] = Closed(p)
  BY CountedOne
<1>2. PICK x \in Nat : Overs(p, x) /\ split.depth = x + Braced(p) + Commands(p)
  BY DEF WholeAlive
<1>3. Formed(p) /\ split.depth = 0 /\ t \in Separators \cup {"\n"}
  BY DEF WholeAlive, Cuts
<1>4. Outermost(p)
  BY <1>2, <1>3, DepthZero
<1>5. p.at = "start" => ~p.have
  BY DEF WholeAlive, Chained
<1>6. CutBehind(Step(Closed(p), t, item), t)
  BY <1>3, <1>4, <1>5, CutStep
<1>7. ~ClosesClause(Closed(p), t)
  <2>1. Closed(p).at = p.at /\ Closed(p).part = p.part
    BY <1>3, ClosedKind DEF Formed
  <2>2. p.at = "slice" => p.part = "function"
    BY <1>4 DEF Outermost, ChainPlaces
  <2> QED
    BY <2>1, <2>2 DEF ClosesClause, InClause
<1>8. r[1] = Step(Closed(p), t, item) /\ Len(r) = 1
  <2> DEFINE ps == Counted(whole)
  <2>1. Len(ps) = 1 /\ ps[1] = Closed(p)
    BY <1>1
  <2> HIDE DEF ps
  <2>2. /\ Parse(ps, t, item)[1] = Step(ps[1], t, item)
        /\ Len(Parse(ps, t, item)) = 1 \/ ClosesClause(ps[1], t)
    BY <2>1, ParseOne
  <2> QED
    BY <1>7, <2>1, <2>2 DEF ps
<1> QED
  BY <1>6, <1>8

(* So after a cut the counts are zero.                                     *)
LEMMA BehindForms ==
  ASSUME NEW q, NEW t, CutBehind(q, t), q.at # "fail"
  PROVE  /\ Formed(q) /\ Overs(q, 0) /\ Braced(q) = 0 /\ Commands(q) = 0
         /\ q.chains = 0 /\ q.at \in {"start", "after"}
         /\ q.at = "start" => ~q.have /\ q.op = NextOp(t)
<1>1. /\ Fresh(q) /\ q.at \in {"start", "after"} /\ q.chains = 0
      /\ q.at = "start" => ~q.have /\ q.op = NextOp(t)
  BY DEF CutBehind
<1>2. q.at \in ChainPlaces
  BY <1>1 DEF ChainPlaces
<1> QED
  BY <1>1, <1>2, FreshForms

(* A step keeps the invariant: the parser has failed already, the token is *)
(* a cut, or the parser proceeds.                                          *)
LEMMA WholeStep ==
  ASSUME ReadTyped, WholeInv, NEW item \in Items, Read(item)
  PROVE  WholeInv'
<1> SUFFICES ASSUME ~odd' PROVE WholeInv'
  BY DEF WholeInv
<1> DEFINE t == Token(lexer, item)
           p == whole[1]
<1>1. item \in AllItems /\ lexer \in Lexers /\ split \in Splits
  BY ItemKind DEF ReadTyped
<1>2. /\ lexer' = Lexed(lexer, item) /\ split' = Split(split, t)
      /\ odd' = (odd \/ Odd(whole, t))
      /\ whole' = Parse(IF Cuts(split, t) THEN Counted(whole) ELSE whole, t, item)
      /\ Cuts(split, t) => segOp' = NextOp(t) /\ begun' = FALSE
      /\ ~Cuts(split, t) => segOp' = segOp /\ begun' = (begun \/ item # "\n")
  BY DEF Read
<1>3. ~odd /\ ~Odd(whole, t)
  BY <1>2
<1>4. Regular(p, t) /\ Len(whole) = 1
  <2>1. Regular(p, t) /\ ~(Len(whole) > 1)
    BY <1>3, OddParts
  <2>2. Len(whole) \in {1, 2}
    BY <1>3 DEF WholeInv
  <2> QED
    BY <2>1, <2>2
<1>5. t \in Tokenised /\ (t = "\n" <=> item = "\n")
  BY <1>1, TokenFacts
<1>6. p.at = "fail" \/ WholeAlive(p)
  BY <1>3 DEF WholeInv
<1>7. CASE p.at = "fail"
  <2>1. CASE Cuts(split, t)
    <3> DEFINE ps == Counted(whole)
    <3>1. Len(ps) = 1 /\ ps[1] = Closed(p)
      BY <1>4, CountedOne
    <3>2. Closed(p).at = "fail"
      BY <1>7 DEF Closed
    <3> HIDE DEF ps
    <3>3. Step(ps[1], t, item).at = "fail" /\ ~ClosesClause(ps[1], t)
      BY <3>1, <3>2, FailStays DEF ClosesClause
    <3>4. Parse(ps, t, item)[1].at = "fail" /\ Len(Parse(ps, t, item)) = 1
      BY <3>1, <3>3, ParseOne
    <3>5. whole' = Parse(ps, t, item)
      BY <1>2, <2>1 DEF ps
    <3> QED
      BY <3>4, <3>5 DEF WholeInv
  <2>2. CASE ~Cuts(split, t)
    <3>1. Step(p, t, item).at = "fail" /\ ~ClosesClause(p, t)
      BY <1>7, FailStays DEF ClosesClause
    <3>2. Parse(whole, t, item)[1].at = "fail" /\ Len(Parse(whole, t, item)) = 1
      BY <1>4, <3>1, ParseOne
    <3>3. whole' = Parse(whole, t, item)
      BY <1>2, <2>2
    <3> QED
      BY <3>2, <3>3 DEF WholeInv
  <2> QED
    BY <2>1, <2>2
<1>8. CASE p.at # "fail" /\ Cuts(split, t)
  <2>1. whole' = Parse(Counted(whole), t, item)
    BY <1>2, <1>8
  <2>2. Len(whole') = 1 /\ CutBehind(whole'[1], t)
    BY <1>1, <1>4, <1>6, <1>8, <2>1, WholeCut
  <2>3. PICK q : q = whole'[1]
    OBVIOUS
  <2>4. split'.depth = 0 /\ split'.expect /\ lexer'.parens \in Nat
    <3>1. Lexed(lexer, item) \in Lexers
      BY <1>1, LexedKind
    <3> QED
      BY <1>1, <1>2, <1>8, <3>1, CutSplit DEF Lexers
  <2>5. segOp' = NextOp(t) /\ ~begun'
    BY <1>2, <1>8
  <2>6. CASE q.at = "fail"
    BY <2>2, <2>3, <2>6 DEF WholeInv
  <2>7. CASE q.at # "fail"
    <3>1. /\ Formed(q) /\ Overs(q, 0) /\ Braced(q) = 0 /\ Commands(q) = 0
          /\ q.chains = 0 /\ q.at \in {"start", "after"}
          /\ q.at = "start" => ~q.have /\ q.op = NextOp(t)
      BY <2>2, <2>3, <2>7, BehindForms
    <3>2. Expected(q, split'.expect) /\ q.at \notin {"command", "target"}
      BY <2>4, <3>1 DEF Expected
    <3>3. \E x \in Nat : /\ Overs(q, x) /\ x <= lexer'.parens
                         /\ split'.depth = x + Braced(q) + Commands(q)
      <4>1. 0 \in Nat /\ 0 <= lexer'.parens /\ split'.depth = 0 + Braced(q) + Commands(q)
        BY <2>4, <3>1
      <4> QED
        BY <3>1, <4>1
    <3>4. WholeAlive(whole[1])'
      BY <2>3, <2>5, <3>1, <3>2, <3>3 DEF WholeAlive
    <3> QED
      BY <2>2, <3>4 DEF WholeInv
  <2> QED
    BY <2>6, <2>7
<1>9. CASE p.at # "fail" /\ ~Cuts(split, t)
  <2>1. whole' = Parse(whole, t, item)
    BY <1>2, <1>9
  <2>2. segOp' = segOp /\ begun' = (begun \/ item # "\n")
    BY <1>2, <1>9
  <2>3. PICK q : q = whole'[1]
    OBVIOUS
  <2>4. /\ q = Step(p, t, item)
        /\ Len(whole') = 1 \/ (Len(whole') = 2 /\ ClosesClause(p, t) /\ whole'[2] = At(p, "after"))
    BY <1>4, <2>1, <2>3, ParseOne
  <2>5. /\ WholeAlive(p) /\ Formed(p) /\ Expected(p, split.expect) /\ p \in Parsers
        /\ p.at \in {"command", "target"} => ~lexer.command
    BY <1>6, <1>9 DEF WholeAlive, Formed
  <2>6. PICK x \in Nat : /\ Overs(p, x) /\ x <= lexer.parens
                         /\ split.depth = x + Braced(p) + Commands(p)
    BY <2>5 DEF WholeAlive
  <2>7. p.at \in ChainPlaces => t \notin Separators \cup {"\n"}
    <3>1. p.at \in ChainPlaces => split.depth = 0
      <4>1. 0 + 0 + 0 = 0
        OBVIOUS
      <4> QED
        BY <2>5, <2>6, <4>1, ChainCounts
    <3> QED
      BY <1>9, <3>1 DEF Cuts
  <2>8. ~FunctionEnds(p, t)
    BY <1>4, <1>9, <2>5, <2>6, FunctionEndsKind DEF Cuts
  <2>9. CASE ~begun /\ p.at = "after"
    <3>1. q.at = "fail"
      BY <1>4, <2>4, <2>7, <2>9, AfterFails DEF ChainPlaces
    <3>2. Len(whole') = 1
      BY <2>4, <2>9 DEF ClosesClause
    <3> QED
      BY <2>3, <3>1, <3>2 DEF WholeInv
  <2>10. CASE begun \/ p.at # "after"
    <3>1. Chained(p) /\ p.op = segOp /\ (~begun => p.at = "start")
      <4>1. CASE begun
        BY <2>5, <4>1 DEF WholeAlive
      <4>2. CASE ~begun
        BY <2>5, <2>10, <4>2 DEF WholeAlive, Chained
      <4> QED
        BY <4>1, <4>2
    <3>2. begun'
      BY <1>5, <2>2, <2>7, <3>1 DEF ChainPlaces
    <3>3. Len(whole') = 2 => whole'[2].chains = 1 /\ whole'[2].op = segOp'
      <4>1. SUFFICES ASSUME Len(whole') = 2
                     PROVE  whole'[2].chains = 1 /\ whole'[2].op = segOp'
        OBVIOUS
      <4>2. p.at = "slice" /\ whole'[2] = At(p, "after") /\ "after" \in Places
        BY <2>4, <4>1 DEF ClosesClause, Places, ChainPlaces
      <4>3. At(p, "after").chains = p.chains /\ At(p, "after").op = p.op
        BY <2>5, <4>2, AtKind
      <4>4. p.chains = 1
        BY <3>1, <4>2 DEF Chained
      <4> QED
        BY <2>2, <3>1, <4>2, <4>3, <4>4
    <3>4. Len(whole') \in {1, 2}
      BY <2>4
    <3>5. q.at = "fail" \/ Proceeded(q, p, t, x)
      <4>1. item = ")" => t = "RPAREN" \/ (t = "glyph" /\ x = 0)
        <5>1. item = ")" => t = "RPAREN" \/ (t = "glyph" /\ lexer.parens = 0)
          BY <1>1, TokenFacts
        <5>2. lexer.parens = 0 => x = 0
          BY <2>6
        <5> QED
          BY <5>1, <5>2
      <4>2. p.at \in {"command", "target"} => t \notin {"LPAREN", "LBRACE", "FUNC"}
        BY <1>1, <2>5, TokenFacts
      <4>3. p.at \in ChainPlaces => t \notin Separators
        BY <2>7
      <4> HIDE DEF t, p
      <4>4. Step(p, t, item).at = "fail" \/ Proceeded(Step(p, t, item), p, t, x)
        BY <1>4, <1>5, <1>9, <2>5, <2>6, <2>8, <3>1, <4>1, <4>2, <4>3, Proceed
      <4> QED
        BY <2>4, <4>4
    <3>6. CASE q.at = "fail"
      BY <2>3, <3>2, <3>3, <3>4, <3>6 DEF WholeInv
    <3>7. CASE Proceeded(q, p, t, x)
      <4>1. PICK y \in Nat : Advance(q, p, t, x, y)
        BY <3>7 DEF Proceeded
      <4>2. /\ Formed(q) /\ Chained(q) /\ Awaits(q, t)
            /\ q.op = p.op /\ q.at # "start"
            /\ q.at \in {"command", "target"} =>
                 t \notin Separators \cup Marks \cup Always \cup {"function", "|", "\n", ";;"}
        BY <3>7 DEF Proceeded
      <4>3. y <= lexer'.parens
        <5> HIDE DEF p
        <5>1. y <= Lexed(lexer, item).parens
          BY <1>1, <2>6, <4>1, ParensKept
        <5> QED
          BY <1>2, <5>1
      <4>4. split'.depth = y + Braced(q) + Commands(q)
        <5>1. q \in Parsers
          BY <4>2 DEF Formed
        <5> HIDE DEF p, t
        <5>2. Split(split, t).depth = y + Braced(q) + Commands(q)
          BY <1>1, <2>5, <2>6, <4>1, <5>1, DepthKept
        <5> QED
          BY <1>2, <5>2
      <4>5. Overs(q, y)
        BY <4>1 DEF Advance
      <4>6. q.at \in {"command", "target"} => ~lexer'.command
        <5> SUFFICES ASSUME q.at \in {"command", "target"} PROVE ~lexer'.command
          OBVIOUS
        <5>1. t \notin Separators \cup Marks \cup Always \cup {"function", "|", "\n", ";;"}
          BY <4>2
        <5>2. ~Lexed(lexer, item).command
          BY <5>1 DEF Lexed, Marks
        <5> QED
          BY <1>2, <5>2
      <4>7. \E z \in Nat : /\ Overs(q, z) /\ z <= lexer'.parens
                           /\ split'.depth = z + Braced(q) + Commands(q)
        BY <4>3, <4>4, <4>5
      <4>8. Expected(q, split'.expect) /\ q.op = segOp'
        BY <1>2, <2>2, <3>1, <4>2, AwaitsExpected
      <4>9. WholeAlive(whole[1])'
        <5> HIDE DEF p, t
        <5> QED
          BY <2>3, <3>2, <4>2, <4>6, <4>7, <4>8 DEF WholeAlive
      <4> QED
        BY <3>2, <3>3, <3>4, <4>9 DEF WholeInv
    <3> QED
      BY <3>5, <3>6, <3>7
  <2> QED
    BY <2>9, <2>10
<1> QED
  BY <1>7, <1>8, <1>9

-----------------------------------------------------------------------------
(* The segments.  The parser of a segment knows nothing of what is before  *)
(* it: its lexer may take for a sign what that of the whole text takes for *)
(* a word, so that the depth of split_chains is only bounded by what the   *)
(* parser has open.  It is never deeper, so it cuts wherever a chain ends. *)

(* Both lexers read an item that is no glyph in the same way, and the one  *)
(* of the segment expects a command wherever the other does.               *)
CommandInv == lexer.command => segLexer.command

(* What one lexer takes for a sign that opens something the other does,    *)
(* too.                                                                    *)
LEMMA TokensAgree ==
  ASSUME NEW l \in Lexers, NEW m \in Lexers, l.command => m.command, NEW item \in AllItems
  PROVE  /\ item \notin Glyphs => Token(m, item) = item /\ Token(l, item) = item
         /\ Token(m, item) \in AllItems \ Glyphs <=> item \notin Glyphs
         /\ Token(l, item) = "LPAREN" => Token(m, item) = "LPAREN"
         /\ Token(l, item) = "LBRACE" => Token(m, item) = "LBRACE"
         /\ Token(l, item) = "FUNC" => Token(m, item) = "FUNC"
<1>1. /\ item \notin Glyphs => Token(m, item) = item /\ Token(l, item) = item
      /\ item \in Glyphs => Token(m, item) \in Marks \cup {"glyph"}
      /\ Token(l, item) = "LPAREN" => Token(m, item) = "LPAREN"
      /\ Token(l, item) = "LBRACE" => Token(m, item) = "LBRACE"
      /\ Token(l, item) = "FUNC" => Token(m, item) = "FUNC"
  BY TokenKind
<1>2. \A t \in Marks \cup {"glyph"} : t \notin AllItems
  BY DEF Marks, AllItems, Redirects, NoTarget, Documents, Words, Openers, Closers,
       Always, Glyphs, Separators
<1> QED
  BY <1>1, <1>2

(* Where a lexer expects a command.                                        *)
LEMMA LexedCommand ==
  ASSUME NEW l, NEW item
  PROVE  Lexed(l, item).command <=>
           IF Token(l, item) = "\n" THEN l.command
           ELSE Token(l, item) \in Separators \cup {"|", ";;", "LPAREN", "LBRACE", "FUNC"}
                                     \cup Always \cup {"function"}
<1> DEFINE c == IF Token(l, item) = "\n" THEN l.command
                ELSE Token(l, item) \in Separators \cup {"|", ";;", "LPAREN", "LBRACE", "FUNC"}
                                          \cup Always \cup {"function"}
<1>1. Lexed(l, item).command = c
  BY DEF Lexed
<1> QED
  BY <1>1

(* This is kept.                                                           *)
LEMMA CommandStep ==
  ASSUME ReadTyped, CommandInv, NEW item \in Items, Read(item)
  PROVE  CommandInv'
<1> DEFINE t == Token(lexer, item)
           u == Token(segLexer, item)
<1>1. /\ item \in AllItems /\ lexer \in Lexers /\ segLexer \in Lexers
      /\ lexer.command => segLexer.command
  BY ItemKind DEF ReadTyped, CommandInv
<1>2. lexer' = Lexed(lexer, item) /\ segLexer' \in {FreshLexer, Lexed(segLexer, item)}
  BY DEF Read
<1>3. CASE segLexer' = FreshLexer
  BY <1>3 DEF CommandInv, FreshLexer
<1>4. CASE segLexer' = Lexed(segLexer, item)
  <2> DEFINE After == Separators \cup {"|", ";;", "LPAREN", "LBRACE", "FUNC"}
                        \cup Always \cup {"function"}
  <2>1. /\ lexer'.command <=> IF t = "\n" THEN lexer.command ELSE t \in After
        /\ segLexer'.command <=> IF u = "\n" THEN segLexer.command ELSE u \in After
    BY <1>2, <1>4, LexedCommand
  <2>2. /\ item \notin Glyphs => t = u
        /\ t = "LPAREN" => u = "LPAREN"
        /\ t = "LBRACE" => u = "LBRACE"
        /\ t = "FUNC" => u = "FUNC"
    BY <1>1, TokensAgree
  <2>3. item \in Glyphs => t \in Marks \cup {"glyph"} /\ u \in Marks \cup {"glyph"}
    BY <1>1, TokenKind
  <2>4. \A m \in Marks \cup {"glyph"} : m # "\n"
    BY DEF Marks
  <2>5. \A m \in Marks \cup {"glyph"} : m \in After <=> m \in {"LPAREN", "LBRACE", "FUNC"}
    BY DEF Marks, Separators, Always
  <2> HIDE DEF t, u, After
  <2>6. CASE item \notin Glyphs
    BY <1>1, <2>1, <2>2, <2>6 DEF CommandInv
  <2>7. CASE item \in Glyphs
    BY <2>1, <2>2, <2>3, <2>4, <2>5, <2>7 DEF CommandInv
  <2> QED
    BY <2>6, <2>7
<1> QED
  BY <1>2, <1>3, <1>4

(* A sign counts for split_chains only where both lexers take it for one.  *)
Smaller(m, n) == IF m < n THEN m ELSE n

LEMMA SmallerKind ==
  ASSUME NEW m \in Nat, NEW n \in Nat
  PROVE  /\ Smaller(m, n) \in Nat /\ Smaller(m, n) <= m /\ Smaller(m, n) <= n
         /\ Smaller(m + 1, n + 1) = Smaller(m, n) + 1
         /\ Smaller(m + 1, n) >= Smaller(m, n)
         /\ n > 0 => Smaller(m, n - 1) >= Smaller(m, n) - 1
         /\ m > 0 => Smaller(m - 1, n) >= Smaller(m, n) - 1
         /\ m > 0 /\ n > 0 => Smaller(m - 1, n - 1) = Smaller(m, n) - 1
BY DEF Smaller

Bound(x, l, p) == Smaller(x, l.parens) + Smaller(Braced(p), l.braces) + Commands(p)

(* How a token moves the counts of a lexer.                                *)
LEMMA LexedCounts ==
  ASSUME NEW l \in Lexers, NEW item \in AllItems
  PROVE  LET t == Token(l, item)
             m == Lexed(l, item)
         IN /\ t = "LPAREN" => m.parens = l.parens + 1 /\ m.braces = l.braces
            /\ t = "RPAREN" => /\ l.parens > 0 /\ m.braces = l.braces
                               /\ m.parens = l.parens \/ m.parens = l.parens - 1
            /\ t = "LBRACE" => m.braces = l.braces + 1 /\ m.parens = l.parens
            /\ t = "RBRACE" => /\ l.braces > 0 /\ m.parens = l.parens
                               /\ m.braces = l.braces - 1
            /\ t \notin {"LPAREN", "RPAREN", "LBRACE", "RBRACE"} =>
                 m.parens = l.parens /\ m.braces = l.braces
<1>1. /\ Token(l, item) = "RPAREN" => l.parens > 0
      /\ Token(l, item) = "RBRACE" => l.braces > 0
  BY TokenKind
<1> QED
  BY <1>1 DEF Lexed

(* split_chains is never deeper than the parser of the segment.            *)
LEMMA BoundKept ==
  ASSUME split \in Splits, NEW l \in Lexers, NEW m \in Lexers, l.command => m.command,
         NEW item \in AllItems, NEW p \in Parsers, NEW q \in Parsers,
         NEW x \in Nat, NEW y \in Nat, x <= m.parens,
         Advance(q, p, Token(m, item), x, y),
         split.depth <= Bound(x, l, p)
  PROVE  Split(split, Token(l, item)).depth <= Bound(y, Lexed(l, item), q)
<1> DEFINE t == Token(l, item)
           u == Token(m, item)
           d == split.depth
           P == l.parens
           B == l.braces
           P2 == Lexed(l, item).parens
           B2 == Lexed(l, item).braces
           b == Braced(p)
           c == Commands(p)
           b2 == Braced(q)
           c2 == Commands(q)
           z == Split(split, t).depth
           opens == Opens(split, t)
           closes == Closes(split, t)
           w == Smaller(x, P)
           v == Smaller(b, B)
           w2 == Smaller(y, P2)
           v2 == Smaller(b2, B2)
<1>1. /\ b \in Nat /\ c \in Nat /\ b2 \in Nat /\ c2 \in Nat /\ d \in Nat
      /\ P \in Nat /\ B \in Nat /\ P2 \in Nat /\ B2 \in Nat
  <2>1. Lexed(l, item) \in Lexers
    BY LexedKind
  <2> QED
    BY <2>1, CountsKind DEF Lexers, Splits
<1>2. w \in Nat /\ v \in Nat /\ w2 \in Nat /\ v2 \in Nat
  BY <1>1, SmallerKind
<1>3. d <= w + v + c
  BY DEF Bound
<1>4. /\ opens => z = d + 1
      /\ ~opens /\ closes /\ d > 0 => z = d - 1
      /\ ~opens /\ ~(closes /\ d > 0) => z = d
      /\ ~(opens /\ closes)
  BY SplitKind, Counting
<1>5. z <= w2 + v2 + c2
  <2>1. CASE item \notin Glyphs
    <3> DEFINE k == One(split.expect /\ u \in Openers)
               n == One(split.expect /\ u \in Closers)
    <3>1. t = item /\ u = item /\ u = t
      <4>1. t = item /\ u = item
        BY <2>1, TokenKind
      <4> HIDE DEF t, u
      <4> QED
        BY <4>1
    <3>2. u \notin Marks
      BY <2>1, <3>1 DEF Marks, AllItems, Redirects, NoTarget, Documents, Words,
           Openers, Closers, Always, Glyphs, Separators
    <3>3. /\ One(u = "LPAREN") = 0 /\ One(u = "RPAREN") = 0
          /\ One(u = "LBRACE") = 0 /\ One(u = "RBRACE") = 0
      BY <3>2 DEF One, Marks
    <3>4. P2 = P /\ B2 = B
      BY <3>1, <3>2, LexedCounts DEF Marks
    <3>5. /\ opens => k = 1 /\ n = 0
          /\ closes => n = 1 /\ k = 0
          /\ ~opens /\ ~closes => k = 0 /\ n = 0
      <4>1. /\ opens => t \in Openers /\ split.expect
            /\ closes => t \in Closers /\ split.expect
            /\ split.expect /\ t \in Openers => opens
            /\ split.expect /\ t \in Closers => closes
        BY <3>1, <3>2 DEF Opens, Closes, Marks
      <4> HIDE DEF opens, closes, t, u
      <4> QED
        BY <1>4, <3>1, <4>1 DEF One
    <3>6. /\ b2 = b
          /\ \/ y = x /\ c2 = c + k - n
             \/ y = x - 1 /\ c2 = c /\ closes
      <4>1. split.expect /\ u = "esac" => closes
        BY <3>1 DEF Closes, Closers
      <4>2. /\ b2 = b + 0 - 0
            /\ \/ y = x + 0 - 0 /\ c2 = c + k - n
               \/ y = x - 1 /\ c2 = c /\ split.expect /\ u = "esac"
        BY <3>3 DEF Advance
      <4>3. b + 0 - 0 = b /\ x + 0 - 0 = x
        BY <1>1
      <4> HIDE DEF k, n, u, closes
      <4> QED
        BY <4>1, <4>2, <4>3
    <3>7. v2 = v /\ (y = x => w2 = w)
      BY <3>4, <3>6
    <3>8. y = x - 1 => w2 >= w - 1
      <4>1. y = x - 1 => x > 0
        OBVIOUS
      <4>2. x > 0 => Smaller(x - 1, P) >= Smaller(x, P) - 1
        BY <1>1, SmallerKind
      <4>3. y = x - 1 => Smaller(y, P2) >= Smaller(x, P) - 1
        BY <3>4, <4>1, <4>2
      <4> QED
        BY <4>3
    <3>9. k \in Nat /\ n \in Nat
      BY OneKind
    <3> HIDE DEF t, u, d, P, B, P2, B2, b, c, b2, c2, z, opens, closes, w, v, w2, v2, k, n
    <3>10. CASE opens
      BY <1>1, <1>2, <1>3, <1>4, <3>5, <3>6, <3>7, <3>9, <3>10
    <3>11. CASE closes
      BY <1>1, <1>2, <1>3, <1>4, <3>5, <3>6, <3>7, <3>8, <3>9, <3>11
    <3>12. CASE ~opens /\ ~closes
      BY <1>1, <1>2, <1>3, <1>4, <3>5, <3>6, <3>7, <3>9, <3>12
    <3> QED
      BY <3>10, <3>11, <3>12
  <2>2. CASE item \in Glyphs
    <3>1. t \in Marks \cup {"glyph"} /\ u \in Marks \cup {"glyph"}
      BY <2>2, TokenKind
    <3>2. u \notin Openers /\ u \notin Closers /\ u # "esac" /\ t \notin Openers \cup Closers
      BY <3>1 DEF Marks, Openers, Closers
    <3>3. One(split.expect /\ u \in Openers) = 0 /\ One(split.expect /\ u \in Closers) = 0
      BY <3>2 DEF One
    <3>4. c2 = c
      <4>1. c2 = c + 0 - 0 \/ c2 = c
        BY <3>3 DEF Advance
      <4>2. c + 0 - 0 = c
        BY <1>1
      <4> QED
        BY <4>1, <4>2
    <3> DEFINE i == One(u = "LPAREN")
               j == One(u = "RPAREN")
               k == One(u = "LBRACE")
               n == One(u = "RBRACE")
               i1 == item = "("
               i2 == item = ")"
               i3 == item = "{"
               i4 == item = "}"
               i5 == item = "f()"
    <3>5. y = x + i - j /\ b2 = b + k - n
      BY <3>2 DEF Advance
    <3>6. /\ opens <=> t \in {"LPAREN", "LBRACE"}
          /\ closes <=> t \in {"RPAREN", "RBRACE"}
      BY <3>2 DEF Opens, Closes
    <3>7. /\ t = "LPAREN" => P2 = P + 1 /\ B2 = B
          /\ t = "RPAREN" => P > 0 /\ B2 = B /\ (P2 = P \/ P2 = P - 1)
          /\ t = "LBRACE" => B2 = B + 1 /\ P2 = P
          /\ t = "RBRACE" => B > 0 /\ P2 = P /\ B2 = B - 1
          /\ t \notin {"LPAREN", "RPAREN", "LBRACE", "RBRACE"} => P2 = P /\ B2 = B
      BY LexedCounts
    <3>8. /\ u = "LPAREN" => i = 1 /\ j = 0 /\ k = 0 /\ n = 0
          /\ u = "RPAREN" => i = 0 /\ j = 1 /\ k = 0 /\ n = 0
          /\ u = "LBRACE" => i = 0 /\ j = 0 /\ k = 1 /\ n = 0
          /\ u = "RBRACE" => i = 0 /\ j = 0 /\ k = 0 /\ n = 1
          /\ u \notin {"LPAREN", "RPAREN", "LBRACE", "RBRACE"} =>
               i = 0 /\ j = 0 /\ k = 0 /\ n = 0
      BY DEF One
    <3>9. /\ i1 => t \in {"LPAREN", "glyph"} /\ u \in {"LPAREN", "glyph"}
          /\ i2 => t \in {"RPAREN", "glyph"} /\ u \in {"RPAREN", "glyph"}
          /\ i3 => t \in {"LBRACE", "glyph"} /\ u \in {"LBRACE", "glyph"}
          /\ i4 => t \in {"RBRACE", "glyph"} /\ u \in {"RBRACE", "glyph"}
          /\ i5 => t \in {"FUNC", "glyph"} /\ u \in {"FUNC", "glyph"}
      BY DEF Token, Glyphs
    <3>10. /\ t = "LPAREN" => u = "LPAREN"
           /\ t = "LBRACE" => u = "LBRACE"
      BY TokensAgree
    <3>11. i2 /\ u = "glyph" => x = 0
      <4>1. i2 /\ u = "glyph" => m.parens = 0
        BY TokenFacts DEF u
      <4> QED
        BY <4>1
    <3>12. i2 /\ t = "glyph" => P = 0
      BY TokenFacts DEF t
    <3>13. i4 /\ t = "glyph" => B = 0
      <4>1. Token(l, item) = "RBRACE" <=> item = "}" /\ l.braces > 0
        BY TokenKind
      <4>2. i4 /\ t = "glyph" => ~(B > 0)
        BY <4>1
      <4> HIDE DEF i4, t, B
      <4> QED
        BY <1>1, <4>2
    <3>14. \A a, e \in Nat :
             /\ Smaller(a, e) \in Nat /\ Smaller(a, e) <= a /\ Smaller(a, e) <= e
             /\ Smaller(a + 1, e + 1) = Smaller(a, e) + 1
             /\ Smaller(a + 1, e) >= Smaller(a, e)
             /\ e > 0 => Smaller(a, e - 1) >= Smaller(a, e) - 1
             /\ a > 0 => Smaller(a - 1, e) >= Smaller(a, e) - 1
             /\ a > 0 /\ e > 0 => Smaller(a - 1, e - 1) = Smaller(a, e) - 1
      BY SmallerKind
    <3>15. i1 \/ i2 \/ i3 \/ i4 \/ i5
      BY <2>2 DEF Glyphs
    <3> HIDE DEF t, u, d, P, B, P2, B2, b, c, b2, c2, z, opens, closes, i, j, k, n,
             i1, i2, i3, i4, i5
    <3>16. CASE i1
      <4>1. b2 = b /\ B2 = B
        BY <1>1, <3>5, <3>7, <3>8, <3>9, <3>16
      <4>2. CASE t = "LPAREN"
        <5>1. y = x + 1 /\ P2 = P + 1 /\ z = d + 1
          BY <1>1, <1>4, <3>5, <3>6, <3>7, <3>8, <3>10, <4>2
        <5>2. w2 = w + 1
          BY <1>1, <3>14, <5>1
        <5> QED
          BY <1>1, <1>2, <1>3, <3>4, <4>1, <5>1, <5>2
      <4>3. CASE t = "glyph"
        <5>1. (y = x + 1 \/ y = x) /\ P2 = P /\ z = d
          BY <1>1, <1>4, <3>5, <3>6, <3>7, <3>8, <3>9, <3>16, <4>3
        <5>2. w2 >= w
          <6>1. y = x => w2 = w
            BY <5>1
          <6>2. y = x + 1 => w2 = Smaller(x + 1, P)
            BY <5>1
          <6>3. Smaller(x + 1, P) >= Smaller(x, P)
            BY <1>1, <3>14
          <6> HIDE DEF w2
          <6> QED
            BY <1>2, <5>1, <6>1, <6>2, <6>3
        <5> QED
          BY <1>1, <1>2, <1>3, <3>4, <4>1, <5>1, <5>2
      <4> QED
        BY <3>9, <3>16, <4>2, <4>3
    <3>17. CASE i3
      <4>1. y = x /\ P2 = P
        BY <1>1, <3>5, <3>7, <3>8, <3>9, <3>17
      <4>2. CASE t = "LBRACE"
        <5>1. b2 = b + 1 /\ B2 = B + 1 /\ z = d + 1
          BY <1>1, <1>4, <3>5, <3>6, <3>7, <3>8, <3>10, <4>2
        <5>2. v2 = v + 1
          BY <1>1, <3>14, <5>1
        <5> QED
          BY <1>1, <1>2, <1>3, <3>4, <4>1, <5>1, <5>2
      <4>3. CASE t = "glyph"
        <5>1. (b2 = b + 1 \/ b2 = b) /\ B2 = B /\ z = d
          BY <1>1, <1>4, <3>5, <3>6, <3>7, <3>8, <3>9, <3>17, <4>3
        <5>2. v2 >= v
          <6>1. b2 = b => v2 = v
            BY <5>1
          <6>2. b2 = b + 1 => v2 = Smaller(b + 1, B)
            BY <5>1
          <6>3. Smaller(b + 1, B) >= Smaller(b, B)
            BY <1>1, <3>14
          <6> HIDE DEF v2
          <6> QED
            BY <1>2, <5>1, <6>1, <6>2, <6>3
        <5> QED
          BY <1>1, <1>2, <1>3, <3>4, <4>1, <5>1, <5>2
      <4> QED
        BY <3>9, <3>17, <4>2, <4>3
    <3>18. CASE i2
      <4>1. b2 = b /\ B2 = B /\ ((x > 0 /\ y = x - 1) \/ (y = x /\ x = 0))
        BY <1>1, <3>5, <3>7, <3>8, <3>9, <3>11, <3>18
      <4>2. CASE t = "RPAREN"
        <5>1. /\ P > 0 /\ (P2 = P \/ P2 = P - 1)
              /\ d > 0 => z = d - 1
              /\ ~(d > 0) => z = 0
          BY <1>1, <1>4, <3>6, <3>7, <4>2
        <5>2. w2 >= w - 1
          <6>1. CASE x = 0
            <7>1. w \in Nat /\ w <= 0 /\ w2 \in Nat
              BY <1>1, <1>2, <3>14, <6>1
            <7> HIDE DEF w, w2
            <7> QED
              BY <7>1
          <6>2. CASE x > 0 /\ y = x - 1
            <7>1. /\ Smaller(x - 1, P) >= Smaller(x, P) - 1
                  /\ P > 0 => Smaller(x - 1, P - 1) = Smaller(x, P) - 1
              BY <1>1, <3>14, <6>2
            <7>2. w2 = Smaller(x - 1, P) \/ w2 = Smaller(x - 1, P - 1)
              BY <5>1, <6>2
            <7> HIDE DEF w2
            <7> QED
              BY <1>1, <1>2, <5>1, <7>1, <7>2
          <6> QED
            BY <4>1, <6>1, <6>2
        <5> QED
          BY <1>1, <1>2, <1>3, <3>4, <4>1, <5>1, <5>2
      <4>3. CASE t = "glyph"
        <5>1. P = 0 /\ P2 = P /\ z = d
          BY <1>1, <1>4, <3>6, <3>7, <3>12, <3>18, <4>3
        <5>2. w2 = 0 /\ w = 0
          <6>1. \A a \in Nat : Smaller(a, 0) = 0
            BY DEF Smaller
          <6> QED
            BY <5>1, <6>1
        <5> QED
          BY <1>1, <1>2, <1>3, <3>4, <4>1, <5>1, <5>2
      <4> QED
        BY <3>9, <3>18, <4>2, <4>3
    <3>19. CASE i4
      <4>1. y = x /\ P2 = P /\ (b2 = b - 1 \/ b2 = b)
        BY <1>1, <3>5, <3>7, <3>8, <3>9, <3>19
      <4>2. CASE t = "RBRACE"
        <5>1. /\ B > 0 /\ B2 = B - 1
              /\ d > 0 => z = d - 1
              /\ ~(d > 0) => z = 0
          BY <1>1, <1>4, <3>6, <3>7, <4>2
        <5>2. v2 >= v - 1
          <6>1. CASE b2 = b
            BY <1>1, <1>2, <3>14, <5>1, <6>1
          <6>2. CASE b2 = b - 1
            BY <1>1, <1>2, <3>14, <5>1, <6>2
          <6> QED
            BY <4>1, <6>1, <6>2
        <5> QED
          BY <1>1, <1>2, <1>3, <3>4, <4>1, <5>1, <5>2
      <4>3. CASE t = "glyph"
        <5>1. B = 0 /\ B2 = B /\ z = d
          BY <1>1, <1>4, <3>6, <3>7, <3>13, <3>19, <4>3
        <5>2. v2 = 0 /\ v = 0
          <6>1. \A a \in Nat : Smaller(a, 0) = 0
            BY DEF Smaller
          <6> QED
            BY <1>1, <5>1, <6>1
        <5> QED
          BY <1>1, <1>2, <1>3, <3>4, <4>1, <5>1, <5>2
      <4> QED
        BY <3>9, <3>19, <4>2, <4>3
    <3>20. CASE i5
      <4>1. y = x /\ P2 = P /\ b2 = b /\ B2 = B /\ z = d
        BY <1>1, <1>4, <3>5, <3>6, <3>7, <3>8, <3>9, <3>20
      <4> QED
        BY <1>1, <1>2, <1>3, <3>4, <4>1
    <3> QED
      BY <3>15, <3>16, <3>17, <3>18, <3>19, <3>20
  <2> QED
    BY <2>1, <2>2
<1> QED
  BY <1>5 DEF Bound, z

(* The inductive invariant of a segment: its parser has failed or has at   *)
(* most one chain, and more open than split_chains is deep.                *)
SegmentAlive(p) ==
  /\ Formed(p) /\ Chained(p) /\ Expected(p, split.expect)
  /\ p.at \in {"command", "target"} => ~segLexer.command
  /\ \E x \in Nat : /\ Overs(p, x) /\ x <= segLexer.parens
                    /\ split.depth <= Bound(x, lexer, p)
SegmentInv ==
  ~oddSegment =>
    /\ Len(segment) \in {1, 2}
    /\ segment[1].at = "fail" \/ SegmentAlive(segment[1])
    /\ Len(segment) = 2 => segment[2].chains = 1

(* It holds where a segment begins.                                        *)
LEMMA FreshAlive ==
  ASSUME NEW l \in Lexers, NEW m \in Lexers
  PROVE  /\ Formed(FreshParser) /\ Chained(FreshParser) /\ FreshParser.at = "start"
         /\ Overs(FreshParser, 0) /\ 0 <= m.parens /\ 0 <= Bound(0, l, FreshParser)
<1>1. Fresh(FreshParser) /\ FreshParser.at = "start" /\ Chained(FreshParser)
  BY FreshParserKind DEF Fresh, Chained, FreshParser
<1>2. /\ Formed(FreshParser) /\ Overs(FreshParser, 0)
      /\ Braced(FreshParser) = 0 /\ Commands(FreshParser) = 0
  BY <1>1, FreshForms DEF ChainPlaces
<1>3. Smaller(0, l.parens) \in Nat /\ Smaller(0, l.braces) \in Nat /\ m.parens \in Nat
  BY SmallerKind DEF Lexers
<1>4. \A i, j \in Nat : 0 <= i + j + 0 /\ 0 <= i
  OBVIOUS
<1> QED
  BY <1>1, <1>2, <1>3, <1>4 DEF Bound

(* A step keeps it, a cut by beginning anew.                               *)
LEMMA SegmentStep ==
  ASSUME ReadTyped, CommandInv, SegmentInv, NEW item \in Items, Read(item)
  PROVE  SegmentInv'
<1> SUFFICES ASSUME ~oddSegment' PROVE SegmentInv'
  BY DEF SegmentInv
<1> DEFINE t == Token(lexer, item)
           u == Token(segLexer, item)
           p == segment[1]
<1>1. /\ item \in AllItems /\ lexer \in Lexers /\ segLexer \in Lexers /\ split \in Splits
      /\ lexer.command => segLexer.command
  BY ItemKind DEF ReadTyped, CommandInv
<1>2. lexer' = Lexed(lexer, item) /\ split' = Split(split, t) /\ lexer' \in Lexers
  BY <1>1, LexedKind DEF Read
<1>3. CASE Cuts(split, t)
  <2>1. segLexer' = FreshLexer /\ segment' = FreshParse
    BY <1>3 DEF Read
  <2>2. split'.depth = 0 /\ split'.expect
    BY <1>1, <1>2, <1>3, CutSplit
  <2>3. FreshLexer \in Lexers
    BY DEF FreshLexer, Lexers
  <2>4. Len(segment') = 1 /\ segment'[1] = FreshParser
    BY <2>1, FreshOne
  <2> HIDE DEF t, u, p
  <2>5. PICK q : q = FreshParser
    OBVIOUS
  <2>6. PICK m \in Lexers : m = FreshLexer
    BY <2>3
  <2>7. PICK l \in Lexers : l = lexer'
    BY <1>2
  <2>8. /\ Formed(q) /\ Chained(q) /\ q.at = "start"
        /\ Overs(q, 0) /\ 0 <= m.parens /\ 0 <= Bound(0, l, q)
    BY <2>5, FreshAlive
  <2>9. Expected(q, split'.expect) /\ q.at \notin {"command", "target"}
    BY <2>2, <2>8 DEF Expected
  <2>10. \E x \in Nat : /\ Overs(q, x) /\ x <= segLexer'.parens
                        /\ split'.depth <= Bound(x, lexer', q)
    <3>1. 0 \in Nat /\ Overs(q, 0) /\ 0 <= segLexer'.parens
      BY <2>1, <2>6, <2>8
    <3>2. split'.depth <= Bound(0, lexer', q)
      BY <2>2, <2>7, <2>8
    <3> QED
      BY <3>1, <3>2
  <2>11. SegmentAlive(segment[1])'
    <3>1. q = segment'[1]
      BY <2>4, <2>5
    <3> QED
      BY <2>8, <2>9, <2>10, <3>1 DEF SegmentAlive, Bound
  <2> QED
    BY <2>4, <2>11 DEF SegmentInv
<1>4. CASE ~Cuts(split, t)
  <2>1. /\ segLexer' = Lexed(segLexer, item)
        /\ oddSegment' = (oddSegment \/ Odd(segment, u))
        /\ segment' = Parse(segment, u, item)
    BY <1>4 DEF Read
  <2>2. ~oddSegment /\ Regular(p, u) /\ Len(segment) = 1
    <3>1. ~oddSegment /\ ~Odd(segment, u)
      BY <2>1
    <3>2. Regular(p, u) /\ ~(Len(segment) > 1)
      BY <3>1, OddParts
    <3>3. Len(segment) \in {1, 2}
      BY <3>1 DEF SegmentInv
    <3> QED
      BY <3>1, <3>2, <3>3
  <2>3. PICK q : q = segment'[1]
    OBVIOUS
  <2>4. /\ q = Step(p, u, item)
        /\ \/ Len(segment') = 1
           \/ /\ Len(segment') = 2 /\ ClosesClause(p, u)
              /\ segment'[2] = At(p, "after")
    BY <2>1, <2>2, <2>3, ParseOne
  <2>5. p.at = "fail" \/ SegmentAlive(p)
    BY <2>2 DEF SegmentInv
  <2>6. CASE p.at = "fail"
    <3>1. q.at = "fail" /\ ~ClosesClause(p, u)
      BY <2>4, <2>6, FailStays DEF ClosesClause
    <3> QED
      BY <2>3, <2>4, <3>1 DEF SegmentInv
  <2>7. CASE p.at # "fail"
    <3>1. /\ Formed(p) /\ Chained(p) /\ Expected(p, split.expect) /\ p \in Parsers
          /\ p.at \in {"command", "target"} => ~segLexer.command
      BY <2>5, <2>7 DEF SegmentAlive, Formed
    <3>2. PICK x \in Nat : /\ Overs(p, x) /\ x <= segLexer.parens
                           /\ split.depth <= Bound(x, lexer, p)
      BY <2>5, <2>7 DEF SegmentAlive
    <3>3. /\ u \in Tokenised
          /\ item = ")" => u = "RPAREN" \/ (u = "glyph" /\ segLexer.parens = 0)
          /\ ~segLexer.command => u \notin {"LPAREN", "LBRACE", "FUNC"}
      BY <1>1, TokenFacts
    <3>4. u \in AllItems \ Glyphs => t = u
      BY <1>1, TokensAgree
    <3>5. x = 0 /\ Braced(p) = 0 /\ Commands(p) = 0 => u \notin Separators \cup {"\n"}
      <4> SUFFICES ASSUME x = 0, Braced(p) = 0, Commands(p) = 0, u \in Separators \cup {"\n"}
                   PROVE  FALSE
        OBVIOUS
      <4>1. u \in AllItems \ Glyphs
        BY DEF AllItems, Redirects, NoTarget, Documents, Glyphs, Separators
      <4>2. split.depth <= Smaller(0, lexer.parens) + Smaller(0, lexer.braces) + 0
        BY <3>2 DEF Bound
      <4>3. Smaller(0, lexer.parens) = 0 /\ Smaller(0, lexer.braces) = 0
        <5>1. lexer.parens \in Nat /\ lexer.braces \in Nat
          BY <1>1 DEF Lexers
        <5> QED
          BY <5>1 DEF Smaller
      <4>4. split.depth = 0
        <5>1. split.depth \in Nat
          BY <1>1 DEF Splits
        <5>2. split.depth <= 0 + 0 + 0
          BY <4>2, <4>3
        <5> QED
          BY <5>1, <5>2
      <4> QED
        BY <1>4, <3>4, <4>1, <4>4 DEF Cuts
    <3>6. p.at \in ChainPlaces => u \notin Separators
      BY <3>1, <3>2, <3>5, ChainCounts
    <3>7. ~FunctionEnds(p, u)
      <4> SUFFICES ASSUME FunctionEnds(p, u) PROVE FALSE
        OBVIOUS
      <4>1. u \in Separators \cup {"\n"} /\ x + Braced(p) + Commands(p) = 0
        BY <2>2, <3>1, <3>2, FunctionEndsKind
      <4>2. Braced(p) \in Nat /\ Commands(p) \in Nat
        BY <3>1, CountsKind
      <4>3. \A i, j, k \in Nat : i + j + k = 0 => i = 0 /\ j = 0 /\ k = 0
        OBVIOUS
      <4>4. x = 0 /\ Braced(p) = 0 /\ Commands(p) = 0
        BY <4>1, <4>2, <4>3
      <4> QED
        BY <3>5, <4>1, <4>4
    <3>8. q.at = "fail" \/ Proceeded(q, p, u, x)
      <4>1. item = ")" => u = "RPAREN" \/ (u = "glyph" /\ x = 0)
        <5>1. segLexer.parens = 0 => x = 0
          BY <3>2
        <5> QED
          BY <3>3, <5>1
      <4>2. p.at \in {"command", "target"} => u \notin {"LPAREN", "LBRACE", "FUNC"}
        BY <3>1, <3>3
      <4> HIDE DEF t, u, p
      <4>3. Step(p, u, item).at = "fail" \/ Proceeded(Step(p, u, item), p, u, x)
        BY <2>2, <2>7, <3>1, <3>2, <3>3, <3>6, <3>7, <4>1, <4>2, Proceed
      <4> QED
        BY <2>4, <4>3
    <3>9. Len(segment') = 2 => segment'[2].chains = 1
      <4> SUFFICES ASSUME Len(segment') = 2 PROVE segment'[2].chains = 1
        OBVIOUS
      <4>1. p.at = "slice" /\ segment'[2] = At(p, "after") /\ "after" \in Places
        BY <2>4 DEF ClosesClause, Places, ChainPlaces
      <4>2. At(p, "after").chains = p.chains
        BY <3>1, <4>1, AtKind
      <4> QED
        BY <3>1, <4>1, <4>2 DEF Chained
    <3>10. Len(segment') \in {1, 2}
      BY <2>4
    <3>11. CASE q.at = "fail"
      BY <2>3, <3>9, <3>10, <3>11 DEF SegmentInv
    <3>12. CASE Proceeded(q, p, u, x)
      <4>1. PICK y \in Nat : Advance(q, p, u, x, y)
        BY <3>12 DEF Proceeded
      <4>2. /\ Formed(q) /\ Chained(q) /\ Awaits(q, u) /\ q \in Parsers
            /\ q.at \in {"command", "target"} =>
                 u \notin Separators \cup Marks \cup Always \cup {"function", "|", "\n", ";;"}
        BY <3>12 DEF Proceeded, Formed
      <4>3. y <= segLexer'.parens
        <5> HIDE DEF p
        <5>1. y <= Lexed(segLexer, item).parens
          BY <1>1, <3>2, <4>1, ParensKept
        <5> QED
          BY <2>1, <5>1
      <4>4. split'.depth <= Bound(y, lexer', q)
        <5> HIDE DEF p
        <5>1. Split(split, t).depth <= Bound(y, Lexed(lexer, item), q)
          BY <1>1, <3>1, <3>2, <4>1, <4>2, BoundKept
        <5> HIDE DEF t
        <5> QED
          BY <1>2, <5>1
      <4>5. Overs(q, y)
        BY <4>1 DEF Advance
      <4>6. q.at \in {"command", "target"} => ~segLexer'.command
        <5> SUFFICES ASSUME q.at \in {"command", "target"} PROVE ~segLexer'.command
          OBVIOUS
        <5>1. u \notin Separators \cup Marks \cup Always \cup {"function", "|", "\n", ";;"}
          BY <4>2
        <5>2. ~Lexed(segLexer, item).command
          BY <5>1, LexedCommand DEF Marks
        <5> QED
          BY <2>1, <5>2
      <4>7. Expected(q, split'.expect)
        <5> HIDE DEF t, u
        <5> SUFFICES ASSUME q.at \in {"start", "stage", "case"} PROVE split'.expect
          BY DEF Expected
        <5>1. u \in Separators \cup {"|", ";;", "in", "\n"}
          BY <4>2 DEF Awaits
        <5>2. u \in AllItems \ Glyphs
          BY <5>1 DEF AllItems, Redirects, NoTarget, Documents, Glyphs, Separators,
               Words, Always
        <5>3. u = t
          BY <3>4, <5>2
        <5>4. Split(split, t).expect
          BY <5>1, <5>3 DEF Split, Always
        <5> QED
          BY <1>2, <5>4
      <4>8. SegmentAlive(segment[1])'
        <5>1. \E z \in Nat : /\ Overs(q, z) /\ z <= segLexer'.parens
                             /\ split'.depth <= Bound(z, lexer', q)
          BY <4>3, <4>4, <4>5
        <5> HIDE DEF t, u, p
        <5> QED
          BY <2>3, <4>2, <4>6, <4>7, <5>1 DEF SegmentAlive, Bound
      <4> QED
        BY <3>9, <3>10, <4>8 DEF SegmentInv
    <3> QED
      BY <3>8, <3>11, <3>12
  <2> QED
    BY <2>6, <2>7
<1> QED
  BY <1>3, <1>4

(* What the invariants say of a text.                                      *)
LEMMA SegmentKept ==
  ASSUME SegmentInv
  PROVE  NothingDropped
<1> SUFFICES ASSUME Accepts(Parsed(segment)), ~oddSegment
             PROVE  Parsed(segment).chains <= 1
  BY DEF NothingDropped
<1>1. /\ Len(segment) \in {1, 2}
      /\ segment[1].at = "fail" \/ SegmentAlive(segment[1])
      /\ Len(segment) = 2 => segment[2].chains = 1
  BY DEF SegmentInv
<1>2. 0 <= 1 /\ 1 <= 1
  OBVIOUS
<1>3. \/ Parsed(segment) = segment[1] /\ Accepts(segment[1])
      \/ Parsed(segment) = segment[2] /\ Len(segment) = 2
  BY <1>1 DEF Parsed
<1>4. segment[1].at = "fail" => ~Accepts(segment[1])
  BY DEF Accepts
<1>5. SegmentAlive(segment[1]) => segment[1].chains \in {0, 1}
  BY DEF SegmentAlive, Chained, One
<1> QED
  BY <1>1, <1>2, <1>3, <1>4, <1>5

(* Where the whole text's parser accepts, it has the chain of the last     *)
(* segment.                                                                *)
LEMMA WholeKept ==
  ASSUME WholeInv
  PROVE  SameChains
<1> DEFINE p == Parsed(whole)
<1> SUFFICES ASSUME ~odd, Accepts(p), p.at \notin {"start", "stage"}
             PROVE  IF begun THEN p.chains = 1 /\ p.op = segOp ELSE p.chains = 0
  BY DEF SameChains
<1>1. /\ Len(whole) \in {1, 2}
      /\ whole[1].at = "fail" \/ WholeAlive(whole[1])
      /\ Len(whole) = 2 => begun /\ whole[2].chains = 1 /\ whole[2].op = segOp
  BY DEF WholeInv
<1>2. \/ p = whole[1] /\ Accepts(whole[1])
      \/ p = whole[2] /\ Len(whole) = 2
  BY <1>1 DEF Parsed
<1>3. whole[1].at = "fail" => ~Accepts(whole[1])
  BY DEF Accepts
<1>4. CASE p = whole[2] /\ Len(whole) = 2
  BY <1>1, <1>4
<1>5. CASE p = whole[1] /\ Accepts(whole[1])
  <2>1. WholeAlive(p)
    BY <1>1, <1>3, <1>5
  <2>2. p.at \notin {"start", "stage"} /\ (begun => Chained(p) /\ p.op = segOp)
        /\ (~begun => p.chains = 0)
    BY <2>1 DEF WholeAlive
  <2> HIDE DEF p
  <2> QED
    BY <2>2 DEF Chained
<1> QED
  BY <1>2, <1>4, <1>5

-----------------------------------------------------------------------------
(* The gate.  Until it sees something that needs state, the parser reads   *)
(* simple commands only, and the two lexers agree.                         *)

(* The gate, at the tokens that matter.                                    *)
LEMMA GateTypes ==
  ASSUME NEW g \in Gates, NEW t
  PROVE  Gate(g, t) \in Gates
<1>1. /\ g \in Gates
      /\ [g EXCEPT !.at = "first"] \in Gates /\ [g EXCEPT !.at = "target"] \in Gates
      /\ [g EXCEPT !.at = "skip"] \in Gates /\ [g EXCEPT !.at = AfterTimeout] \in Gates
      /\ [g EXCEPT !.needs = TRUE] \in Gates
  BY DEF Gates, AfterTimeout
<1> QED
  BY <1>1 DEF Gate

LEMMA GateKind ==
  ASSUME NEW g \in Gates, ~g.needs, NEW t
  PROVE  /\ t = "|" => Gate(g, t).at = "first"
         /\ g.at = "first" /\ t \in Heads => Gate(g, t).needs
         /\ g.at = "first" /\ t = "set" => Gate(g, t).needs
         /\ g.at = "first" /\ t = "timeout" => Gate(g, t).at = "duration"
         /\ g.at \in {"first", "target"} /\ t \in Redirects => Gate(g, t).at = "target"
         /\ g.at = "duration" /\ t # "\n" => Gate(g, t).at = "first"
         /\ g.at = "target" /\ IsWord(t) => Gate(g, t).at = "first"
<1>1. t = "|" => Gate(g, t).at = "first"
  BY DEF Gate, Gates
<1>2. g.at = "first" /\ t \in Heads => Gate(g, t).needs
  <2>1. CASE t \in {"LPAREN", "LBRACE", "FUNC"} /\ g.at = "first"
    <3>1. Gate(g, t) = [g EXCEPT !.needs = TRUE]
      BY <2>1 DEF Gate
    <3> QED
      BY <3>1 DEF Gates
  <2>2. CASE t \in Openers \cup {"function"} /\ g.at = "first"
    <3>1. /\ t \notin {"LPAREN", "LBRACE", "FUNC", "\n", "|", "timeout"}
          /\ t \notin Redirects
      BY <2>2, WordTokens DEF IsWord, Words, Openers, Marks
    <3>2. Gate(g, t) = [g EXCEPT !.needs = TRUE]
      BY <2>2, <3>1 DEF Gate
    <3> QED
      BY <3>2 DEF Gates
  <2> QED
    BY <2>1, <2>2 DEF Heads
<1>3. g.at = "first" /\ t = "set" => Gate(g, t).needs
  <2>1. t = "set" => t \notin Redirects
    BY RedirectTokens DEF Words
  <2> QED
    BY <2>1 DEF Gate, Gates, Openers
<1>4. g.at = "first" /\ t = "timeout" => Gate(g, t).at = "duration"
  <2>1. t = "timeout" => t \notin Redirects
    BY RedirectTokens DEF Words
  <2> QED
    BY <2>1 DEF Gate, Gates, Openers, AfterTimeout
<1>5. g.at \in {"first", "target"} /\ t \in Redirects => Gate(g, t).at = "target"
  BY RedirectTokens DEF Gate, Gates, Marks
<1>6. g.at = "duration" /\ t # "\n" => Gate(g, t).at = "first"
  BY DEF Gate, Gates
<1>7. g.at = "target" /\ IsWord(t) => Gate(g, t).at = "first"
  <2>1. IsWord(t) => t \notin {"LPAREN", "LBRACE", "FUNC", "\n", "|"} \cup Redirects
    BY WordTokens DEF Marks
  <2> QED
    BY <2>1 DEF Gate, Gates
<1> QED
  BY <1>1, <1>2, <1>3, <1>4, <1>5, <1>6, <1>7

(* The parser reads a simple command that needs no state, and the gate is  *)
(* where the parser is.                                                    *)
Quiet(q, g) ==
  /\ Fresh(q) /\ q.at \in {"start", "stage", "command", "target"} /\ ~q.stateful
  /\ q.at \in {"start", "stage"} => g.at = "first"
  /\ q.at = "command" /\ q.first \in {"first", "duration"} => g.at = q.first
  /\ q.at = "target" => q.first # "duration" /\ (q.first = "first" => g.at = "target")

(* A token of a simple command keeps parser and gate together, or the gate *)
(* sees it.                                                                *)
LEMMA QuietCommand ==
  ASSUME NEW p, Fresh(p), ~p.stateful, NEW g \in Gates, ~g.needs,
         p.first \in {"first", "duration"} => g.at = p.first,
         NEW t, t \in {"|", "$v"} \cup Redirects \/ IsWord(t),
         t \in Redirects => p.first # "duration",
         t \in NoTarget => p.first # "first", ~Gate(g, t).needs
  PROVE  /\ Quiet(InCommand(p, t), Gate(g, t)) /\ InCommand(p, t).at # "start"
         /\ InCommand(p, t).at = "stage" <=> t = "|"
<1>1. p \in Parsers /\ p.first \in {"none", "first", "duration"}
  BY DEF Fresh, Parsers
<1>2. \A at \in Places :
        /\ Fresh(At(p, at)) /\ At(p, at).at = at /\ At(p, at).first = p.first
        /\ At(p, at).stateful = p.stateful
  BY <1>1, AtKind DEF Fresh
<1>3. {"stage", "target", "command"} \subseteq Places
  BY DEF Places, ChainPlaces
<1>4. CASE t = "|"
  <2>1. InCommand(p, t) = At(p, "stage")
    BY <1>4, SignKind
  <2>2. Gate(g, t).at = "first"
    BY <1>4, GateKind
  <2> QED
    BY <1>2, <1>3, <1>4, <2>1, <2>2 DEF Quiet
<1>5. CASE t \in Redirects
  <2>1. PICK at \in {"target", "command"} :
          InCommand(p, t) = At(p, at) /\ (at = "command" => t \in NoTarget)
    BY <1>5, RedirectKind DEF Redirects
  <2>2. g.at \in {"first", "target"} => Gate(g, t).at = "target"
    BY <1>5, GateKind
  <2>3. t # "|"
    BY <1>5, RedirectTokens
  <2> QED
    BY <1>1, <1>2, <1>3, <1>5, <2>1, <2>2, <2>3 DEF Quiet
<1>6. CASE t = "$v" \/ IsWord(t)
  <2> DEFINE w == Word(p, t)
  <2>1. t \notin {"\n", "|", "FUNC"} \cup Redirects
    BY <1>6, WordTokens DEF Marks
  <2>2. InCommand(p, t) = w
    BY <1>6, <2>1 DEF InCommand, Redirects
  <2>3. /\ Fresh(w) /\ w.at = "command"
        /\ w.stateful <=> (p.stateful \/ (p.first = "first" /\ t = "set"))
        /\ w.first = IF p.first = "duration" THEN "first"
                     ELSE IF p.first = "first" /\ t = "timeout" THEN "duration"
                     ELSE "none"
    BY <1>1, WordKind
  <2>4. /\ g.at = "first" /\ t = "set" => Gate(g, t).needs
        /\ g.at = "first" /\ t = "timeout" => Gate(g, t).at = "duration"
        /\ g.at = "duration" => Gate(g, t).at = "first"
    BY <2>1, GateKind
  <2> HIDE DEF w
  <2> QED
    BY <2>1, <2>2, <2>3, <2>4 DEF Quiet
<1> QED
  BY <1>4, <1>5, <1>6

(* The token after a redirect's sign: neither takes it for a command.      *)
LEMMA QuietTarget ==
  ASSUME NEW p, Fresh(p), ~p.stateful, NEW g \in Gates, ~g.needs,
         p.first # "duration", p.first = "first" => g.at = "target",
         NEW t, t \in {"|", "$v"} \cup Redirects \/ IsWord(t),
         t \in NoTarget => p.first # "first", ~Gate(g, t).needs
  PROVE  /\ Quiet(InTarget(p, t), Gate(g, t)) /\ InTarget(p, t).at # "start"
         /\ InTarget(p, t).at = "stage" <=> t = "|"
<1> DEFINE c == At(p, "command")
<1>1. "command" \in Places /\ "stage" \in Places /\ "target" \in Places
  BY DEF Places, ChainPlaces
<1>2. /\ Fresh(c) /\ c \in Parsers /\ c.at = "command" /\ c.first = p.first
      /\ c.stateful = p.stateful
  BY <1>1, AtKind DEF Fresh
<1>3. p.first \in {"none", "first"}
  BY DEF Fresh, Parsers
<1>4. CASE IsWord(t)
  <2>1. t \notin {"\n", "|", "FUNC"}
    BY <1>4, WordTokens DEF Marks
  <2>2. InTarget(p, t) = c
    BY <1>4, <2>1 DEF InTarget
  <2>3. g.at = "target" => Gate(g, t).at = "first"
    BY <1>4, GateKind
  <2> HIDE DEF c
  <2> QED
    BY <1>2, <1>3, <2>1, <2>2, <2>3 DEF Quiet
<1>5. CASE t \in {"|", "$v"} \cup Redirects
  <2>1. ~IsWord(t) /\ t \notin {"\n", "FUNC"}
    BY <1>5, RedirectTokens DEF IsWord, Words, Openers, Closers, Always, Marks
  <2>2. InTarget(p, t) = InCommand(c, t)
    BY <2>1 DEF InTarget
  <2> HIDE DEF c
  <2>3. \A at \in Places :
          /\ Fresh(At(c, at)) /\ At(c, at).at = at /\ At(c, at).first = p.first
          /\ At(c, at).stateful = p.stateful
    BY <1>2, AtKind DEF Fresh
  <2>4. CASE t = "|"
    <3>1. InCommand(c, t) = At(c, "stage")
      BY <2>4, SignKind
    <3>2. Gate(g, t).at = "first"
      BY <2>4, GateKind
    <3> QED
      BY <1>1, <2>2, <2>3, <2>4, <3>1, <3>2 DEF Quiet
  <2>5. CASE t \in Redirects
    <3>1. PICK at \in {"target", "command"} :
            InCommand(c, t) = At(c, at) /\ (at = "command" => t \in NoTarget)
      BY <2>5, RedirectKind DEF Redirects
    <3>2. g.at \in {"first", "target"} => Gate(g, t).at = "target"
      BY <2>5, GateKind
    <3>3. t # "|"
      BY <2>5, RedirectTokens
    <3> QED
      BY <1>1, <1>2, <1>3, <2>2, <2>3, <2>5, <3>1, <3>2, <3>3 DEF Quiet
  <2>6. CASE t = "$v"
    <3>1. InCommand(c, t) = Word(c, t)
      BY <2>6 DEF InCommand, IsWord, Words, Openers, Closers, Always
    <3>2. /\ Fresh(Word(c, t)) /\ Word(c, t).at = "command"
          /\ Word(c, t).stateful <=> (c.stateful \/ (c.first = "first" /\ t = "set"))
          /\ Word(c, t).first = IF c.first = "duration" THEN "first"
                                ELSE IF c.first = "first" /\ t = "timeout" THEN "duration"
                                ELSE "none"
      BY <1>2, WordKind
    <3>3. ~Word(c, t).stateful /\ Word(c, t).first = "none"
      BY <1>2, <1>3, <2>6, <3>2
    <3> QED
      BY <2>2, <2>6, <3>1, <3>2, <3>3 DEF Quiet
  <2> QED
    BY <1>5, <2>4, <2>5, <2>6
<1> QED
  BY <1>4, <1>5

(* The first token of a stage: the gate sees what begins a compound        *)
(* command or needs state.                                                 *)
LEMMA QuietStage ==
  ASSUME NEW p, Fresh(p), p.at = "stage", ~p.stateful,
         NEW g \in Gates, ~g.needs, g.at = "first",
         NEW t \in Tokenised \ (Separators \cup {"\n", ";;", "RPAREN", "RBRACE"}),
         t \notin NoTarget, ~Gate(g, t).needs
  PROVE  \/ InStage(p, t).at = "fail" /\ ~InStage(p, t).stateful
         \/ /\ Quiet(InStage(p, t), Gate(g, t)) /\ InStage(p, t).at # "start"
            /\ InStage(p, t).at = "stage" <=> t = "|"
            /\ t \in Simple \cup {"|"}
<1>1. p \in Parsers
  BY DEF Fresh
<1>2. CASE t = "|"
  <2>1. InStage(p, t) = p
    BY <1>2 DEF InStage, Openers, Closers, Always, Separators
  <2>2. Gate(g, t).at = "first"
    BY <1>2, GateKind
  <2> QED
    BY <1>2, <2>1, <2>2 DEF Quiet
<1>3. CASE t \in Heads
  BY <1>3, GateKind
<1>4. CASE t \in Closers \cup Always
  <2>1. InStage(p, t) = Fail(p)
    BY <1>4 DEF InStage, Openers, Closers, Always, Separators
  <2> QED
    BY <2>1, FailKind
<1>5. CASE t \in Simple
  <2> DEFINE q == IF p.have THEN p ELSE Command(p)
             c == [q EXCEPT !.first = "first"]
  <2>1. /\ q \in Parsers /\ q.part = NoPart /\ q.slice = FreshSlice /\ ~q.stateful
    BY CommandKind DEF Fresh
  <2>2. InStage(p, t) = InCommand(c, t)
    BY <1>5, SimpleTokens DEF InStage, Marks
  <2> HIDE DEF q
  <2>3. Fresh(c) /\ c.first = "first" /\ ~c.stateful
    BY <2>1 DEF Fresh, Parsers
  <2> HIDE DEF c
  <2>4. t \in {"|", "$v"} \cup Redirects \/ IsWord(t)
    BY <1>5 DEF Simple, IsWord, Words
  <2>5. /\ Quiet(InCommand(c, t), Gate(g, t)) /\ InCommand(c, t).at # "start"
        /\ InCommand(c, t).at = "stage" <=> t = "|"
    BY <2>3, <2>4, QuietCommand
  <2> QED
    BY <1>5, <2>2, <2>5
<1>6. \/ t = "|" \/ t \in Heads \/ t \in Closers \cup Always \/ t \in Simple
  BY DEF Heads, Simple, Tokenised, AllItems, Redirects, NoTarget, Documents, Words,
       Glyphs, Marks
<1> QED
  BY <1>2, <1>3, <1>4, <1>5, <1>6

LEMMA QuietStart ==
  ASSUME NEW p, Fresh(p), p.at = "start", ~p.stateful,
         NEW g \in Gates, ~g.needs, g.at = "first",
         NEW t \in Tokenised \ (Separators \cup {"\n", ";;", "RPAREN", "RBRACE"}),
         t \notin NoTarget, ~Gate(g, t).needs
  PROVE  \/ InStart(p, t).at = "fail" /\ ~InStart(p, t).stateful
         \/ /\ Quiet(InStart(p, t), Gate(g, t)) /\ InStart(p, t).at # "start"
            /\ InStart(p, t).at = "stage" <=> t = "|"
            /\ t \in Simple \cup {"|"}
<1> DEFINE q == [p EXCEPT !.at = "stage"]
<1>1. t \notin {"\n", ";", ";;", "&&", "||"}
  BY DEF Separators
<1>2. InStart(p, t) = InStage(q, t)
  BY <1>1 DEF InStart
<1>3. Fresh(q) /\ q.at = "stage" /\ ~q.stateful
  BY DEF Fresh, Parsers, Places, ChainPlaces
<1> HIDE DEF q
<1>4. \/ InStage(q, t).at = "fail" /\ ~InStage(q, t).stateful
      \/ /\ Quiet(InStage(q, t), Gate(g, t)) /\ InStage(q, t).at # "start"
         /\ InStage(q, t).at = "stage" <=> t = "|"
         /\ t \in Simple \cup {"|"}
  BY <1>3, QuietStage
<1> QED
  BY <1>2, <1>4

(* Whether a lexer is in the patterns of a case.                           *)
LEMMA LexedPattern ==
  ASSUME NEW l, NEW item
  PROVE  Lexed(l, item).pattern <=>
           \/ l.pattern /\ Token(l, item) # "RPAREN"
           \/ l.command /\ Token(l, item) = "case"
<1> DEFINE c == \/ l.pattern /\ Token(l, item) # "RPAREN"
                \/ l.command /\ Token(l, item) = "case"
<1>1. Lexed(l, item).pattern = c
  BY DEF Lexed
<1> QED
  BY <1>1

(* Nothing is open anywhere.                                               *)
Level(p) ==
  /\ split.depth = 0 /\ segLexer = lexer /\ lexer.parens = 0 /\ lexer.braces = 0
  /\ ~lexer.pattern
  /\ lexer.command <=> p.at \in {"start", "stage"}
  /\ ~gate.needs
(* The inductive invariant of the gate: it has seen something, or the      *)
(* parser failed, or both read a simple command with nothing open.         *)
GateInv ==
  /\ gate \in Gates
  /\ ~odd /\ ~gated =>
       /\ Len(whole) = 1
       /\ \/ whole[1].at = "fail" /\ ~whole[1].stateful
          \/ Quiet(whole[1], gate) /\ Level(whole[1])

(* A token at which nothing opens.                                         *)
LEMMA LevelLexer ==
  ASSUME NEW l \in Lexers, l.parens = 0, l.braces = 0, ~l.pattern, NEW item \in AllItems,
         Token(l, item) \notin Marks \cup {"\n"}, l.command => Token(l, item) # "case"
  PROVE  LET m == Lexed(l, item)
             t == Token(l, item)
         IN /\ m \in Lexers /\ m.parens = 0 /\ m.braces = 0 /\ ~m.pattern
            /\ m.command <=> t \in Separators \cup {"|", ";;"} \cup Always \cup {"function"}
            /\ m.line <=> t = "<<<"
<1>1. Lexed(l, item) \in Lexers
  BY LexedKind
<1>2. Lexed(l, item).parens = 0 /\ Lexed(l, item).braces = 0
  BY LexedCounts DEF Marks
<1>3. ~Lexed(l, item).pattern
  BY LexedPattern
<1>4. Lexed(l, item).command <=>
        Token(l, item) \in Separators \cup {"|", ";;"} \cup Always \cup {"function"}
  BY LexedCommand DEF Marks
<1>5. Lexed(l, item).line <=> Token(l, item) = "<<<"
  BY DEF Lexed
<1> QED
  BY <1>1, <1>2, <1>3, <1>4, <1>5

(* A step keeps it.                                                        *)
LEMMA GateStep ==
  ASSUME ReadTyped, WholeInv, GateInv, NEW item \in Items, Read(item)
  PROVE  GateInv'
<1> DEFINE t == Token(lexer, item)
           p == whole[1]
<1>1. item \in AllItems /\ lexer \in Lexers /\ segLexer \in Lexers /\ split \in Splits
      /\ gate \in Gates
  BY ItemKind DEF ReadTyped, GateInv
<1>2. gate' \in Gates
  <2>1. gate' \in {FreshGate, Gate(gate, Token(segLexer, item))}
    BY DEF Read
  <2>2. FreshGate \in Gates
    BY DEF FreshGate, Gates
  <2> QED
    BY <1>1, <2>1, <2>2, GateTypes
<1> SUFFICES ASSUME ~odd', ~gated'
             PROVE  /\ Len(whole') = 1
                    /\ \/ whole'[1].at = "fail" /\ ~whole'[1].stateful
                       \/ Quiet(whole[1], gate)' /\ Level(whole[1])'
  BY <1>2 DEF GateInv
<1>3. /\ lexer' = Lexed(lexer, item) /\ split' = Split(split, t)
      /\ odd' = (odd \/ Odd(whole, t))
      /\ whole' = Parse(IF Cuts(split, t) THEN Counted(whole) ELSE whole, t, item)
      /\ gated' = (~odd' /\ (gated \/ gate'.needs))
  BY DEF Read
<1>4. ~odd /\ ~Odd(whole, t) /\ ~gated /\ ~gate'.needs
  BY <1>3
<1>5. /\ Len(whole) = 1
      /\ \/ p.at = "fail" /\ ~p.stateful
         \/ Quiet(p, gate) /\ Level(p)
  BY <1>4 DEF GateInv
<1>6. /\ Regular(p, t) /\ ~(t \in Redirects /\ p.first = "duration")
      /\ t \in NoTarget => p.at \notin {"start", "stage"} /\ p.first # "first"
  BY <1>4, OddParts DEF Odd
<1>7. CASE p.at = "fail" /\ ~p.stateful
  <2>1. CASE Cuts(split, t)
    <3> DEFINE ps == Counted(whole)
    <3>1. Len(ps) = 1 /\ ps[1] = Closed(p)
      BY <1>5, CountedOne
    <3>2. Closed(p).at = "fail" /\ ~Closed(p).stateful
      BY <1>7 DEF Closed
    <3> HIDE DEF ps
    <3>3. Step(ps[1], t, item) = ps[1] /\ ~ClosesClause(ps[1], t)
      BY <3>1, <3>2, StepAt DEF ClosesClause
    <3>4. Parse(ps, t, item)[1] = ps[1] /\ Len(Parse(ps, t, item)) = 1
      BY <3>1, <3>3, ParseOne
    <3>5. whole' = Parse(ps, t, item)
      BY <1>3, <2>1 DEF ps
    <3> QED
      BY <3>1, <3>2, <3>4, <3>5
  <2>2. CASE ~Cuts(split, t)
    <3>1. Step(p, t, item) = p /\ ~ClosesClause(p, t)
      BY <1>7, StepAt DEF ClosesClause
    <3>2. Parse(whole, t, item)[1] = p /\ Len(Parse(whole, t, item)) = 1
      BY <1>5, <3>1, ParseOne
    <3>3. whole' = Parse(whole, t, item)
      BY <1>3, <2>2
    <3> QED
      BY <1>7, <3>2, <3>3
  <2> QED
    BY <2>1, <2>2
<1>8. CASE Quiet(p, gate) /\ Level(p)
  <2>1. /\ Fresh(p) /\ p.at \in {"start", "stage", "command", "target"} /\ ~p.stateful
        /\ p.at \in ChainPlaces /\ p.at # "fail" /\ p.at # "slice"
    BY <1>8 DEF Quiet, ChainPlaces
  <2>2. WholeAlive(p)
    BY <1>4, <2>1 DEF WholeInv
  <2>3. t # ";;" /\ t # "\n"
    BY <1>6, <2>1 DEF Regular
  <2>4. /\ split.depth = 0 /\ segLexer = lexer /\ lexer.parens = 0 /\ lexer.braces = 0
        /\ ~lexer.pattern /\ (lexer.command <=> p.at \in {"start", "stage"})
        /\ ~gate.needs
    BY <1>8 DEF Level
  <2>5. CASE Cuts(split, t)
    <3>1. t \in Separators
      BY <2>3, <2>5 DEF Cuts
    <3>2. Formed(p) /\ (p.at = "start" => ~p.have)
      BY <2>2 DEF WholeAlive, Chained
    <3>3. Ended(Step(Closed(p), t, item), Closed(p), t)
      BY <1>6, <2>1, <3>1, <3>2, ChainEnd
    <3> DEFINE ps == Counted(whole)
    <3>4. Len(ps) = 1 /\ ps[1] = Closed(p)
      BY <1>5, CountedOne
    <3>5. Closed(p).at = p.at /\ Closed(p).stateful = p.stateful
      BY <2>1, ClosedKind DEF Fresh
    <3>6. whole' = Parse(ps, t, item)
      BY <1>3, <2>5
    <3> HIDE DEF ps
    <3>7. /\ Parse(ps, t, item)[1] = Step(ps[1], t, item)
          /\ Len(Parse(ps, t, item)) = 1 \/ ClosesClause(ps[1], t)
      BY <3>4, ParseOne
    <3>8. PICK q : q = whole'[1]
      OBVIOUS
    <3>9. /\ Len(whole') = 1 /\ Fresh(q) /\ q.at = "start" /\ ~q.stateful
      BY <2>1, <3>3, <3>4, <3>5, <3>6, <3>7, <3>8 DEF Ended, ClosesClause
    <3>10. gate' = FreshGate /\ segLexer' = FreshLexer
      BY <2>5 DEF Read
    <3>11. Quiet(q, gate')
      BY <3>9, <3>10 DEF Quiet, FreshGate
    <3>12. split'.depth = 0
      BY <1>1, <1>3, <2>5, CutSplit
    <3>13. t \notin Marks \cup {"\n", "case", "<<<"}
      BY <3>1 DEF Separators, Marks
    <3>14. /\ lexer' \in Lexers /\ lexer'.parens = 0 /\ lexer'.braces = 0
           /\ ~lexer'.pattern /\ lexer'.command /\ ~lexer'.line
      BY <1>1, <1>3, <2>4, <3>1, <3>13, LevelLexer
    <3>15. lexer' = FreshLexer
      <4> HIDE DEF t, p
      <4>1. PICK l \in Lexers : l = lexer'
        BY <3>14
      <4>2. l = [command |-> TRUE, parens |-> 0, braces |-> 0, pattern |-> FALSE,
                 line |-> FALSE]
        BY <3>14, <4>1 DEF Lexers
      <4> QED
        BY <4>1, <4>2 DEF FreshLexer
    <3>16. Level(whole[1])'
      <4> HIDE DEF t, p
      <4> QED
        BY <1>4, <3>8, <3>9, <3>10, <3>12, <3>14, <3>15 DEF Level
    <3>17. Quiet(whole[1], gate)'
      BY <3>8, <3>11 DEF Quiet, Fresh
    <3> QED
      BY <3>9, <3>16, <3>17
  <2>6. CASE ~Cuts(split, t)
    <3>1. /\ segLexer' = lexer' /\ gate' = Gate(gate, t) /\ whole' = Parse(whole, t, item)
      BY <1>3, <2>4, <2>6 DEF Read
    <3>2. t \in Tokenised \ (Separators \cup {"\n", ";;", "RPAREN", "RBRACE"})
      <4>1. t \in Tokenised
        BY <1>1, TokenFacts
      <4>2. t \notin Separators
        BY <2>4, <2>6 DEF Cuts
      <4>3. t # "RPAREN" /\ t # "RBRACE"
        <5>1. /\ t = "RPAREN" => lexer.parens > 0
              /\ t = "RBRACE" => lexer.braces > 0
          BY <1>1, TokenKind
        <5>2. ~(0 > 0)
          OBVIOUS
        <5> QED
          BY <2>4, <5>1, <5>2
      <4> QED
        BY <2>3, <4>1, <4>2, <4>3
    <3>3. ~lexer.command => t \notin {"LPAREN", "LBRACE", "FUNC"}
      BY <1>1, TokenFacts
    <3>4. PICK q : q = whole'[1]
      OBVIOUS
    <3>5. q = Step(p, t, item) /\ Len(whole') = 1
      <4>1. ~ClosesClause(p, t)
        BY <2>1 DEF ClosesClause
      <4> QED
        BY <1>5, <3>1, <3>4, <4>1, ParseOne
    <3>6. p.at \in {"command", "target"} =>
            /\ t \in {"|", "$v"} \cup Redirects \/ IsWord(t)
            /\ t \notin Always \cup {"function"}
            /\ ~(split.expect /\ t \in Openers \cup Closers)
      <4> SUFFICES ASSUME p.at \in {"command", "target"}
                   PROVE  /\ t \in {"|", "$v"} \cup Redirects \/ IsWord(t)
                          /\ t \notin Always \cup {"function"}
                          /\ ~(split.expect /\ t \in Openers \cup Closers)
        OBVIOUS
      <4>1. t \notin Marks
        BY <2>4, <3>2, <3>3 DEF Marks
      <4>2. t \in {"|", "$v"} \cup Redirects \/ IsWord(t)
        BY <3>2, <4>1 DEF Tokenised, AllItems, Redirects, NoTarget, Documents,
             Glyphs, IsWord
      <4>3. ~Misread(p, t)
        BY <1>6 DEF Regular
      <4> QED
        BY <4>2, <4>3 DEF Misread, Structural
    <3>7. \/ q.at = "fail" /\ ~q.stateful
          \/ /\ Quiet(q, gate') /\ q.at # "start" /\ (q.at = "stage" <=> t = "|")
             /\ \/ t \in Simple \cup {"|"}
                \/ p.at \in {"command", "target"}
      <4>1. PICK g : g = Gate(gate, t)
        OBVIOUS
      <4>2. g = gate' /\ ~g.needs
        BY <1>4, <3>1, <4>1
      <4> HIDE DEF t, p
      <4>3. CASE p.at = "start"
        <5>1. gate.at = "first"
          BY <1>8, <4>3 DEF Quiet
        <5>2. q = InStart(p, t)
          BY <3>5, <4>3, StepAt
        <5>3. ~Gate(gate, t).needs
          BY <4>1, <4>2
        <5>4. t \notin NoTarget
          BY <1>6, <4>3
        <5>5. \/ InStart(p, t).at = "fail" /\ ~InStart(p, t).stateful
              \/ /\ Quiet(InStart(p, t), Gate(gate, t)) /\ InStart(p, t).at # "start"
                 /\ InStart(p, t).at = "stage" <=> t = "|"
                 /\ t \in Simple \cup {"|"}
          BY <1>1, <2>1, <2>4, <3>2, <4>3, <5>1, <5>3, <5>4, QuietStart
        <5> QED
          BY <4>1, <4>2, <5>2, <5>5
      <4>4. CASE p.at = "stage"
        <5>1. gate.at = "first"
          BY <1>8, <4>4 DEF Quiet
        <5>2. q = InStage(p, t)
          BY <3>5, <4>4, StepAt
        <5>3. ~Gate(gate, t).needs
          BY <4>1, <4>2
        <5>4. t \notin NoTarget
          BY <1>6, <4>4
        <5>5. \/ InStage(p, t).at = "fail" /\ ~InStage(p, t).stateful
              \/ /\ Quiet(InStage(p, t), Gate(gate, t)) /\ InStage(p, t).at # "start"
                 /\ InStage(p, t).at = "stage" <=> t = "|"
                 /\ t \in Simple \cup {"|"}
          BY <1>1, <2>1, <2>4, <3>2, <4>4, <5>1, <5>3, <5>4, QuietStage
        <5> QED
          BY <4>1, <4>2, <5>2, <5>5
      <4>5. CASE p.at = "command"
        <5>1. p.first \in {"first", "duration"} => gate.at = p.first
          BY <1>8, <4>5 DEF Quiet
        <5>2. q = InCommand(p, t)
          BY <3>5, <4>5, StepAt
        <5>3. /\ t \in Redirects => p.first # "duration"
              /\ t \in NoTarget => p.first # "first"
          BY <1>6
        <5> QED
          BY <1>1, <2>1, <2>4, <3>6, <4>1, <4>2, <4>5, <5>1, <5>2, <5>3, QuietCommand
      <4>6. CASE p.at = "target"
        <5>1. p.first # "duration" /\ (p.first = "first" => gate.at = "target")
          BY <1>8, <4>6 DEF Quiet
        <5>2. q = InTarget(p, t)
          BY <3>5, <4>6, StepAt
        <5>3. t \in NoTarget => p.first # "first"
          BY <1>6
        <5> QED
          BY <1>1, <2>1, <2>4, <3>6, <4>1, <4>2, <4>6, <5>1, <5>2, <5>3, QuietTarget
      <4> QED
        BY <2>1, <4>3, <4>4, <4>5, <4>6
    <3>8. CASE q.at = "fail" /\ ~q.stateful
      BY <3>4, <3>5, <3>8
    <3>9. CASE /\ Quiet(q, gate') /\ q.at # "start" /\ (q.at = "stage" <=> t = "|")
               /\ \/ t \in Simple \cup {"|"}
                  \/ p.at \in {"command", "target"}
      <4>1. /\ t \notin Marks \cup {"\n", ";;"} \cup Separators \cup Always \cup {"function"}
            /\ ~(split.expect /\ t \in Openers \cup Closers)
            /\ lexer.command => t # "case"
        <5>1. CASE t \in Simple \cup {"|"}
          BY <5>1, SimpleTokens DEF Marks, Separators, Always, Openers, Closers
        <5>2. CASE p.at \in {"command", "target"}
          BY <2>4, <3>2, <3>3, <3>6, <5>2 DEF Marks
        <5> QED
          BY <3>9, <5>1, <5>2
      <4>2. /\ lexer' \in Lexers /\ lexer'.parens = 0 /\ lexer'.braces = 0
            /\ ~lexer'.pattern
            /\ lexer'.command <=> t \in Separators \cup {"|", ";;"} \cup Always \cup {"function"}
        BY <1>1, <1>3, <2>4, <4>1, LevelLexer
      <4>3. lexer'.command <=> q.at \in {"start", "stage"}
        BY <3>9, <4>1, <4>2
      <4>4. split'.depth = 0
        <5>1. ~Opens(split, t)
          BY <4>1 DEF Opens, Marks
        <5>2. ~(0 > 0)
          OBVIOUS
        <5> HIDE DEF t
        <5> QED
          BY <1>1, <1>3, <2>4, <5>1, <5>2, SplitKind
      <4>5. Level(whole[1])'
        <5> HIDE DEF t, p
        <5> QED
          BY <1>4, <3>1, <3>4, <4>2, <4>3, <4>4 DEF Level
      <4>6. Quiet(whole[1], gate)'
        BY <3>4, <3>9 DEF Quiet, Fresh
      <4> QED
        BY <3>5, <4>5, <4>6
    <3> QED
      BY <3>7, <3>8, <3>9
  <2> QED
    BY <2>5, <2>6
<1> QED
  BY <1>5, <1>7, <1>8

(* A parse that needs state is one the gate has seen.                      *)
LEMMA GateKept ==
  ASSUME GateInv
  PROVE  GateSound
<1> SUFFICES ASSUME Parsed(whole).stateful, ~odd, ~gated PROVE FALSE
  BY DEF GateSound
<1>1. Len(whole) = 1 /\ ~whole[1].stateful
  BY DEF GateInv, Quiet
<1> QED
  BY <1>1 DEF Parsed

-----------------------------------------------------------------------------
(* The invariants together, and what they say of all texts.                *)

(* The inductive invariant of Reader.                                      *)
ReaderInv == ReadTyped /\ CommandInv /\ WholeInv /\ SegmentInv /\ GateInv

(* It holds of the empty text, and every item read keeps it.               *)
LEMMA ReaderInit ==
  ASSUME TextInit
  PROVE  ReaderInv
<1>1. /\ lexer = FreshLexer /\ split = FreshSplit /\ whole = FreshParse
      /\ segLexer = FreshLexer /\ segment = FreshParse /\ gate = FreshGate
      /\ segOp = "none" /\ begun = FALSE
  BY DEF TextInit
<1>2. FreshLexer \in Lexers /\ FreshLexer.command /\ FreshLexer.parens = 0
      /\ FreshLexer.braces = 0 /\ ~FreshLexer.pattern
  BY DEF FreshLexer, Lexers
<1>3. FreshSplit \in Splits /\ FreshSplit.depth = 0 /\ FreshSplit.expect
  BY DEF FreshSplit, Splits
<1>4. /\ Fresh(FreshParser) /\ FreshParser.at = "start" /\ FreshParser.chains = 0
      /\ ~FreshParser.have /\ FreshParser.op = "none" /\ ~FreshParser.stateful
  BY FreshParserKind DEF FreshParser, Fresh
<1>5. /\ Formed(FreshParser) /\ Chained(FreshParser) /\ Overs(FreshParser, 0)
      /\ Braced(FreshParser) = 0 /\ Commands(FreshParser) = 0
  BY <1>4, FreshForms DEF Chained, ChainPlaces
<1>6. 0 = 0 + 0 + 0 /\ 0 <= 0
  OBVIOUS
<1>7. /\ Len(whole) = 1 /\ whole[1] = FreshParser
      /\ Len(segment) = 1 /\ segment[1] = FreshParser
  BY <1>1, FreshOne
<1>8. Expected(FreshParser, split.expect)
  BY <1>1, <1>3 DEF Expected
<1>9. ReadTyped /\ CommandInv
  BY <1>1, <1>2, <1>3 DEF ReadTyped, CommandInv
<1>10. WholeInv
  <2>1. \E x \in Nat : /\ Overs(FreshParser, x) /\ x <= lexer.parens
                       /\ split.depth = x + Braced(FreshParser) + Commands(FreshParser)
    BY <1>1, <1>2, <1>3, <1>5, <1>6
  <2>2. WholeAlive(FreshParser)
    BY <1>1, <1>4, <1>5, <1>8, <2>1 DEF WholeAlive
  <2> QED
    BY <1>7, <2>2 DEF WholeInv
<1>11. SegmentInv
  <2>1. 0 <= Bound(0, lexer, FreshParser) /\ 0 <= segLexer.parens
    BY <1>1, <1>2, FreshAlive
  <2>2. \E x \in Nat : /\ Overs(FreshParser, x) /\ x <= segLexer.parens
                       /\ split.depth <= Bound(x, lexer, FreshParser)
    BY <1>1, <1>3, <1>5, <2>1
  <2>3. SegmentAlive(FreshParser)
    BY <1>4, <1>5, <1>8, <2>2 DEF SegmentAlive
  <2> QED
    BY <1>7, <2>3 DEF SegmentInv
<1>12. GateInv
  <2>1. gate \in Gates /\ gate.at = "first" /\ ~gate.needs
    BY <1>1 DEF Gates, FreshGate
  <2>2. Quiet(FreshParser, gate)
    BY <1>4, <2>1 DEF Quiet
  <2>3. Level(FreshParser)
    BY <1>1, <1>2, <1>3, <1>4, <2>1 DEF Level
  <2> QED
    BY <1>7, <2>1, <2>2, <2>3 DEF GateInv
<1> QED
  BY <1>9, <1>10, <1>11, <1>12 DEF ReaderInv

LEMMA ReaderStep ==
  ASSUME ReaderInv, [ReadNext]_textVars
  PROVE  ReaderInv'
<1>1. CASE ReadNext
  <2>1. PICK item \in Items : Read(item)
    BY <1>1 DEF ReadNext
  <2> QED
    BY <2>1, TypedStep, CommandStep, WholeStep, SegmentStep, GateStep DEF ReaderInv
<1>2. CASE UNCHANGED textVars
  BY <1>2 DEF textVars, segmentVars, ReaderInv, ReadTyped, CommandInv, WholeInv,
       WholeAlive, SegmentInv, SegmentAlive, Bound, GateInv, Quiet, Level, Fresh
<1> QED
  BY <1>1, <1>2

LEMMA ReaderAlways == ReadSpec => []ReaderInv
BY ReaderInit, ReaderStep, PTL DEF ReadSpec

(* run_command takes the first chain of a segment for all of it, and of no *)
(* segment that is not odd, of a text of any length and nesting, does this *)
(* leave a chain out.                                                      *)
THEOREM NothingIsDropped == ReadSpec => []NothingDropped
<1>1. ReaderInv => NothingDropped
  BY SegmentKept DEF ReaderInv
<1> QED
  BY <1>1, ReaderAlways, PTL

(* The tree that run_chain walks has the chains that split_chains cuts for *)
(* run_command, with the same operators, as long as the text is not odd.   *)
THEOREM TreesHaveTheCuts == ReadSpec => []SameChains
<1>1. ReaderInv => SameChains
  BY WholeKept DEF ReaderInv
<1> QED
  BY <1>1, ReaderAlways, PTL

(* segment_needs_variable_state, which sees tokens only, misses no text    *)
(* whose tree needs the state of the call, as long as it is not odd.       *)
THEOREM GateSeesState == ReadSpec => []GateSound
<1>1. ReaderInv => GateSound
  BY GateKept DEF ReaderInv
<1> QED
  BY <1>1, ReaderAlways, PTL
=============================================================================
