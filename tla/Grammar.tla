-------------------------------- MODULE Grammar --------------------------------
(***************************************************************************)
(* _build_ast (parser.py), token by token: lists of pipelines, simple      *)
(* commands, and compound commands, whose parts _slice_body cuts out of    *)
(* the text without parsing them.  Of the tree, only what the walks go by  *)
(* is kept: how many chains it has, their operators, and whether one needs *)
(* the state of a call.                                                    *)
(***************************************************************************)
EXTENDS Tokens, FiniteSets

(* The part of a compound command that is being cut out, and the words     *)
(* that end it; do is that of any loop.                                    *)
Ends == [if |-> {"then"}, then |-> {"elif", "else", "fi"}, else |-> {"fi"},
         while |-> {"do"}, do |-> {"done"}, subject |-> {"in"},
         clause |-> {"esac"}, subshell |-> {}, group |-> {}, function |-> {}]
Parts == DOMAIN Ends
NoPart == "none"

(* expect: a command may start; target: a word that is next is skipped;    *)
(* compounds: the commands begun inside, case or other; content: what was  *)
(* seen, a semicolon not being a condition; open: braces to be closed, of  *)
(* a text that starts with one.                                            *)
FreshSlice == [expect |-> TRUE, target |-> FALSE, depth |-> 0, braces |-> 0,
               compounds |-> <<>>, content |-> "nothing", open |-> 0]

(* at: where the parser is.  have: the pipeline has a command; chains      *)
(* counts to two; op is the operator before the chain; first: what the     *)
(* next word of a command is; nested: parentheses in a pattern.            *)
FreshParser == [at |-> "start", part |-> NoPart, slice |-> FreshSlice, op |-> "none",
                chains |-> 0, have |-> FALSE, first |-> "none", stateful |-> FALSE,
                nested |-> -1]

At(p, at) == [p EXCEPT !.at = at, !.part = NoPart, !.slice = FreshSlice, !.nested = -1]
Cut(p, part) == [At(p, "slice") EXCEPT !.part = part]
Fail(p) == [FreshParser EXCEPT !.at = "fail"]
Rest(p) == [At(p, "start") EXCEPT !.op = "none", !.have = FALSE, !.first = "none"]
Command(p) == [p EXCEPT !.have = TRUE, !.chains = IF @ < 2 THEN @ + 1 ELSE 2]

(* _parse_if to _parse_group.  A compound command is alone in its pipeline.*)
Compound(p, t) ==
  LET q == [Command(p) EXCEPT !.stateful = TRUE]
  IN IF p.have THEN Fail(p)
     ELSE CASE t = "if" -> Cut(q, "if")
            [] t \in {"while", "until"} -> Cut(q, "while")
            [] t = "for" -> At(q, "name")
            [] t = "case" -> Cut(q, "subject")
            [] t = "function" -> At(q, "function")
            [] t = "FUNC" -> Cut(q, "function")
            [] t = "LPAREN" -> Cut(q, "subshell")
            [] t = "LBRACE" -> Cut(q, "group")

(* The end of a pipeline that has a command.                               *)
EndChain(p, t) ==
  CASE t = "&" -> Rest(p)
    [] t \in {";", ";;", "&&", "||"} ->
         [Rest(p) EXCEPT !.op = IF t = ";;" THEN ";" ELSE t]
    [] t \in {"LPAREN", "LBRACE"} -> Compound(Rest(p), t)
    [] OTHER -> At(p, "stop")

Word(p, t) ==
  [At(p, "command") EXCEPT
     !.stateful = @ \/ (p.first = "first" /\ t = "set"),
     !.first = IF @ = "duration" THEN "first"
               ELSE IF @ = "first" /\ t = "timeout" THEN "duration" ELSE "none"]

InCommand(p, t) ==
  CASE t = "\n" -> p
    [] t = "|" -> At(p, "stage")
    [] t = ">" -> At(p, "target")
    [] t \in NoTarget -> At(p, "command")
    [] t = "FUNC" -> Fail(p)
    [] IsWord(t) \/ t = "$v" -> Word(p, t)
    [] OTHER -> EndChain(p, t)

InTarget(p, t) ==
  CASE t = "\n" -> p
    [] t = "FUNC" -> Fail(p)
    [] IsWord(t) -> At(p, "command")
    [] OTHER -> InCommand(At(p, "command"), t)

(* _parse_command at the first token of a stage.  When there is no command *)
(* at all the whole parser stops, whatever follows.                        *)
InStage(p, t) ==
  CASE t \in {"\n", "|"} -> p
    [] t \in Openers \cup {"function", "FUNC", "LPAREN", "LBRACE"} -> Compound(p, t)
    [] t \in Closers \cup Always -> Fail(p)
    [] t \in Separators \cup {";;", "RPAREN", "RBRACE"} ->
         IF p.have THEN EndChain(p, t) ELSE At(p, "stop")
    [] OTHER -> LET q == IF p.have THEN p ELSE Command(p)
                IN InCommand([q EXCEPT !.first = "first"], t)

InStart(p, t) ==
  CASE t = "\n" -> p
    [] t \in {";", ";;", "&&", "||"} -> [p EXCEPT !.op = IF t = ";;" THEN ";" ELSE t]
    [] OTHER -> InStage([p EXCEPT !.at = "stage"], t)

(* After a compound command, the next chain may come without an operator.  *)
InAfter(p, t) ==
  CASE t = "\n" -> p
    [] t = "|" -> Fail(p)
    [] t = "&" -> Rest(p)
    [] OTHER -> InStart(Rest(p), t)

-----------------------------------------------------------------------------
(* _parse_for and the keyword form of _parse_function, up to the body.     *)
InFor(p, t) ==
  CASE t = "\n" -> p
    [] p.at = "name" /\ t # "\n" -> IF t \in Words THEN At(p, "in") ELSE Fail(p)
    [] p.at = "in" /\ t = "in" -> At(p, "list")
    [] p.at = "list" /\ t # "do" /\ (t = "$v" \/ IsWord(t)) -> p
    [] p.at \in {"in", "list"} /\ t = ";" -> At(p, "do")
    [] p.at = "do" /\ t = ";" -> At(p, "body")
    [] p.at # "name" /\ t = "do" -> Cut(p, "do")
    [] OTHER -> Fail(p)

InFunction(p, t) ==
  CASE t = "\n" -> p
    [] t = "FUNC" \/ t \in Words \ (Openers \cup Closers \cup Always \cup {"function"}) ->
         Cut(p, "function")
    [] OTHER -> Fail(p)

(* _scan_case_pattern reads the text up to a parenthesis that closes none. *)
InCase(p, t, item) ==
  CASE t = "\n" -> p
    [] p.at = "case" /\ t = "esac" -> At(p, "after")
    [] p.at = "case" /\ t = "LPAREN" -> At(p, "opened")
    [] item = ")" -> Fail(p)
    [] OTHER -> [p EXCEPT !.at = "pattern", !.nested = IF item = "(" THEN 1 ELSE 0]

InPattern(p, item) ==
  CASE item = "(" -> [p EXCEPT !.nested = @ + 1]
    [] item = ")" /\ p.nested > 0 -> [p EXCEPT !.nested = @ - 1]
    [] item = ")" /\ p.nested = 0 ->
         IF p.part = NoPart THEN Cut(p, "clause")
         ELSE [p EXCEPT !.at = IF p.slice.depth > 0 THEN "skip" ELSE "slice",
                        !.nested = -1]
    [] OTHER -> p

-----------------------------------------------------------------------------
(* _slice_body.  It skips a word after 2>&1 too, and after a here-document *)
(* or here-string it expects a command.                                    *)
Flat(s) == s.depth = 0 /\ s.compounds = <<>>
Tracked(p) == p.part # "subject"
InnerCase(s) == s.compounds # <<>> /\ s.compounds[Len(s.compounds)] = "case"

EndsPart(p, t) ==
  LET s == p.slice
  IN Flat(s) /\ CASE t = "RPAREN" -> p.part = "subshell"
                  [] t = "RBRACE" -> p.part = "group" /\ s.braces = 0
                  [] t = ";;" -> p.part = "clause"
                  [] t \in Separators \cup {"\n"} -> p.part = "function" /\ s.braces = 0
                  [] IsWord(t) -> /\ t \in Ends[p.part] /\ ~s.target
                                  /\ s.expect \/ t \in Always
                  [] OTHER -> FALSE

Unexpected(p, t) ==
  LET s == p.slice
  IN CASE t = "RPAREN" -> s.depth = 0
       [] t = "RBRACE" -> s.braces = 0
       [] t \in Closers -> /\ s.expect /\ Tracked(p) /\ s.compounds = <<>>
                           /\ ~s.target
       [] t \in Always -> s.expect /\ Flat(s) /\ ~s.target
       [] OTHER -> FALSE

Content(s, t) ==
  IF s.content = "nothing" /\ t \in {";", ";;"} THEN "semicolon" ELSE "some"

(* Braces of a function body that starts with one, as _find_braced_end     *)
(* counts them.                                                            *)
Open(s, item) ==
  IF s.content # "nothing" /\ s.open = 0 THEN 0
  ELSE CASE item = "{" -> s.open + 1
         [] item = "}" /\ s.open > 0 -> s.open - 1
         [] OTHER -> s.open

Sliced(p, t, item) ==
  LET s == p.slice
      word == IsWord(t) /\ ~s.target
      opens == word /\ s.expect /\ Tracked(p) /\ t \in Openers
      closes == word /\ s.expect /\ Tracked(p) /\ t \in Closers
  IN [s EXCEPT
        !.expect = \/ t \in Separators \cup {"\n", "|", ";;", "LPAREN", "LBRACE"}
                               \cup Documents
                   \/ word /\ t \in Always,
        !.target = t \in Redirects \ Documents,
        !.depth = IF t = "LPAREN" /\ Tracked(p) THEN @ + 1
                  ELSE IF t = "RPAREN" THEN @ - 1 ELSE @,
        !.braces = IF t = "LBRACE" THEN @ + 1 ELSE IF t = "RBRACE" THEN @ - 1 ELSE @,
        !.compounds = IF opens THEN Append(@, IF t = "case" THEN "case" ELSE "other")
                      ELSE IF closes THEN SubSeq(@, 1, Len(@) - 1) ELSE @,
        !.content = IF t = "\n" THEN @ ELSE Content(s, t),
        !.open = IF p.part = "function" THEN Open(s, item) ELSE 0]

(* What the caller of _slice_body does with the token that ended it.       *)
PartDone(p, t) ==
  LET empty == p.slice.content = "nothing"
  IN CASE p.part \in {"if", "while"} ->
            IF p.slice.content # "some" THEN Fail(p)
            ELSE Cut(p, IF t = "then" THEN "then" ELSE "do")
       [] p.part = "then" /\ t = "elif" -> Cut(p, "if")
       [] p.part = "then" /\ t = "else" -> Cut(p, "else")
       [] p.part = "subject" -> IF empty THEN Fail(p) ELSE At(p, "case")
       [] p.part = "clause" /\ t = ";;" -> At(p, "case")
       [] p.part = "function" ->
            IF empty \/ p.slice.open > 0 THEN Fail(p) ELSE InAfter(At(p, "after"), t)
       [] OTHER -> At(p, "after")

InSlice(p, t, item) ==
  LET s == p.slice
  IN IF t = "\n" /\ (s.target \/ s.content = "nothing") THEN p
     ELSE IF EndsPart(p, t) THEN PartDone(p, t)
     ELSE IF Unexpected(p, t) THEN Fail(p)
     ELSE [p EXCEPT !.slice = Sliced(p, t, item),
                    !.at = IF t = "in" /\ ~s.target /\ InnerCase(s) THEN "pattern"
                           ELSE "slice",
                    !.nested = IF t = "in" /\ ~s.target /\ InnerCase(s) THEN 0 ELSE -1]

(* After a pattern in parentheses one token more is passed over.           *)
InSkip(p, t) == IF t = "\n" THEN p ELSE [p EXCEPT !.at = "slice"]

Step(p, t, item) ==
  CASE p.at \in {"fail", "stop"} -> p
    [] p.at = "start" -> InStart(p, t)
    [] p.at = "stage" -> InStage(p, t)
    [] p.at = "command" -> InCommand(p, t)
    [] p.at = "target" -> InTarget(p, t)
    [] p.at = "after" -> InAfter(p, t)
    [] p.at \in {"name", "in", "list", "do", "body"} -> InFor(p, t)
    [] p.at = "function" -> InFunction(p, t)
    [] p.at \in {"case", "opened"} -> InCase(p, t, item)
    [] p.at = "pattern" -> InPattern(p, item)
    [] p.at = "slice" -> InSlice(p, t, item)
    [] p.at = "skip" -> InSkip(p, t)

(* The text ends here.                                                     *)
Accepts(p) ==
  \/ p.at \in {"start", "stage", "command", "target", "after", "stop"}
  \/ p.at = "slice" /\ p.part = "function"
     /\ p.slice.content # "nothing" /\ p.slice.open = 0

-----------------------------------------------------------------------------
(* When a clause of a case cannot be cut out, _parse_case tries once more  *)
(* with the first esac, which then need not be where a command may start.  *)
(* A parse is a sequence: what it is now, and what it is if that fails.    *)
FreshParse == <<FreshParser>>
InClause(p) == p.part = "clause"

ClosesClause(p, t) ==
  /\ InClause(p) /\ p.at = "slice" /\ t = "esac"
  /\ Flat(p.slice) /\ ~p.slice.expect /\ ~p.slice.target

Parse(ps, t, item) ==
  LET stepped == [i \in 1..Len(ps) |-> Step(ps[i], t, item)]
      done == InClause(ps[1]) /\ ~InClause(stepped[1]) /\ stepped[1].at # "fail"
  IN IF Len(ps) = 1
     THEN IF ClosesClause(ps[1], t) THEN Append(stepped, At(ps[1], "after"))
                                    ELSE stepped
     ELSE IF done THEN <<stepped[1]>>
     ELSE IF stepped[1].at = "fail" THEN <<stepped[2]>>
     ELSE stepped

Parsed(ps) == IF Accepts(ps[1]) \/ Len(ps) = 1 THEN ps[1] ELSE ps[2]
=============================================================================
