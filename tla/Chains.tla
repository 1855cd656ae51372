-------------------------------- MODULE Chains --------------------------------
(***************************************************************************)
(* split_chains and segment_needs_variable_state (parser.py), token by     *)
(* token.  Both look at tokens only, without a grammar.                    *)
(***************************************************************************)
EXTENDS Tokens

FreshSplit == [depth |-> 0, expect |-> TRUE]

Cuts(s, t) == s.depth = 0 /\ t \in Separators \cup {"\n"}

\* Mutant: a group in braces does not count.
OpensNoBrace(s, t) == t = "LPAREN" \/ (s.expect /\ t \in Openers)

\* Mutant: a reserved word counts anywhere.
OpensAnywhere(s, t) == t \in {"LPAREN", "LBRACE"} \cup Openers

(* Reserved words count where a command may start, other signs anywhere.   *)
(* No command may start behind a redirect, a here-document included, which *)
(* has taken its newlines with it.                                         *)
Opens(s, t) == t \in {"LPAREN", "LBRACE"} \/ (s.expect /\ t \in Openers)
Closes(s, t) == t \in {"RPAREN", "RBRACE"} \/ (s.expect /\ t \in Closers)

Split(s, t) ==
  [depth |-> IF Opens(s, t) THEN s.depth + 1
             ELSE IF Closes(s, t) /\ s.depth > 0 THEN s.depth - 1 ELSE s.depth,
   expect |-> t \in Separators \cup {"\n", "|", ";;", "LPAREN", "LBRACE", "FUNC"}
                    \cup Always]

(* The operator of the segment after a separator.                          *)
NextOp(t) == IF t \in {";", "&&", "||"} THEN t ELSE "none"

-----------------------------------------------------------------------------
(* at: the word that is next is the first of its stage, the target of a    *)
(* redirect, the duration of timeout, or of no interest.                   *)
FreshGate == [at |-> "first", needs |-> FALSE]

\* Mutant: the command after timeout and its duration is not looked at.
AfterTimeoutSkip == "skip"

(* The word after timeout is its duration, then comes a command.  What     *)
(* comes after a redirect of any kind is taken for its target.             *)
AfterTimeout == "duration"

Gate(g, t) ==
  IF g.needs \/ t = "\n" THEN g
  ELSE IF t = "|" \/ g.at = "duration" THEN [g EXCEPT !.at = "first"]
  ELSE IF t \in {"LPAREN", "LBRACE", "FUNC"} THEN [g EXCEPT !.needs = TRUE]
  ELSE IF g.at = "skip" THEN g
  ELSE IF t \in Redirects THEN [g EXCEPT !.at = "target"]
  ELSE IF g.at = "target" THEN [g EXCEPT !.at = "first"]
  ELSE CASE t \in Openers \cup {"function", "set"} -> [g EXCEPT !.needs = TRUE]
         [] t = "timeout" -> [g EXCEPT !.at = AfterTimeout]
         [] OTHER -> [g EXCEPT !.at = "skip"]
=============================================================================
