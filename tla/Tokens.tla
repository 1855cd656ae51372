-------------------------------- MODULE Tokens --------------------------------
(***************************************************************************)
(* The Lexer (parser.py), one item at a time: a text is a sequence of      *)
(* items with blanks between them.  What an item is a token of depends on  *)
(* the ones before it.  Quotes and escapes are parts of plain words.       *)
(***************************************************************************)
EXTENDS Integers, Sequences

Openers == {"if", "for", "while", "until", "case"}
Closers == {"fi", "done", "esac"}
Always == {"then", "do", "else", "elif", "in"}
Separators == {";", "&&", "||", "&"}

(* a is a plain word and a valid name, set stands for what needs the       *)
(* state of a call: builtins, assignments and known functions; $v for $()  *)
(* and variables.                                                          *)
Words == Openers \cup Closers \cup Always \cup {"function", "a", "set", "timeout"}
Glyphs == {"(", ")", "{", "}", "f()"}

(* > is any redirect to or from a file, 2>&1 a descriptor's duplicate, <<  *)
(* a here-document and <<< a here-string: the last two are one token each, *)
(* << with the rest of its line, its text and the line that ends it, the   *)
(* newline of that line too, and <<< with the rest of its line.  Their     *)
(* text has no parenthesis or brace.  In a text that was expanded before,  *)
(* as _run_body does, a here-document is << and a word, and reads as >.    *)
Documents == {"<<", "<<<"}
NoTarget == {"2>&1"} \cup Documents
Redirects == {">"} \cup NoTarget
AllItems == Words \cup Glyphs \cup Separators \cup Redirects
              \cup {"$v", "|", ";;", "\n"}

(* Glyphs are tokens in some places and words in others; FUNC is a name    *)
(* with FUNC_PARENS.                                                       *)
Marks == {"LPAREN", "RPAREN", "LBRACE", "RBRACE", "FUNC"}
IsWord(t) == t \in Words \cup {"glyph"}

(* command: _at_command_pos; pattern: _expecting_case_rparen; line: a      *)
(* here-string has taken the rest of the line.                             *)
FreshLexer == [command |-> TRUE, parens |-> 0, braces |-> 0, pattern |-> FALSE,
               line |-> FALSE]

Follows(l, item) == l.line => item = "\n"

Token(l, item) ==
  CASE item = "(" /\ l.command -> "LPAREN"
    [] item = ")" /\ l.parens > 0 -> "RPAREN"
    [] item = "{" /\ l.command -> "LBRACE"
    [] item = "}" /\ l.braces > 0 -> "RBRACE"
    [] item = "f()" /\ l.command -> "FUNC"
    [] OTHER -> IF item \in Glyphs THEN "glyph" ELSE item

(* A newline is passed over: what follows is where it would be without.    *)
(* The parenthesis that ends the first pattern of a case does not count.   *)
Lexed(l, item) ==
  LET t == Token(l, item)
  IN [command |-> IF t = "\n" THEN l.command
                  ELSE t \in Separators \cup {"|", ";;", "LPAREN", "LBRACE", "FUNC"}
                             \cup Always \cup {"function"},
      parens |-> CASE t = "LPAREN" -> l.parens + 1
                   [] t = "RPAREN" -> IF l.pattern THEN l.parens ELSE l.parens - 1
                   [] OTHER -> l.parens,
      braces |-> CASE t = "LBRACE" -> l.braces + 1
                   [] t = "RBRACE" -> l.braces - 1
                   [] OTHER -> l.braces,
      pattern |-> (l.pattern /\ t # "RPAREN") \/ (l.command /\ t = "case"),
      line |-> t = "<<<"]
=============================================================================
