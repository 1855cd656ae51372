-------------------------------- MODULE Reader --------------------------------
(***************************************************************************)
(* One text read in three ways at once: split_chains cuts it into the      *)
(* segments of run_command, the parser builds the tree of the whole text,  *)
(* which run_chain walks, and of each segment run_command takes the first  *)
(* chain of its tree.  The text is any sequence of items, one a step; it   *)
(* may end after any of them.                                              *)
(***************************************************************************)
EXTENDS Chains, Grammar

CONSTANTS
  Items,     \* the items that texts consist of
  MaxDepth   \* bound of the model: nesting of each kind

ASSUME ItemAssumption == Items \subseteq AllItems /\ MaxDepth \in Nat

VARIABLES
  lexer, split,   \* of the whole text, in split_chains and parse_command
  whole,          \* the parse of the whole text
  segLexer, segment, gate,   \* lexer, parse and gate of the last segment
  segOp,          \* the operator of the last segment
  begun,          \* the last segment has something in it
  gated,          \* history: some segment needs state
  odd,            \* history: the whole text is odd, see below; its parse,
                  \* gate, segOp, begun and gated are forgotten from then on
  oddSegment      \* history: the same of the last segment

segmentVars == <<segLexer, segment, gate, segOp, begun, oddSegment>>
textVars == <<lexer, split, whole, segmentVars, gated, odd>>

TextInit ==
  /\ lexer = FreshLexer /\ split = FreshSplit /\ whole = FreshParse
  /\ segLexer = FreshLexer /\ segment = FreshParse /\ gate = FreshGate
  /\ segOp = "none" /\ begun = FALSE
  /\ gated = FALSE /\ odd = FALSE /\ oddSegment = FALSE

(* Chains are counted from the last separator on.                          *)
Counted(ps) == [i \in 1..Len(ps) |-> [ps[i] EXCEPT !.chains = 0]]

(* A word split_chains takes for a part of a compound command, and the     *)
(* parser does not; or not, and the parser does: right behind if or while, *)
(* and behind a here-document, split_chains expects no command.            *)
Structural(t) == \/ split.expect /\ t \in Openers \cup Closers
                 \/ t \in Always \cup {"function"}
Missed(p, t) ==
  /\ ~split.expect /\ t \in Openers \cup Closers
  /\ p.at = "slice" /\ p.slice.expect /\ Tracked(p)
Misread(p, t) ==
  /\ Structural(t)
  /\ \/ p.at \in {"command", "target", "pattern", "skip", "name", "function"}
     \/ p.at \in {"case", "opened"} /\ t # "esac"
     \/ p.at = "list" /\ t # "do"
     \/ /\ p.at = "slice"
        /\ \/ p.slice.target
           \/ p.part = "subject" /\ t # "in"
           \/ t \in Openers \cup Closers /\ ~p.slice.expect

(* What makes the readings differ, each a fact about the code:             *)
(*  - a newline or ;; where the parser waits for a command or a word;      *)
(*  - an operator with nothing before it, at which the parser stops;       *)
(*  - a keyword that only one of them takes for one, as in echo then;      *)
(*  - fi, done, if and the like behind a here-document in a body, as in    *)
(*    if a ; then a << fi, which split_chains does not see;                *)
(*  - such a word on the line after 2>&1, which _slice_body skips;          *)
(*  - a redirect between timeout and its duration, which the gate counts   *)
(*    as the duration;                                                     *)
(*  - a redirect without a target before the first word of a command,      *)
(*    which the gate takes for the target, as in 2>&1 set;                 *)
(*  - something behind a compound command other than an operator;          *)
(*  - a parenthesis or brace in a subject or a pattern of a case, and the  *)
(*    end of a part with braces still open;                                *)
(*  - an esac that ends no command, as in case a in a ) b esac.            *)
Odd(ps, t) ==
  LET p == ps[1]
      between == \/ p.at \in {"start", "stage", "command", "target", "after",
                              "function"}
                 \/ /\ p.part = "function"
                    /\ p.slice.content = "nothing" \/ p.slice.target
  IN \/ t \in {"\n", ";;"} /\ between
     \/ Misread(p, t) \/ Missed(p, t)
     \/ Step(p, t, t).at = "stop"
     \/ t \in Redirects /\ p.first = "duration"
     \/ t \in NoTarget /\ (p.at \in {"start", "stage"} \/ p.first = "first")
     \/ p.at = "after" /\ t \notin Separators \cup {"|", "\n"}
     \/ /\ t \in Marks
        /\ \/ p.at \in {"opened", "pattern", "skip"} \/ p.part = "subject"
           \/ p.at = "case" /\ t # "LPAREN"
     \/ p.at = "slice" /\ EndsPart(p, t) /\ p.slice.braces > 0
     \/ Len(ps) > 1

Deep(p) == \/ p.slice.depth > MaxDepth \/ p.slice.braces > MaxDepth
           \/ Len(p.slice.compounds) > MaxDepth \/ p.nested > MaxDepth
           \/ p.slice.open > MaxDepth

Read(item) ==
  LET t == Token(lexer, item)
      u == Token(segLexer, item)
      cut == Cuts(split, t)
  IN /\ Follows(lexer, item)
     /\ lexer' = Lexed(lexer, item) /\ split' = Split(split, t)
     /\ lexer'.parens <= MaxDepth /\ lexer'.braces <= MaxDepth
     /\ split'.depth <= MaxDepth + 1
     /\ odd' = (odd \/ Odd(whole, t))
     /\ whole' = IF odd' THEN FreshParse
                 ELSE Parse(IF cut THEN Counted(whole) ELSE whole, t, item)
     /\ \A i \in 1..Len(whole') : ~Deep(whole'[i])
     /\ IF cut
        THEN segLexer' = FreshLexer /\ segment' = FreshParse /\ oddSegment' = FALSE
        ELSE /\ segLexer' = Lexed(segLexer, item)
             /\ segLexer'.parens <= MaxDepth /\ segLexer'.braces <= MaxDepth
             /\ oddSegment' = (oddSegment \/ Odd(segment, u))
             /\ segment' = IF oddSegment' THEN FreshParse
                           ELSE Parse(segment, u, item)
             /\ \A i \in 1..Len(segment') : ~Deep(segment'[i])
     /\ IF odd'
        THEN gate' = FreshGate /\ segOp' = "none" /\ begun' = FALSE
        ELSE IF cut
        THEN gate' = FreshGate /\ segOp' = NextOp(t) /\ begun' = FALSE
        ELSE /\ gate' = Gate(gate, u) /\ begun' = (begun \/ item # "\n")
             /\ UNCHANGED segOp
     /\ gated' = (~odd' /\ (gated \/ gate'.needs))

ReadNext == \E item \in Items : Read(item)
ReadSpec == TextInit /\ [][ReadNext]_textVars

-----------------------------------------------------------------------------
(* run_command takes the first chain of a segment for all of it.           *)
NothingDropped ==
  Accepts(Parsed(segment)) =>
    \/ Parsed(segment).chains <= 1
    \/ oddSegment

(* While no oddity is met, the tree of the whole text has the same chains  *)
(* as the cuts: at each separator the tree's chain ends, it was one, and   *)
(* its operator is the same.                                               *)
SameChains ==
  LET p == Parsed(whole)
  IN ~odd /\ Accepts(p) /\ p.at \notin {"start", "stage"} =>
       IF begun THEN p.chains = 1 /\ p.op = segOp ELSE p.chains = 0

(* What needs the state of a call is seen by the gate, in some segment.    *)
GateSound ==
  Parsed(whole).stateful /\ ~odd => gated
=============================================================================
