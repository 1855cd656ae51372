-------------------------------- MODULE Fields --------------------------------
(***************************************************************************)
(* From the words of a command to its arguments: _extract_from_node, with  *)
(* _field_split for what was expanded without quotes (parser.py).  A word  *)
(* is read part by part; each part adds to the last of the fields in       *)
(* flight or begins new ones.  Globbing and tildes are left out, redirects *)
(* are in Redirects.                                                       *)
(***************************************************************************)
EXTENDS Selections, SequencesExt

CONSTANTS
  Letters, Blanks, Marks,  \* characters: the blanks are the whitespace of
                           \* IFS, the marks what else IFS may have
  MaxValue,   \* bound of the model: characters of a value
  MaxParts,   \* bound of the model: parts of a word
  MAX_ARGS

Chars == Letters \cup Blanks \cup Marks
Strings == BoundedSeq(Chars, MaxValue)
Positionals == BoundedSeq({<<>>} \cup {<<c>> : c \in Letters}, 2)

ASSUME CharAssumption ==
  /\ Letters \cap (Blanks \cup Marks) = {} /\ Blanks \cap Marks = {}
  /\ MaxValue \in Nat /\ MaxParts \in Nat /\ MAX_ARGS \in Nat

VARIABLES
  ifs,      \* effective_ifs
  fields,   \* the fields in flight, never none
  argc,     \* arguments of the words before
  refused,  \* there were too many
  word,     \* history: what the word consists of, see below
  parts,    \* history: number of its parts
  edge      \* history: an expansion began or ended with blanks of IFS

fieldVars == <<ifs, fields, argc, refused, word, parts, edge>>

Field == [text : Seq(Chars), keep : BOOLEAN]
NewField == [text |-> <<>>, keep |-> FALSE]
FieldInit ==
  /\ ifs \in SUBSET (Blanks \cup Marks)
  /\ fields = <<NewField>> /\ argc = 0 /\ refused = FALSE
  /\ word = <<>> /\ parts = 0 /\ edge = FALSE

Hard == ifs \cap Marks # {}

-----------------------------------------------------------------------------
(* _field_split.  run: what the delimiters just read are.                  *)
Cut(s) == [s EXCEPT !.pieces = Append(@, s.current), !.current = <<>>]

\* Mutant: blanks that come first end a field, too.
EndRunAlways(s) ==
  IF s.run # "none" THEN [Cut(s) EXCEPT !.run = "none"] ELSE s

(* A run of delimiters ends one field, and none if it is blanks that come  *)
(* first; without blanks in IFS every mark ends a field.                   *)
EndRun(s) ==
  IF s.run = "marks" \/ (s.run = "blanks" /\ s.current # <<>>)
  THEN [Cut(s) EXCEPT !.run = "none"] ELSE [s EXCEPT !.run = "none"]

ReadChar(s, c) ==
  CASE c \in ifs \cap Marks ->
         [(IF ifs \cap Blanks = {} THEN EndRun(s) ELSE s) EXCEPT !.run = "marks"]
    [] c \in ifs \cap Blanks -> [s EXCEPT !.run = IF @ = "none" THEN "blanks" ELSE @]
    [] OTHER -> LET e == EndRun(s) IN [e EXCEPT !.current = Append(@, c)]

AllRead(value) ==
  LET Read[n \in 0..Len(value)] ==
        IF n = 0 THEN [pieces |-> <<>>, current |-> <<>>, run |-> "none"]
        ELSE ReadChar(Read[n - 1], value[n])
  IN Read[Len(value)]

\* Mutant: what follows the last delimiter is forgotten.
FieldSplitUnended(value) == EndRun(AllRead(value)).pieces

FieldSplit(value) ==
  LET s == AllRead(value)
      e == EndRun(s)
  IN IF value = <<>> THEN <<>>
     ELSE IF e.current # <<>> \/ s.run = "marks" THEN Append(e.pieces, e.current)
     ELSE e.pieces

-----------------------------------------------------------------------------
(* Add to the last field; keep is whether it counts although it is empty.  *)
Grow(fs, text, keep) ==
  LET f == fs[Len(fs)]
  IN [fs EXCEPT ![Len(fs)] =
        [text |-> f.text \o text,
         keep |-> f.keep \/ (keep /\ text = <<>> /\ f.text = <<>>)]]

(* The first piece goes to the last field, each other one is a new field.  *)
FanOut(fs, pieces, keep) ==
  IF pieces = <<>> THEN fs
  ELSE Grow(fs, pieces[1], keep) \o
       [i \in 1..(Len(pieces) - 1) |->
          [text |-> pieces[i + 1], keep |-> keep /\ pieces[i + 1] = <<>>]]

(* history: characters, delimiters of an expansion with its number, and    *)
(* what is no character: an empty quoted part, the border between two      *)
(* positional parameters.                                                  *)
Fixed(text) == IF text = <<>> THEN <<[kind |-> "empty"]>>
               ELSE [i \in 1..Len(text) |-> [kind |-> "char", char |-> text[i]]]
Open(value) ==
  [i \in 1..Len(value) |->
     IF value[i] \in ifs THEN [kind |-> "delimiter", char |-> value[i], part |-> parts]
     ELSE [kind |-> "char", char |-> value[i]]]
Border == <<[kind |-> "border"]>>
Bordered(positional) ==
  FlattenSeq([n \in 1..Len(positional) |->
                IF n = 1 THEN Fixed(positional[n]) ELSE Border \o Fixed(positional[n])])

Part == ~refused /\ parts < MaxParts /\ parts' = parts + 1
        /\ UNCHANGED <<ifs, argc, refused>>

AddText(text) ==
  /\ Part /\ text # <<>>
  /\ fields' = Grow(fields, text, FALSE)
  /\ word' = word \o Fixed(text) /\ UNCHANGED edge

(* Quotes around text or an expansion, "$*" being one.                     *)
AddQuoted(text) ==
  /\ Part
  /\ fields' = Grow(fields, text, TRUE)
  /\ word' = word \o Fixed(text) /\ UNCHANGED edge

(* An empty IFS splits nothing.                                            *)
AddExpansion(value) ==
  /\ Part
  /\ fields' = IF ifs = {} THEN Grow(fields, value, FALSE)
               ELSE FanOut(fields, FieldSplit(value), Hard)
  /\ word' = word \o Open(value)
  /\ edge' = (edge \/ \E blanks \in 1..Len(value) :
                        /\ \/ \A i \in 1..blanks : value[i] \in ifs \cap Blanks
                           \/ \A i \in blanks..Len(value) : value[i] \in ifs \cap Blanks)

(* "$@"                                                                    *)
AddAll(positional) ==
  /\ Part
  /\ fields' = FanOut(fields, positional, TRUE)
  /\ word' = word \o Bordered(positional)
  /\ UNCHANGED edge

Argument == {f \in Field : f.text # <<>> \/ f.keep}
Arguments(fs) == Keep(fs, Argument)

EndWord ==
  /\ ~refused /\ parts > 0
  /\ LET n == argc + Len(Arguments(fields))
     IN argc' = (IF n > MAX_ARGS THEN 0 ELSE n) /\ refused' = (n > MAX_ARGS)
  /\ fields' = <<NewField>> /\ word' = <<>> /\ parts' = 0 /\ edge' = FALSE
  /\ UNCHANGED ifs

(* The next command is read with the IFS of then.                          *)
NextCommand ==
  /\ parts = 0 /\ (argc > 0 \/ refused)
  /\ argc' = 0 /\ refused' = FALSE /\ ifs' \in SUBSET (Blanks \cup Marks)
  /\ UNCHANGED <<fields, word, parts, edge>>

FieldNext ==
  \/ \E text \in Strings : AddText(text) \/ AddQuoted(text) \/ AddExpansion(text)
  \/ \E positional \in Positionals : AddAll(positional)
  \/ EndWord \/ NextCommand

FieldSpec == FieldInit /\ [][FieldNext]_fieldVars

-----------------------------------------------------------------------------
(* The definition: within one expansion, each maximal run of delimiters is *)
(* a border, a hard one with a mark in it; without blanks in IFS each      *)
(* delimiter is one of its own.  What lies between two borders, a gap, is  *)
(* an argument if it has a character or an empty quoted part, or a hard    *)
(* border at one end.                                                      *)
Delimiter(e) == e.kind = "delimiter"
Joined(e, f) == Delimiter(e) /\ Delimiter(f) /\ e.part = f.part
Borders(s, join) ==
  {i \in 1..Len(s) : \/ s[i].kind = "border"
                     \/ /\ Delimiter(s[i])
                        /\ ~(join /\ i > 1 /\ Joined(s[i - 1], s[i]))}

(* The gap, or the border before it, at which each item is.                *)
Places(s, join) ==
  [i \in 1..Len(s) |-> Cardinality({b \in Borders(s, join) : b <= i})]

Characters(items) ==
  LET kept == Keep(items, [kind : {"char"}, char : Chars])
  IN [i \in 1..Len(kept) |-> kept[i].char]

Within(s, at, k) == [i \in 1..Len(s) |-> IF at[i] = k THEN s[i] ELSE Border[1]]
HasMark(s, at, k) ==
  \E i \in 1..Len(s) : at[i] = k /\ Delimiter(s[i]) /\ s[i].char \in Marks
Gap(s, at, k) ==
  [text |-> Characters(Within(s, at, k)),
   keep |-> \/ \E i \in 1..Len(s) : at[i] = k /\ s[i].kind \in {"char", "empty"}
            \/ HasMark(s, at, k) \/ HasMark(s, at, k + 1)]
Gaps(s, join) ==
  LET at == Places(s, join)
  IN [n \in 1..(Cardinality(Borders(s, join)) + 1) |-> Gap(s, at, n - 1)]

Resolved(fs) == [i \in 1..Len(fs) |-> fs[i].text]
Defined == Resolved(Arguments(Gaps(word, ifs \cap Blanks # {})))

(* Part by part, a word becomes the arguments that the rules of            *)
(* _field_split define for it as a whole.  Only where blanks meet the      *)
(* parts around an expansion, which they join (x$V with V=" y" is xy),     *)
(* there can be fewer; blanks alone never make one.                        *)
ArgumentsAsDefined ==
  IF edge /\ parts > 1 THEN Len(Arguments(fields)) <= Len(Defined)
  ELSE Resolved(Arguments(fields)) = Defined

(* Whatever the parts, no character is lost, doubled or moved, other than  *)
(* delimiters of expansions.                                               *)
OnlyDelimitersLost == FlattenSeq(Resolved(fields)) = Characters(word)
=============================================================================
