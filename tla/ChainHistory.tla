----------------------------- MODULE ChainHistory -----------------------------
(***************************************************************************)
(* Histories of a list of pipelines joined by `;', `&&' and `||': for each *)
(* pipeline handled so far, what was done with it.  AndOrList, RunChain    *)
(* and RunCommand share them.                                              *)
(***************************************************************************)
EXTENDS Selections

CONSTANTS
  Rcs,     \* exit codes of the commands
  NoRc,    \* the rc of a stage that did not run or is not known
  Dirs,    \* working directories
  Start,   \* the directory the call starts in
  MaxLen   \* bound of the model: pipelines of a list

ASSUME ListAssumption ==
  /\ Rcs \subseteq Int /\ {0, 1} \subseteq Rcs /\ NoRc \notin Rcs
  /\ Start \in Dirs
  /\ MaxLen \in Nat \ {0}

NoAnswer == [rc |-> NoRc, skipped |-> FALSE]
Answers == [rc : Rcs, skipped : BOOLEAN]

(* The operator before each pipeline.  `seq' stands for `;', for the start *)
(* of the list and for what follows &; the parser accepts every operator   *)
(* at every place.                                                         *)
Ops == {"seq", "and", "or"}
Lists == UNION {[1..n -> Ops] : n \in 1..MaxLen}

(* dir is the directory a pipeline meets, to the one it leaves.            *)
Fates == {"ran", "background", "skipped", "dropped"}
Handled(fates) == [fate : fates, rc : Rcs \cup {NoRc}, dir : Dirs, to : Dirs]
Entries == Handled(Fates)

RanAny(h) == \E i \in 1..Len(h) : h[i].fate \in {"ran", "background"}
Skipped(h) == \E i \in 1..Len(h) : h[i].fate = "skipped"

(* The exit code of the last pipeline that ran.                            *)
LastRc(h) ==
  LET known == Keep(h, Handled({"ran"}))
  IN IF known = <<>> THEN 0 ELSE known[Len(known)].rc

Cwd(h) == IF h = <<>> THEN Start ELSE h[Len(h)].to

ShortCircuits(op, h) ==
  /\ RanAny(h)
  /\ \/ op = "and" /\ LastRc(h) # 0
     \/ op = "or" /\ LastRc(h) = 0
=============================================================================
