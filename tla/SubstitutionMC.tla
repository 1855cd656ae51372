----------------------------- MODULE SubstitutionMC -----------------------------
(***************************************************************************)
(* Instances for TLC of what expands a command: for Substitution, x and y  *)
(* are plain commands, the others contain them; for Fields, words of a few *)
(* parts.  The words of a command are read when it was parsed, so one of   *)
(* the two always rests where it begins.                                   *)
(***************************************************************************)
EXTENDS Substitution, Fields

MCTexts == {"x", "y", "$(x)", "$(y)", "$($(x))", "a $($(x))", "$(x) $(y) $(x)",
            "$($(x) $(y) $(x))",
            "x && y || x", "${v:-$(x && y || x)} <<$(x)",
            "$(x) )", "x &", "$(x &)"}

MCLength == [t \in MCTexts |-> Len(t)]

S(src, kind) == [src |-> src, kind |-> kind]
Plain(subs) == [ops |-> <<"seq">>, subs |-> subs, bad |-> FALSE]

MCProg == [t \in MCTexts |->
  CASE t = "$(x)" -> Plain(<<S("x", "arg")>>)
    [] t = "$(y)" -> Plain(<<S("y", "arg")>>)
    [] t = "$($(x))" -> Plain(<<S("$(x)", "arg")>>)
    [] t = "a $($(x))" -> Plain(<<S("$($(x))", "doc")>>)
    [] t = "$(x) $(y) $(x)" ->
         Plain(<<S("x", "arg"), S("y", "arg"), S("x", "arg")>>)
    [] t = "$($(x) $(y) $(x))" -> Plain(<<S("$(x) $(y) $(x)", "arg")>>)
    [] t = "x && y || x" -> [Plain(<<>>) EXCEPT !.ops = <<"seq", "and", "or">>]
    [] t = "${v:-$(x && y || x)} <<$(x)" ->
         Plain(<<S("x && y || x", "operand"), S("x", "doc")>>)
    [] t = "x &" -> [Plain(<<>>) EXCEPT !.ops = <<"bg">>]
    [] t = "$(x &)" -> Plain(<<S("x &", "arg")>>)
    [] t = "$(x) )" -> [Plain(<<S("x", "arg")>>) EXCEPT !.bad = TRUE]
    [] OTHER -> Plain(<<>>)]

Request(kind, texts, depth) == [kind |-> kind, texts |-> texts, depth |-> depth]
MCTasks ==
  {Request("call", <<t>>, 0) : t \in MCTexts}
  \cup {Request("body", <<"$(x) $(y) $(x)", "$(x)", "$(y)", "$(x)">>, d) : d \in {1, 3}}
  \cup {Request("words", <<"$(x) $(y) $(x)", "$(x)", "$(y)", "$(x)">>, 1),
        Request("words", <<"$($(x))", "$($(x))">>, 1),
        Request("words", <<"$(x &)", "$(x &)">>, 2),
        Request("body", <<"$(x) )", "$(x) )">>, 1)}

MCInit == Init /\ FieldInit
MCNext == \/ FieldInit /\ Next /\ UNCHANGED fieldVars
          \/ Init /\ FieldNext /\ UNCHANGED vars
MCSpec == MCInit /\ [][MCNext]_<<vars, fieldVars>> /\ WF_vars(Serve)
=============================================================================
