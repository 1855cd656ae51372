------------------------------- MODULE ShellMC -------------------------------
(***************************************************************************)
(* Instances for TLC: pipelines of assignments, builtins and commands for  *)
(* Variables, and texts of all items for Reader, whose length is not       *)
(* bounded.  A text is read before a pipeline of it changes the store, so  *)
(* one of the two always rests where it begins.                            *)
(***************************************************************************)
EXTENDS Variables, Reader, TLC

v == "v"
Set(n, x) == n :> x
W(n) == [name |-> n, value |-> NoValue]
WV(n, x) == [name |-> n, value |-> x]
Do(prefix, cmd, args) == [prefix |-> prefix, cmd |-> cmd, args |-> args]
Cmd(prefix) == Do(prefix, "command", <<>>)

MCBase == Set("A", v)
MCSegments == {
  <<Do(Set("A", Empty), None, <<>>)>>,
  <<Do(Set("A", v), None, <<>>), Do(Set("B", v), None, <<>>)>>,
  <<Do(<<>>, "export", <<WV("B", v), WV("1x", v), W("A")>>)>>,
  <<Do(Set("A", v), "export", <<W("A"), WV("A", Empty), WV("A", v)>>)>>,
  <<Do(<<>>, "set", <<WV("B", v), W("-x"), WV("1x", v), W("f")>>)>>,
  <<Do(<<>>, "unset", <<W("--"), W("f"), W("B")>>)>>,
  <<Do(<<>>, "unset", <<W("-v"), W("-x"), W("A"), W("f")>>)>>,
  <<Do(<<>>, "unset", <<W("-f"), W("-v"), W("A")>>)>>,
  <<Cmd(Set("B", v)), Do(<<>>, "export", <<WV("A", Empty), W("A")>>),
    Cmd(Set("A", v)), Cmd(<<>>)>>,
  <<Do(Set("B", Empty), "f", <<>>), Do(<<>>, "unset", <<W("A")>>), Cmd(Set("B", v))>>,
  <<Do(Set("A", v), None, <<>>), Do(Set("B", v), "f", <<>>)>>}

MCItems == AllItems \ {"&", "||", "elif", "until", "while"}

MCInit == Init /\ TextInit
MCNext == \/ Init /\ ReadNext /\ UNCHANGED vars
          \/ TextInit /\ Next /\ UNCHANGED textVars
MCSpec == MCInit /\ [][MCNext]_<<vars, textVars>>
=============================================================================
