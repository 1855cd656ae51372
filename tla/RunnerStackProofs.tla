--------------------------- MODULE RunnerStackProofs ---------------------------
(***************************************************************************)
(* Proofs about RunnerStack, for every value of its constants.             *)
(*                                                                         *)
(* The argument: how the stack is nested (WellNested) fixes the loop       *)
(* counter of every Runner from the counter of the Runner below it, so a   *)
(* Runner that is not inside a loop has counter 0; a signal is in flight   *)
(* only in a Runner with a positive counter, so it never reaches the       *)
(* outermost Runner or that of a sourced file without a loop above it.     *)
(* The last two sections follow the marked output and the signals, from    *)
(* what each step leaves of the stack.                                     *)
(***************************************************************************)
EXTENDS RunnerStack, TLAPS, FiniteSetTheorems, SequenceTheorems

WellNested(s) ==
  /\ \A i \in 1..Len(s) : s[i].role = "main" <=> i = 1
  /\ \A i \in 1..Len(s) : s[i].loop_depth = Inherited(s, i) + Hosting(s, i)
  /\ \A i \in 1..Len(s) : s[i].in_loop => s[i].loop_depth > 0

(* A Runner that saved a store saved the one its position accounts for.    *)
SavedScoped(s) ==
  \A i \in 1..Len(s) :
    s[i].role \in {"function", "subshell"} => Scoped(s[i].saved, s, i - 1)

SignalInLoop == signal # NoSignal => Top.loop_depth > 0

IInv ==
  /\ TypeOK
  /\ WellNested(stack)
  /\ SavedScoped(stack)
  /\ FunctionStateScoped
  /\ SignalInLoop
  /\ status = "done" => signal = NoSignal

-----------------------------------------------------------------------------
(* The three ways in which a step changes the stack.                       *)

LEMMA ReplaceFacts ==
  ASSUME NEW s \in Seq(Frames), s # <<>>, NEW f \in Frames
  PROVE  LET t == [s EXCEPT ![Len(s)] = f]
         IN /\ t \in Seq(Frames) /\ t # <<>> /\ Len(t) = Len(s)
            /\ t[Len(s)] = f
            /\ \A i \in 1..(Len(s) - 1) : t[i] = s[i]
  OBVIOUS

LEMMA EnterFacts ==
  ASSUME NEW s \in Seq(Frames), s # <<>>, NEW f \in Frames, NEW g \in Frames
  PROVE  LET t == Append([s EXCEPT ![Len(s)] = f], g)
         IN /\ t \in Seq(Frames) /\ t # <<>> /\ Len(t) = Len(s) + 1
            /\ t[Len(s) + 1] = g
            /\ t[Len(s)] = f
            /\ \A i \in 1..(Len(s) - 1) : t[i] = s[i]
  BY ReplaceFacts

LEMMA ReturnFacts ==
  ASSUME NEW s \in Seq(Frames), Len(s) > 1, NEW f \in Frames
  PROVE  LET t == Append(SubSeq(s, 1, Len(s) - 2), f)
         IN /\ t \in Seq(Frames) /\ t # <<>> /\ Len(t) = Len(s) - 1
            /\ t[Len(s) - 1] = f
            /\ \A i \in 1..(Len(s) - 2) : t[i] = s[i]
<1> DEFINE u == SubSeq(s, 1, Len(s) - 2)
<1>1. /\ u \in Seq(Frames) /\ Len(u) = Len(s) - 2
      /\ \A i \in 1..(Len(s) - 2) : u[i] = s[i]
  <2> DEFINE k == Len(s) - 2
  <2>1. k \in Nat /\ \A i \in 1..k : s[i] \in Frames
    OBVIOUS
  <2> HIDE DEF k
  <2>2. /\ SubSeq(s, 1, k) \in Seq(Frames)
        /\ Len(SubSeq(s, 1, k)) = IF 1 <= k THEN k - 1 + 1 ELSE 0
        /\ \A i \in 1..(k - 1 + 1) : SubSeq(s, 1, k)[i] = s[1 + i - 1]
    BY <2>1, SubSeqProperties
  <2>3. /\ SubSeq(s, 1, k) \in Seq(Frames)
        /\ Len(SubSeq(s, 1, k)) = k
        /\ \A i \in 1..k : SubSeq(s, 1, k)[i] = s[i]
    BY <2>1, <2>2
  <2> QED
    BY <2>3 DEF k
<1> HIDE DEF u
<1>2. LET t == Append(u, f)
      IN /\ t \in Seq(Frames) /\ t # <<>> /\ Len(t) = Len(s) - 1
         /\ t[Len(s) - 1] = f
         /\ \A i \in 1..(Len(s) - 2) : t[i] = s[i]
  BY <1>1
<1> QED
  BY <1>2 DEF u

-----------------------------------------------------------------------------
(* Counting the function calls among the first k Runners.                  *)

LEMMA CallsFinite ==
  ASSUME NEW s, NEW k \in Nat
  PROVE  IsFiniteSet(Calls(s, k)) /\ Cardinality(Calls(s, k)) \in Nat
<1>1. Calls(s, k) \in SUBSET (1..k)
  BY DEF Calls
<1>2. IsFiniteSet(1..k)
  BY FS_Interval
<1>3. IsFiniteSet(Calls(s, k))
  BY <1>1, <1>2, FS_Subset
<1> QED
  BY <1>3, FS_CardinalityType

SameCalls(s, t, k) ==
  \A i \in 1..k :
    /\ s[i].role = "function" <=> t[i].role = "function"
    /\ s[i].role = "function" => s[i].args = t[i].args

LEMMA ScopedSame ==
  ASSUME NEW s, NEW t, NEW k \in Nat, SameCalls(s, t, k),
         NEW j \in 0..k, NEW st, Scoped(st, s, j)
  PROVE  Scoped(st, t, j)
<1>1. Calls(s, j) = Calls(t, j)
  BY DEF Calls, SameCalls
<1>2. \A i \in Calls(s, j) : i \in 1..k /\ s[i].role = "function"
  BY DEF Calls
<1> QED
  BY <1>1, <1>2 DEF Scoped, SameCalls

(* A Runner that is not a function call accounts for nothing.              *)
LEMMA ScopedSkip ==
  ASSUME NEW s, NEW k \in Nat, s[k + 1].role # "function", NEW st
  PROVE  Scoped(st, s, k + 1) <=> Scoped(st, s, k)
<1>1. Calls(s, k + 1) = Calls(s, k)
  BY DEF Calls
<1> QED
  BY <1>1 DEF Scoped

(* A function call accounts for one level of func_depth.                   *)
LEMMA ScopedCall ==
  ASSUME NEW s, NEW k \in Nat, s[k + 1].role = "function",
         NEW st, NEW st2, Scoped(st, s, k),
         st2.func_depth = st.func_depth + 1,
         st2.positional <= s[k + 1].args
  PROVE  Scoped(st2, s, k + 1)
<1>1. Calls(s, k + 1) = Calls(s, k) \cup {k + 1}
  BY DEF Calls
<1>2. k + 1 \notin Calls(s, k)
  BY DEF Calls
<1>3. Cardinality(Calls(s, k + 1)) = Cardinality(Calls(s, k)) + 1
  BY <1>1, <1>2, CallsFinite, FS_AddElement
<1>4. \A i \in Calls(s, k) : ~(k + 1 <= i)
  BY DEF Calls
<1> QED
  BY <1>1, <1>3, <1>4 DEF Scoped

LEMMA CallCounted ==
  ASSUME NEW s, NEW k \in Nat, s[k + 1].role = "function",
         NEW st, Scoped(st, s, k + 1)
  PROVE  st.func_depth = Cardinality(Calls(s, k)) + 1
<1>1. Calls(s, k + 1) = Calls(s, k) \cup {k + 1}
  BY DEF Calls
<1>2. k + 1 \notin Calls(s, k)
  BY DEF Calls
<1> QED
  BY <1>1, <1>2, CallsFinite, FS_AddElement DEF Scoped

-----------------------------------------------------------------------------
(* Nesting survives each of the three changes.                             *)

Nested(s) == s \in Seq(Frames) /\ s # <<>> /\ WellNested(s) /\ SavedScoped(s)

SameKind(f, g) ==
  /\ f.role = "main" <=> g.role = "main"
  /\ f.role = "source" <=> g.role = "source"
  /\ f.role = "function" <=> g.role = "function"
  /\ f.role = "subshell" <=> g.role = "subshell"
  /\ f.role \in LoopRoles <=> g.role \in LoopRoles
  /\ f.role = "function" => f.args = g.args
  /\ f.role \in {"function", "subshell"} => f.saved = g.saved

LEMMA InheritedNat ==
  ASSUME NEW s \in Seq(Frames), NEW i \in 1..Len(s)
  PROVE  s[i].loop_depth \in Nat /\ Inherited(s, i) \in Nat
<1>1. \A k \in 1..Len(s) : s[k] \in Frames
  OBVIOUS
<1>2. \A k \in 1..Len(s) : s[k].loop_depth \in Nat
  BY <1>1 DEF Frames
<1>3. i # 1 => i - 1 \in 1..Len(s)
  OBVIOUS
<1> QED
  BY <1>2, <1>3 DEF Inherited

LEMMA ReplaceNested ==
  ASSUME NEW s, Nested(s), NEW f \in Frames, SameKind(f, s[Len(s)]),
         f.loop_depth = s[Len(s)].loop_depth,
         f.in_loop => f.loop_depth > 0
  PROVE  /\ Nested([s EXCEPT ![Len(s)] = f])
         /\ \A st : Scoped(st, s, Len(s)) =>
                      Scoped(st, [s EXCEPT ![Len(s)] = f], Len(s))
<1> DEFINE n == Len(s)
           t == [s EXCEPT ![Len(s)] = f]
<1>1. /\ t \in Seq(Frames) /\ t # <<>> /\ Len(t) = n
      /\ t[n] = f /\ n \in Nat \ {0}
      /\ \A i \in 1..(n - 1) : t[i] = s[i]
  BY ReplaceFacts DEF Nested
<1>2. SameCalls(s, t, n)
  BY <1>1 DEF SameCalls, SameKind
<1> HIDE DEF t
<1>3. WellNested(t)
  <2>1. \A i \in 1..n : Inherited(t, i) = Inherited(s, i)
    BY <1>1 DEF Inherited, SameKind, Nested
  <2>2. \A i \in 1..n : Hosting(t, i) = Hosting(s, i)
    BY <1>1 DEF Hosting, SameKind, Nested
  <2>3. \A i \in 1..n : t[i].loop_depth = s[i].loop_depth
    BY <1>1
  <2>4. \A i \in 1..n : t[i].role = "main" <=> s[i].role = "main"
    BY <1>1 DEF SameKind
  <2>5. \A i \in 1..n : t[i].in_loop => t[i].loop_depth > 0
    BY <1>1 DEF Nested, WellNested
  <2> QED
    BY <1>1, <2>1, <2>2, <2>3, <2>4, <2>5 DEF Nested, WellNested
<1>4. SavedScoped(t)
  <2> SUFFICES ASSUME NEW i \in 1..n, t[i].role \in {"function", "subshell"}
               PROVE  Scoped(t[i].saved, t, i - 1)
    BY <1>1 DEF SavedScoped
  <2>1. s[i].role \in {"function", "subshell"} /\ t[i].saved = s[i].saved
    BY <1>1 DEF SameKind
  <2>2. Scoped(t[i].saved, s, i - 1)
    BY <2>1 DEF Nested, SavedScoped
  <2> QED
    BY <1>1, <1>2, <2>2, ScopedSame
<1>5. \A st : Scoped(st, s, n) => Scoped(st, t, n)
  BY <1>1, <1>2, ScopedSame
<1> QED
  BY <1>1, <1>3, <1>4, <1>5 DEF t, Nested

(* Frame g entered above f, which is the top Runner, perhaps now in a loop.*)
LEMMA EnterNested ==
  ASSUME NEW s, Nested(s), NEW f \in Frames, NEW g \in Frames,
         SameKind(f, s[Len(s)]),
         f.loop_depth = s[Len(s)].loop_depth
                          + IF g.role \in LoopRoles THEN 1 ELSE 0,
         f.in_loop => f.loop_depth > 0,
         g.role # "main",
         g.loop_depth = IF g.role = "source" THEN 0 ELSE f.loop_depth,
         g.in_loop => g.loop_depth > 0,
         g.role \in {"function", "subshell"} => Scoped(g.saved, s, Len(s))
  PROVE  LET t == Append([s EXCEPT ![Len(s)] = f], g)
         IN /\ Nested(t)
            /\ SameCalls(s, t, Len(s))
<1> DEFINE n == Len(s)
           t == Append([s EXCEPT ![Len(s)] = f], g)
<1>1. /\ t \in Seq(Frames) /\ t # <<>> /\ Len(t) = n + 1
      /\ t[n + 1] = g /\ t[n] = f /\ n \in Nat \ {0}
      /\ \A i \in 1..(n - 1) : t[i] = s[i]
  BY EnterFacts DEF Nested
<1>2. SameCalls(s, t, n)
  BY <1>1 DEF SameCalls, SameKind
<1> HIDE DEF t
<1>3. WellNested(t)
  <2>1. /\ \A i \in 1..n : Inherited(t, i) = Inherited(s, i)
        /\ Inherited(t, n + 1) = g.loop_depth
    BY <1>1 DEF Inherited, SameKind, Nested
  <2>2. /\ \A i \in 1..(n - 1) : Hosting(t, i) = Hosting(s, i)
        /\ Hosting(t, n) = IF g.role \in LoopRoles THEN 1 ELSE 0
        /\ Hosting(s, n) = 0
        /\ Hosting(t, n + 1) = 0
    BY <1>1 DEF Hosting, SameKind, Nested
  <2>3. /\ \A i \in 1..(n - 1) : t[i].loop_depth = Inherited(t, i) + Hosting(t, i)
        /\ t[n].loop_depth = Inherited(t, n) + Hosting(t, n)
        /\ t[n + 1].loop_depth = Inherited(t, n + 1) + Hosting(t, n + 1)
    <3>1. \A i \in 1..(n - 1) : s[i].loop_depth = Inherited(s, i) + Hosting(s, i)
      BY <1>1 DEF Nested, WellNested
    <3>2. s[n].loop_depth = Inherited(s, n) + Hosting(s, n)
      BY <1>1 DEF Nested, WellNested
    <3>3. s[n].loop_depth \in Nat /\ g.loop_depth \in Nat
      <4>1. s[n] \in Frames
        BY <1>1 DEF Nested
      <4> QED
        BY <4>1 DEF Frames
    <3>4. \A i \in 1..(n - 1) : t[i].loop_depth = Inherited(t, i) + Hosting(t, i)
      BY <1>1, <2>1, <2>2, <3>1
    <3>5. t[n].loop_depth = Inherited(t, n) + Hosting(t, n)
      <4>1. Inherited(t, n) = Inherited(s, n)
        BY <1>1, <2>1
      <4>2. s[n].loop_depth = Inherited(t, n) + 0
        BY <2>2, <3>2, <4>1
      <4>3. t[n].loop_depth = s[n].loop_depth + Hosting(t, n)
        BY <1>1, <2>2
      <4>4. Inherited(t, n) \in Nat
        BY <1>1, <4>1, InheritedNat DEF Nested
      <4> HIDE DEF n
      <4> QED
        BY <3>3, <4>2, <4>3, <4>4
    <3>6. t[n + 1].loop_depth = Inherited(t, n + 1) + Hosting(t, n + 1)
      BY <1>1, <2>1, <2>2, <3>3
    <3> QED
      BY <3>4, <3>5, <3>6
  <2>4. \A i \in 1..(n + 1) : t[i].role = "main" <=> i = 1
    BY <1>1 DEF SameKind, Nested, WellNested
  <2>5. \A i \in 1..(n + 1) : t[i].in_loop => t[i].loop_depth > 0
    BY <1>1 DEF Nested, WellNested
  <2> QED
    BY <1>1, <2>3, <2>4, <2>5 DEF WellNested
<1>4. SavedScoped(t)
  <2> SUFFICES ASSUME NEW i \in 1..(n + 1),
                      t[i].role \in {"function", "subshell"}
               PROVE  Scoped(t[i].saved, t, i - 1)
    BY <1>1 DEF SavedScoped
  <2>1. CASE i = n + 1
    BY <1>1, <1>2, <2>1, ScopedSame
  <2>2. CASE i \in 1..n
    <3>1. s[i].role \in {"function", "subshell"} /\ t[i].saved = s[i].saved
      BY <1>1, <2>2 DEF SameKind
    <3>2. Scoped(t[i].saved, s, i - 1)
      BY <1>1, <2>2, <3>1 DEF Nested, SavedScoped
    <3> QED
      BY <1>1, <1>2, <2>2, <3>2, ScopedSame
  <2> QED
    BY <1>1, <2>1, <2>2
<1> QED
  BY <1>1, <1>2, <1>3, <1>4 DEF t, Nested

(* The top Runner gone and f in place of the one below it.                 *)
LEMMA ReturnNested ==
  ASSUME NEW s, Nested(s), Len(s) > 1, NEW f \in Frames,
         SameKind(f, s[Len(s) - 1]),
         f.loop_depth = Inherited(s, Len(s) - 1),
         f.in_loop => f.loop_depth > 0
  PROVE  LET t == Append(SubSeq(s, 1, Len(s) - 2), f)
         IN /\ Nested(t)
            /\ \A st : Scoped(st, s, Len(s) - 1) => Scoped(st, t, Len(s) - 1)
<1> DEFINE n == Len(s) - 1
           t == Append(SubSeq(s, 1, Len(s) - 2), f)
<1>1. /\ t \in Seq(Frames) /\ t # <<>> /\ Len(t) = n
      /\ t[n] = f /\ n \in Nat \ {0} /\ Len(s) = n + 1
      /\ \A i \in 1..(n - 1) : t[i] = s[i]
  <2>1. s \in Seq(Frames) /\ Len(s) \in Nat
    BY DEF Nested
  <2>2. /\ t \in Seq(Frames) /\ t # <<>> /\ Len(t) = Len(s) - 1
        /\ t[Len(s) - 1] = f
        /\ \A i \in 1..(Len(s) - 2) : t[i] = s[i]
    BY <2>1, ReturnFacts
  <2>3. n - 1 = Len(s) - 2
    BY <2>1
  <2> HIDE DEF t
  <2> QED
    BY <2>1, <2>2, <2>3
<1> HIDE DEF t
<1>2. SameCalls(s, t, n)
  BY <1>1 DEF SameCalls, SameKind
<1>3. WellNested(t)
  <2>1. \A i \in 1..n : Inherited(t, i) = Inherited(s, i)
    BY <1>1 DEF Inherited, SameKind, Nested
  <2>2. /\ \A i \in 1..(n - 1) : Hosting(t, i) = Hosting(s, i)
        /\ Hosting(t, n) = 0
    BY <1>1 DEF Hosting, SameKind, Nested
  <2>3. \A i \in 1..n : t[i].loop_depth = Inherited(t, i) + Hosting(t, i)
    <3>1. \A i \in 1..(n - 1) : s[i].loop_depth = Inherited(s, i) + Hosting(s, i)
      BY <1>1 DEF Nested, WellNested
    <3>2. f.loop_depth \in Nat
      BY DEF Frames
    <3> QED
      BY <1>1, <2>1, <2>2, <3>1, <3>2
  <2>4. \A i \in 1..n : t[i].role = "main" <=> i = 1
    BY <1>1 DEF SameKind, Nested, WellNested
  <2>5. \A i \in 1..n : t[i].in_loop => t[i].loop_depth > 0
    BY <1>1 DEF Nested, WellNested
  <2> QED
    BY <1>1, <2>3, <2>4, <2>5 DEF WellNested
<1>4. SavedScoped(t)
  <2> SUFFICES ASSUME NEW i \in 1..n, t[i].role \in {"function", "subshell"}
               PROVE  Scoped(t[i].saved, t, i - 1)
    BY <1>1 DEF SavedScoped
  <2>1. s[i].role \in {"function", "subshell"} /\ t[i].saved = s[i].saved
    BY <1>1 DEF SameKind
  <2>2. Scoped(t[i].saved, s, i - 1)
    BY <1>1, <2>1 DEF Nested, SavedScoped
  <2> QED
    BY <1>1, <1>2, <2>2, ScopedSame
<1>5. \A st : Scoped(st, s, n) => Scoped(st, t, n)
  BY <1>1, <1>2, ScopedSame
<1> QED
  BY <1>1, <1>3, <1>4, <1>5 DEF t, Nested

-----------------------------------------------------------------------------
(* The frames that the actions build.                                      *)

Like(g, f) ==
  /\ g \in Frames /\ SameKind(g, f)
  /\ g.role = f.role /\ g.args = f.args /\ g.saved = f.saved

LEMMA WithRcFacts ==
  ASSUME NEW f \in Frames, NEW rc \in Rcs
  PROVE  LET g == WithRc(f, rc)
         IN Like(g, f) /\ g.in_loop = f.in_loop /\ g.loop_depth = f.loop_depth
  BY DEF WithRc, Frames, Like, SameKind

LEMMA EnterLoopFacts ==
  ASSUME NEW f \in Frames
  PROVE  LET g == EnterLoop(f)
         IN Like(g, f) /\ g.in_loop /\ g.loop_depth = f.loop_depth + 1
<1>1. EnterLoop(f) \in Frames
  <2>1. [f EXCEPT !.in_loop = TRUE] \in Frames
    BY DEF Frames
  <2>2. f.loop_depth + 1 \in Nat
    BY DEF Frames
  <2>3. ASSUME NEW g \in Frames, NEW n \in Nat
        PROVE  [g EXCEPT !.loop_depth = n] \in Frames
    BY DEF Frames
  <2>4. EnterLoop(f) = [[f EXCEPT !.in_loop = TRUE] EXCEPT
                          !.loop_depth = f.loop_depth + 1]
    BY DEF EnterLoop, Frames
  <2> QED
    BY <2>1, <2>2, <2>3, <2>4
<1>2. LET g == EnterLoop(f)
      IN /\ g.role = f.role /\ g.args = f.args /\ g.saved = f.saved
         /\ g.in_loop = TRUE /\ g.loop_depth = f.loop_depth + 1
  BY DEF EnterLoop, Frames
<1> QED
  BY <1>1, <1>2 DEF Like, SameKind

LEMMA LeaveLoopFacts ==
  ASSUME NEW f \in Frames, f.loop_depth > 0
  PROVE  LET g == LeaveLoop(f)
         IN Like(g, f) /\ ~g.in_loop /\ g.loop_depth = f.loop_depth - 1
<1>1. LeaveLoop(f) \in Frames
  <2>1. [f EXCEPT !.in_loop = FALSE] \in Frames
    BY DEF Frames
  <2>2. f.loop_depth - 1 \in Nat
    BY DEF Frames
  <2>3. ASSUME NEW g \in Frames, NEW n \in Nat
        PROVE  [g EXCEPT !.loop_depth = n] \in Frames
    BY DEF Frames
  <2>4. LeaveLoop(f) = [[f EXCEPT !.in_loop = FALSE] EXCEPT
                          !.loop_depth = f.loop_depth - 1]
    BY DEF LeaveLoop, Frames
  <2> QED
    BY <2>1, <2>2, <2>3, <2>4
<1>2. LET g == LeaveLoop(f)
      IN /\ g.role = f.role /\ g.args = f.args /\ g.saved = f.saved
         /\ g.in_loop = FALSE /\ g.loop_depth = f.loop_depth - 1
  BY DEF LeaveLoop, Frames
<1> QED
  BY <1>1, <1>2 DEF Like, SameKind

LEMMA NewRunnerFacts ==
  ASSUME NEW role \in Roles, NEW b \in BOOLEAN, NEW n \in Nat
  PROVE  LET g == NewRunner(role, b, n)
         IN g \in Frames /\ g.role = role /\ g.in_loop = b /\ g.loop_depth = n
  BY BoundsAssumption, RcsAssumption DEF NewRunner, Frames, NewStore, Stores

LEMMA BodyFacts ==
  ASSUME NEW role \in Roles, NEW f \in Frames
  PROVE  LET g == Body(role, f)
         IN /\ g \in Frames /\ g.role = role
            /\ g.in_loop = f.in_loop /\ g.loop_depth = f.loop_depth
<1>1. f.in_loop \in BOOLEAN /\ f.loop_depth \in Nat
  BY DEF Frames
<1> QED
  BY <1>1, NewRunnerFacts DEF Body

LEMMA MarkFacts ==
  ASSUME mark \in Marks, Depth \in Nat \ {0}
  PROVE  /\ NoMark \in Marks /\ Lost \in Marks
         /\ InRunner(Depth) \in Marks
         /\ HandToConstruct \in Marks
         /\ HandToRunner \in Marks
         /\ DropRunner(mark) \in Marks
         /\ DropConstruct(DropRunner(mark)) \in Marks
         /\ InRunner(Depth - 1) \in Marks
  BY DEF Marks, NoMark, Lost, InRunner, InConstruct, HandToConstruct,
         HandToRunner, DropRunner, DropConstruct

(* What the invariant says of the top Runner and of the one below it.      *)
LEMMA StackFacts ==
  ASSUME IInv
  PROVE  /\ Nested(stack) /\ stack \in Seq(Frames)
         /\ Depth \in Nat \ {0} /\ Top \in Frames
         /\ Top.in_loop => Top.loop_depth > 0
         /\ Top.role = "main" <=> Depth = 1
         /\ Depth > 1 =>
              /\ Caller \in Frames
              /\ Caller.in_loop => Caller.loop_depth > 0
              /\ Top.role \in LoopRoles => Caller.loop_depth > 0
              /\ LET own == IF Top.role \in LoopRoles THEN 1 ELSE 0
                 IN Inherited(stack, Depth - 1) = Caller.loop_depth - own
              /\ Top.role # "source" => Top.loop_depth = Caller.loop_depth
         /\ Top.role \in {"main", "source"} => Top.loop_depth = 0
<1>1. /\ Nested(stack) /\ stack \in Seq(Frames)
      /\ Depth \in Nat \ {0} /\ Top \in Frames
      /\ Depth > 1 => Caller \in Frames
  BY DEF IInv, TypeOK, Nested, Depth, Top, Caller
<1>2. /\ Top.in_loop => Top.loop_depth > 0
      /\ Top.role = "main" <=> Depth = 1
      /\ Depth > 1 => (Caller.in_loop => Caller.loop_depth > 0)
  <2>1. Depth \in 1..Len(stack)
    BY <1>1 DEF Depth
  <2>2. Depth > 1 => Depth - 1 \in 1..Len(stack)
    BY <1>1 DEF Depth
  <2>3. WellNested(stack)
    BY <1>1 DEF Nested
  <2> HIDE DEF Depth
  <2>4. stack[Depth].in_loop => stack[Depth].loop_depth > 0
    BY <2>1, <2>3 DEF WellNested
  <2>5. stack[Depth].role = "main" <=> Depth = 1
    BY <2>1, <2>3 DEF WellNested
  <2>6. Depth > 1 => (stack[Depth - 1].in_loop => stack[Depth - 1].loop_depth > 0)
    BY <2>2, <2>3 DEF WellNested
  <2> QED
    BY <2>4, <2>5, <2>6 DEF Top, Caller
<1>3. Top.loop_depth = Inherited(stack, Depth) /\ Top.loop_depth \in Nat
  <2>1. Hosting(stack, Depth) = 0
    BY <1>1 DEF Hosting, Depth
  <2>2. Top.loop_depth = Inherited(stack, Depth) + Hosting(stack, Depth)
    BY <1>1 DEF Nested, WellNested, Top, Depth
  <2> QED
    BY <1>1, <2>1, <2>2, InheritedNat DEF Top, Depth
<1>4. Top.role \in {"main", "source"} => Top.loop_depth = 0
  BY <1>2, <1>3 DEF Inherited, Top
<1>5. ASSUME Depth > 1
      PROVE  /\ Top.role \in LoopRoles => Caller.loop_depth > 0
             /\ Inherited(stack, Depth - 1) =
                  Caller.loop_depth - IF Top.role \in LoopRoles THEN 1 ELSE 0
             /\ Top.role # "source" => Top.loop_depth = Caller.loop_depth
  <2>1. Caller.loop_depth = Inherited(stack, Depth - 1) + Hosting(stack, Depth - 1)
    BY <1>1, <1>5 DEF Nested, WellNested, Caller, Depth
  <2>2. Hosting(stack, Depth - 1) = IF Top.role \in LoopRoles THEN 1 ELSE 0
    BY <1>1, <1>5 DEF Hosting, Top, Depth
  <2>3. Depth - 1 \in 1..Len(stack)
    BY <1>1, <1>5 DEF Depth
  <2>4. Inherited(stack, Depth - 1) \in Nat
    BY <1>1, <2>3, InheritedNat
  <2>5. Top.role # "source" => Top.loop_depth = Caller.loop_depth
    BY <1>1, <1>2, <1>3, <1>5 DEF Inherited, Caller, Top
  <2> QED
    BY <2>1, <2>2, <2>4, <2>5
<1> QED
  BY <1>1, <1>2, <1>3, <1>4, <1>5

-----------------------------------------------------------------------------
(* The three changes of the stack as steps from a state with IInv.         *)

LEMMA ReplaceStep ==
  ASSUME IInv, NEW f \in Frames, SameKind(f, Top),
         f.loop_depth = Top.loop_depth, f.in_loop => Top.in_loop,
         stack' = Replace(f)
  PROVE  /\ Nested(stack') /\ Scoped(store, stack', Depth')
         /\ \A st : Scoped(st, stack, Depth) => Scoped(st, stack', Depth')
         /\ Top' = f
<1>1. Nested(stack) /\ (f.in_loop => f.loop_depth > 0)
  BY StackFacts
<1>2. stack \in Seq(Frames) /\ stack # <<>>
  BY <1>1 DEF Nested
<1> DEFINE t == [stack EXCEPT ![Len(stack)] = f]
<1>3. stack' = t
  BY DEF Replace, Depth
<1>4. /\ Nested(t)
      /\ \A st : Scoped(st, stack, Len(stack)) => Scoped(st, t, Len(stack))
  BY <1>1, ReplaceNested DEF Top, Depth
<1>5. Len(t) = Len(stack) /\ t[Len(stack)] = f
  BY <1>2, ReplaceFacts
<1> HIDE DEF t
<1>6. Scoped(store, stack, Depth)
  BY DEF IInv, FunctionStateScoped
<1> QED
  BY <1>3, <1>4, <1>5, <1>6 DEF Top, Depth

LEMMA EnterStep ==
  ASSUME IInv, NEW f \in Frames, NEW g \in Frames,
         SameKind(f, Top),
         f.loop_depth = Top.loop_depth
                          + IF g.role \in LoopRoles THEN 1 ELSE 0,
         f.in_loop => f.loop_depth > 0,
         g.role # "main",
         g.loop_depth = IF g.role = "source" THEN 0 ELSE f.loop_depth,
         g.in_loop => g.loop_depth > 0,
         g.role \in {"function", "subshell"} => g.saved = store,
         stack' = Enter(f, g)
  PROVE  /\ Nested(stack')
         /\ g.role # "function" => Scoped(store, stack', Depth')
         /\ g.role = "function" =>
              \A st : /\ st.func_depth = store.func_depth + 1
                      /\ st.positional <= g.args
                      => Scoped(st, stack', Depth')
<1>1. Nested(stack) /\ Scoped(store, stack, Depth)
  BY StackFacts DEF IInv, FunctionStateScoped
<1>2. stack \in Seq(Frames) /\ stack # <<>> /\ Depth \in Nat
  BY <1>1 DEF Nested, Depth
<1> DEFINE t == Append([stack EXCEPT ![Len(stack)] = f], g)
<1>3. stack' = t
  BY DEF Enter, Replace, Depth
<1>4. Nested(t) /\ SameCalls(stack, t, Len(stack))
  BY <1>1, EnterNested DEF Top, Depth
<1>5. Len(t) = Len(stack) + 1 /\ t[Len(stack) + 1] = g
  BY <1>2, EnterFacts
<1> HIDE DEF t
<1>6. Depth' = Depth + 1 /\ t[Depth + 1] = g
  BY <1>3, <1>5 DEF Depth
<1>7. Scoped(store, t, Depth)
  BY <1>1, <1>2, <1>4, ScopedSame DEF Depth
<1>8. g.role # "function" => Scoped(store, t, Depth + 1)
  BY <1>2, <1>6, <1>7, ScopedSkip
<1>9. ASSUME g.role = "function", NEW st,
             st.func_depth = store.func_depth + 1, st.positional <= g.args
      PROVE  Scoped(st, t, Depth + 1)
  BY <1>2, <1>6, <1>7, <1>9, ScopedCall
<1> QED
  BY <1>3, <1>4, <1>6, <1>8, <1>9

LEMMA ReturnStep ==
  ASSUME IInv, Depth > 1, NEW f \in Frames, SameKind(f, Caller),
         f.loop_depth = Inherited(stack, Depth - 1),
         f.in_loop => f.loop_depth > 0,
         stack' = Return(f)
  PROVE  /\ Nested(stack') /\ Top' = f
         /\ \A st : Scoped(st, stack, Depth - 1) => Scoped(st, stack', Depth')
         /\ Top.role # "function" => Scoped(store, stack', Depth')
<1>1. Nested(stack) /\ Scoped(store, stack, Depth) /\ Depth \in Nat
  BY StackFacts DEF IInv, FunctionStateScoped
<1>2. stack \in Seq(Frames) /\ Len(stack) > 1
  BY <1>1 DEF Nested, Depth
<1> DEFINE t == Append(SubSeq(stack, 1, Len(stack) - 2), f)
<1>3. stack' = t
  BY DEF Return, Depth
<1>4. /\ Nested(t)
      /\ \A st : Scoped(st, stack, Len(stack) - 1) => Scoped(st, t, Len(stack) - 1)
  BY <1>1, <1>2, ReturnNested DEF Caller, Depth
<1>5. Len(t) = Len(stack) - 1 /\ t[Len(stack) - 1] = f
  BY <1>2, ReturnFacts
<1> HIDE DEF t
<1>6. Depth' = Depth - 1 /\ t[Depth - 1] = f
  BY <1>3, <1>5 DEF Depth
<1>7. Top.role # "function" => Scoped(store, stack, Depth - 1)
  <2>1. Depth - 1 \in Nat /\ (Depth - 1) + 1 = Depth
    BY <1>1
  <2>2. stack[(Depth - 1) + 1].role # "function" =>
          (Scoped(store, stack, (Depth - 1) + 1) <=> Scoped(store, stack, Depth - 1))
    BY <2>1, ScopedSkip
  <2> QED
    BY <1>1, <2>1, <2>2 DEF Top
<1> QED
  BY <1>3, <1>4, <1>6, <1>7 DEF Top, Depth

(* A loop ends: its body or condition is gone and the counter goes down.   *)
LEMMA LeaveLoopStep ==
  ASSUME IInv, Depth > 1, Top.role \in LoopRoles,
         NEW f \in Frames, Like(f, LeaveLoop(Caller)),
         f.in_loop = LeaveLoop(Caller).in_loop,
         f.loop_depth = LeaveLoop(Caller).loop_depth,
         stack' = Return(f)
  PROVE  Nested(stack') /\ Top' = f /\ Scoped(store, stack', Depth')
<1>1. Caller \in Frames /\ Caller.loop_depth > 0
  BY StackFacts
<1>2. SameKind(f, Caller) /\ ~f.in_loop /\ f.loop_depth = Caller.loop_depth - 1
  BY <1>1, LeaveLoopFacts DEF Like, SameKind
<1>3. f.loop_depth = Inherited(stack, Depth - 1)
  BY <1>2, StackFacts
<1>4. Top.role # "function"
  BY DEF LoopRoles
<1> QED
  BY <1>2, <1>3, <1>4, ReturnStep

(* Any other construct ends.                                               *)
LEMMA LeaveStep ==
  ASSUME IInv, Depth > 1, Top.role \notin LoopRoles,
         NEW f \in Frames, Like(f, Caller),
         f.in_loop = Caller.in_loop, f.loop_depth = Caller.loop_depth,
         stack' = Return(f)
  PROVE  /\ Nested(stack') /\ Top' = f
         /\ \A st : Scoped(st, stack, Depth - 1) => Scoped(st, stack', Depth')
         /\ Top.role # "function" => Scoped(store, stack', Depth')
<1>1. Caller.loop_depth \in Nat
  BY StackFacts DEF Frames
<1>2. f.loop_depth = Inherited(stack, Depth - 1)
  BY <1>1, StackFacts
<1>3. f.in_loop => f.loop_depth > 0
  BY StackFacts
<1> QED
  BY <1>2, <1>3, ReturnStep DEF Like

LEMMA LeaveFunctionFacts ==
  ASSUME IInv, Depth > 1, Top.role = "function"
  PROVE  LeaveFunction(Top) = Top.saved /\ Top.saved \in Stores
         /\ Scoped(Top.saved, stack, Depth - 1)
<1>1. Top \in Frames /\ Depth \in Nat /\ Nested(stack)
  BY StackFacts
<1>2. Top.saved \in Stores /\ store \in Stores
  BY <1>1 DEF Frames, IInv, TypeOK
<1>3. Scoped(Top.saved, stack, Depth - 1)
  BY <1>1 DEF Nested, SavedScoped, Top, Depth
<1>4. Top.saved.func_depth = Cardinality(Calls(stack, Depth - 1))
  BY <1>3 DEF Scoped
<1>5. store.func_depth = Cardinality(Calls(stack, Depth - 1)) + 1
  <2>1. Depth - 1 \in Nat /\ (Depth - 1) + 1 = Depth
    BY <1>1
  <2>2. Scoped(store, stack, (Depth - 1) + 1)
    BY <2>1 DEF IInv, FunctionStateScoped
  <2>3. stack[(Depth - 1) + 1].role = "function"
    BY <2>1 DEF Top
  <2> QED
    BY <2>1, <2>2, <2>3, CallCounted
<1>6. Cardinality(Calls(stack, Depth - 1)) \in Nat
  BY <1>1, CallsFinite
<1>7. store.func_depth - 1 = Top.saved.func_depth
  BY <1>4, <1>5, <1>6
<1>8. LeaveFunction(Top) = Top.saved
  BY <1>2, <1>7 DEF LeaveFunction, Stores
<1> QED
  BY <1>2, <1>3, <1>8

LEMMA SubshellFacts ==
  ASSUME IInv, Depth > 1, Top.role = "subshell"
  PROVE  Top.saved \in Stores /\ Scoped(Top.saved, stack, Depth - 1)
<1>1. Top \in Frames /\ Depth \in Nat /\ Nested(stack)
  BY StackFacts
<1> QED
  BY <1>1 DEF Nested, SavedScoped, Top, Depth, Frames

-----------------------------------------------------------------------------
(* Every action preserves the invariant.                                   *)

LEMMA Conclude ==
  ASSUME Nested(stack'), store' \in Stores, Scoped(store', stack', Depth'),
         mark' \in Marks, status' \in {"running", "done"},
         signal' \in Signals \cup {NoSignal},
         signal' # NoSignal => Top'.loop_depth > 0,
         status' = "done" => signal' = NoSignal
  PROVE  IInv'
  BY DEF IInv, TypeOK, Nested, FunctionStateScoped, SignalInLoop

(* What an action that runs a segment or ends a body starts from.          *)
LEMMA StateFacts ==
  ASSUME IInv
  PROVE  /\ store \in Stores /\ mark \in Marks /\ status \in {"running", "done"}
         /\ signal \in Signals \cup {NoSignal}
         /\ Scoped(store, stack, Depth)
         /\ 0 \in Rcs /\ 1 \in Rcs
         /\ stack' = stack => Nested(stack') /\ Depth' = Depth /\ Top' = Top
         /\ InRunner(Depth) \in Marks
         /\ Depth > 1 => /\ HandToConstruct \in Marks /\ HandToRunner \in Marks
                         /\ DropRunner(mark) \in Marks
                         /\ DropConstruct(DropRunner(mark)) \in Marks
                         /\ InRunner(Depth - 1) \in Marks
<1>1. mark \in Marks /\ Depth \in Nat \ {0} /\ Nested(stack)
  BY StackFacts DEF IInv, TypeOK
<1> QED
  BY <1>1, MarkFacts, RcsAssumption
     DEF IInv, TypeOK, FunctionStateScoped, Depth, Top

LEMMA ReplaceRc ==
  ASSUME IInv, NEW rc \in Rcs, stack' = Replace(WithRc(Top, rc))
  PROVE  /\ Nested(stack') /\ Scoped(store, stack', Depth')
         /\ \A st : Scoped(st, stack, Depth) => Scoped(st, stack', Depth')
<1>1. Top \in Frames
  BY StackFacts
<1> QED
  BY <1>1, WithRcFacts, ReplaceStep DEF Like

(* Fewer positional parameters never are more than a call was given.       *)
LEMMA ScopedFewer ==
  ASSUME NEW s \in Seq(Frames), NEW k \in 0..Len(s), NEW st \in Stores,
         Scoped(st, s, k), NEW m \in Nat, m <= st.positional
  PROVE  Scoped([st EXCEPT !.positional = m], s, k)
<1>1. \A i \in 1..Len(s) : s[i] \in Frames
  OBVIOUS
<1>2. \A i \in Calls(s, k) : i \in 1..Len(s)
  BY DEF Calls
<1>3. \A i \in Calls(s, k) : s[i] \in Frames
  BY <1>1, <1>2
<1>4. \A i \in Calls(s, k) : s[i].args \in Nat
  BY <1>3, BoundsAssumption DEF Frames
<1>5. st.positional \in Nat
  BY BoundsAssumption DEF Stores
<1> DEFINE t == [st EXCEPT !.positional = m]
<1>6. t.positional = m /\ t.func_depth = st.func_depth
  BY DEF Stores
<1> HIDE DEF t
<1>7. t.func_depth = Cardinality(Calls(s, k))
  BY <1>6 DEF Scoped
<1>8. Calls(s, k) = {} => t.positional = 0
  BY <1>5, <1>6 DEF Scoped
<1>9. ASSUME NEW i \in Calls(s, k), \A j \in Calls(s, k) : j <= i
      PROVE  t.positional <= s[i].args
  <2>1. st.positional <= s[i].args
    BY <1>9 DEF Scoped
  <2> QED
    BY <1>4, <1>5, <1>6, <2>1
<1>10. Scoped(t, s, k)
  BY <1>7, <1>8, <1>9 DEF Scoped
<1> QED
  BY <1>10 DEF t

LEMMA ShiftStep ==
  ASSUME IInv, NEW n \in 1..(MaxArgs + 1), Shift(n)
  PROVE  IInv'
<1> DEFINE m == IF store.positional < n THEN 0 ELSE store.positional - n
<1>1. store \in Stores /\ Depth \in 0..Len(stack) /\ stack \in Seq(Frames)
  BY StackFacts, StateFacts DEF Depth
<1>2. store.positional \in 0..MaxArgs
  BY <1>1 DEF Stores
<1>3. m \in Nat /\ m <= store.positional /\ m \in 0..MaxArgs
  BY <1>2, BoundsAssumption
<1>4. store' = [store EXCEPT !.positional = m]
  BY DEF Shift
<1> HIDE DEF m
<1>5. store' \in Stores
  BY <1>1, <1>3, <1>4 DEF Stores
<1>6. Scoped(store', stack, Depth)
  BY <1>1, <1>3, <1>4, StateFacts, ScopedFewer
<1>7. Nested(stack') /\ Scoped(store', stack', Depth')
  BY <1>6, StateFacts, ReplaceRc DEF Shift
<1> QED
  BY <1>5, <1>7, StateFacts, Conclude DEF Shift, NotDropped, Running

LEMMA PlainSegments ==
  ASSUME IInv,
         (\E rc \in Rcs : Simple(rc)) \/ TrivialCompound \/ EnterForWithoutWords
  PROVE  IInv'
<1>1. Top \in Frames
  BY StackFacts
<1>2. ASSUME NEW rc \in Rcs, Simple(rc)
      PROVE  IInv'
  <2>1. mark' \in Marks
    BY <1>2, StateFacts DEF Simple, NoMark
  <2> QED
    BY <1>2, <2>1, StateFacts, ReplaceRc, Conclude DEF Simple, NotDropped, Running
<1>3. ASSUME TrivialCompound
      PROVE  IInv'
  BY <1>3, StateFacts, ReplaceRc, Conclude DEF TrivialCompound, Running
<1>4. ASSUME EnterForWithoutWords
      PROVE  IInv'
  <2> DEFINE e == EnterLoop(Top)
             l == LeaveLoop(e)
             f == WithRc(l, 0)
  <2>1. Like(e, Top) /\ e.loop_depth = Top.loop_depth + 1
    BY <1>1, EnterLoopFacts
  <2>2. Top.loop_depth \in Nat /\ e \in Frames
    BY <1>1, <2>1 DEF Frames, Like
  <2>3. Like(l, e) /\ ~l.in_loop /\ l.loop_depth = Top.loop_depth
    <3>1. e.loop_depth > 0 /\ (Top.loop_depth + 1) - 1 = Top.loop_depth
      BY <2>1, <2>2
    <3> QED
      BY <2>1, <2>2, <3>1, LeaveLoopFacts
  <2> HIDE DEF e
  <2>4. Like(f, l) /\ ~f.in_loop /\ f.loop_depth = Top.loop_depth
    BY <2>3, StateFacts, WithRcFacts DEF Like
  <2> HIDE DEF l, f
  <2>5. f \in Frames /\ SameKind(f, Top)
    BY <2>1, <2>3, <2>4 DEF Like, SameKind
  <2>6. stack' = Replace(f)
    BY <1>4 DEF EnterForWithoutWords, f, l, e
  <2>7. Nested(stack') /\ Scoped(store, stack', Depth')
    BY <2>4, <2>5, <2>6, ReplaceStep
  <2> QED
    BY <1>4, <2>7, StateFacts, Conclude DEF EnterForWithoutWords, Running
<1> QED
  BY <1>2, <1>3, <1>4

LEMMA GoalNat == ASSUME IInv, NEW n \in 1..MaxCount PROVE Goal(n) \in Nat
<1>1. LoopsInReach \subseteq Nat
  BY DEF LoopsInReach
<1> QED
  BY <1>1 DEF Goal

LEMMA BreakOrContinueStep ==
  ASSUME IInv, NEW kind \in {"break", "continue"}, NEW n \in 1..MaxCount,
         BreakOrContinue(kind, n)
  PROVE  IInv'
<1>1. CASE Top.in_loop
  <2>1. signal' \in Signals
    BY <1>1, GoalNat DEF BreakOrContinue, Signals
  <2>2. stack' = stack /\ Nested(stack') /\ Scoped(store, stack', Depth')
        /\ Top'.loop_depth > 0
    BY <1>1, StackFacts, StateFacts DEF BreakOrContinue
  <2> QED
    BY <2>1, <2>2, StateFacts, Conclude DEF BreakOrContinue, NotDropped, Running
<1>2. CASE ~Top.in_loop
  BY <1>2, StateFacts, ReplaceRc, Conclude DEF BreakOrContinue, NotDropped, Running
<1> QED
  BY <1>1, <1>2

(* A Runner entered above the top one, which stays as it is.               *)
LEMMA EnterPlain ==
  ASSUME IInv, NEW g \in Frames,
         g.role \notin LoopRoles, g.role # "main",
         g.loop_depth = IF g.role = "source" THEN 0 ELSE Top.loop_depth,
         g.in_loop => g.loop_depth > 0,
         g.role \in {"function", "subshell"} => g.saved = store,
         stack' = Enter(Top, g)
  PROVE  /\ Nested(stack')
         /\ g.role # "function" => Scoped(store, stack', Depth')
         /\ g.role = "function" =>
              \A st : /\ st.func_depth = store.func_depth + 1
                      /\ st.positional <= g.args
                      => Scoped(st, stack', Depth')
<1>1. Top \in Frames /\ (Top.in_loop => Top.loop_depth > 0)
  BY StackFacts
<1>2. Top.loop_depth = Top.loop_depth + 0
  BY <1>1 DEF Frames
<1>3. SameKind(Top, Top)
  BY DEF SameKind
<1>4. Top.loop_depth = Top.loop_depth + IF g.role \in LoopRoles THEN 1 ELSE 0
  BY <1>2
<1> QED
  BY <1>1, <1>3, <1>4, EnterStep

LEMMA FunctionCallStep ==
  ASSUME IInv, NEW n \in 0..MaxArgs, FunctionCall(n)
  PROVE  IInv'
<1>1. CASE store.func_depth >= MaxFuncDepth
  BY <1>1, StateFacts, ReplaceRc, Conclude DEF FunctionCall, NotDropped, Running
<1>2. CASE ~(store.func_depth >= MaxFuncDepth)
  <2> DEFINE b == Body("function", Top)
             a == [b EXCEPT !.args = n]
             g == [b EXCEPT !.args = n, !.saved = store]
  <2>1. Top \in Frames /\ store \in Stores
    BY StackFacts, StateFacts
  <2>2. /\ b \in Frames /\ b.role = "function"
        /\ b.in_loop = Top.in_loop /\ b.loop_depth = Top.loop_depth
    BY <2>1, BodyFacts DEF Roles
  <2> HIDE DEF b
  <2>3. /\ a \in Frames /\ a.role = "function" /\ a.args = n
        /\ a.in_loop = Top.in_loop /\ a.loop_depth = Top.loop_depth
    BY <2>2 DEF Frames
  <2>4. g = [a EXCEPT !.saved = store]
    BY <2>2 DEF Frames
  <2> HIDE DEF a, g
  <2>5. /\ g \in Frames /\ g.role = "function" /\ g.args = n /\ g.saved = store
        /\ g.in_loop = Top.in_loop /\ g.loop_depth = Top.loop_depth
    BY <2>1, <2>3, <2>4 DEF Frames
  <2>6. stack' = Enter(Top, g)
        /\ store' = [positional |-> n, func_depth |-> store.func_depth + 1]
    BY <1>2 DEF FunctionCall, g, b
  <2>7. store' \in Stores
    BY <1>2, <2>1, <2>6, BoundsAssumption DEF Stores
  <2>8. g.role \notin LoopRoles /\ (g.in_loop => g.loop_depth > 0)
    BY <2>5, StackFacts DEF LoopRoles
  <2>9. /\ Nested(stack')
        /\ \A st : st.func_depth = store.func_depth + 1 /\ st.positional <= n
                   => Scoped(st, stack', Depth')
    BY <2>5, <2>6, <2>8, EnterPlain
  <2>10. Scoped(store', stack', Depth')
    BY <2>6, <2>9
  <2> QED
    BY <2>7, <2>9, <2>10, StateFacts, Conclude DEF FunctionCall, NotDropped, Running
<1> QED
  BY <1>1, <1>2

LEMMA SourceStep == ASSUME IInv, Source PROVE IInv'
<1>1. CASE Depth - 1 >= MaxSourceDepth
  BY <1>1, StateFacts, ReplaceRc, Conclude DEF Source, NotDropped, Running
<1>2. CASE ~(Depth - 1 >= MaxSourceDepth)
  <2> DEFINE g == NewRunner("source", FALSE, 0)
  <2>1. g \in Frames /\ g.role = "source" /\ ~g.in_loop /\ g.loop_depth = 0
    <3>1. "source" \in Roles /\ FALSE \in BOOLEAN /\ 0 \in Nat
      BY DEF Roles
    <3>2. g \in Frames /\ g.role = "source" /\ g.in_loop = FALSE /\ g.loop_depth = 0
      BY <3>1, NewRunnerFacts
    <3> QED
      BY <3>2
  <2> HIDE DEF g
  <2>2. stack' = Enter(Top, g)
    BY <1>2 DEF Source, g
  <2>3. Nested(stack') /\ Scoped(store, stack', Depth')
    BY <2>1, <2>2, EnterPlain DEF LoopRoles
  <2> QED
    BY <2>3, StateFacts, Conclude DEF Source, NotDropped, Running
<1> QED
  BY <1>1, <1>2

LEMMA EnterBlockStep ==
  ASSUME IInv, NEW role \in {"if_cond", "block"}, EnterBlock(role)
  PROVE  IInv'
<1> DEFINE g == Body(role, Top)
<1>1. /\ g \in Frames /\ g.role = role
      /\ g.in_loop = Top.in_loop /\ g.loop_depth = Top.loop_depth
  BY StackFacts, BodyFacts DEF Roles
<1> HIDE DEF g
<1>2. stack' = Enter(Top, g)
  BY DEF EnterBlock, g
<1>3. g.in_loop => g.loop_depth > 0
  BY <1>1, StackFacts
<1>4. Nested(stack') /\ Scoped(store, stack', Depth')
  BY <1>1, <1>2, <1>3, EnterPlain DEF LoopRoles
<1> QED
  BY <1>4, StateFacts, Conclude DEF EnterBlock, Running

LEMMA EnterSubshellStep == ASSUME IInv, EnterSubshell PROVE IInv'
<1> DEFINE b == Body("subshell", Top)
           g == [b EXCEPT !.saved = store]
<1>1. /\ b \in Frames /\ b.role = "subshell" /\ store \in Stores
      /\ b.in_loop = Top.in_loop /\ b.loop_depth = Top.loop_depth
  <2>1. Top \in Frames /\ store \in Stores /\ "subshell" \in Roles
    BY StackFacts, StateFacts DEF Roles
  <2> QED
    BY <2>1, BodyFacts
<1> HIDE DEF b
<1>2. /\ g \in Frames /\ g.role = "subshell" /\ g.saved = store
      /\ g.in_loop = Top.in_loop /\ g.loop_depth = Top.loop_depth
  BY <1>1 DEF Frames
<1>3. stack' = Enter(Top, g)
  BY DEF EnterSubshell, b
<1> HIDE DEF g
<1>4. g.in_loop => g.loop_depth > 0
  BY <1>2, StackFacts
<1>5. Nested(stack') /\ Scoped(store, stack', Depth')
  BY <1>2, <1>3, <1>4, EnterPlain DEF LoopRoles
<1> QED
  BY <1>5, StateFacts, Conclude DEF EnterSubshell, Running

(* A condition or body entered above the Runner that now is in a loop.     *)
LEMMA EnterLoopRole ==
  ASSUME IInv, NEW g \in Frames, g.role \in LoopRoles,
         g.in_loop = EnterLoop(Top).in_loop,
         g.loop_depth = EnterLoop(Top).loop_depth,
         stack' = Enter(EnterLoop(Top), g)
  PROVE  Nested(stack') /\ Scoped(store, stack', Depth')
<1> DEFINE e == EnterLoop(Top)
<1>1. Top \in Frames /\ Top.loop_depth \in Nat
  BY StackFacts DEF Frames
<1>2. Like(e, Top) /\ e.in_loop /\ e.loop_depth = Top.loop_depth + 1
  BY <1>1, EnterLoopFacts
<1> HIDE DEF e
<1>3. e.loop_depth > 0
  BY <1>1, <1>2
<1>4. g.loop_depth = e.loop_depth /\ stack' = Enter(e, g) /\ g.loop_depth > 0
  BY <1>3 DEF e
<1>5. /\ g.role # "main" /\ g.role # "source" /\ g.role # "function"
      /\ g.role \notin {"function", "subshell"}
  BY DEF LoopRoles
<1>6. e \in Frames /\ SameKind(e, Top)
  BY <1>2 DEF Like
<1>7. e.loop_depth = Top.loop_depth + IF g.role \in LoopRoles THEN 1 ELSE 0
  BY <1>2
<1> QED
  BY <1>3, <1>4, <1>5, <1>6, <1>7, EnterStep

LEMMA EnterLoopSteps ==
  ASSUME IInv, (\E until \in BOOLEAN : EnterWhile(until)) \/ EnterFor
  PROVE  IInv'
<1> DEFINE e == EnterLoop(Top)
<1>1. e \in Frames
  BY StackFacts, EnterLoopFacts DEF Like
<1> HIDE DEF e
<1>2. ASSUME NEW until \in BOOLEAN, EnterWhile(until)
      PROVE  IInv'
  <2> DEFINE b == Body("while_cond", e)
             g == [b EXCEPT !.until = until]
  <2>1. /\ b \in Frames /\ b.role = "while_cond"
        /\ b.in_loop = e.in_loop /\ b.loop_depth = e.loop_depth
    BY <1>1, BodyFacts DEF Roles, LoopRoles
  <2> HIDE DEF b
  <2>2. /\ g \in Frames /\ g.role \in LoopRoles
        /\ g.in_loop = e.in_loop /\ g.loop_depth = e.loop_depth
    BY <2>1 DEF Frames, LoopRoles
  <2>3. stack' = Enter(e, g)
    BY <1>2 DEF EnterWhile, b, e
  <2> HIDE DEF g
  <2>4. Nested(stack') /\ Scoped(store, stack', Depth')
    BY <2>2, <2>3, EnterLoopRole DEF e
  <2> QED
    BY <1>2, <2>4, StateFacts, Conclude DEF EnterWhile, Running
<1>3. ASSUME EnterFor
      PROVE  IInv'
  <2> DEFINE g == Body("for_body", e)
  <2>1. /\ g \in Frames /\ g.role \in LoopRoles
        /\ g.in_loop = e.in_loop /\ g.loop_depth = e.loop_depth
    BY <1>1, BodyFacts DEF Roles, LoopRoles
  <2>2. stack' = Enter(e, g)
    BY <1>3 DEF EnterFor, e
  <2> HIDE DEF g
  <2>3. Nested(stack') /\ Scoped(store, stack', Depth')
    BY <2>1, <2>2, EnterLoopRole DEF e
  <2> QED
    BY <1>3, <2>3, StateFacts, Conclude DEF EnterFor, Running
<1> QED
  BY <1>2, <1>3

-----------------------------------------------------------------------------
(* The ends of bodies.                                                     *)

LEMMA EndStep ==
  ASSUME IInv, Depth > 1, Running, UNCHANGED <<signal, status>>,
         mark' \in Marks, store' \in Stores,
         Nested(stack'), Scoped(store', stack', Depth')
  PROVE  IInv'
  BY StateFacts, Conclude DEF Running

LEMMA FinishPlain ==
  ASSUME IInv, Depth > 1, Top.role \notin LoopRoles, NEW rc \in Rcs,
         stack' = Return(WithRc(Caller, rc))
  PROVE  /\ Nested(stack')
         /\ \A st : Scoped(st, stack, Depth - 1) => Scoped(st, stack', Depth')
         /\ Top.role # "function" => Scoped(store, stack', Depth')
<1> DEFINE f == WithRc(Caller, rc)
<1>1. Caller \in Frames
  BY StackFacts
<1>2. /\ Like(f, Caller) /\ f \in Frames
      /\ f.in_loop = Caller.in_loop /\ f.loop_depth = Caller.loop_depth
  BY <1>1, WithRcFacts DEF Like
<1>3. stack' = Return(f)
  OBVIOUS
<1> HIDE DEF f
<1> QED
  BY <1>2, <1>3, LeaveStep

LEMMA FinishLoop ==
  ASSUME IInv, Depth > 1, Top.role \in LoopRoles, NEW rc \in Rcs,
         stack' = Return(WithRc(LeaveLoop(Caller), rc))
  PROVE  Nested(stack') /\ Scoped(store, stack', Depth')
<1> DEFINE l == LeaveLoop(Caller)
           f == WithRc(l, rc)
<1>1. Caller \in Frames /\ Caller.loop_depth > 0
  BY StackFacts
<1>2. l \in Frames
  BY <1>1, LeaveLoopFacts DEF Like
<1> HIDE DEF l
<1>3. /\ Like(f, l) /\ f \in Frames
      /\ f.in_loop = l.in_loop /\ f.loop_depth = l.loop_depth
  BY <1>2, WithRcFacts DEF Like
<1>4. stack' = Return(f)
  BY DEF l
<1> HIDE DEF f
<1> QED
  BY <1>3, <1>4, LeaveLoopStep DEF l

(* The next body of the same construct takes the place of the one that     *)
(* ends.                                                                   *)
LEMMA NextBodyStep ==
  ASSUME IInv, Depth > 1,
         NEW g \in Frames, g.in_loop = Caller.in_loop,
         g.loop_depth = Caller.loop_depth,
         \/ g.role \in LoopRoles /\ Top.role \in LoopRoles
         \/ g.role \in {"if_cond", "block"} /\ Top.role \in {"if_cond", "block"},
         stack' = Replace(g)
  PROVE  Nested(stack') /\ Scoped(store, stack', Depth')
<1>1. SameKind(g, Top) /\ Top.role # "source"
  BY DEF SameKind, LoopRoles
<1>2. g.loop_depth = Top.loop_depth /\ (g.in_loop => g.loop_depth > 0)
  BY <1>1, StackFacts
<1>3. Nested(stack) /\ stack \in Seq(Frames) /\ stack # <<>>
  BY StackFacts DEF Nested
<1> DEFINE t == [stack EXCEPT ![Len(stack)] = g]
<1>4. /\ Nested(t)
      /\ \A st : Scoped(st, stack, Len(stack)) => Scoped(st, t, Len(stack))
  BY <1>1, <1>2, <1>3, ReplaceNested DEF Top, Depth
<1>5. stack' = t /\ Len(t) = Len(stack)
  BY <1>3, ReplaceFacts DEF Replace, Depth
<1> HIDE DEF t
<1> QED
  BY <1>4, <1>5, StateFacts DEF Depth

LEMMA EndPlainSteps == ASSUME IInv, EndBlock \/ EndSubshell \/ EndFunction
                       PROVE  IInv'
<1>1. Top.prev_rc \in Rcs
  BY StackFacts DEF Frames
<1>2. CASE EndBlock
  <2>1. /\ Depth > 1 /\ Running /\ Top.role \in {"block", "source"}
        /\ stack' = Return(WithRc(Caller, Top.prev_rc))
        /\ mark' = HandToRunner /\ UNCHANGED <<store, signal, status>>
    BY <1>2 DEF EndBlock, Ending, Finish
  <2>2. Top.role \notin LoopRoles /\ Top.role # "function"
    BY <2>1 DEF LoopRoles
  <2>3. Nested(stack') /\ Scoped(store, stack', Depth')
    BY <1>1, <2>1, <2>2, FinishPlain
  <2> QED
    BY <2>1, <2>3, StateFacts, EndStep
<1>3. CASE EndSubshell
  <2>1. /\ Depth > 1 /\ Running /\ Top.role = "subshell"
        /\ stack' = Return(WithRc(Caller, Top.prev_rc))
        /\ mark' = HandToRunner /\ store' = Top.saved
        /\ UNCHANGED <<signal, status>>
    BY <1>3 DEF EndSubshell, Ending, Finish
  <2>2. Top.role \notin LoopRoles
    BY <2>1 DEF LoopRoles
  <2>3. Nested(stack') /\ Scoped(store', stack', Depth') /\ store' \in Stores
    BY <1>1, <2>1, <2>2, FinishPlain, SubshellFacts
  <2> QED
    BY <2>1, <2>3, StateFacts, EndStep
<1>4. CASE EndFunction
  <2>1. /\ Depth > 1 /\ Running /\ Top.role = "function"
        /\ stack' = Return(WithRc(Caller, Top.prev_rc))
        /\ mark' = HandToRunner /\ store' = LeaveFunction(Top)
        /\ UNCHANGED <<signal, status>>
    BY <1>4 DEF EndFunction, Ending, Finish
  <2>2. Top.role \notin LoopRoles
    BY <2>1 DEF LoopRoles
  <2>3. Nested(stack') /\ Scoped(store', stack', Depth') /\ store' \in Stores
    BY <1>1, <2>1, <2>2, FinishPlain, LeaveFunctionFacts
  <2> QED
    BY <2>1, <2>3, StateFacts, EndStep
<1> QED
  BY <1>2, <1>3, <1>4

LEMMA EndIfCondStep == ASSUME IInv, EndIfCond PROVE IInv'
<1>1. /\ Depth > 1 /\ Running /\ Top.role = "if_cond" /\ Caller \in Frames
      /\ UNCHANGED <<store, signal, status>>
  BY StackFacts DEF EndIfCond, Ending
<1>2. ASSUME NEW role \in {"if_cond", "block"}, NextBody(Body(role, Caller))
      PROVE  Nested(stack') /\ Scoped(store, stack', Depth') /\ mark' \in Marks
  <2> DEFINE g == Body(role, Caller)
  <2>1. /\ g \in Frames /\ g.role \in {"if_cond", "block"}
        /\ g.in_loop = Caller.in_loop /\ g.loop_depth = Caller.loop_depth
    BY <1>1, BodyFacts DEF Roles
  <2>2. stack' = Replace(g) /\ mark' = HandToConstruct
    BY <1>2 DEF NextBody
  <2> HIDE DEF g
  <2> QED
    BY <1>1, <2>1, <2>2, NextBodyStep, StateFacts
<1>3. ASSUME Finish(Caller, 0)
      PROVE  Nested(stack') /\ Scoped(store, stack', Depth') /\ mark' \in Marks
  BY <1>1, <1>3, FinishPlain, StateFacts DEF Finish, LoopRoles
<1>4. \/ \E role \in {"if_cond", "block"} : NextBody(Body(role, Caller))
      \/ Finish(Caller, 0)
  BY DEF EndIfCond
<1>5. Nested(stack') /\ Scoped(store, stack', Depth') /\ mark' \in Marks
  BY <1>2, <1>3, <1>4
<1> QED
  BY <1>1, <1>5, StateFacts, EndStep

(* The condition or body of a while loop that goes on.                     *)
LEMMA WhileBodyFacts ==
  ASSUME IInv, Depth > 1, NEW role \in {"while_cond", "while_body"},
         NEW n \in 0..MaxLoopIter
  PROVE  LET g == [Body(role, Caller) EXCEPT !.iterations = n, !.until = Top.until]
         IN /\ g \in Frames /\ g.role \in LoopRoles
            /\ g.in_loop = Caller.in_loop /\ g.loop_depth = Caller.loop_depth
<1> DEFINE b == Body(role, Caller)
           a == [b EXCEPT !.iterations = n]
           g == [b EXCEPT !.iterations = n, !.until = Top.until]
<1>1. Caller \in Frames /\ Top.until \in BOOLEAN
  BY StackFacts DEF Frames
<1>2. role \in Roles
  BY DEF Roles, LoopRoles
<1>3. /\ b \in Frames /\ b.role = role
      /\ b.in_loop = Caller.in_loop /\ b.loop_depth = Caller.loop_depth
  BY <1>1, <1>2, BodyFacts
<1> HIDE DEF b
<1>4. /\ a \in Frames /\ a.role = role
      /\ a.in_loop = Caller.in_loop /\ a.loop_depth = Caller.loop_depth
  BY <1>3 DEF Frames
<1>5. g = [a EXCEPT !.until = Top.until]
  BY <1>3 DEF Frames
<1> HIDE DEF a
<1>6. /\ g \in Frames /\ g.role = role
      /\ g.in_loop = Caller.in_loop /\ g.loop_depth = Caller.loop_depth
  BY <1>1, <1>4, <1>5 DEF Frames
<1> HIDE DEF g
<1>7. g.role \in LoopRoles
  BY <1>6 DEF LoopRoles
<1> QED
  BY <1>6, <1>7 DEF g, b

LEMMA IterationFacts ==
  ASSUME IInv
  PROVE  /\ Top.iterations \in 0..MaxLoopIter
         /\ Top.iterations + 1 < MaxLoopIter => Top.iterations + 1 \in 0..MaxLoopIter
<1>1. Top.iterations \in 0..MaxLoopIter
  BY StackFacts DEF Frames
<1> QED
  BY <1>1, BoundsAssumption

LEMMA NextWhileCondStep ==
  ASSUME IInv, Depth > 1, Top.role \in LoopRoles,
         Top.iterations + 1 < MaxLoopIter, stack' = Replace(NextWhileCond)
  PROVE  Nested(stack') /\ Scoped(store, stack', Depth')
<1>1. /\ NextWhileCond \in Frames /\ NextWhileCond.role \in LoopRoles
      /\ NextWhileCond.in_loop = Caller.in_loop
      /\ NextWhileCond.loop_depth = Caller.loop_depth
  BY IterationFacts, WhileBodyFacts DEF NextWhileCond
<1> QED
  BY <1>1, NextBodyStep

LEMMA EndLoopSteps == ASSUME IInv, EndWhileCond \/ EndWhileBody \/ EndForBody
                      PROVE  IInv'
<1>1. /\ Depth > 1 /\ Running /\ Top.role \in LoopRoles
      /\ UNCHANGED <<store, signal, status>>
  BY DEF EndWhileCond, EndWhileBody, EndForBody, Ending, LoopRoles
<1>2. Top.prev_rc \in Rcs /\ Caller \in Frames
  BY <1>1, StackFacts DEF Frames
<1> DEFINE After == Nested(stack') /\ Scoped(store, stack', Depth')
                    /\ mark' \in Marks
<1>3. ASSUME NEW rc \in Rcs, Finish(LeaveLoop(Caller), rc)
      PROVE  After
  BY <1>1, <1>3, FinishLoop, StateFacts DEF Finish
<1>4. CASE EndWhileCond
  <2>1. CASE (Top.prev_rc = 0) # Top.until
    <3> DEFINE g == [Body("while_body", Caller) EXCEPT
                       !.iterations = Top.iterations, !.until = Top.until]
    <3>1. NextBody(g)
      BY <1>4, <2>1 DEF EndWhileCond
    <3>2. /\ g \in Frames /\ g.role \in LoopRoles
          /\ g.in_loop = Caller.in_loop /\ g.loop_depth = Caller.loop_depth
      BY <1>1, IterationFacts, WhileBodyFacts
    <3> HIDE DEF g
    <3> QED
      BY <1>1, <3>1, <3>2, NextBodyStep, StateFacts, EndStep DEF NextBody
  <2>2. CASE ~((Top.prev_rc = 0) # Top.until)
    <3>1. Finish(LeaveLoop(Caller), Top.prev_rc)
      BY <1>4, <2>2 DEF EndWhileCond
    <3>2. After
      BY <1>2, <1>3, <3>1
    <3> QED
      BY <1>1, <3>2, StateFacts, EndStep
  <2> QED
    BY <2>1, <2>2
<1>5. CASE EndWhileBody
  <2>1. CASE Top.iterations + 1 < MaxLoopIter
    <3>1. NextBody(NextWhileCond)
      BY <1>5, <2>1 DEF EndWhileBody
    <3> QED
      BY <1>1, <2>1, <3>1, NextWhileCondStep, StateFacts, EndStep DEF NextBody
  <2>2. CASE ~(Top.iterations + 1 < MaxLoopIter)
    <3>1. Finish(LeaveLoop(Caller), 1)
      BY <1>5, <2>2 DEF EndWhileBody
    <3>2. After
      BY <1>3, <3>1, StateFacts
    <3> QED
      BY <1>1, <3>2, StateFacts, EndStep
  <2> QED
    BY <2>1, <2>2
<1>6. CASE EndForBody
  <2>1. CASE NextBody(Body("for_body", Caller))
    <3> DEFINE g == Body("for_body", Caller)
    <3>1. /\ g \in Frames /\ g.role \in LoopRoles
          /\ g.in_loop = Caller.in_loop /\ g.loop_depth = Caller.loop_depth
      BY <1>2, BodyFacts DEF Roles, LoopRoles
    <3>2. stack' = Replace(g) /\ mark' = HandToConstruct
      BY <2>1 DEF NextBody
    <3> HIDE DEF g
    <3> QED
      BY <1>1, <3>1, <3>2, NextBodyStep, StateFacts, EndStep
  <2>2. CASE Finish(LeaveLoop(Caller), Top.prev_rc)
    <3>1. After
      BY <1>2, <1>3, <2>2
    <3> QED
      BY <1>1, <3>1, StateFacts, EndStep
  <2> QED
    BY <1>6, <2>1, <2>2 DEF EndForBody
<1> QED
  BY <1>4, <1>5, <1>6

-----------------------------------------------------------------------------
(* A signal unwinds the stack.                                             *)

LEMMA UnwindStep ==
  ASSUME IInv, Depth > 1, status = "running", UNCHANGED status,
         mark' \in Marks, store' \in Stores,
         signal' \in Signals \cup {NoSignal},
         signal' # NoSignal => Top'.loop_depth > 0,
         Nested(stack'), Scoped(store', stack', Depth')
  PROVE  IInv'
  BY StateFacts, Conclude

LEMMA LoopMarkFacts ==
  ASSUME IInv, Depth > 1
  PROVE  LET m == DropRunner(mark)
         IN (IF m = InConstruct(Depth - 1) THEN InRunner(Depth - 1) ELSE m)
              \in Marks
  BY StateFacts

LEMMA CaughtInLoop ==
  ASSUME IInv, UnwindBreak \/ UnwindContinueFor \/ UnwindContinueWhile
  PROVE  IInv'
<1>1. /\ Depth > 1 /\ status = "running" /\ Top.role \in LoopRoles
      /\ UNCHANGED <<store, status>> /\ signal' = NoSignal
  BY DEF UnwindBreak, UnwindContinueFor, UnwindContinueWhile, Unwinding,
         CatchLast, LoopRoles
<1>2. mark' \in Marks
  BY <1>1, LoopMarkFacts, StateFacts
     DEF UnwindBreak, UnwindContinueFor, UnwindContinueWhile
<1>3. \/ \E rc \in {0, 1} : stack' = Return(WithRc(LeaveLoop(Caller), rc))
      \/ stack' = Replace(Body("for_body", Caller))
      \/ Top.iterations + 1 < MaxLoopIter /\ stack' = Replace(NextWhileCond)
  BY DEF UnwindBreak, UnwindContinueFor, UnwindContinueWhile
<1>4. Nested(stack') /\ Scoped(store, stack', Depth')
  <2>1. CASE \E rc \in {0, 1} : stack' = Return(WithRc(LeaveLoop(Caller), rc))
    BY <1>1, <2>1, FinishLoop, StateFacts
  <2>2. CASE stack' = Replace(Body("for_body", Caller))
    <3> DEFINE g == Body("for_body", Caller)
    <3>1. /\ g \in Frames /\ g.role \in LoopRoles
          /\ g.in_loop = Caller.in_loop /\ g.loop_depth = Caller.loop_depth
      BY <1>1, StackFacts, BodyFacts DEF Roles, LoopRoles
    <3>2. stack' = Replace(g)
      BY <2>2
    <3> HIDE DEF g
    <3> QED
      BY <1>1, <3>1, <3>2, NextBodyStep
  <2>3. CASE Top.iterations + 1 < MaxLoopIter /\ stack' = Replace(NextWhileCond)
    BY <1>1, <2>3, NextWhileCondStep
  <2> QED
    BY <1>3, <2>1, <2>2, <2>3
<1> QED
  BY <1>1, <1>2, <1>4, StateFacts, UnwindStep

(* A Runner below re-raises the signal or reports it.                      *)
Raised(f, c) ==
  /\ Like(f, c) /\ stack' = Return(f)
  /\ f.in_loop = c.in_loop /\ f.loop_depth = c.loop_depth
  /\ signal' # NoSignal => f.loop_depth > 0

LEMMA RaiseInFacts ==
  ASSUME IInv, signal # NoSignal, NEW c \in Frames,
         NEW n \in 1..MaxCount, RaiseIn(c, n)
  PROVE  /\ signal' \in Signals \cup {NoSignal}
         /\ \E f \in Frames : Raised(f, c)
<1>1. signal \in Signals
  BY StateFacts
<1>2. CASE c.loop_depth > 0
  <2>1. signal' = [signal EXCEPT !.count = n] /\ stack' = Return(c)
    BY <1>2 DEF RaiseIn
  <2>2. signal' \in Signals
    BY <1>1, <2>1 DEF Signals
  <2>3. Like(c, c)
    BY DEF Like, SameKind
  <2> QED
    BY <1>2, <2>1, <2>2, <2>3 DEF Raised
<1>3. CASE ~(c.loop_depth > 0)
  <2> DEFINE f == WithRc(c, 1)
  <2>1. signal' = NoSignal /\ stack' = Return(f)
    BY <1>3 DEF RaiseIn
  <2>2. Like(f, c) /\ f.in_loop = c.in_loop /\ f.loop_depth = c.loop_depth
    BY StateFacts, WithRcFacts
  <2> HIDE DEF f
  <2> QED
    BY <2>1, <2>2 DEF Like, Raised
<1> QED
  BY <1>2, <1>3

LEMMA RaisedFurther == ASSUME IInv, UnwindOuterLoop \/ UnwindBlock PROVE IInv'
<1>1. /\ Depth > 1 /\ status = "running" /\ signal # NoSignal
      /\ UNCHANGED <<store, status>>
      /\ mark' = DropConstruct(DropRunner(mark))
  BY DEF UnwindOuterLoop, UnwindBlock, Unwinding, RaiseIn
<1>2. signal \in Signals
  BY <1>1, StateFacts
<1>3. signal.count \in 1..MaxCount
  BY <1>2 DEF Signals
<1>4. Caller \in Frames
  BY <1>1, StackFacts
<1>5. CASE UnwindOuterLoop
  <2>1. Top.role \in LoopRoles /\ signal.count > 1
        /\ RaiseIn(LeaveLoop(Caller), signal.count - 1)
    BY <1>5 DEF UnwindOuterLoop, Unwinding
  <2>2. signal.count - 1 \in 1..MaxCount
    BY <1>3, <2>1, BoundsAssumption
  <2>3. LeaveLoop(Caller) \in Frames
    BY <1>1, <1>4, <2>1, StackFacts, LeaveLoopFacts DEF Like
  <2>4. /\ signal' \in Signals \cup {NoSignal}
        /\ \E f \in Frames : Raised(f, LeaveLoop(Caller))
    BY <1>1, <2>1, <2>2, <2>3, RaiseInFacts
  <2>5. /\ Nested(stack') /\ Scoped(store, stack', Depth')
        /\ signal' # NoSignal => Top'.loop_depth > 0
    <3>1. PICK f \in Frames : Raised(f, LeaveLoop(Caller))
      BY <2>4
    <3>2. Nested(stack') /\ Top' = f /\ Scoped(store, stack', Depth')
      BY <1>1, <2>1, <3>1, LeaveLoopStep DEF Raised
    <3>3. Top'.loop_depth = f.loop_depth
      BY <3>2
    <3> QED
      BY <3>1, <3>2, <3>3 DEF Raised
  <2> QED
    BY <1>1, <2>4, <2>5, StateFacts, UnwindStep
<1>6. CASE UnwindBlock
  <2>1. Top.role \in {"block", "if_cond"} /\ RaiseIn(Caller, signal.count)
    BY <1>6 DEF UnwindBlock, Unwinding
  <2>2. Top.role \notin LoopRoles /\ Top.role # "function"
    BY <2>1 DEF LoopRoles
  <2>3. /\ signal' \in Signals \cup {NoSignal}
        /\ \E f \in Frames : Raised(f, Caller)
    BY <1>1, <1>3, <1>4, <2>1, RaiseInFacts
  <2>4. /\ Nested(stack') /\ Scoped(store, stack', Depth')
        /\ signal' # NoSignal => Top'.loop_depth > 0
    <3>1. PICK f \in Frames : Raised(f, Caller)
      BY <2>3
    <3>2. Nested(stack') /\ Top' = f /\ Scoped(store, stack', Depth')
      BY <1>1, <2>2, <3>1, LeaveStep DEF Raised
    <3>3. Top'.loop_depth = f.loop_depth
      BY <3>2
    <3> QED
      BY <3>1, <3>2, <3>3 DEF Raised
  <2> QED
    BY <1>1, <2>3, <2>4, StateFacts, UnwindStep
<1> QED
  BY <1>5, <1>6

LEMMA ReportedAtScope == ASSUME IInv, UnwindSubshell \/ UnwindFunction PROVE IInv'
<1>1. /\ Depth > 1 /\ status = "running" /\ UNCHANGED status
      /\ signal' = NoSignal /\ mark' = DropRunner(mark)
      /\ stack' = Return(WithRc(Caller, 1))
      /\ \/ Top.role = "subshell" /\ store' = Top.saved
         \/ Top.role = "function" /\ store' = LeaveFunction(Top)
  BY DEF UnwindSubshell, UnwindFunction, Unwinding
<1>2. Top.role \notin LoopRoles
  BY <1>1 DEF LoopRoles
<1>3. Scoped(store', stack, Depth - 1) /\ store' \in Stores
  BY <1>1, SubshellFacts, LeaveFunctionFacts
<1>4. Nested(stack') /\ Scoped(store', stack', Depth')
  BY <1>1, <1>2, <1>3, StateFacts, FinishPlain
<1> QED
  BY <1>1, <1>3, <1>4, StateFacts, UnwindStep

-----------------------------------------------------------------------------
(* One Runner for the program text, as at the start of every tool call.    *)
LEMMA FreshFacts ==
  ASSUME NEW s, s = <<NewRunner("main", FALSE, 0)>>
  PROVE  Nested(s) /\ Scoped(NewStore, s, Len(s)) /\ NewStore \in Stores
<1> DEFINE g == NewRunner("main", FALSE, 0)
<1>1. "main" \in Roles /\ FALSE \in BOOLEAN /\ 0 \in Nat
  BY DEF Roles
<1>2. g \in Frames /\ g.role = "main" /\ g.in_loop = FALSE /\ g.loop_depth = 0
  BY <1>1, NewRunnerFacts
<1>3. s = <<g>>
  OBVIOUS
<1> HIDE DEF g
<1>4. ASSUME NEW S, NEW x \in S
      PROVE  <<x>> \in Seq(S) /\ Len(<<x>>) = 1 /\ <<x>>[1] = x /\ <<x>> # <<>>
  OBVIOUS
<1>5. s \in Seq(Frames) /\ Len(s) = 1 /\ s[1] = g /\ s # <<>>
  BY <1>2, <1>3, <1>4
<1>6. \A i \in 1..Len(s) : i = 1
  BY <1>5
<1>7. WellNested(s)
  <2>1. Inherited(s, 1) = 0 /\ Hosting(s, 1) = 0
    BY <1>5 DEF Inherited, Hosting
  <2>2. s[1].loop_depth = Inherited(s, 1) + Hosting(s, 1)
    <3>1. s[1].loop_depth = 0
      BY <1>2, <1>5
    <3>2. \A a, b : a = 0 /\ b = 0 => a + b = 0
      OBVIOUS
    <3>3. Inherited(s, 1) + Hosting(s, 1) = 0
      BY ONLY <2>1, <3>2
    <3> QED
      BY <3>1, <3>3
  <2>3. \A i \in 1..Len(s) : s[i].role = "main" <=> i = 1
    BY <1>2, <1>5, <1>6
  <2>4. \A i \in 1..Len(s) : s[i].loop_depth = Inherited(s, i) + Hosting(s, i)
    BY <1>6, <2>2
  <2>5. \A i \in 1..Len(s) : s[i].in_loop => s[i].loop_depth > 0
    BY <1>2, <1>5, <1>6
  <2> QED
    BY <2>3, <2>4, <2>5 DEF WellNested
<1>8. SavedScoped(s)
  BY <1>2, <1>5, <1>6 DEF SavedScoped
<1>9. Calls(s, 1) = {}
  BY <1>2, <1>5, <1>6 DEF Calls
<1>10. NewStore \in Stores /\ NewStore.func_depth = 0 /\ NewStore.positional = 0
  BY BoundsAssumption DEF NewStore, Stores
<1>11. Scoped(NewStore, s, 1)
  BY <1>9, <1>10, FS_EmptySet DEF Scoped
<1> QED
  BY <1>5, <1>7, <1>8, <1>10, <1>11 DEF Nested

LEMMA InitInv == Init => IInv
<1> SUFFICES ASSUME Init PROVE IInv
  OBVIOUS
<1>1. Nested(stack) /\ Scoped(store, stack, Depth) /\ store \in Stores
  BY FreshFacts DEF Init, Depth
<1> QED
  BY <1>1 DEF Init, IInv, TypeOK, Nested, FunctionStateScoped, SignalInLoop,
              NoMark, Marks

LEMMA CallBoundarySteps == ASSUME IInv, Done \/ NextCall PROVE IInv'
<1>1. CASE Done
  BY <1>1, StateFacts, StackFacts, Conclude DEF Done, Running
<1>2. CASE NextCall
  <2>1. Nested(stack') /\ Scoped(store', stack', Depth') /\ store' \in Stores
    BY <1>2, FreshFacts DEF NextCall, Depth
  <2>2. mark' \in Marks
    BY <1>2 DEF NextCall, NoMark, Marks
  <2> QED
    BY <1>2, <2>1, <2>2, Conclude DEF NextCall
<1> QED
  BY <1>1, <1>2

LEMMA StutterStep == ASSUME IInv, UNCHANGED vars PROVE IInv'
  BY DEF IInv, TypeOK, WellNested, SavedScoped, FunctionStateScoped,
         SignalInLoop, Depth, Top, vars

LEMMA StepInv == IInv /\ [Next]_vars => IInv'
<1> SUFFICES ASSUME IInv, [Next]_vars PROVE IInv'
  OBVIOUS
<1>1. CASE Segment
  BY <1>1, PlainSegments, ShiftStep, BreakOrContinueStep, FunctionCallStep,
     SourceStep, EnterBlockStep, EnterSubshellStep, EnterLoopSteps DEF Segment
<1>2. CASE End
  BY <1>2, EndPlainSteps, EndIfCondStep, EndLoopSteps DEF End
<1>3. CASE Unwind
  BY <1>3, CaughtInLoop, RaisedFurther, ReportedAtScope DEF Unwind
<1>4. CASE Done \/ NextCall
  BY <1>4, CallBoundarySteps
<1>5. CASE UNCHANGED vars
  BY <1>5, StutterStep
<1> QED
  BY <1>1, <1>2, <1>3, <1>4, <1>5 DEF Next

LEMMA InvFacts ==
  IInv => TypeOK /\ LoopDepthCounted /\ NoUncaughtSignal /\ FunctionStateScoped
<1> SUFFICES ASSUME IInv
             PROVE  TypeOK /\ LoopDepthCounted /\ NoUncaughtSignal
                    /\ FunctionStateScoped
  OBVIOUS
<1>1. TypeOK /\ FunctionStateScoped
  BY DEF IInv
<1>2. LoopDepthCounted
  BY DEF IInv, WellNested, LoopDepthCounted, Depth
<1>3. NoUncaughtSignal
  <2>1. Top.role \in {"main", "source"} => ~(Top.loop_depth > 0)
    BY StackFacts
  <2> QED
    BY <2>1 DEF IInv, SignalInLoop, NoUncaughtSignal
<1> QED
  BY <1>1, <1>2, <1>3

LEMMA Invariance == Spec => []IInv
  BY InitInv, StepInv, PTL DEF Spec

(* The types, for every value of the bounds.                               *)
THEOREM TypeCorrect == Spec => []TypeOK
  BY Invariance, InvFacts, PTL

(* _loop_depth counts the running loops, whatever is nested in what and    *)
(* however it is left (_run_while_until, _run_for, _run_body).             *)
THEOREM LoopDepthIsCounted == Spec => []LoopDepthCounted
  BY Invariance, InvFacts, PTL

(* No break or continue leaves shell_run as an exception.                  *)
THEOREM SignalsAreCaught == Spec => []NoUncaughtSignal
  BY Invariance, InvFacts, PTL

(* func_depth and the positional parameters are those of the calls on the  *)
(* stack: _run_function_call and _run_subshell restore both on every way   *)
(* out.                                                                    *)
THEOREM FunctionStateIsScoped == Spec => []FunctionStateScoped
  BY Invariance, InvFacts, PTL

-----------------------------------------------------------------------------
(* What a step leaves of the stack: the Runners below the one it works on, *)
(* and the role of that one, whatever happens to its other fields.         *)

Scopes == {"function", "subshell", "source"}
SameUpTo(n) ==
  (\A i \in 1..(n - 1) : stack'[i] = stack[i]) /\ stack'[n].role = stack[n].role

Level == Len(stack') = Depth /\ SameUpTo(Depth)
Deeper == Len(stack') = Depth + 1 /\ SameUpTo(Depth)
Shallower == Depth > 1 /\ Len(stack') = Depth - 1 /\ SameUpTo(Depth - 1)

(* A construct that has several bodies goes on with another one.           *)
Sideways ==
  /\ Depth > 1 /\ Len(stack') = Depth
  /\ \A i \in 1..(Depth - 1) : stack'[i] = stack[i]
  /\ Top.role \notin Scopes /\ stack'[Depth].role \notin Scopes
  /\ stack'[Depth].role \in LoopRoles <=> Top.role \in LoopRoles

LEMMA LevelFacts ==
  ASSUME IInv, NEW f, f.role = Top.role, stack' = Replace(f)
  PROVE  Level
<1> DEFINE S == Frames \cup {f}
<1>1. stack \in Seq(S) /\ Depth = Len(stack) /\ Depth \in Nat \ {0}
  BY StackFacts DEF Depth
<1> QED
  BY <1>1 DEF Level, SameUpTo, Replace, Top

LEMMA DeeperFacts ==
  ASSUME IInv, NEW f, NEW g, f.role = Top.role, stack' = Enter(f, g)
  PROVE  Deeper
<1> DEFINE S == Frames \cup {f, g}
           t == Replace(f)
<1>1. stack \in Seq(S) /\ Depth = Len(stack) /\ Depth \in Nat \ {0}
  BY StackFacts DEF Depth
<1>2. /\ t \in Seq(S) /\ Len(t) = Depth
      /\ \A i \in 1..(Depth - 1) : t[i] = stack[i]
      /\ t[Depth].role = stack[Depth].role
  BY <1>1 DEF Replace, Top
<1> HIDE DEF t
<1>3. g \in S
  OBVIOUS
<1> HIDE DEF S
<1>4. /\ Len(Append(t, g)) = Depth + 1
      /\ \A i \in 1..Depth : Append(t, g)[i] = t[i]
  BY <1>1, <1>2, <1>3
<1>5. stack' = Append(t, g)
  BY DEF Enter, t
<1> QED
  BY <1>1, <1>2, <1>4, <1>5 DEF Deeper, SameUpTo

LEMMA ShallowerFacts ==
  ASSUME IInv, Depth > 1, NEW f \in Frames, f.role = Caller.role,
         stack' = Return(f)
  PROVE  Shallower /\ stack'[Len(stack')] = f
<1>1. stack \in Seq(Frames) /\ Depth = Len(stack) /\ Depth \in Nat \ {0}
  BY StackFacts DEF Depth
<1>2. /\ Len(stack') = Depth - 1 /\ stack'[Depth - 1] = f
      /\ \A i \in 1..(Depth - 2) : stack'[i] = stack[i]
  BY <1>1, ReturnFacts DEF Return
<1> QED
  BY <1>1, <1>2 DEF Shallower, SameUpTo, Caller

LEMMA SidewaysFacts ==
  ASSUME IInv, Depth > 1, NEW f, stack' = Replace(f),
         Top.role \notin Scopes, f.role \notin Scopes,
         f.role \in LoopRoles <=> Top.role \in LoopRoles
  PROVE  Sideways /\ stack'[Len(stack')] = f
<1> DEFINE S == Frames \cup {f}
<1>1. stack \in Seq(S) /\ Depth = Len(stack) /\ Depth \in Nat \ {0}
  BY StackFacts DEF Depth
<1> QED
  BY <1>1 DEF Sideways, Replace, Top

(* The roles of the frames that the actions put in place of a Runner.      *)
LEMMA FrameRoles ==
  ASSUME NEW f \in Frames
  PROVE  /\ \A rc : WithRc(f, rc).role = f.role
         /\ EnterLoop(f).role = f.role /\ LeaveLoop(f).role = f.role
         /\ \A rc : WithRc(LeaveLoop(f), rc).role = f.role
         /\ \A rc : WithRc(LeaveLoop(EnterLoop(f)), rc).role = f.role
         /\ \A role : Body(role, f).role = role
  BY DEF WithRc, EnterLoop, LeaveLoop, Body, NewRunner, Frames

(* A segment leaves the Runners below in place and either keeps the marked *)
(* output where it is or is the command that writes it.                    *)
LEMMA SegmentShape ==
  ASSUME IInv, Segment
  PROVE  /\ Level \/ Deeper
         /\ UNCHANGED status
         /\ mark' = mark \/ mark' = InRunner(Depth)
<1>1. Top \in Frames /\ stack' = stack => Level
  BY StackFacts DEF Level, SameUpTo, Depth
<1>2. Top \in Frames
  BY StackFacts
<1>3. ASSUME NEW rc, stack' = Replace(WithRc(Top, rc)) PROVE Level
  <2> DEFINE f == WithRc(Top, rc)
  <2>1. f.role = Top.role /\ stack' = Replace(f)
    BY <1>2, <1>3, FrameRoles
  <2> HIDE DEF f
  <2> QED
    BY <2>1, LevelFacts
<1>4. ASSUME NEW g, stack' = Enter(Top, g) PROVE Deeper
  BY <1>4, DeeperFacts
<1>5. ASSUME NEW g, stack' = Enter(EnterLoop(Top), g) PROVE Deeper
  <2> DEFINE f == EnterLoop(Top)
  <2>1. f.role = Top.role /\ stack' = Enter(f, g)
    BY <1>2, <1>5, FrameRoles
  <2> HIDE DEF f
  <2> QED
    BY <2>1, DeeperFacts
<1>6. CASE \E rc \in Rcs : Simple(rc)
  BY <1>3, <1>6 DEF Simple
<1>7. CASE \E n \in 1..(MaxArgs + 1) : Shift(n)
  BY <1>3, <1>7 DEF Shift
<1>8. CASE \E kind \in {"break", "continue"}, n \in 1..MaxCount :
             BreakOrContinue(kind, n)
  BY <1>1, <1>2, <1>3, <1>8 DEF BreakOrContinue
<1>9. CASE \E n \in 0..MaxArgs : FunctionCall(n)
  BY <1>3, <1>4, <1>9 DEF FunctionCall
<1>10. CASE Source
  BY <1>3, <1>4, <1>10 DEF Source
<1>11. CASE TrivialCompound
  BY <1>3, <1>11 DEF TrivialCompound
<1>12. CASE \E role \in {"if_cond", "block"} : EnterBlock(role)
  BY <1>4, <1>12 DEF EnterBlock
<1>13. CASE EnterSubshell
  BY <1>4, <1>13 DEF EnterSubshell
<1>14. CASE (\E until \in BOOLEAN : EnterWhile(until)) \/ EnterFor
  BY <1>5, <1>14 DEF EnterWhile, EnterFor
<1>15. CASE EnterForWithoutWords
  <2> DEFINE f == WithRc(LeaveLoop(EnterLoop(Top)), 0)
  <2>1. f.role = Top.role /\ stack' = Replace(f)
    BY <1>2, <1>15, FrameRoles DEF EnterForWithoutWords
  <2> HIDE DEF f
  <2>2. Level
    BY <2>1, LevelFacts
  <2> QED
    BY <1>15, <2>2 DEF EnterForWithoutWords
<1> QED
  BY <1>6, <1>7, <1>8, <1>9, <1>10, <1>11, <1>12, <1>13, <1>14, <1>15 DEF Segment

(* The Runner of a body is gone and its construct ends with exit code rc.  *)
LEMMA ReturnShape ==
  ASSUME IInv, Depth > 1, NEW rc \in Rcs,
         \/ stack' = Return(WithRc(Caller, rc))
         \/ Top.role \in LoopRoles /\ stack' = Return(WithRc(LeaveLoop(Caller), rc))
  PROVE  Shallower /\ stack'[Len(stack')].prev_rc = rc
<1>1. Caller \in Frames /\ (Top.role \in LoopRoles => Caller.loop_depth > 0)
  BY StackFacts
<1>2. ASSUME NEW c \in Frames, c.role = Caller.role, stack' = Return(WithRc(c, rc))
      PROVE  Shallower /\ stack'[Len(stack')].prev_rc = rc
  <2> DEFINE f == WithRc(c, rc)
  <2>1. /\ f \in Frames /\ f.role = Caller.role /\ f.prev_rc = rc
        /\ stack' = Return(f)
    BY <1>2, WithRcFacts DEF Like, WithRc, Frames
  <2> HIDE DEF f
  <2> QED
    BY <2>1, ShallowerFacts
<1>3. CASE stack' = Return(WithRc(Caller, rc))
  BY <1>1, <1>2, <1>3
<1>4. CASE Top.role \in LoopRoles /\ stack' = Return(WithRc(LeaveLoop(Caller), rc))
  <2>1. LeaveLoop(Caller) \in Frames /\ LeaveLoop(Caller).role = Caller.role
    BY <1>1, <1>4, LeaveLoopFacts DEF Like
  <2> QED
    BY <1>2, <1>4, <2>1
<1> QED
  BY <1>3, <1>4

LEMMA EndShape ==
  ASSUME IInv, End
  PROVE  /\ Depth > 1 /\ UNCHANGED status /\ signal = NoSignal /\ signal' = NoSignal
         /\ \/ Shallower /\ mark' = HandToRunner
            \/ Sideways /\ mark' = HandToConstruct
<1> USE DEF Scopes
<1>1. /\ Depth > 1 /\ UNCHANGED status /\ signal = NoSignal /\ signal' = NoSignal
  BY DEF End, EndBlock, EndSubshell, EndFunction, EndIfCond, EndWhileCond,
         EndWhileBody, EndForBody, Ending, Running
<1>2. Caller \in Frames /\ Top.prev_rc \in Rcs /\ 0 \in Rcs /\ 1 \in Rcs
  BY <1>1, StackFacts, StateFacts DEF Frames
<1>3. ASSUME NEW rc \in Rcs, Finish(Caller, rc)
      PROVE  Shallower /\ mark' = HandToRunner
  BY <1>1, <1>3, ReturnShape DEF Finish
<1>4. ASSUME NEW rc \in Rcs, Top.role \in LoopRoles, Finish(LeaveLoop(Caller), rc)
      PROVE  Shallower /\ mark' = HandToRunner
  BY <1>1, <1>4, ReturnShape DEF Finish
<1>5. ASSUME NEW f, NextBody(f), Top.role \notin Scopes, f.role \notin Scopes,
             f.role \in LoopRoles <=> Top.role \in LoopRoles
      PROVE  Sideways /\ mark' = HandToConstruct
  BY <1>1, <1>5, SidewaysFacts DEF NextBody
<1>6. CASE EndBlock \/ EndSubshell \/ EndFunction
  BY <1>1, <1>2, <1>3, <1>6 DEF EndBlock, EndSubshell, EndFunction
<1>7. CASE EndIfCond
  <2>1. Top.role = "if_cond"
    BY <1>7 DEF EndIfCond, Ending
  <2>2. ASSUME NEW role \in {"block", "if_cond"}, NextBody(Body(role, Caller))
        PROVE  Sideways /\ mark' = HandToConstruct
    <3> DEFINE f == Body(role, Caller)
    <3>1. f.role = role /\ NextBody(f)
      BY <1>2, <2>2, FrameRoles
    <3> HIDE DEF f
    <3> QED
      BY <1>5, <2>1, <3>1 DEF LoopRoles
  <2> QED
    BY <1>1, <1>2, <1>3, <1>7, <2>2 DEF EndIfCond
<1>8. CASE EndWhileCond
  <2>1. Top.role = "while_cond"
    BY <1>8 DEF EndWhileCond, Ending
  <2> DEFINE f == [Body("while_body", Caller) EXCEPT
                     !.iterations = Top.iterations, !.until = Top.until]
  <2>2. f.role \in LoopRoles
    BY <1>1, IterationFacts, WhileBodyFacts
  <2>3. NextBody(f) \/ Finish(LeaveLoop(Caller), Top.prev_rc)
    BY <1>8 DEF EndWhileCond
  <2> HIDE DEF f
  <2> QED
    BY <1>1, <1>2, <1>4, <1>5, <2>1, <2>2, <2>3 DEF LoopRoles
<1>9. CASE EndWhileBody
  <2>1. Top.role = "while_body"
    BY <1>9 DEF EndWhileBody, Ending
  <2>2. NextWhileCond.role = "while_cond"
    BY DEF NextWhileCond, Body, NewRunner
  <2>3. NextBody(NextWhileCond) \/ Finish(LeaveLoop(Caller), 1)
    BY <1>9 DEF EndWhileBody
  <2> QED
    BY <1>1, <1>2, <1>4, <1>5, <2>1, <2>2, <2>3 DEF LoopRoles
<1>10. CASE EndForBody
  <2>1. Top.role = "for_body"
    BY <1>10 DEF EndForBody, Ending
  <2> DEFINE f == Body("for_body", Caller)
  <2>2. f.role = "for_body"
    BY <1>2, FrameRoles
  <2>3. NextBody(f) \/ Finish(LeaveLoop(Caller), Top.prev_rc)
    BY <1>10 DEF EndForBody
  <2> HIDE DEF f
  <2> QED
    BY <1>1, <1>2, <1>4, <1>5, <2>1, <2>2, <2>3 DEF LoopRoles
<1> QED
  BY <1>1, <1>6, <1>7, <1>8, <1>9, <1>10 DEF End

(* What a loop that ends by a signal hands on of the marked output.        *)
LoopHands ==
  LET m == DropRunner(mark)
  IN IF m = InConstruct(Depth - 1) THEN InRunner(Depth - 1) ELSE m

(* A loop catches the signal: it ends with the exit code it reports, or    *)
(* goes on with its next iteration.                                        *)
LEMMA CaughtShape ==
  ASSUME IInv, UnwindBreak \/ UnwindContinueFor \/ UnwindContinueWhile
  PROVE  /\ Depth > 1 /\ UNCHANGED status /\ Top.role \in LoopRoles
         /\ CatchLast("break") \/ CatchLast("continue")
         /\ signal.kind = "break" => stack'[Len(stack')].prev_rc = 0 /\ Shallower
         /\ \/ Shallower /\ mark' = LoopHands
            \/ Sideways /\ mark' = DropRunner(mark)
<1>1. /\ Depth > 1 /\ UNCHANGED status /\ Top.role \in LoopRoles
      /\ CatchLast("break") \/ CatchLast("continue")
  BY DEF UnwindBreak, UnwindContinueFor, UnwindContinueWhile, Unwinding, LoopRoles
<1>2. Caller \in Frames /\ 0 \in Rcs /\ 1 \in Rcs
  BY <1>1, StackFacts, StateFacts
<1>3. Top.role \notin Scopes
  BY <1>1 DEF LoopRoles, Scopes
<1>4. ASSUME NEW rc \in Rcs, stack' = Return(WithRc(LeaveLoop(Caller), rc))
      PROVE  Shallower /\ stack'[Len(stack')].prev_rc = rc
  BY <1>1, <1>4, ReturnShape
<1>5. ASSUME NEW f, f.role \in LoopRoles, stack' = Replace(f) PROVE Sideways
  BY <1>1, <1>3, <1>5, SidewaysFacts DEF LoopRoles, Scopes
<1>6. CASE UnwindBreak
  BY <1>1, <1>2, <1>4, <1>6 DEF UnwindBreak, LoopHands
<1>7. CASE UnwindContinueFor
  <2>1. signal.kind = "continue"
    BY <1>7 DEF UnwindContinueFor, CatchLast
  <2>2. CASE stack' = Return(WithRc(LeaveLoop(Caller), 0)) /\ mark' = LoopHands
    BY <1>1, <1>2, <1>4, <2>1, <2>2
  <2>3. CASE stack' = Replace(Body("for_body", Caller)) /\ mark' = DropRunner(mark)
    <3> DEFINE f == Body("for_body", Caller)
    <3>1. f.role \in LoopRoles /\ stack' = Replace(f)
      BY <1>2, <2>3, FrameRoles DEF LoopRoles
    <3> HIDE DEF f
    <3> QED
      BY <1>1, <1>5, <2>1, <2>3, <3>1
  <2> QED
    BY <1>7, <2>2, <2>3 DEF UnwindContinueFor, LoopHands
<1>8. CASE UnwindContinueWhile
  <2>1. signal.kind = "continue"
    BY <1>8 DEF UnwindContinueWhile, CatchLast
  <2>2. CASE stack' = Return(WithRc(LeaveLoop(Caller), 1)) /\ mark' = LoopHands
    BY <1>1, <1>2, <1>4, <2>1, <2>2
  <2>3. CASE stack' = Replace(NextWhileCond) /\ mark' = DropRunner(mark)
    <3>1. NextWhileCond.role \in LoopRoles
      BY DEF NextWhileCond, Body, NewRunner, LoopRoles
    <3> QED
      BY <1>1, <1>5, <2>1, <2>3, <3>1
  <2> QED
    BY <1>8, <2>2, <2>3 DEF UnwindContinueWhile, LoopHands
<1> QED
  BY <1>1, <1>6, <1>7, <1>8

(* The construct does not catch it: the Runner below raises it again while *)
(* its counter says that it is in a loop, and fails with 1 otherwise.      *)
LEMMA RaisedShape ==
  ASSUME IInv, UnwindOuterLoop \/ UnwindBlock
  PROVE  /\ Depth > 1 /\ UNCHANGED status /\ Shallower
         /\ mark' = DropConstruct(DropRunner(mark))
         /\ LET n == IF UnwindOuterLoop THEN signal.count - 1 ELSE signal.count
            IN IF Inherited(stack, Depth - 1) > 0
               THEN signal' = [signal EXCEPT !.count = n]
               ELSE signal' = NoSignal /\ stack'[Len(stack')].prev_rc = 1
<1>1. /\ Depth > 1 /\ UNCHANGED status
      /\ mark' = DropConstruct(DropRunner(mark))
  BY DEF UnwindOuterLoop, UnwindBlock, Unwinding, RaiseIn
<1>2. Caller \in Frames /\ 1 \in Rcs /\ Caller.loop_depth \in Nat
  BY <1>1, StackFacts, StateFacts DEF Frames
<1>3. ASSUME NEW c \in Frames, c.role = Caller.role, NEW n,
             c.loop_depth = Inherited(stack, Depth - 1), RaiseIn(c, n)
      PROVE  /\ Shallower
             /\ IF Inherited(stack, Depth - 1) > 0
                THEN signal' = [signal EXCEPT !.count = n]
                ELSE signal' = NoSignal /\ stack'[Len(stack')].prev_rc = 1
  <2>1. CASE c.loop_depth > 0
    BY <1>1, <1>3, <2>1, ShallowerFacts DEF RaiseIn
  <2>2. CASE ~(c.loop_depth > 0)
    <3> DEFINE f == WithRc(c, 1)
    <3>1. /\ f \in Frames /\ f.role = Caller.role /\ f.prev_rc = 1
          /\ stack' = Return(f) /\ signal' = NoSignal
      BY <1>2, <1>3, <2>2, WithRcFacts DEF RaiseIn, Like, WithRc, Frames
    <3> HIDE DEF f
    <3> QED
      BY <1>1, <1>3, <2>2, <3>1, ShallowerFacts
  <2> QED
    BY <2>1, <2>2
<1>4. CASE UnwindOuterLoop
  <2>1. Top.role \in LoopRoles /\ RaiseIn(LeaveLoop(Caller), signal.count - 1)
    BY <1>4 DEF UnwindOuterLoop, Unwinding
  <2>2. /\ Caller.loop_depth > 0
        /\ Inherited(stack, Depth - 1) = Caller.loop_depth - 1
    BY <1>1, <2>1, StackFacts
  <2>3. /\ LeaveLoop(Caller) \in Frames /\ LeaveLoop(Caller).role = Caller.role
        /\ LeaveLoop(Caller).loop_depth = Inherited(stack, Depth - 1)
    BY <1>2, <2>2, LeaveLoopFacts DEF Like
  <2> QED
    BY <1>1, <1>3, <1>4, <2>1, <2>3
<1>5. CASE UnwindBlock /\ ~UnwindOuterLoop
  <2>1. Top.role \in {"block", "if_cond"} /\ RaiseIn(Caller, signal.count)
    BY <1>5 DEF UnwindBlock, Unwinding
  <2>2. Inherited(stack, Depth - 1) = Caller.loop_depth
    BY <1>1, <1>2, <2>1, StackFacts DEF LoopRoles
  <2> QED
    BY <1>1, <1>2, <1>3, <1>5, <2>1, <2>2
<1> QED
  BY <1>4, <1>5

(* A function or subshell turns the signal into exit code 1.               *)
LEMMA ReportedShape ==
  ASSUME IInv, UnwindSubshell \/ UnwindFunction
  PROVE  /\ Depth > 1 /\ UNCHANGED status /\ Shallower /\ Top.role \in Scopes
         /\ stack'[Len(stack')].prev_rc = 1
         /\ signal' = NoSignal /\ mark' = DropRunner(mark)
<1>1. /\ Depth > 1 /\ UNCHANGED status /\ Top.role \in Scopes
      /\ signal' = NoSignal /\ mark' = DropRunner(mark)
      /\ stack' = Return(WithRc(Caller, 1))
  BY DEF UnwindSubshell, UnwindFunction, Unwinding, Scopes
<1>2. 1 \in Rcs
  BY StateFacts
<1> QED
  BY <1>1, <1>2, ReturnShape

-----------------------------------------------------------------------------
(* OutputHeld: a construct holds output only while one of its bodies that  *)
(* has successors runs above it, so that a function, subshell or sourced   *)
(* file, left by an exception, never takes output of an earlier body along.*)

Held(m, s) ==
  /\ m \in Marks
  /\ m.where \in {"none", "lost"} => m.at = 0
  /\ m.where = "runner" => m.at \in 1..Len(s)
  /\ m.where = "construct" =>
       m.at \in 1..(Len(s) - 1) /\ s[m.at + 1].role \notin Scopes

MarkInv == Held(mark, stack) /\ (status = "done" => Depth = 1)

LEMMA HeldMarks ==
  ASSUME IInv, MarkInv, Depth > 1
  PROVE  LET upper == {InRunner(Depth), InConstruct(Depth - 1)}
         IN /\ \A m \in {HandToRunner, LoopHands, DropConstruct(DropRunner(mark))} :
                 Held(m, stack) /\ m \notin upper
            /\ Held(DropRunner(mark), stack) /\ DropRunner(mark) # InRunner(Depth)
            /\ Top.role \in Scopes => DropRunner(mark) \notin upper
            /\ Top.role \notin Scopes => Held(HandToConstruct, stack)
<1>1. Depth \in Nat /\ Depth = Len(stack) /\ Held(mark, stack)
  BY StackFacts DEF MarkInv, Depth
<1>2. /\ Held(DropRunner(mark), stack) /\ DropRunner(mark) # InRunner(Depth)
      /\ DropRunner(mark) = InConstruct(Depth - 1) => Top.role \notin Scopes
  BY <1>1 DEF Held, DropRunner, InRunner, InConstruct, Lost, Marks, Top
<1>3. Held(InRunner(Depth - 1), stack) /\ Held(Lost, stack)
      /\ InRunner(Depth - 1) \notin {InRunner(Depth), InConstruct(Depth - 1)}
      /\ Lost \notin {InRunner(Depth), InConstruct(Depth - 1)}
  BY <1>1 DEF Held, InRunner, InConstruct, Lost, Marks
<1>4. Top.role \notin Scopes => Held(InConstruct(Depth - 1), stack)
  BY <1>1 DEF Held, InConstruct, Marks, Top
<1>5. Held(HandToRunner, stack)
      /\ HandToRunner \notin {InRunner(Depth), InConstruct(Depth - 1)}
  BY <1>1, <1>3 DEF HandToRunner
<1>6. Held(LoopHands, stack)
      /\ LoopHands \notin {InRunner(Depth), InConstruct(Depth - 1)}
  BY <1>2, <1>3 DEF LoopHands
<1>7. /\ Held(DropConstruct(DropRunner(mark)), stack)
      /\ DropConstruct(DropRunner(mark))
           \notin {InRunner(Depth), InConstruct(Depth - 1)}
  BY <1>2, <1>3 DEF DropConstruct
<1>8. Top.role \notin Scopes => Held(HandToConstruct, stack)
  BY <1>1, <1>4 DEF HandToConstruct
<1> QED
  BY <1>2, <1>5, <1>6, <1>7, <1>8

(* What is held below the change of a stack is held after it.              *)
LEMMA HeldStep ==
  ASSUME IInv, NEW m, Held(m, stack),
         \/ Level \/ Deeper \/ Sideways
         \/ Shallower /\ m \notin {InRunner(Depth), InConstruct(Depth - 1)}
  PROVE  Held(m, stack')
<1>1. Depth \in Nat \ {0} /\ Depth = Len(stack)
  BY StackFacts DEF Depth
<1>2. CASE Level \/ Deeper
  BY <1>1, <1>2 DEF Held, Level, Deeper, SameUpTo
<1>3. CASE Sideways
  BY <1>1, <1>3 DEF Held, Sideways, Top
<1>4. CASE Shallower /\ m \notin {InRunner(Depth), InConstruct(Depth - 1)}
  <2>1. m.where = "runner" => m = InRunner(m.at)
    BY DEF Held, Marks, InRunner
  <2>2. m.where = "construct" => m = InConstruct(m.at)
    BY DEF Held, Marks, InConstruct
  <2> QED
    BY <1>1, <1>4, <2>1, <2>2 DEF Held, Shallower, SameUpTo
<1> QED
  BY <1>2, <1>3, <1>4

LEMMA MarkInit == Init => MarkInv
  BY DEF Init, MarkInv, Held, NoMark, Marks, Depth

LEMMA MarkStep == IInv /\ MarkInv /\ [Next]_vars => MarkInv'
<1> SUFFICES ASSUME IInv, MarkInv, [Next]_vars PROVE MarkInv'
  OBVIOUS
<1>1. Depth \in Nat \ {0} /\ Depth = Len(stack) /\ Held(mark, stack)
  BY StackFacts DEF MarkInv, Depth
<1>2. CASE Segment
  <2>1. status = "running"
    BY <1>2 DEF Segment, Simple, Shift, BreakOrContinue, FunctionCall, Source,
       TrivialCompound, EnterBlock, EnterSubshell, EnterWhile, EnterFor,
       EnterForWithoutWords, NotDropped, Running
  <2>2. Held(InRunner(Depth), stack)
    BY <1>1 DEF Held, InRunner, Marks
  <2> QED
    BY <1>1, <1>2, <2>1, <2>2, SegmentShape, HeldStep DEF MarkInv
<1>3. CASE End
  BY <1>1, <1>3, EndShape, HeldMarks, HeldStep DEF MarkInv, Sideways
<1>4. CASE UnwindBreak \/ UnwindContinueFor \/ UnwindContinueWhile
  BY <1>1, <1>4, CaughtShape, HeldMarks, HeldStep DEF MarkInv
<1>5. CASE UnwindOuterLoop \/ UnwindBlock
  BY <1>1, <1>5, RaisedShape, HeldMarks, HeldStep DEF MarkInv
<1>6. CASE UnwindSubshell \/ UnwindFunction
  BY <1>1, <1>6, ReportedShape, HeldMarks, HeldStep DEF MarkInv
<1>7. CASE Done
  BY <1>1, <1>7 DEF Done, MarkInv, Depth
<1>8. CASE NextCall
  BY <1>8 DEF NextCall, MarkInv, Held, NoMark, Marks
<1>9. CASE UNCHANGED vars
  BY <1>9 DEF vars, MarkInv, Depth
<1> QED
  BY <1>2, <1>3, <1>4, <1>5, <1>6, <1>7, <1>8, <1>9 DEF Next, Unwind

(* The output of a command that ran is never left behind: a Runner or      *)
(* construct that is still running holds it, until a LoopSignal drops it   *)
(* or shell_run answers (_run_body, the loops, _run_if).                   *)
THEOREM OutputIsHeld == Spec => []OutputHeld
<1>1. IInv /\ MarkInv => OutputHeld
  <2> SUFFICES ASSUME IInv, MarkInv PROVE OutputHeld
    OBVIOUS
  <2>1. Depth \in Nat /\ Depth = Len(stack)
    BY StackFacts DEF Depth
  <2>2. mark.where = "none" /\ mark.at = 0 => mark = NoMark
    BY DEF MarkInv, Held, Marks, NoMark
  <2>3. mark.where = "lost" /\ mark.at = 0 => mark = Lost
    BY DEF MarkInv, Held, Marks, Lost
  <2>4. mark.where = "runner" => mark = InRunner(mark.at)
    BY DEF MarkInv, Held, Marks, InRunner
  <2> QED
    BY <2>1, <2>2, <2>3, <2>4 DEF OutputHeld, MarkInv, Held, Marks
<1> QED
  BY <1>1, InitInv, StepInv, MarkInit, MarkStep, PTL DEF Spec

-----------------------------------------------------------------------------
(* SignalLandsAtItsLoop.  A signal in flight keeps a count that is that of *)
(* the loops in reach down to its goal, and below a loop the counter never *)
(* falls to 0 before a scope ends, so that a signal with a goal is raised  *)
(* again until it meets the goal.                                          *)

Above(s, i) ==
  {j \in 1..Len(s) : /\ i <= j /\ s[j].role \in LoopRoles
                     /\ \A k \in j..Len(s) : s[k].role \notin Scopes}

LoopInherited(s) ==
  \A i, j \in 1..Len(s) :
    /\ i <= j /\ s[i].role \in LoopRoles
    /\ \A k \in i..j : s[k].role # "source"
    => Inherited(s, j) > 0

Aims(sig, s) ==
  IF sig.goal = 0
  THEN \A i \in Above(s, 1) : Cardinality(Above(s, i)) # sig.count
  ELSE /\ sig.goal \in Above(s, 1)
       /\ Cardinality(Above(s, sig.goal)) = sig.count

SignalInv ==
  /\ LoopInherited(stack)
  /\ signal # NoSignal => Aims(signal, stack)

LEMMA InReach ==
  ASSUME IInv
  PROVE  /\ LoopsInReach = Above(stack, 1)
         /\ \A i \in LoopsInReach : {j \in LoopsInReach : j >= i} = Above(stack, i)
  BY StackFacts DEF LoopsInReach, Above, Scopes, Depth

LEMMA AboveFinite ==
  ASSUME NEW s \in Seq(Frames), NEW i
  PROVE  IsFiniteSet(Above(s, i)) /\ Cardinality(Above(s, i)) \in Nat
<1>1. Above(s, i) \in SUBSET (1..Len(s)) /\ Len(s) \in Nat
  BY DEF Above
<1>2. IsFiniteSet(1..Len(s))
  BY <1>1, FS_Interval
<1> QED
  BY <1>1, <1>2, FS_Subset, FS_CardinalityType

(* The innermost loop in reach is the only one with a count of 1.          *)
LEMMA Innermost ==
  ASSUME IInv, Top.role \in LoopRoles
  PROVE  /\ Depth \in Above(stack, 1)
         /\ \A i \in Above(stack, 1) : Cardinality(Above(stack, i)) = 1 <=> i = Depth
<1>1. stack \in Seq(Frames) /\ Depth = Len(stack) /\ Depth \in Nat \ {0}
  BY StackFacts DEF Depth
<1>2. Top.role \notin Scopes
  BY DEF LoopRoles, Scopes
<1>3. Depth \in Above(stack, 1)
  BY <1>1, <1>2 DEF Above, Top
<1>4. Above(stack, Depth) = {Depth}
  BY <1>1, <1>2 DEF Above, Top
<1>5. ASSUME NEW i \in Above(stack, 1), Cardinality(Above(stack, i)) = 1
      PROVE  i = Depth
  <2>1. i \in Above(stack, i) /\ Depth \in Above(stack, i)
    BY <1>1, <1>3 DEF Above
  <2>2. PICK x : Above(stack, i) = {x}
    BY <1>1, <1>5, AboveFinite, FS_Singleton
  <2> QED
    BY <2>1, <2>2
<1> QED
  BY <1>3, <1>4, <1>5, FS_Singleton

(* One construct less: the loop on top, if it is one, no longer counts.    *)
LEMMA AboveShallower ==
  ASSUME IInv, stack' \in Seq(Frames), Shallower, Top.role \notin Scopes
  PROVE  \A i : Above(stack', i) = Above(stack, i) \ {Depth}
                /\ (Top.role \notin LoopRoles => Depth \notin Above(stack, i))
<1>1. /\ Depth = Len(stack) /\ Depth \in Nat /\ Len(stack') = Depth - 1
      /\ \A j \in 1..(Depth - 1) : stack'[j].role = stack[j].role
  BY StackFacts DEF Shallower, SameUpTo, Depth
<1> QED
  BY <1>1 DEF Above, Top

LEMMA InheritedStep ==
  ASSUME IInv, LoopInherited(stack), Nested(stack'),
         Level \/ Deeper \/ Shallower \/ Sideways
  PROVE  LoopInherited(stack')
<1> DEFINE n == IF Shallower THEN Depth - 1 ELSE Depth
<1>1. /\ Depth = Len(stack) /\ Depth \in Nat \ {0} /\ stack \in Seq(Frames)
      /\ stack' \in Seq(Frames)
  BY StackFacts DEF Depth, Nested
<1>2. /\ n \in 1..Depth /\ Len(stack') \in {n, n + 1}
      /\ \A i \in 1..(n - 1) : stack'[i] = stack[i]
      /\ stack'[n].role \in LoopRoles => stack[n].role \in LoopRoles
      /\ stack[n].role = "source" => stack'[n].role = "source"
      /\ stack'[n].role = "source" => stack[n].role = "source"
  BY <1>1 DEF Level, Deeper, Shallower, Sideways, SameUpTo, Scopes, Top
<1> HIDE DEF n
<1>3. \A j \in 1..n : Inherited(stack', j) = Inherited(stack, j)
  BY <1>1, <1>2 DEF Inherited
<1>4. ASSUME NEW i \in 1..n, NEW j \in 1..n, i <= j, stack'[i].role \in LoopRoles,
             \A k \in i..j : stack'[k].role # "source"
      PROVE  Inherited(stack', j) > 0
  <2>1. stack[i].role \in LoopRoles /\ \A k \in i..j : stack[k].role # "source"
    BY <1>2, <1>4
  <2>2. i \in 1..Len(stack) /\ j \in 1..Len(stack)
    BY <1>1, <1>2
  <2>3. Inherited(stack, j) > 0
    BY <1>4, <2>1, <2>2 DEF LoopInherited
  <2> QED
    BY <1>3, <2>3
<1>5. ASSUME Len(stack') = n + 1, NEW i \in 1..(n + 1),
             stack'[i].role \in LoopRoles,
             \A k \in i..(n + 1) : stack'[k].role # "source"
      PROVE  Inherited(stack', n + 1) > 0
  <2>1. Inherited(stack', n + 1) = Inherited(stack', n) + Hosting(stack', n)
    <3>1. Inherited(stack', n + 1) = stack'[n].loop_depth
      BY <1>2, <1>5 DEF Inherited
    <3>2. n \in 1..Len(stack')
      BY <1>2, <1>5
    <3> QED
      BY <3>1, <3>2 DEF Nested, WellNested
  <2>2. Inherited(stack', n) \in Nat
    BY <1>1, <1>2, <1>5, InheritedNat
  <2>3. Hosting(stack', n) = IF stack'[n + 1].role \in LoopRoles THEN 1 ELSE 0
    BY <1>2, <1>5 DEF Hosting
  <2>4. CASE i = n + 1
    BY <1>5, <2>1, <2>2, <2>3, <2>4
  <2>5. CASE i \in 1..n
    <3>1. Inherited(stack', n) > 0
      BY <1>2, <1>4, <1>5, <2>5
    <3> QED
      BY <2>1, <2>2, <2>3, <3>1
  <2> QED
    BY <1>2, <2>4, <2>5
<1> SUFFICES ASSUME NEW i \in 1..Len(stack'), NEW j \in 1..Len(stack'), i <= j,
                    stack'[i].role \in LoopRoles,
                    \A k \in i..j : stack'[k].role # "source"
             PROVE  Inherited(stack', j) > 0
  BY DEF LoopInherited
<1>6. CASE j \in 1..n
  <2>1. i \in 1..n
    BY <1>2, <1>6
  <2> QED
    BY <1>4, <1>6, <2>1
<1>7. CASE j = n + 1
  <2>1. Len(stack') = n + 1 /\ i \in 1..(n + 1)
    BY <1>2, <1>7
  <2> QED
    BY <1>5, <1>7, <2>1
<1>8. j \in 1..n \/ j = n + 1
  BY <1>2
<1> QED
  BY <1>6, <1>7, <1>8

(* A loop above which nothing ends a scope keeps the Runners between it    *)
(* and the top in a loop.                                                  *)
LEMMA ReachRaises ==
  ASSUME IInv, LoopInherited(stack), Depth > 1,
         NEW i \in Above(stack, 1), i < Depth
  PROVE  Inherited(stack, Depth - 1) > 0
<1>1. Depth = Len(stack) /\ Depth \in Nat /\ i \in 1..(Depth - 1)
  BY StackFacts DEF Depth, Above
<1>2. \A k \in i..(Depth - 1) : stack[k].role # "source"
  BY <1>1 DEF Above, Scopes
<1> QED
  BY <1>1, <1>2 DEF LoopInherited, Above

LEMMA SignalFacts ==
  ASSUME IInv, signal # NoSignal
  PROVE  /\ signal \in Signals /\ signal.count \in 1..MaxCount
         /\ signal.kind \in {"break", "continue"}
         /\ \A n : [signal EXCEPT !.count = n] # NoSignal
         /\ \A n : /\ [signal EXCEPT !.count = n].goal = signal.goal
                   /\ [signal EXCEPT !.count = n].count = n
<1>1. signal \in Signals
  BY StateFacts
<1>2. signal.count \in 1..MaxCount /\ signal.kind \in {"break", "continue"}
  BY <1>1 DEF Signals
<1>3. ASSUME NEW n
      PROVE  /\ [signal EXCEPT !.count = n].goal = signal.goal
             /\ [signal EXCEPT !.count = n].count = n
             /\ [signal EXCEPT !.count = n].kind = signal.kind
  BY <1>1 DEF Signals
<1> QED
  BY <1>1, <1>2, <1>3 DEF NoSignal

(* A break or continue is raised with the loop its count names as goal.    *)
LEMMA RaiseAims ==
  ASSUME IInv, NEW kind, NEW n \in 1..MaxCount,
         signal' = [kind |-> kind, count |-> n, goal |-> Goal(n)]
  PROVE  Aims(signal', stack)
<1> DEFINE goals == {i \in LoopsInReach :
                       Cardinality({j \in LoopsInReach : j >= i}) = n}
<1>1. goals = {i \in Above(stack, 1) : Cardinality(Above(stack, i)) = n}
  BY InReach
<1>2. Goal(n) = IF goals = {} THEN 0 ELSE CHOOSE i \in goals : TRUE
  BY DEF Goal
<1>3. 0 \notin Above(stack, 1)
  BY StackFacts DEF Above, Depth
<1> HIDE DEF goals
<1>4. CASE goals = {}
  BY <1>1, <1>2, <1>4 DEF Aims
<1>5. CASE goals # {}
  <2>1. Goal(n) \in goals
    BY <1>2, <1>5
  <2> QED
    BY <1>1, <1>3, <2>1 DEF Aims
<1> QED
  BY <1>4, <1>5

(* A signal that passes a loop has one loop less to go.                    *)
LEMMA RaisedAims ==
  ASSUME IInv, SignalInv, stack' \in Seq(Frames),
         UnwindOuterLoop \/ UnwindBlock, signal' # NoSignal
  PROVE  Aims(signal', stack')
<1> DEFINE n == IF UnwindOuterLoop THEN signal.count - 1 ELSE signal.count
<1>1. /\ Depth > 1 /\ Shallower /\ signal # NoSignal
      /\ signal' = [signal EXCEPT !.count = n]
  BY RaisedShape DEF UnwindOuterLoop, UnwindBlock, Unwinding
<1>2. /\ signal'.goal = signal.goal /\ signal'.count = n
      /\ signal.count \in 1..MaxCount /\ Aims(signal, stack)
  BY <1>1, SignalFacts DEF SignalInv
<1>3. Top.role \notin Scopes
  BY DEF UnwindOuterLoop, UnwindBlock, Unwinding, LoopRoles, Scopes
<1>4. \A i : Above(stack', i) = Above(stack, i) \ {Depth}
             /\ (Top.role \notin LoopRoles => Depth \notin Above(stack, i))
  BY <1>1, <1>3, AboveShallower
<1>5. CASE UnwindOuterLoop
  <2>1. Top.role \in LoopRoles /\ signal.count > 1 /\ n = signal.count - 1
    BY <1>5 DEF UnwindOuterLoop, Unwinding
  <2>2. ASSUME NEW i \in Above(stack, 1)
        PROVE  Cardinality(Above(stack', i)) = Cardinality(Above(stack, i)) - 1
    <3>1. Depth \in Above(stack, 1) /\ stack \in Seq(Frames)
      BY <2>1, Innermost, StackFacts
    <3>2. Depth \in Above(stack, i)
      BY <2>2, <3>1, StackFacts DEF Above, Depth
    <3> QED
      BY <1>4, <3>1, <3>2, AboveFinite, FS_RemoveElement
  <2>3. \A i \in Above(stack, 1) : Cardinality(Above(stack, i)) \in Nat
    BY AboveFinite, StackFacts
  <2>4. CASE signal.goal = 0
    BY <1>2, <1>4, <2>1, <2>2, <2>3, <2>4 DEF Aims
  <2>5. CASE signal.goal # 0
    <3>1. signal.goal # Depth
      BY <1>2, <2>1, <2>5, Innermost DEF Aims
    <3> QED
      BY <1>2, <1>4, <2>1, <2>2, <2>5, <3>1 DEF Aims
  <2> QED
    BY <2>4, <2>5
<1>6. CASE UnwindBlock /\ ~UnwindOuterLoop
  <2>1. Top.role \notin LoopRoles
    BY <1>6 DEF UnwindBlock, Unwinding, LoopRoles
  <2>2. \A i : Above(stack', i) = Above(stack, i)
    BY <1>4, <2>1
  <2> QED
    BY <1>2, <1>6, <2>2 DEF Aims
<1> QED
  BY <1>5, <1>6

LEMMA AloneInherited ==
  ASSUME NEW s, Len(s) = 1, s[1].role = "main"
  PROVE  LoopInherited(s)
<1>1. \A i \in 1..Len(s) : i = 1
  OBVIOUS
<1>2. s[1].role \notin LoopRoles
  BY DEF LoopRoles
<1> QED
  BY <1>1, <1>2 DEF LoopInherited

LEMMA SignalInit == Init => SignalInv
<1> SUFFICES ASSUME Init PROVE SignalInv
  OBVIOUS
<1>1. Nested(stack) /\ Len(stack) = 1
  BY FreshFacts DEF Init
<1>2. stack[1].role = "main"
  BY <1>1 DEF Nested, WellNested
<1> QED
  BY <1>1, <1>2, AloneInherited DEF SignalInv, Init

LEMMA SignalStep == IInv /\ SignalInv /\ [Next]_vars => SignalInv'
<1> SUFFICES ASSUME IInv, SignalInv, [Next]_vars PROVE SignalInv'
  OBVIOUS
<1>1. Nested(stack') /\ stack' \in Seq(Frames)
  BY StepInv DEF IInv, TypeOK, Nested
<1>2. CASE Segment
  <2>1. LoopInherited(stack')
    BY <1>1, <1>2, SegmentShape, InheritedStep DEF SignalInv
  <2>2. signal = NoSignal
    BY <1>2 DEF Segment, Simple, Shift, BreakOrContinue, FunctionCall, Source,
       TrivialCompound, EnterBlock, EnterSubshell, EnterWhile, EnterFor,
       EnterForWithoutWords, NotDropped, Running
  <2>3. \/ signal' = signal
        \/ \E kind \in {"break", "continue"}, n \in 1..MaxCount :
             /\ signal' = [kind |-> kind, count |-> n, goal |-> Goal(n)]
             /\ stack' = stack
    BY <1>2 DEF Segment, Simple, Shift, BreakOrContinue, FunctionCall, Source,
       TrivialCompound, EnterBlock, EnterSubshell, EnterWhile, EnterFor,
       EnterForWithoutWords
  <2> QED
    BY <2>1, <2>2, <2>3, RaiseAims DEF SignalInv
<1>3. CASE End
  BY <1>1, <1>3, EndShape, InheritedStep DEF SignalInv
<1>4. CASE UnwindBreak \/ UnwindContinueFor \/ UnwindContinueWhile
  <2>1. signal' = NoSignal
    BY <1>4, CaughtShape DEF CatchLast
  <2> QED
    BY <1>1, <1>4, <2>1, CaughtShape, InheritedStep DEF SignalInv
<1>5. CASE UnwindOuterLoop \/ UnwindBlock
  BY <1>1, <1>5, RaisedShape, RaisedAims, InheritedStep DEF SignalInv
<1>6. CASE UnwindSubshell \/ UnwindFunction
  BY <1>1, <1>6, ReportedShape, InheritedStep DEF SignalInv
<1>7. CASE Done
  BY <1>7 DEF Done, Running, SignalInv
<1>8. CASE NextCall
  <2>1. Len(stack') = 1 /\ stack'[1].role = "main"
    <3>1. Len(stack') = 1
      BY <1>8 DEF NextCall
    <3> QED
      BY <1>1, <3>1 DEF Nested, WellNested
  <2> QED
    BY <1>8, <2>1, AloneInherited DEF NextCall, SignalInv
<1>9. CASE UNCHANGED vars
  BY <1>9 DEF vars, SignalInv
<1> QED
  BY <1>2, <1>3, <1>4, <1>5, <1>6, <1>7, <1>8, <1>9 DEF Next, Unwind

LEMMA LandsStep == IInv /\ SignalInv /\ [Next]_vars => LandsAtItsLoop
<1> SUFFICES ASSUME IInv, SignalInv, [Next]_vars,
                    signal # NoSignal, signal' = NoSignal, status = "running"
             PROVE  LandsAtItsLoop
  BY DEF LandsAtItsLoop
<1>1. /\ Depth = Len(stack) /\ Depth \in Nat
      /\ signal.count \in 1..MaxCount /\ signal.kind \in {"break", "continue"}
      /\ Aims(signal, stack)
  BY StackFacts, SignalFacts DEF Depth, SignalInv
<1>2. CASE UnwindBreak \/ UnwindContinueFor \/ UnwindContinueWhile
  <2>1. /\ Top.role \in LoopRoles /\ signal.count = 1
        /\ Shallower \/ (signal.kind = "continue" /\ Sideways)
        /\ signal.kind = "break" => stack'[Len(stack')].prev_rc = 0
    BY <1>1, <1>2, CaughtShape, BoundsAssumption DEF CatchLast
  <2>2. signal.goal = Depth
    BY <1>1, <2>1, Innermost DEF Aims
  <2>3. CASE Shallower
    BY <1>1, <2>1, <2>2, <2>3 DEF LandsAtItsLoop, Shallower
  <2>4. CASE Sideways /\ signal.kind = "continue"
    BY <1>1, <2>1, <2>2, <2>4 DEF LandsAtItsLoop, Sideways
  <2> QED
    BY <2>1, <2>3, <2>4
<1>3. CASE UnwindOuterLoop \/ UnwindBlock
  <2>1. /\ Depth > 1 /\ ~(Inherited(stack, Depth - 1) > 0)
        /\ stack'[Len(stack')].prev_rc = 1
    BY <1>3, RaisedShape, SignalFacts
  <2>2. ASSUME signal.goal # 0 PROVE FALSE
    <3>1. /\ signal.goal \in Above(stack, 1)
          /\ Cardinality(Above(stack, signal.goal)) = signal.count
      BY <1>1, <2>2 DEF Aims
    <3>2. signal.goal = Depth
      <4>1. signal.goal \in 1..Depth
        BY <1>1, <3>1 DEF Above
      <4>2. ~(signal.goal < Depth)
        BY <2>1, <3>1, ReachRaises DEF SignalInv
      <4> QED
        BY <1>1, <4>1, <4>2
    <3>3. Top.role \in LoopRoles
      BY <1>1, <3>1, <3>2 DEF Above, Top
    <3>4. signal.count = 1
      BY <3>1, <3>2, <3>3, Innermost
    <3>5. Top.role \notin {"block", "if_cond"}
      BY <3>3 DEF LoopRoles
    <3> QED
      BY <1>3, <3>4, <3>5 DEF UnwindOuterLoop, UnwindBlock, Unwinding
  <2> QED
    BY <2>1, <2>2 DEF LandsAtItsLoop
<1>4. CASE UnwindSubshell \/ UnwindFunction
  <2>1. Top.role \in Scopes /\ stack'[Len(stack')].prev_rc = 1
    BY <1>4, ReportedShape
  <2>2. Above(stack, 1) = {}
    BY <1>1, <2>1 DEF Above, Top
  <2>3. signal.goal = 0
    BY <1>1, <2>2 DEF Aims
  <2> QED
    BY <2>1, <2>3 DEF LandsAtItsLoop
<1>5. Unwind
  BY DEF Next, vars, Segment, Simple, Shift, BreakOrContinue, FunctionCall,
     Source, TrivialCompound, EnterBlock, EnterSubshell, EnterWhile, EnterFor,
     EnterForWithoutWords, NotDropped, Running, End, EndBlock, EndSubshell,
     EndFunction, EndIfCond, EndWhileCond, EndWhileBody, EndForBody, Ending,
     Done, NextCall
<1> QED
  BY <1>2, <1>3, <1>4, <1>5 DEF Unwind

(* break n and continue n end or go on with the n-th loop around them, for *)
(* any nesting and any n, and fail with 1 when there is no such loop.      *)
THEOREM SignalsLandAtTheirLoops == Spec => SignalLandsAtItsLoop
<1>1. IInv /\ SignalInv /\ [Next]_vars => [LandsAtItsLoop]_vars
  BY LandsStep
<1> QED
  BY <1>1, InitInv, StepInv, SignalInit, SignalStep, PTL
     DEF Spec, SignalLandsAtItsLoop
=============================================================================
