---------------------------- MODULE VariablesProofs ----------------------------
(***************************************************************************)
(* Proofs about Variables, for all pipelines and any nesting:              *)
(*   IInv       what is exported is always set, and functions of the       *)
(*              shells around a subshell are out of its reach;             *)
(*   Typed      the types of all that a pipeline works with;               *)
(*   Launching  a command gets its own prefix on top of what is exported;  *)
(*   InOrder    the words of export and set take effect in their order.    *)
(***************************************************************************)
EXTENDS Variables, SelectionProofs

IsSeq(s) == \E S : s \in Seq(S)
ExportedSet == exported \subseteq DOMAIN variables \cap Names
SavedSet(s) == s.exported \subseteq DOMAIN s.variables \cap Names

(* Of two subshells the inner one has the dictionary further on, and the   *)
(* store in use that after all of them.                                    *)
Scoped(fs, length) ==
  \A i \in 1..Len(fs) : fs[i].kind = "subshell" =>
    /\ fs[i].dict \in 1..(length - 1)
    /\ \A j \in 1..(i - 1) : fs[j].kind = "subshell" => fs[j].dict < fs[i].dict

IInv ==
  /\ IsSeq(functions) /\ functions # <<>>
  /\ IsSeq(frames) /\ Scoped(frames, dict)
  /\ ExportedSet /\ \A i \in 1..Len(frames) : SavedSet(frames[i])

(* What a step may not do to the dictionaries of the shells around.        *)
DictsKept ==
  \A i \in 1..Len(frames) :
    frames[i].kind = "subshell" =>
      SubSeq(functions', 1, frames[i].dict) = SubSeq(functions, 1, frames[i].dict)

-----------------------------------------------------------------------------
LEMMA AppendIsSeq ==
  ASSUME NEW s, NEW e, IsSeq(s)
  PROVE  /\ IsSeq(Append(s, e)) /\ Append(s, e) # <<>>
         /\ Len(s) \in Nat /\ Len(Append(s, e)) = Len(s) + 1
         /\ Append(s, e)[Len(s) + 1] = e
         /\ \A i \in 1..Len(s) : Append(s, e)[i] = s[i]
<1>1. PICK S : s \in Seq(S)
  BY DEF IsSeq
<1>2. s \in Seq(S \cup {e})
  BY <1>1, SeqMonotonic
<1>3. e \in S \cup {e}
  OBVIOUS
<1> DEFINE T == S \cup {e}
<1> HIDE DEF T
<1>4. s \in Seq(T) /\ e \in T
  BY <1>2, <1>3 DEF T
<1> QED
  BY <1>4, AppendProperties, LenProperties DEF IsSeq

LEMMA StartIsSeq ==
  ASSUME NEW s, IsSeq(s), NEW n \in 0..Len(s)
  PROVE  /\ IsSeq(SubSeq(s, 1, n)) /\ Len(SubSeq(s, 1, n)) = n
         /\ \A i \in 1..n : SubSeq(s, 1, n)[i] = s[i]
<1>1. PICK S : s \in Seq(S)
  BY DEF IsSeq
<1>2. n \in Nat /\ Len(s) \in Nat /\ \A i \in 1..n : s[i] \in S
  BY <1>1, LenProperties, ElementOfSeq
<1>3. /\ SubSeq(s, 1, n) \in Seq(S)
      /\ Len(SubSeq(s, 1, n)) = IF 1 <= n THEN n - 1 + 1 ELSE 0
      /\ \A i \in 1..(n - 1 + 1) : SubSeq(s, 1, n)[i] = s[1 + i - 1]
  BY <1>2, SubSeqProperties
<1> DEFINE t == SubSeq(s, 1, n)
<1>4. IsSeq(t)
  BY <1>3 DEF IsSeq
<1> HIDE DEF t
<1>5. Len(t) = n /\ \A i \in 1..n : t[i] = s[i]
  BY <1>2, <1>3 DEF t
<1> QED
  BY <1>4, <1>5 DEF t

LEMMA SameStart ==
  ASSUME NEW s, NEW t, IsSeq(s), IsSeq(t), NEW n \in 0..Len(s), n <= Len(t),
         \A i \in 1..n : t[i] = s[i]
  PROVE  SubSeq(t, 1, n) = SubSeq(s, 1, n)
<1>1. Len(s) \in Nat /\ Len(t) \in Nat /\ n \in 0..Len(t)
  BY LenProperties DEF IsSeq
<1>2. /\ IsSeq(SubSeq(s, 1, n)) /\ Len(SubSeq(s, 1, n)) = n
      /\ \A i \in 1..n : SubSeq(s, 1, n)[i] = s[i]
  BY StartIsSeq
<1>3. /\ IsSeq(SubSeq(t, 1, n)) /\ Len(SubSeq(t, 1, n)) = n
      /\ \A i \in 1..n : SubSeq(t, 1, n)[i] = t[i]
  BY <1>1, StartIsSeq
<1>4. PICK S, T : SubSeq(s, 1, n) \in Seq(S) /\ SubSeq(t, 1, n) \in Seq(T)
  BY <1>2, <1>3 DEF IsSeq
<1>5. SubSeq(s, 1, n) \in Seq(S \cup T) /\ SubSeq(t, 1, n) \in Seq(S \cup T)
  BY <1>4, SeqMonotonic
<1> DEFINE U == S \cup T
           a == SubSeq(t, 1, n)
           b == SubSeq(s, 1, n)
<1>6. /\ a \in Seq(U) /\ b \in Seq(U) /\ Len(a) = Len(b)
      /\ \A i \in 1..Len(a) : a[i] = b[i]
  BY <1>2, <1>3, <1>5
<1> HIDE DEF U, a, b
<1>7. a = b
  BY <1>6, SeqEqual
<1> QED
  BY <1>7 DEF a, b

-----------------------------------------------------------------------------
(* Steps that neither enter nor leave anything: the store in use changes.  *)
LEMMA StoreStep ==
  ASSUME IInv, UNCHANGED <<functions, frames>>, ExportedSet'
  PROVE  IInv' /\ DictsKept
BY DEF IInv, dict, DictsKept

(* The dictionary in use changes, which no subshell gives back.            *)
LEMMA DictStep ==
  ASSUME IInv, NEW fs, functions' = [functions EXCEPT ![dict] = fs],
         UNCHANGED frames, ExportedSet'
  PROVE  IInv' /\ DictsKept
<1>1. PICK S : functions \in Seq(S)
  BY DEF IInv, IsSeq
<1>2. functions \in Seq(S \cup {fs})
  BY <1>1, SeqMonotonic
<1> DEFINE T == S \cup {fs}
<1> HIDE DEF T
<1>3. functions \in Seq(T) /\ fs \in T
  BY <1>2 DEF T
<1>4. Len(functions) \in Nat /\ dict \in 1..Len(functions)
  BY <1>3, EmptySeq, LenProperties DEF IInv, dict
<1>5. /\ functions' \in Seq(T) /\ Len(functions') = Len(functions)
      /\ \A i \in 1..Len(functions) : functions'[i] = IF i = dict THEN fs
                                                     ELSE functions[i]
  BY <1>3, <1>4, ExceptSeq
<1>6. functions' # <<>>
  BY <1>4, <1>5 DEF dict
<1>7. IInv'
  BY <1>5, <1>6 DEF IInv, IsSeq, dict
<1>8. DictsKept
  <2> SUFFICES ASSUME NEW i \in 1..Len(frames), frames[i].kind = "subshell"
               PROVE  SubSeq(functions', 1, frames[i].dict)
                        = SubSeq(functions, 1, frames[i].dict)
    BY DEF DictsKept
  <2>1. frames[i].dict \in 1..(dict - 1)
    BY DEF IInv, Scoped
  <2> DEFINE n == frames[i].dict
  <2>2. n \in 0..Len(functions) /\ n <= Len(functions') /\ dict \notin 1..n
    BY <1>4, <1>5, <2>1 DEF dict
  <2>3. \A k \in 1..n : functions'[k] = functions[k]
    BY <1>4, <1>5, <2>2
  <2>4. IsSeq(functions) /\ IsSeq(functions')
    BY <1>3, <1>5 DEF IsSeq
  <2> QED
    BY <2>2, <2>3, <2>4, SameStart
<1> QED
  BY <1>7, <1>8

LEMMA PushSaved ==
  ASSUME IInv, NEW kind \in {"subshell", "function"},
         frames' = Append(frames, Saved(kind)), ExportedSet',
         \/ functions' = functions /\ kind = "function"
         \/ functions' = Append(functions, functions[dict])
  PROVE  IInv'
<1> DEFINE s == Saved(kind)
           n == Len(frames)
<1>1. /\ n \in Nat /\ IsSeq(frames') /\ Len(frames') = n + 1
      /\ frames'[n + 1] = s /\ \A i \in 1..n : frames'[i] = frames[i]
  BY AppendIsSeq DEF IInv
<1>2. s.kind = kind /\ s.dict = dict /\ SavedSet(s)
  BY DEF Saved, SavedSet, IInv, ExportedSet
<1>3. /\ IsSeq(functions') /\ functions' # <<>> /\ dict \in Nat
      /\ dict' = IF functions' = functions THEN dict ELSE dict + 1
  <2>1. /\ IsSeq(Append(functions, functions[dict]))
        /\ Append(functions, functions[dict]) # <<>>
        /\ Len(functions) \in Nat
        /\ Len(Append(functions, functions[dict])) = Len(functions) + 1
    BY AppendIsSeq DEF IInv
  <2> QED
    BY <2>1 DEF IInv, dict
<1>4. dict >= 1
  BY <1>3, LenProperties, EmptySeq DEF IInv, IsSeq, dict
<1>5. kind = "subshell" => dict' = dict + 1
  <2>1. /\ Len(functions) \in Nat
        /\ Len(Append(functions, functions[dict])) = Len(functions) + 1
    BY AppendIsSeq DEF IInv
  <2> QED
    BY <2>1 DEF dict
<1>6. dict' >= dict /\ dict' \in Nat
  BY <1>3
<1> HIDE DEF s, n
<1>7. Scoped(frames', dict')
  <2> SUFFICES ASSUME NEW i \in 1..(n + 1), frames'[i].kind = "subshell"
               PROVE  /\ frames'[i].dict \in 1..(dict' - 1)
                      /\ \A j \in 1..(i - 1) : frames'[j].kind = "subshell"
                            => frames'[j].dict < frames'[i].dict
    BY <1>1 DEF Scoped
  <2>1. CASE i = n + 1
    <3>1. frames'[i].dict = dict /\ dict' = dict + 1
      BY <1>1, <1>2, <1>5, <2>1
    <3>2. \A j \in 1..n : frames'[j].kind = "subshell" => frames'[j].dict < dict
      BY <1>1, <1>3 DEF IInv, Scoped, n
    <3> QED
      BY <1>1, <1>3, <1>4, <2>1, <3>1, <3>2
  <2>2. CASE i # n + 1
    <3>1. i \in 1..n /\ \A j \in 1..i : frames'[j] = frames[j]
      BY <1>1, <2>2
    <3> QED
      BY <1>1, <1>3, <1>6, <3>1 DEF IInv, Scoped, n
  <2> QED
    BY <2>1, <2>2
<1>8. \A i \in 1..(n + 1) : SavedSet(frames'[i])
  <2> TAKE i \in 1..(n + 1)
  <2>1. CASE i = n + 1
    BY <1>1, <1>2, <2>1
  <2>2. CASE i # n + 1
    BY <1>1, <2>2 DEF IInv, n
  <2> QED
    BY <2>1, <2>2
<1> QED
  BY <1>1, <1>3, <1>7, <1>8 DEF IInv, dict

LEMMA EnterSubshellStep ==
  ASSUME IInv, EnterSubshell
  PROVE  IInv' /\ DictsKept
<1>1. /\ frames' = Append(frames, Saved("subshell"))
      /\ functions' = Append(functions, functions[dict]) /\ ExportedSet'
  BY DEF EnterSubshell, IInv, ExportedSet, store
<1>2. IInv'
  BY <1>1, PushSaved
<1>3. DictsKept
  <2> SUFFICES ASSUME NEW i \in 1..Len(frames), frames[i].kind = "subshell"
               PROVE  SubSeq(functions', 1, frames[i].dict)
                        = SubSeq(functions, 1, frames[i].dict)
    BY DEF DictsKept
  <2>1. frames[i].dict \in 1..(Len(functions) - 1)
    BY DEF IInv, Scoped, dict
  <2>2. /\ Len(functions) \in Nat /\ Len(functions') = Len(functions) + 1
        /\ \A k \in 1..Len(functions) : functions'[k] = functions[k]
    BY <1>1, AppendIsSeq DEF IInv
  <2> DEFINE n == frames[i].dict
  <2>3. /\ n \in 0..Len(functions) /\ n <= Len(functions')
        /\ \A k \in 1..n : functions'[k] = functions[k]
    BY <2>1, <2>2
  <2> QED
    BY <1>2, <2>3, SameStart DEF IInv
<1> QED
  BY <1>2, <1>3

(* The store that the innermost frame saved is sound, and its dictionary,  *)
(* if it is a subshell, is past those of the others.                       *)
LEMMA PopFacts ==
  ASSUME IInv, frames # <<>>, frames' = Below
  PROVE  /\ IsSeq(frames') /\ Len(frames') = Len(frames) - 1 /\ Len(frames) \in Nat
         /\ \A i \in 1..(Len(frames) - 1) : frames'[i] = frames[i]
         /\ Len(frames) \in 1..Len(frames) /\ Top = frames[Len(frames)]
<1>1. Len(frames) \in Nat /\ Len(frames) # 0
  BY LenProperties, EmptySeq DEF IInv, IsSeq
<1>2. Len(frames) - 1 \in 0..Len(frames)
  BY <1>1
<1> DEFINE n == Len(frames) - 1
<1>3. IsSeq(frames) /\ frames' = SubSeq(frames, 1, n) /\ n \in 0..Len(frames)
  BY <1>2 DEF IInv, Below
<1>4. IsSeq(frames') /\ Len(frames') = n /\ \A i \in 1..n : frames'[i] = frames[i]
  BY <1>3, StartIsSeq
<1> QED
  BY <1>1, <1>4 DEF Top

LEMMA LeaveFunctionStep ==
  ASSUME IInv, LeaveFunction
  PROVE  IInv' /\ DictsKept
<1>1. /\ frames # <<>> /\ frames' = Below /\ UNCHANGED functions /\ ExportedSet'
  BY DEF LeaveFunction, IInv, ExportedSet, store
<1>2. /\ IsSeq(frames') /\ Len(frames') = Len(frames) - 1 /\ Len(frames) \in Nat
      /\ \A i \in 1..(Len(frames) - 1) : frames'[i] = frames[i]
  BY <1>1, PopFacts
<1>3. Scoped(frames', dict')
  BY <1>1, <1>2 DEF IInv, Scoped, dict
<1>4. \A i \in 1..Len(frames') : SavedSet(frames'[i])
  BY <1>2 DEF IInv
<1> QED
  BY <1>1, <1>2, <1>3, <1>4 DEF IInv, DictsKept

LEMMA LeaveSubshellStep ==
  ASSUME IInv, LeaveSubshell
  PROVE  IInv' /\ DictsKept
<1>1. /\ frames # <<>> /\ frames' = Below /\ Top.kind = "subshell"
      /\ functions' = SubSeq(functions, 1, Top.dict)
      /\ variables' = Top.variables /\ exported' = Top.exported
  BY DEF LeaveSubshell
<1> DEFINE n == Len(frames)
           d == Top.dict
<1>2. /\ IsSeq(frames') /\ Len(frames') = n - 1 /\ n \in Nat
      /\ \A i \in 1..(n - 1) : frames'[i] = frames[i]
      /\ n \in 1..n /\ Top = frames[n]
  BY <1>1, PopFacts
<1>3. /\ d \in 1..(Len(functions) - 1) /\ Len(functions) \in Nat
      /\ \A j \in 1..(n - 1) : frames[j].kind = "subshell" => frames[j].dict < d
  BY <1>1, <1>2, LenProperties DEF IInv, Scoped, dict, IsSeq
<1>4. ExportedSet'
  BY <1>1, <1>2 DEF IInv, SavedSet, ExportedSet
<1> HIDE DEF d
<1>5. /\ IsSeq(functions') /\ Len(functions') = d
      /\ \A i \in 1..d : functions'[i] = functions[i]
  BY <1>1, <1>3, StartIsSeq DEF IInv, d
<1>6. functions' # <<>>
  BY <1>3, <1>5
<1>7. Scoped(frames', dict')
  <2> SUFFICES ASSUME NEW i \in 1..(n - 1), frames'[i].kind = "subshell"
               PROVE  /\ frames'[i].dict \in 1..(d - 1)
                      /\ \A j \in 1..(i - 1) : frames'[j].kind = "subshell"
                            => frames'[j].dict < frames'[i].dict
    BY <1>2, <1>5 DEF Scoped, dict
  <2>1. i \in 1..n /\ \A j \in 1..i : frames'[j] = frames[j]
    BY <1>2
  <2>2. /\ frames[i].dict \in 1..(dict - 1)
        /\ \A j \in 1..(i - 1) : frames[j].kind = "subshell"
              => frames[j].dict < frames[i].dict
    BY <1>2, <2>1 DEF IInv, Scoped
  <2> QED
    BY <1>2, <1>3, <2>1, <2>2
<1>8. \A i \in 1..(n - 1) : SavedSet(frames'[i])
  BY <1>2 DEF IInv
<1>9. IInv'
  BY <1>2, <1>4, <1>5, <1>6, <1>7, <1>8 DEF IInv
<1>10. DictsKept
  <2> SUFFICES ASSUME NEW i \in 1..n, frames[i].kind = "subshell"
               PROVE  SubSeq(functions', 1, frames[i].dict)
                        = SubSeq(functions, 1, frames[i].dict)
    BY DEF DictsKept
  <2>1. frames[i].dict \in 0..d
    BY <1>2, <1>3 DEF IInv, Scoped, d, dict
  <2> DEFINE k == frames[i].dict
  <2>2. /\ k \in 0..Len(functions) /\ k <= Len(functions')
        /\ \A m \in 1..k : functions'[m] = functions[m]
    BY <1>3, <1>5, <2>1
  <2> QED
    BY <1>5, <2>2, SameStart DEF IInv
<1> QED
  BY <1>9, <1>10

LEMMA CallStep ==
  ASSUME IInv, NEW seg, Call(seg)
  PROVE  IInv' /\ DictsKept
<1>1. /\ frames' = Append(frames, Saved("function")) /\ functions' = functions
      /\ variables' = Merged(seg) /\ exported' = exported
  BY DEF Call
<1>2. ExportedSet'
  BY <1>1 DEF IInv, ExportedSet, Merged
<1>3. IInv'
  BY <1>1, <1>2, PushSaved
<1> QED
  BY <1>1, <1>3 DEF DictsKept

-----------------------------------------------------------------------------
(* Words of a builtin.                                                     *)
LEMMA WordStep ==
  ASSUME IInv, ExportWord \/ SetWord
  PROVE  IInv' /\ DictsKept
<1>1. UNCHANGED <<functions, frames>>
  BY DEF ExportWord, SetWord, ReadOn
<1>2. ExportedSet'
  <2>1. CASE ExportWord
    BY <2>1 DEF ExportWord, Over, IInv, ExportedSet
  <2>2. CASE SetWord
    BY <2>2 DEF SetWord, Over, IInv, ExportedSet
  <2> QED
    BY <2>1, <2>2
<1> QED
  BY <1>1, <1>2, StoreStep

LEMMA UnsetStep ==
  ASSUME IInv, Unset
  PROVE  IInv' /\ DictsKept
<1> DEFINE gone == {words[i].name : i \in (1..Len(words)) \ Flags}
<1>1. /\ IF Given("-f") THEN UNCHANGED store
         ELSE variables' = Without(variables, gone) /\ exported' = exported \ gone
      /\ \/ functions' = functions
         \/ functions' = [functions EXCEPT ![dict] = functions[dict] \ gone]
      /\ UNCHANGED frames
  BY DEF Unset
<1> HIDE DEF gone
<1>2. ExportedSet'
  BY <1>1 DEF IInv, ExportedSet, Without, Only, store
<1>3. CASE functions' = functions
  BY <1>1, <1>2, <1>3, StoreStep
<1>4. CASE functions' = [functions EXCEPT ![dict] = functions[dict] \ gone]
  BY <1>1, <1>2, <1>4, DictStep
<1> QED
  BY <1>1, <1>3, <1>4

(* Pipelines: assignments only add variables.                              *)
LEMMA PipelineStep ==
  ASSUME IInv, NEW seg, Assign(seg) \/ Background(seg) \/ Begin(seg)
  PROVE  IInv' /\ DictsKept
<1>1. /\ UNCHANGED <<functions, frames, exported>>
      /\ variables' = variables \/ variables' = Merged(seg)
  BY DEF Assign, Background, Begin
<1>2. ExportedSet'
  BY <1>1 DEF IInv, ExportedSet, Merged
<1> QED
  BY <1>1, <1>2, StoreStep

LEMMA Initially == Init => IInv
<1> SUFFICES ASSUME Init PROVE IInv
  OBVIOUS
<1>1. DOMAIN Base \subseteq Names
  BY ValueAssumption DEF Prefixes, Mapping
<1>2. functions \in Seq({{}}) /\ functions # <<>> /\ frames \in Seq({{}})
  BY DEF Init
<1>3. Len(frames) = 0
  BY DEF Init
<1>4. IsSeq(functions) /\ IsSeq(frames)
  BY <1>2 DEF IsSeq
<1>5. ExportedSet
  BY <1>1 DEF Init, ExportedSet
<1>6. Scoped(frames, dict) /\ \A i \in 1..Len(frames) : SavedSet(frames[i])
  BY <1>3 DEF Scoped
<1> QED
  BY <1>2, <1>4, <1>5, <1>6 DEF IInv

LEMMA NextStep ==
  ASSUME IInv, Next
  PROVE  IInv' /\ DictsKept
<1>1. CASE NewCall
  <2>1. DOMAIN Base \subseteq Names
    BY ValueAssumption DEF Prefixes, Mapping
  <2>2. UNCHANGED <<functions, frames>> /\ ExportedSet'
    BY <1>1, <2>1 DEF NewCall, ExportedSet
  <2> QED
    BY <2>2, StoreStep
<1>2. CASE \E f \in FunNames : Define(f)
  <2>1. PICK f \in FunNames : Define(f)
    BY <1>2
  <2>2. /\ functions' = [functions EXCEPT ![dict] = functions[dict] \cup {f}]
        /\ UNCHANGED <<frames, variables, exported>>
    BY <2>1 DEF Define, store
  <2>3. ExportedSet'
    BY <2>2 DEF IInv, ExportedSet
  <2> QED
    BY <2>2, <2>3, DictStep
<1>3. CASE EnterSubshell
  BY <1>3, EnterSubshellStep
<1>4. CASE LeaveSubshell
  BY <1>4, LeaveSubshellStep
<1>5. CASE LeaveFunction
  BY <1>5, LeaveFunctionStep
<1>6. CASE \E seg \in Segments : Assign(seg) \/ Background(seg) \/ Begin(seg)
  BY <1>6, PipelineStep
<1>7. CASE \E seg \in Segments : Call(seg)
  BY <1>7, CallStep
<1>8. CASE ExportWord \/ SetWord
  BY <1>8, WordStep
<1>9. CASE Unset
  BY <1>9, UnsetStep
<1>10. CASE \/ \E code \in {0, 1} : Launch(code)
            \/ StartBuiltin \/ ExportRefuses \/ SetOption \/ SetRefuses
            \/ UnsetRefuses \/ EndBuiltin
  <2>1. UNCHANGED <<store, functions, frames>>
    BY <1>10 DEF Launch, StartBuiltin, ExportRefuses, SetOption, SetRefuses,
                 UnsetRefuses, EndBuiltin, Stop, ReadOn
  <2>2. ExportedSet'
    BY <2>1 DEF IInv, ExportedSet, store
  <2> QED
    BY <2>1, <2>2, StoreStep
<1> QED
  BY <1>1, <1>2, <1>3, <1>4, <1>5, <1>6, <1>7, <1>8, <1>9, <1>10 DEF Next

LEMMA Invariant == Spec => []IInv
<1>1. ASSUME IInv, UNCHANGED vars PROVE IInv'
  <2>1. UNCHANGED <<functions, frames, variables, exported>>
    BY <1>1 DEF vars, store
  <2> QED
    BY <1>1, <2>1 DEF IInv, dict, ExportedSet
<1>2. IInv /\ [Next]_vars => IInv'
  BY <1>1, NextStep
<1> QED
  BY <1>2, Initially, PTL DEF Spec

-----------------------------------------------------------------------------
(* env_for_subprocess and the listing of export find a value for every     *)
(* exported name, in the store in use and in every one a subshell gives    *)
(* back, whatever export, set, unset and assignments did.                  *)
THEOREM ExportedHaveValues == Spec => []ExportedAreSet
<1>1. IInv => ExportedAreSet
  BY DEF IInv, ExportedSet, SavedSet, ExportedAreSet
<1> QED
  BY <1>1, Invariant, PTL

(* A subshell defines and removes functions in a dictionary of its own, at *)
(* any depth: the session's functions outlive every call unchanged by it.  *)
THEOREM SubshellsKeepFunctions == Spec => SubshellKeepsFunctions
<1>1. ASSUME IInv, [Next]_vars PROVE [DictsKept]_vars
  BY <1>1, NextStep
<1>2. [DictsKept]_vars => [\A i \in 1..Len(frames) :
         frames[i].kind = "subshell" =>
           SubSeq(functions', 1, frames[i].dict)
             = SubSeq(functions, 1, frames[i].dict)]_vars
  BY DEF DictsKept
<1> QED
  BY <1>1, <1>2, Invariant, PTL DEF Spec, SubshellKeepsFunctions

-----------------------------------------------------------------------------
(* Types.  What the operators on dictionaries make of mappings.            *)
LEMMA MappingFacts ==
  ASSUME NEW names, NEW values, NEW f
  PROVE  f \in Mapping(names, values) <=>
           /\ DOMAIN f \subseteq names /\ f \in [DOMAIN f -> values]
  BY DEF Mapping

LEMMA OverFacts ==
  ASSUME NEW names, NEW values, NEW f \in Mapping(names, values),
         NEW g \in Mapping(names, values)
  PROVE  Over(f, g) \in Mapping(names, values)
<1>1. /\ DOMAIN f \subseteq names /\ \A n \in DOMAIN f : f[n] \in values
      /\ DOMAIN g \subseteq names /\ \A n \in DOMAIN g : g[n] \in values
  BY MappingFacts
<1>2. Over(f, g) \in [DOMAIN f \cup DOMAIN g -> values]
  BY <1>1 DEF Over
<1> QED
  BY <1>1, <1>2, MappingFacts

LEMMA OnlyFacts ==
  ASSUME NEW names, NEW values, NEW f \in Mapping(names, values), NEW some
  PROVE  /\ Only(f, some) \in Mapping(names, values)
         /\ some \subseteq names => Only(f, some) \in Mapping(some, values)
<1>1. /\ DOMAIN f \subseteq names /\ \A n \in DOMAIN f : f[n] \in values
  BY MappingFacts
<1>2. /\ Only(f, some) \in [DOMAIN f \cap some -> values]
      /\ DOMAIN Only(f, some) = DOMAIN f \cap some
  BY <1>1 DEF Only
<1> QED
  BY <1>1, <1>2, MappingFacts

LEMMA EnvironmentFacts ==
  ASSUME NEW f \in Mapping(WordNames, Values), NEW some \in SUBSET Names
  PROVE  Only(f, some) \in Prefixes
<1> DEFINE g == Only(f, some)
<1>1. g \in Mapping(WordNames, Values) /\ DOMAIN g \subseteq Names
  BY OnlyFacts DEF Only
<1> HIDE DEF g
<1>2. g \in Mapping(Names, Values)
  BY <1>1, MappingFacts
<1> QED
  BY <1>2 DEF g, Prefixes

LEMMA SingleFacts ==
  ASSUME NEW names, NEW values, NEW name \in names, NEW value \in values
  PROVE  [n \in {name} |-> value] \in Mapping(names, values)
  BY MappingFacts

LEMMA WidenFacts ==
  ASSUME NEW f \in Prefixes
  PROVE  f \in Mapping(WordNames, Values)
  BY DEF Prefixes, Mapping, WordNames

LEMMA StageFacts ==
  \A stage \in Stages : /\ stage.prefix \in Prefixes /\ stage.args \in Seq(Arguments)
                        /\ stage.cmd \in Commands \cup {None}
  BY DEF Stages, StagesOf

(* The assignments of a pipeline leave each variable the value of the last *)
(* stage that assigns it.                                                  *)
LEMMA MergedFacts ==
  ASSUME variables \in Mapping(WordNames, Values), NEW seg \in Seq(Stages)
  PROVE  /\ Merged(seg) \in Mapping(WordNames, Values)
         /\ DOMAIN variables \subseteq DOMAIN Merged(seg)
<1> DEFINE By(n) == {i \in Assigning(seg) : n \in DOMAIN seg[i].prefix}
           Last(n) == CHOOSE i \in By(n) : \A j \in By(n) : j <= i
           D == DOMAIN variables \cup UNION {DOMAIN seg[i].prefix : i \in Assigning(seg)}
<1>1. \A i \in Assigning(seg) : i \in 1..Len(seg) /\ seg[i].prefix \in Prefixes
  BY StageFacts DEF Assigning
<1>2. Merged(seg) = [n \in D |-> IF By(n) = {} THEN variables[n]
                                ELSE seg[Last(n)].prefix[n]]
  BY DEF Merged
<1>3. ASSUME NEW n, By(n) # {} PROVE Last(n) \in By(n)
  <2>1. Len(seg) \in Nat /\ By(n) \in SUBSET (0..Len(seg))
    BY <1>1
  <2> HIDE DEF By
  <2>2. \E i \in By(n) : \A j \in By(n) : j <= i
    BY <1>3, <2>1, Greatest
  <2> QED
    BY <2>2
<1>4. ASSUME NEW n \in D
      PROVE  /\ n \in WordNames
             /\ IF By(n) = {} THEN variables[n] \in Values
                ELSE seg[Last(n)].prefix[n] \in Values
  <2>1. \A i \in By(n) : i \in Assigning(seg) /\ n \in DOMAIN seg[i].prefix
    OBVIOUS
  <2>2. By(n) = {} => n \in DOMAIN variables
    OBVIOUS
  <2> HIDE DEF By, Last
  <2>3. CASE By(n) = {}
    BY <2>2, <2>3, MappingFacts
  <2>4. CASE By(n) # {}
    <3>1. Last(n) \in Assigning(seg) /\ n \in DOMAIN seg[Last(n)].prefix
      BY <1>3, <2>1, <2>4
    <3> DEFINE f == seg[Last(n)].prefix
    <3>2. f \in Mapping(WordNames, Values) /\ n \in DOMAIN f
      BY <1>1, <3>1, WidenFacts
    <3> HIDE DEF f
    <3>3. DOMAIN f \subseteq WordNames /\ f[n] \in Values
      BY <3>2, MappingFacts
    <3> QED
      BY <2>4, <3>2, <3>3 DEF f
  <2> QED
    BY <2>3, <2>4
<1> HIDE DEF By, Last, D
<1>5. D \subseteq WordNames
  BY <1>4
<1>6. Merged(seg) \in [D -> Values] /\ DOMAIN Merged(seg) = D
  BY <1>2, <1>4
<1>7. Merged(seg) \in Mapping(WordNames, Values)
  BY <1>5, <1>6, MappingFacts
<1> QED
  BY <1>6, <1>7 DEF D

LEMMA KeptFacts ==
  ASSUME NEW seg \in Seq(Stages)
  PROVE  /\ Kept(seg) \in Seq(StagesOf(Commands)) /\ Kept(seg) \in Seq(Stages)
         /\ Len(Kept(seg)) \in Nat
         /\ \A i \in 1..Len(Kept(seg)) : Kept(seg)[i].prefix \in Prefixes
<1>1. Kept(seg) \in Seq(Stages \cap StagesOf(Commands))
  BY KeepType DEF Kept
<1> DEFINE kept == Kept(seg)
<1> HIDE DEF kept
<1>2. kept \in Seq(StagesOf(Commands)) /\ kept \in Seq(Stages) /\ Len(kept) \in Nat
  BY <1>1 DEF kept
<1>3. \A i \in 1..Len(kept) : kept[i].prefix \in Prefixes
  BY <1>2, StageFacts
<1> QED
  BY <1>2, <1>3 DEF kept

-----------------------------------------------------------------------------
PipelineTypes ==
  /\ nodes \in Seq(Stages) /\ overrides \in Seq(Prefixes)
  /\ Len(overrides) = Len(nodes) /\ base \in Prefixes /\ pos \in Nat \ {0}
  /\ words = NoBuiltin \/ (words \in Seq(Arguments) /\ pos \in 1..Len(nodes))
  /\ named \subseteq WordNames
StoreTypes == variables \in Mapping(WordNames, Values) /\ exported \in SUBSET Names
OuterTypes ==
  /\ functions \in Seq(SUBSET FunNames) /\ functions # <<>>
  /\ frames \in Seq(Frames) /\ rc \in {0, 1}

Typed == PipelineTypes /\ StoreTypes /\ OuterTypes

LEMMA TypedParts == Typed => TypeOK
  BY DEF TypeOK, Typed, PipelineTypes, StoreTypes, OuterTypes

LEMMA NoPipelineTypes == ASSUME NoPipeline PROVE PipelineTypes'
<1>1. <<>> \in Seq(Stages) /\ <<>> \in Seq(Prefixes)
  OBVIOUS
<1> QED
  BY <1>1, ValueAssumption DEF NoPipeline, PipelineTypes

(* A run of commands has a last one: the one in front of a builtin or the  *)
(* last of the pipeline, whichever comes first.                            *)
LastOfRun ==
  CHOOSE j \in pos..Len(nodes) : /\ \A i \in pos..j : ~IsBuiltin(i)
                                 /\ j = Len(nodes) \/ IsBuiltin(j + 1)

LEMMA RunFacts ==
  ASSUME PipelineTypes, Between, ~IsBuiltin(pos)
  PROVE  /\ LastOfRun \in pos..Len(nodes) /\ pos \in 1..Len(nodes)
         /\ Len(nodes) \in Nat /\ pos \in Nat
         /\ \A i \in pos..LastOfRun : ~IsBuiltin(i)
<1>1. pos \in Nat /\ pos >= 1 /\ Len(nodes) \in Nat /\ pos <= Len(nodes)
  BY DEF PipelineTypes, Between, Idle
<1> DEFINE n == Len(nodes)
           T == {j \in pos..n : j = n \/ IsBuiltin(j + 1)}
<1> HIDE DEF n
<1>2. T \in SUBSET Nat /\ n \in T
  BY <1>1 DEF n
<1>3. \A j : j \in T <=> j \in pos..n /\ (j = n \/ IsBuiltin(j + 1))
  OBVIOUS
<1> HIDE DEF T
<1>4. PICK x \in T : \A y \in T : x <= y
  BY <1>2, Least
<1>5. ASSUME NEW i \in pos..x, IsBuiltin(i) PROVE FALSE
  <2>1. i # pos /\ x \in pos..n /\ pos \in Nat /\ n \in Nat
    BY <1>1, <1>3, <1>4, <1>5 DEF n
  <2>2. i - 1 \in pos..n /\ i - 1 + 1 = i /\ ~(x <= i - 1)
    BY <1>5, <2>1
  <2> QED
    BY <1>3, <1>4, <1>5, <2>2
<1>6. \E j \in pos..n : (\A i \in pos..j : ~IsBuiltin(i)) /\ (j = n \/ IsBuiltin(j + 1))
  BY <1>3, <1>4, <1>5
<1>7. LastOfRun \in pos..n /\ \A i \in pos..LastOfRun : ~IsBuiltin(i)
  BY <1>6 DEF LastOfRun, n
<1> QED
  BY <1>1, <1>7 DEF n

LEMMA SegmentFacts ==
  ASSUME NEW seg \in Segments
  PROVE  seg \in Seq(Stages) /\ Len(seg) \in Nat
  BY SegmentAssumption

LEMMA TypesOfPipelines ==
  ASSUME IInv, Typed, NEW seg \in Segments,
         Assign(seg) \/ Background(seg) \/ Call(seg) \/ Begin(seg)
  PROVE  Typed'
<1>1. PipelineTypes /\ StoreTypes /\ OuterTypes
  BY DEF Typed
<1>2. seg \in Seq(Stages) /\ Merged(seg) \in Mapping(WordNames, Values)
  BY <1>1, SegmentFacts, MergedFacts DEF StoreTypes
<1>3. StoreTypes'
  BY <1>1, <1>2 DEF StoreTypes, Assign, Background, Call, Begin
<1>4. OuterTypes'
  <2>1. CASE Assign(seg) \/ Background(seg) \/ Begin(seg)
    BY <1>1, <2>1 DEF OuterTypes, Assign, Background, Begin
  <2>2. CASE Call(seg)
    <3>1. Len(functions) \in Nat /\ Len(functions) # 0
      BY <1>1, EmptySeq, LenProperties DEF OuterTypes
    <3>2. Saved("function") \in Frames
      BY <1>1, <3>1 DEF Saved, Frames, StoreTypes, dict
    <3> DEFINE s == Saved("function")
    <3> HIDE DEF s
    <3>3. frames' = Append(frames, s) /\ s \in Frames /\ rc' = 0 /\ UNCHANGED functions
      BY <2>2, <3>2 DEF Call, s
    <3> QED
      BY <1>1, <3>3 DEF OuterTypes
  <2> QED
    BY <2>1, <2>2
<1>5. PipelineTypes'
  <2>1. CASE Assign(seg) \/ Background(seg) \/ Call(seg)
    BY <2>1, NoPipelineTypes DEF Assign, Background, Call
  <2>2. CASE Begin(seg)
    <3> DEFINE kept == Kept(seg)
               over == [i \in 1..Len(Kept(seg)) |-> Kept(seg)[i].prefix]
    <3>1. kept \in Seq(Stages) /\ \A i \in 1..Len(kept) : kept[i].prefix \in Prefixes
      BY <1>2, KeptFacts
    <3>2. Only(Merged(seg), exported) \in Prefixes
      BY <1>1, <1>2, EnvironmentFacts DEF StoreTypes
    <3>3. /\ nodes' = kept /\ overrides' = over /\ pos' = 1 /\ words' = NoBuiltin
          /\ named' = {} /\ base' = Only(Merged(seg), exported)
      BY <2>2 DEF Begin
    <3> HIDE DEF kept
    <3>4. over \in Seq(Prefixes) /\ Len(over) = Len(kept)
      BY <3>1 DEF kept
    <3> HIDE DEF over
    <3> QED
      BY <3>1, <3>2, <3>3, <3>4 DEF PipelineTypes
  <2> QED
    BY <2>1, <2>2
<1> QED
  BY <1>3, <1>4, <1>5 DEF Typed

LEMMA TypesOfWords ==
  ASSUME Typed,
         StartBuiltin \/ ExportWord \/ ExportRefuses \/ SetWord \/ SetOption
         \/ SetRefuses \/ UnsetRefuses \/ EndBuiltin
  PROVE  Typed'
<1>1. PipelineTypes /\ StoreTypes /\ OuterTypes
  BY DEF Typed
<1>2. pos \in Nat /\ pos >= 1 /\ Len(nodes) \in Nat
      /\ (~Idle => pos \in 1..Len(nodes) /\ Node \in Stages)
  BY <1>1 DEF PipelineTypes, Idle, Node
<1>3. OuterTypes'
  BY <1>1 DEF OuterTypes, StartBuiltin, ExportWord, ExportRefuses, SetWord, SetOption,
              SetRefuses, UnsetRefuses, EndBuiltin, ReadOn, Stop
<1>4. CASE StartBuiltin
  <2>1. ~Idle /\ Node.args \in Seq(Arguments)
        /\ \A i \in 1..Len(Node.args) : Node.args[i].name \in WordNames
    <3>1. ~Idle /\ Node.args \in Seq(Arguments)
      BY <1>2, <1>4, StageFacts DEF StartBuiltin, Between
    <3>2. \A i \in 1..Len(Node.args) : Node.args[i] \in Arguments
      BY <3>1
    <3>3. \A a \in Arguments : a.name \in WordNames
      BY DEF Arguments
    <3> QED
      BY <3>1, <3>2, <3>3
  <2>2. PipelineTypes'
    BY <1>1, <1>2, <1>4, <2>1 DEF StartBuiltin, PipelineTypes
  <2> QED
    BY <1>1, <1>3, <1>4, <2>2 DEF Typed, StartBuiltin, StoreTypes, store
<1>5. CASE ExportRefuses \/ SetRefuses \/ UnsetRefuses \/ EndBuiltin
  <2>1. PipelineTypes'
    BY <1>1, <1>2, <1>5
       DEF ExportRefuses, SetRefuses, UnsetRefuses, EndBuiltin, Stop, PipelineTypes
  <2> QED
    BY <1>1, <1>3, <1>5, <2>1 DEF Typed,
           ExportRefuses, SetRefuses, UnsetRefuses, EndBuiltin, Stop, StoreTypes, store
<1>6. CASE ExportWord \/ SetWord \/ SetOption
  <2>1. /\ words \in Seq(Arguments) /\ words # <<>> /\ pos \in 1..Len(nodes)
        /\ words' = Tail(words) /\ UNCHANGED <<nodes, overrides, base, pos, named>>
    BY <1>1, <1>6 DEF ExportWord, SetWord, SetOption, Reading, ReadOn, PipelineTypes
  <2>2. Argument \in Arguments /\ Tail(words) \in Seq(Arguments)
    BY <2>1 DEF Argument
  <2>3. PipelineTypes'
    BY <1>1, <2>1, <2>2 DEF PipelineTypes
  <2>4. Argument.name \in WordNames /\ Argument.value \in Values \cup {NoValue}
    BY <2>2 DEF Arguments
  <2>5. variables' \in Mapping(WordNames, Values)
    <3>1. variables \in Mapping(WordNames, Values)
      BY <1>1 DEF StoreTypes
    <3>2. ASSUME NEW value \in Values
          PROVE  /\ Over(variables, [n \in {Argument.name} |-> value])
                      \in Mapping(WordNames, Values)
                 /\ Over([n \in {Argument.name} |-> value], variables)
                      \in Mapping(WordNames, Values)
      BY <2>4, <3>1, SingleFacts, OverFacts
    <3>3. CASE ExportWord
      BY <2>4, <3>2, <3>3, ValueAssumption DEF ExportWord
    <3>4. CASE SetWord
      BY <2>4, <3>2, <3>4 DEF SetWord
    <3>5. CASE SetOption
      BY <3>1, <3>5 DEF SetOption, store
    <3> QED
      BY <1>6, <3>3, <3>4, <3>5
  <2>6. exported' \in SUBSET Names
    BY <1>1, <1>6 DEF ExportWord, SetWord, SetOption, StoreTypes, store
  <2> QED
    BY <1>3, <2>3, <2>5, <2>6 DEF Typed, StoreTypes
<1> QED
  BY <1>4, <1>5, <1>6

LEMMA TypesOfScopes ==
  ASSUME IInv, Typed,
         \/ NewCall \/ EnterSubshell \/ LeaveSubshell \/ LeaveFunction
         \/ \E f \in FunNames : Define(f)
  PROVE  Typed'
<1>1. PipelineTypes /\ StoreTypes /\ OuterTypes /\ rc \in {0, 1}
  BY DEF Typed, OuterTypes
<1>2. PipelineTypes'
  BY NoPipelineTypes DEF NewCall, EnterSubshell, LeaveSubshell, LeaveFunction, Define
<1>3. /\ functions \in Seq(SUBSET FunNames) /\ frames \in Seq(Frames)
      /\ Len(functions) \in Nat /\ Len(functions) # 0 /\ dict \in 1..Len(functions)
      /\ Len(frames) \in Nat /\ (frames # <<>> => Len(frames) \in 1..Len(frames))
  BY <1>1, EmptySeq, LenProperties DEF OuterTypes, dict
<1>4. frames # <<>> => Below \in Seq(Frames) /\ Top \in Frames
  <2> SUFFICES ASSUME frames # <<>> PROVE Below \in Seq(Frames) /\ Top \in Frames
    OBVIOUS
  <2>1. \A i \in 1..(Len(frames) - 1) : frames[i] \in Frames
    BY <1>3
  <2>2. Below \in Seq(Frames)
    BY <1>3, <2>1, SubSeqProperties DEF Below
  <2> QED
    BY <1>3, <2>2 DEF Top
<1>5. CASE NewCall
  <2>1. StoreTypes'
    <3>1. Base \in Mapping(WordNames, Values) /\ DOMAIN Base \subseteq Names
      BY ValueAssumption, WidenFacts, MappingFacts DEF Prefixes
    <3> QED
      BY <1>5, <3>1 DEF NewCall, StoreTypes
  <2> QED
    BY <1>1, <1>2, <1>5, <2>1 DEF Typed, NewCall, OuterTypes
<1>6. ASSUME NEW f \in FunNames, Define(f) PROVE Typed'
  <2> DEFINE fs == functions[dict] \cup {f}
  <2>1. fs \in SUBSET FunNames /\ functions' = [functions EXCEPT ![dict] = fs]
    BY <1>3, <1>6 DEF Define
  <2> HIDE DEF fs
  <2>2. functions' \in Seq(SUBSET FunNames) /\ functions' # <<>>
    BY <1>1, <1>3, <2>1, ExceptSeq, EmptySeq DEF OuterTypes
  <2> QED
    BY <1>1, <1>2, <1>6, <2>2 DEF Typed, Define, OuterTypes, StoreTypes, store
<1>7. CASE EnterSubshell
  <2> DEFINE s == Saved("subshell")
             d == functions[dict]
  <2>1. s \in Frames /\ d \in SUBSET FunNames
    BY <1>1, <1>3 DEF Saved, Frames, StoreTypes, dict
  <2>2. /\ frames' = Append(frames, s) /\ functions' = Append(functions, d)
        /\ rc' = 0 /\ UNCHANGED <<variables, exported>>
    BY <1>7 DEF EnterSubshell, store
  <2> HIDE DEF s, d
  <2>3. frames' \in Seq(Frames) /\ functions' \in Seq(SUBSET FunNames) /\ functions' # <<>>
    BY <1>3, <2>1, <2>2
  <2> QED
    BY <1>1, <1>2, <2>2, <2>3 DEF Typed, OuterTypes, StoreTypes
<1>8. CASE LeaveSubshell
  <2>1. frames # <<>> /\ Top.kind = "subshell" /\ Top \in Frames /\ Below \in Seq(Frames)
    BY <1>4, <1>8 DEF LeaveSubshell
  <2>2. Top.dict \in 1..(Len(functions) - 1)
    BY <1>3, <2>1 DEF IInv, Scoped, Top, dict
  <2> DEFINE d == Top.dict
  <2> HIDE DEF d
  <2>3. \A i \in 1..d : functions[i] \in SUBSET FunNames
    BY <1>3, <2>2 DEF d
  <2>4. SubSeq(functions, 1, d) \in Seq(SUBSET FunNames) /\ Len(SubSeq(functions, 1, d)) = d
    BY <1>3, <2>2, <2>3, SubSeqProperties DEF d
  <2>5. functions' = SubSeq(functions, 1, d) /\ functions' # <<>>
    BY <1>3, <1>8, <2>2, <2>4, EmptySeq DEF LeaveSubshell, d
  <2>6. OuterTypes'
    BY <1>1, <1>8, <2>1, <2>4, <2>5 DEF OuterTypes, LeaveSubshell
  <2>7. StoreTypes'
    BY <1>8, <2>1 DEF LeaveSubshell, StoreTypes, Frames
  <2> QED
    BY <1>2, <2>6, <2>7 DEF Typed
<1>9. CASE LeaveFunction
  BY <1>1, <1>2, <1>4, <1>9 DEF LeaveFunction, Typed, OuterTypes, StoreTypes, store
<1> QED
  BY <1>5, <1>6, <1>7, <1>8, <1>9

LEMMA TypesOfLaunch ==
  ASSUME Typed, NEW code \in {0, 1}, Launch(code) PROVE Typed'
<1>1. PipelineTypes /\ Between /\ ~IsBuiltin(pos) /\ pos' = LastOfRun + 1
      /\ UNCHANGED <<nodes, overrides, base, words, named>>
  BY DEF Typed, Launch, LastOfRun
<1>2. LastOfRun \in pos..Len(nodes) /\ pos \in 1..Len(nodes) /\ Len(nodes) \in Nat
  BY <1>1, RunFacts
<1>3. PipelineTypes'
  BY <1>1, <1>2 DEF PipelineTypes, Between
<1> QED
  BY <1>3 DEF Typed, Launch, OuterTypes, StoreTypes, store

LEMMA TypesOfUnset == ASSUME Typed, Unset PROVE Typed'
<1> DEFINE gone == {words[i].name : i \in (1..Len(words)) \ Flags}
<1>1. PipelineTypes /\ StoreTypes /\ OuterTypes
  BY DEF Typed
<1>2. /\ \/ UNCHANGED <<variables, exported>>
         \/ variables' = Without(variables, gone) /\ exported' = exported \ gone
      /\ \/ functions' = functions
         \/ functions' = [functions EXCEPT ![dict] = functions[dict] \ gone]
      /\ UNCHANGED <<frames, rc>>
  BY DEF Unset, store
<1>3. words' = <<>> /\ ~Idle /\ UNCHANGED <<nodes, overrides, base, pos, named>>
  BY DEF Unset, Reading
<1> HIDE DEF gone
<1>4. PipelineTypes'
  BY <1>1, <1>3 DEF PipelineTypes, Idle
<1>5. StoreTypes'
  <2>1. Without(variables, gone) \in Mapping(WordNames, Values)
    BY <1>1, OnlyFacts DEF StoreTypes, Without
  <2> QED
    BY <1>1, <1>2, <2>1 DEF StoreTypes
<1>6. OuterTypes'
  <2>1. Len(functions) \in Nat /\ dict \in 1..Len(functions)
    BY <1>1, EmptySeq, LenProperties DEF OuterTypes, dict
  <2> DEFINE fs == functions[dict] \ gone
  <2>2. fs \in SUBSET FunNames /\ functions \in Seq(SUBSET FunNames)
    BY <1>1, <2>1 DEF OuterTypes
  <2> HIDE DEF fs
  <2>3. [functions EXCEPT ![dict] = fs] \in Seq(SUBSET FunNames)
        /\ [functions EXCEPT ![dict] = fs] # <<>>
    BY <2>1, <2>2, ExceptSeq, EmptySeq
  <2> QED
    BY <1>1, <1>2, <2>3 DEF OuterTypes, fs
<1> QED
  BY <1>4, <1>5, <1>6 DEF Typed

LEMMA TypesInit == Init => Typed
<1> SUFFICES ASSUME Init PROVE Typed
  OBVIOUS
<1>1. PipelineTypes
  BY ValueAssumption DEF Init, PipelineTypes
<1>2. StoreTypes
  BY ValueAssumption, WidenFacts, MappingFacts DEF Init, StoreTypes, Prefixes
<1>3. OuterTypes
  BY DEF Init, OuterTypes
<1> QED
  BY <1>1, <1>2, <1>3 DEF Typed

LEMMA TypesStep == IInv /\ Typed /\ [Next]_vars => Typed'
<1> SUFFICES ASSUME IInv, Typed, [Next]_vars PROVE Typed'
  OBVIOUS
<1>1. CASE UNCHANGED vars
  BY <1>1 DEF vars, store, pipeline, Typed, PipelineTypes, StoreTypes, OuterTypes
<1>2. CASE Next
  BY <1>2, TypesOfPipelines, TypesOfWords, TypesOfScopes, TypesOfLaunch, TypesOfUnset
     DEF Next
<1> QED
  BY <1>1, <1>2

LEMMA AlwaysTyped == Spec => [](IInv /\ Typed)
  BY Invariant, TypesInit, TypesStep, PTL DEF Spec

(* Every dictionary, list and exit code of the variable store, the         *)
(* pipeline at work and the shells around it has the values its comment    *)
(* says, for all pipelines and any nesting.                                *)
THEOREM TypeCorrect == Spec => []TypeOK
  BY AlwaysTyped, TypedParts, PTL

-----------------------------------------------------------------------------
(* What commands are launched with.  Between the builtins of a pipeline    *)
(* the environment of its start is that of the store, but for the names    *)
(* builtins were given; the list of overrides goes with that of stages.    *)
Agrees(env, held, marks, given) ==
  \A n \in Names \ given : /\ n \in DOMAIN env <=> n \in marks
                           /\ n \in marks => env[n] = held[n]

Suits(c, held, marks, given) ==
  \A n \in Names \ (given \ DOMAIN c.prefix) :
    IF n \in DOMAIN c.prefix
    THEN n \in DOMAIN c.env /\ c.env[n] = c.prefix[n]
    ELSE IF n \in marks THEN n \in DOMAIN c.env /\ c.env[n] = held[n]
                        ELSE n \notin DOMAIN c.env

Aligned == \A i \in 1..Len(nodes) : overrides[i] = nodes[i].prefix
Current == ~Idle => Agrees(base, variables, exported, named)
AtWork ==
  words # NoBuiltin => /\ child = {}
                       /\ \A i \in 1..Len(words) : words[i].name \in named
Suited == \A c \in child : Suits(c, variables, exported, named)

Launching == Aligned /\ Current /\ AtWork /\ Suited

LEMMA OverValues ==
  ASSUME NEW f, NEW g
  PROVE  /\ DOMAIN Over(f, g) = DOMAIN f \cup DOMAIN g
         /\ \A n \in DOMAIN g : Over(f, g)[n] = g[n]
         /\ \A n \in DOMAIN f \ DOMAIN g : Over(f, g)[n] = f[n]
  BY DEF Over

LEMMA OnlyValues ==
  ASSUME NEW f, NEW names
  PROVE  /\ DOMAIN Only(f, names) = DOMAIN f \cap names
         /\ \A n \in DOMAIN f \cap names : Only(f, names)[n] = f[n]
  BY DEF Only

LEMMA LaunchedFacts ==
  ASSUME NEW run, NEW env, NEW from, NEW held, NEW marks, NEW given,
         Agrees(from, held, marks, given),
         \A i \in 1..Len(run) : env[i] = run[i].prefix,
         NEW c \in Launched(run, env, from)
  PROVE  Suits(c, held, marks, given)
<1>1. PICK i \in 1..Len(run) : c = [prefix |-> run[i].prefix, env |-> Over(from, env[i])]
  BY DEF Launched
<1> DEFINE p == run[i].prefix
           e == Over(from, p)
<1>2. c.prefix = p /\ c.env = e
  BY <1>1
<1>3. /\ DOMAIN e = DOMAIN from \cup DOMAIN p
      /\ \A n \in DOMAIN p : e[n] = p[n]
      /\ \A n \in DOMAIN from \ DOMAIN p : e[n] = from[n]
  BY OverValues
<1> HIDE DEF p, e
<1> QED
  BY <1>2, <1>3 DEF Suits, Agrees

LEMMA StartAgrees ==
  ASSUME NEW held, NEW marks, marks \subseteq DOMAIN held, NEW given
  PROVE  Agrees(Only(held, marks), held, marks, given)
<1> DEFINE f == Only(held, marks)
<1>1. DOMAIN f = DOMAIN held \cap marks /\ \A n \in DOMAIN held \cap marks : f[n] = held[n]
  BY OnlyValues
<1> HIDE DEF f
<1>2. Agrees(f, held, marks, given)
  BY <1>1 DEF Agrees
<1> QED
  BY <1>2 DEF f

LEMMA LaunchingNothing ==
  ASSUME NoPipeline, child' = {} PROVE Launching'
<1>1. Len(nodes') = 0 /\ pos' = 1 /\ words' = NoBuiltin
  BY DEF NoPipeline
<1>2. Idle'
  BY <1>1 DEF Idle
<1> QED
  BY <1>1, <1>2 DEF Launching, Aligned, Current, AtWork, Suited

LEMMA LaunchingPipelines ==
  ASSUME IInv, Typed, NEW seg \in Segments, Background(seg) \/ Begin(seg)
  PROVE  Launching'
<1>1. /\ seg \in Seq(Stages) /\ exported \subseteq DOMAIN Merged(seg)
      /\ variables' = Merged(seg) /\ exported' = exported /\ named' = {}
      /\ words' = NoBuiltin
  BY SegmentFacts, MergedFacts
     DEF IInv, ExportedSet, Typed, StoreTypes, Background, Begin, NoPipeline
<1> DEFINE f == Only(Merged(seg), exported)
<1>2. Agrees(f, variables', exported', named')
  BY <1>1, StartAgrees
<1> HIDE DEF f
<1>3. CASE Background(seg)
  <2> DEFINE run == Kept(seg)
             env == [i \in 1..Len(run) |-> run[i].prefix]
  <2>1. child' = {} \/ child' = Launched(run, env, f)
    BY <1>3 DEF Background, f
  <2>2. \A i \in 1..Len(run) : env[i] = run[i].prefix
    OBVIOUS
  <2> HIDE DEF run, env
  <2>3. Suited'
    BY <1>2, <2>1, <2>2, LaunchedFacts DEF Suited
  <2>4. Aligned' /\ Idle'
    BY <1>3 DEF Background, NoPipeline, Aligned, Idle
  <2> QED
    BY <1>1, <2>3, <2>4 DEF Launching, Current, AtWork
<1>4. CASE Begin(seg)
  <2>1. /\ child' = {} /\ base' = f /\ nodes' = Kept(seg)
        /\ overrides' = [i \in 1..Len(Kept(seg)) |-> Kept(seg)[i].prefix]
    BY <1>4 DEF Begin, f
  <2>2. Aligned'
    BY <2>1 DEF Aligned
  <2> QED
    BY <1>1, <1>2, <2>1, <2>2 DEF Launching, Current, AtWork, Suited
<1> QED
  BY <1>3, <1>4

LEMMA LaunchingCommands ==
  ASSUME Typed, Launching, NEW code \in {0, 1}, Launch(code)
  PROVE  Launching'
<1>1. /\ Between /\ ~IsBuiltin(pos) /\ pos' = LastOfRun + 1
      /\ UNCHANGED <<nodes, overrides, base, words, named, variables, exported>>
      /\ child' = Launched(SubSeq(nodes, pos, LastOfRun), SubSeq(overrides, pos, LastOfRun),
                           base)
  BY DEF Launch, LastOfRun, store
<1> DEFINE last == LastOfRun
           run == SubSeq(nodes, pos, last)
           env == SubSeq(overrides, pos, last)
<1>2. last \in pos..Len(nodes) /\ pos \in 1..Len(nodes) /\ Len(nodes) \in Nat /\ pos \in Nat
  BY <1>1, RunFacts DEF Typed
<1>3. \A i \in 1..Len(run) : env[i] = run[i].prefix
  <2>1. nodes \in Seq(Stages) /\ overrides \in Seq(Prefixes) /\ Len(overrides) = Len(nodes)
    BY DEF Typed, PipelineTypes
  <2> HIDE DEF last
  <2>2. /\ \A i \in pos..last : nodes[i] \in Stages /\ overrides[i] \in Prefixes
        /\ \A i \in pos..last : overrides[i] = nodes[i].prefix
        /\ pos \in Int /\ last \in Int /\ pos <= last
    BY <1>2, <2>1 DEF Launching, Aligned
  <2>3. /\ Len(run) = last - pos + 1
        /\ \A i \in 1..(last - pos + 1) : /\ run[i] = nodes[pos + i - 1]
                                          /\ env[i] = overrides[pos + i - 1]
    BY <2>2, SubSeqProperties
  <2>4. \A i \in 1..(last - pos + 1) : pos + i - 1 \in pos..last
    BY <2>2
  <2> HIDE DEF run, env
  <2> QED
    BY <2>2, <2>3, <2>4
<1>4. Agrees(base, variables, exported, named)
  BY <1>1 DEF Launching, Current, Between
<1>5. Suited'
  <2> HIDE DEF run, env
  <2>1. \A c \in Launched(run, env, base) : Suits(c, variables, exported, named)
    BY <1>3, <1>4, LaunchedFacts
  <2> QED
    BY <1>1, <2>1 DEF Suited, run, env
<1>6. Current'
  BY <1>1, <1>4 DEF Current
<1> QED
  BY <1>1, <1>5, <1>6 DEF Launching, Aligned, AtWork, Between

(* Builtins change nothing of a name that they were not given.             *)
LEMMA AgreesStill ==
  ASSUME NEW env, NEW held, NEW marks, NEW given, Agrees(env, held, marks, given),
         NEW held2, NEW marks2,
         \A n \in Names \ given : /\ n \in marks2 <=> n \in marks
                                  /\ n \in DOMAIN held2 <=> n \in DOMAIN held
                                  /\ n \in DOMAIN held => held2[n] = held[n],
         marks \subseteq DOMAIN held
  PROVE  Agrees(env, held2, marks2, given)
  BY DEF Agrees

LEMMA LaunchingStart == ASSUME Typed, Launching, StartBuiltin PROVE Launching'
<1>1. /\ ~Idle /\ words' = Node.args /\ child' = {} /\ UNCHANGED <<nodes, overrides, base, pos>>
      /\ UNCHANGED <<variables, exported>>
      /\ named' = named \cup {Node.args[i].name : i \in 1..Len(Node.args)}
  BY DEF StartBuiltin, Between, store
<1>2. Current'
  BY <1>1 DEF Launching, Current, Agrees
<1>3. \A i \in 1..Len(words') : words'[i].name \in named'
  BY <1>1
<1> QED
  BY <1>1, <1>2, <1>3 DEF Launching, Aligned, AtWork, Suited

LEMMA LaunchingWords ==
  ASSUME IInv, Typed, Launching,
         ExportWord \/ ExportRefuses \/ SetWord \/ SetOption \/ SetRefuses
         \/ Unset \/ UnsetRefuses \/ EndBuiltin
  PROVE  Launching'
<1>1. /\ ~Idle /\ words # NoBuiltin /\ child = {} /\ child' = {}
      /\ UNCHANGED <<nodes, overrides, base, named>>
      /\ Agrees(base, variables, exported, named)
      /\ words \in Seq(Arguments) /\ \A i \in 1..Len(words) : words[i].name \in named
  <2>1. ~Idle /\ words # NoBuiltin /\ UNCHANGED <<nodes, overrides, base, named, child>>
    <3>1. <<>> # NoBuiltin
      <4>1. <<>> \in Seq(Arguments)
        OBVIOUS
      <4> QED
        BY <4>1, ValueAssumption
    <3> QED
      BY <3>1 DEF ExportWord, ExportRefuses, SetWord, SetOption, SetRefuses, Unset,
                  UnsetRefuses, EndBuiltin, Reading, ReadOn, Stop
  <2> QED
    BY <2>1 DEF Launching, Current, AtWork, Typed, PipelineTypes
<1>2. /\ words' = NoBuiltin \/ words' = <<>> \/ (words' = Tail(words) /\ words # <<>>)
      /\ words # <<>> => Argument.name \in named
  <2>1. words # <<>> => 1 \in 1..Len(words)
    BY <1>1
  <2> QED
    BY <1>1, <2>1 DEF ExportWord, ExportRefuses, SetWord, SetOption, SetRefuses, Unset,
         UnsetRefuses, EndBuiltin, Reading, ReadOn, Stop, Argument
<1>3. words' # NoBuiltin => \A i \in 1..Len(words') : words'[i].name \in named
  <2>1. ASSUME words # <<>>, NEW i \in 1..Len(Tail(words))
        PROVE  Tail(words)[i].name \in named
    <3>1. Tail(words)[i] = words[i + 1] /\ i + 1 \in 1..Len(words)
      BY <1>1, <2>1
    <3> QED
      BY <1>1, <3>1
  <2> QED
    BY <1>2, <2>1
<1>4. exported \subseteq DOMAIN variables
  BY DEF IInv, ExportedSet
<1>5. \A n \in Names \ named : /\ n \in exported' <=> n \in exported
                               /\ n \in DOMAIN variables' <=> n \in DOMAIN variables
                               /\ n \in DOMAIN variables => variables'[n] = variables[n]
  <2>1. CASE ExportWord \/ SetWord
    <3>1. /\ Argument.name \in named
          /\ exported' = exported \/ exported' = exported \cup {Argument.name}
      BY <1>2, <2>1 DEF ExportWord, SetWord, Reading
    <3>2. \E x : LET f == [n \in {Argument.name} |-> x]
                 IN variables' = Over(variables, f) \/ variables' = Over(f, variables)
      BY <2>1 DEF ExportWord, SetWord
    <3>3. PICK f : /\ DOMAIN f = {Argument.name}
                   /\ variables' = Over(variables, f) \/ variables' = Over(f, variables)
      BY <3>2
    <3> DEFINE D == DOMAIN variables \cup {Argument.name}
               g == variables'
    <3>4. /\ DOMAIN Over(variables, f) = D /\ DOMAIN Over(f, variables) = D
          /\ \A n \in DOMAIN variables \ {Argument.name} :
               Over(variables, f)[n] = variables[n] /\ Over(f, variables)[n] = variables[n]
      <4>1. /\ DOMAIN Over(variables, f) = DOMAIN variables \cup DOMAIN f
            /\ \A n \in DOMAIN variables \ DOMAIN f : Over(variables, f)[n] = variables[n]
        BY OverValues
      <4>2. /\ DOMAIN Over(f, variables) = DOMAIN f \cup DOMAIN variables
            /\ \A n \in DOMAIN variables : Over(f, variables)[n] = variables[n]
        BY OverValues
      <4>3. DOMAIN f = {Argument.name}
        BY <3>3
      <4> QED
        BY <4>1, <4>2, <4>3
    <3>5. g = Over(variables, f) \/ g = Over(f, variables)
      BY <3>3
    <3> HIDE DEF g
    <3>6. DOMAIN g = D /\ \A n \in DOMAIN variables \ {Argument.name} : g[n] = variables[n]
      BY <3>4, <3>5
    <3> QED
      BY <3>1, <3>6 DEF g
  <2>2. CASE Unset
    <3> DEFINE gone == {words[i].name : i \in (1..Len(words)) \ Flags}
    <3>1. gone \subseteq named
      BY <1>1
    <3>2. \/ UNCHANGED <<variables, exported>>
          \/ variables' = Without(variables, gone) /\ exported' = exported \ gone
      BY <2>2 DEF Unset, store
    <3> DEFINE rest == DOMAIN variables \ gone
               g == Only(variables, rest)
    <3>3. DOMAIN g = DOMAIN variables \cap rest /\ \A n \in DOMAIN variables \cap rest : g[n] = variables[n]
      BY OnlyValues
    <3>4. Without(variables, gone) = g
      BY DEF Without
    <3> HIDE DEF gone, g
    <3> QED
      BY <3>1, <3>2, <3>3, <3>4
  <2>3. CASE ExportRefuses \/ SetOption \/ SetRefuses \/ UnsetRefuses \/ EndBuiltin
    BY <2>3 DEF ExportRefuses, SetOption, SetRefuses, UnsetRefuses, EndBuiltin, Stop, store
  <2> QED
    BY <2>1, <2>2, <2>3
<1>6. Agrees(base, variables', exported', named)
  BY <1>1, <1>4, <1>5, AgreesStill
<1> QED
  BY <1>1, <1>3, <1>6 DEF Launching, Aligned, Current, AtWork, Suited

LEMMA LaunchingInit == Init => Launching
<1> SUFFICES ASSUME Init PROVE Launching
  OBVIOUS
<1>1. Len(nodes) = 0 /\ pos = 1
  BY DEF Init
<1> QED
  BY <1>1 DEF Init, Launching, Aligned, Current, AtWork, Suited, Idle

LEMMA LaunchingStep == IInv /\ Typed /\ Launching /\ [Next]_vars => Launching'
<1> SUFFICES ASSUME IInv, Typed, Launching, [Next]_vars PROVE Launching'
  OBVIOUS
<1>1. CASE UNCHANGED vars
  BY <1>1 DEF vars, store, pipeline, Launching, Aligned, Current, Agrees, AtWork, Suited,
              Suits, Idle
<1>2. CASE \/ NewCall \/ EnterSubshell \/ LeaveSubshell \/ LeaveFunction
           \/ (\E f \in FunNames : Define(f)) \/ (\E seg \in Segments : Assign(seg) \/ Call(seg))
  BY <1>2, LaunchingNothing
     DEF NewCall, EnterSubshell, LeaveSubshell, LeaveFunction, Define, Assign, Call
<1> QED
  BY <1>1, <1>2, LaunchingPipelines, LaunchingCommands, LaunchingStart, LaunchingWords
     DEF Next

(* Every command a pipeline launches has its own prefix and otherwise the  *)
(* exported variables, and nothing of the prefix of another stage: for any *)
(* mix of assignments, builtins and commands, but for the names that       *)
(* builtins before it in the pipeline were given.                          *)
THEOREM ChildrenGetTheirEnvironment == Spec => []ChildEnvironment
<1>1. Launching => ChildEnvironment
  BY DEF Launching, Suited, Suits, ChildEnvironment
<1> QED
  BY <1>1, AlwaysTyped, LaunchingInit, LaunchingStep, PTL DEF Spec

-----------------------------------------------------------------------------
(* The words of export and set.  What is left to read is the end of the    *)
(* stage's words, and each name is as the words read so far make it.       *)
Naming(args, r, n) == {i \in 1..r : args[i].name = n}
Giving(args, r, n) == {i \in Naming(args, r, n) : args[i].value # NoValue}

Took(args, r, n, cmd, old, new) ==
  IF Giving(args, r, n) # {}
  THEN /\ n \in DOMAIN new
       /\ \E i \in Giving(args, r, n) : /\ \A j \in Giving(args, r, n) : j <= i
                                        /\ new[n] = args[i].value
  ELSE IF n \in DOMAIN old THEN n \in DOMAIN new /\ new[n] = old[n]
  ELSE IF cmd = "export" /\ Naming(args, r, n) # {} THEN n \in DOMAIN new /\ new[n] = Empty
  ELSE n \notin DOMAIN new

Marked(args, r, cmd) == IF cmd = "set" THEN {} ELSE {args[i].name : i \in 1..r}

Progress(args, r, cmd) ==
  /\ \A i \in 1..Len(words) : words[i] = args[r + i]
  /\ exported = before[2] \cup Marked(args, r, cmd)
  /\ \A n \in WordNames : Took(args, r, n, cmd, before[1], variables)

InOrder ==
  words # NoBuiltin /\ Node.cmd \in {"export", "set"} =>
    /\ Len(words) <= Len(Node.args)
    /\ Progress(Node.args, Len(Node.args) - Len(words), Node.cmd)

LEMMA TookNext ==
  ASSUME NEW args \in Seq(Arguments), NEW r \in Nat, r < Len(args), NEW n, NEW cmd,
         NEW old, NEW new, Took(args, r, n, cmd, old, new), NEW new2,
         IF args[r + 1].name = n /\ args[r + 1].value # NoValue
         THEN n \in DOMAIN new2 /\ new2[n] = args[r + 1].value
         ELSE IF args[r + 1].name = n /\ cmd = "export"
         THEN n \in DOMAIN new2 /\ new2[n] = IF n \in DOMAIN new THEN new[n] ELSE Empty
         ELSE (n \in DOMAIN new2 <=> n \in DOMAIN new) /\ (n \in DOMAIN new => new2[n] = new[n])
  PROVE  Took(args, r + 1, n, cmd, old, new2)
<1> DEFINE a == args[r + 1]
           G == Giving(args, r, n)
           G2 == Giving(args, r + 1, n)
           M == Naming(args, r, n)
           M2 == Naming(args, r + 1, n)
<1>1. M2 = IF a.name = n THEN M \cup {r + 1} ELSE M
  BY DEF Naming
<1>2. G2 = IF a.name = n /\ a.value # NoValue THEN G \cup {r + 1} ELSE G
  BY <1>1 DEF Giving
<1>3. \A i \in G : i \in 1..r
  BY DEF Giving, Naming
<1> HIDE DEF G, G2, M, M2
<1>4. /\ G2 = Giving(args, r + 1, n) /\ M2 = Naming(args, r + 1, n)
      /\ G = Giving(args, r, n) /\ M = Naming(args, r, n)
  BY DEF G, G2, M, M2
<1>5. CASE a.name = n /\ a.value # NoValue
  <2>1. r + 1 \in G2 /\ \A j \in G2 : j <= r + 1
    BY <1>2, <1>3, <1>5
  <2>2. n \in DOMAIN new2 /\ new2[n] = args[r + 1].value
    BY <1>5
  <2> QED
    BY <1>4, <2>1, <2>2 DEF Took
<1>6. CASE a.name = n /\ a.value = NoValue /\ cmd = "export"
  <2>1. G2 = G /\ M2 # {}
    BY <1>1, <1>2, <1>6
  <2>2. n \in DOMAIN new2 /\ new2[n] = IF n \in DOMAIN new THEN new[n] ELSE Empty
    BY <1>6
  <2> QED
    BY <1>4, <1>6, <2>1, <2>2 DEF Took
<1>7. CASE a.name # n \/ (a.value = NoValue /\ cmd # "export")
  <2>1. G2 = G /\ (cmd = "export" => M2 = M)
    BY <1>1, <1>2, <1>7
  <2>2. (n \in DOMAIN new2 <=> n \in DOMAIN new) /\ (n \in DOMAIN new => new2[n] = new[n])
    BY <1>7
  <2> QED
    BY <1>4, <2>1, <2>2 DEF Took
<1> QED
  BY <1>5, <1>6, <1>7

LEMMA OrderStart == ASSUME Typed, StartBuiltin PROVE InOrder'
<1>1. /\ words' = Node.args /\ before' = store /\ UNCHANGED <<nodes, pos, variables, exported>>
      /\ ~Idle /\ Node' = Node
  BY DEF StartBuiltin, Between, store, Node
<1>2. Node.args \in Seq(Arguments)
  <2>1. Node \in Stages
    BY <1>1 DEF Typed, PipelineTypes, Idle, Node
  <2> QED
    BY <2>1, StageFacts
<1> DEFINE args == Node.args
<1>3. before'[1] = variables /\ before'[2] = exported
  BY <1>1 DEF store
<1>4. \A n : Naming(args, 0, n) = {} /\ Giving(args, 0, n) = {}
  BY DEF Naming, Giving
<1>5. \A n, cmd : Took(args, 0, n, cmd, variables, variables)
  BY <1>4 DEF Took
<1>6. \A cmd : Marked(args, 0, cmd) = {}
  BY DEF Marked
<1>7. Len(args) \in Nat /\ Len(args) - Len(args) = 0 /\ \A i \in 1..Len(args) : 0 + i = i
  BY <1>2
<1>8. Progress(args, 0, Node.cmd)'
  BY <1>1, <1>3, <1>5, <1>6, <1>7 DEF Progress
<1> QED
  BY <1>1, <1>7, <1>8 DEF InOrder

LEMMA OrderWord ==
  ASSUME Typed, InOrder, ExportWord \/ SetWord \/ SetOption
  PROVE  InOrder'
<1>1. /\ words # NoBuiltin /\ words \in Seq(Arguments) /\ words # <<>> /\ ~Idle
      /\ words' = Tail(words) /\ UNCHANGED <<nodes, pos, before>> /\ Node' = Node
      /\ Node.cmd \in {"export", "set"}
  BY DEF Typed, PipelineTypes, ExportWord, SetWord, SetOption, Reading, ReadOn, Node
<1>0. PICK args, cmd, r :
        args = Node.args /\ cmd = Node.cmd /\ r = Len(Node.args) - Len(words)
  OBVIOUS
<1>2. args \in Seq(Arguments)
  <2>1. Node \in Stages
    BY <1>1 DEF Typed, PipelineTypes, Idle, Node
  <2> QED
    BY <1>0, <2>1, StageFacts
<1>3. Progress(args, r, cmd) /\ Len(words) <= Len(args)
  BY <1>1, <1>0 DEF InOrder
<1>4. /\ r \in Nat /\ r < Len(args) /\ Len(words) \in Nat /\ Len(args) \in Nat
      /\ Len(Tail(words)) = Len(words) - 1 /\ Len(words) >= 1
      /\ Len(args) - (Len(words) - 1) = r + 1
      /\ \A i \in 1..(Len(words) - 1) : Tail(words)[i] = words[i + 1]
  BY <1>1, <1>2, <1>3, <1>0
<1>5. Argument = args[r + 1]
  BY <1>3, <1>4 DEF Progress, Argument
<1>6. Argument \in Arguments
  BY <1>2, <1>4, <1>5
<1>7. ASSUME NEW i \in 1..(Len(words) - 1) PROVE Tail(words)[i] = args[r + 1 + i]
  <2>1. i + 1 \in 1..Len(words) /\ r + (i + 1) = r + 1 + i
    BY <1>4
  <2> QED
    BY <1>3, <1>4, <2>1 DEF Progress
<1>8. exported' = before[2] \cup Marked(args, r + 1, cmd)
  <2>1. {args[i].name : i \in 1..(r + 1)} = {args[i].name : i \in 1..r} \cup {Argument.name}
    <3>1. 1..(r + 1) = 1..r \cup {r + 1}
      BY <1>4
    <3> QED
      BY <1>5, <3>1
  <2>2. /\ cmd = "set" \/ cmd = "export"
        /\ cmd = "export" => exported' = exported \cup {Argument.name}
        /\ cmd = "set" => exported' = exported
    BY <1>0 DEF ExportWord, SetWord, SetOption, Reading, store
  <2> QED
    BY <1>1, <1>3, <2>1, <2>2 DEF Progress, Marked
<1>9. ASSUME NEW n \in WordNames PROVE Took(args, r + 1, n, cmd, before[1], variables')
  <2> DEFINE g == variables'
  <2>1. Took(args, r, n, cmd, before[1], variables)
    BY <1>3 DEF Progress
  <2>2. IF Argument.name = n /\ Argument.value # NoValue
        THEN n \in DOMAIN g /\ g[n] = Argument.value
        ELSE IF Argument.name = n /\ cmd = "export"
        THEN n \in DOMAIN g /\ g[n] = IF n \in DOMAIN variables THEN variables[n] ELSE Empty
        ELSE (n \in DOMAIN g <=> n \in DOMAIN variables)
             /\ (n \in DOMAIN variables => g[n] = variables[n])
    <3>1. CASE Argument.value # NoValue /\ ~SetOption
      <4>1. g = Over(variables, [m \in {Argument.name} |-> Argument.value])
        BY <3>1 DEF ExportWord, SetWord
      <4> HIDE DEF g
      <4> QED
        BY <3>1, <4>1 DEF Over
    <3>2. CASE Argument.value = NoValue /\ ~SetOption
      <4>1. g = Over([m \in {Argument.name} |-> Empty], variables) /\ cmd = "export"
        BY <1>0, <3>2 DEF ExportWord, SetWord, Reading
      <4> HIDE DEF g
      <4> QED
        BY <3>2, <4>1 DEF Over
    <3>3. CASE SetOption
      BY <1>0, <3>3 DEF SetOption, Reading, store
    <3> QED
      BY <3>1, <3>2, <3>3
  <2> HIDE DEF g
  <2>3. Took(args, r + 1, n, cmd, before[1], g)
    BY <1>2, <1>4, <1>5, <2>1, <2>2, TookNext
  <2> QED
    BY <2>3 DEF g
<1>10. Progress(args, r + 1, cmd)'
  BY <1>1, <1>4, <1>7, <1>8, <1>9 DEF Progress
<1> QED
  BY <1>1, <1>4, <1>10, <1>0 DEF InOrder

LEMMA OrderStep == Typed /\ InOrder /\ [Next]_vars => InOrder'
<1> SUFFICES ASSUME Typed, InOrder, [Next]_vars PROVE InOrder'
  OBVIOUS
<1>1. CASE UNCHANGED vars
  BY <1>1 DEF vars, store, pipeline, InOrder, Progress, Node
<1>2. CASE words' = NoBuiltin
  BY <1>2 DEF InOrder
<1>3. CASE Unset
  <2>1. Node' = Node /\ Node.cmd = "unset"
    BY <1>3 DEF Unset, Reading, Node
  <2> QED
    BY <2>1 DEF InOrder
<1>4. CASE \/ NewCall \/ EnterSubshell \/ LeaveSubshell \/ LeaveFunction
           \/ (\E f \in FunNames : Define(f))
           \/ (\E seg \in Segments : Assign(seg) \/ Background(seg) \/ Call(seg) \/ Begin(seg))
           \/ (\E code \in {0, 1} : Launch(code))
           \/ ExportRefuses \/ SetRefuses \/ UnsetRefuses \/ EndBuiltin
  BY <1>2, <1>4
     DEF NewCall, EnterSubshell, LeaveSubshell, LeaveFunction, Define, Assign, Background,
         Call, Begin, NoPipeline, Launch, Between, ExportRefuses, SetRefuses,
         UnsetRefuses, EndBuiltin, Stop
<1> QED
  BY <1>1, <1>3, <1>4, OrderStart, OrderWord DEF Next

LEMMA OrderEffect == InOrder => WordsTakeEffect
<1> SUFFICES ASSUME InOrder, words # NoBuiltin, Node.cmd \in {"export", "set"}
             PROVE  WordsTakeEffect
  BY DEF WordsTakeEffect
<1> QED
  BY DEF InOrder, Progress, Took, Marked, Giving, Naming, WordsTakeEffect

(* Whatever words export and set are given, they take effect in their      *)
(* order up to the first one refused: a name ends with its last value, and *)
(* an export without a value changes nothing that was set.                 *)
THEOREM WordsActInOrder == Spec => []WordsTakeEffect
<1>1. Init => InOrder
  BY DEF Init, InOrder
<1> QED
  BY <1>1, AlwaysTyped, OrderStep, OrderEffect, PTL DEF Spec
=============================================================================
