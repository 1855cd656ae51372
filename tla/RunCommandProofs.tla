--------------------------- MODULE RunCommandProofs ---------------------------
(***************************************************************************)
(* Proofs about RunCommand, for lists of any length: the fields of the     *)
(* Runner agree with what was done with the segments, $() runs where its   *)
(* segment does, and every step of the walk is a step of the AndOrList     *)
(* that may drop pipelines after an exit code of 1.                        *)
(***************************************************************************)
EXTENDS RunCommand, SelectionProofs

(* What one more entry changes of what is read off a history.              *)
LEMMA AppendFacts ==
  ASSUME NEW h \in Seq(Entries), NEW e \in Entries
  PROVE  /\ Append(h, e) \in Seq(Entries) /\ Append(h, e) # <<>>
         /\ Len(Append(h, e)) = Len(h) + 1 /\ Len(h) \in Nat
         /\ Append(h, e)[Len(h) + 1] = e
         /\ \A i \in 1..Len(h) : Append(h, e)[i] = h[i]
  OBVIOUS

LEMMA LastRcFacts ==
  ASSUME NEW h \in Seq(Entries), NEW e \in Entries
  PROVE  LastRc(Append(h, e)) = IF e.fate = "ran" THEN e.rc ELSE LastRc(h)
<1> DEFINE Ran(s) == Keep(s, Handled({"ran"}))
<1>1. e \in Handled({"ran"}) <=> e.fate = "ran"
  BY DEF Entries, Handled
<1>2. Ran(Append(h, e)) = IF e.fate = "ran" THEN Append(Ran(h), e) ELSE Ran(h)
  BY <1>1, KeepAppend
<1>3. Ran(h) \in Seq(Entries \cap Handled({"ran"}))
  BY KeepType
<1>4. \A s : LastRc(s) = IF Ran(s) = <<>> THEN 0 ELSE Ran(s)[Len(Ran(s))].rc
  BY DEF LastRc
<1> HIDE DEF Ran
<1>5. Append(Ran(h), e) # <<>> /\ Append(Ran(h), e)[Len(Append(Ran(h), e))] = e
  BY <1>3
<1> QED
  BY <1>2, <1>4, <1>5

LEMMA HistoryFacts ==
  ASSUME NEW h \in Seq(Entries), NEW e \in Entries
  PROVE  LET t == Append(h, e)
         IN /\ LastRc(t) = IF e.fate = "ran" THEN e.rc ELSE LastRc(h)
            /\ RanAny(t) <=> RanAny(h) \/ e.fate \in {"ran", "background"}
            /\ Skipped(t) <=> Skipped(h) \/ e.fate = "skipped"
            /\ Cwd(t) = e.to
<1> DEFINE t == Append(h, e)
           n == Len(h)
<1>1. /\ t # <<>> /\ Len(t) = n + 1 /\ n \in Nat
      /\ t[n + 1] = e /\ \A i \in 1..n : t[i] = h[i]
  BY AppendFacts
<1>2. LastRc(t) = IF e.fate = "ran" THEN e.rc ELSE LastRc(h)
  BY LastRcFacts
<1> HIDE DEF t, n
<1>3. RanAny(t) <=> RanAny(h) \/ e.fate \in {"ran", "background"}
  BY <1>1 DEF RanAny, n
<1>4. Skipped(t) <=> Skipped(h) \/ e.fate = "skipped"
  BY <1>1 DEF Skipped, n
<1>5. Cwd(t) = e.to
  BY <1>1 DEF Cwd
<1> QED
  BY <1>2, <1>3, <1>4, <1>5 DEF t

LEMMA StartFacts ==
  /\ 0 \in Rcs /\ 1 \in Rcs /\ NoRc \notin Rcs /\ Start \in Dirs
  /\ LastRc(<<>>) = 0 /\ ~RanAny(<<>>) /\ ~Skipped(<<>>) /\ Cwd(<<>>) = Start
<1>1. \A i : ~(i \in 1..Len(<<>>))
  OBVIOUS
<1>2. LastRc(<<>>) = 0
  BY KeepEmpty DEF LastRc
<1> QED
  BY <1>1, <1>2, ListAssumption DEF RanAny, Skipped, Cwd

-----------------------------------------------------------------------------
(* The fields are what AndOrList reads off the history.                    *)
Agreement ==
  /\ prev_rc = LastRc(history) /\ ran_any = RanAny(history)
  /\ skipped = Skipped(history) /\ work_dir = Cwd(history)

(* The stages tell what AndOrList reads off the segments not dropped.      *)
Telling ==
  /\ stages = [i \in 1..Len(KeptSegments) |-> KeptSegments[i].rc]
  /\ prev_rc = LastRc(KeptSegments)
  /\ answer # NoAnswer => answer.rc = prev_rc

IInv ==
  /\ TypeOK
  /\ Agreement
  /\ Telling
  /\ SubstitutionInPlace

LEMMA InitInv == Init => IInv
<1> SUFFICES ASSUME Init PROVE IInv
  OBVIOUS
<1>1. RanAny(<<>>) = FALSE /\ Skipped(<<>>) = FALSE
  BY StartFacts DEF RanAny, Skipped
<1>2. Agreement
  BY <1>1, StartFacts DEF Init, Agreement
<1>3. SubstitutionInPlace
  BY DEF Init, SubstitutionInPlace
<1>4. TypeOK
  <2>1. /\ history \in Seq(Entries) /\ stages \in Seq(Rcs \cup {NoRc})
        /\ substs \in Seq(Dirs \cup {NoSubst}) /\ Len(substs) = Len(history)
    BY DEF Init
  <2>2. /\ ops \in Lists /\ prev_rc \in Rcs /\ work_dir \in Dirs
        /\ ran_any \in BOOLEAN /\ skipped \in BOOLEAN /\ answer = NoAnswer
    BY StartFacts DEF Init
  <2> QED
    BY <2>1, <2>2 DEF TypeOK
<1>5. Telling
  <2>1. KeptSegments = <<>>
    BY KeepEmpty DEF Init, KeptSegments
  <2> QED
    BY <2>1, StartFacts DEF Init, Telling
<1> QED
  BY <1>2, <1>3, <1>4, <1>5 DEF IInv

(* One more segment is told of by one more stage, unless it was dropped.   *)
LEMMA TellingStep ==
  ASSUME TypeOK, Telling, NEW e \in Entries, history' = Append(history, e),
         stages' = IF e.fate = "dropped" THEN stages ELSE Append(stages, e.rc),
         prev_rc' = IF e.fate = "ran" THEN e.rc ELSE prev_rc,
         answer = NoAnswer, UNCHANGED answer
  PROVE  Telling'
<1> DEFINE kept == KeptSegments
<1>1. e \in Handled(Fates \ {"dropped"}) <=> e.fate # "dropped"
  BY DEF Entries, Handled
<1>2. KeptSegments' = IF e.fate # "dropped" THEN Append(kept, e) ELSE kept
  BY <1>1, KeepAppend DEF KeptSegments, TypeOK
<1>3. kept \in Seq(Entries)
  <2>1. kept \in Seq(Entries \cap Handled(Fates \ {"dropped"}))
    BY KeepType DEF KeptSegments, TypeOK
  <2> HIDE DEF kept
  <2> QED
    BY <2>1
<1>4. CASE e.fate = "dropped"
  BY <1>2, <1>4 DEF Telling
<1>5. CASE e.fate # "dropped"
  <2>1. KeptSegments' = Append(kept, e) /\ stages' = Append(stages, e.rc)
    BY <1>2, <1>5
  <2>2. LastRc(Append(kept, e)) = prev_rc'
    BY <1>3, LastRcFacts DEF Telling
  <2>3. stages = [i \in 1..Len(kept) |-> kept[i].rc]
    BY DEF Telling
  <2> HIDE DEF kept
  <2>4. Append(stages, e.rc) = [i \in 1..Len(Append(kept, e)) |-> Append(kept, e)[i].rc]
    BY <1>3, <2>3
  <2> QED
    BY <2>1, <2>2, <2>4 DEF Telling
<1> QED
  BY <1>4, <1>5

(* A segment dealt with leaves the invariant when the fields follow what   *)
(* is noted of it and a skipped one expanded nothing.                      *)
LEMMA NoteStep ==
  ASSUME IInv, NEW fate \in Fates, NEW rc \in Rcs \cup {NoRc}, NEW to \in Dirs,
         Note(fate, rc, to), fate = "ran" => rc \in Rcs,
         prev_rc' = IF fate = "ran" THEN rc ELSE prev_rc,
         ran_any' = (ran_any \/ fate \in {"ran", "background"}),
         skipped' = (skipped \/ fate = "skipped"),
         work_dir' = to,
         answer = NoAnswer,
         stages' = IF fate = "dropped" THEN stages ELSE Append(stages, rc),
         NEW d \in {NoSubst} \cup IF fate = "skipped" THEN {} ELSE {work_dir},
         substs' = Append(substs, d)
  PROVE  IInv'
<1> DEFINE e == [fate |-> fate, rc |-> rc, dir |-> work_dir, to |-> to]
<1>1. /\ e \in Entries /\ e.fate = fate /\ e.rc = rc /\ e.to = to
      /\ e.dir = work_dir
  BY DEF Entries, Handled, IInv, TypeOK
<1>2. history' = Append(history, e) /\ UNCHANGED <<ops, answer>>
  BY DEF Note
<1> HIDE DEF e
<1>3. history \in Seq(Entries)
  BY DEF IInv, TypeOK
<1>4. /\ LastRc(history') = IF fate = "ran" THEN rc ELSE LastRc(history)
      /\ RanAny(history') <=> RanAny(history) \/ fate \in {"ran", "background"}
      /\ Skipped(history') <=> Skipped(history) \/ fate = "skipped"
      /\ Cwd(history') = to
  BY <1>1, <1>2, <1>3, HistoryFacts
<1>5. /\ history' \in Seq(Entries) /\ Len(history') = Len(history) + 1
      /\ Len(history) \in Nat
      /\ history'[Len(history) + 1] = e
      /\ \A i \in 1..Len(history) : history'[i] = history[i]
  BY <1>1, <1>2, <1>3, AppendFacts
<1>6. /\ substs' \in Seq(Dirs \cup {NoSubst}) /\ Len(substs') = Len(history')
      /\ substs'[Len(history) + 1] = d
      /\ \A i \in 1..Len(history) : substs'[i] = substs[i]
  <2>1. /\ substs \in Seq(Dirs \cup {NoSubst}) /\ d \in Dirs \cup {NoSubst}
        /\ Len(substs) = Len(history)
    BY DEF IInv, TypeOK
  <2> QED
    BY <1>5, <2>1
<1>7. TypeOK'
  <2>1. stages' \in Seq(Rcs \cup {NoRc})
    BY DEF IInv, TypeOK
  <2> QED
    BY <1>2, <1>5, <1>6, <2>1 DEF IInv, TypeOK
<1>8. Agreement'
  <2>1. /\ RanAny(history) \in BOOLEAN /\ Skipped(history) \in BOOLEAN
        /\ RanAny(history') \in BOOLEAN /\ Skipped(history') \in BOOLEAN
    BY DEF RanAny, Skipped
  <2> QED
    BY <1>4, <2>1 DEF IInv, Agreement
<1>9. SubstitutionInPlace'
  <2> SUFFICES ASSUME NEW i \in 1..(Len(history) + 1)
               PROVE  substs'[i] \in {NoSubst} \cup
                        IF history'[i].fate = "skipped" THEN {}
                        ELSE {history'[i].dir}
    BY <1>5 DEF SubstitutionInPlace
  <2>1. CASE i = Len(history) + 1
    BY <1>1, <1>5, <1>6, <2>1
  <2>2. CASE i \in 1..Len(history)
    BY <1>5, <1>6, <2>2 DEF IInv, SubstitutionInPlace
  <2>3. i = Len(history) + 1 \/ i \in 1..Len(history)
    BY <1>5
  <2> QED
    BY <2>1, <2>2, <2>3
<1>10. Telling'
  BY <1>1, <1>2, TellingStep DEF IInv
<1> QED
  BY <1>4, <1>7, <1>8, <1>9, <1>10 DEF IInv

(* The same of the segments that get a stage.                              *)
LEMMA StageStep ==
  ASSUME IInv, NEW fate \in {"ran", "background"},
         NEW rc \in Rcs \cup {NoRc}, NEW to \in Dirs,
         Stage(fate, rc, to), fate = "ran" => rc \in Rcs,
         prev_rc' = IF fate = "ran" THEN rc ELSE prev_rc,
         ran_any' = TRUE, UNCHANGED skipped, work_dir' = to, answer = NoAnswer
  PROVE  IInv'
<1>1. PICK d \in {NoSubst, work_dir} : substs' = Append(substs, d)
  BY DEF Stage, Substituted
<1>2. stages \in Seq(Rcs \cup {NoRc}) /\ skipped \in BOOLEAN /\ ran_any \in BOOLEAN
  BY DEF IInv, TypeOK
<1>3. stages' = Append(stages, rc)
  BY DEF Stage
<1>4. fate \in Fates /\ Note(fate, rc, to)
  BY DEF Fates, Stage
<1> QED
  BY <1>1, <1>2, <1>3, <1>4, NoteStep

LEMMA StepInv == IInv /\ [Next]_vars => IInv'
<1> SUFFICES ASSUME IInv, [Next]_vars PROVE IInv'
  OBVIOUS
<1>1. /\ prev_rc \in Rcs /\ work_dir \in Dirs /\ skipped \in BOOLEAN
      /\ ran_any \in BOOLEAN /\ stages \in Seq(Rcs \cup {NoRc})
  BY DEF IInv, TypeOK
<1>2. CASE Skip
  BY <1>1, <1>2, NoteStep DEF Skip, Walking, Fates
<1>3. CASE SegmentError
  BY <1>1, <1>3, StartFacts, StageStep DEF SegmentError, Reached, Walking
<1>4. ASSUME NEW rc \in Rcs, Compound(rc)
      PROVE  IInv'
  BY <1>1, <1>4, StageStep DEF Compound, Reached, Walking
<1>5. CASE Drop
  <2>1. PICK d \in {NoSubst, work_dir} : substs' = Append(substs, d)
    BY <1>5 DEF Drop, Substituted
  <2> QED
    BY <1>1, <1>5, <2>1, NoteStep DEF Drop, Reached, Walking, Fates
<1>6. CASE BuiltinError
  BY <1>1, <1>6, StartFacts, StageStep DEF BuiltinError, Dispatched, Reached, Walking
<1>7. ASSUME NEW d \in Dirs, ChangeDir(d)
      PROVE  IInv'
  BY <1>1, <1>7, StartFacts, StageStep DEF ChangeDir, Dispatched, Reached, Walking
<1>8. CASE Background
  BY <1>1, <1>8, StageStep DEF Background, Dispatched, Reached, Walking
<1>9. ASSUME NEW rc \in Rcs, Execute(rc)
      PROVE  IInv'
  BY <1>1, <1>9, StageStep DEF Execute, Dispatched, Reached, Walking
<1>10. CASE Finish
  <2>1. answer' \in Answers
    BY <1>1, <1>10 DEF Finish, Answers
  <2>2. Telling'
    BY <1>10 DEF Finish, IInv, Telling, KeptSegments
  <2> QED
    BY <1>10, <2>1, <2>2 DEF Finish, IInv, TypeOK, Agreement, SubstitutionInPlace
<1>11. CASE UNCHANGED vars
  BY <1>11 DEF vars, IInv, TypeOK, Agreement, SubstitutionInPlace, Telling, KeptSegments
<1> QED
  BY <1>2, <1>3, <1>4, <1>5, <1>6, <1>7, <1>8, <1>9, <1>10, <1>11 DEF Next

(* The types of the walk's fields, for lists of any length.                *)
THEOREM TypeCorrect == Spec => []TypeOK
<1>1. IInv => TypeOK
  BY DEF IInv
<1> QED
  BY <1>1, InitInv, StepInv, PTL DEF Spec

(* The stages of an answer are those of the segments that were not dropped *)
(* and its rc is the last one among them, for lists of any length.         *)
THEOREM AnswersTellHistory == Spec => []StagesTellHistory
<1>1. IInv => StagesTellHistory
  BY DEF IInv, Telling, StagesTellHistory
<1> QED
  BY <1>1, InitInv, StepInv, PTL DEF Spec

(* In every reachable state the $() of a segment ran in the directory the  *)
(* segment met, and not at all when && or || skipped the segment.          *)
THEOREM SubstitutionsRunInPlace == Spec => []SubstitutionInPlace
<1>1. IInv => SubstitutionInPlace
  BY DEF IInv
<1> QED
  BY <1>1, InitInv, StepInv, PTL DEF Spec

-----------------------------------------------------------------------------
(* Refinement.                                                             *)
LEMMA ListOperators ==
  /\ List!NoAnswer = NoAnswer /\ List!Lists = Lists
  /\ List!LastRc(history) = LastRc(history)
  /\ List!RanAny(history) = RanAny(history)
  /\ List!Cwd(history) = Cwd(history) /\ List!Skipped(history) = Skipped(history)
  BY DEF List!NoAnswer, NoAnswer, List!Lists, Lists, List!Ops, Ops,
         List!LastRc, LastRc, List!Handled, Handled, List!Keep, Keep,
         List!RanAny, RanAny, List!Cwd, Cwd,
         List!Skipped, Skipped

LEMMA Guards ==
  ASSUME IInv
  PROVE  /\ Walking <=> List!Waiting
         /\ SkipsAnd \/ SkipsOr <=> List!ShortCircuits(List!NextOp, history)
  BY ListOperators
     DEF IInv, Agreement, Walking, List!Waiting, SkipsAnd, SkipsOr, Op,
         List!NextOp, List!ShortCircuits

LEMMA Noted ==
  ASSUME IInv, NEW fate, NEW rc, NEW to, Note(fate, rc, to)
  PROVE  List!Record(fate, rc, to)
  BY ListOperators DEF IInv, Agreement, Note, List!Record

LEMMA RefinesInit == Init => List!AInit
  BY ListOperators DEF Init, List!AInit

LEMMA RefinesStep == IInv /\ [Next]_vars => [List!ANext]_(List!avars)
<1> SUFFICES ASSUME IInv, [Next]_vars PROVE [List!ANext]_(List!avars)
  OBVIOUS
<1>1. /\ prev_rc = LastRc(history) /\ ran_any = RanAny(history)
      /\ work_dir = Cwd(history) /\ skipped = Skipped(history)
      /\ prev_rc \in Rcs /\ work_dir \in Dirs
  BY DEF IInv, Agreement, TypeOK
<1>2. CASE Skip
  BY <1>1, <1>2, Guards, Noted, ListOperators DEF Skip, List!ANext, List!ASkip
<1>3. ASSUME NEW rc \in Rcs, NEW to \in Dirs, Reached, Stage("ran", rc, to),
             rc = 0 \/ to = work_dir
      PROVE  List!ANext
  <2>1. List!ARun(rc, to)
    BY <1>1, <1>3, Guards, Noted, ListOperators DEF Reached, Stage, List!ARun
  <2> QED
    BY <2>1 DEF List!ANext
<1>4. CASE SegmentError
  BY <1>1, <1>3, <1>4, StartFacts DEF SegmentError
<1>5. ASSUME NEW rc \in Rcs, Compound(rc)
      PROVE  List!ANext
  BY <1>1, <1>3, <1>5 DEF Compound
<1>6. CASE Drop
  BY <1>1, <1>6, Guards, Noted, ListOperators
     DEF Drop, Dropping, Reached, List!ANext, List!ADrop
<1>7. CASE BuiltinError
  BY <1>1, <1>3, <1>7, StartFacts DEF BuiltinError, Dispatched
<1>8. ASSUME NEW d \in Dirs, ChangeDir(d)
      PROVE  List!ANext
  BY <1>3, <1>8, StartFacts DEF ChangeDir, Dispatched
<1>9. CASE Background
  BY <1>1, <1>9, Guards, Noted, ListOperators
     DEF Background, Dispatched, Reached, Stage, List!ANext, List!ABackground
<1>10. ASSUME NEW rc \in Rcs, Execute(rc)
       PROVE  List!ANext
  BY <1>1, <1>3, <1>10 DEF Execute, Dispatched
<1>11. CASE Finish
  BY <1>1, <1>11, ListOperators DEF Finish, List!ANext, List!AAnswer
<1>12. CASE UNCHANGED vars
  BY <1>12 DEF vars, List!avars
<1> QED
  BY <1>2, <1>4, <1>5, <1>6, <1>7, <1>8, <1>9, <1>10, <1>11, <1>12 DEF Next

(* run_command implements the list that may drop segments after an exit    *)
(* code of exactly 1, whatever the list.                                   *)
THEOREM RunCommandImplementsDroppingList == Spec => ImplementsDroppingList
  BY InitInv, StepInv, RefinesInit, RefinesStep, PTL
     DEF Spec, ImplementsDroppingList, List!ASpec
=============================================================================
