--------------------------- MODULE SubstitutionProofs ---------------------------
(***************************************************************************)
(* Proofs about what expands a command.  Substitution, whatever the texts  *)
(* contain and however they are nested:                                    *)
(*   Counters  the limit on the number of $() and the deadline bound what  *)
(*             one outermost $() may do;                                   *)
(*   Typed     parses and walks alternate, each for a shorter text than    *)
(*             those it is in;                                             *)
(*   Recency   the cache holds the texts parsed last, in order;            *)
(*   Tally     what has been run for the task is what its texts say.       *)
(* Each uses the ones before.  Fields, whatever the words consist of:      *)
(*   Expansion fields and word hold the same characters, for which the     *)
(*             recursions of _field_split and FlattenSeq are unfolded;     *)
(*   Words     part by part, the fields are the gaps between the borders   *)
(*             of the word as a whole.                                     *)
(***************************************************************************)
EXTENDS Substitution, Fields, SelectionProofs, FiniteSetTheorems

(* The counters need each other: what was begun is counted in the shared   *)
(* list, and the list is checked before it grows.                          *)
Counters ==
  /\ shared \in Nat /\ begun \in Nat /\ late \in Nat /\ left \in Int /\ own \in Nat
  /\ begun <= shared /\ shared <= MaxCount
  /\ OverrunBounded

(* Init, and the steps that end an outermost call, set all to zero.        *)
LEMMA ZeroCounters ==
  ASSUME own = 0, shared = 0, left = 0, begun = 0, late = 0
  PROVE  Counters
BY BoundAssumption DEF Counters, OverrunBounded

LEMMA ResetKeepsCounters ==
  ASSUME NoLimits
  PROVE  Counters'
BY BoundAssumption DEF NoLimits, Counters, OverrunBounded

LEMMA UnchangedKeepsCounters ==
  ASSUME Counters, UNCHANGED limits
  PROVE  Counters'
BY DEF limits, Counters, OverrunBounded

LEMMA CaptureKeepsCounters ==
  ASSUME Counters, Capture
  PROVE  Counters'
<1>1. ParserCount \in {0, 1} /\ ~(CountIn > MaxCount) /\ shared' = CountIn
  BY DEF Capture, Refused, ParserCount
<1>2. CASE Outermost
  <2>1. CountIn = 1 /\ CountBefore = own + ParserCount
    BY <1>2 DEF CountIn, CountBefore
  <2>2. begun' = 1 /\ late' = 0 /\ left' = Timeout /\ own' = own + ParserCount
    BY <1>2, <2>1 DEF Capture
  <2> QED
    BY <1>1, <2>1, <2>2, BoundAssumption DEF Counters, OverrunBounded
<1>3. CASE ~Outermost
  <2>1. CountIn = shared + ParserCount + 1
    BY <1>1, <1>3 DEF CountIn, CountBefore, Counters
  <2>2. begun' = begun + 1 /\ UNCHANGED <<own, left, late>>
    BY <1>3 DEF Capture
  <2> QED
    BY <1>1, <2>1, <2>2, BoundAssumption DEF Counters, OverrunBounded
<1> QED
  BY <1>2, <1>3

(* A pipeline that starts with less than a second left gets one more.      *)
LEMMA RunKeepsCounters ==
  ASSUME Counters, NEW rc, NEW time \in 0..(Timeout + 1), NEW size, Run(rc, time, size)
  PROVE  Counters'
<1>1. /\ left' = left - time /\ time <= Remaining
      /\ late' = IF left < 1 THEN late + 1 ELSE late
      /\ UNCHANGED <<own, shared, begun>>
  BY DEF Run
<1>2. time \in Int /\ 0 <= time
  BY BoundAssumption
<1>3. CASE left < 1
  BY <1>1, <1>2, <1>3 DEF Remaining, Counters, OverrunBounded
<1>4. CASE ~(left < 1)
  BY <1>1, <1>2, <1>4 DEF Remaining, Counters, OverrunBounded
<1> QED
  BY <1>3, <1>4

LEMMA ReturnKeepsCounters ==
  ASSUME Counters, Return
  PROVE  Counters'
BY ResetKeepsCounters, UnchangedKeepsCounters DEF Return

LEMMA StepKeepsCounters ==
  ASSUME Counters, [Next]_vars
  PROVE  Counters'
<1>1. CASE UNCHANGED vars
  BY <1>1, UnchangedKeepsCounters DEF vars
<1>2. CASE \E t \in Tasks : StartTask(t)
  BY <1>2, UnchangedKeepsCounters DEF StartTask
<1>3. CASE StartText \/ SkipOperand \/ Stop
  BY <1>3, UnchangedKeepsCounters DEF StartText, SkipOperand, Stop
<1>4. CASE Refuse \/ Misbuilt \/ RejectBackground \/ Evicted
  BY <1>4, ResetKeepsCounters DEF Refuse, Misbuilt, RejectBackground, Evicted, Raise
<1>5. CASE Capture
  BY <1>5, CaptureKeepsCounters
<1>6. CASE Store \/ Hit
  BY <1>6, ReturnKeepsCounters DEF Store, Hit
<1>7. CASE EndCapture
  <2>1. CASE Len(frames) = 2
    BY <1>7, <2>1, BoundAssumption DEF EndCapture, Counters, OverrunBounded
  <2>2. CASE Len(frames) # 2
    BY <1>7, <2>2, UnchangedKeepsCounters DEF EndCapture
  <2> QED
    BY <2>1, <2>2
<1>8. CASE \E rc \in Rcs, time \in 0..(Timeout + 1), size \in 0..1 : Run(rc, time, size)
  BY <1>8, RunKeepsCounters
<1> QED
  BY <1>1, <1>2, <1>3, <1>4, <1>5, <1>6, <1>7, <1>8 DEF Next, Serve

LEMMA CountersHold == Spec => []Counters
<1>1. Init => Counters
  BY ZeroCounters DEF Init
<1>2. Counters /\ [Next]_vars => Counters'
  BY StepKeepsCounters
<1> QED
  BY <1>1, <1>2, PTL DEF Spec

(* However deep $() are nested in one another, and through the cache or    *)
(* not, no more than MAX_SUBST_COUNT are run for an outermost one.         *)
THEOREM WorkIsBounded == Spec => []WorkBounded
<1>1. Counters => WorkBounded
  BY BoundAssumption DEF Counters, WorkBounded
<1> QED
  BY <1>1, CountersHold, PTL

(* The deadline of a $() list is exceeded by a second at most for each     *)
(* pipeline that starts when less than a second is left.                   *)
THEOREM OverrunIsBounded == Spec => []OverrunBounded
<1>1. Counters => OverrunBounded
  BY DEF Counters
<1> QED
  BY <1>1, CountersHold, PTL

-----------------------------------------------------------------------------
(* The calls in progress: parses and walks by turns, each $() shorter than *)
(* the texts it is in.                                                     *)
Frames == ParseFrames \cup WalkFrames

Alternating(s) == \A i \in 1..Len(s) : (s[i].at = "parse") = (i % 2 = 1)
Shrinking(s) ==
  \A i, j \in 1..Len(s) :
    i < j /\ s[i].at = "parse" => Length[s[j].text] < Length[s[i].text]

Stack(s) == s \in Seq(Frames) /\ Alternating(s) /\ Shrinking(s)

LEMMA ParseFacts ==
  ASSUME NEW f \in ParseFrames
  PROVE  /\ f.at = "parse" /\ f.text \in Texts /\ f.hit \in BOOLEAN
         /\ f.next \in Nat \ {0}
         /\ \A n \in Nat \ {0} :
              /\ [f EXCEPT !.next = n] \in ParseFrames
              /\ [f EXCEPT !.next = n].text = f.text
              /\ [f EXCEPT !.next = n].hit = f.hit
              /\ [f EXCEPT !.next = n].next = n
BY DEF ParseFrames

LEMMA WalkFacts ==
  ASSUME NEW f \in WalkFrames
  PROVE  /\ f.at = "walk" /\ f.text \in Texts /\ f.pos \in Nat \ {0}
         /\ f.rc \in Rcs /\ f.ran \in BOOLEAN /\ f.out \in 0..MaxOutput
         /\ f.done \in BOOLEAN
BY DEF WalkFrames

LEMMA FrameFacts ==
  ASSUME NEW f \in Frames
  PROVE  /\ f.text \in Texts /\ f.at \in {"parse", "walk"}
         /\ f.at = "parse" => f \in ParseFrames
         /\ f.at = "walk" => f \in WalkFrames
BY ParseFacts, WalkFacts DEF Frames

LEMMA StackStart ==
  /\ Stack(<<>>)
  /\ \A f \in ParseFrames : Stack(<<f>>)
<1>1. Stack(<<>>)
  BY DEF Stack, Alternating, Shrinking
<1>2. ASSUME NEW f \in ParseFrames PROVE Stack(<<f>>)
  <2>1. <<f>> \in Seq(Frames) /\ Len(<<f>>) = 1 /\ <<f>>[1] = f
    BY DEF Frames
  <2>2. f.at = "parse"
    BY ParseFacts
  <2> QED
    BY <2>1, <2>2 DEF Stack, Alternating, Shrinking
<1> QED
  BY <1>1, <1>2

(* A call ends, or a step changes it, and it becomes the one on top.       *)
LEMMA StackPop ==
  ASSUME NEW s, Stack(s), NEW m \in 0..Len(s)
  PROVE  LET r == SubSeq(s, 1, m)
         IN Stack(r) /\ Len(r) = m /\ \A i \in 1..m : r[i] = s[i]
<1> DEFINE r == SubSeq(s, 1, m)
<1>1. s \in Seq(Frames) /\ Len(s) \in Nat /\ m \in Nat /\ m <= Len(s)
  BY DEF Stack
<1>2. r \in Seq(Frames) /\ Len(r) = m /\ \A i \in 1..m : r[i] = s[i]
  BY <1>1
<1>3. \A i \in 1..m : i \in 1..Len(s)
  BY <1>1
<1> HIDE DEF r
<1>4. Stack(r)
  BY <1>2, <1>3 DEF Stack, Alternating, Shrinking
<1> QED
  BY <1>2, <1>4 DEF r

LEMMA StackChange ==
  ASSUME NEW s, Stack(s), NEW m \in 1..Len(s), NEW f \in Frames,
         f.at = s[m].at, f.text = s[m].text
  PROVE  LET r == Append(SubSeq(s, 1, m - 1), f)
         IN Stack(r) /\ Len(r) = m /\ r[m] = f /\ \A i \in 1..(m - 1) : r[i] = s[i]
<1> DEFINE r == Append(SubSeq(s, 1, m - 1), f)
<1>1. s \in Seq(Frames) /\ Len(s) \in Nat /\ m \in Nat \ {0} /\ m <= Len(s)
  BY DEF Stack
<1>2. /\ SubSeq(s, 1, m - 1) \in Seq(Frames) /\ Len(SubSeq(s, 1, m - 1)) = m - 1
      /\ \A i \in 1..(m - 1) : SubSeq(s, 1, m - 1)[i] = s[i]
  BY <1>1
<1>3. /\ r \in Seq(Frames) /\ Len(r) = m /\ r[m] = f
      /\ \A i \in 1..(m - 1) : r[i] = s[i]
  BY <1>1, <1>2
<1>4. \A i \in 1..m : /\ i \in 1..Len(s) /\ (i = m \/ i \in 1..(m - 1))
                      /\ r[i].at = s[i].at /\ r[i].text = s[i].text
  BY <1>1, <1>3
<1> HIDE DEF r
<1>5. Alternating(r) /\ Shrinking(r)
  BY <1>3, <1>4 DEF Stack, Alternating, Shrinking
<1> QED
  BY <1>3, <1>5 DEF r, Stack

(* A $() begins: its text is parsed and then walked.                       *)
LEMMA Parity ==
  ASSUME NEW n \in Nat, n % 2 = 1
  PROVE  (n + 1) % 2 = 0 /\ (n + 2) % 2 = 1
OBVIOUS

LEMMA StackPush ==
  ASSUME NEW s, Stack(s), s # <<>>, s[Len(s)].at = "parse",
         NEW w \in WalkFrames, NEW p \in ParseFrames, w.text = p.text,
         Length[p.text] < Length[s[Len(s)].text],
         NEW n \in Nat, n = Len(s), NEW r \in Seq(Frames), Len(r) = n + 2,
         r[n + 1] = w, r[n + 2] = p, \A i \in 1..n : r[i] = s[i]
  PROVE  Stack(r)
<1>1. s \in Seq(Frames) /\ n \in 1..n
  BY DEF Stack
<1>2. w.at = "walk" /\ p.at = "parse" /\ p.text \in Texts
  BY WalkFacts, ParseFacts
<1>3. (n + 1) % 2 = 0 /\ (n + 2) % 2 = 1
  BY <1>1, Parity DEF Stack, Alternating
<1>4. \A i \in 1..(n + 2) : i \in 1..n \/ i = n + 1 \/ i = n + 2
  OBVIOUS
<1>5. Alternating(r)
  BY <1>2, <1>3, <1>4 DEF Stack, Alternating
<1>6. \A i \in 1..n : s[i].at = "parse" => Length[p.text] < Length[s[i].text]
  <2> TAKE i \in 1..n
  <2> HAVE s[i].at = "parse"
  <2>1. s[i].text \in Texts /\ s[n].text \in Texts
    BY <1>1, FrameFacts
  <2>2. i = n \/ Length[s[n].text] < Length[s[i].text]
    BY <1>1 DEF Stack, Shrinking
  <2>3. Length[s[n].text] \in Nat /\ Length[s[i].text] \in Nat /\ Length[p.text] \in Nat
    BY <1>2, <2>1, LengthAssumption
  <2> QED
    BY <2>2, <2>3
<1>7. Shrinking(r)
  <2> SUFFICES ASSUME NEW i \in 1..(n + 2), NEW j \in 1..(n + 2), i < j,
                      r[i].at = "parse"
               PROVE  Length[r[j].text] < Length[r[i].text]
    BY DEF Shrinking
  <2>1. i \in 1..n
    BY <1>2, <1>4
  <2>2. CASE j \in 1..n
    BY <2>1, <2>2 DEF Stack, Shrinking
  <2>3. CASE j \notin 1..n
    <3>1. r[j].text = p.text
      BY <1>4, <2>3
    <3> QED
      BY <1>6, <2>1, <3>1
  <2> QED
    BY <2>2, <2>3
<1> QED
  BY <1>5, <1>7 DEF Stack

-----------------------------------------------------------------------------
(* What each kind of step does to the calls: those it leaves in progress   *)
(* keep their text and whether it was cached, and a new one looks it up.   *)
Inherits ==
  \A i \in 1..Len(frames') :
    frames'[i].at = "parse" =>
      \/ /\ i \in 1..Len(frames) /\ frames[i].at = "parse"
         /\ frames'[i].text = frames[i].text /\ frames'[i].hit = frames[i].hit
      \/ frames'[i].hit = Cached(frames'[i].text)

LEMMA TopFacts ==
  ASSUME Stack(frames), frames # <<>>
  PROVE  /\ Len(frames) \in Nat \ {0} /\ Top \in Frames
         /\ \A i \in 1..Len(frames) : frames[i] \in Frames
         /\ frames[1] \in ParseFrames
         /\ Running("parse") => Top \in ParseFrames /\ Len(frames) % 2 = 1
         /\ Running("walk") => /\ Top \in WalkFrames /\ Len(frames) >= 2
                               /\ Len(frames) % 2 = 0
                               /\ frames[Len(frames) - 1] \in ParseFrames
<1>1. /\ Len(frames) \in Nat \ {0} /\ Len(frames) \in 1..Len(frames)
      /\ 1 \in 1..Len(frames)
      /\ \A i \in 1..Len(frames) : frames[i] \in Frames
  BY DEF Stack
<1>2. Top \in Frames
  BY <1>1 DEF Top
<1>3. \A i \in 1..Len(frames) : (frames[i].at = "parse") = (i % 2 = 1)
  BY DEF Stack, Alternating
<1>4. frames[1] \in ParseFrames
  BY <1>1, <1>3, FrameFacts
<1>5. Running("parse") => Top \in ParseFrames /\ Len(frames) % 2 = 1
  BY <1>1, <1>2, <1>3, FrameFacts DEF Running, Top
<1>6. ASSUME Running("walk")
      PROVE  /\ Top \in WalkFrames /\ Len(frames) >= 2 /\ Len(frames) % 2 = 0
             /\ frames[Len(frames) - 1] \in ParseFrames
  <2>1. Top \in WalkFrames /\ Top.at # "parse"
    BY <1>2, <1>6, FrameFacts DEF Running
  <2>2. Len(frames) % 2 # 1
    BY <1>1, <1>3, <2>1 DEF Top
  <2>3. Len(frames) % 2 = 0 /\ Len(frames) >= 2 /\ (Len(frames) - 1) % 2 = 1
        /\ Len(frames) - 1 \in 1..Len(frames)
    BY <1>1, <2>2
  <2>4. frames[Len(frames) - 1] \in ParseFrames
    BY <1>1, <1>3, <2>3, FrameFacts
  <2> QED
    BY <2>1, <2>3, <2>4
<1> QED
  BY <1>1, <1>2, <1>4, <1>5, <1>6

LEMMA StartFrames ==
  ASSUME task.texts[step] \in Texts, StartText
  PROVE  /\ Stack(frames') /\ Inherits /\ Len(frames') = 1
         /\ frames' # <<>> /\ frames'[1].text = task.texts[step] /\ frames'[1].next = 1
<1> DEFINE p == Parse(task.texts[step])
<1>1. p \in ParseFrames /\ p.text = task.texts[step] /\ p.next = 1 /\ p.hit = Cached(p.text)
  BY DEF Parse, ParseFrames, Cached
<1>2. frames' = <<p>>
  BY DEF StartText
<1> HIDE DEF p
<1>3. Len(<<p>>) = 1 /\ <<p>>[1] = p /\ <<p>> # <<>>
  OBVIOUS
<1> QED
  BY <1>1, <1>2, <1>3, StackStart DEF Inherits

LEMMA EmptyFrames ==
  ASSUME frames' = <<>>
  PROVE  Stack(frames') /\ Inherits
BY StackStart DEF Inherits

LEMMA SameFrames ==
  ASSUME Stack(frames), frames' = frames
  PROVE  Stack(frames') /\ Inherits
BY DEF Inherits

(* One frame is changed, and becomes the top.                              *)
LEMMA ChangeFrame ==
  ASSUME Stack(frames), NEW m \in 1..Len(frames), NEW f \in Frames,
         f.at = frames[m].at, f.text = frames[m].text,
         f.at = "parse" => f.hit = frames[m].hit,
         frames' = Append(SubSeq(frames, 1, m - 1), f)
  PROVE  /\ Stack(frames') /\ Inherits /\ Len(frames') = m /\ frames'[m] = f
         /\ \A i \in 1..(m - 1) : frames'[i] = frames[i]
<1>1. /\ Stack(frames') /\ Len(frames') = m /\ frames'[m] = f
      /\ \A i \in 1..(m - 1) : frames'[i] = frames[i]
  BY StackChange
<1>2. Len(frames) \in Nat /\ m \in Nat /\ m <= Len(frames)
  BY DEF Stack
<1>3. \A i \in 1..m : i \in 1..Len(frames) /\ (i = m \/ i \in 1..(m - 1))
  BY <1>2
<1> QED
  BY <1>1, <1>3 DEF Inherits

LEMMA NextFrame ==
  ASSUME Stack(frames), NEW m \in 1..Len(frames), frames[m] \in ParseFrames,
         frames' = Append(SubSeq(frames, 1, m - 1),
                          [frames[m] EXCEPT !.next = @ + 1])
  PROVE  /\ Stack(frames') /\ Inherits /\ Len(frames') = m
         /\ frames'[m].text = frames[m].text
         /\ frames'[m].next = frames[m].next + 1
         /\ \A i \in 1..(m - 1) : frames'[i] = frames[i]
<1> DEFINE f == [frames[m] EXCEPT !.next = @ + 1]
<1>1. frames[m].next \in Nat \ {0} /\ frames[m].next + 1 \in Nat \ {0}
  BY ParseFacts
<1>2. /\ f \in ParseFrames /\ f.text = frames[m].text /\ f.hit = frames[m].hit
      /\ f.next = frames[m].next + 1
  BY <1>1, ParseFacts
<1>3. f.at = "parse" /\ frames[m].at = "parse" /\ f \in Frames
  BY <1>2, ParseFacts DEF Frames
<1> HIDE DEF f
<1>4. frames' = Append(SubSeq(frames, 1, m - 1), f)
  BY DEF f
<1> QED
  BY <1>2, <1>3, <1>4, ChangeFrame

LEMMA SkipFrames ==
  ASSUME Stack(frames), SkipOperand
  PROVE  /\ Stack(frames') /\ Inherits /\ Len(frames') = Len(frames)
         /\ frames'[Len(frames)].text = Top.text
         /\ frames'[Len(frames)].next = Top.next + 1
         /\ \A i \in 1..(Len(frames) - 1) : frames'[i] = frames[i]
<1>1. Top \in ParseFrames /\ Len(frames) \in 1..Len(frames)
  BY TopFacts DEF SkipOperand, Parsing, Running
<1>2. frames' = Append(SubSeq(frames, 1, Len(frames) - 1), [Top EXCEPT !.next = @ + 1])
  BY DEF SkipOperand, Below
<1> QED
  BY <1>1, <1>2, NextFrame DEF Top

LEMMA EndFrames ==
  ASSUME Stack(frames), EndCapture
  PROVE  /\ Stack(frames') /\ Inherits
         /\ Len(frames) >= 2 /\ Len(frames') = Len(frames) - 1
         /\ frames'[Len(frames) - 1].text = frames[Len(frames) - 1].text
         /\ frames'[Len(frames) - 1].next = frames[Len(frames) - 1].next + 1
         /\ \A i \in 1..(Len(frames) - 2) : frames'[i] = frames[i]
<1>1. /\ Len(frames) \in Nat /\ Len(frames) >= 2
      /\ frames[Len(frames) - 1] \in ParseFrames
  BY TopFacts DEF EndCapture, Running
<1>2. Len(frames) - 1 \in 1..Len(frames) /\ Len(frames) - 1 - 1 = Len(frames) - 2
  BY <1>1
<1>3. frames' = Append(SubSeq(frames, 1, Len(frames) - 1 - 1),
                       [frames[Len(frames) - 1] EXCEPT !.next = @ + 1])
  BY <1>2 DEF EndCapture
<1> HIDE DEF EndCapture
<1> QED
  BY <1>1, <1>2, <1>3, NextFrame

(* A step of a walk, which is never the outermost call.                    *)
LEMMA WalkStep ==
  ASSUME Stack(frames), Running("walk"),
         NEW f \in WalkFrames, f.text = Top.text, frames' = Append(Below, f)
  PROVE  /\ Stack(frames') /\ Inherits
         /\ Len(frames') = Len(frames) /\ Len(frames) >= 2
         /\ frames'[1] = frames[1]
<1>1. /\ Len(frames) \in Nat /\ Len(frames) >= 2 /\ Top \in WalkFrames
      /\ f.at = "walk" /\ Top.at = "walk" /\ f \in Frames
  BY TopFacts, WalkFacts DEF Running, Frames
<1>2. Len(frames) \in 1..Len(frames) /\ 1 \in 1..(Len(frames) - 1)
  BY <1>1
<1>3. /\ Stack(frames') /\ Inherits /\ Len(frames') = Len(frames)
      /\ \A i \in 1..(Len(frames) - 1) : frames'[i] = frames[i]
  BY <1>1, <1>2, ChangeFrame DEF Top, Below
<1> QED
  BY <1>1, <1>2, <1>3

LEMMA StopFrames ==
  ASSUME Stack(frames), Stop
  PROVE  /\ Stack(frames') /\ Inherits
         /\ Len(frames') = Len(frames) /\ Len(frames) >= 2
         /\ frames'[1] = frames[1]
<1>1. Running("walk") /\ frames' = Append(Below, [Top EXCEPT !.done = TRUE])
  BY DEF Stop, Stops, Walking
<1>2. Top \in WalkFrames
  BY <1>1, TopFacts DEF Running
<1>3. [Top EXCEPT !.done = TRUE] \in WalkFrames /\ [Top EXCEPT !.done = TRUE].text = Top.text
  BY <1>2 DEF WalkFrames
<1> QED
  BY <1>1, <1>3, WalkStep

LEMMA RunFrames ==
  ASSUME Stack(frames), NEW rc \in Rcs, NEW time, NEW size \in 0..1, Run(rc, time, size)
  PROVE  /\ Stack(frames') /\ Inherits
         /\ Len(frames') = Len(frames) /\ Len(frames) >= 2
         /\ frames'[1] = frames[1]
<1> DEFINE full == Top.out + size > MaxOutput
           f == [Top EXCEPT !.pos = @ + 1, !.rc = rc, !.ran = TRUE,
                            !.out = IF full THEN MaxOutput ELSE @ + size,
                            !.done = full]
<1>1. Running("walk") /\ frames' = Append(Below, f)
  BY DEF Run, Walking
<1>2. Top \in WalkFrames
  BY <1>1, TopFacts DEF Running
<1>3. Top.pos + 1 \in Nat \ {0}
      /\ (IF full THEN MaxOutput ELSE Top.out + size) \in 0..MaxOutput
      /\ full \in BOOLEAN
  BY <1>2, WalkFacts, BoundAssumption
<1>4. f \in WalkFrames /\ f.text = Top.text
  <2> HIDE DEF full
  <2> QED
    BY <1>2, <1>3 DEF WalkFrames
<1> HIDE DEF f
<1> QED
  BY <1>1, <1>4, WalkStep

LEMMA ElementOf ==
  ASSUME NEW E, NEW s \in Seq(E), NEW i \in 1..Len(s)
  PROVE  s[i] \in E
OBVIOUS

LEMMA SubFacts ==
  ASSUME Stack(frames), Parsing
  PROVE  /\ Sub.src \in Texts /\ Length[Sub.src] < Length[Top.text]
         /\ Top \in ParseFrames /\ Top.text \in Texts /\ Top.next \in 1..Len(Subs(Top.text))
<1>1. Top \in ParseFrames
  BY TopFacts DEF Parsing, Running
<1>2. Top.text \in Texts /\ Top.next \in Nat \ {0}
  BY <1>1, ParseFacts
<1>3. Subs(Top.text) \in Seq([src : Texts, kind : Kinds])
  BY <1>2, ProgAssumption DEF Subs
<1>4. Top.next \in 1..Len(Subs(Top.text))
  BY <1>2, <1>3 DEF Parsing
<1>5. Sub \in [src : Texts, kind : Kinds]
  BY <1>3, <1>4, ElementOf DEF Sub
<1> QED
  BY <1>1, <1>2, <1>4, <1>5, LengthAssumption DEF Sub

LEMMA PushFrames ==
  ASSUME Stack(frames), frames # <<>>, Top.at = "parse",
         NEW w \in WalkFrames, NEW p \in ParseFrames, w.text = p.text,
         p.hit = Cached(p.text), Length[p.text] < Length[Top.text],
         frames' = frames \o <<w, p>>
  PROVE  /\ Stack(frames') /\ Inherits /\ Len(frames') = Len(frames) + 2
         /\ \A i \in 1..Len(frames) : frames'[i] = frames[i]
<1> DEFINE n == Len(frames)
<1>1. frames[n].at = "parse" /\ Length[p.text] < Length[frames[n].text]
  BY DEF Top
<1>2. frames \in Seq(Frames) /\ n \in Nat /\ <<w, p>> \in Seq(Frames)
  BY DEF Stack, Frames
<1>3. /\ frames' \in Seq(Frames) /\ Len(frames') = n + 2
      /\ frames'[n + 1] = w /\ frames'[n + 2] = p
      /\ \A i \in 1..n : frames'[i] = frames[i]
  BY <1>2
<1>4. \A i \in 1..(n + 2) : i \in 1..n \/ i = n + 1 \/ i = n + 2
  BY <1>2
<1>5. w.at = "walk"
  BY WalkFacts
<1>6. PICK r : r = frames'
  OBVIOUS
<1>7. Stack(r)
  BY <1>1, <1>2, <1>3, <1>6, StackPush
<1> HIDE DEF n
<1>8. Inherits
  BY <1>3, <1>4, <1>5 DEF Inherits, n
<1> QED
  BY <1>3, <1>6, <1>7, <1>8 DEF n

LEMMA CaptureFrames ==
  ASSUME Stack(frames), Capture
  PROVE  /\ Stack(frames') /\ Inherits /\ Len(frames') = Len(frames) + 2
         /\ \A i \in 1..Len(frames) : frames'[i] = frames[i]
<1> DEFINE w == Walk(Sub.src)
           p == Parse(Sub.src)
<1>1. Sub.src \in Texts /\ Length[Sub.src] < Length[Top.text] /\ Top.at = "parse"
      /\ frames # <<>>
  BY SubFacts DEF Capture, Parsing, Running
<1>2. p \in ParseFrames /\ p.text = Sub.src /\ p.hit = Cached(p.text)
  BY <1>1 DEF Parse, ParseFrames, Cached
<1>3. w \in WalkFrames /\ w.text = Sub.src
  BY <1>1, BoundAssumption DEF Walk, WalkFrames
<1>4. frames' = frames \o <<w, p>>
  BY DEF Capture
<1> HIDE DEF w, p
<1> QED
  BY <1>1, <1>2, <1>3, <1>4, PushFrames

(* The value of a text that is not the outermost goes to the walk below.   *)
LEMMA ReturnFrames ==
  ASSUME Stack(frames), Parsed, ~Outermost, frames' = Below
  PROVE  /\ Stack(frames') /\ Inherits
         /\ Len(frames) >= 3 /\ Len(frames') = Len(frames) - 1
         /\ \A i \in 1..(Len(frames) - 1) : frames'[i] = frames[i]
<1>1. Len(frames) \in Nat \ {0} /\ Len(frames) % 2 = 1
  BY TopFacts DEF Parsed, Running
<1>2. Len(frames) >= 3
  BY <1>1 DEF Outermost
<1>3. Len(frames) - 1 \in 0..Len(frames)
  BY <1>1
<1>4. /\ Stack(frames') /\ Len(frames') = Len(frames) - 1
      /\ \A i \in 1..(Len(frames) - 1) : frames'[i] = frames[i]
  BY <1>3, StackPop DEF Below
<1>5. \A i \in 1..(Len(frames) - 1) : i \in 1..Len(frames)
  BY <1>1
<1> QED
  BY <1>2, <1>4, <1>5 DEF Inherits

-----------------------------------------------------------------------------
(* What is asked for, and the outermost call it is at.                     *)
Asked ==
  /\ task \in Tasks \cup {NoTask}
  /\ task = NoTask => step = 1 /\ frames = <<>>
  /\ task # NoTask => step \in 1..Len(task.texts)
  /\ frames # <<>> => frames[1].text = task.texts[step]

Deep == frames # <<>> => Depth < MaxDepth \/ Outermost

Limited ==
  /\ own <= MaxCount /\ taken \in Nat
  /\ result \in {"none", "ok", "error", "KeyError"}

Typed == Stack(frames) /\ Asked /\ Deep /\ Limited /\ Counters

LEMMA TaskFacts ==
  ASSUME NEW t \in Tasks
  PROVE  /\ t # NoTask /\ t.kind \in TaskKinds /\ t.depth \in Nat
         /\ t.texts \in Seq(Texts) /\ Len(t.texts) \in Nat \ {0}
         /\ \A i \in 1..Len(t.texts) : t.texts[i] \in Texts
<1> DEFINE E == Texts
           T == Seq(E) \ {<<>>}
<1>1. t \in [kind : TaskKinds, texts : T, depth : Nat] /\ t # NoTask
  BY TaskAssumption
<1> HIDE DEF T
<1>2. t.kind \in TaskKinds /\ t.texts \in T /\ t.depth \in Nat
  BY <1>1
<1>3. t.texts \in Seq(E) /\ t.texts # <<>>
  BY <1>2 DEF T
<1> QED
  BY <1>1, <1>2, <1>3, ElementOf

(* The task and its text stay while a call goes on.                        *)
LEMMA GoesOn ==
  ASSUME Typed, UNCHANGED <<task, step>>, frames # <<>>, frames' # <<>>,
         frames'[1].text = frames[1].text
  PROVE  Asked'
BY DEF Typed, Asked

LEMMA Halves ==
  ASSUME NEW n \in Nat \ {0}
  PROVE  /\ (n + 2 - 1) \div 2 = (n - 1) \div 2 + 1
         /\ (n - 1) \div 2 \in Nat
         /\ n >= 2 => (n - 1 - 1) \div 2 <= (n - 1) \div 2
OBVIOUS

LEMMA DepthFacts ==
  ASSUME Typed, frames # <<>>
  PROVE  /\ Depth \in Nat /\ Depth = task.depth + (Len(frames) - 1) \div 2
         /\ task \in Tasks /\ task.depth \in Nat /\ Len(frames) \in Nat \ {0}
<1>1. task \in Tasks /\ Len(frames) \in Nat \ {0}
  BY TopFacts DEF Typed, Asked
<1> QED
  BY <1>1, TaskFacts, Halves DEF Depth

LEMMA NoDeeper ==
  ASSUME Typed, UNCHANGED task, frames # <<>>, frames' # <<>>,
         \/ Len(frames') = Len(frames)
         \/ Len(frames') = Len(frames) - 1 /\ Len(frames) >= 2
  PROVE  Deep'
<1>1. /\ Depth \in Nat /\ Depth = task.depth + (Len(frames) - 1) \div 2
      /\ task.depth \in Nat /\ Len(frames) \in Nat \ {0}
  BY DepthFacts
<1>2. PICK n \in Nat \ {0} : n = Len(frames)
  BY <1>1
<1>3. PICK m \in Nat : m = Len(frames')
  BY <1>1
<1>4. (m - 1) \div 2 \in Int /\ (m - 1) \div 2 <= (n - 1) \div 2 /\ (n = 1 => m = 1)
      /\ (n - 1) \div 2 \in Nat
  BY <1>2, <1>3, Halves
<1>5. Depth' = task.depth + (m - 1) \div 2
  BY <1>3 DEF Depth
<1>6. Depth' <= Depth /\ Depth' \in Int /\ (Outermost => Outermost')
  BY <1>1, <1>2, <1>3, <1>4, <1>5 DEF Outermost
<1> QED
  BY <1>1, <1>6, BoundAssumption DEF Typed, Deep

LEMMA AtOutermost ==
  ASSUME frames' = <<>> \/ Len(frames') = 1
  PROVE  Deep'
BY DEF Deep, Outermost

LEMMA EndedAsks ==
  ASSUME Typed, frames # <<>>, NEW ok \in BOOLEAN, Ended(ok)
  PROVE  /\ Asked' /\ frames' = <<>>
         /\ task' # NoTask => task' = task /\ step' = step + 1 /\ step' \in Nat
<1>1. task \in Tasks /\ step \in 1..Len(task.texts) /\ Len(task.texts) \in Nat \ {0}
  BY TaskFacts DEF Typed, Asked
<1>2. \/ task' = NoTask /\ step' = 1
      \/ task' = task /\ step' = step + 1 /\ step # Len(task.texts)
  BY DEF Ended
<1>3. frames' = <<>>
  BY DEF Ended
<1>4. task # NoTask
  BY <1>1, TaskFacts
<1>5. step \in Nat /\ step + 1 \in Nat
      /\ (step # Len(task.texts) => step + 1 \in 1..Len(task.texts))
  BY <1>1
<1> QED
  BY <1>1, <1>2, <1>3, <1>4, <1>5 DEF Asked

LEMMA RaiseTyped ==
  ASSUME Typed, frames # <<>>, Raise
  PROVE  (Stack(frames) /\ Asked /\ Deep /\ Limited)'
<1>1. Asked' /\ frames' = <<>>
  BY EndedAsks DEF Raise
<1>2. Limited'
  BY BoundAssumption DEF Typed, Limited, Raise, NoLimits
<1>3. Stack(frames')
  BY <1>1, EmptyFrames
<1> QED
  BY <1>1, <1>2, <1>3, AtOutermost DEF Stack, Alternating, Shrinking

LEMMA EvictedTyped ==
  ASSUME Typed, Evicted
  PROVE  (Stack(frames) /\ Asked /\ Deep /\ Limited)'
<1>1. frames' = <<>> /\ task' = NoTask /\ step' = 1 /\ result' = "KeyError"
      /\ own' = 0 /\ taken' = taken
  BY DEF Evicted, NoLimits
<1>2. Asked'
  BY <1>1 DEF Asked
<1>3. Limited'
  BY <1>1, BoundAssumption DEF Typed, Limited
<1>4. Stack(frames')
  BY <1>1, EmptyFrames
<1> QED
  BY <1>1, <1>2, <1>3, <1>4, AtOutermost DEF Stack, Alternating, Shrinking

LEMMA StartTaskTyped ==
  ASSUME Typed, NEW t \in Tasks, StartTask(t)
  PROVE  (Stack(frames) /\ Asked /\ Deep /\ Limited)'
<1>1. /\ frames = <<>> /\ frames' = <<>> /\ task' = t /\ step' = 1 /\ result' = "none"
      /\ taken' = 0 /\ own' = own
  BY DEF StartTask, Typed, Asked, limits
<1>2. 1 \in 1..Len(t.texts) /\ t # NoTask
  BY TaskFacts
<1>3. Asked'
  BY <1>1, <1>2 DEF Asked
<1>4. Limited'
  BY <1>1 DEF Typed, Limited
<1>5. Stack(frames')
  BY <1>1, EmptyFrames
<1> QED
  BY <1>1, <1>3, <1>4, <1>5, AtOutermost DEF Stack, Alternating, Shrinking

LEMMA StartTextTyped ==
  ASSUME Typed, StartText
  PROVE  (Stack(frames) /\ Asked /\ Deep /\ Limited)'
<1>1. task \in Tasks /\ step \in 1..Len(task.texts) /\ UNCHANGED <<task, step>>
  BY DEF StartText, Typed, Asked
<1>2. task # NoTask /\ task.texts[step] \in Texts
  BY <1>1, TaskFacts
<1>3. Stack(frames') /\ Len(frames') = 1 /\ frames' # <<>>
      /\ frames'[1].text = task.texts[step]
  BY <1>2, StartFrames
<1>4. Asked'
  BY <1>1, <1>2, <1>3 DEF Asked
<1>5. Limited'
  BY DEF Typed, Limited, StartText, limits
<1> QED
  BY <1>3, <1>4, <1>5, AtOutermost DEF Stack, Alternating, Shrinking

LEMMA Positions ==
  ASSUME NEW n \in Nat \ {0}
  PROVE  /\ 1 \in 1..(n - 1) \/ n = 1
         /\ n >= 2 => 1 \in 1..(n - 2) \/ n - 1 = 1
OBVIOUS

(* The steps that leave a call in progress.                                *)
LEMMA OnFirst ==
  ASSUME Stack(frames), frames # <<>>,
         \/ SkipOperand \/ Stop \/ Capture \/ EndCapture
         \/ Parsed /\ ~Outermost /\ frames' = Below
         \/ \E rc \in Rcs, time \in 0..(Timeout + 1), size \in 0..1 : Run(rc, time, size)
  PROVE  /\ Stack(frames') /\ Inherits /\ frames' # <<>>
         /\ frames'[1].text = frames[1].text
         /\ \/ Len(frames') = Len(frames)
            \/ Len(frames') = Len(frames) - 1 /\ Len(frames) >= 2
            \/ Len(frames') = Len(frames) + 2 /\ Capture
<1>1. Len(frames) \in Nat \ {0}
  BY TopFacts
<1>2. \A r \in {frames'} : r = <<>> => Len(r) = 0
  OBVIOUS
<1>3. CASE SkipOperand
  <2>1. 1 \in 1..(Len(frames) - 1) \/ Len(frames) = 1
    BY <1>1, Positions
  <2> QED
    BY <1>1, <1>2, <1>3, <2>1, SkipFrames DEF Top
<1>4. CASE Stop
  BY <1>1, <1>2, <1>4, StopFrames
<1>5. CASE Capture
  <2>1. 1 \in 1..Len(frames)
    BY <1>1
  <2> QED
    BY <1>1, <1>2, <1>5, <2>1, CaptureFrames
<1>6. CASE EndCapture
  <2>1. Len(frames) >= 2
    BY <1>6, EndFrames
  <2>2. 1 \in 1..(Len(frames) - 2) \/ Len(frames) - 1 = 1
    BY <1>1, <2>1, Positions
  <2>3. frames'[1].text = frames[1].text
    BY <1>6, <2>2, EndFrames
  <2> QED
    BY <1>1, <1>2, <1>6, <2>3, EndFrames
<1>7. CASE Parsed /\ ~Outermost /\ frames' = Below
  <2>1. Len(frames) >= 3
    BY <1>7, ReturnFrames
  <2>2. 1 \in 1..(Len(frames) - 1)
    BY <1>1, <2>1
  <2> QED
    BY <1>1, <1>2, <1>7, <2>1, <2>2, ReturnFrames
<1>8. CASE \E rc \in Rcs, time \in 0..(Timeout + 1), size \in 0..1 : Run(rc, time, size)
  <2>1. PICK rc \in Rcs, time \in 0..(Timeout + 1), size \in 0..1 : Run(rc, time, size)
    BY <1>8
  <2> QED
    BY <1>1, <1>2, <2>1, RunFrames
<1> QED
  BY <1>3, <1>4, <1>5, <1>6, <1>7, <1>8

LEMMA CaptureTyped ==
  ASSUME Typed, Capture
  PROVE  (Asked /\ Deep /\ Limited)'
<1>1. Stack(frames) /\ frames # <<>> /\ UNCHANGED <<task, step, result>>
  BY DEF Capture, Typed, Parsing, Running
<1>2. frames' # <<>> /\ frames'[1].text = frames[1].text /\ Len(frames') = Len(frames) + 2
  BY <1>1, OnFirst, CaptureFrames
<1>3. Asked'
  BY <1>1, <1>2, GoesOn
<1>4. Deep'
  <2>1. /\ Depth \in Nat /\ Depth = task.depth + (Len(frames) - 1) \div 2
        /\ task.depth \in Nat /\ Len(frames) \in Nat \ {0}
    BY <1>1, DepthFacts
  <2>2. (Len(frames) + 2 - 1) \div 2 = (Len(frames) - 1) \div 2 + 1
        /\ (Len(frames) - 1) \div 2 \in Nat
    BY <2>1, Halves
  <2>3. Depth' = task.depth + (Len(frames) + 2 - 1) \div 2
    BY <1>1, <1>2 DEF Depth
  <2>4. ~(Depth + 1 >= MaxDepth)
    BY DEF Capture, Refused
  <2>5. Depth' = Depth + 1
    BY <2>1, <2>2, <2>3
  <2> QED
    BY <2>1, <2>4, <2>5, BoundAssumption DEF Deep
<1>5. Limited'
  <2>1. CASE Outermost
    <3>1. own' = own + ParserCount /\ taken' = taken + 1
      BY <2>1 DEF Capture, CountBefore
    <3>2. /\ ParserCount \in {0, 1}
          /\ ParserCount = 1 => ~(own + ParserCount > MaxCount)
      BY <2>1 DEF Capture, Refused, CountBefore, ParserCount
    <3> QED
      BY <1>1, <3>1, <3>2, BoundAssumption DEF Typed, Limited, Counters
  <2>2. CASE ~Outermost
    BY <1>1, <2>2 DEF Capture, Typed, Limited
  <2> QED
    BY <2>1, <2>2
<1> QED
  BY <1>3, <1>4, <1>5

LEMMA ParsedTyped ==
  ASSUME Typed, Store \/ Hit
  PROVE  (Stack(frames) /\ Asked /\ Deep /\ Limited)'
<1>1. /\ Stack(frames) /\ frames # <<>> /\ Parsed /\ Return /\ result' = "ok"
      /\ taken' = taken
  BY DEF Store, Hit, Typed, Parsed, Running
<1>2. CASE Outermost
  <2>1. Ended(TRUE) /\ own' = 0
    BY <1>1, <1>2 DEF Return, NoLimits
  <2>2. Asked' /\ frames' = <<>>
    BY <1>1, <2>1, EndedAsks
  <2>3. Limited'
    BY <1>1, <2>1, BoundAssumption DEF Typed, Limited
  <2>4. Stack(frames')
    BY <2>2, EmptyFrames
  <2> QED
    BY <2>2, <2>3, <2>4, AtOutermost DEF Stack, Alternating, Shrinking
<1>3. CASE ~Outermost
  <2>1. frames' = Below /\ UNCHANGED <<task, step, limits>>
    BY <1>1, <1>3 DEF Return
  <2>2. /\ Stack(frames') /\ frames' # <<>> /\ frames'[1].text = frames[1].text
        /\ Len(frames') = Len(frames) - 1 /\ Len(frames) >= 2
    <3>1. Len(frames') = Len(frames) - 1 /\ Len(frames) >= 3 /\ Len(frames) \in Nat
      BY <1>1, <1>3, <2>1, ReturnFrames, TopFacts
    <3> QED
      BY <1>1, <1>3, <2>1, <3>1, OnFirst
  <2>3. Asked' /\ Deep'
    BY <1>1, <2>1, <2>2, GoesOn, NoDeeper
  <2>4. Limited'
    BY <1>1, <2>1 DEF Typed, Limited, limits
  <2> QED
    BY <2>2, <2>3, <2>4 DEF Stack, Alternating, Shrinking
<1> QED
  BY <1>2, <1>3

LEMMA GoingOnTyped ==
  ASSUME Typed,
         \/ SkipOperand \/ Stop \/ EndCapture
         \/ \E rc \in Rcs, time \in 0..(Timeout + 1), size \in 0..1 : Run(rc, time, size)
  PROVE  (Asked /\ Deep /\ Limited)'
<1>1. Stack(frames) /\ frames # <<>> /\ UNCHANGED <<task, step, result, taken, own>>
  BY DEF SkipOperand, Stop, Stops, Run, EndCapture, Typed, Parsing, Walking, Running, limits
<1>2. /\ frames' # <<>> /\ frames'[1].text = frames[1].text
      /\ \/ Len(frames') = Len(frames)
         \/ Len(frames') = Len(frames) - 1 /\ Len(frames) >= 2
  <2>1. CASE SkipOperand
    BY <1>1, <2>1, OnFirst, SkipFrames
  <2>2. CASE Stop
    BY <1>1, <2>2, OnFirst, StopFrames
  <2>3. CASE EndCapture
    BY <1>1, <2>3, OnFirst, EndFrames
  <2>4. CASE \E rc \in Rcs, time \in 0..(Timeout + 1), size \in 0..1 : Run(rc, time, size)
    BY <1>1, <2>4, OnFirst, RunFrames
  <2> QED
    BY <2>1, <2>2, <2>3, <2>4
<1>3. Asked' /\ Deep'
  BY <1>1, <1>2, GoesOn, NoDeeper
<1>4. Limited'
  BY <1>1 DEF Typed, Limited
<1> QED
  BY <1>3, <1>4

LEMMA StacksStay ==
  ASSUME Typed, [Next]_vars
  PROVE  Stack(frames') /\ Inherits
<1>1. Stack(frames)
  BY DEF Typed
<1>2. CASE UNCHANGED vars
  BY <1>1, <1>2, SameFrames DEF vars
<1>3. CASE \E t \in Tasks : StartTask(t)
  BY <1>1, <1>3, SameFrames DEF StartTask
<1>4. CASE StartText
  <2>1. task.texts[step] \in Texts
    BY <1>4, TaskFacts DEF StartText, Typed, Asked
  <2> QED
    BY <1>4, <2>1, StartFrames
<1>5. CASE Refuse \/ Misbuilt \/ RejectBackground \/ Evicted
  <2>1. frames' = <<>>
    BY <1>5 DEF Refuse, Misbuilt, RejectBackground, Evicted, Raise, Ended
  <2> QED
    BY <2>1, EmptyFrames
<1>6. CASE SkipOperand \/ Stop \/ Capture \/ EndCapture
  <2>1. frames # <<>>
    BY <1>6 DEF SkipOperand, Stop, Stops, Capture, EndCapture, Parsing, Walking, Running
  <2> QED
    BY <1>1, <1>6, <2>1, OnFirst
<1>7. CASE \E rc \in Rcs, time \in 0..(Timeout + 1), size \in 0..1 : Run(rc, time, size)
  <2>1. frames # <<>>
    BY <1>7 DEF Run, Walking, Running
  <2> QED
    BY <1>1, <1>7, <2>1, OnFirst
<1>8. CASE Store \/ Hit
  <2>1. frames # <<>> /\ Parsed /\ Return
    BY <1>8 DEF Store, Hit, Parsed, Running
  <2>2. frames' = <<>> \/ (~Outermost /\ frames' = Below)
    BY <2>1 DEF Return, Ended
  <2> QED
    BY <1>1, <2>1, <2>2, EmptyFrames, OnFirst
<1> QED
  BY <1>2, <1>3, <1>4, <1>5, <1>6, <1>7, <1>8 DEF Next, Serve

LEMMA StepKeepsTyped ==
  ASSUME Typed, [Next]_vars
  PROVE  Typed'
<1>1. Counters' /\ Stack(frames')
  BY StepKeepsCounters, StacksStay DEF Typed
<1>2. (Asked /\ Deep /\ Limited)'
  <2>1. CASE UNCHANGED vars
    BY <2>1 DEF vars, limits, Typed, Asked, Deep, Depth, Outermost, Limited
  <2>2. CASE \E t \in Tasks : StartTask(t)
    BY <2>2, StartTaskTyped
  <2>3. CASE StartText
    BY <2>3, StartTextTyped
  <2>4. CASE Refuse \/ Misbuilt \/ RejectBackground
    <3>1. frames # <<>> /\ Raise
      BY <2>4 DEF Refuse, Misbuilt, RejectBackground, Parsing, Parsed, Walking, Running
    <3> QED
      BY <3>1, RaiseTyped
  <2>5. CASE Evicted
    BY <2>5, EvictedTyped
  <2>6. CASE Capture
    BY <2>6, CaptureTyped
  <2>7. CASE \/ SkipOperand \/ Stop \/ EndCapture
             \/ \E rc \in Rcs, time \in 0..(Timeout + 1), size \in 0..1 : Run(rc, time, size)
    BY <2>7, GoingOnTyped
  <2>8. CASE Store \/ Hit
    BY <2>8, ParsedTyped
  <2> QED
    BY <2>1, <2>2, <2>3, <2>4, <2>5, <2>6, <2>7, <2>8 DEF Next, Serve
<1> QED
  BY <1>1, <1>2 DEF Typed, Stack, Alternating, Shrinking

LEMMA TypedHolds == Spec => []Typed
<1>1. Init => Typed
  <2> SUFFICES ASSUME Init PROVE Typed
    OBVIOUS
  <2>1. Stack(frames) /\ Counters
    BY StackStart, ZeroCounters DEF Init
  <2> QED
    BY <2>1, BoundAssumption DEF Init, Typed, Asked, Deep, Limited
<1>2. Typed /\ [Next]_vars => Typed'
  BY StepKeepsTyped
<1> QED
  BY <1>1, <1>2, PTL DEF Spec

-----------------------------------------------------------------------------
(* The cache: what is stored was not in it, although other texts have been *)
(* parsed since it was looked for, because those are all shorter.          *)
Misses ==
  \A i \in 1..Len(frames) :
    frames[i].at = "parse" /\ ~frames[i].hit => ~Cached(frames[i].text)

Recency ==
  /\ cache \in Seq(Texts) /\ Len(cache) <= CacheMax /\ CacheIsLRU
  /\ Misses

LEMMA AtEndFacts ==
  ASSUME NEW s \in Seq(Texts), NEW text \in Texts
  PROVE  /\ AtEnd(text, s) \in Seq(Texts)
         /\ \A i \in 1..Len(AtEnd(text, s)) :
              AtEnd(text, s)[i] = text \/ \E j \in 1..Len(s) : s[j] = AtEnd(text, s)[i]
         /\ (\E i \in 1..Len(s) : s[i] = text) => Len(AtEnd(text, s)) <= Len(s)
         /\ ~(\E i \in 1..Len(s) : s[i] = text) => AtEnd(text, s) = Append(s, text)
<1> DEFINE E == {s[i] : i \in 1..Len(s)}
           S == Texts \ {text}
           k == Keep(s, S)
<1>1. s \in Seq(E) /\ E \subseteq Texts /\ Len(s) \in Nat
  OBVIOUS
<1>2. \A e \in E : \E j \in 1..Len(s) : s[j] = e
  OBVIOUS
<1>3. \A i \in 1..Len(s) : s[i] \in S <=> s[i] # text
  OBVIOUS
<1> HIDE DEF E, S
<1>4. k \in Seq(E \cap S)
  BY <1>1, KeepType
<1>5. (\E i \in 1..Len(s) : s[i] = text) => Len(k) < Len(s)
  BY <1>1, <1>3, KeepShorter
<1>6. ~(\E i \in 1..Len(s) : s[i] = text) => k = s
  BY <1>1, <1>3, KeepAll
<1> DEFINE a == Append(k, text)
<1>7. AtEnd(text, s) = a
  BY DEF AtEnd, S
<1> HIDE DEF k
<1>8. /\ a \in Seq(Texts) /\ Len(a) = Len(k) + 1 /\ Len(k) \in Nat
      /\ \A i \in 1..Len(a) : a[i] = text \/ a[i] \in E
  BY <1>1, <1>4
<1> HIDE DEF a
<1>9. \A i \in 1..Len(a) : a[i] = text \/ \E j \in 1..Len(s) : s[j] = a[i]
  BY <1>2, <1>8
<1>10. ~(\E i \in 1..Len(s) : s[i] = text) => a = Append(s, text)
  BY <1>6 DEF a
<1> QED
  BY <1>1, <1>5, <1>7, <1>8, <1>9, <1>10

LEMMA LastTextsFacts ==
  ASSUME NEW s \in Seq(Texts), Len(s) <= CacheMax + 1
  PROVE  /\ LastTexts(s) \in Seq(Texts) /\ Len(LastTexts(s)) <= CacheMax
         /\ \A i \in 1..Len(LastTexts(s)) : \E j \in 1..Len(s) : s[j] = LastTexts(s)[i]
<1>1. CASE Len(s) > CacheMax
  <2>1. /\ Len(s) = CacheMax + 1 /\ CacheMax \in Nat /\ s # <<>> /\ Len(s) \in Nat
    BY <1>1, BoundAssumption
  <2>2. /\ Tail(s) \in Seq(Texts) /\ Len(Tail(s)) = Len(s) - 1
        /\ \A i \in 1..(Len(s) - 1) : Tail(s)[i] = s[i + 1]
    BY <2>1
  <2>3. \A i \in 1..(Len(s) - 1) : i + 1 \in 1..Len(s)
    BY <2>1
  <2> QED
    BY <1>1, <2>1, <2>2, <2>3 DEF LastTexts
<1>2. CASE ~(Len(s) > CacheMax)
  BY <1>2, BoundAssumption DEF LastTexts
<1> QED
  BY <1>1, <1>2

LEMMA MissesStay ==
  ASSUME Misses, Inherits, \A t : Cached(t)' => Cached(t)
  PROVE  Misses'
BY DEF Misses, Inherits

LEMMA StoreKeepsRecency ==
  ASSUME Typed, Recency, Store
  PROVE  Recency'
<1>1. /\ Stack(frames) /\ frames # <<>> /\ Running("parse") /\ Parsed /\ ~Top.hit /\ Return
  BY DEF Store, Typed, Parsed, Running
<1>2. Top \in ParseFrames /\ Top.text \in Texts /\ Len(frames) \in Nat \ {0}
      /\ Top.at = "parse"
  BY <1>1, TopFacts, ParseFacts DEF Running
<1>3. Len(frames) \in 1..Len(frames) /\ frames[Len(frames)] = Top
  BY <1>2 DEF Top
<1>4. ~Cached(Top.text)
  BY <1>1, <1>2, <1>3 DEF Recency, Misses
<1>5. PICK text \in Texts : text = Top.text
  BY <1>2
<1>6. PICK c \in Seq(Texts) : c = cache
  BY DEF Recency
<1>7. recent = c /\ Len(c) <= CacheMax /\ Len(c) \in Nat /\ ~(\E i \in 1..Len(c) : c[i] = text)
  BY <1>4, <1>5, <1>6 DEF Recency, CacheIsLRU, Cached
<1>8. AtEnd(text, c) = Append(c, text) /\ Append(c, text) \in Seq(Texts)
      /\ Len(Append(c, text)) = Len(c) + 1
      /\ \A i \in 1..Len(Append(c, text)) :
           Append(c, text)[i] = text \/ \E j \in 1..Len(c) : c[j] = Append(c, text)[i]
  <2>1. AtEnd(text, c) = Append(c, text)
    BY <1>7, AtEndFacts
  <2> QED
    BY <1>7, <2>1
<1>9. cache' = LastTexts(Append(c, text)) /\ recent' = LastTexts(AtEnd(text, c))
  BY <1>5, <1>6, <1>7 DEF Store
<1>10. Len(Append(c, text)) <= CacheMax + 1
  BY <1>7, <1>8, BoundAssumption
<1>11. /\ cache' \in Seq(Texts) /\ Len(cache') <= CacheMax /\ cache' = recent'
       /\ \A i \in 1..Len(cache') :
            \E j \in 1..Len(Append(c, text)) : Append(c, text)[j] = cache'[i]
  BY <1>8, <1>9, <1>10, LastTextsFacts
<1>12. \A t : Cached(t)' => Cached(t) \/ t = text
  BY <1>6, <1>8, <1>11 DEF Cached
<1>13. Misses'
  <2>1. CASE Outermost
    <3>1. frames' = <<>>
      BY <1>1, <2>1 DEF Return, Ended
    <3> QED
      BY <3>1 DEF Misses
  <2>2. CASE ~Outermost
    <3>1. frames' = Below
      BY <1>1, <2>2 DEF Return
    <3>2. /\ Len(frames') = Len(frames) - 1
          /\ \A i \in 1..(Len(frames) - 1) : frames'[i] = frames[i]
      BY <1>1, <2>2, <3>1, ReturnFrames
    <3>3. \A i \in 1..(Len(frames) - 1) :
            /\ i \in 1..Len(frames) /\ i < Len(frames)
            /\ frames[i] \in Frames
      BY <1>1, <1>2, TopFacts
    <3>4. \A i \in 1..(Len(frames) - 1) :
            frames[i].at = "parse" => Length[text] < Length[frames[i].text]
      BY <1>1, <1>3, <1>5, <3>3 DEF Stack, Shrinking
    <3>5. \A i \in 1..(Len(frames) - 1) : frames[i].at = "parse" => frames[i].text # text
      BY <3>4, LengthAssumption
    <3> QED
      BY <1>12, <3>2, <3>3, <3>5 DEF Misses, Recency
  <2> QED
    BY <2>1, <2>2
<1> QED
  BY <1>11, <1>13 DEF Recency, CacheIsLRU

LEMMA HitKeepsRecency ==
  ASSUME Typed, Recency, Inherits, Hit
  PROVE  Recency'
<1>1. Stack(frames) /\ frames # <<>> /\ Running("parse") /\ Cached(Top.text)
  BY DEF Hit, Typed, Parsed, Running
<1>2. Top.text \in Texts
  BY <1>1, TopFacts, ParseFacts
<1>3. PICK text \in Texts : text = Top.text
  BY <1>2
<1>4. PICK c \in Seq(Texts) : c = cache
  BY DEF Recency
<1>5. recent = c /\ Len(c) <= CacheMax /\ Len(c) \in Nat /\ \E i \in 1..Len(c) : c[i] = text
  BY <1>1, <1>3, <1>4 DEF Recency, CacheIsLRU, Cached
<1>6. PICK a \in Seq(Texts) : a = AtEnd(text, c)
  BY AtEndFacts
<1>7. /\ Len(a) <= Len(c) /\ Len(a) \in Nat
      /\ \A i \in 1..Len(a) : a[i] = text \/ \E j \in 1..Len(c) : c[j] = a[i]
  <2>1. \A i \in 1..Len(a) : a[i] = text \/ \E j \in 1..Len(c) : c[j] = a[i]
    BY <1>6, AtEndFacts
  <2>2. Len(a) <= Len(c)
    BY <1>5, <1>6, AtEndFacts
  <2> QED
    BY <2>1, <2>2
<1>8. cache' = a /\ recent' = LastTexts(a)
  BY <1>3, <1>4, <1>5, <1>6 DEF Hit
<1>9. Len(a) <= CacheMax /\ LastTexts(a) = a
  BY <1>5, <1>7, BoundAssumption DEF LastTexts
<1>10. \A t : Cached(t)' => Cached(t)
  BY <1>4, <1>5, <1>7, <1>8 DEF Cached
<1>11. Misses'
  BY <1>10, MissesStay DEF Recency
<1> QED
  BY <1>8, <1>9, <1>11 DEF Recency, CacheIsLRU

LEMMA StepKeepsRecency ==
  ASSUME Typed, Recency, [Next]_vars
  PROVE  Recency'
<1>1. Inherits
  BY StacksStay
<1>2. CASE UNCHANGED <<cache, recent>>
  <2>1. Misses'
    BY <1>1, <1>2, MissesStay DEF Recency, Cached
  <2> QED
    BY <1>2, <2>1 DEF Recency, CacheIsLRU
<1>3. CASE Store
  BY <1>3, StoreKeepsRecency
<1>4. CASE Hit
  BY <1>1, <1>4, HitKeepsRecency
<1>5. ASSUME ~Store, ~Hit PROVE UNCHANGED <<cache, recent>>
  BY <1>5 DEF vars, Next, Serve, StartTask, StartText, SkipOperand, Refuse, Capture,
     Misbuilt, Evicted, RejectBackground, Stop, EndCapture, Run, Raise
<1> QED
  BY <1>2, <1>3, <1>4, <1>5

LEMMA RecencyHolds == Spec => []Recency
<1>1. Init => Recency
  BY BoundAssumption DEF Init, Recency, Misses, CacheIsLRU
<1>2. Typed /\ Recency /\ [Next]_vars => Recency'
  BY StepKeepsRecency
<1> QED
  BY <1>1, <1>2, TypedHolds, PTL DEF Spec

(* Every state of the cache, the calls in progress, the counters and what  *)
(* is asked for has its type; parses and walks of $() alternate; and a $() *)
(* only runs below MAX_SUBST_DEPTH.                                        *)
THEOREM TypeCorrect == Spec => []TypeOK
<1>1. Typed /\ Recency => TypeOK
  <2> SUFFICES ASSUME Typed, Recency PROVE TypeOK
    OBVIOUS
  <2>1. cache \in Seq(Texts) /\ recent \in Seq(Texts)
    BY DEF Recency, CacheIsLRU
  <2>2. /\ frames \in Seq(ParseFrames \cup WalkFrames)
        /\ \A i \in 1..Len(frames) : (frames[i].at = "parse") = (i % 2 = 1)
    BY DEF Typed, Stack, Alternating, Frames
  <2>3. /\ frames # <<>> => task # NoTask /\ (Depth < MaxDepth \/ Outermost)
        /\ task \in Tasks \cup {NoTask}
        /\ task = NoTask => step = 1
        /\ task # NoTask => step \in 1..Len(task.texts)
    BY DEF Typed, Asked, Deep
  <2>4. /\ own \in 0..MaxCount /\ shared \in 0..MaxCount
        /\ left \in Int /\ begun \in Nat /\ late \in Nat /\ taken \in Nat
        /\ result \in {"none", "ok", "error", "KeyError"}
    BY BoundAssumption DEF Typed, Limited, Counters
  <2> QED
    BY <2>1, <2>2, <2>3, <2>4 DEF TypeOK
<1> QED
  BY <1>1, TypedHolds, RecencyHolds, PTL

(* parse_command's cache holds the texts that were parsed last in the      *)
(* order in which their parsing ended, although the parses of nested $()   *)
(* end in between: a text that was missed is still missing when it is      *)
(* stored.                                                                 *)
THEOREM CacheHoldsLastTexts == Spec => []CacheIsLRU
<1>1. Recency => CacheIsLRU
  BY DEF Recency
<1> QED
  BY <1>1, RecencyHolds, PTL

-----------------------------------------------------------------------------
(* How many of the $() of the text at hand have been run or passed over,   *)
(* and what has been run for the task so far.                              *)
Through ==
  IF frames = <<>> THEN 0 ELSE IF Outermost THEN frames[1].next - 1 ELSE frames[1].next

NeededOf(text, n) == Cardinality({i \in 1..n : Subs(text)[i].kind # "operand"})

TallyOf(t, n, through, count) ==
  /\ through <= Len(Subs(t.texts[n]))
  /\ t.kind = "call" => n = 1
  /\ n = 1 => count \in NeededOf(t.texts[1], through)..through
  /\ n > 1 => count <= Len(Subs(t.texts[1])) + SubsInParts(t.texts)[n - 2] + through

Retried(t, n) == t.kind = "words" /\ Len(t.texts) = 2 /\ n = 2

Tally ==
  task # NoTask =>
    /\ TallyOf(task, step, Through, taken)
    /\ Retried(task, step) /\ frames = <<>> => result = "error"

LEMMA SubsFacts ==
  ASSUME NEW text \in Texts
  PROVE  Len(Subs(text)) \in Nat
<1>1. Subs(text) \in Seq([src : Texts, kind : Kinds])
  BY ProgAssumption DEF Subs
<1> QED
  BY <1>1

(* The sum over the parts of a task, which its recursion defines.          *)
LEMMA PartsFacts ==
  ASSUME NEW texts \in Seq(Texts), texts # <<>>
  PROVE  LET sum == SubsInParts(texts)
             n == Len(texts) - 1
         IN /\ n \in Nat /\ \A k \in 0..n : sum[k] \in Nat
            /\ sum[0] = 0
            /\ \A k \in 1..n : sum[k] = sum[k - 1] + Len(Subs(texts[k + 1]))
<1> DEFINE n == Len(texts) - 1
           size == [k \in 1..n |-> Len(Subs(texts[k + 1]))]
           F == [k \in 1..n |-> [v \in Nat |-> v + size[k]]]
           Is(f) == f = [k \in 0..n |-> IF k = 0 THEN 0
                                        ELSE f[k - 1] + Len(Subs(texts[k + 1]))]
<1>1. n \in Nat /\ \A k \in 1..n : texts[k + 1] \in Texts
  OBVIOUS
<1>2. \A k \in 1..n : size[k] \in Nat /\ size[k] = Len(Subs(texts[k + 1]))
  BY <1>1, SubsFacts
<1> HIDE DEF n, size
<1>3. F \in StepFunctions(n, Nat)
  BY <1>2 DEF StepFunctions
<1>4. PICK f \in [0..n -> Nat] : Iterates(f, F, 0, n)
  BY <1>1, <1>3, Recursion
<1>5. /\ f[0] = 0
      /\ \A k \in 1..n : f[k] = F[k][f[k - 1]] /\ k - 1 \in 0..n /\ k \in 0..n
  BY <1>1, <1>4 DEF Iterates
<1>6. \A k \in 1..n : f[k] = f[k - 1] + Len(Subs(texts[k + 1]))
  BY <1>2, <1>4, <1>5
<1>7. Is(f)
  BY <1>1, <1>4, <1>5, <1>6
<1> DEFINE g == CHOOSE h : Is(h)
<1>8. Is(g)
  BY <1>7
<1>9. SubsInParts(texts) = g
  BY DEF SubsInParts, n
<1> HIDE DEF g
<1>10. \A k \in 0..n : g[k] = f[k]
  <2> DEFINE T == {k \in 0..n : g[k] = f[k]}
  <2>1. \A k \in 0..n : g[k] = IF k = 0 THEN 0 ELSE g[k - 1] + Len(Subs(texts[k + 1]))
    BY <1>8
  <2>2. 0 \in T
    BY <1>1, <1>5, <2>1
  <2>3. \A k \in 1..n : k - 1 \in T => k \in T
    BY <1>1, <1>5, <1>6, <2>1
  <2> HIDE DEF T
  <2>4. 0..n \subseteq T
    BY <1>1, <2>2, <2>3, Induction
  <2> QED
    BY <2>4 DEF T
<1>11. \A k \in 0..n : g[k] \in Nat
  BY <1>4, <1>10
<1>12. g[0] = 0 /\ \A k \in 1..n : g[k] = g[k - 1] + Len(Subs(texts[k + 1]))
  BY <1>1, <1>5, <1>6, <1>10
<1> QED
  BY <1>1, <1>9, <1>11, <1>12 DEF n

LEMMA PartsGrow ==
  ASSUME NEW texts \in Seq(Texts), texts # <<>>, NEW k \in 0..(Len(texts) - 1)
  PROVE  SubsInParts(texts)[k] <= SubsInParts(texts)[Len(texts) - 1]
<1> DEFINE n == Len(texts) - 1
           T == {m \in 0..n : SubsInParts(texts)[n - m] <= SubsInParts(texts)[n]}
<1>1. /\ n \in Nat /\ \A m \in 0..n : SubsInParts(texts)[m] \in Nat
      /\ \A m \in 1..n : SubsInParts(texts)[m]
                           = SubsInParts(texts)[m - 1] + Len(Subs(texts[m + 1]))
  BY PartsFacts
<1>2. \A m \in 1..n : Len(Subs(texts[m + 1])) \in Nat
  BY SubsFacts
<1> DEFINE sum == SubsInParts(texts)
<1> HIDE DEF n, sum
<1>3. \A m \in 1..n : m \in 0..n /\ m - 1 \in 0..n /\ sum[m - 1] <= sum[m]
  BY <1>1, <1>2 DEF sum
<1>4. 0 \in T
  BY <1>1 DEF sum
<1>5. \A m \in 1..n : m - 1 \in T => m \in T
  <2> SUFFICES ASSUME NEW m \in 1..n, m - 1 \in T PROVE m \in T
    OBVIOUS
  <2>1. n - m + 1 \in 1..n /\ n - (m - 1) = n - m + 1 /\ n - m \in 0..n /\ m \in 0..n
        /\ (n - m + 1) - 1 = n - m /\ n \in 0..n
    BY <1>1
  <2>2. sum[n - m] <= sum[n - m + 1] /\ sum[n - m + 1] <= sum[n]
    BY <1>3, <2>1 DEF sum
  <2>3. sum[n - m] <= sum[n]
    BY <1>1, <2>1, <2>2 DEF sum
  <2> QED
    BY <2>1, <2>3 DEF sum
<1> HIDE DEF T
<1>6. n - k \in T
  <2>1. 0..n \subseteq T
    BY <1>1, <1>4, <1>5, Induction
  <2>2. k \in 0..n
    BY DEF n
  <2>3. n - k \in 0..n
    BY <1>1, <2>2
  <2> QED
    BY <2>1, <2>3
<1>7. n - (n - k) = k
  BY <1>1 DEF n
<1> QED
  BY <1>6, <1>7 DEF T, n

LEMMA NeededFacts ==
  ASSUME NEW text, NEW n \in Nat
  PROVE  /\ NeededOf(text, n) \in 0..n
         /\ Subs(text)[n + 1].kind = "operand" => NeededOf(text, n + 1) = NeededOf(text, n)
         /\ NeededOf(text, n + 1) <= NeededOf(text, n) + 1
<1> DEFINE Of(m) == {i \in 1..m : Subs(text)[i].kind # "operand"}
<1>1. IsFiniteSet(1..n) /\ Cardinality(1..n) = n
  BY FS_Interval
<1>2. Of(n) \subseteq 1..n /\ n + 1 \notin Of(n)
  OBVIOUS
<1>3. /\ Subs(text)[n + 1].kind = "operand" => Of(n + 1) = Of(n)
      /\ Subs(text)[n + 1].kind # "operand" => Of(n + 1) = Of(n) \cup {n + 1}
  <2>1. \A i : i \in 1..(n + 1) <=> i \in 1..n \/ i = n + 1
    OBVIOUS
  <2> QED
    BY <2>1
<1> HIDE DEF Of
<1>4. /\ IsFiniteSet(Of(n)) /\ Cardinality(Of(n)) \in Nat /\ Cardinality(Of(n)) <= n
  BY <1>1, <1>2, FS_Subset, FS_CardinalityType
<1>5. Cardinality(Of(n) \cup {n + 1}) = Cardinality(Of(n)) + 1
  BY <1>2, <1>4, FS_AddElement
<1>6. NeededOf(text, n) = Cardinality(Of(n)) /\ NeededOf(text, n + 1) = Cardinality(Of(n + 1))
  BY DEF NeededOf, Of
<1> QED
  BY <1>3, <1>4, <1>5, <1>6

(* One more $() of the outermost text is passed over or begun, or none is. *)
Advances ==
  /\ Outermost /\ Parsing /\ Through' = Through + 1
  /\ \/ Sub.kind = "operand" /\ taken' = taken
     \/ taken' = taken + 1

LEMMA ThroughFacts ==
  ASSUME Typed, frames # <<>>
  PROVE  /\ frames[1].next \in Nat \ {0} /\ Through \in Nat
         /\ Outermost => Top = frames[1] /\ Through = Top.next - 1
         /\ ~Outermost => Through = frames[1].next
         /\ Len(frames) \in Nat \ {0}
<1>1. frames[1] \in ParseFrames /\ Len(frames) \in Nat \ {0}
  BY TopFacts DEF Typed
<1>2. frames[1].next \in Nat \ {0}
  BY <1>1, ParseFacts
<1> QED
  BY <1>1, <1>2 DEF Through, Outermost, Top

LEMMA ThroughGoesOn ==
  ASSUME Typed, frames # <<>>,
         \/ SkipOperand \/ Stop \/ Capture \/ EndCapture
         \/ Parsed /\ ~Outermost /\ frames' = Below /\ taken' = taken
         \/ \E rc \in Rcs, time \in 0..(Timeout + 1), size \in 0..1 : Run(rc, time, size)
  PROVE  /\ frames' # <<>>
         /\ (Through' = Through /\ taken' = taken) \/ Advances
<1>1. Stack(frames) /\ Len(frames) \in Nat \ {0}
  BY ThroughFacts DEF Typed
<1>2. frames' # <<>>
  BY <1>1, OnFirst
<1>3. \A r \in {frames'} : Through' = IF Len(r) = 1 THEN r[1].next - 1 ELSE r[1].next
  BY <1>2 DEF Through, Outermost
<1>4. Through = IF Len(frames) = 1 THEN frames[1].next - 1 ELSE frames[1].next
  BY DEF Through, Outermost
<1>5. frames[1].next \in Nat \ {0}
  BY ThroughFacts
<1>6. ASSUME Len(frames') = Len(frames), frames'[1] = frames[1]
      PROVE  Through' = Through
  BY <1>3, <1>4, <1>6
<1>7. CASE SkipOperand
  <2>1. /\ Len(frames') = Len(frames) /\ frames'[Len(frames)].next = Top.next + 1
        /\ \A i \in 1..(Len(frames) - 1) : frames'[i] = frames[i]
    BY <1>1, <1>7, SkipFrames
  <2>2. taken' = taken /\ Parsing /\ Sub.kind = "operand"
    BY <1>7 DEF SkipOperand
  <2>3. CASE Len(frames) = 1
    BY <1>3, <1>4, <1>5, <2>1, <2>2, <2>3, <1>2 DEF Advances, Outermost, Top
  <2>4. CASE Len(frames) # 1
    <3>1. 1 \in 1..(Len(frames) - 1)
      BY <1>1, <2>4, Positions
    <3> QED
      BY <1>2, <1>6, <2>1, <2>2, <3>1
  <2> QED
    BY <2>3, <2>4
<1>8. CASE Stop
  BY <1>1, <1>2, <1>6, <1>8, StopFrames DEF Stop
<1>9. CASE Capture
  <2>1. Len(frames') = Len(frames) + 2 /\ \A i \in 1..Len(frames) : frames'[i] = frames[i]
    BY <1>1, <1>9, CaptureFrames
  <2>2. 1 \in 1..Len(frames)
    BY <1>1
  <2>3. Through' = frames[1].next
    BY <1>1, <1>3, <2>1, <2>2
  <2>4. Parsing /\ (IF Outermost THEN taken' = taken + 1 ELSE taken' = taken)
    BY <1>9 DEF Capture
  <2> QED
    BY <1>2, <1>4, <1>5, <2>3, <2>4 DEF Advances, Outermost
<1>10. CASE EndCapture
  <2>1. /\ Len(frames) >= 2 /\ Len(frames') = Len(frames) - 1
        /\ frames'[Len(frames) - 1].next = frames[Len(frames) - 1].next + 1
        /\ \A i \in 1..(Len(frames) - 2) : frames'[i] = frames[i]
    BY <1>1, <1>10, EndFrames
  <2>2. taken' = taken
    BY <1>10 DEF EndCapture
  <2>3. CASE Len(frames) = 2
    BY <1>3, <1>4, <1>5, <2>1, <2>2, <2>3, <1>2
  <2>4. CASE Len(frames) # 2
    <3>1. Len(frames) % 2 = 0
      BY <1>1, <1>10, TopFacts DEF EndCapture
    <3>2. Len(frames') # 1 /\ 1 \in 1..(Len(frames) - 2)
      BY <1>1, <2>1, <2>4, <3>1
    <3>3. Through' = Through
      BY <1>1, <1>3, <1>4, <2>1, <3>2
    <3> QED
      BY <1>2, <2>2, <3>3
  <2> QED
    BY <2>3, <2>4
<1>11. CASE Parsed /\ ~Outermost /\ frames' = Below /\ taken' = taken
  <2>1. /\ Len(frames) >= 3 /\ Len(frames') = Len(frames) - 1
        /\ \A i \in 1..(Len(frames) - 1) : frames'[i] = frames[i]
    BY <1>1, <1>11, ReturnFrames
  <2>2. Len(frames') # 1 /\ 1 \in 1..(Len(frames) - 1) /\ Len(frames) # 1
    BY <1>1, <2>1
  <2>3. Through' = Through
    BY <1>3, <1>4, <2>1, <2>2
  <2> QED
    BY <1>2, <1>11, <2>3
<1>12. CASE \E rc \in Rcs, time \in 0..(Timeout + 1), size \in 0..1 : Run(rc, time, size)
  <2>1. PICK rc \in Rcs, time \in 0..(Timeout + 1), size \in 0..1 : Run(rc, time, size)
    BY <1>12
  <2>2. Len(frames') = Len(frames) /\ frames'[1] = frames[1] /\ taken' = taken
    BY <1>1, <2>1, RunFrames DEF Run
  <2> QED
    BY <1>2, <1>6, <2>2
<1> QED
  BY <1>7, <1>8, <1>9, <1>10, <1>11, <1>12

LEMMA TallyStarts ==
  ASSUME NEW t \in Tasks
  PROVE  TallyOf(t, 1, 0, 0)
<1>1. t.texts[1] \in Texts
  BY TaskFacts
<1>2. Len(Subs(t.texts[1])) \in Nat
  BY <1>1, SubsFacts
<1>3. NeededOf(t.texts[1], 0) \in 0..0
  BY NeededFacts
<1> QED
  BY <1>2, <1>3 DEF TallyOf

LEMMA TallyAdvances ==
  ASSUME NEW t \in Tasks, NEW n \in 1..Len(t.texts), NEW through \in Nat,
         NEW count \in Nat, NEW c, TallyOf(t, n, through, count),
         through + 1 <= Len(Subs(t.texts[n])),
         \/ Subs(t.texts[n])[through + 1].kind = "operand" /\ c = count
         \/ c = count + 1
  PROVE  TallyOf(t, n, through + 1, c)
<1>1. n \in Nat /\ Len(t.texts) \in Nat \ {0}
  BY TaskFacts
<1>2. CASE n = 1
  <2> DEFINE a == NeededOf(t.texts[1], through)
             b == NeededOf(t.texts[1], through + 1)
  <2>1. /\ a \in 0..through /\ b \in 0..(through + 1) /\ b <= a + 1
        /\ Subs(t.texts[1])[through + 1].kind = "operand" => b = a
    BY NeededFacts
  <2>2. count \in a..through
    BY <1>2 DEF TallyOf
  <2> HIDE DEF a, b
  <2>3. c \in b..(through + 1)
    BY <1>2, <2>1, <2>2
  <2> QED
    BY <1>2, <2>3 DEF TallyOf, b
<1>3. CASE n # 1
  <2>1. n - 2 \in 0..(Len(t.texts) - 1) /\ n > 1
    BY <1>1, <1>3
  <2>2. t.texts \in Seq(Texts) /\ t.texts # <<>> /\ t.texts[1] \in Texts
    BY <1>1, TaskFacts
  <2>3. SubsInParts(t.texts)[n - 2] \in Nat
    BY <2>1, <2>2, PartsFacts
  <2>4. Len(Subs(t.texts[1])) \in Nat
    BY <2>2, SubsFacts
  <2> QED
    BY <1>3, <2>1, <2>3, <2>4 DEF TallyOf
<1> QED
  BY <1>2, <1>3

(* When a text of a body or a word ends, the next one follows.             *)
LEMMA TallyFollows ==
  ASSUME NEW t \in Tasks, NEW n \in 1..Len(t.texts), n # Len(t.texts),
         NEW through \in Nat, NEW count \in Nat, TallyOf(t, n, through, count),
         t.kind # "call"
  PROVE  TallyOf(t, n + 1, 0, count)
<1>1. /\ t.texts \in Seq(Texts) /\ t.texts # <<>> /\ Len(t.texts) \in Nat
      /\ t.texts[1] \in Texts /\ t.texts[n] \in Texts /\ t.texts[n + 1] \in Texts
  <2>1. Len(t.texts) \in Nat \ {0} /\ n + 1 \in 1..Len(t.texts)
        /\ t.texts \in Seq(Texts)
    BY TaskFacts
  <2>2. \A i \in 1..Len(t.texts) : t.texts[i] \in Texts
    BY TaskFacts
  <2>3. t.texts # <<>> /\ 1 \in 1..Len(t.texts)
    BY <2>1
  <2> QED
    BY <2>1, <2>2, <2>3
<1>2. PICK m \in Nat : m = Len(t.texts)
  BY <1>1
<1>3. PICK sum : sum = SubsInParts(t.texts)
  OBVIOUS
<1>4. /\ \A k \in 0..(m - 1) : sum[k] \in Nat
      /\ sum[0] = 0
      /\ \A k \in 1..(m - 1) : sum[k] = sum[k - 1] + Len(Subs(t.texts[k + 1]))
  BY <1>1, <1>2, <1>3, PartsFacts
<1>5. /\ Len(Subs(t.texts[1])) \in Nat /\ Len(Subs(t.texts[n])) \in Nat
      /\ Len(Subs(t.texts[n + 1])) \in Nat
  BY <1>1, SubsFacts
<1>6. through <= Len(Subs(t.texts[n]))
  BY DEF TallyOf
<1>7. count <= Len(Subs(t.texts[1])) + sum[n - 1]
  <2>1. CASE n = 1
    <3>1. count <= through
      BY <2>1 DEF TallyOf
    <3> QED
      BY <1>4, <1>5, <1>6, <2>1, <3>1
  <2>2. CASE n # 1
    <3>1. /\ n > 1 /\ n \in Nat /\ n - 1 \in 1..(m - 1) /\ n - 2 \in 0..(m - 1)
          /\ (n - 1) - 1 = n - 2 /\ (n - 1) + 1 = n
      BY <1>2, <2>2
    <3>2. count <= Len(Subs(t.texts[1])) + sum[n - 2] + through
      BY <1>3, <3>1 DEF TallyOf
    <3>3. sum[n - 1] = sum[n - 2] + Len(Subs(t.texts[n])) /\ sum[n - 2] \in Nat
      BY <1>4, <3>1
    <3> QED
      BY <1>5, <1>6, <3>2, <3>3
  <2> QED
    BY <2>1, <2>2
<1>8. n + 1 > 1 /\ n + 1 # 1 /\ n + 1 - 2 = n - 1 /\ n - 1 \in 0..(m - 1)
  BY <1>2
<1>9. sum[n - 1] \in Nat
  BY <1>4, <1>8
<1> QED
  BY <1>3, <1>5, <1>7, <1>8, <1>9 DEF TallyOf

(* A text ends: the next follows, unless the task is over.                 *)
LEMMA EndedTally ==
  ASSUME Typed, Tally, frames # <<>>, NEW ok \in BOOLEAN, Ended(ok), taken' = taken,
         result' = IF ok THEN "ok" ELSE "error"
  PROVE  Tally'
<1>1. task \in Tasks /\ task # NoTask /\ step \in 1..Len(task.texts)
  BY TaskFacts DEF Typed, Asked
<1>2. Through \in Nat /\ taken \in Nat /\ TallyOf(task, step, Through, taken)
  BY <1>1, ThroughFacts DEF Typed, Limited, Tally
<1>3. frames' = <<>> /\ Through' = 0
  BY DEF Ended, Through
<1>4. SUFFICES ASSUME task' # NoTask PROVE Tally'
  BY DEF Tally
<1>5. /\ task' = task /\ step' = step + 1 /\ step # Len(task.texts)
      /\ task.kind # "call"
      /\ ~(task.kind = "words" /\ step = 1 /\ ok /\ Len(task.texts) = 2)
  BY <1>4 DEF Ended
<1>6. TallyOf(task, step + 1, 0, taken)
  BY <1>1, <1>2, <1>5, TallyFollows
<1>7. Retried(task, step + 1) => ~ok
  BY <1>1, <1>5 DEF Retried
<1> QED
  BY <1>3, <1>5, <1>6, <1>7 DEF Tally

LEMMA GoingOnTally ==
  ASSUME Typed, Tally, frames # <<>>, UNCHANGED <<task, step>>, frames' # <<>>,
         (Through' = Through /\ taken' = taken) \/ Advances
  PROVE  Tally'
<1>1. task \in Tasks /\ task # NoTask /\ step \in 1..Len(task.texts)
      /\ frames[1].text = task.texts[step]
  BY TaskFacts DEF Typed, Asked
<1>2. Through \in Nat /\ taken \in Nat /\ TallyOf(task, step, Through, taken)
  BY <1>1, ThroughFacts DEF Typed, Limited, Tally
<1>3. CASE Through' = Through /\ taken' = taken
  BY <1>2, <1>3 DEF Tally
<1>4. CASE Advances
  <2>1. Top = frames[1] /\ Through = Top.next - 1 /\ Top.next \in Nat \ {0}
    BY <1>4, ThroughFacts DEF Advances
  <2>2. Through + 1 <= Len(Subs(task.texts[step])) /\ Through + 1 = Top.next
    BY <1>1, <1>4, <2>1 DEF Advances, Parsing
  <2>3. Sub = Subs(task.texts[step])[Through + 1]
    BY <1>1, <2>1, <2>2 DEF Sub
  <2>4. TallyOf(task, step, Through + 1, taken')
    BY <1>1, <1>2, <1>4, <2>2, <2>3, TallyAdvances DEF Advances
  <2> QED
    BY <1>4, <2>4 DEF Tally, Advances
<1> QED
  BY <1>3, <1>4

LEMMA StepKeepsTally ==
  ASSUME Typed, Tally, [Next]_vars
  PROVE  Tally'
<1>1. CASE UNCHANGED vars
  BY <1>1 DEF vars, Tally, Through, Outermost
<1>2. CASE \E t \in Tasks : StartTask(t)
  <2>1. PICK t \in Tasks : StartTask(t)
    BY <1>2
  <2>2. frames' = <<>> /\ task' = t /\ step' = 1 /\ taken' = 0
    BY <2>1 DEF StartTask, Typed, Asked
  <2>3. Through' = 0
    BY <2>2 DEF Through
  <2> QED
    BY <2>2, <2>3, TallyStarts DEF Tally, Retried
<1>3. CASE StartText
  <2>1. /\ frames = <<>> /\ task \in Tasks /\ step \in 1..Len(task.texts)
        /\ UNCHANGED <<task, step, taken>>
    BY <1>3 DEF StartText, Typed, Asked
  <2>2. task.texts[step] \in Texts
    BY <2>1, TaskFacts
  <2>3. Len(frames') = 1 /\ frames' # <<>> /\ frames'[1].next = 1
    BY <1>3, <2>2, StartFrames
  <2>4. Through' = 0 /\ Through = 0
    BY <2>1, <2>3 DEF Through, Outermost
  <2> QED
    BY <2>1, <2>3, <2>4 DEF Tally
<1>4. CASE Refuse \/ Misbuilt \/ RejectBackground
  <2>1. frames # <<>> /\ Ended(FALSE) /\ taken' = taken /\ result' = "error"
    BY <1>4 DEF Refuse, Misbuilt, RejectBackground, Raise, Parsing, Parsed, Walking, Running
  <2> QED
    BY <2>1, EndedTally
<1>5. CASE Evicted
  BY <1>5 DEF Evicted, Tally
<1>6. CASE \/ SkipOperand \/ Stop \/ Capture \/ EndCapture
           \/ \E rc \in Rcs, time \in 0..(Timeout + 1), size \in 0..1 : Run(rc, time, size)
  <2>1. frames # <<>> /\ UNCHANGED <<task, step>>
    BY <1>6 DEF SkipOperand, Stop, Stops, Capture, EndCapture, Run, Parsing, Walking, Running
  <2>2. frames' # <<>> /\ ((Through' = Through /\ taken' = taken) \/ Advances)
    BY <1>6, <2>1, ThroughGoesOn
  <2> QED
    BY <2>1, <2>2, GoingOnTally
<1>7. CASE Store \/ Hit
  <2>1. frames # <<>> /\ Parsed /\ Return /\ taken' = taken /\ result' = "ok"
    BY <1>7 DEF Store, Hit, Parsed, Running
  <2>2. CASE Outermost
    BY <2>1, <2>2, EndedTally DEF Return
  <2>3. CASE ~Outermost
    <3>1. frames' = Below /\ UNCHANGED <<task, step>>
      BY <2>1, <2>3 DEF Return
    <3>2. frames' # <<>> /\ ((Through' = Through /\ taken' = taken) \/ Advances)
      BY <2>1, <2>3, <3>1, ThroughGoesOn
    <3> QED
      BY <2>1, <3>1, <3>2, GoingOnTally
  <2> QED
    BY <2>2, <2>3
<1> QED
  BY <1>1, <1>2, <1>3, <1>4, <1>5, <1>6, <1>7 DEF Next, Serve

LEMMA TallyHolds == Spec => []Tally
<1>1. Init => Tally
  BY DEF Init, Tally
<1>2. Typed /\ Tally /\ [Next]_vars => Tally'
  BY StepKeepsTally
<1> QED
  BY <1>1, <1>2, TypedHolds, PTL DEF Spec

(* What a body or the words of a for loop contain is run for the whole and *)
(* at most once more for its parts, however many parts there are; a single *)
(* word is only parsed again when its first parse failed.                  *)
THEOREM RepeatsAreBounded == Spec => []RepeatsBounded
<1>1. Typed /\ Tally => RepeatsBounded
  <2> SUFFICES ASSUME Typed, Tally, task # NoTask PROVE RepeatsBounded
    BY DEF RepeatsBounded
  <2>1. task \in Tasks /\ step \in 1..Len(task.texts)
    BY DEF Typed, Asked
  <2>2. /\ task.texts \in Seq(Texts) /\ Len(task.texts) \in Nat \ {0}
        /\ \A i \in 1..Len(task.texts) : task.texts[i] \in Texts
    BY <2>1, TaskFacts
  <2>3. task.texts # <<>> /\ 1 \in 1..Len(task.texts)
    BY <2>2
  <2>4. PICK L \in Nat : L = Len(Subs(task.texts[1]))
    BY <2>2, <2>3, SubsFacts
  <2>5. Through \in Nat /\ taken \in Nat /\ TallyOf(task, step, Through, taken)
    BY ThroughFacts DEF Typed, Limited, Tally, Through
  <2>6. CASE step = 1
    <3>1. taken <= Through /\ Through <= L
      BY <2>4, <2>5, <2>6, NeededFacts DEF TallyOf
    <3> QED
      BY <2>4, <2>5, <2>6, <3>1 DEF RepeatsBounded
  <2>7. CASE step # 1
    <3>1. PICK m \in Nat : m = Len(task.texts)
      BY <2>2
    <3>2. PICK sum : sum = SubsInParts(task.texts)
      OBVIOUS
    <3>3. /\ step > 1 /\ step \in Nat /\ step - 1 \in 1..(m - 1) /\ step - 2 \in 0..(m - 1)
          /\ step - 1 \in 0..(m - 1) /\ m - 1 \in 0..(m - 1)
          /\ (step - 1) - 1 = step - 2 /\ (step - 1) + 1 = step
      BY <2>1, <2>7, <3>1
    <3>4. sum[step - 1] = sum[step - 2] + Len(Subs(task.texts[step]))
          /\ sum[step - 1] \in Nat /\ sum[step - 2] \in Nat /\ sum[m - 1] \in Nat
      BY <2>2, <2>3, <3>1, <3>2, <3>3, PartsFacts
    <3>5. sum[step - 1] <= sum[m - 1]
      BY <2>2, <2>3, <3>1, <3>2, <3>3, PartsGrow
    <3>6. sum[m - 1] <= L
      BY <2>1, <2>4, <2>5, <2>7, <3>1, <3>2, TaskAssumption DEF TallyOf
    <3>7. taken <= L + sum[step - 2] + Through /\ Through <= Len(Subs(task.texts[step]))
      BY <2>4, <2>5, <3>2, <3>3 DEF TallyOf
    <3>8. Len(Subs(task.texts[step])) \in Nat
      BY <2>1, <2>2, SubsFacts
    <3>9. taken <= 2 * L
      BY <2>5, <3>4, <3>5, <3>6, <3>7, <3>8
    <3>10. Retried(task, step) /\ frames = <<>> => result = "error"
      BY DEF Tally
    <3> QED
      BY <2>4, <2>7, <3>9, <3>10 DEF RepeatsBounded, Retried
  <2> QED
    BY <2>6, <2>7
<1> QED
  BY <1>1, TypedHolds, TallyHolds, PTL

(* A call that could be parsed has run each of its $() once, whether its   *)
(* text was cached or not; only the operand of a parameter expansion that  *)
(* is not used is passed over.                                             *)
THEOREM SubstitutionsRunOnce == Spec => RunsItsSubstitutions
<1>1. ASSUME Typed, Tally, [Next]_vars, task # NoTask, task' = NoTask,
             task.kind = "call", result' = "ok"
      PROVE  taken \in Needed(task.texts[1])..Len(Subs(task.texts[1]))
  <2>1. Store \/ Hit
    BY <1>1, TaskFacts DEF vars, Next, Serve, StartTask, StartText, SkipOperand, Refuse,
       Capture, Misbuilt, Evicted, RejectBackground, Stop, EndCapture, Run, Raise
  <2>2. frames # <<>> /\ Parsed /\ Return
    BY <2>1 DEF Store, Hit, Parsed, Running
  <2>3. Outermost
    BY <1>1, <2>2 DEF Return
  <2>4. /\ frames[1].text = task.texts[step] /\ TallyOf(task, step, Through, taken)
        /\ Top = frames[1] /\ Through = Top.next - 1 /\ Top.next \in Nat \ {0}
    BY <1>1, <2>2, <2>3, ThroughFacts DEF Typed, Asked, Tally
  <2>5. step = 1
    BY <1>1, <2>4 DEF TallyOf
  <2>6. PICK L \in Nat : L = Len(Subs(task.texts[1]))
    <3>1. task \in Tasks /\ 1 \in 1..Len(task.texts)
      BY <1>1, <2>5 DEF Typed, Asked
    <3> QED
      BY <3>1, TaskFacts, SubsFacts
  <2>7. Top.next > L /\ Through <= L
    BY <2>2, <2>4, <2>5, <2>6 DEF Parsed, TallyOf
  <2>8. Through = L
    BY <2>4, <2>7
  <2>9. taken \in NeededOf(task.texts[1], L)..L
    BY <2>4, <2>5, <2>8 DEF TallyOf
  <2>10. NeededOf(task.texts[1], L) = Needed(task.texts[1])
    BY <2>6 DEF NeededOf, Needed
  <2> QED
    BY <2>6, <2>9, <2>10
<1> QED
  BY <1>1, TypedHolds, TallyHolds, PTL DEF Spec, RunsItsSubstitutions

-----------------------------------------------------------------------------
(* FlattenSeq, one list after the other.                                   *)
Concats(f, s) == f[0] = <<>> /\ \A k \in 1..Len(s) : f[k] = f[k - 1] \o s[k]

LEMMA FlattenByRecursion ==
  ASSUME NEW E, NEW s \in Seq(Seq(E))
  PROVE  \E f \in [0..Len(s) -> Seq(E)] : Concats(f, s) /\ FlattenSeq(s) = f[Len(s)]
<1> DEFINE n == Len(s)
           V == Seq(E)
           none == <<>>
           Is(h) == h = [k \in 1..n |-> IF k = 1 THEN s[k] ELSE h[k - 1] \o s[k]]
           F == [k \in 1..n |-> [t \in V |-> t \o s[k]]]
<1>1. n \in Nat /\ none \in V /\ \A k \in 1..n : s[k] \in V
  OBVIOUS
<1>2. \A u \in V, t \in V : t \o u \in V
  OBVIOUS
<1>3. \A t \in V : none \o t = t
  OBVIOUS
<1>4. n = 0 => s = none /\ FlattenSeq(s) = s
  BY DEF FlattenSeq
<1>5. n # 0 => FlattenSeq(s) = (CHOOSE h : Is(h))[n]
  BY DEF FlattenSeq
<1> HIDE DEF n, V, none
<1>6. F \in StepFunctions(n, V)
  BY <1>1, <1>2 DEF StepFunctions
<1>7. \A k \in 1..n, t \in V : F[k][t] = t \o s[k]
  OBVIOUS
<1> HIDE DEF F
<1>8. PICK f \in [0..n -> V] : Iterates(f, F, none, n)
  BY <1>1, <1>6, Recursion
<1>9. f[0] = none /\ \A k \in 1..n : k - 1 \in 0..n /\ f[k - 1] \in V /\ f[k] = f[k - 1] \o s[k]
  <2>1. \A k \in 1..n : k - 1 \in 0..n
    BY <1>1
  <2> QED
    BY <1>7, <1>8, <2>1 DEF Iterates
<1>10. Concats(f, s)
  BY <1>9 DEF Concats, n, none
<1>11. CASE n = 0
  BY <1>4, <1>8, <1>9, <1>10, <1>11 DEF n, V
<1>12. CASE n # 0
  <2>1. Is([k \in 1..n |-> f[k]])
    <3>1. \A k \in 1..n : f[k] = IF k = 1 THEN s[k] ELSE [i \in 1..n |-> f[i]][k - 1] \o s[k]
      <4> TAKE k \in 1..n
      <4>1. k # 1 => k - 1 \in 1..n
        BY <1>1
      <4>2. k = 1 => f[k] = s[k]
        <5>1. k = 1 => k - 1 = 0
          OBVIOUS
        <5> QED
          BY <1>1, <1>3, <1>9, <5>1
      <4> QED
        BY <1>9, <4>1, <4>2
    <3> QED
      BY <3>1
  <2> DEFINE g == CHOOSE h : Is(h)
  <2>2. Is(g)
    BY <2>1
  <2> HIDE DEF g
  <2>3. \A k \in 1..n : g[k] = IF k = 1 THEN s[k] ELSE g[k - 1] \o s[k]
    BY <2>2
  <2> HIDE DEF Is
  <2> DEFINE T == {k \in 0..n : k = 0 \/ g[k] = f[k]}
  <2>4. 0 \in T
    BY <1>1
  <2>5. \A k \in 1..n : k - 1 \in T => k \in T
    <3> TAKE k \in 1..n
    <3>1. k \in 0..n
      BY <1>1
    <3>2. k = 1 => g[k] = f[k]
      <4>1. k = 1 => k - 1 = 0
        OBVIOUS
      <4> QED
        BY <1>1, <1>3, <1>9, <2>3, <4>1
    <3>3. k # 1 /\ g[k - 1] = f[k - 1] => g[k] = f[k]
      BY <1>9, <2>3
    <3>4. k # 1 => k - 1 # 0
      BY <1>1
    <3> QED
      BY <3>1, <3>2, <3>3, <3>4
  <2>6. \A k \in T : k = 0 \/ g[k] = f[k]
    OBVIOUS
  <2> HIDE DEF T
  <2>7. n \in T
    <3>1. 0..n \subseteq T
      BY <1>1, <2>4, <2>5, Induction
    <3> QED
      BY <1>1, <3>1
  <2>8. FlattenSeq(s) = g[n]
    BY <1>5, <1>12 DEF g
  <2> QED
    BY <1>8, <1>10, <1>12, <2>6, <2>7, <2>8 DEF n, V
<1> QED
  BY <1>11, <1>12

LEMMA FlattenEmpty == FlattenSeq(<<>>) = <<>>
BY DEF FlattenSeq

LEMMA FlattenType ==
  ASSUME NEW E, NEW s \in Seq(Seq(E))
  PROVE  FlattenSeq(s) \in Seq(E)
<1>1. Len(s) \in 0..Len(s)
  OBVIOUS
<1> QED
  BY <1>1, FlattenByRecursion

LEMMA FlattenConcat ==
  ASSUME NEW E, NEW s \in Seq(Seq(E)), NEW t \in Seq(Seq(E))
  PROVE  FlattenSeq(s \o t) = FlattenSeq(s) \o FlattenSeq(t)
<1> DEFINE n == Len(s)
           m == Len(t)
           V == Seq(E)
           both == s \o t
<1>0. \A u \in V, v \in V, w \in V : (u \o v) \o w = u \o (v \o w)
  BY ConcatAssociative
<1>1. /\ n \in Nat /\ m \in Nat /\ both \in Seq(V) /\ Len(both) = n + m
      /\ \A k \in 1..n : both[k] = s[k] /\ k \in 1..(n + m)
      /\ \A k \in 1..m : both[n + k] = t[k] /\ t[k] \in V /\ n + k \in 1..(n + m)
  OBVIOUS
<1>2. PICK f \in [0..n -> V] : Concats(f, s) /\ FlattenSeq(s) = f[n]
  BY FlattenByRecursion
<1>3. PICK g \in [0..m -> V] : Concats(g, t) /\ FlattenSeq(t) = g[m]
  BY FlattenByRecursion
<1> HIDE DEF both
<1>4. PICK h \in [0..Len(both) -> V] : Concats(h, both) /\ FlattenSeq(both) = h[Len(both)]
  BY <1>1, FlattenByRecursion
<1>5. /\ f[0] = <<>> /\ \A k \in 1..n : f[k] = f[k - 1] \o s[k]
      /\ g[0] = <<>> /\ \A k \in 1..m : g[k] = g[k - 1] \o t[k]
      /\ h[0] = <<>> /\ \A k \in 1..(n + m) : h[k] = h[k - 1] \o both[k]
  BY <1>1, <1>2, <1>3, <1>4 DEF Concats
<1> HIDE DEF n, m, V
<1>6. h[n] = f[n]
  <2> DEFINE T == {k \in 0..n : h[k] = f[k]}
  <2>1. 0 \in T
    BY <1>1, <1>5
  <2>2. \A k \in 1..n : k - 1 \in T => k \in T
    <3> TAKE k \in 1..n
    <3>1. k \in 0..n
      BY <1>1
    <3> QED
      BY <1>1, <1>5, <3>1
  <2>3. \A k \in T : h[k] = f[k]
    OBVIOUS
  <2> HIDE DEF T
  <2>4. 0..n \subseteq T
    BY <1>1, <2>1, <2>2, Induction
  <2>5. n \in T
    BY <1>1, <2>4
  <2> QED
    BY <2>3, <2>5
<1>7. h[n + m] = f[n] \o g[m]
  <2> DEFINE T == {k \in 0..m : h[n + k] = f[n] \o g[k]}
  <2>1. f[n] \in V /\ \A k \in 0..m : g[k] \in V
    BY <1>1, <1>2, <1>3
  <2>2. 0 \in T
    <3>1. f[n] \o <<>> = f[n]
      BY <2>1, ConcatEmptySeq DEF V
    <3>2. n + 0 = n /\ 0 \in 0..m
      BY <1>1
    <3> QED
      BY <1>5, <1>6, <3>1, <3>2
  <2>3. \A k \in 1..m : k - 1 \in T => k \in T
    <3> TAKE k \in 1..m
    <3>1. k \in 0..m /\ k - 1 \in 0..m /\ (n + k) - 1 = n + (k - 1)
      BY <1>1
    <3>2. g[k - 1] \in V /\ t[k] \in V
      BY <1>1, <2>1, <3>1
    <3>3. (f[n] \o g[k - 1]) \o t[k] = f[n] \o (g[k - 1] \o t[k])
      BY <1>0, <2>1, <3>2
    <3>4. n + k \in 1..(n + m) /\ both[n + k] = t[k]
      BY <1>1
    <3>5. h[n + k] = h[n + (k - 1)] \o t[k]
      BY <1>5, <3>1, <3>4
    <3> QED
      BY <1>5, <3>1, <3>3, <3>5
  <2>4. \A k \in T : h[n + k] = f[n] \o g[k]
    OBVIOUS
  <2> HIDE DEF T
  <2>5. 0..m \subseteq T
    BY <1>1, <2>2, <2>3, Induction
  <2>6. m \in T
    BY <1>1, <2>5
  <2> QED
    BY <2>4, <2>6
<1> QED
  BY <1>1, <1>2, <1>3, <1>4, <1>7 DEF both

LEMMA FlattenOne ==
  ASSUME NEW E, NEW e \in Seq(E)
  PROVE  FlattenSeq(<<e>>) = e
<1> DEFINE s == <<e>>
<1>1. s \in Seq(Seq(E)) /\ Len(s) = 1 /\ s[1] = e
  OBVIOUS
<1> HIDE DEF s
<1>2. PICK f \in [0..Len(s) -> Seq(E)] : Concats(f, s) /\ FlattenSeq(s) = f[Len(s)]
  BY <1>1, FlattenByRecursion
<1>3. f[0] = <<>> /\ f[1] = f[0] \o e
  <2>1. 1 \in 1..Len(s) /\ 1 - 1 = 0
    BY <1>1
  <2> QED
    BY <1>1, <1>2, <2>1 DEF Concats
<1>4. <<>> \o e = e
  OBVIOUS
<1> QED
  BY <1>1, <1>2, <1>3, <1>4 DEF s

LEMMA FlattenAppend ==
  ASSUME NEW E, NEW s \in Seq(Seq(E)), NEW e \in Seq(E)
  PROVE  FlattenSeq(Append(s, e)) = FlattenSeq(s) \o e
<1>1. Append(s, e) = s \o <<e>>
  BY AppendIsConcat
<1>2. <<e>> \in Seq(Seq(E))
  OBVIOUS
<1>3. FlattenSeq(s \o <<e>>) = FlattenSeq(s) \o FlattenSeq(<<e>>)
  BY <1>2, FlattenConcat
<1> QED
  BY <1>1, <1>3, FlattenOne

-----------------------------------------------------------------------------
(* What a word consists of, and the characters in it.                      *)
CharItem == [kind : {"char"}, char : Chars]
Item == CharItem \cup [kind : {"delimiter"}, char : Chars, part : Nat]
                 \cup [kind : {"empty", "border"}]
Text(kept) == [i \in 1..Len(kept) |-> kept[i].char]

LEMMA TextType ==
  ASSUME NEW kept \in Seq(CharItem)
  PROVE  Text(kept) \in Seq(Chars) /\ Len(Text(kept)) = Len(kept)
<1>1. Len(kept) \in Nat /\ \A i \in 1..Len(kept) : kept[i] \in CharItem
  OBVIOUS
<1>2. \A e \in CharItem : e.char \in Chars
  BY DEF CharItem
<1> QED
  BY <1>1, <1>2 DEF Text

LEMMA CharactersFacts ==
  ASSUME NEW s \in Seq(Item)
  PROVE  /\ Keep(s, CharItem) \in Seq(CharItem)
         /\ Characters(s) = Text(Keep(s, CharItem))
         /\ Characters(s) \in Seq(Chars)
<1>1. Keep(s, CharItem) \in Seq(CharItem)
  <2>1. Item \cap CharItem = CharItem
    BY DEF Item
  <2> QED
    BY <2>1, KeepType
<1>2. \A kept \in Seq(CharItem) : Text(kept) \in Seq(Chars)
  BY TextType
<1>3. Characters(s) = Text(Keep(s, CharItem))
  BY DEF Characters, Text, CharItem
<1> QED
  BY <1>1, <1>2, <1>3

LEMMA CharactersConcat ==
  ASSUME NEW s \in Seq(Item), NEW t \in Seq(Item)
  PROVE  Characters(s \o t) = Characters(s) \o Characters(t)
<1>0. Keep(s \o t, CharItem) = Keep(s, CharItem) \o Keep(t, CharItem)
  BY KeepConcat
<1>1. PICK a \in Seq(CharItem), b \in Seq(CharItem) :
        a = Keep(s, CharItem) /\ b = Keep(t, CharItem)
  BY CharactersFacts
<1>2. Keep(s \o t, CharItem) = a \o b
  BY <1>0, <1>1
<1>3. Text(a \o b) = Text(a) \o Text(b)
  <2>1. a \o b \in Seq(CharItem) /\ Len(a \o b) = Len(a) + Len(b)
    OBVIOUS
  <2>2. /\ Text(a) \in Seq(Chars) /\ Text(b) \in Seq(Chars) /\ Text(a \o b) \in Seq(Chars)
        /\ Len(Text(a)) = Len(a) /\ Len(Text(b)) = Len(b) /\ Len(Text(a \o b)) = Len(a) + Len(b)
    BY <2>1, TextType
  <2>3. ASSUME NEW i \in 1..(Len(a) + Len(b))
        PROVE  Text(a \o b)[i] = (Text(a) \o Text(b))[i]
    <3>1. Text(a \o b)[i] = (a \o b)[i].char
      BY <2>1, <2>2 DEF Text
    <3>2. CASE i <= Len(a)
      <4>1. i \in 1..Len(a) /\ (a \o b)[i] = a[i]
        BY <3>2
      <4>2. (Text(a) \o Text(b))[i] = Text(a)[i]
        BY <2>1, <2>2, <4>1
      <4>3. Text(a)[i] = a[i].char
        BY <4>1 DEF Text
      <4> QED
        BY <3>1, <4>1, <4>2, <4>3
    <3>3. CASE ~(i <= Len(a))
      <4>1. i - Len(a) \in 1..Len(b) /\ (a \o b)[i] = b[i - Len(a)]
        BY <3>3
      <4>2. (Text(a) \o Text(b))[i] = Text(b)[i - Len(a)]
        BY <2>1, <2>2, <3>3, <4>1
      <4>3. Text(b)[i - Len(a)] = b[i - Len(a)].char
        BY <4>1 DEF Text
      <4> QED
        BY <3>1, <4>1, <4>2, <4>3
    <3> QED
      BY <3>2, <3>3
  <2>4. Text(a) \o Text(b) \in Seq(Chars) /\ Len(Text(a) \o Text(b)) = Len(a) + Len(b)
    <3>1. \A u \in Seq(Chars), v \in Seq(Chars) :
            u \o v \in Seq(Chars) /\ Len(u \o v) = Len(u) + Len(v)
      OBVIOUS
    <3> QED
      BY <2>2, <3>1
  <2> QED
    BY <2>1, <2>2, <2>3, <2>4, SeqEqual
<1>4. s \o t \in Seq(Item)
  OBVIOUS
<1>5. Characters(s \o t) = Text(Keep(s \o t, CharItem))
  BY <1>4, CharactersFacts
<1> QED
  BY <1>1, <1>2, <1>3, <1>5, CharactersFacts

LEMMA CharactersEmpty == Characters(<<>>) = <<>>
<1>1. <<>> \in Seq(Item) /\ Keep(<<>>, CharItem) = <<>>
  BY KeepEmpty
<1>2. Text(<<>>) = <<>>
  BY DEF Text
<1> QED
  BY <1>1, <1>2, CharactersFacts

LEMMA CharactersOfNone ==
  ASSUME NEW e \in Item, e \notin CharItem
  PROVE  <<e>> \in Seq(Item) /\ Characters(<<e>>) = <<>>
<1> DEFINE none == <<>>
<1>1. none \in Seq(Item) /\ Append(none, e) = <<e>> /\ <<e>> \in Seq(Item)
  OBVIOUS
<1>2. Keep(none, CharItem) = none
  BY KeepEmpty
<1> HIDE DEF none
<1>3. Keep(<<e>>, CharItem) = none
  BY <1>1, <1>2, KeepAppend
<1>4. Text(none) = <<>>
  BY DEF Text, none
<1> QED
  BY <1>1, <1>3, <1>4, CharactersFacts

LEMMA FixedFacts ==
  ASSUME NEW text \in Seq(Chars)
  PROVE  Fixed(text) \in Seq(Item) /\ Characters(Fixed(text)) = text
<1>1. CASE text = <<>>
  <2>1. [kind |-> "empty"] \in Item /\ [kind |-> "empty"] \notin CharItem
    BY DEF Item, CharItem
  <2> QED
    BY <1>1, <2>1, CharactersOfNone DEF Fixed
<1>2. CASE text # <<>>
  <2>1. Fixed(text) = [i \in 1..Len(text) |-> [kind |-> "char", char |-> text[i]]]
    BY <1>2 DEF Fixed
  <2>2. \A i \in 1..Len(text) : [kind |-> "char", char |-> text[i]] \in CharItem
    BY DEF CharItem
  <2>3. Fixed(text) \in Seq(CharItem) /\ Len(Fixed(text)) = Len(text)
    BY <2>1, <2>2
  <2>4. \A i \in 1..Len(text) : Fixed(text)[i].char = text[i] /\ Fixed(text)[i] \in CharItem
    BY <2>1, <2>2
  <2>5. Keep(Fixed(text), CharItem) = Fixed(text)
    BY <2>3, KeepAll
  <2>6. Text(Fixed(text)) = text
    BY <2>3, <2>4, TextType, SeqEqual DEF Text
  <2>7. Fixed(text) \in Seq(Item)
    BY <2>3 DEF Item
  <2> QED
    BY <2>5, <2>6, <2>7, CharactersFacts
<1> QED
  BY <1>1, <1>2

LEMMA OpenFacts ==
  ASSUME parts \in Nat, NEW value \in Seq(Chars)
  PROVE  /\ Open(value) \in Seq(Item)
         /\ Characters(Open(value)) = Keep(value, Chars \ ifs)
<1> DEFINE n == Len(value)
           items == Open(value)
           V == Seq(Chars)
           W == Seq(Item)
           S == Chars \ ifs
           IsText(a, b) == Len(a) = Len(b) /\ \A i \in 1..Len(b) : a[i].char = b[i]
<1>1. n \in Nat /\ \A k \in 1..n : value[k] \in Chars
  OBVIOUS
<1>2. /\ items \in W /\ Len(items) = n
      /\ \A k \in 1..n : /\ items[k] \in CharItem <=> value[k] \in S
                         /\ items[k].char = value[k] /\ items[k] \in Item
  <2> DEFINE Of(k) == IF value[k] \in ifs
                      THEN [kind |-> "delimiter", char |-> value[k], part |-> parts]
                      ELSE [kind |-> "char", char |-> value[k]]
  <2>1. \A k \in 1..n : /\ Of(k) \in CharItem <=> value[k] \in S
                        /\ Of(k).char = value[k] /\ Of(k) \in Item
    BY <1>1 DEF Item, CharItem
  <2>2. items = [k \in 1..n |-> Of(k)]
    BY DEF Open
  <2> HIDE DEF Of, items
  <2>3. \A k \in 1..n : items[k] = Of(k)
    BY <2>2
  <2> QED
    BY <1>1, <2>1, <2>2, <2>3
<1> HIDE DEF items
<1>3. PICK f \in [0..Len(items) -> W] : Selects(f, items, CharItem)
                                        /\ Keep(items, CharItem) = f[Len(items)]
  BY <1>2, KeepByRecursion
<1>4. PICK g \in [0..n -> V] : Selects(g, value, S) /\ Keep(value, S) = g[n]
  BY KeepByRecursion
<1>5. /\ f[0] = <<>> /\ g[0] = <<>>
      /\ \A k \in 1..n : f[k] = IF value[k] \in S THEN Append(f[k - 1], items[k]) ELSE f[k - 1]
      /\ \A k \in 1..n : g[k] = IF value[k] \in S THEN Append(g[k - 1], value[k]) ELSE g[k - 1]
  BY <1>2, <1>3, <1>4 DEF Selects
<1>6. \A a \in W, b \in V, e \in Item, c \in Chars :
        IsText(a, b) /\ e.char = c => IsText(Append(a, e), Append(b, c))
  OBVIOUS
<1>7. IsText(<<>>, <<>>)
  OBVIOUS
<1> HIDE DEF n, V, W, S, IsText
<1> DEFINE T == {k \in 0..n : IsText(f[k], g[k])}
<1>8. 0 \in T
  BY <1>1, <1>5, <1>7
<1>9. \A k \in 1..n : k - 1 \in T => k \in T
  <2> TAKE k \in 1..n
  <2>1. k - 1 \in 0..n /\ k \in 0..n
    BY <1>1
  <2>2. f[k - 1] \in W /\ g[k - 1] \in V
    BY <1>2, <1>3, <1>4, <2>1
  <2> QED
    BY <1>1, <1>2, <1>5, <1>6, <2>1, <2>2
<1>10. \A k \in T : IsText(f[k], g[k])
  OBVIOUS
<1> HIDE DEF T
<1>11. n \in T
  <2>1. 0..n \subseteq T
    BY <1>1, <1>8, <1>9, Induction
  <2> QED
    BY <1>1, <2>1
<1>12. /\ Characters(items) = Text(f[n]) /\ f[n] \in Seq(CharItem)
       /\ IsText(f[n], g[n]) /\ g[n] \in Seq(Chars) /\ Keep(value, S) = g[n]
  BY <1>1, <1>2, <1>3, <1>4, <1>10, <1>11, CharactersFacts DEF W, V
<1>13. Text(f[n]) = g[n]
  <2>1. Text(f[n]) \in Seq(Chars) /\ Len(Text(f[n])) = Len(f[n])
    BY <1>12, TextType
  <2>2. Len(f[n]) = Len(g[n]) /\ \A i \in 1..Len(f[n]) : Text(f[n])[i] = g[n][i]
    BY <1>12 DEF IsText, Text
  <2> QED
    BY <1>12, <2>1, <2>2, SeqEqual
<1> QED
  BY <1>2, <1>12, <1>13 DEF items, S, W

(* The positional parameters, with the borders between them.               *)
LEMMA FlattenCharacters ==
  ASSUME NEW s \in Seq(Seq(Item)), NEW t \in Seq(Seq(Chars)), Len(s) = Len(t),
         \A k \in 1..Len(s) : Characters(s[k]) = t[k]
  PROVE  Characters(FlattenSeq(s)) = FlattenSeq(t)
<1> DEFINE n == Len(s)
           V == Seq(Item)
           W == Seq(Chars)
<1>1. n \in Nat /\ n = Len(t) /\ \A k \in 1..n : s[k] \in V
  OBVIOUS
<1>2. PICK f \in [0..n -> V] : Concats(f, s) /\ FlattenSeq(s) = f[n]
  BY FlattenByRecursion
<1>3. PICK g \in [0..Len(t) -> W] : Concats(g, t) /\ FlattenSeq(t) = g[Len(t)]
  BY FlattenByRecursion
<1>4. /\ f[0] = <<>> /\ \A k \in 1..n : f[k] = f[k - 1] \o s[k]
      /\ g[0] = <<>> /\ \A k \in 1..n : g[k] = g[k - 1] \o t[k]
  BY <1>1, <1>2, <1>3 DEF Concats
<1>5. \A u \in V, v \in V : Characters(u \o v) = Characters(u) \o Characters(v)
  BY CharactersConcat
<1>6. \A k \in 1..n : Characters(s[k]) = t[k]
  OBVIOUS
<1> HIDE DEF n, V, W
<1> DEFINE T == {k \in 0..n : Characters(f[k]) = g[k]}
<1>7. 0 \in T
  BY <1>1, <1>4, CharactersEmpty
<1>8. \A k \in 1..n : k - 1 \in T => k \in T
  <2> TAKE k \in 1..n
  <2>1. k - 1 \in 0..n /\ k \in 0..n
    BY <1>1
  <2>2. f[k - 1] \in V /\ s[k] \in V
    BY <1>1, <1>2, <2>1
  <2> QED
    BY <1>4, <1>5, <1>6, <2>1, <2>2
<1>9. \A k \in T : Characters(f[k]) = g[k]
  OBVIOUS
<1> HIDE DEF T
<1>10. n \in T
  <2>1. 0..n \subseteq T
    BY <1>1, <1>7, <1>8, Induction
  <2> QED
    BY <1>1, <2>1
<1> QED
  BY <1>1, <1>2, <1>3, <1>9, <1>10

LEMMA BorderedFacts ==
  ASSUME NEW positional \in Seq(Seq(Chars))
  PROVE  /\ Bordered(positional) \in Seq(Item)
         /\ Characters(Bordered(positional)) = FlattenSeq(positional)
<1> DEFINE n == Len(positional)
           Of(k) == IF k = 1 THEN Fixed(positional[k]) ELSE Border \o Fixed(positional[k])
           s == [k \in 1..n |-> Of(k)]
<1>1. n \in Nat /\ \A k \in 1..n : positional[k] \in Seq(Chars)
  OBVIOUS
<1>2. Border \in Seq(Item) /\ Characters(Border) = <<>>
  <2>1. [kind |-> "border"] \in Item /\ [kind |-> "border"] \notin CharItem
    BY DEF Item, CharItem
  <2> QED
    BY <2>1, CharactersOfNone DEF Border
<1>3. \A k \in 1..n : Of(k) \in Seq(Item) /\ Characters(Of(k)) = positional[k]
  <2> TAKE k \in 1..n
  <2>1. Fixed(positional[k]) \in Seq(Item) /\ Characters(Fixed(positional[k])) = positional[k]
    BY <1>1, FixedFacts
  <2>2. Border \o Fixed(positional[k]) \in Seq(Item)
    BY <1>2, <2>1
  <2>3. Characters(Border \o Fixed(positional[k])) = <<>> \o positional[k]
    BY <1>2, <2>1, CharactersConcat
  <2>4. <<>> \o positional[k] = positional[k]
    BY <1>1
  <2> QED
    BY <2>1, <2>2, <2>3, <2>4
<1>4. Bordered(positional) = FlattenSeq(s)
  BY DEF Bordered
<1> HIDE DEF Of
<1>5. s \in Seq(Seq(Item)) /\ Len(s) = n /\ \A k \in 1..n : Characters(s[k]) = positional[k]
  BY <1>1, <1>3
<1> HIDE DEF s
<1> QED
  BY <1>4, <1>5, FlattenCharacters, FlattenType

(* What a state of _field_split holds of the value read so far.            *)
Splitting == [pieces : Seq(Seq(Chars)), current : Seq(Chars),
              run : {"none", "blanks", "marks"}]
Held(s) == FlattenSeq(s.pieces) \o s.current

LEMMA HeldType == \A s \in Splitting : Held(s) \in Seq(Chars)
<1> TAKE s \in Splitting
<1>1. s.pieces \in Seq(Seq(Chars)) /\ s.current \in Seq(Chars)
  BY DEF Splitting
<1>2. FlattenSeq(s.pieces) \in Seq(Chars)
  BY <1>1, FlattenType
<1> QED
  BY <1>1, <1>2 DEF Held

LEMMA EndRunHolds ==
  ASSUME NEW s \in Splitting
  PROVE  EndRun(s) \in Splitting /\ Held(EndRun(s)) = Held(s)
<1>1. s.pieces \in Seq(Seq(Chars)) /\ s.current \in Seq(Chars)
  BY DEF Splitting
<1>2. CASE s.run = "marks" \/ (s.run = "blanks" /\ s.current # <<>>)
  <2> DEFINE longer == Append(s.pieces, s.current)
  <2>0. longer \in Seq(Seq(Chars)) /\ <<>> \in Seq(Chars)
    BY <1>1
  <2>1. /\ EndRun(s).pieces = longer /\ EndRun(s).current = <<>>
        /\ EndRun(s) \in Splitting
    <3>1. EndRun(s) = [[s EXCEPT !.pieces = longer, !.current = <<>>] EXCEPT !.run = "none"]
      BY <1>2 DEF EndRun, Cut
    <3> HIDE DEF longer
    <3> QED
      BY <2>0, <3>1 DEF Splitting
  <2>2. FlattenSeq(Append(s.pieces, s.current)) = Held(s)
    BY <1>1, FlattenAppend DEF Held
  <2>3. Held(s) \o <<>> = Held(s)
    BY HeldType, ConcatEmptySeq
  <2> QED
    BY <2>1, <2>2, <2>3 DEF Held
<1>3. CASE ~(s.run = "marks" \/ (s.run = "blanks" /\ s.current # <<>>))
  <2>1. /\ EndRun(s).pieces = s.pieces /\ EndRun(s).current = s.current
        /\ EndRun(s) \in Splitting
    BY <1>3 DEF EndRun, Splitting
  <2> QED
    BY <2>1 DEF Held
<1> QED
  BY <1>2, <1>3

LEMMA ReadCharHolds ==
  ASSUME ifs \in SUBSET (Blanks \cup Marks), NEW s \in Splitting, NEW c \in Chars
  PROVE  /\ ReadChar(s, c) \in Splitting
         /\ Held(ReadChar(s, c)) = IF c \in Chars \ ifs THEN Append(Held(s), c) ELSE Held(s)
<1> DEFINE e == EndRun(s)
<1>1. e \in Splitting /\ Held(e) = Held(s)
  BY EndRunHolds
<1>2. \A r \in {"none", "blanks", "marks"}, u \in Splitting :
        [u EXCEPT !.run = r] \in Splitting /\ Held([u EXCEPT !.run = r]) = Held(u)
  BY DEF Splitting, Held
<1>3. CASE c \in ifs \cap Marks
  <2>1. CASE ifs \cap Blanks = {}
    <3>1. ReadChar(s, c) = [e EXCEPT !.run = "marks"]
      BY <1>3, <2>1 DEF ReadChar
    <3> QED
      BY <1>1, <1>2, <1>3, <3>1
  <2>2. CASE ifs \cap Blanks # {}
    <3>1. ReadChar(s, c) = [s EXCEPT !.run = "marks"]
      BY <1>3, <2>2, CharAssumption DEF ReadChar
    <3> QED
      BY <1>2, <1>3, <3>1
  <2> QED
    BY <2>1, <2>2
<1>4. CASE c \in ifs \cap Blanks /\ c \notin ifs \cap Marks
  <2>1. ReadChar(s, c) = [s EXCEPT !.run = IF s.run = "none" THEN "blanks" ELSE s.run]
    BY <1>4 DEF ReadChar
  <2>2. (IF s.run = "none" THEN "blanks" ELSE s.run) \in {"none", "blanks", "marks"}
    BY DEF Splitting
  <2> QED
    BY <1>2, <1>4, <2>1, <2>2
<1>5. CASE c \notin ifs
  <2>1. ReadChar(s, c) = [e EXCEPT !.current = Append(e.current, c)]
    BY <1>5 DEF ReadChar
  <2> HIDE DEF e
  <2>2. e.pieces \in Seq(Seq(Chars)) /\ e.current \in Seq(Chars)
    BY <1>1 DEF Splitting
  <2> DEFINE longer == Append(e.current, c)
  <2>6. longer \in Seq(Chars)
    BY <2>2
  <2>3. /\ ReadChar(s, c).pieces = e.pieces
        /\ ReadChar(s, c).current = longer /\ ReadChar(s, c) \in Splitting
    <3> HIDE DEF longer
    <3> QED
      BY <1>1, <2>1, <2>6 DEF longer, Splitting
  <2>4. \A u \in Seq(Chars), v \in Seq(Chars) : u \o Append(v, c) = Append(u \o v, c)
    OBVIOUS
  <2>5. FlattenSeq(e.pieces) \in Seq(Chars)
    BY <2>2, FlattenType
  <2> QED
    BY <1>1, <1>5, <2>2, <2>3, <2>4, <2>5 DEF Held
<1> QED
  BY <1>3, <1>4, <1>5

StartSplit == [pieces |-> <<>>, current |-> <<>>, run |-> "none"]

LEMMA AllReadByRecursion ==
  ASSUME ifs \in SUBSET (Blanks \cup Marks), NEW value \in Seq(Chars)
  PROVE  \E a \in [0..Len(value) -> Splitting] :
           /\ a[0] = StartSplit /\ AllRead(value) = a[Len(value)]
           /\ \A k \in 1..Len(value) : a[k] = ReadChar(a[k - 1], value[k])
<1> DEFINE n == Len(value)
           V == Splitting
           start == [pieces |-> <<>>, current |-> <<>>, run |-> "none"]
           Is(f) == f = [k \in 0..n |-> IF k = 0 THEN start ELSE ReadChar(f[k - 1], value[k])]
           F == [k \in 1..n |-> [t \in V |-> ReadChar(t, value[k])]]
<1>1. n \in Nat /\ \A k \in 1..n : value[k] \in Chars
  OBVIOUS
<1>2. start \in V /\ start = StartSplit
  BY DEF Splitting, StartSplit
<1>3. \A t \in V, c \in Chars : ReadChar(t, c) \in V
  BY ReadCharHolds
<1>4. AllRead(value) = (CHOOSE f : Is(f))[n]
  BY DEF AllRead
<1> HIDE DEF n, V, start
<1>5. F \in StepFunctions(n, V)
  BY <1>1, <1>3 DEF StepFunctions
<1>6. \A k \in 1..n, t \in V : F[k][t] = ReadChar(t, value[k])
  OBVIOUS
<1> HIDE DEF F
<1>7. PICK r \in [0..n -> V] : Iterates(r, F, start, n)
  BY <1>1, <1>2, <1>5, Recursion
<1>8. r[0] = start /\ \A k \in 1..n : /\ k - 1 \in 0..n /\ r[k - 1] \in V
                                      /\ r[k] = ReadChar(r[k - 1], value[k])
  <2>1. \A k \in 1..n : k - 1 \in 0..n
    BY <1>1
  <2> QED
    BY <1>6, <1>7, <2>1 DEF Iterates
<1>9. Is(r)
  <2>1. \A k \in 0..n : r[k] = IF k = 0 THEN start ELSE ReadChar(r[k - 1], value[k])
    <3> TAKE k \in 0..n
    <3>1. k = 0 \/ k \in 1..n
      BY <1>1
    <3> QED
      BY <1>8, <3>1
  <2> QED
    BY <1>7, <2>1
<1> DEFINE a == CHOOSE f : Is(f)
<1>10. Is(a) /\ AllRead(value) = a[n]
  BY <1>4, <1>9
<1> HIDE DEF a
<1>11. a[0] = start /\ \A k \in 1..n : a[k] = ReadChar(a[k - 1], value[k])
  <2>1. 0 \in 0..n /\ \A k \in 1..n : k \in 0..n /\ k # 0
    BY <1>1
  <2> QED
    BY <1>10, <2>1
<1>12. DOMAIN a = 0..n /\ a = [k \in 0..n |-> a[k]]
  BY <1>10
<1> HIDE DEF Is
<1> DEFINE T == {k \in 0..n : a[k] \in V}
<1>13. 0 \in T
  BY <1>1, <1>2, <1>11
<1>14. \A k \in 1..n : k - 1 \in T => k \in T
  <2> TAKE k \in 1..n
  <2>1. k \in 0..n /\ value[k] \in Chars
    BY <1>1
  <2> QED
    BY <1>3, <1>11, <2>1
<1>15. \A k \in T : a[k] \in V
  OBVIOUS
<1> HIDE DEF T
<1>16. 0..n \subseteq T
  BY <1>1, <1>13, <1>14, Induction
<1>17. a \in [0..n -> V]
  BY <1>12, <1>15, <1>16
<1> QED
  BY <1>2, <1>10, <1>11, <1>17 DEF n, V

LEMMA AllReadHolds ==
  ASSUME ifs \in SUBSET (Blanks \cup Marks), NEW value \in Seq(Chars)
  PROVE  AllRead(value) \in Splitting /\ Held(AllRead(value)) = Keep(value, Chars \ ifs)
<1> DEFINE n == Len(value)
           V == Splitting
           S == Chars \ ifs
<1>1. n \in Nat /\ \A k \in 1..n : value[k] \in Chars
  OBVIOUS
<1>2. Held(StartSplit) = <<>>
  <2>1. FlattenSeq(<<>>) \o <<>> = <<>>
    BY FlattenEmpty
  <2> QED
    BY <2>1 DEF StartSplit, Held
<1>3. \A t \in V, c \in Chars :
        Held(ReadChar(t, c)) = IF c \in S THEN Append(Held(t), c) ELSE Held(t)
  BY ReadCharHolds
<1>4. PICK g \in [0..n -> Seq(Chars)] : Selects(g, value, S) /\ Keep(value, S) = g[n]
  BY KeepByRecursion
<1>5. /\ g[0] = <<>>
      /\ \A k \in 1..n : g[k] = IF value[k] \in S THEN Append(g[k - 1], value[k]) ELSE g[k - 1]
  BY <1>4 DEF Selects
<1>6. PICK a \in [0..n -> V] :
        /\ a[0] = StartSplit /\ AllRead(value) = a[n]
        /\ \A k \in 1..n : a[k] = ReadChar(a[k - 1], value[k])
  BY AllReadByRecursion
<1> HIDE DEF n, V, S
<1> DEFINE T == {k \in 0..n : Held(a[k]) = g[k]}
<1>7. 0 \in T
  BY <1>1, <1>2, <1>5, <1>6
<1>8. \A k \in 1..n : k - 1 \in T => k \in T
  <2> TAKE k \in 1..n
  <2>1. k \in 0..n /\ k - 1 \in 0..n /\ value[k] \in Chars
    BY <1>1
  <2>2. a[k - 1] \in V
    BY <1>6, <2>1
  <2> QED
    BY <1>3, <1>5, <1>6, <2>1, <2>2
<1>9. \A k \in T : Held(a[k]) = g[k]
  OBVIOUS
<1> HIDE DEF T
<1>10. n \in T
  <2>1. 0..n \subseteq T
    BY <1>1, <1>7, <1>8, Induction
  <2> QED
    BY <1>1, <2>1
<1>11. a[n] \in V
  BY <1>1, <1>6
<1> QED
  BY <1>4, <1>6, <1>9, <1>10, <1>11 DEF S, V

LEMMA FieldSplitFacts ==
  ASSUME ifs \in SUBSET (Blanks \cup Marks), NEW value \in Seq(Chars)
  PROVE  /\ FieldSplit(value) \in Seq(Seq(Chars))
         /\ FlattenSeq(FieldSplit(value)) = Keep(value, Chars \ ifs)
<1>1. CASE value = <<>>
  <2>1. FieldSplit(value) = <<>> /\ <<>> \in Seq(Seq(Chars))
    BY <1>1 DEF FieldSplit
  <2> QED
    BY <1>1, <2>1, FlattenEmpty, KeepEmpty
<1>2. CASE value # <<>>
  <2> DEFINE s == AllRead(value)
             e == EndRun(s)
  <2>1. e \in Splitting /\ Held(e) = Keep(value, Chars \ ifs)
    BY AllReadHolds, EndRunHolds
  <2>2. FieldSplit(value) = IF e.current # <<>> \/ s.run = "marks"
                            THEN Append(e.pieces, e.current) ELSE e.pieces
    BY <1>2 DEF FieldSplit
  <2> HIDE DEF e, s
  <2>3. e.pieces \in Seq(Seq(Chars)) /\ e.current \in Seq(Chars)
    BY <2>1 DEF Splitting
  <2>4. /\ Append(e.pieces, e.current) \in Seq(Seq(Chars))
        /\ FlattenSeq(Append(e.pieces, e.current)) = Held(e)
    <3>1. FlattenSeq(Append(e.pieces, e.current)) = FlattenSeq(e.pieces) \o e.current
      BY <2>3, FlattenAppend
    <3> QED
      BY <2>3, <3>1 DEF Held
  <2>5. e.current = <<>> => Held(e) = FlattenSeq(e.pieces)
    <3>1. FlattenSeq(e.pieces) \in Seq(Chars)
      BY <2>3, FlattenType
    <3> QED
      BY <3>1, ConcatEmptySeq DEF Held
  <2> QED
    BY <2>1, <2>2, <2>3, <2>4, <2>5
<1> QED
  BY <1>1, <1>2

Joint(fs) == FlattenSeq(Resolved(fs))

IsConcat(w, u, v) ==
  /\ Len(u) \in Nat /\ Len(v) \in Nat /\ Len(w) = Len(u) + Len(v)
  /\ \A i \in 1..Len(u) : w[i] = u[i]
  /\ \A i \in 1..Len(v) : w[Len(u) + i] = v[i]

LEMMA Concatenated ==
  ASSUME NEW E, NEW u \in Seq(E), NEW v \in Seq(E)
  PROVE  IsConcat(u \o v, u, v) /\ u \o v \in Seq(E)
BY DEF IsConcat

LEMMA ResolvedFacts ==
  ASSUME NEW fs \in Seq(Field)
  PROVE  Resolved(fs) \in Seq(Seq(Chars)) /\ Len(Resolved(fs)) = Len(fs)
         /\ \A i \in 1..Len(fs) : Resolved(fs)[i] = fs[i].text /\ fs[i].text \in Seq(Chars)
<1>1. Len(fs) \in Nat /\ \A i \in 1..Len(fs) : fs[i].text \in Seq(Chars)
  <2>1. \A f \in Field : f.text \in Seq(Chars)
    BY DEF Field
  <2>2. Len(fs) \in Nat /\ \A i \in 1..Len(fs) : fs[i] \in Field
    OBVIOUS
  <2> QED
    BY <2>1, <2>2
<1> QED
  BY <1>1 DEF Resolved

LEMMA GrowFacts ==
  ASSUME NEW fs \in Seq(Field), Len(fs) > 0, NEW text \in Seq(Chars), NEW keep \in BOOLEAN
  PROVE  /\ Grow(fs, text, keep) \in Seq(Field) /\ Len(Grow(fs, text, keep)) = Len(fs)
         /\ Joint(Grow(fs, text, keep)) = Joint(fs) \o text
<1> DEFINE n == Len(fs)
           f == fs[n]
           longer == f.text \o text
           flag == f.keep \/ (keep /\ text = <<>> /\ f.text = <<>>)
           new == [text |-> longer, keep |-> flag]
           front == [i \in 1..(n - 1) |-> fs[i].text]
           grown == Grow(fs, text, keep)
<1>0. \A u \in Seq(Chars), v \in Seq(Chars), w \in Seq(Chars) : (u \o v) \o w = u \o (v \o w)
  BY ConcatAssociative
<1>1. n \in Nat /\ n > 0 /\ f \in Field /\ \A i \in 1..n : fs[i] \in Field
  OBVIOUS
<1>2. f.text \in Seq(Chars) /\ longer \in Seq(Chars) /\ flag \in BOOLEAN
  <2>1. f.text \in Seq(Chars) /\ f.keep \in BOOLEAN
    BY <1>1 DEF Field
  <2> QED
    BY <2>1
<1>3. grown = [fs EXCEPT ![n] = new]
  BY DEF Grow
<1>4. new \in Field /\ new.text = longer
  BY <1>2 DEF Field
<1> HIDE DEF new, grown
<1>5. grown \in Seq(Field) /\ Len(grown) = n /\ grown[n] = new
      /\ \A i \in 1..(n - 1) : grown[i] = fs[i]
  BY <1>1, <1>3, <1>4
<1>6. front \in Seq(Seq(Chars)) /\ Len(front) = n - 1
      /\ \A i \in 1..(n - 1) : front[i] = fs[i].text
  <2>1. \A i \in 1..n : fs[i].text \in Seq(Chars)
    BY ResolvedFacts
  <2> HIDE DEF n
  <2>2. \A i \in 1..(n - 1) : i \in 1..n
    BY <1>1
  <2> QED
    BY <1>1, <2>1, <2>2
<1>7. \A gs \in Seq(Field), t \in Seq(Chars) :
        Len(gs) = n /\ gs[n].text = t /\ (\A i \in 1..(n - 1) : gs[i] = fs[i])
          => Joint(gs) = FlattenSeq(front) \o t
  <2> SUFFICES ASSUME NEW gs \in Seq(Field), NEW t \in Seq(Chars), Len(gs) = n,
                      gs[n].text = t, \A i \in 1..(n - 1) : gs[i] = fs[i]
               PROVE  Joint(gs) = FlattenSeq(front) \o t
    OBVIOUS
  <2> HIDE DEF n, front
  <2>1. /\ Resolved(gs) \in Seq(Seq(Chars)) /\ Len(Resolved(gs)) = n
        /\ \A i \in 1..n : Resolved(gs)[i] = gs[i].text
    BY ResolvedFacts
  <2>2. /\ Append(front, t) \in Seq(Seq(Chars)) /\ Len(Append(front, t)) = n
        /\ Append(front, t)[n] = t
        /\ \A i \in 1..(n - 1) : Append(front, t)[i] = front[i]
    BY <1>1, <1>6
  <2>3. \A i \in 1..n : Resolved(gs)[i] = Append(front, t)[i]
    <3> TAKE i \in 1..n
    <3>1. i = n \/ i \in 1..(n - 1)
      BY <1>1
    <3> QED
      BY <1>6, <2>1, <2>2, <3>1
  <2>4. Resolved(gs) = Append(front, t)
    BY <2>1, <2>2, <2>3, SeqEqual
  <2> QED
    BY <1>6, <2>4, FlattenAppend DEF Joint
<1>8. FlattenSeq(front) \in Seq(Chars)
  BY <1>6, FlattenType
<1>9. Joint(fs) = FlattenSeq(front) \o f.text
  BY <1>2, <1>7
<1>10. Joint(grown) = FlattenSeq(front) \o longer
  <2> HIDE DEF longer, front, n
  <2> QED
    BY <1>2, <1>4, <1>5, <1>7
<1>11. (FlattenSeq(front) \o f.text) \o text = FlattenSeq(front) \o longer
  BY <1>0, <1>2, <1>8
<1> QED
  BY <1>5, <1>9, <1>10, <1>11 DEF grown

LEMMA FanOutFacts ==
  ASSUME NEW fs \in Seq(Field), Len(fs) > 0, NEW pieces \in Seq(Seq(Chars)),
         NEW keep \in BOOLEAN
  PROVE  /\ FanOut(fs, pieces, keep) \in Seq(Field) /\ Len(FanOut(fs, pieces, keep)) > 0
         /\ Joint(FanOut(fs, pieces, keep)) = Joint(fs) \o FlattenSeq(pieces)
<1>0. \A u \in Seq(Chars), v \in Seq(Chars), w \in Seq(Chars) : (u \o v) \o w = u \o (v \o w)
  BY ConcatAssociative
<1>1. Joint(fs) \in Seq(Chars)
  BY ResolvedFacts, FlattenType DEF Joint
<1>2. CASE pieces = <<>>
  <2>1. FanOut(fs, pieces, keep) = fs
    BY <1>2 DEF FanOut
  <2>2. FlattenSeq(pieces) = <<>>
    BY <1>2, FlattenEmpty
  <2> QED
    BY <1>1, <2>1, <2>2, ConcatEmptySeq
<1>3. CASE pieces # <<>>
  <2> DEFINE n == Len(pieces)
             first == pieces[1]
             rest == [i \in 1..(n - 1) |-> pieces[i + 1]]
             new == [i \in 1..(n - 1) |->
                       [text |-> pieces[i + 1], keep |-> keep /\ pieces[i + 1] = <<>>]]
             grown == Grow(fs, first, keep)
             fanned == FanOut(fs, pieces, keep)
  <2>1. n \in Nat /\ n > 0 /\ first \in Seq(Chars)
        /\ \A i \in 1..(n - 1) : i + 1 \in 1..n /\ pieces[i + 1] \in Seq(Chars)
    BY <1>3
  <2>2. /\ grown \in Seq(Field) /\ Len(grown) = Len(fs)
        /\ Joint(grown) = Joint(fs) \o first
    BY <2>1, GrowFacts
  <2>3. fanned = grown \o new
    BY <1>3 DEF FanOut
  <2>4. new \in Seq(Field) /\ Len(new) = n - 1
        /\ \A i \in 1..(n - 1) : new[i].text = pieces[i + 1]
    <3>1. \A i \in 1..(n - 1) :
            [text |-> pieces[i + 1], keep |-> keep /\ pieces[i + 1] = <<>>] \in Field
      BY <2>1 DEF Field
    <3> QED
      BY <2>1, <3>1
  <2>5. rest \in Seq(Seq(Chars)) /\ Len(rest) = n - 1
        /\ \A i \in 1..(n - 1) : rest[i] = pieces[i + 1]
    BY <2>1
  <2> HIDE DEF grown, new, fanned
  <2>6. fanned \in Seq(Field) /\ Len(fanned) > 0
    BY <2>2, <2>3, <2>4
  <2>7. Resolved(fanned) = Resolved(grown) \o rest
    <3>1. /\ Resolved(grown) \in Seq(Seq(Chars)) /\ Len(Resolved(grown)) = Len(grown)
          /\ \A i \in 1..Len(grown) : Resolved(grown)[i] = grown[i].text
      BY <2>2, ResolvedFacts
    <3>2. /\ Resolved(fanned) \in Seq(Seq(Chars)) /\ Len(Resolved(fanned)) = Len(fanned)
          /\ \A i \in 1..Len(fanned) : Resolved(fanned)[i] = fanned[i].text
      BY <2>6, ResolvedFacts
    <3> HIDE DEF rest, n
    <3> DEFINE g == Len(grown)
               joined == Resolved(grown) \o rest
    <3>3. /\ g \in Nat /\ Len(fanned) = g + (n - 1)
          /\ \A i \in 1..g : fanned[i] = grown[i]
          /\ \A i \in 1..(n - 1) : fanned[g + i] = new[i]
      <4>1. IsConcat(grown \o new, grown, new)
        BY <2>2, <2>4, Concatenated
      <4> QED
        BY <2>3, <2>4, <4>1 DEF IsConcat
    <3>4. /\ joined \in Seq(Seq(Chars)) /\ Len(joined) = g + (n - 1)
          /\ \A i \in 1..g : joined[i] = Resolved(grown)[i]
          /\ \A i \in 1..(n - 1) : joined[g + i] = rest[i]
      <4>1. IsConcat(joined, Resolved(grown), rest) /\ joined \in Seq(Seq(Chars))
        BY <2>5, <3>1, Concatenated
      <4> QED
        BY <2>5, <3>1, <4>1 DEF IsConcat
    <3> HIDE DEF g, joined
    <3>5. ASSUME NEW i \in 1..Len(fanned) PROVE Resolved(fanned)[i] = joined[i]
      <4>1. CASE i \in 1..g
        BY <3>1, <3>2, <3>3, <3>4, <4>1 DEF g
      <4>2. CASE i \notin 1..g
        <5>1. i - g \in 1..(n - 1) /\ g + (i - g) = i
          BY <2>1, <3>3, <4>2
        <5>2. fanned[i] = new[i - g] /\ joined[i] = rest[i - g]
          BY <3>3, <3>4, <5>1
        <5> QED
          BY <2>4, <2>5, <3>2, <5>1, <5>2
      <4> QED
        BY <4>1, <4>2
    <3>6. Resolved(fanned) = joined
      BY <3>2, <3>3, <3>4, <3>5, SeqEqual
    <3> QED
      BY <3>6 DEF joined
  <2>8. pieces = <<first>> \o rest
    <3>1. <<first>> \in Seq(Seq(Chars)) /\ Len(<<first>>) = 1
      BY <2>1
    <3>2. <<first>> \o rest \in Seq(Seq(Chars)) /\ Len(<<first>> \o rest) = n
      BY <2>1, <2>5, <3>1
    <3>3. \A i \in 1..n : (<<first>> \o rest)[i] = pieces[i]
      BY <2>1, <2>5, <3>1
    <3> QED
      BY <3>2, <3>3, SeqEqual
  <2>9. /\ FlattenSeq(pieces) = first \o FlattenSeq(rest)
        /\ Joint(fanned) = Joint(grown) \o FlattenSeq(rest)
        /\ FlattenSeq(rest) \in Seq(Chars)
    <3> HIDE DEF rest, first
    <3>1. <<first>> \in Seq(Seq(Chars)) /\ FlattenSeq(<<first>>) = first
      BY <2>1, FlattenOne
    <3>2. FlattenSeq(<<first>> \o rest) = FlattenSeq(<<first>>) \o FlattenSeq(rest)
      BY <2>5, <3>1, FlattenConcat
    <3>3. Resolved(grown) \in Seq(Seq(Chars))
      BY <2>2, ResolvedFacts
    <3>4. FlattenSeq(Resolved(grown) \o rest) = FlattenSeq(Resolved(grown)) \o FlattenSeq(rest)
      BY <2>5, <3>3, FlattenConcat
    <3>5. FlattenSeq(rest) \in Seq(Chars)
      BY <2>5, FlattenType
    <3> QED
      BY <2>7, <2>8, <3>1, <3>2, <3>4, <3>5 DEF Joint
  <2>10. (Joint(fs) \o first) \o FlattenSeq(rest) = Joint(fs) \o (first \o FlattenSeq(rest))
    BY <1>0, <1>1, <2>1, <2>9
  <2> QED
    BY <2>2, <2>6, <2>9, <2>10 DEF fanned
<1> QED
  BY <1>2, <1>3

(* Fields and word hold the same characters; what the two consist of is    *)
(* needed to say what a part adds to each.                                 *)
Expansion ==
  /\ ifs \in SUBSET (Blanks \cup Marks) /\ parts \in Nat
  /\ fields \in Seq(Field) /\ Len(fields) > 0
  /\ word \in Seq(Item)
  /\ OnlyDelimitersLost

LEMMA InputTypes ==
  /\ \A text \in Strings : text \in Seq(Chars)
  /\ \A positional \in Positionals : positional \in Seq(Seq(Chars))
<1>1. \A E, m : \A s \in BoundedSeq(E, m) : s \in Seq(E)
  BY DEF BoundedSeq, SeqOf
<1>2. {<<>>} \cup {<<c>> : c \in Letters} \subseteq Seq(Chars)
  <2>1. \A c \in Letters : <<c>> \in Seq(Chars)
    BY DEF Chars
  <2>2. <<>> \in Seq(Chars)
    OBVIOUS
  <2> QED
    BY <2>1, <2>2
<1>3. \A E, F : E \subseteq F => Seq(E) \subseteq Seq(F)
  OBVIOUS
<1> QED
  BY <1>1, <1>2, <1>3 DEF Strings, Positionals

(* One word and one field, both empty, as Init and EndWord leave them.     *)
LEMMA EmptyWord ==
  /\ <<NewField>> \in Seq(Field) /\ Len(<<NewField>>) = 1
  /\ Joint(<<NewField>>) = Characters(<<>>) /\ <<>> \in Seq(Item)
<1> DEFINE fs == <<NewField>>
<1>1. NewField \in Field /\ NewField.text = <<>>
  BY DEF NewField, Field
<1>2. fs \in Seq(Field) /\ Len(fs) = 1 /\ fs[1] = NewField
  BY <1>1
<1> HIDE DEF fs
<1>3. Resolved(fs) = << <<>> >>
  BY <1>1, <1>2 DEF Resolved
<1>4. FlattenSeq(<< <<>> >>) = <<>>
  <2>1. <<>> \in Seq({})
    OBVIOUS
  <2> QED
    BY <2>1, FlattenOne
<1> QED
  BY <1>2, <1>3, <1>4, CharactersEmpty DEF Joint, fs

(* A part that adds the same characters to the fields and to the word.     *)
LEMMA SameAdded ==
  ASSUME Expansion, Part, NEW text \in Seq(Chars), NEW items \in Seq(Item),
         fields' \in Seq(Field), Len(fields') > 0, Joint(fields') = Joint(fields) \o text,
         word' = word \o items, Characters(items) = text
  PROVE  Expansion'
<1>1. Characters(word \o items) = Characters(word) \o text
  BY CharactersConcat DEF Expansion
<1>2. Joint(fields') = Characters(word')
  BY <1>1 DEF Expansion, OnlyDelimitersLost, Joint
<1>3. word' \in Seq(Item)
  BY DEF Expansion
<1>4. OnlyDelimitersLost'
  BY <1>2 DEF OnlyDelimitersLost, Joint, Resolved, Characters
<1> QED
  BY <1>3, <1>4 DEF Expansion, Part

LEMMA StepKeepsExpansion ==
  ASSUME Expansion, [FieldNext]_fieldVars
  PROVE  Expansion'
<1>1. CASE UNCHANGED fieldVars
  BY <1>1 DEF fieldVars, Expansion, OnlyDelimitersLost, Resolved, Characters
<1>2. ASSUME NEW text \in Strings, AddText(text) \/ AddQuoted(text) PROVE Expansion'
  <2>1. text \in Seq(Chars)
    BY InputTypes
  <2>2. PICK keep \in BOOLEAN : fields' = Grow(fields, text, keep)
    BY <1>2 DEF AddText, AddQuoted
  <2>3. fields' \in Seq(Field) /\ Len(fields') > 0 /\ Joint(fields') = Joint(fields) \o text
    BY <2>1, <2>2, GrowFacts DEF Expansion
  <2>4. Part /\ word' = word \o Fixed(text)
    BY <1>2 DEF AddText, AddQuoted
  <2> QED
    BY <2>1, <2>3, <2>4, FixedFacts, SameAdded
<1>3. ASSUME NEW value \in Strings, AddExpansion(value) PROVE Expansion'
  <2>1. value \in Seq(Chars)
    BY InputTypes
  <2> DEFINE text == Keep(value, Chars \ ifs)
  <2>2. text \in Seq(Chars)
    <3>1. Chars \cap (Chars \ ifs) \subseteq Chars
      OBVIOUS
    <3>2. text \in Seq(Chars \cap (Chars \ ifs))
      BY <2>1, KeepType
    <3> QED
      BY <3>1, <3>2
  <2>3. Open(value) \in Seq(Item) /\ Characters(Open(value)) = text
    BY <2>1, OpenFacts DEF Expansion
  <2>4. fields' \in Seq(Field) /\ Len(fields') > 0 /\ Joint(fields') = Joint(fields) \o text
    <3>1. CASE ifs = {}
      <4>1. text = value
        BY <2>1, <3>1, KeepAll
      <4>2. fields' = Grow(fields, value, FALSE)
        BY <1>3, <3>1 DEF AddExpansion
      <4> QED
        BY <2>1, <4>1, <4>2, GrowFacts DEF Expansion
    <3>2. CASE ifs # {}
      <4>1. fields' = FanOut(fields, FieldSplit(value), Hard) /\ Hard \in BOOLEAN
        BY <1>3, <3>2 DEF AddExpansion, Hard
      <4>2. FieldSplit(value) \in Seq(Seq(Chars)) /\ FlattenSeq(FieldSplit(value)) = text
        BY <2>1, FieldSplitFacts DEF Expansion
      <4> HIDE DEF text
      <4> QED
        BY <4>1, <4>2, FanOutFacts DEF Expansion
    <3> QED
      BY <3>1, <3>2
  <2>5. Part /\ word' = word \o Open(value)
    BY <1>3 DEF AddExpansion
  <2> HIDE DEF text
  <2> QED
    BY <2>2, <2>3, <2>4, <2>5, SameAdded
<1>4. ASSUME NEW positional \in Positionals, AddAll(positional) PROVE Expansion'
  <2>1. positional \in Seq(Seq(Chars))
    BY InputTypes
  <2>2. fields' = FanOut(fields, positional, TRUE) /\ Part
        /\ word' = word \o Bordered(positional)
    BY <1>4 DEF AddAll
  <2>3. fields' \in Seq(Field) /\ Len(fields') > 0
        /\ Joint(fields') = Joint(fields) \o FlattenSeq(positional)
    BY <2>1, <2>2, FanOutFacts DEF Expansion
  <2>4. FlattenSeq(positional) \in Seq(Chars)
    BY <2>1, FlattenType
  <2>5. /\ Bordered(positional) \in Seq(Item)
        /\ Characters(Bordered(positional)) = FlattenSeq(positional)
    BY <2>1, BorderedFacts
  <2> QED
    BY <2>2, <2>3, <2>4, <2>5, SameAdded
<1>5. CASE EndWord
  <2>1. fields' = <<NewField>> /\ word' = <<>> /\ parts' = 0 /\ ifs' = ifs
    BY <1>5 DEF EndWord
  <2>2. Joint(fields') = Characters(word')
    BY <2>1, EmptyWord
  <2>3. OnlyDelimitersLost'
    BY <2>2 DEF OnlyDelimitersLost, Joint, Resolved, Characters
  <2> QED
    BY <2>1, <2>3, EmptyWord DEF Expansion
<1>6. CASE NextCommand
  BY <1>6 DEF NextCommand, Expansion, OnlyDelimitersLost, Resolved, Characters
<1> QED
  BY <1>1, <1>2, <1>3, <1>4, <1>5, <1>6 DEF FieldNext

(* Whatever the parts of a word, the fields it becomes have its characters *)
(* in their order, all of them but the delimiters that came out of an      *)
(* expansion (_extract_from_node, _field_split).                           *)
THEOREM CharactersAreKept == FieldSpec => []OnlyDelimitersLost
<1>1. FieldInit => Expansion
  <2> SUFFICES ASSUME FieldInit PROVE Expansion
    OBVIOUS
  <2> QED
    BY EmptyWord DEF FieldInit, Expansion, OnlyDelimitersLost, Joint
<1>2. Expansion /\ [FieldNext]_fieldVars => Expansion'
  BY StepKeepsExpansion
<1>3. Expansion => OnlyDelimitersLost
  BY DEF Expansion
<1> QED
  BY <1>1, <1>2, <1>3, PTL DEF FieldSpec

-----------------------------------------------------------------------------
(* The borders of a word, and what one more item changes.                  *)
Count(s, join) == Cardinality(Borders(s, join))
Opens(s, e, join) ==
  \/ e.kind = "border"
  \/ Delimiter(e) /\ ~(join /\ Len(s) > 0 /\ Joined(s[Len(s)], e))

LEMMA BordersFacts ==
  ASSUME NEW s \in Seq(Item), NEW join
  PROVE  /\ Borders(s, join) \subseteq 1..Len(s) /\ IsFiniteSet(Borders(s, join))
         /\ Count(s, join) \in Nat
         /\ \A i \in 1..Len(s) : Places(s, join)[i] \in 0..Count(s, join)
<1>1. Len(s) \in Nat /\ IsFiniteSet(1..Len(s))
  <2>1. Len(s) \in Nat
    OBVIOUS
  <2> QED
    BY <2>1, FS_Interval
<1>2. Borders(s, join) \subseteq 1..Len(s)
  BY DEF Borders
<1>3. IsFiniteSet(Borders(s, join))
  BY <1>1, <1>2, FS_Subset
<1>4. Count(s, join) \in Nat
  BY <1>3, FS_CardinalityType DEF Count
<1>5. ASSUME NEW i \in 1..Len(s) PROVE Places(s, join)[i] \in 0..Count(s, join)
  <2> DEFINE before == {b \in Borders(s, join) : b <= i}
  <2>1. before \in SUBSET Borders(s, join)
    OBVIOUS
  <2>2. Places(s, join)[i] = Cardinality(before)
    BY DEF Places
  <2> HIDE DEF before
  <2>3. IsFiniteSet(before) /\ Cardinality(before) <= Count(s, join)
    BY <1>3, <2>1, FS_Subset DEF Count
  <2>4. Cardinality(before) \in Nat
    BY <2>3, FS_CardinalityType
  <2> QED
    BY <1>4, <2>2, <2>3, <2>4
<1> QED
  BY <1>2, <1>3, <1>4, <1>5

LEMMA BordersAppend ==
  ASSUME NEW s \in Seq(Item), NEW e \in Item, NEW join
  PROVE  /\ Count(Append(s, e), join)
              = Count(s, join) + (IF Opens(s, e, join) THEN 1 ELSE 0)
         /\ Places(Append(s, e), join)[Len(s) + 1] = Count(Append(s, e), join)
         /\ \A i \in 1..Len(s) : Places(Append(s, e), join)[i] = Places(s, join)[i]
<1> DEFINE longer == Append(s, e)
           n == Len(s)
           old == Borders(s, join)
           new == Borders(longer, join)
<1>1. /\ n \in Nat /\ Len(longer) = n + 1 /\ longer[n + 1] = e
      /\ \A i \in 1..n : longer[i] = s[i]
  OBVIOUS
<1>2. longer \in Seq(Item)
  OBVIOUS
<1> HIDE DEF longer, n
<1>3. old \subseteq 1..n /\ IsFiniteSet(old) /\ Count(s, join) \in Nat
  BY BordersFacts DEF n
<1>4. \A i \in 1..n : i \in new <=> i \in old
  <2> TAKE i \in 1..n
  <2>1. i \in 1..(n + 1) /\ (i > 1 => i - 1 \in 1..n)
    BY <1>1
  <2>2. i > 1 => longer[i - 1] = s[i - 1]
    BY <1>1, <2>1
  <2> QED
    BY <1>1, <2>1, <2>2 DEF Borders, n
<1>5. n + 1 \in new <=> Opens(s, e, join)
  <2>1. n + 1 \in 1..(n + 1) /\ (n + 1 > 1 <=> n > 0) /\ (n + 1) - 1 = n
    BY <1>1
  <2>2. n > 0 => longer[n] = s[n]
    BY <1>1
  <2> QED
    BY <1>1, <2>1, <2>2 DEF Borders, Opens, n
<1>6. new \subseteq 1..(n + 1)
  BY <1>1 DEF Borders
<1>7. new = IF Opens(s, e, join) THEN old \cup {n + 1} ELSE old
  <2>1. \A i \in 1..(n + 1) : i = n + 1 \/ i \in 1..n
    BY <1>1
  <2> HIDE DEF old, new
  <2>2. \A i \in new : i = n + 1 \/ i \in old
    BY <1>4, <1>6, <2>1
  <2>3. \A i \in old : i \in new /\ i # n + 1
    BY <1>1, <1>3, <1>4
  <2>4. CASE Opens(s, e, join)
    <3>1. n + 1 \in new
      BY <1>5, <2>4
    <3> DEFINE all == old \cup {n + 1}
    <3>2. \A x : x \in all <=> x \in old \/ x = n + 1
      OBVIOUS
    <3>3. \A x : x \in new <=> x \in all
      BY <2>2, <2>3, <3>1, <3>2
    <3> HIDE DEF all
    <3>4. new = all
      BY <3>3
    <3> QED
      BY <2>4, <3>4 DEF all
  <2>5. CASE ~Opens(s, e, join)
    <3>1. \A x : x \in new <=> x \in old
      BY <1>5, <2>2, <2>3, <2>5
    <3>2. new = old
      BY <3>1
    <3> QED
      BY <2>5, <3>2
  <2> QED
    BY <2>4, <2>5
<1>8. n + 1 \notin old
  BY <1>1, <1>3
<1>9. Cardinality(new) = Cardinality(old) + (IF Opens(s, e, join) THEN 1 ELSE 0)
  <2>1. Cardinality(old \cup {n + 1}) = Cardinality(old) + 1
    <3> HIDE DEF old
    <3> QED
      BY <1>3, <1>8, FS_AddElement
  <2>2. Cardinality(old) \in Nat
    BY <1>3 DEF Count
  <2> HIDE DEF old, new
  <2> QED
    BY <1>7, <2>1, <2>2
<1>10. Places(longer, join)[n + 1] = Cardinality(new)
  <2>1. n + 1 \in 1..Len(longer)
    BY <1>1
  <2>2. {b \in new : b <= n + 1} = new
    <3>1. \A b \in new : b <= n + 1
      BY <1>1, <1>6
    <3> HIDE DEF new
    <3> QED
      BY <3>1
  <2>3. Places(longer, join)[n + 1] = Cardinality({b \in new : b <= n + 1})
    BY <2>1 DEF Places
  <2> QED
    BY <2>2, <2>3
<1>11. ASSUME NEW i \in 1..n PROVE Places(longer, join)[i] = Places(s, join)[i]
  <2>1. i \in 1..Len(longer)
    BY <1>1
  <2>2. {b \in new : b <= i} = {b \in old : b <= i}
    <3>1. ~(n + 1 <= i)
      BY <1>1
    <3> HIDE DEF new, old
    <3> QED
      BY <1>7, <3>1
  <2>3. Places(longer, join)[i] = Cardinality({b \in new : b <= i})
    BY <2>1 DEF Places
  <2>4. Places(s, join)[i] = Cardinality({b \in old : b <= i})
    BY DEF Places, n
  <2> QED
    BY <2>2, <2>3, <2>4
<1> QED
  BY <1>9, <1>10, <1>11 DEF longer, n, Count

(* One gap: what is in it, and what one more item adds to it.              *)
GapOf(s, join, k) == Gap(s, Places(s, join), k)
HardItem(e) == Delimiter(e) /\ e.char \in Marks
NoGap == [text |-> <<>>, keep |-> FALSE]

LEMMA BorderItem == Border[1] \in Item /\ Border[1] \notin CharItem /\ Border = <<Border[1]>>
BY DEF Border, Item, CharItem

LEMMA CharactersNone ==
  ASSUME NEW s \in Seq(Item), \A i \in 1..Len(s) : s[i] \notin CharItem
  PROVE  Characters(s) = <<>>
<1>1. s \in Seq(Item \ CharItem)
  OBVIOUS
<1>2. (Item \ CharItem) \cap CharItem = {}
  OBVIOUS
<1>3. Keep(s, CharItem) \in Seq((Item \ CharItem) \cap CharItem)
  BY <1>1, KeepType
<1>4. \A t \in Seq({}) : t = <<>>
  OBVIOUS
<1>5. Keep(s, CharItem) = <<>>
  BY <1>2, <1>3, <1>4
<1>6. Text(<<>>) = <<>>
  BY DEF Text
<1> QED
  BY <1>5, <1>6, CharactersFacts

LEMMA CharactersAppend ==
  ASSUME NEW s \in Seq(Item), NEW e \in Item
  PROVE  Characters(Append(s, e))
           = IF e \in CharItem THEN Append(Characters(s), e.char) ELSE Characters(s)
<1>1. Append(s, e) = s \o <<e>> /\ <<e>> \in Seq(Item)
  BY AppendIsConcat
<1>2. Characters(Append(s, e)) = Characters(s) \o Characters(<<e>>)
  BY <1>1, CharactersConcat
<1>3. Characters(s) \in Seq(Chars)
  BY CharactersFacts
<1>4. CASE e \in CharItem
  <2>1. <<e>> \in Seq(CharItem) /\ Len(<<e>>) = 1 /\ \A k \in 1..Len(<<e>>) : <<e>>[k] \in CharItem
    BY <1>4
  <2>2. Keep(<<e>>, CharItem) = <<e>>
    BY <2>1, KeepAll
  <2>3. Text(<<e>>) = <<e.char>>
    BY DEF Text
  <2>4. Characters(<<e>>) = <<e.char>> /\ e.char \in Chars
    BY <1>1, <1>4, <2>2, <2>3, CharactersFacts DEF CharItem
  <2>5. Characters(s) \o <<e.char>> = Append(Characters(s), e.char)
    BY <1>3, <2>4, AppendIsConcat
  <2> QED
    BY <1>2, <1>4, <2>4, <2>5
<1>5. CASE e \notin CharItem
  <2>1. Characters(<<e>>) = <<>>
    BY <1>5, CharactersOfNone
  <2>2. Characters(s) \o <<>> = Characters(s)
    BY <1>3, ConcatEmptySeq
  <2> QED
    BY <1>2, <1>5, <2>1, <2>2
<1> QED
  BY <1>4, <1>5

LEMMA WithinFacts ==
  ASSUME NEW s \in Seq(Item), NEW at, NEW k
  PROVE  /\ Within(s, at, k) \in Seq(Item) /\ Len(Within(s, at, k)) = Len(s)
         /\ \A i \in 1..Len(s) :
              Within(s, at, k)[i] = IF at[i] = k THEN s[i] ELSE Border[1]
<1>1. Len(s) \in Nat /\ \A i \in 1..Len(s) : s[i] \in Item
  OBVIOUS
<1> QED
  BY <1>1, BorderItem DEF Within

LEMMA GapType ==
  ASSUME NEW s \in Seq(Item), NEW join, NEW k
  PROVE  /\ GapOf(s, join, k) \in Field
         /\ GapOf(s, join, k).text \in Seq(Chars) /\ GapOf(s, join, k).keep \in BOOLEAN
<1> DEFINE at == Places(s, join)
<1>1. Characters(Within(s, at, k)) \in Seq(Chars)
  BY WithinFacts, CharactersFacts
<1> HIDE DEF at
<1> DEFINE flag == \/ \E i \in 1..Len(s) : at[i] = k /\ s[i].kind \in {"char", "empty"}
                   \/ HasMark(s, at, k) \/ HasMark(s, at, k + 1)
<1>2. flag \in BOOLEAN
  OBVIOUS
<1>3. Gap(s, at, k) = [text |-> Characters(Within(s, at, k)), keep |-> flag]
  BY DEF Gap
<1> HIDE DEF flag
<1> QED
  BY <1>1, <1>2, <1>3 DEF GapOf, Field, at

LEMMA GapBeyond ==
  ASSUME NEW s \in Seq(Item), NEW join, NEW k \in Nat, k > Count(s, join)
  PROVE  GapOf(s, join, k) = NoGap
<1> DEFINE at == Places(s, join)
<1>1. \A i \in 1..Len(s) : at[i] # k /\ at[i] # k + 1
  <2>1. Count(s, join) \in Nat /\ \A i \in 1..Len(s) : at[i] \in 0..Count(s, join)
    BY BordersFacts
  <2> HIDE DEF at
  <2> QED
    BY <2>1
<1> HIDE DEF at
<1>2. Characters(Within(s, at, k)) = <<>>
  <2>1. Within(s, at, k) \in Seq(Item) /\ Len(Within(s, at, k)) = Len(s)
        /\ \A i \in 1..Len(s) : Within(s, at, k)[i] \notin CharItem
    BY <1>1, WithinFacts, BorderItem
  <2> QED
    BY <2>1, CharactersNone
<1>3. ~HasMark(s, at, k) /\ ~HasMark(s, at, k + 1)
  BY <1>1 DEF HasMark
<1>4. ~\E i \in 1..Len(s) : at[i] = k /\ s[i].kind \in {"char", "empty"}
  BY <1>1
<1> QED
  BY <1>2, <1>3, <1>4 DEF GapOf, Gap, NoGap, at

LEMMA GapAppend ==
  ASSUME NEW s \in Seq(Item), NEW e \in Item, NEW join, NEW k \in Nat
  PROVE  LET c == Count(Append(s, e), join)
             new == GapOf(Append(s, e), join, k)
             old == GapOf(s, join, k)
         IN /\ new.text = IF k = c /\ e \in CharItem THEN Append(old.text, e.char) ELSE old.text
            /\ new.keep <=> \/ old.keep
                            \/ k = c /\ e.kind \in {"char", "empty"}
                            \/ (k = c \/ k + 1 = c) /\ HardItem(e)
<1> DEFINE longer == Append(s, e)
           n == Len(s)
           at == Places(s, join)
           bt == Places(longer, join)
           c == Count(longer, join)
<1>1. /\ n \in Nat /\ Len(longer) = n + 1 /\ longer[n + 1] = e
      /\ \A i \in 1..n : longer[i] = s[i]
  OBVIOUS
<1>2. longer \in Seq(Item)
  OBVIOUS
<1>3. bt[n + 1] = c /\ \A i \in 1..n : bt[i] = at[i]
  BY BordersAppend
<1> HIDE DEF longer, n, at, bt, c
<1>4. \A i : i \in 1..(n + 1) <=> i \in 1..n \/ i = n + 1
  BY <1>1
<1> DEFINE e2 == IF c = k THEN e ELSE Border[1]
<1>5. Within(longer, bt, k) = Append(Within(s, at, k), e2)
  <2> DEFINE u == Within(longer, bt, k)
             v == Within(s, at, k)
  <2>1. /\ u \in Seq(Item) /\ Len(u) = n + 1
        /\ \A i \in 1..(n + 1) : u[i] = IF bt[i] = k THEN longer[i] ELSE Border[1]
    BY <1>1, <1>2, WithinFacts
  <2>2. /\ v \in Seq(Item) /\ Len(v) = n
        /\ \A i \in 1..n : v[i] = IF at[i] = k THEN s[i] ELSE Border[1]
    BY <1>1, WithinFacts DEF n
  <2>3. e2 \in Item
    BY BorderItem
  <2> HIDE DEF u, v, e2
  <2> DEFINE w == Append(v, e2)
  <2>4. /\ w \in Seq(Item) /\ Len(w) = n + 1 /\ w[n + 1] = e2
        /\ \A i \in 1..n : w[i] = v[i]
    BY <2>2, <2>3
  <2> HIDE DEF w
  <2>5. \A i \in 1..(n + 1) : u[i] = w[i]
    <3>1. u[n + 1] = w[n + 1]
      <4>1. n + 1 \in 1..(n + 1)
        BY <1>1
      <4> QED
        BY <1>1, <1>3, <2>1, <2>4, <4>1 DEF e2
    <3>2. \A i \in 1..n : u[i] = w[i]
      BY <1>1, <1>3, <1>4, <2>1, <2>2, <2>4
    <3> QED
      BY <1>4, <3>1, <3>2
  <2>6. u = w
    BY <2>1, <2>4, <2>5, SeqEqual
  <2> QED
    BY <2>6 DEF u, v, w
<1>6. Characters(Within(longer, bt, k))
        = IF k = c /\ e \in CharItem THEN Append(Characters(Within(s, at, k)), e.char)
          ELSE Characters(Within(s, at, k))
  <2>1. Within(s, at, k) \in Seq(Item) /\ e2 \in Item /\ (k # c => e2 \notin CharItem)
    BY WithinFacts, BorderItem
  <2> HIDE DEF e2
  <2>2. Characters(Append(Within(s, at, k), e2))
          = IF e2 \in CharItem THEN Append(Characters(Within(s, at, k)), e2.char)
            ELSE Characters(Within(s, at, k))
    BY <2>1, CharactersAppend
  <2>3. k = c => e2 = e
    BY DEF e2
  <2> QED
    BY <1>5, <2>1, <2>2, <2>3
<1>7. \A m : HasMark(longer, bt, m) <=> HasMark(s, at, m) \/ (m = c /\ HardItem(e))
  <2> TAKE m
  <2>1. HasMark(longer, bt, m) <=>
          \E i \in 1..(n + 1) : bt[i] = m /\ Delimiter(longer[i]) /\ longer[i].char \in Marks
    BY <1>1 DEF HasMark
  <2>2. HasMark(s, at, m) <=>
          \E i \in 1..n : at[i] = m /\ Delimiter(s[i]) /\ s[i].char \in Marks
    BY DEF HasMark, n
  <2>3. \A i \in 1..n : /\ bt[i] = at[i]
                        /\ HardItem(longer[i]) <=> HardItem(s[i])
    BY <1>1, <1>3
  <2> QED
    BY <1>1, <1>3, <1>4, <2>1, <2>2, <2>3 DEF HardItem
<1>8. (\E i \in 1..Len(longer) : bt[i] = k /\ longer[i].kind \in {"char", "empty"})
        <=> \/ \E i \in 1..n : at[i] = k /\ s[i].kind \in {"char", "empty"}
            \/ k = c /\ e.kind \in {"char", "empty"}
  BY <1>1, <1>3, <1>4
<1>9. /\ GapOf(longer, join, k).text = Characters(Within(longer, bt, k))
      /\ GapOf(s, join, k).text = Characters(Within(s, at, k))
      /\ GapOf(longer, join, k).keep <=>
           \/ \E i \in 1..Len(longer) : bt[i] = k /\ longer[i].kind \in {"char", "empty"}
           \/ HasMark(longer, bt, k) \/ HasMark(longer, bt, k + 1)
      /\ GapOf(s, join, k).keep <=>
           \/ \E i \in 1..n : at[i] = k /\ s[i].kind \in {"char", "empty"}
           \/ HasMark(s, at, k) \/ HasMark(s, at, k + 1)
  BY DEF GapOf, Gap, at, bt, n
<1>10. GapOf(longer, join, k).keep <=>
         \/ GapOf(s, join, k).keep
         \/ k = c /\ e.kind \in {"char", "empty"}
         \/ (k = c \/ k + 1 = c) /\ HardItem(e)
  <2>1. HasMark(longer, bt, k) <=> HasMark(s, at, k) \/ (k = c /\ HardItem(e))
    BY <1>7
  <2>2. HasMark(longer, bt, k + 1) <=> HasMark(s, at, k + 1) \/ (k + 1 = c /\ HardItem(e))
    BY <1>7
  <2> QED
    BY <1>8, <1>9, <2>1, <2>2
<1> QED
  BY <1>6, <1>9, <1>10 DEF longer, c

(* A word of two parts: the last gap of the one and the first of the other *)
(* become one.                                                             *)
Merged(f, g) == [text |-> f.text \o g.text, keep |-> f.keep \/ g.keep]
Glued(s, t, join) ==
  /\ Count(s \o t, join) = Count(s, join) + Count(t, join)
  /\ \A k \in Nat :
       GapOf(s \o t, join, k)
         = IF k < Count(s, join) THEN GapOf(s, join, k)
           ELSE Merged(GapOf(s, join, k), GapOf(t, join, k - Count(s, join)))

LEMMA DelimiterCounts ==
  ASSUME NEW s \in Seq(Item), Len(s) > 0, Delimiter(s[Len(s)]), NEW join
  PROVE  Count(s, join) > 0
<1> DEFINE T == {i \in 1..Len(s) : Delimiter(s[i])}
<1>1. T # {} /\ T \in SUBSET Nat
  BY DEF Delimiter
<1>2. PICK i \in T : \A j \in T : i <= j
  BY <1>1, Least
<1>3. i \in 1..Len(s) /\ Delimiter(s[i])
  OBVIOUS
<1>4. i > 1 => ~Delimiter(s[i - 1])
  <2> SUFFICES ASSUME i > 1, Delimiter(s[i - 1]) PROVE FALSE
    OBVIOUS
  <2>1. i - 1 \in T
    BY <1>3
  <2> HIDE DEF T
  <2> QED
    BY <1>2, <1>3, <2>1
<1>5. i \in Borders(s, join)
  BY <1>3, <1>4 DEF Borders, Joined
<1>6. IsFiniteSet(Borders(s, join)) /\ Count(s, join) \in Nat
  BY BordersFacts
<1>7. Cardinality(Borders(s, join)) # 0
  BY <1>5, <1>6, FS_EmptySet
<1> QED
  BY <1>6, <1>7 DEF Count

LEMMA GlueStep ==
  ASSUME NEW s \in Seq(Item), NEW u \in Seq(Item), NEW e \in Item, NEW join,
         Glued(s, u, join), Len(u) = 0 /\ Len(s) > 0 => ~Joined(s[Len(s)], e)
  PROVE  Glued(s, Append(u, e), join)
<1> DEFINE c == Count(s, join)
           d == Count(u, join)
           v == Append(u, e)
           w == s \o u
           x == Append(w, e)
<1>1. /\ w \in Seq(Item) /\ v \in Seq(Item) /\ x \in Seq(Item) /\ s \o v = x
      /\ Len(w) = Len(s) + Len(u) /\ Len(u) \in Nat /\ Len(s) \in Nat
      /\ Len(u) > 0 => w[Len(w)] = u[Len(u)]
      /\ Len(u) = 0 /\ Len(s) > 0 => w[Len(w)] = s[Len(s)]
      /\ Len(v) > 0 /\ v[Len(v)] = e
  OBVIOUS
<1> HIDE DEF v, w, x
<1>2. Opens(w, e, join) <=> Opens(u, e, join)
  <2>1. CASE Len(u) > 0
    BY <1>1, <2>1 DEF Opens
  <2>2. CASE ~(Len(u) > 0)
    <3>1. Len(u) = 0 /\ Len(w) = Len(s)
      BY <1>1, <2>2
    <3> QED
      BY <1>1, <3>1 DEF Opens
  <2> QED
    BY <2>1, <2>2
<1> DEFINE one == IF Opens(u, e, join) THEN 1 ELSE 0
<1>3. /\ c \in Nat /\ d \in Nat /\ one \in Nat /\ Count(w, join) = c + d
      /\ Count(v, join) = d + one /\ Count(x, join) = c + (d + one)
      /\ Count(v, join) \in Nat
  <2>1. c \in Nat /\ d \in Nat /\ Count(w, join) = c + d
    BY BordersFacts DEF Glued, w
  <2>2. Count(v, join) = d + one
    BY BordersAppend DEF v
  <2>3. Count(x, join) = Count(w, join) + one
    BY <1>1, <1>2, BordersAppend DEF x
  <2>4. one \in Nat
    OBVIOUS
  <2> HIDE DEF c, d, one
  <2> QED
    BY <2>1, <2>2, <2>3, <2>4
<1> HIDE DEF c, d, one
<1> DEFINE a == d + one
<1>4. HardItem(e) => a > 0
  <2>1. HardItem(e) => Count(v, join) > 0
    BY <1>1, DelimiterCounts DEF HardItem
  <2> QED
    BY <1>3, <2>1
<1>5. ASSUME NEW k \in Nat
      PROVE  GapOf(x, join, k) = IF k < c THEN GapOf(s, join, k)
                                 ELSE Merged(GapOf(s, join, k), GapOf(v, join, k - c))
  <2> DEFINE new == GapOf(x, join, k)
             mid == GapOf(w, join, k)
  <2>1. /\ new.text = IF k = c + a /\ e \in CharItem THEN Append(mid.text, e.char) ELSE mid.text
        /\ new.keep <=> \/ mid.keep
                        \/ k = c + a /\ e.kind \in {"char", "empty"}
                        \/ (k = c + a \/ k + 1 = c + a) /\ HardItem(e)
    <3>1. LET n == Count(Append(w, e), join)
          IN /\ GapOf(Append(w, e), join, k).text
                  = IF k = n /\ e \in CharItem THEN Append(mid.text, e.char) ELSE mid.text
             /\ GapOf(Append(w, e), join, k).keep
                  <=> \/ mid.keep
                      \/ k = n /\ e.kind \in {"char", "empty"}
                      \/ (k = n \/ k + 1 = n) /\ HardItem(e)
      BY <1>1, GapAppend
    <3>2. Count(Append(w, e), join) = c + a
      BY <1>3 DEF x
    <3> HIDE DEF a, mid
    <3> QED
      BY <3>1, <3>2 DEF x
  <2>2. mid = IF k < c THEN GapOf(s, join, k)
              ELSE Merged(GapOf(s, join, k), GapOf(u, join, k - c))
    BY DEF Glued, w, c
  <2>3. new \in Field /\ mid \in Field
    BY <1>1, GapType
  <2> HIDE DEF new, mid
  <2>4. CASE k < c
    <3>1. k # c + a /\ (k + 1 = c + a => a = 0)
      BY <1>3, <2>4
    <3>2. ~((k = c + a \/ k + 1 = c + a) /\ HardItem(e))
      BY <1>4, <3>1
    <3>3. new.text = mid.text /\ (new.keep <=> mid.keep)
      BY <2>1, <3>1, <3>2
    <3>4. new = mid
      BY <2>3, <3>3 DEF Field
    <3> QED
      BY <2>2, <2>4, <3>4 DEF new
  <2>5. CASE ~(k < c)
    <3> DEFINE m == k - c
               g == GapOf(s, join, k)
               old == GapOf(u, join, m)
               more == GapOf(v, join, m)
    <3>1. m \in Nat /\ (k = c + a <=> m = a) /\ (k + 1 = c + a <=> m + 1 = a)
      BY <1>3, <2>5
    <3>2. /\ more.text = IF m = a /\ e \in CharItem THEN Append(old.text, e.char) ELSE old.text
          /\ more.keep <=> \/ old.keep
                           \/ m = a /\ e.kind \in {"char", "empty"}
                           \/ (m = a \/ m + 1 = a) /\ HardItem(e)
      <4> HIDE DEF m
      <4> QED
        BY <1>3, <3>1, GapAppend DEF v
    <3>3. /\ g.text \in Seq(Chars) /\ old.text \in Seq(Chars) /\ more.text \in Seq(Chars)
          /\ g.keep \in BOOLEAN /\ old.keep \in BOOLEAN /\ more.keep \in BOOLEAN
      BY <1>1, GapType
    <3>4. mid = Merged(g, old)
      BY <2>2, <2>5
    <3> HIDE DEF m, g, old, more
    <3>5. mid.text = g.text \o old.text /\ (mid.keep <=> g.keep \/ old.keep)
      BY <3>4 DEF Merged
    <3>6. e \in CharItem => g.text \o Append(old.text, e.char) = Append(g.text \o old.text, e.char)
      <4>1. e \in CharItem => e.char \in Chars
        BY DEF CharItem
      <4>2. \A p \in Seq(Chars), q \in Seq(Chars), r \in Chars :
              p \o Append(q, r) = Append(p \o q, r)
        OBVIOUS
      <4> QED
        BY <3>3, <4>1, <4>2
    <3>7. new.text = g.text \o more.text
      BY <2>1, <3>1, <3>2, <3>5, <3>6
    <3>8. new.keep <=> g.keep \/ more.keep
      BY <2>1, <3>1, <3>2, <3>5
    <3>9. new.keep = (g.keep \/ more.keep)
      <4>1. new.keep \in BOOLEAN
        BY <2>3 DEF Field
      <4> QED
        BY <3>3, <3>8, <4>1
    <3>10. new = Merged(g, more)
      <4>1. new = [text |-> new.text, keep |-> new.keep]
        BY <2>3 DEF Field
      <4> QED
        BY <3>7, <3>9, <4>1 DEF Merged
    <3> QED
      BY <2>5, <3>10 DEF m, g, more, new
  <2> QED
    BY <2>4, <2>5
<1>6. Count(x, join) = c + Count(v, join)
  BY <1>3
<1> QED
  BY <1>1, <1>5, <1>6 DEF Glued, c, v

LEMMA PrefixFacts ==
  ASSUME NEW E, NEW t \in Seq(E)
  PROVE  /\ SubSeq(t, 1, 0) = <<>> /\ SubSeq(t, 1, Len(t)) = t
         /\ \A j \in 0..Len(t) : SubSeq(t, 1, j) \in Seq(E) /\ Len(SubSeq(t, 1, j)) = j
         /\ \A j \in 1..Len(t) : /\ SubSeq(t, 1, j) = Append(SubSeq(t, 1, j - 1), t[j])
                                 /\ t[j] \in E /\ j - 1 \in 0..Len(t)
<1>1. Len(t) \in Nat /\ \A i \in 1..Len(t) : t[i] \in E
  OBVIOUS
<1>2. ASSUME NEW j \in 0..Len(t)
      PROVE  /\ SubSeq(t, 1, j) \in Seq(E) /\ Len(SubSeq(t, 1, j)) = j
             /\ \A i \in 1..j : SubSeq(t, 1, j)[i] = t[i]
  BY <1>1
<1>3. SubSeq(t, 1, 0) = <<>>
  OBVIOUS
<1>4. SubSeq(t, 1, Len(t)) = t
  <2>1. Len(t) \in 0..Len(t)
    BY <1>1
  <2> QED
    BY <1>2, <2>1, SeqEqual
<1>5. ASSUME NEW j \in 1..Len(t)
      PROVE  SubSeq(t, 1, j) = Append(SubSeq(t, 1, j - 1), t[j]) /\ j - 1 \in 0..Len(t)
  <2> DEFINE u == SubSeq(t, 1, j - 1)
             v == SubSeq(t, 1, j)
  <2>1. j - 1 \in 0..Len(t) /\ j \in 0..Len(t)
    BY <1>1
  <2>2. /\ u \in Seq(E) /\ Len(u) = j - 1 /\ \A i \in 1..(j - 1) : u[i] = t[i]
        /\ v \in Seq(E) /\ Len(v) = j /\ \A i \in 1..j : v[i] = t[i]
    BY <1>2, <2>1
  <2> HIDE DEF u, v
  <2> DEFINE w == Append(u, t[j])
  <2>3. /\ w \in Seq(E) /\ Len(w) = j /\ w[j] = t[j] /\ \A i \in 1..(j - 1) : w[i] = u[i]
    BY <1>1, <2>2
  <2> HIDE DEF w
  <2>4. \A i \in 1..j : v[i] = w[i]
    BY <2>1, <2>2, <2>3
  <2>5. v = w
    BY <2>2, <2>3, <2>4, SeqEqual
  <2> QED
    BY <2>1, <2>5 DEF u, v, w
<1> QED
  BY <1>1, <1>2, <1>3, <1>4, <1>5

(* Words that do not run into each other.                                  *)
Apart(s, t) == Len(s) > 0 /\ Len(t) > 0 => ~Joined(s[Len(s)], t[1])

LEMMA NothingWithin ==
  ASSUME NEW s \in Seq(Item), NEW at, NEW k
  PROVE  Len(s) = 0 => Characters(Within(s, at, k)) = <<>>
<1> DEFINE inside == Within(s, at, k)
<1>1. inside \in Seq(Item) /\ Len(inside) = Len(s)
  BY WithinFacts
<1> HIDE DEF inside
<1>2. Len(s) = 0 => \A i \in 1..Len(inside) : inside[i] \notin CharItem
  BY <1>1
<1>3. Len(s) = 0 => Characters(inside) = <<>>
  BY <1>1, <1>2, CharactersNone
<1> QED
  BY <1>3 DEF inside

LEMMA EmptyGap ==
  ASSUME NEW s \in Seq(Item), Len(s) = 0, NEW join
  PROVE  Count(s, join) = 0 /\ \A k \in Nat : GapOf(s, join, k) = NoGap
<1>1. Count(s, join) = 0
  <2>1. Borders(s, join) = {}
    BY DEF Borders
  <2> QED
    BY <2>1, FS_EmptySet DEF Count
<1>2. ASSUME NEW k \in Nat PROVE GapOf(s, join, k) = NoGap
  <2>1. Characters(Within(s, Places(s, join), k)) = <<>>
    BY NothingWithin
  <2> QED
    BY <2>1 DEF GapOf, Gap, HasMark, NoGap
<1> QED
  BY <1>1, <1>2

LEMMA GapConcat ==
  ASSUME NEW s \in Seq(Item), NEW t \in Seq(Item), NEW join, Apart(s, t)
  PROVE  Glued(s, t, join)
<1> DEFINE n == Len(t)
           U(j) == SubSeq(t, 1, j)
           T == {j \in 0..n : Glued(s, U(j), join)}
<1>1. n \in Nat
  OBVIOUS
<1>2. /\ U(0) = <<>> /\ U(n) = t
      /\ \A j \in 0..n : U(j) \in Seq(Item) /\ Len(U(j)) = j
      /\ \A j \in 1..n : /\ U(j) = Append(U(j - 1), t[j])
                         /\ t[j] \in Item /\ j - 1 \in 0..n
  <2>1. SubSeq(t, 1, 0) = <<>> /\ SubSeq(t, 1, Len(t)) = t
    BY PrefixFacts
  <2>2. \A j \in 0..Len(t) : SubSeq(t, 1, j) \in Seq(Item) /\ Len(SubSeq(t, 1, j)) = j
    BY PrefixFacts
  <2>3. \A j \in 1..Len(t) : /\ SubSeq(t, 1, j) = Append(SubSeq(t, 1, j - 1), t[j])
                             /\ t[j] \in Item /\ j - 1 \in 0..Len(t)
    BY PrefixFacts
  <2> QED
    BY <2>1, <2>2, <2>3
<1> HIDE DEF n, U
<1>3. 0 \in T
  <2>1. Glued(s, <<>>, join)
    <3>1. s \o <<>> = s /\ <<>> \in Seq(Item) /\ Len(<<>>) = 0
      BY ConcatEmptySeq
    <3>2. Count(<<>>, join) = 0 /\ Count(s, join) \in Nat
      BY <3>1, EmptyGap, BordersFacts
    <3>3. ASSUME NEW k \in Nat, ~(k < Count(s, join))
          PROVE  GapOf(s, join, k) = Merged(GapOf(s, join, k), GapOf(<<>>, join, k - Count(s, join)))
      <4> DEFINE g == GapOf(s, join, k)
                 m == k - Count(s, join)
      <4>1. g \in Field /\ g.text \in Seq(Chars) /\ g.keep \in BOOLEAN
        BY GapType
      <4>2. m \in Nat
        BY <3>2, <3>3
      <4> HIDE DEF g, m
      <4>3. GapOf(<<>>, join, m) = NoGap
        BY <3>1, <4>2, EmptyGap
      <4>4. g.text \o <<>> = g.text
        BY <4>1, ConcatEmptySeq
      <4>5. g = [text |-> g.text, keep |-> g.keep]
        BY <4>1 DEF Field
      <4>6. Merged(g, NoGap) = g
        BY <4>1, <4>4, <4>5 DEF Merged, NoGap
      <4> QED
        BY <4>3, <4>6 DEF g, m
    <3> QED
      BY <3>1, <3>2, <3>3 DEF Glued
  <2> QED
    BY <1>1, <1>2, <2>1
<1>4. /\ \A j \in T : Glued(s, U(j), join)
      /\ \A j \in 0..n : Glued(s, U(j), join) => j \in T
  OBVIOUS
<1> HIDE DEF T
<1>5. \A j \in 1..n : j - 1 \in T => j \in T
  <2> SUFFICES ASSUME NEW j \in 1..n, j - 1 \in T PROVE j \in T
    OBVIOUS
  <2> DEFINE u == U(j - 1)
             all == U(j)
  <2>1. /\ j - 1 \in 0..n /\ j \in 0..n /\ u \in Seq(Item) /\ Len(u) = j - 1
        /\ t[j] \in Item /\ Glued(s, u, join) /\ all = Append(u, t[j])
    <3>1. j - 1 \in 0..n /\ j \in 0..n
      BY <1>1
    <3>2. Glued(s, u, join)
      BY <1>4
    <3>3. u \in Seq(Item) /\ Len(u) = j - 1
      BY <1>2, <3>1
    <3>4. t[j] \in Item /\ all = Append(u, t[j])
      BY <1>2
    <3> QED
      BY <3>1, <3>2, <3>3, <3>4
  <2> HIDE DEF u, all
  <2>2. Len(u) = 0 /\ Len(s) > 0 => ~Joined(s[Len(s)], t[j])
    <3>1. j - 1 = 0 => j = 1
      BY <1>1
    <3> QED
      BY <1>1, <2>1, <3>1 DEF Apart, n
  <2>3. Glued(s, Append(u, t[j]), join)
    BY <2>1, <2>2, GlueStep
  <2>4. Glued(s, all, join)
    BY <2>1, <2>3
  <2> QED
    BY <1>4, <2>1, <2>4 DEF all
<1>6. n \in T
  <2>1. 0..n \subseteq T
    BY <1>1, <1>3, <1>5, Induction
  <2> QED
    BY <1>1, <2>1
<1> QED
  BY <1>2, <1>4, <1>6

(* A part without borders is one gap.                                      *)
LEMMA PlainGap ==
  ASSUME NEW s \in Seq(Item), NEW join,
         \A i \in 1..Len(s) : s[i].kind \in {"char", "empty"}
  PROVE  /\ Count(s, join) = 0
         /\ GapOf(s, join, 0) = [text |-> Characters(s), keep |-> s # <<>>]
<1>1. Borders(s, join) = {}
  BY DEF Borders, Delimiter
<1>2. Count(s, join) = 0
  BY <1>1, FS_EmptySet DEF Count
<1> DEFINE at == Places(s, join)
<1>3. \A i \in 1..Len(s) : at[i] = 0
  <2>1. \A i \in 1..Len(s) : at[i] \in 0..0
    BY <1>2, BordersFacts
  <2> HIDE DEF at
  <2> QED
    BY <2>1
<1> HIDE DEF at
<1>4. Within(s, at, 0) = s
  <2>1. /\ Within(s, at, 0) \in Seq(Item) /\ Len(Within(s, at, 0)) = Len(s)
        /\ \A i \in 1..Len(s) : Within(s, at, 0)[i] = s[i]
    BY <1>3, WithinFacts
  <2> QED
    BY <2>1, SeqEqual
<1>5. ~HasMark(s, at, 0) /\ ~HasMark(s, at, 0 + 1)
  BY <1>3 DEF HasMark, Delimiter
<1>6. (\E i \in 1..Len(s) : at[i] = 0 /\ s[i].kind \in {"char", "empty"}) <=> s # <<>>
  BY <1>3
<1> QED
  BY <1>2, <1>4, <1>5, <1>6 DEF GapOf, Gap, at

(* The gaps of a word, as a list.                                          *)
Spliced(H, G, V) ==
  /\ Len(H) = Len(G) + Len(V) - 1
  /\ \A i \in 1..(Len(G) - 1) : H[i] = G[i]
  /\ H[Len(G)] = Merged(G[Len(G)], V[1])
  /\ \A i \in 2..Len(V) : H[Len(G) + i - 1] = V[i]

LEMMA GapsFacts ==
  ASSUME NEW s \in Seq(Item), NEW join
  PROVE  /\ Gaps(s, join) \in Seq(Field) /\ Len(Gaps(s, join)) = Count(s, join) + 1
         /\ Count(s, join) \in Nat
         /\ \A n \in 1..(Count(s, join) + 1) : Gaps(s, join)[n] = GapOf(s, join, n - 1)
<1> DEFINE m == Count(s, join) + 1
           G == Gaps(s, join)
<1>1. Count(s, join) \in Nat
  BY BordersFacts
<1>2. G = [n \in 1..m |-> GapOf(s, join, n - 1)]
  BY DEF Gaps, GapOf, Count
<1>3. \A n \in 1..m : GapOf(s, join, n - 1) \in Field
  BY GapType
<1>4. m \in Nat
  BY <1>1
<1> HIDE DEF m, G
<1>5. G \in Seq(Field) /\ Len(G) = m /\ \A n \in 1..m : G[n] = GapOf(s, join, n - 1)
  BY <1>2, <1>3, <1>4
<1> QED
  BY <1>1, <1>5 DEF m, G

LEMMA MergedNone ==
  ASSUME NEW g \in Field
  PROVE  Merged(NoGap, g) = g /\ Merged(g, NoGap) = g
<1>1. g.text \in Seq(Chars) /\ g.keep \in BOOLEAN /\ g = [text |-> g.text, keep |-> g.keep]
  BY DEF Field
<1>2. g.text \o <<>> = g.text /\ <<>> \o g.text = g.text
  BY <1>1, ConcatEmptySeq
<1> QED
  BY <1>1, <1>2 DEF Merged, NoGap

LEMMA GapsConcat ==
  ASSUME NEW s \in Seq(Item), NEW t \in Seq(Item), NEW join, Apart(s, t)
  PROVE  Spliced(Gaps(s \o t, join), Gaps(s, join), Gaps(t, join))
<1> DEFINE G == Gaps(s, join)
           V == Gaps(t, join)
           w == s \o t
           H == Gaps(w, join)
           c == Count(s, join)
           d == Count(t, join)
<1>1. w \in Seq(Item)
  OBVIOUS
<1>2. /\ Count(w, join) = c + d
      /\ \A k \in Nat : GapOf(w, join, k)
           = IF k < c THEN GapOf(s, join, k)
             ELSE Merged(GapOf(s, join, k), GapOf(t, join, k - c))
  BY GapConcat DEF Glued
<1> HIDE DEF w
<1>3. /\ Len(G) = c + 1 /\ Len(V) = d + 1 /\ Len(H) = c + d + 1 /\ c \in Nat /\ d \in Nat
      /\ \A n \in 1..(c + 1) : G[n] = GapOf(s, join, n - 1)
      /\ \A n \in 1..(d + 1) : V[n] = GapOf(t, join, n - 1)
      /\ \A n \in 1..(c + d + 1) : H[n] = GapOf(w, join, n - 1)
  BY <1>1, <1>2, GapsFacts
<1> HIDE DEF G, V, H
<1>4. \A k \in Nat : k > c => GapOf(s, join, k) = NoGap
  BY GapBeyond
<1>5. \A k : GapOf(t, join, k) \in Field
  BY GapType
<1> HIDE DEF c, d
<1>6. \A i \in 1..(Len(G) - 1) : H[i] = G[i]
  <2> TAKE i \in 1..(Len(G) - 1)
  <2>1. i - 1 \in Nat /\ i - 1 < c /\ i \in 1..(c + 1) /\ i \in 1..(c + d + 1)
    BY <1>3
  <2> QED
    BY <1>2, <1>3, <2>1
<1>7. H[Len(G)] = Merged(G[Len(G)], V[1])
  <2>1. /\ c + 1 \in 1..(c + 1) /\ c + 1 \in 1..(c + d + 1) /\ 1 \in 1..(d + 1)
        /\ (c + 1) - 1 = c /\ c - c = 0 /\ 1 - 1 = 0 /\ ~(c < c)
    BY <1>3
  <2>2. H[c + 1] = GapOf(w, join, c) /\ G[c + 1] = GapOf(s, join, c) /\ V[1] = GapOf(t, join, 0)
    BY <1>3, <2>1
  <2>3. GapOf(w, join, c) = Merged(GapOf(s, join, c), GapOf(t, join, 0))
    BY <1>2, <1>3, <2>1
  <2> QED
    BY <1>3, <2>2, <2>3
<1>8. \A i \in 2..Len(V) : H[Len(G) + i - 1] = V[i]
  <2> TAKE i \in 2..Len(V)
  <2>1. /\ c + i \in 1..(c + d + 1) /\ i \in 1..(d + 1) /\ (c + i) - 1 \in Nat
        /\ (c + i) - 1 > c /\ ~((c + i) - 1 < c) /\ ((c + i) - 1) - c = i - 1
        /\ Len(G) + i - 1 = c + i
    BY <1>3
  <2> DEFINE k == (c + i) - 1
  <2>2. k \in Nat /\ k > c /\ ~(k < c) /\ k - c = i - 1
    BY <2>1
  <2>3. H[c + i] = GapOf(w, join, k) /\ V[i] = GapOf(t, join, i - 1)
    BY <1>3, <2>1
  <2> HIDE DEF k
  <2>4. GapOf(w, join, k) = Merged(NoGap, GapOf(t, join, i - 1))
    BY <1>2, <1>4, <2>2
  <2>5. Merged(NoGap, GapOf(t, join, i - 1)) = GapOf(t, join, i - 1)
    BY <1>5, MergedNone
  <2> QED
    BY <2>1, <2>3, <2>4, <2>5
<1>9. Len(H) = Len(G) + Len(V) - 1
  BY <1>3
<1> QED
  BY <1>6, <1>7, <1>8, <1>9 DEF Spliced, G, V, H, w

(* What the pieces of a part are beside its gaps: each is a gap that is an *)
(* argument; there may be one more gap at either end, which is none.       *)
Arg(f) == f.text # <<>> \/ f.keep
Same(piece, gap, keep) == gap.text = piece /\ Arg(gap) /\ (piece = <<>> => keep)
Made(V, P, keep) ==
  \/ P = <<>> /\ Len(V) \in {1, 2} /\ \A i \in 1..Len(V) : V[i] = NoGap
  \/ /\ P # <<>>
     /\ \E lead \in {0, 1}, trail \in {0, 1} :
          /\ Len(V) = lead + Len(P) + trail
          /\ lead = 1 => V[1] = NoGap
          /\ trail = 1 => V[Len(V)] = NoGap
          /\ \A i \in 1..Len(P) : Same(P[i], V[lead + i], keep)
Even(V, P) == Len(V) = IF P = <<>> THEN 1 ELSE Len(P)

LEMMA FixedItems ==
  ASSUME NEW text \in Seq(Chars)
  PROVE  /\ Fixed(text) \in Seq(Item) /\ Fixed(text) # <<>>
         /\ Characters(Fixed(text)) = text /\ Len(Fixed(text)) > 0
         /\ \A i \in 1..Len(Fixed(text)) : Fixed(text)[i].kind \in {"char", "empty"}
<1>1. Fixed(text) \in Seq(Item) /\ Characters(Fixed(text)) = text
  BY FixedFacts
<1>2. CASE text = <<>>
  BY <1>1, <1>2 DEF Fixed
<1>3. CASE text # <<>>
  <2>1. Fixed(text) = [i \in 1..Len(text) |-> [kind |-> "char", char |-> text[i]]]
    BY <1>3 DEF Fixed
  <2>2. Len(text) \in Nat /\ Len(text) > 0
    BY <1>3
  <2> QED
    BY <1>1, <2>1, <2>2
<1> QED
  BY <1>2, <1>3

LEMMA PlainMade ==
  ASSUME NEW s \in Seq(Item), NEW join, NEW keep, s # <<>>,
         \A i \in 1..Len(s) : s[i].kind \in {"char", "empty"},
         Characters(s) = <<>> => keep
  PROVE  Made(Gaps(s, join), <<Characters(s)>>, keep) /\ Even(Gaps(s, join), <<Characters(s)>>)
<1> DEFINE V == Gaps(s, join)
           text == Characters(s)
           P == <<text>>
<1>1. Count(s, join) = 0 /\ GapOf(s, join, 0) = [text |-> text, keep |-> TRUE]
  <2>1. (s # <<>>) = TRUE
    OBVIOUS
  <2> QED
    BY <2>1, PlainGap
<1>2. Len(V) = 0 + 1 /\ V[1] = [text |-> text, keep |-> TRUE]
  <2>1. Len(V) = Count(s, join) + 1 /\ \A n \in 1..(Count(s, join) + 1) : V[n] = GapOf(s, join, n - 1)
    BY GapsFacts
  <2>2. 1 \in 1..(0 + 1) /\ 1 - 1 = 0
    OBVIOUS
  <2> HIDE DEF V
  <2> QED
    BY <1>1, <2>1, <2>2
<1>3. P # <<>> /\ Len(P) = 1 /\ P[1] = text
  OBVIOUS
<1>4. text = <<>> => keep
  OBVIOUS
<1> HIDE DEF V, text, P
<1>5. \A i \in 1..Len(P) : Same(P[i], V[0 + i], keep)
  <2> TAKE i \in 1..Len(P)
  <2>1. i = 1 /\ 0 + i = 1
    BY <1>3
  <2> QED
    BY <1>2, <1>3, <1>4, <2>1 DEF Same, Arg
<1>6. Len(V) = 0 + Len(P) + 0 /\ Len(V) = Len(P)
  BY <1>2, <1>3
<1>7. Made(V, P, keep)
  BY <1>3, <1>5, <1>6 DEF Made
<1> QED
  BY <1>3, <1>6, <1>7 DEF Even, V, P, text

LEMMA NothingMade ==
  ASSUME NEW s \in Seq(Item), Len(s) = 0, NEW join, NEW keep
  PROVE  Made(Gaps(s, join), <<>>, keep) /\ Even(Gaps(s, join), <<>>)
<1> DEFINE V == Gaps(s, join)
<1>1. Count(s, join) = 0 /\ GapOf(s, join, 0) = NoGap
  <2>1. Count(s, join) = 0 /\ \A k \in Nat : GapOf(s, join, k) = NoGap
    BY EmptyGap
  <2>2. 0 \in Nat
    OBVIOUS
  <2> QED
    BY <2>1, <2>2
<1>2. Len(V) = 0 + 1 /\ V[1] = NoGap
  <2>1. Len(V) = Count(s, join) + 1 /\ \A n \in 1..(Count(s, join) + 1) : V[n] = GapOf(s, join, n - 1)
    BY GapsFacts
  <2>2. 1 \in 1..(0 + 1) /\ 1 - 1 = 0
    OBVIOUS
  <2> HIDE DEF V
  <2> QED
    BY <1>1, <2>1, <2>2
<1> HIDE DEF V
<1>3. Len(V) = 1 /\ \A i \in 1..Len(V) : V[i] = NoGap
  BY <1>2
<1> QED
  BY <1>3 DEF Made, Even, V

(* "$@": one gap for each positional parameter.                            *)
Whole(text) == [text |-> text, keep |-> TRUE]

LEMMA BorderFacts ==
  /\ Border \in Seq(Item) /\ Border[1] \in Item /\ Border[1] \notin CharItem
  /\ Len(Border) = 1 /\ Border[1].kind = "border" /\ Border = Append(<<>>, Border[1])
<1> DEFINE e == Border[1]
<1>1. e \in Item /\ e \notin CharItem /\ Border = <<e>>
  BY BorderItem
<1>2. e.kind = "border"
  BY DEF Border
<1> HIDE DEF e
<1>3. \A x : Len(<<x>>) = 1 /\ <<x>> = Append(<<>>, x) /\ (x \in Item => <<x>> \in Seq(Item))
  OBVIOUS
<1>4. Border \in Seq(Item) /\ Len(Border) = 1 /\ Border = Append(<<>>, e)
  BY <1>1, <1>3
<1> QED
  BY <1>1, <1>2, <1>4 DEF e

LEMMA FixedGaps ==
  ASSUME NEW text \in Seq(Chars), NEW join
  PROVE  Len(Gaps(Fixed(text), join)) = 1 /\ Gaps(Fixed(text), join)[1] = Whole(text)
<1> DEFINE V == Gaps(Fixed(text), join)
           s == Fixed(text)
<1>1. s \in Seq(Item) /\ s # <<>> /\ Characters(s) = text
      /\ \A i \in 1..Len(s) : s[i].kind \in {"char", "empty"}
  BY FixedItems
<1> HIDE DEF s
<1>2. Count(s, join) = 0 /\ GapOf(s, join, 0) = Whole(text)
  <2>1. (s # <<>>) = TRUE
    BY <1>1
  <2> QED
    BY <1>1, <2>1, PlainGap DEF Whole
<1>3. Len(V) = Count(s, join) + 1 /\ \A n \in 1..(Count(s, join) + 1) : V[n] = GapOf(s, join, n - 1)
  BY <1>1, GapsFacts DEF s
<1>4. 1 \in 1..(0 + 1) /\ 1 - 1 = 0
  OBVIOUS
<1> HIDE DEF V
<1>5. Len(V) = 1 /\ V[1] = Whole(text)
  BY <1>2, <1>3, <1>4
<1> QED
  BY <1>5 DEF V

LEMMA BorderGaps ==
  ASSUME NEW join
  PROVE  /\ Len(Gaps(Border, join)) = 2
         /\ Gaps(Border, join)[1] = NoGap /\ Gaps(Border, join)[2] = NoGap
<1> DEFINE none == <<>>
           e == Border[1]
           V == Gaps(Border, join)
<1>1. none \in Seq(Item) /\ Len(none) = 0 /\ e \in Item /\ e \notin CharItem
      /\ Border = Append(none, e) /\ Border \in Seq(Item)
  BY BorderFacts
<1>2. e.kind = "border"
  BY BorderFacts
<1> HIDE DEF none, e
<1>3. Count(none, join) = 0 /\ \A k \in Nat : GapOf(none, join, k) = NoGap
  BY <1>1, EmptyGap
<1>4. Count(Border, join) = 1
  <2>1. Opens(none, e, join)
    BY <1>2 DEF Opens
  <2>2. Count(Append(none, e), join) = Count(none, join) + (IF Opens(none, e, join) THEN 1 ELSE 0)
    BY <1>1, BordersAppend
  <2> QED
    BY <1>1, <1>3, <2>1, <2>2
<1>5. ASSUME NEW k \in Nat PROVE GapOf(Border, join, k) = NoGap
  <2> DEFINE new == GapOf(Append(none, e), join, k)
             old == GapOf(none, join, k)
             c == Count(Append(none, e), join)
  <2>1. /\ new.text = IF k = c /\ e \in CharItem THEN Append(old.text, e.char) ELSE old.text
        /\ new.keep <=> \/ old.keep
                        \/ k = c /\ e.kind \in {"char", "empty"}
                        \/ (k = c \/ k + 1 = c) /\ HardItem(e)
    BY <1>1, GapAppend
  <2>2. ~HardItem(e) /\ e.kind \notin {"char", "empty"}
    BY <1>2 DEF HardItem, Delimiter
  <2>3. new \in Field /\ new = GapOf(Border, join, k)
    <3>1. Append(none, e) \in Seq(Item)
      BY <1>1
    <3> QED
      BY <1>1, <3>1, GapType
  <2>4. old = NoGap
    BY <1>3
  <2> HIDE DEF new, old, c
  <2>5. new.text = <<>> /\ ~new.keep
    BY <1>1, <2>1, <2>2, <2>4 DEF NoGap
  <2>6. new.keep \in BOOLEAN /\ new = [text |-> new.text, keep |-> new.keep]
    BY <2>3 DEF Field
  <2>7. new = NoGap
    BY <2>5, <2>6 DEF NoGap
  <2> QED
    BY <2>3, <2>7
<1>6. Len(V) = Count(Border, join) + 1
      /\ \A n \in 1..(Count(Border, join) + 1) : V[n] = GapOf(Border, join, n - 1)
  BY <1>1, GapsFacts
<1> HIDE DEF V
<1>7. 1 \in 1..(1 + 1) /\ 2 \in 1..(1 + 1) /\ 1 - 1 \in Nat /\ 2 - 1 \in Nat /\ 1 + 1 = 2
  OBVIOUS
<1>8. Len(V) = 2 /\ V[1] = NoGap /\ V[2] = NoGap
  BY <1>4, <1>5, <1>6, <1>7
<1> QED
  BY <1>8 DEF V

LEMMA BorderedGaps ==
  ASSUME NEW text \in Seq(Chars), NEW join
  PROVE  LET V == Gaps(Border \o Fixed(text), join)
         IN Len(V) = 2 /\ V[1] = NoGap /\ V[2] = Whole(text)
<1> DEFINE s == Fixed(text)
           A == Gaps(Border, join)
           B == Gaps(s, join)
           V == Gaps(Border \o s, join)
<1>1. Border \in Seq(Item) /\ s \in Seq(Item) /\ Apart(Border, s)
  <2>1. Len(Border) = 1 /\ Border[1].kind = "border"
    BY BorderFacts
  <2>2. Border \in Seq(Item)
    BY BorderFacts
  <2>3. s \in Seq(Item)
    BY FixedItems
  <2> HIDE DEF s
  <2>4. Apart(Border, s)
    BY <2>1 DEF Apart, Joined, Delimiter
  <2> QED
    BY <2>2, <2>3, <2>4
<1>2. Spliced(V, A, B)
  BY <1>1, GapsConcat
<1>3. Len(A) = 2 /\ A[1] = NoGap /\ A[2] = NoGap /\ Len(B) = 1 /\ B[1] = Whole(text)
  BY BorderGaps, FixedGaps
<1>4. Merged(NoGap, Whole(text)) = Whole(text)
  <2>1. Whole(text) \in Field
    BY DEF Whole, Field
  <2> QED
    BY <2>1, MergedNone
<1> HIDE DEF A, B, V
<1>5. Len(V) = 2 /\ V[1] = A[1] /\ V[2] = Merged(A[2], B[1])
  <2>1. 1 \in 1..(2 - 1) /\ 2 + 1 - 1 = 2
    OBVIOUS
  <2> QED
    BY <1>2, <1>3, <2>1 DEF Spliced
<1>6. Len(V) = 2 /\ V[1] = NoGap /\ V[2] = Whole(text)
  BY <1>3, <1>4, <1>5
<1> QED
  BY <1>6 DEF V, s

Undelimited(s) == \A i \in 1..Len(s) : ~Delimiter(s[i])

LEMMA SomeMade ==
  ASSUME NEW V, NEW P, NEW keep, P # <<>>, NEW lead \in {0, 1}, NEW trail \in {0, 1},
         Len(V) = lead + Len(P) + trail, lead = 1 => V[1] = NoGap,
         trail = 1 => V[Len(V)] = NoGap,
         \A i \in 1..Len(P) : Same(P[i], V[lead + i], keep)
  PROVE  Made(V, P, keep)
BY DEF Made

LEMMA BorderedMade ==
  ASSUME NEW positional \in Seq(Seq(Chars)), NEW join
  PROVE  /\ Made(Gaps(Bordered(positional), join), positional, TRUE)
         /\ Even(Gaps(Bordered(positional), join), positional)
         /\ Undelimited(Bordered(positional))
<1> DEFINE n == Len(positional)
           Of(k) == IF k = 1 THEN Fixed(positional[k]) ELSE Border \o Fixed(positional[k])
           s == [k \in 1..n |-> Of(k)]
           V(u) == Gaps(u, join)
<1>1. n \in Nat /\ \A k \in 1..n : positional[k] \in Seq(Chars)
  OBVIOUS
<1>2. ASSUME NEW k \in 1..n
      PROVE  /\ Of(k) \in Seq(Item) /\ Undelimited(Of(k))
             /\ k = 1 => Of(k) = Fixed(positional[k])
             /\ k # 1 => Of(k) = Border \o Fixed(positional[k])
  <2> DEFINE text == positional[k]
             f == Fixed(text)
  <2>1. f \in Seq(Item) /\ \A i \in 1..Len(f) : f[i].kind \in {"char", "empty"}
    BY <1>1, FixedItems
  <2>2. Undelimited(f)
    BY <2>1 DEF Undelimited, Delimiter
  <2>3. Border \in Seq(Item) /\ Len(Border) = 1 /\ ~Delimiter(Border[1])
    BY BorderFacts DEF Delimiter
  <2> HIDE DEF f
  <2> DEFINE both == Border \o f
  <2>4. both \in Seq(Item) /\ Undelimited(both)
    <3>1. IsConcat(both, Border, f) /\ both \in Seq(Item)
      BY <2>1, <2>3, Concatenated
    <3>2. ASSUME NEW i \in 1..Len(both) PROVE ~Delimiter(both[i])
      <4>1. i = 1 \/ (i - 1 \in 1..Len(f) /\ i = 1 + (i - 1))
        BY <2>3, <3>1 DEF IsConcat
      <4>2. both[1] = Border[1]
        BY <2>3, <3>1 DEF IsConcat
      <4>3. \A j \in 1..Len(f) : both[1 + j] = f[j] /\ ~Delimiter(f[j])
        BY <2>2, <2>3, <3>1 DEF IsConcat, Undelimited
      <4> QED
        BY <2>3, <4>1, <4>2, <4>3
    <3> QED
      BY <3>1, <3>2 DEF Undelimited
  <2> QED
    BY <2>1, <2>2, <2>4 DEF f
<1>3. Bordered(positional) = FlattenSeq(s)
  BY DEF Bordered
<1> HIDE DEF Of
<1>4. s \in Seq(Seq(Item)) /\ Len(s) = n /\ \A k \in 1..n : s[k] = Of(k)
  BY <1>1, <1>2
<1> HIDE DEF s
<1>5. PICK h \in [0..Len(s) -> Seq(Item)] : Concats(h, s) /\ FlattenSeq(s) = h[Len(s)]
  BY <1>4, FlattenByRecursion
<1>6. /\ h[0] = <<>> /\ FlattenSeq(s) = h[n] /\ \A k \in 0..n : h[k] \in Seq(Item)
      /\ \A k \in 1..n : h[k] = h[k - 1] \o Of(k)
  BY <1>4, <1>5 DEF Concats
<1> HIDE DEF n
<1> DEFINE Good(k) == Undelimited(h[k])
                      /\ (k > 0 => Len(V(h[k])) = k /\ \A i \in 1..k : V(h[k])[i] = Whole(positional[i]))
           T == {k \in 0..n : Good(k)}
<1>7. 0 \in T
  <2>1. Undelimited(<<>>)
    BY DEF Undelimited
  <2> QED
    BY <1>1, <1>6, <2>1
<1>8. ASSUME NEW k \in 1..n, Good(k - 1) PROVE Good(k)
  <2> DEFINE old == h[k - 1]
             new == h[k]
             text == positional[k]
  <2>1. k - 1 \in 0..n /\ k \in 0..n /\ k > 0 /\ (k # 1 => k - 1 > 0)
    BY <1>1
  <2>2. /\ old \in Seq(Item) /\ Of(k) \in Seq(Item) /\ new = old \o Of(k) /\ text \in Seq(Chars)
        /\ Undelimited(old) /\ Undelimited(Of(k))
    BY <1>1, <1>2, <1>6, <1>8, <2>1
  <2>3. Undelimited(new)
    <3> HIDE DEF old, new
    <3>1. IsConcat(new, old, Of(k))
      BY <2>2, Concatenated
    <3>2. ASSUME NEW i \in 1..Len(new) PROVE ~Delimiter(new[i])
      <4>1. i \in 1..Len(old) \/ (i - Len(old) \in 1..Len(Of(k)) /\ i = Len(old) + (i - Len(old)))
        BY <3>1 DEF IsConcat
      <4>2. \A j \in 1..Len(old) : new[j] = old[j] /\ ~Delimiter(old[j])
        BY <2>2, <3>1 DEF IsConcat, Undelimited
      <4>3. \A j \in 1..Len(Of(k)) : new[Len(old) + j] = Of(k)[j] /\ ~Delimiter(Of(k)[j])
        BY <2>2, <3>1 DEF IsConcat, Undelimited
      <4> QED
        BY <4>1, <4>2, <4>3
    <3> QED
      BY <3>2 DEF Undelimited
  <2>4. CASE k = 1
    <3>1. old = <<>> /\ Of(k) = Fixed(text)
      BY <1>2, <1>6, <2>4
    <3>2. new = Fixed(text)
      <4>1. <<>> \o Fixed(text) = Fixed(text)
        BY <2>2, FixedItems, ConcatEmptySeq
      <4> QED
        BY <2>2, <3>1, <4>1
    <3>3. Len(V(new)) = 1 /\ V(new)[1] = Whole(text)
      BY <2>2, <3>2, FixedGaps
    <3>4. \A i \in 1..k : i = 1
      BY <2>4
    <3> QED
      BY <2>3, <2>4, <3>3, <3>4
  <2>5. CASE k # 1
    <3> DEFINE G == V(old)
               B == V(Of(k))
               H == V(new)
    <3>1. Len(G) = k - 1 /\ \A i \in 1..(k - 1) : G[i] = Whole(positional[i])
      BY <1>8, <2>1, <2>5
    <3>2. Len(B) = 2 /\ B[1] = NoGap /\ B[2] = Whole(text)
      BY <1>2, <2>2, <2>5, BorderedGaps
    <3>3. Spliced(H, G, B)
      <4>1. Apart(old, Of(k))
        <5>1. Len(old) \in Nat
          BY <2>2
        <5>2. Len(old) > 0 => Len(old) \in 1..Len(old)
          BY <5>1
        <5> HIDE DEF old
        <5> QED
          BY <2>2, <5>2 DEF Apart, Joined, Undelimited
      <4> HIDE DEF old, new
      <4> QED
        BY <2>2, <4>1, GapsConcat
    <3> HIDE DEF G, B, H
    <3>4. /\ Len(H) = k /\ \A i \in 1..(k - 2) : H[i] = G[i]
          /\ H[k - 1] = Merged(G[k - 1], NoGap) /\ H[k] = B[2]
      <4>1. /\ k \in Nat /\ (k - 1) + 2 - 1 = k /\ (k - 1) - 1 = k - 2 /\ 2 \in 2..2
            /\ (k - 1) + 2 - 1 = k
        BY <1>1
      <4> QED
        BY <3>1, <3>2, <3>3, <4>1 DEF Spliced
    <3>5. Merged(G[k - 1], NoGap) = G[k - 1] /\ G[k - 1] = Whole(positional[k - 1])
      <4>1. k - 1 \in 1..(k - 1) /\ k - 1 \in 1..n
        BY <1>1, <2>1, <2>5
      <4>2. Whole(positional[k - 1]) \in Field
        BY <1>1, <4>1 DEF Whole, Field
      <4> QED
        BY <3>1, <4>1, <4>2, MergedNone
    <3>6. \A i \in 1..k : H[i] = Whole(positional[i])
      <4> TAKE i \in 1..k
      <4>1. i = k \/ i = k - 1 \/ i \in 1..(k - 2)
        BY <1>1
      <4>2. \A j \in 1..(k - 2) : j \in 1..(k - 1)
        BY <1>1
      <4> QED
        BY <3>1, <3>2, <3>4, <3>5, <4>1, <4>2
    <3> QED
      BY <2>3, <3>4, <3>6 DEF H
  <2> QED
    BY <2>4, <2>5
<1>9. /\ \A k \in T : Good(k)
      /\ \A k \in 0..n : Good(k) => k \in T
  OBVIOUS
<1> HIDE DEF T, Good
<1>10. n \in T
  <2>1. \A k \in 1..n : k - 1 \in T => k \in T
    <3> TAKE k \in 1..n
    <3>1. k \in 0..n
      BY <1>1
    <3> QED
      BY <1>8, <1>9, <3>1
  <2>2. 0..n \subseteq T
    BY <1>1, <1>7, <2>1, Induction
  <2> QED
    BY <1>1, <2>2
<1> DEFINE all == Bordered(positional)
           G == V(all)
<1>11. all = h[n] /\ Good(n)
  BY <1>3, <1>6, <1>9, <1>10
<1>12. all \in Seq(Item) /\ Undelimited(all)
       /\ (n > 0 => Len(G) = n /\ \A i \in 1..n : G[i] = Whole(positional[i]))
  <2>1. n \in 0..n
    BY <1>1
  <2> QED
    BY <1>6, <1>11, <2>1 DEF Good
<1>13. CASE n = 0
  <2>1. positional = <<>>
    BY <1>13 DEF n
  <2>2. Len(all) = 0
    <3>1. all = <<>>
      <4> HIDE DEF all, Good
      <4> QED
        BY <1>6, <1>11, <1>13
    <3> QED
      BY <3>1
  <2>3. Made(G, <<>>, TRUE) /\ Even(G, <<>>)
    <3> HIDE DEF all
    <3> QED
      BY <1>12, <2>2, NothingMade
  <2> QED
    BY <1>12, <2>1, <2>3
<1>14. CASE n # 0
  <2>1. n > 0 /\ positional # <<>>
    BY <1>1, <1>14 DEF n
  <2> HIDE DEF all, G
  <2>2. Even(G, positional)
    BY <1>12, <2>1 DEF Even, n
  <2>3. \A i \in 1..n : Same(positional[i], G[0 + i], TRUE)
    <3> TAKE i \in 1..n
    <3>1. 0 + i = i
      OBVIOUS
    <3> QED
      BY <1>12, <2>1, <3>1 DEF Same, Arg, Whole
  <2>4. Len(G) = 0 + n + 0
    BY <1>1, <1>12, <2>1
  <2>5. Made(G, positional, TRUE)
    <3>1. 0 \in {0, 1} /\ ~(0 = 1) /\ Len(positional) = n
      BY DEF n
    <3> QED
      BY <2>1, <2>3, <2>4, <3>1, SomeMade
  <2> QED
    BY <1>12, <2>2, <2>5 DEF G, all
<1> QED
  BY <1>1, <1>13, <1>14

-----------------------------------------------------------------------------
(* _field_split beside the gaps of what it has read.  lead is 1 if blanks  *)
(* came first: the gap before them is no piece.                            *)
Ends(s) == s.run = "marks" \/ (s.run = "blanks" /\ s.current # <<>>)

LEMMA EndRunFacts ==
  ASSUME NEW s \in Splitting
  PROVE  /\ EndRun(s).run = "none"
         /\ Ends(s) => EndRun(s).pieces = Append(s.pieces, s.current) /\ EndRun(s).current = <<>>
         /\ ~Ends(s) => EndRun(s).pieces = s.pieces /\ EndRun(s).current = s.current
<1>1. CASE Ends(s)
  <2> DEFINE longer == Append(s.pieces, s.current)
             none == <<>>
  <2>1. EndRun(s) = [[s EXCEPT !.pieces = longer, !.current = none] EXCEPT !.run = "none"]
    BY <1>1 DEF EndRun, Cut, Ends
  <2> HIDE DEF longer, none
  <2>2. EndRun(s).run = "none" /\ EndRun(s).pieces = longer /\ EndRun(s).current = none
    BY <2>1 DEF Splitting
  <2> QED
    BY <1>1, <2>2 DEF longer, none
<1>2. CASE ~Ends(s)
  <2>1. EndRun(s) = [s EXCEPT !.run = "none"]
    BY <1>2 DEF EndRun, Ends
  <2> QED
    BY <1>2, <2>1 DEF Splitting
<1> QED
  BY <1>1, <1>2

LEMMA ReadCharFacts ==
  ASSUME ifs \in SUBSET (Blanks \cup Marks), NEW s \in Splitting, NEW c \in Chars
  PROVE  LET t == ReadChar(s, c)
             e == EndRun(s)
         IN /\ c \in ifs \cap Marks /\ ifs \cap Blanks = {} =>
                 t.pieces = e.pieces /\ t.current = e.current /\ t.run = "marks"
            /\ c \in ifs \cap Marks /\ ifs \cap Blanks # {} =>
                 t.pieces = s.pieces /\ t.current = s.current /\ t.run = "marks"
            /\ c \in ifs \cap Blanks =>
                 /\ t.pieces = s.pieces /\ t.current = s.current
                 /\ t.run = IF s.run = "none" THEN "blanks" ELSE s.run
            /\ c \notin ifs =>
                 t.pieces = e.pieces /\ t.current = Append(e.current, c) /\ t.run = "none"
<1> DEFINE t == ReadChar(s, c)
           e == EndRun(s)
<1>1. e \in Splitting
  BY EndRunHolds
<1> DEFINE from == IF ifs \cap Blanks = {} THEN e ELSE s
<1>3. c \in ifs \cap Marks => t = [from EXCEPT !.run = "marks"]
  BY CharAssumption DEF ReadChar
<1> DEFINE run == IF s.run = "none" THEN "blanks" ELSE s.run
<1>4. c \in ifs \cap Blanks => t = [s EXCEPT !.run = run]
  <2>1. c \in ifs \cap Blanks => c \notin ifs \cap Marks
    BY CharAssumption
  <2> QED
    BY <2>1 DEF ReadChar
<1> DEFINE longer == Append(e.current, c)
<1>5. c \notin ifs => t = [e EXCEPT !.current = longer]
  BY DEF ReadChar
<1>6. /\ [e EXCEPT !.current = longer].run = e.run /\ [e EXCEPT !.current = longer].current = longer
      /\ [e EXCEPT !.current = longer].pieces = e.pieces
  <2> HIDE DEF longer, e
  <2> QED
    BY <1>1 DEF Splitting
<1>7. from \in Splitting /\ e.run = "none"
  BY <1>1, EndRunFacts
<1> HIDE DEF t, from, longer, e, run
<1>8. c \in ifs \cap Marks => t.pieces = from.pieces /\ t.current = from.current /\ t.run = "marks"
  BY <1>3, <1>7 DEF Splitting
<1>9. c \in ifs \cap Blanks =>
        t.pieces = s.pieces /\ t.current = s.current /\ t.run = run
  BY <1>4 DEF Splitting
<1>10. c \notin ifs => t.pieces = e.pieces /\ t.current = longer /\ t.run = "none"
  BY <1>5, <1>6, <1>7
<1> QED
  BY <1>8, <1>9, <1>10 DEF t, from, longer, e, run

Blank(e) == Delimiter(e) /\ e.char \in Blanks
Fits(s, u, join, lead) ==
  LET q == Len(s.pieces)
      n == Count(u, join)
      G(k) == GapOf(u, join, k)
  IN /\ n = lead + q + (IF s.run = "none" THEN 0 ELSE 1)
     /\ lead = 1 => G(0) = NoGap /\ Len(u) > 0 /\ Blank(u[1])
     /\ \A i \in 1..q : Same(s.pieces[i], G(lead + i - 1), Hard)
     /\ G(lead + q).text = s.current
     /\ Arg(G(lead + q)) <=> s.current # <<>> \/ s.run = "marks"
     /\ s.run # "none" => G(n).text = <<>> /\ (G(n).keep <=> s.run = "marks")
     /\ s.run = "none" /\ s.current = <<>> => Len(u) = 0 /\ q = 0 /\ lead = 0
     /\ s.run = "blanks" /\ s.current = <<>> => q = 0 /\ lead = 0 /\ Len(u) > 0 /\ Blank(u[1])
     /\ s.run = "marks" => Hard
     /\ s.run = "blanks" => join /\ Blank(u[Len(u)])
     /\ s.run # "none" => Len(u) > 0 /\ Delimiter(u[Len(u)]) /\ u[Len(u)].part = parts
     /\ s.run = "none" /\ Len(u) > 0 => ~Delimiter(u[Len(u)])

(* One more item: what it opens, and what it does to the gaps.             *)
LEMMA DelimiterGaps ==
  ASSUME NEW u \in Seq(Item), NEW e \in Item, Delimiter(e), NEW join
  PROVE  LET opens == ~(join /\ Len(u) > 0 /\ Joined(u[Len(u)], e))
             n == Count(Append(u, e), join)
         IN /\ n = Count(u, join) + (IF opens THEN 1 ELSE 0)
            /\ \A k \in Nat :
                 /\ GapOf(Append(u, e), join, k).text = GapOf(u, join, k).text
                 /\ GapOf(Append(u, e), join, k).keep
                      <=> GapOf(u, join, k).keep \/ ((k = n \/ k + 1 = n) /\ e.char \in Marks)
<1> DEFINE n == Count(Append(u, e), join)
<1>1. e.kind = "delimiter" /\ e \notin CharItem
  BY DEF Delimiter, CharItem
<1>2. n = Count(u, join) + (IF Opens(u, e, join) THEN 1 ELSE 0)
  BY BordersAppend
<1>3. Opens(u, e, join) <=> ~(join /\ Len(u) > 0 /\ Joined(u[Len(u)], e))
  BY <1>1 DEF Opens
<1>4. ASSUME NEW k \in Nat
      PROVE  /\ GapOf(Append(u, e), join, k).text = GapOf(u, join, k).text
             /\ GapOf(Append(u, e), join, k).keep
                  <=> GapOf(u, join, k).keep \/ ((k = n \/ k + 1 = n) /\ e.char \in Marks)
  <2>1. LET new == GapOf(Append(u, e), join, k)
            old == GapOf(u, join, k)
        IN /\ new.text = IF k = n /\ e \in CharItem THEN Append(old.text, e.char) ELSE old.text
           /\ new.keep <=> \/ old.keep
                           \/ k = n /\ e.kind \in {"char", "empty"}
                           \/ (k = n \/ k + 1 = n) /\ HardItem(e)
    BY GapAppend
  <2> HIDE DEF n
  <2> QED
    BY <1>1, <2>1 DEF HardItem
<1> QED
  BY <1>2, <1>3, <1>4

LEMMA CharGaps ==
  ASSUME NEW u \in Seq(Item), NEW e \in CharItem, NEW join
  PROVE  LET n == Count(u, join)
         IN /\ Count(Append(u, e), join) = n
            /\ \A k \in Nat :
                 /\ GapOf(Append(u, e), join, k).text
                      = IF k = n THEN Append(GapOf(u, join, k).text, e.char)
                        ELSE GapOf(u, join, k).text
                 /\ GapOf(Append(u, e), join, k).keep <=> GapOf(u, join, k).keep \/ k = n
<1> DEFINE n == Count(u, join)
<1>1. e.kind = "char" /\ e \in Item
  BY DEF CharItem, Item
<1>2. Count(Append(u, e), join) = n
  <2>1. ~Opens(u, e, join)
    BY <1>1 DEF Opens, Delimiter
  <2>2. Count(Append(u, e), join) = n + (IF Opens(u, e, join) THEN 1 ELSE 0)
    BY <1>1, BordersAppend
  <2>3. n \in Nat
    BY BordersFacts
  <2> QED
    BY <2>1, <2>2, <2>3
<1>3. ASSUME NEW k \in Nat
      PROVE  /\ GapOf(Append(u, e), join, k).text
                  = IF k = n THEN Append(GapOf(u, join, k).text, e.char)
                    ELSE GapOf(u, join, k).text
             /\ GapOf(Append(u, e), join, k).keep <=> GapOf(u, join, k).keep \/ k = n
  <2>1. LET new == GapOf(Append(u, e), join, k)
            old == GapOf(u, join, k)
            c == Count(Append(u, e), join)
        IN /\ new.text = IF k = c /\ e \in CharItem THEN Append(old.text, e.char) ELSE old.text
           /\ new.keep <=> \/ old.keep
                           \/ k = c /\ e.kind \in {"char", "empty"}
                           \/ (k = c \/ k + 1 = c) /\ HardItem(e)
    BY <1>1, GapAppend
  <2>2. ~HardItem(e)
    BY <1>1 DEF HardItem, Delimiter
  <2> HIDE DEF n
  <2> QED
    BY <1>1, <1>2, <2>1, <2>2
<1> QED
  BY <1>2, <1>3

LEMMA SameStays ==
  ASSUME NEW p, NEW g, NEW h, NEW keep, Same(p, g, keep), h.text = g.text, g.keep => h.keep
  PROVE  Same(p, h, keep)
BY DEF Same, Arg

(* One more piece, the gap that was being read.                            *)
LEMMA OneMore ==
  ASSUME NEW p \in Seq(Seq(Chars)), NEW piece \in Seq(Chars), NEW lead \in Nat, NEW H(_), NEW keep,
         \A i \in 1..Len(p) : Same(p[i], H(lead + i - 1), keep),
         Same(piece, H(lead + Len(p)), keep)
  PROVE  /\ Append(p, piece) \in Seq(Seq(Chars)) /\ Len(Append(p, piece)) = Len(p) + 1
         /\ \A i \in 1..(Len(p) + 1) : Same(Append(p, piece)[i], H(lead + i - 1), keep)
<1> DEFINE w == Append(p, piece)
           q == Len(p)
<1>1. /\ w \in Seq(Seq(Chars)) /\ Len(w) = q + 1 /\ q \in Nat /\ w[q + 1] = piece
      /\ \A i \in 1..q : w[i] = p[i]
  OBVIOUS
<1> HIDE DEF w
<1>2. ASSUME NEW i \in 1..(q + 1) PROVE Same(w[i], H(lead + i - 1), keep)
  <2>1. i = q + 1 \/ i \in 1..q
    BY <1>1
  <2>2. lead + (q + 1) - 1 = lead + q
    BY <1>1
  <2> QED
    BY <1>1, <2>1, <2>2
<1> QED
  BY <1>1, <1>2 DEF w

LEMMA DelimiterRead ==
  ASSUME ifs \in SUBSET (Blanks \cup Marks), NEW join, join <=> ifs \cap Blanks # {},
         NEW lead \in {0, 1}, NEW s \in Splitting, NEW c \in ifs,
         NEW u \in Seq(Item), NEW e \in Item,
         Fits(s, u, join, lead), Delimiter(e), e.char = c, e.part = parts
  PROVE  Fits(ReadChar(s, c), Append(u, e), join, lead)
<1> DEFINE q == Len(s.pieces)
           n == Count(u, join)
           G(k) == GapOf(u, join, k)
           v == Append(u, e)
           m == Count(v, join)
           H(k) == GapOf(v, join, k)
           t == ReadChar(s, c)
<1>1. /\ v \in Seq(Item) /\ Len(v) = Len(u) + 1 /\ Len(v) > 0 /\ v[Len(v)] = e
      /\ Len(u) \in Nat /\ (Len(u) > 0 => v[1] = u[1]) /\ (Len(u) = 0 => v[1] = e)
  OBVIOUS
<1>2. /\ s.pieces \in Seq(Seq(Chars)) /\ s.current \in Seq(Chars)
      /\ s.run \in {"none", "blanks", "marks"}
  BY DEF Splitting
<1>3. q \in Nat /\ n \in Nat /\ m \in Nat /\ lead \in Nat
  <2>1. q \in Nat
    BY <1>2
  <2>2. n \in Nat /\ m \in Nat
    BY <1>1, BordersFacts
  <2> QED
    BY <2>1, <2>2
<1>4. /\ n = lead + q + (IF s.run = "none" THEN 0 ELSE 1)
      /\ lead = 1 => G(0) = NoGap /\ Len(u) > 0 /\ Blank(u[1])
      /\ \A i \in 1..q : Same(s.pieces[i], G(lead + i - 1), Hard)
      /\ G(lead + q).text = s.current
      /\ Arg(G(lead + q)) <=> s.current # <<>> \/ s.run = "marks"
      /\ s.run # "none" => G(n).text = <<>> /\ (G(n).keep <=> s.run = "marks")
      /\ s.run = "none" /\ s.current = <<>> => Len(u) = 0 /\ q = 0 /\ lead = 0
      /\ s.run = "blanks" /\ s.current = <<>> => q = 0 /\ lead = 0 /\ Len(u) > 0 /\ Blank(u[1])
      /\ s.run = "marks" => Hard
      /\ s.run = "blanks" => join /\ Blank(u[Len(u)])
      /\ s.run # "none" => Len(u) > 0 /\ Delimiter(u[Len(u)]) /\ u[Len(u)].part = parts
      /\ s.run = "none" /\ Len(u) > 0 => ~Delimiter(u[Len(u)])
  BY DEF Fits
<1>5. /\ m = n + (IF ~(join /\ Len(u) > 0 /\ Joined(u[Len(u)], e)) THEN 1 ELSE 0)
      /\ \A k \in Nat : /\ H(k).text = G(k).text
                        /\ H(k).keep <=> G(k).keep \/ ((k = m \/ k + 1 = m) /\ c \in Marks)
  BY DelimiterGaps
<1>6. \A k \in Nat : k > n => G(k) = NoGap
  BY GapBeyond
<1>7. \A k : G(k) \in Field /\ H(k) \in Field
  BY <1>1, GapType
<1>8. /\ c \in Chars /\ (c \in Marks => Hard) /\ (c \in Blanks => join /\ c \notin Marks)
      /\ c \in Blanks \/ c \in Marks
  BY CharAssumption DEF Hard, Chars
<1>9. /\ (c \in Marks /\ ~join) => t.pieces = EndRun(s).pieces /\ t.current = EndRun(s).current
                                 /\ t.run = "marks"
      /\ (c \in Marks /\ join) => t.pieces = s.pieces /\ t.current = s.current /\ t.run = "marks"
      /\ c \in Blanks => /\ t.pieces = s.pieces /\ t.current = s.current
                         /\ t.run = IF s.run = "none" THEN "blanks" ELSE s.run
  BY <1>8, ReadCharFacts
<1>10. /\ Ends(s) => EndRun(s).pieces = Append(s.pieces, s.current) /\ EndRun(s).current = <<>>
       /\ ~Ends(s) => EndRun(s).pieces = s.pieces /\ EndRun(s).current = s.current
  BY EndRunFacts
<1> HIDE DEF q, n, G, v, m, H, t
<1>11. m >= n /\ \A i \in 1..q : Same(s.pieces[i], H(lead + i - 1), Hard)
  <2>1. m >= n
    BY <1>3, <1>5
  <2>2. ASSUME NEW i \in 1..q PROVE Same(s.pieces[i], H(lead + i - 1), Hard)
    <3> DEFINE k == lead + i - 1
    <3>1. k \in Nat /\ Same(s.pieces[i], G(k), Hard)
      BY <1>3, <1>4
    <3> HIDE DEF k
    <3>2. H(k).text = G(k).text /\ (G(k).keep => H(k).keep)
      BY <1>5, <3>1
    <3>3. Same(s.pieces[i], H(k), Hard)
      BY <3>1, <3>2, SameStays
    <3> QED
      BY <3>3 DEF k
  <2> QED
    BY <2>1, <2>2
<1>12. Blank(e) <=> c \in Blanks
  BY DEF Blank
<1>13. CASE s.run = "none"
  <2>1. m = n + 1 /\ n = lead + q
    <3>1. ~(Len(u) > 0 /\ Joined(u[Len(u)], e))
      BY <1>4, <1>13 DEF Joined
    <3> QED
      BY <1>3, <1>4, <1>5, <1>13, <3>1
  <2>2. t.pieces = s.pieces /\ t.current = s.current
        /\ t.run = IF c \in Marks THEN "marks" ELSE "blanks"
    <3>1. ~Ends(s)
      BY <1>13 DEF Ends
    <3> QED
      BY <1>8, <1>9, <1>10, <1>13, <3>1
  <2>3. lead = 1 => H(0) = NoGap /\ Len(v) > 0 /\ Blank(v[1])
    <3>1. lead = 1 => H(0).text = G(0).text /\ (H(0).keep <=> G(0).keep)
      BY <1>3, <1>5, <2>1
    <3>2. lead = 1 => H(0).text = <<>> /\ ~H(0).keep
      BY <1>4, <3>1 DEF NoGap
    <3>3. \A h \in Field : h.text = <<>> /\ ~h.keep => h = NoGap
      BY DEF Field, NoGap
    <3> QED
      BY <1>1, <1>4, <1>7, <3>2, <3>3
  <2>4. H(lead + q).text = s.current
        /\ (Arg(H(lead + q)) <=> s.current # <<>> \/ c \in Marks)
    <3>1. n \in Nat /\ n # m /\ n + 1 = m
      BY <1>3, <2>1
    <3>2. H(n).text = G(n).text /\ (H(n).keep <=> G(n).keep \/ c \in Marks)
      BY <1>5, <3>1
    <3>3. G(n).text = s.current /\ (Arg(G(n)) <=> s.current # <<>>)
      BY <1>4, <1>13, <2>1
    <3> QED
      BY <2>1, <3>2, <3>3 DEF Arg
  <2>5. H(m).text = <<>> /\ (H(m).keep <=> c \in Marks)
    <3>1. G(m) = NoGap
      BY <1>3, <1>6, <2>1
    <3> QED
      BY <1>3, <1>5, <3>1 DEF NoGap
  <2>6. s.current = <<>> /\ c \notin Marks => q = 0 /\ lead = 0 /\ Len(v) > 0 /\ Blank(v[1])
    BY <1>1, <1>4, <1>8, <1>12, <1>13
  <2>7. m = lead + q + 1
    BY <2>1
  <2>8. t.run \in {"marks", "blanks"} /\ (t.run = "marks" <=> c \in Marks)
        /\ (t.run = "blanks" <=> c \notin Marks)
    BY <2>2
  <2> QED
    BY <1>1, <1>8, <1>11, <1>12, <2>2, <2>3, <2>4, <2>5, <2>6, <2>7, <2>8 DEF Fits, q, v, m, H, t
<1>14. CASE s.run # "none" /\ join
  <2>1. m = n /\ n = lead + q + 1
    <3>1. Len(u) > 0 /\ Joined(u[Len(u)], e)
      BY <1>4, <1>14 DEF Joined
    <3> QED
      BY <1>3, <1>4, <1>5, <1>14, <3>1
  <2>2. t.pieces = s.pieces /\ t.current = s.current
        /\ t.run = IF c \in Marks THEN "marks" ELSE s.run
    BY <1>8, <1>9, <1>14
  <2>3. lead = 1 => H(0) = NoGap /\ Len(v) > 0 /\ Blank(v[1])
    <3>1. lead = 1 => H(0).text = G(0).text /\ (H(0).keep <=> G(0).keep)
      BY <1>3, <1>5, <2>1
    <3>2. lead = 1 => H(0).text = <<>> /\ ~H(0).keep
      BY <1>4, <3>1 DEF NoGap
    <3>3. \A h \in Field : h.text = <<>> /\ ~h.keep => h = NoGap
      BY DEF Field, NoGap
    <3> QED
      BY <1>1, <1>4, <1>7, <3>2, <3>3
  <2>4. H(lead + q).text = s.current
        /\ (Arg(H(lead + q)) <=> s.current # <<>> \/ s.run = "marks" \/ c \in Marks)
    <3> DEFINE k == lead + q
    <3>1. k \in Nat /\ k # m /\ k + 1 = m
      BY <1>3, <2>1
    <3>2. G(k).text = s.current /\ (Arg(G(k)) <=> s.current # <<>> \/ s.run = "marks")
      BY <1>4
    <3> HIDE DEF k
    <3>3. H(k).text = G(k).text /\ (H(k).keep <=> G(k).keep \/ c \in Marks)
      BY <1>5, <3>1
    <3>4. H(k).text = s.current
          /\ (Arg(H(k)) <=> s.current # <<>> \/ s.run = "marks" \/ c \in Marks)
      BY <3>2, <3>3 DEF Arg
    <3> QED
      BY <3>4 DEF k
  <2>5. H(m).text = <<>> /\ (H(m).keep <=> s.run = "marks" \/ c \in Marks)
    BY <1>3, <1>4, <1>5, <1>14, <2>1
  <2>6. s.run = "blanks" /\ s.current = <<>> => q = 0 /\ lead = 0 /\ Len(v) > 0 /\ Blank(v[1])
    BY <1>1, <1>4
  <2>8. /\ t.run \in {"marks", "blanks"} /\ (t.run = "marks" <=> s.run = "marks" \/ c \in Marks)
        /\ (t.run = "blanks" <=> s.run = "blanks" /\ c \notin Marks)
    BY <1>2, <1>14, <2>2
  <2> QED
    BY <1>1, <1>4, <1>8, <1>11, <1>12, <1>14, <2>1, <2>2, <2>3, <2>4, <2>5, <2>6, <2>8
       DEF Fits, q, v, m, H, t
<1>15. CASE s.run # "none" /\ ~join
  <2>1. m = n + 1 /\ n = lead + q + 1 /\ s.run = "marks" /\ c \in Marks /\ Hard
    BY <1>2, <1>3, <1>4, <1>5, <1>8, <1>15
  <2>2. t.pieces = Append(s.pieces, s.current) /\ t.current = <<>> /\ t.run = "marks"
    <3>1. Ends(s)
      BY <2>1 DEF Ends
    <3> QED
      BY <1>9, <1>10, <1>15, <2>1, <3>1
  <2>3. lead = 1 => H(0) = NoGap /\ Len(v) > 0 /\ Blank(v[1])
    <3>1. lead = 1 => H(0).text = G(0).text /\ (H(0).keep <=> G(0).keep)
      BY <1>3, <1>5, <2>1
    <3>2. lead = 1 => H(0).text = <<>> /\ ~H(0).keep
      BY <1>4, <3>1 DEF NoGap
    <3>3. \A h \in Field : h.text = <<>> /\ ~h.keep => h = NoGap
      BY DEF Field, NoGap
    <3> QED
      BY <1>1, <1>4, <1>7, <3>2, <3>3
  <2>4. Same(s.current, H(lead + q), Hard)
    <3>1. lead + q \in Nat
      BY <1>3
    <3>2. Same(s.current, G(lead + q), Hard)
      BY <1>4, <2>1 DEF Same
    <3> QED
      BY <1>5, <3>1, <3>2, SameStays
  <2>5. /\ Len(t.pieces) = q + 1
        /\ \A i \in 1..(q + 1) : Same(t.pieces[i], H(lead + i - 1), Hard)
    BY <1>2, <1>3, <1>11, <2>2, <2>4, OneMore DEF q
  <2>6. H(n).text = <<>> /\ H(n).keep /\ H(m).text = <<>> /\ H(m).keep
    <3>1. G(m) = NoGap
      BY <1>3, <1>6, <2>1
    <3>2. G(n).text = <<>>
      BY <1>4, <2>1
    <3> QED
      BY <1>3, <1>5, <2>1, <3>1, <3>2 DEF NoGap
  <2>7. m = lead + (q + 1) + 1 /\ lead + (q + 1) = n
    BY <1>3, <2>1
  <2> QED
    BY <1>1, <2>1, <2>2, <2>3, <2>5, <2>6, <2>7 DEF Fits, Arg, v, m, H, t
<1> QED
  BY <1>13, <1>14, <1>15

LEMMA LetterRead ==
  ASSUME ifs \in SUBSET (Blanks \cup Marks), NEW join,
         NEW lead \in {0, 1}, NEW s \in Splitting, NEW c \in Chars \ ifs,
         NEW u \in Seq(Item), NEW e \in CharItem, Fits(s, u, join, lead), e.char = c
  PROVE  \E start \in {0, 1} : Fits(ReadChar(s, c), Append(u, e), join, start)
<1> DEFINE q == Len(s.pieces)
           n == Count(u, join)
           G(k) == GapOf(u, join, k)
           v == Append(u, e)
           m == Count(v, join)
           H(k) == GapOf(v, join, k)
           t == ReadChar(s, c)
<1>0. e \in Item /\ ~Delimiter(e)
  BY DEF Item, CharItem, Delimiter
<1>1. /\ v \in Seq(Item) /\ Len(v) = Len(u) + 1 /\ Len(v) > 0 /\ v[Len(v)] = e
      /\ Len(u) \in Nat /\ (Len(u) > 0 => v[1] = u[1])
  BY <1>0
<1>2. /\ s.pieces \in Seq(Seq(Chars)) /\ s.current \in Seq(Chars)
      /\ s.run \in {"none", "blanks", "marks"}
  BY DEF Splitting
<1>3. q \in Nat /\ n \in Nat /\ lead \in Nat
  <2>1. q \in Nat
    BY <1>2
  <2>2. n \in Nat
    BY BordersFacts
  <2> QED
    BY <2>1, <2>2
<1>4. /\ n = lead + q + (IF s.run = "none" THEN 0 ELSE 1)
      /\ lead = 1 => G(0) = NoGap /\ Len(u) > 0 /\ Blank(u[1])
      /\ \A i \in 1..q : Same(s.pieces[i], G(lead + i - 1), Hard)
      /\ G(lead + q).text = s.current
      /\ Arg(G(lead + q)) <=> s.current # <<>> \/ s.run = "marks"
      /\ s.run # "none" => G(n).text = <<>> /\ (G(n).keep <=> s.run = "marks")
      /\ s.run = "none" /\ s.current = <<>> => Len(u) = 0 /\ q = 0 /\ lead = 0
      /\ s.run = "blanks" /\ s.current = <<>> => q = 0 /\ lead = 0 /\ Len(u) > 0 /\ Blank(u[1])
      /\ s.run = "marks" => Hard
  BY DEF Fits
<1>5. /\ m = n
      /\ \A k \in Nat : /\ H(k).text = IF k = n THEN Append(G(k).text, c) ELSE G(k).text
                        /\ H(k).keep <=> G(k).keep \/ k = n
  BY CharGaps
<1>7. \A k : G(k) \in Field /\ H(k) \in Field
  BY <1>1, GapType
<1>9. t.pieces = EndRun(s).pieces /\ t.current = Append(EndRun(s).current, c) /\ t.run = "none"
  BY ReadCharFacts
<1>10. /\ Ends(s) => EndRun(s).pieces = Append(s.pieces, s.current) /\ EndRun(s).current = <<>>
       /\ ~Ends(s) => EndRun(s).pieces = s.pieces /\ EndRun(s).current = s.current
  BY EndRunFacts
<1>11. \A w \in Seq(Chars) : Append(w, c) # <<>>
  OBVIOUS
<1>12. EndRun(s).current \in Seq(Chars)
  <2>1. EndRun(s) \in Splitting
    BY EndRunHolds
  <2> QED
    BY <2>1 DEF Splitting
<1> HIDE DEF q, n, G, v, m, H, t
<1>13. t.current # <<>>
  BY <1>9, <1>11, <1>12
<1>14. ASSUME NEW k \in Nat, k < n, NEW p, Same(p, G(k), Hard) PROVE Same(p, H(k), Hard)
  <2>1. H(k).text = G(k).text /\ (G(k).keep => H(k).keep)
    BY <1>3, <1>5, <1>14
  <2> QED
    BY <1>14, <2>1, SameStays
<1>15. \A i \in 1..q : lead + i - 1 \in Nat /\ lead + i - 1 < n
  BY <1>3, <1>4
<1>16. \A i \in 1..q : Same(s.pieces[i], H(lead + i - 1), Hard)
  BY <1>4, <1>14, <1>15
<1>17. n > 0 /\ G(0) = NoGap => H(0) = NoGap
  <2>1. n > 0 /\ G(0) = NoGap => H(0).text = <<>> /\ ~H(0).keep
    <3>1. n > 0 => H(0).text = G(0).text /\ (H(0).keep <=> G(0).keep)
      BY <1>3, <1>5
    <3> QED
      BY <3>1 DEF NoGap
  <2>2. \A h \in Field : h.text = <<>> /\ ~h.keep => h = NoGap
    BY DEF Field, NoGap
  <2> QED
    BY <1>7, <2>1, <2>2
<1>18. H(n).text = Append(G(n).text, c) /\ H(n).keep
  BY <1>3, <1>5
<1>19. CASE s.run = "none"
  <2>1. t.pieces = s.pieces /\ t.current = Append(s.current, c)
    <3>1. ~Ends(s)
      BY <1>19 DEF Ends
    <3> QED
      BY <1>9, <1>10, <3>1
  <2>2. n = lead + q /\ m = lead + q + 0
    BY <1>3, <1>4, <1>5, <1>19
  <2>3. lead = 1 => H(0) = NoGap /\ Len(v) > 0 /\ Blank(v[1])
    BY <1>1, <1>3, <1>4, <1>17, <2>2
  <2>4. H(lead + q).text = t.current /\ Arg(H(lead + q))
    BY <1>4, <1>18, <2>1, <2>2 DEF Arg
  <2>5. Fits(t, v, join, lead)
    BY <1>0, <1>1, <1>9, <1>13, <1>16, <2>1, <2>2, <2>3, <2>4 DEF Fits, q, v, m, H
  <2> QED
    BY <2>5 DEF t, v
<1>20. CASE Ends(s)
  <2>1. t.pieces = Append(s.pieces, s.current) /\ t.current = Append(<<>>, c)
    BY <1>9, <1>10, <1>20
  <2>2. n = lead + q + 1 /\ m = lead + (q + 1) + 0 /\ lead + (q + 1) = n /\ lead + q \in Nat
        /\ lead + q < n /\ s.run # "none"
    BY <1>3, <1>4, <1>5, <1>20 DEF Ends
  <2>3. lead = 1 => H(0) = NoGap /\ Len(v) > 0 /\ Blank(v[1])
    BY <1>1, <1>3, <1>4, <1>17, <2>2
  <2>4. Same(s.current, H(lead + q), Hard)
    <3>1. Same(s.current, G(lead + q), Hard)
      BY <1>4, <1>20 DEF Same, Ends
    <3> QED
      BY <1>14, <2>2, <3>1
  <2>5. /\ Len(t.pieces) = q + 1
        /\ \A i \in 1..(q + 1) : Same(t.pieces[i], H(lead + i - 1), Hard)
    BY <1>2, <1>3, <1>16, <2>1, <2>4, OneMore DEF q
  <2>6. H(n).text = t.current /\ Arg(H(n))
    BY <1>4, <1>18, <2>1, <2>2 DEF Arg
  <2>7. Fits(t, v, join, lead)
    BY <1>0, <1>1, <1>9, <1>13, <2>2, <2>3, <2>5, <2>6 DEF Fits, v, m, H
  <2> QED
    BY <2>7 DEF t, v
<1>21. CASE s.run # "none" /\ ~Ends(s)
  <2>1. s.run = "blanks" /\ s.current = <<>> /\ q = 0 /\ lead = 0 /\ n = 1
    BY <1>2, <1>4, <1>21 DEF Ends
  <2>2. t.pieces = s.pieces /\ t.current = Append(<<>>, c)
    BY <1>9, <1>10, <1>21, <2>1
  <2>3. H(0) = NoGap /\ Len(v) > 0 /\ Blank(v[1])
    <3>1. G(0).text = <<>> /\ ~Arg(G(0))
      BY <1>4, <2>1
    <3>2. \A h \in Field : h.text = <<>> /\ ~Arg(h) => h = NoGap
      BY DEF Field, NoGap, Arg
    <3>3. G(0) = NoGap
      BY <1>7, <3>1, <3>2
    <3> QED
      BY <1>1, <1>4, <1>17, <2>1, <3>3
  <2>4. H(1 + q).text = t.current /\ Arg(H(1 + q))
    <3>1. 1 + q = n
      BY <2>1
    <3> QED
      BY <1>4, <1>18, <2>1, <2>2, <3>1 DEF Arg
  <2>5. m = 1 + q + 0
    BY <1>5, <2>1
  <2>6. \A i \in 1..q : FALSE
    BY <2>1
  <2>7. Fits(t, v, join, 1)
    BY <1>0, <1>1, <1>9, <1>13, <2>2, <2>3, <2>4, <2>5, <2>6 DEF Fits, q, v, m, H
  <2> QED
    BY <2>7 DEF t, v
<1> QED
  BY <1>19, <1>20, <1>21

LEMMA OpenItems ==
  ASSUME parts \in Nat, NEW value \in Seq(Chars)
  PROVE  /\ Open(value) \in Seq(Item) /\ Len(Open(value)) = Len(value)
         /\ \A k \in 1..Len(value) :
              /\ Open(value)[k].char = value[k]
              /\ value[k] \in ifs => Delimiter(Open(value)[k]) /\ Open(value)[k].part = parts
              /\ value[k] \notin ifs => Open(value)[k] \in CharItem /\ Open(value)[k].kind = "char"
<1> DEFINE n == Len(value)
           items == Open(value)
           Of(k) == IF value[k] \in ifs
                    THEN [kind |-> "delimiter", char |-> value[k], part |-> parts]
                    ELSE [kind |-> "char", char |-> value[k]]
<1>1. n \in Nat /\ \A k \in 1..n : value[k] \in Chars
  OBVIOUS
<1>2. \A k \in 1..n :
        /\ Of(k) \in Item /\ Of(k).char = value[k]
        /\ value[k] \in ifs => Delimiter(Of(k)) /\ Of(k).part = parts
        /\ value[k] \notin ifs => Of(k) \in CharItem /\ Of(k).kind = "char"
  BY <1>1 DEF Item, CharItem, Delimiter
<1>3. items = [k \in 1..n |-> Of(k)]
  BY DEF Open
<1> HIDE DEF Of, items
<1>4. items \in Seq(Item) /\ Len(items) = n /\ \A k \in 1..n : items[k] = Of(k)
  BY <1>1, <1>2, <1>3
<1> QED
  BY <1>2, <1>4 DEF items

(* What follows the last delimiter is a piece, too, unless it is nothing   *)
(* after blanks.                                                           *)
EdgeBlank(value) ==
  Len(value) > 0 /\ (value[1] \in ifs \cap Blanks \/ value[Len(value)] \in ifs \cap Blanks)

LEMMA AllFits ==
  ASSUME ifs \in SUBSET (Blanks \cup Marks), parts \in Nat, NEW value \in Seq(Chars),
         NEW join, join <=> ifs \cap Blanks # {}
  PROVE  \E lead \in {0, 1} : Fits(AllRead(value), Open(value), join, lead)
<1> DEFINE n == Len(value)
           items == Open(value)
           U(k) == SubSeq(items, 1, k)
<1>1. n \in Nat /\ \A k \in 1..n : value[k] \in Chars /\ k - 1 \in 0..n /\ k \in 0..n
  OBVIOUS
<1>2. /\ items \in Seq(Item) /\ Len(items) = n
      /\ \A k \in 1..n :
           /\ items[k].char = value[k]
           /\ value[k] \in ifs => Delimiter(items[k]) /\ items[k].part = parts
           /\ value[k] \notin ifs => items[k] \in CharItem
  BY OpenItems
<1> HIDE DEF items
<1>3. /\ U(0) = <<>> /\ U(n) = items /\ \A k \in 0..n : U(k) \in Seq(Item)
      /\ \A k \in 1..n : U(k) = Append(U(k - 1), items[k]) /\ items[k] \in Item
  <2>1. SubSeq(items, 1, 0) = <<>> /\ SubSeq(items, 1, Len(items)) = items
    BY <1>2, PrefixFacts
  <2>2. \A j \in 0..Len(items) : SubSeq(items, 1, j) \in Seq(Item)
    BY <1>2, PrefixFacts
  <2>3. \A j \in 1..Len(items) : /\ SubSeq(items, 1, j) = Append(SubSeq(items, 1, j - 1), items[j])
                                 /\ items[j] \in Item
    BY <1>2, PrefixFacts
  <2> QED
    BY <1>2, <2>1, <2>2, <2>3
<1>4. PICK a \in [0..Len(value) -> Splitting] :
           /\ a[0] = StartSplit /\ AllRead(value) = a[Len(value)]
           /\ \A k \in 1..Len(value) : a[k] = ReadChar(a[k - 1], value[k])
  BY AllReadByRecursion
<1>5. /\ a[0] = StartSplit /\ AllRead(value) = a[n] /\ \A k \in 0..n : a[k] \in Splitting
      /\ \A k \in 1..n : a[k] = ReadChar(a[k - 1], value[k])
  BY <1>4
<1> HIDE DEF n, U
<1> DEFINE Good(k) == \E lead \in {0, 1} : Fits(a[k], U(k), join, lead)
<1>6. Good(0)
  <2> DEFINE s == StartSplit
             u == <<>>
  <2>1. /\ s.pieces = <<>> /\ s.current = <<>> /\ s.run = "none" /\ Len(s.pieces) = 0
    BY DEF StartSplit
  <2>2. u \in Seq(Item) /\ Len(u) = 0
    OBVIOUS
  <2> HIDE DEF s, u
  <2>3. Count(u, join) = 0 /\ \A k \in Nat : GapOf(u, join, k) = NoGap
    BY <2>2, EmptyGap
  <2>4. GapOf(u, join, 0 + 0) = NoGap /\ ~Arg(NoGap) /\ NoGap.text = <<>>
    <3>1. 0 + 0 \in Nat
      OBVIOUS
    <3> QED
      BY <2>3, <3>1 DEF Arg, NoGap
  <2>5. 0 = 0 + 0 + 0 /\ ~(0 = 1) /\ ~(Len(u) > 0) /\ (\A i \in 1..0 : FALSE)
        /\ ~("none" = "marks") /\ ~("none" = "blanks")
    BY <2>2
  <2>6. Fits(s, u, join, 0)
    BY <2>1, <2>2, <2>3, <2>4, <2>5 DEF Fits
  <2> QED
    BY <1>3, <1>5, <2>6 DEF s, u
<1>7. ASSUME NEW k \in 1..n, Good(k - 1) PROVE Good(k)
  <2>1. PICK lead \in {0, 1} : Fits(a[k - 1], U(k - 1), join, lead)
    BY <1>7
  <2>2. /\ a[k - 1] \in Splitting /\ U(k - 1) \in Seq(Item) /\ items[k] \in Item /\ value[k] \in Chars
        /\ a[k] = ReadChar(a[k - 1], value[k]) /\ U(k) = Append(U(k - 1), items[k])
    BY <1>1, <1>3, <1>5
  <2>3. CASE value[k] \in ifs
    <3>1. Delimiter(items[k]) /\ items[k].part = parts /\ items[k].char = value[k]
      BY <1>2, <2>3
    <3>2. Fits(ReadChar(a[k - 1], value[k]), Append(U(k - 1), items[k]), join, lead)
      BY <2>1, <2>2, <2>3, <3>1, DelimiterRead
    <3> QED
      BY <2>2, <3>2
  <2>4. CASE value[k] \notin ifs
    <3>1. items[k] \in CharItem /\ items[k].char = value[k]
      BY <1>2, <2>4
    <3>2. \E start \in {0, 1} :
            Fits(ReadChar(a[k - 1], value[k]), Append(U(k - 1), items[k]), join, start)
      BY <2>1, <2>2, <2>4, <3>1, LetterRead
    <3> QED
      BY <2>2, <3>2
  <2> QED
    BY <2>3, <2>4
<1> DEFINE T == {k \in 0..n : Good(k)}
<1>8. (\A k \in 0..n : Good(k) => k \in T) /\ \A k \in T : Good(k)
  OBVIOUS
<1> HIDE DEF T, Good
<1>9. n \in T
  <2>1. 0 \in T
    BY <1>1, <1>6, <1>8
  <2>2. \A k \in 1..n : k - 1 \in T => k \in T
    BY <1>1, <1>7, <1>8
  <2>3. 0..n \subseteq T
    BY <1>1, <2>1, <2>2, Induction
  <2> QED
    BY <1>1, <2>3
<1> QED
  BY <1>3, <1>5, <1>8, <1>9 DEF Good, items

LEMMA SplitMade ==
  ASSUME ifs \in SUBSET (Blanks \cup Marks), parts \in Nat,
         NEW value \in Seq(Chars), value # <<>>,
         NEW join, join <=> ifs \cap Blanks # {}
  PROVE  LET V == Gaps(Open(value), join)
             P == FieldSplit(value)
         IN Made(V, P, Hard) /\ (EdgeBlank(value) \/ Even(V, P))
<1> DEFINE s == AllRead(value)
           z == EndRun(s)
           u == Open(value)
           P == FieldSplit(value)
           V == Gaps(u, join)
           q == Len(s.pieces)
           n == Count(u, join)
           G(k) == GapOf(u, join, k)
<1>1. PICK lead \in {0, 1} : Fits(s, u, join, lead)
  BY AllFits
<1>2. s \in Splitting /\ u \in Seq(Item) /\ Len(u) = Len(value) /\ Len(u) > 0
  <2>1. u \in Seq(Item) /\ Len(u) = Len(value)
    BY OpenItems
  <2>2. Len(value) > 0
    OBVIOUS
  <2> QED
    BY <2>1, <2>2, AllReadHolds
<1>3. \A i \in {1, Len(value)} : Blank(u[i]) => EdgeBlank(value)
  <2>1. 1 \in 1..Len(value) /\ Len(value) \in 1..Len(value) /\ Len(value) > 0
    OBVIOUS
  <2>2. \A i \in 1..Len(value) : Blank(u[i]) => value[i] \in ifs \cap Blanks
    <3> TAKE i \in 1..Len(value)
    <3>1. u[i].char = value[i] /\ (value[i] \notin ifs => u[i].kind = "char")
      BY OpenItems
    <3> HIDE DEF u
    <3> QED
      BY <3>1 DEF Blank, Delimiter
  <2> HIDE DEF u
  <2> QED
    BY <2>1, <2>2 DEF EdgeBlank
<1>4. /\ z.run = "none"
      /\ Ends(s) => z.pieces = Append(s.pieces, s.current) /\ z.current = <<>>
      /\ ~Ends(s) => z.pieces = s.pieces /\ z.current = s.current
  BY <1>2, EndRunFacts
<1>5. P = IF z.current # <<>> \/ s.run = "marks" THEN Append(z.pieces, z.current) ELSE z.pieces
  BY DEF FieldSplit
<1>6. /\ n \in Nat /\ Len(V) = n + 1 /\ \A i \in 1..(n + 1) : V[i] = G(i - 1)
  BY <1>2, GapsFacts
<1>7. \A k : G(k) \in Field
  BY <1>2, GapType
<1> HIDE DEF s, z, u, P, V, n, G
<1>8. /\ s.pieces \in Seq(Seq(Chars)) /\ s.current \in Seq(Chars)
      /\ s.run \in {"none", "blanks", "marks"}
  BY <1>2 DEF Splitting
<1>9. q \in Nat
  BY <1>8
<1>10. /\ n = lead + q + (IF s.run = "none" THEN 0 ELSE 1)
       /\ lead = 1 => G(0) = NoGap /\ Blank(u[1])
       /\ \A i \in 1..q : Same(s.pieces[i], G(lead + i - 1), Hard)
       /\ G(lead + q).text = s.current
       /\ Arg(G(lead + q)) <=> s.current # <<>> \/ s.run = "marks"
       /\ s.run # "none" => G(n).text = <<>> /\ (G(n).keep <=> s.run = "marks")
       /\ s.run = "none" => s.current # <<>>
       /\ s.run = "blanks" /\ s.current = <<>> => q = 0 /\ lead = 0
       /\ s.run = "marks" => Hard
       /\ s.run = "blanks" => Blank(u[Len(u)])
  <2>1. /\ n = lead + q + (IF s.run = "none" THEN 0 ELSE 1)
        /\ lead = 1 => G(0) = NoGap /\ Len(u) > 0 /\ Blank(u[1])
        /\ \A i \in 1..q : Same(s.pieces[i], G(lead + i - 1), Hard)
        /\ G(lead + q).text = s.current
        /\ Arg(G(lead + q)) <=> s.current # <<>> \/ s.run = "marks"
        /\ s.run # "none" => G(n).text = <<>> /\ (G(n).keep <=> s.run = "marks")
        /\ s.run = "none" /\ s.current = <<>> => Len(u) = 0 /\ q = 0 /\ lead = 0
        /\ s.run = "blanks" /\ s.current = <<>> => q = 0 /\ lead = 0 /\ Len(u) > 0 /\ Blank(u[1])
        /\ s.run = "marks" => Hard
        /\ s.run = "blanks" => join /\ Blank(u[Len(u)])
    BY <1>1 DEF Fits, n, G, q
  <2>2. ~(Len(u) = 0)
    BY <1>2
  <2> QED
    BY <2>1, <2>2
<1> HIDE DEF q
<1>11. lead \in Nat /\ (lead = 1 => V[1] = NoGap /\ EdgeBlank(value))
  <2>1. 1 \in 1..(n + 1) /\ 1 - 1 = 0
    BY <1>6
  <2> QED
    BY <1>3, <1>6, <1>10, <2>1
<1>12. \A i \in 1..q : Same(s.pieces[i], V[lead + i], Hard)
  <2> TAKE i \in 1..q
  <2>1. lead + i \in 1..(n + 1) /\ (lead + i) - 1 = lead + i - 1
    BY <1>6, <1>9, <1>10, <1>11
  <2>2. V[lead + i] = G(lead + i - 1)
    BY <1>6, <2>1
  <2> QED
    BY <1>10, <2>2
<1>13. Same(s.current, V[lead + q + 1], Hard) \/ (s.run = "blanks" /\ s.current = <<>>)
  <2>1. lead + q + 1 \in 1..(n + 1) /\ (lead + q + 1) - 1 = lead + q
    BY <1>6, <1>9, <1>10, <1>11
  <2>2. V[lead + q + 1] = G(lead + q)
    BY <1>6, <2>1
  <2> QED
    BY <1>8, <1>10, <2>2 DEF Same
<1>14. s.run # "none" => V[n + 1].text = <<>> /\ (V[n + 1].keep <=> s.run = "marks")
  <2>1. n + 1 \in 1..(n + 1) /\ (n + 1) - 1 = n
    BY <1>6
  <2> QED
    BY <1>6, <1>10, <2>1
<1> DEFINE p == Append(s.pieces, s.current)
<1>15. /\ p \in Seq(Seq(Chars)) /\ Len(p) = q + 1 /\ p # <<>>
       /\ ~(s.run = "blanks" /\ s.current = <<>>) =>
            \A i \in 1..(q + 1) : Same(p[i], V[lead + i], Hard)
  <2>1. p \in Seq(Seq(Chars)) /\ Len(p) = q + 1 /\ p # <<>> /\ p[q + 1] = s.current
        /\ \A i \in 1..q : p[i] = s.pieces[i]
    BY <1>8 DEF q
  <2> HIDE DEF p
  <2>2. ASSUME NEW i \in 1..(q + 1), ~(s.run = "blanks" /\ s.current = <<>>)
        PROVE  Same(p[i], V[lead + i], Hard)
    <3>1. i \in 1..q \/ i = q + 1
      BY <1>9
    <3>2. lead + (q + 1) = lead + q + 1
      BY <1>9, <1>11
    <3> QED
      BY <1>12, <1>13, <2>1, <2>2, <3>1, <3>2
  <2> QED
    BY <2>1, <2>2
<1> HIDE DEF p
<1>16. CASE s.run = "none"
  <2>1. P = p
    <3>1. ~Ends(s)
      BY <1>16 DEF Ends
    <3> QED
      BY <1>4, <1>5, <1>10, <1>16, <3>1 DEF p
  <2>2. Len(V) = lead + Len(P) + 0 /\ Len(P) = q + 1
    BY <1>6, <1>9, <1>10, <1>11, <1>15, <1>16, <2>1
  <2>3. \A i \in 1..Len(P) : Same(P[i], V[lead + i], Hard)
    BY <1>15, <1>16, <2>1, <2>2
  <2>4. Made(V, P, Hard)
    <3>1. 0 \in {0, 1} /\ ~(0 = 1)
      OBVIOUS
    <3> QED
      BY <1>11, <1>15, <2>1, <2>2, <2>3, <3>1, SomeMade
  <2>5. EdgeBlank(value) \/ Even(V, P)
    <3>1. EdgeBlank(value) \/ lead = 0
      BY <1>11
    <3> QED
      BY <1>9, <1>15, <2>1, <2>2, <3>1 DEF Even
  <2> QED
    BY <2>4, <2>5 DEF V, P, u
<1>17. CASE s.run = "marks"
  <2> DEFINE none == <<>>
  <2>1. P = Append(p, none)
    <3>1. Ends(s)
      BY <1>17 DEF Ends
    <3> QED
      BY <1>4, <1>5, <1>17, <3>1 DEF p
  <2>2. n = lead + q + 1 /\ n + 1 = lead + (q + 2) /\ none \in Seq(Chars)
    <3>1. n = lead + q + 1
      BY <1>10, <1>17
    <3> HIDE DEF none
    <3>2. n + 1 = lead + (q + 2)
      BY <1>9, <1>11, <3>1
    <3> QED
      BY <3>1, <3>2 DEF none
  <2>3. Same(none, V[n + 1], Hard)
    BY <1>10, <1>14, <1>17 DEF Same, Arg
  <2>4. Len(P) = q + 2 /\ P # <<>> /\ P[q + 2] = none /\ \A i \in 1..(q + 1) : P[i] = p[i]
    BY <1>9, <1>15, <2>1, <2>2
  <2> HIDE DEF none
  <2>5. \A i \in 1..Len(P) : Same(P[i], V[lead + i], Hard)
    <3> TAKE i \in 1..Len(P)
    <3>1. i = q + 2 \/ i \in 1..(q + 1)
      BY <1>9, <2>4
    <3> QED
      BY <1>15, <1>17, <2>2, <2>3, <2>4, <3>1
  <2>6. Len(V) = lead + Len(P) + 0
    BY <1>6, <1>9, <1>11, <2>2, <2>4
  <2>7. Made(V, P, Hard)
    <3>1. 0 \in {0, 1} /\ ~(0 = 1)
      OBVIOUS
    <3> QED
      BY <1>11, <2>4, <2>5, <2>6, <3>1, SomeMade
  <2>8. EdgeBlank(value) \/ Even(V, P)
    <3>1. EdgeBlank(value) \/ lead = 0
      BY <1>11
    <3> QED
      BY <1>9, <2>4, <2>6, <3>1 DEF Even
  <2> QED
    BY <2>7, <2>8 DEF V, P, u
<1>18. CASE s.run = "blanks" /\ s.current # <<>>
  <2>1. P = p
    <3>1. Ends(s)
      BY <1>18 DEF Ends
    <3> QED
      BY <1>4, <1>5, <1>18, <3>1 DEF p
  <2>2. Len(V) = lead + Len(P) + 1 /\ Len(V) = n + 1
    <3>1. n = lead + q + 1
      BY <1>10, <1>18
    <3> QED
      BY <1>6, <1>9, <1>11, <1>15, <2>1, <3>1
  <2>3. V[Len(V)] = NoGap
    <3>1. V[n + 1].text = <<>> /\ ~V[n + 1].keep
      BY <1>14, <1>18
    <3>2. V[n + 1] \in Field
      <4>1. n + 1 \in 1..(n + 1)
        BY <1>6
      <4> QED
        BY <1>6, <1>7, <4>1
    <3>3. \A h \in Field : h.text = <<>> /\ ~h.keep => h = NoGap
      BY DEF Field, NoGap
    <3> QED
      BY <2>2, <3>1, <3>2, <3>3
  <2>4. Made(V, P, Hard)
    <3>1. 1 \in {0, 1}
      OBVIOUS
    <3>2. \A i \in 1..Len(P) : Same(P[i], V[lead + i], Hard)
      BY <1>15, <1>18, <2>1
    <3> QED
      BY <1>11, <1>15, <2>1, <2>2, <2>3, <3>1, <3>2, SomeMade
  <2>5. EdgeBlank(value)
    BY <1>2, <1>3, <1>10, <1>18
  <2> QED
    BY <2>4, <2>5 DEF V, P, u
<1>19. CASE s.run = "blanks" /\ s.current = <<>>
  <2>1. q = 0 /\ lead = 0 /\ n = 1
    BY <1>10, <1>19
  <2>2. P = <<>>
    <3>1. ~Ends(s)
      BY <1>19 DEF Ends
    <3>2. P = s.pieces
      BY <1>4, <1>5, <1>19, <3>1
    <3> QED
      BY <1>8, <2>1, <3>2 DEF q
  <2>3. \A h \in Field : h.text = <<>> /\ ~h.keep => h = NoGap
    BY DEF Field, NoGap
  <2>4. Len(V) = 2 /\ V[1] = G(0) /\ V[2] = G(1)
    <3>1. 1 \in 1..(1 + 1) /\ 2 \in 1..(1 + 1) /\ 1 - 1 = 0 /\ 2 - 1 = 1 /\ 1 + 1 = 2
      OBVIOUS
    <3> QED
      BY <1>6, <2>1, <3>1
  <2>5. G(0) = NoGap
    <3>1. G(0 + 0).text = <<>> /\ ~Arg(G(0 + 0)) /\ 0 + 0 = 0
      BY <1>10, <1>19, <2>1
    <3> QED
      BY <1>7, <2>3, <3>1 DEF Arg
  <2>6. G(1) = NoGap
    BY <1>7, <1>10, <1>19, <2>1, <2>3
  <2>7. \A i \in 1..2 : V[i] = NoGap
    <3> TAKE i \in 1..2
    <3>1. i = 1 \/ i = 2
      OBVIOUS
    <3> QED
      BY <2>4, <2>5, <2>6, <3>1
  <2>8. Made(V, P, Hard)
    BY <2>2, <2>4, <2>7 DEF Made
  <2>9. EdgeBlank(value)
    BY <1>2, <1>3, <1>10, <1>19
  <2> QED
    BY <2>8, <2>9 DEF V, P, u
<1> QED
  BY <1>8, <1>16, <1>17, <1>18, <1>19

-----------------------------------------------------------------------------
(* The arguments among the first k of some fields.                         *)
Shown(L, k) == Resolved(Arguments(SubSeq(L, 1, k)))

LEMMA ShownFacts ==
  ASSUME NEW L \in Seq(Field)
  PROVE  /\ Shown(L, 0) = <<>>
         /\ Shown(L, Len(L)) = Resolved(Arguments(L))
         /\ Len(Shown(L, Len(L))) = Len(Arguments(L))
         /\ \A k \in 0..Len(L) : Shown(L, k) \in Seq(Seq(Chars)) /\ Len(Shown(L, k)) \in Nat
         /\ \A k \in 1..Len(L) :
              /\ k - 1 \in 0..Len(L) /\ L[k] \in Field /\ L[k].text \in Seq(Chars)
              /\ Shown(L, k) = IF Arg(L[k]) THEN Append(Shown(L, k - 1), L[k].text)
                               ELSE Shown(L, k - 1)
<1> DEFINE U(k) == SubSeq(L, 1, k)
           A(k) == Keep(U(k), Argument)
<1>1. /\ U(0) = <<>> /\ U(Len(L)) = L
      /\ \A k \in 0..Len(L) : U(k) \in Seq(Field)
      /\ \A k \in 1..Len(L) : U(k) = Append(U(k - 1), L[k]) /\ L[k] \in Field /\ k - 1 \in 0..Len(L)
  <2>1. SubSeq(L, 1, 0) = <<>> /\ SubSeq(L, 1, Len(L)) = L
    BY PrefixFacts
  <2>2. \A j \in 0..Len(L) : SubSeq(L, 1, j) \in Seq(Field)
    BY PrefixFacts
  <2>3. \A j \in 1..Len(L) : /\ SubSeq(L, 1, j) = Append(SubSeq(L, 1, j - 1), L[j])
                             /\ L[j] \in Field /\ j - 1 \in 0..Len(L)
    BY PrefixFacts
  <2> QED
    BY <2>1, <2>2, <2>3
<1> HIDE DEF U
<1>2. \A k \in 0..Len(L) : A(k) \in Seq(Field)
  <2> TAKE k \in 0..Len(L)
  <2>1. A(k) \in Seq(Field \cap Argument)
    BY <1>1, KeepType
  <2>2. Field \cap Argument \subseteq Field
    OBVIOUS
  <2> HIDE DEF A
  <2> QED
    BY <2>1, <2>2
<1>3. A(0) = <<>>
  BY <1>1, KeepEmpty
<1>4. \A k \in 1..Len(L) : A(k) = IF L[k] \in Argument THEN Append(A(k - 1), L[k]) ELSE A(k - 1)
  <2> TAKE k \in 1..Len(L)
  <2> DEFINE u == U(k - 1)
             f == L[k]
             w == Append(u, f)
  <2>1. u \in Seq(Field) /\ f \in Field /\ U(k) = w
    BY <1>1
  <2> HIDE DEF u, f
  <2>2. Keep(w, Argument) = IF f \in Argument THEN Append(Keep(u, Argument), f)
                            ELSE Keep(u, Argument)
    BY <2>1, KeepAppend
  <2> HIDE DEF w
  <2> QED
    BY <2>1, <2>2 DEF u, f
<1>5. \A k : Shown(L, k) = Resolved(A(k))
  BY DEF Shown, Arguments, U
<1>6. Len(L) \in Nat /\ A(Len(L)) = Arguments(L)
  BY <1>1 DEF Arguments
<1> HIDE DEF A
<1>7. ASSUME NEW k \in 0..Len(L)
      PROVE  Shown(L, k) \in Seq(Seq(Chars)) /\ Len(Shown(L, k)) = Len(A(k)) /\ Len(A(k)) \in Nat
  BY <1>2, <1>5, ResolvedFacts
<1>8. Shown(L, 0) = <<>>
  <2>1. Resolved(<<>>) = <<>>
    BY DEF Resolved
  <2> QED
    BY <1>3, <1>5, <2>1
<1>9. ASSUME NEW k \in 1..Len(L)
      PROVE  /\ k - 1 \in 0..Len(L) /\ L[k] \in Field /\ L[k].text \in Seq(Chars)
             /\ Shown(L, k) = IF Arg(L[k]) THEN Append(Shown(L, k - 1), L[k].text)
                              ELSE Shown(L, k - 1)
  <2> DEFINE a == A(k - 1)
             f == L[k]
  <2>1. k - 1 \in 0..Len(L) /\ f \in Field /\ f.text \in Seq(Chars) /\ a \in Seq(Field)
    <3>1. k - 1 \in 0..Len(L) /\ f \in Field
      BY <1>1
    <3> QED
      BY <1>2, <3>1 DEF Field
  <2>2. Arg(f) <=> f \in Argument
    BY <2>1 DEF Arg, Argument
  <2>3. A(k) = IF f \in Argument THEN Append(a, f) ELSE a
    BY <1>4
  <2> HIDE DEF a, f
  <2>4. Resolved(Append(a, f)) = Append(Resolved(a), f.text)
    <3> DEFINE b == Append(a, f)
               r == Append(Resolved(a), f.text)
    <3>1. /\ b \in Seq(Field) /\ Len(b) = Len(a) + 1 /\ b[Len(a) + 1] = f /\ Len(a) \in Nat
          /\ \A i \in 1..Len(a) : b[i] = a[i]
      BY <2>1
    <3>2. /\ Resolved(a) \in Seq(Seq(Chars)) /\ Len(Resolved(a)) = Len(a)
          /\ \A i \in 1..Len(a) : Resolved(a)[i] = a[i].text
      BY <2>1, ResolvedFacts
    <3>3. /\ r \in Seq(Seq(Chars)) /\ Len(r) = Len(a) + 1 /\ r[Len(a) + 1] = f.text
          /\ \A i \in 1..Len(a) : r[i] = Resolved(a)[i]
      BY <2>1, <3>2
    <3> HIDE DEF b, r
    <3>4. /\ Resolved(b) \in Seq(Seq(Chars)) /\ Len(Resolved(b)) = Len(b)
          /\ \A i \in 1..Len(b) : Resolved(b)[i] = b[i].text
      BY <3>1, ResolvedFacts
    <3>5. \A i \in 1..(Len(a) + 1) : Resolved(b)[i] = r[i]
      <4> TAKE i \in 1..(Len(a) + 1)
      <4>1. i = Len(a) + 1 \/ i \in 1..Len(a)
        BY <3>1
      <4> QED
        BY <3>1, <3>2, <3>3, <3>4, <4>1
    <3>6. Resolved(b) = r
      BY <3>1, <3>3, <3>4, <3>5, SeqEqual
    <3> QED
      BY <3>6 DEF b, r
  <2>5. Shown(L, k) = Resolved(A(k)) /\ Shown(L, k - 1) = Resolved(a)
    BY <1>5 DEF a
  <2>6. Shown(L, k) = IF Arg(f) THEN Append(Shown(L, k - 1), f.text) ELSE Shown(L, k - 1)
    BY <2>2, <2>3, <2>4, <2>5
  <2> QED
    BY <2>1, <2>6 DEF f
<1>10. Len(L) \in 0..Len(L)
  BY <1>6
<1>11. Shown(L, Len(L)) = Resolved(Arguments(L)) /\ Len(Shown(L, Len(L))) = Len(Arguments(L))
  BY <1>5, <1>6, <1>7, <1>10
<1> QED
  BY <1>7, <1>8, <1>9, <1>11

ArgsIn(L, k) == Len(Shown(L, k))

LEMMA ArgsInFacts ==
  ASSUME NEW L \in Seq(Field)
  PROVE  /\ \A k \in 0..Len(L) : ArgsIn(L, k) \in Nat
         /\ \A k \in 1..Len(L) :
              /\ k - 1 \in 0..Len(L)
              /\ ArgsIn(L, k) = ArgsIn(L, k - 1) + (IF Arg(L[k]) THEN 1 ELSE 0)
         /\ ArgsIn(L, Len(L)) = Len(Arguments(L))
<1>1. \A k \in 0..Len(L) : ArgsIn(L, k) \in Nat
  BY ShownFacts DEF ArgsIn
<1>2. ASSUME NEW k \in 1..Len(L)
      PROVE  /\ k - 1 \in 0..Len(L)
             /\ ArgsIn(L, k) = ArgsIn(L, k - 1) + (IF Arg(L[k]) THEN 1 ELSE 0)
  <2> DEFINE a == Shown(L, k - 1)
             b == Shown(L, k)
             text == L[k].text
  <2>1. k - 1 \in 0..Len(L) /\ text \in Seq(Chars)
        /\ b = IF Arg(L[k]) THEN Append(a, text) ELSE a
    BY ShownFacts
  <2>2. a \in Seq(Seq(Chars))
    BY <2>1, ShownFacts
  <2> HIDE DEF a, b, text
  <2>3. Len(b) = Len(a) + (IF Arg(L[k]) THEN 1 ELSE 0)
    BY <2>1, <2>2
  <2> QED
    BY <2>1, <2>3 DEF a, b, ArgsIn
<1> QED
  BY <1>1, <1>2, ShownFacts DEF ArgsIn

LEMMA ShownSame ==
  ASSUME NEW L \in Seq(Field), NEW M \in Seq(Field), NEW k \in Nat, k <= Len(L), k <= Len(M),
         \A i \in 1..k : L[i].text = M[i].text /\ (Arg(L[i]) <=> Arg(M[i]))
  PROVE  Shown(L, k) = Shown(M, k)
<1> DEFINE Good(j) == Shown(L, j) = Shown(M, j)
           T == {j \in 0..k : Good(j)}
<1>0. Len(L) \in Nat /\ Len(M) \in Nat
  OBVIOUS
<1>1. Good(0)
  BY ShownFacts
<1>2. ASSUME NEW j \in 1..k, Good(j - 1) PROVE Good(j)
  <2>1. j \in 1..Len(L) /\ j \in 1..Len(M)
    BY <1>0
  <2>2. Shown(L, j) = IF Arg(L[j]) THEN Append(Shown(L, j - 1), L[j].text) ELSE Shown(L, j - 1)
    BY <2>1, ShownFacts
  <2>3. Shown(M, j) = IF Arg(M[j]) THEN Append(Shown(M, j - 1), M[j].text) ELSE Shown(M, j - 1)
    BY <2>1, ShownFacts
  <2> QED
    BY <1>2, <2>2, <2>3
<1>3. (\A j \in 0..k : Good(j) => j \in T) /\ \A j \in T : Good(j)
  OBVIOUS
<1> HIDE DEF T, Good
<1>4. k \in T
  <2>1. 0 \in T /\ \A j \in 1..k : j - 1 \in T => j \in T
    BY <1>1, <1>2, <1>3
  <2>2. 0..k \subseteq T
    BY <2>1, Induction
  <2> QED
    BY <2>2
<1> QED
  BY <1>3, <1>4 DEF Good

(* Where all of some fields are arguments, and in general.                 *)
LEMMA ArgsInRun ==
  ASSUME NEW L \in Seq(Field), NEW a \in Nat, NEW k \in Nat, a + k <= Len(L),
         \A i \in 1..k : Arg(L[a + i])
  PROVE  ArgsIn(L, a + k) = ArgsIn(L, a) + k
<1> DEFINE Good(j) == ArgsIn(L, a + j) = ArgsIn(L, a) + j
           T == {j \in 0..k : Good(j)}
<1>0. Len(L) \in Nat /\ ArgsIn(L, a) \in Nat
  <2>1. Len(L) \in Nat
    OBVIOUS
  <2>2. a \in 0..Len(L)
    BY <2>1
  <2> QED
    BY <2>1, <2>2, ArgsInFacts
<1>1. Good(0)
  BY <1>0
<1>2. ASSUME NEW j \in 1..k, Good(j - 1) PROVE Good(j)
  <2>1. a + j \in 1..Len(L) /\ (a + j) - 1 = a + (j - 1)
    BY <1>0
  <2>2. ArgsIn(L, a + j) = ArgsIn(L, (a + j) - 1) + 1
    BY <2>1, ArgsInFacts
  <2> QED
    BY <1>0, <1>2, <2>1, <2>2
<1>3. (\A j \in 0..k : Good(j) => j \in T) /\ \A j \in T : Good(j)
  OBVIOUS
<1> HIDE DEF T, Good
<1>4. k \in T
  <2>1. 0 \in T /\ \A j \in 1..k : j - 1 \in T => j \in T
    BY <1>1, <1>2, <1>3
  <2>2. 0..k \subseteq T
    BY <2>1, Induction
  <2> QED
    BY <2>2
<1> QED
  BY <1>3, <1>4 DEF Good

LEMMA ArgsInGrows ==
  ASSUME NEW L \in Seq(Field), NEW a \in Nat, NEW k \in Nat, a + k <= Len(L)
  PROVE  ArgsIn(L, a + k) >= ArgsIn(L, a)
<1> DEFINE Good(j) == ArgsIn(L, a + j) >= ArgsIn(L, a)
           T == {j \in 0..k : Good(j)}
<1>0. Len(L) \in Nat /\ \A j \in 0..k : ArgsIn(L, a + j) \in Nat /\ a + 0 = a
  <2>1. Len(L) \in Nat
    OBVIOUS
  <2>2. \A j \in 0..k : a + j \in 0..Len(L)
    BY <2>1
  <2>3. \A j \in 0..Len(L) : ArgsIn(L, j) \in Nat
    BY ArgsInFacts
  <2> QED
    BY <2>1, <2>2, <2>3
<1>1. Good(0)
  <2>1. 0 \in 0..k
    OBVIOUS
  <2>2. ArgsIn(L, a + 0) \in Nat /\ a + 0 = a
    BY <1>0, <2>1
  <2> QED
    BY <2>2
<1>2. ASSUME NEW j \in 1..k, Good(j - 1) PROVE Good(j)
  <2>1. a + j \in 1..Len(L) /\ (a + j) - 1 = a + (j - 1) /\ j \in 0..k /\ j - 1 \in 0..k /\ 0 \in 0..k
    BY <1>0
  <2>2. ArgsIn(L, a + j) = ArgsIn(L, (a + j) - 1) + (IF Arg(L[a + j]) THEN 1 ELSE 0)
    BY <2>1, ArgsInFacts
  <2>3. ArgsIn(L, a) \in Nat /\ ArgsIn(L, a + (j - 1)) \in Nat
    BY <1>0, <2>1
  <2> QED
    BY <1>2, <2>1, <2>2, <2>3
<1>3. (\A j \in 0..k : Good(j) => j \in T) /\ \A j \in T : Good(j)
  OBVIOUS
<1> HIDE DEF T, Good
<1>4. k \in T
  <2>1. 0 \in T /\ \A j \in 1..k : j - 1 \in T => j \in T
    BY <1>1, <1>2, <1>3
  <2>2. 0..k \subseteq T
    BY <2>1, Induction
  <2> QED
    BY <2>2
<1> QED
  BY <1>3, <1>4 DEF Good

(* What a part adds to the fields.                                         *)
FansOut(F, fs, P, keep) ==
  LET n == Len(fs)
  IN /\ F \in Seq(Field) /\ Len(F) = n + Len(P) - 1
     /\ \A i \in 1..(n - 1) : F[i] = fs[i]
     /\ F[n].text = fs[n].text \o P[1]
     /\ F[n].keep <=> fs[n].keep \/ (keep /\ P[1] = <<>> /\ fs[n].text = <<>>)
     /\ \A i \in 2..Len(P) : /\ F[n + i - 1].text = P[i]
                             /\ F[n + i - 1].keep <=> keep /\ P[i] = <<>>

LEMMA FanOutShape ==
  ASSUME NEW fs \in Seq(Field), Len(fs) > 0, NEW P \in Seq(Seq(Chars)), P # <<>>,
         NEW keep \in BOOLEAN
  PROVE  FansOut(FanOut(fs, P, keep), fs, P, keep)
<1> DEFINE F == FanOut(fs, P, keep)
           n == Len(fs)
           k == Len(P)
           f == fs[n]
           longer == f.text \o P[1]
           flag == f.keep \/ (keep /\ P[1] = <<>> /\ f.text = <<>>)
           new == [text |-> longer, keep |-> flag]
           grown == Grow(fs, P[1], keep)
           Of(i) == [text |-> P[i + 1], keep |-> keep /\ P[i + 1] = <<>>]
           rest == [i \in 1..(k - 1) |-> Of(i)]
<1>1. n \in Nat /\ n > 0 /\ f \in Field /\ k \in Nat /\ k > 0 /\ \A i \in 1..k : P[i] \in Seq(Chars)
  OBVIOUS
<1>2. longer \in Seq(Chars) /\ flag \in BOOLEAN /\ P[1] \in Seq(Chars)
  <2>1. f.text \in Seq(Chars) /\ f.keep \in BOOLEAN
    BY <1>1 DEF Field
  <2>2. P[1] \in Seq(Chars)
    BY <1>1
  <2> QED
    BY <2>1, <2>2
<1>3. grown = [fs EXCEPT ![n] = new]
  BY DEF Grow
<1>4. F = grown \o rest
  BY DEF FanOut
<1>5. \A i \in 1..(k - 1) : Of(i) \in Field /\ Of(i).text = P[i + 1]
                            /\ (Of(i).keep <=> keep /\ P[i + 1] = <<>>)
  <2> TAKE i \in 1..(k - 1)
  <2>1. P[i + 1] \in Seq(Chars)
    BY <1>1
  <2> QED
    BY <2>1 DEF Field
<1> HIDE DEF F, grown, Of, longer, flag
<1>6. new \in Field /\ new.text = longer /\ new.keep = flag
  BY <1>2 DEF Field
<1> HIDE DEF new
<1>7. grown \in Seq(Field) /\ Len(grown) = n /\ grown[n] = new
      /\ \A i \in 1..(n - 1) : grown[i] = fs[i]
  BY <1>1, <1>3, <1>6
<1>8. rest \in Seq(Field) /\ Len(rest) = k - 1 /\ \A i \in 1..(k - 1) : rest[i] = Of(i)
  BY <1>1, <1>5
<1> HIDE DEF rest, n, k
<1>9. IsConcat(F, grown, rest) /\ F \in Seq(Field)
  BY <1>4, <1>7, <1>8, Concatenated
<1>10. /\ Len(F) = n + (k - 1) /\ \A i \in 1..n : F[i] = grown[i]
       /\ \A i \in 1..(k - 1) : F[n + i] = rest[i]
  BY <1>7, <1>8, <1>9 DEF IsConcat
<1>11. Len(F) = n + k - 1
  BY <1>1, <1>10
<1>12. \A i \in 1..(n - 1) : F[i] = fs[i]
  <2> TAKE i \in 1..(n - 1)
  <2>1. i \in 1..n
    BY <1>1
  <2> QED
    BY <1>7, <1>10, <2>1
<1>13. F[n].text = longer /\ F[n].keep = flag
  <2>1. n \in 1..n
    BY <1>1
  <2> QED
    BY <1>6, <1>7, <1>10, <2>1
<1>14. ASSUME NEW i \in 2..k
       PROVE  F[n + i - 1].text = P[i] /\ (F[n + i - 1].keep <=> keep /\ P[i] = <<>>)
  <2> DEFINE j == i - 1
  <2>1. j \in 1..(k - 1) /\ j + 1 = i /\ n + j = n + i - 1
    BY <1>1
  <2> HIDE DEF j
  <2>2. F[n + j].text = P[j + 1] /\ (F[n + j].keep <=> keep /\ P[j + 1] = <<>>)
    BY <1>5, <1>8, <1>10, <2>1
  <2> QED
    BY <2>1, <2>2
<1> QED
  BY <1>9, <1>11, <1>12, <1>13, <1>14 DEF FansOut, F, n, k, longer, flag

(* The fields that come of a part are arguments, all of them from the last *)
(* one that was there.                                                     *)
FansArgs(F, fs, P) ==
  LET n == Len(fs)
  IN /\ F \in Seq(Field) /\ Len(F) = n + Len(P) - 1
     /\ \A i \in 1..(n - 1) : F[i] = fs[i]
     /\ F[n].text = fs[n].text \o P[1]
     /\ \A i \in 2..Len(P) : F[n + i - 1].text = P[i]
     /\ \A i \in 1..Len(P) : Arg(F[(n - 1) + i])

LEMMA FanOutArgs ==
  ASSUME NEW fs \in Seq(Field), Len(fs) > 0, NEW P \in Seq(Seq(Chars)), P # <<>>,
         NEW keep \in BOOLEAN, \A i \in 1..Len(P) : P[i] = <<>> => keep
  PROVE  FansArgs(FanOut(fs, P, keep), fs, P)
<1> DEFINE F == FanOut(fs, P, keep)
           n == Len(fs)
<1>1. /\ F \in Seq(Field) /\ Len(F) = n + Len(P) - 1
      /\ \A i \in 1..(n - 1) : F[i] = fs[i]
      /\ F[n].text = fs[n].text \o P[1]
      /\ F[n].keep <=> fs[n].keep \/ (keep /\ P[1] = <<>> /\ fs[n].text = <<>>)
      /\ \A i \in 2..Len(P) : /\ F[n + i - 1].text = P[i]
                              /\ F[n + i - 1].keep <=> keep /\ P[i] = <<>>
  <2>1. FansOut(F, fs, P, keep)
    BY FanOutShape
  <2> HIDE DEF F
  <2> QED
    BY <2>1 DEF FansOut
<1>2. n \in Nat /\ n > 0 /\ Len(P) \in Nat /\ Len(P) > 0 /\ fs[n].text \in Seq(Chars)
      /\ P[1] \in Seq(Chars)
  <2>1. fs[n] \in Field
    OBVIOUS
  <2> QED
    BY <2>1 DEF Field
<1> HIDE DEF F, n
<1>3. Arg(F[n])
  <2>1. \A a \in Seq(Chars), b \in Seq(Chars) : a \o b = <<>> => a = <<>> /\ b = <<>>
    OBVIOUS
  <2>2. P[1] = <<>> => keep
    <3>1. 1 \in 1..Len(P)
      BY <1>2
    <3> QED
      BY <3>1
  <2> DEFINE a == fs[n].text
             b == P[1]
  <2>3. a \in Seq(Chars) /\ b \in Seq(Chars)
    BY <1>2
  <2> HIDE DEF a, b
  <2>4. a \o b = <<>> => a = <<>> /\ b = <<>>
    BY <2>1, <2>3
  <2>5. F[n].text = <<>> => F[n].keep
    BY <1>1, <2>2, <2>4 DEF a, b
  <2> QED
    BY <2>5 DEF Arg
<1>4. ASSUME NEW i \in 1..Len(P) PROVE Arg(F[(n - 1) + i])
  <2>1. CASE i = 1
    <3>1. (n - 1) + i = n
      BY <1>2, <2>1
    <3> QED
      BY <1>3, <3>1
  <2>2. CASE i # 1
    <3>1. i \in 2..Len(P) /\ (n - 1) + i = n + i - 1
      BY <1>2, <2>2
    <3>2. F[n + i - 1].text = P[i] /\ (F[n + i - 1].keep <=> keep /\ P[i] = <<>>)
      BY <1>1, <3>1
    <3>3. Arg(F[n + i - 1])
      BY <3>2 DEF Arg
    <3> QED
      BY <3>1, <3>3
  <2> QED
    BY <2>1, <2>2
<1> QED
  BY <1>1, <1>4 DEF FansArgs, F, n

LEMMA MergedFacts ==
  ASSUME NEW f, NEW g
  PROVE  Merged(f, g).text = f.text \o g.text /\ (Merged(f, g).keep <=> f.keep \/ g.keep)
BY DEF Merged

Alike(F, G) ==
  /\ Len(F) = Len(G)
  /\ \A i \in 1..Len(F) : F[i].text = G[i].text /\ (Arg(F[i]) <=> Arg(G[i]))

LEMMA MadePieces ==
  ASSUME NEW V, NEW P, NEW keep, Made(V, P, keep)
  PROVE  \A i \in 1..Len(P) : P[i] = <<>> => keep
<1>1. CASE P = <<>>
  BY <1>1
<1>2. CASE P # <<>>
  BY <1>2 DEF Made, Same
<1> QED
  BY <1>1, <1>2

(* Without blanks at an end of it, the part leaves fields and gaps alike.  *)
LEMMA StayAlike ==
  ASSUME NEW fs \in Seq(Field), Len(fs) > 0, NEW P \in Seq(Seq(Chars)), NEW keep \in BOOLEAN,
         NEW G \in Seq(Field), NEW V \in Seq(Field), NEW H \in Seq(Field),
         Alike(fs, G), Made(V, P, keep), Even(V, P), Spliced(H, G, V)
  PROVE  Alike(FanOut(fs, P, keep), H)
<1> DEFINE F == FanOut(fs, P, keep)
           n == Len(fs)
           k == Len(P)
<1>1. n \in Nat /\ n > 0 /\ k \in Nat /\ Len(G) = n /\ fs[n].text \in Seq(Chars)
      /\ G[n] \in Field /\ G[n].text = fs[n].text /\ (Arg(G[n]) <=> Arg(fs[n]))
  <2>1. n \in Nat /\ k \in Nat /\ Len(G) = n
    BY DEF Alike
  <2>2. n \in 1..n /\ fs[n] \in Field /\ G[n] \in Field
    BY <2>1
  <2> QED
    BY <2>1, <2>2 DEF Alike, Field
<1>2. CASE P = <<>>
  <2>1. F = fs /\ Len(V) = 1 /\ V[1] = NoGap
    <3>1. Len(V) = 1
      BY <1>2 DEF Even
    <3>2. \A i \in 1..Len(V) : V[i] = NoGap
      BY <1>2 DEF Made
    <3> QED
      BY <1>2, <3>1, <3>2 DEF FanOut
  <2>2. Len(H) = n /\ (\A i \in 1..(n - 1) : H[i] = G[i]) /\ H[n] = Merged(G[n], NoGap)
    BY <1>1, <2>1 DEF Spliced
  <2>3. Merged(G[n], NoGap) = G[n]
    BY <1>1, MergedNone
  <2>4. \A i \in 1..n : H[i] = G[i]
    <3> TAKE i \in 1..n
    <3>1. i = n \/ i \in 1..(n - 1)
      BY <1>1
    <3> QED
      BY <2>2, <2>3, <3>1
  <2> QED
    BY <2>1, <2>2, <2>4 DEF Alike
<1>3. CASE P # <<>>
  <2>1. Len(V) = k /\ k > 0 /\ \A i \in 1..k : Same(P[i], V[i], keep)
    <3>1. Len(V) = k /\ k > 0
      BY <1>1, <1>3 DEF Even
    <3>2. PICK lead \in {0, 1}, trail \in {0, 1} :
            Len(V) = lead + k + trail /\ \A i \in 1..k : Same(P[i], V[lead + i], keep)
      BY <1>3 DEF Made
    <3>3. lead = 0
      BY <1>1, <3>1, <3>2
    <3>4. ASSUME NEW i \in 1..k PROVE Same(P[i], V[i], keep)
      <4>1. lead + i = i
        BY <3>3
      <4> QED
        BY <3>2, <4>1
    <3> QED
      BY <3>1, <3>4
  <2>2. /\ F \in Seq(Field) /\ Len(F) = n + k - 1
        /\ \A i \in 1..(n - 1) : F[i] = fs[i]
        /\ F[n].text = fs[n].text \o P[1]
        /\ \A i \in 2..k : F[n + i - 1].text = P[i]
        /\ \A i \in 1..k : Arg(F[(n - 1) + i])
    <3>1. FansArgs(F, fs, P)
      <4>1. \A i \in 1..Len(P) : P[i] = <<>> => keep
        BY MadePieces
      <4> QED
        BY <1>3, <4>1, FanOutArgs
    <3> HIDE DEF F
    <3> QED
      BY <3>1 DEF FansArgs
  <2>3. /\ Len(H) = n + k - 1 /\ \A i \in 1..(n - 1) : H[i] = G[i]
        /\ H[n] = Merged(G[n], V[1]) /\ \A i \in 2..k : H[n + i - 1] = V[i]
    BY <1>1, <2>1 DEF Spliced
  <2> HIDE DEF F, n, k
  <2>4. ASSUME NEW i \in 1..(n + k - 1)
        PROVE  F[i].text = H[i].text /\ (Arg(F[i]) <=> Arg(H[i]))
    <3>1. CASE i < n
      <4>1. i \in 1..(n - 1) /\ i \in 1..n
        BY <1>1, <3>1
      <4>2. fs[i].text = G[i].text /\ (Arg(fs[i]) <=> Arg(G[i]))
        BY <4>1 DEF Alike, n
      <4> QED
        BY <2>2, <2>3, <4>1, <4>2
    <3>2. CASE i = n
      <4>1. 1 \in 1..k /\ (n - 1) + 1 = n
        BY <1>1, <2>1
      <4>2. Arg(F[n]) /\ Same(P[1], V[1], keep)
        BY <2>1, <2>2, <4>1
      <4>3. H[n].text = G[n].text \o V[1].text /\ (H[n].keep <=> G[n].keep \/ V[1].keep)
        <5>1. H[n] = Merged(G[n], V[1])
          BY <2>3
        <5>2. Merged(G[n], V[1]).text = G[n].text \o V[1].text
              /\ (Merged(G[n], V[1]).keep <=> G[n].keep \/ V[1].keep)
          BY MergedFacts
        <5> QED
          BY <5>1, <5>2
      <4>4. V[1].text = P[1] /\ Arg(V[1])
        BY <4>2 DEF Same
      <4>5. G[n].text \o V[1].text = <<>> => V[1].text = <<>>
        <5>1. V[1].text \in Seq(Chars)
          <6>1. V[1] \in Field
            BY <2>1, <4>1
          <6> QED
            BY <6>1 DEF Field
        <5>2. \A a \in Seq(Chars), b \in Seq(Chars) : a \o b = <<>> => b = <<>>
          OBVIOUS
        <5> DEFINE a == G[n].text
                   b == V[1].text
        <5>3. a \in Seq(Chars) /\ b \in Seq(Chars)
          BY <1>1, <5>1
        <5> HIDE DEF a, b
        <5>4. a \o b = <<>> => b = <<>>
          BY <5>2, <5>3
        <5> QED
          BY <5>4 DEF a, b
      <4>6. Arg(H[n])
        BY <4>3, <4>4, <4>5 DEF Arg
      <4> QED
        BY <1>1, <2>2, <3>2, <4>2, <4>3, <4>4, <4>6
    <3>3. CASE i > n
      <4> DEFINE j == i - n + 1
      <4>1. j \in 2..k /\ j \in 1..k /\ n + j - 1 = i /\ (n - 1) + j = i
        BY <1>1, <2>1, <3>3
      <4> HIDE DEF j
      <4>2. F[i].text = P[j] /\ Arg(F[i]) /\ H[i] = V[j]
        BY <2>2, <2>3, <4>1
      <4>3. V[j].text = P[j] /\ Arg(V[j])
        BY <2>1, <4>1 DEF Same
      <4> QED
        BY <4>2, <4>3
    <3> QED
      BY <1>1, <3>1, <3>2, <3>3
  <2> QED
    BY <2>2, <2>3, <2>4 DEF Alike, F
<1> QED
  BY <1>2, <1>3

LEMMA ShownRun ==
  ASSUME NEW L \in Seq(Field), NEW P \in Seq(Seq(Chars)), NEW a \in Nat, a + Len(P) <= Len(L),
         Shown(L, a) = <<>>, \A i \in 1..Len(P) : Arg(L[a + i]) /\ L[a + i].text = P[i]
  PROVE  Shown(L, a + Len(P)) = P
<1> DEFINE k == Len(P)
           U(j) == SubSeq(P, 1, j)
           Good(j) == Shown(L, a + j) = U(j)
           T == {j \in 0..k : Good(j)}
<1>1. Len(L) \in Nat /\ k \in Nat /\ a + 0 = a
  OBVIOUS
<1>2. U(0) = <<>> /\ U(k) = P /\ \A j \in 1..k : U(j) = Append(U(j - 1), P[j])
  <2>1. SubSeq(P, 1, 0) = <<>> /\ SubSeq(P, 1, Len(P)) = P
    BY PrefixFacts
  <2>2. \A j \in 1..Len(P) : SubSeq(P, 1, j) = Append(SubSeq(P, 1, j - 1), P[j])
    BY PrefixFacts
  <2> QED
    BY <2>1, <2>2
<1> HIDE DEF U
<1>3. Good(0)
  BY <1>1, <1>2
<1>4. ASSUME NEW j \in 1..k, Good(j - 1) PROVE Good(j)
  <2>1. a + j \in 1..Len(L) /\ (a + j) - 1 = a + (j - 1)
    BY <1>1
  <2>2. Shown(L, a + j) = IF Arg(L[a + j]) THEN Append(Shown(L, (a + j) - 1), L[a + j].text)
                          ELSE Shown(L, (a + j) - 1)
    BY <2>1, ShownFacts
  <2>3. Arg(L[a + j]) /\ L[a + j].text = P[j]
    OBVIOUS
  <2> QED
    BY <1>2, <1>4, <2>1, <2>2, <2>3
<1>5. (\A j \in 0..k : Good(j) => j \in T) /\ \A j \in T : Good(j)
  OBVIOUS
<1> HIDE DEF T, Good
<1>6. k \in T
  <2>1. 0 \in T /\ \A j \in 1..k : j - 1 \in T => j \in T
    BY <1>1, <1>3, <1>4, <1>5
  <2>2. 0..k \subseteq T
    BY <1>1, <2>1, Induction
  <2> QED
    BY <1>1, <2>2
<1>7. Good(k)
  BY <1>5, <1>6
<1> QED
  BY <1>2, <1>7 DEF Good, k

(* A word of one part: both sides are its pieces.                          *)
LEMMA FirstPart ==
  ASSUME NEW P \in Seq(Seq(Chars)), NEW keep \in BOOLEAN, NEW V \in Seq(Field), Made(V, P, keep),
         NEW fs, fs = <<NewField>>
  PROVE  Shown(FanOut(fs, P, keep), Len(FanOut(fs, P, keep))) = Shown(V, Len(V))
<1>1. /\ fs \in Seq(Field) /\ Len(fs) = 1 /\ fs[1] = NewField /\ NewField.text = <<>>
      /\ ~Arg(NewField)
  <2>1. fs \in Seq(Field) /\ Len(fs) = 1 /\ fs[1] = NewField
    BY EmptyWord
  <2> QED
    BY <2>1 DEF NewField, Arg
<1>2. ~Arg(NoGap)
  BY DEF NoGap, Arg
<1>3. \A L \in Seq(Field) : \A k \in 1..Len(L) :
        ~Arg(L[k]) => Shown(L, k) = Shown(L, k - 1)
  <2> TAKE L \in Seq(Field)
  <2> TAKE k \in 1..Len(L)
  <2> QED
    BY ShownFacts
<1>4. \A L \in Seq(Field) : Shown(L, 0) = <<>>
  BY ShownFacts
<1>5. CASE P = <<>>
  <2>1. FanOut(fs, P, keep) = fs
    BY <1>5 DEF FanOut
  <2>2. Shown(fs, 1) = <<>>
    <3>1. 1 \in 1..Len(fs) /\ 1 - 1 = 0
      BY <1>1
    <3> QED
      BY <1>1, <1>3, <1>4, <3>1
  <2>3. Len(V) \in {1, 2} /\ \A i \in 1..Len(V) : V[i] = NoGap
    BY <1>5 DEF Made
  <2>4. Shown(V, 1) = <<>>
    <3>1. 1 \in 1..Len(V) /\ 1 - 1 = 0
      <4>1. \A j : j = 1 \/ j = 2 => 1 \in 1..j /\ 1 - 1 = 0
        OBVIOUS
      <4>2. Len(V) = 1 \/ Len(V) = 2
        BY <2>3
      <4> QED
        BY <4>1, <4>2
    <3> QED
      BY <1>2, <1>3, <1>4, <2>3, <3>1
  <2>5. Len(V) = 2 => Shown(V, 2) = <<>>
    <3>1. Len(V) = 2 => 2 \in 1..Len(V) /\ 2 - 1 = 1
      OBVIOUS
    <3> QED
      BY <1>2, <1>3, <2>3, <2>4, <3>1
  <2> QED
    BY <1>1, <2>1, <2>2, <2>3, <2>4, <2>5
<1>6. CASE P # <<>>
  <2> DEFINE k == Len(P)
             F == FanOut(fs, P, keep)
  <2>1. k \in Nat /\ k > 0 /\ P[1] \in Seq(Chars)
    BY <1>6
  <2>2. FansArgs(F, fs, P)
    <3>1. \A i \in 1..Len(P) : P[i] = <<>> => keep
      BY MadePieces
    <3>2. fs \in Seq(Field) /\ Len(fs) > 0
      BY <1>1
    <3> QED
      BY <1>6, <3>1, <3>2, FanOutArgs
  <2> HIDE DEF F, k
  <2>3. /\ F \in Seq(Field) /\ Len(F) = 0 + k /\ F[1].text = <<>> \o P[1]
        /\ \A i \in 2..k : F[1 + i - 1].text = P[i]
        /\ \A i \in 1..k : Arg(F[(1 - 1) + i])
    <3>1. 1 + k - 1 = 0 + k
      BY <2>1
    <3> QED
      BY <1>1, <2>2, <3>1 DEF FansArgs, k
  <2>4. \A i \in 1..k : Arg(F[0 + i]) /\ F[0 + i].text = P[i]
    <3> TAKE i \in 1..k
    <3>1. 0 + i = i /\ (1 - 1) + i = i /\ (i = 1 \/ (i \in 2..k /\ 1 + i - 1 = i))
      BY <2>1
    <3>2. <<>> \o P[1] = P[1]
      BY <2>1, ConcatEmptySeq
    <3>3. i = 1 => F[i].text = P[i]
      BY <2>3, <3>2
    <3>4. i \in 2..k /\ 1 + i - 1 = i => F[i].text = P[i]
      BY <2>3
    <3>5. Arg(F[i])
      BY <2>3, <3>1
    <3> QED
      BY <3>1, <3>3, <3>4, <3>5
  <2>5. Shown(F, Len(F)) = P
    BY <1>4, <2>1, <2>3, <2>4, ShownRun DEF k
  <2>6. PICK lead \in {0, 1}, trail \in {0, 1} :
          /\ Len(V) = lead + k + trail
          /\ lead = 1 => V[1] = NoGap
          /\ trail = 1 => V[Len(V)] = NoGap
          /\ \A i \in 1..k : Same(P[i], V[lead + i], keep)
    BY <1>6 DEF Made, k
  <2>7. Shown(V, lead) = <<>>
    <3>1. lead = 1 => lead \in 1..Len(V) /\ lead - 1 = 0
      BY <2>1, <2>6
    <3> QED
      BY <1>2, <1>3, <1>4, <2>6, <3>1
  <2>8. Shown(V, lead + k) = P
    <3>1. \A i \in 1..k : Arg(V[lead + i]) /\ V[lead + i].text = P[i]
      BY <2>6 DEF Same
    <3>2. lead \in Nat /\ lead + k <= Len(V)
      BY <2>1, <2>6
    <3> QED
      BY <2>7, <3>1, <3>2, ShownRun DEF k
  <2>9. Shown(V, Len(V)) = P
    <3>1. trail = 0 => Len(V) = lead + k
      BY <2>1, <2>6
    <3>2. trail = 1 => Len(V) \in 1..Len(V) /\ Len(V) - 1 = lead + k
      BY <2>1, <2>6
    <3> QED
      BY <1>2, <1>3, <2>6, <2>8, <3>1, <3>2
  <2> QED
    BY <2>5, <2>9 DEF F
<1> QED
  BY <1>5, <1>6

(* Blanks at an end of it may divide what the fields join, so that the     *)
(* gaps are more, and those before the last of them are.                   *)
Fewer(F, G) ==
  /\ ArgsIn(F, Len(F) - 1) <= ArgsIn(G, Len(G) - 1)
  /\ ArgsIn(F, Len(F)) <= ArgsIn(G, Len(G))

LEMMA StayFewer ==
  ASSUME NEW fs \in Seq(Field), Len(fs) > 0, NEW P \in Seq(Seq(Chars)), NEW keep \in BOOLEAN,
         NEW G \in Seq(Field), Len(G) > 0, NEW V \in Seq(Field), NEW H \in Seq(Field),
         Fewer(fs, G), Made(V, P, keep), Spliced(H, G, V)
  PROVE  Fewer(FanOut(fs, P, keep), H)
<1> DEFINE F == FanOut(fs, P, keep)
           m == Len(fs)
           n == Len(G)
           k == Len(P)
           a == ArgsIn(fs, m - 1)
           b == ArgsIn(G, n - 1)
<1>1. m \in Nat /\ m > 0 /\ n \in Nat /\ n > 0 /\ k \in Nat /\ Len(H) \in Nat
  OBVIOUS
<1>2. /\ a \in Nat /\ b \in Nat /\ a <= b /\ ArgsIn(fs, m) <= ArgsIn(G, n)
      /\ ArgsIn(fs, m) \in Nat /\ ArgsIn(G, n) \in Nat /\ a <= ArgsIn(fs, m)
  <2>1. m \in 1..m /\ n \in 1..n /\ m - 1 \in 0..m /\ n - 1 \in 0..n /\ m \in 0..m /\ n \in 0..n
    BY <1>1
  <2>2. (\A j \in 0..m : ArgsIn(fs, j) \in Nat) /\ (\A j \in 0..n : ArgsIn(G, j) \in Nat)
    BY ArgsInFacts
  <2>3. ArgsIn(fs, m) = ArgsIn(fs, m - 1) + (IF Arg(fs[m]) THEN 1 ELSE 0)
    BY <2>1, ArgsInFacts
  <2>4. a <= b /\ ArgsIn(fs, m) <= ArgsIn(G, n)
    BY DEF Fewer
  <2>5. a \in Nat /\ b \in Nat /\ ArgsIn(fs, m) \in Nat /\ ArgsIn(G, n) \in Nat
    BY <2>1, <2>2
  <2> HIDE DEF b, m, n
  <2>6. ArgsIn(fs, m) = a + (IF Arg(fs[m]) THEN 1 ELSE 0)
    BY <2>3
  <2> HIDE DEF a
  <2>7. a <= ArgsIn(fs, m)
    BY <2>5, <2>6
  <2> QED
    BY <2>4, <2>5, <2>7
<1>3. \A j \in 0..Len(H) : ArgsIn(H, j) \in Nat
  BY ArgsInFacts
<1>4. CASE P = <<>>
  <2>1. F = fs
    BY <1>4 DEF FanOut
  <2>2. Len(V) \in {1, 2} /\ V[1] = NoGap
    BY <1>4 DEF Made
  <2>3. Len(H) = n + Len(V) - 1 /\ \A i \in 1..n : H[i] = G[i]
    <3>1. /\ Len(H) = n + Len(V) - 1 /\ H[n] = Merged(G[n], NoGap)
          /\ \A i \in 1..(n - 1) : H[i] = G[i]
      BY <2>2 DEF Spliced
    <3>2. Merged(G[n], NoGap) = G[n]
      <4>1. G[n] \in Field
        BY <1>1
      <4> QED
        BY <4>1, MergedNone
    <3>3. \A i \in 1..n : i = n \/ i \in 1..(n - 1)
      BY <1>1
    <3> QED
      BY <3>1, <3>2, <3>3
  <2>4. n <= Len(H) /\ \A j \in 0..n : ArgsIn(H, j) = ArgsIn(G, j)
    <3>1. n <= Len(H)
      BY <1>1, <2>2, <2>3
    <3>2. ASSUME NEW j \in 0..n PROVE ArgsIn(H, j) = ArgsIn(G, j)
      <4>1. j \in Nat /\ j <= Len(H) /\ j <= Len(G)
        BY <1>1, <3>1
      <4>2. \A i \in 1..j : i \in 1..n
        BY <1>1
      <4>3. \A i \in 1..j : H[i].text = G[i].text /\ (Arg(H[i]) <=> Arg(G[i]))
        BY <2>3, <4>2
      <4>4. Shown(H, j) = Shown(G, j)
        BY <4>1, <4>3, ShownSame
      <4> QED
        BY <4>4 DEF ArgsIn
    <3> QED
      BY <3>1, <3>2
  <2> HIDE DEF a, b, m, n
  <2>5. ArgsIn(H, n) = ArgsIn(G, n) /\ ArgsIn(H, n - 1) = ArgsIn(G, n - 1)
    <3>1. n \in 0..n /\ n - 1 \in 0..n
      BY <1>1
    <3> QED
      BY <2>4, <3>1
  <2>6. CASE Len(V) = 1
    <3>1. Len(H) = n
      BY <1>1, <2>3, <2>6
    <3> QED
      BY <1>2, <2>1, <2>5, <3>1 DEF Fewer, m, n, a, b
  <2>7. CASE Len(V) = 2
    <3>1. Len(H) = n + 1 /\ Len(H) - 1 = n
      BY <1>1, <2>3, <2>7
    <3>2. ArgsIn(H, n + 1) >= ArgsIn(H, n)
      <4>1. 1 \in Nat /\ n + 1 <= Len(H)
        BY <1>1, <3>1
      <4> QED
        BY <1>1, <4>1, ArgsInGrows
    <3>3. ArgsIn(H, n + 1) \in Nat
      <4>1. n + 1 \in 0..Len(H)
        BY <1>1, <3>1
      <4> QED
        BY <1>3, <4>1
    <3>4. a <= ArgsIn(H, n) /\ ArgsIn(fs, m) <= ArgsIn(H, n + 1)
      BY <1>2, <2>5, <3>2, <3>3
    <3> QED
      BY <2>1, <3>1, <3>4 DEF Fewer, m, a
  <2> QED
    BY <2>2, <2>6, <2>7
<1>5. CASE P # <<>>
  <2>1. k > 0
    BY <1>5
  <2>2. FansArgs(F, fs, P)
    <3>1. \A i \in 1..Len(P) : P[i] = <<>> => keep
      BY MadePieces
    <3> QED
      BY <1>5, <3>1, FanOutArgs
  <2> HIDE DEF F
  <2>3. /\ F \in Seq(Field) /\ Len(F) = m + k - 1 /\ \A i \in 1..(m - 1) : F[i] = fs[i]
        /\ \A i \in 1..k : Arg(F[(m - 1) + i])
    BY <2>2 DEF FansArgs
  <2>4. ArgsIn(F, m - 1) = a
    <3>1. m - 1 \in Nat /\ m - 1 <= Len(F) /\ m - 1 <= m
      BY <1>1, <2>1, <2>3
    <3>2. \A i \in 1..(m - 1) : F[i].text = fs[i].text /\ (Arg(F[i]) <=> Arg(fs[i]))
      BY <2>3
    <3>3. Shown(F, m - 1) = Shown(fs, m - 1)
      BY <2>3, <3>1, <3>2, ShownSame
    <3> QED
      BY <3>3 DEF ArgsIn
  <2>5. ArgsIn(F, Len(F)) = a + k /\ ArgsIn(F, Len(F) - 1) = a + (k - 1)
    <3> DEFINE o == m - 1
    <3>1. /\ o \in Nat /\ o + k = Len(F) /\ o + (k - 1) = Len(F) - 1 /\ k - 1 \in Nat
          /\ o + k <= Len(F) /\ o + (k - 1) <= Len(F)
      BY <1>1, <2>1, <2>3
    <3>2. (\A i \in 1..k : Arg(F[o + i])) /\ (\A i \in 1..(k - 1) : i \in 1..k) /\ ArgsIn(F, o) = a
      BY <1>1, <2>3, <2>4
    <3> HIDE DEF o
    <3>3. ArgsIn(F, o + k) = ArgsIn(F, o) + k
      BY <1>1, <2>3, <3>1, <3>2, ArgsInRun
    <3>4. ArgsIn(F, o + (k - 1)) = ArgsIn(F, o) + (k - 1)
      BY <2>3, <3>1, <3>2, ArgsInRun
    <3> QED
      BY <3>1, <3>2, <3>3, <3>4
  <2>6. PICK lead \in {0, 1}, trail \in {0, 1} :
          /\ Len(V) = lead + k + trail
          /\ \A i \in 1..k : Same(P[i], V[lead + i], keep)
    BY <1>5 DEF Made
  <2>7. /\ Len(H) = n + Len(V) - 1 /\ H[n] = Merged(G[n], V[1])
        /\ \A i \in 1..(n - 1) : H[i] = G[i]
        /\ \A i \in 2..Len(V) : H[n + i - 1] = V[i]
    BY DEF Spliced
  <2>8. ArgsIn(H, n - 1) = b
    <3>1. n - 1 \in Nat /\ n - 1 <= Len(H) /\ n - 1 <= n
      BY <1>1, <2>1, <2>6, <2>7
    <3>2. \A i \in 1..(n - 1) : H[i].text = G[i].text /\ (Arg(H[i]) <=> Arg(G[i]))
      BY <2>7
    <3>3. Shown(H, n - 1) = Shown(G, n - 1)
      BY <3>1, <3>2, ShownSame
    <3> QED
      BY <3>3 DEF ArgsIn
  <2> DEFINE o == (n - 1) + lead
  <2>9. /\ o \in Nat /\ Len(H) = (o + k) + trail /\ Len(H) - 1 = (o + (k - 1)) + trail
        /\ o + k <= Len(H) /\ o + (k - 1) <= Len(H) /\ k - 1 \in Nat /\ trail \in Nat /\ lead \in Nat
        /\ o <= Len(H) /\ n - 1 \in Nat
    BY <1>1, <2>1, <2>6, <2>7
  <2>10. ASSUME NEW i \in 1..k PROVE Arg(H[o + i])
    <3>1. Same(P[i], V[lead + i], keep)
      BY <2>6
    <3>2. CASE lead + i = 1
      <4>1. o + i = n
        BY <1>1, <2>6, <3>2
      <4>2. Arg(V[1]) /\ V[1] \in Field /\ G[n] \in Field
        <5>1. 1 \in 1..Len(V) /\ n \in 1..n
          BY <1>1, <2>1, <2>6
        <5> QED
          BY <3>1, <3>2, <5>1 DEF Same
      <4>3. Merged(G[n], V[1]).text = G[n].text \o V[1].text
            /\ (Merged(G[n], V[1]).keep <=> G[n].keep \/ V[1].keep)
        BY MergedFacts
      <4>4. G[n].text \o V[1].text = <<>> => V[1].text = <<>>
        <5> DEFINE x == G[n].text
                   y == V[1].text
        <5>1. x \in Seq(Chars) /\ y \in Seq(Chars)
          BY <4>2 DEF Field
        <5> HIDE DEF x, y
        <5>2. x \o y = <<>> => y = <<>>
          BY <5>1
        <5> QED
          BY <5>2 DEF x, y
      <4>5. Arg(Merged(G[n], V[1]))
        BY <4>2, <4>3, <4>4 DEF Arg
      <4> QED
        BY <2>7, <4>1, <4>5
    <3>3. CASE lead + i # 1
      <4> DEFINE j == lead + i
      <4>1. j \in 2..Len(V) /\ n + j - 1 = o + i
        BY <1>1, <2>6, <3>3
      <4>2. Arg(V[j])
        BY <3>1 DEF Same
      <4> HIDE DEF j, o
      <4>3. H[n + j - 1] = V[j]
        BY <2>7, <4>1
      <4> QED
        BY <4>1, <4>2, <4>3
    <3> QED
      BY <3>2, <3>3
  <2>11. ArgsIn(H, o) >= b /\ ArgsIn(H, o) \in Nat
    <3>1. ArgsIn(H, (n - 1) + lead) >= ArgsIn(H, n - 1)
      BY <2>9, ArgsInGrows
    <3>2. o \in 0..Len(H)
      BY <2>9
    <3> QED
      BY <1>3, <2>8, <3>1, <3>2
  <2> HIDE DEF o
  <2>12. ArgsIn(H, o + k) = ArgsIn(H, o) + k /\ ArgsIn(H, o + (k - 1)) = ArgsIn(H, o) + (k - 1)
    <3>1. \A i \in 1..k : Arg(H[o + i])
      BY <2>10
    <3>2. \A i \in 1..(k - 1) : Arg(H[o + i])
      BY <1>1, <3>1
    <3>3. ArgsIn(H, o + k) = ArgsIn(H, o) + k
      BY <1>1, <2>9, <3>1, ArgsInRun
    <3>4. ArgsIn(H, o + (k - 1)) = ArgsIn(H, o) + (k - 1)
      BY <2>9, <3>2, ArgsInRun
    <3> QED
      BY <3>3, <3>4
  <2>13. ArgsIn(H, Len(H)) >= ArgsIn(H, o + k) /\ ArgsIn(H, Len(H) - 1) >= ArgsIn(H, o + (k - 1))
    <3>1. o + k \in Nat /\ o + (k - 1) \in Nat /\ (o + k) + trail <= Len(H)
          /\ (o + (k - 1)) + trail <= Len(H)
      BY <1>1, <2>9
    <3>2. ArgsIn(H, (o + k) + trail) >= ArgsIn(H, o + k)
      BY <2>9, <3>1, ArgsInGrows
    <3>3. ArgsIn(H, (o + (k - 1)) + trail) >= ArgsIn(H, o + (k - 1))
      BY <2>9, <3>1, ArgsInGrows
    <3> QED
      BY <2>9, <3>2, <3>3
  <2>14. ArgsIn(H, Len(H)) \in Nat /\ ArgsIn(H, Len(H) - 1) \in Nat
    <3>1. Len(H) \in 0..Len(H) /\ Len(H) - 1 \in 0..Len(H)
      <4>1. Len(H) > 0
        <5> HIDE DEF k, n
        <5> QED
          BY <1>1, <2>1, <2>9
      <4> QED
        BY <1>1, <4>1
    <3> QED
      BY <1>3, <3>1
  <2>15. a + k <= ArgsIn(H, Len(H)) /\ a + (k - 1) <= ArgsIn(H, Len(H) - 1)
    <3> DEFINE x == ArgsIn(H, o)
               y == ArgsIn(H, Len(H))
               z == ArgsIn(H, Len(H) - 1)
    <3>1. x \in Nat /\ y \in Nat /\ z \in Nat /\ k \in Nat /\ a \in Nat /\ b \in Nat
      BY <1>1, <1>2, <2>11, <2>14
    <3>2. y >= x + k
      BY <2>12, <2>13
    <3>3. z >= x + (k - 1)
      BY <2>12, <2>13
    <3>4. a <= b /\ b <= x
      BY <1>2, <2>11
    <3> HIDE DEF a, b, k, x, y, z
    <3>5. a + k <= y /\ a + (k - 1) <= z
      BY <3>1, <3>2, <3>3, <3>4
    <3> QED
      BY <3>5 DEF y, z
  <2> QED
    BY <2>5, <2>15 DEF Fewer, F
<1> QED
  BY <1>4, <1>5

-----------------------------------------------------------------------------
(* Between the fields and the gaps of the word: they are alike until an    *)
(* expansion has blanks at an end of it; one part alone makes the same     *)
(* arguments all the same; and there are never fewer gaps that are.  Aged: *)
(* what comes next does not run into the delimiters there are.             *)
WordGaps == Gaps(word, ifs \cap Blanks # {})
Aged == \A i \in 1..Len(word) : Delimiter(word[i]) => word[i].part < parts
Rest == fields = <<NewField>> /\ word = <<>> /\ ~edge
Words ==
  /\ Expansion /\ Aged
  /\ parts = 0 => Rest
  /\ ~edge => Alike(fields, WordGaps)
  /\ parts = 1 => Shown(fields, Len(fields)) = Shown(WordGaps, Len(WordGaps))
  /\ Fewer(fields, WordGaps)

(* What each part adds: items to the word, pieces to the fields.           *)
Added(items, P, keep) ==
  LET V == Gaps(items, ifs \cap Blanks # {})
  IN /\ items \in Seq(Item) /\ P \in Seq(Seq(Chars)) /\ keep \in BOOLEAN
     /\ word' = word \o items /\ fields' = FanOut(fields, P, keep)
     /\ Made(V, P, keep) /\ (edge' \/ Even(V, P)) /\ (edge => edge')
     /\ \A i \in 1..Len(items) : Delimiter(items[i]) => items[i].part = parts

LEMMA AgedApart ==
  ASSUME Expansion, Aged, NEW items \in Seq(Item),
         \A i \in 1..Len(items) : Delimiter(items[i]) => items[i].part = parts
  PROVE  Apart(word, items)
<1> SUFFICES ASSUME Len(word) > 0, Len(items) > 0, Joined(word[Len(word)], items[1])
             PROVE  FALSE
  BY DEF Apart
<1>1. Len(word) \in 1..Len(word) /\ 1 \in 1..Len(items) /\ parts \in Nat
  BY DEF Expansion
<1>2. /\ Delimiter(word[Len(word)]) /\ Delimiter(items[1])
      /\ word[Len(word)].part = items[1].part
  BY DEF Joined
<1>3. word[Len(word)].part < parts /\ items[1].part = parts
  BY <1>1, <1>2 DEF Aged
<1> QED
  BY <1>1, <1>2, <1>3

LEMMA AgedGrows ==
  ASSUME Expansion, Aged, NEW items \in Seq(Item), word' = word \o items, parts' = parts + 1,
         \A i \in 1..Len(items) : Delimiter(items[i]) => items[i].part = parts
  PROVE  Aged'
<1>1. parts \in Nat /\ word \in Seq(Item)
  BY DEF Expansion
<1> SUFFICES ASSUME NEW i \in 1..Len(word \o items), Delimiter((word \o items)[i])
             PROVE  (word \o items)[i].part < parts + 1
  BY DEF Aged
<1>2. CASE i \in 1..Len(word)
  <2>1. (word \o items)[i] = word[i]
    BY <1>1, <1>2
  <2>2. word[i].part < parts
    BY <1>2, <2>1 DEF Aged
  <2>3. word[i].part \in Nat
    <3>1. word[i] \in Item /\ word[i].kind = "delimiter"
      BY <1>1, <1>2, <2>1 DEF Delimiter
    <3> QED
      BY <3>1 DEF Item, CharItem
  <2> QED
    BY <1>1, <2>1, <2>2, <2>3
<1>3. CASE i \notin 1..Len(word)
  <2>1. i - Len(word) \in 1..Len(items) /\ (word \o items)[i] = items[i - Len(word)]
    BY <1>1, <1>3
  <2>2. items[i - Len(word)].part = parts
    BY <2>1
  <2> QED
    BY <1>1, <2>1, <2>2
<1> QED
  BY <1>2, <1>3

LEMMA NothingGaps ==
  ASSUME NEW join
  PROVE  Gaps(<<>>, join) = <<NewField>> /\ NoGap = NewField
<1>1. NoGap = NewField
  BY DEF NoGap, NewField
<1> DEFINE none == <<>>
           one == <<NewField>>
<1>2. none \in Seq(Item) /\ Len(none) = 0 /\ one \in Seq(Field) /\ Len(one) = 1
      /\ one[1] = NewField
  BY EmptyWord
<1> HIDE DEF none, one
<1>3. Count(none, join) = 0 /\ GapOf(none, join, 0) = NoGap
  <2>1. 0 \in Nat
    OBVIOUS
  <2> QED
    BY <1>2, <2>1, EmptyGap
<1>4. Gaps(none, join) \in Seq(Field) /\ Len(Gaps(none, join)) = 1 /\ Gaps(none, join)[1] = NoGap
  <2>1. Len(Gaps(none, join)) = Count(none, join) + 1 /\ Gaps(none, join) \in Seq(Field)
        /\ \A n \in 1..(Count(none, join) + 1) : Gaps(none, join)[n] = GapOf(none, join, n - 1)
    BY <1>2, GapsFacts
  <2>2. 1 \in 1..(0 + 1) /\ 1 - 1 = 0 /\ 0 + 1 = 1
    OBVIOUS
  <2> QED
    BY <1>3, <2>1, <2>2
<1>5. \A i \in 1..1 : Gaps(none, join)[i] = one[i]
  BY <1>1, <1>2, <1>4
<1>6. Gaps(none, join) = one
  BY <1>2, <1>4, <1>5, SeqEqual
<1> QED
  BY <1>1, <1>6 DEF none, one

(* Before the first part.                                                  *)
LEMMA NothingYet ==
  ASSUME NEW join
  PROVE  LET G == Gaps(<<>>, join)
         IN Alike(<<NewField>>, G) /\ Fewer(<<NewField>>, G)
<1> DEFINE fs == <<NewField>>
<1>1. Gaps(<<>>, join) = fs
  BY NothingGaps
<1>2. fs \in Seq(Field) /\ Len(fs) = 1
  BY EmptyWord
<1> HIDE DEF fs
<1>3. ArgsIn(fs, Len(fs)) \in Nat /\ ArgsIn(fs, Len(fs) - 1) \in Nat
  <2>1. Len(fs) \in 0..Len(fs) /\ Len(fs) - 1 \in 0..Len(fs)
    BY <1>2
  <2> QED
    BY <1>2, <2>1, ArgsInFacts
<1>4. Alike(fs, fs) /\ Fewer(fs, fs)
  BY <1>3 DEF Alike, Fewer
<1> QED
  BY <1>1, <1>4 DEF fs

LEMMA WordsGrow ==
  ASSUME Words, Part, Expansion', NEW items, NEW P, NEW keep, Added(items, P, keep)
  PROVE  Words'
<1> DEFINE join == ifs \cap Blanks # {}
           G == Gaps(word, join)
           V == Gaps(items, join)
           H == Gaps(word \o items, join)
<1>1. /\ items \in Seq(Item) /\ P \in Seq(Seq(Chars)) /\ keep \in BOOLEAN
      /\ word' = word \o items /\ fields' = FanOut(fields, P, keep)
      /\ Made(V, P, keep) /\ (edge' \/ Even(V, P)) /\ (edge => edge')
      /\ \A i \in 1..Len(items) : Delimiter(items[i]) => items[i].part = parts
  BY DEF Added
<1>2. /\ Expansion /\ Aged /\ (parts = 0 => Rest) /\ (~edge => Alike(fields, G))
      /\ Fewer(fields, G)
  BY DEF Words, WordGaps
<1>3. parts \in Nat /\ word \in Seq(Item) /\ fields \in Seq(Field) /\ Len(fields) > 0
  BY <1>2 DEF Expansion
<1>4. parts' = parts + 1 /\ ifs' = ifs
  BY DEF Part
<1>5. G \in Seq(Field) /\ V \in Seq(Field) /\ H \in Seq(Field) /\ Len(G) > 0
  <2>1. word \o items \in Seq(Item)
    BY <1>1, <1>3
  <2>2. Len(G) = Count(word, join) + 1 /\ Count(word, join) \in Nat
    BY <1>3, GapsFacts
  <2>3. G \in Seq(Field) /\ V \in Seq(Field) /\ H \in Seq(Field)
    BY <1>1, <1>3, <2>1, GapsFacts
  <2> HIDE DEF G
  <2> QED
    BY <2>2, <2>3
<1>6. Spliced(H, G, V)
  <2>1. Apart(word, items)
    BY <1>1, <1>2, AgedApart
  <2> QED
    BY <1>1, <1>3, <2>1, GapsConcat
<1>7. WordGaps' = H
  BY <1>1, <1>4 DEF WordGaps
<1> HIDE DEF G, V, H
<1>8. Aged'
  BY <1>1, <1>2, <1>4, AgedGrows
<1>9. parts' # 0
  BY <1>3, <1>4
<1>10. ~edge' => Alike(fields', H)
  <2> SUFFICES ASSUME ~edge' PROVE Alike(fields', H)
    OBVIOUS
  <2>1. Alike(fields, G) /\ Even(V, P)
    BY <1>1, <1>2
  <2> QED
    BY <1>1, <1>3, <1>5, <1>6, <2>1, StayAlike
<1>11. Fewer(fields', H)
  BY <1>1, <1>2, <1>3, <1>5, <1>6, StayFewer
<1>12. parts' = 1 => Shown(fields', Len(fields')) = Shown(H, Len(H))
  <2> SUFFICES ASSUME parts' = 1 PROVE Shown(fields', Len(fields')) = Shown(H, Len(H))
    OBVIOUS
  <2>1. fields = <<NewField>> /\ word = <<>>
    BY <1>2, <1>3, <1>4 DEF Rest
  <2>2. H = V
    <3>1. word \o items = items
      BY <1>1, <2>1, ConcatEmptySeq
    <3> QED
      BY <3>1 DEF H, V
  <2> QED
    BY <1>1, <1>5, <2>1, <2>2, FirstPart
<1> QED
  BY <1>7, <1>8, <1>9, <1>10, <1>11, <1>12 DEF Words

(* The parts, one by one.                                                  *)
LEMMA GrowIsFanOut ==
  ASSUME NEW fs \in Seq(Field), Len(fs) > 0, NEW text \in Seq(Chars), NEW keep \in BOOLEAN
  PROVE  FanOut(fs, <<text>>, keep) = Grow(fs, text, keep)
<1> DEFINE P == <<text>>
           g == Grow(fs, text, keep)
           more == [i \in 1..(Len(P) - 1) |-> [text |-> P[i + 1], keep |-> keep /\ P[i + 1] = <<>>]]
<1>1. Len(P) = 1 /\ P[1] = text /\ P # <<>> /\ Len(P) - 1 = 0
  OBVIOUS
<1>2. more = <<>>
  <2>1. 1..(Len(P) - 1) = {}
    BY <1>1
  <2> QED
    BY <2>1
<1>3. FanOut(fs, P, keep) = g \o more
  BY <1>1 DEF FanOut
<1>4. g \in Seq(Field)
  BY GrowFacts
<1> QED
  BY <1>2, <1>3, <1>4, ConcatEmptySeq

LEMMA GrowNothing ==
  ASSUME NEW fs \in Seq(Field), Len(fs) > 0
  PROVE  Grow(fs, <<>>, FALSE) = fs
<1> DEFINE n == Len(fs)
           f == fs[n]
           new == [text |-> f.text \o <<>>,
                   keep |-> f.keep \/ (FALSE /\ <<>> = <<>> /\ f.text = <<>>)]
<1>1. n \in 1..n /\ f \in Field
  OBVIOUS
<1>2. f.text \in Seq(Chars) /\ f.keep \in BOOLEAN /\ f = [text |-> f.text, keep |-> f.keep]
  BY <1>1 DEF Field
<1>3. f.text \o <<>> = f.text
  BY <1>2, ConcatEmptySeq
<1>4. new = f
  <2>1. (f.keep \/ (FALSE /\ <<>> = <<>> /\ f.text = <<>>)) = f.keep
    BY <1>2
  <2> QED
    BY <1>2, <1>3, <2>1
<1>5. Grow(fs, <<>>, FALSE) = [fs EXCEPT ![n] = new]
  BY DEF Grow
<1> HIDE DEF new
<1>6. [fs EXCEPT ![n] = f] = fs
  OBVIOUS
<1> QED
  BY <1>4, <1>5, <1>6

LEMMA TextAdded ==
  ASSUME Expansion, NEW text \in Seq(Chars), NEW keep \in BOOLEAN, text = <<>> => keep,
         fields' = Grow(fields, text, keep), word' = word \o Fixed(text), edge' = edge
  PROVE  Added(Fixed(text), <<text>>, keep)
<1> DEFINE items == Fixed(text)
           P == <<text>>
           V == Gaps(items, ifs \cap Blanks # {})
<1>1. P \in Seq(Seq(Chars)) /\ items \in Seq(Item)
  BY FixedItems
<1>2. fields' = FanOut(fields, P, keep)
  BY GrowIsFanOut DEF Expansion
<1>3. Made(V, P, keep) /\ Even(V, P)
  <2>1. /\ items \in Seq(Item) /\ items # <<>> /\ Characters(items) = text
        /\ \A i \in 1..Len(items) : items[i].kind \in {"char", "empty"}
    BY FixedItems
  <2> HIDE DEF items
  <2>2. Made(V, <<Characters(items)>>, keep) /\ Even(V, <<Characters(items)>>)
    BY <2>1, PlainMade
  <2> QED
    BY <2>1, <2>2
<1>4. \A i \in 1..Len(items) : ~Delimiter(items[i])
  <2>1. \A i \in 1..Len(items) : items[i].kind \in {"char", "empty"}
    BY FixedItems
  <2> QED
    BY <2>1 DEF Delimiter
<1> HIDE DEF items, P
<1>5. Added(items, P, keep)
  BY <1>1, <1>2, <1>3, <1>4 DEF Added, items
<1> QED
  BY <1>5 DEF items, P

LEMMA ExpansionAdded ==
  ASSUME Expansion, NEW value \in Seq(Chars), AddExpansion(value)
  PROVE  \E P, keep : Added(Open(value), P, keep)
<1> DEFINE items == Open(value)
           join == ifs \cap Blanks # {}
           V == Gaps(items, join)
<1>1. /\ ifs \in SUBSET (Blanks \cup Marks) /\ parts \in Nat
      /\ fields \in Seq(Field) /\ Len(fields) > 0
  BY DEF Expansion
<1>2. /\ items \in Seq(Item) /\ Len(items) = Len(value)
      /\ \A k \in 1..Len(value) :
           /\ value[k] \in ifs => Delimiter(items[k]) /\ items[k].part = parts
           /\ value[k] \notin ifs => items[k].kind = "char"
  BY <1>1, OpenItems
<1>3. \A i \in 1..Len(items) : Delimiter(items[i]) => items[i].part = parts
  <2> TAKE i \in 1..Len(items)
  <2>1. i \in 1..Len(value)
    BY <1>2
  <2>2. items[i].kind = "char" => ~Delimiter(items[i])
    BY DEF Delimiter
  <2> QED
    BY <1>2, <2>1, <2>2
<1>4. word' = word \o items /\ (edge => edge')
  BY DEF AddExpansion
<1>5. EdgeBlank(value) => edge'
  <2> SUFFICES ASSUME EdgeBlank(value) PROVE edge'
    OBVIOUS
  <2>1. Len(value) \in Nat /\ Len(value) > 0
    BY DEF EdgeBlank
  <2>2. CASE value[1] \in ifs \cap Blanks
    <3>1. 1 \in 1..Len(value) /\ \A i \in 1..1 : value[i] \in ifs \cap Blanks
      BY <2>1, <2>2
    <3> QED
      BY <3>1 DEF AddExpansion
  <2>3. CASE value[Len(value)] \in ifs \cap Blanks
    <3> DEFINE n == Len(value)
    <3>1. n \in 1..n /\ \A i \in n..n : i = n
      BY <2>1
    <3>2. \A i \in n..n : value[i] \in ifs \cap Blanks
      BY <2>3, <3>1
    <3> QED
      BY <3>1, <3>2 DEF AddExpansion
  <2> QED
    BY <2>2, <2>3 DEF EdgeBlank
<1> HIDE DEF items
<1>6. CASE value = <<>>
  <2>1. Len(items) = 0
    BY <1>2, <1>6
  <2>2. Made(V, <<>>, FALSE) /\ Even(V, <<>>)
    BY <1>2, <2>1, NothingMade
  <2>3. fields' = fields
    <3>1. CASE ifs = {}
      <4>1. fields' = Grow(fields, <<>>, FALSE)
        BY <1>6, <3>1 DEF AddExpansion
      <4> QED
        BY <1>1, <4>1, GrowNothing
    <3>2. CASE ifs # {}
      <4>1. FieldSplit(value) = <<>>
        BY <1>6 DEF FieldSplit
      <4>2. fields' = FanOut(fields, FieldSplit(value), Hard)
        BY <3>2 DEF AddExpansion
      <4> QED
        BY <4>1, <4>2 DEF FanOut
    <3> QED
      BY <3>1, <3>2
  <2>4. FanOut(fields, <<>>, FALSE) = fields
    BY DEF FanOut
  <2>5. <<>> \in Seq(Seq(Chars))
    OBVIOUS
  <2>6. Added(items, <<>>, FALSE)
    BY <1>2, <1>3, <1>4, <2>2, <2>3, <2>4, <2>5 DEF Added
  <2> QED
    BY <2>6 DEF items
<1>7. CASE value # <<>> /\ ifs = {}
  <2>1. \A i \in 1..Len(items) : items[i].kind \in {"char", "empty"}
    BY <1>2, <1>7
  <2>2. Characters(items) = value
    <3>1. Characters(items) = Keep(value, Chars \ ifs)
      BY <1>1, OpenFacts DEF items
    <3>2. Chars \ ifs = Chars
      BY <1>7
    <3> QED
      BY <3>1, <3>2, KeepAll
  <2>3. items # <<>>
    BY <1>2, <1>7
  <2>4. Made(V, <<value>>, FALSE) /\ Even(V, <<value>>)
    <3>1. Characters(items) = <<>> => FALSE
      BY <1>7, <2>2
    <3>2. Made(V, <<Characters(items)>>, FALSE) /\ Even(V, <<Characters(items)>>)
      BY <1>2, <2>1, <2>3, <3>1, PlainMade
    <3> QED
      BY <2>2, <3>2
  <2>5. fields' = FanOut(fields, <<value>>, FALSE)
    <3>1. fields' = Grow(fields, value, FALSE)
      BY <1>7 DEF AddExpansion
    <3> QED
      BY <1>1, <3>1, GrowIsFanOut
  <2>6. <<value>> \in Seq(Seq(Chars))
    OBVIOUS
  <2>7. Added(items, <<value>>, FALSE)
    BY <1>2, <1>3, <1>4, <2>4, <2>5, <2>6 DEF Added
  <2> QED
    BY <2>7 DEF items
<1>8. CASE value # <<>> /\ ifs # {}
  <2>1. fields' = FanOut(fields, FieldSplit(value), Hard) /\ Hard \in BOOLEAN
    BY <1>8 DEF AddExpansion, Hard
  <2>2. FieldSplit(value) \in Seq(Seq(Chars))
    BY <1>1, FieldSplitFacts
  <2>3. Made(V, FieldSplit(value), Hard) /\ (EdgeBlank(value) \/ Even(V, FieldSplit(value)))
    BY <1>1, <1>8, SplitMade DEF items
  <2>4. Added(items, FieldSplit(value), Hard)
    BY <1>2, <1>3, <1>4, <1>5, <2>1, <2>2, <2>3 DEF Added
  <2> QED
    BY <2>4 DEF items
<1> QED
  BY <1>6, <1>7, <1>8

LEMMA AllAdded ==
  ASSUME Expansion, NEW positional \in Seq(Seq(Chars)), AddAll(positional)
  PROVE  Added(Bordered(positional), positional, TRUE)
<1>1. /\ fields' = FanOut(fields, positional, TRUE) /\ edge' = edge
      /\ word' = word \o Bordered(positional)
  BY DEF AddAll
<1>2. Bordered(positional) \in Seq(Item)
  BY BorderedFacts
<1>3. \A i \in 1..Len(Bordered(positional)) : ~Delimiter(Bordered(positional)[i])
  BY BorderedMade DEF Undelimited
<1>4. LET V == Gaps(Bordered(positional), ifs \cap Blanks # {})
      IN Made(V, positional, TRUE) /\ Even(V, positional)
  BY BorderedMade
<1> QED
  BY <1>1, <1>2, <1>3, <1>4 DEF Added

LEMMA StepKeepsWords ==
  ASSUME Words, [FieldNext]_fieldVars
  PROVE  Words'
<1>1. Expansion' /\ Expansion
  BY StepKeepsExpansion DEF Words
<1>2. ASSUME fields' = <<NewField>>, word' = <<>>, ~edge', parts' = 0 PROVE Words'
  <2>1. Rest'
    BY <1>2 DEF Rest
  <2>2. Aged'
    BY <1>2 DEF Aged
  <2>3. Alike(fields, WordGaps)' /\ Fewer(fields, WordGaps)'
    BY <1>2, NothingYet DEF WordGaps
  <2>4. parts' # 1
    BY <1>2
  <2> QED
    BY <1>1, <2>1, <2>2, <2>3, <2>4 DEF Words
<1>3. CASE UNCHANGED fieldVars
  BY <1>1, <1>3 DEF fieldVars, Words, Aged, Rest, WordGaps
<1>4. ASSUME NEW text \in Strings, AddText(text) \/ AddQuoted(text) PROVE Words'
  <2>1. text \in Seq(Chars)
    BY InputTypes
  <2>2. PICK keep \in BOOLEAN : fields' = Grow(fields, text, keep) /\ (text = <<>> => keep)
    BY <1>4 DEF AddText, AddQuoted
  <2>3. Part /\ word' = word \o Fixed(text) /\ edge' = edge
    BY <1>4 DEF AddText, AddQuoted
  <2>4. Added(Fixed(text), <<text>>, keep)
    BY <1>1, <2>1, <2>2, <2>3, TextAdded
  <2> QED
    BY <1>1, <2>3, <2>4, WordsGrow
<1>5. ASSUME NEW value \in Strings, AddExpansion(value) PROVE Words'
  <2>1. value \in Seq(Chars)
    BY InputTypes
  <2>2. PICK P, keep : Added(Open(value), P, keep)
    BY <1>1, <1>5, <2>1, ExpansionAdded
  <2>3. Part
    BY <1>5 DEF AddExpansion
  <2> QED
    BY <1>1, <2>2, <2>3, WordsGrow
<1>6. ASSUME NEW positional \in Positionals, AddAll(positional) PROVE Words'
  <2>1. positional \in Seq(Seq(Chars))
    BY InputTypes
  <2>2. Added(Bordered(positional), positional, TRUE)
    BY <1>1, <1>6, <2>1, AllAdded
  <2>3. Part
    BY <1>6 DEF AddAll
  <2> QED
    BY <1>1, <2>2, <2>3, WordsGrow
<1>7. CASE EndWord
  BY <1>2, <1>7 DEF EndWord
<1>8. CASE NextCommand
  <2>1. parts = 0 /\ parts' = parts /\ fields' = fields /\ word' = word /\ edge' = edge
    BY <1>8 DEF NextCommand
  <2>2. Rest
    BY <2>1 DEF Words
  <2> QED
    BY <1>2, <2>1, <2>2 DEF Rest
<1> QED
  BY <1>3, <1>4, <1>5, <1>6, <1>7, <1>8 DEF FieldNext

LEMMA WordsAsDefined ==
  ASSUME Words
  PROVE  ArgumentsAsDefined
<1> DEFINE G == WordGaps
<1>1. fields \in Seq(Field) /\ word \in Seq(Item) /\ parts \in Nat
  BY DEF Words, Expansion
<1>2. G \in Seq(Field) /\ Len(G) \in Nat /\ Len(fields) \in Nat
  <2>1. G \in Seq(Field)
    BY <1>1, GapsFacts DEF WordGaps
  <2> HIDE DEF G
  <2> QED
    BY <1>1, <2>1
<1>3. Defined = Resolved(Arguments(G))
  BY DEF Defined, WordGaps
<1>4. /\ (parts = 0 => Rest) /\ (~edge => Alike(fields, G)) /\ Fewer(fields, G)
      /\ (parts = 1 => Shown(fields, Len(fields)) = Shown(G, Len(G)))
  BY DEF Words
<1> HIDE DEF G
<1>5. /\ Shown(fields, Len(fields)) = Resolved(Arguments(fields))
      /\ Shown(G, Len(G)) = Resolved(Arguments(G))
  BY <1>1, <1>2, ShownFacts
<1>6. CASE edge /\ parts > 1
  <2>1. ArgsIn(fields, Len(fields)) = Len(Arguments(fields))
    BY <1>1, ArgsInFacts
  <2>2. ArgsIn(G, Len(G)) = Len(Resolved(Arguments(G)))
    BY <1>5 DEF ArgsIn
  <2>3. ArgsIn(fields, Len(fields)) <= ArgsIn(G, Len(G))
    BY <1>4 DEF Fewer
  <2>4. Len(Arguments(fields)) <= Len(Defined)
    BY <1>3, <2>1, <2>2, <2>3
  <2> QED
    BY <1>6, <2>4 DEF ArgumentsAsDefined
<1>7. CASE ~(edge /\ parts > 1)
  <2>1. ASSUME ~edge PROVE Shown(fields, Len(fields)) = Shown(G, Len(G))
    <3>1. Alike(fields, G)
      BY <1>4, <2>1
    <3>2. /\ Len(fields) = Len(G)
          /\ \A i \in 1..Len(fields) : /\ fields[i].text = G[i].text
                                       /\ Arg(fields[i]) <=> Arg(G[i])
      BY <3>1 DEF Alike
    <3> DEFINE k == Len(fields)
    <3>3. k \in Nat /\ k <= Len(fields) /\ k <= Len(G) /\ k = Len(G)
      BY <1>2, <3>2
    <3>4. \A i \in 1..k : fields[i].text = G[i].text /\ (Arg(fields[i]) <=> Arg(G[i]))
      BY <3>2
    <3> HIDE DEF k
    <3>5. Shown(fields, k) = Shown(G, k)
      BY <1>1, <1>2, <3>3, <3>4, ShownSame
    <3> QED
      BY <3>3, <3>5 DEF k
  <2>2. ASSUME edge PROVE Shown(fields, Len(fields)) = Shown(G, Len(G))
    <3>1. parts = 1
      <4>1. parts # 0
        BY <1>4, <2>2 DEF Rest
      <4>2. ~(parts > 1)
        BY <1>7, <2>2
      <4> QED
        BY <1>1, <4>1, <4>2
    <3>2. parts = 1 => Shown(fields, Len(fields)) = Shown(G, Len(G))
      BY <1>4
    <3> QED
      BY <3>1, <3>2
  <2>3. Shown(fields, Len(fields)) = Shown(G, Len(G))
    BY <2>1, <2>2
  <2>4. Resolved(Arguments(fields)) = Defined
    BY <1>3, <1>5, <2>3
  <2> QED
    BY <1>7, <2>4 DEF ArgumentsAsDefined
<1> QED
  BY <1>6, <1>7

(* Part by part, a word becomes the arguments that the rules of            *)
(* _field_split define for it as a whole, whatever IFS and the values; and *)
(* where blanks at an end of an expansion meet another part of the word,   *)
(* which _extract_from_node joins, it becomes no more than those.          *)
THEOREM WordsBecomeTheirArguments == FieldSpec => []ArgumentsAsDefined
<1>1. FieldInit => Words
  <2> SUFFICES ASSUME FieldInit PROVE Words
    OBVIOUS
  <2>1. fields = <<NewField>> /\ word = <<>> /\ ~edge /\ parts = 0
    BY DEF FieldInit
  <2>2. Rest /\ Aged
    BY <2>1 DEF Rest, Aged
  <2>3. Expansion
    BY EmptyWord DEF FieldInit, Expansion, OnlyDelimitersLost, Joint
  <2>4. Alike(fields, WordGaps) /\ Fewer(fields, WordGaps)
    BY <2>1, NothingYet DEF WordGaps
  <2>5. parts # 1
    BY <2>1
  <2> QED
    BY <2>2, <2>3, <2>4, <2>5 DEF Words
<1>2. Words /\ [FieldNext]_fieldVars => Words'
  BY StepKeepsWords
<1>3. Words => ArgumentsAsDefined
  BY WordsAsDefined
<1> QED
  BY <1>1, <1>2, <1>3, PTL DEF FieldSpec
=============================================================================
