---------------------------- MODULE SelectionProofs ----------------------------
(***************************************************************************)
(* Induction and recursion over an initial part of the naturals, and what  *)
(* Keep selects of a list of any length.                                   *)
(***************************************************************************)
EXTENDS Selections, TLAPS, SequenceTheorems, WellFoundedInduction

LEMMA Least ==
  ASSUME NEW T \in SUBSET Nat, T # {}
  PROVE  \E x \in T : \A y \in T : x <= y
<1>1. PICK x \in T : \A y \in T : ~(<<y, x>> \in OpToRel(<, Nat))
  BY NatLessThanWellFounded, WFMin
<1>2. \A y \in T : ~(y < x)
  BY <1>1 DEF OpToRel
<1> QED
  BY <1>2

(* Induction: a set with 0 that has the successor of each of its members.  *)
LEMMA Induction ==
  ASSUME NEW n \in Nat, NEW T, 0 \in T, \A k \in 1..n : k - 1 \in T => k \in T
  PROVE  0..n \subseteq T
<1> DEFINE Missing == {k \in 0..n : k \notin T}
<1> SUFFICES ASSUME Missing # {} PROVE FALSE
  OBVIOUS
<1>1. PICK x \in Missing : \A y \in Missing : x <= y
  <2>1. Missing \in SUBSET Nat
    OBVIOUS
  <2> HIDE DEF Missing
  <2> QED
    BY <2>1, Least
<1>2. x \in 1..n /\ x - 1 \in 0..n /\ ~(x <= x - 1)
  BY <1>1
<1>3. x - 1 \in T
  BY <1>1, <1>2
<1> QED
  BY <1>1, <1>2, <1>3

LEMMA Greatest ==
  ASSUME NEW n \in Nat, NEW T \in SUBSET (0..n), T # {}
  PROVE  \E x \in T : \A y \in T : y <= x
<1> DEFINE Mirrored == {k \in 0..n : n - k \in T}
<1>1. Mirrored # {} /\ Mirrored \in SUBSET Nat
  <2>1. PICK y \in T : TRUE
    OBVIOUS
  <2>2. n - y \in 0..n /\ n - (n - y) = y
    BY <2>1
  <2>3. n - y \in Mirrored
    BY <2>1, <2>2
  <2>4. \A k \in Mirrored : k \in Nat
    OBVIOUS
  <2> QED
    BY <2>3, <2>4
<1>2. \A y \in T : n - y \in Mirrored /\ y \in Nat
  <2> TAKE y \in T
  <2>1. y \in 0..n
    OBVIOUS
  <2>2. n - y \in 0..n /\ n - (n - y) = y
    BY <2>1
  <2> QED
    BY <2>1, <2>2
<1>3. \A k \in Mirrored : n - k \in T /\ k \in Nat
  OBVIOUS
<1> HIDE DEF Mirrored
<1>4. PICK k \in Mirrored : \A y \in Mirrored : k <= y
  BY <1>1, Least
<1>5. \A y \in T : y <= n - k
  BY <1>2, <1>3, <1>4
<1> QED
  BY <1>3, <1>4, <1>5

(* Recursion: there is a function that a step defines from each value to   *)
(* the next.                                                               *)
Iterates(f, F, start, n) == f[0] = start /\ \A k \in 1..n : f[k] = F[k][f[k - 1]]
StepFunctions(n, V) == [1..n -> [V -> V]]

LEMMA Recursion ==
  ASSUME NEW n \in Nat, NEW V, NEW start \in V, NEW F \in StepFunctions(n, V)
  PROVE  \E f \in [0..n -> V] : Iterates(f, F, start, n)
<1> DEFINE Follows(f, m) == Iterates(f, F, start, m)
           T == {m \in 0..n : \E f \in [0..m -> V] : Follows(f, m)}
<1>1. 0 \in T
  <2>1. [k \in 0..0 |-> start] \in [0..0 -> V]
    OBVIOUS
  <2>2. Follows([k \in 0..0 |-> start], 0)
    BY DEF Iterates
  <2> HIDE DEF Follows
  <2>3. 0 \in 0..n /\ \E f \in [0..0 -> V] : Follows(f, 0)
    BY <2>1, <2>2
  <2> QED
    BY <2>3
<1>2. ASSUME NEW m \in 1..n, m - 1 \in T PROVE m \in T
  <2>1. PICK f \in [0..(m - 1) -> V] : Follows(f, m - 1)
    BY <1>2
  <2> DEFINE next == F[m][f[m - 1]]
             g == [k \in 0..m |-> IF k = m THEN next ELSE f[k]]
  <2>2. m - 1 \in 0..(m - 1) /\ next \in V
    BY <2>1 DEF StepFunctions
  <2> HIDE DEF next
  <2>3. g \in [0..m -> V]
    BY <2>1, <2>2
  <2>4. g[0] = start
    BY <2>1 DEF Iterates
  <2>5. \A k \in 1..m : g[k] = F[k][g[k - 1]]
    <3> TAKE k \in 1..m
    <3>1. k \in 0..m /\ k - 1 \in 0..m /\ k - 1 # m /\ k - 1 \in 0..(m - 1)
      OBVIOUS
    <3>2. g[k - 1] = f[k - 1]
      BY <3>1
    <3>3. CASE k = m
      BY <3>1, <3>2, <3>3 DEF next
    <3>4. CASE k # m
      BY <2>1, <3>1, <3>2, <3>4 DEF Iterates
    <3> QED
      BY <3>3, <3>4
  <2> HIDE DEF g
  <2>6. Follows(g, m) /\ m \in 0..n
    BY <2>4, <2>5 DEF Iterates
  <2> HIDE DEF Follows
  <2> QED
    BY <2>3, <2>6
<1> HIDE DEF T
<1>3. n \in T
  <2>1. 0..n \subseteq T
    BY <1>1, <1>2, Induction
  <2> QED
    BY <2>1
<1> QED
  BY <1>3 DEF T

-----------------------------------------------------------------------------
(* Keep, one element after the other: f[k] is what the first k leave.      *)
Selects(f, s, S) ==
  /\ f[0] = <<>>
  /\ \A k \in 1..Len(s) :
       f[k] = IF s[k] \in S THEN Append(f[k - 1], s[k]) ELSE f[k - 1]

LEMMA KeepByRecursion ==
  ASSUME NEW E, NEW s \in Seq(E), NEW S
  PROVE  \E f \in [0..Len(s) -> Seq(E)] :
           Selects(f, s, S) /\ Keep(s, S) = f[Len(s)]
<1> DEFINE n == Len(s)
           V == Seq(E)
           none == <<>>
           Is(f) == f = [k \in 0..n |-> IF k = 0 THEN none
                                        ELSE IF s[k] \in S
                                             THEN Append(f[k - 1], s[k])
                                             ELSE f[k - 1]]
           F == [k \in 1..n |-> [t \in V |->
                   IF s[k] \in S THEN Append(t, s[k]) ELSE t]]
<1>1. /\ n \in Nat /\ none \in V
      /\ \A k \in 1..n, t \in V : Append(t, s[k]) \in V
  OBVIOUS
<1>2. Keep(s, S) = (CHOOSE g : Is(g))[n]
  BY DEF Keep
<1> HIDE DEF n, V, none
<1>3. F \in StepFunctions(n, V)
  BY <1>1 DEF StepFunctions
<1>4. \A k \in 1..n, t \in V :
        F[k][t] = IF s[k] \in S THEN Append(t, s[k]) ELSE t
  OBVIOUS
<1> HIDE DEF F
<1>5. PICK f \in [0..n -> V] : Iterates(f, F, none, n)
  BY <1>1, <1>3, Recursion
<1>6. \A k \in 0..n : k # 0 => k \in 1..n /\ k - 1 \in 0..n /\ f[k - 1] \in V
  BY <1>1, <1>5
<1>7. Is(f)
  <2>1. \A k \in 0..n : f[k] = IF k = 0 THEN none
                               ELSE IF s[k] \in S THEN Append(f[k - 1], s[k])
                               ELSE f[k - 1]
    BY <1>4, <1>5, <1>6 DEF Iterates
  <2> QED
    BY <2>1
<1> DEFINE g == CHOOSE h : Is(h)
<1>8. Is(g) /\ Keep(s, S) = g[n]
  BY <1>2, <1>7
<1> HIDE DEF g
<1>9. 0 \in 0..n /\ \A k \in 1..n : k \in 0..n /\ k # 0
  BY <1>1
<1>10. /\ g[0] = none
       /\ \A k \in 1..n :
            g[k] = IF s[k] \in S THEN Append(g[k - 1], s[k]) ELSE g[k - 1]
  BY <1>8, <1>9
<1>11. g \in [0..n -> V]
  <2> DEFINE T == {k \in 0..n : g[k] \in V}
  <2>1. 0 \in T
    BY <1>1, <1>9, <1>10
  <2>2. \A k \in 1..n : k - 1 \in T => k \in T
    BY <1>1, <1>9, <1>10
  <2>3. T \subseteq 0..n /\ \A k \in T : g[k] \in V
    OBVIOUS
  <2> HIDE DEF T
  <2>4. 0..n \subseteq T
    BY <1>1, <2>1, <2>2, Induction
  <2>5. g = [k \in 0..n |-> g[k]]
    BY <1>8
  <2> HIDE DEF Is
  <2> QED
    BY <2>3, <2>4, <2>5
<1> HIDE DEF Is
<1>12. Selects(g, s, S)
  BY <1>10 DEF Selects, n, none
<1> QED
  BY <1>8, <1>11, <1>12 DEF n, V

LEMMA KeepEmpty == \A S : Keep(<<>>, S) = <<>>
<1> TAKE S
<1> DEFINE none == <<>>
<1>1. none \in Seq({}) /\ Len(none) = 0
  OBVIOUS
<1> HIDE DEF none
<1>2. PICK f \in [0..Len(none) -> Seq({})] :
        Selects(f, none, S) /\ Keep(none, S) = f[Len(none)]
  BY <1>1, KeepByRecursion
<1>3. Keep(none, S) = <<>>
  BY <1>1, <1>2 DEF Selects
<1> QED
  BY <1>3 DEF none

LEMMA KeepAppend ==
  ASSUME NEW E, NEW s \in Seq(E), NEW e \in E, NEW S
  PROVE  Keep(Append(s, e), S)
           = IF e \in S THEN Append(Keep(s, S), e) ELSE Keep(s, S)
<1> DEFINE n == Len(s)
           t == Append(s, e)
<1>1. /\ t \in Seq(E) /\ Len(t) = n + 1 /\ n \in Nat /\ t[n + 1] = e
      /\ \A k \in 1..n : t[k] = s[k]
  OBVIOUS
<1>2. PICK f \in [0..n -> Seq(E)] :
        Selects(f, s, S) /\ Keep(s, S) = f[n]
  BY KeepByRecursion
<1> HIDE DEF t
<1>3. PICK g \in [0..Len(t) -> Seq(E)] :
        Selects(g, t, S) /\ Keep(t, S) = g[Len(t)]
  BY <1>1, KeepByRecursion
<1> HIDE DEF n
<1>4. g[n] = f[n]
  <2> DEFINE T == {k \in 0..n : g[k] = f[k]}
  <2>1. 0 \in T
    BY <1>1, <1>2, <1>3 DEF Selects
  <2>2. \A k \in 1..n : k - 1 \in T => k \in T
    <3> TAKE k \in 1..n
    <3>1. k \in 1..(n + 1) /\ k - 1 \in 0..n /\ k \in 0..n
      BY <1>1
    <3> QED
      BY <1>1, <1>2, <1>3, <3>1 DEF Selects, n
  <2>3. \A k \in T : g[k] = f[k]
    OBVIOUS
  <2> HIDE DEF T
  <2>4. 0..n \subseteq T
    BY <1>1, <2>1, <2>2, Induction
  <2>5. n \in T
    BY <1>1, <2>4
  <2> QED
    BY <2>3, <2>5
<1>5. Keep(t, S) = g[n + 1] /\ n + 1 \in 1..Len(t) /\ (n + 1) - 1 = n
  BY <1>1, <1>3
<1> QED
  BY <1>1, <1>2, <1>3, <1>4, <1>5 DEF Selects, t, n

LEMMA KeepType ==
  ASSUME NEW E, NEW s \in Seq(E), NEW S
  PROVE  Keep(s, S) \in Seq(E \cap S)
<1> DEFINE n == Len(s)
           V == Seq(E \cap S)
<1>1. n \in Nat /\ <<>> \in V /\ \A k \in 1..n : s[k] \in E
  OBVIOUS
<1>2. \A v \in V, e \in E : e \in S => Append(v, e) \in V
  OBVIOUS
<1>3. PICK f \in [0..n -> Seq(E)] :
        Selects(f, s, S) /\ Keep(s, S) = f[n]
  BY KeepByRecursion
<1> HIDE DEF n, V
<1> DEFINE T == {k \in 0..n : f[k] \in V}
<1>4. 0 \in T
  BY <1>1, <1>3 DEF Selects
<1>5. \A k \in 1..n : k - 1 \in T => k \in T
  <2> SUFFICES ASSUME NEW k \in 1..n, f[k - 1] \in V PROVE f[k] \in V
    BY <1>1
  <2>1. f[k] = IF s[k] \in S THEN Append(f[k - 1], s[k]) ELSE f[k - 1]
    BY <1>3 DEF Selects, n
  <2> QED
    BY <1>1, <1>2, <2>1
<1>6. \A k \in T : f[k] \in V
  OBVIOUS
<1> HIDE DEF T
<1>7. 0..n \subseteq T
  BY <1>1, <1>4, <1>5, Induction
<1>8. n \in T
  BY <1>1, <1>7
<1> QED
  BY <1>3, <1>6, <1>8 DEF V

(* What is kept of two lists, one after the other.                         *)
LEMMA KeepConcat ==
  ASSUME NEW E, NEW s \in Seq(E), NEW t \in Seq(E), NEW S
  PROVE  Keep(s \o t, S) = Keep(s, S) \o Keep(t, S)
<1> DEFINE n == Len(s)
           m == Len(t)
           V == Seq(E)
           both == s \o t
<1>1. /\ n \in Nat /\ m \in Nat /\ both \in Seq(E) /\ Len(both) = n + m
      /\ \A k \in 1..n : both[k] = s[k] /\ k \in 1..(n + m)
      /\ \A k \in 1..m : both[n + k] = t[k] /\ t[k] \in E /\ n + k \in 1..(n + m)
  OBVIOUS
<1>2. \A u \in V, v \in V, e \in E : u \o Append(v, e) = Append(u \o v, e)
  OBVIOUS
<1>3. \A u \in V : u \o <<>> = u
  OBVIOUS
<1>0. \A u \in V : \E f \in [0..Len(u) -> V] : Selects(f, u, S) /\ Keep(u, S) = f[Len(u)]
  BY KeepByRecursion
<1>4. PICK f \in [0..n -> V] : Selects(f, s, S) /\ Keep(s, S) = f[n]
  BY KeepByRecursion
<1>5. PICK g \in [0..m -> V] : Selects(g, t, S) /\ Keep(t, S) = g[m]
  BY KeepByRecursion
<1> HIDE DEF both
<1>6. PICK h \in [0..Len(both) -> V] : Selects(h, both, S) /\ Keep(both, S) = h[Len(both)]
  BY <1>0, <1>1
<1>7. /\ f[0] = <<>>
      /\ \A k \in 1..n : f[k] = IF s[k] \in S THEN Append(f[k - 1], s[k]) ELSE f[k - 1]
      /\ g[0] = <<>>
      /\ \A k \in 1..m : g[k] = IF t[k] \in S THEN Append(g[k - 1], t[k]) ELSE g[k - 1]
      /\ h[0] = <<>>
      /\ \A k \in 1..(n + m) :
           h[k] = IF both[k] \in S THEN Append(h[k - 1], both[k]) ELSE h[k - 1]
  BY <1>1, <1>4, <1>5, <1>6 DEF Selects
<1> HIDE DEF n, m, V
<1>8. h[n] = f[n]
  <2> DEFINE T == {k \in 0..n : h[k] = f[k]}
  <2>1. 0 \in T
    BY <1>1, <1>7
  <2>2. \A k \in 1..n : k - 1 \in T => k \in T
    <3> TAKE k \in 1..n
    <3>1. k \in 0..n
      BY <1>1
    <3> QED
      BY <1>1, <1>7, <3>1
  <2>3. \A k \in T : h[k] = f[k]
    OBVIOUS
  <2> HIDE DEF T
  <2>4. 0..n \subseteq T
    BY <1>1, <2>1, <2>2, Induction
  <2>5. n \in T
    BY <1>1, <2>4
  <2> QED
    BY <2>3, <2>5
<1>9. h[n + m] = f[n] \o g[m]
  <2> DEFINE T == {k \in 0..m : h[n + k] = f[n] \o g[k]}
  <2>1. f[n] \in V /\ \A k \in 0..m : g[k] \in V
    BY <1>1, <1>4, <1>5
  <2>2. 0 \in T
    <3>1. n + 0 = n /\ 0 \in 0..m
      BY <1>1
    <3> QED
      BY <1>3, <1>7, <1>8, <2>1, <3>1
  <2>3. \A k \in 1..m : k - 1 \in T => k \in T
    <3> TAKE k \in 1..m
    <3>1. k \in 0..m /\ k - 1 \in 0..m /\ (n + k) - 1 = n + (k - 1)
      BY <1>1
    <3>2. n + k \in 1..(n + m) /\ both[n + k] = t[k] /\ t[k] \in E
      BY <1>1
    <3>3. h[n + k] = IF t[k] \in S THEN Append(h[n + (k - 1)], t[k]) ELSE h[n + (k - 1)]
      BY <1>7, <3>1, <3>2
    <3>4. f[n] \o Append(g[k - 1], t[k]) = Append(f[n] \o g[k - 1], t[k])
      BY <1>2, <2>1, <3>1, <3>2
    <3> QED
      BY <1>7, <3>1, <3>3, <3>4
  <2>4. \A k \in T : h[n + k] = f[n] \o g[k]
    OBVIOUS
  <2> HIDE DEF T
  <2>5. 0..m \subseteq T
    BY <1>1, <2>2, <2>3, Induction
  <2>6. m \in T
    BY <1>1, <2>5
  <2> QED
    BY <2>4, <2>6
<1> QED
  BY <1>1, <1>4, <1>5, <1>6, <1>9 DEF both

(* A list of which nothing is left out stays as it is.                     *)
LEMMA KeepAll ==
  ASSUME NEW E, NEW s \in Seq(E), NEW S, \A k \in 1..Len(s) : s[k] \in S
  PROVE  Keep(s, S) = s
<1> DEFINE n == Len(s)
           Same(f, k) == /\ Len(f[k]) = k
                         /\ \A i \in 1..k : f[k][i] = s[i]
<1>1. n \in Nat /\ \A k \in 1..n : s[k] \in E
  OBVIOUS
<1>2. PICK f \in [0..n -> Seq(E)] :
        Selects(f, s, S) /\ Keep(s, S) = f[n]
  BY KeepByRecursion
<1> DEFINE T == {k \in 0..n : Same(f, k)}
<1>3. 0 \in T
  BY <1>1, <1>2 DEF Selects
<1>4. \A k \in 1..n : k - 1 \in T => k \in T
  <2> SUFFICES ASSUME NEW k \in 1..n, Same(f, k - 1) PROVE Same(f, k)
    BY <1>1
  <2>1. f[k] = Append(f[k - 1], s[k]) /\ f[k - 1] \in Seq(E) /\ s[k] \in E
    <3>1. k - 1 \in 0..n
      BY <1>1
    <3> QED
      BY <1>1, <1>2, <3>1 DEF Selects
  <2>2. Len(f[k]) = k /\ f[k][k] = s[k]
    BY <1>1, <2>1
  <2>3. \A i \in 1..(k - 1) : f[k][i] = f[k - 1][i]
    BY <1>1, <2>1
  <2>4. \A i \in 1..k : i = k \/ i \in 1..(k - 1)
    BY <1>1
  <2> QED
    BY <2>2, <2>3, <2>4
<1>5. \A k \in T : Same(f, k)
  OBVIOUS
<1>6. f[n] \in Seq(E)
  BY <1>1, <1>2
<1> HIDE DEF T, n
<1>7. 0..n \subseteq T
  BY <1>1, <1>3, <1>4, Induction
<1>8. n \in T
  BY <1>1, <1>7
<1>9. Len(f[n]) = n /\ \A i \in 1..n : f[n][i] = s[i]
  BY <1>5, <1>8
<1>10. f[n] = s
  BY <1>6, <1>9, SeqEqual DEF n
<1> QED
  BY <1>2, <1>10

(* A list of which something is left out gets shorter.                     *)
LEMMA KeepShorter ==
  ASSUME NEW E, NEW s \in Seq(E), NEW S, NEW j \in 1..Len(s), s[j] \notin S
  PROVE  Len(Keep(s, S)) < Len(s)
<1> DEFINE n == Len(s)
           Less(f, k) == Len(f[k]) <= k /\ (j <= k => Len(f[k]) < k)
<1>1. n \in Nat /\ (\A k \in 1..n : s[k] \in E) /\ j \in 1..n
  OBVIOUS
<1>2. PICK f \in [0..n -> Seq(E)] :
        Selects(f, s, S) /\ Keep(s, S) = f[n]
  BY KeepByRecursion
<1> DEFINE T == {k \in 0..n : Less(f, k)}
<1>3. 0 \in T
  BY <1>1, <1>2 DEF Selects
<1>4. \A k \in 1..n : k - 1 \in T => k \in T
  <2> SUFFICES ASSUME NEW k \in 1..n, Less(f, k - 1) PROVE Less(f, k)
    BY <1>1
  <2>1. k - 1 \in 0..n /\ f[k - 1] \in Seq(E) /\ s[k] \in E
    <3>1. k - 1 \in 0..n
      BY <1>1
    <3> QED
      BY <1>1, <1>2, <3>1
  <2>2. f[k] = IF s[k] \in S THEN Append(f[k - 1], s[k]) ELSE f[k - 1]
    BY <1>1, <1>2 DEF Selects
  <2>3. Len(f[k - 1]) \in Nat /\ Len(Append(f[k - 1], s[k])) = Len(f[k - 1]) + 1
    BY <2>1
  <2>4. CASE s[k] \in S
    <3>1. k # j /\ Len(f[k]) = Len(f[k - 1]) + 1
      BY <2>2, <2>3, <2>4
    <3> QED
      BY <1>1, <2>3, <3>1
  <2>5. CASE s[k] \notin S
    BY <1>1, <2>2, <2>3, <2>5
  <2> QED
    BY <2>4, <2>5
<1>5. \A k \in T : Less(f, k)
  OBVIOUS
<1> HIDE DEF T, n
<1>6. n \in T
  <2>1. 0..n \subseteq T
    BY <1>1, <1>3, <1>4, Induction
  <2> QED
    BY <1>1, <2>1
<1>7. j <= n
  BY <1>1
<1> QED
  BY <1>2, <1>5, <1>6, <1>7 DEF n
=============================================================================
