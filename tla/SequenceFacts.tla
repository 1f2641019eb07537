---------------------------- MODULE SequenceFacts ----------------------------
(***************************************************************************)
(* Induction over the prefixes of a sequence, and what follows of the      *)
(* functions that are defined by recursion over them.                      *)
(*                                                                         *)
(* An induction is stated over the set of the numbers for which the claim  *)
(* holds, and not over a predicate: a set can be given to a first-order    *)
(* prover as it is.                                                        *)
(***************************************************************************)
EXTENDS Filter, WellFoundedInduction, SequenceTheorems, TLAPS

Smaller == {p \in Nat \X Nat : p[1] < p[2]}

LEMMA SmallerIsWellFounded == IsWellFoundedOn(Smaller, Nat)
BY NatLessThanWellFounded DEF OpToRel, Smaller

\* A set with 0 and the successor of each of its members below n reaches n.
LEMMA BoundedInduction ==
    ASSUME NEW n \in Nat, NEW S, 0 \in S, \A i \in 1..n : i - 1 \in S => i \in S
    PROVE  \A i \in 0..n : i \in S
<1> DEFINE T == (0..n) \ S
<1> SUFFICES ASSUME T # {} PROVE FALSE
  OBVIOUS
<1>1. PICK x \in T : \A y \in T : ~(<<y, x>> \in Smaller)
  <2>1. T \subseteq Nat
    OBVIOUS
  <2> HIDE DEF T
  <2> QED BY <2>1, SmallerIsWellFounded, WFMin
<1>2. x \in 1..n /\ x - 1 \in 0..n /\ x - 1 < x
  BY <1>1
<1>3. <<x - 1, x>> \in Smaller
  BY <1>2 DEF Smaller
<1>4. x - 1 \notin T
  BY <1>1, <1>3
<1> QED BY <1>1, <1>2, <1>4

\* Two functions that begin alike, and go on alike wherever they have been alike.
LEMMA Agreement ==
    ASSUME NEW n \in Nat, NEW f, NEW g, f[0] = g[0],
           \A i \in 1..n : f[i - 1] = g[i - 1] => f[i] = g[i]
    PROVE  \A i \in 0..n : f[i] = g[i]
<1> DEFINE S == {i \in 0..n : f[i] = g[i]}
<1>1. 0 \in S /\ \A i \in 1..n : i - 1 \in S => i \in S
  OBVIOUS
<1> HIDE DEF S
<1>2. \A i \in 0..n : i \in S
  BY <1>1, BoundedInduction
<1> QED BY <1>2 DEF S

GoesOnAlike(f, g, n) == \A i \in 1..n : i = 1 \/ f[i - 1] = g[i - 1] => f[i] = g[i]

LEMMA AgreementFromOne ==
    ASSUME NEW n \in Nat, NEW f, NEW g, GoesOnAlike(f, g, n)
    PROVE  \A i \in 1..n : f[i] = g[i]
<1> USE DEF GoesOnAlike
<1> DEFINE S == {i \in 0..n : i = 0 \/ f[i] = g[i]}
<1>1. ASSUME NEW i \in 1..n, i - 1 \in S PROVE i \in S
  <2>1. CASE i = 1
    BY <2>1
  <2>2. CASE i # 1
    <3>1. i - 1 # 0
      BY <2>2
    <3> QED BY <1>1, <2>2, <3>1
  <2> QED BY <2>1, <2>2
<1>2. 0 \in S
  OBVIOUS
<1>3. \A i \in 0..n : i \in S
  <2> HIDE DEF S
  <2>1. \A i \in 1..n : i - 1 \in S => i \in S
    BY <1>1
  <2> QED BY <1>2, <2>1, BoundedInduction
<1> QED BY <1>3

\* A step function on A, one for each place, has a recursion along 0..n.
StepFunctions(A, n) == [1..n -> [A -> A]]

Recursion(f, A, base, F, n) ==
    /\ f \in [0..n -> A]
    /\ f[0] = base
    /\ \A i \in 1..n : f[i] = F[i][f[i - 1]]

LEMMA RecursionExists ==
    ASSUME NEW A, NEW base \in A, NEW n \in Nat, NEW F \in StepFunctions(A, n)
    PROVE  \E f : Recursion(f, A, base, F, n)
<1> USE DEF StepFunctions
<1> DEFINE Along(f, m) == /\ f \in [0..m -> A]
                          /\ f[0] = base /\ \A i \in 1..m : f[i] = F[i][f[i - 1]]
           S == {m \in 0..n : \E f : Along(f, m)}
<1>1. \E f : Along(f, 0)
  <2>1. Along([i \in 0..0 |-> base], 0)
    OBVIOUS
  <2> QED BY <2>1
<1>2. ASSUME NEW m \in 1..n, NEW f, Along(f, m - 1)
      PROVE  \E g : Along(g, m)
  <2> DEFINE g == [i \in 0..m |-> IF i = m THEN F[m][f[m - 1]] ELSE f[i]]
  <2>1. F[m] \in [A -> A] /\ f[m - 1] \in A
    BY <1>2
  <2>2. g \in [0..m -> A] /\ g[0] = base
    BY <1>2, <2>1
  <2>3. ASSUME NEW i \in 1..m PROVE g[i] = F[i][g[i - 1]]
    <3>1. i - 1 \in 0..(m - 1) /\ g[i - 1] = f[i - 1]
      BY <1>2
    <3>2. CASE i = m
      BY <3>1, <3>2
    <3>3. CASE i # m
      BY <1>2, <3>1, <3>3
    <3> QED BY <3>2, <3>3
  <2>4. Along(g, m)
    BY <2>2, <2>3
  <2> HIDE DEF g, Along
  <2> QED BY <2>4
<1>3. 0 \in S /\ \A m \in 1..n : m - 1 \in S => m \in S
  <2> HIDE DEF Along
  <2> QED BY <1>1, <1>2
<1>4. \A m \in 0..n : m \in S
  <2> HIDE DEF S
  <2> QED BY <1>3, BoundedInduction
<1>5. n \in S
  <2> HIDE DEF S
  <2> QED BY <1>4
<1> QED BY <1>5 DEF Recursion

LEMMA FunctionIsSeq ==
    ASSUME NEW T, NEW n \in Nat, NEW f \in [1..n -> T]
    PROVE  f \in Seq(T)
BY SeqDef
-----------------------------------------------------------------------------
(* Keep *)

KeptSoFar(s, S) ==
    CHOOSE kept : kept = [n \in 0..Len(s) |->
        IF n = 0 THEN <<>>
        ELSE IF s[n] \in S THEN Append(kept[n - 1], s[n]) ELSE kept[n - 1]]

\* kept is the recursion of Keep over the prefixes of s.
KeepsAlong(kept, s, S) ==
    /\ kept[0] = <<>>
    /\ \A n \in 1..Len(s) :
          kept[n] = IF s[n] \in S THEN Append(kept[n - 1], s[n]) ELSE kept[n - 1]

LEMMA KeptSoFarDef ==
    ASSUME NEW T, NEW S, NEW s \in Seq(T)
    PROVE  KeptSoFar(s, S) \in [0..Len(s) -> Seq(T)] /\ KeepsAlong(KeptSoFar(s, S), s, S)
<1> DEFINE F == [n \in 1..Len(s) |-> [a \in Seq(T) |-> IF s[n] \in S THEN Append(a, s[n]) ELSE a]]
           Recursive(f) == f = [n \in 0..Len(s) |->
               IF n = 0 THEN <<>>
               ELSE IF s[n] \in S THEN Append(f[n - 1], s[n]) ELSE f[n - 1]]
           k == KeptSoFar(s, S)
<1>1. Len(s) \in Nat /\ \A n \in 1..Len(s) : s[n] \in T
  OBVIOUS
<1>2. F \in [1..Len(s) -> [Seq(T) -> Seq(T)]]
  BY <1>1
<1>3. PICK f \in [0..Len(s) -> Seq(T)] : f[0] = <<>> /\ \A n \in 1..Len(s) : f[n] = F[n][f[n - 1]]
  <2>1. <<>> \in Seq(T)
    OBVIOUS
  <2>2. Len(s) \in Nat
    OBVIOUS
  <2>3. F \in StepFunctions(Seq(T), Len(s))
    BY <1>2 DEF StepFunctions
  <2> HIDE DEF F
  <2>4. \E f : Recursion(f, Seq(T), <<>>, F, Len(s))
    BY <2>1, <2>2, <2>3, RecursionExists
  <2> QED BY <2>4 DEF Recursion
<1>4. KeepsAlong(f, s, S)
  <2>1. ASSUME NEW n \in 1..Len(s)
        PROVE  f[n] = IF s[n] \in S THEN Append(f[n - 1], s[n]) ELSE f[n - 1]
    <3>1. f[n - 1] \in Seq(T)
      BY <1>1
    <3>2. F[n] = [a \in Seq(T) |-> IF s[n] \in S THEN Append(a, s[n]) ELSE a]
      OBVIOUS
    <3> HIDE DEF F
    <3> QED BY <1>3, <3>1, <3>2
  <2> QED BY <1>3, <2>1 DEF KeepsAlong
<1>5. Recursive(f)
  <2>1. \A n \in 0..Len(s) : f[n] = IF n = 0 THEN <<>>
               ELSE IF s[n] \in S THEN Append(f[n - 1], s[n]) ELSE f[n - 1]
    <3>1. ASSUME NEW n \in 0..Len(s), n # 0 PROVE n \in 1..Len(s)
      BY <1>1, <3>1
    <3> QED BY <1>4, <3>1 DEF KeepsAlong
  <2>2. f = [n \in 0..Len(s) |-> f[n]]
    OBVIOUS
  <2> QED BY <2>1, <2>2
<1>6. Recursive(k)
  BY <1>5 DEF KeptSoFar
<1>7. KeepsAlong(k, s, S) /\ DOMAIN k = 0..Len(s) /\ k = [n \in 0..Len(s) |-> k[n]]
  <2> HIDE DEF k
  <2>1. DOMAIN k = 0..Len(s) /\ k = [n \in 0..Len(s) |-> k[n]]
    BY <1>6
  <2>2. \A n \in 0..Len(s) : k[n] = IF n = 0 THEN <<>>
               ELSE IF s[n] \in S THEN Append(k[n - 1], s[n]) ELSE k[n - 1]
    BY <1>6
  <2>3. \A n \in 1..Len(s) : n \in 0..Len(s) /\ n # 0
    BY <1>1
  <2>4. 0 \in 0..Len(s)
    BY <1>1
  <2>5. k[0] = <<>>
    BY <2>2, <2>4
  <2>6. \A n \in 1..Len(s) :
          k[n] = IF s[n] \in S THEN Append(k[n - 1], s[n]) ELSE k[n - 1]
    BY <2>2, <2>3
  <2> QED BY <2>1, <2>5, <2>6 DEF KeepsAlong
<1>8. \A n \in 0..Len(s) : k[n] = f[n]
  <2> HIDE DEF k
  <2>1. k[0] = f[0] /\ \A n \in 1..Len(s) : k[n - 1] = f[n - 1] => k[n] = f[n]
    BY <1>1, <1>4, <1>7 DEF KeepsAlong
  <2> QED BY <1>1, <2>1, Agreement
<1>9. k \in [0..Len(s) -> Seq(T)]
  <2> HIDE DEF k
  <2>1. k = [n \in 0..Len(s) |-> f[n]]
    BY <1>7, <1>8
  <2> QED BY <2>1
<1> QED BY <1>7, <1>9

LEMMA KeepIsLast == ASSUME NEW s, NEW S PROVE Keep(s, S) = KeptSoFar(s, S)[Len(s)]
BY DEF Keep, KeptSoFar

LEMMA KeepEmpty == ASSUME NEW S PROVE Keep(<<>>, S) = <<>>
<1>1. <<>> \in Seq({}) /\ Len(<<>>) = 0
  OBVIOUS
<1>2. KeepsAlong(KeptSoFar(<<>>, S), <<>>, S)
  BY <1>1, KeptSoFarDef
<1> QED BY <1>1, <1>2, KeepIsLast DEF KeepsAlong

LEMMA KeepAppend ==
    ASSUME NEW T, NEW S, NEW s \in Seq(T), NEW x \in T
    PROVE  Keep(Append(s, x), S) = IF x \in S THEN Append(Keep(s, S), x) ELSE Keep(s, S)
<1> DEFINE t == Append(s, x)
           k == KeptSoFar(s, S)
           l == KeptSoFar(t, S)
<1>1. /\ t \in Seq(T) /\ Len(t) = Len(s) + 1 /\ Len(s) \in Nat
      /\ \A n \in 1..Len(s) : t[n] = s[n]
      /\ t[Len(s) + 1] = x
  OBVIOUS
<1> HIDE DEF t
<1>2. KeepsAlong(k, s, S) /\ KeepsAlong(l, t, S)
  BY <1>1, KeptSoFarDef
<1> HIDE DEF k, l
<1>3. k[0] = l[0]
  BY <1>2 DEF KeepsAlong
<1>4. k[Len(s)] = l[Len(s)]
  <2>1. \A n \in 1..Len(s) : k[n - 1] = l[n - 1] => k[n] = l[n]
    BY <1>1, <1>2 DEF KeepsAlong
  <2>2. Len(s) \in Nat
    BY <1>1
  <2>3. \A n \in 0..Len(s) : k[n] = l[n]
    BY <1>3, <2>1, <2>2, Agreement
  <2> QED BY <2>2, <2>3
<1>5. l[Len(t)] = IF x \in S THEN Append(k[Len(s)], x) ELSE k[Len(s)]
  BY <1>1, <1>2, <1>4 DEF KeepsAlong
<1> QED BY <1>5, KeepIsLast DEF k, l, t

LEMMA KeepType ==
    ASSUME NEW T, NEW S, NEW s \in Seq(T)
    PROVE  Keep(s, S) \in Seq(T)
<1>1. KeptSoFar(s, S) \in [0..Len(s) -> Seq(T)] /\ Len(s) \in Nat
  BY KeptSoFarDef
<1> QED BY <1>1, KeepIsLast

(* The elements of a sequence, and those that are kept of them. *)

LEMMA RangeAppend ==
    ASSUME NEW T, NEW s \in Seq(T), NEW x \in T
    PROVE  Range(Append(s, x)) = Range(s) \cup {x}
<1>1. /\ DOMAIN Append(s, x) = DOMAIN s \cup {Len(s) + 1}
      /\ \A i \in DOMAIN s : Append(s, x)[i] = s[i]
      /\ Append(s, x)[Len(s) + 1] = x
  OBVIOUS
<1> QED BY <1>1 DEF Range

LEMMA KeepRange ==
    ASSUME NEW T, NEW S, NEW s \in Seq(T)
    PROVE  Range(Keep(s, S)) = Range(s) \cap S
<1> DEFINE k == KeptSoFar(s, S)
           R == {n \in 0..Len(s) : Range(k[n]) = {s[i] : i \in 1..n} \cap S}
<1>1. k \in [0..Len(s) -> Seq(T)] /\ KeepsAlong(k, s, S) /\ Len(s) \in Nat
  BY KeptSoFarDef
<1> HIDE DEF k
<1>2. 0 \in R
  BY <1>1 DEF Range, KeepsAlong
<1>3. ASSUME NEW n \in 1..Len(s), n - 1 \in R PROVE n \in R
  <2>0. n - 1 \in 0..Len(s) /\ s[n] \in T
    BY <1>1
  <2>1. k[n - 1] \in Seq(T) /\ Range(k[n - 1]) = {s[i] : i \in 1..(n - 1)} \cap S
    BY <1>1, <1>3, <2>0
  <2>2. {s[i] : i \in 1..n} = {s[i] : i \in 1..(n - 1)} \cup {s[n]}
    OBVIOUS
  <2>3. k[n] = IF s[n] \in S THEN Append(k[n - 1], s[n]) ELSE k[n - 1]
    BY <1>1 DEF KeepsAlong
  <2>4. Range(k[n]) = IF s[n] \in S THEN Range(k[n - 1]) \cup {s[n]} ELSE Range(k[n - 1])
    <3>1. Range(Append(k[n - 1], s[n])) = Range(k[n - 1]) \cup {s[n]}
      BY <2>0, <2>1, RangeAppend
    <3> QED BY <2>3, <3>1
  <2>5. Range(k[n]) = {s[i] : i \in 1..n} \cap S
    BY <2>1, <2>2, <2>4
  <2>6. n \in 0..Len(s)
    BY <1>1
  <2> QED BY <2>5, <2>6
<1>4. \A n \in 0..Len(s) : n \in R
  <2>1. \A n \in 1..Len(s) : n - 1 \in R => n \in R
    BY <1>3
  <2> HIDE DEF R
  <2> QED BY <1>1, <1>2, <2>1, BoundedInduction
<1>5. Range(k[Len(s)]) = {s[i] : i \in 1..Len(s)} \cap S
  <2>1. Len(s) \in R
    <3> HIDE DEF R
    <3> QED BY <1>1, <1>4
  <2> QED BY <2>1
<1> QED BY <1>5, KeepIsLast DEF k, Range
-----------------------------------------------------------------------------
(* Prefixes *)

LEMMA FirstOf ==
    ASSUME NEW T, NEW s \in Seq(T), NEW n \in 0..Len(s)
    PROVE  /\ SubSeq(s, 1, n) \in Seq(T) /\ Len(SubSeq(s, 1, n)) = n
           /\ \A i \in 1..n : SubSeq(s, 1, n)[i] = s[i]
<1> DEFINE r == SubSeq(s, 1, n)
<1>1. 1 \in Int /\ n \in Int /\ n \in Nat /\ Len(s) \in Nat
  OBVIOUS
<1>2. \A i \in 1..n : s[i] \in T
  OBVIOUS
<1>3. /\ r \in Seq(T) /\ Len(r) = IF 1 <= n THEN n - 1 + 1 ELSE 0
      /\ \A i \in 1..(n - 1 + 1) : r[i] = s[1 + i - 1]
  BY <1>1, <1>2, SubSeqProperties
<1> HIDE DEF r
<1>4. Len(r) = n
  BY <1>1, <1>3
<1>5. \A i \in 1..n : r[i] = s[i]
  <2>1. ASSUME NEW i \in 1..n PROVE r[i] = s[i]
    <3>1. i \in 1..(n - 1 + 1) /\ 1 + i - 1 = i
      BY <1>1
    <3> QED BY <1>3, <3>1
  <2> QED BY <2>1
<1> QED BY <1>3, <1>4, <1>5 DEF r

LEMMA FirstNext ==
    ASSUME NEW T, NEW s \in Seq(T), NEW n \in 1..Len(s)
    PROVE  SubSeq(s, 1, n) = Append(SubSeq(s, 1, n - 1), s[n])
<1> DEFINE a == SubSeq(s, 1, n)
           b == SubSeq(s, 1, n - 1)
<1>1. n \in 0..Len(s) /\ n - 1 \in 0..Len(s) /\ s[n] \in T
  OBVIOUS
<1>2. /\ a \in Seq(T) /\ Len(a) = n /\ \A i \in 1..n : a[i] = s[i]
      /\ b \in Seq(T) /\ Len(b) = n - 1 /\ \A i \in 1..(n - 1) : b[i] = s[i]
  BY <1>1, FirstOf
<1> HIDE DEF a, b
<1>3. /\ Append(b, s[n]) \in Seq(T) /\ Len(Append(b, s[n])) = n
      /\ \A i \in 1..n : Append(b, s[n])[i] = s[i]
  BY <1>1, <1>2
<1> DEFINE c == Append(b, s[n])
<1> HIDE DEF c
<1>4. a = c
  BY <1>2, <1>3 DEF c
<1> QED BY <1>4 DEF a, b, c

LEMMA FirstOfAppend ==
    ASSUME NEW T, NEW s \in Seq(T), NEW x \in T, NEW n \in 0..Len(s)
    PROVE  SubSeq(Append(s, x), 1, n) = SubSeq(s, 1, n)
<1> DEFINE t == Append(s, x)
           a == SubSeq(t, 1, n)
           b == SubSeq(s, 1, n)
<1>1. t \in Seq(T) /\ n \in 0..Len(t) /\ \A i \in 1..n : t[i] = s[i]
  OBVIOUS
<1> HIDE DEF t
<1>2. /\ a \in Seq(T) /\ Len(a) = n /\ \A i \in 1..n : a[i] = t[i]
      /\ b \in Seq(T) /\ Len(b) = n /\ \A i \in 1..n : b[i] = s[i]
  BY <1>1, FirstOf
<1> HIDE DEF a, b
<1>3. a = b
  BY <1>1, <1>2
<1> QED BY <1>3 DEF a, b, t

LEMMA FirstNone == ASSUME NEW T, NEW s \in Seq(T) PROVE SubSeq(s, 1, 0) = <<>>
<1>1. 0 \in 0..Len(s)
  OBVIOUS
<1> DEFINE a == SubSeq(s, 1, 0)
<1>2. a \in Seq(T) /\ Len(a) = 0
  BY <1>1, FirstOf
<1> HIDE DEF a
<1>3. a = <<>>
  BY <1>2
<1> QED BY <1>3 DEF a

LEMMA FirstAll == ASSUME NEW T, NEW s \in Seq(T) PROVE SubSeq(s, 1, Len(s)) = s
BY SubSeqFull

\* A set with the empty sequence and, with a sequence, all that are longer by one.
LEMMA SequenceInduction ==
    ASSUME NEW T, NEW S, <<>> \in S, \A s \in Seq(T), x \in T : s \in S => Append(s, x) \in S
    PROVE  Seq(T) \subseteq S
<1> SUFFICES ASSUME NEW s \in Seq(T) PROVE s \in S
  OBVIOUS
<1> DEFINE R == {n \in 0..Len(s) : SubSeq(s, 1, n) \in S}
<1>1. Len(s) \in Nat
  OBVIOUS
<1>2. 0 \in R
  <2>1. SubSeq(s, 1, 0) = <<>>
    BY FirstNone
  <2>2. SubSeq(s, 1, 0) \in S
    BY <2>1, Zenon
  <2>3. 0 \in 0..Len(s)
    BY <1>1
  <2> QED BY <2>2, <2>3, Zenon
<1>3. ASSUME NEW n \in 1..Len(s), n - 1 \in R PROVE n \in R
  <2>1. n - 1 \in 0..Len(s) /\ n \in 0..Len(s) /\ s[n] \in T
    BY <1>1
  <2>2. SubSeq(s, 1, n - 1) \in Seq(T)
    BY <2>1, FirstOf
  <2>3. Append(SubSeq(s, 1, n - 1), s[n]) \in S
    BY <1>3, <2>1, <2>2
  <2> QED BY <2>1, <2>3, FirstNext
<1>4. \A n \in 0..Len(s) : n \in R
  <2>1. \A n \in 1..Len(s) : n - 1 \in R => n \in R
    BY <1>3
  <2> HIDE DEF R
  <2> QED BY <1>1, <1>2, <2>1, BoundedInduction
<1>5. Len(s) \in R
  <2> HIDE DEF R
  <2> QED BY <1>1, <1>4
<1> QED BY <1>5, FirstAll

(* What is kept of a sequence depends on its own elements only. *)

Alike(s, S, R) == \A i \in 1..Len(s) : (s[i] \in S) = (s[i] \in R)

LEMMA KeepAlike ==
    ASSUME NEW T, NEW S, NEW R, NEW s \in Seq(T), Alike(s, S, R)
    PROVE  Keep(s, S) = Keep(s, R)
<1> DEFINE k == KeptSoFar(s, S)
           l == KeptSoFar(s, R)
<1>1. KeepsAlong(k, s, S) /\ KeepsAlong(l, s, R) /\ Len(s) \in Nat
  BY KeptSoFarDef
<1> HIDE DEF k, l
<1>2. k[0] = l[0]
  BY <1>1 DEF KeepsAlong
<1>3. \A n \in 1..Len(s) : k[n - 1] = l[n - 1] => k[n] = l[n]
  BY <1>1 DEF KeepsAlong, Alike
<1>4. \A n \in 0..Len(s) : k[n] = l[n]
  BY <1>1, <1>2, <1>3, Agreement
<1> QED BY <1>1, <1>4, KeepIsLast DEF k, l

NoneAfter(s, n, S) == \A i \in (n + 1)..Len(s) : s[i] \notin S

LEMMA KeepOfFirst ==
    ASSUME NEW T, NEW S, NEW s \in Seq(T), NEW n \in 0..Len(s), NoneAfter(s, n, S)
    PROVE  Keep(s, S) = Keep(SubSeq(s, 1, n), S)
<1> DEFINE R == {i \in 0..Len(s) : i <= n \/ Keep(SubSeq(s, 1, i), S) = Keep(SubSeq(s, 1, n), S)}
<1>1. Len(s) \in Nat
  OBVIOUS
<1>2. 0 \in R
  BY <1>1
<1>3. ASSUME NEW i \in 1..Len(s), i - 1 \in R PROVE i \in R
  <2>1. i - 1 \in 0..Len(s) /\ i \in 0..Len(s) /\ s[i] \in T
    BY <1>1
  <2>2. CASE i <= n
    BY <2>1, <2>2
  <2>3. CASE i > n
    <3>1. s[i] \notin S
      BY <1>1, <2>1, <2>3 DEF NoneAfter
    <3>2. SubSeq(s, 1, i - 1) \in Seq(T)
      BY <2>1, FirstOf
    <3>3. Keep(SubSeq(s, 1, i), S) = Keep(SubSeq(s, 1, i - 1), S)
      <4> DEFINE u == SubSeq(s, 1, i - 1)
      <4>1. SubSeq(s, 1, i) = Append(u, s[i]) /\ u \in Seq(T)
        BY <3>2, FirstNext
      <4> HIDE DEF u
      <4>2. Keep(Append(u, s[i]), S) = Keep(u, S)
        BY <2>1, <3>1, <4>1, KeepAppend
      <4> QED BY <4>1, <4>2 DEF u
    <3>4. i - 1 = n \/ Keep(SubSeq(s, 1, i - 1), S) = Keep(SubSeq(s, 1, n), S)
      <4>1. i - 1 <= n \/ Keep(SubSeq(s, 1, i - 1), S) = Keep(SubSeq(s, 1, n), S)
        BY <1>3
      <4> QED BY <2>1, <2>3, <4>1
    <3> QED BY <2>1, <3>3, <3>4
  <2> QED BY <2>1, <2>2, <2>3
<1>4. \A i \in 0..Len(s) : i \in R
  <2>1. \A i \in 1..Len(s) : i - 1 \in R => i \in R
    BY <1>3
  <2> HIDE DEF R
  <2> QED BY <1>1, <1>2, <2>1, BoundedInduction
<1>5. Len(s) \in R
  <2> HIDE DEF R
  <2> QED BY <1>1, <1>4
<1>6. n \in Nat /\ (Len(s) <= n => n = Len(s))
  BY <1>1
<1>7. SubSeq(s, 1, Len(s)) = s
  BY FirstAll
<1>8. Len(s) <= n \/ Keep(SubSeq(s, 1, Len(s)), S) = Keep(SubSeq(s, 1, n), S)
  BY <1>5
<1> QED BY <1>6, <1>7, <1>8

LEMMA KeepAll ==
    ASSUME NEW T, NEW S, T \subseteq S, NEW s \in Seq(T)
    PROVE  Keep(s, S) = s
<1> DEFINE R == {t \in Seq(T) : Keep(t, S) = t}
<1>1. <<>> \in R
  <2>1. <<>> \in Seq(T)
    OBVIOUS
  <2> QED BY <2>1, KeepEmpty
<1>2. ASSUME NEW t \in Seq(T), NEW x \in T, t \in R PROVE Append(t, x) \in R
  <2>1. Append(t, x) \in Seq(T) /\ x \in S
    OBVIOUS
  <2>2. Keep(Append(t, x), S) = Append(t, x)
    BY <1>2, <2>1, KeepAppend
  <2> QED BY <2>1, <2>2
<1>3. Seq(T) \subseteq R
  <2> HIDE DEF R
  <2> QED BY <1>1, <1>2, SequenceInduction
<1> QED BY <1>3

\* What is kept is of the set, and everything of the set is kept.
LEMMA KeptIsOfSet ==
    ASSUME NEW T, NEW S, NEW s \in Seq(T), NEW i \in DOMAIN Keep(s, S)
    PROVE  Keep(s, S)[i] \in S /\ \E j \in 1..Len(s) : s[j] = Keep(s, S)[i]
<1>1. Keep(s, S)[i] \in Range(Keep(s, S))
  BY DEF Range
<1>2. Keep(s, S)[i] \in Range(s) \cap S
  BY <1>1, KeepRange
<1> QED BY <1>2 DEF Range

LEMMA OfSetIsKept ==
    ASSUME NEW T, NEW S, NEW s \in Seq(T), NEW j \in 1..Len(s), s[j] \in S
    PROVE  \E i \in DOMAIN Keep(s, S) : Keep(s, S)[i] = s[j]
<1>1. s[j] \in Range(s) \cap S
  BY DEF Range
<1>2. s[j] \in Range(Keep(s, S))
  BY <1>1, KeepRange
<1> QED BY <1>2 DEF Range
-----------------------------------------------------------------------------
(* The first element, and the last. *)

LEMMA HeadAndTail ==
    ASSUME NEW T, NEW s \in Seq(T), s # <<>>
    PROVE  /\ Head(s) \in T /\ Tail(s) \in Seq(T) /\ Len(Tail(s)) = Len(s) - 1 /\ Len(s) \in Nat \ {0}
           /\ Head(s) = s[1] /\ \A i \in 1..Len(Tail(s)) : Tail(s)[i] = s[i + 1]
OBVIOUS

LEMMA AppendedIs ==
    ASSUME NEW T, NEW s \in Seq(T), NEW x \in T
    PROVE  \A i \in 1..Len(Append(s, x)) : Append(s, x)[i] = x \/ (i \in 1..Len(s) /\ Append(s, x)[i] = s[i])
OBVIOUS

LEMMA KeepPutFirst ==
    ASSUME NEW T, NEW S, NEW x \in T, NEW s \in Seq(T)
    PROVE  Keep(<<x>> \o s, S) = IF x \in S THEN <<x>> \o Keep(s, S) ELSE Keep(s, S)
<1> DEFINE Good(t) == Keep(<<x>> \o t, S) = IF x \in S THEN <<x>> \o Keep(t, S) ELSE Keep(t, S)
           R == {t \in Seq(T) : Good(t)}
<1>1. <<>> \in R
  <2> DEFINE none == <<>>
  <2>1. <<x>> \o none = Append(none, x) /\ none \in Seq(T) /\ none = <<>>
        /\ Append(none, x) = <<x>> /\ <<x>> \o none = <<x>>
    OBVIOUS
  <2>0. none \in Seq(T)
    BY <2>1
  <2>2. Keep(none, S) = none
    BY KeepEmpty
  <2> HIDE DEF none
  <2>3. Keep(Append(none, x), S) = IF x \in S THEN Append(Keep(none, S), x) ELSE Keep(none, S)
    BY <2>0, KeepAppend
  <2>4. Good(none)
    BY <2>1, <2>2, <2>3
  <2> QED BY <2>1, <2>4
<1>2. ASSUME NEW t \in Seq(T), NEW y \in T, t \in R PROVE Append(t, y) \in R
  <2> DEFINE u == <<x>> \o t
             k == Keep(t, S)
  <2>1. <<x>> \o Append(t, y) = Append(u, y) /\ u \in Seq(T) /\ Append(t, y) \in Seq(T)
    OBVIOUS
  <2>2. k \in Seq(T)
    BY KeepType
  <2>3. Keep(u, S) = IF x \in S THEN <<x>> \o k ELSE k
    BY <1>2
  <2> HIDE DEF u, k
  <2>4. Keep(Append(u, y), S) = IF y \in S THEN Append(Keep(u, S), y) ELSE Keep(u, S)
    BY <2>1, KeepAppend
  <2>5. Keep(Append(t, y), S) = IF y \in S THEN Append(k, y) ELSE k
    BY KeepAppend DEF k
  <2>6. Append(<<x>> \o k, y) = <<x>> \o Append(k, y)
    BY <2>2
  <2>7. Good(Append(t, y))
    BY <2>1, <2>3, <2>4, <2>5, <2>6
  <2> QED BY <2>1, <2>7
<1> HIDE DEF R
<1>3. Seq(T) \subseteq R
  BY <1>1, <1>2, SequenceInduction
<1> QED BY <1>3 DEF R

LEMMA KeepFirst ==
    ASSUME NEW T, NEW S, NEW s \in Seq(T), s # <<>>
    PROVE  IF Head(s) \in S
           THEN /\ Len(Keep(s, S)) = Len(Keep(Tail(s), S)) + 1 /\ Keep(s, S)[1] = Head(s)
                /\ \A i \in 1..Len(Keep(Tail(s), S)) : Keep(s, S)[i + 1] = Keep(Tail(s), S)[i]
           ELSE Keep(s, S) = Keep(Tail(s), S)
<1> DEFINE x == Head(s)
           t == Tail(s)
           k == Keep(t, S)
<1>1. x \in T /\ t \in Seq(T) /\ s = <<x>> \o t
  OBVIOUS
<1>2. k \in Seq(T)
  BY <1>1, KeepType
<1>3. Keep(s, S) = IF x \in S THEN <<x>> \o k ELSE k
  <2> HIDE DEF x, t
  <2> QED BY <1>1, KeepPutFirst
<1> HIDE DEF x, t, k
<1>4. Len(<<x>> \o k) = Len(k) + 1 /\ (<<x>> \o k)[1] = x
      /\ \A i \in 1..Len(k) : (<<x>> \o k)[i + 1] = k[i]
  BY <1>2
<1> QED BY <1>3, <1>4 DEF x, t, k
=============================================================================
