---------------------------- MODULE BridgeProofs -----------------------------
(***************************************************************************)
(* Proofs about the two directions of the bridge: GeminiRequest, for       *)
(* conversations of any length with any tools and any number of calls, and *)
(* SseBridge, for any stream, chunking and buffer limit.                   *)
(***************************************************************************)
EXTENDS GeminiRequest, SseBridge, SequenceFacts, FiniteSetTheorems, TLAPS

Event == Events(Kinds, Nat, Indices)
Buffered == [Indices -> [name : Nat, args : Seq(Nat)]]
Output == [kind : {"text", "STOP", "MAX_TOKENS", "usage"}, n : Nat,
           calls : {Flush(b) : b \in Buffered} \cup {<<>>}]
Accumulated == [calls : Buffered, out : Seq(Output)]

LEMMA AppendTo == ASSUME NEW T, NEW s \in Seq(T), NEW x \in T PROVE Append(s, x) \in Seq(T)
OBVIOUS

LEMMA TranslateType ==
    ASSUME NEW acc \in Accumulated, NEW e \in Event
    PROVE  Translate(acc, e) \in Accumulated
<1>1. /\ e.kind \in Kinds /\ e.n \in Nat /\ acc.calls \in Buffered /\ acc.out \in Seq(Output)
      /\ e.index \in Indices
      /\ acc = [calls |-> acc.calls, out |-> acc.out]
  BY DEF Event, Events, Accumulated
<1>2. ASSUME NEW o \in Output PROVE Append(acc.out, o) \in Seq(Output)
  BY <1>1, AppendTo
<1>3. NoCalls \in Buffered
  BY DEF NoCalls, NoCall, Buffered
<1>4. ASSUME NEW k \in {"text", "STOP", "MAX_TOKENS", "usage"},
             NEW c \in {Flush(b) : b \in Buffered} \cup {<<>>}
      PROVE  Out(k, e.n, c) \in Output
  BY <1>1 DEF Out, Output
<1>5. Flush(acc.calls) \in {Flush(b) : b \in Buffered}
  BY <1>1
<1>6. CASE e.kind = "text"
  <2>1. Translate(acc, e) = [acc EXCEPT !.out = Append(@, Out("text", e.n, <<>>))]
    BY <1>6 DEF Translate
  <2> QED BY <1>1, <1>2, <1>4, <2>1 DEF Accumulated
<1>7. CASE e.kind = "name"
  <2>1. Translate(acc, e) = [acc EXCEPT !.calls[e.index].name = e.n]
    BY <1>7 DEF Translate
  <2>2. e.index \in Indices
    BY <1>1, <1>7
  <2>3. [acc.calls EXCEPT ![e.index].name = e.n] \in Buffered
    BY <1>1, <2>2 DEF Buffered
  <2> QED BY <1>1, <2>1, <2>3 DEF Accumulated
<1>8. CASE e.kind = "args"
  <2>1. Translate(acc, e) = [acc EXCEPT !.calls[e.index].args = Append(@, e.n)]
    BY <1>8 DEF Translate
  <2>2. e.index \in Indices
    BY <1>1, <1>8
  <2>3. [acc.calls EXCEPT ![e.index].args = Append(@, e.n)] \in Buffered
    <3>1. acc.calls[e.index].args \in Seq(Nat)
      BY <1>1, <2>2 DEF Buffered
    <3>2. Append(acc.calls[e.index].args, e.n) \in Seq(Nat)
      BY <1>1, <3>1, AppendTo
    <3> QED BY <1>1, <2>2, <3>2 DEF Buffered
  <2> QED BY <1>1, <2>1, <2>3 DEF Accumulated
<1>9. CASE e.kind = "tool_calls"
  <2>1. Translate(acc, e) = [calls |-> NoCalls, out |-> Append(acc.out, Out("STOP", e.n, Flush(acc.calls)))]
    BY <1>9 DEF Translate
  <2> QED BY <1>2, <1>3, <1>4, <1>5, <2>1 DEF Accumulated
<1>10. CASE e.kind = "stop"
  <2>1. Translate(acc, e) = [acc EXCEPT !.out = Append(@, Out("STOP", e.n, <<>>))]
    BY <1>10 DEF Translate
  <2> QED BY <1>1, <1>2, <1>4, <2>1 DEF Accumulated
<1>11. CASE e.kind = "length"
  <2>1. Translate(acc, e) = [acc EXCEPT !.out = Append(@, Out("MAX_TOKENS", e.n, <<>>))]
    BY <1>11 DEF Translate
  <2> QED BY <1>1, <1>2, <1>4, <2>1 DEF Accumulated
<1>12. CASE e.kind = "usage"
  <2>1. Translate(acc, e) = [acc EXCEPT !.out = Append(@, Out("usage", e.n, <<>>))]
    BY <1>12 DEF Translate
  <2> QED BY <1>1, <1>2, <1>4, <2>1 DEF Accumulated
<1> QED BY <1>1, <1>6, <1>7, <1>8, <1>9, <1>10, <1>11, <1>12 DEF Kinds, Reasons

\* The state of the translation after each line of a chunk.
LinesSoFar(whole, begun) ==
    CHOOSE after : after = [n \in 0..Len(whole) |->
        IF n = 0 THEN [calls |-> begun, out |-> <<>>] ELSE Translate(after[n - 1], whole[n])]

LEMMA LinesIsLast ==
    ASSUME NEW whole, NEW begun
    PROVE  TranslateLines(whole, begun) = LinesSoFar(whole, begun)[Len(whole)]
BY DEF TranslateLines, LinesSoFar

LEMMA LinesSoFarDef ==
    ASSUME NEW whole \in Seq(Event), NEW begun \in Buffered
    PROVE  /\ LinesSoFar(whole, begun) \in [0..Len(whole) -> Accumulated]
           /\ LinesSoFar(whole, begun)[0] = [calls |-> begun, out |-> <<>>]
           /\ \A n \in 1..Len(whole) : LinesSoFar(whole, begun)[n]
                   = Translate(LinesSoFar(whole, begun)[n - 1], whole[n])
<1> DEFINE base == [calls |-> begun, out |-> <<>>]
           F == [n \in 1..Len(whole) |-> [a \in Accumulated |-> Translate(a, whole[n])]]
           k == LinesSoFar(whole, begun)
<1>1. Len(whole) \in Nat /\ \A n \in 1..Len(whole) : whole[n] \in Event
  OBVIOUS
<1>2. base \in Accumulated
  BY DEF Accumulated
<1>3. F \in StepFunctions(Accumulated, Len(whole))
  BY <1>1, TranslateType DEF StepFunctions
<1>4. PICK f : Recursion(f, Accumulated, base, F, Len(whole))
  <2> HIDE DEF F, base
  <2>1. Len(whole) \in Nat
    OBVIOUS
  <2> QED BY <1>2, <1>3, <2>1, RecursionExists
<1>5. f \in [0..Len(whole) -> Accumulated] /\ f[0] = base
  BY <1>4 DEF Recursion
<1>6. \A n \in 1..Len(whole) : f[n] = Translate(f[n - 1], whole[n])
  <2>1. ASSUME NEW n \in 1..Len(whole) PROVE f[n] = Translate(f[n - 1], whole[n])
    <3>1. f[n] = F[n][f[n - 1]]
      <4> HIDE DEF F
      <4> QED BY <1>4 DEF Recursion
    <3>2. n - 1 \in 0..Len(whole)
      BY <1>1
    <3>3. f[n - 1] \in Accumulated
      BY <1>5, <3>2
    <3> HIDE DEF base
    <3> QED BY <3>1, <3>3
  <2> QED BY <2>1
<1>7. \A n \in 0..Len(whole) : n = 0 \/ n \in 1..Len(whole)
  BY <1>1
<1>8. f = [n \in 0..Len(whole) |-> IF n = 0 THEN base ELSE Translate(f[n - 1], whole[n])]
  <2>1. f = [n \in 0..Len(whole) |-> f[n]]
    BY <1>5
  <2>2. \A n \in 0..Len(whole) : f[n] = IF n = 0 THEN base ELSE Translate(f[n - 1], whole[n])
    <3> HIDE DEF base
    <3> QED BY <1>5, <1>6, <1>7
  <2> HIDE DEF base
  <2> QED BY <2>1, <2>2
<1>9. k = [n \in 0..Len(whole) |-> IF n = 0 THEN base ELSE Translate(k[n - 1], whole[n])]
  BY <1>8 DEF LinesSoFar
<1>10. /\ DOMAIN k = 0..Len(whole) /\ k = [n \in 0..Len(whole) |-> k[n]]
       /\ k[0] = base /\ \A n \in 1..Len(whole) : k[n] = Translate(k[n - 1], whole[n])
  <2>1. \A n \in 1..Len(whole) : n \in 0..Len(whole) /\ n # 0
    BY <1>1
  <2>2. 0 \in 0..Len(whole)
    BY <1>1
  <2> HIDE DEF k, base
  <2> QED BY <1>9, <2>1, <2>2
<1>11. \A n \in 0..Len(whole) : k[n] = f[n]
  <2>1. k[0] = f[0] /\ \A n \in 1..Len(whole) : k[n - 1] = f[n - 1] => k[n] = f[n]
    <3> HIDE DEF k, base
    <3> QED BY <1>5, <1>6, <1>10
  <2>2. Len(whole) \in Nat
    OBVIOUS
  <2> HIDE DEF k
  <2> QED BY <2>1, <2>2, Agreement
<1>12. k \in [0..Len(whole) -> Accumulated]
  <2> HIDE DEF k, base
  <2> QED BY <1>5, <1>10, <1>11
<1> QED BY <1>10, <1>12
-----------------------------------------------------------------------------
(* FlattenSeq *)

FlatSoFar(seqs) ==
    CHOOSE flatten : flatten = [i \in 1..Len(seqs) |->
        IF i = 1 THEN seqs[i] ELSE flatten[i - 1] \o seqs[i]]

LEMMA FlattenIsLast ==
    ASSUME NEW seqs
    PROVE  FlattenSeq(seqs) = IF Len(seqs) = 0 THEN seqs ELSE FlatSoFar(seqs)[Len(seqs)]
BY DEF FlattenSeq, FlatSoFar

LEMMA FlatSoFarDef ==
    ASSUME NEW T, NEW seqs \in Seq(Seq(T))
    PROVE  /\ \A i \in 1..Len(seqs) : FlatSoFar(seqs)[i] =
                  IF i = 1 THEN seqs[i] ELSE FlatSoFar(seqs)[i - 1] \o seqs[i]
           /\ \A i \in 1..Len(seqs) : FlatSoFar(seqs)[i] \in Seq(T)
<1> DEFINE F == [i \in 1..Len(seqs) |-> [a \in Seq(T) |-> a \o seqs[i]]]
           k == FlatSoFar(seqs)
<1>1. Len(seqs) \in Nat /\ \A i \in 1..Len(seqs) : seqs[i] \in Seq(T)
  OBVIOUS
<1>2. F \in StepFunctions(Seq(T), Len(seqs))
  BY <1>1 DEF StepFunctions
<1>3. PICK f : Recursion(f, Seq(T), <<>>, F, Len(seqs))
  <2> HIDE DEF F
  <2>1. Len(seqs) \in Nat /\ <<>> \in Seq(T)
    OBVIOUS
  <2> QED BY <1>2, <2>1, RecursionExists
<1>4. f \in [0..Len(seqs) -> Seq(T)] /\ f[0] = <<>>
  BY <1>3 DEF Recursion
<1>5. \A i \in 1..Len(seqs) : f[i] = f[i - 1] \o seqs[i]
  <2>1. ASSUME NEW i \in 1..Len(seqs) PROVE f[i] = f[i - 1] \o seqs[i]
    <3>1. f[i] = F[i][f[i - 1]]
      <4> HIDE DEF F
      <4> QED BY <1>3 DEF Recursion
    <3>2. i - 1 \in 0..Len(seqs)
      BY <1>1
    <3>3. f[i - 1] \in Seq(T)
      BY <1>4, <3>2
    <3> QED BY <3>1, <3>3
  <2> QED BY <2>1
<1> DEFINE g == [i \in 1..Len(seqs) |-> f[i]]
<1>6. g = [i \in 1..Len(seqs) |-> IF i = 1 THEN seqs[i] ELSE g[i - 1] \o seqs[i]]
  <2>1. ASSUME NEW i \in 1..Len(seqs), i # 1 PROVE i - 1 \in 1..Len(seqs)
    BY <1>1, <2>1
  <2>2. 1 \in 1..Len(seqs) => f[1] = seqs[1]
    <3>1. SUFFICES ASSUME 1 \in 1..Len(seqs) PROVE f[1] = seqs[1]
      OBVIOUS
    <3>2. f[1] = f[1 - 1] \o seqs[1]
      BY <1>5, <3>1
    <3>3. 1 - 1 = 0
      OBVIOUS
    <3>4. f[1] = <<>> \o seqs[1]
      BY <1>4, <3>2, <3>3
    <3> QED BY <1>1, <3>1, <3>4
  <2>3. \A i \in 1..Len(seqs) : g[i] = IF i = 1 THEN seqs[i] ELSE g[i - 1] \o seqs[i]
    BY <1>5, <2>1, <2>2
  <2> QED BY <2>3
<1>7. k = [i \in 1..Len(seqs) |-> IF i = 1 THEN seqs[i] ELSE k[i - 1] \o seqs[i]]
  <2> HIDE DEF g
  <2> QED BY <1>6 DEF FlatSoFar
<1>8. \A i \in 1..Len(seqs) : k[i] = IF i = 1 THEN seqs[i] ELSE k[i - 1] \o seqs[i]
  <2> HIDE DEF k
  <2> QED BY <1>7
<1>9. \A i \in 1..Len(seqs) : g[i] = IF i = 1 THEN seqs[i] ELSE g[i - 1] \o seqs[i]
  <2> HIDE DEF g
  <2> QED BY <1>6
<1>10. \A i \in 1..Len(seqs) : k[i] = g[i]
  <2> HIDE DEF k, g
  <2>1. Len(seqs) \in Nat
    OBVIOUS
  <2>2. GoesOnAlike(k, g, Len(seqs))
    BY <1>8, <1>9 DEF GoesOnAlike
  <2> QED BY <2>1, <2>2, AgreementFromOne
<1>11. \A i \in 1..Len(seqs) : g[i] \in Seq(T)
  <2>1. \A i \in 1..Len(seqs) : i \in 0..Len(seqs)
    BY <1>1
  <2> QED BY <1>4, <2>1
<1> QED BY <1>8, <1>10, <1>11

LEMMA FlattenAppend ==
    ASSUME NEW T, NEW seqs \in Seq(Seq(T)), NEW x \in Seq(T)
    PROVE  /\ FlattenSeq(seqs) \in Seq(T)
           /\ FlattenSeq(Append(seqs, x)) = FlattenSeq(seqs) \o x
<1> DEFINE t == Append(seqs, x)
           k == FlatSoFar(seqs)
           l == FlatSoFar(t)
<1>1. /\ t \in Seq(Seq(T)) /\ Len(t) = Len(seqs) + 1 /\ Len(seqs) \in Nat
      /\ \A i \in 1..Len(seqs) : t[i] = seqs[i]
      /\ t[Len(seqs) + 1] = x
  OBVIOUS
<1> HIDE DEF t
<1>2. /\ \A i \in 1..Len(seqs) : k[i] = IF i = 1 THEN seqs[i] ELSE k[i - 1] \o seqs[i]
      /\ \A i \in 1..Len(seqs) : k[i] \in Seq(T)
  BY FlatSoFarDef
<1>3. \A i \in 1..Len(t) : l[i] = IF i = 1 THEN t[i] ELSE l[i - 1] \o t[i]
  BY <1>1, FlatSoFarDef
<1> HIDE DEF k, l
<1>4. \A i \in 1..Len(seqs) : k[i] = l[i]
  <2>1. Len(seqs) \in Nat
    BY <1>1
  <2>2. GoesOnAlike(k, l, Len(seqs))
    BY <1>1, <1>2, <1>3 DEF GoesOnAlike
  <2> QED BY <2>1, <2>2, AgreementFromOne
<1>5. FlattenSeq(t) = l[Len(seqs) + 1]
  BY <1>1, FlattenIsLast DEF l
<1>6. CASE Len(seqs) = 0
  <2>1. seqs = <<>>
    BY <1>6
  <2>2. FlattenSeq(seqs) = <<>>
    BY <1>6, <2>1, FlattenIsLast
  <2>3. l[1] = x
    BY <1>1, <1>3, <1>6
  <2> QED BY <1>5, <1>6, <2>2, <2>3 DEF t
<1>7. CASE Len(seqs) # 0
  <2>1. Len(seqs) \in 1..Len(seqs) /\ Len(seqs) + 1 \in 1..Len(t) /\ Len(seqs) + 1 # 1
    BY <1>1, <1>7
  <2>2. FlattenSeq(seqs) = k[Len(seqs)]
    BY <1>7, FlattenIsLast DEF k
  <2>3. l[Len(seqs) + 1] = l[Len(seqs)] \o x
    <3>1. l[Len(seqs) + 1] = l[(Len(seqs) + 1) - 1] \o t[Len(seqs) + 1]
      BY <1>3, <2>1
    <3>2. (Len(seqs) + 1) - 1 = Len(seqs)
      BY <1>1
    <3> QED BY <1>1, <3>1, <3>2
  <2> QED BY <1>2, <1>4, <1>5, <2>1, <2>2, <2>3 DEF t
<1> QED BY <1>6, <1>7
-----------------------------------------------------------------------------
(* What the tap keeps *)

LEMMA PrefixOfItself == ASSUME NEW T, NEW s \in Seq(T) PROVE IsPrefix(s, s)
BY DEF IsPrefix

LEMMA PrefixOfLonger ==
    ASSUME NEW T, NEW s \in Seq(T), NEW t \in Seq(T), NEW x \in Seq(T), IsPrefix(s, t)
    PROVE  IsPrefix(s, t \o x)
<1>1. Len(s) \in Nat /\ Len(t) \in Nat /\ Len(x) \in Nat
  OBVIOUS
<1>2. t \o x \in Seq(T) /\ Len(t \o x) = Len(t) + Len(x)
      /\ \A i \in 1..Len(t) : (t \o x)[i] = t[i]
  OBVIOUS
<1>3. Len(s) <= Len(t) /\ SubSeq(s, 1, Len(s)) = SubSeq(t, 1, Len(s))
  BY DEF IsPrefix
<1>4. SubSeq(t, 1, Len(s)) = SubSeq(t \o x, 1, Len(s))
  <2> DEFINE y == t \o x
             a == SubSeq(t, 1, Len(s))
             b == SubSeq(y, 1, Len(s))
  <2>1. y \in Seq(T) /\ Len(s) \in 0..Len(t) /\ Len(s) \in 0..Len(y)
    BY <1>1, <1>2, <1>3
  <2>2. \A i \in 1..Len(s) : y[i] = t[i]
    BY <1>1, <1>2, <1>3
  <2> HIDE DEF y
  <2>3. /\ a \in Seq(T) /\ Len(a) = Len(s) /\ \A i \in 1..Len(s) : a[i] = t[i]
        /\ b \in Seq(T) /\ Len(b) = Len(s) /\ \A i \in 1..Len(s) : b[i] = y[i]
    BY <2>1, FirstOf
  <2> HIDE DEF a, b
  <2>4. a = b
    BY <2>2, <2>3
  <2> QED BY <2>4 DEF a, b, y
<1> QED BY <1>1, <1>2, <1>3, <1>4 DEF IsPrefix

LEMMA EmitType ==
    ASSUME BridgeAssumption, emitted \in Seq(Event), Emit
    PROVE  emitted' \in Seq(Event) /\ Len(emitted') = Len(emitted) + 1
<1>1. Len(emitted) + 1 \in Nat
  OBVIOUS
<1>2. PICK e \in {Text(Len(emitted) + 1), Usage(Len(emitted) + 1)}
                \cup {Naming(i, Len(emitted) + 1) : i \in Indices}
                \cup {Argument(i, Len(emitted) + 1) : i \in Indices}
                \cup {Finish(r, Len(emitted) + 1) : r \in Reasons} : emitted' = Append(emitted, e)
  BY DEF Emit
<1>3. e \in Event
  BY <1>1, <1>2 DEF Text, Usage, Naming, Argument, Finish, Event, Events, Kinds, Reasons, Indices,
                 BridgeAssumption
<1> QED BY <1>2, <1>3

(* The lines of a chunk that parse: those after the ones that arrived. *)

Top(last, cut) == last - (IF cut THEN 1 ELSE 0)
Lines(last, cut) ==
    Parsed(SubSeq(emitted, IF arrived \in torn THEN arrived ELSE arrived + 1, last), arrived \in torn, cut)

StreamInv ==
    /\ emitted \in Seq(Event) /\ \A i \in 1..Len(emitted) : emitted[i].n = i
    /\ arrived \in 0..Len(emitted) /\ torn \subseteq 1..arrived

\* A run of a sequence, by SubSeqProperties.
LEMMA RunOf ==
    ASSUME NEW T, NEW s \in Seq(T), NEW m \in Nat \ {0}, NEW n \in Nat, m <= n + 1, n <= Len(s)
    PROVE  /\ SubSeq(s, m, n) \in Seq(T) /\ Len(SubSeq(s, m, n)) = n - m + 1
           /\ \A i \in 1..(n - m + 1) : SubSeq(s, m, n)[i] = s[m + i - 1]
<1>1. m \in Int /\ n \in Int /\ \A i \in m..n : s[i] \in T
  OBVIOUS
<1> DEFINE r == SubSeq(s, m, n)
<1>2. /\ r \in Seq(T) /\ Len(r) = IF m <= n THEN n - m + 1 ELSE 0
      /\ \A i \in 1..(n - m + 1) : r[i] = s[m + i - 1]
  BY <1>1, SubSeqProperties
<1> HIDE DEF r
<1>3. Len(r) = n - m + 1
  BY <1>2
<1> QED BY <1>2, <1>3 DEF r

LEMMA LinesAre ==
    ASSUME StreamInv, NEW last \in (arrived + 1)..Len(emitted), NEW cut \in BOOLEAN
    PROVE  /\ Lines(last, cut) \in Seq(Event)
           /\ Len(Lines(last, cut)) = Top(last, cut) - arrived
           /\ Top(last, cut) \in arrived..Len(emitted) /\ Top(last, cut) <= last
           /\ \A j \in 1..(Top(last, cut) - arrived) : Lines(last, cut)[j] = emitted[arrived + j]
<1> DEFINE begun == arrived \in torn
           from == IF begun THEN arrived ELSE arrived + 1
           chunk == SubSeq(emitted, from, last)
           m == IF begun THEN 2 ELSE 1
           n == Len(chunk) - (IF cut THEN 1 ELSE 0)
<1>1. /\ emitted \in Seq(Event) /\ Len(emitted) \in Nat /\ arrived \in Nat /\ last \in Nat
      /\ last <= Len(emitted) /\ arrived + 1 <= last
      /\ begun => arrived >= 1
  BY DEF StreamInv
<1>2. from \in Nat \ {0} /\ from <= last + 1
  BY <1>1
<1>3. /\ chunk \in Seq(Event) /\ Len(chunk) = last - from + 1
      /\ \A i \in 1..(last - from + 1) : chunk[i] = emitted[from + i - 1]
  <2> HIDE DEF from
  <2> QED BY <1>1, <1>2, RunOf
<1>4. m \in Nat \ {0} /\ n \in Nat /\ m <= n + 1 /\ n <= Len(chunk)
  <2> HIDE DEF chunk
  <2> QED BY <1>1, <1>3
<1>5. Lines(last, cut) = SubSeq(chunk, m, n)
  BY DEF Lines, Parsed
<1> DEFINE r == SubSeq(chunk, m, n)
<1>6. /\ r \in Seq(Event) /\ Len(r) = n - m + 1
      /\ \A i \in 1..(n - m + 1) : r[i] = chunk[m + i - 1]
  <2> HIDE DEF chunk, m, n
  <2> QED BY <1>3, <1>4, RunOf
<1>7. n - m + 1 = Top(last, cut) - arrived
  <2> HIDE DEF chunk
  <2> QED BY <1>1, <1>3 DEF Top
<1>8. Top(last, cut) \in arrived..Len(emitted) /\ Top(last, cut) <= last
  BY <1>1 DEF Top
<1>9. ASSUME NEW j \in 1..(Top(last, cut) - arrived) PROVE r[j] = emitted[arrived + j]
  <2>1. r[j] = chunk[m + j - 1]
    <3> HIDE DEF r, m, n
    <3> QED BY <1>6, <1>7
  <2>2. m + j - 1 \in 1..(last - from + 1) /\ from + (m + j - 1) - 1 = arrived + j
    BY <1>1, <1>8
  <2>3. chunk[m + j - 1] = emitted[from + (m + j - 1) - 1]
    <3> HIDE DEF chunk, from, m
    <3> QED BY <1>3, <2>2
  <2> HIDE DEF chunk, from, m, r
  <2> QED BY <2>1, <2>2, <2>3
<1> HIDE DEF r, m, n
<1> QED BY <1>5, <1>6, <1>7, <1>8, <1>9 DEF r

LEMMA LinesType ==
    ASSUME NEW whole \in Seq(Event), NEW begun \in Buffered
    PROVE  TranslateLines(whole, begun) \in Accumulated
<1>1. Len(whole) \in 0..Len(whole)
  OBVIOUS
<1>2. LinesSoFar(whole, begun) \in [0..Len(whole) -> Accumulated]
  BY LinesSoFarDef
<1> QED BY <1>1, <1>2, LinesIsLast

TapInv ==
    /\ calls \in Buffered /\ received \in Seq(Output) /\ kept \in Seq(Seq(Output))
    /\ KeptIsPrefix

LEMMA TapKeepsPrefix ==
    ASSUME BridgeAssumption, TapInv, NEW out \in Seq(Output), Tap(out)
    PROVE  received' \in Seq(Output) /\ kept' \in Seq(Seq(Output)) /\ KeptIsPrefix'
<1> DEFINE f == FlattenSeq(kept)
<1>1. /\ received \in Seq(Output) /\ kept \in Seq(Seq(Output)) /\ BufferLimit \in Nat
      /\ IsPrefix(f, received) /\ Len(f) <= BufferLimit /\ bytes = Len(received)
      /\ bytes <= BufferLimit => f = received
  BY DEF TapInv, KeptIsPrefix, BridgeAssumption
<1>2. f \in Seq(Output) /\ FlattenSeq(Append(kept, out)) = f \o out
  BY <1>1, FlattenAppend
<1>3. received' = received \o out /\ bytes' = bytes + Len(out)
  BY DEF Tap
<1>4. received' \in Seq(Output) /\ Len(received') = bytes' /\ Len(received) \in Nat /\ Len(out) \in Nat
  BY <1>1, <1>3
<1> HIDE DEF f
<1>5. CASE bytes' <= BufferLimit
  <2>1. kept' = Append(kept, out)
    BY <1>5 DEF Tap
  <2>2. bytes <= BufferLimit
    BY <1>1, <1>3, <1>4, <1>5
  <2>3. FlattenSeq(kept') = received'
    BY <1>1, <1>2, <1>3, <2>1, <2>2
  <2>4. IsPrefix(received', received')
    BY <1>4, PrefixOfItself
  <2>5. kept' \in Seq(Seq(Output))
    BY <1>1, <2>1
  <2> QED BY <1>4, <1>5, <2>3, <2>4, <2>5 DEF KeptIsPrefix
<1>6. CASE ~(bytes' <= BufferLimit)
  <2>1. kept' = kept
    BY <1>6 DEF Tap
  <2>2. IsPrefix(f, received \o out)
    BY <1>1, <1>2, PrefixOfLonger
  <2> QED BY <1>1, <1>3, <1>4, <1>6, <2>1, <2>2 DEF KeptIsPrefix, f
<1> QED BY <1>5, <1>6

BridgeInv == StreamInv /\ TapInv

LEMMA NoCallsType == NoCalls \in Buffered
BY DEF NoCalls, NoCall, Buffered

LEMMA BridgeInitially == ASSUME BridgeAssumption, BridgeInit PROVE BridgeInv
<1>1. /\ emitted = <<>> /\ arrived = 0 /\ torn = {} /\ calls = NoCalls /\ received = <<>>
      /\ bytes = 0 /\ kept = <<>> /\ BufferLimit \in Nat
  BY DEF BridgeInit, BridgeAssumption
<1>2. StreamInv
  BY <1>1 DEF StreamInv
<1>3. FlattenSeq(<<>>) = <<>>
  <2>1. Len(<<>>) = 0
    OBVIOUS
  <2> QED BY <2>1, FlattenIsLast
<1>4. IsPrefix(<<>>, <<>>)
  <2>1. <<>> \in Seq(Output)
    OBVIOUS
  <2> QED BY <2>1, PrefixOfItself
<1>5. TapInv
  BY <1>1, <1>3, <1>4, NoCallsType DEF TapInv, KeptIsPrefix
<1> QED BY <1>2, <1>5 DEF BridgeInv

LEMMA DeliverIs ==
    ASSUME StreamInv, NEW last, NEW cut \in BOOLEAN, Deliver(last, cut)
    PROVE  /\ last \in (arrived + 1)..Len(emitted)
           /\ Tap(TranslateLines(Lines(last, cut), calls).out)
           /\ calls' = TranslateLines(Lines(last, cut), calls).calls
           /\ arrived' = last /\ emitted' = emitted
           /\ torn' = IF cut THEN torn \cup {last} ELSE torn
BY DEF Deliver, TranslateChunk, Lines

LEMMA BridgeStep ==
    ASSUME BridgeAssumption, BridgeInv, [BridgeNext]_bridgeVars
    PROVE  BridgeInv'
<1>1. CASE Emit
  <2>1. emitted' \in Seq(Event) /\ Len(emitted') = Len(emitted) + 1
    BY <1>1, EmitType DEF BridgeInv, StreamInv
  <2>2. PICK e : emitted' = Append(emitted, e) /\ e.n = Len(emitted) + 1
    BY <1>1 DEF Emit, Text, Usage, Naming, Argument, Finish
  <2>3. emitted \in Seq(Event) /\ arrived' = arrived /\ torn' = torn
    BY <1>1 DEF Emit, BridgeInv, StreamInv
  <2>4. \A i \in 1..Len(emitted') : emitted'[i].n = i
    <3>1. \A i \in 1..Len(emitted') : emitted'[i] = IF i = Len(emitted) + 1 THEN e ELSE emitted[i]
      BY <2>1, <2>2, <2>3
    <3>2. \A i \in 1..Len(emitted') : i = Len(emitted) + 1 \/ i \in 1..Len(emitted)
      BY <2>1, <2>3
    <3> QED BY <2>2, <3>1, <3>2 DEF BridgeInv, StreamInv
  <2>5. arrived \in 0..Len(emitted')
    BY <2>1, <2>3 DEF BridgeInv, StreamInv
  <2>6. StreamInv'
    BY <2>1, <2>3, <2>4, <2>5 DEF BridgeInv, StreamInv
  <2>7. TapInv'
    BY <1>1 DEF Emit, BridgeInv, TapInv, KeptIsPrefix
  <2> QED BY <2>6, <2>7 DEF BridgeInv
<1>2. ASSUME NEW last \in 1..MaxEvents, NEW cut \in BOOLEAN, Deliver(last, cut) PROVE BridgeInv'
  <2>1. /\ last \in (arrived + 1)..Len(emitted)
        /\ Tap(TranslateLines(Lines(last, cut), calls).out)
        /\ calls' = TranslateLines(Lines(last, cut), calls).calls
        /\ arrived' = last /\ emitted' = emitted
        /\ torn' = IF cut THEN torn \cup {last} ELSE torn
    BY <1>2, DeliverIs DEF BridgeInv
  <2>2. Lines(last, cut) \in Seq(Event)
    BY <2>1, LinesAre DEF BridgeInv
  <2>3. TranslateLines(Lines(last, cut), calls) \in Accumulated
    BY <2>2, LinesType DEF BridgeInv, TapInv
  <2>4. /\ TranslateLines(Lines(last, cut), calls).out \in Seq(Output)
        /\ calls' \in Buffered
    BY <2>1, <2>3 DEF Accumulated
  <2>5. TapInv'
    BY <2>1, <2>4, TapKeepsPrefix DEF BridgeInv, TapInv
  <2>6. StreamInv'
    <3>1. emitted \in Seq(Event) /\ arrived \in 0..Len(emitted) /\ torn \subseteq 1..arrived
          /\ \A i \in 1..Len(emitted) : emitted[i].n = i
      BY DEF BridgeInv, StreamInv
    <3>2. Len(emitted) \in Nat
      BY <3>1
    <3>3. arrived' \in 0..Len(emitted) /\ torn' \subseteq 1..arrived'
      BY <2>1, <3>1, <3>2
    <3> QED BY <2>1, <3>1, <3>3 DEF StreamInv
  <2> QED BY <2>5, <2>6 DEF BridgeInv
<1>3. CASE UNCHANGED bridgeVars
  BY <1>3 DEF bridgeVars, BridgeInv, StreamInv, TapInv, KeptIsPrefix
<1> QED BY <1>1, <1>2, <1>3 DEF BridgeNext

(* What the response hook accounts is the start of what the client got, a    *)
(* whole number of chunks, within the limit (sse_tap.py:59-61).              *)
THEOREM PrefixIsKept == BridgeSpec => []KeptIsPrefix
<1>1. BridgeInit => BridgeInv
  BY BridgeAssumption, BridgeInitially
<1>2. BridgeInv /\ [BridgeNext]_bridgeVars => BridgeInv'
  BY BridgeAssumption, BridgeStep
<1>3. BridgeInv => KeptIsPrefix
  BY DEF BridgeInv, TapInv
<1> QED BY <1>1, <1>2, <1>3, PTL DEF BridgeSpec
-----------------------------------------------------------------------------
(* How the stream is cut into chunks does not matter *)

LEMMA TranslateShift ==
    ASSUME NEW acc \in Accumulated, NEW p \in Seq(Output), NEW e \in Event
    PROVE  Translate([calls |-> acc.calls, out |-> p \o acc.out], e)
               = [calls |-> Translate(acc, e).calls, out |-> p \o Translate(acc, e).out]
<1> DEFINE long == [calls |-> acc.calls, out |-> p \o acc.out]
           t == Translate(acc, e)
           u == Translate(long, e)
<1>1. /\ e.kind \in Kinds /\ acc.calls \in Buffered /\ acc.out \in Seq(Output)
      /\ acc = [calls |-> acc.calls, out |-> acc.out]
  BY DEF Event, Events, Accumulated
<1>2. long.calls = acc.calls /\ long.out = p \o acc.out
  OBVIOUS
<1>3. \A o : Append(p \o acc.out, o) = p \o Append(acc.out, o)
  <2>1. p \o acc.out \in Seq(Output)
    BY <1>1
  <2> QED BY <1>1
<1>4. SUFFICES u = [calls |-> t.calls, out |-> p \o t.out]
  OBVIOUS
<1>5. CASE e.kind = "text"
  <2>1. /\ t = [acc EXCEPT !.out = Append(@, Out("text", e.n, <<>>))]
        /\ u = [long EXCEPT !.out = Append(@, Out("text", e.n, <<>>))]
    BY <1>5 DEF Translate
  <2> HIDE DEF t, u
  <2> QED BY <1>1, <1>3, <2>1
<1>6. CASE e.kind = "name"
  <2>1. /\ t = [acc EXCEPT !.calls[e.index].name = e.n]
        /\ u = [long EXCEPT !.calls[e.index].name = e.n]
    BY <1>6 DEF Translate
  <2> HIDE DEF t, u
  <2> QED BY <1>1, <2>1
<1>7. CASE e.kind = "args"
  <2>1. /\ t = [acc EXCEPT !.calls[e.index].args = Append(@, e.n)]
        /\ u = [long EXCEPT !.calls[e.index].args = Append(@, e.n)]
    BY <1>7 DEF Translate
  <2> HIDE DEF t, u
  <2> QED BY <1>1, <2>1
<1>8. CASE e.kind = "tool_calls"
  <2>1. /\ t = [calls |-> NoCalls, out |-> Append(acc.out, Out("STOP", e.n, Flush(acc.calls)))]
        /\ u = [calls |-> NoCalls, out |-> Append(long.out, Out("STOP", e.n, Flush(long.calls)))]
    BY <1>8 DEF Translate
  <2> HIDE DEF t, u
  <2> QED BY <1>1, <1>2, <1>3, <2>1
<1>9. CASE e.kind = "stop"
  <2>1. /\ t = [acc EXCEPT !.out = Append(@, Out("STOP", e.n, <<>>))]
        /\ u = [long EXCEPT !.out = Append(@, Out("STOP", e.n, <<>>))]
    BY <1>9 DEF Translate
  <2> HIDE DEF t, u
  <2> QED BY <1>1, <1>3, <2>1
<1>10. CASE e.kind = "length"
  <2>1. /\ t = [acc EXCEPT !.out = Append(@, Out("MAX_TOKENS", e.n, <<>>))]
        /\ u = [long EXCEPT !.out = Append(@, Out("MAX_TOKENS", e.n, <<>>))]
    BY <1>10 DEF Translate
  <2> HIDE DEF t, u
  <2> QED BY <1>1, <1>3, <2>1
<1>11. CASE e.kind = "usage"
  <2>1. /\ t = [acc EXCEPT !.out = Append(@, Out("usage", e.n, <<>>))]
        /\ u = [long EXCEPT !.out = Append(@, Out("usage", e.n, <<>>))]
    BY <1>11 DEF Translate
  <2> HIDE DEF t, u
  <2> QED BY <1>1, <1>3, <2>1
<1> QED BY <1>1, <1>5, <1>6, <1>7, <1>8, <1>9, <1>10, <1>11 DEF Kinds, Reasons

LEMMA LinesNone ==
    ASSUME NEW begun \in Buffered
    PROVE  TranslateLines(<<>>, begun) = [calls |-> begun, out |-> <<>>]
<1>1. <<>> \in Seq(Event) /\ Len(<<>>) = 0
  OBVIOUS
<1> QED BY <1>1, LinesSoFarDef, LinesIsLast

LEMMA LinesAppend ==
    ASSUME NEW whole \in Seq(Event), NEW e \in Event, NEW begun \in Buffered
    PROVE  TranslateLines(Append(whole, e), begun) = Translate(TranslateLines(whole, begun), e)
<1> DEFINE t == Append(whole, e)
           k == LinesSoFar(whole, begun)
           l == LinesSoFar(t, begun)
<1>1. /\ t \in Seq(Event) /\ Len(t) = Len(whole) + 1 /\ Len(whole) \in Nat
      /\ \A n \in 1..Len(whole) : t[n] = whole[n]
      /\ t[Len(whole) + 1] = e
  OBVIOUS
<1> HIDE DEF t
<1>2. /\ k[0] = [calls |-> begun, out |-> <<>>]
      /\ \A n \in 1..Len(whole) : k[n] = Translate(k[n - 1], whole[n])
  BY LinesSoFarDef
<1>3. /\ l[0] = [calls |-> begun, out |-> <<>>]
      /\ \A n \in 1..Len(t) : l[n] = Translate(l[n - 1], t[n])
  BY <1>1, LinesSoFarDef
<1> HIDE DEF k, l
<1>4. k[Len(whole)] = l[Len(whole)]
  <2>1. \A n \in 1..Len(whole) : k[n - 1] = l[n - 1] => k[n] = l[n]
    BY <1>1, <1>2, <1>3
  <2>2. Len(whole) \in Nat /\ k[0] = l[0]
    BY <1>1, <1>2, <1>3
  <2>3. \A n \in 0..Len(whole) : k[n] = l[n]
    BY <2>1, <2>2, Agreement
  <2> QED BY <2>2, <2>3
<1>5. l[Len(t)] = Translate(l[Len(whole)], e)
  <2>1. Len(t) \in 1..Len(t) /\ Len(t) - 1 = Len(whole) /\ t[Len(t)] = e
    BY <1>1
  <2> QED BY <1>3, <2>1
<1> QED BY <1>4, <1>5, LinesIsLast DEF k, l, t

\* The first n events without those that were cut, in one piece.
Sound(cut) == Events(Kinds, Nat \ cut, Nat)
SoundOf(s, n, cut) == Keep(SubSeq(s, 1, n), Sound(cut))
ReadOf(s, n, cut) == TranslateLines(SoundOf(s, n, cut), NoCalls)

IsStream(s) == s \in Seq(Event) /\ \A i \in 1..Len(s) : s[i].n = i

LEMMA SoundNext ==
    ASSUME NEW s, IsStream(s), NEW n \in 1..Len(s), NEW cut
    PROVE  SoundOf(s, n, cut) = IF n \in cut THEN SoundOf(s, n - 1, cut)
                                ELSE Append(SoundOf(s, n - 1, cut), s[n])
<1> DEFINE u == SubSeq(s, 1, n - 1)
<1>1. s \in Seq(Event) /\ n - 1 \in 0..Len(s) /\ s[n] \in Event /\ s[n].n = n
  BY DEF IsStream
<1>2. u \in Seq(Event) /\ SubSeq(s, 1, n) = Append(u, s[n])
  BY <1>1, FirstOf, FirstNext
<1>3. (s[n] \in Sound(cut)) = (n \notin cut)
  BY <1>1 DEF Sound, Event, Events, Indices
<1> HIDE DEF u
<1>4. Keep(Append(u, s[n]), Sound(cut)) =
          IF s[n] \in Sound(cut) THEN Append(Keep(u, Sound(cut)), s[n]) ELSE Keep(u, Sound(cut))
  <2> DEFINE x == s[n]
             S == Sound(cut)
  <2>1. x \in Event /\ u \in Seq(Event)
    BY <1>1, <1>2
  <2> HIDE DEF x, S
  <2>2. Keep(Append(u, x), S) = IF x \in S THEN Append(Keep(u, S), x) ELSE Keep(u, S)
    BY <2>1, KeepAppend
  <2> QED BY <2>2 DEF x, S
<1> QED BY <1>2, <1>3, <1>4 DEF SoundOf, u

LEMMA SoundType ==
    ASSUME NEW s, IsStream(s), NEW n \in 0..Len(s), NEW cut
    PROVE  SoundOf(s, n, cut) \in Seq(Event) /\ SoundOf(s, 0, cut) = <<>>
<1>1. s \in Seq(Event)
  BY DEF IsStream
<1>2. SubSeq(s, 1, n) \in Seq(Event) /\ SubSeq(s, 1, 0) = <<>>
  BY <1>1, FirstOf, FirstNone
<1> QED BY <1>2, KeepType, KeepEmpty DEF SoundOf

LEMMA ReadNext ==
    ASSUME NEW s, IsStream(s), NEW n \in 1..Len(s), NEW cut
    PROVE  ReadOf(s, n, cut) = IF n \in cut THEN ReadOf(s, n - 1, cut)
                               ELSE Translate(ReadOf(s, n - 1, cut), s[n])
<1>1. s \in Seq(Event) /\ n - 1 \in 0..Len(s) /\ s[n] \in Event
  BY DEF IsStream
<1> DEFINE u == SoundOf(s, n - 1, cut)
<1>2. u \in Seq(Event)
  BY <1>1, SoundType
<1>3. SoundOf(s, n, cut) = IF n \in cut THEN u ELSE Append(u, s[n])
  BY SoundNext
<1> HIDE DEF u
<1>4. TranslateLines(Append(u, s[n]), NoCalls) = Translate(TranslateLines(u, NoCalls), s[n])
  BY <1>1, <1>2, NoCallsType, LinesAppend
<1> QED BY <1>3, <1>4 DEF ReadOf, u

LEMMA ReadType ==
    ASSUME NEW s, IsStream(s), NEW n \in 0..Len(s), NEW cut
    PROVE  /\ ReadOf(s, n, cut) \in Accumulated
           /\ ReadOf(s, 0, cut) = [calls |-> NoCalls, out |-> <<>>]
<1>1. SoundOf(s, n, cut) \in Seq(Event) /\ SoundOf(s, 0, cut) = <<>>
  BY SoundType
<1> QED BY <1>1, NoCallsType, LinesType, LinesNone DEF ReadOf

\* A cut beyond the first n events says nothing of them.
LEMMA ReadOfFirst ==
    ASSUME NEW s, IsStream(s), NEW n \in 0..Len(s), NEW cut, NEW more, cut \subseteq more,
           \A i \in 1..n : i \in more => i \in cut
    PROVE  ReadOf(s, n, more) = ReadOf(s, n, cut)
<1> DEFINE f == [i \in 0..n |-> ReadOf(s, i, more)]
           g == [i \in 0..n |-> ReadOf(s, i, cut)]
<1>1. n \in Nat /\ Len(s) \in Nat /\ 0 \in 0..Len(s) /\ n <= Len(s)
  BY DEF IsStream
<1>2. f[0] = g[0]
  BY <1>1, ReadType
<1>3. ASSUME NEW i \in 1..n, f[i - 1] = g[i - 1] PROVE f[i] = g[i]
  <2>1. i \in 1..Len(s) /\ i - 1 \in 0..n /\ i \in 0..n
    BY <1>1
  <2>2. ReadOf(s, i - 1, more) = ReadOf(s, i - 1, cut)
    BY <1>3, <2>1
  <2>3. (i \in more) = (i \in cut)
    OBVIOUS
  <2>4. ReadOf(s, i, more) = ReadOf(s, i, cut)
    BY <2>1, <2>2, <2>3, ReadNext
  <2> QED BY <2>1, <2>4
<1>4. \A i \in 0..n : f[i] = g[i]
  <2> HIDE DEF f, g
  <2>1. n \in Nat
    BY <1>1
  <2>2. \A i \in 1..n : f[i - 1] = g[i - 1] => f[i] = g[i]
    BY <1>3
  <2> QED BY <1>2, <2>1, <2>2, Agreement
<1> QED BY <1>1, <1>4

LEMMA ReadOfLonger ==
    ASSUME NEW s \in Seq(Event), NEW x \in Event, NEW n \in 0..Len(s), NEW cut
    PROVE  ReadOf(Append(s, x), n, cut) = ReadOf(s, n, cut)
BY FirstOfAppend DEF ReadOf, SoundOf

\* The chunks up to now, together, as if the whole events were one chunk.
ChunksDoNotMatter ==
    calls = ReadOf(emitted, arrived, torn).calls /\ received = ReadOf(emitted, arrived, torn).out

LEMMA DeliverAsOne ==
    ASSUME BridgeInv, ChunksDoNotMatter,
           NEW last \in (arrived + 1)..Len(emitted), NEW cut \in BOOLEAN,
           NEW after, after = IF cut THEN torn \cup {last} ELSE torn
    PROVE  /\ ReadOf(emitted, last, after).calls = TranslateLines(Lines(last, cut), calls).calls
           /\ ReadOf(emitted, last, after).out
                  = received \o TranslateLines(Lines(last, cut), calls).out
<1> DEFINE w == Lines(last, cut)
           k == LinesSoFar(w, calls)
           J == {j \in 0..Len(w) : ReadOf(emitted, arrived + j, after)
                     = [calls |-> k[j].calls, out |-> received \o k[j].out]}
<1>1. /\ IsStream(emitted) /\ emitted \in Seq(Event) /\ arrived \in 0..Len(emitted)
      /\ torn \subseteq 1..arrived /\ Len(emitted) \in Nat /\ arrived \in Nat
      /\ calls \in Buffered /\ received \in Seq(Output)
  BY DEF BridgeInv, StreamInv, TapInv, IsStream
<1>2. /\ w \in Seq(Event) /\ Len(w) = Top(last, cut) - arrived
      /\ Top(last, cut) \in arrived..Len(emitted) /\ Top(last, cut) <= last
      /\ \A j \in 1..Len(w) : w[j] = emitted[arrived + j]
  <2>1. StreamInv
    BY DEF BridgeInv
  <2>2. /\ w \in Seq(Event) /\ Len(w) = Top(last, cut) - arrived
        /\ Top(last, cut) \in arrived..Len(emitted) /\ Top(last, cut) <= last
        /\ \A j \in 1..(Top(last, cut) - arrived) : w[j] = emitted[arrived + j]
    BY <2>1, LinesAre
  <2> HIDE DEF w
  <2> QED BY <2>2
<1> HIDE DEF w
<1>3. /\ k \in [0..Len(w) -> Accumulated]
      /\ k[0] = [calls |-> calls, out |-> <<>>]
      /\ \A j \in 1..Len(w) : k[j] = Translate(k[j - 1], w[j])
  BY <1>1, <1>2, LinesSoFarDef
<1> HIDE DEF k
<1>4. Len(w) \in Nat /\ Top(last, cut) \in Nat
  BY <1>1, <1>2
<1>5. ReadOf(emitted, arrived, after) = ReadOf(emitted, arrived, torn)
  <2>1. torn \subseteq after /\ \A i \in 1..arrived : i \in after => i \in torn
    BY <1>1
  <2> QED BY <1>1, <2>1, ReadOfFirst
<1>6. 0 \in J
  <2>1. ReadOf(emitted, arrived, torn) \in Accumulated
    BY <1>1, ReadType
  <2>2. ReadOf(emitted, arrived, torn) = [calls |-> calls, out |-> received]
    BY <2>1 DEF ChunksDoNotMatter, Accumulated
  <2>3. received \o <<>> = received
    BY <1>1
  <2>4. arrived + 0 = arrived
    BY <1>1
  <2>5. k[0].calls = calls /\ k[0].out = <<>>
    BY <1>3
  <2>6. [calls |-> k[0].calls, out |-> received \o k[0].out] = [calls |-> calls, out |-> received]
    BY <2>3, <2>5
  <2>7. ReadOf(emitted, arrived + 0, after) = [calls |-> k[0].calls, out |-> received \o k[0].out]
    BY <1>5, <2>2, <2>4, <2>6
  <2>8. 0 \in 0..Len(w)
    BY <1>4
  <2> QED BY <2>7, <2>8
<1>7. ASSUME NEW j \in 1..Len(w), j - 1 \in J PROVE j \in J
  <2>1. /\ arrived + j \in 1..Len(emitted) /\ (arrived + j) - 1 = arrived + (j - 1)
        /\ j - 1 \in 0..Len(w) /\ j \in 0..Len(w) /\ arrived + j <= Top(last, cut)
    BY <1>1, <1>2, <1>4
  <2>2. arrived + j \notin after
    BY <1>1, <1>2, <2>1 DEF Top
  <2>3. ReadOf(emitted, arrived + j, after)
            = Translate(ReadOf(emitted, arrived + (j - 1), after), emitted[arrived + j])
    <3>1. ReadOf(emitted, arrived + j, after)
            = Translate(ReadOf(emitted, (arrived + j) - 1, after), emitted[arrived + j])
      BY <1>1, <2>1, <2>2, ReadNext
    <3> QED BY <2>1, <3>1
  <2>4. ReadOf(emitted, arrived + (j - 1), after)
            = [calls |-> k[j - 1].calls, out |-> received \o k[j - 1].out]
    BY <1>7
  <2>5. k[j - 1] \in Accumulated /\ w[j] \in Event
    BY <1>2, <1>3, <2>1
  <2>6. Translate([calls |-> k[j - 1].calls, out |-> received \o k[j - 1].out], w[j])
            = [calls |-> Translate(k[j - 1], w[j]).calls,
               out |-> received \o Translate(k[j - 1], w[j]).out]
    BY <1>1, <2>5, TranslateShift
  <2>7. w[j] = emitted[arrived + j] /\ k[j] = Translate(k[j - 1], w[j])
    BY <1>2, <1>3
  <2> QED BY <2>1, <2>3, <2>4, <2>6, <2>7
<1>8. Len(w) \in J
  <2>1. \A j \in 1..Len(w) : j - 1 \in J => j \in J
    BY <1>7
  <2>2. \A j \in 0..Len(w) : j \in J
    <3> HIDE DEF J
    <3> QED BY <1>4, <1>6, <2>1, BoundedInduction
  <2> HIDE DEF J
  <2> QED BY <1>4, <2>2
<1>9. ReadOf(emitted, Top(last, cut), after)
          = [calls |-> k[Len(w)].calls, out |-> received \o k[Len(w)].out]
  <2>1. arrived + Len(w) = Top(last, cut)
    BY <1>1, <1>2, <1>4
  <2> QED BY <1>8, <2>1
<1>10. ReadOf(emitted, last, after) = ReadOf(emitted, Top(last, cut), after)
  <2>1. CASE cut
    <3>1. last \in after /\ last \in 1..Len(emitted) /\ Top(last, cut) = last - 1
      BY <1>1, <2>1 DEF Top
    <3> QED BY <1>1, <3>1, ReadNext
  <2>2. CASE ~cut
    <3>1. Top(last, cut) = last
      BY <1>1, <2>2 DEF Top
    <3> QED BY <3>1
  <2> QED BY <2>1, <2>2
<1>11. TranslateLines(w, calls) = k[Len(w)]
  BY LinesIsLast DEF k
<1>12. ReadOf(emitted, last, after)
           = [calls |-> TranslateLines(w, calls).calls, out |-> received \o TranslateLines(w, calls).out]
  BY <1>9, <1>10, <1>11
<1>13. /\ ReadOf(emitted, last, after).calls = TranslateLines(w, calls).calls
       /\ ReadOf(emitted, last, after).out = received \o TranslateLines(w, calls).out
  <2> DEFINE c == TranslateLines(w, calls).calls
             o == received \o TranslateLines(w, calls).out
             r == ReadOf(emitted, last, after)
  <2>1. r = [calls |-> c, out |-> o]
    BY <1>12, Zenon
  <2> HIDE DEF J, c, o, r
  <2>2. r.calls = c /\ r.out = o
    BY <2>1
  <2> QED BY <2>2, Zenon DEF c, o, r
<1> HIDE DEF J
<1> QED BY <1>13, Zenon DEF w

LEMMA ChunkInitially == ASSUME BridgeAssumption, BridgeInit PROVE ChunksDoNotMatter
<1>1. IsStream(<<>>) /\ 0 \in 0..Len(<<>>)
  BY DEF IsStream
<1>2. ReadOf(<<>>, 0, {}) = [calls |-> NoCalls, out |-> <<>>]
  BY <1>1, ReadType
<1> QED BY <1>2 DEF BridgeInit, ChunksDoNotMatter

LEMMA ChunkStep ==
    ASSUME BridgeAssumption, BridgeInv, ChunksDoNotMatter, [BridgeNext]_bridgeVars
    PROVE  ChunksDoNotMatter'
<1>1. CASE Emit
  <2>1. PICK e \in Event : emitted' = Append(emitted, e)
    <3>1. emitted' \in Seq(Event) /\ Len(emitted') = Len(emitted) + 1
      BY <1>1, EmitType DEF BridgeInv, StreamInv
    <3>2. PICK e : emitted' = Append(emitted, e)
      BY <1>1 DEF Emit
    <3>3. emitted'[Len(emitted) + 1] = e /\ Len(emitted) + 1 \in 1..Len(emitted')
      BY <3>1, <3>2 DEF BridgeInv, StreamInv
    <3>4. e \in Event
      <4> DEFINE E == Event
      <4>1. emitted' \in Seq(E)
        BY <3>1
      <4> HIDE DEF E
      <4>2. emitted'[Len(emitted) + 1] \in E
        BY <3>3, <4>1
      <4> QED BY <3>3, <4>2 DEF E
    <3> QED BY <3>2, <3>4
  <2>2. ReadOf(Append(emitted, e), arrived, torn) = ReadOf(emitted, arrived, torn)
    BY ReadOfLonger DEF BridgeInv, StreamInv
  <2>3. UNCHANGED <<arrived, torn, calls, received>>
    BY <1>1 DEF Emit
  <2> QED BY <2>1, <2>2, <2>3 DEF ChunksDoNotMatter
<1>2. ASSUME NEW last \in 1..MaxEvents, NEW cut \in BOOLEAN, Deliver(last, cut)
      PROVE  ChunksDoNotMatter'
  <2>1. /\ last \in (arrived + 1)..Len(emitted)
        /\ Tap(TranslateLines(Lines(last, cut), calls).out)
        /\ calls' = TranslateLines(Lines(last, cut), calls).calls
        /\ arrived' = last /\ emitted' = emitted
        /\ torn' = IF cut THEN torn \cup {last} ELSE torn
    BY <1>2, DeliverIs DEF BridgeInv
  <2>2. received' = received \o TranslateLines(Lines(last, cut), calls).out
    BY <2>1 DEF Tap
  <2>3. /\ ReadOf(emitted, last, torn').calls = TranslateLines(Lines(last, cut), calls).calls
        /\ ReadOf(emitted, last, torn').out
               = received \o TranslateLines(Lines(last, cut), calls).out
    BY <2>1, DeliverAsOne
  <2> QED BY <2>1, <2>2, <2>3 DEF ChunksDoNotMatter
<1>3. CASE UNCHANGED bridgeVars
  BY <1>3 DEF bridgeVars, ChunksDoNotMatter
<1> QED BY <1>1, <1>2, <1>3 DEF BridgeNext

(* However the network cuts the stream, what the client has and what the     *)
(* stream's state holds are those of the whole events translated in one      *)
(* piece (translation.py:416-433): the chunks leave no trace but the events  *)
(* they cut.                                                                 *)
THEOREM StreamIsReadAsOne == BridgeSpec => []ChunksDoNotMatter
<1>1. BridgeInit => BridgeInv /\ ChunksDoNotMatter
  BY BridgeAssumption, BridgeInitially, ChunkInitially
<1>2. BridgeInv /\ ChunksDoNotMatter /\ [BridgeNext]_bridgeVars => (BridgeInv /\ ChunksDoNotMatter)'
  BY BridgeAssumption, BridgeStep, ChunkStep
<1> QED BY <1>1, <1>2, PTL DEF BridgeSpec
-----------------------------------------------------------------------------
(* The texts *)

TextOutputs == [kind : {"text"}, n : Nat, calls : {<<>>}]
TextEvents == Events({"text"}, Nat, Nat)

LEMMA NumbersAppend ==
    ASSUME NEW T, \A x \in T : x.n \in Nat, NEW s \in Seq(T), NEW x \in T
    PROVE  /\ NumbersOf(s) \in Seq(Nat) /\ Len(NumbersOf(s)) = Len(s)
           /\ NumbersOf(Append(s, x)) = Append(NumbersOf(s), x.n)
<1> DEFINE t == Append(s, x)
           a == NumbersOf(s)
           b == NumbersOf(t)
<1>1. /\ DOMAIN s = 1..Len(s) /\ Len(s) \in Nat /\ \A i \in 1..Len(s) : s[i] \in T
      /\ t \in Seq(T) /\ DOMAIN t = 1..(Len(s) + 1) /\ \A i \in 1..Len(s) : t[i] = s[i]
      /\ t[Len(s) + 1] = x
  OBVIOUS
<1>2. a = [i \in 1..Len(s) |-> s[i].n] /\ a \in [1..Len(s) -> Nat]
  BY <1>1 DEF NumbersOf
<1>3. a \in Seq(Nat) /\ Len(a) = Len(s)
  <2>1. a \in Seq(Nat)
    BY <1>1, <1>2, FunctionIsSeq
  <2> QED BY <1>1, <1>2, <2>1
<1>4. b = [i \in 1..(Len(s) + 1) |-> t[i].n]
  BY <1>1 DEF NumbersOf
<1>5. Append(a, x.n) = [i \in 1..(Len(s) + 1) |-> t[i].n]
  <2> HIDE DEF t
  <2> QED BY <1>1, <1>2, <1>3
<1> QED BY <1>3, <1>4, <1>5

LEMMA NumbersNone == NumbersOf(<<>>) = <<>>
BY DEF NumbersOf

\* What an event adds to the output.
LEMMA TranslateOut ==
    ASSUME NEW acc \in Accumulated, NEW e \in Event
    PROVE  /\ e.kind \in {"name", "args"} => Translate(acc, e).out = acc.out
           /\ e.kind \notin {"name", "args"} =>
                \E o \in Output : /\ Translate(acc, e).out = Append(acc.out, o)
                                 /\ o.n = e.n /\ (o.kind = "text") = (e.kind = "text")
                                 /\ o.calls = IF e.kind = "tool_calls" THEN Flush(acc.calls) ELSE <<>>
<1>1. /\ e.kind \in Kinds /\ e.n \in Nat /\ acc.calls \in Buffered /\ acc.out \in Seq(Output)
      /\ acc = [calls |-> acc.calls, out |-> acc.out]
  BY DEF Event, Events, Accumulated
<1>2. ASSUME NEW k \in {"text", "STOP", "MAX_TOKENS", "usage"},
             NEW c \in {Flush(b) : b \in Buffered} \cup {<<>>}
      PROVE  /\ Out(k, e.n, c) \in Output /\ Out(k, e.n, c).n = e.n
             /\ Out(k, e.n, c).kind = k /\ Out(k, e.n, c).calls = c
  BY <1>1 DEF Out, Output
<1>3. Flush(acc.calls) \in {Flush(b) : b \in Buffered}
  BY <1>1
<1>4. CASE e.kind = "text"
  <2>1. Translate(acc, e) = [acc EXCEPT !.out = Append(@, Out("text", e.n, <<>>))]
    BY <1>4 DEF Translate
  <2>2. Translate(acc, e).out = Append(acc.out, Out("text", e.n, <<>>))
    BY <1>1, <2>1
  <2> QED BY <1>2, <1>4, <2>2
<1>5. CASE e.kind = "name"
  <2>1. Translate(acc, e) = [acc EXCEPT !.calls[e.index].name = e.n]
    BY <1>5 DEF Translate
  <2> QED BY <1>1, <1>5, <2>1
<1>6. CASE e.kind = "args"
  <2>1. Translate(acc, e) = [acc EXCEPT !.calls[e.index].args = Append(@, e.n)]
    BY <1>6 DEF Translate
  <2> QED BY <1>1, <1>6, <2>1
<1>7. CASE e.kind = "tool_calls"
  <2>1. Translate(acc, e) = [calls |-> NoCalls, out |-> Append(acc.out, Out("STOP", e.n, Flush(acc.calls)))]
    BY <1>7 DEF Translate
  <2>2. Translate(acc, e).out = Append(acc.out, Out("STOP", e.n, Flush(acc.calls)))
    BY <2>1
  <2> QED BY <1>2, <1>3, <1>7, <2>2
<1>8. CASE e.kind = "stop"
  <2>1. Translate(acc, e) = [acc EXCEPT !.out = Append(@, Out("STOP", e.n, <<>>))]
    BY <1>8 DEF Translate
  <2>2. Translate(acc, e).out = Append(acc.out, Out("STOP", e.n, <<>>))
    BY <1>1, <2>1
  <2> QED BY <1>2, <1>8, <2>2
<1>9. CASE e.kind = "length"
  <2>1. Translate(acc, e) = [acc EXCEPT !.out = Append(@, Out("MAX_TOKENS", e.n, <<>>))]
    BY <1>9 DEF Translate
  <2>2. Translate(acc, e).out = Append(acc.out, Out("MAX_TOKENS", e.n, <<>>))
    BY <1>1, <2>1
  <2> QED BY <1>2, <1>9, <2>2
<1>10. CASE e.kind = "usage"
  <2>1. Translate(acc, e) = [acc EXCEPT !.out = Append(@, Out("usage", e.n, <<>>))]
    BY <1>10 DEF Translate
  <2>2. Translate(acc, e).out = Append(acc.out, Out("usage", e.n, <<>>))
    BY <1>1, <2>1
  <2> QED BY <1>2, <1>10, <2>2
<1> QED BY <1>1, <1>4, <1>5, <1>6, <1>7, <1>8, <1>9, <1>10 DEF Kinds, Reasons

LEMMA TextsAreTranslated ==
    ASSUME NEW w \in Seq(Event)
    PROVE  NumbersOf(Keep(TranslateLines(w, NoCalls).out, TextOutputs)) = NumbersOf(Keep(w, TextEvents))
<1> DEFINE S == {v \in Seq(Event) : NumbersOf(Keep(TranslateLines(v, NoCalls).out, TextOutputs))
                                        = NumbersOf(Keep(v, TextEvents))}
<1>1. <<>> \in S
  <2>1. <<>> \in Seq(Event)
    OBVIOUS
  <2>2. TranslateLines(<<>>, NoCalls).out = <<>>
    BY LinesNone, NoCallsType
  <2> QED BY <2>1, <2>2, KeepEmpty
<1>2. ASSUME NEW v \in Seq(Event), NEW e \in Event, v \in S PROVE Append(v, e) \in S
  <2> DEFINE acc == TranslateLines(v, NoCalls)
             kept1 == Keep(acc.out, TextOutputs)
             kept2 == Keep(v, TextEvents)
  <2>1. acc \in Accumulated /\ acc.out \in Seq(Output) /\ Append(v, e) \in Seq(Event)
    BY NoCallsType, LinesType DEF Accumulated
  <2>2. TranslateLines(Append(v, e), NoCalls) = Translate(acc, e)
    BY NoCallsType, LinesAppend
  <2>3. kept1 \in Seq(Output) /\ kept2 \in Seq(Event)
    BY <2>1, KeepType
  <2>4. (\A x \in Output : x.n \in Nat) /\ (\A x \in Event : x.n \in Nat)
    BY DEF Output, Event, Events
  <2>5. Keep(Append(v, e), TextEvents) = IF e \in TextEvents THEN Append(kept2, e) ELSE kept2
    BY KeepAppend
  <2>6. (e \in TextEvents) = (e.kind = "text")
    BY DEF TextEvents, Events, Event, Indices
  <2>7. NumbersOf(kept1) = NumbersOf(kept2)
    BY <1>2
  <2>8. CASE e.kind \in {"name", "args"}
    <3>1. Translate(acc, e).out = acc.out /\ e \notin TextEvents
      BY <2>1, <2>6, <2>8, TranslateOut
    <3> QED BY <2>1, <2>2, <2>5, <2>7, <3>1
  <2>9. CASE e.kind \notin {"name", "args"}
    <3> HIDE DEF acc
    <3>1. PICK o \in Output : /\ Translate(acc, e).out = Append(acc.out, o)
                             /\ o.n = e.n /\ (o.kind = "text") = (e.kind = "text")
                             /\ o.calls = IF e.kind = "tool_calls" THEN Flush(acc.calls) ELSE <<>>
      BY <2>1, <2>9, TranslateOut
    <3>2. (o \in TextOutputs) = (e \in TextEvents)
      BY <2>6, <3>1 DEF TextOutputs, Output
    <3>3. Keep(Append(acc.out, o), TextOutputs) = IF o \in TextOutputs THEN Append(kept1, o) ELSE kept1
      <4> DEFINE u == acc.out
      <4>1. u \in Seq(Output)
        BY <2>1
      <4> HIDE DEF u
      <4>2. Keep(Append(u, o), TextOutputs) =
                IF o \in TextOutputs THEN Append(Keep(u, TextOutputs), o) ELSE Keep(u, TextOutputs)
        BY <4>1, KeepAppend
      <4> QED BY <4>2 DEF u
    <3> HIDE DEF kept1, kept2
    <3>4. NumbersOf(Append(kept1, o)) = Append(NumbersOf(kept1), o.n)
      <4> DEFINE T == Output
      <4>1. kept1 \in Seq(T) /\ o \in T /\ \A x \in T : x.n \in Nat
        BY <2>3, <2>4
      <4> HIDE DEF T
      <4> QED BY <4>1, NumbersAppend
    <3>5. NumbersOf(Append(kept2, e)) = Append(NumbersOf(kept2), e.n)
      <4> DEFINE T == Event
      <4>1. kept2 \in Seq(T) /\ e \in T /\ \A x \in T : x.n \in Nat
        BY <2>3, <2>4
      <4> HIDE DEF T
      <4> QED BY <4>1, NumbersAppend
    <3>6. NumbersOf(Keep(Append(acc.out, o), TextOutputs)) = NumbersOf(Keep(Append(v, e), TextEvents))
      BY <2>5, <2>7, <3>1, <3>2, <3>3, <3>4, <3>5
    <3> QED BY <2>1, <2>2, <3>1, <3>6
  <2> QED BY <2>8, <2>9
<1>3. Seq(Event) \subseteq S
  <2> HIDE DEF S
  <2> QED BY <1>1, <1>2, SequenceInduction
<1> QED BY <1>3

LEMMA TextsCome == ASSUME BridgeInv, ChunksDoNotMatter PROVE TextsInOrder
<1>1. IsStream(emitted) /\ arrived \in 0..Len(emitted)
  BY DEF BridgeInv, StreamInv, IsStream
<1>2. Whole = SoundOf(emitted, arrived, torn)
  BY DEF Whole, Delivered, SoundOf, Sound
<1>3. Whole \in Seq(Event)
  BY <1>1, <1>2, SoundType
<1>4. received = TranslateLines(Whole, NoCalls).out
  BY <1>2 DEF ChunksDoNotMatter, ReadOf
<1> QED BY <1>3, <1>4, TextsAreTranslated DEF TextsInOrder, TextOutputs, TextEvents
-----------------------------------------------------------------------------
(* The calls *)

LEMMA TranslateCalls ==
    ASSUME NEW acc \in Accumulated, NEW e \in Event
    PROVE  Translate(acc, e).calls =
               IF e.kind = "name" THEN [acc.calls EXCEPT ![e.index].name = e.n]
               ELSE IF e.kind = "args" THEN [acc.calls EXCEPT ![e.index].args = Append(@, e.n)]
               ELSE IF e.kind = "tool_calls" THEN NoCalls ELSE acc.calls
<1>1. e.kind \in Kinds /\ acc = [calls |-> acc.calls, out |-> acc.out]
  BY DEF Event, Events, Accumulated
<1>2. CASE e.kind = "name"
  <2>1. Translate(acc, e) = [acc EXCEPT !.calls[e.index].name = e.n]
    BY <1>2 DEF Translate
  <2> QED BY <1>1, <1>2, <2>1
<1>3. CASE e.kind = "args"
  <2>1. Translate(acc, e) = [acc EXCEPT !.calls[e.index].args = Append(@, e.n)]
    BY <1>3 DEF Translate
  <2> QED BY <1>1, <1>3, <2>1
<1>4. CASE e.kind = "tool_calls"
  <2>1. Translate(acc, e) = [calls |-> NoCalls, out |-> Append(acc.out, Out("STOP", e.n, Flush(acc.calls)))]
    BY <1>4 DEF Translate
  <2>2. Translate(acc, e).calls = NoCalls
    BY <2>1
  <2> QED BY <1>4, <2>2
<1>5. CASE e.kind \in {"text", "stop", "length", "usage"}
  <2>1. PICK o : Translate(acc, e) = [acc EXCEPT !.out = o]
    BY <1>5 DEF Translate
  <2> QED BY <1>1, <1>5, <2>1
<1> QED BY <1>1, <1>2, <1>3, <1>4, <1>5 DEF Kinds, Reasons

LEMMA PiecesAppend ==
    ASSUME NEW u \in Seq(Event), NEW e \in Event, NEW i \in Indices, NEW kind
    PROVE  /\ Pieces(u, i, kind) \in Seq(Event)
           /\ Pieces(Append(u, e), i, kind) =
                  IF e.kind = kind /\ e.index = i THEN Append(Pieces(u, i, kind), e)
                  ELSE Pieces(u, i, kind)
<1> DEFINE S == Events({kind}, Nat, {i})
<1>1. (e \in S) = (e.kind = kind /\ e.index = i)
  BY DEF Event, Events
<1>2. Pieces(u, i, kind) = Keep(u, S) /\ Pieces(Append(u, e), i, kind) = Keep(Append(u, e), S)
  BY DEF Pieces
<1> HIDE DEF S
<1> QED BY <1>1, <1>2, KeepAppend, KeepType

LEMMA PiecesNumbers ==
    ASSUME NEW u \in Seq(Event), NEW e \in Event, NEW i \in Indices, NEW kind
    PROVE  NumbersOf(Append(Pieces(u, i, kind), e)) = Append(NumbersOf(Pieces(u, i, kind)), e.n)
<1> DEFINE T == Event
           v == Pieces(u, i, kind)
<1>1. v \in Seq(T) /\ e \in T
  BY PiecesAppend
<1>2. \A x \in T : x.n \in Nat
  BY DEF Event, Events
<1> HIDE DEF T, v
<1>3. NumbersOf(Append(v, e)) = Append(NumbersOf(v), e.n)
  BY <1>1, <1>2, NumbersAppend
<1> QED BY <1>3 DEF v

SoundNaming(s, n, cut, i, j) ==
    j \in 1..n /\ j \notin cut /\ s[j].kind = "name" /\ s[j].index = i

\* What is buffered of call i after the first n events.
CallSoFar(s, n, cut, i) ==
    LET c == ReadOf(s, n, cut).calls[i] IN
    /\ c.args = NumbersOf(Pieces(SoundOf(s, n, cut), i, "args"))
    /\ c.name = 0 => \A j \in 1..n : ~SoundNaming(s, n, cut, i, j)
    /\ c.name # 0 => SoundNaming(s, n, cut, i, c.name)

NoReason(s, n) == \A j \in 1..n : s[j].kind \notin Reasons

LEMMA CallNext ==
    ASSUME NEW s, IsStream(s), NEW n \in 1..Len(s), NEW cut, NEW i \in Indices,
           s[n].kind \notin Reasons, CallSoFar(s, n - 1, cut, i)
    PROVE  CallSoFar(s, n, cut, i)
<1> DEFINE acc == ReadOf(s, n - 1, cut)
           u == SoundOf(s, n - 1, cut)
           e == s[n]
<1>1. /\ n \in Nat /\ n # 0 /\ n - 1 \in 0..Len(s) /\ e \in Event /\ e.n = n
      /\ e.kind \in Kinds /\ e.index \in Indices
  <2>1. n \in Nat /\ n # 0 /\ n - 1 \in 0..Len(s) /\ e \in Event /\ e.n = n
    BY DEF IsStream
  <2> HIDE DEF e
  <2> QED BY <2>1 DEF Event, Events
<1>2. acc \in Accumulated /\ u \in Seq(Event)
  BY <1>1, ReadType, SoundType
<1>3. /\ acc.calls[i].args = NumbersOf(Pieces(u, i, "args"))
      /\ acc.calls[i].name = 0 => \A j \in 1..(n - 1) : ~SoundNaming(s, n - 1, cut, i, j)
      /\ acc.calls[i].name # 0 => SoundNaming(s, n - 1, cut, i, acc.calls[i].name)
  BY DEF CallSoFar
<1>4. \A j : SoundNaming(s, n, cut, i, j) <=>
          \/ SoundNaming(s, n - 1, cut, i, j)
          \/ j = n /\ n \notin cut /\ e.kind = "name" /\ e.index = i
  BY <1>1 DEF SoundNaming
<1>5. CASE n \in cut
  <2>1. ReadOf(s, n, cut) = acc /\ SoundOf(s, n, cut) = u
    BY <1>5, ReadNext, SoundNext
  <2>2. \A j : SoundNaming(s, n, cut, i, j) <=> SoundNaming(s, n - 1, cut, i, j)
    BY <1>4, <1>5
  <2>3. \A j \in 1..n : SoundNaming(s, n - 1, cut, i, j) => j \in 1..(n - 1)
    BY DEF SoundNaming
  <2> HIDE DEF acc, u
  <2> QED BY <1>3, <2>1, <2>2, <2>3 DEF CallSoFar
<1>6. CASE n \notin cut
  <2>1. ReadOf(s, n, cut) = Translate(acc, e) /\ SoundOf(s, n, cut) = Append(u, e)
    BY <1>6, ReadNext, SoundNext
  <2> HIDE DEF acc, u, e
  <2>2. Pieces(Append(u, e), i, "args") =
            IF e.kind = "args" /\ e.index = i THEN Append(Pieces(u, i, "args"), e)
            ELSE Pieces(u, i, "args")
    BY <1>1, <1>2, PiecesAppend
  <2>3. NumbersOf(Append(Pieces(u, i, "args"), e)) = Append(NumbersOf(Pieces(u, i, "args")), n)
    BY <1>1, <1>2, PiecesNumbers
  <2>4. Translate(acc, e).calls =
            IF e.kind = "name" THEN [acc.calls EXCEPT ![e.index].name = n]
            ELSE IF e.kind = "args" THEN [acc.calls EXCEPT ![e.index].args = Append(@, n)]
            ELSE acc.calls
    BY <1>1, <1>2, TranslateCalls DEF Reasons, e
  <2>5. acc.calls \in [Indices -> [name : Nat, args : Seq(Nat)]]
    BY <1>2 DEF Accumulated, Buffered
  <2> DEFINE c == Translate(acc, e).calls[i]
  <2>6. c.args = IF e.kind = "args" /\ e.index = i THEN Append(acc.calls[i].args, n)
                 ELSE acc.calls[i].args
    BY <1>1, <2>4, <2>5
  <2>7. c.name = IF e.kind = "name" /\ e.index = i THEN n ELSE acc.calls[i].name
    BY <1>1, <2>4, <2>5
  <2> HIDE DEF c
  <2>8. c.args = NumbersOf(Pieces(Append(u, e), i, "args"))
    BY <1>3, <2>2, <2>3, <2>6
  <2>9. c.name = 0 => \A j \in 1..n : ~SoundNaming(s, n, cut, i, j)
    <3>1. \A j : SoundNaming(s, n - 1, cut, i, j) => j \in 1..(n - 1)
      BY DEF SoundNaming
    <3> QED BY <1>1, <1>3, <1>4, <2>7, <3>1
  <2>10. c.name # 0 => SoundNaming(s, n, cut, i, c.name)
    BY <1>3, <1>4, <1>6, <2>7
  <2> QED BY <2>1, <2>8, <2>9, <2>10 DEF CallSoFar, c
<1> QED BY <1>5, <1>6

LEMMA CallsSoFar ==
    ASSUME NEW s, IsStream(s), NEW n \in 0..Len(s), NEW cut, NEW i \in Indices, NoReason(s, n)
    PROVE  CallSoFar(s, n, cut, i)
<1> DEFINE R == {m \in 0..n : CallSoFar(s, m, cut, i)}
<1>1. n \in Nat /\ Len(s) \in Nat /\ n <= Len(s)
  BY DEF IsStream
<1>2. 0 \in R
  <2>1. 0 \in 0..Len(s)
    BY <1>1
  <2>2. ReadOf(s, 0, cut) = [calls |-> NoCalls, out |-> <<>>] /\ SoundOf(s, 0, cut) = <<>>
    BY <2>1, ReadType, SoundType
  <2>3. NoCalls[i].args = <<>> /\ NoCalls[i].name = 0
    BY DEF NoCalls, NoCall
  <2>4. NumbersOf(Pieces(<<>>, i, "args")) = <<>>
    BY KeepEmpty, NumbersNone DEF Pieces
  <2>5. CallSoFar(s, 0, cut, i)
    BY <2>2, <2>3, <2>4 DEF CallSoFar
  <2> QED BY <1>1, <2>5
<1>3. ASSUME NEW m \in 1..n, m - 1 \in R PROVE m \in R
  <2>1. m \in 1..Len(s) /\ m \in 0..n /\ s[m].kind \notin Reasons
    BY <1>1 DEF NoReason
  <2> QED BY <1>3, <2>1, CallNext
<1>4. \A m \in 0..n : m \in R
  <2> HIDE DEF R
  <2> QED BY <1>1, <1>2, <1>3, BoundedInduction
<1> QED BY <1>1, <1>4

\* An output is of one event, that was not cut; calls come with tool_calls only,
\* and are those that were buffered before it.
IsOutput(s, n, cut, o) ==
    /\ o.n \in 1..n /\ o.n \notin cut
    /\ o.calls = IF s[o.n].kind = "tool_calls" THEN Flush(ReadOf(s, o.n - 1, cut).calls) ELSE <<>>

OutputsSoFar(s, n, cut) ==
    \A i \in 1..Len(ReadOf(s, n, cut).out) : IsOutput(s, n, cut, ReadOf(s, n, cut).out[i])

LEMMA OutputNext ==
    ASSUME NEW s, IsStream(s), NEW n \in 1..Len(s), NEW cut, OutputsSoFar(s, n - 1, cut)
    PROVE  OutputsSoFar(s, n, cut)
<1> DEFINE acc == ReadOf(s, n - 1, cut)
           e == s[n]
           r == acc.out
<1>1. n \in Nat /\ n # 0 /\ n - 1 \in 0..Len(s) /\ e \in Event /\ e.n = n
  BY DEF IsStream
<1>2. acc \in Accumulated
  BY <1>1, ReadType
<1>3. r \in Seq(Output)
  <2> HIDE DEF acc
  <2> QED BY <1>2 DEF Accumulated
<1>4. \A i \in 1..Len(r) : IsOutput(s, n - 1, cut, r[i])
  BY DEF OutputsSoFar
<1>5. \A o : IsOutput(s, n - 1, cut, o) => IsOutput(s, n, cut, o)
  BY <1>1 DEF IsOutput
<1>6. CASE n \in cut
  <2>1. ReadOf(s, n, cut) = acc
    BY <1>6, ReadNext
  <2> QED BY <1>4, <1>5, <2>1 DEF OutputsSoFar
<1>7. CASE n \notin cut
  <2>1. ReadOf(s, n, cut) = Translate(acc, e)
    BY <1>7, ReadNext
  <2>2. CASE e.kind \in {"name", "args"}
    <3>1. Translate(acc, e).out = r
      <4> HIDE DEF acc, e
      <4> QED BY <1>1, <1>2, <2>2, TranslateOut
    <3> QED BY <1>4, <1>5, <2>1, <3>1 DEF OutputsSoFar
  <2>3. CASE e.kind \notin {"name", "args"}
    <3>1. PICK o \in Output : /\ Translate(acc, e).out = Append(r, o)
                             /\ o.n = e.n /\ (o.kind = "text") = (e.kind = "text")
                             /\ o.calls = IF e.kind = "tool_calls" THEN Flush(acc.calls) ELSE <<>>
      <4> HIDE DEF acc, e
      <4> QED BY <1>1, <1>2, <2>3, TranslateOut
    <3>2. IsOutput(s, n, cut, o)
      BY <1>1, <1>7, <3>1 DEF IsOutput
    <3>3. Len(Append(r, o)) = Len(r) + 1 /\ Len(r) \in Nat
          /\ \A i \in 1..(Len(r) + 1) : Append(r, o)[i] = IF i = Len(r) + 1 THEN o ELSE r[i]
      <4> HIDE DEF r
      <4> QED BY <1>3
    <3>4. \A i \in 1..(Len(r) + 1) : i = Len(r) + 1 \/ i \in 1..Len(r)
      BY <3>3
    <3>5. \A i \in 1..(Len(r) + 1) : IsOutput(s, n, cut, Append(r, o)[i])
      <4> HIDE DEF r
      <4> QED BY <1>4, <1>5, <3>2, <3>3, <3>4
    <3> HIDE DEF r, acc, e
    <3> QED BY <2>1, <3>1, <3>3, <3>5 DEF OutputsSoFar
  <2> QED BY <2>2, <2>3
<1> QED BY <1>6, <1>7

LEMMA OutputsAre ==
    ASSUME NEW s, IsStream(s), NEW n \in 0..Len(s), NEW cut
    PROVE  OutputsSoFar(s, n, cut)
<1> DEFINE R == {m \in 0..n : OutputsSoFar(s, m, cut)}
<1>1. n \in Nat /\ Len(s) \in Nat /\ n <= Len(s)
  BY DEF IsStream
<1>2. 0 \in R
  <2>1. 0 \in 0..Len(s)
    BY <1>1
  <2>2. ReadOf(s, 0, cut) = [calls |-> NoCalls, out |-> <<>>]
    BY <2>1, ReadType
  <2> QED BY <1>1, <2>2 DEF OutputsSoFar
<1>3. ASSUME NEW m \in 1..n, m - 1 \in R PROVE m \in R
  BY <1>1, <1>3, OutputNext
<1>4. \A m \in 0..n : m \in R
  <2> HIDE DEF R
  <2> QED BY <1>1, <1>2, <1>3, BoundedInduction
<1> QED BY <1>1, <1>4

\* What the model server keeps to: one name for each call, and after the reason
\* nothing but the usage.
Grammar(s) ==
    /\ \A j, k \in 1..Len(s) :
          s[j].kind = "name" /\ s[k].kind = "name" /\ s[j].index = s[k].index => j = k
    /\ \A j, k \in 1..Len(s) : j < k /\ s[j].kind \in Reasons => s[k].kind = "usage"

LEMMA GrammarStep ==
    ASSUME emitted \in Seq(Event), Grammar(emitted), Emit
    PROVE  Grammar(emitted')
<1> DEFINE s == emitted
           t == emitted'
<1>1. PICK e : /\ t = Append(s, e)
               /\ (e.kind = "usage") = Finished
               /\ e.kind = "name" => ~Named(e.index)
  BY DEF Emit
<1>2. /\ Len(t) = Len(s) + 1 /\ Len(s) \in Nat /\ DOMAIN s = 1..Len(s)
      /\ \A i \in 1..Len(t) : t[i] = IF i = Len(s) + 1 THEN e ELSE s[i]
      /\ \A i \in 1..Len(t) : i = Len(s) + 1 \/ i \in 1..Len(s)
  BY <1>1
<1> HIDE DEF t
<1>3. ASSUME NEW j \in 1..Len(t), NEW k \in 1..Len(t),
             t[j].kind = "name", t[k].kind = "name", t[j].index = t[k].index
      PROVE  j = k
  <2>1. e.kind = "name" => \A i \in 1..Len(s) : ~(s[i].kind = "name" /\ s[i].index = e.index)
    BY <1>1, <1>2 DEF Named
  <2>2. CASE j = Len(s) + 1 \/ k = Len(s) + 1
    BY <1>2, <1>3, <2>1, <2>2
  <2>3. CASE j # Len(s) + 1 /\ k # Len(s) + 1
    BY <1>2, <1>3, <2>3 DEF Grammar
  <2> QED BY <2>2, <2>3
<1>4. ASSUME NEW j \in 1..Len(t), NEW k \in 1..Len(t), j < k, t[j].kind \in Reasons
      PROVE  t[k].kind = "usage"
  <2>1. j # Len(s) + 1 /\ j \in 1..Len(s) /\ t[j] = s[j]
    BY <1>2, <1>4
  <2>2. CASE k = Len(s) + 1
    <3>1. Finished
      BY <1>2, <1>4, <2>1 DEF Finished
    <3> QED BY <1>1, <1>2, <2>2, <3>1
  <2>3. CASE k # Len(s) + 1
    BY <1>2, <1>4, <2>1, <2>3 DEF Grammar
  <2> QED BY <2>2, <2>3
<1> QED BY <1>3, <1>4 DEF Grammar, t

\* After the calls are told none is buffered.
LEMMA NoneIsLeft ==
    ASSUME NEW s, IsStream(s), Grammar(s), NEW cut, NEW p \in 1..Len(s), s[p].kind = "tool_calls",
           p \notin cut, NEW n \in p..Len(s)
    PROVE  ReadOf(s, n, cut).calls = NoCalls
<1> DEFINE R == {m \in 0..n : m < p \/ ReadOf(s, m, cut).calls = NoCalls}
<1>1. n \in Nat /\ Len(s) \in Nat /\ n <= Len(s) /\ p \in Nat /\ 0 < p
  BY DEF IsStream
<1>2. 0 \in R
  BY <1>1
<1>3. ASSUME NEW m \in 1..n, m - 1 \in R PROVE m \in R
  <2> DEFINE acc == ReadOf(s, m - 1, cut)
             e == s[m]
  <2>1. m \in 1..Len(s) /\ m - 1 \in 0..Len(s) /\ m \in 0..n /\ e \in Event
    BY <1>1 DEF IsStream
  <2>2. acc \in Accumulated
    BY <2>1, ReadType
  <2>3. m < p \/ m = p \/ (p < m /\ acc.calls = NoCalls)
    BY <1>1, <1>3
  <2>4. m = p => m \notin cut /\ e.kind = "tool_calls"
    OBVIOUS
  <2>5. p < m => e.kind = "usage"
    BY <2>1 DEF Grammar, Reasons
  <2>6. ReadOf(s, m, cut) = IF m \in cut THEN acc ELSE Translate(acc, e)
    BY <2>1, ReadNext
  <2> HIDE DEF acc, e
  <2>7. Translate(acc, e).calls =
               IF e.kind = "name" THEN [acc.calls EXCEPT ![e.index].name = e.n]
               ELSE IF e.kind = "args" THEN [acc.calls EXCEPT ![e.index].args = Append(@, e.n)]
               ELSE IF e.kind = "tool_calls" THEN NoCalls ELSE acc.calls
    BY <2>1, <2>2, TranslateCalls
  <2> QED BY <2>1, <2>3, <2>4, <2>5, <2>6, <2>7
<1>4. \A m \in 0..n : m \in R
  <2> HIDE DEF R
  <2> QED BY <1>1, <1>2, <1>3, BoundedInduction
<1> QED BY <1>1, <1>4

LEMMA AscendingIs ==
    ASSUME BridgeAssumption, NEW S, S \subseteq Indices
    PROVE  /\ \A k \in DOMAIN Ascending(S) : Ascending(S)[k] \in S
           /\ \A i \in S : \E k \in DOMAIN Ascending(S) : Ascending(S)[k] = i
<1> DEFINE t == [k \in 1..(LastIndex + 1) |-> k - 1]
<1>1. t \in [1..(LastIndex + 1) -> Indices] /\ LastIndex + 1 \in Nat
  BY DEF BridgeAssumption, Indices
<1>2. t \in Seq(Indices)
  BY <1>1, FunctionIsSeq
<1>3. ASSUME NEW i \in S PROVE \E j \in 1..Len(t) : t[j] = i
  <2>1. i + 1 \in 1..(LastIndex + 1) /\ t[i + 1] = i
    BY DEF Indices, BridgeAssumption
  <2>2. Len(t) = LastIndex + 1
    BY <1>1
  <2> HIDE DEF t
  <2> QED BY <2>1, <2>2
<1>4. Ascending(S) = Keep(t, S)
  BY DEF Ascending
<1> HIDE DEF t
<1>5. \A k \in DOMAIN Keep(t, S) : Keep(t, S)[k] \in S
  BY <1>2, KeptIsOfSet
<1>6. ASSUME NEW i \in S PROVE \E k \in DOMAIN Keep(t, S) : Keep(t, S)[k] = i
  <2>1. PICK j \in 1..Len(t) : t[j] = i
    BY <1>3
  <2>2. \E k \in DOMAIN Keep(t, S) : Keep(t, S)[k] = t[j]
    BY <1>2, <2>1, OfSetIsKept
  <2> QED BY <2>1, <2>2
<1> QED BY <1>4, <1>5, <1>6

\* The arguments that are not cut are those of the events that are not.
LEMMA ArgumentsOfSound ==
    ASSUME NEW s, IsStream(s), NEW top \in 0..Len(s), NEW n \in 0..top, NEW cut, NEW i \in Indices
    PROVE  Keep(NumbersOf(Pieces(SubSeq(s, 1, n), i, "args")), (1..top) \ cut)
               = NumbersOf(Pieces(SoundOf(s, n, cut), i, "args"))
<1> DEFINE N == (1..top) \ cut
           Same(m) == Keep(NumbersOf(Pieces(SubSeq(s, 1, m), i, "args")), N)
                          = NumbersOf(Pieces(SoundOf(s, m, cut), i, "args"))
           R == {m \in 0..n : Same(m)}
<1>1. s \in Seq(Event) /\ n \in Nat /\ Len(s) \in Nat /\ n <= Len(s) /\ top \in Nat /\ n <= top
  BY DEF IsStream
<1>2. 0 \in R
  <2>1. 0 \in 0..Len(s) /\ 0 \in 0..n
    BY <1>1
  <2>2. SubSeq(s, 1, 0) = <<>> /\ SoundOf(s, 0, cut) = <<>>
    BY <1>1, <2>1, FirstNone, SoundType
  <2>3. NumbersOf(Pieces(<<>>, i, "args")) = <<>>
    BY KeepEmpty, NumbersNone DEF Pieces
  <2>4. Keep(<<>>, N) = <<>>
    BY KeepEmpty
  <2> HIDE DEF N
  <2>5. Same(0)
    BY <2>2, <2>3, <2>4, Zenon
  <2> HIDE DEF Same
  <2> QED BY <2>1, <2>5
<1>3. ASSUME NEW m \in 1..n, m - 1 \in R PROVE m \in R
  <2> DEFINE u == SubSeq(s, 1, m - 1)
             v == SoundOf(s, m - 1, cut)
             e == s[m]
             a == NumbersOf(Pieces(u, i, "args"))
             b == NumbersOf(Pieces(v, i, "args"))
  <2>1. /\ m \in 1..Len(s) /\ m - 1 \in 0..Len(s) /\ m \in 0..n /\ e \in Event /\ e.n = m /\ m \in Nat
        /\ m \in 1..top
    BY <1>1 DEF IsStream
  <2>2. u \in Seq(Event) /\ v \in Seq(Event)
    BY <1>1, <2>1, FirstOf, SoundType
  <2>3. SubSeq(s, 1, m) = Append(u, e) /\ SoundOf(s, m, cut) = IF m \in cut THEN v ELSE Append(v, e)
    BY <1>1, <2>1, FirstNext, SoundNext
  <2>4. Keep(a, N) = b
    BY <1>3
  <2> HIDE DEF N, u, v, e
  <2>5. /\ Pieces(Append(u, e), i, "args") =
            IF e.kind = "args" /\ e.index = i THEN Append(Pieces(u, i, "args"), e) ELSE Pieces(u, i, "args")
        /\ Pieces(Append(v, e), i, "args") =
            IF e.kind = "args" /\ e.index = i THEN Append(Pieces(v, i, "args"), e) ELSE Pieces(v, i, "args")
    BY <2>1, <2>2, PiecesAppend
  <2>6. /\ NumbersOf(Append(Pieces(u, i, "args"), e)) = Append(a, m)
        /\ NumbersOf(Append(Pieces(v, i, "args"), e)) = Append(b, m)
    BY <2>1, <2>2, PiecesNumbers
  <2>7. a \in Seq(Nat)
    <3> DEFINE T == Event
               x == Pieces(u, i, "args")
    <3>1. x \in Seq(T) /\ e \in T /\ \A y \in T : y.n \in Nat
      BY <2>1, <2>2, PiecesAppend DEF Event, Events
    <3> HIDE DEF T, x
    <3>2. NumbersOf(x) \in Seq(Nat)
      BY <3>1, NumbersAppend
    <3> QED BY <3>2 DEF x
  <2> HIDE DEF a, b
  <2>8. Keep(Append(a, m), N) = IF m \in N THEN Append(Keep(a, N), m) ELSE Keep(a, N)
    BY <2>1, <2>7, KeepAppend
  <2>9. (m \in N) = (m \notin cut)
    BY <2>1 DEF N
  <2>10. CASE e.kind = "args" /\ e.index = i
    <3>1. NumbersOf(Pieces(SubSeq(s, 1, m), i, "args")) = Append(a, m)
      BY <2>3, <2>5, <2>6, <2>10
    <3>2. NumbersOf(Pieces(SoundOf(s, m, cut), i, "args")) = IF m \in cut THEN b ELSE Append(b, m)
      BY <2>3, <2>5, <2>6, <2>10 DEF b
    <3>3. Same(m)
      <4>1. Keep(Append(a, m), N) = NumbersOf(Pieces(SoundOf(s, m, cut), i, "args"))
        <5> DEFINE r == NumbersOf(Pieces(SoundOf(s, m, cut), i, "args"))
        <5>1. r = IF m \in cut THEN b ELSE Append(b, m)
          BY <3>2
        <5> HIDE DEF r
        <5>2. Keep(Append(a, m), N) = r
          BY <2>4, <2>8, <2>9, <5>1
        <5> QED BY <5>2 DEF r
      <4> QED BY <3>1, <4>1, Zenon
    <3> HIDE DEF Same
    <3> QED BY <2>1, <3>3
  <2>11. CASE ~(e.kind = "args" /\ e.index = i)
    <3>1. NumbersOf(Pieces(SubSeq(s, 1, m), i, "args")) = a
      BY <2>3, <2>5, <2>11 DEF a
    <3>2. NumbersOf(Pieces(SoundOf(s, m, cut), i, "args")) = b
      BY <2>3, <2>5, <2>11 DEF b
    <3>3. Same(m)
      BY <2>4, <3>1, <3>2
    <3> HIDE DEF Same
    <3> QED BY <2>1, <3>3
  <2> QED BY <2>10, <2>11
<1>4. \A m \in 0..n : m \in R
  <2> HIDE DEF R
  <2> QED BY <1>1, <1>2, <1>3, BoundedInduction
<1>5. n \in R
  <2> HIDE DEF R
  <2> QED BY <1>1, <1>4
<1> QED BY <1>5

\* Before the reason there was none, and after it come no names and no arguments.
LEMMA AroundReason ==
    ASSUME NEW s, IsStream(s), Grammar(s), NEW p \in 1..Len(s), s[p].kind = "tool_calls"
    PROVE  /\ p - 1 \in 0..Len(s) /\ NoReason(s, p - 1)
           /\ \A j \in p..Len(s) : s[j].kind \notin {"name", "args"}
<1>1. Len(s) \in Nat /\ p \in Nat /\ p - 1 \in 0..Len(s)
  BY DEF IsStream
<1>2. ASSUME NEW j \in 1..(p - 1) PROVE s[j].kind \notin Reasons
  <2>1. j \in 1..Len(s) /\ j < p
    BY <1>1
  <2>2. s[j].kind \in Reasons => s[p].kind = "usage"
    BY <2>1 DEF Grammar
  <2> QED BY <2>2
<1>3. ASSUME NEW j \in p..Len(s) PROVE s[j].kind \notin {"name", "args"}
  <2>1. j \in 1..Len(s) /\ (j = p \/ p < j)
    BY <1>1
  <2>2. p < j => s[j].kind = "usage"
    BY <2>1 DEF Grammar, Reasons
  <2> QED BY <2>1, <2>2
<1> QED BY <1>1, <1>2, <1>3 DEF NoReason

\* A call that is buffered with a name has that of the server's call, and its arguments.
LEMMA CallIsNamed ==
    ASSUME NEW s, IsStream(s), Grammar(s), NEW cut, NEW p \in 1..Len(s), s[p].kind = "tool_calls",
           NEW i \in Indices, ReadOf(s, p - 1, cut).calls[i].name # 0
    PROVE  /\ \E j \in 1..Len(s) : s[j].kind = "name" /\ s[j].index = i
           /\ ReadOf(s, p - 1, cut).calls[i].name = Pieces(s, i, "name")[1].n
<1> DEFINE c == ReadOf(s, p - 1, cut).calls[i].name
           S == Events({"name"}, Nat, {i})
           P == Keep(s, S)
<1>1. s \in Seq(Event) /\ Len(s) \in Nat /\ p - 1 \in 0..Len(s) /\ NoReason(s, p - 1) /\ p \in Nat
  BY AroundReason DEF IsStream
<1>2. c \in 1..(p - 1) /\ s[c].kind = "name" /\ s[c].index = i
  BY <1>1, CallsSoFar DEF CallSoFar, SoundNaming
<1> HIDE DEF c
<1>3. c \in 1..Len(s) /\ s[c] \in Event /\ s[c].n = c
  BY <1>1, <1>2 DEF IsStream
<1>4. s[c] \in S
  <2> DEFINE e == s[c]
  <2>1. e \in Event /\ e.kind = "name" /\ e.index = i
    BY <1>2, <1>3
  <2> HIDE DEF e
  <2>2. e \in S
    BY <2>1 DEF Event, Events
  <2> QED BY <2>2 DEF e
<1> HIDE DEF S
<1>5. PICK k \in DOMAIN P : P[k] = s[c]
  BY <1>1, <1>3, <1>4, OfSetIsKept
<1>6. P \in Seq(Event)
  BY <1>1, KeepType
<1>7. 1 \in DOMAIN P
  <2> HIDE DEF P
  <2> QED BY <1>5, <1>6
<1>8. P[1] \in S /\ \E j \in 1..Len(s) : s[j] = P[1]
  BY <1>1, <1>7, KeptIsOfSet
<1>9. PICK j \in 1..Len(s) : s[j] = P[1]
  BY <1>8
<1>10. s[j].kind = "name" /\ s[j].index = i
  <2> DEFINE e == P[1]
  <2>1. e \in S
    BY <1>8
  <2> HIDE DEF e
  <2>2. e.kind = "name" /\ e.index = i
    BY <2>1 DEF S, Events
  <2> QED BY <1>9, <2>2 DEF e
<1>11. j = c
  BY <1>2, <1>3, <1>10 DEF Grammar
<1>12. P[1].n = c
  BY <1>3, <1>9, <1>11
<1>13. Pieces(s, i, "name") = P
  BY DEF Pieces, S
<1> QED BY <1>2, <1>3, <1>12, <1>13 DEF c

LEMMA CallHasArguments ==
    ASSUME NEW s, IsStream(s), Grammar(s), NEW cut, NEW p \in 1..Len(s), s[p].kind = "tool_calls",
           NEW i \in Indices, NEW top \in p..Len(s)
    PROVE  /\ ReadOf(s, p - 1, cut).calls[i].args = NumbersOf(Pieces(SoundOf(s, p - 1, cut), i, "args"))
           /\ Pieces(s, i, "args") = Pieces(SubSeq(s, 1, p - 1), i, "args")
           /\ ReadOf(s, p - 1, cut).calls[i].args
                  = Keep(NumbersOf(Pieces(s, i, "args")), (1..top) \ cut)
<1>1. /\ s \in Seq(Event) /\ Len(s) \in Nat /\ p - 1 \in 0..Len(s) /\ NoReason(s, p - 1)
      /\ \A j \in p..Len(s) : s[j].kind \notin {"name", "args"}
  BY AroundReason DEF IsStream
<1>2. ReadOf(s, p - 1, cut).calls[i].args = NumbersOf(Pieces(SoundOf(s, p - 1, cut), i, "args"))
  BY <1>1, CallsSoFar DEF CallSoFar
<1>3. Pieces(s, i, "args") = Pieces(SubSeq(s, 1, p - 1), i, "args")
  <2> DEFINE S == Events({"args"}, Nat, {i})
  <2>1. \A e : e \in S => e.kind = "args"
    BY DEF Events
  <2>2. (p - 1) + 1 = p
    OBVIOUS
  <2> HIDE DEF S
  <2>3. NoneAfter(s, p - 1, S)
    BY <1>1, <2>1, <2>2 DEF NoneAfter
  <2>4. Keep(s, S) = Keep(SubSeq(s, 1, p - 1), S)
    BY <1>1, <2>3, KeepOfFirst
  <2> QED BY <2>4 DEF Pieces, S
<1>4. top \in 0..Len(s) /\ p - 1 \in 0..top
  BY <1>1
<1>5. Keep(NumbersOf(Pieces(SubSeq(s, 1, p - 1), i, "args")), (1..top) \ cut)
          = NumbersOf(Pieces(SoundOf(s, p - 1, cut), i, "args"))
  BY <1>4, ArgumentsOfSound
<1> QED BY <1>2, <1>3, <1>5, Zenon

\* What the client is told in the event p.
LEMMA OutputIsOf ==
    ASSUME BridgeInv, ChunksDoNotMatter, NEW i \in DOMAIN received
    PROVE  /\ IsStream(emitted) /\ arrived \in 0..Len(emitted)
           /\ IsOutput(emitted, arrived, torn, received[i])
<1>1. IsStream(emitted) /\ arrived \in 0..Len(emitted) /\ received \in Seq(Output)
  BY DEF BridgeInv, StreamInv, TapInv, IsStream
<1>2. OutputsSoFar(emitted, arrived, torn)
  BY <1>1, OutputsAre
<1>3. i \in 1..Len(received)
  BY <1>1
<1> QED BY <1>1, <1>2, <1>3 DEF OutputsSoFar, ChunksDoNotMatter

LEMMA CallsOfOne ==
    ASSUME BridgeAssumption, BridgeInv, Grammar(emitted), ChunksDoNotMatter
    PROVE  CallsAreNotMixed
<1> SUFFICES ASSUME NEW i \in DOMAIN received, NEW k \in DOMAIN received[i].calls
             PROVE  \E m \in DOMAIN Made :
                        /\ received[i].calls[k].name = Made[m].name
                        /\ received[i].calls[k].args = Keep(Made[m].args, (1..arrived) \ torn)
  BY DEF CallsAreNotMixed
<1> DEFINE p == received[i].n
           b == ReadOf(emitted, p - 1, torn).calls
           S == {x \in Indices : b[x].name # 0}
           N == {x \in Indices : Named(x)}
<1>1. /\ IsStream(emitted) /\ arrived \in 0..Len(emitted) /\ p \in 1..arrived /\ p \notin torn
      /\ received[i].calls = IF emitted[p].kind = "tool_calls" THEN Flush(b) ELSE <<>>
  BY OutputIsOf DEF IsOutput
<1>2. emitted[p].kind = "tool_calls" /\ received[i].calls = Flush(b)
  BY <1>1
<1>3. p \in 1..Len(emitted) /\ arrived \in p..Len(emitted) /\ DOMAIN emitted = 1..Len(emitted)
  BY <1>1 DEF IsStream
<1> HIDE DEF b, p
<1>4. Flush(b) = [j \in DOMAIN Ascending(S) |-> b[Ascending(S)[j]]]
  BY DEF Flush
<1> DEFINE x == Ascending(S)[k]
<1>5. k \in DOMAIN Ascending(S) /\ received[i].calls[k] = b[x]
  BY <1>2, <1>4
<1>6. x \in S
  <2> HIDE DEF S
  <2>1. S \subseteq Indices
    BY DEF S
  <2> QED BY <1>5, <2>1, AscendingIs
<1> HIDE DEF x
<1>7. x \in Indices /\ b[x].name # 0
  BY <1>6
<1>8. /\ \E j \in 1..Len(emitted) : emitted[j].kind = "name" /\ emitted[j].index = x
      /\ b[x].name = Pieces(emitted, x, "name")[1].n
  BY <1>1, <1>2, <1>3, <1>7, CallIsNamed DEF b
<1>9. b[x].args = Keep(NumbersOf(Pieces(emitted, x, "args")), (1..arrived) \ torn)
  BY <1>1, <1>2, <1>3, <1>7, CallHasArguments DEF b
<1>10. x \in N
  BY <1>3, <1>7, <1>8 DEF Named
<1>11. PICK m \in DOMAIN Ascending(N) : Ascending(N)[m] = x
  <2> HIDE DEF N
  <2>1. N \subseteq Indices
    BY DEF N
  <2> QED BY <1>10, <2>1, AscendingIs
<1>12. Made = [j \in DOMAIN Ascending(N) |-> [name |-> Pieces(emitted, Ascending(N)[j], "name")[1].n,
                                             args |-> NumbersOf(Pieces(emitted, Ascending(N)[j], "args"))]]
  BY DEF Made
<1> HIDE DEF N
<1>13. /\ m \in DOMAIN Made
       /\ Made[m].name = Pieces(emitted, x, "name")[1].n
       /\ Made[m].args = NumbersOf(Pieces(emitted, x, "args"))
  BY <1>11, <1>12
<1> QED BY <1>5, <1>8, <1>9, <1>13

LEMMA UncutIsComplete ==
    ASSUME BridgeAssumption, BridgeInv, Grammar(emitted), ChunksDoNotMatter
    PROVE  UncutCallsAreComplete
<1> SUFFICES ASSUME torn = {}, NEW i \in DOMAIN received,
                    emitted[received[i].n].kind = "tool_calls"
             PROVE  received[i].calls = Made /\ calls = NoCalls
  BY DEF UncutCallsAreComplete
<1> DEFINE p == received[i].n
           b == ReadOf(emitted, p - 1, torn).calls
           S == {x \in Indices : b[x].name # 0}
           N == {x \in Indices : Named(x)}
<1>1. /\ IsStream(emitted) /\ arrived \in 0..Len(emitted) /\ p \in 1..arrived /\ p \notin torn
      /\ received[i].calls = IF emitted[p].kind = "tool_calls" THEN Flush(b) ELSE <<>>
  BY OutputIsOf DEF IsOutput
<1>2. emitted[p].kind = "tool_calls" /\ received[i].calls = Flush(b)
  BY <1>1
<1>3. /\ p \in 1..Len(emitted) /\ arrived \in p..Len(emitted) /\ DOMAIN emitted = 1..Len(emitted)
      /\ p - 1 \in 0..Len(emitted) /\ emitted \in Seq(Event)
  BY <1>1 DEF IsStream
<1>4. calls = NoCalls
  BY <1>1, <1>2, <1>3, NoneIsLeft DEF ChunksDoNotMatter
<1> HIDE DEF b, p
<1>5. NoReason(emitted, p - 1) /\ \A j \in p..Len(emitted) : emitted[j].kind \notin {"name", "args"}
  BY <1>1, <1>2, <1>3, AroundReason
<1>6. ASSUME NEW x \in Indices PROVE b[x].name # 0 <=> Named(x)
  <2>1. b[x].name # 0 => Named(x)
    BY <1>1, <1>2, <1>3, CallIsNamed DEF b, Named
  <2>2. ASSUME b[x].name = 0, NEW j \in DOMAIN emitted, emitted[j].kind = "name", emitted[j].index = x
        PROVE  FALSE
    <3>1. j \in 1..(p - 1)
      BY <1>3, <1>5, <2>2
    <3>2. SoundNaming(emitted, p - 1, torn, x, j)
      BY <2>2, <3>1 DEF SoundNaming
    <3>3. CallSoFar(emitted, p - 1, torn, x)
      BY <1>1, <1>3, <1>5, CallsSoFar
    <3> QED BY <2>2, <3>1, <3>2, <3>3 DEF CallSoFar, b
  <2> QED BY <2>1, <2>2 DEF Named
<1>7. S = N
  BY <1>6
<1>8. ASSUME NEW x \in S
      PROVE  b[x] = [name |-> Pieces(emitted, x, "name")[1].n,
                     args |-> NumbersOf(Pieces(emitted, x, "args"))]
  <2>1. x \in Indices /\ b[x].name # 0
    BY <1>8
  <2>2. b[x].name = Pieces(emitted, x, "name")[1].n
    BY <1>1, <1>2, <1>3, <2>1, CallIsNamed DEF b
  <2>3. /\ b[x].args = NumbersOf(Pieces(SoundOf(emitted, p - 1, torn), x, "args"))
        /\ Pieces(emitted, x, "args") = Pieces(SubSeq(emitted, 1, p - 1), x, "args")
        /\ b[x].args = Keep(NumbersOf(Pieces(emitted, x, "args")), (1..arrived) \ torn)
    BY <1>1, <1>2, <1>3, <2>1, CallHasArguments DEF b
  <2>4. SoundOf(emitted, p - 1, torn) = SubSeq(emitted, 1, p - 1)
    <3> DEFINE u == SubSeq(emitted, 1, p - 1)
    <3>1. u \in Seq(Event)
      BY <1>3, FirstOf
    <3>2. Event \subseteq Sound(torn)
      BY DEF Event, Sound, Events, Indices
    <3> HIDE DEF u
    <3>3. Keep(u, Sound(torn)) = u
      BY <3>1, <3>2, KeepAll
    <3> QED BY <3>3 DEF SoundOf, u
  <2>5. b \in Buffered
    <3>1. ReadOf(emitted, p - 1, torn) \in Accumulated
      BY <1>1, <1>3, ReadType
    <3> QED BY <3>1 DEF b, Accumulated
  <2>6. b[x] \in [name : Nat, args : Seq(Nat)]
    BY <2>1, <2>5 DEF Buffered
  <2>7. b[x].args = NumbersOf(Pieces(emitted, x, "args"))
    BY <2>3, <2>4
  <2>8. b[x] = [name |-> b[x].name, args |-> b[x].args]
    BY <2>6
  <2> QED BY <2>2, <2>7, <2>8
<1>9. Flush(b) = [j \in DOMAIN Ascending(S) |-> b[Ascending(S)[j]]]
  BY DEF Flush
<1>10. Made = [j \in DOMAIN Ascending(N) |-> [name |-> Pieces(emitted, Ascending(N)[j], "name")[1].n,
                                             args |-> NumbersOf(Pieces(emitted, Ascending(N)[j], "args"))]]
  BY DEF Made
<1>11. \A j \in DOMAIN Ascending(S) : Ascending(S)[j] \in S
  <2>1. S \subseteq Indices
    OBVIOUS
  <2> HIDE DEF S
  <2> QED BY <2>1, AscendingIs
<1> HIDE DEF S, N
<1>12. Flush(b) = Made
  BY <1>7, <1>8, <1>9, <1>10, <1>11
<1> QED BY <1>2, <1>4, <1>12

(* However the network cuts the stream, the client gets its whole texts in   *)
(* order, no call made of two, and every call complete, and none left        *)
(* behind, if nothing was cut (translation.py:298-433).                      *)
THEOREM StreamsAreFaithful == BridgeSpec => []StreamIsFaithful
<1> DEFINE Inv == BridgeInv /\ Grammar(emitted) /\ ChunksDoNotMatter
<1>1. BridgeInit => Inv
  <2>1. BridgeInit => Grammar(emitted)
    BY DEF BridgeInit, Grammar
  <2> QED BY <2>1, BridgeAssumption, BridgeInitially, ChunkInitially
<1>2. Inv /\ [BridgeNext]_bridgeVars => Inv'
  <2>1. ASSUME Inv, [BridgeNext]_bridgeVars PROVE Grammar(emitted')
    <3>1. Emit => Grammar(emitted')
      BY <2>1, GrammarStep DEF BridgeInv, StreamInv
    <3>2. ~Emit => emitted' = emitted
      BY <2>1 DEF BridgeNext, Deliver, bridgeVars
    <3> QED BY <2>1, <3>1, <3>2
  <2>2. ASSUME Inv, [BridgeNext]_bridgeVars PROVE BridgeInv' /\ ChunksDoNotMatter'
    BY <2>2, BridgeAssumption, BridgeStep, ChunkStep
  <2> QED BY <2>1, <2>2
<1>3. Inv => StreamIsFaithful
  BY BridgeAssumption, TextsCome, CallsOfOne, UncutIsComplete DEF StreamIsFaithful
<1> QED BY <1>1, <1>2, <1>3, PTL DEF BridgeSpec
-----------------------------------------------------------------------------
(* The request: the translation of a conversation, item by item and part by *)
(* part.                                                                    *)

Spots == Nat \X Nat
Ids == {NoId} \cup {<<"id", p>> : p \in Spots} \cup {CallId(f, c) : f \in Functions, c \in Nat}
SomeParts == {p \in [type : {"text", "call", "answer"}, name : Functions \cup {""}, id : Ids, n : Spots] :
                 p.type # "text" => p.name \in Functions}
AnswerParts == {p \in SomeParts : p.type = "answer"}
SentCalls == [id : Ids, n : Spots]
Sent == [role : {"user", "assistant", "tool"}, texts : Seq(Spots), calls : Seq(SentCalls),
         id : Ids, n : Spots]
Bridging == [pending : [Functions -> Seq(Ids)], counts : [Functions -> Nat], texts : Seq(Spots),
             calls : Seq(SentCalls), answers : Seq(AnswerParts), messages : Seq(Sent)]
SomeItems == [role : {"user", "assistant"}, parts : Seq(SomeParts)]

LEMMA BridgingIs ==
    ASSUME NEW acc \in Bridging
    PROVE  /\ acc.pending \in [Functions -> Seq(Ids)] /\ acc.counts \in [Functions -> Nat]
           /\ acc.texts \in Seq(Spots) /\ acc.calls \in Seq(SentCalls)
           /\ acc.answers \in Seq(AnswerParts) /\ acc.messages \in Seq(Sent)
BY DEF Bridging

\* The id a call is sent under.
IdOf(acc, part) == IF part.id # NoId THEN part.id ELSE CallId(part.name, acc.counts[part.name] + 1)

LEMMA FormatCallIs ==
    ASSUME NEW acc \in Bridging, NEW part \in SomeParts, part.type = "call"
    PROVE  /\ FormatCall(acc, part) \in Bridging /\ IdOf(acc, part) \in Ids
           /\ FormatCall(acc, part) =
                 [acc EXCEPT !.counts = [acc.counts EXCEPT ![part.name] = IF part.id # NoId THEN @ ELSE @ + 1],
                             !.pending = [acc.pending EXCEPT ![part.name] = Append(@, IdOf(acc, part))],
                             !.calls = Append(@, [id |-> IdOf(acc, part), n |-> part.n])]
<1> DEFINE name == part.name
           id == IdOf(acc, part)
           counts == [acc.counts EXCEPT ![name] = IF part.id # NoId THEN @ ELSE @ + 1]
           pending == [acc.pending EXCEPT ![name] = Append(@, id)]
           issued == Append(acc.calls, [id |-> id, n |-> part.n])
<1>1. name \in Functions /\ part.id \in Ids /\ part.n \in Spots
  BY DEF SomeParts
<1>2. acc.counts[name] \in Nat /\ acc.pending[name] \in Seq(Ids)
  BY <1>1, BridgingIs
<1>3. id \in Ids
  <2>1. CallId(name, acc.counts[name] + 1) \in Ids
    BY <1>1, <1>2 DEF Ids
  <2> QED BY <1>1, <2>1 DEF IdOf
<1>4. [id |-> id, n |-> part.n] \in SentCalls
  <2> HIDE DEF id
  <2> QED BY <1>1, <1>3 DEF SentCalls
<1>5. /\ counts \in [Functions -> Nat] /\ pending \in [Functions -> Seq(Ids)]
      /\ issued \in Seq(SentCalls)
  <2>1. Append(acc.pending[name], id) \in Seq(Ids)
    <3> HIDE DEF id
    <3> QED BY <1>2, <1>3, AppendTo
  <2>2. issued \in Seq(SentCalls)
    <3> HIDE DEF id
    <3> QED BY <1>4, BridgingIs, AppendTo
  <2>3. counts \in [Functions -> Nat]
    <3>1. \A c \in Nat : [acc.counts EXCEPT ![name] = c] \in [Functions -> Nat]
      BY BridgingIs
    <3>2. acc.counts[name] + 1 \in Nat
      BY <1>2
    <3> QED BY <1>2, <3>1, <3>2
  <2> HIDE DEF id, issued, counts
  <2> QED BY <2>1, <2>2, <2>3, BridgingIs
<1>6. FormatCall(acc, part) = [acc EXCEPT !.counts = counts, !.pending = pending, !.calls = issued]
  BY <1>1, <1>2, BridgingIs DEF FormatCall, IdOf, Bridging
<1>7. [acc EXCEPT !.counts = counts, !.pending = pending, !.calls = issued] \in Bridging
  <2> HIDE DEF counts, pending, issued
  <2> QED BY <1>5 DEF Bridging
<1> QED BY <1>3, <1>6, <1>7

LEMMA ProcessIs ==
    ASSUME NEW acc \in Bridging, NEW part \in SomeParts
    PROVE  /\ Process(acc, part) \in Bridging
           /\ part.type = "text" => Process(acc, part) = [acc EXCEPT !.texts = Append(@, part.n)]
           /\ part.type = "call" => Process(acc, part) = FormatCall(acc, part)
           /\ part.type = "answer" => Process(acc, part) = [acc EXCEPT !.answers = Append(@, part)]
<1>1. part.type \in {"text", "call", "answer"} /\ part.n \in Spots
  BY DEF SomeParts
<1>2. CASE part.type = "text"
  <2>1. Process(acc, part) = [acc EXCEPT !.texts = Append(@, part.n)]
    BY <1>2 DEF Process
  <2>2. Append(acc.texts, part.n) \in Seq(Spots)
    BY <1>1, BridgingIs, AppendTo
  <2> QED BY <1>2, <2>1, <2>2 DEF Bridging
<1>3. CASE part.type = "call"
  BY <1>3, FormatCallIs DEF Process
<1>4. CASE part.type = "answer"
  <2>1. Process(acc, part) = [acc EXCEPT !.answers = Append(@, part)]
    BY <1>4 DEF Process
  <2>2. Append(acc.answers, part) \in Seq(AnswerParts)
    BY <1>4, BridgingIs, AppendTo DEF AnswerParts
  <2> QED BY <1>4, <2>1, <2>2 DEF Bridging
<1> QED BY <1>1, <1>2, <1>3, <1>4

\* The id an answer is sent under.
AnswerId(acc, part) ==
    IF part.id # NoId THEN part.id
    ELSE IF acc.pending[part.name] # <<>> THEN Head(acc.pending[part.name]) ELSE CallId(part.name, 1)

LEMMA AnswerCallIs ==
    ASSUME NEW acc \in Bridging, NEW part \in AnswerParts
    PROVE  /\ AnswerCall(acc, part) \in Bridging /\ AnswerId(acc, part) \in Ids
           /\ ToolMessage(AnswerId(acc, part), part.n) \in Sent
           /\ AnswerCall(acc, part) =
                 [acc EXCEPT !.pending = [acc.pending EXCEPT ![part.name] =
                                             IF part.id # NoId \/ @ = <<>> THEN @ ELSE Tail(@)],
                             !.messages = Append(@, ToolMessage(AnswerId(acc, part), part.n))]
<1> DEFINE name == part.name
           id == AnswerId(acc, part)
           message == ToolMessage(id, part.n)
           left == IF part.id # NoId \/ acc.pending[name] = <<>> THEN acc.pending[name]
                   ELSE Tail(acc.pending[name])
           pending == [acc.pending EXCEPT ![name] = left]
           messages == Append(acc.messages, message)
<1>1. name \in Functions /\ part.id \in Ids /\ part.n \in Spots
  BY DEF SomeParts, AnswerParts
<1>2. acc.pending[name] \in Seq(Ids)
  BY <1>1, BridgingIs
<1>3. id \in Ids /\ left \in Seq(Ids)
  <2>1. CallId(name, 1) \in Ids
    BY <1>1 DEF Ids
  <2>2. acc.pending[name] # <<>> => Head(acc.pending[name]) \in Ids /\ Tail(acc.pending[name]) \in Seq(Ids)
    BY <1>2, HeadAndTail
  <2> QED BY <1>1, <1>2, <2>1, <2>2 DEF AnswerId
<1>4. message \in Sent
  <2> HIDE DEF id
  <2>1. <<>> \in Seq(Spots) /\ <<>> \in Seq(SentCalls)
    OBVIOUS
  <2> QED BY <1>1, <1>3, <2>1 DEF ToolMessage, Sent
<1>5. AnswerCall(acc, part) = [acc EXCEPT !.pending = pending, !.messages = messages]
  BY <1>1, <1>2, BridgingIs DEF AnswerCall, AnswerId, Bridging
<1>6. pending \in [Functions -> Seq(Ids)] /\ messages \in Seq(Sent)
  <2> HIDE DEF left, message
  <2> QED BY <1>3, <1>4, BridgingIs, AppendTo
<1>7. [acc EXCEPT !.pending = pending, !.messages = messages] \in Bridging
  <2> HIDE DEF pending, messages
  <2> QED BY <1>6 DEF Bridging
<1> QED BY <1>3, <1>4, <1>5, <1>7

ProcessedSoFar(acc, parts) ==
    CHOOSE f : f = [k \in 0..Len(parts) |-> IF k = 0 THEN acc ELSE Process(f[k - 1], parts[k])]

LEMMA ProcessedSoFarIs ==
    ASSUME NEW acc \in Bridging, NEW parts \in Seq(SomeParts)
    PROVE  /\ ProcessedSoFar(acc, parts) \in [0..Len(parts) -> Bridging] /\ ProcessedSoFar(acc, parts)[0] = acc
           /\ \A k \in 1..Len(parts) :
                 ProcessedSoFar(acc, parts)[k] = Process(ProcessedSoFar(acc, parts)[k - 1], parts[k])
<1> DEFINE F == [k \in 1..Len(parts) |-> [a \in Bridging |-> Process(a, parts[k])]]
           Recursive(f) == f = [k \in 0..Len(parts) |->
               IF k = 0 THEN acc ELSE Process(f[k - 1], parts[k])]
           done == ProcessedSoFar(acc, parts)
<1>1. Len(parts) \in Nat /\ \A k \in 1..Len(parts) : parts[k] \in SomeParts
  OBVIOUS
<1>2. F \in StepFunctions(Bridging, Len(parts))
  BY <1>1, ProcessIs DEF StepFunctions
<1>3. PICK f \in [0..Len(parts) -> Bridging] : f[0] = acc /\ \A k \in 1..Len(parts) : f[k] = F[k][f[k - 1]]
  <2> HIDE DEF F
  <2>1. \E f : Recursion(f, Bridging, acc, F, Len(parts))
    BY <1>1, <1>2, RecursionExists
  <2> QED BY <2>1 DEF Recursion
<1>4. \A k \in 1..Len(parts) : f[k] = Process(f[k - 1], parts[k])
  <2> SUFFICES ASSUME NEW k \in 1..Len(parts) PROVE f[k] = Process(f[k - 1], parts[k])
    OBVIOUS
  <2>1. k - 1 \in 0..Len(parts)
    BY <1>1
  <2>2. f[k - 1] \in Bridging
    BY <2>1
  <2>3. F[k] = [a \in Bridging |-> Process(a, parts[k])]
    OBVIOUS
  <2> HIDE DEF F
  <2> QED BY <1>3, <2>2, <2>3
<1> HIDE DEF F
<1>5. Recursive(f)
  <2>1. \A k \in 0..Len(parts) : f[k] = IF k = 0 THEN acc ELSE Process(f[k - 1], parts[k])
    <3>1. ASSUME NEW k \in 0..Len(parts), k # 0 PROVE k \in 1..Len(parts)
      BY <1>1, <3>1
    <3> QED BY <1>3, <1>4, <3>1
  <2>2. f = [k \in 0..Len(parts) |-> f[k]]
    OBVIOUS
  <2> QED BY <2>1, <2>2
<1>6. Recursive(done)
  BY <1>5 DEF ProcessedSoFar
<1>7. done = [k \in 0..Len(parts) |-> done[k]] /\ done[0] = acc
      /\ \A k \in 1..Len(parts) : done[k] = Process(done[k - 1], parts[k])
  <2> HIDE DEF done
  <2>1. \A k \in 0..Len(parts) : done[k] = IF k = 0 THEN acc ELSE Process(done[k - 1], parts[k])
    BY <1>6
  <2>2. 0 \in 0..Len(parts) /\ \A k \in 1..Len(parts) : k \in 0..Len(parts) /\ k # 0
    BY <1>1
  <2>3. done = [k \in 0..Len(parts) |-> done[k]]
    BY <1>6
  <2> QED BY <2>1, <2>2, <2>3
<1>8. \A k \in 0..Len(parts) : done[k] = f[k]
  <2> HIDE DEF done
  <2>1. done[0] = f[0] /\ \A k \in 1..Len(parts) : done[k - 1] = f[k - 1] => done[k] = f[k]
    BY <1>3, <1>4, <1>7
  <2> QED BY <1>1, <2>1, Agreement
<1>9. done \in [0..Len(parts) -> Bridging]
  <2> HIDE DEF done
  <2>1. done = [k \in 0..Len(parts) |-> f[k]]
    BY <1>7, <1>8
  <2> QED BY <2>1
<1> QED BY <1>7, <1>9

LEMMA ProcessedIsLast ==
    ASSUME NEW acc, NEW parts PROVE Processed(acc, parts) = ProcessedSoFar(acc, parts)[Len(parts)]
BY DEF Processed, ProcessedSoFar

AnsweredSoFar(acc, answers) ==
    CHOOSE f : f = [k \in 0..Len(answers) |-> IF k = 0 THEN acc ELSE AnswerCall(f[k - 1], answers[k])]

LEMMA AnsweredSoFarIs ==
    ASSUME NEW acc \in Bridging, NEW answers \in Seq(AnswerParts)
    PROVE  /\ AnsweredSoFar(acc, answers) \in [0..Len(answers) -> Bridging] /\ AnsweredSoFar(acc, answers)[0] = acc
           /\ \A k \in 1..Len(answers) :
                 AnsweredSoFar(acc, answers)[k] = AnswerCall(AnsweredSoFar(acc, answers)[k - 1], answers[k])
<1> DEFINE F == [k \in 1..Len(answers) |-> [a \in Bridging |-> AnswerCall(a, answers[k])]]
           Recursive(f) == f = [k \in 0..Len(answers) |->
               IF k = 0 THEN acc ELSE AnswerCall(f[k - 1], answers[k])]
           done == AnsweredSoFar(acc, answers)
<1>1. Len(answers) \in Nat /\ \A k \in 1..Len(answers) : answers[k] \in AnswerParts
  OBVIOUS
<1>2. F \in StepFunctions(Bridging, Len(answers))
  BY <1>1, AnswerCallIs DEF StepFunctions
<1>3. PICK f \in [0..Len(answers) -> Bridging] : f[0] = acc /\ \A k \in 1..Len(answers) : f[k] = F[k][f[k - 1]]
  <2> HIDE DEF F
  <2>1. \E f : Recursion(f, Bridging, acc, F, Len(answers))
    BY <1>1, <1>2, RecursionExists
  <2> QED BY <2>1 DEF Recursion
<1>4. \A k \in 1..Len(answers) : f[k] = AnswerCall(f[k - 1], answers[k])
  <2> SUFFICES ASSUME NEW k \in 1..Len(answers) PROVE f[k] = AnswerCall(f[k - 1], answers[k])
    OBVIOUS
  <2>1. k - 1 \in 0..Len(answers)
    BY <1>1
  <2>2. f[k - 1] \in Bridging
    BY <2>1
  <2>3. F[k] = [a \in Bridging |-> AnswerCall(a, answers[k])]
    OBVIOUS
  <2> HIDE DEF F
  <2> QED BY <1>3, <2>2, <2>3
<1> HIDE DEF F
<1>5. Recursive(f)
  <2>1. \A k \in 0..Len(answers) : f[k] = IF k = 0 THEN acc ELSE AnswerCall(f[k - 1], answers[k])
    <3>1. ASSUME NEW k \in 0..Len(answers), k # 0 PROVE k \in 1..Len(answers)
      BY <1>1, <3>1
    <3> QED BY <1>3, <1>4, <3>1
  <2>2. f = [k \in 0..Len(answers) |-> f[k]]
    OBVIOUS
  <2> QED BY <2>1, <2>2
<1>6. Recursive(done)
  BY <1>5 DEF AnsweredSoFar
<1>7. done = [k \in 0..Len(answers) |-> done[k]] /\ done[0] = acc
      /\ \A k \in 1..Len(answers) : done[k] = AnswerCall(done[k - 1], answers[k])
  <2> HIDE DEF done
  <2>1. \A k \in 0..Len(answers) : done[k] = IF k = 0 THEN acc ELSE AnswerCall(done[k - 1], answers[k])
    BY <1>6
  <2>2. 0 \in 0..Len(answers) /\ \A k \in 1..Len(answers) : k \in 0..Len(answers) /\ k # 0
    BY <1>1
  <2>3. done = [k \in 0..Len(answers) |-> done[k]]
    BY <1>6
  <2> QED BY <2>1, <2>2, <2>3
<1>8. \A k \in 0..Len(answers) : done[k] = f[k]
  <2> HIDE DEF done
  <2>1. done[0] = f[0] /\ \A k \in 1..Len(answers) : done[k - 1] = f[k - 1] => done[k] = f[k]
    BY <1>3, <1>4, <1>7
  <2> QED BY <1>1, <2>1, Agreement
<1>9. done \in [0..Len(answers) -> Bridging]
  <2> HIDE DEF done
  <2>1. done = [k \in 0..Len(answers) |-> f[k]]
    BY <1>7, <1>8
  <2> QED BY <2>1
<1> QED BY <1>7, <1>9

LEMMA AnsweredIsLast ==
    ASSUME NEW acc, NEW answers PROVE Answered(acc, answers) = AnsweredSoFar(acc, answers)[Len(answers)]
BY DEF Answered, AnsweredSoFar


-----------------------------------------------------------------------------
(* A sequence of sequences, joined. *)

LEMMA FlattenNone == FlattenSeq(<<>>) = <<>>
<1> DEFINE none == <<>>
<1>1. Len(none) = 0
  OBVIOUS
<1> HIDE DEF none
<1>2. FlattenSeq(none) = none
  BY <1>1, FlattenIsLast
<1> QED BY <1>2 DEF none

LEMMA FlattenType ==
    ASSUME NEW T, NEW ss \in Seq(Seq(T))
    PROVE  FlattenSeq(ss) \in Seq(T)
<1>1. <<>> \in Seq(T)
  OBVIOUS
<1> QED BY <1>1, FlattenAppend

LEMMA AppendIs ==
    ASSUME NEW T, NEW s \in Seq(T), NEW x \in T
    PROVE  /\ Append(s, x) \in Seq(T) /\ Append(s, x) # <<>> /\ Len(Append(s, x)) = Len(s) + 1
           /\ Len(s) \in Nat /\ Append(s, x)[Len(s) + 1] = x
           /\ \A i \in 1..Len(s) : Append(s, x)[i] = s[i]
OBVIOUS
-----------------------------------------------------------------------------
(* Of one item. *)

Begun(acc) == [acc EXCEPT !.texts = <<>>, !.calls = <<>>, !.answers = <<>>]
Done(acc, item) == Processed(Begun(acc), item.parts)

LEMMA BegunIs ==
    ASSUME NEW acc \in Bridging
    PROVE  /\ Begun(acc) \in Bridging /\ Begun(acc).pending = acc.pending /\ Begun(acc).counts = acc.counts
           /\ Begun(acc).messages = acc.messages /\ Begun(acc).texts = <<>>
           /\ Begun(acc).calls = <<>> /\ Begun(acc).answers = <<>>
<1>1. <<>> \in Seq(Spots) /\ <<>> \in Seq(SentCalls) /\ <<>> \in Seq(AnswerParts)
  OBVIOUS
<1> QED BY <1>1 DEF Begun, Bridging

LEMMA ProcessedType ==
    ASSUME NEW acc \in Bridging, NEW parts \in Seq(SomeParts) PROVE Processed(acc, parts) \in Bridging
<1>1. Len(parts) \in 0..Len(parts)
  OBVIOUS
<1> QED BY <1>1, ProcessedSoFarIs, ProcessedIsLast

LEMMA AnsweredType ==
    ASSUME NEW acc \in Bridging, NEW answers \in Seq(AnswerParts) PROVE Answered(acc, answers) \in Bridging
<1>1. Len(answers) \in 0..Len(answers)
  OBVIOUS
<1> QED BY <1>1, AnsweredSoFarIs, AnsweredIsLast

LEMMA TranslateItemIs ==
    ASSUME NEW acc \in Bridging, NEW item \in SomeItems
    PROVE  /\ TranslateItem(acc, item) \in Bridging /\ Done(acc, item) \in Bridging
           /\ Done(acc, item).answers # <<>> =>
                 TranslateItem(acc, item) = Answered(Done(acc, item), Done(acc, item).answers)
           /\ Done(acc, item).answers = <<>> =>
                 /\ MessageOf(item.role, Done(acc, item)) \in Sent
                 /\ TranslateItem(acc, item) =
                       [Done(acc, item) EXCEPT !.messages = Append(@, MessageOf(item.role, Done(acc, item)))]
<1> DEFINE done == Done(acc, item)
<1>1. item.role \in {"user", "assistant"} /\ item.parts \in Seq(SomeParts)
  BY DEF SomeItems
<1>2. done \in Bridging
  BY <1>1, BegunIs, ProcessedType DEF Done
<1>3. TranslateItem(acc, item) = IF done.answers # <<>> THEN Answered(done, done.answers)
                                 ELSE [done EXCEPT !.messages = Append(@, MessageOf(item.role, done))]
  BY DEF TranslateItem, Done, Begun
<1> HIDE DEF done
<1>4. CASE done.answers # <<>>
  <2>1. Answered(done, done.answers) \in Bridging
    BY <1>2, BridgingIs, AnsweredType
  <2> QED BY <1>2, <1>3, <1>4, <2>1 DEF done
<1>5. CASE done.answers = <<>>
  <2>1. MessageOf(item.role, done) \in Sent
    <3>1. NoId \in Ids /\ <<0, 0>> \in Spots
      BY DEF Ids, Spots
    <3> QED BY <1>1, <1>2, <3>1, BridgingIs DEF MessageOf, Sent
  <2>2. Append(done.messages, MessageOf(item.role, done)) \in Seq(Sent)
    BY <1>2, <2>1, BridgingIs, AppendTo
  <2>3. [done EXCEPT !.messages = Append(@, MessageOf(item.role, done))] \in Bridging
    BY <1>2, <2>2 DEF Bridging
  <2> QED BY <1>2, <1>3, <1>5, <2>1, <2>3 DEF done
<1> QED BY <1>4, <1>5

LEMMA NothingIs == Nothing \in Bridging
<1>1. /\ <<>> \in Seq(Spots) /\ <<>> \in Seq(SentCalls) /\ <<>> \in Seq(AnswerParts)
      /\ <<>> \in Seq(Sent) /\ <<>> \in Seq(Ids)
  OBVIOUS
<1> QED BY <1>1 DEF Nothing, Bridging

TranslatedSoFar(acc, items) ==
    CHOOSE f : f = [k \in 0..Len(items) |-> IF k = 0 THEN acc ELSE TranslateItem(f[k - 1], items[k])]

LEMMA TranslatedSoFarIs ==
    ASSUME NEW acc \in Bridging, NEW items \in Seq(SomeItems)
    PROVE  /\ TranslatedSoFar(acc, items) \in [0..Len(items) -> Bridging] /\ TranslatedSoFar(acc, items)[0] = acc
           /\ \A k \in 1..Len(items) :
                 TranslatedSoFar(acc, items)[k] = TranslateItem(TranslatedSoFar(acc, items)[k - 1], items[k])
<1> DEFINE F == [k \in 1..Len(items) |-> [a \in Bridging |-> TranslateItem(a, items[k])]]
           Recursive(f) == f = [k \in 0..Len(items) |->
               IF k = 0 THEN acc ELSE TranslateItem(f[k - 1], items[k])]
           done == TranslatedSoFar(acc, items)
<1>1. Len(items) \in Nat /\ \A k \in 1..Len(items) : items[k] \in SomeItems
  OBVIOUS
<1>2. F \in StepFunctions(Bridging, Len(items))
  BY <1>1, TranslateItemIs DEF StepFunctions
<1>3. PICK f \in [0..Len(items) -> Bridging] : f[0] = acc /\ \A k \in 1..Len(items) : f[k] = F[k][f[k - 1]]
  <2> HIDE DEF F
  <2>1. \E f : Recursion(f, Bridging, acc, F, Len(items))
    BY <1>1, <1>2, RecursionExists
  <2> QED BY <2>1 DEF Recursion
<1>4. \A k \in 1..Len(items) : f[k] = TranslateItem(f[k - 1], items[k])
  <2> SUFFICES ASSUME NEW k \in 1..Len(items) PROVE f[k] = TranslateItem(f[k - 1], items[k])
    OBVIOUS
  <2>1. k - 1 \in 0..Len(items)
    BY <1>1
  <2>2. f[k - 1] \in Bridging
    BY <2>1
  <2>3. F[k] = [a \in Bridging |-> TranslateItem(a, items[k])]
    OBVIOUS
  <2> HIDE DEF F
  <2> QED BY <1>3, <2>2, <2>3
<1> HIDE DEF F
<1>5. Recursive(f)
  <2>1. \A k \in 0..Len(items) : f[k] = IF k = 0 THEN acc ELSE TranslateItem(f[k - 1], items[k])
    <3>1. ASSUME NEW k \in 0..Len(items), k # 0 PROVE k \in 1..Len(items)
      BY <1>1, <3>1
    <3> QED BY <1>3, <1>4, <3>1
  <2>2. f = [k \in 0..Len(items) |-> f[k]]
    OBVIOUS
  <2> QED BY <2>1, <2>2
<1>6. Recursive(done)
  BY <1>5 DEF TranslatedSoFar
<1>7. done = [k \in 0..Len(items) |-> done[k]] /\ done[0] = acc
      /\ \A k \in 1..Len(items) : done[k] = TranslateItem(done[k - 1], items[k])
  <2> HIDE DEF done
  <2>1. \A k \in 0..Len(items) : done[k] = IF k = 0 THEN acc ELSE TranslateItem(done[k - 1], items[k])
    BY <1>6
  <2>2. 0 \in 0..Len(items) /\ \A k \in 1..Len(items) : k \in 0..Len(items) /\ k # 0
    BY <1>1
  <2>3. done = [k \in 0..Len(items) |-> done[k]]
    BY <1>6
  <2> QED BY <2>1, <2>2, <2>3
<1>8. \A k \in 0..Len(items) : done[k] = f[k]
  <2> HIDE DEF done
  <2>1. done[0] = f[0] /\ \A k \in 1..Len(items) : done[k - 1] = f[k - 1] => done[k] = f[k]
    BY <1>3, <1>4, <1>7
  <2> QED BY <1>1, <2>1, Agreement
<1>9. done \in [0..Len(items) -> Bridging]
  <2> HIDE DEF done
  <2>1. done = [k \in 0..Len(items) |-> f[k]]
    BY <1>7, <1>8
  <2> QED BY <2>1
<1> QED BY <1>7, <1>9

LEMMA TranslatedIsLast ==
    Translated = TranslatedSoFar(Nothing, contents)[Len(contents)].messages
BY DEF Translated, TranslatedSoFar

\* A part's step, field by field.
LEMMA ProcessWords ==
    ASSUME NEW acc \in Bridging, NEW part \in SomeParts
    PROVE  /\ Process(acc, part) \in Bridging /\ Process(acc, part).messages = acc.messages
           /\ Process(acc, part).texts = IF part.type = "text" THEN Append(acc.texts, part.n) ELSE acc.texts
           /\ Process(acc, part).answers =
                 IF part.type = "answer" THEN Append(acc.answers, part) ELSE acc.answers
           /\ part.type # "call" => /\ Process(acc, part).calls = acc.calls
                                    /\ Process(acc, part).pending = acc.pending
                                    /\ Process(acc, part).counts = acc.counts
<1> DEFINE next == Process(acc, part)
<1>1. part.type \in {"text", "call", "answer"}
  BY DEF SomeParts
<1>2. CASE part.type = "text"
  <2>1. next = [acc EXCEPT !.texts = Append(@, part.n)]
    BY <1>2 DEF Process
  <2> HIDE DEF next
  <2>2. /\ next.messages = acc.messages /\ next.texts = Append(acc.texts, part.n)
        /\ next.answers = acc.answers /\ next.calls = acc.calls
        /\ next.pending = acc.pending /\ next.counts = acc.counts
    BY <2>1 DEF Bridging
  <2>3. next \in Bridging
    BY ProcessIs DEF next
  <2> QED BY <1>2, <2>2, <2>3 DEF next
<1>3. CASE part.type = "call"
  <2>1. next = FormatCall(acc, part) /\ next \in Bridging
    BY <1>3, ProcessIs
  <2>2. FormatCall(acc, part).messages = acc.messages /\ FormatCall(acc, part).texts = acc.texts
        /\ FormatCall(acc, part).answers = acc.answers
    BY DEF FormatCall, Bridging
  <2> HIDE DEF next
  <2> QED BY <1>3, <2>1, <2>2 DEF next
<1>4. CASE part.type = "answer"
  <2>1. next = [acc EXCEPT !.answers = Append(@, part)]
    BY <1>4 DEF Process
  <2> HIDE DEF next
  <2>2. /\ next.messages = acc.messages /\ next.texts = acc.texts
        /\ next.answers = Append(acc.answers, part) /\ next.calls = acc.calls
        /\ next.pending = acc.pending /\ next.counts = acc.counts
    BY <2>1 DEF Bridging
  <2>3. next \in Bridging
    BY ProcessIs DEF next
  <2> QED BY <1>4, <2>2, <2>3 DEF next
<1> QED BY <1>1, <1>2, <1>3, <1>4

CallOf(acc, part) == [id |-> IdOf(acc, part), n |-> part.n]

LEMMA ProcessCall ==
    ASSUME NEW acc \in Bridging, NEW part \in SomeParts, part.type = "call"
    PROVE  /\ CallOf(acc, part) \in SentCalls /\ Process(acc, part).calls = Append(acc.calls, CallOf(acc, part))
           /\ \A f \in Functions : Process(acc, part).pending[f] =
                 IF f = part.name THEN Append(acc.pending[f], IdOf(acc, part)) ELSE acc.pending[f]
           /\ \A f \in Functions : Process(acc, part).counts[f] =
                 IF f = part.name /\ part.id = NoId THEN acc.counts[f] + 1 ELSE acc.counts[f]
<1> DEFINE next == FormatCall(acc, part)
           id == IdOf(acc, part)
           counts == [acc.counts EXCEPT ![part.name] = IF part.id # NoId THEN @ ELSE @ + 1]
           pending == [acc.pending EXCEPT ![part.name] = Append(@, id)]
           issued == Append(acc.calls, CallOf(acc, part))
<1>1. Process(acc, part) = next
  BY DEF Process
<1>2. part.n \in Spots /\ id \in Ids
  BY FormatCallIs DEF SomeParts
<1>3. CallOf(acc, part) \in SentCalls
  BY <1>2 DEF SentCalls, CallOf
<1>4. next = [acc EXCEPT !.counts = counts, !.pending = pending, !.calls = issued]
  BY FormatCallIs, Zenon DEF CallOf
<1>5. next.calls = issued /\ next.pending = pending /\ next.counts = counts
  <2> HIDE DEF next, issued, pending, counts
  <2> QED BY <1>4 DEF Bridging
<1>6. \A f \in Functions : pending[f] = IF f = part.name THEN Append(acc.pending[f], id) ELSE acc.pending[f]
  <2> HIDE DEF id
  <2> QED BY BridgingIs
<1>7. \A f \in Functions : counts[f] =
         IF f = part.name /\ part.id = NoId THEN acc.counts[f] + 1 ELSE acc.counts[f]
  BY BridgingIs
<1> HIDE DEF next, issued, pending, counts
<1> QED BY <1>1, <1>3, <1>5, <1>6, <1>7 DEF issued

LEMMA TypeOfPart ==
    ASSUME NEW p \in SomeParts
    PROVE  /\ p.type \in {"text", "call", "answer"} /\ p.n \in Spots /\ p.id \in Ids
           /\ p.type # "text" => p.name \in Functions
BY DEF SomeParts

LEMMA ToSetAppend ==
    ASSUME NEW T, NEW s \in Seq(T), NEW x \in T
    PROVE  ToSet(Append(s, x)) = ToSet(s) \cup {x}
<1>1. \A i \in 1..Len(s) : Append(s, x)[i] = s[i]
  BY AppendIs
<1>2. Append(s, x)[Len(s) + 1] = x /\ Len(s) \in Nat
      /\ DOMAIN Append(s, x) = 1..(Len(s) + 1) /\ DOMAIN s = 1..Len(s)
  BY AppendIs
<1>3. \A i \in 1..(Len(s) + 1) : i \in 1..Len(s) \/ i = Len(s) + 1
  BY <1>2
<1>4. ToSet(Append(s, x)) \subseteq ToSet(s) \cup {x}
  <2> SUFFICES ASSUME NEW i \in 1..(Len(s) + 1) PROVE Append(s, x)[i] \in ToSet(s) \cup {x}
    BY <1>2 DEF ToSet
  <2>1. CASE i \in 1..Len(s)
    BY <1>1, <1>2, <2>1 DEF ToSet
  <2>2. CASE i = Len(s) + 1
    BY <1>2, <2>2
  <2> QED BY <1>3, <2>1, <2>2
<1>5. ToSet(s) \cup {x} \subseteq ToSet(Append(s, x))
  <2>1. \A i \in 1..Len(s) : i \in 1..(Len(s) + 1)
    BY <1>2
  <2>2. Len(s) + 1 \in 1..(Len(s) + 1)
    BY <1>2
  <2>3. \A i \in 1..Len(s) : s[i] \in ToSet(Append(s, x))
    BY <1>1, <1>2, <2>1 DEF ToSet
  <2>4. x \in ToSet(Append(s, x))
    BY <1>2, <2>2 DEF ToSet
  <2> QED BY <1>2, <2>3, <2>4 DEF ToSet
<1> QED BY <1>4, <1>5

LEMMA KeepNext ==
    ASSUME NEW T, NEW S, NEW s \in Seq(T), NEW k \in 1..Len(s)
    PROVE  /\ Keep(SubSeq(s, 1, k - 1), S) \in Seq(T)
           /\ Keep(SubSeq(s, 1, k), S) = IF s[k] \in S THEN Append(Keep(SubSeq(s, 1, k - 1), S), s[k])
                                         ELSE Keep(SubSeq(s, 1, k - 1), S)
<1>1. k - 1 \in 0..Len(s) /\ s[k] \in T
  OBVIOUS
<1>2. SubSeq(s, 1, k - 1) \in Seq(T)
  BY <1>1, FirstOf
<1>3. SubSeq(s, 1, k) = Append(SubSeq(s, 1, k - 1), s[k])
  BY FirstNext
<1>4. Keep(SubSeq(s, 1, k - 1), S) \in Seq(T)
  BY <1>2, KeepType
<1>5. Keep(Append(SubSeq(s, 1, k - 1), s[k]), S) =
         IF s[k] \in S THEN Append(Keep(SubSeq(s, 1, k - 1), S), s[k]) ELSE Keep(SubSeq(s, 1, k - 1), S)
  <2> DEFINE first == SubSeq(s, 1, k - 1)
             next == s[k]
  <2>1. first \in Seq(T) /\ next \in T
    BY <1>1, <1>2
  <2> HIDE DEF first, next
  <2>2. Keep(Append(first, next), S) = IF next \in S THEN Append(Keep(first, S), next) ELSE Keep(first, S)
    BY <2>1, KeepAppend
  <2> QED BY <2>2 DEF first, next
<1> QED BY <1>3, <1>4, <1>5

OfKind(parts, type) == {p \in ToSet(parts) : p.type = type}

LEMMA PartsOfIs == ASSUME NEW item, NEW type PROVE PartsOf(item, type) = Keep(item.parts, OfKind(item.parts, type))
BY DEF PartsOf, OfKind

LEMMA InKind ==
    ASSUME NEW parts \in Seq(SomeParts), NEW k \in 1..Len(parts), NEW type
    PROVE  parts[k] \in OfKind(parts, type) <=> parts[k].type = type
<1>1. k \in DOMAIN parts
  OBVIOUS
<1> QED BY <1>1 DEF OfKind, ToSet

LEMMA KindOf ==
    ASSUME NEW parts \in Seq(SomeParts), NEW type
    PROVE  /\ Keep(parts, OfKind(parts, type)) \in Seq(SomeParts)
           /\ ToSet(Keep(parts, OfKind(parts, type)))
                  = {parts[k] : k \in {j \in 1..Len(parts) : parts[j].type = type}}
<1>1. Keep(parts, OfKind(parts, type)) \in Seq(SomeParts)
  BY KeepType
<1>2. Range(Keep(parts, OfKind(parts, type))) = Range(parts) \cap OfKind(parts, type)
  BY KeepRange
<1>3. ToSet(Keep(parts, OfKind(parts, type))) = ToSet(parts) \cap OfKind(parts, type)
  BY <1>2 DEF Range, ToSet
<1>4. DOMAIN parts = 1..Len(parts)
  OBVIOUS
<1>5. ToSet(parts) \cap OfKind(parts, type) = {parts[k] : k \in {j \in 1..Len(parts) : parts[j].type = type}}
  BY <1>4 DEF OfKind, ToSet
<1> QED BY <1>1, <1>3, <1>5

\* What is collected of the first k parts.
Collects(d, acc, parts, k) ==
    LET said == Keep(SubSeq(parts, 1, k), OfKind(parts, "text"))
    IN  /\ d.messages = acc.messages
        /\ d.answers = Keep(SubSeq(parts, 1, k), OfKind(parts, "answer"))
        /\ Len(d.texts) = Len(said) /\ \A i \in 1..Len(said) : d.texts[i] = said[i].n

LEMMA ProcessedCollects ==
    ASSUME NEW acc \in Bridging, acc.texts = <<>>, acc.answers = <<>>,
           NEW parts \in Seq(SomeParts), NEW k \in 0..Len(parts)
    PROVE  Collects(ProcessedSoFar(acc, parts)[k], acc, parts, k)
<1> DEFINE D == ProcessedSoFar(acc, parts)
           R == {i \in 0..Len(parts) : Collects(D[i], acc, parts, i)}
<1>1. /\ D \in [0..Len(parts) -> Bridging] /\ D[0] = acc
      /\ \A i \in 1..Len(parts) : D[i] = Process(D[i - 1], parts[i])
  BY ProcessedSoFarIs
<1>2. Len(parts) \in Nat /\ 0 \in 0..Len(parts)
  OBVIOUS
<1> HIDE DEF D
<1>3. 0 \in R
  <2>1. SubSeq(parts, 1, 0) = <<>>
    BY FirstNone
  <2>2. \A S : Keep(SubSeq(parts, 1, 0), S) = <<>>
    BY <2>1, KeepEmpty
  <2>3. Len(<<>>) = 0
    OBVIOUS
  <2> QED BY <1>1, <1>2, <2>2, <2>3 DEF Collects
<1>4. ASSUME NEW i \in 1..Len(parts), i - 1 \in R PROVE i \in R
  <2> DEFINE c == D[i - 1]
             p == parts[i]
             d == D[i]
             said == Keep(SubSeq(parts, 1, i - 1), OfKind(parts, "text"))
             heard == Keep(SubSeq(parts, 1, i), OfKind(parts, "text"))
             answers == Keep(SubSeq(parts, 1, i - 1), OfKind(parts, "answer"))
             responses == Keep(SubSeq(parts, 1, i), OfKind(parts, "answer"))
  <2>1. c \in Bridging /\ p \in SomeParts /\ d = Process(c, p) /\ i \in 0..Len(parts)
    BY <1>1, <1>2
  <2>2. /\ said \in Seq(SomeParts)
        /\ heard = IF p.type = "text" THEN Append(said, p) ELSE said
    BY KeepNext, InKind
  <2>3. responses = IF p.type = "answer" THEN Append(answers, p) ELSE answers
    BY KeepNext, InKind
  <2>4. /\ c.messages = acc.messages /\ c.answers = answers /\ Len(c.texts) = Len(said)
        /\ \A j \in 1..Len(said) : c.texts[j] = said[j].n
    BY <1>4 DEF Collects
  <2>5. Collects(d, acc, parts, i) <=>
          /\ d.messages = acc.messages /\ d.answers = responses
          /\ Len(d.texts) = Len(heard) /\ \A j \in 1..Len(heard) : d.texts[j] = heard[j].n
    BY DEF Collects
  <2>6. p.type \in {"text", "call", "answer"} /\ p.n \in Spots /\ c.texts \in Seq(Spots)
    BY <2>1, BridgingIs, TypeOfPart
  <2> HIDE DEF c, p, d, said, heard, answers, responses
  <2>7. CASE p.type = "text"
    <3>1. d.messages = c.messages /\ d.answers = c.answers /\ d.texts = Append(c.texts, p.n)
      BY <2>1, <2>7, ProcessWords
    <3>2. Len(d.texts) = Len(heard) /\ \A j \in 1..Len(heard) : d.texts[j] = heard[j].n
      <4>1. /\ Len(d.texts) = Len(c.texts) + 1 /\ d.texts[Len(c.texts) + 1] = p.n
            /\ \A j \in 1..Len(c.texts) : d.texts[j] = c.texts[j]
        BY <2>6, <3>1, AppendIs
      <4>2. /\ Len(heard) = Len(said) + 1 /\ heard[Len(said) + 1] = p /\ Len(said) \in Nat
            /\ \A j \in 1..Len(said) : heard[j] = said[j]
        BY <2>1, <2>2, <2>7, AppendIs
      <4>3. \A j \in 1..(Len(said) + 1) : j \in 1..Len(said) \/ j = Len(said) + 1
        BY <4>2
      <4> QED BY <2>4, <4>1, <4>2, <4>3
    <3> QED BY <2>1, <2>3, <2>4, <2>5, <2>7, <3>1, <3>2 DEF d
  <2>8. CASE p.type = "call"
    <3>1. d.messages = c.messages /\ d.answers = c.answers /\ d.texts = c.texts
      BY <2>1, <2>8, ProcessWords
    <3> QED BY <2>1, <2>2, <2>3, <2>4, <2>5, <2>8, <3>1 DEF d
  <2>9. CASE p.type = "answer"
    <3>1. d.messages = c.messages /\ d.answers = Append(c.answers, p) /\ d.texts = c.texts
      BY <2>1, <2>9, ProcessWords
    <3> QED BY <2>1, <2>2, <2>3, <2>4, <2>5, <2>9, <3>1 DEF d
  <2> QED BY <2>6, <2>7, <2>8, <2>9
<1>5. \A i \in 0..Len(parts) : i \in R
  <2> HIDE DEF R
  <2> QED BY <1>2, <1>3, <1>4, BoundedInduction
<1> QED BY <1>5 DEF D

\* The calls among the first k parts are drafted, each with its place.
Drafts(d, parts, k) ==
    /\ \A c \in ToSet(d.calls) : \E j \in 1..k : parts[j].type = "call" /\ c.n = parts[j].n
    /\ \A j \in 1..k : parts[j].type = "call" => \E c \in ToSet(d.calls) : c.n = parts[j].n

LEMMA ProcessedDrafts ==
    ASSUME NEW acc \in Bridging, acc.calls = <<>>,
           NEW parts \in Seq(SomeParts), NEW k \in 0..Len(parts)
    PROVE  Drafts(ProcessedSoFar(acc, parts)[k], parts, k)
<1> DEFINE D == ProcessedSoFar(acc, parts)
           R == {i \in 0..Len(parts) : Drafts(D[i], parts, i)}
<1>1. /\ D \in [0..Len(parts) -> Bridging] /\ D[0] = acc
      /\ \A i \in 1..Len(parts) : D[i] = Process(D[i - 1], parts[i])
  BY ProcessedSoFarIs
<1>2. Len(parts) \in Nat /\ 0 \in 0..Len(parts)
  OBVIOUS
<1> HIDE DEF D
<1>3. 0 \in R
  <2>1. ToSet(acc.calls) = {}
    BY DEF ToSet
  <2>2. ~\E j \in 1..0 : TRUE
    OBVIOUS
  <2> QED BY <1>1, <1>2, <2>1, <2>2 DEF Drafts
<1>4. ASSUME NEW i \in 1..Len(parts), i - 1 \in R PROVE i \in R
  <2> DEFINE c == D[i - 1]
             p == parts[i]
             d == D[i]
  <2>1. c \in Bridging /\ p \in SomeParts /\ d = Process(c, p) /\ i \in 0..Len(parts)
    BY <1>1, <1>2
  <2>2. Drafts(c, parts, i - 1)
    BY <1>4
  <2>3. \A j \in 1..i : j \in 1..(i - 1) \/ j = i
    BY <1>2
  <2>4. \A j \in 1..(i - 1) : j \in 1..i
    BY <1>2
  <2>5. p.type \in {"text", "call", "answer"} /\ p.n \in Spots /\ i \in 1..i
    <3>1. i \in 1..i
      BY <1>2
    <3> HIDE DEF p
    <3> QED BY <2>1, <3>1, TypeOfPart
  <2>6. CASE p.type = "call"
    <3> DEFINE call == CallOf(c, p)
    <3>1. d.calls = Append(c.calls, call) /\ call \in SentCalls
      <4> HIDE DEF c, p, d
      <4> QED BY <2>1, <2>6, ProcessCall
    <3>2. call.n = p.n
      BY DEF CallOf
    <3>3. ToSet(d.calls) = ToSet(c.calls) \cup {call}
      <4> HIDE DEF c, p, d, call
      <4> QED BY <2>1, <3>1, BridgingIs, ToSetAppend
    <3>4. Drafts(d, parts, i)
      <4> HIDE DEF c, d, call
      <4> QED BY <2>2, <2>3, <2>4, <2>5, <2>6, <3>2, <3>3 DEF Drafts
    <3> QED BY <2>1, <3>4
  <2>7. CASE p.type # "call"
    <3>1. d.calls = c.calls
      <4> HIDE DEF c, p, d
      <4> QED BY <2>1, <2>7, ProcessWords
    <3>2. Drafts(d, parts, i)
      <4> HIDE DEF c, d
      <4> QED BY <2>2, <2>3, <2>4, <2>7, <3>1 DEF Drafts
    <3> QED BY <2>1, <3>2
  <2> QED BY <2>6, <2>7
<1>5. \A i \in 0..Len(parts) : i \in R
  <2> HIDE DEF R
  <2> QED BY <1>2, <1>3, <1>4, BoundedInduction
<1> QED BY <1>5 DEF D

LEMMA ProcessedWithoutCalls ==
    ASSUME NEW acc \in Bridging, NEW parts \in Seq(SomeParts),
           \A j \in 1..Len(parts) : parts[j].type # "call", NEW k \in 0..Len(parts)
    PROVE  /\ ProcessedSoFar(acc, parts)[k].pending = acc.pending
           /\ ProcessedSoFar(acc, parts)[k].counts = acc.counts
           /\ ProcessedSoFar(acc, parts)[k].calls = acc.calls
<1> DEFINE D == ProcessedSoFar(acc, parts)
           R == {i \in 0..Len(parts) : D[i].pending = acc.pending /\ D[i].counts = acc.counts
                                       /\ D[i].calls = acc.calls}
<1>1. /\ D \in [0..Len(parts) -> Bridging] /\ D[0] = acc
      /\ \A i \in 1..Len(parts) : D[i] = Process(D[i - 1], parts[i])
  BY ProcessedSoFarIs
<1>2. Len(parts) \in Nat /\ 0 \in 0..Len(parts)
  OBVIOUS
<1> HIDE DEF D
<1>3. 0 \in R
  BY <1>1, <1>2
<1>4. ASSUME NEW i \in 1..Len(parts), i - 1 \in R PROVE i \in R
  <2>1. /\ D[i - 1] \in Bridging /\ parts[i] \in SomeParts /\ D[i] = Process(D[i - 1], parts[i])
        /\ i \in 0..Len(parts)
    BY <1>1, <1>2
  <2>2. parts[i].type # "call"
    OBVIOUS
  <2>3. /\ D[i].pending = D[i - 1].pending /\ D[i].counts = D[i - 1].counts
        /\ D[i].calls = D[i - 1].calls
    <3> DEFINE c == D[i - 1]
               p == parts[i]
               d == D[i]
    <3>1. c \in Bridging /\ p \in SomeParts /\ d = Process(c, p) /\ p.type # "call"
      BY <2>1, <2>2
    <3> HIDE DEF c, p, d
    <3>2. d.pending = c.pending /\ d.counts = c.counts /\ d.calls = c.calls
      BY <3>1, ProcessWords
    <3> QED BY <3>2 DEF c, d
  <2> QED BY <1>4, <2>1, <2>3
<1>5. \A i \in 0..Len(parts) : i \in R
  <2> HIDE DEF R
  <2> QED BY <1>2, <1>3, <1>4, BoundedInduction
<1> QED BY <1>5 DEF D

-----------------------------------------------------------------------------
(* The ids. *)

\* The calls have ids of their own: the client's, or the made-up ones so far.
Identified(issued, counts, given) ==
    /\ given => \A c \in issued : c.id = <<"id", c.n>>
    /\ ~given => \A c \in issued : \E f \in Functions : \E k \in 1..counts[f] : c.id = CallId(f, k)
    /\ \A c, d \in issued : c.id = d.id => c = d

LEMMA CallIsIdentified ==
    ASSUME NEW given \in BOOLEAN, NEW acc \in Bridging, NEW part \in SomeParts, part.type = "call",
           part.id = ClientId(part.n, given), NEW issued \in SUBSET SentCalls,
           Identified(issued, acc.counts, given), Distinguishable,
           \A f \in Functions : acc.counts[f] < (MaxCalls + 1) * MaxItems
    PROVE  Identified(issued \cup {CallOf(acc, part)}, Process(acc, part).counts, given)
<1> DEFINE new == CallOf(acc, part)
           counts == Process(acc, part).counts
           next == issued \cup {new}
           name == part.name
           Unlike(c, d) == c.id = d.id => c = d
<1>1. new \in SentCalls /\ new.n = part.n /\ name \in Functions /\ part.n \in Spots
  BY ProcessCall, TypeOfPart DEF CallOf
<1>2. CASE given
  <2>1. part.id = <<"id", part.n>> /\ part.id # NoId
    BY <1>2 DEF ClientId, NoId
  <2>2. new.id = <<"id", new.n>>
    BY <2>1 DEF CallOf, IdOf
  <2>3. \A c \in next : c \in SentCalls /\ c.id = <<"id", c.n>>
    <3> HIDE DEF new
    <3> QED BY <1>1, <1>2, <2>2 DEF Identified
  <2>4. ASSUME NEW c \in next, NEW d \in next, c.id = d.id PROVE c = d
    <3>1. c.n = d.n
      BY <2>3, <2>4
    <3>2. c \in SentCalls /\ d \in SentCalls
      BY <2>3
    <3> QED BY <2>4, <3>1, <3>2 DEF SentCalls
  <2> HIDE DEF next, counts
  <2>5. \A c, d \in next : c.id = d.id => c = d
    BY <2>4
  <2>6. Identified(next, counts, given)
    BY <1>2, <2>3, <2>5, Zenon DEF Identified
  <2> QED BY <2>6 DEF next, counts
<1>3. CASE ~given
  <2>1. part.id = NoId
    BY <1>3 DEF ClientId
  <2>2. new.id = CallId(name, acc.counts[name] + 1)
    BY <2>1 DEF CallOf, IdOf
  <2>3. \A f \in Functions : acc.counts[f] \in Nat
    BY BridgingIs
  <2>4. \A f \in Functions : counts[f] = IF f = name THEN acc.counts[f] + 1 ELSE acc.counts[f]
    BY <2>1, ProcessCall
  <2> HIDE DEF new, counts, name
  <2>5. ASSUME NEW c \in issued PROVE c.id # new.id
    <3>0. PICK f \in Functions : \E k \in 1..acc.counts[f] : c.id = CallId(f, k)
      BY <1>3 DEF Identified
    <3>1. PICK k \in 1..acc.counts[f] : c.id = CallId(f, k)
      BY <3>0
    <3> DEFINE many == 1..((MaxCalls + 1) * MaxItems)
    <3>2. k \in many /\ acc.counts[name] + 1 \in many
      <4> DEFINE most == (MaxCalls + 1) * MaxItems
      <4>1. most \in Nat
        BY RequestAssumption
      <4>2. acc.counts[f] < most /\ acc.counts[name] < most /\ acc.counts[f] \in Nat /\ acc.counts[name] \in Nat
        BY <1>1, <2>3
      <4> HIDE DEF most
      <4>3. k \in 1..most /\ acc.counts[name] + 1 \in 1..most
        BY <4>1, <4>2
      <4> QED BY <4>3 DEF most
    <3>3. CallId(f, k) = CallId(name, acc.counts[name] + 1) => f = name /\ k = acc.counts[name] + 1
      <4> HIDE DEF many
      <4> QED BY <1>1, <3>2 DEF Distinguishable, many
    <3>4. ~(f = name /\ k = acc.counts[name] + 1)
      BY <2>3
    <3> QED BY <2>2, <3>1, <3>3, <3>4
  <2>6. \A c \in next : \E f \in Functions : \E k \in 1..counts[f] : c.id = CallId(f, k)
    <3>1. ASSUME NEW c \in issued PROVE \E f \in Functions : \E k \in 1..counts[f] : c.id = CallId(f, k)
      <4>0. PICK f \in Functions : \E k \in 1..acc.counts[f] : c.id = CallId(f, k)
        BY <1>3 DEF Identified
      <4>1. PICK k \in 1..acc.counts[f] : c.id = CallId(f, k)
        BY <4>0
      <4>2. k \in 1..counts[f]
        BY <2>3, <2>4
      <4> QED BY <4>1, <4>2
    <3>2. \E f \in Functions : \E k \in 1..counts[f] : new.id = CallId(f, k)
      <4>1. acc.counts[name] + 1 \in 1..counts[name]
        BY <1>1, <2>3, <2>4
      <4> QED BY <1>1, <2>2, <4>1
    <3> QED BY <3>1, <3>2
  <2>7. \A c, d \in next : c.id = d.id => c = d
    BY <2>5 DEF Identified
  <2> HIDE DEF next
  <2>8. Identified(next, counts, given)
    BY <1>3, <2>6, <2>7, Zenon DEF Identified
  <2> QED BY <2>8 DEF next, counts, new
<1> QED BY <1>2, <1>3

LEMMA ProcessedIdentified ==
    ASSUME NEW given \in BOOLEAN, NEW acc \in Bridging, acc.calls = <<>>, NEW parts \in Seq(SomeParts),
           \A j \in 1..Len(parts) : parts[j].type = "call" => parts[j].id = ClientId(parts[j].n, given),
           NEW issued \in SUBSET SentCalls, Identified(issued, acc.counts, given), Distinguishable,
           NEW b \in Nat, \A f \in Functions : acc.counts[f] <= b,
           b + Len(parts) <= (MaxCalls + 1) * MaxItems, NEW k \in 0..Len(parts)
    PROVE  /\ Identified(issued \cup ToSet(ProcessedSoFar(acc, parts)[k].calls),
                         ProcessedSoFar(acc, parts)[k].counts, given)
           /\ \A f \in Functions : ProcessedSoFar(acc, parts)[k].counts[f] <= b + k
<1> DEFINE D == ProcessedSoFar(acc, parts)
           Holds(i) == /\ Identified(issued \cup ToSet(D[i].calls), D[i].counts, given)
                       /\ \A f \in Functions : D[i].counts[f] <= b + i
           R == {i \in 0..Len(parts) : Holds(i)}
           most == (MaxCalls + 1) * MaxItems
<1>1. /\ D \in [0..Len(parts) -> Bridging] /\ D[0] = acc
      /\ \A i \in 1..Len(parts) : D[i] = Process(D[i - 1], parts[i])
  BY ProcessedSoFarIs
<1>2. Len(parts) \in Nat /\ 0 \in 0..Len(parts)
  OBVIOUS
<1>3. most \in Nat /\ b + Len(parts) <= most
  BY RequestAssumption
<1> HIDE DEF D, most
<1>4. 0 \in R
  <2>1. ToSet(acc.calls) = {}
    BY DEF ToSet
  <2>2. issued \cup ToSet(acc.calls) = issued
    BY <2>1
  <2>3. \A f \in Functions : acc.counts[f] <= b + 0
    BY BridgingIs
  <2> QED BY <1>1, <1>2, <2>2, <2>3
<1>5. ASSUME NEW i \in 1..Len(parts), i - 1 \in R PROVE i \in R
  <2> DEFINE c == D[i - 1]
             p == parts[i]
             d == D[i]
  <2>1. c \in Bridging /\ p \in SomeParts /\ d = Process(c, p) /\ i \in 0..Len(parts)
    BY <1>1, <1>2
  <2>2. Identified(issued \cup ToSet(c.calls), c.counts, given) /\ \A f \in Functions : c.counts[f] <= b + (i - 1)
    BY <1>5
  <2>3. p.type = "call" => p.id = ClientId(p.n, given)
    OBVIOUS
  <2>4. Identified(issued \cup ToSet(d.calls), d.counts, given) /\ (\A f \in Functions : d.counts[f] <= b + i)
        => i \in R
    BY <2>1
  <2>5. \A f \in Functions : c.counts[f] \in Nat
    BY <2>1, BridgingIs
  <2> HIDE DEF c, p, d, R, Holds
  <2>6. CASE p.type = "call"
    <3>1. ToSet(c.calls) \subseteq SentCalls /\ c.calls \in Seq(SentCalls)
      <4>1. c.calls \in Seq(SentCalls)
        BY <2>1, BridgingIs
      <4> QED BY <4>1 DEF ToSet
    <3>2. \A f \in Functions : c.counts[f] < most
      BY <1>2, <1>3, <2>2, <2>5
    <3>3. CallOf(c, p) \in SentCalls /\ d.calls = Append(c.calls, CallOf(c, p))
      BY <2>1, <2>6, ProcessCall
    <3>4. ToSet(d.calls) = ToSet(c.calls) \cup {CallOf(c, p)}
      BY <3>1, <3>3, ToSetAppend
    <3>5. issued \cup ToSet(c.calls) \in SUBSET SentCalls
      BY <3>1
    <3>6. Identified((issued \cup ToSet(c.calls)) \cup {CallOf(c, p)}, d.counts, given)
      <4> DEFINE known == issued \cup ToSet(c.calls)
      <4>1. known \in SUBSET SentCalls /\ Identified(known, c.counts, given)
        BY <2>2, <3>5
      <4>2. \A f \in Functions : c.counts[f] < (MaxCalls + 1) * MaxItems
        BY <3>2 DEF most
      <4> HIDE DEF known
      <4>3. Identified(known \cup {CallOf(c, p)}, Process(c, p).counts, given)
        BY <2>1, <2>3, <2>6, <4>1, <4>2, CallIsIdentified
      <4> QED BY <2>1, <4>3 DEF known
    <3>7. (issued \cup ToSet(c.calls)) \cup {CallOf(c, p)} = issued \cup ToSet(d.calls)
      BY <3>4
    <3>8. \A f \in Functions : d.counts[f] \in {c.counts[f], c.counts[f] + 1}
      BY <2>1, <2>6, ProcessCall
    <3>9. \A f \in Functions : d.counts[f] <= b + i
      <4>1. \A x \in Nat : x <= b + (i - 1) => x <= b + i /\ x + 1 <= b + i
        BY <1>2
      <4> QED BY <2>2, <2>5, <3>8, <4>1, Zenon
    <3> QED BY <2>4, <3>6, <3>7, <3>9
  <2>7. CASE p.type # "call"
    <3>1. d.calls = c.calls /\ d.counts = c.counts
      BY <2>1, <2>7, ProcessWords
    <3>2. \A f \in Functions : d.counts[f] <= b + i
      BY <1>2, <2>2, <2>5, <3>1
    <3> QED BY <2>2, <2>4, <3>1, <3>2
  <2> QED BY <2>6, <2>7
<1>6. \A i \in 0..Len(parts) : i \in R
  <2> HIDE DEF R
  <2> QED BY <1>2, <1>4, <1>5, BoundedInduction
<1> QED BY <1>6 DEF D

-----------------------------------------------------------------------------
(* The calls of the i-th item that wait for an answer, in their order. *)

Waiting(ids, spots, issued, i) ==
    \E left \in [1..Len(ids) -> spots] :
        /\ \A a, b \in 1..Len(ids) : a < b => left[a] < left[b]
        /\ \A s \in spots : \E a \in 1..Len(ids) : left[a] = s
        /\ \A a \in 1..Len(ids) : [id |-> ids[a], n |-> <<i, left[a]>>] \in issued

LEMMA NoneWait == ASSUME NEW issued, NEW i PROVE Waiting(<<>>, {}, issued, i)
<1>1. Len(<<>>) = 0
  OBVIOUS
<1> DEFINE left == [a \in 1..0 |-> 0]
<1>2. left \in [1..0 -> {}]
  OBVIOUS
<1>3. ~\E a \in 1..0 : TRUE
  OBVIOUS
<1> HIDE DEF left
<1> QED BY <1>1, <1>2, <1>3 DEF Waiting

LEMMA WaitingNone ==
    ASSUME NEW T, NEW ids \in Seq(T), NEW issued, NEW i, Waiting(ids, {}, issued, i) PROVE ids = <<>>
<1>1. PICK left \in [1..Len(ids) -> {}] : TRUE
  BY DEF Waiting
<1>2. Len(ids) = 0
  <2>1. ASSUME Len(ids) # 0 PROVE FALSE
    <3>1. 1 \in 1..Len(ids)
      BY <2>1
    <3>2. left[1] \in {}
      BY <3>1
    <3> QED BY <3>2
  <2> QED BY <2>1
<1> QED BY <1>2

LEMMA WaitingAmongMore ==
    ASSUME NEW ids, NEW spots, NEW issued, NEW i, NEW more, issued \subseteq more,
           Waiting(ids, spots, issued, i)
    PROVE  Waiting(ids, spots, more, i)
BY DEF Waiting

LEMMA WaitingAppend ==
    ASSUME NEW T, NEW ids \in Seq(T), NEW spots \in SUBSET Nat, NEW issued, NEW i \in Nat, NEW id \in T,
           NEW b \in Nat, \A s \in spots : s < b, Waiting(ids, spots, issued, i)
    PROVE  Waiting(Append(ids, id), spots \cup {b}, issued \cup {[id |-> id, n |-> <<i, b>>]}, i)
<1> DEFINE n == Len(ids)
           longer == Append(ids, id)
           all == spots \cup {b}
           known == issued \cup {[id |-> id, n |-> <<i, b>>]}
<1>1. /\ n \in Nat /\ Len(longer) = n + 1 /\ longer[n + 1] = id
      /\ \A a \in 1..n : longer[a] = ids[a]
  BY AppendIs
<1>2. PICK left \in [1..n -> spots] :
          /\ \A x, y \in 1..n : x < y => left[x] < left[y]
          /\ \A s \in spots : \E x \in 1..n : left[x] = s
          /\ \A x \in 1..n : [id |-> ids[x], n |-> <<i, left[x]>>] \in issued
  BY DEF Waiting
<1> HIDE DEF n, longer
<1> DEFINE more == [x \in 1..(n + 1) |-> IF x = n + 1 THEN b ELSE left[x]]
<1>3. \A x \in 1..n : x \in 1..(n + 1) /\ x # n + 1 /\ left[x] \in spots
  BY <1>1
<1>4. n + 1 \in 1..(n + 1) /\ \A x \in 1..(n + 1) : x \in 1..n \/ x = n + 1
  BY <1>1
<1>5. more \in [1..(n + 1) -> all] /\ more[n + 1] = b /\ \A x \in 1..n : more[x] = left[x]
  <2>1. \A x \in 1..n : more[x] = left[x]
    BY <1>3
  <2>2. more[n + 1] = b
    BY <1>4
  <2>3. \A x \in 1..(n + 1) : more[x] \in all
    BY <1>3, <1>4
  <2> QED BY <2>1, <2>2, <2>3
<1> HIDE DEF more
<1>6. ASSUME NEW x \in 1..(n + 1), NEW y \in 1..(n + 1), x < y PROVE more[x] < more[y]
  <2>1. x \in 1..n
    BY <1>1, <1>6
  <2>2. CASE y = n + 1
    BY <1>3, <1>5, <2>1, <2>2
  <2>3. CASE y \in 1..n
    BY <1>2, <1>5, <1>6, <2>1, <2>3
  <2> QED BY <1>4, <2>2, <2>3
<1>7. \A s \in all : \E x \in 1..(n + 1) : more[x] = s
  BY <1>2, <1>3, <1>4, <1>5
<1>8. \A x \in 1..(n + 1) : [id |-> longer[x], n |-> <<i, more[x]>>] \in known
  BY <1>1, <1>2, <1>4, <1>5
<1> HIDE DEF all, known
<1>9. Waiting(longer, all, known, i)
  BY <1>1, <1>5, <1>6, <1>7, <1>8 DEF Waiting
<1> QED BY <1>9 DEF longer, all, known

LEMMA WaitingFirst ==
    ASSUME NEW T, NEW ids \in Seq(T), NEW spots \in SUBSET Nat, NEW issued, NEW i \in Nat,
           NEW b \in spots, \A s \in spots : b <= s, Waiting(ids, spots, issued, i)
    PROVE  /\ ids # <<>> /\ [id |-> Head(ids), n |-> <<i, b>>] \in issued
           /\ Waiting(Tail(ids), spots \ {b}, issued, i)
<1> DEFINE n == Len(ids)
           rest == Tail(ids)
           others == spots \ {b}
<1>1. n \in Nat
  OBVIOUS
<1>2. PICK left \in [1..n -> spots] :
          /\ \A x, y \in 1..n : x < y => left[x] < left[y]
          /\ \A s \in spots : \E x \in 1..n : left[x] = s
          /\ \A x \in 1..n : [id |-> ids[x], n |-> <<i, left[x]>>] \in issued
  BY DEF Waiting
<1>3. PICK z \in 1..n : left[z] = b
  BY <1>2
<1>4. 1 \in 1..n /\ n # 0
  BY <1>1
<1>5. left[1] = b
  <2>1. left[1] \in spots /\ left[1] \in Nat /\ b \in Nat
    BY <1>4
  <2>2. 1 < z => left[1] < b
    BY <1>2, <1>3, <1>4
  <2> QED BY <1>3, <2>1, <2>2
<1>6. ids # <<>> /\ Head(ids) = ids[1] /\ Len(rest) = n - 1 /\ \A x \in 1..(n - 1) : rest[x] = ids[x + 1]
  <2>1. ids # <<>>
    BY <1>4
  <2> QED BY <2>1, HeadAndTail
<1> HIDE DEF n, rest
<1> DEFINE less == [x \in 1..(n - 1) |-> left[x + 1]]
<1>7. \A x \in 1..(n - 1) : x \in 1..n /\ x + 1 \in 1..n /\ 1 < x + 1
  BY <1>1
<1>8. \A x \in 1..(n - 1) : less[x] = left[x + 1]
  OBVIOUS
<1>9. less \in [1..(n - 1) -> others]
  <2>1. ASSUME NEW x \in 1..(n - 1) PROVE left[x + 1] \in others
    <3>1. left[1] < left[x + 1] /\ left[x + 1] \in spots /\ left[x + 1] \in Nat /\ b \in Nat
      BY <1>2, <1>4, <1>7
    <3> QED BY <1>5, <3>1
  <2> HIDE DEF others
  <2> QED BY <2>1
<1> HIDE DEF less
<1>10. \A x, y \in 1..(n - 1) : x < y => less[x] < less[y]
  <2> SUFFICES ASSUME NEW x \in 1..(n - 1), NEW y \in 1..(n - 1), x < y PROVE less[x] < less[y]
    OBVIOUS
  <2>1. x + 1 \in 1..n /\ y + 1 \in 1..n /\ x + 1 < y + 1
    BY <1>7
  <2>2. left[x + 1] < left[y + 1]
    BY <1>2, <2>1
  <2> QED BY <1>8, <2>2
<1>11. ASSUME NEW s \in others PROVE \E x \in 1..(n - 1) : less[x] = s
  <2>1. PICK y \in 1..n : left[y] = s
    BY <1>2
  <2>2. y # 1
    BY <1>5, <2>1
  <2>3. y - 1 \in 1..(n - 1) /\ (y - 1) + 1 = y
    BY <1>1, <2>2
  <2>4. less[y - 1] = s
    BY <1>8, <2>1, <2>3
  <2> QED BY <2>3, <2>4
<1>12. \A x \in 1..(n - 1) : [id |-> rest[x], n |-> <<i, less[x]>>] \in issued
  <2> SUFFICES ASSUME NEW x \in 1..(n - 1) PROVE [id |-> rest[x], n |-> <<i, less[x]>>] \in issued
    OBVIOUS
  <2>1. x + 1 \in 1..n /\ rest[x] = ids[x + 1] /\ less[x] = left[x + 1]
    BY <1>6, <1>7, <1>8
  <2> QED BY <1>2, <2>1
<1> HIDE DEF others
<1>13. Waiting(rest, others, issued, i)
  BY <1>6, <1>9, <1>10, <1>11, <1>12 DEF Waiting
<1>14. [id |-> Head(ids), n |-> <<i, b>>] \in issued
  BY <1>2, <1>4, <1>5, <1>6
<1> QED BY <1>6, <1>13, <1>14 DEF rest, others

CallsOf(parts, k, f) == {j \in 1..k : parts[j].type = "call" /\ parts[j].name = f}

LEMMA ProcessedWaiting ==
    ASSUME NEW acc \in Bridging, \A f \in Functions : acc.pending[f] = <<>>,
           NEW parts \in Seq(SomeParts), NEW i \in Nat,
           \A j \in 1..Len(parts) : parts[j].type = "call" => parts[j].n = <<i, j>>,
           NEW k \in 0..Len(parts), NEW g \in Functions
    PROVE  Waiting(ProcessedSoFar(acc, parts)[k].pending[g], CallsOf(parts, k, g),
                   ToSet(ProcessedSoFar(acc, parts)[k].calls), i)
<1> DEFINE D == ProcessedSoFar(acc, parts)
           Holds(x) == Waiting(D[x].pending[g], CallsOf(parts, x, g), ToSet(D[x].calls), i)
           R == {x \in 0..Len(parts) : Holds(x)}
<1>1. /\ D \in [0..Len(parts) -> Bridging] /\ D[0] = acc
      /\ \A x \in 1..Len(parts) : D[x] = Process(D[x - 1], parts[x])
  BY ProcessedSoFarIs
<1>2. Len(parts) \in Nat /\ 0 \in 0..Len(parts)
  OBVIOUS
<1> HIDE DEF D
<1>3. 0 \in R
  <2>1. CallsOf(parts, 0, g) = {}
    BY DEF CallsOf
  <2>2. Waiting(acc.pending[g], {}, ToSet(acc.calls), i)
    BY NoneWait
  <2> QED BY <1>1, <1>2, <2>1, <2>2
<1>4. ASSUME NEW x \in 1..Len(parts), x - 1 \in R PROVE x \in R
  <2> DEFINE c == D[x - 1]
             p == parts[x]
             d == D[x]
             before == CallsOf(parts, x - 1, g)
             after == CallsOf(parts, x, g)
  <2>1. c \in Bridging /\ p \in SomeParts /\ d = Process(c, p) /\ x \in 0..Len(parts)
    BY <1>1, <1>2
  <2>2. Waiting(c.pending[g], before, ToSet(c.calls), i)
    BY <1>4
  <2>3. Waiting(d.pending[g], after, ToSet(d.calls), i) => x \in R
    BY <2>1
  <2>4. /\ after = IF p.type = "call" /\ p.name = g THEN before \cup {x} ELSE before
        /\ before \in SUBSET Nat /\ \A s \in before : s < x
    <3>1. \A j \in 1..x : j \in 1..(x - 1) \/ j = x
      BY <1>2
    <3>2. \A j \in 1..(x - 1) : j \in 1..x /\ j \in Nat /\ j < x
      BY <1>2
    <3>3. x \in 1..x
      BY <1>2
    <3> QED BY <3>1, <3>2, <3>3 DEF CallsOf
  <2>5. c.pending[g] \in Seq(Ids) /\ c.calls \in Seq(SentCalls) /\ x \in Nat
    BY <1>2, <2>1, BridgingIs
  <2>6. p.type = "call" => p.n = <<i, x>>
    OBVIOUS
  <2> HIDE DEF c, p, d, before, after, R, Holds
  <2>7. CASE p.type = "call"
    <3>1. CallOf(c, p) \in SentCalls /\ d.calls = Append(c.calls, CallOf(c, p))
      BY <2>1, <2>7, ProcessCall
    <3>2. ToSet(d.calls) = ToSet(c.calls) \cup {CallOf(c, p)}
      BY <2>5, <3>1, ToSetAppend
    <3>3. CallOf(c, p) = [id |-> IdOf(c, p), n |-> <<i, x>>] /\ IdOf(c, p) \in Ids
      BY <2>1, <2>6, <2>7, FormatCallIs DEF CallOf
    <3>4. CASE p.name = g
      <4>1. d.pending[g] = Append(c.pending[g], IdOf(c, p))
        BY <2>1, <2>7, <3>4, ProcessCall
      <4>2. Waiting(Append(c.pending[g], IdOf(c, p)), before \cup {x},
                    ToSet(c.calls) \cup {[id |-> IdOf(c, p), n |-> <<i, x>>]}, i)
        <5> DEFINE ids == c.pending[g]
                   id == IdOf(c, p)
        <5>1. ids \in Seq(Ids) /\ id \in Ids /\ Waiting(ids, before, ToSet(c.calls), i)
          BY <2>2, <2>5, <3>3
        <5> HIDE DEF ids, id
        <5>2. Waiting(Append(ids, id), before \cup {x}, ToSet(c.calls) \cup {[id |-> id, n |-> <<i, x>>]}, i)
          BY <2>4, <2>5, <5>1, WaitingAppend
        <5> QED BY <5>2 DEF ids, id
      <4> QED BY <2>3, <2>4, <2>7, <3>2, <3>3, <3>4, <4>1, <4>2
    <3>5. CASE p.name # g
      <4>1. d.pending[g] = c.pending[g]
        BY <2>1, <2>7, <3>5, ProcessCall
      <4>2. Waiting(c.pending[g], before, ToSet(d.calls), i)
        BY <2>2, <3>2, WaitingAmongMore
      <4> QED BY <2>3, <2>4, <3>5, <4>1, <4>2
    <3> QED BY <3>4, <3>5
  <2>8. CASE p.type # "call"
    <3>1. d.calls = c.calls /\ d.pending = c.pending
      BY <2>1, <2>8, ProcessWords
    <3> QED BY <2>2, <2>3, <2>4, <2>8, <3>1
  <2> QED BY <2>7, <2>8
<1>5. \A x \in 0..Len(parts) : x \in R
  <2> HIDE DEF R
  <2> QED BY <1>2, <1>3, <1>4, BoundedInduction
<1> QED BY <1>5 DEF D

-----------------------------------------------------------------------------
(* The messages. *)

TextsOf(messages) == [i \in DOMAIN messages |-> messages[i].texts]
AllSent(messages) == UNION {ToSet(messages[i].calls) : i \in DOMAIN messages}

\* Each answer has the id of a call right before it.
Finds(messages) ==
    \A x \in DOMAIN messages : messages[x].role = "tool" =>
        \E y \in 1..(x - 1) :
            /\ [id |-> messages[x].id, n |-> messages[x].n] \in ToSet(messages[y].calls)
            /\ \A z \in (y + 1)..x : messages[z].role = "tool"

LEMMA MessageIs ==
    ASSUME NEW m \in Sent
    PROVE  m.texts \in Seq(Spots) /\ m.calls \in Seq(SentCalls) /\ m.id \in Ids /\ m.n \in Spots
BY DEF Sent

LEMMA TextsOfType ==
    ASSUME NEW messages \in Seq(Sent) PROVE TextsOf(messages) \in Seq(Seq(Spots))
<1>1. \A i \in 1..Len(messages) : messages[i].texts \in Seq(Spots)
  BY MessageIs
<1>2. TextsOf(messages) \in [1..Len(messages) -> Seq(Spots)]
  BY <1>1 DEF TextsOf
<1>3. Len(messages) \in Nat
  OBVIOUS
<1> QED BY <1>2, <1>3, FunctionIsSeq

LEMMA TextsOfAppend ==
    ASSUME NEW messages \in Seq(Sent), NEW m \in Sent
    PROVE  FlattenSeq(TextsOf(Append(messages, m))) = FlattenSeq(TextsOf(messages)) \o m.texts
<1> DEFINE all == Append(messages, m)
           texts == TextsOf(messages)
           n == Len(messages)
<1>1. /\ all \in Seq(Sent) /\ Len(all) = n + 1 /\ n \in Nat /\ all[n + 1] = m
      /\ \A i \in 1..n : all[i] = messages[i]
  BY AppendIs
<1>2. texts \in Seq(Seq(Spots)) /\ m.texts \in Seq(Spots)
  BY TextsOfType, MessageIs
<1>3. TextsOf(all) \in Seq(Seq(Spots))
  <2> HIDE DEF all
  <2> QED BY <1>1, TextsOfType
<1>4. Len(texts) = n /\ \A i \in 1..n : texts[i] = messages[i].texts
  BY <1>1 DEF TextsOf
<1>5. Len(TextsOf(all)) = n + 1 /\ \A i \in 1..(n + 1) : TextsOf(all)[i] = all[i].texts
  <2> HIDE DEF all, n
  <2>1. DOMAIN all = 1..(n + 1)
    BY <1>1
  <2>2. TextsOf(all) = [i \in 1..(n + 1) |-> all[i].texts]
    BY <2>1 DEF TextsOf
  <2> QED BY <1>1, <2>2
<1>6. /\ Append(texts, m.texts) \in Seq(Seq(Spots)) /\ Len(Append(texts, m.texts)) = n + 1
      /\ Append(texts, m.texts)[n + 1] = m.texts
      /\ \A i \in 1..n : Append(texts, m.texts)[i] = texts[i]
  <2> HIDE DEF texts, n
  <2> QED BY <1>2, <1>4, AppendIs
<1> HIDE DEF all, texts, n
<1>7. TextsOf(all) = Append(texts, m.texts)
  <2> DEFINE s == TextsOf(all)
             t == Append(texts, m.texts)
  <2>1. \A i \in 1..(n + 1) : i \in 1..n \/ i = n + 1
    BY <1>1
  <2>2. \A i \in 1..(n + 1) : s[i] = t[i]
    <3> HIDE DEF s, t
    <3> QED BY <1>1, <1>4, <1>5, <1>6, <2>1 DEF s, t
  <2>3. s \in Seq(Seq(Spots)) /\ t \in Seq(Seq(Spots)) /\ Len(s) = n + 1 /\ Len(t) = n + 1
    BY <1>3, <1>5, <1>6
  <2> HIDE DEF s, t
  <2>4. s = [i \in 1..(n + 1) |-> s[i]] /\ t = [i \in 1..(n + 1) |-> t[i]]
    BY <2>3
  <2>5. s = t
    BY <2>2, <2>4
  <2> QED BY <2>5 DEF s, t
<1>8. FlattenSeq(Append(texts, m.texts)) = FlattenSeq(texts) \o m.texts
  BY <1>2, FlattenAppend
<1> QED BY <1>7, <1>8 DEF all, texts

LEMMA AllSentAppend ==
    ASSUME NEW messages \in Seq(Sent), NEW m \in Sent
    PROVE  AllSent(Append(messages, m)) = AllSent(messages) \cup ToSet(m.calls)
<1> DEFINE all == Append(messages, m)
           n == Len(messages)
<1>1. /\ all \in Seq(Sent) /\ Len(all) = n + 1 /\ n \in Nat /\ all[n + 1] = m
      /\ \A i \in 1..n : all[i] = messages[i]
  BY AppendIs
<1>2. DOMAIN messages = 1..n
  OBVIOUS
<1> HIDE DEF all, n
<1>3. DOMAIN all = 1..(n + 1) /\ (\A i \in 1..(n + 1) : i \in 1..n \/ i = n + 1)
      /\ n + 1 \in 1..(n + 1) /\ \A i \in 1..n : i \in 1..(n + 1)
  BY <1>1
<1>4. AllSent(all) = AllSent(messages) \cup ToSet(m.calls)
  BY <1>1, <1>2, <1>3 DEF AllSent
<1> QED BY <1>4 DEF all

LEMMA FindsAppend ==
    ASSUME NEW messages \in Seq(Sent), Finds(messages), NEW m \in Sent,
           \/ m.role # "tool"
           \/ \E y \in 1..Len(messages) :
                 /\ [id |-> m.id, n |-> m.n] \in ToSet(messages[y].calls)
                 /\ \A z \in (y + 1)..Len(messages) : messages[z].role = "tool"
    PROVE  Finds(Append(messages, m))
<1> DEFINE all == Append(messages, m)
           k == Len(messages)
<1>1. /\ all \in Seq(Sent) /\ Len(all) = k + 1 /\ k \in Nat /\ all[k + 1] = m
      /\ \A i \in 1..k : all[i] = messages[i]
  BY AppendIs
<1>2. DOMAIN messages = 1..k /\ DOMAIN all = 1..(k + 1)
  BY <1>1
<1> HIDE DEF all
<1> SUFFICES ASSUME NEW x \in 1..(k + 1), all[x].role = "tool"
             PROVE  \E y \in 1..(x - 1) :
                        /\ [id |-> all[x].id, n |-> all[x].n] \in ToSet(all[y].calls)
                        /\ \A z \in (y + 1)..x : all[z].role = "tool"
  BY <1>2 DEF Finds, all
<1>3. CASE x \in 1..k
  <2>1. all[x] = messages[x] /\ messages[x].role = "tool"
    BY <1>1, <1>3
  <2>2. PICK y \in 1..(x - 1) :
            /\ [id |-> messages[x].id, n |-> messages[x].n] \in ToSet(messages[y].calls)
            /\ \A z \in (y + 1)..x : messages[z].role = "tool"
    BY <1>2, <1>3, <2>1 DEF Finds
  <2>3. y \in 1..k /\ \A z \in (y + 1)..x : z \in 1..k
    BY <1>1, <1>3
  <2> QED BY <1>1, <2>1, <2>2, <2>3
<1>4. CASE x = k + 1
  <2>1. all[x] = m /\ m.role = "tool"
    BY <1>1, <1>4
  <2>2. PICK y \in 1..k : /\ [id |-> m.id, n |-> m.n] \in ToSet(messages[y].calls)
                          /\ \A z \in (y + 1)..k : messages[z].role = "tool"
    BY <2>1
  <2>3. y \in 1..(x - 1) /\ all[y] = messages[y]
    BY <1>1, <1>4
  <2>4. ASSUME NEW z \in (y + 1)..x PROVE all[z].role = "tool"
    <3>1. CASE z = k + 1
      BY <1>1, <1>4, <2>1, <3>1
    <3>2. CASE z # k + 1
      <4>1. z \in (y + 1)..k /\ z \in 1..k
        BY <1>1, <1>4, <3>2
      <4> QED BY <1>1, <2>2, <4>1
    <3> QED BY <3>1, <3>2
  <2> QED BY <2>1, <2>2, <2>3, <2>4
<1> QED BY <1>1, <1>3, <1>4

LEMMA AnswerWords ==
    ASSUME NEW acc \in Bridging, NEW part \in AnswerParts
    PROVE  /\ AnswerCall(acc, part) \in Bridging /\ AnswerCall(acc, part).counts = acc.counts
           /\ AnswerCall(acc, part).calls = acc.calls
           /\ ToolMessage(AnswerId(acc, part), part.n) \in Sent
           /\ AnswerCall(acc, part).messages = Append(acc.messages, ToolMessage(AnswerId(acc, part), part.n))
           /\ \A f \in Functions : AnswerCall(acc, part).pending[f] =
                 IF f = part.name /\ part.id = NoId /\ acc.pending[f] # <<>>
                 THEN Tail(acc.pending[f]) ELSE acc.pending[f]
<1> DEFINE next == AnswerCall(acc, part)
           pending == [acc.pending EXCEPT ![part.name] = IF part.id # NoId \/ @ = <<>> THEN @ ELSE Tail(@)]
           messages == Append(acc.messages, ToolMessage(AnswerId(acc, part), part.n))
<1>1. next = [acc EXCEPT !.pending = pending, !.messages = messages]
  BY AnswerCallIs, Zenon
<1>2. next \in Bridging /\ ToolMessage(AnswerId(acc, part), part.n) \in Sent
  BY AnswerCallIs
<1>3. \A f \in Functions : pending[f] =
                 IF f = part.name /\ part.id = NoId /\ acc.pending[f] # <<>>
                 THEN Tail(acc.pending[f]) ELSE acc.pending[f]
  BY BridgingIs
<1> HIDE DEF next, pending, messages
<1>4. next.counts = acc.counts /\ next.calls = acc.calls /\ next.messages = messages /\ next.pending = pending
  BY <1>1 DEF Bridging
<1> QED BY <1>2, <1>3, <1>4 DEF next, messages

LEMMA ToolMessageIs ==
    ASSUME NEW id, NEW n
    PROVE  /\ ToolMessage(id, n).role = "tool" /\ ToolMessage(id, n).texts = <<>>
           /\ ToolMessage(id, n).calls = <<>> /\ ToolMessage(id, n).id = id /\ ToolMessage(id, n).n = n
BY DEF ToolMessage

\* Answers add nothing to what was said and called.
LEMMA AnsweredKeeps ==
    ASSUME NEW acc \in Bridging, NEW answers \in Seq(AnswerParts), NEW k \in 0..Len(answers)
    PROVE  /\ AnsweredSoFar(acc, answers)[k].counts = acc.counts
           /\ AnsweredSoFar(acc, answers)[k].calls = acc.calls
           /\ AllSent(AnsweredSoFar(acc, answers)[k].messages) = AllSent(acc.messages)
           /\ FlattenSeq(TextsOf(AnsweredSoFar(acc, answers)[k].messages)) = FlattenSeq(TextsOf(acc.messages))
<1> DEFINE D == AnsweredSoFar(acc, answers)
           Holds(d) == /\ d.counts = acc.counts /\ d.calls = acc.calls
                       /\ AllSent(d.messages) = AllSent(acc.messages)
                       /\ FlattenSeq(TextsOf(d.messages)) = FlattenSeq(TextsOf(acc.messages))
           R == {i \in 0..Len(answers) : Holds(D[i])}
<1>1. /\ D \in [0..Len(answers) -> Bridging] /\ D[0] = acc
      /\ \A i \in 1..Len(answers) : D[i] = AnswerCall(D[i - 1], answers[i])
  BY AnsweredSoFarIs
<1>2. Len(answers) \in Nat /\ 0 \in 0..Len(answers)
  OBVIOUS
<1> HIDE DEF D
<1>3. 0 \in R
  BY <1>1, <1>2
<1>4. ASSUME NEW i \in 1..Len(answers), i - 1 \in R PROVE i \in R
  <2> DEFINE c == D[i - 1]
             p == answers[i]
             d == D[i]
             m == ToolMessage(AnswerId(c, p), p.n)
  <2>1. c \in Bridging /\ p \in AnswerParts /\ d = AnswerCall(c, p) /\ i \in 0..Len(answers)
    BY <1>1, <1>2
  <2>2. Holds(c)
    BY <1>4
  <2>3. Holds(d) => i \in R
    BY <2>1
  <2>4. c.messages \in Seq(Sent)
    BY <2>1, BridgingIs
  <2> HIDE DEF c, p, d, R
  <2>5. m \in Sent /\ d.messages = Append(c.messages, m) /\ d.counts = c.counts /\ d.calls = c.calls
    BY <2>1, AnswerWords
  <2>6. m.texts = <<>> /\ m.calls = <<>>
    BY ToolMessageIs
  <2> HIDE DEF m
  <2>7. AllSent(d.messages) = AllSent(c.messages)
    <3>1. ToSet(m.calls) = {}
      BY <2>6 DEF ToSet
    <3> QED BY <2>4, <2>5, <3>1, AllSentAppend
  <2>8. FlattenSeq(TextsOf(d.messages)) = FlattenSeq(TextsOf(c.messages))
    <3> DEFINE said == FlattenSeq(TextsOf(c.messages))
               none == <<>>
    <3>1. said \in Seq(Spots)
      BY <2>4, TextsOfType, FlattenType
    <3>2. FlattenSeq(TextsOf(d.messages)) = said \o m.texts
      BY <2>4, <2>5, TextsOfAppend
    <3> HIDE DEF said
    <3>3. said \o none = said
      BY <3>1
    <3> QED BY <2>6, <3>2, <3>3 DEF said
  <2> QED BY <2>2, <2>3, <2>5, <2>7, <2>8
<1>5. \A i \in 0..Len(answers) : i \in R
  <2> HIDE DEF R
  <2> QED BY <1>2, <1>3, <1>4, BoundedInduction
<1> QED BY <1>5 DEF D

\* The answers, in an order that is that of the calls for each function.
InOrder(order, answers, parts, both) ==
    /\ order \in [1..Len(answers) -> {j \in 1..Len(parts) : parts[j].type = "call"}]
    /\ \A a, b \in 1..Len(answers) : order[a] = order[b] => a = b
    /\ \A j \in 1..Len(parts) : parts[j].type = "call" => \E a \in 1..Len(answers) : order[a] = j
    /\ \A a, b \in 1..Len(answers) :
          a < b /\ parts[order[a]].name = parts[order[b]].name => order[a] < order[b]
    /\ \A a \in 1..Len(answers) :
          answers[a] = Part("answer", parts[order[a]].name, ClientId(parts[order[a]].n, both), parts[order[a]].n)

Unanswered(order, parts, f, k) == CallsOf(parts, Len(parts), f) \ {order[a] : a \in 1..k}

\* The first k answers have found their calls, and the other calls wait.
Answering(d, acc, order, parts, i, both, k) ==
    LET last == Len(acc.messages)
    IN  /\ Finds(d.messages) /\ Len(d.messages) = last + k
        /\ d.messages[last] = acc.messages[last]
        /\ \A z \in (last + 1)..(last + k) : d.messages[z].role = "tool"
        /\ ~both => \A f \in Functions : Waiting(d.pending[f], Unanswered(order, parts, f, k),
                                                 ToSet(acc.messages[last].calls), i)

\* The k-th answer is to the first call of its function that waits.
AnswersFirst(order, parts, answers, both, k) ==
    /\ order[k] \in 1..Len(parts) /\ parts[order[k]].type = "call" /\ answers[k].n = parts[order[k]].n
    /\ answers[k].name = parts[order[k]].name /\ answers[k].name \in Functions
    /\ answers[k].id = ClientId(parts[order[k]].n, both)
    /\ order[k] \in Unanswered(order, parts, answers[k].name, k - 1)
    /\ \A s \in Unanswered(order, parts, answers[k].name, k - 1) : order[k] <= s
    /\ Unanswered(order, parts, answers[k].name, k) =
          Unanswered(order, parts, answers[k].name, k - 1) \ {order[k]}
    /\ \A g \in Functions \ {answers[k].name} :
          Unanswered(order, parts, g, k) = Unanswered(order, parts, g, k - 1)

LEMMA NextUnanswered ==
    ASSUME NEW parts \in Seq(SomeParts), NEW answers \in Seq(AnswerParts), NEW order, NEW both,
           InOrder(order, answers, parts, both), NEW k \in 1..Len(answers)
    PROVE  AnswersFirst(order, parts, answers, both, k)
<1> DEFINE j == order[k]
           f == parts[j].name
<1>1. /\ Len(answers) \in Nat /\ k \in Nat /\ k \in 1..k
      /\ (\A a \in 1..k : a \in 1..(k - 1) \/ a = k) /\ \A a \in 1..(k - 1) : a \in 1..k /\ a \in 1..Len(answers) /\ a # k
  OBVIOUS
<1>2. j \in 1..Len(parts) /\ parts[j].type = "call"
  BY DEF InOrder
<1>3. parts[j] \in SomeParts
  BY <1>2
<1>4. f \in Functions
  <2> HIDE DEF j
  <2> QED BY <1>2, <1>3, TypeOfPart
<1>5. answers[k] = Part("answer", f, ClientId(parts[j].n, both), parts[j].n)
  BY DEF InOrder
<1>6. answers[k].name = f /\ answers[k].n = parts[j].n /\ answers[k].id = ClientId(parts[j].n, both)
  <2> HIDE DEF f, j
  <2> QED BY <1>5 DEF Part
<1>7. \A a \in 1..(k - 1) : order[a] # j
  BY <1>1 DEF InOrder
<1>8. j \in Unanswered(order, parts, f, k - 1)
  <2> HIDE DEF j
  <2> QED BY <1>2, <1>7 DEF Unanswered, CallsOf, f
<1>9. ASSUME NEW s \in Unanswered(order, parts, f, k - 1) PROVE j <= s
  <2>1. s \in 1..Len(parts) /\ parts[s].type = "call" /\ parts[s].name = f /\ ~\E a \in 1..(k - 1) : order[a] = s
    BY DEF Unanswered, CallsOf
  <2>2. PICK a \in 1..Len(answers) : order[a] = s
    BY <2>1 DEF InOrder
  <2>3. a = k \/ k < a
    BY <1>1, <2>1, <2>2
  <2>4. CASE a = k
    BY <1>2, <2>2, <2>4
  <2>5. CASE k < a
    <3>1. order[k] < order[a]
      BY <2>1, <2>2, <2>5 DEF InOrder
    <3> QED BY <1>2, <2>1, <2>2, <3>1
  <2> QED BY <2>3, <2>4, <2>5
<1>10. {order[a] : a \in 1..k} = {order[a] : a \in 1..(k - 1)} \cup {j}
  BY <1>1
<1>11. Unanswered(order, parts, f, k) = Unanswered(order, parts, f, k - 1) \ {j}
  <2> HIDE DEF f, j
  <2> QED BY <1>10 DEF Unanswered
<1>12. ASSUME NEW g \in Functions \ {f} PROVE Unanswered(order, parts, g, k) = Unanswered(order, parts, g, k - 1)
  <2>1. j \notin CallsOf(parts, Len(parts), g)
    BY DEF CallsOf
  <2> HIDE DEF f, j
  <2> QED BY <1>10, <2>1 DEF Unanswered
<1>13. answers[k].name = f /\ answers[k].name = parts[j].name
  BY <1>6
<1> HIDE DEF f, j
<1> QED BY <1>2, <1>4, <1>6, <1>8, <1>9, <1>11, <1>12, <1>13 DEF j, AnswersFirst

LEMMA UnansweredSpots ==
    ASSUME NEW order, NEW parts \in Seq(SomeParts), NEW f, NEW k
    PROVE  Unanswered(order, parts, f, k) \in SUBSET Nat
BY DEF Unanswered, CallsOf

LEMMA AnsweredFinds ==
    ASSUME NEW acc \in Bridging, acc.messages # <<>>, Finds(acc.messages),
           NEW parts \in Seq(SomeParts), NEW i \in Nat,
           \A j \in 1..Len(parts) : parts[j].type = "call" => parts[j].n = <<i, j>>,
           NEW answers \in Seq(AnswerParts), NEW both \in BOOLEAN, NEW order,
           InOrder(order, answers, parts, both),
           both => \A j \in 1..Len(parts) : parts[j].type = "call" =>
                      [id |-> <<"id", <<i, j>>>>, n |-> <<i, j>>] \in ToSet(acc.messages[Len(acc.messages)].calls),
           ~both => \A f \in Functions : Waiting(acc.pending[f], CallsOf(parts, Len(parts), f),
                                                 ToSet(acc.messages[Len(acc.messages)].calls), i),
           NEW k \in 0..Len(answers)
    PROVE  Answering(AnsweredSoFar(acc, answers)[k], acc, order, parts, i, both, k)
<1> DEFINE D == AnsweredSoFar(acc, answers)
           R == {x \in 0..Len(answers) : Answering(D[x], acc, order, parts, i, both, x)}
           last == Len(acc.messages)
           issued == ToSet(acc.messages[last].calls)
<1>1. /\ D \in [0..Len(answers) -> Bridging] /\ D[0] = acc
      /\ \A x \in 1..Len(answers) : D[x] = AnswerCall(D[x - 1], answers[x])
  BY AnsweredSoFarIs
<1>2. Len(answers) \in Nat /\ 0 \in 0..Len(answers)
  OBVIOUS
<1>3. last \in Nat /\ last # 0
  <2>1. acc.messages \in Seq(Sent)
    BY BridgingIs
  <2> QED BY <2>1
<1> HIDE DEF D
<1>4. 0 \in R
  <2>1. \A f \in Functions : Unanswered(order, parts, f, 0) = CallsOf(parts, Len(parts), f)
    BY DEF Unanswered
  <2>2. last + 0 = last /\ ~\E z \in (last + 1)..(last + 0) : TRUE
    BY <1>3
  <2>3. Answering(acc, acc, order, parts, i, both, 0)
    BY <2>1, <2>2 DEF Answering
  <2> QED BY <1>1, <1>2, <2>3
<1>5. ASSUME NEW x \in 1..Len(answers), x - 1 \in R PROVE x \in R
  <2> DEFINE c == D[x - 1]
             p == answers[x]
             d == D[x]
             j == order[x]
             f == p.name
             m == ToolMessage(AnswerId(c, p), p.n)
  <2>1. c \in Bridging /\ p \in AnswerParts /\ d = AnswerCall(c, p) /\ x \in 0..Len(answers)
    BY <1>1, <1>2
  <2>2. Answering(c, acc, order, parts, i, both, x - 1)
    BY <1>5
  <2>3. Answering(d, acc, order, parts, i, both, x) => x \in R
    BY <2>1
  <2>4. /\ Finds(c.messages) /\ Len(c.messages) = last + (x - 1) /\ c.messages[last] = acc.messages[last]
        /\ \A z \in (last + 1)..(last + (x - 1)) : c.messages[z].role = "tool"
        /\ ~both => \A g \in Functions : Waiting(c.pending[g], Unanswered(order, parts, g, x - 1), issued, i)
    <3> HIDE DEF c
    <3> QED BY <2>2 DEF Answering
  <2>5. /\ j \in 1..Len(parts) /\ parts[j].type = "call" /\ f \in Functions
        /\ p.n = parts[j].n /\ p.id = ClientId(parts[j].n, both)
        /\ j \in Unanswered(order, parts, f, x - 1)
        /\ \A s \in Unanswered(order, parts, f, x - 1) : j <= s
        /\ Unanswered(order, parts, f, x) = Unanswered(order, parts, f, x - 1) \ {j}
        /\ \A g \in Functions \ {f} : Unanswered(order, parts, g, x) = Unanswered(order, parts, g, x - 1)
    <3>1. AnswersFirst(order, parts, answers, both, x)
      BY NextUnanswered
    <3> QED BY <3>1, Zenon DEF AnswersFirst
  <2>6. parts[j].n = <<i, j>>
    BY <2>5
  <2>7. Finds(d.messages) /\ Len(d.messages) = last + x /\ d.messages[last] = acc.messages[last]
        /\ (\A z \in (last + 1)..(last + x) : d.messages[z].role = "tool")
        /\ (~both => \A g \in Functions : Waiting(d.pending[g], Unanswered(order, parts, g, x), issued, i))
        => x \in R
    <3> HIDE DEF d, R
    <3> QED BY <2>3, Zenon DEF Answering
  <2>8. c.messages \in Seq(Sent) /\ \A g \in Functions : c.pending[g] \in Seq(Ids)
    BY <2>1, BridgingIs
  <2> HIDE DEF d, R, issued, j, c, p
  <2>16. f = p.name
    OBVIOUS
  <2> HIDE DEF f
  <2>9. m \in Sent /\ d.messages = Append(c.messages, m)
    BY <2>1, AnswerWords
  <2>10. m.role = "tool" /\ m.id = AnswerId(c, p) /\ m.n = <<i, j>>
    BY <2>5, <2>6, ToolMessageIs
  <2> HIDE DEF m
  <2>11. ~both => c.pending[f] # <<>> /\ [id |-> Head(c.pending[f]), n |-> <<i, j>>] \in issued
                  /\ Waiting(Tail(c.pending[f]), Unanswered(order, parts, f, x - 1) \ {j}, issued, i)
    <3> SUFFICES ASSUME ~both
                 PROVE  c.pending[f] # <<>> /\ [id |-> Head(c.pending[f]), n |-> <<i, j>>] \in issued
                        /\ Waiting(Tail(c.pending[f]), Unanswered(order, parts, f, x - 1) \ {j}, issued, i)
      OBVIOUS
    <3> DEFINE ids == c.pending[f]
               left == Unanswered(order, parts, f, x - 1)
    <3>1. ids \in Seq(Ids) /\ left \in SUBSET Nat /\ Waiting(ids, left, issued, i) /\ j \in left
          /\ \A s \in left : j <= s
      BY <2>4, <2>5, <2>8, UnansweredSpots
    <3> HIDE DEF ids, left
    <3>2. ids # <<>> /\ [id |-> Head(ids), n |-> <<i, j>>] \in issued /\ Waiting(Tail(ids), left \ {j}, issued, i)
      BY <3>1, WaitingFirst
    <3> QED BY <3>2 DEF ids, left
  <2>12. [id |-> m.id, n |-> m.n] \in issued
    <3>1. CASE both
      <4>1. p.id = <<"id", <<i, j>>>> /\ p.id # NoId
        BY <2>5, <2>6, <3>1 DEF ClientId, NoId
      <4>2. m.id = <<"id", <<i, j>>>>
        BY <2>10, <4>1 DEF AnswerId
      <4>3. [id |-> <<"id", <<i, j>>>>, n |-> <<i, j>>] \in issued
        BY <2>5, <3>1 DEF issued
      <4> QED BY <2>10, <4>2, <4>3
    <3>2. CASE ~both
      <4>1. p.id = NoId
        BY <2>5, <3>2 DEF ClientId
      <4>2. m.id = Head(c.pending[f])
        BY <2>5, <2>10, <2>11, <2>16, <3>2, <4>1 DEF AnswerId
      <4> QED BY <2>10, <2>11, <3>2, <4>2
    <3> QED BY <3>1, <3>2
  <2>13. Finds(d.messages)
    <3>1. last \in 1..Len(c.messages) /\ Len(c.messages) = last + (x - 1)
      BY <1>2, <1>3, <2>4
    <3>2. [id |-> m.id, n |-> m.n] \in ToSet(c.messages[last].calls)
      BY <2>4, <2>12 DEF issued
    <3>3. \E y \in 1..Len(c.messages) :
             /\ [id |-> m.id, n |-> m.n] \in ToSet(c.messages[y].calls)
             /\ \A z \in (y + 1)..Len(c.messages) : c.messages[z].role = "tool"
      BY <2>4, <3>1, <3>2
    <3> QED BY <2>4, <2>8, <2>9, <3>3, FindsAppend
  <2>14. Len(d.messages) = last + x /\ d.messages[last] = acc.messages[last]
         /\ \A z \in (last + 1)..(last + x) : d.messages[z].role = "tool"
    <3>1. /\ Len(d.messages) = Len(c.messages) + 1 /\ d.messages[Len(c.messages) + 1] = m
          /\ \A z \in 1..Len(c.messages) : d.messages[z] = c.messages[z]
      BY <2>8, <2>9, AppendIs
    <3>2. /\ Len(c.messages) + 1 = last + x /\ last \in 1..Len(c.messages)
          /\ \A z \in (last + 1)..(last + x) :
                z = last + x \/ (z \in (last + 1)..(last + (x - 1)) /\ z \in 1..Len(c.messages))
      <4> DEFINE many == Len(c.messages)
      <4>1. many = last + (x - 1) /\ x \in Nat \ {0}
        BY <1>2, <2>4
      <4> HIDE DEF last, many
      <4>2. last \in Nat \ {0}
        BY <1>3
      <4>3. many + 1 = last + x /\ last \in 1..many
        BY <4>1, <4>2
      <4>4. ASSUME NEW z \in (last + 1)..(last + x), z # last + x
            PROVE  z \in (last + 1)..(last + (x - 1)) /\ z \in 1..many
        BY <4>1, <4>2, <4>4
      <4> QED BY <4>3, <4>4 DEF many
    <3> QED BY <2>4, <2>10, <3>1, <3>2
  <2>15. ASSUME ~both, NEW g \in Functions PROVE Waiting(d.pending[g], Unanswered(order, parts, g, x), issued, i)
    <3>1. p.id = NoId
      BY <2>5, <2>15 DEF ClientId
    <3>2. d.pending[g] = IF g = p.name /\ p.id = NoId /\ c.pending[g] # <<>>
                         THEN Tail(c.pending[g]) ELSE c.pending[g]
      BY <2>1, AnswerWords
    <3>3. CASE g = f
      <4>1. d.pending[g] = Tail(c.pending[f])
        BY <2>5, <2>11, <2>15, <2>16, <3>1, <3>2, <3>3
      <4> QED BY <2>5, <2>11, <2>15, <3>3, <4>1
    <3>4. CASE g # f
      <4>1. d.pending[g] = c.pending[g]
        BY <2>5, <2>16, <3>2, <3>4
      <4> QED BY <2>4, <2>5, <2>15, <3>4, <4>1
    <3> QED BY <3>3, <3>4
  <2> QED BY <2>7, <2>13, <2>14, <2>15
<1>6. \A x \in 0..Len(answers) : x \in R
  <2> HIDE DEF R
  <2> QED BY <1>2, <1>4, <1>5, BoundedInduction
<1> QED BY <1>6 DEF D

-----------------------------------------------------------------------------
(* What an item becomes. *)

LEMMA WholeIsFirstAll ==
    ASSUME NEW T, NEW s \in Seq(T) PROVE SubSeq(s, 1, Len(s)) = s /\ Len(s) \in Nat /\ Len(s) \in 0..Len(s)
BY FirstAll

LEMMA PlacesOf ==
    ASSUME NEW item \in SomeItems
    PROVE  /\ item.parts \in Seq(SomeParts)
           /\ PartsOf(item, "answer") \in Seq(AnswerParts) /\ PartsOf(item, "text") \in Seq(SomeParts)
           /\ AnswersIn(item) = {} <=> PartsOf(item, "answer") = <<>>
           /\ AnswersIn(item) = {} <=> \A j \in 1..Len(item.parts) : item.parts[j].type # "answer"
           /\ CallsIn(item) = {item.parts[j].n : j \in {h \in 1..Len(item.parts) : item.parts[h].type = "call"}}
<1> DEFINE parts == item.parts
           answers == PartsOf(item, "answer")
           OfType(type) == {parts[k] : k \in {j \in 1..Len(parts) : parts[j].type = type}}
<1>1. parts \in Seq(SomeParts)
  BY DEF SomeItems
<1>2. \A type : PartsOf(item, type) = Keep(parts, OfKind(parts, type))
  BY PartsOfIs
<1>3. \A type : PartsOf(item, type) \in Seq(SomeParts) /\ ToSet(PartsOf(item, type)) = OfType(type)
  <2> HIDE DEF parts
  <2> QED BY <1>1, <1>2, KindOf
<1>4. answers \in Seq(AnswerParts)
  <2>1. answers \in Seq(SomeParts) /\ ToSet(answers) = OfType("answer")
    BY <1>3
  <2> HIDE DEF answers
  <2>2. \A i \in 1..Len(answers) : answers[i] \in SomeParts /\ answers[i] \in ToSet(answers)
    BY <2>1 DEF ToSet
  <2>3. \A p \in OfType("answer") : p.type = "answer"
    OBVIOUS
  <2>4. \A i \in 1..Len(answers) : answers[i] \in AnswerParts
    BY <2>1, <2>2, <2>3 DEF AnswerParts
  <2>5. answers \in [1..Len(answers) -> AnswerParts] /\ Len(answers) \in Nat
    BY <2>1, <2>4
  <2> QED BY <2>5, FunctionIsSeq
<1>5. answers = <<>> <=> ToSet(answers) = {}
  <2> HIDE DEF answers
  <2>1. ASSUME answers # <<>> PROVE answers[1] \in ToSet(answers)
    <3>1. 1 \in DOMAIN answers
      BY <1>4, <2>1
    <3> QED BY <3>1 DEF ToSet
  <2>2. answers = <<>> => ToSet(answers) = {}
    BY DEF ToSet
  <2> QED BY <2>1, <2>2
<1>6. AnswersIn(item) = {} <=> ToSet(answers) = {}
  BY DEF AnswersIn
<1>7. OfType("answer") = {} <=> \A j \in 1..Len(parts) : parts[j].type # "answer"
  OBVIOUS
<1>8. CallsIn(item) = {p.n : p \in OfType("call")}
  BY <1>3 DEF CallsIn
<1>9. {p.n : p \in OfType("call")} = {parts[j].n : j \in {h \in 1..Len(parts) : parts[h].type = "call"}}
  OBVIOUS
<1> HIDE DEF parts, answers
<1> QED BY <1>1, <1>3, <1>4, <1>5, <1>6, <1>7, <1>8, <1>9 DEF parts, answers

LEMMA DoneIs ==
    ASSUME NEW acc \in Bridging, NEW item \in SomeItems
    PROVE  /\ Done(acc, item) \in Bridging /\ Done(acc, item).messages = acc.messages
           /\ Done(acc, item).answers = PartsOf(item, "answer")
           /\ Done(acc, item).texts = [k \in DOMAIN PartsOf(item, "text") |-> PartsOf(item, "text")[k].n]
           /\ {c.n : c \in ToSet(Done(acc, item).calls)} = CallsIn(item)
<1> DEFINE begun == Begun(acc)
           parts == item.parts
           done == Done(acc, item)
           text == PartsOf(item, "text")
<1>1. parts \in Seq(SomeParts) /\ text \in Seq(SomeParts)
  BY PlacesOf
<1>2. /\ begun \in Bridging /\ begun.texts = <<>> /\ begun.calls = <<>> /\ begun.answers = <<>>
      /\ begun.messages = acc.messages
  BY BegunIs
<1>3. SubSeq(parts, 1, Len(parts)) = parts /\ Len(parts) \in 0..Len(parts)
  BY <1>1, WholeIsFirstAll
<1>4. done = ProcessedSoFar(begun, parts)[Len(parts)] /\ done \in Bridging
  BY ProcessedIsLast, TranslateItemIs DEF Done
<1> HIDE DEF begun, done
<1>5. Collects(done, begun, parts, Len(parts)) /\ Drafts(done, parts, Len(parts))
  <2> HIDE DEF parts
  <2> QED BY <1>1, <1>2, <1>3, <1>4, ProcessedCollects, ProcessedDrafts
<1>6. /\ done.messages = begun.messages /\ done.answers = PartsOf(item, "answer")
      /\ Len(done.texts) = Len(text) /\ \A i \in 1..Len(text) : done.texts[i] = text[i].n
  BY <1>3, <1>5, PartsOfIs DEF Collects
<1>7. done.texts = [k \in DOMAIN text |-> text[k].n]
  <2>1. done.texts \in Seq(Spots)
    BY <1>4, BridgingIs
  <2> DEFINE said == done.texts
  <2>2. said \in Seq(Spots) /\ Len(said) = Len(text) /\ \A i \in 1..Len(text) : said[i] = text[i].n
    BY <1>6, <2>1
  <2> HIDE DEF text, said
  <2>3. DOMAIN text = 1..Len(text)
    BY <1>1
  <2>4. said = [k \in 1..Len(said) |-> said[k]]
    BY <2>2
  <2>5. said = [k \in DOMAIN text |-> text[k].n]
    BY <2>2, <2>3, <2>4
  <2> QED BY <2>5 DEF said
<1>8. {c.n : c \in ToSet(done.calls)} = CallsIn(item)
  <2>1. CallsIn(item) = {parts[j].n : j \in {h \in 1..Len(parts) : parts[h].type = "call"}}
    BY PlacesOf
  <2> HIDE DEF parts
  <2> QED BY <1>5, <2>1 DEF Drafts
<1> QED BY <1>2, <1>4, <1>6, <1>7, <1>8 DEF done

Saids(items, k) == [x \in 1..k |-> SaidIn(items[x])]
CallsMade(items, k) == UNION {CallsIn(items[x]) : x \in 1..k}

LEMMA SaidInType ==
    ASSUME NEW item \in SomeItems PROVE SaidIn(item) \in Seq(Spots)
<1>1. CASE AnswersIn(item) # {}
  <2>1. <<>> \in Seq(Spots)
    OBVIOUS
  <2> QED BY <1>1, <2>1 DEF SaidIn
<1>2. CASE AnswersIn(item) = {}
  <2> DEFINE text == PartsOf(item, "text")
             said == [k \in DOMAIN text |-> text[k].n]
  <2>1. text \in Seq(SomeParts)
    BY PlacesOf
  <2> HIDE DEF text
  <2>2. Len(text) \in Nat /\ \A k \in 1..Len(text) : text[k].n \in Spots
    BY <2>1, TypeOfPart
  <2>3. said \in [1..Len(text) -> Spots]
    BY <2>1, <2>2
  <2>4. said \in Seq(Spots)
    <3> HIDE DEF said
    <3> QED BY <2>2, <2>3, FunctionIsSeq
  <2> QED BY <1>2, <2>4 DEF SaidIn, text
<1> QED BY <1>1, <1>2

LEMMA SaidsAppend ==
    ASSUME NEW items \in Seq(SomeItems), NEW k \in 1..Len(items)
    PROVE  FlattenSeq(Saids(items, k)) = FlattenSeq(Saids(items, k - 1)) \o SaidIn(items[k])
<1> DEFINE new == SaidIn(items[k])
           before == Saids(items, k - 1)
           after == Saids(items, k)
<1>1. Len(items) \in Nat /\ k - 1 \in Nat /\ \A x \in 1..k : items[x] \in SomeItems
  OBVIOUS
<1>2. \A x \in 1..k : SaidIn(items[x]) \in Seq(Spots)
  BY <1>1, SaidInType
<1>3. before \in Seq(Seq(Spots)) /\ Len(before) = k - 1
  <2>1. before \in [1..(k - 1) -> Seq(Spots)]
    BY <1>1, <1>2 DEF Saids
  <2>2. before \in Seq(Seq(Spots))
    BY <1>1, <2>1, FunctionIsSeq
  <2>3. DOMAIN before = 1..(k - 1)
    BY <2>1
  <2> HIDE DEF before
  <2> QED BY <1>1, <2>2, <2>3
<1>4. new \in Seq(Spots)
  BY <1>2
<1>5. after = Append(before, new)
  <2>1. /\ Append(before, new) \in Seq(Seq(Spots)) /\ Len(Append(before, new)) = (k - 1) + 1
        /\ Append(before, new)[(k - 1) + 1] = new
        /\ \A x \in 1..(k - 1) : Append(before, new)[x] = before[x]
    <3> HIDE DEF before, new
    <3> QED BY <1>3, <1>4, AppendIs
  <2>2. \A x \in 1..(k - 1) : before[x] = SaidIn(items[x])
    BY DEF Saids
  <2>3. Append(before, new) = [x \in 1..k |-> Append(before, new)[x]]
    <3> DEFINE s == Append(before, new)
    <3>1. s \in Seq(Seq(Spots)) /\ Len(s) = k
      BY <1>1, <2>1
    <3> HIDE DEF s
    <3>2. s = [x \in 1..k |-> s[x]]
      BY <3>1
    <3> QED BY <3>2 DEF s
  <2>4. (k - 1) + 1 = k /\ \A x \in 1..k : x \in 1..(k - 1) \/ x = k
    BY <1>1
  <2>5. \A x \in 1..k : Append(before, new)[x] = SaidIn(items[x])
    <3> HIDE DEF before
    <3> QED BY <2>1, <2>2, <2>4
  <2> HIDE DEF before, new
  <2>6. Append(before, new) = [x \in 1..k |-> SaidIn(items[x])]
    BY <2>3, <2>5
  <2> QED BY <2>6 DEF Saids
<1> HIDE DEF before, after, new
<1>6. FlattenSeq(after) = FlattenSeq(before) \o new
  BY <1>3, <1>4, <1>5, FlattenAppend
<1> QED BY <1>6 DEF before, after, new

LEMMA SaidsNone == ASSUME NEW items PROVE FlattenSeq(Saids(items, 0)) = <<>> /\ CallsMade(items, 0) = {}
<1>1. Saids(items, 0) = <<>>
  BY DEF Saids
<1>2. CallsMade(items, 0) = {}
  BY DEF CallsMade
<1> QED BY <1>1, <1>2, FlattenNone


-----------------------------------------------------------------------------
(* The conversation, item by item. *)

LEMMA ItemSays ==
    ASSUME NEW acc \in Bridging, NEW item \in SomeItems
    PROVE  /\ FlattenSeq(TextsOf(TranslateItem(acc, item).messages))
                 = FlattenSeq(TextsOf(acc.messages)) \o SaidIn(item)
           /\ AllSent(TranslateItem(acc, item).messages)
                 = AllSent(acc.messages) \cup IF AnswersIn(item) = {} THEN ToSet(Done(acc, item).calls) ELSE {}
           /\ TranslateItem(acc, item).counts = Done(acc, item).counts
<1> DEFINE done == Done(acc, item)
           answers == PartsOf(item, "answer")
           text == PartsOf(item, "text")
           next == TranslateItem(acc, item)
           m == MessageOf(item.role, done)
<1>1. /\ done \in Bridging /\ done.messages = acc.messages /\ done.answers = answers
      /\ done.texts = [k \in DOMAIN text |-> text[k].n]
  BY DoneIs
<1>2. answers \in Seq(AnswerParts) /\ (AnswersIn(item) = {} <=> answers = <<>>)
  BY PlacesOf
<1>3. /\ answers # <<>> => next = Answered(done, answers)
      /\ answers = <<>> => m \in Sent /\ next = [done EXCEPT !.messages = Append(@, m)]
  BY <1>1, TranslateItemIs
<1>4. acc.messages \in Seq(Sent)
  BY BridgingIs
<1>5. FlattenSeq(TextsOf(acc.messages)) \in Seq(Spots)
  <2>1. TextsOf(acc.messages) \in Seq(Seq(Spots))
    BY <1>4, TextsOfType
  <2> QED BY <2>1, FlattenType
<1>6. CASE answers # <<>>
  <2>1. next = AnsweredSoFar(done, answers)[Len(answers)] /\ Len(answers) \in 0..Len(answers)
    <3> HIDE DEF done, answers, next
    <3> QED BY <1>2, <1>3, <1>6, AnsweredIsLast, WholeIsFirstAll
  <2> HIDE DEF done, answers, next, m
  <2>2. /\ next.counts = done.counts /\ AllSent(next.messages) = AllSent(done.messages)
        /\ FlattenSeq(TextsOf(next.messages)) = FlattenSeq(TextsOf(done.messages))
    BY <1>1, <1>2, <2>1, AnsweredKeeps
  <2>3. SaidIn(item) = <<>>
    BY <1>2, <1>6 DEF SaidIn
  <2>4. FlattenSeq(TextsOf(acc.messages)) \o <<>> = FlattenSeq(TextsOf(acc.messages))
    <3> DEFINE s == FlattenSeq(TextsOf(acc.messages))
    <3>1. s \in Seq(Spots)
      BY <1>5
    <3> HIDE DEF s
    <3>2. s \o <<>> = s
      BY <3>1
    <3> QED BY <3>2 DEF s
  <2> QED BY <1>1, <1>2, <1>6, <2>2, <2>3, <2>4 DEF next, done
<1>7. CASE answers = <<>>
  <2>1. /\ next.messages = Append(done.messages, m) /\ next.counts = done.counts
        /\ m \in Sent /\ m.texts = done.texts /\ m.calls = done.calls
    <3>1. m.texts = done.texts /\ m.calls = done.calls
      <4> HIDE DEF done
      <4> QED BY DEF MessageOf
    <3> HIDE DEF done, m
    <3> QED BY <1>1, <1>3, <1>7, <3>1 DEF Bridging
  <2>2. done.texts = SaidIn(item)
    BY <1>1, <1>2, <1>7 DEF SaidIn
  <2> HIDE DEF done, answers, next, m
  <2> QED BY <1>1, <1>2, <1>4, <1>7, <2>1, <2>2, TextsOfAppend, AllSentAppend DEF next, done
<1> QED BY <1>6, <1>7

LEMMA TranslatedSays ==
    ASSUME NEW items \in Seq(SomeItems),
           \A x \in 1..Len(items) : AnswersIn(items[x]) = {} \/ CallsIn(items[x]) = {},
           NEW k \in 0..Len(items)
    PROVE  /\ FlattenSeq(TextsOf(TranslatedSoFar(Nothing, items)[k].messages)) = FlattenSeq(Saids(items, k))
           /\ {c.n : c \in AllSent(TranslatedSoFar(Nothing, items)[k].messages)} = CallsMade(items, k)
<1> DEFINE K == TranslatedSoFar(Nothing, items)
           Holds(x) == /\ FlattenSeq(TextsOf(K[x].messages)) = FlattenSeq(Saids(items, x))
                       /\ {c.n : c \in AllSent(K[x].messages)} = CallsMade(items, x)
           R == {x \in 0..Len(items) : Holds(x)}
<1>1. /\ K \in [0..Len(items) -> Bridging] /\ K[0] = Nothing
      /\ \A x \in 1..Len(items) : K[x] = TranslateItem(K[x - 1], items[x])
  BY NothingIs, TranslatedSoFarIs
<1> HIDE DEF K
<1>2. Len(items) \in Nat /\ 0 \in 0..Len(items)
  OBVIOUS
<1>3. 0 \in R
  <2>1. K[0].messages = <<>>
    BY <1>1 DEF Nothing
  <2>2. TextsOf(<<>>) = <<>> /\ AllSent(<<>>) = {}
    BY DEF TextsOf, AllSent
  <2>3. Holds(0)
    BY <2>1, <2>2, SaidsNone, FlattenNone
  <2> QED BY <1>2, <2>3
<1>4. ASSUME NEW x \in 1..Len(items), x - 1 \in R PROVE x \in R
  <2> DEFINE c == K[x - 1]
             item == items[x]
             d == K[x]
             issued == ToSet(Done(c, item).calls)
  <2>1. c \in Bridging /\ item \in SomeItems /\ d = TranslateItem(c, item) /\ x \in 0..Len(items) /\ x \in Nat
    BY <1>1, <1>2
  <2>2. FlattenSeq(TextsOf(c.messages)) = FlattenSeq(Saids(items, x - 1))
        /\ {r.n : r \in AllSent(c.messages)} = CallsMade(items, x - 1)
    BY <1>4
  <2>3. AnswersIn(item) = {} \/ CallsIn(item) = {}
    OBVIOUS
  <2>4. /\ FlattenSeq(TextsOf(d.messages)) = FlattenSeq(Saids(items, x))
        /\ {r.n : r \in AllSent(d.messages)} = CallsMade(items, x)
        => x \in R
    BY <2>1
  <2>5. CallsMade(items, x) = CallsMade(items, x - 1) \cup CallsIn(item)
    <3>1. \A y \in 1..x : y \in 1..(x - 1) \/ y = x
      BY <2>1
    <3>2. x \in 1..x /\ \A y \in 1..(x - 1) : y \in 1..x
      BY <2>1
    <3> QED BY <3>1, <3>2 DEF CallsMade
  <2>6. FlattenSeq(Saids(items, x)) = FlattenSeq(Saids(items, x - 1)) \o SaidIn(item)
    BY SaidsAppend
  <2> HIDE DEF c, item, d, R
  <2>7. FlattenSeq(TextsOf(d.messages)) = FlattenSeq(TextsOf(c.messages)) \o SaidIn(item)
        /\ AllSent(d.messages) = AllSent(c.messages) \cup IF AnswersIn(item) = {} THEN issued ELSE {}
    BY <2>1, ItemSays
  <2>8. {r.n : r \in issued} = CallsIn(item)
    BY <2>1, DoneIs
  <2> HIDE DEF issued
  <2>9. {r.n : r \in AllSent(d.messages)} = CallsMade(items, x)
    <3>1. CASE AnswersIn(item) = {}
      BY <2>2, <2>5, <2>7, <2>8, <3>1
    <3>2. CASE AnswersIn(item) # {}
      BY <2>2, <2>3, <2>5, <2>7, <3>2
    <3> QED BY <3>1, <3>2
  <2> QED BY <2>2, <2>4, <2>6, <2>7, <2>9
<1>5. \A x \in 0..Len(items) : x \in R
  <2> HIDE DEF R
  <2> QED BY <1>2, <1>3, <1>4, BoundedInduction
<1> QED BY <1>5 DEF K

\* The x-th item of a conversation, as the client makes it.
ItemIs(items, x, given) ==
    /\ items[x] \in SomeItems
    /\ \A j \in 1..Len(items[x].parts) : items[x].parts[j].type = "call" =>
          items[x].parts[j].n = <<x, j>> /\ items[x].parts[j].id = ClientId(<<x, j>>, given)
    /\ items[x].role = "user" => CallsIn(items[x]) = {}
    /\ items[x].role = "assistant" => AnswersIn(items[x]) = {} /\ Len(items[x].parts) <= MaxCalls + 1

LEMMA AllSentType ==
    ASSUME NEW messages \in Seq(Sent) PROVE AllSent(messages) \in SUBSET SentCalls
<1> SUFFICES ASSUME NEW i \in DOMAIN messages, NEW j \in DOMAIN messages[i].calls
             PROVE  messages[i].calls[j] \in SentCalls
  BY DEF AllSent, ToSet
<1>1. messages[i] \in Sent
  OBVIOUS
<1>2. messages[i].calls \in Seq(SentCalls)
  BY <1>1, MessageIs
<1> QED BY <1>2

LEMMA NoCallsIn ==
    ASSUME NEW item \in SomeItems, CallsIn(item) = {}
    PROVE  \A j \in 1..Len(item.parts) : item.parts[j].type # "call"
<1>1. {item.parts[j].n : j \in {h \in 1..Len(item.parts) : item.parts[h].type = "call"}} = {}
  BY PlacesOf
<1> QED BY <1>1

LEMMA ItemIdentified ==
    ASSUME NEW given \in BOOLEAN, NEW acc \in Bridging, NEW items, NEW x, ItemIs(items, x, given), Distinguishable,
           Identified(AllSent(acc.messages), acc.counts, given),
           NEW b \in Nat, \A f \in Functions : acc.counts[f] <= b,
           b + (MaxCalls + 1) <= (MaxCalls + 1) * MaxItems
    PROVE  /\ Identified(AllSent(TranslateItem(acc, items[x]).messages), TranslateItem(acc, items[x]).counts, given)
           /\ \A f \in Functions : TranslateItem(acc, items[x]).counts[f] <= b + (MaxCalls + 1)
<1> DEFINE item == items[x]
           parts == item.parts
           begun == Begun(acc)
           done == Done(acc, item)
           next == TranslateItem(acc, item)
           issued == AllSent(acc.messages)
           most == (MaxCalls + 1) * MaxItems
<1>1. /\ item \in SomeItems /\ parts \in Seq(SomeParts) /\ item.role \in {"user", "assistant"}
      /\ \A j \in 1..Len(parts) : parts[j].type = "call" => parts[j].id = ClientId(parts[j].n, given)
      /\ item.role = "user" => CallsIn(item) = {}
      /\ item.role = "assistant" => AnswersIn(item) = {} /\ Len(parts) <= MaxCalls + 1
  BY DEF ItemIs, SomeItems
<1>2. /\ begun \in Bridging /\ begun.calls = <<>> /\ begun.counts = acc.counts
      /\ done = ProcessedSoFar(begun, parts)[Len(parts)] /\ done \in Bridging
  BY <1>1, BegunIs, ProcessedIsLast, TranslateItemIs DEF Done
<1>3. Len(parts) \in Nat /\ Len(parts) \in 0..Len(parts)
  BY <1>1, WholeIsFirstAll
<1>4. /\ AllSent(next.messages) = issued \cup IF AnswersIn(item) = {} THEN ToSet(done.calls) ELSE {}
      /\ next.counts = done.counts
  BY <1>1, ItemSays
<1>5. issued \in SUBSET SentCalls
  BY BridgingIs, AllSentType
<1>6. MaxCalls \in Nat /\ \A f \in Functions : acc.counts[f] \in Nat
  BY BridgingIs, RequestAssumption
<1>7. Identified(issued, begun.counts, given) /\ \A f \in Functions : begun.counts[f] <= b
  BY <1>2
<1>8. CASE item.role = "user"
  <2>1. \A j \in 1..Len(parts) : parts[j].type # "call"
    BY <1>1, <1>8, NoCallsIn
  <2> HIDE DEF parts, begun, done, item
  <2>2. done.counts = acc.counts /\ done.calls = <<>>
    BY <1>1, <1>2, <1>3, <2>1, ProcessedWithoutCalls
  <2>3. ToSet(done.calls) = {}
    BY <2>2 DEF ToSet
  <2>4. AllSent(next.messages) = issued
    <3> HIDE DEF next
    <3> QED BY <1>4, <2>3
  <2>5. \A f \in Functions : acc.counts[f] <= b + (MaxCalls + 1)
    BY <1>6
  <2> HIDE DEF next, issued
  <2>6. /\ Identified(AllSent(next.messages), next.counts, given)
        /\ \A f \in Functions : next.counts[f] <= b + (MaxCalls + 1)
    BY <1>4, <1>7, <1>2, <2>2, <2>4, <2>5
  <2> QED BY <2>6 DEF next, item
<1>9. CASE item.role = "assistant"
  <2>1. Len(parts) <= MaxCalls + 1 /\ AnswersIn(item) = {}
    BY <1>1, <1>9
  <2>2. b + Len(parts) <= most
    <3>1. most \in Int
      BY RequestAssumption
    <3>2. b + (MaxCalls + 1) <= most
      OBVIOUS
    <3> HIDE DEF most, parts
    <3> QED BY <1>3, <1>6, <2>1, <3>1, <3>2
  <2> HIDE DEF parts, begun, done, item, next, issued
  <2>3. /\ Identified(issued \cup ToSet(done.calls), done.counts, given)
        /\ \A f \in Functions : done.counts[f] <= b + Len(parts)
    BY <1>1, <1>2, <1>3, <1>5, <1>7, <2>2, ProcessedIdentified DEF most
  <2>4. \A f \in Functions : next.counts[f] <= b + (MaxCalls + 1)
    <3>1. \A f \in Functions : done.counts[f] \in Nat
      BY <1>2, BridgingIs
    <3> QED BY <1>3, <1>4, <1>6, <2>1, <2>3, <3>1
  <2>5. Identified(AllSent(next.messages), next.counts, given)
    BY <1>4, <2>1, <2>3
  <2> QED BY <2>4, <2>5 DEF next, item
<1> QED BY <1>1, <1>8, <1>9

LEMMA Multiples ==
    ASSUME NEW w \in Nat, NEW most \in Nat, NEW x \in 1..most
    PROVE  /\ w * (x - 1) \in Nat /\ w * (x - 1) + w = w * x /\ w * (x - 1) + w <= w * most
<1>1. PICK d \in Nat : most = x + d
  <2>1. most - x \in Nat /\ most = x + (most - x)
    OBVIOUS
  <2> QED BY <2>1
<1>2. x - 1 \in Nat /\ x \in Nat
  OBVIOUS
<1>3. \A u, v \in Nat : u * v \in Nat
  OBVIOUS
<1>4. w * (x - 1) \in Nat /\ w * d \in Nat
  BY <1>2, <1>3
<1>5. w * (x - 1) + w = w * x
  BY <1>2
<1>6. w * (x + d) = w * x + w * d
  BY <1>2
<1> QED BY <1>1, <1>2, <1>3, <1>4, <1>5, <1>6

LEMMA TranslatedIdentified ==
    ASSUME NEW given \in BOOLEAN, NEW items \in Seq(SomeItems), Len(items) <= MaxItems,
           \A x \in 1..Len(items) : ItemIs(items, x, given), Distinguishable, NEW k \in 0..Len(items)
    PROVE  /\ Identified(AllSent(TranslatedSoFar(Nothing, items)[k].messages),
                         TranslatedSoFar(Nothing, items)[k].counts, given)
           /\ \A f \in Functions : TranslatedSoFar(Nothing, items)[k].counts[f] <= (MaxCalls + 1) * k
<1> DEFINE K == TranslatedSoFar(Nothing, items)
           w == MaxCalls + 1
           Holds(x) == /\ Identified(AllSent(K[x].messages), K[x].counts, given)
                       /\ \A f \in Functions : K[x].counts[f] <= w * x
           R == {x \in 0..Len(items) : Holds(x)}
<1>1. /\ K \in [0..Len(items) -> Bridging] /\ K[0] = Nothing
      /\ \A x \in 1..Len(items) : K[x] = TranslateItem(K[x - 1], items[x])
  BY NothingIs, TranslatedSoFarIs
<1> HIDE DEF K
<1>2. Len(items) \in Nat /\ 0 \in 0..Len(items) /\ w \in Nat /\ MaxItems \in Nat
  BY RequestAssumption
<1>3. 0 \in R
  <2>1. K[0].messages = <<>> /\ \A f \in Functions : K[0].counts[f] = 0
    BY <1>1 DEF Nothing
  <2>2. AllSent(<<>>) = {} /\ w * 0 = 0
    BY <1>2 DEF AllSent
  <2>3. Holds(0)
    <3> HIDE DEF w
    <3> QED BY <2>1, <2>2 DEF Identified
  <2> HIDE DEF w
  <2> QED BY <1>2, <2>3
<1>4. ASSUME NEW x \in 1..Len(items), x - 1 \in R PROVE x \in R
  <2> DEFINE c == K[x - 1]
             d == K[x]
             b == w * (x - 1)
  <2>1. c \in Bridging /\ d = TranslateItem(c, items[x]) /\ x \in 0..Len(items) /\ x \in 1..MaxItems
    <3>1. x \in 0..Len(items) /\ x - 1 \in 0..Len(items)
      BY <1>2
    <3>2. x \in 1..MaxItems
      <4> DEFINE most == Len(items)
      <4>1. most \in Nat /\ most <= MaxItems /\ x \in 1..most
        BY <1>2
      <4> HIDE DEF most
      <4> QED BY <1>2, <4>1
    <3> QED BY <1>1, <3>1, <3>2
  <2>2. Holds(x - 1)
    BY <1>4
  <2>3. Identified(AllSent(c.messages), c.counts, given) /\ \A f \in Functions : c.counts[f] <= b
    BY <2>2
  <2>4. b \in Nat /\ b + w = w * x /\ b + w <= w * MaxItems
    <3> HIDE DEF w
    <3> QED BY <1>2, <2>1, Multiples
  <2>5. ItemIs(items, x, given)
    OBVIOUS
  <2>6. Holds(x) => x \in R
    BY <2>1
  <2> HIDE DEF c, d, b, R
  <2>7. /\ Identified(AllSent(TranslateItem(c, items[x]).messages), TranslateItem(c, items[x]).counts, given)
        /\ \A f \in Functions : TranslateItem(c, items[x]).counts[f] <= b + w
    BY <2>1, <2>3, <2>4, <2>5, ItemIdentified
  <2>8. Identified(AllSent(d.messages), d.counts, given) /\ \A f \in Functions : d.counts[f] <= w * x
    <3> HIDE DEF w
    <3> QED BY <2>1, <2>4, <2>7
  <2> HIDE DEF w
  <2> QED BY <2>6, <2>8 DEF d
<1>5. \A x \in 0..Len(items) : x \in R
  <2> HIDE DEF R
  <2> QED BY <1>2, <1>3, <1>4, BoundedInduction
<1> QED BY <1>5 DEF K

AnswersIs(items, x, both) ==
    AnswersIn(items[x]) # {} =>
        /\ x - 1 \in 1..Len(items)
        /\ \E order : InOrder(order, PartsOf(items[x], "answer"), items[x - 1].parts, both)

\* After k items every answer has found its call, and the calls of the k-th wait.
Follows(d, items, k, both) ==
    /\ Finds(d.messages)
    /\ (k = 0 \/ CallsIn(items[k]) = {}) /\ ~both => \A f \in Functions : d.pending[f] = <<>>
    /\ k # 0 /\ CallsIn(items[k]) # {} =>
          /\ d.messages # <<>>
          /\ both => \A j \in 1..Len(items[k].parts) : items[k].parts[j].type = "call" =>
                [id |-> <<"id", <<k, j>>>>, n |-> <<k, j>>] \in ToSet(d.messages[Len(d.messages)].calls)
          /\ ~both => \A f \in Functions :
                Waiting(d.pending[f], CallsOf(items[k].parts, Len(items[k].parts), f),
                        ToSet(d.messages[Len(d.messages)].calls), k)

LEMMA AnswersFollow ==
    ASSUME NEW given \in BOOLEAN, NEW both \in BOOLEAN, NEW items \in Seq(SomeItems), NEW x \in 1..Len(items),
           ItemIs(items, x, given), AnswersIs(items, x, both), AnswersIn(items[x]) # {},
           \A y \in 1..Len(items) : ItemIs(items, y, given),
           NEW acc \in Bridging, Follows(acc, items, x - 1, both)
    PROVE  Follows(TranslateItem(acc, items[x]), items, x, both)
<1> DEFINE item == items[x]
           parts == items[x - 1].parts
           i == x - 1
           done == Done(acc, item)
           answers == PartsOf(item, "answer")
           next == TranslateItem(acc, item)
<1>1. /\ item \in SomeItems /\ item.role \in {"user", "assistant"} /\ i \in 1..Len(items) /\ i \in Nat
      /\ i # 0 /\ x # 0
  BY DEF ItemIs, AnswersIs, SomeItems
<1>2. CallsIn(item) = {}
  BY <1>1 DEF ItemIs
<1>3. PICK order : InOrder(order, answers, parts, both)
  BY DEF AnswersIs
<1>4. answers \in Seq(AnswerParts) /\ answers # <<>> /\ item.parts \in Seq(SomeParts)
  BY <1>1, PlacesOf
<1>5. /\ parts \in Seq(SomeParts) /\ items[i] \in SomeItems
      /\ \A j \in 1..Len(parts) : parts[j].type = "call" => parts[j].n = <<i, j>>
  <2>1. ItemIs(items, i, given) /\ items[i] \in SomeItems
    BY <1>1
  <2> QED BY <2>1 DEF ItemIs, SomeItems
<1>6. CallsIn(items[i]) # {}
  <2> DEFINE j == order[1]
  <2>1. 1 \in 1..Len(answers)
    <3> HIDE DEF answers
    <3> QED BY <1>4
  <2>2. j \in 1..Len(parts) /\ parts[j].type = "call"
    BY <1>3, <2>1 DEF InOrder
  <2>3. CallsIn(items[i]) = {parts[y].n : y \in {h \in 1..Len(parts) : parts[h].type = "call"}}
    BY <1>5, PlacesOf
  <2> HIDE DEF j, parts
  <2> QED BY <2>2, <2>3
<1>7. /\ done \in Bridging /\ done.messages = acc.messages /\ done.answers = answers
  BY <1>1, DoneIs
<1>8. done.pending = acc.pending
  <2> DEFINE begun == Begun(acc)
             heard == item.parts
  <2>1. begun \in Bridging /\ begun.pending = acc.pending
    BY BegunIs
  <2>2. \A j \in 1..Len(heard) : heard[j].type # "call"
    BY <1>1, <1>2, NoCallsIn
  <2>3. done = ProcessedSoFar(begun, heard)[Len(heard)] /\ Len(heard) \in 0..Len(heard)
    BY <1>4, ProcessedIsLast, WholeIsFirstAll DEF Done
  <2> HIDE DEF begun, heard, done
  <2>4. heard \in Seq(SomeParts)
    BY <1>4 DEF heard
  <2> QED BY <2>1, <2>2, <2>3, <2>4, ProcessedWithoutCalls
<1>9. next = AnsweredSoFar(done, answers)[Len(answers)] /\ Len(answers) \in 0..Len(answers)
  <2>1. next = Answered(done, answers)
    BY <1>1, <1>4, <1>7, TranslateItemIs
  <2> HIDE DEF answers, done, next
  <2> QED BY <1>4, <2>1, AnsweredIsLast, WholeIsFirstAll
<1> DEFINE last == acc.messages[Len(acc.messages)]
<1>10. /\ Finds(acc.messages) /\ acc.messages # <<>>
       /\ both => \A j \in 1..Len(parts) : parts[j].type = "call" =>
             [id |-> <<"id", <<i, j>>>>, n |-> <<i, j>>] \in ToSet(last.calls)
       /\ ~both => \A f \in Functions : Waiting(acc.pending[f], CallsOf(parts, Len(parts), f), ToSet(last.calls), i)
  BY <1>1, <1>6, Zenon DEF Follows
<1> HIDE DEF answers, done, next, parts, item
<1>11. Answering(next, done, order, parts, i, both, Len(answers))
  <2> HIDE DEF i
  <2>1. both => \A j \in 1..Len(parts) : parts[j].type = "call" =>
             [id |-> <<"id", <<i, j>>>>, n |-> <<i, j>>] \in ToSet(done.messages[Len(done.messages)].calls)
    BY <1>7, <1>10
  <2>2. ~both => \A f \in Functions :
             Waiting(done.pending[f], CallsOf(parts, Len(parts), f), ToSet(done.messages[Len(done.messages)].calls), i)
    BY <1>7, <1>8, <1>10
  <2> HIDE DEF last
  <2> QED BY <1>1, <1>3, <1>4, <1>5, <1>7, <1>9, <1>10, <2>1, <2>2, AnsweredFinds
<1>12. Finds(next.messages)
  BY <1>11 DEF Answering
<1>13. ASSUME ~both, NEW f \in Functions PROVE next.pending[f] = <<>>
  <2>1. Unanswered(order, parts, f, Len(answers)) = {}
    <3>1. \A j \in CallsOf(parts, Len(parts), f) : \E a \in 1..Len(answers) : order[a] = j
      BY <1>3 DEF InOrder, CallsOf
    <3> QED BY <3>1 DEF Unanswered
  <2>2. Waiting(next.pending[f], {}, ToSet(done.messages[Len(done.messages)].calls), i)
    <3> HIDE DEF i
    <3> QED BY <1>11, <1>13, <2>1 DEF Answering
  <2>3. next.pending[f] \in Seq(Ids)
    <3>1. next \in Bridging
      BY <1>1, TranslateItemIs DEF next
    <3> QED BY <3>1, BridgingIs
  <2> QED BY <2>2, <2>3, WaitingNone
<1>14. Follows(next, items, x, both)
  <2>1. CallsIn(items[x]) = {}
    BY <1>2 DEF item
  <2> QED BY <1>12, <1>13, <2>1 DEF Follows
<1> QED BY <1>14 DEF next, item

LEMMA MessageFollows ==
    ASSUME NEW given \in BOOLEAN, NEW both \in BOOLEAN, both => given,
           NEW items \in Seq(SomeItems), NEW x \in 1..Len(items), ItemIs(items, x, given),
           AnswersIn(items[x]) = {}, x - 1 = 0 \/ CallsIn(items[x - 1]) = {},
           NEW acc \in Bridging, Follows(acc, items, x - 1, both),
           Identified(AllSent(TranslateItem(acc, items[x]).messages), TranslateItem(acc, items[x]).counts, given)
    PROVE  Follows(TranslateItem(acc, items[x]), items, x, both)
<1> DEFINE item == items[x]
           parts == items[x].parts
           begun == Begun(acc)
           done == Done(acc, item)
           next == TranslateItem(acc, item)
           m == MessageOf(item.role, done)
           last == next.messages[Len(next.messages)]
<1>1. /\ item \in SomeItems /\ item.role \in {"user", "assistant"} /\ parts \in Seq(SomeParts)
      /\ x \in Nat /\ x # 0
      /\ \A j \in 1..Len(parts) : parts[j].type = "call" => parts[j].n = <<x, j>>
  <2>1. item \in SomeItems /\ x \in Nat /\ x # 0
    OBVIOUS
  <2>2. item.role \in {"user", "assistant"} /\ parts \in Seq(SomeParts)
    BY <2>1 DEF SomeItems
  <2>3. \A j \in 1..Len(parts) : parts[j].type = "call" => parts[j].n = <<x, j>>
    BY Zenon DEF ItemIs
  <2> QED BY <2>1, <2>2, <2>3
<1>2. Finds(acc.messages) /\ (~both => \A f \in Functions : acc.pending[f] = <<>>)
  BY DEF Follows
<1>3. done \in Bridging /\ done.messages = acc.messages /\ done.answers = PartsOf(item, "answer")
  BY <1>1, DoneIs
<1>4. done.answers = <<>>
  BY <1>1, <1>3, PlacesOf
<1>5. m \in Sent /\ next = [done EXCEPT !.messages = Append(@, m)] /\ next \in Bridging
  BY <1>1, <1>4, TranslateItemIs
<1>6. m.role = item.role /\ m.calls = done.calls
  <2> HIDE DEF done
  <2> QED BY DEF MessageOf
<1>7. next.messages = Append(acc.messages, m) /\ next.pending = done.pending
  <2> HIDE DEF done, m
  <2> QED BY <1>3, <1>5 DEF Bridging
<1>8. acc.messages \in Seq(Sent)
  BY BridgingIs
<1>9. /\ begun \in Bridging /\ begun.pending = acc.pending /\ begun.calls = <<>>
      /\ done = ProcessedSoFar(begun, parts)[Len(parts)] /\ Len(parts) \in 0..Len(parts)
  BY <1>1, BegunIs, ProcessedIsLast, WholeIsFirstAll DEF Done
<1> HIDE DEF begun, done, next, m
<1>10. Finds(next.messages)
  <2>1. m.role # "tool"
    BY <1>1, <1>6
  <2> QED BY <1>2, <1>5, <1>7, <1>8, <2>1, FindsAppend
<1>11. next.messages # <<>> /\ last = m
  BY <1>5, <1>7, <1>8, AppendIs
<1>12. ASSUME CallsIn(item) = {}, ~both, NEW f \in Functions PROVE next.pending[f] = <<>>
  <2>1. \A j \in 1..Len(parts) : parts[j].type # "call"
    BY <1>1, <1>12, NoCallsIn
  <2> HIDE DEF parts
  <2>2. done.pending = begun.pending
    BY <1>1, <1>9, <2>1, ProcessedWithoutCalls
  <2> QED BY <1>2, <1>7, <1>9, <1>12, <2>2
<1>13. ASSUME ~both, NEW f \in Functions
       PROVE  Waiting(next.pending[f], CallsOf(parts, Len(parts), f), ToSet(last.calls), x)
  <2>1. \A g \in Functions : begun.pending[g] = <<>>
    BY <1>2, <1>9, <1>13
  <2> HIDE DEF parts
  <2>2. Waiting(done.pending[f], CallsOf(parts, Len(parts), f), ToSet(done.calls), x)
    BY <1>1, <1>9, <2>1, ProcessedWaiting
  <2> HIDE DEF last
  <2> QED BY <1>6, <1>7, <1>11, <2>2
<1>14. ASSUME both, NEW j \in 1..Len(parts), parts[j].type = "call"
       PROVE  [id |-> <<"id", <<x, j>>>>, n |-> <<x, j>>] \in ToSet(last.calls)
  <2>1. parts[j].n = <<x, j>>
    BY <1>1, <1>14
  <2>2. Drafts(done, parts, Len(parts))
    <3> HIDE DEF parts
    <3> QED BY <1>1, <1>9, ProcessedDrafts
  <2>3. PICK c \in ToSet(done.calls) : c.n = <<x, j>>
    BY <1>14, <2>1, <2>2 DEF Drafts
  <2>4. c \in SentCalls
    <3>1. done.calls \in Seq(SentCalls)
      BY <1>3, BridgingIs
    <3> QED BY <2>3, <3>1 DEF ToSet
  <2>5. c \in AllSent(next.messages)
    <3> HIDE DEF last
    <3>1. AllSent(next.messages) = AllSent(acc.messages) \cup ToSet(m.calls)
      BY <1>5, <1>7, <1>8, AllSentAppend
    <3> QED BY <1>6, <2>3, <3>1
  <2>6. c.id = <<"id", c.n>>
    <3>1. Identified(AllSent(next.messages), next.counts, given)
      BY DEF next, item
    <3> QED BY <1>14, <2>5, <3>1 DEF Identified
  <2>7. c = [id |-> <<"id", <<x, j>>>>, n |-> <<x, j>>]
    BY <2>3, <2>4, <2>6 DEF SentCalls
  <2> HIDE DEF last
  <2> QED BY <1>6, <1>11, <2>3, <2>7
<1>15. Follows(next, items, x, both)
  <2>1. both => \A j \in 1..Len(parts) : parts[j].type = "call" =>
           [id |-> <<"id", <<x, j>>>>, n |-> <<x, j>>] \in ToSet(last.calls)
    BY <1>14
  <2>2. ~both => \A f \in Functions : Waiting(next.pending[f], CallsOf(parts, Len(parts), f), ToSet(last.calls), x)
    BY <1>13
  <2> QED BY <1>1, <1>10, <1>11, <1>12, <2>1, <2>2, Zenon DEF Follows
<1> QED BY <1>15 DEF next, item

\* The items of a conversation; both: the answers have ids as well.
Conversation(items, given, both) ==
    /\ items \in Seq(SomeItems) /\ Len(items) <= MaxItems
    /\ \A x \in 1..Len(items) : ItemIs(items, x, given) /\ AnswersIs(items, x, both)

Uninterrupted(items) ==
    \A x \in 1..Len(items) : ~(CallsIn(items[x]) # {} /\ x < Len(items) /\ AnswersIn(items[x + 1]) = {})

LEMMA TranslatedFollows ==
    ASSUME NEW given \in BOOLEAN, NEW both \in BOOLEAN, both => given, NEW items,
           Conversation(items, given, both), Uninterrupted(items), Distinguishable, NEW k \in 0..Len(items)
    PROVE  Follows(TranslatedSoFar(Nothing, items)[k], items, k, both)
<1> DEFINE K == TranslatedSoFar(Nothing, items)
           R == {x \in 0..Len(items) : Follows(K[x], items, x, both)}
<1>1. /\ items \in Seq(SomeItems) /\ Len(items) <= MaxItems
      /\ \A x \in 1..Len(items) : ItemIs(items, x, given)
      /\ \A x \in 1..Len(items) : AnswersIs(items, x, both)
  BY DEF Conversation
<1>2. /\ K \in [0..Len(items) -> Bridging] /\ K[0] = Nothing
      /\ \A x \in 1..Len(items) : K[x] = TranslateItem(K[x - 1], items[x])
  BY <1>1, NothingIs, TranslatedSoFarIs
<1>3. \A x \in 0..Len(items) : Identified(AllSent(K[x].messages), K[x].counts, given)
  BY <1>1, TranslatedIdentified
<1> HIDE DEF K
<1>4. Len(items) \in Nat /\ 0 \in 0..Len(items)
  BY <1>1
<1>5. 0 \in R
  <2>1. K[0].messages = <<>> /\ \A f \in Functions : K[0].pending[f] = <<>>
    BY <1>2 DEF Nothing
  <2>2. Follows(K[0], items, 0, both)
    BY <2>1 DEF Follows, Finds
  <2> QED BY <1>4, <2>2
<1>6. ASSUME NEW x \in 1..Len(items), x - 1 \in R PROVE x \in R
  <2> DEFINE c == K[x - 1]
             d == K[x]
  <2>1. c \in Bridging /\ d = TranslateItem(c, items[x]) /\ x \in 0..Len(items)
    <3>1. x - 1 \in 0..Len(items) /\ x \in 0..Len(items)
      BY <1>4
    <3> QED BY <1>2, <3>1
  <2>2. Follows(c, items, x - 1, both)
    BY <1>6
  <2>3. Follows(d, items, x, both) => x \in R
    BY <2>1
  <2>4. Identified(AllSent(d.messages), d.counts, given)
    BY <1>3, <2>1
  <2>5. ItemIs(items, x, given) /\ AnswersIs(items, x, both)
    BY <1>1
  <2> HIDE DEF c, d, R
  <2>6. CASE AnswersIn(items[x]) # {}
    BY <1>1, <2>1, <2>2, <2>3, <2>5, <2>6, AnswersFollow
  <2>7. CASE AnswersIn(items[x]) = {}
    <3>1. x - 1 = 0 \/ CallsIn(items[x - 1]) = {}
      <4> SUFFICES ASSUME x - 1 # 0 PROVE CallsIn(items[x - 1]) = {}
        OBVIOUS
      <4>1. x - 1 \in 1..Len(items) /\ x - 1 < Len(items) /\ (x - 1) + 1 = x
        BY <1>4
      <4> QED BY <2>7, <4>1 DEF Uninterrupted
    <3> QED BY <1>1, <2>1, <2>2, <2>3, <2>4, <2>5, <2>7, <3>1, MessageFollows
  <2> QED BY <2>6, <2>7
<1>7. \A x \in 0..Len(items) : x \in R
  <2> HIDE DEF R
  <2> QED BY <1>4, <1>5, <1>6, BoundedInduction
<1> QED BY <1>7 DEF K

LEMMA OneKindOfItem ==
    ASSUME NEW given, NEW items, NEW x, ItemIs(items, x, given)
    PROVE  AnswersIn(items[x]) = {} \/ CallsIn(items[x]) = {}
<1>1. items[x] \in SomeItems
  BY DEF ItemIs
<1>2. items[x].role \in {"user", "assistant"}
  BY <1>1 DEF SomeItems
<1> QED BY <1>2 DEF ItemIs

RequestInv == style \in Styles /\ Conversation(contents, style # "none", style = "both")

\* The argument: a conversation of the client's is translated faithfully.
LEMMA RequestInvIsFaithful == RequestInv => BridgedRequestIsFaithful
<1> SUFFICES ASSUME RequestInv PROVE BridgedRequestIsFaithful
  OBVIOUS
<1> DEFINE K == TranslatedSoFar(Nothing, contents)
           n == Len(contents)
           out == K[n].messages
           given == style # "none"
           both == style = "both"
<1>1. /\ contents \in Seq(SomeItems) /\ Conversation(contents, given, both) /\ n <= MaxItems
      /\ given \in BOOLEAN /\ both \in BOOLEAN /\ (both => given)
      /\ \A x \in 1..n : ItemIs(contents, x, given)
  BY DEF RequestInv, Conversation
<1>2. n \in Nat /\ n \in 0..n /\ DOMAIN contents = 1..n
  BY <1>1
<1>3. Translated = out
  BY TranslatedIsLast
<1>4. out \in Seq(Sent)
  <2>1. K[n] \in Bridging
    BY <1>1, <1>2, NothingIs, TranslatedSoFarIs
  <2> HIDE DEF K, n
  <2> QED BY <2>1, BridgingIs
<1>5. \A x \in 1..n : AnswersIn(contents[x]) = {} \/ CallsIn(contents[x]) = {}
  BY <1>1, OneKindOfItem
<1>6. /\ FlattenSeq(TextsOf(out)) = FlattenSeq(Saids(contents, n))
      /\ {c.n : c \in AllSent(out)} = CallsMade(contents, n)
  BY <1>1, <1>2, <1>5, TranslatedSays
<1>7. ASSUME Distinguishable PROVE Identified(AllSent(out), K[n].counts, given)
  BY <1>1, <1>2, <1>7, TranslatedIdentified
<1>8. ASSUME Distinguishable, Uninterrupted(contents) PROVE Finds(out)
  <2>1. Follows(K[n], contents, n, both)
    BY <1>1, <1>2, <1>8, TranslatedFollows
  <2> HIDE DEF K
  <2> QED BY <2>1 DEF Follows
<1> HIDE DEF K
<1>9. (\A i \in DOMAIN contents : ~Interrupted(i)) => Uninterrupted(contents)
  BY <1>2 DEF Interrupted, Uninterrupted
<1> HIDE DEF out, n, given
<1>10. BridgedAnswersFindTheirCalls
  <2> SUFFICES ASSUME \A i \in DOMAIN contents : ~Interrupted(i), Distinguishable
               PROVE  /\ \A c, d \in AllSent(out) : c.id = d.id => c = d
                      /\ \A i \in DOMAIN out : out[i].role = "tool" =>
                            /\ [id |-> out[i].id, n |-> out[i].n] \in AllSent(out)
                            /\ \E j \in 1..(i - 1) :
                                  /\ [id |-> out[i].id, n |-> out[i].n] \in ToSet(out[j].calls)
                                  /\ \A k \in (j + 1)..i : out[k].role = "tool"
    BY <1>3 DEF BridgedAnswersFindTheirCalls, AllSent
  <2>1. \A c, d \in AllSent(out) : c.id = d.id => c = d
    BY <1>7 DEF Identified
  <2>2. Finds(out)
    BY <1>8, <1>9
  <2>3. ASSUME NEW i \in DOMAIN out, out[i].role = "tool",
               NEW j \in 1..(i - 1), [id |-> out[i].id, n |-> out[i].n] \in ToSet(out[j].calls)
        PROVE  [id |-> out[i].id, n |-> out[i].n] \in AllSent(out)
    <3>1. j \in DOMAIN out
      BY <1>4, <2>3
    <3> QED BY <2>3, <3>1 DEF AllSent
  <2> QED BY <2>1, <2>2, <2>3 DEF Finds
<1>11. BridgedTextsAreKept
  <2>1. [i \in DOMAIN out |-> out[i].texts] = TextsOf(out)
    BY DEF TextsOf
  <2>2. [i \in DOMAIN contents |-> SaidIn(contents[i])] = Saids(contents, n)
    BY <1>2 DEF Saids
  <2>3. UNION {CallsIn(contents[i]) : i \in DOMAIN contents} = CallsMade(contents, n)
    BY <1>2 DEF CallsMade
  <2>4. UNION {ToSet(out[i].calls) : i \in DOMAIN out} = AllSent(out)
    BY DEF AllSent
  <2> QED BY <1>3, <1>6, <2>1, <2>2, <2>3, <2>4 DEF BridgedTextsAreKept
<1> QED BY <1>10, <1>11 DEF BridgedRequestIsFaithful

-----------------------------------------------------------------------------
(* The client keeps to it. *)

LEMMA ConversationGrows ==
    ASSUME NEW given, NEW both, NEW items, Conversation(items, given, both), Len(items) < MaxItems,
           NEW item \in SomeItems, NEW longer, longer = Append(items, item),
           ItemIs(longer, Len(items) + 1, given), AnswersIs(longer, Len(items) + 1, both)
    PROVE  Conversation(longer, given, both)
<1> DEFINE n == Len(items)
<1>1. items \in Seq(SomeItems)
  BY DEF Conversation
<1>2. /\ longer \in Seq(SomeItems) /\ Len(longer) = n + 1 /\ n \in Nat
      /\ \A x \in 1..n : longer[x] = items[x]
  BY <1>1, AppendIs
<1>3. Len(longer) <= MaxItems
  <2>1. n < MaxItems /\ MaxItems \in Nat
    BY RequestAssumption
  <2> HIDE DEF n
  <2> QED BY <1>2, <2>1
<1> HIDE DEF n
<1>4. ASSUME NEW x \in 1..n PROVE ItemIs(longer, x, given) /\ AnswersIs(longer, x, both)
  <2>1. longer[x] = items[x]
    BY <1>2
  <2>2. ItemIs(items, x, given) /\ AnswersIs(items, x, both)
    BY DEF Conversation, n
  <2>3. ItemIs(longer, x, given)
    BY <2>1, <2>2, Zenon DEF ItemIs
  <2>4. AnswersIs(longer, x, both)
    <3> SUFFICES ASSUME AnswersIn(longer[x]) # {}
                 PROVE  /\ x - 1 \in 1..Len(longer)
                        /\ \E order : InOrder(order, PartsOf(longer[x], "answer"), longer[x - 1].parts, both)
      BY DEF AnswersIs
    <3>1. x - 1 \in 1..n /\ \E order : InOrder(order, PartsOf(items[x], "answer"), items[x - 1].parts, both)
      BY <2>1, <2>2 DEF AnswersIs, n
    <3>2. longer[x - 1] = items[x - 1] /\ x - 1 \in 1..Len(longer)
      BY <1>2, <3>1
    <3> QED BY <2>1, <3>1, <3>2
  <2> QED BY <2>3, <2>4
<1>5. \A x \in 1..Len(longer) : x \in 1..n \/ x = n + 1
  BY <1>2
<1> QED BY <1>2, <1>3, <1>4, <1>5 DEF Conversation, n

LEMMA NextSpots ==
    ASSUME contents \in Seq(SomeItems), NEW k \in Nat
    PROVE  <<Len(contents) + 1, k>> \in Spots /\ Len(contents) \in Nat
<1>1. Len(contents) \in Nat
  OBVIOUS
<1> QED BY <1>1 DEF Spots

LEMMA SpokenIs ==
    ASSUME contents \in Seq(SomeItems), NEW k \in Nat, NEW speaks \in BOOLEAN
    PROVE  /\ Spoken(k, speaks) \in Seq(SomeParts) /\ Len(Spoken(k, speaks)) \in 0..1
           /\ \A j \in 1..Len(Spoken(k, speaks)) : Spoken(k, speaks)[j].type = "text"
<1> DEFINE part == Part("text", "", NoId, <<Len(contents) + 1, k>>)
<1>1. part \in SomeParts /\ part.type = "text"
  <2>1. NoId \in Ids /\ <<Len(contents) + 1, k>> \in Spots
    BY NextSpots DEF Ids
  <2> QED BY <2>1 DEF Part, SomeParts
<1>2. Spoken(k, speaks) = IF speaks THEN <<part>> ELSE <<>>
  BY DEF Spoken
<1> HIDE DEF part
<1>3. /\ <<part>> \in Seq(SomeParts) /\ Len(<<part>>) = 1 /\ <<part>>[1] = part
      /\ <<>> \in Seq(SomeParts) /\ Len(<<>>) = 0
  BY <1>1
<1> QED BY <1>1, <1>2, <1>3

LEMMA ClientIdIs == ASSUME NEW n \in Spots, NEW given PROVE ClientId(n, given) \in Ids
BY DEF ClientId, Ids

LEMMA JoinIs ==
    ASSUME NEW T, NEW s \in Seq(T), NEW t \in Seq(T)
    PROVE  /\ s \o t \in Seq(T) /\ Len(s \o t) = Len(s) + Len(t) /\ Len(s) \in Nat /\ Len(t) \in Nat
           /\ \A j \in 1..Len(s) : (s \o t)[j] = s[j]
           /\ \A j \in (Len(s) + 1)..(Len(s) + Len(t)) : (s \o t)[j] = t[j - Len(s)] /\ j - Len(s) \in 1..Len(t)
OBVIOUS

\* Of items without answers.
LEMMA WithoutAnswers ==
    ASSUME NEW items, NEW x, items[x] \in SomeItems, NEW both,
           \A j \in 1..Len(items[x].parts) : items[x].parts[j].type # "answer"
    PROVE  AnswersIn(items[x]) = {} /\ AnswersIs(items, x, both)
<1>1. AnswersIn(items[x]) = {}
  BY PlacesOf
<1> QED BY <1>1 DEF AnswersIs

LEMMA WithoutCalls ==
    ASSUME NEW item \in SomeItems, \A j \in 1..Len(item.parts) : item.parts[j].type # "call"
    PROVE  CallsIn(item) = {}
<1>1. {item.parts[j].n : j \in {h \in 1..Len(item.parts) : item.parts[h].type = "call"}} = {}
  OBVIOUS
<1> QED BY <1>1, PlacesOf

LEMMA ItemParts ==
    ASSUME NEW role \in {"user", "assistant"}, NEW parts \in Seq(SomeParts)
    PROVE  /\ Item(role, parts) \in SomeItems /\ Item(role, parts).role = role
           /\ Item(role, parts).parts = parts
BY DEF Item, SomeItems

LEMMA AddedLast ==
    ASSUME contents \in Seq(SomeItems), NEW item \in SomeItems, Adds(item)
    PROVE  /\ contents' = Append(contents, item) /\ style' = style /\ Len(contents) < MaxItems
           /\ contents'[Len(contents) + 1] = item
           /\ \A x \in 1..Len(contents) : contents'[x] = contents[x]
<1>1. contents' = Append(contents, item) /\ style' = style /\ Len(contents) < MaxItems
  BY DEF Adds
<1> QED BY <1>1, AppendIs

LEMMA AskingKeeps ==
    ASSUME RequestInv, UserAsksFor PROVE RequestInv'
<1> DEFINE parts == Spoken(1, TRUE)
           item == Item("user", parts)
           n == Len(contents) + 1
           given == style # "none"
           both == style = "both"
<1>1. contents \in Seq(SomeItems) /\ Conversation(contents, given, both)
  BY DEF RequestInv, Conversation
<1>2. parts \in Seq(SomeParts) /\ \A j \in 1..Len(parts) : parts[j].type = "text"
  BY <1>1, SpokenIs
<1> HIDE DEF parts
<1>3. item \in SomeItems /\ item.role = "user" /\ item.parts = parts
  BY <1>2, ItemParts
<1>4. Adds(item)
  BY DEF UserAsksFor, parts
<1> HIDE DEF item
<1>5. /\ contents' = Append(contents, item) /\ style' = style /\ Len(contents) < MaxItems
      /\ contents'[n] = item
  BY <1>1, <1>3, <1>4, AddedLast
<1>6. \A j \in 1..Len(parts) : parts[j].type # "call" /\ parts[j].type # "answer"
  BY <1>2
<1>7. CallsIn(item) = {}
  BY <1>3, <1>6, WithoutCalls
<1> HIDE DEF n
<1>8. AnswersIs(contents', n, both)
  BY <1>3, <1>5, <1>6, WithoutAnswers
<1>9. ItemIs(contents', n, given)
  BY <1>3, <1>5, <1>6, <1>7 DEF ItemIs
<1> HIDE DEF given, both
<1>10. Conversation(contents', given, both)
  BY <1>1, <1>3, <1>5, <1>8, <1>9, ConversationGrows DEF n
<1> QED BY <1>5, <1>10 DEF RequestInv, given, both

LEMMA ReplyingKeeps ==
    ASSUME RequestInv, ModelReplies PROVE RequestInv'
<1> DEFINE given == style # "none"
           both == style = "both"
           n == Len(contents) + 1
<1>1. contents \in Seq(SomeItems) /\ Conversation(contents, given, both)
  BY DEF RequestInv, Conversation
<1>2. PICK m \in 0..MaxCalls, speaks \in BOOLEAN : \E called \in [1..m -> Functions] :
          LET text == Spoken(1, speaks)
              at(k) == <<Len(contents) + 1, Len(text) + k>>
              call(k) == Part("call", called[k], ClientId(at(k), style # "none"), at(k))
          IN  Adds(Item("assistant", text \o [k \in 1..m |-> call(k)]))
  BY DEF ModelReplies
<1>3. PICK called \in [1..m -> Functions] :
          LET text == Spoken(1, speaks)
              at(k) == <<Len(contents) + 1, Len(text) + k>>
              call(k) == Part("call", called[k], ClientId(at(k), style # "none"), at(k))
          IN  Adds(Item("assistant", text \o [k \in 1..m |-> call(k)]))
  BY <1>2
<1> DEFINE text == Spoken(1, speaks)
           at(k) == <<n, Len(text) + k>>
           call(k) == Part("call", called[k], ClientId(at(k), given), at(k))
           issued == [k \in 1..m |-> call(k)]
           parts == text \o issued
           item == Item("assistant", parts)
<1>4. Adds(item)
  BY <1>3
<1>5. text \in Seq(SomeParts) /\ Len(text) \in 0..1 /\ \A j \in 1..Len(text) : text[j].type = "text"
  BY <1>1, SpokenIs
<1>6. m \in Nat /\ m <= MaxCalls /\ MaxCalls \in Nat /\ Len(text) \in Nat
  BY <1>5, RequestAssumption
<1> HIDE DEF text
<1>7. ASSUME NEW k \in 1..m
      PROVE  call(k) \in SomeParts /\ call(k).type = "call" /\ call(k).n = at(k) /\ call(k).id = ClientId(at(k), given)
  <2>1. Len(text) + k \in Nat /\ k \in Nat
    BY <1>6
  <2>2. at(k) \in Spots
    BY <1>1, <2>1, NextSpots
  <2> HIDE DEF at, given
  <2>3. ClientId(at(k), given) \in Ids /\ called[k] \in Functions
    BY <2>2, ClientIdIs
  <2> QED BY <2>2, <2>3 DEF Part, SomeParts
<1> HIDE DEF call, at
<1>8. issued \in Seq(SomeParts) /\ Len(issued) = m /\ \A k \in 1..m : issued[k] = call(k)
  <2>1. issued \in [1..m -> SomeParts]
    BY <1>7
  <2>2. issued \in Seq(SomeParts)
    BY <1>6, <2>1, FunctionIsSeq
  <2>3. DOMAIN issued = 1..m /\ \A k \in 1..m : issued[k] = call(k)
    OBVIOUS
  <2> HIDE DEF issued
  <2> QED BY <1>6, <2>2, <2>3
<1> HIDE DEF issued
<1>9. /\ parts \in Seq(SomeParts) /\ Len(parts) = Len(text) + m
      /\ \A j \in 1..Len(text) : parts[j] = text[j]
      /\ \A j \in (Len(text) + 1)..(Len(text) + m) : parts[j] = issued[j - Len(text)] /\ j - Len(text) \in 1..m
  BY <1>5, <1>8, JoinIs
<1> HIDE DEF parts
<1>10. \A j \in 1..Len(parts) : j \in 1..Len(text) \/ j \in (Len(text) + 1)..(Len(text) + m)
  BY <1>6, <1>9
<1>11. ASSUME NEW j \in 1..Len(parts)
       PROVE  /\ parts[j].type # "answer"
              /\ parts[j].type = "call" => parts[j].n = <<n, j>> /\ parts[j].id = ClientId(<<n, j>>, given)
  <2> HIDE DEF given, n
  <2>1. CASE j \in 1..Len(text)
    BY <1>5, <1>9, <2>1
  <2>2. CASE j \in (Len(text) + 1)..(Len(text) + m)
    <3> DEFINE k == j - Len(text)
    <3>1. k \in 1..m /\ parts[j] = call(k)
      BY <1>8, <1>9, <2>2
    <3>2. Len(text) + k = j
      BY <1>6
    <3> HIDE DEF k
    <3>3. at(k) = <<n, j>>
      BY <3>2 DEF at
    <3> QED BY <1>7, <3>1, <3>3
  <2> QED BY <1>10, <2>1, <2>2
<1>12. item \in SomeItems /\ item.role = "assistant" /\ item.parts = parts
  BY <1>9, ItemParts
<1>13. Len(parts) <= MaxCalls + 1
  BY <1>5, <1>6, <1>9
<1> HIDE DEF item
<1>14. /\ contents' = Append(contents, item) /\ style' = style /\ Len(contents) < MaxItems
       /\ contents'[n] = item
  BY <1>1, <1>4, <1>12, AddedLast
<1> HIDE DEF n
<1>15. AnswersIs(contents', n, both) /\ AnswersIn(item) = {}
  BY <1>11, <1>12, <1>14, WithoutAnswers
<1> HIDE DEF given, both
<1>16. ItemIs(contents', n, given)
  BY <1>11, <1>12, <1>13, <1>14, <1>15 DEF ItemIs
<1>17. Conversation(contents', given, both)
  BY <1>1, <1>12, <1>14, <1>15, <1>16, ConversationGrows DEF n
<1> QED BY <1>14, <1>17 DEF RequestInv, given, both

LEMMA AnswersKept ==
    ASSUME NEW answers \in Seq(AnswerParts), NEW text \in Seq(SomeParts),
           \A j \in 1..Len(text) : text[j].type = "text",
           NEW item \in SomeItems, item.parts = answers \o text
    PROVE  PartsOf(item, "answer") = answers
<1> DEFINE parts == answers \o text
           S == OfKind(parts, "answer")
           m == Len(answers)
           T == ToSet(answers)
<1>1. answers \in Seq(SomeParts) /\ m \in Nat /\ answers \in Seq(T) /\ DOMAIN answers = 1..m
  <2>1. m \in Nat /\ DOMAIN answers = 1..m /\ answers \in [1..m -> SomeParts] /\ answers \in [1..m -> T]
    BY DEF AnswerParts, ToSet
  <2> HIDE DEF m
  <2> QED BY <2>1, FunctionIsSeq
<1>2. /\ parts \in Seq(SomeParts) /\ Len(parts) = m + Len(text) /\ Len(text) \in Nat
      /\ \A j \in 1..m : parts[j] = answers[j]
      /\ \A j \in (m + 1)..(m + Len(text)) : parts[j] = text[j - m] /\ j - m \in 1..Len(text)
  BY <1>1, JoinIs
<1>3. SubSeq(parts, 1, m) = answers
  <2> HIDE DEF parts
  <2>1. m <= Len(parts)
    BY <1>1, <1>2
  <2>2. SubSeq(parts, 1, m) = [j \in 1..m |-> parts[j]]
    BY <1>1, <1>2, <2>1
  <2>3. answers = [j \in 1..m |-> answers[j]]
    BY <1>1
  <2> HIDE DEF m
  <2> QED BY <1>2, <2>2, <2>3
<1>4. T \subseteq S
  <2>1. \A j \in 1..m : parts[j].type = "answer" /\ j \in DOMAIN parts
    <3>1. \A j \in 1..m : answers[j].type = "answer"
      BY DEF AnswerParts
    <3>2. DOMAIN parts = 1..Len(parts)
      <4> HIDE DEF parts
      <4> QED BY <1>2
    <3> HIDE DEF parts, m
    <3> QED BY <1>1, <1>2, <3>1, <3>2
  <2> HIDE DEF parts
  <2> QED BY <1>1, <1>2, <2>1 DEF OfKind, ToSet
<1>5. NoneAfter(parts, m, S)
  <2>1. \A j \in (m + 1)..Len(parts) : parts[j].type = "text"
    <3> HIDE DEF parts, m
    <3> QED BY <1>2
  <2> HIDE DEF parts
  <2> QED BY <2>1 DEF NoneAfter, OfKind
<1>6. PartsOf(item, "answer") = Keep(parts, S)
  BY PartsOfIs
<1> HIDE DEF S, parts
<1>7. Keep(parts, S) = Keep(SubSeq(parts, 1, m), S)
  <2>1. m \in 0..Len(parts)
    BY <1>1, <1>2
  <2> HIDE DEF m
  <2> QED BY <1>2, <1>5, <2>1, KeepOfFirst
<1>8. Keep(answers, S) = answers
  <2> HIDE DEF T
  <2> QED BY <1>1, <1>4, KeepAll
<1> QED BY <1>3, <1>6, <1>7, <1>8

LEMMA BijectionIs ==
    ASSUME NEW m \in Nat, NEW issued, NEW order \in Bijection(1..m, issued)
    PROVE  /\ order \in [1..m -> issued]
           /\ \A a, b \in 1..m : order[a] = order[b] => a = b
           /\ \A j \in issued : \E a \in 1..m : order[a] = j
BY DEF Bijection, Injection, Surjection, IsInjective

LEMMA AnsweringKeeps ==
    ASSUME RequestInv, ToolsReply PROVE RequestInv'
<1> DEFINE given == style # "none"
           both == style = "both"
           i == Len(contents)
           n == i + 1
           parts == Last(contents).parts
           issued == {k \in DOMAIN parts : parts[k].type = "call"}
           m == Cardinality(issued)
           answer(c) == Part("answer", c.name, ClientId(c.n, both), c.n)
           answers(order) == [a \in 1..m |-> answer(parts[order[a]])]
<1>1. contents \in Seq(SomeItems) /\ Conversation(contents, given, both)
  BY DEF RequestInv, Conversation
<1>2. contents # <<>> /\ Last(contents).role = "assistant" /\ issued # {}
  BY DEF ToolsReply, LastIs
<1>3. PICK order \in Bijection(1..m, issued) : \E speaks \in BOOLEAN :
          /\ \A a, b \in 1..m :
                a < b /\ parts[order[a]].name = parts[order[b]].name => order[a] < order[b]
          /\ Adds(Item("user", answers(order) \o Spoken(m + 1, speaks)))
  BY DEF ToolsReply
<1>4. PICK speaks \in BOOLEAN :
          /\ \A a, b \in 1..m :
                a < b /\ parts[order[a]].name = parts[order[b]].name => order[a] < order[b]
          /\ Adds(Item("user", answers(order) \o Spoken(m + 1, speaks)))
  BY <1>3
<1> DEFINE heard == answers(order)
           text == Spoken(m + 1, speaks)
           item == Item("user", heard \o text)
<1>5. i \in Nat \ {0} /\ i \in 1..i /\ Last(contents) = contents[i] /\ contents[i] \in SomeItems
  BY <1>1, <1>2 DEF Last
<1>6. parts \in Seq(SomeParts) /\ parts = contents[i].parts /\ DOMAIN parts = 1..Len(parts) /\ Len(parts) \in Nat
  <2>1. parts = contents[i].parts
    BY <1>5
  <2>2. parts \in Seq(SomeParts)
    BY <1>5, <2>1 DEF SomeItems
  <2> HIDE DEF parts
  <2> QED BY <2>1, <2>2
<1>7. Adds(item)
  BY <1>4
<1>8. m \in Nat
  <2>1. issued \in SUBSET (1..Len(parts))
    BY <1>6
  <2>2. IsFiniteSet(1..Len(parts))
    <3> DEFINE most == Len(parts)
    <3>1. most \in Int /\ 1 \in Int
      BY <1>6
    <3> HIDE DEF most
    <3>2. IsFiniteSet(1..most)
      BY <3>1, FS_Interval
    <3> QED BY <3>2 DEF most
  <2> HIDE DEF issued, parts
  <2>3. IsFiniteSet(issued)
    BY <2>1, <2>2, FS_Subset
  <2> QED BY <2>3, FS_CardinalityType
<1> HIDE DEF m, parts
<1>9. /\ order \in [1..m -> issued]
      /\ \A a, b \in 1..m : order[a] = order[b] => a = b
      /\ \A j \in issued : \E a \in 1..m : order[a] = j
  <2> HIDE DEF issued
  <2> QED BY <1>8, BijectionIs
<1>10. \A a \in 1..m : order[a] \in 1..Len(parts) /\ parts[order[a]].type = "call"
  BY <1>6, <1>9
<1>11. ASSUME NEW c \in SomeParts, c.type = "call"
       PROVE  answer(c) \in AnswerParts
  <2>1. c.name \in Functions /\ c.n \in Spots
    BY <1>11, TypeOfPart
  <2> HIDE DEF both
  <2>2. ClientId(c.n, both) \in Ids
    BY <2>1, ClientIdIs
  <2> QED BY <2>1, <2>2 DEF Part, SomeParts, AnswerParts
<1> HIDE DEF answer
<1>12. heard \in Seq(AnswerParts) /\ Len(heard) = m /\ \A a \in 1..m : heard[a] = answer(parts[order[a]])
  <2>1. \A a \in 1..m : parts[order[a]] \in SomeParts
    BY <1>6, <1>10
  <2>2. heard \in [1..m -> AnswerParts]
    BY <1>10, <1>11, <2>1
  <2>3. heard \in Seq(AnswerParts)
    BY <1>8, <2>2, FunctionIsSeq
  <2>4. DOMAIN heard = 1..m /\ \A a \in 1..m : heard[a] = answer(parts[order[a]])
    OBVIOUS
  <2> HIDE DEF heard
  <2> QED BY <1>8, <2>3, <2>4
<1>13. text \in Seq(SomeParts) /\ \A j \in 1..Len(text) : text[j].type = "text"
  <2>1. m + 1 \in Nat
    BY <1>8
  <2> QED BY <1>1, <2>1, SpokenIs
<1> HIDE DEF heard, text, answers
<1>14. item \in SomeItems /\ item.role = "user" /\ item.parts = heard \o text
  <2>1. heard \in Seq(SomeParts)
    BY <1>12 DEF AnswerParts
  <2>2. heard \o text \in Seq(SomeParts)
    BY <1>13, <2>1, JoinIs
  <2> QED BY <2>2, ItemParts
<1>15. PartsOf(item, "answer") = heard
  BY <1>12, <1>13, <1>14, AnswersKept
<1> HIDE DEF item
<1>16. \A j \in 1..Len(item.parts) : item.parts[j].type # "call"
  <2> DEFINE s == item.parts
  <2>1. heard \in Seq(SomeParts) /\ \A j \in 1..Len(heard) : heard[j].type = "answer"
    BY <1>12 DEF AnswerParts
  <2>2. /\ Len(s) = Len(heard) + Len(text) /\ Len(heard) \in Nat /\ Len(text) \in Nat
        /\ \A j \in 1..Len(heard) : s[j] = heard[j]
        /\ \A j \in (Len(heard) + 1)..(Len(heard) + Len(text)) :
              s[j] = text[j - Len(heard)] /\ j - Len(heard) \in 1..Len(text)
    BY <1>13, <1>14, <2>1, JoinIs
  <2> HIDE DEF s
  <2>3. \A j \in 1..Len(s) : j \in 1..Len(heard) \/ j \in (Len(heard) + 1)..(Len(heard) + Len(text))
    BY <2>2
  <2>4. \A j \in 1..Len(s) : s[j].type # "call"
    BY <1>13, <2>1, <2>2, <2>3
  <2> QED BY <2>4 DEF s
<1>17. CallsIn(item) = {}
  BY <1>14, <1>16, WithoutCalls
<1>18. /\ contents' = Append(contents, item) /\ style' = style /\ i < MaxItems
       /\ contents'[n] = item /\ \A x \in 1..i : contents'[x] = contents[x]
  BY <1>1, <1>7, <1>14, AddedLast
<1>19. ItemIs(contents', n, given)
  <2> HIDE DEF given, n, i
  <2> QED BY <1>14, <1>16, <1>17, <1>18 DEF ItemIs
<1>20. InOrder(order, heard, parts, both)
  <2>1. \A a \in 1..m :
            heard[a] = Part("answer", parts[order[a]].name, ClientId(parts[order[a]].n, both), parts[order[a]].n)
    BY <1>12 DEF answer
  <2>2. issued = {j \in 1..Len(parts) : parts[j].type = "call"}
    BY <1>6
  <2> HIDE DEF issued, both
  <2>3. order \in [1..Len(heard) -> {j \in 1..Len(parts) : parts[j].type = "call"}]
    BY <1>9, <1>12, <2>2
  <2>4. \A j \in 1..Len(parts) : parts[j].type = "call" => \E a \in 1..Len(heard) : order[a] = j
    BY <1>9, <1>12, <2>2
  <2>5. /\ \A a, b \in 1..Len(heard) : order[a] = order[b] => a = b
        /\ \A a, b \in 1..Len(heard) :
              a < b /\ parts[order[a]].name = parts[order[b]].name => order[a] < order[b]
    BY <1>4, <1>9, <1>12
  <2> QED BY <1>12, <2>1, <2>3, <2>4, <2>5, Zenon DEF InOrder
<1>21. AnswersIs(contents', n, both)
  <2>1. /\ n - 1 = i /\ i \in 1..i /\ contents'[i].parts = parts
    BY <1>5, <1>6, <1>18
  <2>2. i \in 1..Len(contents')
    BY <1>1, <1>5, <1>14, <1>18, AppendIs
  <2> HIDE DEF both, n, i
  <2> QED BY <1>15, <1>18, <1>20, <2>1, <2>2 DEF AnswersIs
<1> HIDE DEF given, both, i
<1>22. Conversation(contents', given, both)
  BY <1>1, <1>14, <1>18, <1>19, <1>21, ConversationGrows DEF i
<1> QED BY <1>18, <1>22 DEF RequestInv, given, both

LEMMA RequestInvInit == RequestInit => RequestInv
<1> SUFFICES ASSUME RequestInit PROVE RequestInv
  OBVIOUS
<1>1. style \in Styles /\ contents = <<>>
  BY DEF RequestInit
<1>2. <<>> \in Seq(SomeItems) /\ Len(<<>>) = 0 /\ 0 <= MaxItems
  BY RequestAssumption
<1> QED BY <1>1, <1>2 DEF RequestInv, Conversation

LEMMA RequestInvNext == RequestInv /\ [RequestNext]_requestVars => RequestInv'
<1> SUFFICES ASSUME RequestInv, [RequestNext]_requestVars PROVE RequestInv'
  OBVIOUS
<1>1. CASE UserAsksFor
  BY <1>1, AskingKeeps
<1>2. CASE ModelReplies
  BY <1>2, ReplyingKeeps
<1>3. CASE ToolsReply
  BY <1>3, AnsweringKeeps
<1>4. CASE UNCHANGED requestVars
  <2>1. style' = style /\ contents' = contents
    BY <1>4 DEF requestVars
  <2> QED BY <2>1 DEF RequestInv
<1> QED BY <1>1, <1>2, <1>3, <1>4 DEF RequestNext

(* The items of a conversation are what the client and the model can say,    *)
(* each answer being to a call of the item before it, all calls answered     *)
(* once and those of a function in their order (ItemIs, AnswersIs).          *)
THEOREM RequestTypes == RequestSpec => []RequestInv
<1>1. RequestInit => RequestInv
  BY RequestInvInit
<1>2. RequestInv /\ [RequestNext]_requestVars => RequestInv'
  BY RequestInvNext
<1> QED BY <1>1, <1>2, PTL DEF RequestSpec

(* The OpenAI request says what the Gemini client said, and its answers find *)
(* their calls, for conversations of any length with any number of calls     *)
(* (translation.py:27-149).                                                  *)
THEOREM BridgedRequests == RequestSpec => []BridgedRequestIsFaithful
<1>1. RequestInv => BridgedRequestIsFaithful
  BY RequestInvIsFaithful
<1> QED BY <1>1, RequestTypes, PTL
=============================================================================
