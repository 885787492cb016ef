--------------------------- MODULE TextValuesProofs ---------------------------
(***************************************************************************)
(* Proofs about TextValues, for strings of any length and any limits: what *)
(* normalization makes of a text is stable, the same for every spelling,   *)
(* and counted as a reader sees it.                                        *)
(*                                                                         *)
(* Induction over strings is induction over the set of the strings a fact  *)
(* holds for, which rests on the natural numbers being well founded; and a *)
(* recursive function exists because every step of it is a value of a      *)
(* function.                                                               *)
(***************************************************************************)
EXTENDS TextValues, SequenceTheorems, FiniteSetTheorems, WellFoundedInduction, TLAPS

(* Induction and recursion over sequences. *)

LEMMA LeastElement ==
    ASSUME NEW T \in SUBSET Nat, T # {}
    PROVE  \E n \in T : \A m \in T : n <= m
<1>. DEFINE R == OpToRel(<, Nat)
<1>1. IsWellFoundedOn(R, Nat)  BY NatLessThanWellFounded
<1>. HIDE DEF R
<1>2. PICK n \in T : \A m \in T : ~(<<m, n>> \in R)  BY <1>1, WFMin
<1>3. \A m \in T : <<m, n>> \in R <=> m < n  BY DEF R, OpToRel
<1>4. \A m \in T : n <= m
  <2>. SUFFICES ASSUME NEW m \in T PROVE n <= m  OBVIOUS
  <2>1. m \in Nat /\ n \in Nat /\ ~(m < n)  BY <1>2, <1>3
  <2>. QED  BY <2>1
<1>. QED  BY <1>4

LEMMA Induction ==
    ASSUME NEW T \in SUBSET Nat, 0 \in T, \A n \in T : n + 1 \in T
    PROVE  T = Nat
<1>1. SUFFICES ASSUME Nat \ T # {} PROVE FALSE  OBVIOUS
<1>2. PICK n \in Nat \ T : \A m \in Nat \ T : n <= m  BY <1>1, LeastElement
<1>3. n - 1 \in T  BY <1>2
<1>. QED  BY <1>2, <1>3

\* A set of sequences that has the empty one and all it can append to is all of them.
LEMMA SequenceInduction ==
    ASSUME NEW S, NEW T \in SUBSET Seq(S), <<>> \in T,
           \A s \in T, c \in S : Append(s, c) \in T
    PROVE  T = Seq(S)
<1>. DEFINE N == {n \in Nat : \A s \in Seq(S) : Len(s) = n => s \in T}
<1>1. 0 \in N  BY EmptySeq
<1>2. ASSUME NEW n \in N PROVE n + 1 \in N
  <2>. SUFFICES ASSUME NEW s \in Seq(S), Len(s) = n + 1 PROVE s \in T  OBVIOUS
  <2>1. s # <<>>  BY EmptySeq
  <2>2. PICK t \in Seq(S), c \in S : s = Append(t, c)
    BY <2>1, SequenceEmptyOrAppend
  <2>3. Len(t) = n  BY <2>2, AppendProperties
  <2>. QED  BY <2>2, <2>3
<1>3. N = Nat
  <2>. HIDE DEF N
  <2>1. N \in SUBSET Nat  BY DEF N
  <2>. QED  BY <1>1, <1>2, <2>1, Induction
<1>. QED  BY <1>3, LenProperties

LEMMA FrontLast ==
    ASSUME NEW S, NEW s \in Seq(S), s # <<>>
    PROVE  /\ Front(s) \in Seq(S) /\ Last(s) \in S
           /\ s = Append(Front(s), Last(s))
           /\ Len(s) = Len(Front(s)) + 1
<1>1. PICK t \in Seq(S), c \in S : s = Append(t, c)  BY SequenceEmptyOrAppend
<1>2. Len(s) = Len(t) + 1 /\ Len(t) \in Nat  BY <1>1, AppendProperties, LenProperties
<1>3. Last(s) = c  BY <1>1, <1>2, AppendProperties DEF Last
<1>4. Front(s) = t
  <2>1. \A i \in 1..Len(t) : s[i] = t[i]  BY <1>1, AppendProperties
  <2>2. \A i \in 1..Len(t) : s[i] \in S  BY <2>1, ElementOfSeq
  <2>3. Front(s) = SubSeq(s, 1, Len(t))  BY <1>2 DEF Front
  <2>4. /\ Front(s) \in Seq(S) /\ Len(Front(s)) = Len(t)
        /\ \A i \in 1..Len(t) : Front(s)[i] = s[i]
    BY <1>2, <2>2, <2>3, SubSeqProperties
  <2>. QED  BY <2>1, <2>4, SeqEqual
<1>. QED  BY <1>1, <1>2, <1>3, <1>4

LEMMA FrontLastOfAppend ==
    ASSUME NEW S, NEW s \in Seq(S), NEW c \in S
    PROVE  Front(Append(s, c)) = s /\ Last(Append(s, c)) = c
<1>1. Append(s, c) \in Seq(S) /\ Append(s, c) # <<>>  BY AppendProperties
<1>2. PICK t : t = Append(s, c)  OBVIOUS
<1>3. Front(t) \in Seq(S) /\ Last(t) \in S /\ t = Append(Front(t), Last(t))
  BY <1>1, <1>2, FrontLast
<1>4. Append(s, c) = Append(Front(t), Last(t))  BY <1>2, <1>3
<1>5. s = Front(t) /\ c = Last(t)  BY <1>3, <1>4, AppendInjective
<1>. QED  BY <1>2, <1>5

\* A step: a value, the sequence it belongs to and the element to come give a value.
Steps(S, R) == [R \X Seq(S) \X S -> R]

\* g is computed from each sequence by one step on what it is before the last element.
Follows(g, S, base, step, n) ==
    /\ g[<<>>] = base
    /\ \A s \in Seq(S), c \in S : Len(s) < n => g[Append(s, c)] = step[<<g[s], s, c>>]

LEMMA FollowsOnce ==
    ASSUME NEW S, NEW base, NEW step, NEW n \in Nat, NEW g, NEW h,
           Follows(g, S, base, step, n), Follows(h, S, base, step, n)
    PROVE  \A s \in Seq(S) : Len(s) <= n => g[s] = h[s]
<1>. DEFINE T == {s \in Seq(S) : Len(s) <= n => g[s] = h[s]}
<1>1. <<>> \in T  BY EmptySeq DEF Follows
<1>2. ASSUME NEW s \in T, NEW c \in S PROVE Append(s, c) \in T
  <2>1. Append(s, c) \in Seq(S) /\ Len(Append(s, c)) = Len(s) + 1 /\ Len(s) \in Nat
    BY AppendProperties, LenProperties
  <2>2. ASSUME Len(Append(s, c)) <= n PROVE g[Append(s, c)] = h[Append(s, c)]
    <3>1. Len(s) < n /\ g[s] = h[s]  BY <2>1, <2>2
    <3>. QED  BY <3>1 DEF Follows
  <2>. QED  BY <2>1, <2>2
<1>3. T = Seq(S)
  <2>. HIDE DEF T
  <2>1. T \in SUBSET Seq(S)  BY DEF T
  <2>. QED  BY <1>1, <1>2, <2>1, SequenceInduction
<1>. QED  BY <1>3

LEMMA FollowsSome ==
    ASSUME NEW S, NEW R, NEW base \in R, NEW step \in Steps(S, R)
    PROVE  \A n \in Nat : \E g \in [Seq(S) -> R] : Follows(g, S, base, step, n)
<1>. DEFINE N == {n \in Nat : \E g \in [Seq(S) -> R] : Follows(g, S, base, step, n)}
<1>1. 0 \in N
  <2>. DEFINE g == [s \in Seq(S) |-> base]
  <2>1. Follows(g, S, base, step, 0)
    BY LenProperties, EmptySeq DEF Follows
  <2>2. g \in [Seq(S) -> R]  OBVIOUS
  <2>. QED  BY <2>1, <2>2
<1>2. ASSUME NEW n \in N PROVE n + 1 \in N
  <2>1. PICK g \in [Seq(S) -> R] : Follows(g, S, base, step, n)  OBVIOUS
  <2>. DEFINE h == [s \in Seq(S) |-> IF Len(s) = n + 1
                                     THEN step[<<g[Front(s)], Front(s), Last(s)>>]
                                     ELSE g[s]]
  <2>2. h \in [Seq(S) -> R]
    <3>. SUFFICES ASSUME NEW s \in Seq(S), Len(s) = n + 1
                  PROVE  step[<<g[Front(s)], Front(s), Last(s)>>] \in R
      OBVIOUS
    <3>1. s # <<>>  BY EmptySeq
    <3>. QED  BY <3>1, FrontLast DEF Steps
  <2>3. h[<<>>] = base
    <3>1. <<>> \in Seq(S) /\ Len(<<>>) # n + 1  BY EmptySeq
    <3>. QED  BY <2>1, <3>1 DEF Follows
  <2>4. ASSUME NEW s \in Seq(S), NEW c \in S, Len(s) < n + 1
        PROVE  h[Append(s, c)] = step[<<h[s], s, c>>]
    <3>1. /\ Append(s, c) \in Seq(S) /\ Len(Append(s, c)) = Len(s) + 1
          /\ Len(s) \in Nat
      BY AppendProperties, LenProperties
    <3>2. h[s] = g[s]  BY <2>4, <3>1
    <3>3. CASE Len(s) = n
      <4>1. h[Append(s, c)] = step[<<g[s], s, c>>]  BY <3>1, <3>3, FrontLastOfAppend
      <4>. QED  BY <3>2, <4>1
    <3>4. CASE Len(s) < n
      BY <2>1, <3>1, <3>2, <3>4 DEF Follows
    <3>. QED  BY <2>4, <3>1, <3>3, <3>4
  <2>. HIDE DEF h
  <2>5. Follows(h, S, base, step, n + 1)  BY <2>3, <2>4 DEF Follows
  <2>. QED  BY <2>2, <2>5
<1>3. N = Nat
  <2>. HIDE DEF N
  <2>1. N \in SUBSET Nat  BY DEF N
  <2>. QED  BY <1>1, <1>2, <2>1, Induction
<1>. QED  BY <1>3

\* Recursion from the end of a sequence defines a function.
LEMMA Recursion ==
    ASSUME NEW S, NEW R, NEW base \in R, NEW step \in Steps(S, R)
    PROVE  \E g \in [Seq(S) -> R] :
             /\ g[<<>>] = base
             /\ \A s \in Seq(S), c \in S : g[Append(s, c)] = step[<<g[s], s, c>>]
<1>. DEFINE F(n) == CHOOSE g \in [Seq(S) -> R] : Follows(g, S, base, step, n)
            g == [s \in Seq(S) |-> F(Len(s))[s]]
<1>1. \A n \in Nat : F(n) \in [Seq(S) -> R] /\ Follows(F(n), S, base, step, n)
  BY FollowsSome
<1>. HIDE DEF F
<1>2. g \in [Seq(S) -> R]  BY <1>1, LenProperties
<1>3. g[<<>>] = base
  <2>1. g[<<>>] = F(0)[<<>>]  BY EmptySeq
  <2>. QED  BY <1>1, <2>1 DEF Follows
<1>4. ASSUME NEW s \in Seq(S), NEW c \in S
      PROVE  g[Append(s, c)] = step[<<g[s], s, c>>]
  <2>. DEFINE n == Len(s)
  <2>1. n \in Nat /\ Append(s, c) \in Seq(S) /\ Len(Append(s, c)) = n + 1
    BY AppendProperties, LenProperties
  <2>. HIDE DEF n
  <2>2. g[Append(s, c)] = F(n + 1)[Append(s, c)]  BY <2>1
  <2>3. F(n + 1)[Append(s, c)] = step[<<F(n + 1)[s], s, c>>]
    <3>1. Follows(F(n + 1), S, base, step, n + 1)  BY <1>1, <2>1
    <3>2. Len(s) < n + 1  BY <2>1 DEF n
    <3>. QED  BY <3>1, <3>2 DEF Follows
  <2>4. F(n + 1)[s] = F(n)[s]
    <3>1. Follows(F(n), S, base, step, n)  BY <1>1, <2>1
    <3>2. Follows(F(n + 1), S, base, step, n)  BY <1>1, <2>1, LenProperties DEF Follows
    <3>. QED  BY <2>1, <3>1, <3>2, FollowsOnce DEF n
  <2>. QED  BY <2>2, <2>3, <2>4 DEF n
<1>. HIDE DEF g
<1>. QED  BY <1>2, <1>3, <1>4
------------------------------------------------------------------------------
(* The operators of TextValues, character by character. *)

Text == Seq(Alphabet)

\* What a replacement of pairs makes of the next character.
Taken(done, char, first, second, one) ==
    IF char = second /\ EndsWith(done, first) THEN Append(Front(done), one)
    ELSE Append(done, char)

LEMMA StepType ==
    ASSUME NEW s \in Text, NEW c \in Alphabet, NEW f, NEW k, NEW o \in Alphabet
    PROVE  Taken(s, c, f, k, o) \in Text
<1>1. CASE c = k /\ EndsWith(s, f)
  <2>1. s # <<>>  BY <1>1 DEF EndsWith
  <2>2. Front(s) \in Text  BY <2>1, FrontLast DEF Text
  <2>. QED  BY <1>1, <2>2, AppendProperties DEF Taken, Text
<1>2. CASE ~(c = k /\ EndsWith(s, f))
  BY <1>2, AppendProperties DEF Taken, Text
<1>. QED  BY <1>1, <1>2

LEMMA JoinedStep ==
    ASSUME NEW f, NEW k, NEW o \in Alphabet
    PROVE  /\ Joined(<<>>, f, k, o) = <<>>
           /\ \A s \in Text : Joined(s, f, k, o) \in Text
           /\ \A s \in Text, c \in Alphabet :
                Joined(Append(s, c), f, k, o) = Taken(Joined(s, f, k, o), c, f, k, o)
<1>. DEFINE step == [x \in Text \X Text \X Alphabet |-> Taken(x[1], x[3], f, k, o)]
            Body(d) == [t \in Seq(Alphabet) |->
                          IF t = <<>> THEN <<>>
                          ELSE LET before == d[Front(t)] IN
                               IF Last(t) = k /\ EndsWith(before, f)
                               THEN Append(Front(before), o)
                               ELSE Append(before, Last(t))]
            D == CHOOSE d : d = Body(d)
<1>1. step \in [Text \X Text \X Alphabet -> Text]  BY StepType
<1>2. <<>> \in Text  BY EmptySeq DEF Text
<1>3. PICK g \in [Text -> Text] :
        /\ g[<<>>] = <<>>
        /\ \A s \in Text, c \in Alphabet : g[Append(s, c)] = step[<<g[s], s, c>>]
  <2>1. PICK next : next = step  OBVIOUS
  <2>2. next \in [Text \X Text \X Alphabet -> Text]  BY <1>1, <2>1
  <2>. HIDE DEF step
  <2>3. \E g \in [Seq(Alphabet) -> Text] :
          /\ g[<<>>] = <<>>
          /\ \A s \in Seq(Alphabet), c \in Alphabet : g[Append(s, c)] = next[<<g[s], s, c>>]
    <3>1. next \in Steps(Alphabet, Text)  BY <2>2 DEF Text, Steps
    <3>. QED  BY <1>2, <3>1, Recursion
  <2>. QED  BY <2>1, <2>3 DEF Text
<1>4. g = Body(g)
  <2>1. ASSUME NEW t \in Text PROVE g[t] = Body(g)[t]
    <3>1. CASE t = <<>>  BY <1>3, <3>1 DEF Text
    <3>2. CASE t # <<>>
      <4>1. Front(t) \in Text /\ Last(t) \in Alphabet /\ t = Append(Front(t), Last(t))
        BY <3>2, FrontLast DEF Text
      <4>2. g[t] = step[<<g[Front(t)], Front(t), Last(t)>>]  BY <1>3, <4>1
      <4>3. g[t] = Taken(g[Front(t)], Last(t), f, k, o)  BY <1>3, <4>1, <4>2
      <4>. QED  BY <3>2, <4>3 DEF Taken, Text
    <3>. QED  BY <3>1, <3>2
  <2>. QED  BY <2>1 DEF Text
<1>5. D = Body(D)
  <2>. HIDE DEF Body
  <2>. QED  BY <1>4
<1>6. \A s : Joined(s, f, k, o) = D[s]  BY DEF Joined
<1>. HIDE DEF D
<1>7. D[<<>>] = <<>>  BY <1>2, <1>5 DEF Text
<1>8. ASSUME NEW s \in Text, NEW c \in Alphabet
      PROVE  D[Append(s, c)] = Taken(D[s], c, f, k, o)
  <2>1. /\ Append(s, c) \in Text /\ Append(s, c) # <<>>
        /\ Front(Append(s, c)) = s /\ Last(Append(s, c)) = c
    BY AppendProperties, FrontLastOfAppend DEF Text
  <2>. QED  BY <1>5, <2>1 DEF Taken, Text
<1>9. \A s \in Text : D[s] \in Text
  <2>. DEFINE T == {s \in Text : D[s] \in Text}
  <2>1. <<>> \in T  BY <1>2, <1>7
  <2>2. \A s \in T, c \in Alphabet : Append(s, c) \in T
    BY <1>8, StepType, AppendProperties DEF Text
  <2>3. T \in SUBSET Seq(Alphabet)  BY DEF Text
  <2>. HIDE DEF T
  <2>4. T = Text  BY <2>1, <2>2, <2>3, SequenceInduction DEF Text
  <2>. QED  BY <2>4 DEF T
<1>. QED  BY <1>6, <1>7, <1>8, <1>9

LEMMA TextInduction ==
    ASSUME NEW T \in SUBSET Text, <<>> \in T, \A s \in T, c \in Alphabet : Append(s, c) \in T
    PROVE  T = Text
  BY SequenceInduction DEF Text

LEMMA Texts ==
    /\ <<>> \in Text /\ Len(<<>>) = 0
    /\ \A s \in Text : Len(s) \in Nat /\ DOMAIN s = 1..Len(s)
    /\ \A s \in Text : \A i \in 1..Len(s) : s[i] \in Alphabet
    /\ \A s \in Text, c \in Alphabet :
         /\ Append(s, c) \in Text /\ Append(s, c) # <<>> /\ Len(Append(s, c)) = Len(s) + 1
         /\ \A i \in 1..Len(s) : Append(s, c)[i] = s[i]
         /\ Append(s, c)[Len(s) + 1] = c
         /\ Front(Append(s, c)) = s /\ Last(Append(s, c)) = c
    /\ \A s \in Text : s # <<>> =>
         /\ Front(s) \in Text /\ Last(s) \in Alphabet /\ s = Append(Front(s), Last(s))
         /\ Len(s) = Len(Front(s)) + 1
<1>1. <<>> \in Text /\ Len(<<>>) = 0  BY EmptySeq DEF Text
<1>2. \A s \in Text : Len(s) \in Nat /\ DOMAIN s = 1..Len(s)  BY LenProperties DEF Text
<1>3. \A s \in Text : \A i \in 1..Len(s) : s[i] \in Alphabet  BY ElementOfSeq DEF Text
<1>4. \A s \in Text, c \in Alphabet :
         /\ Append(s, c) \in Text /\ Append(s, c) # <<>> /\ Len(Append(s, c)) = Len(s) + 1
         /\ \A i \in 1..Len(s) : Append(s, c)[i] = s[i]
         /\ Append(s, c)[Len(s) + 1] = c
  BY AppendProperties DEF Text
<1>5. \A s \in Text, c \in Alphabet : Front(Append(s, c)) = s /\ Last(Append(s, c)) = c
  BY FrontLastOfAppend DEF Text
<1>6. \A s \in Text : s # <<>> =>
         /\ Front(s) \in Text /\ Last(s) \in Alphabet /\ s = Append(Front(s), Last(s))
         /\ Len(s) = Len(Front(s)) + 1
  BY FrontLast DEF Text
<1>. QED  BY <1>1, <1>2, <1>3, <1>4, <1>5, <1>6

LEMMA SameText ==
    ASSUME NEW s \in Text, NEW t \in Text, Len(s) = Len(t), \A i \in 1..Len(s) : s[i] = t[i]
    PROVE  s = t
  BY SeqEqual DEF Text

LEMMA EndsOfAppend ==
    /\ \A x : ~EndsWith(<<>>, x)
    /\ \A s \in Text, c \in Alphabet : \A x : EndsWith(Append(s, c), x) <=> c = x
    /\ \A s \in Text : \A x : EndsWith(s, x) =>
         s # <<>> /\ x \in Alphabet /\ Front(s) \in Text /\ s = Append(Front(s), x)
<1>1. \A s \in Text, c \in Alphabet : \A x : EndsWith(Append(s, c), x) <=> c = x
  BY Texts DEF EndsWith
<1>2. \A s \in Text : \A x : EndsWith(s, x) =>
         s # <<>> /\ x \in Alphabet /\ Front(s) \in Text /\ s = Append(Front(s), x)
  <2>. SUFFICES ASSUME NEW s \in Text, NEW x, EndsWith(s, x)
                PROVE  s # <<>> /\ x \in Alphabet /\ Front(s) \in Text
                       /\ s = Append(Front(s), x)
    OBVIOUS
  <2>1. s # <<>> /\ Last(s) = x  BY DEF EndsWith
  <2>. QED  BY <2>1, Texts
<1>. QED  BY <1>1, <1>2 DEF EndsWith

LEMMA ComposedStep ==
    /\ Composed(<<>>) = <<>>
    /\ \A s \in Text : Composed(s) \in Text
    /\ \A s \in Text, c \in Alphabet :
         Composed(Append(s, c)) =
           IF c = "mark" /\ EndsWith(Composed(s), "letter")
           THEN Append(Front(Composed(s)), "composed")
           ELSE Append(Composed(s), c)
<1>1. "composed" \in Alphabet  BY DEF Alphabet
<1>2. /\ Joined(<<>>, "letter", "mark", "composed") = <<>>
      /\ \A s \in Text : Joined(s, "letter", "mark", "composed") \in Text
      /\ \A s \in Text, c \in Alphabet :
           Joined(Append(s, c), "letter", "mark", "composed")
             = Taken(Joined(s, "letter", "mark", "composed"), c, "letter", "mark", "composed")
  BY <1>1, JoinedStep
<1>. QED  BY <1>2 DEF Composed, Taken

\* The first of the two replacements of line ends.
Unpaired(s) == Joined(s, "cr", "lf", "lf")

LEMMA UnpairedStep ==
    /\ Unpaired(<<>>) = <<>>
    /\ \A s \in Text : Unpaired(s) \in Text
    /\ \A s \in Text, c \in Alphabet :
         Unpaired(Append(s, c)) =
           IF c = "lf" /\ EndsWith(Unpaired(s), "cr")
           THEN Append(Front(Unpaired(s)), "lf")
           ELSE Append(Unpaired(s), c)
<1>1. "lf" \in Alphabet  BY DEF Alphabet
<1>2. /\ Joined(<<>>, "cr", "lf", "lf") = <<>>
      /\ \A s \in Text : Joined(s, "cr", "lf", "lf") \in Text
      /\ \A s \in Text, c \in Alphabet :
           Joined(Append(s, c), "cr", "lf", "lf")
             = Taken(Joined(s, "cr", "lf", "lf"), c, "cr", "lf", "lf")
  BY <1>1, JoinedStep
<1>. QED  BY <1>2 DEF Unpaired, Taken

\* It leaves the last character as it is.
LEMMA UnpairedEnds == \A s \in Text : \A x : EndsWith(Unpaired(s), x) <=> EndsWith(s, x)
<1>. SUFFICES ASSUME NEW s \in Text, NEW x
              PROVE  EndsWith(Unpaired(s), x) <=> EndsWith(s, x)
  OBVIOUS
<1>1. CASE s = <<>>  BY <1>1, UnpairedStep
<1>2. CASE s # <<>>
  <2>1. PICK t \in Text, c \in Alphabet : s = Append(t, c)  BY <1>2, Texts
  <2>2. EndsWith(s, x) <=> c = x  BY <2>1, EndsOfAppend
  <2>3. CASE c = "lf" /\ EndsWith(Unpaired(t), "cr")
    <3>1. Unpaired(s) = Append(Front(Unpaired(t)), "lf")  BY <2>1, <2>3, UnpairedStep
    <3>2. Front(Unpaired(t)) \in Text  BY <2>3, UnpairedStep, EndsOfAppend
    <3>. QED  BY <2>2, <2>3, <3>1, <3>2, EndsOfAppend
  <2>4. CASE ~(c = "lf" /\ EndsWith(Unpaired(t), "cr"))
    <3>1. Unpaired(s) = Append(Unpaired(t), c)  BY <2>1, <2>4, UnpairedStep
    <3>. QED  BY <2>2, <3>1, UnpairedStep, EndsOfAppend
  <2>. QED  BY <2>3, <2>4
<1>. QED  BY <1>1, <1>2

Flat(c) == IF c = "cr" THEN "lf" ELSE c

LEMMA FlatType == \A c \in Alphabet : Flat(c) \in Alphabet \ {"cr"}
  BY DEF Flat, Alphabet

LEMMA ReplacedStep ==
    /\ ReplaceAll(<<>>, "cr", "lf") = <<>>
    /\ \A s \in Text :
         /\ ReplaceAll(s, "cr", "lf") \in Text
         /\ Len(ReplaceAll(s, "cr", "lf")) = Len(s)
         /\ \A i \in 1..Len(s) : ReplaceAll(s, "cr", "lf")[i] = Flat(s[i])
    /\ \A s \in Text, c \in Alphabet :
         ReplaceAll(Append(s, c), "cr", "lf") = Append(ReplaceAll(s, "cr", "lf"), Flat(c))
<1>1. ASSUME NEW s \in Text
      PROVE  /\ ReplaceAll(s, "cr", "lf") \in Text
             /\ Len(ReplaceAll(s, "cr", "lf")) = Len(s)
             /\ \A i \in 1..Len(s) : ReplaceAll(s, "cr", "lf")[i] = Flat(s[i])
  <2>1. Len(s) \in Nat /\ \A i \in 1..Len(s) : Flat(s[i]) \in Alphabet
    BY Texts, FlatType
  <2>2. ReplaceAll(s, "cr", "lf") = [i \in 1..Len(s) |-> Flat(s[i])]
    BY DEF ReplaceAll, Flat
  <2>. HIDE DEF Flat
  <2>3. ReplaceAll(s, "cr", "lf") \in Text  BY <2>1, <2>2, SeqDef DEF Text
  <2>4. DOMAIN ReplaceAll(s, "cr", "lf") = 1..Len(s)  BY <2>2
  <2>. QED  BY <2>1, <2>2, <2>3, <2>4, Texts
<1>2. ReplaceAll(<<>>, "cr", "lf") = <<>>
  <2>1. Len(ReplaceAll(<<>>, "cr", "lf")) = 0 /\ ReplaceAll(<<>>, "cr", "lf") \in Text
    BY <1>1, Texts
  <2>. QED  BY <2>1, EmptySeq DEF Text
<1>3. ASSUME NEW s \in Text, NEW c \in Alphabet
      PROVE  ReplaceAll(Append(s, c), "cr", "lf") = Append(ReplaceAll(s, "cr", "lf"), Flat(c))
  <2>1. PICK t : t = Append(s, c)  OBVIOUS
  <2>2. PICK r : r = ReplaceAll(s, "cr", "lf")  OBVIOUS
  <2>3. /\ t \in Text /\ Len(t) = Len(s) + 1 /\ t[Len(s) + 1] = c /\ Len(s) \in Nat
        /\ \A i \in 1..Len(s) : t[i] = s[i]
    BY <2>1, Texts
  <2>4. /\ r \in Text /\ Len(r) = Len(s) /\ \A i \in 1..Len(s) : r[i] = Flat(s[i])
    BY <1>1, <2>2
  <2>5. /\ ReplaceAll(t, "cr", "lf") \in Text /\ Len(ReplaceAll(t, "cr", "lf")) = Len(s) + 1
        /\ \A i \in 1..(Len(s) + 1) : ReplaceAll(t, "cr", "lf")[i] = Flat(t[i])
    BY <1>1, <2>3
  <2>6. /\ Append(r, Flat(c)) \in Text /\ Len(Append(r, Flat(c))) = Len(s) + 1
        /\ \A i \in 1..Len(s) : Append(r, Flat(c))[i] = r[i]
        /\ Append(r, Flat(c))[Len(s) + 1] = Flat(c)
    BY <2>4, Texts, FlatType
  <2>7. \A i \in 1..(Len(s) + 1) : ReplaceAll(t, "cr", "lf")[i] = Append(r, Flat(c))[i]
    <3>. SUFFICES ASSUME NEW i \in 1..(Len(s) + 1)
                  PROVE  ReplaceAll(t, "cr", "lf")[i] = Append(r, Flat(c))[i]
      OBVIOUS
    <3>1. ReplaceAll(t, "cr", "lf")[i] = Flat(t[i])  BY <2>5
    <3>2. CASE i = Len(s) + 1  BY <2>3, <2>6, <3>1, <3>2
    <3>3. CASE i \in 1..Len(s)
      <4>1. t[i] = s[i]  BY <2>3, <3>3
      <4>2. Append(r, Flat(c))[i] = Flat(s[i])  BY <2>4, <2>6, <3>3
      <4>. QED  BY <3>1, <4>1, <4>2
    <3>4. i = Len(s) + 1 \/ i \in 1..Len(s)
      <4>1. PICK n \in Nat : n = Len(s)  BY <2>3
      <4>2. i \in 1..(n + 1)  BY <4>1
      <4>3. i = n + 1 \/ i \in 1..n  BY <4>2
      <4>. QED  BY <4>1, <4>3
    <3>. QED  BY <3>2, <3>3, <3>4
  <2>8. ReplaceAll(t, "cr", "lf") = Append(r, Flat(c))  BY <2>5, <2>6, <2>7, SameText
  <2>. QED  BY <2>1, <2>2, <2>8
<1>. QED  BY <1>1, <1>2, <1>3

\* Both replacements together: a line feed after a carriage return adds nothing.
LEMMA LinesStep ==
    /\ UnixLines(<<>>) = <<>>
    /\ \A s \in Text : UnixLines(s) \in Text
    /\ \A s \in Text, c \in Alphabet :
         UnixLines(Append(s, c)) =
           IF c = "lf" /\ EndsWith(s, "cr") THEN UnixLines(s)
           ELSE Append(UnixLines(s), Flat(c))
<1>1. \A s : UnixLines(s) = ReplaceAll(Unpaired(s), "cr", "lf")  BY DEF UnixLines, Unpaired
<1>2. UnixLines(<<>>) = <<>>  BY <1>1, UnpairedStep, ReplacedStep
<1>3. \A s \in Text : UnixLines(s) \in Text  BY <1>1, UnpairedStep, ReplacedStep
<1>4. ASSUME NEW s \in Text, NEW c \in Alphabet
      PROVE  UnixLines(Append(s, c)) =
               IF c = "lf" /\ EndsWith(s, "cr") THEN UnixLines(s)
               ELSE Append(UnixLines(s), Flat(c))
  <2>1. CASE c = "lf" /\ EndsWith(s, "cr")
    <3>1. EndsWith(Unpaired(s), "cr") /\ Unpaired(s) \in Text
      BY <2>1, UnpairedEnds, UnpairedStep
    <3>2. PICK u \in Text : u = Front(Unpaired(s)) /\ Unpaired(s) = Append(u, "cr")
      BY <3>1, EndsOfAppend
    <3>3. "cr" \in Alphabet /\ "lf" \in Alphabet /\ Flat("cr") = "lf" /\ Flat("lf") = "lf"
      BY DEF Flat, Alphabet
    <3>4. UnixLines(s) = Append(ReplaceAll(u, "cr", "lf"), "lf")
      BY <1>1, <3>2, <3>3, ReplacedStep
    <3>5. UnixLines(Append(s, c)) = ReplaceAll(Append(u, "lf"), "cr", "lf")
      BY <1>1, <2>1, <3>1, <3>2, UnpairedStep
    <3>6. UnixLines(Append(s, c)) = Append(ReplaceAll(u, "cr", "lf"), "lf")
      BY <3>3, <3>5, ReplacedStep
    <3>. QED  BY <2>1, <3>4, <3>6
  <2>2. CASE ~(c = "lf" /\ EndsWith(s, "cr"))
    <3>1. Unpaired(Append(s, c)) = Append(Unpaired(s), c) /\ Unpaired(s) \in Text
      BY <2>2, UnpairedEnds, UnpairedStep
    <3>. QED  BY <1>1, <2>2, <3>1, ReplacedStep
  <2>. QED  BY <2>1, <2>2
<1>. QED  BY <1>2, <1>3, <1>4

\* Composition and line ends leave the last character alone, the ones they make aside.
LEMMA ComposedEnds ==
    \A s \in Text, x \in Alphabet \ {"mark", "composed"} :
      EndsWith(Composed(s), x) <=> EndsWith(s, x)
<1>. SUFFICES ASSUME NEW s \in Text, NEW x \in Alphabet \ {"mark", "composed"}
              PROVE  EndsWith(Composed(s), x) <=> EndsWith(s, x)
  OBVIOUS
<1>1. CASE s = <<>>  BY <1>1, ComposedStep
<1>2. CASE s # <<>>
  <2>1. PICK t \in Text, c \in Alphabet : s = Append(t, c)  BY <1>2, Texts
  <2>2. EndsWith(s, x) <=> c = x  BY <2>1, EndsOfAppend
  <2>3. CASE c = "mark" /\ EndsWith(Composed(t), "letter")
    <3>1. Composed(s) = Append(Front(Composed(t)), "composed")  BY <2>1, <2>3, ComposedStep
    <3>2. Front(Composed(t)) \in Text /\ "composed" \in Alphabet
      BY <2>3, ComposedStep, EndsOfAppend DEF Alphabet
    <3>. QED  BY <2>2, <2>3, <3>1, <3>2, EndsOfAppend
  <2>4. CASE ~(c = "mark" /\ EndsWith(Composed(t), "letter"))
    <3>1. Composed(s) = Append(Composed(t), c)  BY <2>1, <2>4, ComposedStep
    <3>. QED  BY <2>2, <3>1, ComposedStep, EndsOfAppend
  <2>. QED  BY <2>3, <2>4
<1>. QED  BY <1>1, <1>2

LEMMA LinesEnds ==
    \A s \in Text, x \in Alphabet \ {"cr", "lf"} :
      EndsWith(UnixLines(s), x) <=> EndsWith(s, x)
<1>. SUFFICES ASSUME NEW s \in Text, NEW x \in Alphabet \ {"cr", "lf"}
              PROVE  EndsWith(UnixLines(s), x) <=> EndsWith(s, x)
  OBVIOUS
<1>1. CASE s = <<>>  BY <1>1, LinesStep
<1>2. CASE s # <<>>
  <2>1. PICK t \in Text, c \in Alphabet : s = Append(t, c)  BY <1>2, Texts
  <2>2. EndsWith(s, x) <=> c = x  BY <2>1, EndsOfAppend
  <2>3. CASE c = "lf" /\ EndsWith(t, "cr")
    <3>1. PICK u \in Text : t = Append(u, "cr")  BY <2>3, EndsOfAppend
    <3>2. "cr" \in Alphabet /\ Flat("cr") = "lf" /\ "lf" \in Alphabet  BY DEF Alphabet, Flat
    <3>3. UnixLines(t) = Append(UnixLines(u), "lf")  BY <3>1, <3>2, LinesStep
    <3>4. UnixLines(s) = UnixLines(t)  BY <2>1, <2>3, LinesStep
    <3>. QED  BY <2>2, <2>3, <3>2, <3>3, <3>4, LinesStep, EndsOfAppend
  <2>4. CASE ~(c = "lf" /\ EndsWith(t, "cr"))
    <3>1. UnixLines(s) = Append(UnixLines(t), Flat(c))  BY <2>1, <2>4, LinesStep
    <3>2. Flat(c) = x <=> c = x  BY DEF Flat
    <3>. QED  BY <2>2, <3>1, <3>2, LinesStep, EndsOfAppend, FlatType
  <2>. QED  BY <2>3, <2>4
<1>. QED  BY <1>1, <1>2

------------------------------------------------------------------------------
(* What is normal stays as it is. *)

\* Nothing left to compose, and no line end but the line feed.
Whole(s) == \A i \in 1..(Len(s) - 1) : ~(s[i] = "letter" /\ s[i + 1] = "mark")
OneLineEnd(s) == \A i \in 1..Len(s) : s[i] # "cr"

LEMMA WholeStep ==
    /\ Whole(<<>>)
    /\ \A s \in Text, c \in Alphabet :
         Whole(Append(s, c)) <=> Whole(s) /\ ~(c = "mark" /\ EndsWith(s, "letter"))
<1>1. Whole(<<>>)  BY Texts DEF Whole
<1>2. ASSUME NEW s \in Text, NEW c \in Alphabet
      PROVE  Whole(Append(s, c)) <=> Whole(s) /\ ~(c = "mark" /\ EndsWith(s, "letter"))
  <2>1. PICK n \in Nat : n = Len(s)  BY Texts
  <2>2. PICK t : t = Append(s, c)  OBVIOUS
  <2>3. Len(t) = n + 1 /\ t[n + 1] = c /\ \A i \in 1..n : t[i] = s[i]
    BY <2>1, <2>2, Texts
  <2>4. EndsWith(s, "letter") <=> n # 0 /\ s[n] = "letter"
    <3>1. s # <<>> <=> n # 0  BY <2>1, EmptySeq DEF Text
    <3>. QED  BY <2>1, <3>1 DEF EndsWith, Last
  <2>5. Whole(t) <=> \A i \in 1..n : ~(t[i] = "letter" /\ t[i + 1] = "mark")
    BY <2>3 DEF Whole
  <2>6. Whole(s) <=> \A i \in 1..(n - 1) : ~(t[i] = "letter" /\ t[i + 1] = "mark")
    BY <2>1, <2>3 DEF Whole
  <2>7. ASSUME Whole(t) PROVE Whole(s) /\ ~(c = "mark" /\ EndsWith(s, "letter"))
    <3>1. Whole(s)  BY <2>5, <2>6, <2>7
    <3>2. ASSUME c = "mark", n # 0, s[n] = "letter" PROVE FALSE
      <4>1. n \in 1..n /\ t[n] = "letter" /\ t[n + 1] = "mark"  BY <2>3, <3>2
      <4>. QED  BY <2>5, <2>7, <4>1
    <3>. QED  BY <2>4, <3>1, <3>2
  <2>8. ASSUME Whole(s), ~(c = "mark" /\ EndsWith(s, "letter")) PROVE Whole(t)
    <3>. SUFFICES ASSUME NEW i \in 1..n, t[i] = "letter", t[i + 1] = "mark" PROVE FALSE
      BY <2>5
    <3>1. CASE i = n
      <4>1. c = "mark" /\ s[n] = "letter" /\ n # 0  BY <2>3, <3>1
      <4>. QED  BY <2>4, <2>8, <4>1
    <3>2. CASE i \in 1..(n - 1)  BY <2>6, <2>8, <3>2
    <3>. QED  BY <3>1, <3>2
  <2>. QED  BY <2>2, <2>7, <2>8
<1>. QED  BY <1>1, <1>2

LEMMA ComposedWhole == \A s \in Text : Whole(Composed(s))
<1>. DEFINE T == {s \in Text : Whole(Composed(s))}
<1>1. <<>> \in T  BY Texts, WholeStep, ComposedStep
<1>2. ASSUME NEW s \in T, NEW c \in Alphabet PROVE Append(s, c) \in T
  <2>1. PICK u : u = Composed(s)  OBVIOUS
  <2>2. u \in Text /\ Whole(u)  BY <2>1, ComposedStep
  <2>3. CASE c = "mark" /\ EndsWith(u, "letter")
    <3>1. PICK v \in Text : v = Front(u) /\ u = Append(v, "letter")
      BY <2>2, <2>3, EndsOfAppend
    <3>2. "letter" \in Alphabet /\ "composed" \in Alphabet  BY DEF Alphabet
    <3>3. Whole(v)  BY <2>2, <3>1, <3>2, WholeStep
    <3>4. Composed(Append(s, c)) = Append(v, "composed")  BY <2>1, <2>3, <3>1, ComposedStep
    <3>. QED  BY <3>2, <3>3, <3>4, WholeStep, Texts
  <2>4. CASE ~(c = "mark" /\ EndsWith(u, "letter"))
    <3>1. Composed(Append(s, c)) = Append(u, c)  BY <2>1, <2>4, ComposedStep
    <3>. QED  BY <2>2, <2>4, <3>1, WholeStep, Texts
  <2>. QED  BY <2>3, <2>4
<1>3. T = Text
  <2>. HIDE DEF T
  <2>1. T \in SUBSET Text  BY DEF T
  <2>. QED  BY <1>1, <1>2, <2>1, TextInduction
<1>. QED  BY <1>3

LEMMA ComposedSame == \A s \in Text : Whole(s) => Composed(s) = s
<1>. DEFINE T == {s \in Text : Whole(s) => Composed(s) = s}
<1>1. <<>> \in T  BY Texts, ComposedStep
<1>2. ASSUME NEW s \in T, NEW c \in Alphabet PROVE Append(s, c) \in T
  <2>1. ASSUME Whole(Append(s, c)) PROVE Composed(Append(s, c)) = Append(s, c)
    <3>1. Whole(s) /\ ~(c = "mark" /\ EndsWith(s, "letter"))  BY <2>1, WholeStep
    <3>2. Composed(s) = s  BY <3>1
    <3>. QED  BY <3>1, <3>2, ComposedStep
  <2>. QED  BY <2>1, Texts
<1>3. T = Text
  <2>. HIDE DEF T
  <2>1. T \in SUBSET Text  BY DEF T
  <2>. QED  BY <1>1, <1>2, <2>1, TextInduction
<1>. QED  BY <1>3

LEMMA LinesWhole == \A s \in Text : Whole(s) => Whole(UnixLines(s))
<1>. DEFINE T == {s \in Text : Whole(s) => Whole(UnixLines(s))}
<1>1. <<>> \in T  BY Texts, LinesStep, WholeStep
<1>2. ASSUME NEW s \in T, NEW c \in Alphabet PROVE Append(s, c) \in T
  <2>1. ASSUME Whole(Append(s, c)) PROVE Whole(UnixLines(Append(s, c)))
    <3>1. Whole(UnixLines(s)) /\ ~(c = "mark" /\ EndsWith(s, "letter"))
      BY <2>1, WholeStep
    <3>2. EndsWith(UnixLines(s), "letter") <=> EndsWith(s, "letter")
      <4>1. "letter" \in Alphabet \ {"cr", "lf"}  BY DEF Alphabet
      <4>. QED  BY <4>1, LinesEnds
    <3>3. Flat(c) = "mark" <=> c = "mark"  BY DEF Flat
    <3>4. Flat(c) \in Alphabet /\ UnixLines(s) \in Text  BY FlatType, LinesStep
    <3>5. Whole(Append(UnixLines(s), Flat(c)))  BY <3>1, <3>2, <3>3, <3>4, WholeStep
    <3>. QED  BY <3>1, <3>5, LinesStep
  <2>. QED  BY <2>1, Texts
<1>3. T = Text
  <2>. HIDE DEF T
  <2>1. T \in SUBSET Text  BY DEF T
  <2>. QED  BY <1>1, <1>2, <2>1, TextInduction
<1>. QED  BY <1>3

LEMMA LinesOneEnd == \A s \in Text : OneLineEnd(UnixLines(s))
<1>. SUFFICES ASSUME NEW s \in Text PROVE OneLineEnd(UnixLines(s))  OBVIOUS
<1>1. PICK u \in Text : u = Unpaired(s)  BY UnpairedStep
<1>2. UnixLines(s) = ReplaceAll(u, "cr", "lf")  BY <1>1 DEF UnixLines, Unpaired
<1>3. \A i \in 1..Len(u) : u[i] \in Alphabet  BY Texts
<1>. QED  BY <1>2, <1>3, ReplacedStep, FlatType DEF OneLineEnd

LEMMA LinesSame == \A s \in Text : OneLineEnd(s) => UnixLines(s) = s
<1>. DEFINE T == {s \in Text : OneLineEnd(s) => UnixLines(s) = s}
<1>1. <<>> \in T  BY Texts, LinesStep
<1>2. ASSUME NEW s \in T, NEW c \in Alphabet PROVE Append(s, c) \in T
  <2>1. ASSUME OneLineEnd(Append(s, c)) PROVE UnixLines(Append(s, c)) = Append(s, c)
    <3>1. PICK n \in Nat : n = Len(s)  BY Texts
    <3>2. PICK t : t = Append(s, c)  OBVIOUS
    <3>3. Len(t) = n + 1 /\ t[n + 1] = c /\ \A i \in 1..n : t[i] = s[i]
      BY <3>1, <3>2, Texts
    <3>4. \A i \in 1..(n + 1) : t[i] # "cr"  BY <2>1, <3>2, <3>3 DEF OneLineEnd
    <3>5. c # "cr"  BY <3>3, <3>4
    <3>6. OneLineEnd(s)  BY <3>1, <3>3, <3>4 DEF OneLineEnd
    <3>7. ~EndsWith(s, "cr")
      <4>1. s # <<>> => n # 0  BY <3>1, EmptySeq DEF Text
      <4>. QED  BY <3>1, <3>6, <4>1 DEF EndsWith, Last, OneLineEnd
    <3>8. Flat(c) = c  BY <3>5 DEF Flat
    <3>. QED  BY <3>6, <3>7, <3>8, LinesStep
  <2>. QED  BY <2>1, Texts
<1>3. T = Text
  <2>. HIDE DEF T
  <2>1. T \in SUBSET Text  BY DEF T
  <2>. QED  BY <1>1, <1>2, <2>1, TextInduction
<1>. QED  BY <1>3

------------------------------------------------------------------------------
(* Stripping. *)

\* From the first to the last visible character.
Spans(s, a, b) ==
    /\ a \in 1..Len(s) /\ b \in 1..Len(s) /\ a <= b
    /\ IsInk(s[a]) /\ IsInk(s[b])
    /\ \A i \in 1..Len(s) : IsInk(s[i]) => a <= i /\ i <= b

Inkless(s) == \A i \in 1..Len(s) : ~IsInk(s[i])
Trimmed(s) == s # <<>> /\ IsInk(s[1]) /\ IsInk(s[Len(s)])

LEMMA GreatestElement ==
    ASSUME NEW n \in Nat, NEW T \in SUBSET (1..n), T # {}
    PROVE  \E b \in T : \A m \in T : m <= b
<1>. DEFINE U == {k \in Nat : n - k \in T}
<1>1. PICK m \in T : TRUE  OBVIOUS
<1>2. n - m \in U  OBVIOUS
<1>3. PICK k \in U : \A j \in U : k <= j
  <2>. HIDE DEF U
  <2>1. U \in SUBSET Nat  BY DEF U
  <2>. QED  BY <1>2, <2>1, LeastElement
<1>4. \A j \in T : j <= n - k
  <2>. SUFFICES ASSUME NEW j \in T PROVE j <= n - k  OBVIOUS
  <2>1. n - j \in Nat /\ n - (n - j) = j  OBVIOUS
  <2>2. n - j \in U  BY <2>1
  <2>. QED  BY <1>3, <2>1, <2>2
<1>. QED  BY <1>3, <1>4

LEMMA StripSpan ==
    ASSUME NEW s \in Text, NEW a, NEW b, Spans(s, a, b)
    PROVE  Strip(s) = SubSeq(s, a, b)
<1>. DEFINE ink == {i \in DOMAIN s : IsInk(s[i])}
<1>1. ink = {i \in 1..Len(s) : IsInk(s[i])} /\ Len(s) \in Nat  BY Texts
<1>2. a \in ink /\ b \in ink /\ \A i \in ink : a <= i /\ i <= b
  BY <1>1 DEF Spans
<1>3. ink \subseteq Nat  BY <1>1
<1>4. Strip(s) = SubSeq(s, Min(ink), Max(ink))  BY <1>2 DEF Strip
<1>. HIDE DEF ink
<1>5. Min(ink) = a
  <2>1. Min(ink) \in ink /\ \A y \in ink : Min(ink) <= y  BY <1>2 DEF Min
  <2>2. PICK m : m = Min(ink)  OBVIOUS
  <2>3. m \in Nat /\ a \in Nat  BY <1>2, <1>3, <2>1, <2>2
  <2>4. m <= a /\ a <= m  BY <1>2, <2>1, <2>2, <2>3
  <2>. QED  BY <2>2, <2>3, <2>4
<1>6. Max(ink) = b
  <2>1. Max(ink) \in ink /\ \A y \in ink : Max(ink) >= y  BY <1>2, <1>3 DEF Max
  <2>2. PICK m : m = Max(ink)  OBVIOUS
  <2>3. m \in Nat /\ b \in Nat  BY <1>2, <1>3, <2>1, <2>2
  <2>4. m <= b /\ b <= m  BY <1>2, <2>1, <2>2, <2>3
  <2>. QED  BY <2>2, <2>3, <2>4
<1>. QED  BY <1>4, <1>5, <1>6

LEMMA StripCases ==
    ASSUME NEW s \in Text
    PROVE  \/ Inkless(s) /\ Strip(s) = <<>>
           \/ \E a, b \in 1..Len(s) : Spans(s, a, b) /\ Strip(s) = SubSeq(s, a, b)
<1>. DEFINE ink == {i \in 1..Len(s) : IsInk(s[i])}
<1>1. Len(s) \in Nat /\ DOMAIN s = 1..Len(s)  BY Texts
<1>2. CASE ink = {}  BY <1>1, <1>2 DEF Strip, Inkless
<1>3. CASE ink # {}
  <2>1. ink \in SUBSET Nat /\ ink \in SUBSET (1..Len(s))  BY <1>1
  <2>2. \E a \in ink : \A m \in ink : a <= m
    <3>. HIDE DEF ink
    <3>. QED  BY <1>3, <2>1, LeastElement
  <2>3. \E b \in ink : \A m \in ink : m <= b
    <3>. HIDE DEF ink
    <3>. QED  BY <1>1, <1>3, <2>1, GreatestElement
  <2>4. \E a, b \in 1..Len(s) : Spans(s, a, b)  BY <2>2, <2>3 DEF Spans
  <2>. QED  BY <2>4, StripSpan
<1>. QED  BY <1>2, <1>3

\* A stripped text is a piece of the text, and stripping it again changes nothing.
LEMMA SpanOf ==
    ASSUME NEW s \in Text, NEW a \in 1..Len(s), NEW b \in 1..Len(s), a <= b
    PROVE  /\ SubSeq(s, a, b) \in Text /\ Len(SubSeq(s, a, b)) = b - a + 1
           /\ SubSeq(s, a, b) # <<>>
           /\ \A i \in 1..(b - a + 1) : SubSeq(s, a, b)[i] = s[a + i - 1]
<1>1. Len(s) \in Nat /\ \A i \in 1..Len(s) : s[i] \in Alphabet  BY Texts
<1>2. \A i \in a..b : s[i] \in Alphabet  BY <1>1
<1>3. /\ SubSeq(s, a, b) \in Text /\ Len(SubSeq(s, a, b)) = b - a + 1
      /\ \A i \in 1..(b - a + 1) : SubSeq(s, a, b)[i] = s[a + i - 1]
  BY <1>1, <1>2, SubSeqProperties DEF Text
<1>4. b - a + 1 # 0  BY <1>1
<1>5. SubSeq(s, a, b) # <<>>  BY <1>3, <1>4, EmptySeq
<1>. QED  BY <1>3, <1>5

LEMMA Stripped ==
    ASSUME NEW s \in Text
    PROVE  /\ Strip(s) \in Text
           /\ Strip(s) = <<>> \/ Trimmed(Strip(s))
           /\ Whole(s) => Whole(Strip(s))
           /\ OneLineEnd(s) => OneLineEnd(Strip(s))
<1>1. CASE Strip(s) = <<>>  BY <1>1, Texts, WholeStep DEF OneLineEnd
<1>2. ASSUME NEW a \in 1..Len(s), NEW b \in 1..Len(s), Spans(s, a, b),
             Strip(s) = SubSeq(s, a, b)
      PROVE  /\ Strip(s) \in Text /\ Trimmed(Strip(s))
             /\ Whole(s) => Whole(Strip(s))
             /\ OneLineEnd(s) => OneLineEnd(Strip(s))
  <2>1. PICK t : t = Strip(s)  OBVIOUS
  <2>2. PICK n \in Nat : n = Len(s)  BY Texts
  <2>3. a \in 1..n /\ b \in 1..n /\ a <= b /\ IsInk(s[a]) /\ IsInk(s[b])
    BY <1>2, <2>2 DEF Spans
  <2>4. /\ t \in Text /\ Len(t) = b - a + 1 /\ t # <<>>
        /\ \A i \in 1..(b - a + 1) : t[i] = s[a + i - 1]
    BY <1>2, <2>1, <2>3, SpanOf
  <2>5. Trimmed(t)
    <3>1. t[1] = s[a] /\ t[b - a + 1] = s[b]  BY <2>3, <2>4
    <3>. QED  BY <2>3, <2>4, <3>1 DEF Trimmed
  <2>6. ASSUME Whole(s) PROVE Whole(t)
    <3>. SUFFICES ASSUME NEW i \in 1..(b - a), t[i] = "letter", t[i + 1] = "mark"
                  PROVE  FALSE
      BY <2>3, <2>4 DEF Whole
    <3>1. t[i] = s[a + i - 1] /\ t[i + 1] = s[a + i]  BY <2>3, <2>4
    <3>2. a + i - 1 \in 1..(n - 1) /\ (a + i - 1) + 1 = a + i  BY <2>3
    <3>. QED  BY <2>2, <2>6, <3>1, <3>2 DEF Whole
  <2>7. ASSUME OneLineEnd(s) PROVE OneLineEnd(t)
    <3>1. \A i \in 1..(b - a + 1) : a + i - 1 \in 1..n  BY <2>3
    <3>. QED  BY <2>2, <2>3, <2>4, <2>7, <3>1 DEF OneLineEnd
  <2>. QED  BY <2>1, <2>4, <2>5, <2>6, <2>7
<1>. QED  BY <1>1, <1>2, StripCases

LEMMA StripSame ==
    ASSUME NEW s \in Text, Trimmed(s)
    PROVE  Strip(s) = s
<1>1. PICK n \in Nat : n = Len(s)  BY Texts
<1>2. n # 0  BY <1>1, EmptySeq DEF Trimmed, Text
<1>3. Spans(s, 1, n)  BY <1>1, <1>2 DEF Spans, Trimmed
<1>4. SubSeq(s, 1, n) = s  BY <1>1, SubSeqFull DEF Text
<1>. QED  BY <1>3, <1>4, StripSpan

------------------------------------------------------------------------------
\* Normalization of a message text before its length is tested.
Normalized(s) == UnixLines(Composed(s))

LEMMA NormalizedType == \A s \in Text : Normalized(s) \in Text /\ Composed(s) \in Text
  BY ComposedStep, LinesStep DEF Normalized

LEMMA TextsTyped == Spec => [](raw \in Text)
<1>1. Init => raw \in Text  BY Texts DEF Init
<1>2. raw \in Text /\ [Next]_raw => (raw \in Text)'  BY Texts DEF Next, Type, Typed
<1>. QED  BY <1>1, <1>2, PTL DEF Spec

LEMMA RestoredText ==
    ASSUME NEW s \in Text, MessageText(s) # Invalid
    PROVE  ContentText(MessageText(s)) = MessageText(s)
<1>1. PICK m : m = Strip(Normalized(s))  OBVIOUS
<1>2. MessageText(s) = m /\ m # <<>> /\ ~(Len(m) > MaxText)
  BY <1>1 DEF MessageText, Within, Normalized
<1>3. Whole(Normalized(s)) /\ OneLineEnd(Normalized(s)) /\ Normalized(s) \in Text
  BY ComposedWhole, LinesWhole, LinesOneEnd, NormalizedType DEF Normalized
<1>4. m \in Text /\ Trimmed(m) /\ Whole(m) /\ OneLineEnd(m)  BY <1>1, <1>2, <1>3, Stripped
<1>5. Strip(m) = m /\ Composed(m) = m /\ UnixLines(m) = m
  BY <1>4, StripSame, ComposedSame, LinesSame
<1>6. MessageText(m) = m  BY <1>2, <1>5 DEF MessageText, Within
<1>. QED  BY <1>2, <1>5, <1>6 DEF ContentText

LEMMA RestoredTitle ==
    ASSUME NEW s \in Text, GroupTitle(s) # Invalid
    PROVE  GroupTitle(GroupTitle(s)) = GroupTitle(s)
<1>1. PICK m : m = Strip(Composed(s))  OBVIOUS
<1>2. GroupTitle(s) = m /\ m # <<>> /\ ~(Len(m) > MaxTitle)
  BY <1>1 DEF GroupTitle, Within
<1>3. Whole(Composed(s)) /\ Composed(s) \in Text  BY ComposedWhole, NormalizedType
<1>4. m \in Text /\ Trimmed(m) /\ Whole(m)  BY <1>1, <1>2, <1>3, Stripped
<1>5. Strip(m) = m /\ Composed(m) = m  BY <1>4, StripSame, ComposedSame
<1>6. GroupTitle(m) = m  BY <1>2, <1>5 DEF GroupTitle, Within
<1>. QED  BY <1>2, <1>6

\* A stored text or title passes validation unchanged however often it is restored.
THEOREM RestorableCorrect == Spec => []Restorable
<1>1. raw \in Text => Restorable  BY RestoredText, RestoredTitle DEF Restorable
<1>. QED  BY <1>1, TextsTyped, PTL

------------------------------------------------------------------------------
(* Other spellings of a text. *)

LEMMA SpellingType == \A s, c : c \in Alphabet => Spelling(s, c) \in Text
<1>. SUFFICES ASSUME NEW s, NEW c \in Alphabet PROVE Spelling(s, c) \in Text  OBVIOUS
<1>1. \A x \in Alphabet : <<x>> \in Text  BY DEF Text
<1>2. \A x, y \in Alphabet : <<x, y>> \in Text  BY DEF Text
<1>3. {"letter", "mark", "cr", "lf"} \subseteq Alphabet  BY DEF Alphabet
<1>. QED  BY <1>1, <1>2, <1>3, Texts DEF Spelling

LEMMA RespelledStep ==
    /\ Respelled(<<>>) = <<>>
    /\ \A s \in Text : Respelled(s) \in Text
    /\ \A s \in Text, c \in Alphabet :
         Respelled(Append(s, c)) = Respelled(s) \o Spelling(s, c)
<1>. DEFINE step == [x \in Text \X Text \X Alphabet |-> x[1] \o Spelling(x[2], x[3])]
            Body(d) == [t \in Seq(Alphabet) |->
                          IF t = <<>> THEN <<>>
                          ELSE d[Front(t)] \o Spelling(Front(t), Last(t))]
            D == CHOOSE d : d = Body(d)
<1>0. \A s, t \in Text : s \o t \in Text  BY ConcatProperties DEF Text
<1>1. step \in [Text \X Text \X Alphabet -> Text]  BY <1>0, SpellingType
<1>3. PICK g \in [Text -> Text] :
        /\ g[<<>>] = <<>>
        /\ \A s \in Text, c \in Alphabet : g[Append(s, c)] = step[<<g[s], s, c>>]
  <2>1. PICK next : next = step  OBVIOUS
  <2>2. next \in [Text \X Text \X Alphabet -> Text]  BY <1>1, <2>1
  <2>. HIDE DEF step
  <2>3. \E g \in [Seq(Alphabet) -> Text] :
          /\ g[<<>>] = <<>>
          /\ \A s \in Seq(Alphabet), c \in Alphabet : g[Append(s, c)] = next[<<g[s], s, c>>]
    <3>1. next \in Steps(Alphabet, Text)  BY <2>2 DEF Text, Steps
    <3>. QED  BY <3>1, Texts, Recursion
  <2>. QED  BY <2>1, <2>3 DEF Text
<1>4. g = Body(g)
  <2>1. ASSUME NEW t \in Text PROVE g[t] = Body(g)[t]
    <3>1. CASE t = <<>>  BY <1>3, <3>1 DEF Text
    <3>2. CASE t # <<>>
      <4>1. Front(t) \in Text /\ Last(t) \in Alphabet /\ t = Append(Front(t), Last(t))
        BY <3>2, Texts
      <4>2. g[t] = step[<<g[Front(t)], Front(t), Last(t)>>]  BY <1>3, <4>1
      <4>3. g[t] = g[Front(t)] \o Spelling(Front(t), Last(t))  BY <1>3, <4>1, <4>2
      <4>. QED  BY <3>2, <4>3 DEF Text
    <3>. QED  BY <3>1, <3>2
  <2>. QED  BY <2>1 DEF Text
<1>5. D = Body(D)
  <2>. HIDE DEF Body
  <2>. QED  BY <1>4
<1>6. \A s : Respelled(s) = D[s]  BY DEF Respelled
<1>. HIDE DEF D
<1>7. D[<<>>] = <<>>  BY <1>5, Texts DEF Text
<1>8. ASSUME NEW s \in Text, NEW c \in Alphabet
      PROVE  D[Append(s, c)] = D[s] \o Spelling(s, c)
  <2>1. /\ Append(s, c) \in Text /\ Append(s, c) # <<>>
        /\ Front(Append(s, c)) = s /\ Last(Append(s, c)) = c
    BY Texts
  <2>. QED  BY <1>5, <2>1 DEF Text
<1>9. \A s \in Text : D[s] \in Text
  <2>. DEFINE T == {s \in Text : D[s] \in Text}
  <2>1. <<>> \in T  BY <1>7, Texts
  <2>2. ASSUME NEW s \in T, NEW c \in Alphabet PROVE Append(s, c) \in T
    <3>1. D[s] \in Text /\ Spelling(s, c) \in Text  BY SpellingType
    <3>2. D[s] \o Spelling(s, c) \in Text  BY <1>0, <3>1
    <3>3. D[Append(s, c)] \in Text  BY <1>8, <3>2
    <3>. QED  BY <3>3, Texts
  <2>3. T \in SUBSET Text  OBVIOUS
  <2>. HIDE DEF T
  <2>4. T = Text  BY <2>1, <2>2, <2>3, TextInduction
  <2>. QED  BY <2>4 DEF T
<1>. QED  BY <1>6, <1>7, <1>8, <1>9

LEMMA RespelledAppend ==
    ASSUME NEW s \in Text, NEW c \in Alphabet
    PROVE  Respelled(Append(s, c)) =
             CASE c = "composed" -> Append(Append(Respelled(s), "letter"), "mark")
               [] c = "cr" -> Append(Append(Respelled(s), "cr"), "lf")
               [] c = "lf" -> IF EndsWith(s, "cr") THEN Respelled(s)
                              ELSE Append(Append(Respelled(s), "cr"), "lf")
               [] OTHER -> Append(Respelled(s), c)
<1>1. PICK r \in Text : r = Respelled(s)  BY RespelledStep
<1>2. r \o <<>> = r  BY ConcatEmptySeq DEF Text
<1>3. \A x \in Alphabet : r \o <<x>> = Append(r, x)  BY AppendIsConcat DEF Text
<1>4. ASSUME NEW x \in Alphabet, NEW y \in Alphabet
      PROVE  r \o <<x, y>> = Append(Append(r, x), y)
  <2>1. <<x>> \in Text /\ <<y>> \in Text /\ <<x>> \o <<y>> = <<x, y>>
    <3>1. \A z \in Alphabet : <<z>> \in Text  BY DEF Text
    <3>2. <<x>> \o <<y>> = Append(<<x>>, y)  BY <3>1, AppendIsConcat DEF Text
    <3>3. Append(<<x>>, y) = <<x, y>>
      <4>1. PICK t : t = Append(<<x>>, y)  OBVIOUS
      <4>2. t \in Text /\ Len(t) = 2 /\ t[1] = x /\ t[2] = y
        <5>1. Len(<<x>>) = 1 /\ <<x>>[1] = x  OBVIOUS
        <5>2. /\ t \in Text /\ Len(t) = Len(<<x>>) + 1 /\ t[Len(<<x>>) + 1] = y
              /\ \A i \in 1..Len(<<x>>) : t[i] = <<x>>[i]
          BY <3>1, <4>1, Texts
        <5>. QED  BY <5>1, <5>2
      <4>3. <<x, y>> \in Text  BY DEF Text
      <4>4. Len(<<x, y>>) = 2 /\ <<x, y>>[1] = x /\ <<x, y>>[2] = y  OBVIOUS
      <4>5. \A i \in 1..2 : t[i] = <<x, y>>[i]  BY <4>2, <4>4
      <4>. QED  BY <4>1, <4>2, <4>3, <4>4, <4>5, SameText
    <3>. QED  BY <3>1, <3>2, <3>3
  <2>2. (r \o <<x>>) \o <<y>> = r \o (<<x>> \o <<y>>)  BY <2>1, ConcatAssociative DEF Text
  <2>3. Append(r, x) \in Text  BY Texts
  <2>4. Append(r, x) \o <<y>> = Append(Append(r, x), y)  BY <2>3, AppendIsConcat DEF Text
  <2>. QED  BY <1>3, <2>1, <2>2, <2>4
<1>5. {"letter", "mark", "cr", "lf"} \subseteq Alphabet  BY DEF Alphabet
<1>6. Respelled(Append(s, c)) = r \o Spelling(s, c)  BY <1>1, RespelledStep
<1>7. CASE c = "composed"  BY <1>1, <1>4, <1>5, <1>6, <1>7 DEF Spelling
<1>8. CASE c = "cr"  BY <1>1, <1>4, <1>5, <1>6, <1>8 DEF Spelling
<1>9. CASE c = "lf"  BY <1>1, <1>2, <1>4, <1>5, <1>6, <1>9 DEF Spelling
<1>10. CASE c \notin {"composed", "cr", "lf"}
  BY <1>1, <1>3, <1>6, <1>10 DEF Spelling
<1>. QED  BY <1>7, <1>8, <1>9, <1>10

LEMMA RespelledEnds ==
    \A s \in Text : EndsWith(Respelled(s), "letter") <=> EndsWith(s, "letter")
<1>. SUFFICES ASSUME NEW s \in Text
              PROVE  EndsWith(Respelled(s), "letter") <=> EndsWith(s, "letter")
  OBVIOUS
<1>0. {"letter", "mark", "cr", "lf"} \subseteq Alphabet  BY DEF Alphabet
<1>1. CASE s = <<>>  BY <1>1, RespelledStep
<1>2. CASE s # <<>>
  <2>1. PICK t \in Text, c \in Alphabet : s = Append(t, c)  BY <1>2, Texts
  <2>2. EndsWith(s, "letter") <=> c = "letter"  BY <2>1, EndsOfAppend
  <2>3. PICK r \in Text : r = Respelled(t)  BY RespelledStep
  <2>4. \A x, y \in Alphabet : EndsWith(Append(Append(r, x), y), "letter") <=> y = "letter"
    BY EndsOfAppend, Texts
  <2>5. CASE c = "composed"
    <3>1. Respelled(s) = Append(Append(r, "letter"), "mark")
      BY <2>1, <2>3, <2>5, RespelledAppend
    <3>. QED  BY <1>0, <2>2, <2>4, <2>5, <3>1
  <2>6. CASE c = "cr" \/ (c = "lf" /\ ~EndsWith(t, "cr"))
    <3>1. Respelled(s) = Append(Append(r, "cr"), "lf")
      BY <2>1, <2>3, <2>6, RespelledAppend
    <3>. QED  BY <1>0, <2>2, <2>4, <2>6, <3>1
  <2>7. CASE c = "lf" /\ EndsWith(t, "cr")
    <3>1. PICK u \in Text : t = Append(u, "cr")  BY <2>7, EndsOfAppend
    <3>2. Respelled(t) = Append(Append(Respelled(u), "cr"), "lf")
      BY <1>0, <3>1, RespelledAppend
    <3>3. Respelled(s) = Respelled(t)  BY <2>1, <2>7, RespelledAppend
    <3>4. Append(Respelled(u), "cr") \in Text  BY <1>0, RespelledStep, Texts
    <3>. QED  BY <1>0, <2>2, <2>7, <3>2, <3>3, <3>4, EndsOfAppend
  <2>8. CASE c \notin {"composed", "cr", "lf"}
    <3>1. Respelled(s) = Append(r, c)  BY <2>1, <2>3, <2>8, RespelledAppend
    <3>. QED  BY <2>2, <3>1, EndsOfAppend
  <2>. QED  BY <2>5, <2>6, <2>7, <2>8
<1>. QED  BY <1>1, <1>2

\* Normalization as a whole, character by character.
LEMMA NormalizedStep ==
    /\ Normalized(<<>>) = <<>>
    /\ \A s \in Text, c \in Alphabet :
         Normalized(Append(s, c)) =
           IF c = "mark" /\ EndsWith(s, "letter")
           THEN Append(Front(Normalized(s)), "composed")
           ELSE IF c = "lf" /\ EndsWith(s, "cr") THEN Normalized(s)
           ELSE Append(Normalized(s), Flat(c))
<1>0. {"letter", "composed", "cr", "lf"} \subseteq Alphabet  BY DEF Alphabet
<1>1. Normalized(<<>>) = <<>>  BY ComposedStep, LinesStep DEF Normalized
<1>2. ASSUME NEW s \in Text, NEW c \in Alphabet
      PROVE  Normalized(Append(s, c)) =
               IF c = "mark" /\ EndsWith(s, "letter")
               THEN Append(Front(Normalized(s)), "composed")
               ELSE IF c = "lf" /\ EndsWith(s, "cr") THEN Normalized(s)
               ELSE Append(Normalized(s), Flat(c))
  <2>1. PICK u \in Text : u = Composed(s)  BY ComposedStep
  <2>2. /\ EndsWith(u, "letter") <=> EndsWith(s, "letter")
        /\ EndsWith(u, "cr") <=> EndsWith(s, "cr")
    <3>1. {"letter", "cr"} \subseteq Alphabet \ {"mark", "composed"}  BY DEF Alphabet
    <3>. QED  BY <2>1, <3>1, ComposedEnds
  <2>3. CASE c = "mark" /\ EndsWith(s, "letter")
    <3>1. PICK v \in Text : v = Front(u) /\ u = Append(v, "letter")
      BY <2>2, <2>3, EndsOfAppend
    <3>2. Flat("letter") = "letter" /\ Flat("composed") = "composed"  BY DEF Flat
    <3>3. Composed(Append(s, c)) = Append(v, "composed")
      BY <2>1, <2>2, <2>3, <3>1, ComposedStep
    <3>4. Normalized(Append(s, c)) = Append(UnixLines(v), "composed")
      BY <1>0, <3>2, <3>3, LinesStep DEF Normalized
    <3>5. Normalized(s) = Append(UnixLines(v), "letter")
      BY <1>0, <2>1, <3>1, <3>2, LinesStep DEF Normalized
    <3>6. Front(Normalized(s)) = UnixLines(v)
      BY <1>0, <3>5, LinesStep, Texts
    <3>. QED  BY <2>3, <3>4, <3>6
  <2>4. CASE ~(c = "mark" /\ EndsWith(s, "letter"))
    <3>1. Composed(Append(s, c)) = Append(u, c)  BY <2>1, <2>2, <2>4, ComposedStep
    <3>. QED  BY <2>1, <2>2, <2>4, <3>1, LinesStep DEF Normalized
  <2>. QED  BY <2>3, <2>4
<1>. QED  BY <1>1, <1>2

LEMMA SameNormal == \A s \in Text : Normalized(Respelled(s)) = Normalized(s)
<1>. DEFINE T == {s \in Text : Normalized(Respelled(s)) = Normalized(s)}
<1>0. {"letter", "mark", "composed", "cr", "lf"} \subseteq Alphabet  BY DEF Alphabet
<1>1. <<>> \in T  BY RespelledStep, Texts
<1>2. ASSUME NEW s \in T, NEW c \in Alphabet PROVE Append(s, c) \in T
  <2>1. PICK r \in Text : r = Respelled(s)  BY RespelledStep
  <2>2. Normalized(r) = Normalized(s) /\ Normalized(s) \in Text
    BY <2>1, NormalizedType
  <2>3. EndsWith(r, "letter") <=> EndsWith(s, "letter")  BY <2>1, RespelledEnds
  <2>4. \A x \in Alphabet : Append(r, x) \in Text  BY Texts
  <2>5. Normalized(Append(Append(r, "letter"), "mark")) = Append(Normalized(s), "composed")
    <3>1. Normalized(Append(r, "letter")) = Append(Normalized(s), "letter")
      BY <1>0, <2>2, NormalizedStep DEF Flat
    <3>2. EndsWith(Append(r, "letter"), "letter")  BY <1>0, EndsOfAppend
    <3>3. Front(Append(Normalized(s), "letter")) = Normalized(s)  BY <1>0, <2>2, Texts
    <3>. QED  BY <1>0, <2>4, <3>1, <3>2, <3>3, NormalizedStep
  <2>6. Normalized(Append(Append(r, "cr"), "lf")) = Append(Normalized(s), "lf")
    <3>1. Normalized(Append(r, "cr")) = Append(Normalized(s), "lf")
      BY <1>0, <2>2, NormalizedStep DEF Flat
    <3>2. EndsWith(Append(r, "cr"), "cr")  BY <1>0, EndsOfAppend
    <3>. QED  BY <1>0, <2>4, <3>1, <3>2, NormalizedStep
  <2>7. Normalized(Respelled(Append(s, c))) = Normalized(Append(s, c))
    <3>1. CASE c = "composed"
      BY <2>1, <2>5, <3>1, RespelledAppend, NormalizedStep DEF Flat
    <3>2. CASE c = "cr"
      BY <2>1, <2>6, <3>2, RespelledAppend, NormalizedStep DEF Flat
    <3>3. CASE c = "lf"
      BY <2>1, <2>2, <2>6, <3>3, RespelledAppend, NormalizedStep DEF Flat
    <3>4. CASE c \notin {"composed", "cr", "lf"}
      <4>1. Respelled(Append(s, c)) = Append(r, c)  BY <2>1, <3>4, RespelledAppend
      <4>. QED  BY <2>2, <2>3, <3>4, <4>1, NormalizedStep
    <3>. QED  BY <3>1, <3>2, <3>3, <3>4
  <2>. QED  BY <2>7, Texts
<1>3. T = Text
  <2>. HIDE DEF T
  <2>1. T \in SUBSET Text  BY DEF T
  <2>. QED  BY <1>1, <1>2, <2>1, TextInduction
<1>. QED  BY <1>3

LEMMA InklessStep ==
    /\ Inkless(<<>>)
    /\ \A s \in Text, c \in Alphabet : Inkless(Append(s, c)) <=> Inkless(s) /\ ~IsInk(c)
<1>1. Inkless(<<>>)  BY Texts DEF Inkless
<1>2. ASSUME NEW s \in Text, NEW c \in Alphabet
      PROVE  Inkless(Append(s, c)) <=> Inkless(s) /\ ~IsInk(c)
  <2>1. PICK n \in Nat : n = Len(s)  BY Texts
  <2>2. PICK t : t = Append(s, c)  OBVIOUS
  <2>3. Len(t) = n + 1 /\ t[n + 1] = c /\ \A i \in 1..n : t[i] = s[i]
    BY <2>1, <2>2, Texts
  <2>4. 1..(n + 1) = (1..n) \cup {n + 1}  OBVIOUS
  <2>5. Inkless(t) <=> \A i \in 1..(n + 1) : ~IsInk(t[i])  BY <2>3 DEF Inkless
  <2>6. Inkless(s) <=> \A i \in 1..n : ~IsInk(t[i])  BY <2>1, <2>3 DEF Inkless
  <2>7. Inkless(t) <=> (\A i \in 1..n : ~IsInk(t[i])) /\ ~IsInk(t[n + 1])
    BY <2>4, <2>5
  <2>. QED  BY <2>2, <2>3, <2>6, <2>7
<1>. QED  BY <1>1, <1>2

LEMMA SameInk == \A s \in Text : Inkless(Respelled(s)) <=> Inkless(s)
<1>. DEFINE T == {s \in Text : Inkless(Respelled(s)) <=> Inkless(s)}
<1>0. {"letter", "mark", "composed", "cr", "lf"} \subseteq Alphabet  BY DEF Alphabet
<1>1. <<>> \in T  BY RespelledStep, Texts
<1>2. ASSUME NEW s \in T, NEW c \in Alphabet PROVE Append(s, c) \in T
  <2>1. PICK r \in Text : r = Respelled(s)  BY RespelledStep
  <2>2. Inkless(r) <=> Inkless(s)  BY <2>1
  <2>3. \A x \in Alphabet : Append(r, x) \in Text  BY Texts
  <2>4. Inkless(Append(s, c)) <=> Inkless(s) /\ ~IsInk(c)  BY InklessStep
  <2>5. \A x, y \in Alphabet :
          Inkless(Append(Append(r, x), y)) <=> Inkless(s) /\ ~IsInk(x) /\ ~IsInk(y)
    BY <2>2, <2>3, InklessStep
  <2>6. /\ IsInk("letter") /\ IsInk("mark") /\ IsInk("composed")
        /\ ~IsInk("cr") /\ ~IsInk("lf")
    BY DEF IsInk, Blanks
  <2>7. Inkless(Respelled(Append(s, c))) <=> Inkless(s) /\ ~IsInk(c)
    <3>1. CASE c = "composed"
      <4>1. Respelled(Append(s, c)) = Append(Append(r, "letter"), "mark")
        BY <2>1, <3>1, RespelledAppend
      <4>. QED  BY <1>0, <2>5, <2>6, <3>1, <4>1
    <3>2. CASE c = "cr" \/ (c = "lf" /\ ~EndsWith(s, "cr"))
      <4>1. Respelled(Append(s, c)) = Append(Append(r, "cr"), "lf")
        BY <2>1, <3>2, RespelledAppend
      <4>. QED  BY <1>0, <2>5, <2>6, <3>2, <4>1
    <3>3. CASE c = "lf" /\ EndsWith(s, "cr")
      <4>1. Respelled(Append(s, c)) = r  BY <2>1, <3>3, RespelledAppend
      <4>. QED  BY <2>2, <2>6, <3>3, <4>1
    <3>4. CASE c \notin {"composed", "cr", "lf"}
      <4>1. Respelled(Append(s, c)) = Append(r, c)  BY <2>1, <3>4, RespelledAppend
      <4>. QED  BY <2>2, <4>1, InklessStep
    <3>. QED  BY <3>1, <3>2, <3>3, <3>4
  <2>. QED  BY <2>4, <2>7, Texts
<1>3. T = Text
  <2>. HIDE DEF T
  <2>1. T \in SUBSET Text  BY DEF T
  <2>. QED  BY <1>1, <1>2, <2>1, TextInduction
<1>. QED  BY <1>3

LEMMA StripEmpty == \A s \in Text : Strip(s) = <<>> <=> Inkless(s)
<1>. SUFFICES ASSUME NEW s \in Text PROVE Strip(s) = <<>> <=> Inkless(s)  OBVIOUS
<1>1. ASSUME NEW a \in 1..Len(s), NEW b \in 1..Len(s), Spans(s, a, b),
             Strip(s) = SubSeq(s, a, b)
      PROVE  Strip(s) # <<>> /\ ~Inkless(s)
  BY <1>1, SpanOf DEF Spans, Inkless
<1>. QED  BY <1>1, StripCases

\* However a client spells a text, it is one text, the same nothing or the same refusal.
THEOREM OneIntentCorrect == Spec => []OneIntent
<1>1. ASSUME raw \in Text PROVE ContentText(Respelled(raw)) = ContentText(raw)
  <2>1. Respelled(raw) \in Text  BY <1>1, RespelledStep
  <2>2. Strip(Respelled(raw)) = <<>> <=> Strip(raw) = <<>>
    BY <1>1, <2>1, StripEmpty, SameInk
  <2>3. MessageText(Respelled(raw)) = MessageText(raw)
    <3>1. \A s : MessageText(s) = IF \/ Strip(Normalized(s)) = <<>>
                                     \/ Len(Strip(Normalized(s))) > MaxText
                                  THEN Invalid ELSE Strip(Normalized(s))
      BY DEF MessageText, Within, Normalized
    <3>. QED  BY <1>1, <3>1, SameNormal
  <2>. QED  BY <2>2, <2>3 DEF ContentText
<1>2. raw \in Text => OneIntent  BY <1>1 DEF OneIntent
<1>. QED  BY <1>2, TextsTyped, PTL

------------------------------------------------------------------------------
(* The length a reader sees. *)

\* The pairs that normalization makes one character of.
Pairs(s) == {i \in 1..(Len(s) - 1) :
               <<s[i], s[i + 1]>> \in {<<"letter", "mark">>, <<"cr", "lf">>}}

Pairing(s, c) == (c = "mark" /\ EndsWith(s, "letter")) \/ (c = "lf" /\ EndsWith(s, "cr"))

LEMMA PairsStep ==
    /\ Pairs(<<>>) = {}
    /\ \A s \in Text, c \in Alphabet :
         /\ Len(s) \notin Pairs(s)
         /\ Pairs(Append(s, c)) = IF Pairing(s, c) THEN Pairs(s) \cup {Len(s)} ELSE Pairs(s)
<1>1. Pairs(<<>>) = {}  BY Texts DEF Pairs
<1>2. ASSUME NEW s \in Text, NEW c \in Alphabet
      PROVE  /\ Len(s) \notin Pairs(s)
             /\ Pairs(Append(s, c)) = IF Pairing(s, c) THEN Pairs(s) \cup {Len(s)} ELSE Pairs(s)
  <2>1. PICK n \in Nat : n = Len(s)  BY Texts
  <2>2. PICK t : t = Append(s, c)  OBVIOUS
  <2>3. Len(t) = n + 1 /\ t[n + 1] = c /\ \A i \in 1..n : t[i] = s[i]
    BY <2>1, <2>2, Texts
  <2>4. Pairs(s) = {i \in 1..(n - 1) :
                      <<t[i], t[i + 1]>> \in {<<"letter", "mark">>, <<"cr", "lf">>}}
    BY <2>1, <2>3 DEF Pairs
  <2>5. Pairs(t) = {i \in 1..n :
                      <<t[i], t[i + 1]>> \in {<<"letter", "mark">>, <<"cr", "lf">>}}
    BY <2>3 DEF Pairs
  <2>6. n \notin Pairs(s)  BY <2>4
  <2>7. Pairs(t) = IF n \in Pairs(t) THEN Pairs(s) \cup {n} ELSE Pairs(s)
    <3>1. \A i : i \in 1..n <=> i \in 1..(n - 1) \/ (i = n /\ n # 0)  OBVIOUS
    <3>2. n \in 1..n <=> n # 0  OBVIOUS
    <3>. QED  BY <2>4, <2>5, <3>1, <3>2
  <2>8. n \in Pairs(t) <=> Pairing(s, c)
    <3>1. \A x : EndsWith(s, x) <=> n # 0 /\ s[n] = x
      <4>1. s # <<>> <=> n # 0  BY <2>1, EmptySeq DEF Text
      <4>. QED  BY <2>1, <4>1 DEF EndsWith, Last
    <3>2. n \in Pairs(t) <=> n # 0 /\ \/ t[n] = "letter" /\ t[n + 1] = "mark"
                                      \/ t[n] = "cr" /\ t[n + 1] = "lf"
      BY <2>5
    <3>3. n # 0 => t[n] = s[n]  BY <2>3
    <3>4. n \in Pairs(t) <=> n # 0 /\ \/ s[n] = "letter" /\ c = "mark"
                                      \/ s[n] = "cr" /\ c = "lf"
      BY <2>3, <3>2, <3>3
    <3>. QED  BY <3>1, <3>4 DEF Pairing
  <2>. QED  BY <2>1, <2>2, <2>6, <2>7, <2>8
<1>. QED  BY <1>1, <1>2

LEMMA Longer ==
    \A s \in Text, c \in Alphabet :
      Append(s, c) \in Text /\ Append(s, c) # <<>> /\ Len(Append(s, c)) = Len(s) + 1
  BY Texts

LEMMA NormalizedEnds ==
    \A s \in Text : EndsWith(s, "letter") => EndsWith(Normalized(s), "letter")
<1>. SUFFICES ASSUME NEW s \in Text, EndsWith(s, "letter")
              PROVE  EndsWith(Normalized(s), "letter")
  OBVIOUS
<1>1. "letter" \in Alphabet /\ Flat("letter") = "letter"  BY DEF Alphabet, Flat
<1>2. PICK u \in Text : s = Append(u, "letter")  BY EndsOfAppend
<1>3. Normalized(s) = Append(Normalized(u), "letter")  BY <1>1, <1>2, NormalizedStep
<1>. QED  BY <1>1, <1>3, NormalizedType, EndsOfAppend

\* What was seen is still there: only nothing normalizes to nothing.
LEMMA NormalizedEmpty == \A s \in Text : Normalized(s) = <<>> <=> s = <<>>
<1>. SUFFICES ASSUME NEW s \in Text, s # <<>> PROVE Normalized(s) # <<>>
  BY NormalizedStep
<1>0. {"letter", "composed", "cr", "lf"} \subseteq Alphabet  BY DEF Alphabet
<1>1. PICK t \in Text, c \in Alphabet : s = Append(t, c)  BY Texts
<1>2. CASE c = "mark" /\ EndsWith(t, "letter")
  <2>1. EndsWith(Normalized(t), "letter")  BY <1>2, NormalizedEnds
  <2>2. Front(Normalized(t)) \in Text  BY <2>1, NormalizedType, EndsOfAppend
  <2>3. Normalized(s) = Append(Front(Normalized(t)), "composed")
    BY <1>1, <1>2, NormalizedStep
  <2>4. Append(Front(Normalized(t)), "composed") # <<>>  BY <1>0, <2>2, Longer
  <2>. QED  BY <2>3, <2>4
<1>3. CASE c = "lf" /\ EndsWith(t, "cr")
  <2>1. PICK u \in Text : t = Append(u, "cr")  BY <1>3, EndsOfAppend
  <2>2. Normalized(t) = Append(Normalized(u), "lf")
    BY <1>0, <2>1, NormalizedStep DEF Flat
  <2>3. Normalized(s) = Normalized(t)  BY <1>1, <1>3, NormalizedStep
  <2>4. Append(Normalized(u), "lf") # <<>>  BY <1>0, NormalizedType, Longer
  <2>. QED  BY <2>2, <2>3, <2>4
<1>4. CASE ~Pairing(t, c)
  <2>1. Normalized(s) = Append(Normalized(t), Flat(c))
    BY <1>1, <1>4, NormalizedStep DEF Pairing
  <2>2. Append(Normalized(t), Flat(c)) # <<>>  BY NormalizedType, FlatType, Longer
  <2>. QED  BY <2>1, <2>2
<1>. QED  BY <1>2, <1>3, <1>4 DEF Pairing

\* Each such pair becomes one character, and every other character stays one.
LEMMA NormalizedLength ==
    \A s \in Text : /\ IsFiniteSet(Pairs(s))
                    /\ Len(Normalized(s)) = Len(s) - Cardinality(Pairs(s))
<1>. DEFINE T == {s \in Text : /\ IsFiniteSet(Pairs(s))
                               /\ Len(Normalized(s)) = Len(s) - Cardinality(Pairs(s))}
<1>0. {"letter", "composed", "cr", "lf"} \subseteq Alphabet  BY DEF Alphabet
<1>1. <<>> \in T
  <2>1. <<>> \in Text /\ Len(<<>>) = 0 /\ Normalized(<<>>) = <<>> /\ Pairs(<<>>) = {}
    BY Texts, PairsStep, NormalizedStep
  <2>2. IsFiniteSet(Pairs(<<>>)) /\ Cardinality(Pairs(<<>>)) = 0  BY <2>1, FS_EmptySet
  <2>3. Len(Normalized(<<>>)) = Len(<<>>) - Cardinality(Pairs(<<>>))  BY <2>1, <2>2
  <2>. QED  BY <2>1, <2>2, <2>3
<1>2. ASSUME NEW s \in T, NEW c \in Alphabet PROVE Append(s, c) \in T
  <2>1. PICK n \in Nat : n = Len(s)  BY Texts
  <2>2. PICK k \in Nat : k = Cardinality(Pairs(s))  BY FS_CardinalityType
  <2>3. PICK m \in Text : m = Normalized(s)  BY NormalizedType
  <2>4. Len(m) = n - k  BY <2>1, <2>2, <2>3
  <2>5. Len(Append(s, c)) = n + 1 /\ Append(s, c) \in Text  BY <2>1, Texts
  <2>6. CASE Pairing(s, c)
    <3>1. Len(Normalized(Append(s, c))) = n - k
      <4>1. CASE c = "mark" /\ EndsWith(s, "letter")
        <5>1. PICK u \in Text : u = Front(m) /\ m = Append(u, "letter")
          BY <2>3, <4>1, NormalizedEnds, EndsOfAppend
        <5>2. Normalized(Append(s, c)) = Append(u, "composed")
          BY <2>3, <4>1, <5>1, NormalizedStep
        <5>. QED  BY <1>0, <2>4, <5>1, <5>2, Texts
      <4>2. CASE c = "lf" /\ EndsWith(s, "cr")
        <5>1. Normalized(Append(s, c)) = m  BY <2>3, <4>2, NormalizedStep
        <5>. QED  BY <2>4, <5>1
      <4>. QED  BY <2>6, <4>1, <4>2 DEF Pairing
    <3>2. Pairs(Append(s, c)) = Pairs(s) \cup {n} /\ n \notin Pairs(s)
      BY <2>1, <2>6, PairsStep
    <3>3. IsFiniteSet(Pairs(Append(s, c))) /\ Cardinality(Pairs(Append(s, c))) = k + 1
      BY <2>2, <3>2, FS_AddElement
    <3>. QED  BY <2>5, <3>1, <3>3
  <2>7. CASE ~Pairing(s, c)
    <3>1. Normalized(Append(s, c)) = Append(m, Flat(c))
      BY <2>3, <2>7, NormalizedStep DEF Pairing
    <3>2. Len(Append(m, Flat(c))) = Len(m) + 1  BY FlatType, Longer
    <3>3. Pairs(Append(s, c)) = Pairs(s)  BY <2>7, PairsStep
    <3>4. Len(Normalized(Append(s, c))) = n + 1 - k  BY <2>4, <3>1, <3>2
    <3>. QED  BY <2>2, <2>5, <3>3, <3>4
  <2>. QED  BY <2>6, <2>7
<1>3. T = Text
  <2>. HIDE DEF T
  <2>1. T \in SUBSET Text  BY DEF T
  <2>. QED  BY <1>1, <1>2, <2>1, TextInduction
<1>. QED  BY <1>3

\* What stripping on the left alone would leave.
Left(s) == Front(Strip(Append(s, "letter")))

LEMMA PieceOfAppend ==
    ASSUME NEW s \in Text, NEW c \in Alphabet
    PROVE  /\ \A a, b \in 1..Len(s) : a <= b => SubSeq(Append(s, c), a, b) = SubSeq(s, a, b)
           /\ \A a \in 1..Len(s) :
                SubSeq(Append(s, c), a, Len(s) + 1) = Append(SubSeq(s, a, Len(s)), c)
           /\ SubSeq(Append(s, c), Len(s) + 1, Len(s) + 1) = Append(<<>>, c)
<1>1. PICK n \in Nat : n = Len(s)  BY Texts
<1>2. PICK t : t = Append(s, c)  OBVIOUS
<1>3. /\ t \in Text /\ Len(t) = n + 1 /\ t[n + 1] = c /\ \A i \in 1..n : t[i] = s[i]
  BY <1>1, <1>2, Texts
<1>4. ASSUME NEW a \in 1..n, NEW b \in 1..n, a <= b PROVE SubSeq(t, a, b) = SubSeq(s, a, b)
  <2>1. a \in 1..Len(s) /\ b \in 1..Len(s) /\ a \in 1..Len(t) /\ b \in 1..Len(t)
    BY <1>1, <1>3
  <2>2. PICK p : p = SubSeq(t, a, b)  OBVIOUS
  <2>3. PICK q : q = SubSeq(s, a, b)  OBVIOUS
  <2>4. p \in Text /\ Len(p) = b - a + 1 /\ \A i \in 1..(b - a + 1) : p[i] = t[a + i - 1]
    BY <1>3, <1>4, <2>1, <2>2, SpanOf
  <2>5. q \in Text /\ Len(q) = b - a + 1 /\ \A i \in 1..(b - a + 1) : q[i] = s[a + i - 1]
    BY <1>4, <2>1, <2>3, SpanOf
  <2>6. \A i \in 1..(b - a + 1) : a + i - 1 \in 1..n  OBVIOUS
  <2>7. \A i \in 1..(b - a + 1) : p[i] = q[i]  BY <1>3, <2>4, <2>5, <2>6
  <2>8. p = q  BY <2>4, <2>5, <2>7, SameText
  <2>. QED  BY <2>2, <2>3, <2>8
<1>5. ASSUME NEW a \in 1..n PROVE SubSeq(t, a, n + 1) = Append(SubSeq(s, a, n), c)
  <2>1. /\ a \in 1..Len(s) /\ n \in 1..Len(s) /\ a <= n
        /\ a \in 1..Len(t) /\ n + 1 \in 1..Len(t) /\ a <= n + 1
    BY <1>1, <1>3
  <2>2. PICK p : p = SubSeq(t, a, n + 1)  OBVIOUS
  <2>3. PICK q : q = SubSeq(s, a, n)  OBVIOUS
  <2>4. /\ p \in Text /\ Len(p) = (n + 1) - a + 1
        /\ \A i \in 1..((n + 1) - a + 1) : p[i] = t[a + i - 1]
    BY <1>3, <2>1, <2>2, SpanOf
  <2>5. q \in Text /\ Len(q) = n - a + 1 /\ \A i \in 1..(n - a + 1) : q[i] = s[a + i - 1]
    BY <2>1, <2>3, SpanOf
  <2>6. PICK r : r = Append(q, c)  OBVIOUS
  <2>7. PICK k \in Nat : k = n - a + 1  BY <2>1
  <2>8. r \in Text /\ Len(r) = k + 1 /\ r[k + 1] = c /\ \A i \in 1..k : r[i] = q[i]
    <3>1. /\ r \in Text /\ Len(r) = Len(q) + 1 /\ r[Len(q) + 1] = c
          /\ \A i \in 1..Len(q) : r[i] = q[i]
      BY <2>5, <2>6, Texts
    <3>2. Len(q) = k  BY <2>5, <2>7
    <3>. QED  BY <3>1, <3>2
  <2>9. Len(p) = k + 1 /\ \A i \in 1..(k + 1) : p[i] = t[a + i - 1]
    BY <2>4, <2>7
  <2>10. \A i \in 1..k : q[i] = s[a + i - 1] /\ a + i - 1 \in 1..n  BY <2>5, <2>7
  <2>11. p[k + 1] = c
    <3>1. a + (k + 1) - 1 = n + 1 /\ k + 1 \in 1..(k + 1)  BY <2>7
    <3>. QED  BY <1>3, <2>9, <3>1
  <2>12. \A i \in 1..k : p[i] = r[i]
    <3>. SUFFICES ASSUME NEW i \in 1..k PROVE p[i] = r[i]  OBVIOUS
    <3>1. p[i] = t[a + i - 1]  BY <2>9
    <3>2. t[a + i - 1] = s[a + i - 1]  BY <1>3, <2>10
    <3>. QED  BY <2>8, <2>10, <3>1, <3>2
  <2>13. \A i \in 1..(k + 1) : p[i] = r[i]  BY <2>8, <2>11, <2>12
  <2>14. p = r  BY <2>4, <2>8, <2>9, <2>13, SameText
  <2>. QED  BY <2>2, <2>3, <2>6, <2>14
<1>6. SubSeq(t, n + 1, n + 1) = Append(<<>>, c)
  <2>1. PICK p : p = SubSeq(t, n + 1, n + 1)  OBVIOUS
  <2>2. PICK q : q = Append(<<>>, c)  OBVIOUS
  <2>3. n + 1 \in 1..Len(t)  BY <1>3
  <2>4. /\ p \in Text /\ Len(p) = (n + 1) - (n + 1) + 1
        /\ \A i \in 1..((n + 1) - (n + 1) + 1) : p[i] = t[(n + 1) + i - 1]
    BY <1>3, <2>1, <2>3, SpanOf
  <2>5. Len(p) = 1 /\ p[1] = c  BY <1>3, <2>4
  <2>6. q \in Text /\ Len(q) = 1 /\ q[1] = c
    <3>1. <<>> \in Text /\ Len(<<>>) = 0  BY Texts
    <3>2. q \in Text /\ Len(q) = 0 + 1 /\ q[0 + 1] = c  BY <2>2, <3>1, Texts
    <3>. QED  BY <3>2
  <2>7. \A i \in 1..1 : p[i] = q[i]  BY <2>5, <2>6
  <2>8. p = q  BY <2>4, <2>5, <2>6, <2>7, SameText
  <2>. QED  BY <2>1, <2>2, <2>8
<1>. QED  BY <1>1, <1>2, <1>4, <1>5, <1>6

\* A visible character ends the stripped text; a blank leaves it as it was.
LEMMA StripAppend ==
    ASSUME NEW s \in Text, NEW c \in Alphabet
    PROVE  /\ ~IsInk(c) => Strip(Append(s, c)) = Strip(s)
           /\ IsInk(c) /\ Inkless(s) => Strip(Append(s, c)) = Append(<<>>, c)
           /\ IsInk(c) => \A a, b \in 1..Len(s) : Spans(s, a, b) =>
                Strip(Append(s, c)) = Append(SubSeq(s, a, Len(s)), c)
<1>1. PICK n \in Nat : n = Len(s)  BY Texts
<1>2. PICK t : t = Append(s, c)  OBVIOUS
<1>3. /\ t \in Text /\ Len(t) = n + 1 /\ t[n + 1] = c /\ \A i \in 1..n : t[i] = s[i]
  BY <1>1, <1>2, Texts
<1>4. \A i : i \in 1..(n + 1) <=> i \in 1..n \/ i = n + 1  OBVIOUS
<1>5. ASSUME ~IsInk(c), NEW a \in 1..n, NEW b \in 1..n, Spans(s, a, b)
      PROVE  Strip(t) = SubSeq(s, a, b)
  <2>1. Spans(t, a, b)  BY <1>1, <1>3, <1>4, <1>5 DEF Spans
  <2>2. Strip(t) = SubSeq(t, a, b)  BY <1>3, <2>1, StripSpan
  <2>3. a <= b  BY <1>5 DEF Spans
  <2>. QED  BY <1>1, <1>2, <2>2, <2>3, PieceOfAppend
<1>6. ASSUME ~IsInk(c) PROVE Strip(t) = Strip(s)
  <2>1. CASE Inkless(s)
    <3>1. Inkless(t)  BY <1>2, <1>6, <2>1, InklessStep
    <3>. QED  BY <1>3, <2>1, <3>1, StripEmpty
  <2>2. CASE \E a, b \in 1..Len(s) : Spans(s, a, b) /\ Strip(s) = SubSeq(s, a, b)
    BY <1>1, <1>5, <1>6, <2>2
  <2>. QED  BY <2>1, <2>2, StripCases
<1>7. ASSUME IsInk(c), Inkless(s) PROVE Strip(t) = Append(<<>>, c)
  <2>1. n + 1 \in 1..Len(t) /\ IsInk(t[n + 1])  BY <1>3, <1>7
  <2>2. \A i \in 1..n : ~IsInk(t[i])  BY <1>1, <1>3, <1>7 DEF Inkless
  <2>3. Spans(t, n + 1, n + 1)  BY <1>3, <1>4, <2>1, <2>2 DEF Spans
  <2>4. Strip(t) = SubSeq(t, n + 1, n + 1)  BY <1>3, <2>3, StripSpan
  <2>. QED  BY <1>1, <1>2, <2>4, PieceOfAppend
<1>8. ASSUME IsInk(c), NEW a \in 1..n, NEW b \in 1..n, Spans(s, a, b)
      PROVE  Strip(t) = Append(SubSeq(s, a, n), c)
  <2>1. n + 1 \in 1..Len(t) /\ IsInk(t[n + 1]) /\ a \in 1..Len(t) /\ a <= n + 1
    BY <1>3, <1>8
  <2>2. IsInk(t[a])  BY <1>3, <1>8 DEF Spans
  <2>3. \A i \in 1..(n + 1) : IsInk(t[i]) => a <= i /\ i <= n + 1
    BY <1>1, <1>3, <1>4, <1>8 DEF Spans
  <2>4. Spans(t, a, n + 1)  BY <1>3, <2>1, <2>2, <2>3 DEF Spans
  <2>5. Strip(t) = SubSeq(t, a, n + 1)  BY <1>3, <2>4, StripSpan
  <2>. QED  BY <1>1, <1>2, <2>5, PieceOfAppend
<1>. QED  BY <1>1, <1>2, <1>6, <1>7, <1>8

LEMMA LeftCases ==
    ASSUME NEW s \in Text
    PROVE  /\ Left(s) \in Text
           /\ \A c \in Alphabet : IsInk(c) => Strip(Append(s, c)) = Append(Left(s), c)
           /\ Inkless(s) <=> Left(s) = <<>>
           /\ \A a, b \in 1..Len(s) : Spans(s, a, b) => Left(s) = SubSeq(s, a, Len(s))
<1>0. "letter" \in Alphabet /\ IsInk("letter")  BY DEF Alphabet, IsInk, Blanks
<1>1. CASE Inkless(s)
  <2>1. Strip(Append(s, "letter")) = Append(<<>>, "letter")  BY <1>0, <1>1, StripAppend
  <2>2. Left(s) = <<>>  BY <1>0, <2>1, Texts DEF Left
  <2>3. \A a, b \in 1..Len(s) : ~Spans(s, a, b)  BY <1>1 DEF Inkless, Spans
  <2>. QED  BY <1>1, <2>2, <2>3, StripAppend, Texts
<1>2. ASSUME NEW a \in 1..Len(s), NEW b \in 1..Len(s), Spans(s, a, b)
      PROVE  /\ Left(s) = SubSeq(s, a, Len(s))
             /\ Left(s) \in Text /\ Left(s) # <<>> /\ ~Inkless(s)
             /\ \A c \in Alphabet : IsInk(c) => Strip(Append(s, c)) = Append(Left(s), c)
  <2>1. PICK n \in Nat : n = Len(s)  BY Texts
  <2>2. PICK p : p = SubSeq(s, a, Len(s))  OBVIOUS
  <2>3. p \in Text /\ p # <<>>
    <3>1. Len(s) \in 1..Len(s) /\ a <= Len(s)  BY <2>1
    <3>. QED  BY <2>2, <3>1, SpanOf
  <2>4. Strip(Append(s, "letter")) = Append(p, "letter")  BY <1>0, <1>2, <2>2, StripAppend
  <2>5. Left(s) = p  BY <1>0, <2>3, <2>4, Texts DEF Left
  <2>6. ~Inkless(s)  BY <1>2 DEF Inkless, Spans
  <2>7. ASSUME NEW c \in Alphabet, IsInk(c) PROVE Strip(Append(s, c)) = Append(p, c)
    BY <1>2, <2>2, <2>7, StripAppend
  <2>. QED  BY <2>2, <2>3, <2>5, <2>6, <2>7
<1>3. CASE ~Inkless(s)
  <2>1. PICK a \in 1..Len(s), b \in 1..Len(s) : Spans(s, a, b)  BY <1>3, StripCases
  <2>2. /\ Left(s) \in Text /\ Left(s) # <<>>
        /\ \A c \in Alphabet : IsInk(c) => Strip(Append(s, c)) = Append(Left(s), c)
    BY <1>2, <2>1
  <2>. QED  BY <1>2, <1>3, <2>2
<1>. QED  BY <1>1, <1>3

LEMMA LeftStep ==
    /\ Left(<<>>) = <<>>
    /\ \A s \in Text, c \in Alphabet :
         Left(Append(s, c)) = IF Inkless(s) /\ ~IsInk(c) THEN <<>> ELSE Append(Left(s), c)
<1>1. Left(<<>>) = <<>>  BY Texts, LeftCases, InklessStep
<1>2. ASSUME NEW s \in Text, NEW c \in Alphabet
      PROVE  Left(Append(s, c)) = IF Inkless(s) /\ ~IsInk(c) THEN <<>> ELSE Append(Left(s), c)
  <2>1. PICK n \in Nat : n = Len(s)  BY Texts
  <2>2. PICK t : t = Append(s, c)  OBVIOUS
  <2>3. /\ t \in Text /\ Len(t) = n + 1 /\ t[n + 1] = c /\ \A i \in 1..n : t[i] = s[i]
    BY <2>1, <2>2, Texts
  <2>4. CASE Inkless(s) /\ ~IsInk(c)
    <3>1. Inkless(t)  BY <2>2, <2>4, InklessStep
    <3>. QED  BY <2>2, <2>3, <2>4, <3>1, LeftCases
  <2>5. CASE Inkless(s) /\ IsInk(c)
    <3>1. Left(s) = <<>>  BY <2>5, LeftCases
    <3>2. \A i \in 1..n : ~IsInk(t[i])  BY <2>1, <2>3, <2>5 DEF Inkless
    <3>3. \A i : i \in 1..(n + 1) <=> i \in 1..n \/ i = n + 1  OBVIOUS
    <3>4. Spans(t, n + 1, n + 1) /\ n + 1 \in 1..Len(t)
      BY <2>3, <2>5, <3>2, <3>3 DEF Spans
    <3>5. Left(t) = SubSeq(t, n + 1, n + 1)  BY <2>3, <3>4, LeftCases
    <3>6. SubSeq(t, n + 1, n + 1) = Append(<<>>, c)  BY <2>1, <2>2, PieceOfAppend
    <3>. QED  BY <2>2, <2>5, <3>1, <3>5, <3>6
  <2>6. CASE ~Inkless(s)
    <3>1. PICK a \in 1..Len(s), b \in 1..Len(s) : Spans(s, a, b)  BY <2>6, StripCases
    <3>2. ~Inkless(t)  BY <2>2, <2>6, InklessStep
    <3>3. PICK d \in 1..Len(t), e \in 1..Len(t) : Spans(t, d, e)
      BY <2>3, <3>2, StripCases
    <3>4. d = a
      <4>1. a \in 1..n /\ d \in 1..(n + 1) /\ a \in 1..(n + 1) /\ n + 1 \in 1..(n + 1)
        BY <2>1, <2>3, <3>1, <3>3
      <4>2. IsInk(t[a])  BY <2>1, <2>3, <3>1, <4>1 DEF Spans
      <4>3. d <= a  BY <2>3, <3>3, <4>1, <4>2 DEF Spans
      <4>4. d \in 1..n /\ IsInk(s[d])
        <5>1. d \in 1..n  BY <4>1, <4>3
        <5>2. IsInk(t[d])  BY <3>3 DEF Spans
        <5>. QED  BY <2>3, <5>1, <5>2
      <4>5. a <= d  BY <2>1, <3>1, <4>4 DEF Spans
      <4>. QED  BY <4>1, <4>3, <4>5
    <3>5. Left(t) = SubSeq(t, a, n + 1)  BY <2>3, <3>3, <3>4, LeftCases
    <3>6. Left(s) = SubSeq(s, a, n)  BY <2>1, <3>1, LeftCases
    <3>7. SubSeq(t, a, n + 1) = Append(SubSeq(s, a, n), c)
      BY <2>1, <2>2, PieceOfAppend
    <3>. QED  BY <2>2, <2>6, <3>5, <3>6, <3>7
  <2>. QED  BY <2>4, <2>5, <2>6
<1>. QED  BY <1>1, <1>2

\* It ends as the text does, unless nothing is left.
LEMMA LeftEnds ==
    \A s \in Text, x \in Alphabet :
      EndsWith(Left(s), x) <=> EndsWith(s, x) /\ ~Inkless(s)
<1>. SUFFICES ASSUME NEW s \in Text, NEW x \in Alphabet
              PROVE  EndsWith(Left(s), x) <=> EndsWith(s, x) /\ ~Inkless(s)
  OBVIOUS
<1>1. CASE Inkless(s)
  <2>1. Left(s) = <<>>  BY <1>1, LeftCases
  <2>. QED  BY <1>1, <2>1, EndsOfAppend
<1>2. CASE ~Inkless(s)
  <2>1. s # <<>>  BY <1>2, InklessStep
  <2>2. PICK t \in Text, c \in Alphabet : s = Append(t, c)  BY <2>1, Texts
  <2>3. ~(Inkless(t) /\ ~IsInk(c))  BY <1>2, <2>2, InklessStep
  <2>4. Left(s) = Append(Left(t), c) /\ Left(t) \in Text
    BY <2>2, <2>3, LeftStep, LeftCases
  <2>. QED  BY <1>2, <2>2, <2>4, EndsOfAppend
<1>. QED  BY <1>1, <1>2

LEMMA NormalizedInk == \A s \in Text : Inkless(Normalized(s)) <=> Inkless(s)
<1>. DEFINE T == {s \in Text : Inkless(Normalized(s)) <=> Inkless(s)}
<1>0. {"letter", "composed", "cr", "lf"} \subseteq Alphabet  BY DEF Alphabet
<1>1. <<>> \in T  BY NormalizedStep, Texts
<1>2. ASSUME NEW s \in T, NEW c \in Alphabet PROVE Append(s, c) \in T
  <2>1. PICK m \in Text : m = Normalized(s)  BY NormalizedType
  <2>2. Inkless(m) <=> Inkless(s)  BY <2>1
  <2>3. Inkless(Append(s, c)) <=> Inkless(s) /\ ~IsInk(c)  BY InklessStep
  <2>4. /\ IsInk("letter") /\ IsInk("mark") /\ IsInk("composed") /\ ~IsInk("lf")
        /\ IsInk(Flat(c)) <=> IsInk(c)
    BY DEF IsInk, Blanks, Flat
  <2>5. CASE c = "mark" /\ EndsWith(s, "letter")
    <3>1. PICK u \in Text : u = Front(m) /\ m = Append(u, "letter")
      BY <2>1, <2>5, NormalizedEnds, EndsOfAppend
    <3>2. Normalized(Append(s, c)) = Append(u, "composed")
      BY <2>1, <2>5, <3>1, NormalizedStep
    <3>3. ~Inkless(Append(u, "composed"))  BY <1>0, <2>4, InklessStep
    <3>4. ~Inkless(Append(s, c))  BY <2>3, <2>4, <2>5
    <3>. QED  BY <3>2, <3>3, <3>4, Texts
  <2>6. CASE c = "lf" /\ EndsWith(s, "cr")
    <3>1. Normalized(Append(s, c)) = m  BY <2>1, <2>6, NormalizedStep
    <3>2. Inkless(Append(s, c)) <=> Inkless(s)  BY <2>3, <2>4, <2>6
    <3>. QED  BY <2>2, <3>1, <3>2, Texts
  <2>7. CASE ~Pairing(s, c)
    <3>1. Normalized(Append(s, c)) = Append(m, Flat(c))
      BY <2>1, <2>7, NormalizedStep DEF Pairing
    <3>2. Inkless(Append(m, Flat(c))) <=> Inkless(m) /\ ~IsInk(Flat(c))
      BY FlatType, InklessStep
    <3>. QED  BY <2>2, <2>3, <2>4, <3>1, <3>2, Texts
  <2>. QED  BY <2>5, <2>6, <2>7 DEF Pairing
<1>3. T = Text
  <2>. HIDE DEF T
  <2>1. T \in SUBSET Text  BY DEF T
  <2>. QED  BY <1>1, <1>2, <2>1, TextInduction
<1>. QED  BY <1>3

\* Stripping before normalization and after it come to the same.
Commutes(s) ==
    Left(Normalized(s)) = Normalized(Left(s)) /\ Strip(Normalized(s)) = Normalized(Strip(s))

LEMMA CommutesStep ==
    ASSUME NEW s \in Text, NEW c \in Alphabet, Commutes(s)
    PROVE  Commutes(Append(s, c))
<1>0. {"letter", "mark", "composed", "cr", "lf"} \subseteq Alphabet  BY DEF Alphabet
<1>1. /\ IsInk("letter") /\ IsInk("mark") /\ IsInk("composed")
      /\ ~IsInk("cr") /\ ~IsInk("lf")
  BY DEF IsInk, Blanks, Flat
<1>2. PICK m \in Text : m = Normalized(s)  BY NormalizedType
<1>3. PICK k \in Text : k = Left(s)  BY LeftCases
<1>4. PICK t \in Text : t = Append(s, c)  BY Texts
<1>5. Left(m) = Normalized(k) /\ Strip(m) = Normalized(Strip(s))
  BY <1>2, <1>3 DEF Commutes
<1>6. Inkless(m) <=> Inkless(s)  BY <1>2, NormalizedInk
<1>7. CASE c = "mark" /\ EndsWith(s, "letter")
  <2>1. PICK u \in Text : u = Front(m) /\ m = Append(u, "letter")
    BY <1>2, <1>7, NormalizedEnds, EndsOfAppend
  <2>2. Normalized(t) = Append(u, "composed")  BY <1>2, <1>4, <1>7, <2>1, NormalizedStep
  <2>3. PICK v \in Text : v = Left(u)  BY LeftCases
  <2>4. /\ Left(Append(u, "letter")) = Append(v, "letter")
        /\ Left(Append(u, "composed")) = Append(v, "composed")
        /\ Strip(Append(u, "composed")) = Append(v, "composed")
    BY <1>0, <1>1, <2>3, LeftStep, LeftCases
  <2>5. Left(t) = Append(k, "mark") /\ Strip(t) = Append(k, "mark")
    BY <1>0, <1>1, <1>3, <1>4, <1>7, LeftStep, LeftCases
  <2>6. EndsWith(k, "letter")
    <3>1. ~Inkless(s)
      <4>1. PICK w \in Text : s = Append(w, "letter")  BY <1>7, EndsOfAppend
      <4>. QED  BY <1>0, <1>1, <4>1, InklessStep
    <3>. QED  BY <1>0, <1>3, <1>7, <3>1, LeftEnds
  <2>7. Normalized(Append(k, "mark")) = Append(Front(Normalized(k)), "composed")
    BY <1>0, <2>6, NormalizedStep
  <2>8. Front(Normalized(k)) = v
    <3>1. Normalized(k) = Append(v, "letter")  BY <1>5, <2>1, <2>4
    <3>. QED  BY <1>0, <3>1, Texts
  <2>. QED  BY <1>4, <2>2, <2>4, <2>5, <2>7, <2>8 DEF Commutes
<1>8. CASE c = "lf" /\ EndsWith(s, "cr")
  <2>1. Normalized(t) = m  BY <1>2, <1>4, <1>8, NormalizedStep
  <2>2. Strip(t) = Strip(s)  BY <1>1, <1>4, <1>8, StripAppend
  <2>3. Normalized(Left(t)) = Normalized(k)
    <3>1. CASE Inkless(s)
      <4>1. Left(t) = <<>> /\ k = <<>>
        BY <1>1, <1>3, <1>4, <1>8, <3>1, LeftStep, LeftCases
      <4>. QED  BY <4>1
    <3>2. CASE ~Inkless(s)
      <4>1. Left(t) = Append(k, "lf")  BY <1>3, <1>4, <1>8, <3>2, LeftStep
      <4>2. EndsWith(k, "cr")  BY <1>0, <1>3, <1>8, <3>2, LeftEnds
      <4>3. Normalized(Append(k, "lf")) = Normalized(k)  BY <1>0, <4>2, NormalizedStep
      <4>. QED  BY <4>1, <4>3
    <3>. QED  BY <3>1, <3>2
  <2>. QED  BY <1>4, <1>5, <2>1, <2>2, <2>3 DEF Commutes
<1>9. CASE ~Pairing(s, c)
  <2>1. PICK d \in Alphabet : d = Flat(c)  BY FlatType
  <2>2. IsInk(d) <=> IsInk(c)  BY <2>1 DEF IsInk, Blanks, Flat
  <2>3. Normalized(t) = Append(m, d)
    BY <1>2, <1>4, <1>9, <2>1, NormalizedStep DEF Pairing
  <2>4. ~Pairing(k, c)
    <3>1. EndsWith(k, "letter") => EndsWith(s, "letter")  BY <1>0, <1>3, LeftEnds
    <3>2. EndsWith(k, "cr") => EndsWith(s, "cr")  BY <1>0, <1>3, LeftEnds
    <3>. QED  BY <1>9, <3>1, <3>2 DEF Pairing
  <2>5. Normalized(Append(k, c)) = Append(Left(m), d)
    BY <1>5, <2>1, <2>4, NormalizedStep DEF Pairing
  <2>6. Left(Append(m, d)) = Normalized(Left(t))
    <3>1. CASE Inkless(s) /\ ~IsInk(c)
      <4>1. Left(t) = <<>>  BY <1>4, <3>1, LeftStep
      <4>2. Inkless(m) /\ ~IsInk(d)  BY <1>6, <2>2, <3>1
      <4>3. Left(Append(m, d)) = <<>>  BY <4>2, LeftStep
      <4>. QED  BY <4>1, <4>3, NormalizedStep
    <3>2. CASE ~(Inkless(s) /\ ~IsInk(c))
      <4>1. Left(t) = Append(k, c)  BY <1>3, <1>4, <3>2, LeftStep
      <4>2. Left(Append(m, d)) = Append(Left(m), d)
        BY <1>6, <2>2, <3>2, LeftStep
      <4>. QED  BY <2>5, <4>1, <4>2
    <3>. QED  BY <3>1, <3>2
  <2>7. Strip(Append(m, d)) = Normalized(Strip(t))
    <3>1. CASE IsInk(c)
      <4>1. Strip(t) = Append(k, c)  BY <1>3, <1>4, <3>1, LeftCases
      <4>2. Strip(Append(m, d)) = Append(Left(m), d)  BY <2>2, <3>1, LeftCases
      <4>. QED  BY <2>5, <4>1, <4>2
    <3>2. CASE ~IsInk(c)
      <4>1. Strip(t) = Strip(s)  BY <1>4, <3>2, StripAppend
      <4>2. ~IsInk(d)  BY <2>2, <3>2
      <4>3. Strip(Append(m, d)) = Strip(m)  BY <4>2, StripAppend
      <4>. QED  BY <1>5, <4>1, <4>3
    <3>. QED  BY <3>1, <3>2
  <2>. QED  BY <1>4, <2>3, <2>6, <2>7 DEF Commutes
<1>. QED  BY <1>7, <1>8, <1>9 DEF Pairing

LEMMA StripCommutes == \A s \in Text : Strip(Normalized(s)) = Normalized(Strip(s))
<1>. DEFINE T == {s \in Text : Commutes(s)}
<1>1. <<>> \in T
  <2>1. Strip(<<>>) = <<>>  BY Texts, InklessStep, StripEmpty
  <2>. QED  BY <2>1, Texts, LeftStep, NormalizedStep DEF Commutes
<1>2. \A s \in T, c \in Alphabet : Append(s, c) \in T  BY CommutesStep, Texts
<1>3. T = Text
  <2>. HIDE DEF T
  <2>1. T \in SUBSET Text  BY DEF T
  <2>. QED  BY <1>1, <1>2, <2>1, TextInduction
<1>. QED  BY <1>3 DEF Commutes

LEMMA VisibleLength == \A s \in Text : Visible(s) = Len(Strip(Normalized(s)))
<1>. SUFFICES ASSUME NEW s \in Text PROVE Visible(s) = Len(Strip(Normalized(s)))  OBVIOUS
<1>1. PICK shown \in Text : shown = Strip(s)  BY Stripped
<1>2. Visible(s) = Len(shown) - Cardinality(Pairs(shown))  BY <1>1 DEF Visible, Pairs
<1>3. Strip(Normalized(s)) = Normalized(shown)  BY <1>1, StripCommutes
<1>. QED  BY <1>2, <1>3, NormalizedLength

\* A text is refused exactly if what a reader sees of it is too long, and is no text
\* exactly if a reader sees nothing, however it was typed and whatever the limit.
THEOREM VisibleCorrect == Spec => []LimitOnVisible
<1>1. ASSUME raw \in Text PROVE LimitOnVisible
  <2>1. PICK m \in Text : m = Strip(Normalized(raw))  BY <1>1, NormalizedType, Stripped
  <2>2. PICK n \in Nat : n = Len(m)  BY Texts
  <2>3. Visible(raw) = n  BY <1>1, <2>1, <2>2, VisibleLength
  <2>4. n = 0 <=> m = <<>>  BY <2>2, EmptySeq DEF Text
  <2>5. m = <<>> <=> Strip(raw) = <<>>
    BY <1>1, <2>1, StripCommutes, NormalizedEmpty, Stripped
  <2>6. m # None /\ m # Invalid /\ Invalid # None /\ MaxText \in Nat
    BY TextAssumption DEF Text
  <2>7. ContentText(raw) = IF m = <<>> THEN None ELSE IF n > MaxText THEN Invalid ELSE m
    <3>1. MessageText(raw) = IF m = <<>> \/ n > MaxText THEN Invalid ELSE m
      BY <2>1, <2>2 DEF MessageText, Within, Normalized
    <3>. QED  BY <2>5, <3>1 DEF ContentText
  <2>8. ContentText(raw) = None <=> n = 0  BY <2>4, <2>6, <2>7
  <2>9. ContentText(raw) = Invalid <=> n > MaxText  BY <2>4, <2>6, <2>7
  <2>. QED  BY <2>3, <2>8, <2>9 DEF LimitOnVisible
<1>. QED  BY <1>1, TextsTyped, PTL
==============================================================================
