-------------------------- MODULE LogParserProofs --------------------------
(***************************************************************************)
(* Proofs about LogParser, for any streams, any lines of any lengths and   *)
(* any Piece: no line waits in the buffer, the bytes of each stream keep   *)
(* their order, and the lines of a child that writes to one stream only    *)
(* are handled whole and leave their entries in the log.                   *)
(*                                                                         *)
(* FlattenSeq is a fold: that it takes the concatenation of two sequences  *)
(* to the concatenation of what it makes of them is shown by induction on  *)
(* their lengths, with a set of numbers instead of a predicate.            *)
(***************************************************************************)
EXTENDS LogParser, SequenceTheorems, WellFoundedInduction, TLAPS

-----------------------------------------------------------------------------
(* Numbers.                                                                *)

\* What holds of zero, and of a number's successor when it holds of the number,
\* holds of all numbers.
LEMMA SetInduction ==
    ASSUME NEW S, 0 \in S, \A n \in Nat : n \in S => n + 1 \in S
    PROVE  Nat \subseteq S
<1> SUFFICES ASSUME Nat \ S # {} PROVE FALSE
  OBVIOUS
<1>1. PICK x \in Nat \ S : \A y \in Nat \ S : ~(<<y, x>> \in OpToRel(<, Nat))
  BY NatLessThanWellFounded, WFMin
<1>2. \A y \in Nat \ S : ~(y < x)
  BY <1>1 DEF OpToRel
<1>3. x # 0
  OBVIOUS
<1>4. x - 1 \in Nat /\ x - 1 \in S
  BY <1>2, <1>3
<1>5. QED
  BY <1>4

\* Min finds the least element of a set of numbers that is not empty.
LEMMA MinIsLeast ==
    ASSUME NEW S \in SUBSET Nat, S # {}
    PROVE  Min(S) \in S /\ \A y \in S : Min(S) <= y
<1>1. PICK x \in S : \A y \in S : ~(<<y, x>> \in OpToRel(<, Nat))
  BY NatLessThanWellFounded, WFMin
<1>2. \A y \in S : ~(y < x)
  BY <1>1 DEF OpToRel
<1>3. \A y \in S : x <= y
  BY <1>2
<1>4. QED
  BY <1>3 DEF Min

-----------------------------------------------------------------------------
(* Sequences.                                                              *)

\* A sequence is what one gets when one puts its two parts together.
LEMMA TwoParts ==
    ASSUME NEW S, NEW b \in Seq(S), NEW n \in 0..Len(b)
    PROVE  /\ SubSeq(b, 1, n) \in Seq(S) /\ SubSeq(b, n + 1, Len(b)) \in Seq(S)
           /\ Len(SubSeq(b, 1, n)) = n /\ Len(SubSeq(b, n + 1, Len(b))) = Len(b) - n
           /\ \A i \in 1..n : SubSeq(b, 1, n)[i] = b[i]
           /\ SubSeq(b, 1, n) \o SubSeq(b, n + 1, Len(b)) = b
<1>1. SubSeq(b, 1, n) \in Seq(S) /\ SubSeq(b, n + 1, Len(b)) \in Seq(S)
      /\ Len(SubSeq(b, 1, n)) = n /\ Len(SubSeq(b, n + 1, Len(b))) = Len(b) - n
      /\ \A i \in 1..n : SubSeq(b, 1, n)[i] = b[i]
  OBVIOUS
<1>2. SubSeq(b, 1, n) \o SubSeq(b, n + 1, Len(b)) = SubSeq(b, 1, Len(b))
  <2>1. 1 \in 1..Len(b)+1 /\ n \in 1-1..Len(b) /\ Len(b) \in n..Len(b)
    OBVIOUS
  <2>2. QED
    BY <2>1, ConcatAdjacentSubSeq
<1>3. QED
  BY <1>1, <1>2, SubSeqFull

-----------------------------------------------------------------------------
(* FlattenSeq.                                                             *)

\* Sequences of sequences.
Lots(S) == Seq(Seq(S))

\* Is z x and then y?
Joined(z, x, y) == z = x \o y

\* Is f[i] for every i up to n the first i of the sequences put together?
IsFlat(f, seqs, n) ==
    \A i \in 1..n : f[i] = IF i = 1 THEN seqs[i] ELSE f[i - 1] \o seqs[i]

\* There is such a function ...
LEMMA FlatExists ==
    ASSUME NEW S, NEW seqs \in Seq(Seq(S))
    PROVE  \A n \in 0..Len(seqs) : \E g \in [1..n -> Seq(S)] : IsFlat(g, seqs, n)
<1> DEFINE N == Len(seqs)
           T == {n \in Nat : n <= N => \E g \in [1..n -> Seq(S)] : IsFlat(g, seqs, n)}
<1>1. 0 \in T
  <2>1. [i \in 1..0 |-> <<>>] \in [1..0 -> Seq(S)]
    OBVIOUS
  <2>2. \A g : IsFlat(g, seqs, 0)
    <3>1. \A i \in 1..0 : FALSE
      OBVIOUS
    <3>2. QED
      BY <3>1 DEF IsFlat
  <2>3. QED
    BY <2>1, <2>2
<1>2. ASSUME NEW n \in Nat, n \in T PROVE n + 1 \in T
  <2> SUFFICES ASSUME n + 1 <= N
               PROVE  \E g \in [1..n + 1 -> Seq(S)] : IsFlat(g, seqs, n + 1)
    OBVIOUS
  <2>1. n <= N /\ n + 1 \in 1..N /\ seqs[n + 1] \in Seq(S)
    OBVIOUS
  <2>2. PICK g \in [1..n -> Seq(S)] : IsFlat(g, seqs, n)
    BY <1>2, <2>1
  <2> DEFINE x == IF n = 0 THEN seqs[n + 1] ELSE g[n] \o seqs[n + 1]
             h == [i \in 1..n + 1 |-> IF i = n + 1 THEN x ELSE g[i]]
  <2>3. x \in Seq(S)
    <3>1. CASE n = 0
      BY <2>1, <3>1
    <3>2. CASE n # 0
      <4>1. g[n] \in Seq(S)
        BY <2>2, <3>2
      <4>2. g[n] \o seqs[n + 1] \in Seq(S)
        BY <2>1, <4>1, ConcatProperties
      <4>3. QED
        BY <3>2, <4>2
    <3>3. QED
      BY <3>1, <3>2
  <2> HIDE DEF x
  <2>4. h \in [1..n + 1 -> Seq(S)]
    BY <2>2, <2>3
  <2>5. ASSUME NEW i \in 1..n + 1
        PROVE  h[i] = IF i = 1 THEN seqs[i] ELSE h[i - 1] \o seqs[i]
    <3>1. CASE i = n + 1
      <4>1. h[i] = x /\ (n = 0 <=> i = 1)
        BY <3>1
      <4>2. n # 0 => h[i - 1] = g[n]
        <5>1. n # 0 => i - 1 \in 1..n + 1 /\ i - 1 # n + 1 /\ i - 1 = n
          BY <3>1
        <5>2. QED
          BY <5>1
      <4>3. QED
        BY <3>1, <4>1, <4>2 DEF x
    <3>2. CASE i # n + 1
      <4>1. i \in 1..n /\ h[i] = g[i]
        BY <3>2
      <4>2. i # 1 => i - 1 \in 1..n + 1 /\ i - 1 # n + 1
        BY <3>2
      <4>3. i # 1 => h[i - 1] = g[i - 1]
        BY <4>2
      <4>4. QED
        BY <2>2, <4>1, <4>3 DEF IsFlat
    <3>3. QED
      BY <3>1, <3>2
  <2>6. IsFlat(h, seqs, n + 1)
    <3> HIDE DEF h
    <3>1. QED
      BY <2>5 DEF IsFlat
  <2>7. QED
    BY <2>4, <2>6
<1>3. Nat \subseteq T
  <2> HIDE DEF T
  <2>1. QED
    BY <1>1, <1>2, SetInduction
<1>4. QED
  BY <1>3

\* ... and only one.
LEMMA FlatUnique ==
    ASSUME NEW f, NEW s, NEW h, NEW t, NEW n \in Nat,
           IsFlat(f, s, n), IsFlat(h, t, n), \A i \in 1..n : s[i] = t[i]
    PROVE  \A i \in 1..n : f[i] = h[i]
<1> DEFINE T == {i \in Nat : i + 1 <= n => f[i + 1] = h[i + 1]}
<1>1. 0 \in T
  BY DEF IsFlat
<1>2. ASSUME NEW i \in Nat, i \in T PROVE i + 1 \in T
  <2> DEFINE k == i + 1
  <2> SUFFICES ASSUME k + 1 <= n PROVE f[k + 1] = h[k + 1]
    OBVIOUS
  <2>1. k + 1 \in 1..n /\ k + 1 # 1 /\ (k + 1) - 1 = k
    OBVIOUS
  <2>2. f[k] = h[k]
    BY <1>2, <2>1
  <2>3. f[k + 1] = f[k] \o s[k + 1] /\ h[k + 1] = h[k] \o t[k + 1]
    BY <2>1 DEF IsFlat
  <2>4. QED
    BY <2>1, <2>2, <2>3
<1>3. Nat \subseteq T
  <2> HIDE DEF T
  <2>1. QED
    BY <1>1, <1>2, SetInduction
<1>4. ASSUME NEW i \in 1..n PROVE f[i] = h[i]
  <2>1. i - 1 \in Nat /\ (i - 1) + 1 = i /\ i - 1 \in T
    BY <1>3
  <2>2. QED
    BY <2>1
<1>5. QED
  BY <1>4

\* A sequence more than n is put at the end of the first n.
LEMMA FlatGrows ==
    ASSUME NEW f, NEW s, NEW h, NEW t, NEW n \in Nat \ {0},
           IsFlat(f, s, n), IsFlat(h, t, n + 1), \A i \in 1..n : s[i] = t[i]
    PROVE  Joined(h[n + 1], f[n], t[n + 1])
<1>1. IsFlat(h, t, n)
  BY DEF IsFlat
<1>2. f[n] = h[n]
  BY <1>1, FlatUnique
<1>3. n + 1 \in 1..n + 1 /\ n + 1 # 1 /\ (n + 1) - 1 = n
  OBVIOUS
<1>4. h[n + 1] = IF n + 1 = 1 THEN t[n + 1] ELSE h[(n + 1) - 1] \o t[n + 1]
  BY <1>3 DEF IsFlat
<1>5. h[n + 1] = h[n] \o t[n + 1]
  BY <1>3, <1>4
<1>6. QED
  BY <1>2, <1>5 DEF Joined

\* FlattenSeq is its last value.
LEMMA FlattenIsFlat ==
    ASSUME NEW S, NEW seqs \in Seq(Seq(S)), seqs # <<>>
    PROVE  \E g : /\ IsFlat(g, seqs, Len(seqs))
                  /\ FlattenSeq(seqs) = g[Len(seqs)] /\ g[Len(seqs)] \in Seq(S)
<1> DEFINE N == Len(seqs)
           F(f) == [i \in 1..N |-> IF i = 1 THEN seqs[i] ELSE f[i - 1] \o seqs[i]]
           flat == CHOOSE f : f = F(f)
<1>1. N \in Nat \ {0}
  OBVIOUS
<1>2. FlattenSeq(seqs) = flat[N]
  BY <1>1 DEF FlattenSeq
<1>3. PICK g \in [1..N -> Seq(S)] : IsFlat(g, seqs, N)
  <2>1. N \in 0..N
    BY <1>1
  <2>2. \A n \in 0..N : \E g \in [1..n -> Seq(S)] : IsFlat(g, seqs, n)
    BY Zenon, FlatExists
  <2>3. QED
    BY Zenon, <2>1, <2>2
<1>4. g = F(g)
  BY <1>3 DEF IsFlat
<1>5. flat = F(flat)
  <2> HIDE DEF F
  <2>1. QED
    BY <1>4
<1> HIDE DEF flat
<1>6. IsFlat(flat, seqs, N)
  BY <1>5 DEF IsFlat
<1> HIDE DEF N
<1>7. flat[N] = g[N]
  BY <1>1, <1>3, <1>6, FlatUnique
<1>8. flat[N] \in Seq(S)
  BY <1>1, <1>3, <1>7
<1>9. QED
  BY <1>2, <1>6, <1>8 DEF N

\* Nothing of no sequences, and a sequence that is put at the end of them comes
\* at the end of the whole.
LEMMA FlattenAppend ==
    ASSUME NEW S, NEW seqs \in Lots(S), NEW x \in Seq(S)
    PROVE  /\ FlattenSeq(<<>>) = <<>>
           /\ FlattenSeq(seqs) \in Seq(S)
           /\ FlattenSeq(Append(seqs, x)) = FlattenSeq(seqs) \o x
<1> DEFINE more == Append(seqs, x)
           N == Len(seqs)
<1>1. FlattenSeq(<<>>) = <<>>
  BY DEF FlattenSeq
<1>2. more \in Lots(S) /\ more # <<>> /\ Len(more) = N + 1 /\ N \in Nat
      /\ (\A i \in 1..N : more[i] = seqs[i]) /\ more[N + 1] = x
  BY AppendProperties DEF Lots
<1> HIDE DEF more, N
<1>3. PICK h : IsFlat(h, more, N + 1) /\ FlattenSeq(more) = h[N + 1]
  BY <1>2, FlattenIsFlat DEF Lots
<1>4. CASE seqs = <<>>
  <2>1. N = 0 /\ 1 \in 1..N + 1
    BY <1>4 DEF N
  <2>2. h[1] = more[1]
    BY <1>3, <2>1 DEF IsFlat
  <2>3. FlattenSeq(more) = x
    BY <1>2, <1>3, <2>1, <2>2
  <2>4. <<>> \in Seq(S) /\ <<>> \o x = x
    BY ConcatEmptySeq
  <2>5. QED
    BY <1>1, <1>4, <2>3, <2>4 DEF more
<1>5. CASE seqs # <<>>
  <2>1. N # 0 /\ N = Len(seqs)
    BY <1>2, <1>5 DEF N
  <2>2. PICK g : IsFlat(g, seqs, N) /\ FlattenSeq(seqs) = g[N] /\ g[N] \in Seq(S)
    BY <1>5, <2>1, FlattenIsFlat DEF Lots
  <2>3. N \in Nat \ {0} /\ \A i \in 1..N : seqs[i] = more[i]
    BY <1>2, <2>1
  <2>4. Joined(h[N + 1], g[N], more[N + 1])
    BY <1>3, <2>2, <2>3, FlatGrows
  <2>5. QED
    BY <1>1, <1>2, <1>3, <2>2, <2>4 DEF more, Joined
<1>6. QED
  BY <1>4, <1>5

\* One sequence is the whole.
LEMMA FlattenOne ==
    ASSUME NEW S, NEW x \in Seq(S)
    PROVE  FlattenSeq(<<x>>) = x
<1>1. <<>> \in Seq(Seq(S)) /\ <<>> \in Seq(S) /\ Append(<<>>, x) = <<x>>
  OBVIOUS
<1>2. FlattenSeq(<<x>>) = <<>> \o x
  BY <1>1, FlattenAppend DEF Lots
<1>3. QED
  BY <1>2, ConcatEmptySeq

\* Is it the same to put x and y together first, or y and z?
Associate(x, y, z) == (x \o y) \o z = x \o (y \o z)

\* It is.
LEMMA Regroup ==
    ASSUME NEW S, NEW x \in Seq(S), NEW y \in Seq(S), NEW z \in Seq(S)
    PROVE  Associate(x, y, z)
BY ConcatAssociative DEF Associate

\* The whole of two lots is the whole of the one, then that of the other.
LEMMA FlattenConcat ==
    ASSUME NEW S, NEW a \in Lots(S), NEW b \in Lots(S)
    PROVE  FlattenSeq(a \o b) = FlattenSeq(a) \o FlattenSeq(b)
<1> DEFINE B(n) == SubSeq(b, 1, n)
           T == {n \in Nat : n <= Len(b) =>
                    FlattenSeq(a \o B(n)) = FlattenSeq(a) \o FlattenSeq(B(n))}
<1>0. Len(b) \in Nat /\ \A n \in Nat : n <= Len(b) => B(n) \in Lots(S)
  <2>1. Len(b) \in Nat
    OBVIOUS
  <2>2. ASSUME NEW n \in Nat, n <= Len(b) PROVE B(n) \in Lots(S)
    <3>1. n \in 0..Len(b)
      BY <2>1, <2>2
    <3>2. QED
      BY <3>1, TwoParts DEF Lots
  <2>3. QED
    BY <2>1, <2>2
<1>1. 0 \in T
  <2>1. B(0) = <<>>
    BY SubSeqEmpty
  <2>2. a \o <<>> = a /\ FlattenSeq(<<>>) = <<>> /\ FlattenSeq(a) \in Seq(S)
    <3>1. <<>> \in Seq(S)
      OBVIOUS
    <3>2. QED
      BY <3>1, ConcatEmptySeq, FlattenAppend DEF Lots
  <2>3. FlattenSeq(a) \o <<>> = FlattenSeq(a)
    BY <2>2, ConcatEmptySeq
  <2>4. QED
    BY <2>1, <2>2, <2>3
<1>2. ASSUME NEW n \in Nat, n \in T PROVE n + 1 \in T
  <2> SUFFICES ASSUME n + 1 <= Len(b)
               PROVE  FlattenSeq(a \o B(n + 1)) = FlattenSeq(a) \o FlattenSeq(B(n + 1))
    OBVIOUS
  <2> DEFINE x == b[n + 1]
  <2>1. n <= Len(b) /\ n + 1 \in 1..Len(b) /\ x \in Seq(S) /\ B(n) \in Lots(S)
    BY <1>0 DEF Lots
  <2>2. B(n + 1) = Append(B(n), x)
    BY <2>1
  <2>3. FlattenSeq(a \o B(n)) = FlattenSeq(a) \o FlattenSeq(B(n))
    BY <1>2, <2>1
  <2> HIDE DEF B, x
  <2>4. a \o B(n) \in Lots(S) /\ a \o Append(B(n), x) = Append(a \o B(n), x)
    <3> DEFINE E == Seq(S)
    <3>1. a \in Seq(E) /\ B(n) \in Seq(E) /\ x \in E
      BY <2>1 DEF Lots
    <3> HIDE DEF E, T
    <3>2. a \o B(n) \in Seq(E) /\ a \o Append(B(n), x) = Append(a \o B(n), x)
      BY <3>1, ConcatProperties, AppendProperties
    <3>3. QED
      BY <3>2 DEF E, Lots
  <2>5. /\ FlattenSeq(Append(a \o B(n), x)) = FlattenSeq(a \o B(n)) \o x
        /\ FlattenSeq(Append(B(n), x)) = FlattenSeq(B(n)) \o x
        /\ FlattenSeq(a) \in Seq(S) /\ FlattenSeq(B(n)) \in Seq(S)
    BY <2>1, <2>4, FlattenAppend DEF Lots
  <2>6. (FlattenSeq(a) \o FlattenSeq(B(n))) \o x = FlattenSeq(a) \o (FlattenSeq(B(n)) \o x)
    <3> DEFINE u == FlattenSeq(a)
               v == FlattenSeq(B(n))
    <3>1. u \in Seq(S) /\ v \in Seq(S) /\ x \in Seq(S)
      BY <2>1, <2>5
    <3> HIDE DEF u, v, T
    <3>2. Associate(u, v, x)
      BY Zenon, <3>1, Regroup
    <3>3. QED
      BY <3>2 DEF u, v, Associate
  <2>7. QED
    BY <2>2, <2>3, <2>4, <2>5, <2>6
<1>3. Nat \subseteq T
  <2> HIDE DEF T
  <2>1. QED
    BY <1>1, <1>2, SetInduction
<1>4. B(Len(b)) = b
  BY SubSeqFull DEF Lots
<1>5. FlattenSeq(a \o B(Len(b))) = FlattenSeq(a) \o FlattenSeq(B(Len(b)))
  BY <1>0, <1>3
<1>6. QED
  BY <1>4, <1>5

-----------------------------------------------------------------------------
(* Bytes and the streams they are of.                                      *)

AnyByte == [stream : Streams, line : Nat, newline : BOOLEAN]

ByteOf(s) == {x \in AnyByte : x.stream = s}

\* BytesOf puts together the bytes of the stream, each a sequence of its own.
Singles(s, b) == [i \in DOMAIN b |-> IF b[i].stream = s THEN <<b[i]>> ELSE <<>>]

\* They are sequences of bytes.
LEMMA SinglesType ==
    ASSUME NEW s, NEW b \in Seq(AnyByte)
    PROVE  Singles(s, b) \in Lots(AnyByte) /\ Len(Singles(s, b)) = Len(b)
<1>1. \A i \in 1..Len(b) : Singles(s, b)[i] \in Seq(AnyByte)
  <2> SUFFICES ASSUME NEW i \in 1..Len(b) PROVE Singles(s, b)[i] \in Seq(AnyByte)
    OBVIOUS
  <2>1. b[i] \in AnyByte
    OBVIOUS
  <2>2. <<b[i]>> \in Seq(AnyByte) /\ <<>> \in Seq(AnyByte)
    BY <2>1
  <2>3. Singles(s, b)[i] \in {<<b[i]>>, <<>>}
    BY DEF Singles
  <2>4. QED
    BY <2>2, <2>3
<1>2. Singles(s, b) = [i \in 1..Len(b) |-> Singles(s, b)[i]]
  BY DEF Singles
<1>3. Len(b) \in Nat
  OBVIOUS
<1>4. QED
  BY <1>1, <1>2, <1>3 DEF Lots

\* The bytes of a stream are bytes; of the bytes of two sequences, one after the
\* other, they are those of the one and then those of the other.
LEMMA BytesOfConcat ==
    ASSUME NEW s, NEW a \in Seq(AnyByte), NEW b \in Seq(AnyByte)
    PROVE  /\ BytesOf(s, a) \in Seq(AnyByte)
           /\ BytesOf(s, a \o b) = BytesOf(s, a) \o BytesOf(s, b)
<1>1. \A c : BytesOf(s, c) = FlattenSeq(Singles(s, c))
  BY DEF BytesOf, Singles
<1>2. a \o b \in Seq(AnyByte) /\ Len(a \o b) = Len(a) + Len(b)
      /\ Len(a) \in Nat /\ Len(b) \in Nat
      /\ \A i \in 1..Len(a) + Len(b) :
            (a \o b)[i] = IF i <= Len(a) THEN a[i] ELSE b[i - Len(a)]
  BY ConcatProperties
<1>3. Singles(s, a \o b) = Singles(s, a) \o Singles(s, b)
  <2> DEFINE u == Singles(s, a)
             v == Singles(s, b)
             w == Singles(s, a \o b)
             A == Len(a)
             B == Len(b)
  <2>1. u \in Lots(AnyByte) /\ v \in Lots(AnyByte) /\ w \in Lots(AnyByte)
        /\ Len(u) = A /\ Len(v) = B /\ Len(w) = A + B
    BY <1>2, SinglesType
  <2>2. \A i \in 1..A + B : w[i] = IF i <= A THEN u[i] ELSE v[i - A]
    <3> SUFFICES ASSUME NEW i \in 1..A + B
                 PROVE  w[i] = IF i <= A THEN u[i] ELSE v[i - A]
      OBVIOUS
    <3>1. w[i] = IF (a \o b)[i].stream = s THEN <<(a \o b)[i]>> ELSE <<>>
      BY <1>2 DEF Singles
    <3>2. CASE i <= A
      <4>1. i \in DOMAIN a /\ (a \o b)[i] = a[i]
        BY <1>2, <3>2
      <4>2. u[i] = IF a[i].stream = s THEN <<a[i]>> ELSE <<>>
        BY <4>1 DEF Singles
      <4>3. QED
        BY <3>1, <3>2, <4>1, <4>2
    <3>3. CASE ~(i <= A)
      <4>1. i - A \in DOMAIN b /\ (a \o b)[i] = b[i - A]
        BY <1>2, <3>3
      <4>2. v[i - A] = IF b[i - A].stream = s THEN <<b[i - A]>> ELSE <<>>
        BY <4>1 DEF Singles
      <4>3. QED
        BY <3>1, <3>3, <4>1, <4>2
    <3>4. QED
      BY <3>2, <3>3
  <2> HIDE DEF u, v, w
  <2>3. /\ u \o v \in Lots(AnyByte) /\ Len(u \o v) = A + B
        /\ \A i \in 1..A + B : (u \o v)[i] = IF i <= A THEN u[i] ELSE v[i - A]
    <3> DEFINE E == Seq(AnyByte)
    <3>1. u \in Seq(E) /\ v \in Seq(E) /\ Lots(AnyByte) = Seq(E)
      BY <2>1 DEF Lots
    <3> HIDE DEF E
    <3>2. /\ u \o v \in Seq(E) /\ Len(u \o v) = Len(u) + Len(v)
          /\ \A i \in 1..Len(u) + Len(v) :
                (u \o v)[i] = IF i <= Len(u) THEN u[i] ELSE v[i - Len(u)]
      BY <3>1, ConcatProperties
    <3>3. QED
      BY <2>1, <3>1, <3>2
  <2>4. \A i \in 1..Len(w) : w[i] = (u \o v)[i]
    BY <2>1, <2>2, <2>3
  <2> DEFINE z == u \o v
  <2> HIDE DEF z
  <2>5. z \in Lots(AnyByte) /\ w \in Lots(AnyByte) /\ Len(w) = Len(z)
        /\ \A i \in 1..Len(w) : w[i] = z[i]
    BY <2>1, <2>3, <2>4 DEF z
  <2>6. w = z
    BY <2>5, SeqEqual DEF Lots
  <2>7. QED
    BY <2>6 DEF u, v, w, z
<1>4. Singles(s, a) \in Lots(AnyByte) /\ Singles(s, b) \in Lots(AnyByte)
  BY SinglesType
<1>5. FlattenSeq(Singles(s, a) \o Singles(s, b))
         = FlattenSeq(Singles(s, a)) \o FlattenSeq(Singles(s, b))
  BY <1>4, FlattenConcat
<1>6. FlattenSeq(Singles(s, a)) \in Seq(AnyByte)
  <2>1. <<>> \in Seq(AnyByte)
    OBVIOUS
  <2>2. QED
    BY <1>4, <2>1, FlattenAppend
<1>7. BytesOf(s, a \o b) = BytesOf(s, a) \o BytesOf(s, b)
  <2>1. BytesOf(s, a \o b) = FlattenSeq(Singles(s, a) \o Singles(s, b))
    BY <1>1, <1>3
  <2>2. QED
    BY <1>1, <1>5, <2>1
<1>8. QED
  BY <1>1, <1>6, <1>7

\* A byte is of its stream, and of no other.
LEMMA BytesOfOne ==
    ASSUME NEW s, NEW x \in AnyByte
    PROVE  /\ BytesOf(s, <<>>) = <<>>
           /\ x.stream = s => BytesOf(s, <<x>>) = <<x>>
           /\ x.stream # s => BytesOf(s, <<x>>) = <<>>
<1>1. \A c : BytesOf(s, c) = FlattenSeq(Singles(s, c))
  BY DEF BytesOf, Singles
<1>2. Singles(s, <<>>) = <<>>
  BY DEF Singles
<1>3. x.stream = s => Singles(s, <<x>>) = << <<x>> >>
  BY DEF Singles
<1>4. x.stream # s => Singles(s, <<x>>) = << <<>> >>
  BY DEF Singles
<1>5. <<x>> \in Seq(AnyByte) /\ <<>> \in Seq(AnyByte) /\ <<>> \in Lots(AnyByte)
  BY DEF Lots
<1>6. FlattenSeq(<< <<x>> >>) = <<x>> /\ FlattenSeq(<< <<>> >>) = <<>>
      /\ FlattenSeq(<<>>) = <<>>
  BY <1>5, FlattenOne, FlattenAppend
<1>7. QED
  BY <1>1, <1>2, <1>3, <1>4, <1>6

\* All bytes of a sequence that is of one stream are of that stream.
LEMMA BytesOfOwn ==
    ASSUME NEW s, NEW b \in Seq(ByteOf(s))
    PROVE  /\ b \in Seq(AnyByte)
           /\ BytesOf(s, b) = b
           /\ \A t : t # s => BytesOf(t, b) = <<>>
<1> DEFINE B(n) == SubSeq(b, 1, n)
           T == {n \in Nat : n <= Len(b) =>
                    /\ BytesOf(s, B(n)) = B(n)
                    /\ \A t : t # s => BytesOf(t, B(n)) = <<>>}
<1>1. b \in Seq(AnyByte) /\ Len(b) \in Nat /\ \A i \in 1..Len(b) : b[i] \in ByteOf(s)
  BY DEF ByteOf
<1>2. 0 \in T
  <2>1. B(0) = <<>>
    BY SubSeqEmpty
  <2>2. \A t : BytesOf(t, <<>>) = <<>>
    BY DEF BytesOf, FlattenSeq
  <2>3. QED
    BY <2>1, <2>2
<1>3. ASSUME NEW n \in Nat, n \in T PROVE n + 1 \in T
  <2> SUFFICES ASSUME n + 1 <= Len(b)
               PROVE  /\ BytesOf(s, B(n + 1)) = B(n + 1)
                      /\ \A t : t # s => BytesOf(t, B(n + 1)) = <<>>
    OBVIOUS
  <2> DEFINE x == b[n + 1]
  <2>1. n <= Len(b) /\ x \in AnyByte /\ x.stream = s
    BY <1>1 DEF ByteOf
  <2>2. B(n) \in Seq(AnyByte) /\ B(n + 1) = B(n) \o <<x>>
    BY <1>1, <2>1
  <2>3. BytesOf(s, B(n)) = B(n) /\ \A t : t # s => BytesOf(t, B(n)) = <<>>
    BY <1>3, <2>1
  <2> HIDE DEF B, x
  <2>4. <<x>> \in Seq(AnyByte)
    BY <2>1
  <2>5. \A t : BytesOf(t, B(n) \o <<x>>) = BytesOf(t, B(n)) \o BytesOf(t, <<x>>)
    BY <2>2, <2>4, BytesOfConcat
  <2>6. BytesOf(s, <<x>>) = <<x>> /\ \A t : t # s => BytesOf(t, <<x>>) = <<>>
    BY <2>1, BytesOfOne
  <2>7. <<>> \o <<>> = <<>>
    OBVIOUS
  <2>8. QED
    BY <2>2, <2>3, <2>5, <2>6, <2>7
<1>4. Nat \subseteq T
  <2> HIDE DEF T
  <2>1. QED
    BY <1>2, <1>3, SetInduction
<1>5. B(Len(b)) = b
  BY SubSeqFull
<1> HIDE DEF B
<1>6. QED
  BY <1>1, <1>4, <1>5

\* The bytes of a stream in a sequence of two parts.
LEMMA BytesOfTwo ==
    ASSUME NEW s, NEW u \in Seq(AnyByte), NEW w \in Seq(AnyByte)
    PROVE  BytesOf(s, u \o w) = BytesOf(s, u) \o BytesOf(s, w)
           /\ BytesOf(s, u) \in Seq(AnyByte) /\ u \o w \in Seq(AnyByte)
BY BytesOfConcat, ConcatProperties

\* Are the bytes of a stream, in a sequence of three parts, those of the parts?
InParts(s, u, w, v) ==
    BytesOf(s, (u \o w) \o v) = (BytesOf(s, u) \o BytesOf(s, w)) \o BytesOf(s, v)

\* They are.
LEMMA BytesOfThree ==
    ASSUME NEW s, NEW u \in Seq(AnyByte), NEW w \in Seq(AnyByte), NEW v \in Seq(AnyByte)
    PROVE  InParts(s, u, w, v)
<1> DEFINE x == u \o w
<1>1. BytesOf(s, x) = BytesOf(s, u) \o BytesOf(s, w) /\ x \in Seq(AnyByte)
  BY BytesOfTwo
<1> HIDE DEF x
<1>2. BytesOf(s, x \o v) = BytesOf(s, x) \o BytesOf(s, v)
  BY <1>1, BytesOfTwo
<1>3. QED
  BY <1>1, <1>2 DEF x, InParts

\* Where there is no byte of a stream, all bytes are of others.
LEMMA NoBytesOf ==
    ASSUME NEW s, NEW b \in Seq(AnyByte), BytesOf(s, b) = <<>>
    PROVE  \A i \in 1..Len(b) : b[i].stream # s
<1> SUFFICES ASSUME NEW i \in 1..Len(b), b[i].stream = s PROVE FALSE
  OBVIOUS
<1> DEFINE x == b[i]
           u == SubSeq(b, 1, i - 1)
           v == SubSeq(b, i + 1, Len(b))
<1>1. u \in Seq(AnyByte) /\ v \in Seq(AnyByte) /\ x \in AnyByte
      /\ b = (u \o <<x>>) \o v
  <2>1. Len(b) \in Nat /\ i \in 0..Len(b)
    OBVIOUS
  <2>2. SubSeq(b, 1, i) \in Seq(AnyByte) /\ v \in Seq(AnyByte)
        /\ SubSeq(b, 1, i) \o v = b
    BY <2>1, TwoParts
  <2>3. u \in Seq(AnyByte) /\ x \in AnyByte /\ SubSeq(b, 1, i) = u \o <<x>>
    BY <2>1
  <2>4. QED
    BY <2>2, <2>3
<1> HIDE DEF x, u, v
<1>2. <<x>> \in Seq(AnyByte)
  BY <1>1
<1>3. /\ BytesOf(s, b) = (BytesOf(s, u) \o BytesOf(s, <<x>>)) \o BytesOf(s, v)
      /\ BytesOf(s, u) \in Seq(AnyByte) /\ BytesOf(s, v) \in Seq(AnyByte)
  <2> DEFINE w == <<x>>
  <2>1. w \in Seq(AnyByte) /\ u \in Seq(AnyByte) /\ v \in Seq(AnyByte)
    BY <1>1, <1>2
  <2> HIDE DEF w
  <2>2. InParts(s, u, w, v)
    BY Zenon, <2>1, BytesOfThree
  <2>3. BytesOf(s, u) \in Seq(AnyByte) /\ BytesOf(s, v) \in Seq(AnyByte)
    BY <2>1, BytesOfTwo
  <2>4. QED
    BY <1>1, <2>2, <2>3 DEF w, InParts
<1>4. BytesOf(s, <<x>>) = <<x>>
  BY <1>1, BytesOfOne DEF x
<1> DEFINE y == BytesOf(s, u)
           z == BytesOf(s, v)
<1> HIDE DEF y, z
<1>5. y \in Seq(AnyByte) /\ z \in Seq(AnyByte) /\ (y \o <<x>>) \o z = <<>>
  BY <1>3, <1>4 DEF y, z
<1>6. Len((y \o <<x>>) \o z) = Len(y) + 1 + Len(z)
  BY <1>2, <1>5
<1>7. QED
  BY <1>5, <1>6

-----------------------------------------------------------------------------
(* The lines of a stream, and where the first one ends.                    *)

\* The length of the i-th line of stream s.
LengthOf(s, i) == Output[parser][s][i].len

\* A line is bytes of its stream, of which the last is the newline.
LEMMA LineIs ==
    ASSUME parser \in Parsers, NEW s \in Streams, NEW i \in 1..Len(Output[parser][s])
    PROVE  /\ LengthOf(s, i) \in Nat \ {0}
           /\ Output[parser][s][i].kind \in Kinds
           /\ Line(s, i) \in Seq(ByteOf(s))
           /\ Len(Line(s, i)) = LengthOf(s, i)
           /\ \A j \in 1..LengthOf(s, i) : Line(s, i)[j] = Byte(s, i, j = LengthOf(s, i))
<1> DEFINE L == [len : Nat \ {0}, kind : Kinds]
           n == LengthOf(s, i)
<1>1. Output[parser][s] \in Seq(L)
  BY LogConstants DEF LogConstants
<1>2. Output[parser][s][i] \in L
  <2> HIDE DEF L
  <2>1. QED
    BY <1>1
<1>3. n \in Nat \ {0} /\ Output[parser][s][i].kind \in Kinds
  BY <1>2 DEF LengthOf
<1>4. Line(s, i) = [j \in 1..n |-> Byte(s, i, j = n)]
  BY DEF Line, LengthOf
<1>5. i \in Nat
  OBVIOUS
<1>6. \A j \in 1..n : Byte(s, i, j = n) \in ByteOf(s)
  BY <1>5 DEF Byte, ByteOf, AnyByte
<1> HIDE DEF n, L
<1>7. QED
  BY <1>3, <1>4, <1>6 DEF n

\* The lines of a stream are made of its bytes, and so is all it gives.
LEMMA LinesAre ==
    ASSUME parser \in Parsers, NEW s \in Streams
    PROVE  /\ Lines(s) \in Lots(ByteOf(s))
           /\ Len(Lines(s)) = Len(Output[parser][s]) /\ Len(Output[parser][s]) \in Nat
           /\ \A i \in 1..Len(Lines(s)) : Lines(s)[i] = Line(s, i)
           /\ Written(s) \in Seq(ByteOf(s))
<1> DEFINE N == Len(Output[parser][s])
<1>1. N \in Nat
  BY LogConstants DEF LogConstants
<1>2. \A i \in 1..N : Line(s, i) \in Seq(ByteOf(s))
  BY LineIs
<1>3. Lines(s) = [i \in 1..N |-> Line(s, i)]
  BY DEF Lines
<1> HIDE DEF N
<1>4. Lines(s) \in Lots(ByteOf(s)) /\ Len(Lines(s)) = N
      /\ \A i \in 1..Len(Lines(s)) : Lines(s)[i] = Line(s, i)
  BY <1>1, <1>2, <1>3 DEF Lots
<1>5. FlattenSeq(Lines(s)) \in Seq(ByteOf(s))
  <2>1. <<>> \in Seq(ByteOf(s))
    OBVIOUS
  <2>2. QED
    BY <1>4, <2>1, FlattenAppend
<1>6. QED
  BY <1>1, <1>4, <1>5 DEF Written, N

\* FirstLine is the place of the first newline, or 0.
LEMMA FirstLineIs ==
    ASSUME NEW b \in Seq(AnyByte)
    PROVE  /\ FirstLine(b) \in 0..Len(b)
           /\ FirstLine(b) = 0 <=> Newlines(b) = {}
           /\ FirstLine(b) # 0 => b[FirstLine(b)].newline
           /\ \A j \in 1..Len(b) : b[j].newline => FirstLine(b) \in 1..j
<1>1. Newlines(b) \in SUBSET Nat /\ Newlines(b) \in SUBSET (1..Len(b)) /\ Len(b) \in Nat
  BY DEF Newlines
<1>2. CASE Newlines(b) = {}
  <2>1. FirstLine(b) = 0
    BY <1>2 DEF FirstLine
  <2>2. QED
    BY <1>1, <1>2, <2>1 DEF Newlines
<1>3. CASE Newlines(b) # {}
  <2>1. FirstLine(b) = Min(Newlines(b))
    BY <1>3 DEF FirstLine
  <2>2. Min(Newlines(b)) \in Newlines(b) /\ \A j \in Newlines(b) : Min(Newlines(b)) <= j
    BY <1>1, <1>3, MinIsLeast
  <2>3. FirstLine(b) \in Newlines(b) /\ \A j \in Newlines(b) : FirstLine(b) <= j
    BY <2>1, <2>2
  <2>4. FirstLine(b) \in 1..Len(b) /\ b[FirstLine(b)].newline
    BY <2>3 DEF Newlines
  <2>5. \A j \in 1..Len(b) : b[j].newline => FirstLine(b) <= j
    BY <2>3 DEF Newlines
  <2>6. QED
    BY <1>1, <1>3, <2>4, <2>5
<1>4. QED
  BY <1>2, <1>3

-----------------------------------------------------------------------------
(* What the variables hold.                                                *)

\* Every byte is a byte, those of a stream in the pipe and with its reader are
\* of that stream, and a reader that is not in HandleData for the first time
\* holds none.
ParserInv ==
    /\ parser \in Parsers
    /\ buf \in Seq(AnyByte)
    /\ handled \in Lots(AnyByte)
    /\ left \in [Streams -> Seq(AnyByte)]
    /\ held \in [Streams -> Seq(AnyByte)]
    /\ reader \in [Streams -> {"read", "handle", "again", "ended"}]
    /\ \A s \in Streams :
          /\ left[s] \in Seq(ByteOf(s)) /\ held[s] \in Seq(ByteOf(s))
          /\ reader[s] # "handle" => held[s] = <<>>

\* Bytes of a stream are bytes.
LEMMA OwnBytes ==
    ASSUME NEW s, NEW b \in Seq(ByteOf(s))
    PROVE  b \in Seq(AnyByte)
BY DEF ByteOf

\* At first all bytes are in the pipes.
LEMMA ParserInit == Init => ParserInv
<1> SUFFICES ASSUME Init PROVE ParserInv
  OBVIOUS
<1>1. parser \in Parsers
  BY DEF Init
<1>2. \A s \in Streams : left[s] = Written(s) /\ held[s] = <<>> /\ reader[s] = "read"
  BY DEF Init
<1>3. \A s \in Streams : left[s] \in Seq(ByteOf(s))
  BY <1>1, <1>2, LinesAre
<1>4. \A s \in Streams : left[s] \in Seq(AnyByte)
  BY <1>3, OwnBytes
<1>5. left = [s \in Streams |-> left[s]] /\ held = [s \in Streams |-> <<>>]
      /\ reader = [s \in Streams |-> "read"] /\ buf = <<>> /\ handled = <<>>
  BY DEF Init
<1>6. <<>> \in Lots(AnyByte)
  BY DEF Lots
<1>7. left \in [Streams -> Seq(AnyByte)]
  BY <1>4, <1>5
<1>8. held \in [Streams -> Seq(AnyByte)] /\ \A s \in Streams : held[s] \in Seq(ByteOf(s))
  BY <1>5
<1>9. reader \in [Streams -> {"read", "handle", "again", "ended"}]
  BY <1>5
<1>10. buf \in Seq(AnyByte) /\ handled \in Lots(AnyByte)
  BY <1>5, <1>6
<1>11. QED
  BY <1>1, <1>2, <1>3, <1>7, <1>8, <1>9, <1>10 DEF ParserInv

\* Read takes the first bytes of the pipe.
LEMMA ReadTakes ==
    ASSUME ParserInv, NEW s \in Streams, Read(s)
    PROVE  /\ held' = [held EXCEPT ![s] = held'[s]]
           /\ left' = [left EXCEPT ![s] = left'[s]]
           /\ held'[s] \in Seq(ByteOf(s)) /\ left'[s] \in Seq(ByteOf(s))
           /\ held'[s] \o left'[s] = left[s]
           /\ Len(left'[s]) < Len(left[s])
           /\ held[s] = <<>>
<1>1. PICK n \in 1..Piece : /\ n <= Len(left[s])
                            /\ held' = [held EXCEPT ![s] = SubSeq(left[s], 1, n)]
                            /\ left' = [left EXCEPT ![s] =
                                           SubSeq(left[s], n + 1, Len(left[s]))]
  BY DEF Read
<1>2. left[s] \in Seq(ByteOf(s)) /\ n \in 0..Len(left[s]) /\ Piece \in Nat
  BY <1>1, LogConstants DEF ParserInv, LogConstants
<1>3. held'[s] = SubSeq(left[s], 1, n) /\ left'[s] = SubSeq(left[s], n + 1, Len(left[s]))
  BY <1>1 DEF ParserInv
<1>4. /\ held'[s] \in Seq(ByteOf(s)) /\ left'[s] \in Seq(ByteOf(s))
      /\ held'[s] \o left'[s] = left[s] /\ Len(left'[s]) = Len(left[s]) - n
  BY <1>2, <1>3, TwoParts
<1>5. Len(left'[s]) < Len(left[s])
  BY <1>2, <1>4
<1>6. held[s] = <<>>
  BY DEF ParserInv, Read
<1>7. QED
  BY <1>1, <1>3, <1>4, <1>5, <1>6

\* What HandleData works on: the buffer and the piece.
Together(s) == buf \o held[s]

\* HandleData moves the first line of them, if there is one, to the lines that
\* have been handled, and leaves the other bytes in the buffer.
LEMMA HandleDataMoves ==
    ASSUME ParserInv, NEW s \in Streams, HandleData(s)
    PROVE  LET b == Together(s)
               n == FirstLine(b)
           IN  /\ b \in Seq(AnyByte) /\ n \in 0..Len(b)
               /\ buf' = SubSeq(b, n + 1, Len(b)) /\ buf' \in Seq(AnyByte)
               /\ held' = [held EXCEPT ![s] = <<>>]
               /\ reader' = [reader EXCEPT ![s] = IF n = 0 THEN "read" ELSE "again"]
               /\ UNCHANGED <<parser, left, closed>>
               /\ \/ n = 0 /\ buf' = b /\ UNCHANGED <<handled, panicked>>
                  \/ /\ n # 0 /\ SubSeq(b, 1, n) \in Seq(AnyByte)
                     /\ handled' = Append(handled, SubSeq(b, 1, n))
                     /\ \E k \in KindsOf(SubSeq(b, 1, n)) : panicked' = Panics(parser, k)
<1> DEFINE b == Together(s)
           n == FirstLine(b)
<1>1. b \in Seq(AnyByte)
  <2>1. buf \in Seq(AnyByte) /\ held[s] \in Seq(AnyByte)
    BY DEF ParserInv
  <2>2. QED
    BY <2>1 DEF Together
<1>2. n \in 0..Len(b)
  BY <1>1, FirstLineIs
<1>3. Handle(b, n) /\ held' = [held EXCEPT ![s] = <<>>]
      /\ reader' = [reader EXCEPT ![s] = IF n = 0 THEN "read" ELSE "again"]
      /\ UNCHANGED <<parser, left, closed>>
  BY DEF HandleData, Together
<1> HIDE DEF b, n
<1>4. SubSeq(b, 1, n) \in Seq(AnyByte) /\ SubSeq(b, n + 1, Len(b)) \in Seq(AnyByte)
  BY <1>1, <1>2, TwoParts
<1>5. buf' = SubSeq(b, n + 1, Len(b))
  BY <1>3 DEF Handle
<1>6. CASE n = 0
  <2>1. SubSeq(b, 1, Len(b)) = b
    BY <1>1, SubSeqFull
  <2>2. buf' = b
    BY <1>5, <1>6, <2>1
  <2>3. UNCHANGED <<handled, panicked>>
    BY <1>3, <1>6 DEF Handle
  <2>4. QED
    BY <1>1, <1>2, <1>3, <1>4, <1>5, <1>6, <2>2, <2>3 DEF b, n
<1>7. CASE n # 0
  <2>1. /\ handled' = Append(handled, SubSeq(b, 1, n))
        /\ \E k \in KindsOf(SubSeq(b, 1, n)) : panicked' = Panics(parser, k)
    BY <1>3, <1>7 DEF Handle
  <2>2. QED
    BY <1>1, <1>2, <1>3, <1>4, <1>5, <1>7, <2>1 DEF b, n
<1>8. QED
  BY <1>6, <1>7

\* Every step keeps the types.
LEMMA ParserStep == ParserInv /\ [Next]_vars => ParserInv'
<1> SUFFICES ASSUME ParserInv, [Next]_vars PROVE ParserInv'
  OBVIOUS
<1>1. ASSUME NEW s \in Streams, Read(s) PROVE ParserInv'
  <2>1. /\ held' = [held EXCEPT ![s] = held'[s]]
        /\ left' = [left EXCEPT ![s] = left'[s]]
        /\ held'[s] \in Seq(ByteOf(s)) /\ left'[s] \in Seq(ByteOf(s))
    BY <1>1, ReadTakes
  <2>2. held'[s] \in Seq(AnyByte) /\ left'[s] \in Seq(AnyByte)
    BY <2>1, OwnBytes
  <2>3. reader' = [reader EXCEPT ![s] = "handle"] /\ UNCHANGED <<parser, buf, handled>>
    BY <1>1 DEF Read
  <2>4. held' \in [Streams -> Seq(AnyByte)] /\ left' \in [Streams -> Seq(AnyByte)]
        /\ reader' \in [Streams -> {"read", "handle", "again", "ended"}]
    BY <2>1, <2>2, <2>3 DEF ParserInv
  <2>5. ASSUME NEW t \in Streams
        PROVE  /\ left'[t] \in Seq(ByteOf(t)) /\ held'[t] \in Seq(ByteOf(t))
               /\ reader'[t] # "handle" => held'[t] = <<>>
    <3>1. CASE t = s
      BY <2>1, <2>3, <3>1 DEF ParserInv
    <3>2. CASE t # s
      <4>1. left'[t] = left[t] /\ held'[t] = held[t] /\ reader'[t] = reader[t]
        BY <2>1, <2>3, <3>2 DEF ParserInv
      <4>2. QED
        BY <4>1 DEF ParserInv
    <3>3. QED
      BY <3>1, <3>2
  <2>6. QED
    BY <2>3, <2>4, <2>5 DEF ParserInv
<1>2. ASSUME NEW s \in Streams, ReadEnds(s) PROVE ParserInv'
  <2>1. reader' = [reader EXCEPT ![s] = "ended"] /\ reader[s] = "read"
        /\ UNCHANGED <<parser, left, held, buf, handled>>
    BY <1>2 DEF ReadEnds
  <2>2. \A t \in Streams : reader'[t] # "handle" => reader[t] # "handle"
    BY <2>1 DEF ParserInv
  <2>3. reader' \in [Streams -> {"read", "handle", "again", "ended"}]
    BY <2>1 DEF ParserInv
  <2>4. QED
    BY <2>1, <2>2, <2>3 DEF ParserInv
<1>3. ASSUME NEW s \in Streams, HandleData(s) PROVE ParserInv'
  <2> DEFINE b == Together(s)
             n == FirstLine(b)
             line == SubSeq(b, 1, n)
  <2>1. /\ buf' \in Seq(AnyByte)
        /\ held' = [held EXCEPT ![s] = <<>>]
        /\ reader' = [reader EXCEPT ![s] = IF n = 0 THEN "read" ELSE "again"]
        /\ UNCHANGED <<parser, left>>
        /\ handled' = handled \/ (line \in Seq(AnyByte) /\ handled' = Append(handled, line))
    BY <1>3, HandleDataMoves
  <2> HIDE DEF n, line
  <2>2. handled' \in Lots(AnyByte)
    <3> DEFINE E == Seq(AnyByte)
    <3>1. Lots(AnyByte) = Seq(E) /\ handled \in Seq(E)
      BY DEF ParserInv, Lots
    <3>2. handled' = handled \/ (line \in E /\ handled' = Append(handled, line))
      BY <2>1
    <3> HIDE DEF E
    <3>3. QED
      BY <3>1, <3>2
  <2>3. ASSUME NEW t \in Streams
        PROVE  /\ held'[t] \in Seq(ByteOf(t)) /\ held'[t] \in Seq(AnyByte)
               /\ reader'[t] \in {"read", "handle", "again", "ended"}
               /\ reader'[t] # "handle" => held'[t] = <<>>
    <3>1. CASE t = s
      <4>1. held'[t] = <<>> /\ reader'[t] \in {"read", "again"}
        BY <2>1, <3>1 DEF ParserInv
      <4>2. QED
        BY <4>1
    <3>2. CASE t # s
      <4>1. held'[t] = held[t] /\ reader'[t] = reader[t]
        BY <2>1, <3>2 DEF ParserInv
      <4>2. QED
        BY <4>1 DEF ParserInv
    <3>3. QED
      BY <3>1, <3>2
  <2>4. held' = [t \in Streams |-> held'[t]] /\ reader' = [t \in Streams |-> reader'[t]]
    BY <2>1 DEF ParserInv
  <2>5. held' \in [Streams -> Seq(AnyByte)]
        /\ reader' \in [Streams -> {"read", "handle", "again", "ended"}]
    BY <2>3, <2>4
  <2>6. QED
    BY <2>1, <2>2, <2>3, <2>5 DEF ParserInv
<1>4. CASE WaitCloses \/ UNCHANGED vars
  BY <1>4 DEF WaitCloses, vars, ParserInv
<1>5. QED
  BY <1>1, <1>2, <1>3, <1>4 DEF Next

-----------------------------------------------------------------------------
(* No line waits.                                                          *)

\* When there is a line in the buffer, some reader is about to look for it.
WaitInv == Newlines(buf) = {} \/ \E s \in Streams : reader[s] = "again"

\* Every step keeps it: only HandleData changes the buffer, and it looks for a
\* line once more unless it has found none.
LEMMA WaitStep == ParserInv /\ WaitInv /\ [Next]_vars => WaitInv'
<1> SUFFICES ASSUME ParserInv, WaitInv, [Next]_vars PROVE WaitInv'
  OBVIOUS
<1>1. ASSUME NEW s \in Streams, Read(s) \/ ReadEnds(s) PROVE WaitInv'
  <2>1. buf' = buf /\ \E r : reader' = [reader EXCEPT ![s] = r] /\ reader[s] = "read"
    BY <1>1 DEF Read, ReadEnds
  <2>2. \A t \in Streams : reader[t] = "again" => reader'[t] = "again"
    BY <2>1 DEF ParserInv
  <2>3. QED
    BY <2>1, <2>2 DEF WaitInv, Newlines
<1>2. ASSUME NEW s \in Streams, HandleData(s) PROVE WaitInv'
  <2> DEFINE b == Together(s)
             n == FirstLine(b)
  <2>1. /\ b \in Seq(AnyByte)
        /\ reader' = [reader EXCEPT ![s] = IF n = 0 THEN "read" ELSE "again"]
        /\ n = 0 => buf' = b
    BY <1>2, HandleDataMoves
  <2>2. n = 0 => Newlines(b) = {}
    BY <2>1, FirstLineIs
  <2> HIDE DEF b, n
  <2>3. CASE n = 0
    BY <2>1, <2>2, <2>3 DEF WaitInv, Newlines
  <2>4. CASE n # 0
    <3>1. reader'[s] = "again"
      BY <2>1, <2>4 DEF ParserInv
    <3>2. QED
      BY <3>1 DEF WaitInv
  <2>5. QED
    BY <2>3, <2>4
<1>3. CASE WaitCloses \/ UNCHANGED vars
  BY <1>3 DEF WaitCloses, vars, WaitInv, Newlines
<1>4. QED
  BY <1>1, <1>2, <1>3 DEF Next

\* No complete line stays in the buffer when no call of HandleData is under way
\* (BaseLogParser.go:92-107), for any number of streams, lines and pieces of any
\* length, and whichever reader gets the lock in between.
THEOREM LinesDoNotWait == Spec => []NoLineWaits
<1>1. Init => ParserInv /\ WaitInv
  <2>1. Init => WaitInv
    BY DEF Init, WaitInv, Newlines
  <2>2. QED
    BY <2>1, ParserInit
<1>2. WaitInv => NoLineWaits
  BY DEF WaitInv, NoLineWaits, Idle
<1>3. QED
  BY <1>1, <1>2, ParserStep, WaitStep, PTL DEF Spec

-----------------------------------------------------------------------------
(* The order of the bytes.                                                 *)

\* All bytes that HandleData has got, in their order.
Past == FlattenSeq(handled) \o buf

\* They are bytes.
LEMMA PastIs ==
    ASSUME ParserInv
    PROVE  FlattenSeq(handled) \in Seq(AnyByte) /\ buf \in Seq(AnyByte)
           /\ Past \in Seq(AnyByte)
<1>1. handled \in Lots(AnyByte) /\ buf \in Seq(AnyByte) /\ <<>> \in Seq(AnyByte)
  BY DEF ParserInv
<1>2. FlattenSeq(handled) \in Seq(AnyByte)
  BY <1>1, FlattenAppend
<1>3. QED
  BY <1>1, <1>2, ConcatProperties DEF Past

\* HandleData puts the piece at their end, whether it finds a line or not.
LEMMA PastGrows ==
    ASSUME ParserInv, NEW s \in Streams, HandleData(s)
    PROVE  Past' = Past \o held[s]
<1> DEFINE F == FlattenSeq(handled)
           h == held[s]
           b == Together(s)
           n == FirstLine(b)
           line == SubSeq(b, 1, n)
           rest == SubSeq(b, n + 1, Len(b))
<1>1. F \in Seq(AnyByte) /\ buf \in Seq(AnyByte) /\ h \in Seq(AnyByte)
  BY PastIs DEF ParserInv
<1>2. b = buf \o h /\ Past = F \o buf
  BY DEF Together, Past
<1>3. /\ b \in Seq(AnyByte) /\ n \in 0..Len(b)
      /\ buf' = rest
      /\ \/ n = 0 /\ buf' = b /\ handled' = handled
         \/ n # 0 /\ line \in Seq(AnyByte) /\ handled' = Append(handled, line)
  BY HandleDataMoves
<1>4. line \in Seq(AnyByte) /\ rest \in Seq(AnyByte) /\ line \o rest = b
  BY <1>3, TwoParts
<1>5. FlattenSeq(Append(handled, line)) = F \o line
  <2>1. handled \in Lots(AnyByte)
    BY DEF ParserInv
  <2>2. QED
    BY <1>4, <2>1, FlattenAppend
<1>6. Past' = FlattenSeq(handled') \o buf'
  BY DEF Past
<1> HIDE DEF F, h, b, n, line, rest
<1>7. (F \o buf) \o h = F \o b
  <2>1. Associate(F, buf, h)
    BY Zenon, <1>1, Regroup
  <2>2. QED
    BY <1>2, <2>1 DEF Associate
<1>8. Past' = F \o b
  <2>1. CASE n = 0 /\ buf' = b /\ handled' = handled
    BY <1>6, <2>1 DEF F
  <2>2. CASE handled' = Append(handled, line)
    <3>1. Past' = (F \o line) \o rest
      BY <1>3, <1>5, <1>6, <2>2
    <3>2. Associate(F, line, rest)
      BY Zenon, <1>1, <1>4, Regroup
    <3>3. QED
      BY <1>4, <3>1, <3>2 DEF Associate
  <2>3. QED
    BY <1>3, <2>1, <2>2
<1>9. QED
  BY <1>2, <1>7, <1>8 DEF h

\* What has come of stream s, with what is still to come.
Whole(s) == (BytesOf(s, Past) \o held[s]) \o left[s]

\* OrderKept says that it is what was written.
LEMMA OrderIs == OrderKept <=> \A s \in Streams : Whole(s) = Written(s)
BY DEF OrderKept, Whole, Past

\* All was in the pipes at first.
LEMMA OrderInit == Init => OrderKept
<1> SUFFICES ASSUME Init, NEW s \in Streams PROVE Whole(s) = Written(s)
  BY OrderIs
<1>1. handled = <<>> /\ buf = <<>> /\ left[s] = Written(s) /\ held[s] = <<>>
  BY DEF Init
<1>2. Past = <<>>
  <2>1. FlattenSeq(<<>>) = <<>>
    BY DEF FlattenSeq
  <2>2. QED
    BY <1>1, <2>1 DEF Past
<1>3. BytesOf(s, <<>>) = <<>>
  BY DEF BytesOf, FlattenSeq
<1>4. left[s] \in Seq(ByteOf(s))
  BY ParserInit DEF ParserInv
<1>5. (<<>> \o <<>>) \o left[s] = left[s]
  BY <1>4, ConcatEmptySeq
<1>6. QED
  BY <1>1, <1>2, <1>3, <1>5 DEF Whole

\* Every step keeps the order.
LEMMA OrderStep == ParserInv /\ OrderKept /\ [Next]_vars => OrderKept'
<1> SUFFICES ASSUME ParserInv, \A s \in Streams : Whole(s) = Written(s), [Next]_vars,
                    NEW t \in Streams
             PROVE  Whole(t)' = Written(t)'
  BY OrderIs DEF OrderKept, Whole, Past
<1> DEFINE p == BytesOf(t, Past)
           h == held[t]
           l == left[t]
<1>1. parser' = parser
  BY DEF Next, WaitCloses, Read, ReadEnds, HandleData, vars
<1>2. Written(t)' = Written(t)
  BY <1>1 DEF Written, Lines, Line
<1>3. Past \in Seq(AnyByte) /\ p \in Seq(AnyByte)
  BY PastIs, BytesOfConcat
<1>4. Whole(t) = (p \o h) \o l
  BY DEF Whole
<1>5. h \in Seq(AnyByte) /\ l \in Seq(AnyByte)
  BY DEF ParserInv
<1>6. CASE UNCHANGED <<Past, held[t], left[t]>>
  <2>1. Whole(t)' = Whole(t)
    BY <1>6 DEF Whole
  <2>2. QED
    BY <1>2, <2>1
<1>7. ASSUME NEW s \in Streams, Read(s) PROVE Whole(t)' = Written(t)'
  <2>1. /\ held' = [held EXCEPT ![s] = held'[s]]
        /\ left' = [left EXCEPT ![s] = left'[s]]
        /\ held'[s] \in Seq(ByteOf(s)) /\ left'[s] \in Seq(ByteOf(s))
        /\ held'[s] \o left'[s] = left[s]
        /\ held[s] = <<>>
    BY <1>7, ReadTakes
  <2>2. Past' = Past
    BY <1>7 DEF Read, Past
  <2>3. CASE t # s
    <3>1. held'[t] = held[t] /\ left'[t] = left[t]
      BY <2>1, <2>3 DEF ParserInv
    <3>2. QED
      BY <1>6, <2>2, <3>1
  <2>4. CASE t = s
    <3> DEFINE h2 == held'[t]
               l2 == left'[t]
    <3>1. h2 \in Seq(AnyByte) /\ l2 \in Seq(AnyByte) /\ h2 \o l2 = l /\ h = <<>>
      BY <2>1, <2>4, OwnBytes
    <3>2. Whole(t)' = (p \o h2) \o l2
      BY <2>2 DEF Whole
    <3> HIDE DEF p, h, l, h2, l2
    <3>3. (p \o h2) \o l2 = p \o (h2 \o l2)
      <4>1. Associate(p, h2, l2)
        BY Zenon, <1>3, <3>1, Regroup
      <4>2. QED
        BY <4>1 DEF Associate
    <3>4. p \o <<>> = p
      BY <1>3, ConcatEmptySeq
    <3>5. Whole(t)' = Whole(t)
      BY <1>4, <3>1, <3>2, <3>3, <3>4
    <3>6. QED
      BY <1>2, <3>5
  <2>5. QED
    BY <2>3, <2>4
<1>8. ASSUME NEW s \in Streams, HandleData(s) PROVE Whole(t)' = Written(t)'
  <2>1. held' = [held EXCEPT ![s] = <<>>] /\ left' = left
    BY <1>8, HandleDataMoves
  <2>2. Past' = Past \o held[s]
    BY <1>8, PastGrows
  <2>3. held[s] \in Seq(ByteOf(s)) /\ held[s] \in Seq(AnyByte)
    BY DEF ParserInv
  <2>4. BytesOf(t, Past') = p \o BytesOf(t, held[s])
    BY <1>3, <2>2, <2>3, BytesOfConcat
  <2>5. CASE t = s
    <3>1. BytesOf(t, held[s]) = h /\ held'[t] = <<>> /\ left'[t] = l
      BY <2>1, <2>3, <2>5, BytesOfOwn DEF ParserInv
    <3>2. Whole(t)' = ((p \o h) \o <<>>) \o l
      BY <2>4, <3>1 DEF Whole
    <3> HIDE DEF p, h, l
    <3>3. p \o h \in Seq(AnyByte)
      BY <1>3, <1>5, ConcatProperties
    <3>4. (p \o h) \o <<>> = p \o h
      BY <3>3, ConcatEmptySeq
    <3>5. Whole(t)' = Whole(t)
      BY <1>4, <3>2, <3>4
    <3>6. QED
      BY <1>2, <3>5
  <2>6. CASE t # s
    <3>1. BytesOf(t, held[s]) = <<>> /\ held'[t] = h /\ left'[t] = l
      BY <2>1, <2>3, <2>6, BytesOfOwn DEF ParserInv
    <3>2. Whole(t)' = ((p \o <<>>) \o h) \o l
      BY <2>4, <3>1 DEF Whole
    <3> HIDE DEF p, h, l
    <3>3. p \o <<>> = p
      BY <1>3, ConcatEmptySeq
    <3>4. Whole(t)' = Whole(t)
      BY <1>4, <3>2, <3>3
    <3>5. QED
      BY <1>2, <3>4
  <2>7. QED
    BY <2>5, <2>6
<1>9. ASSUME NEW s \in Streams, ReadEnds(s) PROVE Whole(t)' = Written(t)'
  BY <1>6, <1>9 DEF ReadEnds, Past
<1>10. CASE WaitCloses \/ UNCHANGED vars
  BY <1>6, <1>10 DEF WaitCloses, vars, Past
<1>11. QED
  BY <1>7, <1>8, <1>9, <1>10 DEF Next

\* The bytes of every stream come out in the order in which they were written,
\* none of them twice or not at all (BaseLogParser.go:86-95), for any number of
\* streams and whatever the pieces and the order of the readers are.
THEOREM OrderIsKept == Spec => []OrderKept
  BY ParserInit, ParserStep, OrderInit, OrderStep, PTL DEF Spec

-----------------------------------------------------------------------------
(* The lines of a child that writes to one stream only.                    *)

\* Has the child written to no other stream than s?
Alone(s) == \A t \in Streams \ {s} : left[t] = Written(t)

\* The lines handled so far are then the first ones of s, and none but the last
\* of them has ended the daemon.
AloneInv(s) ==
    /\ Len(handled) <= Len(Lines(s))
    /\ \A i \in 1..Len(handled) :
          /\ handled[i] = Line(s, i)
          /\ Panics(parser, Output[parser][s][i].kind) => panicked /\ i = Len(handled)

IntactInv == \A s \in Streams : Alone(s) => AloneInv(s)

\* A sequence that agrees with another as far as it goes is its beginning.
LEMMA Beginning ==
    ASSUME NEW S, NEW u \in Seq(S), NEW v \in Seq(S), Len(u) <= Len(v),
           \A i \in 1..Len(u) : u[i] = v[i]
    PROVE  u = SubSeq(v, 1, Len(u)) /\ IsPrefix(u, v)
<1> DEFINE n == Len(u)
           w == SubSeq(v, 1, n)
<1>1. n \in 0..Len(v) /\ n \in Nat
  OBVIOUS
<1>2. w \in Seq(S) /\ Len(w) = n /\ \A i \in 1..n : w[i] = v[i]
  BY <1>1, TwoParts
<1>3. u = w
  <2>1. Len(u) = Len(w) /\ \A i \in 1..Len(u) : u[i] = w[i]
    BY <1>2
  <2> HIDE DEF w
  <2>2. QED
    BY <1>2, <2>1, SeqEqual
<1>4. SubSeq(u, 1, n) = u
  BY SubSeqFull
<1>5. QED
  BY <1>3, <1>4 DEF IsPrefix

\* Lines of bytes of one stream are lines of bytes.
LEMMA OwnLots ==
    ASSUME NEW s, NEW b \in Lots(ByteOf(s))
    PROVE  b \in Lots(AnyByte)
<1>1. \A x \in Seq(ByteOf(s)) : x \in Seq(AnyByte)
  BY OwnBytes
<1>2. b \in [1..Len(b) -> Seq(ByteOf(s))] /\ Len(b) \in Nat
  BY DEF Lots
<1> DEFINE E == Seq(AnyByte)
<1>3. b \in [1..Len(b) -> E]
  BY <1>1, <1>2
<1>4. b \in Seq(E)
  <2> HIDE DEF E
  <2>1. QED
    BY <1>2, <1>3
<1>5. QED
  BY <1>4 DEF Lots

\* When one stream only has been written to, all bytes that have come in are of
\* that stream, and the readers of the others hold none.
LEMMA AlonePast ==
    ASSUME ParserInv, OrderKept, NEW s \in Streams, Alone(s)
    PROVE  /\ \A t \in Streams \ {s} : held[t] = <<>>
           /\ (Past \o held[s]) \o left[s] = Written(s)
<1>1. Past \in Seq(AnyByte)
  BY PastIs
<1>2. ASSUME NEW t \in Streams \ {s}
      PROVE  held[t] = <<>> /\ BytesOf(t, Past) = <<>>
  <2> DEFINE p == BytesOf(t, Past)
             h == held[t]
             l == left[t]
  <2>1. p \in Seq(AnyByte) /\ h \in Seq(AnyByte) /\ l \in Seq(AnyByte)
    BY <1>1, BytesOfConcat DEF ParserInv
  <2>2. (p \o h) \o l = l
    BY OrderIs DEF Whole, Alone
  <2> HIDE DEF p, h, l
  <2>3. p \o h \in Seq(AnyByte)
    BY <2>1, ConcatProperties
  <2>4. p \o h = <<>>
    BY <2>1, <2>2, <2>3, ConcatEqualIffEmpty
  <2>5. p = <<>> /\ h = <<>>
    BY <2>1, <2>4, ConcatEqualIffEmpty
  <2>6. QED
    BY <2>5 DEF p, h
<1>3. Past \in Seq(ByteOf(s))
  <2>1. \A i \in 1..Len(Past) : Past[i] \in ByteOf(s)
    <3> SUFFICES ASSUME NEW i \in 1..Len(Past) PROVE Past[i] \in ByteOf(s)
      OBVIOUS
    <3>1. Past[i] \in AnyByte
      BY <1>1
    <3>2. \A t \in Streams \ {s} : Past[i].stream # t
      BY <1>1, <1>2, NoBytesOf
    <3>3. QED
      BY <3>1, <3>2 DEF ByteOf, AnyByte
  <2>2. Past \in [1..Len(Past) -> ByteOf(s)] /\ Len(Past) \in Nat
    BY <1>1, <2>1
  <2>3. QED
    BY <2>2
<1>4. BytesOf(s, Past) = Past
  BY <1>3, BytesOfOwn
<1>5. QED
  BY <1>2, <1>4, OrderIs DEF Whole

\* The first line of what is left to handle of the stream is its next line.
LEMMA NextLine ==
    ASSUME ParserInv, NEW s \in Streams, AloneInv(s),
           NEW b \in Seq(AnyByte), NEW rest \in Seq(AnyByte),
           (FlattenSeq(handled) \o b) \o rest = Written(s),
           FirstLine(b) # 0
    PROVE  LET k == Len(handled) + 1
           IN  k \in 1..Len(Lines(s)) /\ SubSeq(b, 1, FirstLine(b)) = Line(s, k)
<1> DEFINE F == FlattenSeq(handled)
           n == FirstLine(b)
           k == Len(handled)
           all == Lines(s)
           N == Len(all)
           first == SubSeq(all, 1, k)
           others == SubSeq(all, k + 1, N)
           G == FlattenSeq(others)
           w == b \o rest
<1>0. parser \in Parsers /\ handled \in Lots(AnyByte)
  BY DEF ParserInv
<1>1. /\ all \in Lots(AnyByte) /\ N \in Nat /\ N = Len(Output[parser][s])
      /\ \A i \in 1..N : all[i] = Line(s, i)
  BY <1>0, LinesAre, OwnLots
<1>2. k \in Nat /\ k <= N /\ \A i \in 1..k : handled[i] = all[i]
  <2>1. k \in Nat
    BY <1>0 DEF Lots
  <2>2. QED
    BY <1>1, <2>1 DEF AloneInv
<1>3. handled = first
  <2> DEFINE E == Seq(AnyByte)
  <2>1. handled \in Seq(E) /\ all \in Seq(E)
    BY <1>0, <1>1 DEF Lots
  <2> HIDE DEF E, all
  <2>2. QED
    BY <1>2, <2>1, Beginning
<1>4. /\ others \in Lots(AnyByte) /\ Len(others) = N - k
      /\ first \in Lots(AnyByte) /\ first \o others = all
  <2> DEFINE E == Seq(AnyByte)
  <2>1. all \in Seq(E) /\ k \in 0..Len(all) /\ Lots(AnyByte) = Seq(E)
    BY <1>1, <1>2 DEF Lots
  <2> HIDE DEF E, all
  <2>2. QED
    BY <2>1, TwoParts
<1>5. Written(s) = F \o G
  <2>1. FlattenSeq(all) = FlattenSeq(first) \o FlattenSeq(others)
    BY <1>4, FlattenConcat
  <2>2. QED
    BY <1>3, <2>1 DEF Written
<1>6. F \in Seq(AnyByte) /\ G \in Seq(AnyByte) /\ w \in Seq(AnyByte)
  <2>1. <<>> \in Seq(AnyByte)
    OBVIOUS
  <2>2. F \in Seq(AnyByte) /\ G \in Seq(AnyByte)
    BY <1>0, <1>4, <2>1, FlattenAppend
  <2>3. QED
    BY <2>2, ConcatProperties
<1>7. w = G
  <2> HIDE DEF F, G
  <2>1. (F \o b) \o rest = F \o w
    <3>1. b \in Seq(AnyByte) /\ rest \in Seq(AnyByte)
      OBVIOUS
    <3>2. Associate(F, b, rest)
      BY Zenon, <1>6, <3>1, Regroup
    <3>3. QED
      BY <3>2 DEF Associate
  <2>2. F \o w = F \o G
    BY <1>5, <2>1 DEF F
  <2> HIDE DEF w
  <2>3. QED
    BY <1>6, <2>2, ConcatSimplifications
<1>8. n \in 1..Len(b) /\ b[n].newline /\ \A j \in 1..Len(b) : b[j].newline => n <= j
  <2>1. n \in 0..Len(b) /\ n # 0 /\ b[n].newline
        /\ \A j \in 1..Len(b) : b[j].newline => n \in 1..j
    BY FirstLineIs
  <2>2. Len(b) \in Nat
    OBVIOUS
  <2> HIDE DEF n
  <2>3. QED
    BY <2>1, <2>2
<1>9. Len(w) = Len(b) + Len(rest) /\ Len(b) \in Nat /\ Len(rest) \in Nat
      /\ \A j \in 1..Len(b) : w[j] = b[j]
  BY ConcatProperties
<1>10. k + 1 \in 1..N
  <2>1. ASSUME k = N PROVE FALSE
    <3>1. others = <<>>
      BY <1>1, <2>1, SubSeqEmpty
    <3>2. G = <<>>
      BY <3>1 DEF FlattenSeq
    <3>3. Len(w) = 0
      BY <1>7, <3>2
    <3>4. QED
      BY <1>8, <1>9, <3>3
  <2>2. QED
    BY <1>1, <1>2, <2>1
<1> DEFINE line == Line(s, k + 1)
           L == Len(line)
<1>11. /\ line \in Seq(AnyByte) /\ L \in Nat \ {0}
       /\ \A j \in 1..L : line[j].newline <=> j = L
  <2>1. k + 1 \in 1..Len(Output[parser][s])
    BY <1>1, <1>10
  <2>2. ASSUME NEW i \in 1..Len(Output[parser][s])
        PROVE  /\ Line(s, i) \in Seq(AnyByte) /\ Len(Line(s, i)) \in Nat \ {0}
               /\ \A j \in 1..Len(Line(s, i)) :
                     Line(s, i)[j].newline <=> j = Len(Line(s, i))
    <3>1. /\ LengthOf(s, i) \in Nat \ {0}
          /\ Line(s, i) \in Seq(ByteOf(s)) /\ Len(Line(s, i)) = LengthOf(s, i)
          /\ \A j \in 1..LengthOf(s, i) :
                Line(s, i)[j] = Byte(s, i, j = LengthOf(s, i))
      BY <1>0, LineIs
    <3>2. Line(s, i) \in Seq(AnyByte)
      BY <3>1, OwnBytes
    <3>3. ASSUME NEW j \in 1..LengthOf(s, i)
          PROVE  Line(s, i)[j].newline = (j = LengthOf(s, i))
      <4>1. Line(s, i)[j] = Byte(s, i, j = LengthOf(s, i))
        BY <3>1
      <4>2. Byte(s, i, j = LengthOf(s, i)).newline = (j = LengthOf(s, i))
        BY Zenon DEF Byte
      <4>3. QED
        BY Zenon, <4>1, <4>2
    <3>4. QED
      BY Zenon, <3>1, <3>2, <3>3
  <2>3. QED
    BY Zenon, <2>1, <2>2
<1>12. \E R \in Seq(AnyByte) : G = line \o R
  <2> DEFINE one == SubSeq(all, k + 1, k + 1)
             more == SubSeq(all, k + 2, N)
             E == Seq(AnyByte)
  <2>1. all \in Seq(E) /\ Lots(AnyByte) = Seq(E) /\ N = Len(all)
    BY <1>1 DEF Lots
  <2>2. one = <<line>>
    <3>1. all[k + 1] = line
      BY <1>1, <1>10
    <3> HIDE DEF all, line, E
    <3>2. one = <<all[k + 1]>>
      <4>1. k + 1 \in 1..Len(all) /\ k + 1 \in Nat
        BY <1>2, <1>10, <2>1
      <4> HIDE DEF k
      <4>2. Len(one) = 1 /\ one \in Seq(E)
        BY <2>1, <4>1, SubSeqProperties
      <4>3. one[1] = all[k + 1]
        BY <2>1, <4>1, SubSeqProperties
      <4> HIDE DEF one
      <4>4. Len(<<all[k + 1]>>) = 1 /\ <<all[k + 1]>>[1] = all[k + 1]
        OBVIOUS
      <4>5. all[k + 1] \in E
        BY <2>1, <4>1
      <4>6. <<all[k + 1]>> \in Seq(E)
        BY <4>5
      <4>7. QED
        BY <4>2, <4>3, <4>4, <4>6, SeqEqual
    <3>3. QED
      BY <3>1, <3>2
  <2> HIDE DEF all, E, N
  <2>3. one \o more = others
    <3>1. k + 1 \in 1..Len(all)+1 /\ k + 1 \in (k + 1)-1..Len(all)
          /\ Len(all) \in k+1..Len(all) /\ (k + 1) + 1 = k + 2
      BY <1>1, <1>2, <1>10, <2>1
    <3>2. QED
      BY <2>1, <3>1, ConcatAdjacentSubSeq
  <2>4. more \in Seq(E)
    <3>1. k + 1 \in 0..Len(all) /\ (k + 1) + 1 = k + 2
      BY <1>1, <1>2, <1>10, <2>1
    <3>2. SubSeq(all, (k + 1) + 1, Len(all)) \in Seq(E)
      BY <2>1, <3>1, TwoParts
    <3>3. QED
      BY <2>1, <3>1, <3>2
  <2>5. one \in Lots(AnyByte) /\ more \in Lots(AnyByte)
    <3>1. line \in E
      BY <1>11 DEF E
    <3> HIDE DEF line, one
    <3>2. one \in Seq(E)
      BY <2>2, <3>1
    <3>3. QED
      BY <2>1, <2>4, <3>2
  <2> HIDE DEF one, more
  <2>6. FlattenSeq(one \o more) = FlattenSeq(one) \o FlattenSeq(more)
    BY <2>5, FlattenConcat
  <2>7. FlattenSeq(one) = line
    BY <1>11, <2>2, FlattenOne
  <2>8. FlattenSeq(more) \in Seq(AnyByte)
    <3>1. <<>> \in Seq(AnyByte)
      OBVIOUS
    <3>2. QED
      BY <2>5, <3>1, FlattenAppend
  <2>9. QED
    BY <2>3, <2>6, <2>7, <2>8
<1>13. PICK R \in Seq(AnyByte) : G = line \o R
  BY <1>12
<1>14. L <= Len(w) /\ \A j \in 1..L : w[j] = line[j]
  <2> HIDE DEF line, G, w
  <2>1. Len(line \o R) = Len(line) + Len(R) /\ Len(R) \in Nat
        /\ \A j \in 1..Len(line) : (line \o R)[j] = line[j]
    BY <1>11, ConcatProperties
  <2>2. w = line \o R
    BY <1>7, <1>13
  <2>3. QED
    BY <1>11, <2>1, <2>2
<1> HIDE DEF line, G, w, n
<1>15. n = L
  <2>1. ~(n < L)
    <3> SUFFICES ASSUME n < L PROVE FALSE
      OBVIOUS
    <3>1. n \in 1..L /\ n # L /\ n \in 1..Len(b)
      BY <1>8, <1>9, <1>11
    <3>2. ~line[n].newline
      BY <1>11, <3>1
    <3>3. b[n] = line[n]
      BY <1>9, <1>14, <3>1
    <3>4. QED
      BY <1>8, <3>2, <3>3
  <2>2. L \in 1..Len(b)
    BY <1>8, <1>9, <1>11, <2>1
  <2>3. b[L] = line[L] /\ line[L].newline
    BY <1>9, <1>11, <1>14, <2>2
  <2>4. n <= L
    BY <1>8, <2>2, <2>3
  <2>5. QED
    BY <1>8, <1>9, <1>11, <2>1, <2>4
<1>16. SubSeq(b, 1, n) = line
  <2>1. L \in 0..Len(b) /\ \A j \in 1..L : b[j] = line[j]
    <3>1. L \in 1..Len(b)
      BY <1>8, <1>15
    <3>2. QED
      BY <1>9, <1>11, <1>14, <3>1
  <2>2. line = SubSeq(b, 1, Len(line))
    BY <1>11, <2>1, Beginning
  <2>3. QED
    BY <1>15, <2>2
<1>17. QED
  BY <1>10, <1>16 DEF line, n

\* A line that is as it was written is of its own kind: its bytes tell which
\* line it is.
LEMMA KindOfLine ==
    ASSUME parser \in Parsers, NEW s \in Streams, NEW i \in 1..Len(Output[parser][s])
    PROVE  KindsOf(Line(s, i)) = {Output[parser][s][i].kind}
<1> DEFINE o(t) == Output[parser][t]
           whole == {k \in Kinds : \E t \in Streams : \E j \in 1..Len(o(t)) :
                        Line(s, i) = Line(t, j) /\ k = o(t)[j].kind}
<1>1. ASSUME NEW t \in Streams, NEW j \in 1..Len(o(t)), Line(s, i) = Line(t, j)
      PROVE  t = s /\ j = i
  <2>1. Len(Line(s, i)) \in Nat \ {0} /\ Line(s, i)[1].stream = s /\ Line(s, i)[1].line = i
    <3>1. /\ LengthOf(s, i) \in Nat \ {0} /\ Len(Line(s, i)) = LengthOf(s, i)
          /\ \A n \in 1..LengthOf(s, i) : Line(s, i)[n] = Byte(s, i, n = LengthOf(s, i))
      BY LineIs
    <3>2. Line(s, i)[1] = Byte(s, i, 1 = LengthOf(s, i))
      BY <3>1
    <3>3. QED
      BY <3>1, <3>2 DEF Byte
  <2>2. Line(t, j)[1].stream = t /\ Line(t, j)[1].line = j
    <3>1. /\ LengthOf(t, j) \in Nat \ {0}
          /\ \A n \in 1..LengthOf(t, j) : Line(t, j)[n] = Byte(t, j, n = LengthOf(t, j))
      BY LineIs
    <3>2. Line(t, j)[1] = Byte(t, j, 1 = LengthOf(t, j))
      BY <3>1
    <3>3. QED
      BY <3>2 DEF Byte
  <2>3. QED
    BY Zenon, <1>1, <2>1, <2>2
<1>2. Output[parser][s][i].kind \in Kinds
  BY LineIs
<1>3. whole = {Output[parser][s][i].kind}
  <2>1. ASSUME NEW k \in whole PROVE k = Output[parser][s][i].kind
    BY <1>1
  <2>2. Output[parser][s][i].kind \in whole
    BY <1>2
  <2> HIDE DEF whole
  <2>3. QED
    BY <2>1, <2>2
<1>4. KindsOf(Line(s, i)) = IF whole = {} THEN Kinds ELSE whole
  BY DEF KindsOf
<1> HIDE DEF whole
<1>5. QED
  BY <1>3, <1>4

\* A line that is neither one of the dropped messages nor the end of the daemon
\* leaves an entry of its own.
LEMMA LineIsLogged ==
    ASSUME NEW p, NEW k \in Kinds, k # "noise", ~Panics(p, k)
    PROVE  \E n \in DOMAIN HandleLine(p, k) : ~HandleLine(p, k)[n].own
<1> DEFINE rec == <<[level |-> "warning", own |-> TRUE], Entry("warning")>>
<1>1. ASSUME NEW level PROVE \E n \in DOMAIN <<Entry(level)>> : ~<<Entry(level)>>[n].own
  <2>1. 1 \in DOMAIN <<Entry(level)>> /\ ~<<Entry(level)>>[1].own
    BY DEF Entry
  <2>2. QED
    BY <2>1
<1>2. \E n \in DOMAIN rec : ~rec[n].own
  <2>1. 2 \in DOMAIN rec /\ ~rec[2].own
    BY DEF Entry
  <2>2. QED
    BY <2>1
<1> HIDE DEF rec
<1>3. \/ \E level : HandleLine(p, k) = <<Entry(level)>>
      \/ HandleLine(p, k) = rec
  <2>1. ~(k = "noise" /\ p = "etcd") /\ ~(k = "indented" /\ p = "kube")
    BY DEF Panics
  <2> DEFINE known == k \in DOMAIN LevelOf[p]
             lev == LevelOf[p][k]
  <2>2. HandleLine(p, k) =
          CASE k = "restful" /\ p = "kube"   -> <<Entry("info")>>
            [] k = "restful" /\ p = "etcd"   -> <<Entry("warning")>>
            [] k = "plain"                   -> <<Entry("warning")>>
            [] k = "noise" /\ p = "etcd"     -> <<>>
            [] k = "indented" /\ p = "kube"  -> <<>>
            [] known                         -> <<Entry(lev)>>
            [] OTHER -> rec
    BY DEF HandleLine, rec
  <2> HIDE DEF known, lev
  <2>3. QED
    BY <2>1, <2>2
<1>4. QED
  BY <1>1, <1>2, <1>3

\* What HandleData works on follows what has been handled, whichever reader has
\* called it.
LEMMA NextBytes ==
    ASSUME ParserInv, OrderKept, NEW s \in Streams, Alone(s), NEW t \in Streams
    PROVE  \E rest \in Seq(AnyByte) :
              (FlattenSeq(handled) \o Together(t)) \o rest = Written(s)
<1> DEFINE F == FlattenSeq(handled)
           h == held[s]
           l == left[s]
<1>1. F \in Seq(AnyByte) /\ buf \in Seq(AnyByte) /\ h \in Seq(AnyByte) /\ l \in Seq(AnyByte)
  BY PastIs DEF ParserInv
<1>2. ((F \o buf) \o h) \o l = Written(s) /\ (t # s => held[t] = <<>>)
  BY AlonePast DEF Past
<1>3. Together(t) = buf \o held[t]
  BY DEF Together
<1>4. CASE t = s
  <2>1. Together(t) = buf \o h
    BY <1>3, <1>4
  <2> HIDE DEF F, h, l
  <2>2. Associate(F, buf, h)
    BY Zenon, <1>1, Regroup
  <2>3. (F \o Together(t)) \o l = Written(s)
    BY <1>2, <2>1, <2>2 DEF Associate
  <2>4. QED
    BY <1>1, <2>3 DEF F
<1>5. CASE t # s
  <2>1. Together(t) = buf \o <<>>
    BY <1>2, <1>3, <1>5
  <2> HIDE DEF F, h, l
  <2>2. Together(t) = buf
    BY <1>1, <2>1, ConcatEmptySeq
  <2>3. F \o buf \in Seq(AnyByte) /\ h \o l \in Seq(AnyByte)
    BY <1>1, ConcatProperties
  <2>4. ((F \o buf) \o h) \o l = (F \o buf) \o (h \o l)
    <3> DEFINE x == F \o buf
    <3>1. x \in Seq(AnyByte) /\ h \in Seq(AnyByte) /\ l \in Seq(AnyByte)
      BY <1>1, <2>3
    <3> HIDE DEF x
    <3>2. Associate(x, h, l)
      BY Zenon, <3>1, Regroup
    <3>3. QED
      BY <3>2 DEF x, Associate
  <2>5. (F \o Together(t)) \o (h \o l) = Written(s)
    BY <1>2, <2>2, <2>4
  <2>6. QED
    BY <2>3, <2>5 DEF F
<1>6. QED
  BY <1>4, <1>5

\* The lines do not change.
LEMMA SameLines ==
    ASSUME parser' = parser
    PROVE  \A s \in Streams : /\ Written(s)' = Written(s) /\ Lines(s)' = Lines(s)
                              /\ \A i : Line(s, i)' = Line(s, i)
BY DEF Written, Lines, Line

\* As long as what has been handled, and whether the daemon has ended, does not
\* change, neither do the lines.
LEMMA AloneSame ==
    ASSUME NEW s \in Streams, AloneInv(s), UNCHANGED <<parser, handled, panicked>>
    PROVE  AloneInv(s)'
BY SameLines DEF AloneInv

\* A stream that is read gives something.
LEMMA ReadGives ==
    ASSUME ParserInv, OrderKept, NEW t \in Streams, Read(t)
    PROVE  left'[t] # Written(t)
<1> DEFINE p == BytesOf(t, Past)
           h == held[t]
           l == left[t]
<1>1. p \in Seq(AnyByte) /\ h \in Seq(AnyByte) /\ l \in Seq(AnyByte)
  BY PastIs, BytesOfConcat DEF ParserInv
<1>2. (p \o h) \o l = Written(t)
  BY OrderIs DEF Whole
<1>3. Len(left'[t]) < Len(l) /\ left'[t] \in Seq(ByteOf(t))
  BY ReadTakes
<1> HIDE DEF p, h, l
<1>4. Len(p \o h) \in Nat /\ p \o h \in Seq(AnyByte)
  BY <1>1, ConcatProperties
<1>5. Len((p \o h) \o l) = Len(p \o h) + Len(l)
  BY <1>1, <1>4, ConcatProperties
<1>6. Len(l) \in Nat /\ Len(left'[t]) \in Nat
  BY <1>1, <1>3
<1>7. QED
  BY <1>2, <1>3, <1>4, <1>5, <1>6

\* Every step keeps the lines of a child that writes to one stream.
LEMMA IntactStep == ParserInv /\ OrderKept /\ IntactInv /\ [Next]_vars => IntactInv'
<1> SUFFICES ASSUME ParserInv, OrderKept, IntactInv, [Next]_vars,
                    NEW s \in Streams, Alone(s)'
             PROVE  AloneInv(s)'
  BY DEF IntactInv
<1>1. parser' = parser
  BY DEF Next, WaitCloses, Read, ReadEnds, HandleData, vars
<1>2. CASE left' = left
  <2>1. Alone(s)
    BY <1>1, <1>2, SameLines DEF Alone
  <2>2. AloneInv(s)
    BY <2>1 DEF IntactInv
  <2>3. CASE UNCHANGED <<handled, panicked>>
    BY <1>1, <2>2, <2>3, AloneSame
  <2>4. ASSUME NEW t \in Streams, HandleData(t), ~panicked PROVE AloneInv(s)'
    <3> DEFINE b == Together(t)
               n == FirstLine(b)
               line == SubSeq(b, 1, n)
               k == Len(handled) + 1
               N == Len(Lines(s))
               kind == Output[parser][s][k].kind
    <3>1. /\ b \in Seq(AnyByte)
          /\ \/ UNCHANGED <<handled, panicked>>
             \/ /\ n # 0 /\ line \in Seq(AnyByte)
                /\ handled' = Append(handled, line)
                /\ \E d \in KindsOf(line) : panicked' = Panics(parser, d)
      BY <2>4, HandleDataMoves
    <3>2. CASE UNCHANGED <<handled, panicked>>
      BY <1>1, <2>2, <3>2, AloneSame
    <3>3. CASE n # 0 /\ handled' = Append(handled, line) /\ line \in Seq(AnyByte)
               /\ \E d \in KindsOf(line) : panicked' = Panics(parser, d)
      <4>1. PICK rest \in Seq(AnyByte) : (FlattenSeq(handled) \o b) \o rest = Written(s)
        BY <2>1, NextBytes
      <4>2. k \in 1..N /\ line = Line(s, k)
        BY <2>2, <3>1, <3>3, <4>1, NextLine
      <4>3. N = Len(Output[parser][s]) /\ parser \in Parsers /\ N \in Nat
        BY LinesAre DEF ParserInv
      <4>4. panicked' = Panics(parser, kind)
        <5>1. k \in 1..Len(Output[parser][s]) /\ parser \in Parsers
          BY <4>2, <4>3
        <5> HIDE DEF k, line
        <5>2. KindsOf(Line(s, k)) = {Output[parser][s][k].kind}
          BY <5>1, KindOfLine
        <5>3. QED
          BY <3>3, <4>2, <5>2 DEF k, line
      <4>5. Len(handled') = k /\ handled'[k] = line /\ Len(handled) \in Nat
            /\ \A i \in 1..Len(handled) : handled'[i] = handled[i]
        <5> DEFINE E == Seq(AnyByte)
        <5>1. handled \in Seq(E) /\ line \in E
          BY <3>3 DEF ParserInv, Lots
        <5> HIDE DEF E, line
        <5>2. QED
          BY <3>3, <5>1 DEF line
      <4> HIDE DEF b, n, line
      <4>6. ASSUME NEW i \in 1..k
            PROVE  /\ handled'[i] = Line(s, i)
                   /\ Panics(parser, Output[parser][s][i].kind) => panicked' /\ i = k
        <5>1. CASE i = k
          <6>1. handled'[i] = Line(s, i)
            BY <4>2, <4>5, <5>1
          <6>2. Panics(parser, Output[parser][s][i].kind) => panicked'
            BY Zenon, <4>4, <5>1
          <6>3. QED
            BY <5>1, <6>1, <6>2
        <5>2. CASE i # k
          <6>1. i \in 1..Len(handled)
            BY <4>5, <5>2
          <6>2. handled'[i] = handled[i] /\ handled[i] = Line(s, i)
                /\ ~Panics(parser, Output[parser][s][i].kind)
            BY <2>2, <2>4, <4>5, <6>1 DEF AloneInv
          <6>3. QED
            BY <6>2
        <5>3. QED
          BY <5>1, <5>2
      <4>7. Lines(s)' = Lines(s) /\ \A i : Line(s, i)' = Line(s, i)
        BY <1>1, SameLines
      <4> HIDE DEF k
      <4>8. k <= N
        BY <4>2, <4>3
      <4>9. QED
        BY <1>1, <4>5, <4>6, <4>7, <4>8 DEF AloneInv
    <3>4. QED
      BY <3>1, <3>2, <3>3
  <2>5. QED
    BY <2>3, <2>4 DEF Next, WaitCloses, Read, ReadEnds, vars
<1>3. ASSUME NEW t \in Streams, Read(t) PROVE AloneInv(s)'
  <2>1. t = s
    <3> SUFFICES ASSUME t # s PROVE FALSE
      OBVIOUS
    <3>1. left'[t] = Written(t)
      BY <1>1, SameLines DEF Alone
    <3>2. QED
      BY <1>3, <3>1, ReadGives
  <2>2. \A r \in Streams \ {s} : left'[r] = left[r]
    <3>1. left' = [left EXCEPT ![s] = left'[s]]
      BY <1>3, <2>1, ReadTakes
    <3>2. QED
      BY <3>1 DEF ParserInv
  <2>3. Alone(s)
    BY <1>1, <2>2, SameLines DEF Alone
  <2>4. UNCHANGED <<handled, panicked>>
    BY <1>3 DEF Read
  <2>5. QED
    BY <1>1, <2>3, <2>4, AloneSame DEF IntactInv
<1>4. QED
  BY <1>2, <1>3 DEF Next, WaitCloses, ReadEnds, HandleData, vars

\* Nothing has been handled at first.
LEMMA IntactInit == Init => IntactInv
<1> SUFFICES ASSUME Init, NEW s \in Streams PROVE AloneInv(s)
  BY DEF IntactInv
<1>1. Len(Lines(s)) \in Nat /\ handled = <<>>
  BY LinesAre DEF Init
<1>2. QED
  BY <1>1 DEF AloneInv

\* The lines that have been handled, and the entries they have left in the log.
LEMMA IntactImplies == ParserInv /\ IntactInv => LinesIntact
<1> SUFFICES ASSUME ParserInv, IntactInv, NEW s \in Streams, Alone(s)
             PROVE  /\ IsPrefix(handled, Lines(s))
                    /\ \A i \in DOMAIN handled :
                          LET k == Output[parser][s][i].kind
                          IN \/ \E n \in DOMAIN HandleLine(parser, k) :
                                    ~HandleLine(parser, k)[n].own
                             \/ k = "noise"
                             \/ panicked /\ i = Len(handled)
  BY DEF LinesIntact, Alone
<1> DEFINE all == Lines(s)
<1>1. AloneInv(s) /\ parser \in Parsers /\ handled \in Lots(AnyByte)
  BY DEF IntactInv, ParserInv
<1>2. /\ all \in Lots(AnyByte) /\ Len(all) = Len(Output[parser][s]) /\ Len(all) \in Nat
      /\ \A i \in 1..Len(all) : all[i] = Line(s, i)
  BY <1>1, LinesAre, OwnLots
<1>3. Len(handled) \in Nat /\ DOMAIN handled = 1..Len(handled)
  BY <1>1 DEF Lots
<1>4. Len(handled) <= Len(all) /\ \A i \in 1..Len(handled) : handled[i] = all[i]
  <2>1. Len(handled) <= Len(all) /\ \A i \in 1..Len(handled) : handled[i] = Line(s, i)
    BY <1>1 DEF AloneInv
  <2> HIDE DEF all
  <2>2. QED
    BY <1>2, <1>3, <2>1
<1>5. IsPrefix(handled, all)
  <2> DEFINE E == Seq(AnyByte)
  <2>1. handled \in Seq(E) /\ all \in Seq(E)
    BY <1>1, <1>2 DEF Lots
  <2> HIDE DEF E, all
  <2>2. QED
    BY <1>4, <2>1, Beginning
<1>6. ASSUME NEW i \in DOMAIN handled
      PROVE  LET k == Output[parser][s][i].kind
             IN \/ \E n \in DOMAIN HandleLine(parser, k) :
                       ~HandleLine(parser, k)[n].own
                \/ k = "noise"
                \/ panicked /\ i = Len(handled)
  <2> DEFINE k == Output[parser][s][i].kind
  <2>1. i \in 1..Len(handled) /\ i \in 1..Len(Output[parser][s])
    BY <1>2, <1>3, <1>4
  <2>2. k \in Kinds
    BY <1>1, <2>1, LineIs
  <2>3. Panics(parser, k) => panicked /\ i = Len(handled)
    BY <1>1, <2>1 DEF AloneInv
  <2> HIDE DEF k
  <2>4. QED
    BY <2>2, <2>3, LineIsLogged DEF k
<1>7. QED
  BY <1>5, <1>6

\* As long as a child has written to one of its streams only, its lines are
\* handled whole, in their order and one at a time, however they were cut into
\* pieces (BaseLogParser.go:59), and each leaves an entry of its own in the log,
\* but for the dropped messages and the line that ends the daemon.
THEOREM LinesStayIntact == Spec => []LinesIntact
<1>1. Init => ParserInv /\ OrderKept /\ IntactInv
  BY ParserInit, OrderInit, IntactInit
<1>2. QED
  BY <1>1, ParserStep, OrderStep, IntactStep, IntactImplies, PTL DEF Spec

=============================================================================
