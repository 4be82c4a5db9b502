---------------------------- MODULE SequenceLemmas ----------------------------
(***************************************************************************)
(* What FlattenSeq computes, as lemmas for the proofs about the scripts    *)
(* and the ready queues.  The induction is one on a set of indices.        *)
(***************************************************************************)
EXTENDS Integers, SequencesExt, WellFoundedInduction, NaturalsInduction, TLAPS

-----------------------------------------------------------------------------
\* Sequences of sequences.

\* Induction up to n, on a set.
LEMMA UpTo ==
  ASSUME NEW n \in Nat, NEW S, 0 \in S, \A i \in 1 .. n : i - 1 \in S => i \in S
  PROVE  0 .. n \subseteq S
<1> DEFINE R == OpToRel(<, Nat)
           B == {i \in 0 .. n : i \notin S}
<1>1. \A ss : ss \in R <=> ss \in Nat \X Nat /\ ss[1] < ss[2]
  BY DEF OpToRel
<1>2. IsWellFoundedOn(R, Nat)
  BY NatLessThanWellFounded
<1> HIDE DEF R
<1>3. SUFFICES ASSUME B # {}
               PROVE  FALSE
  OBVIOUS
<1>4. B \in SUBSET Nat
  OBVIOUS
<1>5. PICK x \in B : \A y \in B : ~(<<y, x>> \in R)
  BY <1>2, <1>3, <1>4, WFMin
<1>6. x \in 1 .. n /\ x - 1 \in 0 .. n /\ x - 1 \in Nat /\ x \in Nat
  OBVIOUS
<1>7. <<x - 1, x>> \in R
  <2>1. PICK ss : ss = <<x - 1, x>>
    OBVIOUS
  <2>2. ss \in Nat \X Nat /\ ss[1] = x - 1 /\ ss[2] = x
    BY <1>6, <2>1
  <2>3. ss \in R
    BY <1>1, <1>6, <2>2
  <2>4. QED
    BY <2>1, <2>3
<1>8. x - 1 \notin B
  BY <1>5, <1>7
<1>9. QED
  BY <1>6, <1>8

\* f[i] is the concatenation of the first i sequences of s.
Concatenates(s, f, X) ==
  /\ f \in [0 .. Len(s) -> Seq(X)] /\ f[0] = << >>
  /\ \A i \in 1 .. Len(s) : f[i] = f[i - 1] \o s[i]

\* There is such an f: prefixes first.
Prefix(s, n, f, X) ==
  /\ f \in [0 .. n -> Seq(X)] /\ f[0] = << >>
  /\ \A i \in 1 .. n : f[i] = f[i - 1] \o s[i]

\* The next prefix.
LEMMA PrefixExtends ==
  ASSUME NEW X, NEW s \in Seq(Seq(X)), NEW n \in 1 .. Len(s),
         NEW f, Prefix(s, n - 1, f, X)
  PROVE  \E g : Prefix(s, n, g, X)
<1>1. n \in Nat /\ n \in 1 .. n /\ n - 1 \in 0 .. n - 1
  OBVIOUS
<1>2. s[n] \in Seq(X) /\ f[n - 1] \in Seq(X)
  BY <1>1 DEF Prefix
<1>3. PICK w : w = f[n - 1] \o s[n]
  OBVIOUS
<1>4. w \in Seq(X)
  BY <1>2, <1>3
<1>5. PICK g : g = [i \in 0 .. n |-> IF i = n THEN w ELSE f[i]]
  OBVIOUS
<1>6. g \in [0 .. n -> Seq(X)]
  BY <1>4, <1>5, <1>1 DEF Prefix
<1>7. ASSUME NEW i \in 1 .. n
      PROVE  g[i] = g[i - 1] \o s[i]
  <2>1. CASE i = n
    <3>1. g[i] = w /\ g[i - 1] = f[n - 1]
      BY <1>1, <1>5, <2>1
    <3>2. QED
      BY <1>3, <2>1, <3>1
  <2>2. CASE i # n
    <3>1. i \in 1 .. n - 1 /\ i \in 0 .. n /\ i - 1 \in 0 .. n /\ i - 1 # n
      BY <1>1, <2>2
    <3>2. g[i] = f[i] /\ g[i - 1] = f[i - 1]
      BY <1>5, <2>2, <3>1
    <3>3. f[i] = f[i - 1] \o s[i]
      BY <3>1 DEF Prefix
    <3>4. QED
      BY <3>2, <3>3
  <2>3. QED
    BY <2>1, <2>2
<1>8. g[0] = << >>
  BY <1>1, <1>5 DEF Prefix
<1>9. QED
  BY <1>6, <1>7, <1>8 DEF Prefix

\* Every prefix, and so the whole.
LEMMA ConcatenationExists ==
  ASSUME NEW X, NEW s \in Seq(Seq(X))
  PROVE  \E f : Concatenates(s, f, X)
<1> DEFINE S == {n \in 0 .. Len(s) : \E f : Prefix(s, n, f, X)}
<1>1. 0 \in S
  <2>1. PICK f : f = [i \in 0 .. 0 |-> << >>]
    OBVIOUS
  <2>2. f \in [0 .. 0 -> Seq(X)] /\ f[0] = << >>
    BY <2>1
  <2>3. \A i \in 1 .. 0 : f[i] = f[i - 1] \o s[i]
    OBVIOUS
  <2>4. Prefix(s, 0, f, X)
    BY <2>2, <2>3 DEF Prefix
  <2>5. 0 \in 0 .. Len(s)
    OBVIOUS
  <2>6. QED
    BY <2>4, <2>5, Zenon
<1>2. ASSUME NEW n \in 1 .. Len(s), n - 1 \in S
      PROVE  n \in S
  <2>1. PICK f : Prefix(s, n - 1, f, X)
    BY <1>2
  <2>2. \E g : Prefix(s, n, g, X)
    BY <2>1, PrefixExtends
  <2>3. n \in 0 .. Len(s)
    OBVIOUS
  <2>4. QED
    BY <2>2, <2>3, Zenon
<1>3. Len(s) \in 0 .. Len(s) /\ Len(s) \in Nat
  OBVIOUS
<1>4. 0 .. Len(s) \subseteq S
  <2> HIDE DEF S
  <2>1. QED
    BY <1>1, <1>2, <1>3, UpTo
<1>5. PICK f : Prefix(s, Len(s), f, X)
  BY <1>3, <1>4, Zenon
<1>6. QED
  BY <1>5 DEF Concatenates, Prefix

Agree(s, t, n) ==
  n \in Nat /\ n <= Len(s) /\ n <= Len(t) /\ \A i \in 1 .. n : t[i] = s[i]

\* Sequences that agree up to n have the same concatenation up to n.
LEMMA SamePrefix ==
  ASSUME NEW X, NEW s \in Seq(Seq(X)), NEW t \in Seq(Seq(X)), NEW n, Agree(s, t, n),
         NEW f, NEW g, Concatenates(s, f, X), Concatenates(t, g, X)
  PROVE  \A i \in 0 .. n : g[i] = f[i]
<1> USE DEF Agree
<1> DEFINE S == {i \in 0 .. n : g[i] = f[i]}
<1>1. 0 \in S
  BY DEF Concatenates
<1>2. ASSUME NEW i \in 1 .. n, i - 1 \in S
      PROVE  i \in S
  <2>1. i \in 1 .. Len(s) /\ i \in 1 .. Len(t)
    OBVIOUS
  <2>2. f[i] = f[i - 1] \o s[i] /\ g[i] = g[i - 1] \o t[i]
    BY <2>1 DEF Concatenates
  <2>3. g[i - 1] = f[i - 1] /\ t[i] = s[i]
    BY <1>2
  <2>4. g[i] = f[i]
    BY <2>2, <2>3
  <2>5. QED
    BY <2>4
<1> HIDE DEF S
<1>3. 0 .. n \subseteq S
  BY <1>1, <1>2, UpTo
<1>4. QED
  BY <1>3 DEF S

\* FlattenSeq computes it.
LEMMA FlattenConcatenates ==
  ASSUME NEW X, NEW s \in Seq(Seq(X)), NEW f, Concatenates(s, f, X)
  PROVE  FlattenSeq(s) = f[Len(s)] /\ FlattenSeq(s) \in Seq(X)
<1>1. f[Len(s)] \in Seq(X)
  BY DEF Concatenates
<1>2. CASE Len(s) = 0
  BY <1>1, <1>2 DEF FlattenSeq, Concatenates
<1>3. CASE Len(s) # 0
  <2> DEFINE F(h) == [i \in 1 .. Len(s) |-> IF i = 1 THEN s[i] ELSE h[i - 1] \o s[i]]
             g == [i \in 1 .. Len(s) |-> f[i]]
             h == CHOOSE h : h = F(h)
             fh == [i \in 0 .. Len(s) |-> IF i = 0 THEN << >> ELSE h[i]]
  <2>1. \A i \in 1 .. Len(s) : s[i] \in Seq(X) /\ << >> \o s[i] = s[i]
    OBVIOUS
  <2>2. g = F(g)
    <3>1. ASSUME NEW i \in 1 .. Len(s)
          PROVE  f[i] = IF i = 1 THEN s[i] ELSE g[i - 1] \o s[i]
      <4>1. f[i] = f[i - 1] \o s[i] /\ f[0] = << >>
        BY DEF Concatenates
      <4>2. CASE i = 1
        <5>1. i - 1 = 0
          BY <4>2
        <5>2. f[i - 1] = << >>
          BY <4>1, <5>1
        <5>3. f[i] = << >> \o s[i]
          BY <4>1, <5>2
        <5>4. f[i] = s[i]
          BY <2>1, <5>3
        <5>5. QED
          BY <4>2, <5>4
      <4>3. CASE i # 1
        <5>1. i - 1 \in 1 .. Len(s)
          BY <4>3
        <5>2. g[i - 1] = f[i - 1]
          BY <5>1
        <5>3. QED
          BY <4>1, <4>3, <5>2
      <4>4. QED
        BY <4>2, <4>3
    <3>2. QED
      BY <3>1
  <2>3. h = F(h)
    BY <2>2
  <2>4. FlattenSeq(s) = h[Len(s)]
    BY <1>3 DEF FlattenSeq
  <2> HIDE DEF h
  <2>5. \A i \in 1 .. Len(s) : h[i] = IF i = 1 THEN s[i] ELSE h[i - 1] \o s[i]
    BY <2>3
  <2> DEFINE S == {i \in 0 .. Len(s) : fh[i] = f[i]}
  <2>6. 0 \in S
    BY DEF Concatenates
  <2>7. ASSUME NEW i \in 1 .. Len(s), i - 1 \in S
        PROVE  i \in S
    <3>1. f[i] = f[i - 1] \o s[i]
      BY DEF Concatenates
    <3>2. h[i] = f[i]
      <4>1. CASE i = 1
        <5>1. i - 1 = 0
          BY <4>1
        <5>2. f[i - 1] = << >>
          BY <5>1 DEF Concatenates
        <5>3. f[i] = << >> \o s[i]
          BY <3>1, <5>2
        <5>4. f[i] = s[i]
          BY <2>1, <5>3
        <5>5. QED
          BY <2>5, <4>1, <5>4
      <4>2. CASE i # 1
        <5>1. i - 1 \in 0 .. Len(s) /\ i - 1 # 0
          BY <4>2
        <5>2. h[i - 1] = f[i - 1]
          BY <2>7, <5>1
        <5>3. h[i] = h[i - 1] \o s[i]
          BY <2>5, <4>2
        <5>4. QED
          BY <3>1, <5>2, <5>3
      <4>3. QED
        BY <4>1, <4>2
    <3>3. i \in 0 .. Len(s) /\ i # 0
      OBVIOUS
    <3>4. QED
      BY <3>2, <3>3
  <2>8. Len(s) \in Nat /\ Len(s) \in 1 .. Len(s)
    BY <1>3
  <2> HIDE DEF S
  <2>9. 0 .. Len(s) \subseteq S
    BY <2>6, <2>7, <2>8, UpTo
  <2>10. h[Len(s)] = f[Len(s)]
    BY <2>8, <2>9 DEF S
  <2>11. QED
    BY <1>1, <2>4, <2>10
<1>4. QED
  BY <1>2, <1>3

\* Lengths add up.
LEMMA LenConcat ==
  ASSUME NEW X, NEW a \in Seq(X), NEW b \in Seq(X)
  PROVE  Len(a \o b) = Len(a) + Len(b) /\ Len(a) \in Nat /\ Len(b) \in Nat
OBVIOUS

\* It has the elements of X.
LEMMA FlattenType ==
  ASSUME NEW X, NEW s \in Seq(Seq(X))
  PROVE  FlattenSeq(s) \in Seq(X)
<1>1. PICK f : Concatenates(s, f, X)
  BY ConcatenationExists
<1>2. QED
  BY <1>1, FlattenConcatenates

\* The elements of a concatenation.
LEMMA ToSetConcat ==
  ASSUME NEW X, NEW a \in Seq(X), NEW b \in Seq(X)
  PROVE  ToSet(a) \subseteq ToSet(a \o b) /\ ToSet(b) \subseteq ToSet(a \o b)
<1>1. /\ DOMAIN a = 1 .. Len(a) /\ DOMAIN b = 1 .. Len(b)
      /\ Len(a) \in Nat /\ Len(b) \in Nat
      /\ DOMAIN (a \o b) = 1 .. Len(a) + Len(b)
  OBVIOUS
<1>2. ASSUME NEW i \in DOMAIN a
      PROVE  i \in DOMAIN (a \o b) /\ (a \o b)[i] = a[i]
  BY <1>1
<1>3. ASSUME NEW i \in DOMAIN b
      PROVE  Len(a) + i \in DOMAIN (a \o b) /\ (a \o b)[Len(a) + i] = b[i]
  BY <1>1
<1>4. ToSet(a) \subseteq ToSet(a \o b)
  BY <1>2 DEF ToSet
<1>5. ToSet(b) \subseteq ToSet(a \o b)
  BY <1>3 DEF ToSet
<1>6. QED
  BY <1>4, <1>5

\* It loses none.
LEMMA FlattenElements ==
  ASSUME NEW X, NEW s \in Seq(Seq(X)), NEW c \in 1 .. Len(s)
  PROVE  ToSet(s[c]) \subseteq ToSet(FlattenSeq(s))
<1>1. PICK f : Concatenates(s, f, X)
  BY ConcatenationExists
<1> DEFINE S == {i \in 0 .. Len(s) : i >= c => ToSet(s[c]) \subseteq ToSet(f[i])}
<1>2. Len(s) \in Nat /\ c \in Nat /\ c > 0
  OBVIOUS
<1>3. 0 \in S
  BY <1>2
<1>4. ASSUME NEW i \in 1 .. Len(s), i - 1 \in S
      PROVE  i \in S
  <2>1. i \in 0 .. Len(s) /\ i - 1 \in 0 .. Len(s)
    OBVIOUS
  <2>2. f[i] = f[i - 1] \o s[i] /\ f[i - 1] \in Seq(X) /\ s[i] \in Seq(X)
    <3>1. f \in [0 .. Len(s) -> Seq(X)] /\ f[i] = f[i - 1] \o s[i]
      BY <1>1 DEF Concatenates
    <3>2. s[i] \in Seq(X)
      OBVIOUS
    <3>3. QED
      BY <2>1, <3>1, <3>2
  <2>3. ToSet(f[i - 1]) \subseteq ToSet(f[i]) /\ ToSet(s[i]) \subseteq ToSet(f[i])
    <3>1. PICK u, v : u = f[i - 1] /\ v = s[i]
      OBVIOUS
    <3>2. u \in Seq(X) /\ v \in Seq(X)
      BY <2>2, <3>1
    <3>3. ToSet(u) \subseteq ToSet(u \o v) /\ ToSet(v) \subseteq ToSet(u \o v)
      BY <3>2, ToSetConcat
    <3>4. f[i] = u \o v
      BY <2>2, <3>1
    <3>5. QED
      BY <3>1, <3>3, <3>4
  <2>4. CASE i = c
    BY <2>1, <2>3, <2>4
  <2>5. CASE i # c
    <3>1. i >= c => i - 1 >= c
      BY <1>2, <2>5
    <3>2. i >= c => ToSet(s[c]) \subseteq ToSet(f[i])
      BY <1>4, <2>3, <3>1
    <3>3. QED
      BY <2>1, <3>2
  <2>6. QED
    BY <2>4, <2>5
<1>5. 0 .. Len(s) \subseteq S
  <2> HIDE DEF S
  <2>1. QED
    BY <1>2, <1>3, <1>4, UpTo
<1>6. Len(s) \in 0 .. Len(s) /\ Len(s) >= c
  BY <1>2
<1>7. ToSet(s[c]) \subseteq ToSet(f[Len(s)])
  BY <1>5, <1>6
<1>8. FlattenSeq(s) = f[Len(s)]
  BY <1>1, FlattenConcatenates
<1>9. QED
  BY <1>7, <1>8

\* A sequence more comes last.
LEMMA FlattenAppend ==
  ASSUME NEW X, NEW s \in Seq(Seq(X)), NEW x \in Seq(X)
  PROVE  FlattenSeq(Append(s, x)) = FlattenSeq(s) \o x
<1>1. PICK t : t = Append(s, x)
  OBVIOUS
<1>2. /\ t \in Seq(Seq(X)) /\ Len(t) = Len(s) + 1 /\ Len(s) \in Nat
      /\ \A i \in 1 .. Len(s) : t[i] = s[i]
      /\ t[Len(t)] = x
  BY <1>1
<1>3. PICK f : Concatenates(s, f, X)
  BY ConcatenationExists
<1>4. PICK g : Concatenates(t, g, X)
  BY <1>2, ConcatenationExists
<1>5. Agree(s, t, Len(s))
  BY <1>2 DEF Agree
<1>6. \A i \in 0 .. Len(s) : g[i] = f[i]
  <2>1. t \in Seq(Seq(X))
    BY <1>2
  <2>2. QED
    BY <1>3, <1>4, <1>5, <2>1, SamePrefix
<1>7. Len(t) \in 1 .. Len(t) /\ Len(t) - 1 = Len(s) /\ Len(s) \in 0 .. Len(s)
  BY <1>2
<1>8. g[Len(t)] = g[Len(s)] \o x
  BY <1>2, <1>4, <1>7 DEF Concatenates
<1>9. g[Len(t)] = f[Len(s)] \o x
  BY <1>6, <1>7, <1>8
<1>10. FlattenSeq(s) = f[Len(s)]
  BY <1>3, FlattenConcatenates
<1>11. FlattenSeq(t) = g[Len(t)]
  BY <1>2, <1>4, FlattenConcatenates
<1>12. QED
  BY <1>1, <1>9, <1>10, <1>11

\* One of the sequences has got one more element.
Grown(s, t, c, x) ==
  /\ Len(t) = Len(s) /\ t[c] = Append(s[c], x)
  /\ \A i \in 1 .. Len(s) : i # c => t[i] = s[i]

\* One of the sequences grown by an element makes the whole longer by one.
LEMMA FlattenLonger ==
  ASSUME NEW X, NEW s \in Seq(Seq(X)), NEW t \in Seq(Seq(X)), NEW c \in 1 .. Len(s),
         NEW x \in X, Grown(s, t, c, x)
  PROVE  Len(FlattenSeq(t)) = Len(FlattenSeq(s)) + 1
<1> USE DEF Grown
<1>1. PICK f : Concatenates(s, f, X)
  BY ConcatenationExists
<1>2. PICK g : Concatenates(t, g, X)
  BY ConcatenationExists
<1>3. /\ c \in Nat /\ c - 1 \in Nat /\ c - 1 <= Len(s) /\ c - 1 <= Len(t)
      /\ c - 1 \in 0 .. c - 1 /\ Len(s) \in Nat
  OBVIOUS
<1>4. Agree(s, t, c - 1)
  BY DEF Agree
<1>5. \A i \in 0 .. c - 1 : g[i] = f[i]
  BY <1>1, <1>2, <1>4, SamePrefix
<1> DEFINE S == {i \in 0 .. Len(s) : i >= c => Len(g[i]) = Len(f[i]) + 1}
<1>6. 0 \in S
  OBVIOUS
<1>7. ASSUME NEW i \in 1 .. Len(s), i - 1 \in S
      PROVE  i \in S
  <2>1. i \in 1 .. Len(t) /\ i \in 0 .. Len(s) /\ i - 1 \in 0 .. Len(s) /\ i - 1 \in 0 .. Len(t)
    OBVIOUS
  <2>2. f[i] = f[i - 1] \o s[i] /\ g[i] = g[i - 1] \o t[i]
    BY <1>1, <1>2, <2>1 DEF Concatenates
  <2>3. f[i - 1] \in Seq(X) /\ g[i - 1] \in Seq(X)
    BY <1>1, <1>2, <2>1 DEF Concatenates
  <2>4. s[i] \in Seq(X) /\ t[i] \in Seq(X)
    BY <2>1
  <2>5. /\ Len(f[i]) = Len(f[i - 1]) + Len(s[i])
        /\ Len(g[i]) = Len(g[i - 1]) + Len(t[i])
        /\ Len(f[i - 1]) \in Nat /\ Len(s[i]) \in Nat
        /\ Len(g[i - 1]) \in Nat /\ Len(t[i]) \in Nat
    BY <2>2, <2>3, <2>4, LenConcat, Zenon
  <2>6. CASE i < c
    BY <2>1, <2>6
  <2>7. CASE i = c
    <3>1. g[i - 1] = f[i - 1]
      BY <1>3, <1>5, <2>7
    <3>2. Len(t[i]) = Len(s[i]) + 1
      BY <2>4, <2>7
    <3>3. Len(g[i]) = Len(f[i]) + 1
      <4>1. PICK a \in Nat, b \in Nat : a = Len(f[i - 1]) /\ b = Len(s[i])
        BY <2>5
      <4>2. Len(f[i]) = a + b /\ Len(g[i]) = a + (b + 1)
        BY <2>5, <3>1, <3>2, <4>1, Zenon
      <4>3. QED
        BY <4>2
    <3>4. QED
      BY <2>1, <3>3
  <2>8. CASE i > c
    <3>1. t[i] = s[i]
      BY <2>8
    <3>2. Len(g[i - 1]) = Len(f[i - 1]) + 1
      BY <1>7, <1>3, <2>8
    <3>3. Len(g[i]) = Len(f[i]) + 1
      <4>1. PICK a \in Nat, b \in Nat : a = Len(f[i - 1]) /\ b = Len(s[i])
        BY <2>5
      <4>2. Len(f[i]) = a + b /\ Len(g[i]) = (a + 1) + b
        BY <2>5, <3>1, <3>2, <4>1, Zenon
      <4>3. QED
        BY <4>2
    <3>4. QED
      BY <2>1, <3>3
  <2>9. QED
    BY <1>3, <2>6, <2>7, <2>8
<1>8. 0 .. Len(s) \subseteq S
  <2> HIDE DEF S
  <2>1. QED
    BY <1>3, <1>6, <1>7, UpTo
<1>9. Len(s) \in 0 .. Len(s) /\ Len(s) >= c
  BY <1>3
<1>10. Len(g[Len(s)]) = Len(f[Len(s)]) + 1
  BY <1>8, <1>9
<1>11. FlattenSeq(s) = f[Len(s)]
  BY <1>1, FlattenConcatenates
<1>12. FlattenSeq(t) = g[Len(t)]
  BY <1>2, FlattenConcatenates
<1>13. QED
  BY <1>10, <1>11, <1>12

-----------------------------------------------------------------------------
\* Sequences without repetition.

Distinct(s) == \A i, j \in DOMAIN s : s[i] = s[j] => i = j

\* What s and t have in common.
Disjoint(s, t) == ToSet(s) \cap ToSet(t) = {}

\* A new element at the end.
LEMMA AppendFacts ==
  ASSUME NEW X, NEW s \in Seq(X), Distinct(s), NEW t \in X, t \notin ToSet(s)
  PROVE  /\ Append(s, t) \in Seq(X) /\ Distinct(Append(s, t))
         /\ ToSet(Append(s, t)) = ToSet(s) \cup {t}
<1>1. /\ DOMAIN s = 1 .. Len(s) /\ Len(s) \in Nat
      /\ DOMAIN Append(s, t) = 1 .. Len(s) + 1
      /\ Append(s, t)[Len(s) + 1] = t /\ \A i \in 1 .. Len(s) : Append(s, t)[i] = s[i]
  OBVIOUS
<1>2. ToSet(Append(s, t)) = ToSet(s) \cup {t}
  BY <1>1 DEF ToSet
<1>3. \A i \in 1 .. Len(s) : s[i] # t
  BY <1>1 DEF ToSet
<1>4. \A i, j \in 1 .. Len(s) : s[i] = s[j] => i = j
  BY <1>1 DEF Distinct
<1>5. ASSUME NEW i \in 1 .. Len(s) + 1, NEW j \in 1 .. Len(s) + 1,
             Append(s, t)[i] = Append(s, t)[j]
      PROVE  i = j
  <2>1. i = Len(s) + 1 \/ i \in 1 .. Len(s)
    BY <1>1
  <2>2. j = Len(s) + 1 \/ j \in 1 .. Len(s)
    BY <1>1
  <2>3. QED
    BY <1>1, <1>3, <1>4, <1>5, <2>1, <2>2
<1>6. Distinct(Append(s, t))
  BY <1>1, <1>5 DEF Distinct
<1>7. QED
  BY <1>2, <1>6

\* Two sequences after one another.
LEMMA ConcatElements ==
  ASSUME NEW X, NEW a \in Seq(X), NEW b \in Seq(X)
  PROVE  ToSet(a \o b) = ToSet(a) \cup ToSet(b)
<1>1. /\ DOMAIN a = 1 .. Len(a) /\ DOMAIN b = 1 .. Len(b)
      /\ Len(a) \in Nat /\ Len(b) \in Nat
      /\ DOMAIN (a \o b) = 1 .. Len(a) + Len(b)
  OBVIOUS
<1>2. ASSUME NEW i \in DOMAIN (a \o b)
      PROVE  (a \o b)[i] \in ToSet(a) \cup ToSet(b)
  <2>1. CASE i <= Len(a)
    <3>1. i \in DOMAIN a /\ (a \o b)[i] = a[i]
      BY <1>1, <2>1
    <3>2. QED
      BY <3>1 DEF ToSet
  <2>2. CASE i > Len(a)
    <3>1. i - Len(a) \in DOMAIN b /\ (a \o b)[i] = b[i - Len(a)]
      BY <1>1, <2>2
    <3>2. QED
      BY <3>1 DEF ToSet
  <2>3. QED
    BY <1>1, <2>1, <2>2
<1>3. ToSet(a \o b) \subseteq ToSet(a) \cup ToSet(b)
  BY <1>2 DEF ToSet
<1>4. QED
  BY <1>3, ToSetConcat

\* Without repetition, when neither has one and they share no element.
LEMMA ConcatDistinct ==
  ASSUME NEW X, NEW a \in Seq(X), NEW b \in Seq(X),
         Distinct(a), Distinct(b), Disjoint(a, b)
  PROVE  Distinct(a \o b)
<1>1. /\ DOMAIN a = 1 .. Len(a) /\ DOMAIN b = 1 .. Len(b)
      /\ Len(a) \in Nat /\ Len(b) \in Nat
      /\ DOMAIN (a \o b) = 1 .. Len(a) + Len(b)
  OBVIOUS
<1>2. ASSUME NEW i \in DOMAIN (a \o b)
      PROVE  \/ i \in DOMAIN a /\ (a \o b)[i] = a[i]
             \/ i > Len(a) /\ i - Len(a) \in DOMAIN b /\ (a \o b)[i] = b[i - Len(a)]
  BY <1>1
<1>3. ASSUME NEW i \in DOMAIN a, NEW j \in DOMAIN b
      PROVE  a[i] # b[j]
  BY DEF Disjoint, ToSet
<1>4. ASSUME NEW i \in DOMAIN (a \o b), NEW j \in DOMAIN (a \o b), (a \o b)[i] = (a \o b)[j]
      PROVE  i = j
  <2>1. i \in Nat /\ j \in Nat
    BY <1>1
  <2>2. \/ i \in DOMAIN a /\ (a \o b)[i] = a[i]
        \/ i > Len(a) /\ i - Len(a) \in DOMAIN b /\ (a \o b)[i] = b[i - Len(a)]
    BY <1>2
  <2>3. \/ j \in DOMAIN a /\ (a \o b)[j] = a[j]
        \/ j > Len(a) /\ j - Len(a) \in DOMAIN b /\ (a \o b)[j] = b[j - Len(a)]
    BY <1>2
  <2>4. CASE i \in DOMAIN a /\ (a \o b)[i] = a[i]
    BY <1>3, <1>4, <2>3, <2>4 DEF Distinct
  <2>5. CASE i > Len(a) /\ i - Len(a) \in DOMAIN b /\ (a \o b)[i] = b[i - Len(a)]
    <3>1. j - Len(a) \in DOMAIN b /\ (a \o b)[j] = b[j - Len(a)]
      BY <1>3, <1>4, <2>3, <2>5
    <3>2. i - Len(a) = j - Len(a)
      BY <1>4, <2>5, <3>1 DEF Distinct
    <3>3. QED
      BY <1>1, <2>1, <3>2
  <2>6. QED
    BY <2>2, <2>4, <2>5
<1>5. QED
  BY <1>4 DEF Distinct

\* The elements of the first i sequences.
Elements(s, i) == UNION {ToSet(s[j]) : j \in 1 .. i}

\* No element twice, neither in one of the sequences nor in two of them.
AllDistinct(s) ==
  /\ \A i \in 1 .. Len(s) : Distinct(s[i])
  /\ \A i, j \in 1 .. Len(s) : i # j => Disjoint(s[i], s[j])

\* FlattenSeq of such a sequence keeps the elements apart, and adds none.
LEMMA FlattenDistinct ==
  ASSUME NEW X, NEW s \in Seq(Seq(X)), AllDistinct(s)
  PROVE  Distinct(FlattenSeq(s)) /\ ToSet(FlattenSeq(s)) = Elements(s, Len(s))
<1>1. PICK f : Concatenates(s, f, X)
  BY ConcatenationExists
<1> DEFINE S == {i \in 0 .. Len(s) : Distinct(f[i]) /\ ToSet(f[i]) = Elements(s, i)}
<1>2. 0 \in S
  <2>1. f[0] = << >>
    BY <1>1 DEF Concatenates
  <2>2. Distinct(f[0])
    BY <2>1 DEF Distinct
  <2>3. ToSet(f[0]) = {} /\ Elements(s, 0) = {}
    BY <2>1 DEF ToSet, Elements
  <2>4. 0 \in 0 .. Len(s)
    OBVIOUS
  <2>5. QED
    BY <2>2, <2>3, <2>4
<1>3. ASSUME NEW i \in 1 .. Len(s), i - 1 \in S
      PROVE  i \in S
  <2>1. i \in 0 .. Len(s) /\ i - 1 \in 0 .. Len(s) /\ i \in Nat /\ i > 0
    OBVIOUS
  <2>2. f \in [0 .. Len(s) -> Seq(X)] /\ f[i] = f[i - 1] \o s[i]
    BY <1>1 DEF Concatenates
  <2>3. PICK a, b : a = f[i - 1] /\ b = s[i]
    OBVIOUS
  <2>4. a \in Seq(X) /\ b \in Seq(X) /\ f[i] = a \o b
    <3>1. s[i] \in Seq(X)
      OBVIOUS
    <3>2. f[i - 1] \in Seq(X)
      BY <2>1, <2>2
    <3>3. f[i] = a \o b
      BY <2>2, <2>3, Zenon
    <3>4. QED
      BY <2>3, <3>1, <3>2, <3>3, Zenon
  <2>5. Distinct(a) /\ ToSet(a) = Elements(s, i - 1)
    BY <1>3, <2>3
  <2>6. Distinct(b)
    BY <2>3, Zenon DEF AllDistinct
  <2>7. Disjoint(a, b)
    <3>1. ASSUME NEW j \in 1 .. i - 1
          PROVE  ToSet(s[j]) \cap ToSet(b) = {}
      <4>1. j \in 1 .. Len(s) /\ j # i
        OBVIOUS
      <4>2. QED
        BY <2>3, <4>1 DEF AllDistinct, Disjoint
    <3>2. Elements(s, i - 1) \cap ToSet(b) = {}
      BY <3>1 DEF Elements
    <3>3. QED
      BY <2>5, <3>2 DEF Disjoint
  <2>8. Distinct(f[i])
    BY <2>4, <2>5, <2>6, <2>7, ConcatDistinct
  <2>9. ToSet(f[i]) = ToSet(a) \cup ToSet(b)
    BY <2>4, ConcatElements
  <2>10. Elements(s, i) = Elements(s, i - 1) \cup ToSet(s[i])
    <3>1. \A j : j \in 1 .. i <=> j \in 1 .. i - 1 \/ j = i
      BY <2>1
    <3>2. QED
      BY <3>1 DEF Elements
  <2>11. ToSet(f[i]) = Elements(s, i)
    BY <2>3, <2>5, <2>9, <2>10
  <2>12. QED
    BY <2>1, <2>8, <2>11
<1>4. Len(s) \in Nat /\ Len(s) \in 0 .. Len(s)
  OBVIOUS
<1> HIDE DEF S
<1>5. 0 .. Len(s) \subseteq S
  BY <1>2, <1>3, <1>4, UpTo
<1>6. Distinct(f[Len(s)]) /\ ToSet(f[Len(s)]) = Elements(s, Len(s))
  BY <1>4, <1>5 DEF S
<1>7. FlattenSeq(s) = f[Len(s)]
  BY <1>1, FlattenConcatenates
<1>8. QED
  BY <1>6, <1>7

-----------------------------------------------------------------------------
\* Elements, filters and functions.

\* The elements of a concatenation are those of its parts.
LEMMA FlattenToSet ==
  ASSUME NEW X, NEW s \in Seq(Seq(X))
  PROVE  /\ FlattenSeq(s) \in Seq(X)
         /\ ToSet(FlattenSeq(s)) = UNION {ToSet(s[i]) : i \in 1 .. Len(s)}
<1>1. PICK U : U = UNION {ToSet(s[i]) : i \in 1 .. Len(s)}
  OBVIOUS
<1>2. DOMAIN s = 1 .. Len(s) /\ Len(s) \in Nat /\ s = [i \in 1 .. Len(s) |-> s[i]]
  OBVIOUS
<1>3. ASSUME NEW i \in 1 .. Len(s)
      PROVE  s[i] \in Seq(U)
  <2>1. PICK x : x = s[i]
    OBVIOUS
  <2>2. x \in Seq(X)
    BY <2>1
  <2>3. x = [k \in 1 .. Len(x) |-> x[k]] /\ Len(x) \in Nat /\ DOMAIN x = 1 .. Len(x)
    BY <2>2
  <2>4. \A k \in 1 .. Len(x) : x[k] \in ToSet(x)
    BY <2>3 DEF ToSet
  <2>5. ToSet(x) \subseteq U
    BY <1>1, <2>1
  <2>6. x \in Seq(U)
    BY <2>3, <2>4, <2>5
  <2>7. QED
    BY <2>1, <2>6
<1>4. s \in Seq(Seq(U))
  BY <1>2, <1>3
<1>5. FlattenSeq(s) \in Seq(U) /\ FlattenSeq(s) \in Seq(X)
  BY <1>4, FlattenType
<1>6. ToSet(FlattenSeq(s)) \subseteq U
  BY <1>5 DEF ToSet
<1>7. \A i \in 1 .. Len(s) : ToSet(s[i]) \subseteq ToSet(FlattenSeq(s))
  BY FlattenElements
<1>8. U \subseteq ToSet(FlattenSeq(s))
  BY <1>1, <1>7
<1>9. QED
  BY <1>1, <1>5, <1>6, <1>8

\* What a filter keeps.
LEMMA FilteredBy ==
  ASSUME NEW X, NEW s \in Seq(X), NEW T,
         NEW u, u = FlattenSeq([i \in DOMAIN s |-> IF s[i] \in T THEN <<s[i]>> ELSE << >>])
  PROVE  u \in Seq(X) /\ ToSet(u) = ToSet(s) \cap T
<1>1. PICK n \in Nat : n = Len(s)
  OBVIOUS
<1>2. DOMAIN s = 1 .. n /\ \A i \in 1 .. n : s[i] \in X
  BY <1>1
<1>3. PICK t : t = [i \in 1 .. n |-> IF s[i] \in T THEN <<s[i]>> ELSE << >>]
  OBVIOUS
<1>4. u = FlattenSeq(t)
  BY <1>2, <1>3
<1>5. t \in Seq(Seq(X)) /\ Len(t) = n
  <2>1. \A i \in 1 .. n : (IF s[i] \in T THEN <<s[i]>> ELSE << >>) \in Seq(X)
    BY <1>2
  <2>2. QED
    BY <1>3, <2>1
<1>6. u \in Seq(X) /\ ToSet(u) = UNION {ToSet(t[i]) : i \in 1 .. n}
  BY <1>4, <1>5, FlattenToSet
<1>7. ASSUME NEW i \in 1 .. n
      PROVE  ToSet(t[i]) = {s[i]} \cap T
  <2>1. \A x : ToSet(<<x>>) = {x}
    BY DEF ToSet
  <2>2. ToSet(<< >>) = {}
    BY DEF ToSet
  <2>3. QED
    BY <1>3, <2>1, <2>2
<1>8. UNION {ToSet(t[i]) : i \in 1 .. n} = ToSet(s) \cap T
  <2>1. ToSet(s) = {s[i] : i \in 1 .. n}
    BY <1>2 DEF ToSet
  <2>2. QED
    BY <1>7, <2>1
<1>9. QED
  BY <1>6, <1>8

\* t is s under F.
Mapped(s, t, F) ==
  Len(t) = Len(s) /\ \A k \in 1 .. Len(s) : t[k] = F[s[k]]

\* The elements of a concatenation by position.
LEMMA ConcatAt ==
  ASSUME NEW X, NEW a \in Seq(X), NEW b \in Seq(X), NEW m, NEW n, m = Len(a), n = Len(b)
  PROVE  /\ m \in Nat /\ n \in Nat /\ Len(a \o b) = m + n
         /\ \A k \in 1 .. m + n : (a \o b)[k] = IF k <= m THEN a[k] ELSE b[k - m]
OBVIOUS

LEMMA ConcatMapped ==
  ASSUME NEW X, NEW Y, NEW F, NEW a \in Seq(X), NEW b \in Seq(X), NEW c \in Seq(Y), NEW d \in Seq(Y),
         Mapped(a, c, F), Mapped(b, d, F)
  PROVE  Mapped(a \o b, c \o d, F)
<1>1. PICK m, n : m = Len(a) /\ n = Len(b)
  OBVIOUS
<1>2. m = Len(c) /\ n = Len(d)
  BY <1>1, Zenon DEF Mapped
<1>3. PICK v, w : v = a \o b /\ w = c \o d
  OBVIOUS
<1>4. /\ m \in Nat /\ n \in Nat /\ Len(v) = m + n
      /\ \A k \in 1 .. m + n : v[k] = IF k <= m THEN a[k] ELSE b[k - m]
  BY <1>1, <1>3, ConcatAt
<1>5. /\ Len(w) = m + n
      /\ \A k \in 1 .. m + n : w[k] = IF k <= m THEN c[k] ELSE d[k - m]
  BY <1>2, <1>3, ConcatAt
<1>6. /\ \A k \in 1 .. m : c[k] = F[a[k]]
      /\ \A k \in 1 .. n : d[k] = F[b[k]]
  BY <1>1, Zenon DEF Mapped
<1>7. ASSUME NEW k \in 1 .. m + n
      PROVE  w[k] = F[v[k]]
  <2>1. CASE k <= m
    <3>1. k \in 1 .. m
      BY <1>4, <2>1
    <3>2. v[k] = a[k] /\ w[k] = c[k]
      BY <1>4, <1>5, <2>1
    <3>3. QED
      BY <1>6, <3>1, <3>2
  <2>2. CASE ~ (k <= m)
    <3>1. PICK j \in 1 .. n : j = k - m
      BY <1>4, <2>2
    <3>2. v[k] = b[j] /\ w[k] = d[j]
      BY <1>4, <1>5, <2>2, <3>1
    <3>3. QED
      BY <1>6, <3>1, <3>2
  <2>3. QED
    BY <2>1, <2>2
<1>8. Mapped(v, w, F)
  BY <1>4, <1>5, <1>7 DEF Mapped
<1>9. QED
  BY <1>3, <1>8

\* A concatenation of sequences under F is the concatenation under F.
LEMMA FlattenMapped ==
  ASSUME NEW X, NEW Y, NEW F, NEW s \in Seq(Seq(X)), NEW t \in Seq(Seq(Y)), Len(t) = Len(s),
         \A i \in 1 .. Len(s) : Mapped(s[i], t[i], F)
  PROVE  Mapped(FlattenSeq(s), FlattenSeq(t), F)
<1>1. PICK f : Concatenates(s, f, X)
  BY ConcatenationExists
<1>2. PICK g : Concatenates(t, g, Y)
  BY ConcatenationExists
<1>3. PICK n \in Nat : n = Len(s)
  OBVIOUS
<1> DEFINE S == {i \in 0 .. n : Mapped(f[i], g[i], F)}
<1>4. 0 \in S
  <2>1. f[0] = << >> /\ g[0] = << >>
    BY <1>1, <1>2 DEF Concatenates
  <2>2. QED
    BY <2>1 DEF Mapped
<1>5. ASSUME NEW i \in 1 .. n, i - 1 \in S
      PROVE  i \in S
  <2>1. i \in 0 .. n /\ i - 1 \in 0 .. n /\ i \in 1 .. Len(s) /\ i \in 1 .. Len(t)
        /\ i - 1 \in 0 .. Len(s) /\ i - 1 \in 0 .. Len(t)
    BY <1>3
  <2>2. PICK a, b, c, d : a = f[i - 1] /\ b = s[i] /\ c = g[i - 1] /\ d = t[i]
    OBVIOUS
  <2>3. f[i] = a \o b /\ g[i] = c \o d
    BY <1>1, <1>2, <2>1, <2>2, Zenon DEF Concatenates
  <2>4. a \in Seq(X) /\ c \in Seq(Y)
    <3>1. f[i - 1] \in Seq(X) /\ g[i - 1] \in Seq(Y)
      BY <1>1, <1>2, <2>1 DEF Concatenates
    <3>2. QED
      BY <2>2, <3>1, Zenon
  <2>5. b \in Seq(X) /\ d \in Seq(Y)
    <3>1. s[i] \in Seq(X) /\ t[i] \in Seq(Y)
      BY <2>1
    <3>2. QED
      BY <2>2, <3>1, Zenon
  <2>6. Mapped(a, c, F) /\ Mapped(b, d, F)
    BY <1>5, <2>1, <2>2, Zenon
  <2>7. Mapped(a \o b, c \o d, F)
    BY <2>4, <2>5, <2>6, ConcatMapped
  <2>8. Mapped(f[i], g[i], F)
    BY <2>3, <2>7, Zenon
  <2>9. QED
    BY <2>1, <2>8
<1> HIDE DEF S
<1>6. 0 .. n \subseteq S
  BY <1>4, <1>5, UpTo
<1>7. Mapped(f[n], g[n], F)
  BY <1>6 DEF S
<1>8. FlattenSeq(s) = f[n] /\ FlattenSeq(t) = g[n]
  <2>1. FlattenSeq(s) = f[Len(s)]
    BY <1>1, FlattenConcatenates
  <2>2. FlattenSeq(t) = g[Len(t)]
    BY <1>2, FlattenConcatenates
  <2>3. QED
    BY <1>3, <2>1, <2>2
<1>9. QED
  BY <1>7, <1>8, Zenon

\* Where the elements of a concatenation come from: sequence and position.
Places(s) == [i \in 1 .. Len(s) |-> [k \in 1 .. Len(s[i]) |-> <<i, k>>]]

LEMMA FlattenPlaces ==
  ASSUME NEW X, NEW s \in Seq(Seq(X)), NEW p, p = FlattenSeq(Places(s))
  PROVE  /\ p \in Seq(Nat \X Nat) /\ Distinct(p) /\ Len(p) = Len(FlattenSeq(s))
         /\ ToSet(p) = {x \in Nat \X Nat : x[1] \in 1 .. Len(s) /\ x[2] \in 1 .. Len(s[x[1]])}
         /\ \A j \in 1 .. Len(p) : FlattenSeq(s)[j] = s[p[j][1]][p[j][2]]
<1>1. PICK n \in Nat : n = Len(s)
  OBVIOUS
<1>2. PICK len : len = [i \in 1 .. n |-> Len(s[i])]
  OBVIOUS
<1>3. \A i \in 1 .. n : s[i] \in Seq(X) /\ len[i] \in Nat /\ len[i] = Len(s[i])
  BY <1>1, <1>2
<1>4. PICK q : q = Places(s)
  OBVIOUS
<1>5. q = [i \in 1 .. n |-> [k \in 1 .. len[i] |-> <<i, k>>]]
  BY <1>1, <1>2, <1>4 DEF Places
<1>6. ASSUME NEW i \in 1 .. n
      PROVE  /\ q[i] \in Seq(Nat \X Nat) /\ Len(q[i]) = len[i]
             /\ \A k \in 1 .. len[i] : q[i][k] = <<i, k>>
             /\ Distinct(q[i]) /\ ToSet(q[i]) = {<<i, k>> : k \in 1 .. len[i]}
  <2>1. PICK m \in Nat : m = len[i]
    BY <1>3
  <2>2. PICK r : r = [k \in 1 .. m |-> <<i, k>>]
    OBVIOUS
  <2>3. r = q[i]
    BY <1>5, <2>1, <2>2
  <2>4. DOMAIN r = 1 .. m /\ \A k \in 1 .. m : r[k] = <<i, k>>
    BY <2>2
  <2>5. r \in Seq(Nat \X Nat) /\ Len(r) = m
    <3>1. \A k \in 1 .. m : <<i, k>> \in Nat \X Nat
      OBVIOUS
    <3>2. QED
      BY <2>2, <3>1
  <2>6. Distinct(r)
    BY <2>4 DEF Distinct
  <2>7. ToSet(r) = {<<i, k>> : k \in 1 .. m}
    BY <2>4 DEF ToSet
  <2>8. QED
    BY <2>1, <2>3, <2>4, <2>5, <2>6, <2>7, Zenon
<1>7. q \in Seq(Seq(Nat \X Nat)) /\ Len(q) = n
  <2>1. \A i \in 1 .. n : q[i] \in Seq(Nat \X Nat)
    BY <1>6
  <2>2. PICK S : S = Seq(Nat \X Nat)
    OBVIOUS
  <2>3. DOMAIN q = 1 .. n /\ q = [i \in 1 .. n |-> q[i]]
    BY <1>5
  <2>4. \A i \in 1 .. n : q[i] \in S
    BY <2>1, <2>2
  <2>5. q \in Seq(S) /\ Len(q) = n
    BY <2>3, <2>4
  <2>6. QED
    BY <2>2, <2>5
<1>8. AllDistinct(q)
  <2>1. ASSUME NEW i \in 1 .. n, NEW j \in 1 .. n, i # j
        PROVE  Disjoint(q[i], q[j])
    <3>1. ToSet(q[i]) = {<<i, k>> : k \in 1 .. len[i]} /\ ToSet(q[j]) = {<<j, k>> : k \in 1 .. len[j]}
      BY <1>6
    <3>2. ToSet(q[i]) \cap ToSet(q[j]) = {}
      BY <2>1, <3>1
    <3>3. QED
      BY <3>2 DEF Disjoint
  <2>2. QED
    BY <1>6, <1>7, <2>1 DEF AllDistinct
<1>9. Distinct(p) /\ ToSet(p) = Elements(q, n)
  BY <1>4, <1>7, <1>8, FlattenDistinct
<1>10. p \in Seq(Nat \X Nat)
  BY <1>4, <1>7, FlattenType
<1>11. Elements(q, n) = {x \in Nat \X Nat : x[1] \in 1 .. n /\ x[2] \in 1 .. len[x[1]]}
  <2>1. ASSUME NEW x \in Elements(q, n)
        PROVE  x \in Nat \X Nat /\ x[1] \in 1 .. n /\ x[2] \in 1 .. len[x[1]]
    <3>1. PICK i \in 1 .. n : x \in ToSet(q[i])
      BY DEF Elements
    <3>2. x \in {<<i, k>> : k \in 1 .. len[i]}
      BY <1>6, <3>1, Zenon
    <3>3. PICK k \in 1 .. len[i] : x = <<i, k>>
      BY <3>2
    <3>4. k \in Nat /\ i \in Nat
      BY <1>3
    <3>5. QED
      BY <3>3, <3>4
  <2>2. ASSUME NEW x \in Nat \X Nat, x[1] \in 1 .. n, x[2] \in 1 .. len[x[1]]
        PROVE  x \in Elements(q, n)
    <3>1. PICK i \in 1 .. n : i = x[1]
      BY <2>2
    <3>2. PICK k \in 1 .. len[i] : x = <<i, k>>
      BY <2>2, <3>1
    <3>3. x \in ToSet(q[i])
      BY <1>6, <3>2
    <3>4. QED
      BY <3>3 DEF Elements
  <2>3. QED
    BY <2>1, <2>2
<1>12. PICK F : F = [x \in Nat \X Nat |-> s[x[1]][x[2]]]
  OBVIOUS
<1>13. ASSUME NEW i \in 1 .. n
       PROVE  Mapped(q[i], s[i], F)
  <2>1. PICK m \in Nat : m = len[i]
    BY <1>3
  <2>2. Len(q[i]) = m /\ Len(s[i]) = m
    BY <1>3, <1>6, <2>1
  <2>3. ASSUME NEW k \in 1 .. m
        PROVE  s[i][k] = F[q[i][k]]
    <3>1. q[i][k] = <<i, k>>
      BY <1>6, <2>1
    <3>2. F[<<i, k>>] = s[i][k]
      BY <1>12
    <3>3. QED
      BY <3>1, <3>2
  <2>4. QED
    BY <2>2, <2>3 DEF Mapped
<1>14. \A i \in 1 .. Len(q) : Mapped(q[i], s[i], F)
  BY <1>7, <1>13
<1>15. Len(s) = Len(q)
  BY <1>1, <1>7
<1>16. Mapped(FlattenSeq(q), FlattenSeq(s), F)
  BY <1>7, <1>14, <1>15, FlattenMapped
<1>17. Len(p) = Len(FlattenSeq(s)) /\ \A j \in 1 .. Len(p) : FlattenSeq(s)[j] = F[p[j]]
  BY <1>4, <1>16 DEF Mapped
<1>18. ASSUME NEW j \in 1 .. Len(p)
       PROVE  FlattenSeq(s)[j] = s[p[j][1]][p[j][2]]
  <2>1. p[j] \in Nat \X Nat
    BY <1>10
  <2>2. QED
    BY <1>12, <1>17, <2>1
<1>19. ToSet(p) = {x \in Nat \X Nat : x[1] \in 1 .. Len(s) /\ x[2] \in 1 .. Len(s[x[1]])}
  BY <1>1, <1>3, <1>9, <1>11
<1>20. QED
  BY <1>9, <1>10, <1>17, <1>18, <1>19

\* A filter of a sequence without repetition has none.
LEMMA FilteredDistinct ==
  ASSUME NEW X, NEW s \in Seq(X), Distinct(s), NEW T,
         NEW u, u = FlattenSeq([i \in DOMAIN s |-> IF s[i] \in T THEN <<s[i]>> ELSE << >>])
  PROVE  Distinct(u)
<1>1. PICK n \in Nat : n = Len(s)
  OBVIOUS
<1>2. DOMAIN s = 1 .. n /\ \A i \in 1 .. n : s[i] \in X
  BY <1>1
<1>3. PICK t : t = [i \in 1 .. n |-> IF s[i] \in T THEN <<s[i]>> ELSE << >>]
  OBVIOUS
<1>4. u = FlattenSeq(t)
  BY <1>2, <1>3
<1>5. t \in Seq(Seq(X)) /\ Len(t) = n
  <2>1. \A i \in 1 .. n : (IF s[i] \in T THEN <<s[i]>> ELSE << >>) \in Seq(X)
    BY <1>2
  <2>2. QED
    BY <1>3, <2>1
<1>6. ASSUME NEW i \in 1 .. n
      PROVE  Distinct(t[i]) /\ ToSet(t[i]) \subseteq {s[i]}
  <2>1. \A x : Distinct(<<x>>) /\ ToSet(<<x>>) = {x}
    BY DEF ToSet, Distinct
  <2>2. Distinct(<< >>) /\ ToSet(<< >>) = {}
    BY DEF ToSet, Distinct
  <2>3. t[i] = <<s[i]>> \/ t[i] = << >>
    BY <1>3
  <2>4. QED
    BY <2>1, <2>2, <2>3
<1>7. \A i, j \in 1 .. n : i # j => s[i] # s[j]
  BY <1>2 DEF Distinct
<1>8. \A i, j \in 1 .. n : i # j => Disjoint(t[i], t[j])
  BY <1>6, <1>7 DEF Disjoint
<1>9. AllDistinct(t)
  BY <1>5, <1>6, <1>8 DEF AllDistinct
<1>10. QED
  BY <1>4, <1>5, <1>9, FlattenDistinct

=============================================================================
