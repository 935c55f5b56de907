---------------------------- MODULE Fields_proofs ----------------------------
(***************************************************************************)
(* What the server reads is what the client meant, and nobody is turned    *)
(* away without a reason, for identifiers, names, paths and contents of    *)
(* every kind and all sizes of the fields.                                 *)
(***************************************************************************)
EXTENDS Fields, SequenceTheorems, WellFoundedInduction, TLAPS

-----------------------------------------------------------------------------
(* Induction and recursion, from the least number of a set, as in          *)
(* Cksum_proofs.                                                           *)

LEMMA LeastNumber ==
  ASSUME NEW T, T \subseteq Nat, T # {}
  PROVE  \E k \in T : \A j \in T : k <= j
<1> DEFINE R == {p \in Nat \X Nat : p[1] < p[2]}
<1>1. IsWellFoundedOn(R, Nat)  BY NatLessThanWellFounded DEF OpToRel
<1>2. \E k \in T : \A j \in T : ~(<<j, k>> \in R)
  <2> HIDE DEF R
  <2> QED  BY <1>1, WFMin
<1>3. ASSUME NEW k \in T, NEW j \in T, ~(<<j, k>> \in R) PROVE k <= j
  BY <1>3
<1> QED  BY <1>2, <1>3

LEMMA Induction ==
  ASSUME NEW P, NEW N \in Nat, 0 \in P,
         \A k \in 1..N : k - 1 \in P => k \in P
  PROVE  \A k \in 0..N : k \in P
<1> DEFINE T == {k \in 0..N : k \notin P}
<1> SUFFICES ASSUME T # {} PROVE FALSE  OBVIOUS
<1>1. PICK k \in T : \A j \in T : k <= j
  <2>1. T \subseteq Nat  OBVIOUS
  <2> HIDE DEF T
  <2> QED  BY <2>1, LeastNumber
<1>2. k \in 1..N /\ k - 1 \in 0..N /\ ~(k <= k - 1)  OBVIOUS
<1>3. k - 1 \in P  BY <1>1, <1>2
<1> QED  BY <1>2, <1>3

\* f is what the steps F make of base.
Follows(f, V, base, m, F) ==
  /\ f \in [0..m -> V]
  /\ f[0] = base
  /\ \A k \in 1..m : f[k] = F[k][f[k - 1]]

LEMMA Recursion ==
  ASSUME NEW V, NEW base \in V, NEW N \in Nat, NEW F \in [1..N -> [V -> V]]
  PROVE  \E f : Follows(f, V, base, N, F)
<1> DEFINE P == {m \in 0..N : \E f : Follows(f, V, base, m, F)}
<1>1. 0 \in P
  <2>1. Follows([k \in 0..0 |-> base], V, base, 0, F)  BY DEF Follows
  <2>2. \E f : Follows(f, V, base, 0, F)  BY <2>1
  <2> QED  BY <2>2
<1>2. ASSUME NEW m \in 1..N, m - 1 \in P PROVE m \in P
  <2>1. PICK f : Follows(f, V, base, m - 1, F)  BY <1>2
  <2> DEFINE g == [k \in 0..m |-> IF k = m THEN F[m][f[m - 1]] ELSE f[k]]
  <2>2. F[m][f[m - 1]] \in V  BY <2>1 DEF Follows
  <2>3. g \in [0..m -> V] /\ g[0] = base  BY <2>1, <2>2 DEF Follows
  <2>4. ASSUME NEW k \in 1..m PROVE g[k] = F[k][g[k - 1]]
    <3>1. g[k - 1] = f[k - 1]  OBVIOUS
    <3>2. CASE k = m  BY <3>1, <3>2
    <3>3. CASE k \in 1..(m - 1)
      <4>1. g[k] = f[k]  BY <3>3
      <4> HIDE DEF g
      <4> QED  BY <2>1, <3>1, <3>3, <4>1 DEF Follows
    <3> QED  BY <3>2, <3>3
  <2> HIDE DEF g
  <2>5. Follows(g, V, base, m, F)  BY <2>3, <2>4 DEF Follows
  <2> QED  BY <2>5
<1>3. N \in P
  <2>1. \A m \in 1..N : m - 1 \in P => m \in P  BY <1>2
  <2>2. N \in 0..N  OBVIOUS
  <2> HIDE DEF P
  <2> QED  BY <1>1, <2>1, <2>2, Induction
<1> QED  BY <1>3

-----------------------------------------------------------------------------
Bytes == 0..255
Chars == 1..255

-----------------------------------------------------------------------------
(* One piece after the other.                                              *)

LEMMA FlattenSteps ==
  ASSUME NEW S, NEW q \in Seq(Seq(S))
  PROVE  \E f \in [0..Len(q) -> Seq(S)] :
            /\ f[0] = <<>> /\ FlattenSeq(q) = f[Len(q)]
            /\ \A k \in 1..Len(q) : f[k] = f[k - 1] \o q[k]
<1> DEFINE L == Len(q)
           F == [k \in 1..L |-> [v \in Seq(S) |-> v \o q[k]]]
           Body(d) == [k \in 1..L |-> IF k = 1 THEN q[k] ELSE d[k - 1] \o q[k]]
           d == CHOOSE d : d = Body(d)
<1>1. L \in Nat /\ <<>> \in Seq(S) /\ \A k \in 1..L : q[k] \in Seq(S)
  BY ElementOfSeq
<1>2. F \in [1..L -> [Seq(S) -> Seq(S)]]
  <2>1. ASSUME NEW k \in 1..L, NEW v \in Seq(S) PROVE v \o q[k] \in Seq(S)
    <3>1. q[k] \in Seq(S)  BY <1>1
    <3> QED  BY <3>1, ConcatProperties
  <2> QED  BY <2>1
<1>3. PICK f : Follows(f, Seq(S), <<>>, L, F)
  <2> HIDE DEF F, L
  <2> QED  BY <1>1, <1>2, Recursion
<1> HIDE DEF L
<1>4. /\ f \in [0..L -> Seq(S)] /\ f[0] = <<>>
      /\ \A k \in 1..L : f[k] = f[k - 1] \o q[k]
  <2>1. ASSUME NEW k \in 1..L PROVE f[k] = f[k - 1] \o q[k]
    <3>1. f[k - 1] \in Seq(S) /\ f[k] = F[k][f[k - 1]]
      <4> HIDE DEF F
      <4> QED  BY <1>1, <1>3 DEF Follows
    <3> QED  BY <3>1
  <2> QED  BY <2>1, <1>3 DEF Follows
<1> DEFINE g == [k \in 1..L |-> f[k]]
<1>5. g = Body(g)
  <2>1. ASSUME NEW k \in 1..L PROVE g[k] = Body(g)[k]
    <3>1. CASE k = 1
      <4>1. q[1] \in Seq(S) /\ f[1] = f[1 - 1] \o q[1] /\ 1 - 1 = 0
        <5>1. 1 \in 1..L  BY <3>1
        <5>2. q[1] \in Seq(S)  BY <5>1, <1>1
        <5>3. f[1] = f[1 - 1] \o q[1]  BY <5>1, <1>4
        <5> QED  BY <5>2, <5>3
      <4>2. f[1] = q[1]  BY <4>1, <1>4, ConcatEmptySeq
      <4> QED  BY <3>1, <4>2
    <3>2. CASE k # 1
      <4>1. k - 1 \in 1..L  BY <3>2, <1>1
      <4> QED  BY <3>2, <4>1, <1>4
    <3> QED  BY <3>1, <3>2
  <2> QED  BY <2>1
<1>6. d = Body(d)
  <2> HIDE DEF Body, g
  <2> QED  BY <1>5
<1>7. L # 0 => FlattenSeq(q) = d[L]  BY DEF FlattenSeq, L
<1>8. L = 0 => FlattenSeq(q) = <<>>
  <2>1. L = 0 => q = <<>>  BY DEF L
  <2> QED  BY <2>1 DEF FlattenSeq, L
<1> HIDE DEF d
<1> DEFINE h == [k \in 0..L |-> IF k = 0 THEN <<>> ELSE d[k]]
<1>9. \A k \in 1..L : d[k] = IF k = 1 THEN q[k] ELSE d[k - 1] \o q[k]
  <2>1. \A k \in 1..L : d[k] = Body(d)[k]  BY <1>6
  <2> QED  BY <2>1
<1>10. ASSUME NEW k \in 1..L PROVE h[k] = h[k - 1] \o q[k]
  <2>1. CASE k = 1
    <3>1. h[1] = q[1] /\ h[0] = <<>> /\ q[1] \in Seq(S)
      BY <2>1, <1>1, <1>9
    <3>2. <<>> \o q[1] = q[1]  BY <3>1, ConcatEmptySeq
    <3> HIDE DEF h
    <3>3. h[1 - 1] = <<>>  BY <3>1
    <3> QED  BY <2>1, <3>1, <3>2, <3>3
  <2>2. CASE k # 1
    <3>1. k - 1 \in 1..L /\ k - 1 # 0 /\ k # 0  BY <2>2, <1>1
    <3>2. h[k] = d[k] /\ h[k - 1] = d[k - 1]  BY <3>1, <1>1
    <3>3. d[k] = d[k - 1] \o q[k]  BY <2>2, <1>9
    <3> HIDE DEF h
    <3> QED  BY <3>2, <3>3
  <2> QED  BY <2>1, <2>2
<1>11. h[0] = <<>> /\ FlattenSeq(q) = h[L]  BY <1>1, <1>7, <1>8
<1>12. h = [k \in 0..L |-> h[k]]  OBVIOUS
<1> HIDE DEF h
<1>13. h \in [0..L -> Seq(S)]
  <2> DEFINE P == {k \in 0..L : h[k] \in Seq(S)}
  <2>1. 0 \in P
    <3>1. 0 \in 0..L  BY <1>1
    <3> QED  BY <3>1, <1>1, <1>11
  <2>2. ASSUME NEW k \in 1..L, k - 1 \in P PROVE k \in P
    <3>1. q[k] \in Seq(S) /\ h[k - 1] \in Seq(S)  BY <1>1, <2>2
    <3>2. h[k - 1] \o q[k] \in Seq(S)  BY <3>1, ConcatProperties
    <3>3. h[k] \in Seq(S)  BY <3>2, <1>10
    <3> QED  BY <3>3, <1>1
  <2>3. \A k \in 0..L : k \in P
    <3>1. \A k \in 1..L : k - 1 \in P => k \in P  BY <2>2
    <3> HIDE DEF P
    <3> QED  BY <1>1, <2>1, <3>1, Induction
  <2> QED  BY <2>3, <1>12
<1> QED  BY <1>10, <1>11, <1>13 DEF L

-----------------------------------------------------------------------------
(* Hex digits.                                                             *)

LEMMA DigitsOfByte ==
  ASSUME NEW c \in Bytes
  PROVE  /\ c \div 16 \in 0..15 /\ c % 16 \in 0..15
         /\ 16 * (c \div 16) + (c % 16) = c
BY DEF Bytes

LEMMA HexDigits ==
  ASSUME NEW s \in Seq(Bytes)
  PROVE  LET h == convert_string_to_hex(s) IN
         /\ h \in Seq(0..15) /\ Len(h) = 2 * Len(s)
         /\ \A j \in 1..Len(s) : /\ h[2 * j - 1] = s[j] \div 16
                                 /\ h[2 * j] = s[j] % 16
<1> DEFINE L == Len(s)
           q == [j \in 1..L |-> Hex(s[j])]
<1>1. L \in Nat /\ \A j \in 1..L : s[j] \in Bytes  BY ElementOfSeq
<1>2. ASSUME NEW j \in 1..L
      PROVE  /\ Hex(s[j]) \in Seq(0..15) /\ Len(Hex(s[j])) = 2
             /\ Hex(s[j])[1] = s[j] \div 16 /\ Hex(s[j])[2] = s[j] % 16
  <2>1. s[j] \in Bytes  BY <1>1
  <2>2. s[j] \div 16 \in 0..15 /\ s[j] % 16 \in 0..15  BY <2>1, DigitsOfByte
  <2> QED  BY <2>2 DEF Hex
<1>3. q \in Seq(Seq(0..15)) /\ Len(q) = L
  BY <1>1, <1>2, IsASeq
<1>4. \A j \in 1..L : /\ q[j] \in Seq(0..15) /\ Len(q[j]) = 2
                      /\ q[j][1] = s[j] \div 16 /\ q[j][2] = s[j] % 16
  BY <1>2
<1>5. convert_string_to_hex(s) = FlattenSeq(q)  BY DEF convert_string_to_hex
<1> HIDE DEF L, q
<1>6. PICK f \in [0..L -> Seq(0..15)] :
         /\ f[0] = <<>> /\ FlattenSeq(q) = f[L]
         /\ \A k \in 1..L : f[k] = f[k - 1] \o q[k]
  BY <1>3, FlattenSteps
<1> DEFINE Digits(k) == /\ Len(f[k]) = 2 * k
                        /\ \A j \in 1..k : /\ f[k][2 * j - 1] = s[j] \div 16
                                           /\ f[k][2 * j] = s[j] % 16
           P == {k \in 0..L : Digits(k)}
<1>7. 0 \in P
  <2>1. Len(f[0]) = 0  BY <1>6
  <2> QED  BY <2>1, <1>1
<1>8. ASSUME NEW k \in 1..L, k - 1 \in P PROVE k \in P
  <2> DEFINE a == f[k - 1]
             b == q[k]
  <2>1. a \in Seq(0..15) /\ b \in Seq(0..15)  BY <1>1, <1>4, <1>6
  <2>2. /\ Len(a) = 2 * (k - 1) /\ Len(b) = 2
        /\ b[1] = s[k] \div 16 /\ b[2] = s[k] % 16
        /\ \A j \in 1..(k - 1) : /\ a[2 * j - 1] = s[j] \div 16
                                 /\ a[2 * j] = s[j] % 16
    BY <1>4, <1>8
  <2>3. f[k] = a \o b  BY <1>6
  <2> HIDE DEF a, b
  <2>4. /\ Len(f[k]) = 2 * (k - 1) + 2
        /\ \A i \in 1..(2 * (k - 1) + 2) :
             f[k][i] = IF i <= 2 * (k - 1) THEN a[i] ELSE b[i - 2 * (k - 1)]
    <3> DEFINE S == 0..15
    <3>1. a \in Seq(S) /\ b \in Seq(S)  BY <2>1
    <3> HIDE DEF S
    <3>2. /\ Len(a \o b) = Len(a) + Len(b)
          /\ \A i \in 1..(Len(a) + Len(b)) :
               (a \o b)[i] = IF i <= Len(a) THEN a[i] ELSE b[i - Len(a)]
      BY <3>1, ConcatProperties
    <3> QED  BY <3>2, <2>2, <2>3
  <2>5. ASSUME NEW j \in 1..k
        PROVE  f[k][2 * j - 1] = s[j] \div 16 /\ f[k][2 * j] = s[j] % 16
    <3>1. CASE j = k
      <4>1. /\ f[k][2 * k - 1] = b[(2 * k - 1) - 2 * (k - 1)]
            /\ f[k][2 * k] = b[2 * k - 2 * (k - 1)]
        BY <2>4
      <4>2. (2 * k - 1) - 2 * (k - 1) = 1 /\ 2 * k - 2 * (k - 1) = 2  OBVIOUS
      <4> QED  BY <3>1, <4>1, <4>2, <2>2
    <3>2. CASE j \in 1..(k - 1)
      <4>1. f[k][2 * j - 1] = a[2 * j - 1] /\ f[k][2 * j] = a[2 * j]
        <5>1. /\ 2 * j - 1 \in 1..(2 * (k - 1) + 2) /\ 2 * j - 1 <= 2 * (k - 1)
              /\ 2 * j \in 1..(2 * (k - 1) + 2) /\ 2 * j <= 2 * (k - 1)
          BY <3>2
        <5> QED  BY <5>1, <2>4
      <4> QED  BY <3>2, <4>1, <2>2
    <3> QED  BY <3>1, <3>2
  <2>6. Len(f[k]) = 2 * k  BY <2>4
  <2> QED  BY <1>1, <2>5, <2>6
<1>9. L \in P
  <2>1. \A k \in 1..L : k - 1 \in P => k \in P  BY <1>8
  <2>2. L \in 0..L  BY <1>1
  <2> HIDE DEF P
  <2> QED  BY <1>1, <1>7, <2>1, <2>2, Induction
<1> QED  BY <1>1, <1>5, <1>6, <1>9 DEF L

\* An identifier comes back from me.info as it was.
LEMMA HexAndBack ==
  ASSUME NEW s \in Seq(Bytes)
  PROVE  convert_hex_to_bytes(convert_string_to_hex(s)) = s
<1> DEFINE h == convert_string_to_hex(s)
           L == Len(s)
           back == convert_hex_to_bytes(h)
<1>1. /\ Len(h) = 2 * L
      /\ \A j \in 1..L : h[2 * j - 1] = s[j] \div 16 /\ h[2 * j] = s[j] % 16
  BY HexDigits
<1>2. L \in Nat /\ (Len(h) + 1) \div 2 = L  BY <1>1
<1>3. back = [j \in 1..L |-> IF 2 * j <= 2 * L THEN 16 * h[2 * j - 1] + h[2 * j]
                             ELSE h[2 * j - 1]]
  BY <1>1, <1>2 DEF convert_hex_to_bytes
<1> HIDE DEF h, back
<1>4. ASSUME NEW j \in 1..L PROVE back[j] = s[j]
  <2>1. back[j] = 16 * h[2 * j - 1] + h[2 * j]  BY <1>2, <1>3
  <2>2. h[2 * j - 1] = s[j] \div 16 /\ h[2 * j] = s[j] % 16  BY <1>1
  <2>3. s[j] \in Bytes  BY ElementOfSeq
  <2>4. 16 * (s[j] \div 16) + (s[j] % 16) = s[j]  BY <2>3, DigitsOfByte
  <2> QED  BY <2>1, <2>2, <2>4
<1>5. back = [j \in 1..L |-> back[j]]  BY <1>3
<1>6. s = [j \in 1..L |-> s[j]]  OBVIOUS
<1> QED  BY <1>4, <1>5, <1>6 DEF back, h

-----------------------------------------------------------------------------
(* Names: padded, stripped and cut.                                        *)

LEMMA NameBytes ==
  ASSUME NEW s \in Seq(Chars)
  PROVE  /\ Len(s) \in Nat
         /\ \A j \in 1..Len(s) : s[j] \in Chars /\ s[j] \in Bytes /\ s[j] # 0
<1>1. \A j \in 1..Len(s) : s[j] \in Chars  BY ElementOfSeq
<1>2. \A c \in Chars : c \in Bytes /\ c # 0  BY DEF Chars, Bytes
<1> QED  BY <1>1, <1>2

LEMMA PaddedName ==
  ASSUME NEW s \in Seq(Chars), NEW size \in Nat, Len(s) <= size
  PROVE  /\ Padded(s, size) \in Seq(Bytes) /\ Len(Padded(s, size)) = size
         /\ \A j \in 1..size : Padded(s, size)[j] = IF j <= Len(s) THEN s[j]
                                                    ELSE 0
<1> DEFINE pad == [j \in 1..(size - Len(s)) |-> 0]
<1>1. Len(s) \in Nat /\ \A j \in 1..Len(s) : s[j] \in Bytes  BY NameBytes
<1>2. s \in Seq(Bytes)
  <2>1. s = [j \in 1..Len(s) |-> s[j]]  OBVIOUS
  <2> QED  BY <1>1, <2>1, IsASeq
<1>3. size - Len(s) \in Nat  BY <1>1
<1>4. pad \in Seq(Bytes) /\ Len(pad) = size - Len(s)
      /\ \A j \in 1..(size - Len(s)) : pad[j] = 0
  <2>1. 0 \in Bytes  BY DEF Bytes
  <2> QED  BY <1>3, <2>1, IsASeq
<1> HIDE DEF pad
<1>5. /\ s \o pad \in Seq(Bytes) /\ Len(s \o pad) = Len(s) + Len(pad)
      /\ \A i \in 1..(Len(s) + Len(pad)) :
           (s \o pad)[i] = IF i <= Len(s) THEN s[i] ELSE pad[i - Len(s)]
  BY <1>2, <1>4, ConcatProperties
<1>6. Padded(s, size) = s \o pad  BY DEF Padded, pad
<1>7. Len(s) + Len(pad) = size  BY <1>1, <1>4
<1>8. ASSUME NEW j \in 1..size
      PROVE  Padded(s, size)[j] = IF j <= Len(s) THEN s[j] ELSE 0
  <2>1. CASE j <= Len(s)  BY <2>1, <1>5, <1>6, <1>7
  <2>2. CASE ~(j <= Len(s))
    <3>1. j - Len(s) \in 1..(size - Len(s))  BY <2>2, <1>1
    <3> QED  BY <2>2, <3>1, <1>4, <1>5, <1>6, <1>7
  <2> QED  BY <2>1, <2>2
<1> QED  BY <1>5, <1>6, <1>7, <1>8

\* A name loses only its padding.
LEMMA PaddingStripped ==
  ASSUME NEW s \in Seq(Chars), NEW size \in Nat, Len(s) <= size
  PROVE  Stripped(Padded(s, size)) = s
<1> DEFINE p == Padded(s, size)
           q == [j \in 1..Len(p) |-> IF p[j] = 0 THEN <<>> ELSE <<p[j]>>]
           m == Len(s)
<1>1. m \in Nat /\ m <= size /\ \A j \in 1..m : s[j] \in Chars /\ s[j] # 0
  BY NameBytes
<1>2. Len(p) = size /\ \A j \in 1..size : p[j] = IF j <= m THEN s[j] ELSE 0
  BY PaddedName
<1>3. \A j \in 1..size : q[j] = IF j <= m THEN <<s[j]>> ELSE <<>>
  BY <1>1, <1>2
<1>4. Stripped(p) = FlattenSeq(q)  BY DEF Stripped
<1>5. q \in Seq(Seq(Chars)) /\ Len(q) = size
  <2>1. \A j \in 1..size : q[j] \in Seq(Chars)
    <3>1. ASSUME NEW j \in 1..size PROVE q[j] \in Seq(Chars)
      <4>1. CASE j <= m
        <5>0. j \in 1..m  BY <4>1, <1>1
        <5>1. q[j] = <<s[j]>> /\ s[j] \in Chars
          <6> HIDE DEF q
          <6> QED  BY <4>1, <5>0, <1>1, <1>3
        <5> HIDE DEF q
        <5> QED  BY <5>1
      <4>2. CASE ~(j <= m)
        <5>1. q[j] = <<>>  BY <4>2, <1>3
        <5> HIDE DEF q
        <5> QED  BY <5>1
      <4> QED  BY <4>1, <4>2
    <3> QED  BY <3>1
  <2>2. q = [j \in 1..size |-> q[j]]  BY <1>2
  <2> HIDE DEF q
  <2> QED  BY <2>1, <2>2, IsASeq
<1> HIDE DEF q, p
<1>6. PICK f \in [0..size -> Seq(Chars)] :
         /\ f[0] = <<>> /\ FlattenSeq(q) = f[size]
         /\ \A k \in 1..size : f[k] = f[k - 1] \o q[k]
  BY <1>5, FlattenSteps
<1> DEFINE Read(k) == /\ Len(f[k]) = IF k <= m THEN k ELSE m
                      /\ \A j \in 1..m : j <= k => f[k][j] = s[j]
           P == {k \in 0..size : Read(k)}
<1>7. 0 \in P
  <2>1. Len(f[0]) = 0  BY <1>6
  <2> QED  BY <2>1, <1>1
<1>8. ASSUME NEW k \in 1..size, k - 1 \in P PROVE k \in P
  <2> DEFINE a == f[k - 1]
  <2>1. a \in Seq(Chars) /\ q[k] \in Seq(Chars) /\ f[k] = a \o q[k]
    <3>1. q[k] \in Seq(Chars)  BY <1>5, ElementOfSeq
    <3>2. k - 1 \in 0..size  OBVIOUS
    <3> QED  BY <3>1, <3>2, <1>6
  <2>2. /\ Len(a) = IF k - 1 <= m THEN k - 1 ELSE m
        /\ \A j \in 1..m : j <= k - 1 => a[j] = s[j]
    BY <1>8
  <2> HIDE DEF a
  <2>3. CASE k <= m
    <3>1. q[k] = <<s[k]>>  BY <2>3, <1>3
    <3>2. Len(q[k]) = 1 /\ q[k][1] = s[k]  BY <3>1
    <3>3. Len(a) = k - 1  BY <2>2, <2>3, <1>1
    <3>4. /\ Len(f[k]) = Len(a) + Len(q[k])
          /\ \A i \in 1..(Len(a) + Len(q[k])) :
               f[k][i] = IF i <= Len(a) THEN a[i] ELSE q[k][i - Len(a)]
      BY <2>1, ConcatProperties
    <3>5. /\ Len(f[k]) = k
          /\ \A i \in 1..k : f[k][i] = IF i <= k - 1 THEN a[i] ELSE q[k][i - (k - 1)]
      BY <3>2, <3>3, <3>4
    <3>6. ASSUME NEW j \in 1..m, j <= k PROVE f[k][j] = s[j]
      <4>1. CASE j = k
        <5>1. j - (k - 1) = 1 /\ j \in 1..k /\ ~(j <= k - 1)  BY <4>1
        <5> QED  BY <4>1, <5>1, <3>2, <3>5
      <4>2. CASE j <= k - 1
        <5>1. j \in 1..k  BY <3>6
        <5> QED  BY <4>2, <5>1, <3>5, <2>2
      <4> QED  BY <3>6, <4>1, <4>2
    <3> QED  BY <2>3, <3>5, <3>6
  <2>4. CASE ~(k <= m)
    <3>1. q[k] = <<>>  BY <2>4, <1>3
    <3>2. f[k] = a  BY <3>1, <2>1, ConcatEmptySeq
    <3>3. Len(a) = m /\ \A j \in 1..m : a[j] = s[j]  BY <2>2, <2>4, <1>1
    <3> QED  BY <2>4, <3>2, <3>3
  <2> QED  BY <2>3, <2>4
<1>9. size \in P
  <2>1. \A k \in 1..size : k - 1 \in P => k \in P  BY <1>8
  <2>2. size \in 0..size  OBVIOUS
  <2> HIDE DEF P
  <2> QED  BY <1>7, <2>1, <2>2, Induction
<1>10. f[size] \in Seq(Chars) /\ Len(f[size]) = Len(s)
       /\ \A j \in 1..Len(s) : f[size][j] = s[j]
  BY <1>1, <1>6, <1>9
<1>12. f[size] = s  BY <1>10, SeqEqual
<1> QED  BY <1>4, <1>6, <1>12 DEF p

\* A string without zeros is not cut.
LEMMA NothingCut ==
  ASSUME NEW s \in Seq(Bytes), \A j \in 1..Len(s) : s[j] # 0
  PROVE  Cut(s) = s
BY DEF Cut

\* At the end of a name the zeros begin.
LEMMA PaddingCut ==
  ASSUME NEW s \in Seq(Chars), NEW size \in Nat, Len(s) < size
  PROVE  Cut(Padded(s, size)) = s
<1> DEFINE p == Padded(s, size)
           m == Len(s)
           zeros == {j \in 1..Len(p) : p[j] = 0}
           first == CHOOSE j \in zeros : \A k \in zeros : j <= k
<1>1. m \in Nat /\ m < size /\ \A j \in 1..m : s[j] # 0  BY NameBytes
<1>2. Len(p) = size /\ \A j \in 1..size : p[j] = IF j <= m THEN s[j] ELSE 0
  BY <1>1, PaddedName
<1>3. \A j \in zeros : j \in 1..size /\ m + 1 <= j  BY <1>1, <1>2
<1>4. m + 1 \in zeros  BY <1>1, <1>2
<1>5. Cut(p) = SubSeq(p, 1, first - 1)  BY <1>4 DEF Cut
<1> HIDE DEF p, zeros
<1>6. first = m + 1
  <2>1. first \in zeros /\ \A k \in zeros : first <= k  BY <1>3, <1>4
  <2>2. first \in 1..size /\ m + 1 <= first /\ first <= m + 1
    BY <2>1, <1>3, <1>4
  <2> QED  BY <1>1, <2>2
<1>7. Cut(p) = SubSeq(p, 1, m)
  <2>1. (m + 1) - 1 = m  BY <1>1
  <2> QED  BY <1>5, <1>6, <2>1
<1>8. \A j \in 1..m : p[j] = s[j] /\ p[j] \in Chars
  <2>1. \A j \in 1..m : s[j] \in Chars  BY NameBytes
  <2>2. \A j \in 1..m : j \in 1..size /\ j <= m  BY <1>1
  <2> QED  BY <1>2, <2>1, <2>2
<1>9. /\ SubSeq(p, 1, m) \in Seq(Chars)
      /\ Len(SubSeq(p, 1, m)) = IF 1 <= m THEN m - 1 + 1 ELSE 0
      /\ \A j \in 1..(m - 1 + 1) : SubSeq(p, 1, m)[j] = p[1 + j - 1]
  <2>1. 1 \in Int /\ m \in Int  BY <1>1
  <2> QED  BY <1>8, <2>1, SubSeqProperties
<1>10. /\ Len(SubSeq(p, 1, m)) = m
       /\ \A j \in 1..m : SubSeq(p, 1, m)[j] = s[j]
  BY <1>1, <1>8, <1>9
<1>12. SubSeq(p, 1, m) = s  BY <1>9, <1>10, SeqEqual
<1> QED  BY <1>7, <1>12 DEF p

LEMMA LastBackslash ==
  ASSUME NEW path \in Seq(Chars)
  PROVE  find_file_name(path) \in Seq(Chars)
<1> DEFINE L == Len(path)
           last == {j \in 1..L : path[j] = BACKSLASH} \cup {0}
           k == CHOOSE j \in last : \A m \in last : m <= j
           T == {L - j : j \in last}
<1>1. L \in Nat /\ last \subseteq 0..L  OBVIOUS
<1> HIDE DEF L
<1>2. \E j \in last : \A m \in last : m <= j
  <2>1. T \subseteq Nat /\ T # {} /\ \A m \in last : L - m \in T  BY <1>1
  <2>2. PICK t \in T : \A u \in T : t <= u
    <3> HIDE DEF T
    <3> QED  BY <2>1, LeastNumber
  <2>3. PICK j \in last : t = L - j  OBVIOUS
  <2>4. ASSUME NEW m \in last PROVE m <= j
    <3>1. L - j <= L - m  BY <2>1, <2>2, <2>3
    <3>2. m \in Int /\ j \in Int /\ L \in Int  BY <1>1
    <3> QED  BY <3>1, <3>2
  <2> QED  BY <2>4
<1>3. k \in last
  <2> HIDE DEF last
  <2> QED  BY <1>2
<1>4. find_file_name(path) = SubSeq(path, k + 1, L)
  BY DEF find_file_name, L
<1>5. k \in 0..L  BY <1>1, <1>3
<1> HIDE DEF k
<1>6. \A j \in (k + 1)..L : path[j] \in Chars
  <2>1. \A j \in (k + 1)..L : j \in 1..L  BY <1>1, <1>5
  <2>2. \A j \in 1..L : path[j] \in Chars  BY NameBytes DEF L
  <2> QED  BY <2>1, <2>2
<1>7. SubSeq(path, k + 1, L) \in Seq(Chars)
  <2>1. k + 1 \in Int /\ L \in Int  BY <1>1, <1>5
  <2> QED  BY <1>6, <2>1, SubSeqProperties
<1> QED  BY <1>4, <1>7

-----------------------------------------------------------------------------
(* Numbers, the least significant byte first.                              *)

LEMMA Powers ==
  ASSUME NEW j \in 1..4  PROVE 256^(j - 1) \in Nat \ {0}
<1>1. CASE j = 1  BY <1>1
<1>2. CASE j = 2  BY <1>2
<1>3. CASE j = 3  BY <1>3
<1>4. CASE j = 4  BY <1>4
<1> QED  BY <1>1, <1>2, <1>3, <1>4

LEMMA NumberBytes ==
  ASSUME NEW k \in Nat, NEW size \in 1..4
  PROVE  Number(k, size) \in Seq(Bytes) /\ Len(Number(k, size)) = size
<1> DEFINE b == [j \in 1..size |-> (k \div 256^(j - 1)) % 256]
<1>1. ASSUME NEW j \in 1..size PROVE b[j] \in Bytes
  <2>1. j \in 1..4  OBVIOUS
  <2>2. PICK w \in Nat \ {0} : w = 256^(j - 1)  BY <2>1, Powers
  <2>3. (k \div w) % 256 \in Bytes  BY DEF Bytes
  <2> QED  BY <2>2, <2>3
<1>2. b = [j \in 1..size |-> b[j]] /\ size \in Nat  OBVIOUS
<1>3. Number(k, size) = b  BY DEF Number
<1> HIDE DEF b
<1>4. b \in Seq(Bytes) /\ Len(b) = size  BY <1>1, <1>2, IsASeq
<1> QED  BY <1>3, <1>4

\* sum is what is read of a number after every byte.
Adds(sum, bytes) ==
  /\ sum[0] = 0 /\ NumberIn(bytes) = sum[Len(bytes)]
  /\ \A j \in 1..Len(bytes) : sum[j] = sum[j - 1] + bytes[j] * 256^(j - 1)

LEMMA NumberInSteps ==
  ASSUME NEW bytes \in Seq(Bytes), Len(bytes) <= 4
  PROVE  \E sum : Adds(sum, bytes)
<1> DEFINE L == Len(bytes)
           F == [j \in 1..L |-> [v \in Nat |-> v + bytes[j] * 256^(j - 1)]]
           Body(d) == [j \in 0..L |-> IF j = 0 THEN 0
                                      ELSE d[j - 1] + bytes[j] * 256^(j - 1)]
           d == CHOOSE d : d = Body(d)
<1>1. L \in Nat /\ 0 \in Nat /\ \A j \in 1..L : bytes[j] \in Bytes
  BY ElementOfSeq
<1>2. F \in [1..L -> [Nat -> Nat]]
  <2>1. ASSUME NEW j \in 1..L, NEW v \in Nat
        PROVE  v + bytes[j] * 256^(j - 1) \in Nat
    <3>1. bytes[j] \in Nat
      <4>1. \A c \in Bytes : c \in Nat  BY DEF Bytes
      <4> QED  BY <4>1, <1>1
    <3>2. 256^(j - 1) \in Nat
      <4>1. j \in 1..4  BY <1>1
      <4> QED  BY <4>1, Powers
    <3>3. \A u, w \in Nat : v + u * w \in Nat  OBVIOUS
    <3> QED  BY <3>1, <3>2, <3>3
  <2> QED  BY <2>1
<1>3. PICK f : Follows(f, Nat, 0, L, F)
  <2> HIDE DEF F, L
  <2> QED  BY <1>1, <1>2, Recursion
<1> HIDE DEF L
<1>4. /\ f \in [0..L -> Nat] /\ f[0] = 0
      /\ \A j \in 1..L : f[j] = f[j - 1] + bytes[j] * 256^(j - 1)
  <2>1. ASSUME NEW j \in 1..L
        PROVE  f[j] = f[j - 1] + bytes[j] * 256^(j - 1)
    <3>1. f[j - 1] \in Nat /\ f[j] = F[j][f[j - 1]]
      <4> HIDE DEF F
      <4> QED  BY <1>1, <1>3 DEF Follows
    <3> QED  BY <3>1
  <2> QED  BY <2>1, <1>3 DEF Follows
<1>5. f = Body(f)
  <2>1. ASSUME NEW j \in 0..L PROVE f[j] = Body(f)[j]
    <3>1. CASE j = 0  BY <3>1, <1>4
    <3>2. CASE j \in 1..L
      <4>1. j # 0  BY <3>2, <1>1
      <4> QED  BY <3>2, <4>1, <1>4
    <3> QED  BY <3>1, <3>2, <1>1
  <2> QED  BY <2>1, <1>4
<1>6. d = Body(d)
  <2> HIDE DEF Body
  <2> QED  BY <1>5
<1>7. NumberIn(bytes) = d[L]  BY DEF NumberIn, L
<1> HIDE DEF d
<1>8. \A j \in 0..L : d[j] = Body(d)[j]  BY <1>6
<1>9. d[0] = 0  BY <1>1, <1>8
<1>10. ASSUME NEW j \in 1..L PROVE d[j] = d[j - 1] + bytes[j] * 256^(j - 1)
  <2>1. j \in 0..L /\ j # 0  BY <1>1
  <2> QED  BY <2>1, <1>8
<1> QED  BY <1>7, <1>9, <1>10 DEF L, Adds

\* What was written is read: one, two or four bytes.
LEMMA NumberRead1 ==
  ASSUME NEW c \in Bytes  PROVE NumberIn(<<c>>) = c
<1> DEFINE b == <<c>>
<1>1. b \in Seq(Bytes) /\ Len(b) = 1 /\ b[1] = c  OBVIOUS
<1> HIDE DEF b
<1>2. PICK sum : Adds(sum, b)
  <2>1. Len(b) <= 4  BY <1>1
  <2> QED  BY <1>1, <2>1, NumberInSteps
<1>3. sum[0] = 0 /\ NumberIn(b) = sum[1]  BY <1>1, <1>2 DEF Adds
<1>4. sum[1] = sum[1 - 1] + b[1] * 256^(1 - 1)  BY <1>1, <1>2 DEF Adds
<1>5. sum[1] = 0 + c * 1  BY <1>1, <1>3, <1>4
<1>6. 0 + c * 1 = c  BY DEF Bytes
<1> QED  BY <1>3, <1>5, <1>6 DEF b

LEMMA NumberRead2 ==
  ASSUME NEW k \in Nat, k < 256 * 256  PROVE NumberIn(Number(k, 2)) = k
<1> DEFINE b == Number(k, 2)
<1>1. b \in Seq(Bytes) /\ Len(b) = 2
  <2>1. 2 \in 1..4  OBVIOUS
  <2> QED  BY <2>1, NumberBytes
<1>2. b[1] = k % 256 /\ b[2] = (k \div 256) % 256
  <2>1. 256^(1 - 1) = 1 /\ 256^(2 - 1) = 256 /\ k \div 1 = k  BY SMT
  <2>2. b[1] = (k \div 256^(1 - 1)) % 256 /\ b[2] = (k \div 256^(2 - 1)) % 256
    BY DEF Number
  <2> HIDE DEF b
  <2> QED  BY <2>1, <2>2
<1> HIDE DEF b
<1>3. PICK sum : Adds(sum, b)
  <2>1. Len(b) <= 4  BY <1>1
  <2> QED  BY <1>1, <2>1, NumberInSteps
<1>4. sum[0] = 0 /\ NumberIn(b) = sum[2]  BY <1>1, <1>3 DEF Adds
<1>5. /\ sum[1] = sum[1 - 1] + b[1] * 256^(1 - 1)
      /\ sum[2] = sum[2 - 1] + b[2] * 256^(2 - 1)
  BY <1>1, <1>3 DEF Adds
<1>6. PICK c, d \in Int : c = b[1] /\ d = b[2] /\ c + 256 * d = k
  <2>1. (k % 256) + 256 * ((k \div 256) % 256) = k  BY SMT
  <2> QED  BY <1>2, <2>1, SMT
<1>7. sum[1] = c  BY <1>4, <1>5, <1>6, SMT
<1>8. sum[2] = c + 256 * d  BY <1>5, <1>6, <1>7, SMT
<1>9. NumberIn(b) = k  BY <1>4, <1>6, <1>8
<1> QED  BY <1>9 DEF b

LEMMA NumberRead4 ==
  ASSUME NEW k \in Nat, k < 256^3  PROVE NumberIn(Number(k, 4)) = k
<1> DEFINE b == Number(k, 4)
<1>1. b \in Seq(Bytes) /\ Len(b) = 4
  <2>1. 4 \in 1..4  OBVIOUS
  <2> QED  BY <2>1, NumberBytes
<1>2. /\ b[1] = k % 256 /\ b[2] = (k \div 256) % 256
      /\ b[3] = (k \div 65536) % 256 /\ b[4] = (k \div 16777216) % 256
  <2>1. /\ 256^(1 - 1) = 1 /\ 256^(2 - 1) = 256 /\ k \div 1 = k
        /\ 256^(3 - 1) = 65536 /\ 256^(4 - 1) = 16777216
    BY SMT
  <2>2. /\ b[1] = (k \div 256^(1 - 1)) % 256 /\ b[2] = (k \div 256^(2 - 1)) % 256
        /\ b[3] = (k \div 256^(3 - 1)) % 256 /\ b[4] = (k \div 256^(4 - 1)) % 256
    BY SMT DEF Number
  <2> HIDE DEF b
  <2> QED  BY <2>1, <2>2, SMT
<1> HIDE DEF b
<1>3. PICK sum : Adds(sum, b)
  <2>1. Len(b) <= 4  BY <1>1
  <2> QED  BY <1>1, <2>1, NumberInSteps
<1>4. sum[0] = 0 /\ NumberIn(b) = sum[4]  BY <1>1, <1>3 DEF Adds
<1>5. /\ sum[1] = sum[1 - 1] + b[1] * 256^(1 - 1)
      /\ sum[2] = sum[2 - 1] + b[2] * 256^(2 - 1)
      /\ sum[3] = sum[3 - 1] + b[3] * 256^(3 - 1)
      /\ sum[4] = sum[4 - 1] + b[4] * 256^(4 - 1)
  BY <1>1, <1>3 DEF Adds
<1>6. PICK c, d, e \in Int : /\ c = b[1] /\ d = b[2] /\ e = b[3] /\ b[4] = 0
                             /\ c + 256 * d + 65536 * e = k
  <2>1. (k % 256) + 256 * ((k \div 256) % 256)
          + 65536 * ((k \div 65536) % 256) = k
    BY SMT
  <2>2. (k \div 16777216) % 256 = 0  BY SMT
  <2> QED  BY <1>2, <2>1, <2>2, SMT
<1>7. sum[1] = c  BY <1>4, <1>5, <1>6, SMT
<1>8. sum[2] = c + 256 * d  BY <1>5, <1>6, <1>7, SMT
<1>9. sum[3] = c + 256 * d + 65536 * e  BY <1>5, <1>6, <1>8, SMT
<1>10. sum[4] = c + 256 * d + 65536 * e  BY <1>5, <1>6, <1>9, SMT
<1>11. NumberIn(b) = k  BY <1>4, <1>6, <1>10, SMT
<1> QED  BY <1>11 DEF b

-----------------------------------------------------------------------------
(* Where a field lies in a message.                                        *)

At(m, k, b) ==
  /\ k \in Nat /\ k + Len(b) <= Len(m)
  /\ \A j \in 1..Len(b) : m[k + j] = b[j]

LEMMA Concat ==
  ASSUME NEW a \in Seq(Bytes), NEW b \in Seq(Bytes)
  PROVE  a \o b \in Seq(Bytes) /\ Len(a \o b) = Len(a) + Len(b)
BY ConcatProperties

LEMMA AtFront ==
  ASSUME NEW a \in Seq(Bytes), NEW b \in Seq(Bytes)
  PROVE  At(a \o b, 0, a)
<1> DEFINE m == a \o b
<1>1. /\ Len(m) = Len(a) + Len(b)
      /\ \A i \in 1..(Len(a) + Len(b)) :
           m[i] = IF i <= Len(a) THEN a[i] ELSE b[i - Len(a)]
  BY ConcatProperties
<1>2. Len(a) \in Nat /\ Len(b) \in Nat  OBVIOUS
<1> HIDE DEF m
<1>3. At(m, 0, a)
  <2>1. ASSUME NEW j \in 1..Len(a) PROVE m[0 + j] = a[j]
    <3>1. j \in 1..(Len(a) + Len(b)) /\ j <= Len(a) /\ 0 + j = j  BY <1>2
    <3> QED  BY <3>1, <1>1
  <2> QED  BY <2>1, <1>1, <1>2 DEF At
<1> QED  BY <1>3 DEF m

LEMMA AtEnd ==
  ASSUME NEW a \in Seq(Bytes), NEW b \in Seq(Bytes)
  PROVE  At(a \o b, Len(a), b)
<1> DEFINE m == a \o b
<1>1. /\ Len(m) = Len(a) + Len(b)
      /\ \A i \in 1..(Len(a) + Len(b)) :
           m[i] = IF i <= Len(a) THEN a[i] ELSE b[i - Len(a)]
  BY ConcatProperties
<1>2. Len(a) \in Nat /\ Len(b) \in Nat  OBVIOUS
<1> HIDE DEF m
<1>3. At(m, Len(a), b)
  <2>1. ASSUME NEW j \in 1..Len(b) PROVE m[Len(a) + j] = b[j]
    <3>1. /\ Len(a) + j \in 1..(Len(a) + Len(b)) /\ ~(Len(a) + j <= Len(a))
          /\ (Len(a) + j) - Len(a) = j
      BY <1>2
    <3> QED  BY <3>1, <1>1
  <2> QED  BY <2>1, <1>1, <1>2 DEF At
<1> QED  BY <1>3 DEF m

\* A field of a part is a field of the whole.
LEMMA AtWithin ==
  ASSUME NEW m \in Seq(Bytes), NEW b \in Seq(Bytes), NEW c \in Seq(Bytes),
         NEW k, NEW j, At(m, k, b), At(b, j, c)
  PROVE  At(m, k + j, c)
<1>1. /\ k \in Nat /\ k + Len(b) <= Len(m) /\ \A h \in 1..Len(b) : m[k + h] = b[h]
      /\ j \in Nat /\ j + Len(c) <= Len(b) /\ \A h \in 1..Len(c) : b[j + h] = c[h]
  BY DEF At
<1>2. Len(m) \in Nat /\ Len(b) \in Nat /\ Len(c) \in Nat  OBVIOUS
<1>3. ASSUME NEW h \in 1..Len(c) PROVE m[(k + j) + h] = c[h]
  <2>1. j + h \in 1..Len(b) /\ (k + j) + h = k + (j + h)  BY <1>1, <1>2
  <2>2. m[k + (j + h)] = b[j + h]  BY <1>1, <2>1
  <2> QED  BY <1>1, <2>1, <2>2
<1>4. k + j \in Nat /\ (k + j) + Len(c) <= Len(m)  BY <1>1, <1>2
<1> QED  BY <1>3, <1>4 DEF At

\* What was found in front stays where it is.
LEMMA AtLonger ==
  ASSUME NEW a \in Seq(Bytes), NEW b \in Seq(Bytes), NEW c \in Seq(Bytes),
         NEW k, At(a, k, c)
  PROVE  At(a \o b, k, c)
<1>1. a \o b \in Seq(Bytes)  BY ConcatProperties
<1>2. At(a \o b, 0 + k, c)  BY <1>1, AtFront, AtWithin
<1>3. 0 + k = k  BY DEF At
<1> QED  BY <1>2, <1>3

\* Field cuts it out.
LEMMA FieldAt ==
  ASSUME message \in Seq(Bytes), NEW b \in Seq(Bytes), NEW k, At(message, k, b),
         NEW size, size = Len(b)
  PROVE  Field(k, size) = b
<1>1. /\ k \in Nat /\ k + size <= Len(message)
      /\ \A j \in 1..size : message[k + j] = b[j]
  BY DEF At
<1>2. size \in Nat /\ Len(message) \in Nat  OBVIOUS
<1>3. Field(k, size) = SubSeq(message, k + 1, k + size)
  <2>1. ~(k + size > Len(message))  BY <1>1, <1>2
  <2> QED  BY <2>1 DEF Field
<1> DEFINE f == SubSeq(message, k + 1, k + size)
<1>4. \A i \in (k + 1)..(k + size) : message[i] \in Bytes
  <2>1. \A i \in (k + 1)..(k + size) : i \in 1..Len(message)  BY <1>1, <1>2
  <2> QED  BY <2>1, ElementOfSeq
<1>5. /\ f \in Seq(Bytes)
      /\ Len(f) = IF k + 1 <= k + size THEN (k + size) - (k + 1) + 1 ELSE 0
      /\ \A i \in 1..((k + size) - (k + 1) + 1) :
           f[i] = message[(k + 1) + i - 1]
  <2>1. k + 1 \in Int /\ k + size \in Int  BY <1>1, <1>2
  <2> QED  BY <1>4, <2>1, SubSeqProperties
<1> HIDE DEF f
<1>6. (k + size) - (k + 1) + 1 = size  BY <1>1, <1>2
<1>7. Len(f) = size  BY <1>1, <1>2, <1>5, <1>6
<1>8. ASSUME NEW i \in 1..size PROVE f[i] = b[i]
  <2>1. (k + 1) + i - 1 = k + i  BY <1>1, <1>2
  <2> QED  BY <2>1, <1>1, <1>5, <1>6
<1>9. f = b  BY <1>5, <1>7, <1>8, SeqEqual
<1> QED  BY <1>3, <1>9 DEF f

-----------------------------------------------------------------------------
(* The header of a request.                                                *)

LEMMA RequestParts ==
  ASSUME NEW cid \in Seq(Bytes), Len(cid) = ID_SIZE, NEW code \in Nat,
         NEW payload \in Seq(Bytes)
  PROVE  LET m == Request(cid, code, payload) IN
         /\ m \in Seq(Bytes)
         /\ At(m, 0, cid)
         /\ At(m, ID_SIZE, <<VERSION>>)
         /\ At(m, ID_SIZE + 1, Number(code, 2))
         /\ At(m, ID_SIZE + 3, Number(Len(payload), 4))
         /\ At(m, HeaderSize, payload)
<1> DEFINE v == <<VERSION>>
           c == Number(code, 2)
           z == Number(Len(payload), 4)
           a1 == cid \o v
           a2 == a1 \o c
           a3 == a2 \o z
           m == a3 \o payload
<1>1. v \in Seq(Bytes) /\ Len(v) = 1
  <2>1. VERSION \in Bytes  BY DEF VERSION, Bytes
  <2> QED  BY <2>1
<1>2. c \in Seq(Bytes) /\ Len(c) = 2
  <2>1. 2 \in 1..4  OBVIOUS
  <2> QED  BY <2>1, NumberBytes
<1>3. z \in Seq(Bytes) /\ Len(z) = 4
  <2>1. 4 \in 1..4 /\ Len(payload) \in Nat  OBVIOUS
  <2> QED  BY <2>1, NumberBytes
<1>4. Request(cid, code, payload) = m  BY DEF Request
<1> HIDE DEF v, c, z
<1>5. ID_SIZE \in Nat  BY FieldsAssumption
<1>6. a1 \in Seq(Bytes) /\ Len(a1) = ID_SIZE + 1
  BY <1>1, Concat
<1>7. At(a1, 0, cid) /\ At(a1, ID_SIZE, v)  BY <1>1, AtFront, AtEnd
<1> HIDE DEF a1
<1>8. a2 \in Seq(Bytes) /\ Len(a2) = ID_SIZE + 3
  <2>1. a2 \in Seq(Bytes) /\ Len(a2) = (ID_SIZE + 1) + 2
    BY <1>2, <1>6, Concat
  <2> HIDE DEF a2
  <2> QED  BY <2>1, <1>5
<1>9. At(a2, 0, cid) /\ At(a2, ID_SIZE, v) /\ At(a2, ID_SIZE + 1, c)
  <2>1. At(a2, 0, cid)  BY <1>2, <1>6, <1>7, AtLonger
  <2>2. At(a2, ID_SIZE, v)  BY <1>1, <1>2, <1>6, <1>7, AtLonger
  <2>3. At(a2, ID_SIZE + 1, c)  BY <1>2, <1>6, AtEnd
  <2> QED  BY <2>1, <2>2, <2>3
<1> HIDE DEF a2
<1>10. a3 \in Seq(Bytes) /\ Len(a3) = ID_SIZE + 7
  <2>1. a3 \in Seq(Bytes) /\ Len(a3) = (ID_SIZE + 3) + 4
    BY <1>3, <1>8, Concat
  <2> HIDE DEF a3
  <2> QED  BY <2>1, <1>5
<1>11. /\ At(a3, 0, cid) /\ At(a3, ID_SIZE, v) /\ At(a3, ID_SIZE + 1, c)
       /\ At(a3, ID_SIZE + 3, z)
  <2>1. At(a3, 0, cid)  BY <1>3, <1>8, <1>9, AtLonger
  <2>2. At(a3, ID_SIZE, v)  BY <1>1, <1>3, <1>8, <1>9, AtLonger
  <2>3. At(a3, ID_SIZE + 1, c)  BY <1>2, <1>3, <1>8, <1>9, AtLonger
  <2>4. At(a3, ID_SIZE + 3, z)  BY <1>3, <1>8, AtEnd
  <2> QED  BY <2>1, <2>2, <2>3, <2>4
<1> HIDE DEF a3
<1>12. m \in Seq(Bytes)  BY <1>10, Concat
<1>13. At(m, 0, cid)  BY <1>10, <1>11, AtLonger
<1>14. At(m, ID_SIZE, v)  BY <1>1, <1>10, <1>11, AtLonger
<1>15. At(m, ID_SIZE + 1, c)  BY <1>2, <1>10, <1>11, AtLonger
<1>16. At(m, ID_SIZE + 3, z)  BY <1>3, <1>10, <1>11, AtLonger
<1>17. At(m, HeaderSize, payload)  BY <1>10, AtEnd DEF HeaderSize
<1> HIDE DEF m
<1> QED  BY <1>4, <1>12, <1>13, <1>14, <1>15, <1>16, <1>17 DEF v, c, z

\* getHeader reads the header that was written.
LEMMA HeadingRead ==
  ASSUME NEW cid \in Seq(Bytes), Len(cid) = ID_SIZE,
         NEW code \in Nat, code < 256 * 256,
         NEW payload \in Seq(Bytes), Len(payload) < 256^3,
         message = Request(cid, code, payload)
  PROVE  Heading = [client_id |-> cid, version |-> VERSION, code |-> code,
                    payload_size |-> Len(payload)]
<1> DEFINE v == <<VERSION>>
           c == Number(code, 2)
           z == Number(Len(payload), 4)
<1>1. VERSION \in Bytes  BY DEF VERSION, Bytes
<1>2. /\ message \in Seq(Bytes)
      /\ At(message, 0, cid) /\ At(message, ID_SIZE, v)
      /\ At(message, ID_SIZE + 1, c) /\ At(message, ID_SIZE + 3, z)
  BY RequestParts
<1>3. v \in Seq(Bytes) /\ Len(v) = 1  BY <1>1
<1>4. c \in Seq(Bytes) /\ Len(c) = 2
  <2>1. 2 \in 1..4  OBVIOUS
  <2> QED  BY <2>1, NumberBytes
<1>5. z \in Seq(Bytes) /\ Len(z) = 4
  <2>1. 4 \in 1..4 /\ Len(payload) \in Nat  OBVIOUS
  <2> QED  BY <2>1, NumberBytes
<1>6. NumberIn(v) = VERSION  BY <1>1, NumberRead1
<1>7. NumberIn(c) = code  BY NumberRead2
<1>8. NumberIn(z) = Len(payload)
  <2>1. Len(payload) \in Nat  OBVIOUS
  <2> QED  BY <2>1, NumberRead4
<1> HIDE DEF v, c, z
<1>9. Field(0, ID_SIZE) = cid  BY <1>2, FieldAt
<1>10. Field(ID_SIZE, 1) = v  BY <1>2, <1>3, FieldAt
<1>11. Field(ID_SIZE + 1, 2) = c  BY <1>2, <1>4, FieldAt
<1>12. Field(ID_SIZE + 3, 4) = z  BY <1>2, <1>5, FieldAt
<1> QED  BY <1>6, <1>7, <1>8, <1>9, <1>10, <1>11, <1>12 DEF Heading

-----------------------------------------------------------------------------
(* The payload of the packet, and what is answered.                        *)

PacketOf(name, c) ==
  LET size == Number(Len(c), 4) IN
  size \o size \o Number(1, 2) \o Number(1, 2) \o Padded(name, NAME_SIZE) \o c

AnswerOf(cid, c, name) ==
  cid \o Number(Len(c), 4) \o Padded(name, NAME_SIZE)

LEMMA PacketParts ==
  ASSUME NEW name \in Seq(Chars), Len(name) <= NAME_SIZE, NEW c \in Seq(Bytes)
  PROVE  LET p == PacketOf(name, c)
             size == Number(Len(c), 4)
         IN
         /\ p \in Seq(Bytes) /\ Len(p) = 12 + NAME_SIZE + Len(c)
         /\ At(p, 0, size) /\ At(p, 4, size)
         /\ At(p, 8, Number(1, 2)) /\ At(p, 10, Number(1, 2))
         /\ At(p, 12, Padded(name, NAME_SIZE)) /\ At(p, 12 + NAME_SIZE, c)
<1> DEFINE z == Number(Len(c), 4)
           n == Number(1, 2)
           d == Padded(name, NAME_SIZE)
           a2 == z \o z
           a3 == a2 \o n
           a4 == a3 \o n
           a5 == a4 \o d
           p == a5 \o c
<1>1. NAME_SIZE \in Nat /\ Len(c) \in Nat  BY FieldsAssumption
<1>2. z \in Seq(Bytes) /\ Len(z) = 4
  <2>1. 4 \in 1..4  OBVIOUS
  <2> QED  BY <1>1, <2>1, NumberBytes
<1>3. n \in Seq(Bytes) /\ Len(n) = 2
  <2>1. 2 \in 1..4 /\ 1 \in Nat  OBVIOUS
  <2> QED  BY <2>1, NumberBytes
<1>4. d \in Seq(Bytes) /\ Len(d) = NAME_SIZE  BY <1>1, PaddedName
<1>5. PacketOf(name, c) = p  BY DEF PacketOf
<1> HIDE DEF z, n, d
<1>6. a2 \in Seq(Bytes) /\ Len(a2) = 8 /\ At(a2, 0, z) /\ At(a2, 4, z)
  <2>1. a2 \in Seq(Bytes) /\ Len(a2) = 4 + 4  BY <1>2, Concat
  <2>2. At(a2, 0, z) /\ At(a2, 4, z)  BY <1>2, AtFront, AtEnd
  <2> HIDE DEF a2
  <2> QED  BY <2>1, <2>2
<1> HIDE DEF a2
<1>7. a3 \in Seq(Bytes) /\ Len(a3) = 10
  <2>1. a3 \in Seq(Bytes) /\ Len(a3) = 8 + 2  BY <1>3, <1>6, Concat
  <2> HIDE DEF a3
  <2> QED  BY <2>1
<1>8. At(a3, 0, z) /\ At(a3, 4, z) /\ At(a3, 8, n)
  <2>1. At(a3, 0, z)  BY <1>2, <1>3, <1>6, AtLonger
  <2>2. At(a3, 4, z)  BY <1>2, <1>3, <1>6, AtLonger
  <2>3. At(a3, 8, n)  BY <1>3, <1>6, AtEnd
  <2> QED  BY <2>1, <2>2, <2>3
<1> HIDE DEF a3
<1>9. a4 \in Seq(Bytes) /\ Len(a4) = 12
  <2>1. a4 \in Seq(Bytes) /\ Len(a4) = 10 + 2  BY <1>3, <1>7, Concat
  <2> HIDE DEF a4
  <2> QED  BY <2>1
<1>10. At(a4, 0, z) /\ At(a4, 4, z) /\ At(a4, 8, n) /\ At(a4, 10, n)
  <2>1. At(a4, 0, z)  BY <1>2, <1>3, <1>7, <1>8, AtLonger
  <2>2. At(a4, 4, z)  BY <1>2, <1>3, <1>7, <1>8, AtLonger
  <2>3. At(a4, 8, n)  BY <1>3, <1>7, <1>8, AtLonger
  <2>4. At(a4, 10, n)  BY <1>3, <1>7, AtEnd
  <2> QED  BY <2>1, <2>2, <2>3, <2>4
<1> HIDE DEF a4
<1>11. a5 \in Seq(Bytes) /\ Len(a5) = 12 + NAME_SIZE
  BY <1>4, <1>9, Concat
<1>12. /\ At(a5, 0, z) /\ At(a5, 4, z) /\ At(a5, 8, n) /\ At(a5, 10, n)
       /\ At(a5, 12, d)
  <2>1. At(a5, 0, z)  BY <1>2, <1>4, <1>9, <1>10, AtLonger
  <2>2. At(a5, 4, z)  BY <1>2, <1>4, <1>9, <1>10, AtLonger
  <2>3. At(a5, 8, n)  BY <1>3, <1>4, <1>9, <1>10, AtLonger
  <2>4. At(a5, 10, n)  BY <1>3, <1>4, <1>9, <1>10, AtLonger
  <2>5. At(a5, 12, d)  BY <1>4, <1>9, AtEnd
  <2> QED  BY <2>1, <2>2, <2>3, <2>4, <2>5
<1> HIDE DEF a5
<1>13. p \in Seq(Bytes) /\ Len(p) = 12 + NAME_SIZE + Len(c)
  BY <1>11, Concat
<1>14. At(p, 0, z)  BY <1>2, <1>11, <1>12, AtLonger
<1>15. At(p, 4, z)  BY <1>2, <1>11, <1>12, AtLonger
<1>16. At(p, 8, n)  BY <1>3, <1>11, <1>12, AtLonger
<1>17. At(p, 10, n)  BY <1>3, <1>11, <1>12, AtLonger
<1>18. At(p, 12, d)  BY <1>4, <1>11, <1>12, AtLonger
<1>19. At(p, 12 + NAME_SIZE, c)  BY <1>11, AtEnd
<1> HIDE DEF p
<1> QED
  BY <1>5, <1>13, <1>14, <1>15, <1>16, <1>17, <1>18, <1>19 DEF z, n, d

LEMMA AnswerParts ==
  ASSUME NEW cid \in Seq(Bytes), Len(cid) = ID_SIZE, NEW c \in Seq(Bytes),
         NEW name \in Seq(Chars), Len(name) <= NAME_SIZE
  PROVE  LET m == AnswerOf(cid, c, name) IN
         /\ m \in Seq(Bytes)
         /\ At(m, 0, cid) /\ At(m, ID_SIZE, Number(Len(c), 4))
         /\ At(m, ID_SIZE + 4, Padded(name, NAME_SIZE))
<1> DEFINE z == Number(Len(c), 4)
           d == Padded(name, NAME_SIZE)
           a == cid \o z
           m == a \o d
<1>1. NAME_SIZE \in Nat /\ ID_SIZE \in Nat /\ Len(c) \in Nat
  BY FieldsAssumption
<1>2. z \in Seq(Bytes) /\ Len(z) = 4
  <2>1. 4 \in 1..4  OBVIOUS
  <2> QED  BY <1>1, <2>1, NumberBytes
<1>3. d \in Seq(Bytes) /\ Len(d) = NAME_SIZE  BY <1>1, PaddedName
<1>4. AnswerOf(cid, c, name) = m  BY DEF AnswerOf
<1> HIDE DEF z, d
<1>5. a \in Seq(Bytes) /\ Len(a) = ID_SIZE + 4  BY <1>2, Concat
<1>6. At(a, 0, cid) /\ At(a, ID_SIZE, z)  BY <1>2, AtFront, AtEnd
<1> HIDE DEF a
<1>7. m \in Seq(Bytes)  BY <1>3, <1>5, Concat
<1>8. At(m, 0, cid)  BY <1>3, <1>5, <1>6, AtLonger
<1>9. At(m, ID_SIZE, z)  BY <1>2, <1>3, <1>5, <1>6, AtLonger
<1>10. At(m, ID_SIZE + 4, d)  BY <1>3, <1>5, AtEnd
<1> HIDE DEF m
<1> QED  BY <1>4, <1>7, <1>8, <1>9, <1>10 DEF z, d

-----------------------------------------------------------------------------
(* One client comes back and sends a file.                                 *)

FieldsInv ==
  /\ id \in Ids /\ content \in Contents
  /\ pc # "registered" =>
       \E name \in ClientNames : me_info = <<name, convert_string_to_hex(id)>>
  /\ client = [name |-> client.name, file_name |-> client.file_name,
               id |-> client.id]
  /\ client.name \in Seq(Chars) /\ client.file_name \in Seq(Chars)
  /\ pc \in {"named", "reconnecting", "reconnected", "sending", "answered"} =>
       Len(client.name) <= MAX_SIZE /\ Len(client.file_name) < NAME_SIZE
  /\ pc \in {"reconnecting", "reconnected", "sending", "answered"} =>
       client.id = id
  /\ pc = "reconnecting" =>
       message = Request(id, 827, Padded(client.name, NAME_SIZE))
  /\ pc = "sending" =>
       message = Request(id, 828, PacketOf(client.file_name, content))
  /\ pc = "answered" => message = AnswerOf(id, content, client.file_name)
  /\ RequestUnderstood /\ TurnedAwayRightly

LEMMA Sizes ==
  /\ ID_SIZE \in Nat /\ NAME_SIZE \in Nat /\ MAX_SIZE \in Nat
  /\ MAX_SIZE < NAME_SIZE
BY FieldsAssumption

LEMMA IdBytes ==
  ASSUME NEW u \in Ids  PROVE u \in Seq(Bytes) /\ Len(u) = ID_SIZE
<1>1. u \in [1..ID_SIZE -> Bytes] /\ ID_SIZE \in Nat
  BY FieldsAssumption DEF Bytes
<1> QED  BY <1>1

LEMMA NamesOfConstants ==
  /\ \A name \in ClientNames : name \in Seq(Chars)
  /\ \A path \in Paths : path \in Seq(Chars)
  /\ \A c \in Contents : c \in Seq(Bytes)
BY FieldsAssumption DEF Chars, Bytes

LEMMA ContentSize ==
  ASSUME NEW c \in Contents
  PROVE  /\ Len(c) \in Nat /\ 12 + NAME_SIZE + Len(c) < 256^3
         /\ Len(c) < 256^3 /\ NAME_SIZE < 256^3
<1>1. c \in Seq(Bytes)  BY NamesOfConstants
<1>2. Len(c) \in Nat  BY <1>1
<1>3. 12 + NAME_SIZE + Len(c) < 256^3  BY FieldsAssumption
<1>4. PICK top : top = 256^3 /\ top \in Nat  BY SMT
<1>5. Len(c) < top /\ NAME_SIZE < top  BY <1>2, <1>3, <1>4, Sizes
<1> QED  BY <1>2, <1>3, <1>4, <1>5

LEMMA InvInit == Init => FieldsInv
<1> SUFFICES ASSUME Init PROVE FieldsInv  OBVIOUS
<1>1. /\ pc = "registered" /\ id \in Ids /\ content \in Contents
      /\ client = [name |-> <<>>, file_name |-> <<>>, id |-> <<>>]
  BY DEF Init
<1>2. /\ client.name = <<>> /\ client.file_name = <<>> /\ client.id = <<>>
      /\ <<>> \in Seq(Chars)
  BY <1>1
<1>3. RequestUnderstood  BY <1>1 DEF RequestUnderstood
<1>4. TurnedAwayRightly  BY <1>1 DEF TurnedAwayRightly
<1> QED  BY <1>1, <1>2, <1>3, <1>4 DEF FieldsInv

LEMMA InvCreate == FieldsInv /\ create_me_info => FieldsInv'
<1> SUFFICES ASSUME FieldsInv, create_me_info PROVE FieldsInv'  OBVIOUS
<1>1. /\ pc' = "saved" /\ id' = id /\ client' = client /\ content' = content
      /\ \E name \in ClientNames : me_info' = <<name, convert_string_to_hex(id)>>
  BY DEF create_me_info
<1>2. /\ id \in Ids /\ content \in Contents
      /\ client = [name |-> client.name, file_name |-> client.file_name,
                   id |-> client.id]
      /\ client.name \in Seq(Chars) /\ client.file_name \in Seq(Chars)
  BY DEF FieldsInv
<1>3. RequestUnderstood'  BY <1>1 DEF RequestUnderstood
<1>4. TurnedAwayRightly'  BY <1>1 DEF TurnedAwayRightly
<1> QED  BY <1>1, <1>2, <1>3, <1>4 DEF FieldsInv

LEMMA InvTransfer == FieldsInv /\ read_transfer => FieldsInv'
<1> SUFFICES ASSUME FieldsInv, read_transfer PROVE FieldsInv'  OBVIOUS
<1>1. /\ pc = "saved" /\ id' = id /\ me_info' = me_info /\ content' = content
      /\ message' = message /\ got' = got
  BY DEF read_transfer
<1>2. PICK name \in ClientNames, path \in Paths :
        LET file_name == find_file_name(path) IN
        /\ pc' = IF Len(name) > MAX_SIZE \/ Len(file_name) = NAME_SIZE
                 THEN "refused"
                 ELSE IF Len(file_name) + 1 > NAME_SIZE THEN "aborted"
                 ELSE "named"
        /\ client' = [client EXCEPT !.name = name, !.file_name = file_name]
  BY DEF read_transfer
<1>3. PICK f : f = find_file_name(path) /\ f \in Seq(Chars)
  BY NamesOfConstants, LastBackslash
<1>4. /\ client = [name |-> client.name, file_name |-> client.file_name,
                   id |-> client.id]
      /\ id \in Ids /\ content \in Contents
      /\ \E n \in ClientNames : me_info = <<n, convert_string_to_hex(id)>>
  BY <1>1 DEF FieldsInv
<1>5. client' = [name |-> name, file_name |-> f, id |-> client.id]
  BY <1>2, <1>3, <1>4
<1>6. name \in Seq(Chars)  BY NamesOfConstants
<1>7. Len(name) \in Nat /\ Len(f) \in Nat  BY <1>3, <1>6
<1>8. pc' = IF Len(name) > MAX_SIZE \/ Len(f) = NAME_SIZE THEN "refused"
            ELSE IF Len(f) + 1 > NAME_SIZE THEN "aborted" ELSE "named"
  BY <1>2, <1>3
<1>9. client'.name = name /\ client'.file_name = f /\ client'.id = client.id
  BY <1>5
<1>10. /\ pc' \in {"refused", "aborted", "named"}
       /\ pc' = "named" => Len(name) <= MAX_SIZE /\ Len(f) < NAME_SIZE
       /\ pc' \in {"refused", "aborted"} =>
            Len(name) > MAX_SIZE \/ Len(f) >= NAME_SIZE
  BY <1>7, <1>8, Sizes
<1>11. RequestUnderstood'  BY <1>10 DEF RequestUnderstood
<1>12. TurnedAwayRightly'  BY <1>9, <1>10 DEF TurnedAwayRightly
<1>13. client' = [name |-> client'.name, file_name |-> client'.file_name,
                  id |-> client'.id]
  BY <1>5, <1>9
<1> QED  BY <1>1, <1>3, <1>4, <1>6, <1>9, <1>10, <1>11, <1>12, <1>13
         DEF FieldsInv

\* The identifier comes back from me.info, so its length is never wrong.
LEMMA InvReconnection == FieldsInv /\ reconnection => FieldsInv'
<1> SUFFICES ASSUME FieldsInv, reconnection PROVE FieldsInv'  OBVIOUS
<1> DEFINE read == convert_hex_to_bytes(me_info[2])
<1>1. /\ pc = "named" /\ id' = id /\ me_info' = me_info /\ content' = content
      /\ got' = got
  BY DEF reconnection
<1>2. /\ client = [name |-> client.name, file_name |-> client.file_name,
                   id |-> client.id]
      /\ client.name \in Seq(Chars) /\ client.file_name \in Seq(Chars)
      /\ Len(client.name) <= MAX_SIZE /\ Len(client.file_name) < NAME_SIZE
      /\ id \in Ids /\ content \in Contents
  BY <1>1 DEF FieldsInv
<1>3. PICK name \in ClientNames : me_info = <<name, convert_string_to_hex(id)>>
  BY <1>1 DEF FieldsInv
<1>4. read = id /\ Len(read) = ID_SIZE
  <2>1. me_info[2] = convert_string_to_hex(id)  BY <1>3
  <2>2. id \in Seq(Bytes) /\ Len(id) = ID_SIZE  BY <1>2, IdBytes
  <2> QED  BY <2>1, <2>2, HexAndBack
<1> HIDE DEF read
<1>5. IF client.name # me_info[1] \/ Len(read) # ID_SIZE
      THEN pc' = "refused" /\ UNCHANGED <<client, message>>
      ELSE /\ pc' = "reconnecting"
           /\ client' = [client EXCEPT !.id = read]
           /\ message' = Request(read, 827, Padded(client.name, NAME_SIZE))
  BY DEF reconnection, read
<1>6. CASE client.name # me_info[1]
  <2>1. pc' = "refused" /\ client' = client  BY <1>5, <1>6
  <2> QED  BY <1>1, <1>2, <1>3, <1>6, <2>1
           DEF FieldsInv, RequestUnderstood, TurnedAwayRightly
<1>7. CASE client.name = me_info[1]
  <2>1. /\ pc' = "reconnecting"
        /\ client' = [client EXCEPT !.id = id]
        /\ message' = Request(id, 827, Padded(client.name, NAME_SIZE))
    BY <1>4, <1>5, <1>7
  <2>2. client' = [name |-> client.name, file_name |-> client.file_name,
                   id |-> id]
    BY <1>2, <2>1
  <2>3. /\ client'.name = client.name /\ client'.id = id
        /\ client'.file_name = client.file_name
    BY <2>2
  <2> QED  BY <1>1, <1>2, <1>3, <2>1, <2>2, <2>3
           DEF FieldsInv, RequestUnderstood, TurnedAwayRightly
<1> QED  BY <1>6, <1>7

LEMMA InvReadReconnection == FieldsInv /\ read_reconnection => FieldsInv'
<1> SUFFICES ASSUME FieldsInv, read_reconnection PROVE FieldsInv'  OBVIOUS
<1>1. /\ pc = "reconnecting" /\ pc' = "reconnected" /\ id' = id
      /\ me_info' = me_info /\ client' = client /\ content' = content
      /\ got' = <<Heading, Stripped(Field(HeaderSize, NAME_SIZE))>>
  BY DEF read_reconnection
<1>2. /\ client.name \in Seq(Chars) /\ Len(client.name) <= MAX_SIZE
      /\ id \in Ids /\ content \in Contents
      /\ message = Request(id, 827, Padded(client.name, NAME_SIZE))
  BY <1>1 DEF FieldsInv
<1> DEFINE p == Padded(client.name, NAME_SIZE)
<1>3. Len(client.name) <= NAME_SIZE
  <2>1. Len(client.name) \in Nat  BY <1>2
  <2> QED  BY <1>2, <2>1, Sizes
<1>4. p \in Seq(Bytes) /\ Len(p) = NAME_SIZE /\ Stripped(p) = client.name
  BY <1>2, <1>3, Sizes, PaddedName, PaddingStripped
<1>5. id \in Seq(Bytes) /\ Len(id) = ID_SIZE  BY <1>2, IdBytes
<1>6. NAME_SIZE < 256^3  BY <1>2, ContentSize
<1>7. message = Request(id, 827, p)  BY <1>2
<1> HIDE DEF p
<1>8. Heading = Meant(827, NAME_SIZE)
  <2>1. 827 \in Nat /\ 827 < 256 * 256  BY SMT
  <2> QED  BY <1>4, <1>5, <1>6, <1>7, <2>1, HeadingRead DEF Meant
<1>9. Field(HeaderSize, NAME_SIZE) = p
  <2>1. 827 \in Nat  OBVIOUS
  <2>2. message \in Seq(Bytes) /\ At(message, HeaderSize, p)
    BY <1>4, <1>5, <1>7, <2>1, RequestParts
  <2> QED  BY <1>4, <2>2, FieldAt
<1>10. got' = <<Meant(827, NAME_SIZE), client.name>>
  BY <1>1, <1>4, <1>8, <1>9
<1>11. RequestUnderstood'
  BY <1>1, <1>10 DEF RequestUnderstood, Meant
<1> QED  BY <1>1, <1>11 DEF FieldsInv, TurnedAwayRightly

LEMMA InvSend == FieldsInv /\ send_packet => FieldsInv'
<1> SUFFICES ASSUME FieldsInv, send_packet PROVE FieldsInv'  OBVIOUS
<1>1. /\ pc = "reconnected" /\ pc' = "sending" /\ id' = id
      /\ me_info' = me_info /\ client' = client /\ content' = content
      /\ message' = Request(client.id, 828, PacketOf(client.file_name, content))
  BY DEF send_packet, PacketOf
<1>2. client.id = id  BY <1>1 DEF FieldsInv
<1> QED  BY <1>1, <1>2 DEF FieldsInv, RequestUnderstood, TurnedAwayRightly

LEMMA InvReadPacket == FieldsInv /\ read_packet => FieldsInv'
<1> SUFFICES ASSUME FieldsInv, read_packet PROVE FieldsInv'  OBVIOUS
<1> DEFINE f == HeaderSize
           size == NumberIn(Field(f, 4))
           name == Stripped(Field(f + 12, NAME_SIZE))
           rest == Heading.payload_size - 12 - NAME_SIZE
           L == Len(content)
           p == PacketOf(client.file_name, content)
           z == Number(L, 4)
           one == Number(1, 2)
           d == Padded(client.file_name, NAME_SIZE)
<1>1. /\ pc = "sending" /\ pc' = "answered" /\ id' = id
      /\ me_info' = me_info /\ client' = client /\ content' = content
      /\ got' = <<Heading, size, NumberIn(Field(f + 4, 4)),
                  NumberIn(Field(f + 8, 2)), NumberIn(Field(f + 10, 2)), name,
                  Field(f + 12 + NAME_SIZE, rest)>>
      /\ message' = Heading.client_id \o Number(size, 4) \o Padded(name, NAME_SIZE)
  BY DEF read_packet
<1>2. /\ client.file_name \in Seq(Chars) /\ Len(client.file_name) < NAME_SIZE
      /\ id \in Ids /\ content \in Contents /\ message = Request(id, 828, p)
  BY <1>1 DEF FieldsInv
<1>3. id \in Seq(Bytes) /\ Len(id) = ID_SIZE  BY <1>2, IdBytes
<1>4. /\ content \in Seq(Bytes) /\ L \in Nat /\ 12 + NAME_SIZE + L < 256^3
      /\ L < 256^3
  BY <1>2, NamesOfConstants, ContentSize
<1>5. Len(client.file_name) <= NAME_SIZE
  <2>1. Len(client.file_name) \in Nat  BY <1>2
  <2> QED  BY <1>2, <2>1, Sizes
<1>6. /\ p \in Seq(Bytes) /\ Len(p) = 12 + NAME_SIZE + L
      /\ At(p, 0, z) /\ At(p, 4, z) /\ At(p, 8, one) /\ At(p, 10, one)
      /\ At(p, 12, d) /\ At(p, 12 + NAME_SIZE, content)
  BY <1>2, <1>4, <1>5, PacketParts
<1>7. d \in Seq(Bytes) /\ Len(d) = NAME_SIZE /\ Stripped(d) = client.file_name
  BY <1>2, <1>5, Sizes, PaddedName, PaddingStripped
<1>8. z \in Seq(Bytes) /\ Len(z) = 4 /\ NumberIn(z) = L
  <2>1. 4 \in 1..4  OBVIOUS
  <2> QED  BY <1>4, <2>1, NumberBytes, NumberRead4
<1>9. one \in Seq(Bytes) /\ Len(one) = 2 /\ NumberIn(one) = 1
  <2>1. 2 \in 1..4 /\ 1 \in Nat /\ 1 < 256 * 256  BY SMT
  <2> QED  BY <2>1, NumberBytes, NumberRead2
<1> HIDE DEF p, z, one, d
<1>10. message \in Seq(Bytes) /\ At(message, f, p)
  <2>1. 828 \in Nat  OBVIOUS
  <2> QED  BY <1>2, <1>3, <1>6, <2>1, RequestParts
<1>11. Heading = Meant(828, 12 + NAME_SIZE + L)
  <2>1. 828 \in Nat /\ 828 < 256 * 256  BY SMT
  <2>2. Len(p) < 256^3  BY <1>4, <1>6
  <2> QED  BY <1>2, <1>3, <1>6, <2>1, <2>2, HeadingRead DEF Meant
<1>12. f \in Nat  BY Sizes DEF HeaderSize
<1>13. Field(f, 4) = z
  <2>1. At(message, f + 0, z)  BY <1>6, <1>8, <1>10, AtWithin
  <2>2. f + 0 = f  BY <1>12
  <2> QED  BY <1>8, <1>10, <2>1, <2>2, FieldAt
<1>14. Field(f + 4, 4) = z
  <2>1. At(message, f + 4, z)  BY <1>6, <1>8, <1>10, AtWithin
  <2> QED  BY <1>8, <1>10, <2>1, FieldAt
<1>15. Field(f + 8, 2) = one
  <2>1. At(message, f + 8, one)  BY <1>6, <1>9, <1>10, AtWithin
  <2> QED  BY <1>9, <1>10, <2>1, FieldAt
<1>16. Field(f + 10, 2) = one
  <2>1. At(message, f + 10, one)  BY <1>6, <1>9, <1>10, AtWithin
  <2> QED  BY <1>9, <1>10, <2>1, FieldAt
<1>17. Field(f + 12, NAME_SIZE) = d
  <2>1. At(message, f + 12, d)  BY <1>6, <1>7, <1>10, AtWithin
  <2> QED  BY <1>7, <1>10, <2>1, FieldAt
<1>18. rest = L
  <2>1. Heading.payload_size = 12 + NAME_SIZE + L  BY <1>11 DEF Meant
  <2> QED  BY <2>1, <1>4, Sizes
<1>19. Field(f + 12 + NAME_SIZE, rest) = content
  <2>1. At(message, f + (12 + NAME_SIZE), content)
    BY <1>4, <1>6, <1>10, AtWithin
  <2>2. f + (12 + NAME_SIZE) = f + 12 + NAME_SIZE  BY <1>12, Sizes
  <2> HIDE DEF f, rest
  <2> QED  BY <1>4, <1>10, <1>18, <2>1, <2>2, FieldAt
<1>20. size = L /\ name = client.file_name
  BY <1>7, <1>8, <1>13, <1>17
<1>21. Heading.client_id = id  BY <1>11 DEF Meant
<1>22. message' = AnswerOf(id, content, client.file_name)
  BY <1>1, <1>20, <1>21 DEF AnswerOf
<1>23. got' = <<Meant(828, 12 + NAME_SIZE + L), L, L, 1, 1, client.file_name,
                content>>
  <2> HIDE DEF f, size, name, rest
  <2> QED  BY <1>1, <1>8, <1>9, <1>11, <1>14, <1>15, <1>16, <1>19, <1>20
<1> HIDE DEF f, size, name, rest
<1>24. RequestUnderstood'
  BY <1>1, <1>23 DEF RequestUnderstood, Meant
<1> QED  BY <1>1, <1>22, <1>24 DEF FieldsInv, TurnedAwayRightly

\* What is compared differs only where a zero cuts the identifier.
LEMMA InvCrc == FieldsInv /\ crc_checking => FieldsInv'
<1> SUFFICES ASSUME FieldsInv, crc_checking PROVE FieldsInv'  OBVIOUS
<1> DEFINE z == Number(Len(content), 4)
           d == Padded(client.file_name, NAME_SIZE)
<1>1. /\ pc = "answered" /\ id' = id /\ me_info' = me_info /\ got' = got
      /\ client' = client /\ content' = content /\ message' = message
      /\ pc' = IF /\ Cut(Field(0, ID_SIZE)) = client.id
                  /\ NumberIn(Field(ID_SIZE, 4)) = Len(content)
                  /\ Cut(Field(ID_SIZE + 4, NAME_SIZE)) = client.file_name
               THEN "accepted" ELSE "wrong information"
  BY DEF crc_checking
<1>2. /\ client.file_name \in Seq(Chars) /\ Len(client.file_name) < NAME_SIZE
      /\ id \in Ids /\ content \in Contents /\ client.id = id
      /\ message = AnswerOf(id, content, client.file_name)
  BY <1>1 DEF FieldsInv
<1>3. id \in Seq(Bytes) /\ Len(id) = ID_SIZE  BY <1>2, IdBytes
<1>4. /\ content \in Seq(Bytes) /\ Len(content) \in Nat /\ Len(content) < 256^3
  BY <1>2, NamesOfConstants, ContentSize
<1>5. Len(client.file_name) <= NAME_SIZE
  <2>1. Len(client.file_name) \in Nat  BY <1>2
  <2> QED  BY <1>2, <2>1, Sizes
<1>6. /\ message \in Seq(Bytes) /\ At(message, 0, id)
      /\ At(message, ID_SIZE, z) /\ At(message, ID_SIZE + 4, d)
  BY <1>2, <1>3, <1>4, <1>5, AnswerParts
<1>7. d \in Seq(Bytes) /\ Len(d) = NAME_SIZE /\ Cut(d) = client.file_name
  BY <1>2, <1>5, Sizes, PaddedName, PaddingCut
<1>8. z \in Seq(Bytes) /\ Len(z) = 4 /\ NumberIn(z) = Len(content)
  <2>1. 4 \in 1..4  OBVIOUS
  <2> QED  BY <1>4, <2>1, NumberBytes, NumberRead4
<1> HIDE DEF z, d
<1>9. /\ Field(0, ID_SIZE) = id /\ Field(ID_SIZE, 4) = z
      /\ Field(ID_SIZE + 4, NAME_SIZE) = d
  BY <1>3, <1>6, <1>7, <1>8, FieldAt
<1>10. (\A j \in 1..ID_SIZE : id[j] # 0) => pc' = "accepted"
  <2> SUFFICES ASSUME \A j \in 1..ID_SIZE : id[j] # 0 PROVE pc' = "accepted"
    OBVIOUS
  <2>1. Cut(id) = id  BY <1>3, NothingCut
  <2> QED  BY <1>1, <1>2, <1>7, <1>8, <1>9, <2>1
<1>11. pc' \in {"accepted", "wrong information"}  BY <1>1
<1>12. TurnedAwayRightly'  BY <1>1, <1>10, <1>11 DEF TurnedAwayRightly
<1>13. RequestUnderstood'  BY <1>11 DEF RequestUnderstood
<1> QED  BY <1>1, <1>11, <1>12, <1>13 DEF FieldsInv

LEMMA InvNext == FieldsInv /\ [Next]_vars => FieldsInv'
<1> SUFFICES ASSUME FieldsInv, [Next]_vars PROVE FieldsInv'  OBVIOUS
<1>1. CASE UNCHANGED vars
  <2>1. /\ pc' = pc /\ id' = id /\ me_info' = me_info /\ client' = client
        /\ content' = content /\ message' = message /\ got' = got
    BY <1>1 DEF vars
  <2>2. RequestUnderstood'  BY <2>1 DEF FieldsInv, RequestUnderstood, Meant
  <2>3. TurnedAwayRightly'  BY <2>1 DEF FieldsInv, TurnedAwayRightly
  <2> QED  BY <2>1, <2>2, <2>3 DEF FieldsInv
<1> QED  BY <1>1, InvCreate, InvTransfer, InvReconnection, InvReadReconnection,
            InvSend, InvReadPacket, InvCrc DEF Next

\* The server reads from every request what the client meant, for every
\* identifier, name, path and content and for all sizes of the fields
\* (various_functions.cpp:52-62, 114-131; request.py:64-71, 132-139).
THEOREM RequestsAreUnderstood == Spec => []RequestUnderstood
<1>1. FieldsInv => RequestUnderstood  BY DEF FieldsInv
<1> QED  BY <1>1, InvInit, InvNext, PTL DEF Spec

\* Nobody who comes back under the own name with names that fit is refused,
\* and only a zero byte in an identifier makes the client find wrong
\* information in a good answer (client.cpp:113, client_ob.cpp:10,
\* answer.cpp:44).
THEOREM NobodyIsTurnedAwayWrongly == Spec => []TurnedAwayRightly
<1>1. FieldsInv => TurnedAwayRightly  BY DEF FieldsInv
<1> QED  BY <1>1, InvInit, InvNext, PTL DEF Spec
=============================================================================
