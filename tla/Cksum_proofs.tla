---------------------------- MODULE Cksum_proofs ----------------------------
(***************************************************************************)
(* That memcrc finds every damage of up to four bytes in a row, in files   *)
(* of every length, because the entries of the table differ in their low   *)
(* bytes, and that it computes the checksum of POSIX cksum, because every  *)
(* entry is the remainder of its byte. TableAssumption says both; TLC      *)
(* evaluates it on the tables of the two programs.                         *)
(***************************************************************************)
EXTENDS Cksum, TLAPS, SequenceTheorems, WellFoundedInduction

-----------------------------------------------------------------------------
(* Registers, bit by bit.                                                  *)

LEMMA ShiftLeftBits ==
  ASSUME NEW r \in Word, NEW b \in 0..31
  PROVE  b \in ShiftLeft8(r) <=> b >= 8 /\ b - 8 \in r
BY DEF ShiftLeft8, UNSIGNED, Word

LEMMA ShiftRightBits ==
  ASSUME NEW r \in Word, NEW b \in 0..7
  PROVE  b \in ShiftRight24(r) <=> b + 24 \in r
BY DEF ShiftRight24, Word

LEMMA Shifts ==
  ASSUME NEW r \in Word
  PROVE  ShiftLeft8(r) \in Word /\ ShiftRight24(r) \in Byte
BY DEF ShiftLeft8, ShiftRight24, UNSIGNED, Word, Byte

LEMMA XorByte ==
  ASSUME NEW a \in Byte, NEW b \in Byte  PROVE Xor(a, b) \in Byte
BY DEF Xor, Byte

LEMMA XorWord ==
  ASSUME NEW a \in Word, NEW b \in Word  PROVE Xor(a, b) \in Word
BY DEF Xor, Word

\* Exclusive or with one value can be undone.
LEMMA XorCancels ==
  ASSUME NEW a, NEW b, NEW c, Xor(a, c) = Xor(b, c)
  PROVE  a = b
<1>1. ASSUME NEW e PROVE e \in a <=> e \in b
  <2>1. e \in Xor(a, c) <=> e \in Xor(b, c)  OBVIOUS
  <2> QED  BY <2>1 DEF Xor
<1> QED  BY <1>1

\* What the table is asked for.
Index(r, c) == Xor(ShiftRight24(r), c)

LEMMA IndexType ==
  ASSUME NEW r \in Word, NEW c \in Byte  PROVE Index(r, c) \in Byte
BY Shifts, XorByte DEF Index

LEMMA TurnType ==
  ASSUME NEW r \in Word, NEW c \in Byte  PROVE Turn(crctab, r, c) \in Word
<1>1. crctab[Index(r, c)] \in Word  BY IndexType, TableAssumption
<1> QED  BY <1>1, Shifts, XorWord DEF Turn, Index

\* The low byte of the new register is the table's alone.
LEMMA LowByteOfTurn ==
  ASSUME NEW r \in Word, NEW c \in Byte, NEW b \in 0..7
  PROVE  b \in Turn(crctab, r, c) <=> b \in crctab[Index(r, c)]
<1>1. b \in 0..31 /\ ~(b >= 8)  OBVIOUS
<1>2. b \notin ShiftLeft8(r)  BY <1>1, ShiftLeftBits
<1> QED  BY <1>2 DEF Turn, Xor, Index

\* Two registers that ask for different entries differ in the low byte.
LEMMA DifferentIndex ==
  ASSUME NEW r \in Word, NEW t \in Word, NEW c \in Byte, NEW d \in Byte,
         Index(r, c) # Index(t, d)
  PROVE  \E b \in 0..7 :
            (b \in Turn(crctab, r, c)) # (b \in Turn(crctab, t, d))
<1>1. Index(r, c) \in Byte /\ Index(t, d) \in Byte  BY IndexType
<1>2. crctab[Index(r, c)] \cap 0..7 # crctab[Index(t, d)] \cap 0..7
  BY <1>1, TableAssumption
<1>3. PICK b \in 0..7 :
         ~(b \in crctab[Index(r, c)] <=> b \in crctab[Index(t, d)])
  BY <1>2
<1>4. ~(b \in Turn(crctab, r, c) <=> b \in Turn(crctab, t, d))
  BY <1>3, LowByteOfTurn
<1> QED  BY <1>4

\* Two registers that ask for one entry keep their differences, moved by
\* eight, unless they are in the top byte.
LEMMA SameIndex ==
  ASSUME NEW r \in Word, NEW t \in Word, NEW c \in Byte, NEW d \in Byte,
         Index(r, c) = Index(t, d),
         NEW b \in 0..23, (b \in r) # (b \in t)
  PROVE  (b + 8 \in Turn(crctab, r, c)) # (b + 8 \in Turn(crctab, t, d))
<1>1. b + 8 \in 0..31 /\ b + 8 >= 8 /\ (b + 8) - 8 = b  OBVIOUS
<1>2. /\ b + 8 \in ShiftLeft8(r) <=> b \in r
      /\ b + 8 \in ShiftLeft8(t) <=> b \in t
  BY <1>1, ShiftLeftBits
<1>3. ~(b \in r <=> b \in t)  OBVIOUS
<1>4. ~(b + 8 \in Turn(crctab, r, c) <=> b + 8 \in Turn(crctab, t, d))
  BY <1>2, <1>3 DEF Turn, Xor, Index
<1> QED  BY <1>4

\* A turn for one byte never makes two registers equal.
LEMMA TurnInjective ==
  ASSUME NEW r \in Word, NEW t \in Word, NEW c \in Byte, r # t
  PROVE  Turn(crctab, r, c) # Turn(crctab, t, c)
<1>1. PICK b \in 0..31 : ~(b \in r <=> b \in t)  BY DEF Word
<1>2. CASE Index(r, c) # Index(t, c)
  BY <1>2, DifferentIndex
<1>3. CASE Index(r, c) = Index(t, c) /\ b \in 0..23
  <2>1. (b \in r) # (b \in t)  BY <1>1
  <2> QED  BY <1>3, <2>1, SameIndex
<1>4. ASSUME Index(r, c) = Index(t, c), b \in 24..31 PROVE FALSE
  <2>1. ShiftRight24(r) = ShiftRight24(t)  BY <1>4, XorCancels DEF Index
  <2>2. b - 24 \in 0..7 /\ (b - 24) + 24 = b  BY <1>4
  <2>3. b - 24 \in ShiftRight24(r) <=> b \in r  BY <2>2, ShiftRightBits
  <2>4. b - 24 \in ShiftRight24(t) <=> b \in t  BY <2>2, ShiftRightBits
  <2> QED  BY <1>1, <2>1, <2>3, <2>4
<1> QED  BY <1>2, <1>3, <1>4

\* They differ in one of the lowest bits.
Differ(r, t, bits) == \E b \in 0..31 : b < bits /\ ~(b \in r <=> b \in t)

\* The first damaged byte makes the low bytes differ.
LEMMA FirstDamage ==
  ASSUME NEW r \in Word, NEW c \in Byte, NEW d \in Byte, c # d
  PROVE  Differ(Turn(crctab, r, c), Turn(crctab, r, d), 8)
<1>1. Index(r, c) # Index(r, d)
  <2>1. Xor(c, ShiftRight24(r)) = Index(r, c)  BY DEF Xor, Index
  <2>2. Xor(d, ShiftRight24(r)) = Index(r, d)  BY DEF Xor, Index
  <2> QED  BY <2>1, <2>2, XorCancels
<1>2. PICK b \in 0..7 :
         (b \in Turn(crctab, r, c)) # (b \in Turn(crctab, r, d))
  BY <1>1, DifferentIndex
<1>3. b \in 0..31 /\ b < 8  OBVIOUS
<1> QED  BY <1>2, <1>3 DEF Differ

\* The next bytes, damaged or not, keep them different in one byte more.
LEMMA NextDamage ==
  ASSUME NEW r \in Word, NEW t \in Word, NEW c \in Byte, NEW d \in Byte,
         NEW bits \in 1..24, Differ(r, t, bits)
  PROVE  Differ(Turn(crctab, r, c), Turn(crctab, t, d), bits + 8)
<1>1. CASE Index(r, c) # Index(t, d)
  <2>1. PICK b \in 0..7 :
           (b \in Turn(crctab, r, c)) # (b \in Turn(crctab, t, d))
    BY <1>1, DifferentIndex
  <2>2. b \in 0..31 /\ b < bits + 8  OBVIOUS
  <2> QED  BY <2>1, <2>2 DEF Differ
<1>2. CASE Index(r, c) = Index(t, d)
  <2>1. PICK b \in 0..31 : b < bits /\ ~(b \in r <=> b \in t)  BY DEF Differ
  <2>2. b \in 0..23 /\ (b \in r) # (b \in t)  BY <2>1
  <2>3. (b + 8 \in Turn(crctab, r, c)) # (b + 8 \in Turn(crctab, t, d))
    BY <1>2, <2>2, SameIndex
  <2>4. b + 8 \in 0..31 /\ b + 8 < bits + 8  BY <2>1, <2>2
  <2> QED  BY <2>3, <2>4 DEF Differ
<1> QED  BY <1>1, <1>2

-----------------------------------------------------------------------------
(* The two loops side by side.                                             *)

Types ==
  /\ x \in Transfers
  /\ i \in 0..Len(x.sent)
  /\ s \in Word /\ server \in Word

Burst ==
  \A d \in 1..Len(x.sent) : FirstDamaged(d) =>
    /\ i < d => s = server
    /\ i >= d => s # server
    /\ i \in d..(d + 2) /\ i < Len(x.sent) => Differ(s, server, 8 * (i - d + 1))

Inv ==
  /\ Types /\ Burst
  /\ crcs # <<>> => /\ i = Len(x.sent) /\ n = 0
                    /\ crcs = <<Result(s), Result(server)>>

LEMMA Contents ==
  ASSUME Types
  PROVE  /\ Len(x.sent) \in Nat /\ Len(x.stored) = Len(x.sent)
         /\ \A k \in 1..Len(x.sent) : x.sent[k] \in Byte /\ x.stored[k] \in Byte
BY TransfersAssumption DEF Types

LEMMA InvInit == Init => Inv
<1> SUFFICES ASSUME Init PROVE Inv  OBVIOUS
<1>1. Types
  <2>1. x \in Transfers /\ i = 0 /\ s = {} /\ server = {}  BY DEF Init
  <2>2. Len(x.sent) \in Nat  BY <2>1, TransfersAssumption
  <2> QED  BY <2>1, <2>2 DEF Types, Word
<1>2. Burst
  <2>1. i = 0 /\ s = server /\ Len(x.sent) \in Nat
    BY <1>1, Contents DEF Init
  <2> QED  BY <2>1 DEF Burst
<1> QED  BY <1>1, <1>2 DEF Init, Inv

LEMMA InvNextByte == Inv /\ NextByte => Inv'
<1> SUFFICES ASSUME Inv, NextByte PROVE Inv'  OBVIOUS
<1> DEFINE L == Len(x.sent)
           c == x.sent[i + 1]
           e == x.stored[i + 1]
<1>1. x' = x /\ crcs' = crcs /\ i' = i + 1 /\ i < L
  BY DEF NextByte
<1>2. Types /\ Burst  BY DEF Inv
<1>3. L \in Nat /\ i \in Nat /\ i + 1 \in 1..L /\ s \in Word /\ server \in Word
  BY <1>1, <1>2, Contents DEF Types
<1>4. c \in Byte /\ e \in Byte  BY <1>2, <1>3, Contents
<1>5. s' = Turn(crctab, s, c) /\ server' = Turn(crctab, server, e)
  BY TableAssumption DEF NextByte
<1>6. Types'
  <2>1. i' \in 0..Len(x'.sent)  BY <1>1, <1>3
  <2>2. x' \in Transfers  BY <1>1, <1>2 DEF Types
  <2> QED  BY <2>1, <2>2, <1>3, <1>4, <1>5, TurnType DEF Types
<1>7. Burst'
  <2> SUFFICES ASSUME NEW d \in 1..Len(x'.sent), FirstDamaged(d)'
               PROVE  /\ i' < d => s' = server'
                      /\ i' >= d => s' # server'
                      /\ i' \in d..(d + 2) /\ i' < Len(x'.sent)
                           => Differ(s', server', 8 * (i' - d + 1))
    BY DEF Burst
  <2>a. d \in 1..L /\ FirstDamaged(d)  BY <1>1 DEF FirstDamaged
  <2>b. d \in Nat /\ i' = i + 1 /\ Len(x'.sent) = L  BY <1>1, <1>3, <2>a
  <2>1. /\ i < d => s = server
        /\ i >= d => s # server
        /\ i \in d..(d + 2) => Differ(s, server, 8 * (i - d + 1))
    BY <1>1, <1>2, <2>a DEF Burst
  <2>2. i + 1 \notin d..(d + 3) => c = e  BY <1>3, <2>a DEF FirstDamaged
  <2>3. CASE i + 1 < d
    <3>1. s = server /\ c = e  BY <2>1, <2>2, <2>3, <1>3
    <3>2. s' = server'  BY <3>1, <1>5
    <3> QED  BY <3>2, <2>3, <2>b, <1>3
  <2>4. CASE i + 1 = d
    <3>1. s = server /\ c # e  BY <2>1, <2>4, <2>a, <1>3 DEF FirstDamaged
    <3>2. Differ(s', server', 8)  BY <3>1, <1>3, <1>4, <1>5, FirstDamage
    <3>3. 8 * (i' - d + 1) = 8  BY <2>4, <2>b, <1>3
    <3>4. s' # server'  BY <3>2 DEF Differ
    <3> QED  BY <3>2, <3>3, <3>4, <2>4, <2>b, <1>3
  <2>5. CASE i \in d..(d + 2)
    <3> DEFINE bits == 8 * (i - d + 1)
    <3>1. bits \in 1..24 /\ 8 * (i' - d + 1) = bits + 8  BY <2>5, <2>b, <1>3
    <3>2. Differ(s, server, bits)  BY <2>1, <2>5
    <3> HIDE DEF bits
    <3>3. Differ(s', server', bits + 8)
      BY <3>1, <3>2, <1>3, <1>4, <1>5, NextDamage
    <3>4. s' # server'  BY <3>3 DEF Differ
    <3> QED  BY <3>1, <3>3, <3>4, <2>5, <2>b, <1>3
  <2>6. CASE i > d + 2
    <3>1. s # server /\ c = e  BY <2>1, <2>2, <2>6, <1>3
    <3>2. s' # server'  BY <3>1, <1>3, <1>4, <1>5, TurnInjective
    <3> QED  BY <3>2, <2>6, <2>b, <1>3
  <2> QED  BY <2>3, <2>4, <2>5, <2>6, <2>b, <1>3
<1>8. crcs' = <<>>
  <2>1. Len(x.sent) \in Nat /\ i \in Nat /\ i # L  BY <1>1, <1>3
  <2> QED  BY <1>1, <2>1 DEF Inv
<1> QED  BY <1>6, <1>7, <1>8 DEF Inv

LEMMA InvNextLengthByte == Inv /\ NextLengthByte => Inv'
<1> SUFFICES ASSUME Inv, NextLengthByte PROVE Inv'  OBVIOUS
<1> DEFINE c == LowByte(n)
<1>1. x' = x /\ i' = i /\ crcs' = crcs /\ i = Len(x.sent)
  BY DEF NextLengthByte
<1>2. Types /\ Burst  BY DEF Inv
<1>3. c \in Byte  BY DEF LowByte, Byte
<1>4. s' = Turn(crctab, s, c) /\ server' = Turn(crctab, server, c)
  BY TableAssumption DEF NextLengthByte
<1>5. s \in Word /\ server \in Word /\ Len(x.sent) \in Nat
  BY <1>2, Contents DEF Types
<1>6. Types'  BY <1>1, <1>2, <1>3, <1>4, <1>5, TurnType DEF Types
<1>7. Burst'
  <2> SUFFICES ASSUME NEW d \in 1..Len(x.sent), FirstDamaged(d)
               PROVE  s' # server'
    BY <1>1, <1>5 DEF Burst, FirstDamaged
  <2>1. s # server  BY <1>1, <1>2, <1>5 DEF Burst
  <2> QED  BY <2>1, <1>3, <1>4, <1>5, TurnInjective
<1>8. crcs' = <<>>  BY DEF NextLengthByte, Inv
<1> QED  BY <1>6, <1>7, <1>8 DEF Inv

LEMMA ResultInjective ==
  ASSUME NEW r \in Word, NEW t \in Word, r # t  PROVE Result(r) # Result(t)
BY DEF Result, Word

LEMMA InvReturn == Inv /\ Return => Inv'
<1> SUFFICES ASSUME Inv, Return PROVE Inv'  OBVIOUS
<1>1. x' = x /\ i' = i /\ n' = n /\ s' = s /\ server' = server
  BY DEF Return
<1>2. i = Len(x.sent) /\ n = 0 /\ crcs' = <<Result(s), Result(server)>>
  BY DEF Return
<1>3. Types' /\ Burst'
  BY <1>1 DEF Inv, Types, Burst, Differ, FirstDamaged
<1> QED  BY <1>1, <1>2, <1>3 DEF Inv, Result

LEMMA InvNext == Inv /\ [Next]_vars => Inv'
<1> SUFFICES ASSUME Inv, [Next]_vars PROVE Inv'  OBVIOUS
<1>1. CASE UNCHANGED vars
  BY <1>1 DEF Inv, Types, Burst, Differ, FirstDamaged, Result, vars
<1> QED  BY <1>1, InvNextByte, InvNextLengthByte, InvReturn DEF Next

\* Damage of up to four bytes in a row never goes unnoticed, whatever the
\* file and its length (request.py:31, client.cpp:297).
THEOREM BurstsAreFound == Spec => []BurstFound
<1>1. Inv => BurstFound
  <2> SUFFICES ASSUME Inv, crcs # <<>>,
                      NEW d \in 1..Len(x.sent), FirstDamaged(d)
               PROVE  crcs[1] # crcs[2]
    BY DEF BurstFound
  <2>1. /\ i = Len(x.sent) /\ crcs = <<Result(s), Result(server)>>
        /\ s \in Word /\ server \in Word
    BY DEF Inv, Types
  <2>2. Len(x.sent) \in Nat  BY Contents DEF Inv
  <2>3. s # server  BY <2>1, <2>2 DEF Inv, Burst
  <2>4. Result(s) # Result(server)  BY <2>1, <2>3, ResultInjective
  <2> QED  BY <2>1, <2>4
<1> QED  BY <1>1, InvInit, InvNext, PTL DEF Spec
-----------------------------------------------------------------------------
(* Induction and recursion. The library's theorems on them take an         *)
(* operator; the least number of a set and a step given as a function do   *)
(* not.                                                                    *)

LEMMA LeastNumber ==
  ASSUME NEW T, T \subseteq Nat, T # {}
  PROVE  \E k \in T : \A j \in T : k <= j
<1> DEFINE R == {p \in Nat \X Nat : p[1] < p[2]}
<1>1. IsWellFoundedOn(R, Nat)  BY NatLessThanWellFounded DEF OpToRel
<1>2. \E k \in T : \A j \in T : ~(<<j, k>> \in R)
  <2> HIDE DEF R
  <2> QED  BY <1>1, WFMin
<1>3. ASSUME NEW k \in T, NEW j \in T, ~(<<j, k>> \in R) PROVE k <= j
  BY <1>3
<1> QED  BY <1>2, <1>3

LEMMA Induction ==
  ASSUME NEW P, NEW N \in Nat, 0 \in P,
         \A k \in 1..N : k - 1 \in P => k \in P
  PROVE  \A k \in 0..N : k \in P
<1> DEFINE T == {k \in 0..N : k \notin P}
<1> SUFFICES ASSUME T # {} PROVE FALSE  OBVIOUS
<1>1. PICK k \in T : \A j \in T : k <= j
  <2>1. T \subseteq Nat  OBVIOUS
  <2> HIDE DEF T
  <2> QED  BY <2>1, LeastNumber
<1>2. k \in 1..N /\ k - 1 \in 0..N /\ ~(k <= k - 1)  OBVIOUS
<1>3. k - 1 \in P  BY <1>1, <1>2
<1> QED  BY <1>2, <1>3

\* f is what the steps F make of base.
Follows(f, V, base, m, F) ==
  /\ f \in [0..m -> V]
  /\ f[0] = base
  /\ \A k \in 1..m : f[k] = F[k][f[k - 1]]

LEMMA Recursion ==
  ASSUME NEW V, NEW base \in V, NEW N \in Nat, NEW F \in [1..N -> [V -> V]]
  PROVE  \E f : Follows(f, V, base, N, F)
<1> DEFINE P == {m \in 0..N : \E f : Follows(f, V, base, m, F)}
<1>1. 0 \in P
  <2>1. Follows([k \in 0..0 |-> base], V, base, 0, F)  BY DEF Follows
  <2>2. \E f : Follows(f, V, base, 0, F)  BY <2>1
  <2> QED  BY <2>2
<1>2. ASSUME NEW m \in 1..N, m - 1 \in P PROVE m \in P
  <2>1. PICK f : Follows(f, V, base, m - 1, F)  BY <1>2
  <2> DEFINE g == [k \in 0..m |-> IF k = m THEN F[m][f[m - 1]] ELSE f[k]]
  <2>2. F[m][f[m - 1]] \in V  BY <2>1 DEF Follows
  <2>3. g \in [0..m -> V] /\ g[0] = base  BY <2>1, <2>2 DEF Follows
  <2>4. ASSUME NEW k \in 1..m PROVE g[k] = F[k][g[k - 1]]
    <3>1. g[k - 1] = f[k - 1]  OBVIOUS
    <3>2. CASE k = m  BY <3>1, <3>2
    <3>3. CASE k \in 1..(m - 1)
      <4>1. g[k] = f[k]  BY <3>3
      <4> HIDE DEF g
      <4> QED  BY <2>1, <3>1, <3>3, <4>1 DEF Follows
    <3> QED  BY <3>2, <3>3
  <2> HIDE DEF g
  <2>5. Follows(g, V, base, m, F)  BY <2>3, <2>4 DEF Follows
  <2> QED  BY <2>5
<1>3. N \in P
  <2>1. \A m \in 1..N : m - 1 \in P => m \in P  BY <1>2
  <2>2. N \in 0..N  OBVIOUS
  <2> HIDE DEF P
  <2> QED  BY <1>1, <2>1, <2>2, Induction
<1> QED  BY <1>3

-----------------------------------------------------------------------------
(* The division.                                                           *)

LEMMA DivideBits ==
  ASSUME NEW r \in Word, NEW bit \in BOOLEAN
  PROVE  /\ Divide(r, bit) \in Word
         /\ \A b \in 0..31 : b \in Divide(r, bit) <=>
              ~ ((b > 0 /\ b - 1 \in r) <=>
                   (b \in Polynomial /\ ~(31 \in r <=> bit)))
<1> DEFINE shifted == {b + 1 : b \in r \ {31}}
<1>1. Polynomial \in Word  BY DEF Polynomial, Word
<1>2. shifted \in Word /\ \A b \in 0..31 : b \in shifted <=> b > 0 /\ b - 1 \in r
  <2>1. shifted \in Word  BY DEF Word
  <2>2. ASSUME NEW b \in 0..31, b \in shifted PROVE b > 0 /\ b - 1 \in r
    BY <2>2 DEF Word
  <2>3. ASSUME NEW b \in 0..31, b > 0, b - 1 \in r PROVE b \in shifted
    <3>1. b - 1 \in r \ {31} /\ b = (b - 1) + 1  BY <2>3
    <3> QED  BY <3>1
  <2> HIDE DEF shifted
  <2> QED  BY <2>1, <2>2, <2>3
<1>3. Divide(r, bit) = IF ~(31 \in r <=> bit) THEN Xor(shifted, Polynomial)
                       ELSE shifted
  BY DEF Divide
<1> HIDE DEF shifted
<1>4. CASE ~(31 \in r <=> bit)
  <2>1. Divide(r, bit) = Xor(shifted, Polynomial)  BY <1>3, <1>4
  <2> QED  BY <2>1, <1>1, <1>2, <1>4, XorWord DEF Xor
<1>5. CASE 31 \in r <=> bit
  <2>1. Divide(r, bit) = shifted  BY <1>3, <1>5
  <2> QED  BY <2>1, <1>2, <1>5
<1> QED  BY <1>4, <1>5

\* The eight steps of one byte.
Steps(d, r, c) ==
  /\ d \in [0..8 -> Word]
  /\ d[0] = r
  /\ \A k \in 1..8 : d[k] = Divide(d[k - 1], (8 - k) \in c)

LEMMA DivideByteSteps ==
  ASSUME NEW r \in Word, NEW c \in Byte
  PROVE  \E d : Steps(d, r, c) /\ DivideByte(r, c) = d[8]
<1> DEFINE F == [k \in 1..8 |-> [v \in Word |-> Divide(v, (8 - k) \in c)]]
           Body(d) == [k \in 0..8 |-> IF k = 0 THEN r
                                      ELSE Divide(d[k - 1], (8 - k) \in c)]
           d == CHOOSE d : d = Body(d)
<1>1. F \in [1..8 -> [Word -> Word]]
  <2>1. ASSUME NEW k \in 1..8, NEW v \in Word
        PROVE  Divide(v, (8 - k) \in c) \in Word
    <3>1. ((8 - k) \in c) \in BOOLEAN  OBVIOUS
    <3> QED  BY <3>1, DivideBits
  <2> QED  BY <2>1
<1>2. PICK f : Follows(f, Word, r, 8, F)
  <2> HIDE DEF F
  <2> QED  BY <1>1, Recursion
<1>3. ASSUME NEW k \in 1..8 PROVE f[k] = Divide(f[k - 1], (8 - k) \in c)
  <2>1. f[k - 1] \in Word  BY <1>2 DEF Follows
  <2> QED  BY <1>2, <2>1 DEF Follows
<1>4. f = Body(f)
  <2>1. ASSUME NEW k \in 0..8 PROVE f[k] = Body(f)[k]
    <3>1. CASE k = 0  BY <3>1, <1>2 DEF Follows
    <3>2. CASE k \in 1..8  BY <3>2, <1>3
    <3> QED  BY <3>1, <3>2
  <2> QED  BY <2>1, <1>2 DEF Follows
<1>5. d = Body(d)
  <2> HIDE DEF Body
  <2> QED  BY <1>4
<1>6. DivideByte(r, c) = d[8]  BY DEF DivideByte
<1> HIDE DEF d
<1>7. \A k \in 0..8 : d[k] = Body(d)[k]  BY <1>5
<1>8. /\ d[0] = r
      /\ \A k \in 1..8 : d[k] = Divide(d[k - 1], (8 - k) \in c)
  BY <1>7
<1>9. d \in [0..8 -> Word]
  <2> DEFINE P == {k \in 0..8 : d[k] \in Word}
  <2>1. 0 \in P  BY <1>8
  <2>2. \A k \in 1..8 : k - 1 \in P => k \in P
    <3> SUFFICES ASSUME NEW k \in 1..8, d[k - 1] \in Word
                 PROVE  d[k] \in Word
      OBVIOUS
    <3>1. ((8 - k) \in c) \in BOOLEAN  OBVIOUS
    <3>2. Divide(d[k - 1], (8 - k) \in c) \in Word  BY <3>1, DivideBits
    <3> QED  BY <3>2, <1>8
  <2>3. \A k \in 0..8 : k \in P
    <3> HIDE DEF P
    <3> QED  BY <2>1, <2>2, Induction
  <2>4. d = [k \in 0..8 |-> d[k]]
    <3>1. DOMAIN Body(d) = 0..8  OBVIOUS
    <3>2. Body(d) = [k \in DOMAIN Body(d) |-> Body(d)[k]]  OBVIOUS
    <3> HIDE DEF Body
    <3> QED  BY <1>5, <3>1, <3>2
  <2> QED  BY <2>3, <2>4
<1> QED  BY <1>6, <1>8, <1>9 DEF Steps

LEMMA DivideByteType ==
  ASSUME NEW r \in Word, NEW c \in Byte  PROVE DivideByte(r, c) \in Word
<1>1. PICK d : Steps(d, r, c) /\ DivideByte(r, c) = d[8]  BY DivideByteSteps
<1> QED  BY <1>1 DEF Steps

LEMMA StepBits ==
  ASSUME NEW d, NEW r, NEW c, Steps(d, r, c), NEW k \in 1..8, NEW b \in 0..31
  PROVE  b \in d[k] <=> ~((b > 0 /\ b - 1 \in d[k - 1]) <=>
                             (b \in Polynomial
                                /\ ~(31 \in d[k - 1] <=> (8 - k) \in c)))
<1>1. d[k - 1] \in Word /\ d[k] = Divide(d[k - 1], (8 - k) \in c)
  BY DEF Steps
<1>2. PICK bit \in BOOLEAN : bit = ((8 - k) \in c)
  <2>1. ((8 - k) \in c) \in BOOLEAN  OBVIOUS
  <2> QED  BY <2>1, Zenon
<1>3. d[k] = Divide(d[k - 1], bit)  BY <1>1, <1>2
<1>4. b \in d[k] <=> ~((b > 0 /\ b - 1 \in d[k - 1]) <=>
                         (b \in Polynomial /\ ~(31 \in d[k - 1] <=> bit)))
  BY <1>1, <1>3, DivideBits
<1> QED  BY <1>2, <1>4

LEMMA NothingDivided == DivideByte({}, {}) = {}
<1>1. {} \in Word /\ {} \in Byte  BY DEF Word, Byte
<1>2. PICK d : Steps(d, {}, {}) /\ DivideByte({}, {}) = d[8]
  BY <1>1, DivideByteSteps
<1> DEFINE P == {k \in 0..8 : d[k] = {}}
<1>4. 0 \in P  BY <1>2 DEF Steps
<1>5. \A k \in 1..8 : k - 1 \in P => k \in P
  <2> SUFFICES ASSUME NEW k \in 1..8, d[k - 1] = {} PROVE d[k] = {}
    OBVIOUS
  <2>1. \A b \in 0..31 : b \notin d[k]  BY <1>2, StepBits
  <2>2. d[k] \in Word  BY <1>2 DEF Steps
  <2> QED  BY <2>1, <2>2 DEF Word
<1>6. 8 \in P
  <2>1. \A k \in 0..8 : k \in P
    <3> HIDE DEF P
    <3> QED  BY <1>4, <1>5, Induction
  <2> QED  BY <2>1
<1> QED  BY <1>2, <1>6

\* A register's bits pass through the eight steps of a byte unchanged, but
\* for what its top byte, added to the byte, brings in: the table's entry.
LEMMA TurnDivides ==
  ASSUME NEW r \in Word, NEW c \in Byte
  PROVE  Turn(crctab, r, c) = DivideByte(r, c)
<1> DEFINE e == Index(r, c)
<1>1. e \in Byte /\ {} \in Word  BY IndexType DEF Word
<1>2. PICK d : Steps(d, r, c) /\ DivideByte(r, c) = d[8]  BY DivideByteSteps
<1>3. PICK t : Steps(t, {}, e) /\ DivideByte({}, e) = t[8]
  BY <1>1, DivideByteSteps
<1>4. \A b \in 0..7 : b \in e <=> ~(b + 24 \in r <=> b \in c)
  BY ShiftRightBits, Shifts DEF Index, Xor
<1> HIDE DEF e
<1> DEFINE P == {k \in 0..8 : \A b \in 0..31 :
                   b \in d[k] <=> ~(b \in t[k] <=> b >= k /\ b - k \in r)}
<1>5. 0 \in P
  <2>1. d[0] = r /\ t[0] = {}  BY <1>2, <1>3 DEF Steps
  <2> QED  BY <2>1
<1>6. ASSUME NEW k \in 1..8, k - 1 \in P PROVE k \in P
  <2> DEFINE q1 == 31 \in d[k - 1] <=> (8 - k) \in c
             q2 == 31 \in t[k - 1] <=> (8 - k) \in e
  <2>2. q1 <=> q2
    <3>1. 31 \in d[k - 1] <=> ~(31 \in t[k - 1] <=> 32 - k \in r)
      <4>1. 31 \in 0..31 /\ 31 >= k - 1 /\ 31 - (k - 1) = 32 - k  OBVIOUS
      <4> QED  BY <1>6, <4>1
    <3>2. (8 - k) \in e <=> ~(32 - k \in r <=> (8 - k) \in c)
      <4>1. 8 - k \in 0..7 /\ (8 - k) + 24 = 32 - k  OBVIOUS
      <4> QED  BY <1>4, <4>1
    <3> QED  BY <3>1, <3>2
  <2>3. ASSUME NEW b \in 0..31
        PROVE  b \in d[k] <=> ~(b \in t[k] <=> b >= k /\ b - k \in r)
    <3>1. b \in d[k] <=> ~((b > 0 /\ b - 1 \in d[k - 1]) <=>
                             (b \in Polynomial /\ ~q1))
      BY <1>2, StepBits
    <3>2. b \in t[k] <=> ~((b > 0 /\ b - 1 \in t[k - 1]) <=>
                             (b \in Polynomial /\ ~q2))
      BY <1>3, StepBits
    <3> HIDE DEF q1, q2
    <3>3. CASE b = 0
      <4>1. ~(b > 0) /\ ~(b >= k)  BY <3>3
      <4> QED  BY <3>1, <3>2, <2>2, <4>1
    <3>4. CASE b > 0
      <4>1. b - 1 \in 0..31 /\ (b - 1 >= k - 1 <=> b >= k)
            /\ (b - 1) - (k - 1) = b - k
        BY <3>4
      <4>2. b - 1 \in d[k - 1] <=>
              ~(b - 1 \in t[k - 1] <=> b >= k /\ b - k \in r)
        BY <1>6, <4>1
      <4> QED  BY <3>1, <3>2, <3>4, <2>2, <4>2
    <3> QED  BY <3>3, <3>4
  <2> QED  BY <2>3
<1>7. 8 \in P
  <2>1. \A k \in 1..8 : k - 1 \in P => k \in P  BY <1>6
  <2>2. \A k \in 0..8 : k \in P
    <3> HIDE DEF P
    <3> QED  BY <1>5, <2>1, Induction
  <2> QED  BY <2>2
<1>8. d[8] = Xor(ShiftLeft8(r), t[8])
  <2>1. d[8] \in Word /\ t[8] \in Word /\ Xor(ShiftLeft8(r), t[8]) \in Word
    BY <1>2, <1>3, Shifts, XorWord DEF Steps
  <2>2. ASSUME NEW b \in 0..31
        PROVE  b \in d[8] <=> b \in Xor(ShiftLeft8(r), t[8])
    <3>1. b \in d[8] <=> ~(b \in t[8] <=> b >= 8 /\ b - 8 \in r)
      BY <1>7
    <3>2. b \in ShiftLeft8(r) <=> b >= 8 /\ b - 8 \in r  BY ShiftLeftBits
    <3> QED  BY <3>1, <3>2 DEF Xor
  <2> QED  BY <2>1, <2>2 DEF Word
<1>9. crctab[e] = t[8]  BY <1>1, <1>3, TableAssumption
<1> QED  BY <1>2, <1>8, <1>9 DEF Turn, Index, e

\* The bytes of rest take the remainder from r to goal.
Reaches(r, rest, goal) ==
  \E f \in [0..Len(rest) -> Word] :
     /\ f[0] = r /\ f[Len(rest)] = goal
     /\ \A k \in 1..Len(rest) : f[k] = DivideByte(f[k - 1], rest[k])

LEMMA RemainderReached ==
  ASSUME NEW bytes \in Seq(Byte)
  PROVE  Reaches({}, bytes, Remainder(bytes))
<1> DEFINE L == Len(bytes)
           Zero(k) == \A j \in 1..k : bytes[j] = {}
           F == [k \in 1..L |-> [v \in Word |-> DivideByte(v, bytes[k])]]
           Body(d) == [k \in 0..L |-> IF Zero(k) THEN {}
                                      ELSE DivideByte(d[k - 1], bytes[k])]
           d == CHOOSE d : d = Body(d)
<1>0. Remainder(bytes) = d[L]  BY DEF Remainder
<1>1. L \in Nat /\ {} \in Word /\ \A k \in 1..L : bytes[k] \in Byte
  BY DEF Word
<1>2. F \in [1..L -> [Word -> Word]]  BY <1>1, DivideByteType
<1>3. PICK f : Follows(f, Word, {}, L, F)
  <2> HIDE DEF F, L
  <2> QED  BY <1>1, <1>2, Recursion
<1> HIDE DEF L
<1>4. /\ f \in [0..L -> Word] /\ f[0] = {}
      /\ \A k \in 1..L : f[k] = DivideByte(f[k - 1], bytes[k])
  <2>1. ASSUME NEW k \in 1..L PROVE f[k] = DivideByte(f[k - 1], bytes[k])
    <3>1. f[k - 1] \in Word /\ f[k] = F[k][f[k - 1]]
      BY <1>1, <1>3 DEF Follows
    <3> QED  BY <3>1
  <2> QED  BY <2>1, <1>3 DEF Follows
<1>5. ASSUME NEW k \in 0..L, Zero(k) PROVE f[k] = {}
  <2> DEFINE P == {m \in 0..k : f[m] = {}}
  <2>1. 0 \in P  BY <1>1, <1>4
  <2>2. ASSUME NEW m \in 1..k, m - 1 \in P PROVE m \in P
    <3>1. m \in 1..L /\ bytes[m] = {} /\ f[m - 1] = {}  BY <1>1, <1>5, <2>2
    <3>2. f[m] = DivideByte({}, {})  BY <3>1, <1>4
    <3> QED  BY <3>2, NothingDivided
  <2>3. k \in Nat /\ k \in 0..k  BY <1>1
  <2>4. k \in P
    <3>1. \A m \in 1..k : m - 1 \in P => m \in P  BY <2>2
    <3> HIDE DEF P
    <3> QED  BY <2>1, <3>1, <2>3, Induction
  <2> QED  BY <2>4
<1>6. f = Body(f)
  <2>1. ASSUME NEW k \in 0..L PROVE f[k] = Body(f)[k]
    <3>1. CASE Zero(k)  BY <3>1, <1>5
    <3>2. CASE ~Zero(k)
      <4>1. k \in 1..L  BY <3>2, <1>1
      <4> QED  BY <3>2, <4>1, <1>4
    <3> QED  BY <3>1, <3>2
  <2> QED  BY <2>1, <1>4
<1>7. d = Body(d)
  <2> HIDE DEF Body
  <2> QED  BY <1>6
<1> HIDE DEF d
<1>8. /\ \A k \in 0..L : Zero(k) => d[k] = {}
      /\ \A k \in 0..L : ~Zero(k) => d[k] = DivideByte(d[k - 1], bytes[k])
  <2>1. \A k \in 0..L : d[k] = Body(d)[k]  BY <1>7
  <2> HIDE DEF Zero
  <2> QED  BY <2>1
<1>9. ASSUME NEW k \in 1..L PROVE d[k] = DivideByte(d[k - 1], bytes[k])
  <2>1. CASE Zero(k)
    <3>1. k \in 0..L /\ k - 1 \in 0..L /\ Zero(k - 1) /\ bytes[k] = {}
      BY <2>1, <1>1
    <3> HIDE DEF Zero
    <3> QED  BY <2>1, <3>1, <1>8, NothingDivided
  <2>2. CASE ~Zero(k)
    <3>1. k \in 0..L  BY <1>1
    <3> HIDE DEF Zero
    <3> QED  BY <2>2, <3>1, <1>8
  <2> QED  BY <2>1, <2>2
<1>10. d[0] = {}  BY <1>1, <1>8
<1>11. d \in [0..L -> Word]
  <2> DEFINE P == {k \in 0..L : d[k] \in Word}
  <2>1. 0 \in P
    <3>1. 0 \in 0..L  BY <1>1
    <3> QED  BY <3>1, <1>1, <1>10
  <2>2. \A k \in 1..L : k - 1 \in P => k \in P
    BY <1>1, <1>9, DivideByteType
  <2>3. \A k \in 0..L : k \in P
    <3> HIDE DEF P
    <3> QED  BY <1>1, <2>1, <2>2, Induction
  <2>4. d = [k \in 0..L |-> d[k]]
    <3>1. DOMAIN Body(d) = 0..L  OBVIOUS
    <3>2. Body(d) = [k \in DOMAIN Body(d) |-> Body(d)[k]]  OBVIOUS
    <3> HIDE DEF Body
    <3> QED  BY <1>7, <3>1, <3>2
  <2> QED  BY <2>3, <2>4
<1> QED  BY <1>0, <1>9, <1>10, <1>11 DEF Reaches, L

LEMMA ReachesNext ==
  ASSUME NEW c \in Byte, NEW rest \in Seq(Byte), NEW r \in Word, NEW goal,
         Reaches(r, <<c>> \o rest, goal)
  PROVE  Reaches(DivideByte(r, c), rest, goal)
<1> DEFINE all == <<c>> \o rest
<1>1. /\ Len(rest) \in Nat /\ Len(all) = Len(rest) + 1 /\ all[1] = c
      /\ \A k \in 1..Len(rest) : all[k + 1] = rest[k]
  OBVIOUS
<1> HIDE DEF all
<1>2. PICK f \in [0..Len(all) -> Word] :
         /\ f[0] = r /\ f[Len(all)] = goal
         /\ \A k \in 1..Len(all) : f[k] = DivideByte(f[k - 1], all[k])
  BY DEF Reaches, all
<1> DEFINE g == [k \in 0..Len(rest) |-> f[k + 1]]
<1>3. g \in [0..Len(rest) -> Word]  BY <1>1, <1>2
<1>4. g[0] = DivideByte(r, c)
  <2>1. g[0] = f[1] /\ 1 \in 1..Len(all) /\ 1 - 1 = 0  BY <1>1
  <2> HIDE DEF g
  <2> QED  BY <2>1, <1>1, <1>2
<1>5. g[Len(rest)] = goal  BY <1>1, <1>2
<1>6. ASSUME NEW k \in 1..Len(rest)
      PROVE  g[k] = DivideByte(g[k - 1], rest[k])
  <2>1. /\ g[k] = f[k + 1] /\ g[k - 1] = f[k] /\ k + 1 \in 1..Len(all)
        /\ (k + 1) - 1 = k /\ all[k + 1] = rest[k]
    BY <1>1
  <2> HIDE DEF g
  <2>2. f[k + 1] = DivideByte(f[(k + 1) - 1], all[k + 1])  BY <2>1, <1>2
  <2> QED  BY <2>1, <2>2
<1> HIDE DEF g
<1> QED  BY <1>3, <1>4, <1>5, <1>6 DEF Reaches

-----------------------------------------------------------------------------
(* The bytes of the length.                                                *)

Longer(k, bytes) == <<LowByte(k)>> \o bytes

Digits(b, k) ==
  b = [j \in 0..k |-> IF j = 0 THEN <<>> ELSE Longer(j, b[j \div 256])]

LEMMA DigitsValues ==
  ASSUME NEW b, NEW k \in Nat, Digits(b, k)
  PROVE  /\ b[0] = <<>>
         /\ \A j \in 1..k : b[j] = Longer(j, b[j \div 256])
<1> DEFINE Body == [j \in 0..k |-> IF j = 0 THEN <<>>
                                   ELSE Longer(j, b[j \div 256])]
<1>1. b = Body  BY DEF Digits
<1>2. \A j \in 0..k : b[j] = Body[j]  BY <1>1
<1> QED  BY <1>2

LEMMA DigitsExist ==
  ASSUME NEW k \in Nat  PROVE \E b : Digits(b, k)
<1> DEFINE P == {m \in 0..k : \E b : Digits(b, m)}
<1>1. 0 \in P
  <2>1. Digits([j \in 0..0 |-> <<>>], 0)  BY DEF Digits
  <2> QED  BY <2>1
<1>2. ASSUME NEW m \in 1..k, m - 1 \in P PROVE m \in P
  <2>1. PICK b : Digits(b, m - 1)  BY <1>2
  <2>a. m \in Nat /\ m - 1 \in Nat /\ m \div 256 \in 0..(m - 1)  OBVIOUS
  <2> DEFINE e == [j \in 0..m |-> IF j = m THEN Longer(m, b[m \div 256])
                                  ELSE b[j]]
  <2>2. b[0] = <<>> /\ \A j \in 1..(m - 1) :
                          b[j] = Longer(j, b[j \div 256])
    BY <2>1, <2>a, DigitsValues
  <2>3. e[0] = <<>>  BY <2>2
  <2>4. ASSUME NEW j \in 1..m PROVE e[j] = Longer(j, e[j \div 256])
    <3>1. j \div 256 \in 0..(m - 1)  OBVIOUS
    <3>2. e[j \div 256] = b[j \div 256]
      <4>1. j \div 256 \in 0..m /\ j \div 256 # m  BY <3>1, <2>a
      <4> QED  BY <4>1
    <3>3. CASE j = m  BY <3>2, <3>3
    <3>4. CASE j \in 1..(m - 1)
      <4>1. e[j] = b[j]  BY <3>4
      <4> HIDE DEF e
      <4> QED  BY <2>2, <3>2, <3>4, <4>1
    <3> QED  BY <3>3, <3>4
  <2>5. e = [j \in 0..m |-> e[j]]  OBVIOUS
  <2> HIDE DEF e
  <2>6. Digits(e, m)
    <3> DEFINE Body == [j \in 0..m |-> IF j = 0 THEN <<>>
                                       ELSE Longer(j, e[j \div 256])]
    <3>1. ASSUME NEW j \in 0..m PROVE e[j] = Body[j]
      <4>1. CASE j = 0  BY <4>1, <2>3
      <4>2. CASE j \in 1..m  BY <4>2, <2>4
      <4> QED  BY <4>1, <4>2
    <3>2. e = Body  BY <2>5, <3>1
    <3> QED  BY <3>2 DEF Digits
  <2> QED  BY <2>6
<1>3. k \in P
  <2>1. \A m \in 1..k : m - 1 \in P => m \in P  BY <1>2
  <2>2. k \in 0..k  OBVIOUS
  <2> HIDE DEF P
  <2> QED  BY <1>1, <2>1, <2>2, Induction
<1> QED  BY <1>3

LEMMA DigitsAgree ==
  ASSUME NEW k \in Nat, NEW b, Digits(b, k), NEW m \in 0..k, NEW e, Digits(e, m)
  PROVE  \A j \in 0..m : b[j] = e[j]
<1> DEFINE T == {j \in 0..m : b[j] # e[j]}
<1> SUFFICES ASSUME T # {} PROVE FALSE  OBVIOUS
<1>1. PICK j \in T : \A h \in T : j <= h
  <2>1. T \subseteq Nat  OBVIOUS
  <2> HIDE DEF T
  <2> QED  BY <2>1, LeastNumber
<1>2. /\ b[0] = <<>> /\ e[0] = <<>>
      /\ \A h \in 1..m : /\ b[h] = Longer(h, b[h \div 256])
                         /\ e[h] = Longer(h, e[h \div 256])
  BY DigitsValues
<1>3. j \in 1..m  BY <1>2
<1>4. j \div 256 \in 0..m /\ ~(j <= j \div 256)  BY <1>3
<1>5. b[j \div 256] = e[j \div 256]  BY <1>1, <1>4
<1> QED  BY <1>2, <1>3, <1>5

LEMMA LengthBytesIs ==
  ASSUME NEW k \in Nat
  PROVE  \E b : Digits(b, k) /\ LengthBytes(k) = b[k]
<1> DEFINE Body(b) == [j \in 0..k |-> IF j = 0 THEN <<>>
                                      ELSE Longer(j, b[j \div 256])]
           b == CHOOSE b : b = Body(b)
<1>1. LengthBytes(k) = b[k]  BY DEF LengthBytes, Longer
<1>2. PICK e : e = Body(e)  BY DigitsExist DEF Digits
<1>3. b = Body(b)
  <2> HIDE DEF Body
  <2> QED  BY <1>2
<1> HIDE DEF b
<1> QED  BY <1>1, <1>3 DEF Digits

LEMMA LengthBytesStep ==
  /\ LengthBytes(0) = <<>>
  /\ \A k \in Nat : k # 0 =>
       LengthBytes(k) = Longer(k, LengthBytes(k \div 256))
<1>1. LengthBytes(0) = <<>>
  <2>1. PICK b : Digits(b, 0) /\ LengthBytes(0) = b[0]  BY LengthBytesIs
  <2> QED  BY <2>1, DigitsValues
<1>2. ASSUME NEW k \in Nat, k # 0
      PROVE  LengthBytes(k) = Longer(k, LengthBytes(k \div 256))
  <2>1. PICK b : Digits(b, k) /\ LengthBytes(k) = b[k]  BY LengthBytesIs
  <2>2. k \in 1..k /\ k \div 256 \in 0..k /\ k \div 256 \in Nat
        /\ k \div 256 \in 0..(k \div 256)
    BY <1>2
  <2>3. PICK e : Digits(e, k \div 256) /\ LengthBytes(k \div 256) = e[k \div 256]
    BY <2>2, LengthBytesIs
  <2>4. b[k \div 256] = e[k \div 256]  BY <2>1, <2>2, <2>3, DigitsAgree
  <2>5. b[k] = Longer(k, b[k \div 256])  BY <2>1, <2>2, DigitsValues
  <2> QED  BY <2>1, <2>3, <2>4, <2>5
<1> QED  BY <1>1, <1>2

LEMMA LengthBytesType ==
  ASSUME NEW k \in Nat  PROVE LengthBytes(k) \in Seq(Byte)
<1> DEFINE T == {j \in Nat : LengthBytes(j) \notin Seq(Byte)}
<1> SUFFICES ASSUME T # {} PROVE FALSE  OBVIOUS
<1>1. PICK j \in T : \A h \in T : j <= h
  <2>1. T \subseteq Nat  OBVIOUS
  <2> HIDE DEF T
  <2> QED  BY <2>1, LeastNumber
<1>2. j \in Nat /\ j # 0
  <2>1. <<>> \in Seq(Byte)  OBVIOUS
  <2> QED  BY <2>1, LengthBytesStep
<1>3. j \div 256 \in Nat /\ ~(j <= j \div 256)  BY <1>2
<1>4. LengthBytes(j \div 256) \in Seq(Byte)  BY <1>1, <1>3
<1>5. LowByte(j) \in Byte  BY DEF LowByte, Byte
<1>6. Longer(j, LengthBytes(j \div 256)) \in Seq(Byte)  BY <1>4, <1>5 DEF Longer
<1>7. LengthBytes(j) \in Seq(Byte)  BY <1>2, <1>6, LengthBytesStep
<1> QED  BY <1>7

-----------------------------------------------------------------------------
(* What is still to be read, and the two registers on their way.           *)

Left(bytes, k, m) == SubSeq(bytes, k + 1, Len(bytes)) \o LengthBytes(m)

LEMMA LeftType ==
  ASSUME NEW bytes \in Seq(Byte), NEW k \in 0..Len(bytes), NEW m \in Nat
  PROVE  Left(bytes, k, m) \in Seq(Byte)
<1>1. SubSeq(bytes, k + 1, Len(bytes)) \in Seq(Byte)
  BY k + 1 \in Nat, SubSeqProperties
<1>2. LengthBytes(m) \in Seq(Byte)  BY LengthBytesType
<1> QED  BY <1>1, <1>2, ConcatProperties DEF Left

LEMMA LeftAtFirst ==
  ASSUME NEW bytes \in Seq(Byte), NEW m \in Nat
  PROVE  Left(bytes, 0, m) = bytes \o LengthBytes(m)
<1>1. SubSeq(bytes, 0 + 1, Len(bytes)) = bytes  BY SubSeqFull
<1> QED  BY <1>1 DEF Left

LEMMA LeftAfterByte ==
  ASSUME NEW bytes \in Seq(Byte), NEW k \in 0..(Len(bytes) - 1), NEW m \in Nat
  PROVE  Left(bytes, k, m) = <<bytes[k + 1]>> \o Left(bytes, k + 1, m)
<1> DEFINE rest == SubSeq(bytes, k + 2, Len(bytes))
           tail == LengthBytes(m)
<1>1. SubSeq(bytes, k + 1, Len(bytes)) = <<bytes[k + 1]>> \o rest
  OBVIOUS
<1>2. bytes[k + 1] \in Byte /\ rest \in Seq(Byte) /\ tail \in Seq(Byte)
  BY LengthBytesType
<1>3. Left(bytes, k + 1, m) = rest \o tail
  <2>1. (k + 1) + 1 = k + 2  OBVIOUS
  <2> QED  BY <2>1 DEF Left
<1>4. Left(bytes, k, m) = (<<bytes[k + 1]>> \o rest) \o tail
  BY <1>1 DEF Left
<1> DEFINE one == <<bytes[k + 1]>>
<1>5. one \in Seq(Byte)  BY <1>2
<1> HIDE DEF rest, tail, one
<1>6. (one \o rest) \o tail = one \o (rest \o tail)
  BY <1>2, <1>5, ConcatAssociative
<1> QED  BY <1>3, <1>4, <1>6 DEF one

LEMMA LeftAfterLengthByte ==
  ASSUME NEW bytes \in Seq(Byte), NEW m \in Nat, m # 0
  PROVE  Left(bytes, Len(bytes), m)
           = <<LowByte(m)>> \o Left(bytes, Len(bytes), m \div 256)
<1>1. SubSeq(bytes, Len(bytes) + 1, Len(bytes)) = <<>>  OBVIOUS
<1>2. m \div 256 \in Nat  OBVIOUS
<1>3. ASSUME NEW j \in Nat PROVE Left(bytes, Len(bytes), j) = LengthBytes(j)
  <2>1. LengthBytes(j) \in Seq(Byte)  BY LengthBytesType
  <2>2. <<>> \o LengthBytes(j) = LengthBytes(j)  BY <2>1, ConcatEmptySeq
  <2> QED  BY <1>1, <2>2 DEF Left
<1>4. LengthBytes(m) = <<LowByte(m)>> \o LengthBytes(m \div 256)
  BY LengthBytesStep DEF Longer
<1> QED  BY <1>2, <1>3, <1>4

LEMMA LeftAtLast ==
  ASSUME NEW bytes \in Seq(Byte)
  PROVE  Left(bytes, Len(bytes), 0) = <<>>
<1>1. SubSeq(bytes, Len(bytes) + 1, Len(bytes)) = <<>>  OBVIOUS
<1> QED  BY <1>1, LengthBytesStep DEF Left

Goal(bytes) == Remainder(bytes \o LengthBytes(Len(bytes)))

\* A register, when k bytes were read and m is left of the length.
OnTheWay(r, bytes, k, m) == Reaches(r, Left(bytes, k, m), Goal(bytes))

LEMMA AtFirst ==
  ASSUME NEW bytes \in Seq(Byte)
  PROVE  OnTheWay({}, bytes, 0, Len(bytes))
<1>1. Len(bytes) \in Nat  OBVIOUS
<1>2. LengthBytes(Len(bytes)) \in Seq(Byte)  BY <1>1, LengthBytesType
<1>3. bytes \o LengthBytes(Len(bytes)) \in Seq(Byte)
  BY <1>2, ConcatProperties
<1>4. Left(bytes, 0, Len(bytes)) = bytes \o LengthBytes(Len(bytes))
  BY <1>1, LeftAtFirst
<1> QED  BY <1>3, <1>4, RemainderReached DEF OnTheWay, Goal

LEMMA AfterByte ==
  ASSUME NEW bytes \in Seq(Byte), NEW k \in 0..(Len(bytes) - 1), NEW m \in Nat,
         NEW r \in Word, OnTheWay(r, bytes, k, m)
  PROVE  OnTheWay(Turn(crctab, r, bytes[k + 1]), bytes, k + 1, m)
<1>1. bytes[k + 1] \in Byte /\ k + 1 \in 0..Len(bytes)  OBVIOUS
<1>2. Left(bytes, k + 1, m) \in Seq(Byte)  BY <1>1, LeftType
<1>3. Reaches(r, <<bytes[k + 1]>> \o Left(bytes, k + 1, m), Goal(bytes))
  BY LeftAfterByte DEF OnTheWay
<1>4. Reaches(DivideByte(r, bytes[k + 1]), Left(bytes, k + 1, m), Goal(bytes))
  BY <1>1, <1>2, <1>3, ReachesNext
<1> QED  BY <1>1, <1>4, TurnDivides DEF OnTheWay

LEMMA AfterLengthByte ==
  ASSUME NEW bytes \in Seq(Byte), NEW m \in Nat, m # 0,
         NEW r \in Word, OnTheWay(r, bytes, Len(bytes), m)
  PROVE  OnTheWay(Turn(crctab, r, LowByte(m)), bytes, Len(bytes), m \div 256)
<1> DEFINE rest == Left(bytes, Len(bytes), m \div 256)
<1>1. LowByte(m) \in Byte  BY DEF LowByte, Byte
<1>2. rest \in Seq(Byte)
  <2>1. m \div 256 \in Nat /\ Len(bytes) \in 0..Len(bytes)  OBVIOUS
  <2> QED  BY <2>1, LeftType
<1>3. Reaches(r, <<LowByte(m)>> \o rest, Goal(bytes))
  BY LeftAfterLengthByte DEF OnTheWay
<1> HIDE DEF rest
<1>4. Reaches(DivideByte(r, LowByte(m)), rest, Goal(bytes))
  BY <1>1, <1>2, <1>3, ReachesNext
<1> QED  BY <1>1, <1>4, TurnDivides DEF OnTheWay, rest

LEMMA AtLast ==
  ASSUME NEW bytes \in Seq(Byte), NEW r, OnTheWay(r, bytes, Len(bytes), 0)
  PROVE  Result(r) = Crc(bytes)
<1>1. Reaches(r, <<>>, Goal(bytes))  BY LeftAtLast DEF OnTheWay
<1>2. r = Goal(bytes)  BY <1>1 DEF Reaches
<1> QED  BY <1>2 DEF Result, Crc, Goal

Posix ==
  /\ n \in Nat
  /\ OnTheWay(s, x.sent, i, n) /\ OnTheWay(server, x.stored, i, n)

LEMMA PosixInit == Init => Posix
<1> SUFFICES ASSUME Init PROVE Posix  OBVIOUS
<1>1. /\ x.sent \in Seq(Byte) /\ x.stored \in Seq(Byte)
      /\ Len(x.sent) = Len(x.stored)
  BY TransfersAssumption DEF Init
<1>2. n = Len(x.sent) /\ i = 0 /\ s = {} /\ server = {}  BY DEF Init
<1>3. n \in Nat  BY <1>1, <1>2
<1> QED  BY <1>1, <1>2, <1>3, AtFirst DEF Posix

LEMMA PosixNext == Inv /\ Posix /\ [Next]_vars => Posix'
<1> SUFFICES ASSUME Inv, Posix, [Next]_vars PROVE Posix'  OBVIOUS
<1>1. /\ x.sent \in Seq(Byte) /\ x.stored \in Seq(Byte)
      /\ Len(x.stored) = Len(x.sent)
  BY TransfersAssumption DEF Inv, Types
<1>2. /\ i \in 0..Len(x.sent) /\ n \in Nat /\ s \in Word /\ server \in Word
      /\ OnTheWay(s, x.sent, i, n) /\ OnTheWay(server, x.stored, i, n)
  BY DEF Inv, Types, Posix
<1>3. CASE NextByte
  <2>1. /\ x' = x /\ n' = n /\ i' = i + 1
        /\ s' = Turn(crctab, s, x.sent[i + 1])
        /\ server' = Turn(crctab, server, x.stored[i + 1])
    BY <1>3, TableAssumption DEF NextByte
  <2>2. i \in 0..(Len(x.sent) - 1) /\ i \in 0..(Len(x.stored) - 1)
    BY <1>1, <1>2, <1>3 DEF NextByte
  <2>3. OnTheWay(s', x.sent, i + 1, n)  BY <1>1, <1>2, <2>1, <2>2, AfterByte
  <2>4. OnTheWay(server', x.stored, i + 1, n)
    BY <1>1, <1>2, <2>1, <2>2, AfterByte
  <2> QED  BY <1>2, <2>1, <2>3, <2>4 DEF Posix
<1>4. CASE NextLengthByte
  <2>1. /\ x' = x /\ i' = i /\ i = Len(x.sent) /\ n # 0 /\ n' = n \div 256
        /\ s' = Turn(crctab, s, LowByte(n))
        /\ server' = Turn(crctab, server, LowByte(n))
    BY <1>4, TableAssumption DEF NextLengthByte
  <2>2. n \div 256 \in Nat  BY <1>2
  <2>3. OnTheWay(s', x.sent, i, n \div 256)
    BY <1>1, <1>2, <2>1, AfterLengthByte
  <2>4. OnTheWay(server', x.stored, i, n \div 256)
    BY <1>1, <1>2, <2>1, AfterLengthByte
  <2> QED  BY <2>1, <2>2, <2>3, <2>4 DEF Posix
<1>5. CASE Return \/ UNCHANGED vars
  <2>1. x' = x /\ i' = i /\ n' = n /\ s' = s /\ server' = server
    BY <1>5 DEF Return, vars
  <2> QED  BY <1>2, <2>1 DEF Posix
<1> QED  BY <1>3, <1>4, <1>5 DEF Next

\* What both programs return is the checksum of POSIX cksum, for contents of
\* every length (cksum_new.cpp:449-466, cksum.py:64-75).
THEOREM ChecksumsArePosix == Spec => []ChecksumIsPosix
<1>1. Inv /\ Posix => ChecksumIsPosix
  <2> SUFFICES ASSUME Inv, Posix, crcs # <<>>
               PROVE  crcs = <<Crc(x.sent), Crc(x.stored)>>
    BY DEF ChecksumIsPosix
  <2>1. /\ x.sent \in Seq(Byte) /\ x.stored \in Seq(Byte)
        /\ Len(x.stored) = Len(x.sent)
    BY TransfersAssumption DEF Inv, Types
  <2>2. /\ i = Len(x.sent) /\ n = 0 /\ crcs = <<Result(s), Result(server)>>
        /\ OnTheWay(s, x.sent, i, n) /\ OnTheWay(server, x.stored, i, n)
    BY DEF Inv, Posix
  <2>3. Result(s) = Crc(x.sent)  BY <2>1, <2>2, AtLast
  <2>4. Result(server) = Crc(x.stored)  BY <2>1, <2>2, AtLast
  <2> QED  BY <2>2, <2>3, <2>4
<1>2. Init => Inv /\ Posix  BY InvInit, PosixInit
<1>3. Inv /\ Posix /\ [Next]_vars => (Inv /\ Posix)'
  BY InvNext, PosixNext
<1> QED  BY <1>1, <1>2, <1>3, PTL DEF Spec

=============================================================================
