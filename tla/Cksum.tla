------------------------------- MODULE Cksum -------------------------------
(***************************************************************************)
(* memcrc, on both sides of a transfer: the client's over the file it      *)
(* sends (cksum_new.cpp), the server's over what it stored (cksum.py),     *)
(* after both were found to have the same length (request.py:28). Each     *)
(* step is one turn of a loop, taken by both, so that the two registers    *)
(* can be compared all along.                                              *)
(*                                                                         *)
(* A byte or a word is the set of the bits that are 1: exclusive or is the *)
(* symmetric difference, a shift adds to every bit's number.               *)
(***************************************************************************)
EXTENDS Integers, Sequences

CONSTANTS
  crctab,         \* crctab[0] of Client/cksum_new.cpp
  server_crctab,  \* crctab of Server/cksum.py
  Transfers       \* what is sent and what is stored in the end

Byte == SUBSET (0..7)
Word == SUBSET (0..31)

Xor(a, b) == (a \ b) \cup (b \ a)
UNSIGNED(a) == a \cap 0..31

-----------------------------------------------------------------------------
(* What cksum.py:2-5 says is computed, the checksum of POSIX cksum: the    *)
(* remainder of a polynomial division, of the bytes and then of their      *)
(* number, the least significant byte of it first.                         *)

\* CRC-32: 0x04C11DB7
Polynomial == {0, 1, 2, 4, 5, 7, 8, 10, 11, 12, 16, 22, 23, 26}

\* One bit of the message, most significant first, into the remainder.
Divide(r, bit) ==
  LET shifted == {b + 1 : b \in r \ {31}} IN
  IF (31 \in r) # bit THEN Xor(shifted, Polynomial) ELSE shifted
DivideByte(r, c) ==
  LET d[k \in 0..8] == IF k = 0 THEN r ELSE Divide(d[k - 1], (8 - k) \in c)
  IN d[8]
\* (zeros in front leave no remainder)
Remainder(bytes) ==
  LET d[k \in 0..Len(bytes)] ==
        IF \A j \in 1..k : bytes[j] = {} THEN {}
        ELSE DivideByte(d[k - 1], bytes[k])
  IN d[Len(bytes)]

\* n & 0377
LowByte(k) == {b \in 0..7 : (k \div 2^b) % 2 = 1}
LengthBytes(k) ==
  LET bytes[j \in 0..k] ==
        IF j = 0 THEN <<>> ELSE <<LowByte(j)>> \o bytes[j \div 256]
  IN bytes[k]
Crc(bytes) == 0..31 \ Remainder(bytes \o LengthBytes(Len(bytes)))

-----------------------------------------------------------------------------
\* The entry of a byte is the remainder of that byte alone.
ASSUME TableAssumption ==
  /\ crctab \in [Byte -> Word]
  /\ server_crctab = crctab
  /\ \A c \in Byte : crctab[c] = DivideByte({}, c)
  /\ \A a, b \in Byte :
       crctab[a] \cap 0..7 = crctab[b] \cap 0..7 => a = b

ASSUME TransfersAssumption ==
  \A x \in Transfers : /\ x.sent \in Seq(Byte)
                       /\ x.stored \in Seq(Byte)
                       /\ Len(x.sent) = Len(x.stored)

\* UNSIGNED(s << 8) and s >> 24
ShiftLeft8_Rotates(s) ==  \* mutant: what is shifted out comes back
  UNSIGNED({b + 8 : b \in s}) \cup {b - 24 : b \in s \cap 24..31}
ShiftLeft8(s) == UNSIGNED({b + 8 : b \in s})
ShiftRight24(s) == {b - 24 : b \in s \cap 24..31}

\* One turn of a loop for byte c: the table is asked for the top byte of the
\* register xor c.
Turn_Unmixed(table, s, c) ==  \* mutant: the register's top byte is left out
  Xor(ShiftLeft8(s), table[c])
Turn(table, s, c) == Xor(ShiftLeft8(s), table[Xor(ShiftRight24(s), c)])

VARIABLES
  x,       \* the transfer: x.sent and x.stored
  i,       \* bytes both have read
  n,       \* what is left of the length
  s,       \* the client's register
  server,  \* the server's
  crcs     \* both results; <<>> before

vars == <<x, i, n, s, server, crcs>>

Init ==
  /\ x \in Transfers
  /\ i = 0 /\ n = Len(x.sent)
  /\ s = {} /\ server = {}
  /\ crcs = <<>>

\* for (int i = 0; i < n; i++), for ch in b
NextByte ==
  /\ i < Len(x.sent)
  /\ i' = i + 1
  /\ s' = Turn(crctab, s, x.sent[i + 1])
  /\ server' = Turn(server_crctab, server, x.stored[i + 1])
  /\ UNCHANGED <<x, n, crcs>>

\* while (n)
NextLengthByte_Once ==  \* mutant: one byte of the length only
  /\ i = Len(x.sent) /\ n # 0
  /\ n' = 0
  /\ s' = Turn(crctab, s, LowByte(n))
  /\ server' = Turn(server_crctab, server, LowByte(n))
  /\ UNCHANGED <<x, i, crcs>>
NextLengthByte ==
  /\ i = Len(x.sent) /\ n # 0
  /\ n' = n \div 256
  /\ s' = Turn(crctab, s, LowByte(n))
  /\ server' = Turn(server_crctab, server, LowByte(n))
  /\ UNCHANGED <<x, i, crcs>>

\* return UNSIGNED(~s)
Result(r) == 0..31 \ r
Return ==
  /\ i = Len(x.sent) /\ n = 0 /\ crcs = <<>>
  /\ crcs' = <<Result(s), Result(server)>>
  /\ UNCHANGED <<x, i, n, s, server>>

Next == NextByte \/ NextLengthByte \/ Return

Spec == Init /\ [][Next]_vars

-----------------------------------------------------------------------------
(* Damage confined to four bytes in a row, from the first that differs on. *)
FirstDamaged(d) ==
  /\ d \in 1..Len(x.sent)
  /\ x.sent[d] # x.stored[d]
  /\ \A k \in 1..Len(x.sent) :
        k \notin d..(d + 3) => x.sent[k] = x.stored[k]

\* request.py:31 and client.cpp:297: if what the server stored differs from
\* the file in at most four bytes in a row, the two checksums differ.
BurstFound ==
  crcs # <<>> /\ (\E d \in 1..Len(x.sent) : FirstDamaged(d))
    => crcs[1] # crcs[2]

\* Both programs compute the checksum of POSIX cksum, as cksum.py:2-5 says:
\* the polynomial division of content and length, most significant bit first.
ChecksumIsPosix ==
  crcs # <<>> => crcs = <<Crc(x.sent), Crc(x.stored)>>
=============================================================================
