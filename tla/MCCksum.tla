------------------------------ MODULE MCCksum ------------------------------
(***************************************************************************)
(* Cksum for TLC: the tables of the code, transfers that are damaged in    *)
(* some way, and the division by the polynomial the tables stand for.      *)
(***************************************************************************)
EXTENDS Cksum, CrcTables

client_table == Table(client_halves)
server_table == Table(server_halves)

-----------------------------------------------------------------------------
\* every damage of the first byte, with and without more behind it
Rests == {<<>>, <<{}>>, <<{1}, {7}, {}, {2}, 0..7>>}
OneByte == {[sent |-> <<a>> \o rest, stored |-> <<b>> \o rest] :
              a \in {{}, {0, 6}}, b \in Byte, rest \in Rests}
\* four bytes in a row, in the middle
Values == {{}, {0}, 0..7}
FourBytes == {[sent |-> <<{3}, {}, {0}, {}, {5}, {3}>>,
               stored |-> <<{3}, a, b, c, d, {3}>>] :
                a \in Values, b \in Values, c \in Values, d \in Values}
\* lengths of none, one and two bytes
Zeros(k) == [j \in 1..k |-> {}]
Long == {[sent |-> Zeros(k), stored |-> Zeros(k)] : k \in {0, 1, 255, 256, 260}}

MCTransfers == OneByte \cup FourBytes \cup Long
=============================================================================
