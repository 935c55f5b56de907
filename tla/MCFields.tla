------------------------------ MODULE MCFields ------------------------------
(* Fields for TLC: sizes of 2, 4 and 3 in place of 16, 255 and 100. *)
EXTENDS Fields

\* both sides of every boundary of a hex digit
SomeBytes == {0, 1, 9, 10, 15, 16, 160, 255}
SomeIds == [1..2 -> SomeBytes]
SomeNames == {<<97>>, <<97, 98, 99>>, <<97, 98, 99, 100>>}
\* a name alone, in a folder, of the largest size, and two too long
SomePaths == {<<120>>, <<92, 120>>, <<121, 92, 122, 92, 120, 121, 122>>,
              <<120, 121, 122, 120>>, <<120, 121, 122, 120, 121>>}
SomeContents == {<<7>>, [j \in 1..300 |-> j % 256]}
=============================================================================
