------------------------------ MODULE MCTailer ------------------------------
(* Small instances of Tailer for TLC. *)
EXTENDS Tailer, TLC

Symmetry == Permutations(Inode)

\* Lines of two files, in the order they are written.
Kinds(first, second) == [l \in Line |-> (IF l[1] = 1 THEN first ELSE second)[l[2]]]

\* An entry is broken off by an invalid line. The next one begins in the first file and
\* ends in the second one, after a long line.
SplitEntry == Kinds(<<"part", "invalid", "part">>, <<"long", "full", "full">>)

\* The last entry is too large.
LargeEntry == Kinds(<<"part", "full">>, <<"part", "full">>)

\* A log of Docker, with an empty line.
DockerLog == Kinds(<<"json", "void">>, <<"json", "json">>)

OneStream == [l \in Line |-> 1]

\* The entry is split by one of another stream, and ends in the second file.
SplitByOther == Kinds(<<"part", "full">>, <<"full", "full">>)
TwoStreams == [l \in Line |-> l[2]]
=============================================================================
