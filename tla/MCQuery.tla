------------------------------ MODULE MCQuery ------------------------------
(* Two storage nodes that share a key, queries that mix the pipes.          *)
EXTENDS Query

Entry(k, n) == [key |-> k, n |-> n]

TwoNodes == <<{Entry("a", 1), Entry("b", 4)}, {Entry("a", 8), Entry("b", 3), Entry("c", 11)}>>

(* Three log entries of one moment, the middle of the time range, and a later one. *)
TiedNodes == <<{Entry("a", 6), Entry("b", 6), Entry("c", 6), Entry("d", 9)}, {}>>

LastTwo == {<<Newest(0, 2)>>}
LastOne == {<<Newest(0, 1)>>}

(* The search for the last N rows finds exactly them, wherever the rows    *)
(* are in the time range, when no two of them have the same timestamp.     *)
LastNIsExact ==
    TimeOffset = 0 =>
    \A from \in 0..1, to \in 6..9 : \A T \in SUBSET (from..to), limit \in 1..3 :
        CanApplyLastN(from, to) /\ Cardinality(T) <= 5 =>
            LET rows == {Entry("a", t) : t \in T}
            IN  GetLastNQueryResults(rows, limit, from, to) = GetLastN(SetToSeq(rows), limit)

ASSUME LastNIsExact

AllQueries == {
    <<>>,
    <<Limit(0)>>,
    <<Limit(2)>>,
    <<Offset(1), Offset(2)>>,
    <<Offset(1), Limit(2)>>,
    <<Filter(2), Limit(2), Filter(4)>>,
    <<Sort(0, 0)>>,
    <<Sort(0, 0), Offset(1), Limit(2)>>,
    <<Sort(1, 3), Limit(2), Offset(1)>>,
    <<Sort(0, 2), Offset(2)>>,
    <<Newest(0, 0), Limit(1)>>,
    <<Filter(2), Newest(1, 1)>>,
    <<Limit(2), Filter(3), Stats>>,
    <<Filter(2), Count, Filter(3)>>,
    <<Uniq(0), Limit(2)>>,
    <<UniqHits(2)>>,
    <<UniqHits(0), Filter(2), Offset(1)>>,
    <<Uniq(1), Stats, Limit(1)>> }

(* '| sort | offset N' without a limit *)
SortOffsetQueries == {<<Sort(0, 0), Offset(1)>>}

(* '| limit 2 | stats count()' *)
LimitCountQueries == {<<Limit(2), Count>>}

(* '| uniq | limit 0' *)
UniqLimitQueries == {<<Uniq(0), Limit(0)>>}
=============================================================================
