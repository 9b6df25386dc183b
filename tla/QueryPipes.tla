---------------------------- MODULE QueryPipes ----------------------------
(***************************************************************************)
(* The pipes of a query as values: what a pipe makes of its input, how the *)
(* parser optimizes a sequence of pipes and how the sequence is split into *)
(* the part the storage nodes run and the part vlselect runs itself        *)
(* (lib/logstorage/parser.go, net_query_runner.go, pipe_*.go).             *)
(*                                                                         *)
(* A row is a record [key, n]: the value of the field the query groups by  *)
(* and the number it sorts by (the timestamp of a log entry, the hits or   *)
(* the count of a group, 0 for a bare key).  A pipe is a record            *)
(* [op, off, lim]; lim = 0 of sort and uniq stands for "no limit".  Loops  *)
(* over pipes and rows are functions of the number of elements done.       *)
(***************************************************************************)
EXTENDS Integers, Sequences, FiniteSets, SequencesExt

CONSTANTS Key,         \* the values of the field, "" when a row has none
          From, To,    \* the time range of the query, less the offset
          TimeOffset,  \* the option time_offset
          Second       \* nanoseconds in a second

ASSUME TimeAssumption ==
    From \in Nat /\ To \in Nat /\ From <= To /\ TimeOffset \in Int /\ Second \in Nat \ {0}

ASSUME KeyAssumption == "" \in Key

Limit(l)        == [op |-> "limit",       off |-> 0, lim |-> l]
Offset(o)       == [op |-> "offset",      off |-> o, lim |-> 0]
Filter(o)       == [op |-> "filter",      off |-> o, lim |-> 0]   \* n >= o
Sort(o, l)      == [op |-> "sort",        off |-> o, lim |-> l]   \* by n
Newest(o, l)    == [op |-> "newest",      off |-> o, lim |-> l]   \* sort by (_time desc)
Uniq(l)         == [op |-> "uniq",        off |-> 0, lim |-> l]   \* by key
UniqHits(l)     == [op |-> "uniq_hits",   off |-> 0, lim |-> l]
UniqLocal(l)    == [op |-> "uniq_local",  off |-> 0, lim |-> l]
Stats           == [op |-> "stats",       off |-> 0, lim |-> 0]   \* count() by (key)
StatsLocal      == [op |-> "stats_local", off |-> 0, lim |-> 0]
Count           == [op |-> "count",       off |-> 0, lim |-> 0]   \* count()
CountLocal      == [op |-> "count_local", off |-> 0, lim |-> 0]

Row == [key : Key, n : Nat]

\* The pipes of clients, and those a split makes of them for vlselect.
ClientPipe == [op : {"limit", "offset", "filter", "sort", "newest", "uniq", "uniq_hits", "stats", "count"},
               off : Nat, lim : Nat]
LocalPipe  == ClientPipe \cup [op : {"uniq_local", "stats_local", "count_local"}, off : Nat, lim : Nat]

IsSort(p) == p.op \in {"sort", "newest"}

(* The pipes that keep the rows until they are flushed. *)
Blocking(p) == IsSort(p) \/ p.op \in {"uniq", "uniq_hits", "uniq_local", "stats", "stats_local",
                                       "count", "count_local"}

Lower(a, b) == IF a < b THEN a ELSE b

---------------------------------------------------------------------------
(* What a pipe makes of its input: the set of the outputs it may give.     *)

Keys(s) == {s[i].key : i \in DOMAIN s}

RowsOfKey(s, k) == {i \in DOMAIN s : s[i].key = k}

Total(s, k) ==
    LET t[i \in 0..Len(s)] == IF i = 0 THEN 0
                              ELSE t[i - 1] + (IF s[i].key = k THEN s[i].n ELSE 0)
    IN  t[Len(s)]

(* All the orders of the rows one for every key k, with the number num[k]. *)
Groups(num) == {[i \in DOMAIN ks |-> [key |-> ks[i], n |-> num[ks[i]]]] : ks \in SetToSeqs(DOMAIN num)}

(* Which keys uniq keeps: all of them or any lim of them. *)
KeptKeys(p, K) ==
    IF p.lim = 0 \/ Cardinality(K) <= p.lim THEN {K}
    ELSE {S \in SUBSET K : Cardinality(S) = p.lim}

TooManyKeys(p, s) == p.lim > 0 /\ Cardinality(Keys(s)) > p.lim

FilterRows(p, s) ==
    LET left[i \in 0..Len(s)] == IF i = 0 THEN <<>>
                                 ELSE IF s[i].n >= p.off THEN Append(left[i - 1], s[i])
                                 ELSE left[i - 1]
    IN  left[Len(s)]

Before(op, a, b) == IF op = "newest" THEN a.n > b.n ELSE a.n < b.n

(* Rows which sort equal stay in their order. *)
PutRow(op, s, r) == InsertAt(s, Cardinality({i \in DOMAIN s : ~ Before(op, r, s[i])}) + 1, r)

Sorted(op, s) ==
    LET sorted[i \in 0..Len(s)] == IF i = 0 THEN <<>> ELSE PutRow(op, sorted[i - 1], s[i])
    IN  sorted[Len(s)]

SortRows(p, s) ==
    SubSeq(Sorted(p.op, s), p.off + 1, IF p.lim = 0 THEN Len(s) ELSE Lower(p.off + p.lim, Len(s)))

UniqRows(p, s) == UNION {Groups([k \in K |-> 0]) : K \in KeptKeys(p, Keys(s))}

(* The hits are misleading once keys were dropped: they are all set to 0. *)
UniqHitsRows(p, s) ==
    UNION {Groups([k \in K |-> IF TooManyKeys(p, s) THEN 0 ELSE Cardinality(RowsOfKey(s, k))]) :
           K \in KeptKeys(p, Keys(s))}

UniqLocalTrusting(p, s) ==                                       \* (mutant)
    UNION {Groups([k \in K |-> IF TooManyKeys(p, s) THEN 0 ELSE Total(s, k)]) :
           K \in KeptKeys(p, Keys(s))}

(* MergeValuesWithHits(): a node that sent zero hits dropped some of them. *)
UniqLocalRows(p, s) ==
    LET hasZeroHits == \E i \in DOMAIN s : s[i].n = 0
    IN  UNION {Groups([k \in K |-> IF hasZeroHits \/ TooManyKeys(p, s) THEN 0 ELSE Total(s, k)]) :
               K \in KeptKeys(p, Keys(s))}

Apply(p, s) ==
    CASE p.op = "limit"       -> {SubSeq(s, 1, Lower(p.lim, Len(s)))}
      [] p.op = "offset"      -> {SubSeq(s, p.off + 1, Len(s))}
      [] p.op = "filter"      -> {FilterRows(p, s)}
      [] IsSort(p)            -> {SortRows(p, s)}
      [] p.op = "uniq"        -> UniqRows(p, s)
      [] p.op = "uniq_hits"   -> UniqHitsRows(p, s)
      [] p.op = "uniq_local"  -> UniqLocalRows(p, s)
      [] p.op = "stats"       -> Groups([k \in Keys(s) |-> Cardinality(RowsOfKey(s, k))])
      [] p.op = "stats_local" -> Groups([k \in Keys(s) |-> Total(s, k)])
      [] p.op = "count"       -> {<<[key |-> "", n |-> Len(s)]>>}
      [] p.op = "count_local" -> {<<[key |-> "", n |-> Total(s, "")]>>}

(* Everything a sequence of pipes may give for the inputs in S. *)
Through(ps, S) ==
    LET after[i \in 0..Len(ps)] == IF i = 0 THEN S ELSE UNION {Apply(ps[i], s) : s \in after[i - 1]}
    IN  after[Len(ps)]

(* The rows reach the first pipe in any order. *)
Outcomes(ps, rows) == Through(ps, SetToSeqs(rows))

---------------------------------------------------------------------------
(* The optimizer.  Every loop of the code walks over the neighbours of the *)
(* sequence and rewrites a pair in place: what replaces the pair is <<a, b>> *)
(* itself when nothing does.                                               *)

SwapOffsetLimitPlain(a, b) ==                                    \* (mutant)
    IF a.op = "offset" /\ b.op = "limit" THEN <<b, a>> ELSE <<a, b>>

(* 'offset X | limit Y' becomes 'limit X+Y | offset X' *)
SwapOffsetLimit(a, b) ==
    IF a.op = "offset" /\ b.op = "limit" THEN <<Limit(a.off + b.lim), a>> ELSE <<a, b>>

MergeOffsets(a, b) ==
    IF a.op = "offset" /\ b.op = "offset" THEN <<Offset(a.off + b.off)>> ELSE <<a, b>>

MergeLimits(a, b) ==
    IF a.op = "limit" /\ b.op = "limit" THEN <<Limit(Lower(a.lim, b.lim))>> ELSE <<a, b>>

(* 'limit X | offset Y' selects nothing when Y >= X *)
DropLimitOffset(a, b) ==
    IF a.op = "limit" /\ b.op = "offset" /\ b.off >= a.lim THEN <<Limit(0)>> ELSE <<a, b>>

MergeSortOffset(a, b) ==
    IF ~ (IsSort(a) /\ b.op = "offset") THEN <<a, b>>
    ELSE IF a.lim > 0 /\ b.off >= a.lim THEN <<Limit(0)>>
    ELSE <<[a EXCEPT !.off = @ + b.off, !.lim = IF a.lim > 0 THEN @ - b.off ELSE 0]>>

MergeSortLimit(a, b) ==
    IF ~ (IsSort(a) /\ b.op = "limit") THEN <<a, b>>
    ELSE IF b.lim = 0 THEN <<b>>
    ELSE <<[a EXCEPT !.lim = IF @ = 0 THEN b.lim ELSE Lower(@, b.lim)]>>

MergeUniqLimit(a, b) ==
    IF ~ (a.op \in {"uniq", "uniq_hits"} /\ b.op = "limit") THEN <<a, b>>
    ELSE <<[a EXCEPT !.lim = IF a.lim = 0 THEN b.lim ELSE Lower(a.lim, b.lim)]>>

Replacement(loop, a, b) ==
    CASE loop = "swap"        -> SwapOffsetLimit(a, b)
      [] loop = "offsets"     -> MergeOffsets(a, b)
      [] loop = "limits"      -> MergeLimits(a, b)
      [] loop = "drop"        -> DropLimitOffset(a, b)
      [] loop = "sort_offset" -> MergeSortOffset(a, b)
      [] loop = "sort_limit"  -> MergeSortLimit(a, b)
      [] loop = "uniq_limit"  -> MergeUniqLimit(a, b)

Rewrite(loop, pipes) ==
    LET done[i \in 0..Len(pipes)] ==
            IF i = 0 THEN <<>>
            ELSE IF done[i - 1] = <<>> THEN <<pipes[i]>>
            ELSE Front(done[i - 1]) \o Replacement(loop, Last(done[i - 1]), pipes[i])
    IN  done[Len(pipes)]

DropZeroOffsets(pipes) ==
    LET left[i \in 0..Len(pipes)] == IF i = 0 THEN <<>>
                                     ELSE IF pipes[i] = Offset(0) THEN left[i - 1]
                                     ELSE Append(left[i - 1], pipes[i])
    IN  left[Len(pipes)]

OptimizeOnce(pipes) ==
    LET swapped == Rewrite("swap", pipes)
        merged  == Rewrite("drop", Rewrite("limits", Rewrite("offsets", swapped)))
    IN  Rewrite("sort_limit", Rewrite("sort_offset", DropZeroOffsets(merged)))

(* The passes end with the first one that leaves the number of pipes as is. *)
OptimizeOffsetLimit(pipes) ==
    LET pass(st)  == LET ps == OptimizeOnce(st.ps)
                     IN  IF st.end THEN st ELSE [ps |-> ps, end |-> Len(ps) = Len(st.ps)]
        passes[i \in 0..(Len(pipes) + 1)] ==
            IF i = 0 THEN [ps |-> pipes, end |-> FALSE] ELSE pass(passes[i - 1])
    IN  passes[Len(pipes) + 1].ps

Optimize(pipes) == Rewrite("uniq_limit", OptimizeOffsetLimit(pipes))

---------------------------------------------------------------------------
(* splitToRemoteAndLocal() of every pipe: what the nodes run of it and     *)
(* what is left to vlselect.                                               *)

SplitSortLimitOnly(p) == [remote |-> <<[p EXCEPT !.off = 0]>>, local |-> <<p>>]   \* (mutant)

SplitSort(p) == [remote |-> <<[p EXCEPT !.off = 0, !.lim = @ + p.off]>>, local |-> <<p>>]

Split(p) ==
    CASE p.op = "filter"            -> [remote |-> <<p>>, local |-> <<>>]
      [] p.op \in {"limit", "uniq"} -> [remote |-> <<p>>, local |-> <<p>>]
      [] p.op = "offset"            -> IF p.off = 0 THEN [remote |-> <<p>>, local |-> <<>>]
                                       ELSE [remote |-> <<>>, local |-> <<p>>]
      [] IsSort(p)                  -> SplitSort(p)
      [] p.op = "uniq_hits"         -> [remote |-> <<p>>, local |-> <<UniqLocal(p.lim)>>]
      [] p.op = "stats"             -> [remote |-> <<p>>, local |-> <<StatsLocal>>]
      [] p.op = "count"             -> [remote |-> <<p>>, local |-> <<CountLocal>>]

(* Once a pipe has a local part, all the pipes after it are local. *)
RemoteAndLocal(pipes) ==
    LET add(st, p) == IF st.local # <<>> THEN [st EXCEPT !.local = Append(@, p)]
                      ELSE [remote |-> st.remote \o Split(p).remote, local |-> Split(p).local]
        split[i \in 0..Len(pipes)] ==
            IF i = 0 THEN [remote |-> <<>>, local |-> <<>>] ELSE add(split[i - 1], pipes[i])
    IN  split[Len(pipes)]

(* Which columns of its input a pipe needs (updateNeededFields), when the  *)
(* later pipes need the columns F of its output.                           *)
FilterNeedsNothing(F) == F                                       \* (mutant)

FilterNeeds(F) == F \cup {"n"}

Needs(p, F) ==
    CASE p.op \in {"limit", "offset"}           -> F
      [] p.op = "filter"                        -> FilterNeeds(F)
      [] IsSort(p)                              -> IF F = {} THEN {} ELSE F \cup {"n"}
      [] p.op \in {"uniq", "uniq_hits", "stats"} -> {"key"}
      [] p.op \in {"uniq_local", "stats_local"}  -> {"key", "n"}
      [] p.op = "count"                         -> {}
      [] p.op = "count_local"                   -> {"n"}

GetNeededColumns(ps) == FoldRight(Needs, ps, {"key", "n"})

(* uniq and stats send the columns they make, of other rows the needed     *)
(* ones are sent.                                                          *)
SentColumns(split) ==
    IF \E i \in DOMAIN split.remote : split.remote[i].op \notin {"filter", "limit", "offset", "sort", "newest"}
    THEN {"key", "n"} ELSE GetNeededColumns(split.local)

(* A block of rows is sent by columns; it has as many rows as the first of *)
(* them has values (DataBlock), so rows without columns don't arrive.      *)
SentRows(F, s) ==
    IF F = {} THEN <<>>
    ELSE [i \in DOMAIN s |-> [key |-> IF "key" \in F THEN s[i].key ELSE "",
                              n   |-> IF "n" \in F THEN s[i].n ELSE 0]]

---------------------------------------------------------------------------
(* How a storage node runs 'sort by (_time desc) limit N': instead of      *)
(* sorting everything it looks for a time range with enough rows in it     *)
(* (app/vlstorage/lastnoptimization.go).  The range is [start, end).       *)

Half(start, end) == end \div 2 - start \div 2

CanApplyLastN(start, end) == Half(start, end) > Second

(* addTimeFilter() subtracts the offset, as for the filters of the client. *)
InRange(rows, start, end) == {r \in rows : start <= r.n + TimeOffset /\ r.n + TimeOffset < end}

(* '| limit k': whichever k rows come first, nobody orders them. *)
SomeRows(rows, k) == IF Cardinality(rows) <= k THEN {rows} ELSE kSubset(k, rows)

(* getLastNRows(): rows with equal timestamps come in any order. *)
GetLastN(s, limit) ==
    LET m          == Lower(limit, Len(s))
        Left(f, i) == DOMAIN s \ {f[j] : j \in 1..(i - 1)}
        Picks      == {f \in [1..m -> DOMAIN s] :
                       \A i \in 1..m : /\ f[i] \in Left(f, i)
                                       /\ \A k \in Left(f, i) : s[f[i]].n >= s[k].n}
    IN  {[i \in 1..m |-> s[f[i]]] : f \in Picks}

(* Past the rows in found the range has to supply the rest; lastRows are   *)
(* the rows of the last range with too many of them.                       *)
SearchLastN(rows, limit, from, to, before, last) ==
    LET search[start \in Int, end \in Int, found \in Seq(rows), lastRows \in SUBSET rows] ==
          LET half  == Half(start, end)
              n     == limit - Len(found)
              range == InRange(rows, start, end)
              Step(here) ==
                LET all == found \o SetToSeq(here)
                IN  IF half = 0 THEN GetLastN(all \o SetToSeq(lastRows), limit)
                    ELSE IF Cardinality(here) >= 2 * n THEN
                        IF CanApplyLastN(start, end)
                        THEN search[start + half, end, found, here]
                        ELSE UNION {GetLastN(found \o newest, limit) :
                                    newest \in GetLastN(SetToSeq(range), n)}
                    ELSE IF Len(all) >= limit THEN GetLastN(all, limit)
                    ELSE search[start - half, start, all, lastRows]
          IN  UNION {Step(here) : here \in SomeRows(range, 2 * n)}
    IN  search[from, to, before, last]

GetLastNWithoutEnd(rows, limit, from, to) ==                     \* (mutant)
    LET half == Half(from, to)
    IN  UNION {IF Cardinality(here) < 2 * limit THEN GetLastN(SetToSeq(here), limit)
               ELSE SearchLastN(rows, limit, from + half, to, <<>>, {}) :
               here \in SomeRows(rows, 2 * limit)}

(* rows are those of the whole time range. *)
GetLastNQueryResults(rows, limit, from, to) ==
    LET half == Half(from, to + 1)
    IN  UNION {IF Cardinality(here) < 2 * limit THEN GetLastN(SetToSeq(here), limit)
               ELSE SearchLastN(rows, limit, from + half, to + 1, <<>>, {}) :
               here \in SomeRows(rows, 2 * limit)}

(* GetLastNResultsQuery(): nothing but filters may stand before the sort. *)
IsLastN(ps) ==
    /\ CanApplyLastN(From, To)
    /\ ps # <<>> /\ ps[Len(ps)].op = "newest" /\ ps[Len(ps)].lim > 0
    /\ \A i \in 1..(Len(ps) - 1) : ps[i].op = "filter"

(* Everything a storage node may answer. *)
RunAtNode(ps, rows) ==
    IF ~ IsLastN(ps) THEN Outcomes(ps, rows)
    ELSE LET p == ps[Len(ps)]
         IN  UNION {{SubSeq(s, p.off + 1, Len(s)) :
                     s \in GetLastNQueryResults(ToSet(found), p.off + p.lim, From, To)} :
                    found \in Outcomes(Front(ps), rows)}

=============================================================================
