------------------------------- MODULE Query -------------------------------
(***************************************************************************)
(* The execution of a query at vlselect: one goroutine per storage node    *)
(* reads the blocks of rows the node sends and pushes each of them through *)
(* the local pipes (netselect.Storage.runQuery, logstorage.runPipes); the  *)
(* pipes are flushed one after another when all the goroutines have ended, *)
(* and the workers of a flush push its rows through the later pipes.       *)
(*                                                                         *)
(* The contexts of the pipes are nested: pipe i runs under the context of  *)
(* pipe i+1, the search under the one of pipe 1, the last pipe under the   *)
(* context of the query.  Cancelling one cancels all those before it, so   *)
(* the greatest cancelled position says which are.                         *)
(***************************************************************************)
EXTENDS QueryPipes

CONSTANTS N,         \* number of storage nodes
          NodeRows,  \* the rows each node finds for the filter of the query
          Queries,   \* the sequences of pipes clients ask for
          Budget,    \* chunks of memory a pipe may take for its state
          MaxFaults  \* bound on failed requests

Node  == 1..N
Fault == {"unavailable", "other"}   \* cannot connect; anything else goes wrong

ASSUME QueryAssumption ==
    /\ N \in Nat \ {0}
    /\ NodeRows \in [Node -> SUBSET [key : Key, n : From..To]]
    /\ \A w \in Node : IsFiniteSet(NodeRows[w])
    /\ Queries \subseteq Seq(ClientPipe)
    /\ Budget \in Nat \ {0} /\ MaxFaults \in Nat

VARIABLES
    query,     \* the pipes of the query as the client wrote them
    pipes,     \* the local pipes
    partial,   \* is a partial response allowed?
    rest,      \* rest[w]: rows worker w hasn't taken yet
    pc,        \* pc[w]: "request", "read", "pipes", "return", "fail" or "idle"
    block,     \* block[w]: the rows in flight and the pipe they have reached
    owed,      \* owed[w]: the greatest pipe cancelled when the call returns
    seen,      \* seen[i]: rowsProcessed of the limit or offset pipe i
    kept,      \* kept[i][w]: rows in shard w of the blocking pipe i
    budget,    \* budget[i]: chunks of memory left to pipe i
    canceled,  \* the greatest cancelled position, 0 when none is
    netDone,   \* has a node's error cancelled the requests to all nodes?
    errs,      \* errs[w]: the error of node w that the query remembers
    stage,     \* 0 while the nodes are read, then the pipe being flushed
    flushing,  \* are the workers of a flush running?
    result,    \* the error of the search and of the flushes
    clientGone,
    output     \* rows sent to the client

netVars  == <<netDone, errs>>
pipeVars == <<seen, kept, budget>>
runVars  == <<query, pipes, partial, stage, flushing, result>>
vars == <<query, pipes, partial, rest, pc, block, owed, seen, kept, budget, canceled,
          netDone, errs, stage, flushing, result, clientGone, output>>

Pipe == 1..Len(pipes)
Top  == Len(pipes) + 1
Done == stage = Top

RowsOf(W) == UNION {NodeRows[w] : w \in W}

Greater(a, b) == IF a > b THEN a ELSE b

(* The answers to query q when only the nodes in W have answered (a table, *)
(* so that TLC computes it once).                                          *)
AnswerTable == {[q |-> q, W |-> W, outcomes |-> Outcomes(q, RowsOf(W))] :
                q \in Queries, W \in SUBSET Node}

Answers(q, W) == (CHOOSE t \in AnswerTable : t.q = q /\ t.W = W).outcomes

(* What node w may send: it runs the remote pipes the same way. *)
Remote(q, w) ==
    LET split == RemoteAndLocal(Optimize(q))
    IN  {SentRows(SentColumns(split), s) : s \in RunAtNode(split.remote, NodeRows[w])}

(* Also the nodes which look for the last N rows send sequences of rows. *)
ASSUME LastNAssumption ==
    \A q \in Queries, w \in Node :
        IsLastN(RemoteAndLocal(Optimize(q)).remote) =>
            RunAtNode(RemoteAndLocal(Optimize(q)).remote, NodeRows[w]) \subseteq Seq(Row)

NoBlock == [at |-> 0, rows |-> <<>>]

(* newPipeProcessor() of 'limit 0' cancels the pipes before it at once. *)
EmptyLimits(ps) == {i \in 1..Len(ps) : ps[i] = Limit(0)}

Init ==
    /\ query \in Queries /\ partial \in BOOLEAN
    /\ pipes = RemoteAndLocal(Optimize(query)).local
    /\ rest \in {r \in [Node -> UNION {Remote(query, w) : w \in Node}] :
                 \A w \in Node : r[w] \in Remote(query, w)}
    /\ pc = [w \in Node |-> "request"]
    /\ block = [w \in Node |-> NoBlock] /\ owed = [w \in Node |-> 0]
    /\ seen = [i \in Pipe |-> 0] /\ budget = [i \in Pipe |-> Budget]
    /\ kept = [i \in Pipe |-> [w \in Node |-> <<>>]]
    /\ canceled = (IF EmptyLimits(pipes) = {} THEN 0
                   ELSE CHOOSE i \in EmptyLimits(pipes) : \A j \in EmptyLimits(pipes) : j <= i)
    /\ netDone = FALSE /\ errs = [w \in Node |-> "none"]
    /\ stage = 0 /\ flushing = FALSE /\ result = "none"
    /\ clientGone = FALSE /\ output = <<>>

---------------------------------------------------------------------------
(* Reading the nodes                                                       *)

Reading(w) == pc[w] \in {"request", "read"}

NetContextDone == netDone \/ canceled >= 1

(* The next block of a response, or of the rows a flush emits. *)
ReadBlock(w) ==
    /\ Reading(w)
    /\ \E k \in 1..Len(rest[w]) :
         /\ block' = [block EXCEPT ![w] = [at |-> stage + 1, rows |-> SubSeq(rest[w], 1, k)]]
         /\ rest' = [rest EXCEPT ![w] = SubSeq(@, k + 1, Len(@))]
    /\ pc' = [pc EXCEPT ![w] = "pipes"]
    /\ UNCHANGED <<owed, canceled, clientGone, output, netVars, pipeVars, runVars>>

EndOfRows(w) ==
    /\ Reading(w) /\ rest[w] = <<>>
    /\ pc' = [pc EXCEPT ![w] = "idle"]
    /\ UNCHANGED <<rest, block, owed, canceled, clientGone, output, netVars, pipeVars, runVars>>

(* The request is aborted: its context is done, and handleError() drops    *)
(* the error.  The workers of a flush see that their context is cancelled. *)
Abort(w) ==
    /\ Reading(w) /\ rest[w] # <<>>
    /\ \/ stage = 0 /\ NetContextDone
       \/ flushing /\ canceled > stage /\ pipes[stage].op # "uniq_local"
    /\ pc' = [pc EXCEPT ![w] = "idle"] /\ rest' = [rest EXCEPT ![w] = <<>>]
    /\ UNCHANGED <<block, owed, canceled, clientGone, output, netVars, pipeVars, runVars>>

(* The request fails.  handleError() keeps the error unless the context is *)
(* done, and cancels all the requests unless the answer may miss the node. *)
NodeFails(w, fault) ==
    /\ stage = 0 /\ Reading(w)
    /\ Cardinality({v \in Node : errs[v] # "none"}) < MaxFaults
    /\ fault = "unavailable" => pc[w] = "request"
    /\ rest' = [rest EXCEPT ![w] = <<>>]
    /\ \/ /\ NetContextDone
          /\ pc' = [pc EXCEPT ![w] = "idle"] /\ UNCHANGED errs
       \/ /\ ~ NetContextDone
          /\ errs' = [errs EXCEPT ![w] = fault]
          /\ pc' = [pc EXCEPT ![w] = IF ~ partial \/ fault # "unavailable" THEN "fail" ELSE "idle"]
    /\ UNCHANGED <<block, owed, canceled, netDone, clientGone, output, pipeVars, runVars>>

CancelRequests(w) ==
    /\ pc[w] = "fail"
    /\ netDone' = TRUE
    /\ pc' = [pc EXCEPT ![w] = "idle"]
    /\ UNCHANGED <<rest, block, owed, canceled, errs, clientGone, output, pipeVars, runVars>>

---------------------------------------------------------------------------
(* writeBlock() of the pipes                                               *)

At(w, op) == /\ pc[w] = "pipes" /\ block[w].at \in Pipe
             /\ pipes[block[w].at].op = op

(* The rows go to the next pipe; pipe c, if any, is cancelled on return. *)
Forward(w, rows, c) ==
    /\ block' = [block EXCEPT ![w] = [at |-> @.at + 1, rows |-> rows]]
    /\ owed' = [owed EXCEPT ![w] = Greater(@, c)]
    /\ pc' = [pc EXCEPT ![w] = IF rows = <<>> THEN "return" ELSE "pipes"]

Return(w, c) ==
    /\ block' = [block EXCEPT ![w] = NoBlock]
    /\ owed' = [owed EXCEPT ![w] = Greater(@, c)]
    /\ pc' = [pc EXCEPT ![w] = "return"]

FilterBlock(w) ==
    /\ At(w, "filter")
    /\ LET p == pipes[block[w].at]
       IN  Forward(w, FilterRows(p, block[w].rows), 0)
    /\ UNCHANGED <<rest, canceled, clientGone, output, netVars, pipeVars, runVars>>

TruncateNothing(rows, n) == rows                                 \* (mutant)

(* truncateRows() *)
TruncateRows(rows, n) == SubSeq(rows, 1, n)

LimitBlock(w) ==
    LET i      == block[w].at
        p      == pipes[i]
        rows   == block[w].rows
        before == seen[i]
        after  == before + Len(rows)
    IN  /\ At(w, "limit")
        /\ seen' = [seen EXCEPT ![i] = after]
        /\ \/ after <= p.lim /\ Forward(w, rows, IF after = p.lim THEN i ELSE 0)
           \/ after > p.lim /\ before >= p.lim /\ Return(w, 0)
           \/ after > p.lim /\ before < p.lim /\ Forward(w, TruncateRows(rows, p.lim - before), i)
        /\ UNCHANGED <<rest, canceled, clientGone, output, kept, budget, netVars, runVars>>

OffsetBlock(w) ==
    LET i      == block[w].at
        p      == pipes[i]
        rows   == block[w].rows
        before == seen[i]
        after  == before + Len(rows)
    IN  /\ At(w, "offset")
        /\ seen' = [seen EXCEPT ![i] = after]
        /\ \/ after <= p.off /\ Return(w, 0)
           \/ after > p.off /\ before >= p.off /\ Forward(w, rows, 0)
           \/ after > p.off /\ before < p.off /\ Forward(w, SubSeq(rows, p.off - before + 1, Len(rows)), 0)
        /\ UNCHANGED <<rest, canceled, clientGone, output, kept, budget, netVars, runVars>>

(* A shard that has used up its chunk takes the next one from the budget   *)
(* of the pipe: the rows are dropped when nothing is left of it (how far   *)
(* below zero the budget falls makes no difference).                       *)
NeedsChunk(i, w) == pipes[i].op # "uniq_local" /\ kept[i][w] # <<>>

(* uniq doesn't take a block into a shard with more keys than the limit. *)
ShardIsFull(i, w) == pipes[i].op \in {"uniq", "uniq_hits"} /\ TooManyKeys(pipes[i], kept[i][w])

SpinOnChunk(w, i, left) == UNCHANGED <<block, owed, pc>>         \* (mutant)

(* The block is dropped; the one that found the budget empty cancels. *)
DropBlock(w, i, left) == Return(w, IF left = -1 THEN i ELSE 0)

KeepBlock(w) ==
    LET i    == block[w].at
        left == IF NeedsChunk(i, w) THEN budget[i] - 1 ELSE budget[i]
    IN  /\ pc[w] = "pipes" /\ i \in Pipe /\ Blocking(pipes[i])
        /\ budget' = [budget EXCEPT ![i] = Greater(left, -2)]
        /\ \/ left < 0 /\ DropBlock(w, i, left) /\ UNCHANGED kept
           \/ left >= 0 /\ ShardIsFull(i, w) /\ Return(w, i) /\ UNCHANGED kept
           \/ /\ left >= 0 /\ ~ ShardIsFull(i, w) /\ Return(w, 0)
              /\ kept' = [kept EXCEPT ![i][w] = @ \o block[w].rows]
        /\ UNCHANGED <<rest, canceled, clientGone, output, seen, netVars, runVars>>

(* The noop pipe at the end stops with the query; a query without local    *)
(* pipes writes directly.                                                  *)
WriteBlock(w) ==
    /\ pc[w] = "pipes" /\ block[w].at = Top
    /\ output' = IF canceled >= Top /\ pipes # <<>> THEN output ELSE output \o block[w].rows
    /\ Return(w, 0)
    /\ UNCHANGED <<rest, canceled, clientGone, netVars, pipeVars, runVars>>

ReturnCancelsAll(w) ==                                           \* (mutant)
    /\ pc[w] = "return"
    /\ canceled' = IF owed[w] > 0 THEN Top ELSE canceled
    /\ owed' = [owed EXCEPT ![w] = 0] /\ block' = [block EXCEPT ![w] = NoBlock]
    /\ pc' = [pc EXCEPT ![w] = "read"]
    /\ UNCHANGED <<rest, clientGone, output, netVars, pipeVars, runVars>>

ReturnFromPipes(w) ==
    /\ pc[w] = "return"
    /\ canceled' = Greater(canceled, owed[w])
    /\ owed' = [owed EXCEPT ![w] = 0] /\ block' = [block EXCEPT ![w] = NoBlock]
    /\ pc' = [pc EXCEPT ![w] = "read"]
    /\ UNCHANGED <<rest, clientGone, output, netVars, pipeVars, runVars>>

---------------------------------------------------------------------------
(* The end of the search and the flushes                                   *)

FirstErrorOfOthers ==                                            \* (mutant)
    IF \E w \in Node : errs[w] = "other" THEN "other"
    ELSE IF ~ partial /\ \E w \in Node : errs[w] # "none" THEN "unavailable" ELSE "none"

(* getFirstError(): a partial answer needs one node that has answered. *)
FirstError ==
    LET first == {w \in Node : (partial => errs[w] # "unavailable") /\ (~ partial => errs[w] # "none")}
    IN  IF first # {} THEN errs[CHOOSE w \in first : \A v \in first : w <= v]
        ELSE IF partial THEN "unavailable" ELSE "none"

AllIdle == \A w \in Node : pc[w] = "idle"

EndSearchGoesOn ==                                               \* (mutant)
    /\ stage = 0 /\ AllIdle
    /\ result' = FirstError
    /\ stage' = 1
    /\ UNCHANGED <<query, pipes, partial, rest, pc, block, owed, canceled, netVars, pipeVars, flushing, clientGone, output>>

EndSearch ==
    /\ stage = 0 /\ AllIdle
    /\ result' = FirstError
    /\ canceled' = IF result' # "none" THEN Top ELSE canceled
    /\ stage' = 1
    /\ UNCHANGED <<query, pipes, partial, rest, pc, block, owed, netVars, pipeVars, flushing, clientGone, output>>

AllKept(i) ==
    LET all[w \in 0..N] == IF w = 0 THEN <<>> ELSE all[w - 1] \o kept[i][w]
    IN  all[N]

OutOfMemory(i) == Blocking(pipes[i]) /\ pipes[i].op # "uniq_local" /\ budget[i] <= 0

(* The rows are written to the next pipe: sort and uniq_local by one       *)
(* goroutine, uniq and stats by as many as there are shards.               *)
Emissions(i, rows) ==
    IF IsSort(pipes[i]) \/ pipes[i].op = "uniq_local"
    THEN {[w \in Node |-> IF w = 1 THEN rows ELSE <<>>]}
    ELSE {[w \in Node |-> SubSeq(rows, (IF w = 1 THEN 0 ELSE cut[w - 1]) + 1,
                                       IF w = N THEN Len(rows) ELSE cut[w])] :
          cut \in {c \in [1..(N - 1) -> 0..Len(rows)] : \A w \in 1..(N - 2) : c[w] <= c[w + 1]}}

StartFlush ==
    /\ stage \in Pipe /\ Blocking(pipes[stage]) /\ ~ flushing /\ AllIdle
    /\ ~ OutOfMemory(stage)
    /\ canceled <= stage \/ pipes[stage].op = "uniq_local"
    /\ \E rows \in Apply(pipes[stage], AllKept(stage)) : rest' \in Emissions(stage, rows)
    /\ pc' = [w \in Node |-> "read"] /\ flushing' = TRUE
    /\ UNCHANGED <<query, pipes, partial, stage, result, block, owed, canceled, clientGone, output, netVars, pipeVars>>

(* The flush of pipe i has ended, has failed or has had nothing to do. *)
EndFlush ==
    /\ stage \in Pipe /\ AllIdle
    /\ \/ flushing \/ ~ Blocking(pipes[stage])
       \/ OutOfMemory(stage)
       \/ canceled > stage /\ pipes[stage].op # "uniq_local"
    /\ LET failed == ~ flushing /\ OutOfMemory(stage)
       IN  /\ result' = IF failed /\ result = "none" THEN "memory" ELSE result
           /\ canceled' = IF failed THEN Top ELSE Greater(canceled, stage)
    /\ stage' = stage + 1 /\ flushing' = FALSE
    /\ UNCHANGED <<query, pipes, partial, rest, pc, block, owed, clientGone, output, netVars, pipeVars>>

ClientCancels ==
    /\ ~ Done /\ ~ clientGone
    /\ clientGone' = TRUE /\ canceled' = Top
    /\ UNCHANGED <<rest, pc, block, owed, output, netVars, pipeVars, runVars>>

---------------------------------------------------------------------------
ReadStep(w)  == ReadBlock(w) \/ EndOfRows(w) \/ Abort(w) \/ CancelRequests(w)
BlockStep(w) == FilterBlock(w) \/ LimitBlock(w) \/ OffsetBlock(w) \/ KeepBlock(w)
                \/ WriteBlock(w) \/ ReturnFromPipes(w)
QueryStep    == EndSearch \/ StartFlush \/ EndFlush

Next == \/ \E w \in Node : ReadStep(w) \/ BlockStep(w)
        \/ \E w \in Node, fault \in Fault : NodeFails(w, fault)
        \/ QueryStep \/ ClientCancels

Spec == Init /\ [][Next]_vars

(* The goroutines are scheduled, and a node answers or its request fails   *)
(* (at the latest with the deadline of the query's context).               *)
Fairness == (\A w \in Node : WF_vars(ReadStep(w) \/ BlockStep(w))) /\ WF_vars(QueryStep)

FairSpec == Spec /\ Fairness

---------------------------------------------------------------------------
(* Properties                                                              *)

(* The variables have their types, a goroutine holds rows only while it is *)
(* inside the pipes, and nothing that still needs rows is stopped: while   *)
(* the client waits and no error has occurred, a pipe has cancelled the    *)
(* ones before it only because no more rows can change the answer (a limit *)
(* that has seen enough rows, a uniq with too many keys) or because it has *)
(* run out of memory, which its flush reports.                             *)
QueryTypeOK ==
    /\ query \in Queries /\ partial \in BOOLEAN /\ stage \in 0..Top
    /\ pc \in [Node -> {"request", "read", "pipes", "return", "fail", "idle"}]
    /\ \A w \in Node : block[w].rows # <<>> => pc[w] \in {"pipes", "return"}
    /\ canceled \in 0..Top /\ netDone \in BOOLEAN /\ clientGone \in BOOLEAN
    /\ flushing \in BOOLEAN /\ errs \in [Node -> Fault \cup {"none"}]
    /\ result \in Fault \cup {"none", "memory"}

NeedsNoRows(i) ==
    \/ pipes[i].op = "limit" /\ seen[i] >= pipes[i].lim
    \/ Blocking(pipes[i]) /\ (budget[i] < 0 \/ \E w \in Node : ShardIsFull(i, w))

CancelIsJustified ==
    canceled > stage /\ ~ clientGone /\ result = "none" => canceled < Top /\ NeedsNoRows(canceled)

(* When a search ends without an error, the request of no node has failed, *)
(* unless the client allows partial answers; and never are all the nodes   *)
(* unavailable (getFirstError).                                            *)
MissingNodesAreAllowed ==
    stage > 0 /\ result = "none" =>
        /\ ~ partial => \A w \in Node : errs[w] = "none"
        /\ \E w \in Node : errs[w] # "unavailable"

QueryInv == QueryTypeOK /\ CancelIsJustified /\ MissingNodesAreAllowed

(* Known exception: a partial answer that lost an error (see the README).  *)
ErrorMayBeHidden == partial /\ \E w \in Node : errs[w] = "other"

Down == {w \in Node : errs[w] = "unavailable"}

(* A query that ends without an error has given its client one of the true *)
(* answers of the pipes as the client wrote them: optimizing them, running *)
(* a part of them at the nodes, merging what the nodes send and stopping   *)
(* early change nothing.  Only an unavailable node may be left out, only   *)
(* when the client allows it, and never all of them (runPipes,             *)
(* splitToRemoteAndLocal, getFirstError).                                  *)
AnswerIsTrue ==
    Done /\ result = "none" /\ ~ clientGone /\ ~ ErrorMayBeHidden =>
        /\ output \in Answers(query, Node \ Down)
        /\ Down # {} => partial /\ Down # Node

(* The same without the exception: what the comments of getFirstError()    *)
(* say of partial responses.                                               *)
PartialAnswerIsTrue ==
    Done /\ result = "none" /\ ~ clientGone => output \in Answers(query, Node \ Down)

OccurIn(s, r) == Cardinality({i \in DOMAIN s : s[i] = r})

(* At any moment, also after an error or a cancel in the midst of it, the  *)
(* rows sent to the client belong to one true answer together: no row is   *)
(* sent twice, and no group counted over a part of the rows is sent.       *)
OutputIsPartOfAnswer ==
    \/ ErrorMayBeHidden
    \/ \E D \in SUBSET Down : \E answer \in Answers(query, Node \ D) :
         \A i \in DOMAIN output : OccurIn(output, output[i]) <= OccurIn(answer, output[i])

(* Every query ends: cancelled workers, empty shards, exhausted budgets and *)
(* failed nodes included.                                                  *)
QueryEnds == <>Done

=============================================================================
