----------------------------- MODULE NetInsert -----------------------------
(***************************************************************************)
(* How vlinsert spreads rows among storage nodes: app/vlstorage/netinsert. *)
(*                                                                         *)
(* Every node has a block of pending rows.  A writer which finds the block *)
(* full, and the flusher of the node once per second, swap it with an      *)
(* empty buffer from a shared pool and send it: to the node itself, or to  *)
(* any other node when that fails, until some node takes it.  A request    *)
(* may fail although the node has stored the block.  MustStop() drains the *)
(* blocks until the drain timeout cancels what is still to be sent.        *)
(*                                                                         *)
(* Rows have the size 1.  The 10 seconds a failed node isn't written to    *)
(* end at any moment.                                                      *)
(***************************************************************************)
EXTENDS Naturals, Sequences, FiniteSets

CONSTANTS
  NodesCount,   \* number of storage nodes
  Stream,       \* stream hashes
  PerStream,    \* number of rows of a stream
  Local,        \* so many rows of a stream go to a single node (1000 in the code)
  BlockSize,    \* maxInsertBlockSize in rows
  Writer,       \* callers of AddRow()
  Concurrency,  \* buffers in the pool per node
  NoThread,
  MaxFaults     \* bound on failed requests

Node == 0..(NodesCount - 1)
Row  == Stream \X (1..PerStream)

ASSUME SizeAssumption ==
  /\ NodesCount \in Nat \ {0} /\ Stream \subseteq Nat /\ PerStream \in Nat /\ Local \in Nat
  /\ BlockSize \in Nat \ {0}
  /\ Concurrency \in Nat \ {0} /\ MaxFaults \in Nat

ASSUME WriterAssumption ==
  IsFiniteSet(Writer) /\ Writer \cap Node = {} /\ NoThread \notin Writer \cup Node

\* The flusher of a node has the name of the node.
Thread == Writer \cup Node

\* The node a thread works for when it is idle; a writer chooses one for each row.
OwnNode(t) == IF t \in Node THEN t ELSE 0

PoolSize == Concurrency * NodesCount

VARIABLES
  state,          \* "running", "stopping" after close(stopCh), "stopped"
  timedOut,       \* the drain timeout has passed (history)
  sendCtxDone,    \* sendCancel() was called
  rowsPerStream,  \* streamRowsTracker
  pool,           \* pendingDataBuffers: what is in the buffers of the channel
  pendingData,    \* pendingData[n]: the rows in the buffer
  mu,             \* holder of pendingDataMu of a node, a thread or NoThread
  disabled,       \* nodes with disabledUntil in the future
  pc, row, node,  \* position of a thread, its row, and the node it works for
  block,          \* the rows in the buffer a thread sends
  target,         \* the node a request was sent to
  todo,           \* nodes sendInsertRequestToAnyNode() still has to try
  last,           \* flushers which have seen stopCh and flush for the last time
  added,          \* rows accepted by AddRow() (history)
  copies,         \* copies[r]: how many times nodes have stored a row
  doubts,         \* doubts[r]: how many of those requests have failed nevertheless (history)
  faults          \* failed requests so far

stop    == <<state, timedOut, sendCtxDone>>
buffers == <<pool, pendingData>>
threads == <<pc, row, node, block, target, todo, last>>
stored  == <<copies, doubts>>

vars == <<stop, rowsPerStream, buffers, mu, disabled, threads, added, stored, faults>>

Init ==
  /\ state = "running" /\ timedOut = FALSE /\ sendCtxDone = FALSE
  /\ rowsPerStream = [s \in Stream |-> 0]
  /\ pool = [i \in 1..PoolSize |-> {}]
  /\ pendingData = [n \in Node |-> {}]
  /\ mu = [n \in Node |-> NoThread] /\ disabled = {}
  /\ pc = [t \in Thread |-> "idle"]
  /\ row = [w \in Writer |-> <<>>]
  /\ node = [t \in Thread |-> OwnNode(t)]
  /\ block = [t \in Thread |-> {}]
  /\ target = [t \in Thread |-> 0]
  /\ todo = [t \in Thread |-> {}] /\ last = {}
  /\ added = {} /\ copies = [r \in Row |-> 0] /\ doubts = [r \in Row |-> 0]
  /\ faults = 0

Goto(t, place) == pc' = [pc EXCEPT ![t] = place]

-----------------------------------------------------------------------------
(* Adding rows *)

\* getNodeIdx(): the first rows of a stream go to a single node, and the others to
\* a random one.
NodesFor(s) == IF rowsPerStream[s] + 1 <= Local THEN {s % NodesCount} ELSE Node

AddRow(w, s) ==
  /\ state = "running"
  /\ pc[w] = "idle"
  /\ rowsPerStream[s] < PerStream
  /\ rowsPerStream' = [rowsPerStream EXCEPT ![s] = @ + 1]
  /\ \E n \in NodesFor(s) : node' = [node EXCEPT ![w] = n]
  /\ row' = [row EXCEPT ![w] = <<s, rowsPerStream'[s]>>]
  /\ Goto(w, "lock")
  /\ UNCHANGED <<stop, buffers, mu, disabled, block, target, todo, last, added, stored, faults>>

\* addRow() skips a row longer than maxInsertBlockSize.
SkipLongRow(s) ==
  /\ state = "running"
  /\ \E w \in Writer : pc[w] = "idle"
  /\ rowsPerStream[s] < PerStream
  /\ rowsPerStream' = [rowsPerStream EXCEPT ![s] = @ + 1]
  /\ UNCHANGED <<stop, buffers, mu, disabled, threads, added, stored, faults>>

IsFull(n) == Cardinality(pendingData[n]) + 1 > BlockSize

Write(w, rows) ==
  /\ pendingData' = [pendingData EXCEPT ![node[w]] = rows \cup {row[w]}]
  /\ added' = added \cup {row[w]}
  /\ row' = [row EXCEPT ![w] = <<>>]

\* addRow() when the row fits into pendingData.
AddToBlock(w) ==
  /\ pc[w] = "lock"
  /\ mu[node[w]] = NoThread
  /\ ~IsFull(node[w])
  /\ Write(w, pendingData[node[w]])
  /\ node' = [node EXCEPT ![w] = OwnNode(w)]
  /\ Goto(w, "idle")
  /\ UNCHANGED <<stop, rowsPerStream, pool, mu, disabled, block, target, todo, last, stored,
                 faults>>

\* addRow() when it doesn't: the writer takes pendingDataMu ...
LockFullBlock(w) ==
  /\ pc[w] = "lock"
  /\ mu[node[w]] = NoThread
  /\ IsFull(node[w])
  /\ mu' = [mu EXCEPT ![node[w]] = w]
  /\ Goto(w, "grab")
  /\ UNCHANGED <<stop, rowsPerStream, buffers, disabled, row, node, block, target, todo, last,
                 added, stored, faults>>

\* ... and so does flushPendingData(), every second and finally after close(stopCh).
LockToFlush(n, force) ==
  /\ pc[n] = "idle"
  /\ mu[n] = NoThread
  /\ mu' = [mu EXCEPT ![n] = n]
  /\ force => state = "stopping"
  /\ last' = IF force THEN last \cup {n} ELSE last
  /\ Goto(n, "grab")
  /\ UNCHANGED <<stop, rowsPerStream, buffers, disabled, row, node, block, target, todo,
                 added, stored, faults>>

\* grabPendingDataForFlushLocked() waits for a buffer while it holds the lock.
GrabPendingData(t) ==
  /\ pc[t] = "grab" /\ pool # <<>>
  /\ pool' = Tail(pool)
  /\ block' = [block EXCEPT ![t] = pendingData[node[t]]]
  /\ IF t \in Writer
     THEN Write(t, Head(pool))
     ELSE pendingData' = [pendingData EXCEPT ![t] = Head(pool)] /\ UNCHANGED <<added, row>>
  /\ mu' = [mu EXCEPT ![node[t]] = NoThread]
  /\ Goto(t, "send")
  /\ UNCHANGED <<stop, rowsPerStream, disabled, node, target, todo, last, stored, faults>>

-----------------------------------------------------------------------------
(* Sending a block *)

\* (mutant) The buffer isn't reset.
ReleaseDirty(t) ==
  /\ pool' = Append(pool, block[t])
  /\ block' = [block EXCEPT ![t] = {}]
  /\ node' = [node EXCEPT ![t] = OwnNode(t)]
  /\ target' = [target EXCEPT ![t] = 0]
  /\ todo' = [todo EXCEPT ![t] = {}]
  /\ Goto(t, IF t \in last THEN "stopped" ELSE "idle")
  /\ UNCHANGED pendingData

\* mustSendInsertRequest() ends: the buffer goes back to the pool, empty, and a
\* flusher which has flushed for the last time exits.
Release(t) ==
  /\ pool' = Append(pool, {})
  /\ block' = [block EXCEPT ![t] = {}]
  /\ node' = [node EXCEPT ![t] = OwnNode(t)]
  /\ target' = [target EXCEPT ![t] = 0]
  /\ todo' = [todo EXCEPT ![t] = {}]
  /\ Goto(t, IF t \in last THEN "stopped" ELSE "idle")
  /\ UNCHANGED pendingData

\* Requests are sent to the home node first; an empty block needs none.
SendToHome(t) ==
  /\ pc[t] = "send"
  /\ IF block[t] = {}
     THEN Release(t)
     ELSE /\ IF node[t] \in disabled
             THEN Goto(t, "reroute") /\ UNCHANGED target
             ELSE Goto(t, "home request") /\ target' = [target EXCEPT ![t] = node[t]]
          /\ UNCHANGED <<buffers, node, block, todo>>
  /\ UNCHANGED <<stop, rowsPerStream, mu, disabled, row, last, added, stored, faults>>

\* sendInsertRequestToAnyNode() collects the nodes which aren't disabled ...
Reroute(t) ==
  /\ pc[t] = "reroute"
  /\ todo' = [todo EXCEPT ![t] = Node \ disabled]
  /\ Goto(t, "next")
  /\ UNCHANGED <<stop, rowsPerStream, buffers, mu, disabled, row, node, block, target, last,
                 added, stored, faults>>

\* ... and tries them from a random one on, unless they get disabled meanwhile.
NextNode(t) ==
  /\ pc[t] = "next"
  /\ IF todo[t] = {}
     THEN Goto(t, "wait") /\ UNCHANGED <<target, todo>>
     ELSE \E n \in todo[t] :
            /\ todo' = [todo EXCEPT ![t] = @ \ {n}]
            /\ IF n \in disabled
               THEN Goto(t, "next") /\ UNCHANGED target
               ELSE Goto(t, "request") /\ target' = [target EXCEPT ![t] = n]
  /\ UNCHANGED <<stop, rowsPerStream, buffers, mu, disabled, row, node, block, last,
                 added, stored, faults>>

Store(t) == copies' = [r \in Row |-> IF r \in block[t] THEN copies[r] + 1 ELSE copies[r]]

\* (mutant) The loop over the nodes goes on after a success.
RequestSucceedsAgain(t) ==
  /\ pc[t] \in {"home request", "request"} /\ ~sendCtxDone
  /\ Store(t)
  /\ IF pc[t] = "request"
     THEN Goto(t, "next") /\ UNCHANGED <<buffers, node, block, target, todo>>
     ELSE Release(t)
  /\ UNCHANGED <<stop, rowsPerStream, mu, disabled, row, last, added, doubts, faults>>

\* doRequest() gets a response with the status 2xx ...
RequestSucceeds(t) ==
  /\ pc[t] \in {"home request", "request"} /\ ~sendCtxDone
  /\ Store(t)
  /\ Release(t)
  /\ UNCHANGED <<stop, rowsPerStream, mu, disabled, row, last, added, doubts, faults>>

\* ... or it fails, before or after the node has stored the block, and the node is
\* disabled.  A cancelled sendCtx fails every request.
RequestFails(t) ==
  /\ pc[t] \in {"home request", "request"}
  /\ \/ faults < MaxFaults /\ faults' = faults + 1
     \/ sendCtxDone /\ UNCHANGED faults
  /\ \/ UNCHANGED stored
     \/ /\ faults' # faults
        /\ Store(t)
        /\ doubts' = [r \in Row |-> IF r \in block[t] THEN doubts[r] + 1 ELSE doubts[r]]
  /\ disabled' = disabled \cup {target[t]}
  /\ target' = [target EXCEPT ![t] = 0]
  /\ Goto(t, IF pc[t] = "home request" THEN "reroute" ELSE "next")
  /\ UNCHANGED <<stop, rowsPerStream, buffers, mu, row, node, block, todo, last, added>>

EnableNode(n) ==
  /\ n \in disabled
  /\ disabled' = disabled \ {n}
  /\ UNCHANGED <<stop, rowsPerStream, buffers, mu, threads, added, stored, faults>>

\* (mutant) The available nodes aren't collected again.
RetrySameNodes(t) ==
  /\ pc[t] = "wait" /\ ~sendCtxDone
  /\ Goto(t, "next")
  /\ UNCHANGED <<stop, rowsPerStream, buffers, mu, disabled, row, node, block, target, todo,
                 last, added, stored, faults>>

\* (mutant) Only the timer is waited for.
RetryForever(t) ==
  /\ pc[t] = "wait"
  /\ Goto(t, "reroute")
  /\ UNCHANGED <<stop, rowsPerStream, buffers, mu, disabled, row, node, block, target, todo,
                 last, added, stored, faults>>

\* All the nodes have failed: the block is sent again in a second (a timer which fires
\* together with the cancellation is as good as one which has fired before it) ...
Retry(t) ==
  /\ pc[t] = "wait" /\ ~sendCtxDone
  /\ Goto(t, "reroute")
  /\ UNCHANGED <<stop, rowsPerStream, buffers, mu, disabled, row, node, block, target, todo,
                 last, added, stored, faults>>

\* (mutant) The block is dropped after a failed round.
DropSoon(t) ==
  /\ pc[t] = "wait"
  /\ Release(t)
  /\ UNCHANGED <<stop, rowsPerStream, mu, disabled, row, last, added, stored, faults>>

\* ... or dropped.
Drop(t) ==
  /\ pc[t] = "wait" /\ sendCtxDone
  /\ Release(t)
  /\ UNCHANGED <<stop, rowsPerStream, mu, disabled, row, last, added, stored, faults>>

-----------------------------------------------------------------------------
(* MustStop(), called when there are no callers of AddRow() any more *)

StartStop ==
  /\ state = "running"
  /\ \A w \in Writer : pc[w] = "idle"
  /\ state' = "stopping"
  /\ UNCHANGED <<timedOut, sendCtxDone, rowsPerStream, buffers, mu, disabled, threads, added,
                 stored, faults>>

DrainTimeout ==
  /\ state = "stopping" /\ ~timedOut
  /\ timedOut' = TRUE /\ sendCtxDone' = TRUE
  /\ UNCHANGED <<state, rowsPerStream, buffers, mu, disabled, threads, added, stored, faults>>

EndStop ==
  /\ state = "stopping"
  /\ \A n \in Node : pc[n] = "stopped"
  /\ state' = "stopped" /\ sendCtxDone' = TRUE
  /\ UNCHANGED <<timedOut, rowsPerStream, buffers, mu, disabled, threads, added, stored, faults>>

\* Nothing happens after MustStop().
Stopped == state = "stopped" /\ UNCHANGED vars

-----------------------------------------------------------------------------

Send(t) ==
  \/ GrabPendingData(t) \/ SendToHome(t) \/ Reroute(t) \/ NextNode(t)
  \/ Retry(t) \/ Drop(t)

Respond(t) == RequestSucceeds(t) \/ RequestFails(t)

AddStep(w) == AddToBlock(w) \/ LockFullBlock(w)

Next ==
  \/ \E w \in Writer : AddStep(w) \/ \E s \in Stream : AddRow(w, s)
  \/ \E s \in Stream : SkipLongRow(s)
  \/ \E n \in Node : EnableNode(n) \/ \E force \in BOOLEAN : LockToFlush(n, force)
  \/ \E t \in Thread : Send(t) \/ Respond(t)
  \/ StartStop \/ DrainTimeout \/ EndStop \/ Stopped

Spec == Init /\ [][Next]_vars

\* Goroutines run, a mutex isn't kept from a flusher forever, select doesn't choose
\* the ticker forever when stopCh is closed, and a cancelled request returns.  Any
\* other request may wait forever, since the client has no timeout.
FairSpec ==
  /\ Spec
  /\ \A w \in Writer : SF_vars(AddStep(w) \/ Send(w) \/ (sendCtxDone /\ Respond(w)))
  /\ \A n \in Node :
       /\ SF_vars((\E force \in BOOLEAN : LockToFlush(n, force)) \/ Send(n) \/ (sendCtxDone /\ Respond(n)))
       /\ SF_vars(LockToFlush(n, TRUE))
       /\ WF_vars(EnableNode(n))
  /\ WF_vars(DrainTimeout) /\ WF_vars(EndStop)

-----------------------------------------------------------------------------
(* Properties *)

NetTypeOK ==
  /\ state \in {"running", "stopping", "stopped"}
  /\ timedOut \in BOOLEAN /\ sendCtxDone \in BOOLEAN
  /\ rowsPerStream \in [Stream -> Nat]
  /\ pool \in Seq(SUBSET Row) /\ pendingData \in [Node -> SUBSET Row]
  /\ mu \in [Node -> Thread \cup {NoThread}] /\ disabled \subseteq Node
  /\ pc \in [Thread -> {"idle", "lock", "grab", "send", "home request", "request", "reroute",
                        "next", "wait", "stopped"}]
  /\ row \in [Writer -> Row \cup {<<>>}] /\ node \in [Thread -> Node]
  /\ block \in [Thread -> SUBSET Row] /\ target \in [Thread -> Node]
  /\ todo \in [Thread -> SUBSET Node] /\ last \subseteq Node
  /\ added \subseteq Row /\ copies \in [Row -> Nat] /\ doubts \in [Row -> Nat] /\ faults \in Nat

Sending == {t \in Thread : pc[t] \in {"send", "home request", "request", "reroute", "next", "wait"}}

\* No buffer gets lost or is used twice: there are PoolSize of them in the pool and
\* with the senders, those in the pool are empty, a row is in one of them at most,
\* and none is longer than maxInsertBlockSize.
BuffersAreExact ==
  /\ Len(pool) + Cardinality(Sending) = PoolSize
  /\ \A i \in DOMAIN pool : pool[i] = {}
  /\ \A m, n \in Node : m # n => pendingData[m] \cap pendingData[n] = {}
  /\ \A t \in Sending : \A n \in Node : block[t] \cap pendingData[n] = {}
  /\ \A t, u \in Sending : t # u => block[t] \cap block[u] = {}
  /\ \A n \in Node : Cardinality(pendingData[n]) <= BlockSize

Buffered == UNION ({pendingData[n] : n \in Node} \cup {block[t] : t \in Sending})

NetInv == NetTypeOK /\ BuffersAreExact

\* A row accepted by AddRow() is in a block or on a node until the drain timeout.
RowsAreKept == \A r \in added : copies[r] > 0 \/ r \in Buffered \/ timedOut

\* MustStop() returns with every row stored, unless it has run out of time.
StopDrains == state = "stopped" /\ ~timedOut => \A r \in added : copies[r] > 0

\* No accepted row is lost, at work and at the stop, before the drain timeout.
NoRowIsLost == RowsAreKept /\ StopDrains

\* A row is stored again only after a failed request which had stored it.
DuplicatesComeFromFailures == \A r \in Row : copies[r] <= doubts[r] + 1

\* Writers and flushers which wait for a buffer with pendingDataMu held get one, and
\* MustStop() returns, even if no node answers.
NetStopTerminates == state = "stopping" ~> state = "stopped"

\* If nodes answer, accepted rows reach a node, as failures end at last (MaxFaults).
RowsAreDelivered ==
  (\A t \in Thread : WF_vars(Respond(t)))
    => \A r \in Row : r \in added ~> (copies[r] > 0 \/ timedOut)
=============================================================================
