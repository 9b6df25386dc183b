-------------------------- MODULE NetInsert_proofs --------------------------
(***************************************************************************)
(* Theorems about NetInsert, for every number of nodes, streams, rows,     *)
(* writers and buffers and every block size: no accepted row is lost       *)
(* before the drain timeout, duplicates come from failed requests, and no  *)
(* buffer is lost, used twice or overfull.                                 *)
(* The proofs need neither the locks nor the order of the nodes.           *)
(***************************************************************************)
EXTENDS NetInsert, SequenceTheorems, FiniteSetTheorems, TLAPS

\* The types of what the proofs are about.
TypeInv ==
  /\ rowsPerStream \in [Stream -> Nat]
  /\ pendingData \in [Node -> SUBSET Row] /\ block \in [Thread -> SUBSET Row]
  /\ row \in [Writer -> Row \cup {<<>>}] /\ node \in [Thread -> Node]
  /\ pc \in [Thread -> {"idle", "lock", "grab", "send", "home request", "request", "reroute",
                        "next", "wait", "stopped"}]
  /\ added \subseteq Row /\ copies \in [Row -> Nat] /\ doubts \in [Row -> Nat]

\* Buffers in the pool are empty ...
EmptyInv == pool \in Seq({{}})

\* ... and only senders have rows in their buffers.
PoolInv ==
  /\ \A t \in Thread : pc[t] \in {"idle", "lock", "grab", "stopped"} => block[t] = {}
  /\ \A n \in Node : node[n] = n /\ pc[n] # "lock"
  /\ \A w \in Writer : pc[w] \in {"lock", "grab"} => row[w] \in Row

\* How far MustStop() has come: writers are gone, and a flusher which has flushed for
\* the last time leaves nothing behind.
StopInv ==
  /\ last \subseteq Node
  /\ sendCtxDone => timedOut \/ state = "stopped"
  /\ state # "running" => \A w \in Writer : pc[w] = "idle"
  /\ last # {} => state # "running"
  /\ state = "stopped" => \A n \in Node : pc[n] = "stopped"
  /\ \A n \in Node :
       /\ pc[n] = "stopped" => n \in last
       /\ n \in last => pc[n] # "idle" /\ (pc[n] = "grab" \/ pendingData[n] = {})

InBuffer(r) ==
  \/ \E n \in Node : r \in pendingData[n]
  \/ \E t \in Thread : r \in block[t]

\* RowsAreKept without the union.
KeepInv == timedOut \/ \A r \in added : copies[r] > 0 \/ InBuffer(r)

\* streamRowsTracker has counted the row.
Numbered(r) == r[2] <= rowsPerStream[r[1]]

\* The rows which are in buffers, or on the way there, are the ones AddRow() has
\* numbered; every row comes once.
FreshInv ==
  /\ \A r \in added : Numbered(r)
  /\ \A w \in Writer : row[w] # <<>> =>
       /\ row[w] \in Row /\ row[w] \notin added /\ Numbered(row[w])
       /\ pc[w] \in {"lock", "grab"}
  /\ \A v, w \in Writer : v # w /\ row[v] # <<>> => row[v] # row[w]
  /\ \A n \in Node : \A r \in pendingData[n] : r \in added
  /\ \A t \in Thread : \A r \in block[t] : r \in added

\* A row is in one buffer at most.
DisjointInv ==
  \A r \in added :
    /\ \A m, n \in Node : r \in pendingData[m] /\ r \in pendingData[n] => m = n
    /\ \A t, u \in Thread : r \in block[t] /\ r \in block[u] => t = u
    /\ \A t \in Thread : \A n \in Node : r \in block[t] => r \notin pendingData[n]

\* While a row is in a buffer, all the requests which have stored it have failed.
CopyInv ==
  \A r \in Row :
    /\ r \notin added => copies[r] = 0
    /\ InBuffer(r) => copies[r] <= doubts[r]
    /\ copies[r] <= doubts[r] + 1
-----------------------------------------------------------------------------

\* Threads are writers and flushers.
LEMMA ThreadFacts ==
  /\ Writer \subseteq Thread /\ Node \subseteq Thread
  /\ \A t \in Thread : t \in Writer <=> t \notin Node
BY WriterAssumption DEF Thread

\* Idle threads have a node, and flushers their own.
LEMMA OwnNodeFacts ==
  /\ \A t \in Thread : OwnNode(t) \in Node
  /\ \A n \in Node : OwnNode(n) = n
<1>1. 0 \in Node
  BY SizeAssumption DEF Node
<1> QED BY <1>1 DEF OwnNode

\* A row has a stream and a number.
LEMMA RowFacts == \A r \in Row : r[1] \in Stream /\ r[2] \in Nat /\ r # <<>>
BY DEF Row

\* The numbers of copies and doubts are natural.
LEMMA CopyTypes == TypeInv => \A r \in Row : copies[r] \in Nat /\ doubts[r] \in Nat
BY DEF TypeInv

\* AddRow() numbers a row and chooses a node for it.
RowNumbered(w, s, k) ==
  /\ k \in Nat /\ k = rowsPerStream[s] + 1 /\ <<s, k>> \in Row
  /\ rowsPerStream' = [rowsPerStream EXCEPT ![s] = k]
  /\ row' = [row EXCEPT ![w] = <<s, k>>]
  /\ pc[w] = "idle" /\ pc' = [pc EXCEPT ![w] = "lock"]
  /\ \E n \in Node : node' = [node EXCEPT ![w] = n]
  /\ UNCHANGED <<pendingData, block, added, copies, doubts>>

\* The node exists, and the number is in range.
LEMMA AddRowEffect ==
  ASSUME TypeInv, NEW w \in Writer, NEW s \in Stream, AddRow(w, s)
  PROVE  \E k : RowNumbered(w, s, k)
<1>1. rowsPerStream[s] \in Nat /\ rowsPerStream[s] < PerStream
      /\ rowsPerStream' = [rowsPerStream EXCEPT ![s] = rowsPerStream[s] + 1]
  BY DEF AddRow, TypeInv
<1>2. rowsPerStream'[s] = rowsPerStream[s] + 1
  BY <1>1 DEF TypeInv
<1>3. <<s, rowsPerStream[s] + 1>> \in Row
  BY <1>1, SizeAssumption DEF Row
<1>4. NodesFor(s) \subseteq Node
  BY SizeAssumption DEF NodesFor, Node
<1>5. \E n \in Node : node' = [node EXCEPT ![w] = n]
  BY <1>4 DEF AddRow
<1>6. row' = [row EXCEPT ![w] = <<s, rowsPerStream[s] + 1>>]
  BY <1>2 DEF AddRow
<1>7. /\ pc[w] = "idle" /\ pc' = [pc EXCEPT ![w] = "lock"]
      /\ UNCHANGED <<pendingData, block, added, copies, doubts>>
  BY DEF AddRow, Goto, buffers, stored
<1>8. rowsPerStream[s] + 1 \in Nat
  BY <1>1
<1>9. RowNumbered(w, s, rowsPerStream[s] + 1)
  BY <1>1, <1>3, <1>5, <1>6, <1>7, <1>8 DEF RowNumbered
<1> QED BY <1>9

\* The number is the largest one of the stream.
LEMMA NumberingEffect ==
  ASSUME TypeInv, NEW w \in Writer, NEW s \in Stream, NEW k, RowNumbered(w, s, k)
  PROVE  /\ \A r \in Row : Numbered(r) => Numbered(r)' /\ r # <<s, k>>
         /\ Numbered(<<s, k>>)' /\ <<s, k>> # <<>>
<1>1. /\ k \in Nat /\ k = rowsPerStream[s] + 1
      /\ rowsPerStream' = [rowsPerStream EXCEPT ![s] = k]
  BY DEF RowNumbered
<1>2. rowsPerStream \in [Stream -> Nat]
  BY DEF TypeInv
<1>3. ASSUME NEW r \in Row, Numbered(r) PROVE Numbered(r)' /\ r # <<s, k>>
  <2>1. r[1] \in Stream /\ r[2] \in Nat /\ rowsPerStream[r[1]] \in Nat /\ rowsPerStream[s] \in Nat
    BY <1>2, RowFacts
  <2>2. rowsPerStream'[r[1]] = IF r[1] = s THEN k ELSE rowsPerStream[r[1]]
    BY <1>1, <1>2, <2>1
  <2>3. r[2] <= rowsPerStream[r[1]]
    BY <1>3 DEF Numbered
  <2>4. r[2] <= rowsPerStream'[r[1]]
    BY <1>1, <2>1, <2>2, <2>3
  <2>5. ~(r[1] = s /\ r[2] = k)
    BY <1>1, <2>1, <2>3
  <2> QED BY <2>4, <2>5 DEF Numbered
<1>4. rowsPerStream'[s] = k
  BY <1>1, <1>2
<1> QED BY <1>1, <1>3, <1>4 DEF Numbered

\* A writer swaps the full block with a buffer which has its row only ...
WriterGrabbed(w) ==
  /\ node[w] \in Node /\ row[w] \in Row /\ block[w] = {} /\ pc[w] = "grab"
  /\ block' = [block EXCEPT ![w] = pendingData[node[w]]]
  /\ pendingData' = [pendingData EXCEPT ![node[w]] = {row[w]}]
  /\ added' = added \cup {row[w]} /\ row' = [row EXCEPT ![w] = <<>>]
  /\ pc' = [pc EXCEPT ![w] = "send"]
  /\ UNCHANGED <<state, timedOut, sendCtxDone, rowsPerStream, node, last, copies, doubts>>

\* ... and a flusher swaps the block of its node with an empty buffer.
FlusherGrabbed(n) ==
  /\ block[n] = {} /\ pc[n] = "grab"
  /\ block' = [block EXCEPT ![n] = pendingData[n]]
  /\ pendingData' = [pendingData EXCEPT ![n] = {}]
  /\ pc' = [pc EXCEPT ![n] = "send"]
  /\ UNCHANGED <<added, row, state, timedOut, sendCtxDone, rowsPerStream, node, last, copies,
                 doubts>>

\* What the pool gives is an empty buffer.
LEMMA GrabEffect ==
  ASSUME EmptyInv, TypeInv, PoolInv, NEW t \in Thread, GrabPendingData(t)
  PROVE  /\ t \in Writer => WriterGrabbed(t)
         /\ t \notin Writer => t \in Node /\ FlusherGrabbed(t)
<1>1. pool # <<>> => Head(pool) = {}
  BY DEF EmptyInv
<1>2. UNCHANGED <<state, timedOut, sendCtxDone, rowsPerStream, node, last, copies, doubts>>
  BY DEF GrabPendingData, stop, stored
<1>3. CASE t \in Writer
  BY <1>1, <1>2, <1>3, ThreadFacts
  DEF WriterGrabbed, GrabPendingData, Write, Goto, TypeInv, PoolInv
<1>4. CASE t \notin Writer
  BY <1>1, <1>2, <1>4, ThreadFacts
  DEF FlusherGrabbed, GrabPendingData, Goto, TypeInv, PoolInv
<1> QED BY <1>3, <1>4

\* A thread which gives its buffer back is done.
Released(t) ==
  /\ pc[t] \in {"send", "home request", "request", "wait"}
  /\ pool' = Append(pool, {})
  /\ block' = [block EXCEPT ![t] = {}]
  /\ pc' = [pc EXCEPT ![t] = IF t \in last THEN "stopped" ELSE "idle"]
  /\ node' = [node EXCEPT ![t] = OwnNode(t)]
  /\ UNCHANGED <<state, timedOut, sendCtxDone, rowsPerStream, pendingData, row, last, added,
                 doubts>>

\* Its block is stored, empty or dropped.
LEMMA ReleaseEffect ==
  ASSUME NEW t \in Thread, RequestSucceeds(t) \/ Drop(t) \/ (SendToHome(t) /\ block[t] = {})
  PROVE  /\ Released(t)
         /\ RequestSucceeds(t) \/ copies' = copies
         /\ RequestSucceeds(t) \/ block[t] = {} \/ (pc[t] = "wait" /\ sendCtxDone)
BY DEF Released, RequestSucceeds, Drop, SendToHome, Release, Goto, stored, stop

\* Looking for a node, a sender keeps its block.
LEMMA NextNodeEffect ==
  ASSUME NEW t \in Thread, NextNode(t)
  PROVE  /\ pc[t] = "next"
         /\ \E p \in {"next", "request", "wait"} : pc' = [pc EXCEPT ![t] = p]
         /\ UNCHANGED <<state, timedOut, sendCtxDone, rowsPerStream, pool, pendingData, row, node,
                        block, last, added, copies, doubts>>
<1>1. \E p \in {"next", "request", "wait"} : Goto(t, p)
  BY DEF NextNode
<1> QED BY <1>1 DEF NextNode, Goto, stop, buffers, stored

\* A request which succeeds adds one to the copies of every row of the block.
LEMMA SuccessStores ==
  ASSUME TypeInv, NEW t \in Thread, RequestSucceeds(t)
  PROVE  /\ copies' \in [Row -> Nat]
         /\ \A r \in Row : copies'[r] = IF r \in block[t] THEN copies[r] + 1 ELSE copies[r]
<1>1. copies' = [r \in Row |-> IF r \in block[t] THEN copies[r] + 1 ELSE copies[r]]
  BY DEF RequestSucceeds, Store
<1>2. copies \in [Row -> Nat]
  BY DEF TypeInv
<1> QED BY <1>1, <1>2

\* A request which fails may do that too, and then adds one to their doubts.
LEMMA FailureStores ==
  ASSUME TypeInv, NEW t \in Thread, RequestFails(t)
  PROVE  /\ copies' \in [Row -> Nat] /\ doubts' \in [Row -> Nat]
         /\ \A r \in Row : \/ copies'[r] = copies[r] /\ doubts'[r] = doubts[r]
                           \/ copies'[r] = copies[r] + 1 /\ doubts'[r] = doubts[r] + 1
         /\ \A r \in Row : r \notin block[t] => copies'[r] = copies[r]
<1>1. copies \in [Row -> Nat] /\ doubts \in [Row -> Nat]
  BY DEF TypeInv
<1>2. \/ copies' = copies /\ doubts' = doubts
      \/ /\ copies' = [r \in Row |-> IF r \in block[t] THEN copies[r] + 1 ELSE copies[r]]
         /\ doubts' = [r \in Row |-> IF r \in block[t] THEN doubts[r] + 1 ELSE doubts[r]]
  BY DEF RequestFails, Store, stored
<1> QED BY <1>1, <1>2

\* A buffer is emptied before it goes back to the pool.
LEMMA EmptyNext ==
  EmptyInv /\ [Next]_vars => EmptyInv'
<1> SUFFICES ASSUME EmptyInv, [Next]_vars PROVE EmptyInv'
  OBVIOUS
<1> USE DEF stop, buffers, threads, stored
<1>1. CASE UNCHANGED <<pool>>
  BY <1>1 DEF EmptyInv
<1>2. ASSUME NEW t \in Thread, GrabPendingData(t) PROVE EmptyInv'
  BY <1>2 DEF GrabPendingData, Write, Goto, EmptyInv
<1>3. ASSUME NEW t \in Thread, SendToHome(t) PROVE EmptyInv'
  <2>1. CASE block[t] = {}
    <3>1. Released(t)
      BY <1>3, <2>1, ReleaseEffect
    <3> QED BY <3>1, AppendProperties DEF Released, EmptyInv
  <2>2. CASE block[t] # {}
    BY <1>3, <2>2 DEF SendToHome, EmptyInv
  <2> QED BY <2>1, <2>2
<1>4. ASSUME NEW t \in Thread, RequestSucceeds(t) PROVE EmptyInv'
  <2>1. Released(t)
    BY <1>4, ReleaseEffect
  <2> QED BY <2>1, AppendProperties DEF Released, EmptyInv
<1>5. ASSUME NEW t \in Thread, Drop(t) PROVE EmptyInv'
  <2>1. Released(t)
    BY <1>5, ReleaseEffect
  <2> QED BY <2>1, AppendProperties DEF Released, EmptyInv
<1>6. ASSUME
            \/ (\E w \in Writer : \E s \in Stream : AddRow(w, s))
            \/ (\E s \in Stream : SkipLongRow(s)) \/ (\E w \in Writer : AddToBlock(w))
            \/ (\E w \in Writer : LockFullBlock(w))
            \/ (\E n \in Node : \E force \in BOOLEAN : LockToFlush(n, force))
            \/ (\E t \in Thread : Reroute(t)) \/ (\E t \in Thread : NextNode(t))
            \/ (\E t \in Thread : RequestFails(t)) \/ (\E n \in Node : EnableNode(n))
            \/ (\E t \in Thread : Retry(t)) \/ StartStop \/ DrainTimeout \/ EndStop
            \/ Stopped
      PROVE UNCHANGED <<pool>>
  BY <1>6 DEF AddRow, NodesFor, Goto, SkipLongRow, AddToBlock, Write, LockFullBlock,
      LockToFlush, Reroute, NextNode, RequestFails, Store, EnableNode, Retry, StartStop,
      DrainTimeout, EndStop, Stopped, vars
<1> QED
  BY <1>1, <1>2, <1>3, <1>4, <1>5, <1>6
  DEF Next, AddStep, Send, Respond, vars

\* No step of a writer, a flusher or MustStop() breaks the types.
LEMMA TypeNext ==
  EmptyInv /\ PoolInv /\ TypeInv /\ [Next]_vars => TypeInv'
<1> SUFFICES ASSUME EmptyInv, PoolInv, TypeInv, [Next]_vars PROVE TypeInv'
  OBVIOUS
<1> USE DEF stop, buffers, threads, stored
<1>1. CASE UNCHANGED <<rowsPerStream, pendingData, block, row, node, pc, added, copies, doubts>>
  BY <1>1 DEF TypeInv, PoolInv
<1>2. ASSUME NEW w \in Writer, NEW s \in Stream, AddRow(w, s) PROVE TypeInv'
  <2>1. PICK k : RowNumbered(w, s, k)
    BY <1>2, AddRowEffect
  <2> QED BY <2>1, ThreadFacts DEF RowNumbered, TypeInv, PoolInv
<1>3. ASSUME NEW s \in Stream, SkipLongRow(s) PROVE TypeInv'
  <2>1. rowsPerStream' \in [Stream -> Nat]
    <3>1. /\ rowsPerStream[s] \in Nat /\ rowsPerStream \in [Stream -> Nat]
          /\ rowsPerStream' = [rowsPerStream EXCEPT ![s] = rowsPerStream[s] + 1]
      BY <1>3 DEF SkipLongRow, TypeInv
    <3> QED BY <3>1
  <2> QED BY <1>3, <2>1 DEF SkipLongRow, TypeInv
<1>4. ASSUME NEW w \in Writer, AddToBlock(w) PROVE TypeInv'
  BY <1>4, ThreadFacts, OwnNodeFacts DEF AddToBlock, Write, Goto, TypeInv, PoolInv
<1>5. ASSUME NEW w \in Writer, LockFullBlock(w) PROVE TypeInv'
  BY <1>5, ThreadFacts DEF LockFullBlock, Goto, TypeInv, PoolInv
<1>6. ASSUME NEW n \in Node, NEW force \in BOOLEAN, LockToFlush(n, force) PROVE TypeInv'
  BY <1>6, ThreadFacts DEF LockToFlush, Goto, TypeInv, PoolInv
<1>7. ASSUME NEW t \in Thread, GrabPendingData(t) PROVE TypeInv'
  <2>1. CASE t \in Writer
    <3>1. WriterGrabbed(t)
      BY <1>7, <2>1, GrabEffect
    <3> QED BY <2>1, <3>1, ThreadFacts DEF WriterGrabbed, TypeInv, PoolInv
  <2>2. CASE t \notin Writer
    <3>1. t \in Node /\ FlusherGrabbed(t)
      BY <1>7, <2>2, GrabEffect
    <3> QED BY <3>1, ThreadFacts DEF FlusherGrabbed, TypeInv, PoolInv
  <2> QED BY <2>1, <2>2
<1>8. ASSUME NEW t \in Thread, SendToHome(t) PROVE TypeInv'
  <2>1. CASE block[t] = {}
    <3>1. Released(t) /\ copies' = copies
      BY <1>8, <2>1, ReleaseEffect DEF SendToHome, Release, stored
    <3> QED BY <2>1, <3>1, ThreadFacts, OwnNodeFacts DEF Released, TypeInv, PoolInv
  <2>2. CASE block[t] # {}
    BY <1>8, <2>2, ThreadFacts DEF SendToHome, Goto, TypeInv, PoolInv
  <2> QED BY <2>1, <2>2
<1>9. ASSUME NEW t \in Thread, Reroute(t) PROVE TypeInv'
  BY <1>9, ThreadFacts DEF Reroute, Goto, TypeInv, PoolInv
<1>10. ASSUME NEW t \in Thread, NextNode(t) PROVE TypeInv'
  <2>1. pc' \in [Thread -> {"idle", "lock", "grab", "send", "home request", "request", "reroute",
                           "next", "wait", "stopped"}]
    BY <1>10, NextNodeEffect DEF TypeInv
  <2> QED BY <1>10, <2>1, NextNodeEffect DEF TypeInv
<1>11. ASSUME NEW t \in Thread, RequestSucceeds(t) PROVE TypeInv'
  <2>1. /\ copies' \in [Row -> Nat]
        /\ \A r \in Row : copies'[r] = IF r \in block[t] THEN copies[r] + 1 ELSE copies[r]
    BY <1>11, SuccessStores
  <2>2. Released(t)
    BY <1>11, ReleaseEffect
  <2> QED BY <2>1, <2>2, ThreadFacts, OwnNodeFacts DEF Released, TypeInv, PoolInv
<1>12. ASSUME NEW t \in Thread, RequestFails(t) PROVE TypeInv'
  <2>1. /\ copies' \in [Row -> Nat] /\ doubts' \in [Row -> Nat]
        /\ \A r \in Row : \/ copies'[r] = copies[r] /\ doubts'[r] = doubts[r]
                          \/ copies'[r] = copies[r] + 1 /\ doubts'[r] = doubts[r] + 1
    BY <1>12, FailureStores
  <2>2. pc' \in [Thread -> {"idle", "lock", "grab", "send", "home request", "request", "reroute",
                           "next", "wait", "stopped"}]
    BY <1>12 DEF RequestFails, Goto, TypeInv
  <2> QED BY <1>12, <2>1, <2>2 DEF RequestFails, TypeInv, PoolInv
<1>13. ASSUME NEW t \in Thread, Retry(t) PROVE TypeInv'
  BY <1>13, ThreadFacts DEF Retry, Goto, TypeInv, PoolInv
<1>14. ASSUME NEW t \in Thread, Drop(t) PROVE TypeInv'
  <2>1. Released(t) /\ copies' = copies
    BY <1>14, ReleaseEffect DEF Drop, stored
  <2> QED BY <2>1, ThreadFacts, OwnNodeFacts DEF Released, TypeInv, PoolInv
<1>15. ASSUME
            \/ (\E n \in Node : EnableNode(n)) \/ StartStop \/ DrainTimeout \/ EndStop
            \/ Stopped
      PROVE UNCHANGED <<rowsPerStream, pendingData, block, row, node, pc, added, copies, doubts>>
  BY <1>15 DEF EnableNode, StartStop, DrainTimeout, EndStop, Stopped, vars
<1> QED
  BY <1>1, <1>2, <1>3, <1>4, <1>5, <1>6, <1>7, <1>8, <1>9, <1>10, <1>11, <1>12, <1>13,
     <1>14, <1>15
  DEF Next, AddStep, Send, Respond, vars

\* Only senders have rows in their buffers.
LEMMA PoolNext ==
  EmptyInv /\ TypeInv /\ PoolInv /\ [Next]_vars => PoolInv'
<1> SUFFICES ASSUME EmptyInv, TypeInv, PoolInv, [Next]_vars PROVE PoolInv'
  OBVIOUS
<1> USE DEF stop, buffers, threads, stored
<1>1. CASE UNCHANGED <<block, pc, node, row>>
  BY <1>1 DEF TypeInv, PoolInv
<1>2. ASSUME NEW w \in Writer, NEW s \in Stream, AddRow(w, s) PROVE PoolInv'
  <2>1. PICK k : RowNumbered(w, s, k)
    BY <1>2, AddRowEffect
  <2> QED BY <2>1, ThreadFacts DEF RowNumbered, TypeInv, PoolInv
<1>3. ASSUME NEW w \in Writer, AddToBlock(w) PROVE PoolInv'
  BY <1>3, ThreadFacts, OwnNodeFacts DEF AddToBlock, Write, Goto, TypeInv, PoolInv
<1>4. ASSUME NEW w \in Writer, LockFullBlock(w) PROVE PoolInv'
  BY <1>4, ThreadFacts DEF LockFullBlock, Goto, TypeInv, PoolInv
<1>5. ASSUME NEW n \in Node, NEW force \in BOOLEAN, LockToFlush(n, force) PROVE PoolInv'
  BY <1>5, ThreadFacts DEF LockToFlush, Goto, TypeInv, PoolInv
<1>6. ASSUME NEW t \in Thread, GrabPendingData(t) PROVE PoolInv'
  <2>1. CASE t \in Writer
    <3>1. WriterGrabbed(t)
      BY <1>6, <2>1, GrabEffect
    <3> QED BY <2>1, <3>1, ThreadFacts DEF WriterGrabbed, TypeInv, PoolInv
  <2>2. CASE t \notin Writer
    <3>1. t \in Node /\ FlusherGrabbed(t)
      BY <1>6, <2>2, GrabEffect
    <3> QED BY <3>1, ThreadFacts DEF FlusherGrabbed, TypeInv, PoolInv
  <2> QED BY <2>1, <2>2
<1>7. ASSUME NEW t \in Thread, SendToHome(t) PROVE PoolInv'
  <2>1. CASE block[t] = {}
    <3>1. Released(t) /\ copies' = copies
      BY <1>7, <2>1, ReleaseEffect DEF SendToHome, Release, stored
    <3> QED BY <2>1, <3>1, ThreadFacts, OwnNodeFacts DEF Released, TypeInv, PoolInv
  <2>2. CASE block[t] # {}
    BY <1>7, <2>2, ThreadFacts, ZenonT(40) DEF SendToHome, Goto, TypeInv, PoolInv
  <2> QED BY <2>1, <2>2
<1>8. ASSUME NEW t \in Thread, Reroute(t) PROVE PoolInv'
  BY <1>8, ThreadFacts DEF Reroute, Goto, TypeInv, PoolInv
<1>9. ASSUME NEW t \in Thread, NextNode(t) PROVE PoolInv'
  <2>1. PICK p \in {"next", "request", "wait"} : pc' = [pc EXCEPT ![t] = p]
    BY <1>9, NextNodeEffect
  <2>2. UNCHANGED <<block, node, row>> /\ pc[t] = "next"
    BY <1>9, NextNodeEffect
  <2> QED BY <2>1, <2>2, ThreadFacts DEF TypeInv, PoolInv
<1>10. ASSUME NEW t \in Thread, RequestSucceeds(t) PROVE PoolInv'
  <2>1. Released(t)
    BY <1>10, ReleaseEffect
  <2> QED BY <2>1, ThreadFacts, OwnNodeFacts DEF Released, TypeInv, PoolInv
<1>11. ASSUME NEW t \in Thread, RequestFails(t) PROVE PoolInv'
  BY <1>11, ThreadFacts DEF RequestFails, Store, Goto, TypeInv, PoolInv
<1>12. ASSUME NEW t \in Thread, Retry(t) PROVE PoolInv'
  BY <1>12, ThreadFacts DEF Retry, Goto, TypeInv, PoolInv
<1>13. ASSUME NEW t \in Thread, Drop(t) PROVE PoolInv'
  <2>1. Released(t) /\ copies' = copies
    BY <1>13, ReleaseEffect DEF Drop, stored
  <2> QED BY <2>1, ThreadFacts, OwnNodeFacts DEF Released, TypeInv, PoolInv
<1>14. ASSUME
            \/ (\E s \in Stream : SkipLongRow(s)) \/ (\E n \in Node : EnableNode(n))
            \/ StartStop \/ DrainTimeout \/ EndStop \/ Stopped
      PROVE UNCHANGED <<block, pc, node, row>>
  BY <1>14 DEF SkipLongRow, EnableNode, StartStop, DrainTimeout, EndStop, Stopped, vars
<1> QED
  BY <1>1, <1>2, <1>3, <1>4, <1>5, <1>6, <1>7, <1>8, <1>9, <1>10, <1>11, <1>12, <1>13, <1>14
  DEF Next, AddStep, Send, Respond, vars

\* A flusher stops only after its last flush.
LEMMA StopNext ==
  EmptyInv /\ TypeInv /\ PoolInv /\ StopInv /\ [Next]_vars => StopInv'
<1> SUFFICES ASSUME EmptyInv, TypeInv, PoolInv, StopInv, [Next]_vars PROVE StopInv'
  OBVIOUS
<1> USE DEF stop, buffers, threads, stored
<1>1. CASE UNCHANGED <<state, timedOut, sendCtxDone, last, pc, pendingData>>
  BY <1>1 DEF TypeInv, PoolInv, StopInv
<1>2. ASSUME NEW w \in Writer, NEW s \in Stream, AddRow(w, s) PROVE StopInv'
  BY <1>2, ThreadFacts DEF AddRow, NodesFor, Goto, TypeInv, PoolInv, StopInv
<1>3. ASSUME NEW w \in Writer, AddToBlock(w) PROVE StopInv'
  BY <1>3, ThreadFacts DEF AddToBlock, Write, Goto, TypeInv, PoolInv, StopInv
<1>4. ASSUME NEW w \in Writer, LockFullBlock(w) PROVE StopInv'
  BY <1>4, ThreadFacts DEF LockFullBlock, Goto, TypeInv, PoolInv, StopInv
<1>5. ASSUME NEW n \in Node, NEW force \in BOOLEAN, LockToFlush(n, force) PROVE StopInv'
  BY <1>5, ThreadFacts DEF LockToFlush, Goto, TypeInv, PoolInv, StopInv
<1>6. ASSUME NEW t \in Thread, GrabPendingData(t) PROVE StopInv'
  <2>1. CASE t \in Writer
    <3>1. WriterGrabbed(t)
      BY <1>6, <2>1, GrabEffect
    <3> QED BY <2>1, <3>1, ThreadFacts DEF WriterGrabbed, TypeInv, PoolInv, StopInv
  <2>2. CASE t \notin Writer
    <3>1. t \in Node /\ FlusherGrabbed(t)
      BY <1>6, <2>2, GrabEffect
    <3> QED BY <3>1, ThreadFacts DEF FlusherGrabbed, TypeInv, PoolInv, StopInv
  <2> QED BY <2>1, <2>2
<1>7. ASSUME NEW t \in Thread, SendToHome(t) PROVE StopInv'
  <2>1. CASE block[t] = {}
    <3>1. Released(t) /\ copies' = copies
      BY <1>7, <2>1, ReleaseEffect DEF SendToHome, Release, stored
    <3> QED BY <2>1, <3>1, ThreadFacts DEF Released, TypeInv, PoolInv, StopInv
  <2>2. CASE block[t] # {}
    BY <1>7, <2>2, ThreadFacts, ZenonT(40) DEF SendToHome, Goto, TypeInv, PoolInv, StopInv
  <2> QED BY <2>1, <2>2
<1>8. ASSUME NEW t \in Thread, Reroute(t) PROVE StopInv'
  BY <1>8, ThreadFacts DEF Reroute, Goto, TypeInv, PoolInv, StopInv
<1>9. ASSUME NEW t \in Thread, NextNode(t) PROVE StopInv'
  BY <1>9, NextNodeEffect, ThreadFacts, ZenonT(40) DEF TypeInv, PoolInv, StopInv
<1>10. ASSUME NEW t \in Thread, RequestSucceeds(t) PROVE StopInv'
  <2>1. Released(t)
    BY <1>10, ReleaseEffect
  <2> QED BY <2>1, ThreadFacts DEF Released, TypeInv, PoolInv, StopInv
<1>11. ASSUME NEW t \in Thread, RequestFails(t) PROVE StopInv'
  BY <1>11, ThreadFacts DEF RequestFails, Store, Goto, TypeInv, PoolInv, StopInv
<1>12. ASSUME NEW t \in Thread, Retry(t) PROVE StopInv'
  BY <1>12, ThreadFacts DEF Retry, Goto, TypeInv, PoolInv, StopInv
<1>13. ASSUME NEW t \in Thread, Drop(t) PROVE StopInv'
  <2>1. Released(t) /\ copies' = copies
    BY <1>13, ReleaseEffect DEF Drop, stored
  <2> QED BY <2>1, ThreadFacts DEF Released, TypeInv, PoolInv, StopInv
<1>14. CASE StartStop
  BY <1>14, ThreadFacts DEF StartStop, TypeInv, PoolInv, StopInv
<1>15. CASE DrainTimeout
  BY <1>15, ThreadFacts DEF DrainTimeout, TypeInv, PoolInv, StopInv
<1>16. CASE EndStop
  BY <1>16, ThreadFacts DEF EndStop, TypeInv, PoolInv, StopInv
<1>17. ASSUME
            \/ (\E s \in Stream : SkipLongRow(s)) \/ (\E n \in Node : EnableNode(n))
            \/ Stopped
      PROVE UNCHANGED <<state, timedOut, sendCtxDone, last, pc, pendingData>>
  BY <1>17 DEF SkipLongRow, EnableNode, Stopped, vars
<1> QED
  BY <1>1, <1>2, <1>3, <1>4, <1>5, <1>6, <1>7, <1>8, <1>9, <1>10, <1>11, <1>12, <1>13,
     <1>14, <1>15, <1>16, <1>17
  DEF Next, AddStep, Send, Respond, vars

\* A row leaves the buffers only when a node has stored it, or when sendCtx is done.
LEMMA KeepNext ==
  EmptyInv /\ TypeInv /\ PoolInv /\ StopInv /\ KeepInv /\ [Next]_vars => KeepInv'
<1> SUFFICES ASSUME EmptyInv, TypeInv, PoolInv, StopInv, KeepInv, [Next]_vars PROVE KeepInv'
  OBVIOUS
<1> USE DEF stop, buffers, threads, stored
<1>1. CASE UNCHANGED <<added, copies, timedOut, pendingData, block>>
  BY <1>1 DEF TypeInv, KeepInv, InBuffer
<1>2. ASSUME NEW w \in Writer, AddToBlock(w) PROVE KeepInv'
  BY <1>2, ThreadFacts DEF AddToBlock, Write, Goto, TypeInv, KeepInv, InBuffer
<1>3. ASSUME NEW t \in Thread, GrabPendingData(t) PROVE KeepInv'
  <2>1. CASE t \in Writer
    <3>1. WriterGrabbed(t)
      BY <1>3, <2>1, GrabEffect
    <3> QED BY <2>1, <3>1, ThreadFacts DEF WriterGrabbed, TypeInv, KeepInv, InBuffer
  <2>2. CASE t \notin Writer
    <3>1. t \in Node /\ FlusherGrabbed(t)
      BY <1>3, <2>2, GrabEffect
    <3> QED BY <3>1, ThreadFacts DEF FlusherGrabbed, TypeInv, KeepInv, InBuffer
  <2> QED BY <2>1, <2>2
<1>4. ASSUME NEW t \in Thread, SendToHome(t) PROVE KeepInv'
  <2>1. CASE block[t] = {}
    <3>1. Released(t) /\ copies' = copies
      BY <1>4, <2>1, ReleaseEffect DEF SendToHome, Release, stored
    <3> QED BY <2>1, <3>1, ThreadFacts DEF Released, TypeInv, KeepInv, InBuffer
  <2>2. CASE block[t] # {}
    BY <1>4, <2>2, ThreadFacts DEF SendToHome, Goto, TypeInv, KeepInv, InBuffer
  <2> QED BY <2>1, <2>2
<1>5. ASSUME NEW t \in Thread, RequestSucceeds(t) PROVE KeepInv'
  <2>1. /\ copies' \in [Row -> Nat]
        /\ \A r \in Row : copies'[r] = IF r \in block[t] THEN copies[r] + 1 ELSE copies[r]
    BY <1>5, SuccessStores
  <2>2. Released(t)
    BY <1>5, ReleaseEffect
  <2>3. \A r : InBuffer(r) => r \in block[t] \/ InBuffer(r)'
    BY <2>2 DEF InBuffer, Released, TypeInv
  <2>4. ASSUME NEW r \in added, copies[r] > 0 \/ r \in block[t] PROVE copies'[r] > 0
    <3>1. r \in Row /\ copies[r] \in Nat
      BY CopyTypes DEF TypeInv
    <3> QED BY <2>1, <2>4, <3>1
  <2>5. UNCHANGED <<added, timedOut>>
    BY <2>2 DEF Released
  <2> QED BY <2>3, <2>4, <2>5 DEF KeepInv
<1>6. ASSUME NEW t \in Thread, RequestFails(t) PROVE KeepInv'
  <2>1. /\ copies' \in [Row -> Nat] /\ doubts' \in [Row -> Nat]
        /\ \A r \in Row : \/ copies'[r] = copies[r] /\ doubts'[r] = doubts[r]
                          \/ copies'[r] = copies[r] + 1 /\ doubts'[r] = doubts[r] + 1
    BY <1>6, FailureStores
  <2>2. UNCHANGED <<added, timedOut, pendingData, block>>
    BY <1>6 DEF RequestFails, stop
  <2>3. \A r : InBuffer(r) => InBuffer(r)'
    BY <2>2 DEF InBuffer
  <2>4. ASSUME NEW r \in added, copies[r] > 0 PROVE copies'[r] > 0
    <3>1. r \in Row /\ copies[r] \in Nat
      BY CopyTypes DEF TypeInv
    <3> QED BY <2>1, <2>4, <3>1
  <2> QED BY <2>2, <2>3, <2>4 DEF KeepInv
<1>7. ASSUME NEW t \in Thread, Drop(t) PROVE KeepInv'
  <2>1. timedOut \/ state = "stopped"
    BY <1>7 DEF Drop, StopInv
  <2>2. timedOut
    BY <1>7, <2>1, ThreadFacts DEF Drop, StopInv, Thread
  <2> QED BY <1>7, <2>2 DEF Drop, KeepInv
<1>8. CASE DrainTimeout
  BY <1>8, ThreadFacts DEF DrainTimeout, TypeInv, KeepInv, InBuffer
<1>9. ASSUME
            \/ (\E w \in Writer : \E s \in Stream : AddRow(w, s))
            \/ (\E s \in Stream : SkipLongRow(s)) \/ (\E w \in Writer : LockFullBlock(w))
            \/ (\E n \in Node : \E force \in BOOLEAN : LockToFlush(n, force))
            \/ (\E t \in Thread : Reroute(t)) \/ (\E t \in Thread : NextNode(t))
            \/ (\E n \in Node : EnableNode(n)) \/ (\E t \in Thread : Retry(t))
            \/ StartStop \/ EndStop \/ Stopped
      PROVE UNCHANGED <<added, copies, timedOut, pendingData, block>>
  BY <1>9 DEF AddRow, NodesFor, Goto, SkipLongRow, LockFullBlock, LockToFlush, Reroute,
      NextNode, EnableNode, Retry, StartStop, EndStop, Stopped, vars
<1> QED
  BY <1>1, <1>2, <1>3, <1>4, <1>5, <1>6, <1>7, <1>8, <1>9
  DEF Next, AddStep, Send, Respond, vars

\* Every row gets a number of its own.
LEMMA FreshNext ==
  EmptyInv /\ TypeInv /\ PoolInv /\ FreshInv /\ [Next]_vars => FreshInv'
<1> SUFFICES ASSUME EmptyInv, TypeInv, PoolInv, FreshInv, [Next]_vars PROVE FreshInv'
  OBVIOUS
<1> USE DEF stop, buffers, threads, stored
<1>1. CASE UNCHANGED <<added, row, rowsPerStream, pc, pendingData, block>>
  BY <1>1 DEF TypeInv, FreshInv, Numbered
<1>2. ASSUME NEW w \in Writer, NEW s \in Stream, AddRow(w, s) PROVE FreshInv'
  <2>1. PICK k : RowNumbered(w, s, k)
    BY <1>2, AddRowEffect
  <2>2. \A r \in Row : Numbered(r) => Numbered(r)' /\ r # <<s, k>>
    BY <2>1, NumberingEffect
  <2>3. Numbered(<<s, k>>)' /\ <<s, k>> # <<>>
    BY <2>1, NumberingEffect
  <2>4. <<s, k>> \notin added
    BY <2>2 DEF FreshInv, TypeInv
  <2> QED BY <2>1, <2>2, <2>3, <2>4, ThreadFacts DEF RowNumbered, TypeInv, FreshInv
<1>3. ASSUME NEW s \in Stream, SkipLongRow(s) PROVE FreshInv'
  <2>1. \A r \in Row : Numbered(r) => Numbered(r)'
    <3>1. /\ rowsPerStream[s] \in Nat /\ rowsPerStream \in [Stream -> Nat]
          /\ rowsPerStream' = [rowsPerStream EXCEPT ![s] = rowsPerStream[s] + 1]
      BY <1>3 DEF SkipLongRow, TypeInv
    <3> SUFFICES ASSUME NEW r \in Row, Numbered(r) PROVE Numbered(r)'
      OBVIOUS
    <3>2. r[1] \in Stream /\ r[2] \in Nat /\ rowsPerStream[r[1]] \in Nat
      BY <3>1, RowFacts
    <3>3. rowsPerStream'[r[1]] = IF r[1] = s THEN rowsPerStream[s] + 1 ELSE rowsPerStream[r[1]]
      BY <3>1, <3>2
    <3> QED BY <3>1, <3>2, <3>3 DEF Numbered
  <2> QED BY <1>3, <2>1 DEF SkipLongRow, TypeInv, FreshInv
<1>4. ASSUME NEW w \in Writer, AddToBlock(w) PROVE FreshInv'
  <2>1. /\ node[w] \in Node /\ row[w] \in Row /\ row[w] # <<>> /\ row[w] \notin added
        /\ added' = added \cup {row[w]} /\ row' = [row EXCEPT ![w] = <<>>]
        /\ pendingData' = [pendingData EXCEPT ![node[w]] = pendingData[node[w]] \cup {row[w]}]
        /\ pc' = [pc EXCEPT ![w] = "idle"]
        /\ UNCHANGED <<block, copies, doubts, rowsPerStream>>
    BY <1>4, ThreadFacts, RowFacts DEF AddToBlock, Write, Goto, TypeInv, PoolInv, FreshInv
  <2>2. \A r : Numbered(r)' <=> Numbered(r)
    BY <2>1 DEF Numbered
  <2> QED BY <2>1, <2>2, ThreadFacts DEF TypeInv, FreshInv
<1>5. ASSUME NEW w \in Writer, LockFullBlock(w) PROVE FreshInv'
  BY <1>5, ThreadFacts DEF LockFullBlock, Goto, TypeInv, FreshInv, Numbered
<1>6. ASSUME NEW n \in Node, NEW force \in BOOLEAN, LockToFlush(n, force) PROVE FreshInv'
  BY <1>6, ThreadFacts DEF LockToFlush, Goto, TypeInv, FreshInv, Numbered
<1>7. ASSUME NEW t \in Thread, GrabPendingData(t) PROVE FreshInv'
  <2>1. CASE t \in Writer
    <3>1. WriterGrabbed(t)
      BY <1>7, <2>1, GrabEffect
    <3>2. row[t] # <<>> /\ row[t] \notin added
      BY <2>1, <3>1, RowFacts DEF WriterGrabbed, FreshInv
    <3>3. \A r : Numbered(r)' <=> Numbered(r)
      BY <3>1 DEF Numbered, WriterGrabbed
    <3>4. /\ \A n \in Node : \A r \in pendingData'[n] : r \in added'
          /\ \A u \in Thread : \A r \in block'[u] : r \in added'
      BY <3>1 DEF WriterGrabbed, FreshInv, TypeInv
    <3>5. /\ \A w \in Writer : row'[w] = IF w = t THEN <<>> ELSE row[w]
          /\ \A w \in Writer : w # t => pc'[w] = pc[w]
      BY <2>1, <3>1, ThreadFacts DEF WriterGrabbed, TypeInv
    <3>6. \A r \in added' : Numbered(r)'
      BY <2>1, <3>1, <3>2, <3>3 DEF WriterGrabbed, FreshInv
    <3>7. (\A w \in Writer : row[w] # <<>> =>
             /\ row[w] \in Row /\ row[w] \notin added /\ Numbered(row[w])
             /\ pc[w] \in {"lock", "grab"})'
      <4> SUFFICES ASSUME NEW w \in Writer, row'[w] # <<>>
                   PROVE  (/\ row[w] \in Row /\ row[w] \notin added /\ Numbered(row[w])
                           /\ pc[w] \in {"lock", "grab"})'
        OBVIOUS
      <4>1. w # t /\ row'[w] = row[w] /\ pc'[w] = pc[w]
        BY <3>5
      <4>2. row[w] \in Row /\ row[w] \notin added /\ Numbered(row[w]) /\ pc[w] \in {"lock", "grab"}
        BY <4>1 DEF FreshInv
      <4>3. row[w] # row[t]
        BY <2>1, <4>1 DEF FreshInv
      <4>4. added' = added \cup {row[t]}
        BY <3>1 DEF WriterGrabbed
      <4>5. Numbered(row[w])'
        BY <3>1, <4>1, <4>2 DEF Numbered, WriterGrabbed
      <4> QED BY <4>1, <4>2, <4>3, <4>4, <4>5
    <3>8. \A v, w \in Writer : v # w /\ row'[v] # <<>> => row'[v] # row'[w]
      BY <3>5 DEF FreshInv
    <3> QED BY <3>4, <3>6, <3>7, <3>8 DEF FreshInv
  <2>2. CASE t \notin Writer
    <3>1. t \in Node /\ FlusherGrabbed(t)
      BY <1>7, <2>2, GrabEffect
    <3> QED BY <3>1, ThreadFacts DEF FlusherGrabbed, TypeInv, FreshInv, Numbered
  <2> QED BY <2>1, <2>2
<1>8. ASSUME NEW t \in Thread, SendToHome(t) PROVE FreshInv'
  <2>1. CASE block[t] = {}
    <3>1. Released(t) /\ copies' = copies
      BY <1>8, <2>1, ReleaseEffect DEF SendToHome, Release, stored
    <3> QED BY <2>1, <3>1, ThreadFacts DEF Released, TypeInv, FreshInv, Numbered
  <2>2. CASE block[t] # {}
    BY <1>8, <2>2, ThreadFacts DEF SendToHome, Goto, TypeInv, FreshInv, Numbered
  <2> QED BY <2>1, <2>2
<1>9. ASSUME NEW t \in Thread, Reroute(t) PROVE FreshInv'
  BY <1>9, ThreadFacts DEF Reroute, Goto, TypeInv, FreshInv, Numbered
<1>10. ASSUME NEW t \in Thread, NextNode(t) PROVE FreshInv'
  BY <1>10, NextNodeEffect, ThreadFacts DEF TypeInv, FreshInv, Numbered
<1>11. ASSUME NEW t \in Thread, RequestSucceeds(t) PROVE FreshInv'
  <2>1. Released(t)
    BY <1>11, ReleaseEffect
  <2> QED BY <2>1, ThreadFacts DEF Released, TypeInv, FreshInv, Numbered
<1>12. ASSUME NEW t \in Thread, RequestFails(t) PROVE FreshInv'
  BY <1>12, ThreadFacts DEF RequestFails, Store, Goto, TypeInv, FreshInv, Numbered
<1>13. ASSUME NEW t \in Thread, Retry(t) PROVE FreshInv'
  BY <1>13, ThreadFacts DEF Retry, Goto, TypeInv, FreshInv, Numbered
<1>14. ASSUME NEW t \in Thread, Drop(t) PROVE FreshInv'
  <2>1. Released(t) /\ copies' = copies
    BY <1>14, ReleaseEffect DEF Drop, stored
  <2> QED BY <2>1, ThreadFacts DEF Released, TypeInv, FreshInv, Numbered
<1>15. ASSUME
            \/ (\E n \in Node : EnableNode(n)) \/ StartStop \/ DrainTimeout \/ EndStop
            \/ Stopped
      PROVE UNCHANGED <<added, row, rowsPerStream, pc, pendingData, block>>
  BY <1>15 DEF EnableNode, StartStop, DrainTimeout, EndStop, Stopped, vars
<1> QED
  BY <1>1, <1>2, <1>3, <1>4, <1>5, <1>6, <1>7, <1>8, <1>9, <1>10, <1>11, <1>12, <1>13,
     <1>14, <1>15
  DEF Next, AddStep, Send, Respond, vars

\* A buffer is filled with an empty one or with a new row.
LEMMA DisjointNext ==
  EmptyInv /\ TypeInv /\ PoolInv /\ FreshInv /\ DisjointInv /\ [Next]_vars => DisjointInv'
<1> SUFFICES ASSUME EmptyInv, TypeInv, PoolInv, FreshInv, DisjointInv, [Next]_vars PROVE DisjointInv'
  OBVIOUS
<1> USE DEF stop, buffers, threads, stored
<1>1. CASE UNCHANGED <<added, pendingData, block>>
  BY <1>1 DEF TypeInv, FreshInv, DisjointInv
<1>2. ASSUME NEW w \in Writer, AddToBlock(w) PROVE DisjointInv'
  <2>1. /\ node[w] \in Node /\ row[w] \in Row /\ row[w] # <<>> /\ row[w] \notin added
        /\ added' = added \cup {row[w]} /\ row' = [row EXCEPT ![w] = <<>>]
        /\ pendingData' = [pendingData EXCEPT ![node[w]] = pendingData[node[w]] \cup {row[w]}]
        /\ pc' = [pc EXCEPT ![w] = "idle"]
        /\ UNCHANGED <<block, copies, doubts, rowsPerStream>>
    BY <1>2, ThreadFacts, RowFacts DEF AddToBlock, Write, Goto, TypeInv, PoolInv, FreshInv
  <2> QED BY <2>1, ThreadFacts DEF TypeInv, FreshInv, DisjointInv
<1>3. ASSUME NEW t \in Thread, GrabPendingData(t) PROVE DisjointInv'
  <2>1. CASE t \in Writer
    <3>1. WriterGrabbed(t)
      BY <1>3, <2>1, GrabEffect
    <3>2. row[t] # <<>> /\ row[t] \notin added
      BY <2>1, <3>1, RowFacts DEF WriterGrabbed, FreshInv
    <3>3. /\ \A n \in Node : row[t] \notin pendingData[n]
          /\ \A u \in Thread : row[t] \notin block[u]
      BY <3>2 DEF FreshInv
    <3>4. /\ \A n \in Node : pendingData'[n] = IF n = node[t] THEN {row[t]} ELSE pendingData[n]
          /\ \A u \in Thread : block'[u] = IF u = t THEN pendingData[node[t]] ELSE block[u]
          /\ added' = added \cup {row[t]}
      BY <3>1 DEF WriterGrabbed, TypeInv
    <3> QED BY <3>1, <3>2, <3>3, <3>4 DEF WriterGrabbed, FreshInv, DisjointInv
  <2>2. CASE t \notin Writer
    <3>1. t \in Node /\ FlusherGrabbed(t)
      BY <1>3, <2>2, GrabEffect
    <3> QED BY <3>1, ThreadFacts DEF FlusherGrabbed, TypeInv, FreshInv, DisjointInv
  <2> QED BY <2>1, <2>2
<1>4. ASSUME NEW t \in Thread, SendToHome(t) PROVE DisjointInv'
  <2>1. CASE block[t] = {}
    <3>1. Released(t) /\ copies' = copies
      BY <1>4, <2>1, ReleaseEffect DEF SendToHome, Release, stored
    <3> QED BY <2>1, <3>1, ThreadFacts DEF Released, TypeInv, FreshInv, DisjointInv
  <2>2. CASE block[t] # {}
    BY <1>4, <2>2, ThreadFacts DEF SendToHome, Goto, TypeInv, FreshInv, DisjointInv
  <2> QED BY <2>1, <2>2
<1>5. ASSUME NEW t \in Thread, RequestSucceeds(t) PROVE DisjointInv'
  <2>1. Released(t)
    BY <1>5, ReleaseEffect
  <2> QED BY <2>1, ThreadFacts DEF Released, TypeInv, FreshInv, DisjointInv
<1>6. ASSUME NEW t \in Thread, Drop(t) PROVE DisjointInv'
  <2>1. Released(t) /\ copies' = copies
    BY <1>6, ReleaseEffect DEF Drop, stored
  <2> QED BY <2>1, ThreadFacts DEF Released, TypeInv, FreshInv, DisjointInv
<1>7. ASSUME
            \/ (\E w \in Writer : \E s \in Stream : AddRow(w, s))
            \/ (\E s \in Stream : SkipLongRow(s)) \/ (\E w \in Writer : LockFullBlock(w))
            \/ (\E n \in Node : \E force \in BOOLEAN : LockToFlush(n, force))
            \/ (\E t \in Thread : Reroute(t)) \/ (\E t \in Thread : NextNode(t))
            \/ (\E t \in Thread : RequestFails(t)) \/ (\E n \in Node : EnableNode(n))
            \/ (\E t \in Thread : Retry(t)) \/ StartStop \/ DrainTimeout \/ EndStop
            \/ Stopped
      PROVE UNCHANGED <<added, pendingData, block>>
  BY <1>7 DEF AddRow, NodesFor, Goto, SkipLongRow, LockFullBlock, LockToFlush, Reroute,
      NextNode, RequestFails, Store, EnableNode, Retry, StartStop, DrainTimeout, EndStop,
      Stopped, vars
<1> QED
  BY <1>1, <1>2, <1>3, <1>4, <1>5, <1>6, <1>7
  DEF Next, AddStep, Send, Respond, vars

\* A block is sent again only after a failed request.
LEMMA CopyNext ==
  EmptyInv /\ TypeInv /\ PoolInv /\ FreshInv /\ DisjointInv /\ CopyInv /\ [Next]_vars => CopyInv'
<1> SUFFICES ASSUME EmptyInv, TypeInv, PoolInv, FreshInv, DisjointInv, CopyInv, [Next]_vars PROVE CopyInv'
  OBVIOUS
<1> USE DEF stop, buffers, threads, stored
<1>1. CASE UNCHANGED <<added, copies, doubts, pendingData, block>>
  BY <1>1 DEF TypeInv, FreshInv, DisjointInv, CopyInv, InBuffer
<1>2. ASSUME NEW w \in Writer, AddToBlock(w) PROVE CopyInv'
  <2>1. /\ node[w] \in Node /\ row[w] \in Row /\ row[w] # <<>> /\ row[w] \notin added
        /\ added' = added \cup {row[w]} /\ row' = [row EXCEPT ![w] = <<>>]
        /\ pendingData' = [pendingData EXCEPT ![node[w]] = pendingData[node[w]] \cup {row[w]}]
        /\ pc' = [pc EXCEPT ![w] = "idle"]
        /\ UNCHANGED <<block, copies, doubts, rowsPerStream>>
    BY <1>2, ThreadFacts, RowFacts DEF AddToBlock, Write, Goto, TypeInv, PoolInv, FreshInv
  <2>2. \A r : InBuffer(r)' => InBuffer(r) \/ r = row[w]
    BY <2>1 DEF InBuffer, TypeInv
  <2>3. copies[row[w]] = 0 /\ doubts[row[w]] \in Nat
    BY <2>1 DEF CopyInv, TypeInv
  <2> SUFFICES ASSUME NEW r \in Row
               PROVE  /\ r \notin added' => copies[r] = 0
                      /\ InBuffer(r)' => copies[r] <= doubts[r]
                      /\ copies[r] <= doubts[r] + 1
    BY <2>1 DEF CopyInv
  <2>4. copies[r] \in Nat /\ doubts[r] \in Nat
    BY CopyTypes
  <2> QED BY <2>1, <2>2, <2>3, <2>4 DEF CopyInv
<1>3. ASSUME NEW t \in Thread, GrabPendingData(t) PROVE CopyInv'
  <2>1. CASE t \in Writer
    <3>1. WriterGrabbed(t)
      BY <1>3, <2>1, GrabEffect
    <3>2. row[t] # <<>> /\ row[t] \notin added
      BY <2>1, <3>1, RowFacts DEF WriterGrabbed, FreshInv
    <3>3. \A r : InBuffer(r)' => InBuffer(r) \/ r = row[t]
      BY <3>1 DEF WriterGrabbed, InBuffer, TypeInv
    <3>4. /\ row[t] \in Row /\ copies[row[t]] = 0 /\ doubts[row[t]] \in Nat
          /\ added' = added \cup {row[t]} /\ copies' = copies /\ doubts' = doubts
      BY <3>1, <3>2 DEF WriterGrabbed, CopyInv, TypeInv
    <3> QED BY <3>3, <3>4 DEF CopyInv
  <2>2. CASE t \notin Writer
    <3>1. t \in Node /\ FlusherGrabbed(t)
      BY <1>3, <2>2, GrabEffect
    <3> QED BY <3>1, ThreadFacts DEF FlusherGrabbed, TypeInv, FreshInv, DisjointInv, CopyInv, InBuffer
  <2> QED BY <2>1, <2>2
<1>4. ASSUME NEW t \in Thread, SendToHome(t) PROVE CopyInv'
  <2>1. CASE block[t] = {}
    <3>1. Released(t) /\ copies' = copies
      BY <1>4, <2>1, ReleaseEffect DEF SendToHome, Release, stored
    <3> QED BY <2>1, <3>1, ThreadFacts DEF Released, TypeInv, FreshInv, DisjointInv, CopyInv, InBuffer
  <2>2. CASE block[t] # {}
    BY <1>4, <2>2, ThreadFacts DEF SendToHome, Goto, TypeInv, FreshInv, DisjointInv, CopyInv, InBuffer
  <2> QED BY <2>1, <2>2
<1>5. ASSUME NEW t \in Thread, RequestSucceeds(t) PROVE CopyInv'
  <2>1. /\ copies' \in [Row -> Nat]
        /\ \A r \in Row : copies'[r] = IF r \in block[t] THEN copies[r] + 1 ELSE copies[r]
    BY <1>5, SuccessStores
  <2>2. Released(t)
    BY <1>5, ReleaseEffect
  <2>3. ASSUME NEW r, InBuffer(r)' PROVE InBuffer(r) /\ r \notin block[t]
    BY <2>2, <2>3 DEF InBuffer, Released, TypeInv, FreshInv, DisjointInv
  <2>4. \A r \in block[t] : r \in added /\ copies[r] <= doubts[r]
    BY DEF InBuffer, CopyInv, FreshInv, TypeInv
  <2>5. UNCHANGED <<added, doubts>>
    BY <2>2 DEF Released
  <2> SUFFICES ASSUME NEW r \in Row
               PROVE  /\ r \notin added => copies'[r] = 0
                      /\ InBuffer(r)' => copies'[r] <= doubts[r]
                      /\ copies'[r] <= doubts[r] + 1
    BY <2>5 DEF CopyInv
  <2>6. copies[r] \in Nat /\ doubts[r] \in Nat
    BY CopyTypes
  <2> QED BY <2>1, <2>3, <2>4, <2>6 DEF CopyInv
<1>6. ASSUME NEW t \in Thread, RequestFails(t) PROVE CopyInv'
  <2>1. /\ copies' \in [Row -> Nat] /\ doubts' \in [Row -> Nat]
        /\ \A r \in Row : \/ copies'[r] = copies[r] /\ doubts'[r] = doubts[r]
                          \/ copies'[r] = copies[r] + 1 /\ doubts'[r] = doubts[r] + 1
    BY <1>6, FailureStores
  <2>2. UNCHANGED <<added, pendingData, block>>
    BY <1>6 DEF RequestFails
  <2>3. \A r : InBuffer(r)' <=> InBuffer(r)
    BY <2>2 DEF InBuffer
  <2>4. \A r \in block[t] : r \in added
    BY DEF FreshInv
  <2>5. \A r \in Row : r \notin block[t] => copies'[r] = copies[r]
    BY <1>6, FailureStores
  <2> SUFFICES ASSUME NEW r \in Row
               PROVE  /\ r \notin added => copies'[r] = 0
                      /\ InBuffer(r) => copies'[r] <= doubts'[r]
                      /\ copies'[r] <= doubts'[r] + 1
    BY <2>2, <2>3 DEF CopyInv
  <2>6. copies[r] \in Nat /\ doubts[r] \in Nat
    BY CopyTypes
  <2> QED BY <2>1, <2>4, <2>5, <2>6 DEF CopyInv
<1>7. ASSUME NEW t \in Thread, Drop(t) PROVE CopyInv'
  <2>1. Released(t) /\ copies' = copies
    BY <1>7, ReleaseEffect DEF Drop, stored
  <2> QED BY <2>1, ThreadFacts DEF Released, TypeInv, FreshInv, DisjointInv, CopyInv, InBuffer
<1>8. ASSUME
            \/ (\E w \in Writer : \E s \in Stream : AddRow(w, s))
            \/ (\E s \in Stream : SkipLongRow(s)) \/ (\E w \in Writer : LockFullBlock(w))
            \/ (\E n \in Node : \E force \in BOOLEAN : LockToFlush(n, force))
            \/ (\E t \in Thread : Reroute(t)) \/ (\E t \in Thread : NextNode(t))
            \/ (\E n \in Node : EnableNode(n)) \/ (\E t \in Thread : Retry(t))
            \/ StartStop \/ DrainTimeout \/ EndStop \/ Stopped
      PROVE UNCHANGED <<added, copies, doubts, pendingData, block>>
  BY <1>8 DEF AddRow, NodesFor, Goto, SkipLongRow, LockFullBlock, LockToFlush, Reroute,
      NextNode, EnableNode, Retry, StartStop, DrainTimeout, EndStop, Stopped, vars
<1> QED
  BY <1>1, <1>2, <1>3, <1>4, <1>5, <1>6, <1>7, <1>8
  DEF Next, AddStep, Send, Respond, vars
-----------------------------------------------------------------------------

\* What the theorems need, as one inductive invariant.
IInv == /\ EmptyInv /\ TypeInv /\ PoolInv /\ StopInv
        /\ KeepInv /\ FreshInv /\ DisjointInv /\ CopyInv

\* It holds before the first row.
LEMMA InitIInv == Init => IInv
<1> SUFFICES ASSUME Init PROVE IInv
  OBVIOUS
<1>1. TypeInv
  BY OwnNodeFacts, ThreadFacts DEF Init, TypeInv
<1>2. EmptyInv
  <2>1. PoolSize \in Nat
    BY SizeAssumption DEF PoolSize
  <2> QED BY <2>1 DEF Init, EmptyInv
<1>3. PoolInv /\ StopInv
  BY ThreadFacts, OwnNodeFacts DEF Init, PoolInv, StopInv
<1>4. KeepInv /\ FreshInv /\ DisjointInv
  BY ThreadFacts DEF Init, KeepInv, FreshInv, DisjointInv
<1>5. CopyInv
  BY DEF Init, CopyInv
<1> QED BY <1>1, <1>2, <1>3, <1>4, <1>5 DEF IInv

\* No step breaks it.
LEMMA NextIInv == IInv /\ [Next]_vars => IInv'
BY EmptyNext, TypeNext, PoolNext, StopNext, KeepNext, FreshNext, DisjointNext, CopyNext DEF IInv

\* NetInsert always satisfies the inductive invariant.
THEOREM SpecIInv == Spec => []IInv
BY InitIInv, NextIInv, PTL DEF Spec

\* A row in a buffer of a thread is with a sender.
LEMMA BufferedRows ==
  ASSUME TypeInv, PoolInv, NEW r, InBuffer(r) PROVE r \in Buffered
<1>1. \A t \in Thread : t \in Sending \/ block[t] = {}
  BY DEF TypeInv, PoolInv, Sending
<1> QED BY <1>1 DEF InBuffer, Buffered

\* After MustStop() has returned nothing is buffered any more.
LEMMA StoppedIsDrained ==
  ASSUME TypeInv, PoolInv, StopInv, state = "stopped", NEW r PROVE ~InBuffer(r)
<1>1. \A w \in Writer : block[w] = {}
  BY ThreadFacts DEF StopInv, PoolInv
<1>2. \A n \in Node : block[n] = {} /\ pendingData[n] = {}
  BY ThreadFacts DEF StopInv, PoolInv
<1> QED BY <1>1, <1>2 DEF InBuffer, Thread

\* NoRowIsLost, for every number of nodes, writers, rows and failed requests: an
\* accepted row is buffered or stored as long as the drain timeout hasn't passed, and
\* stored when MustStop() returns.
THEOREM NothingIsLost == Spec => []NoRowIsLost
<1>1. IInv => NoRowIsLost
  <2> SUFFICES ASSUME IInv PROVE NoRowIsLost
    OBVIOUS
  <2>1. RowsAreKept
    BY BufferedRows DEF IInv, KeepInv, RowsAreKept
  <2>2. StopDrains
    BY StoppedIsDrained DEF IInv, KeepInv, StopDrains
  <2> QED BY <2>1, <2>2 DEF NoRowIsLost
<1> QED BY <1>1, SpecIInv, PTL

\* DuplicatesComeFromFailures, for every number of nodes, writers, rows and failed
\* requests: a row is stored once, and once more per request which has failed after the
\* node had stored it.
THEOREM DuplicatesAreDoubts == Spec => []DuplicatesComeFromFailures
<1>1. IInv => DuplicatesComeFromFailures
  BY DEF IInv, CopyInv, DuplicatesComeFromFailures
<1> QED BY <1>1, SpecIInv, PTL
-----------------------------------------------------------------------------
(* Buffers *)

\* The types of what the invariants above aren't about.
RestTypeInv ==
  /\ state \in {"running", "stopping", "stopped"}
  /\ timedOut \in BOOLEAN /\ sendCtxDone \in BOOLEAN
  /\ mu \in [Node -> Thread \cup {NoThread}] /\ disabled \subseteq Node
  /\ target \in [Thread -> Node] /\ todo \in [Thread -> SUBSET Node]
  /\ faults \in Nat

\* No step breaks the types of the rest.
LEMMA RestTypeNext == TypeInv /\ PoolInv /\ RestTypeInv /\ [Next]_vars => RestTypeInv'
<1> SUFFICES ASSUME TypeInv, PoolInv, RestTypeInv, [Next]_vars PROVE RestTypeInv'
  OBVIOUS
<1> USE DEF stop, buffers, threads, stored
<1> 0 \in Node
  BY SizeAssumption DEF Node
<1>1. ASSUME UNCHANGED <<stop, mu, disabled, target, todo, faults>> PROVE RestTypeInv'
  BY <1>1 DEF RestTypeInv
<1>2. ASSUME NEW w \in Writer, AddStep(w) \/ \E s \in Stream : AddRow(w, s) PROVE RestTypeInv'
  BY <1>1, <1>2, ThreadFacts DEF AddStep, AddToBlock, LockFullBlock, AddRow, RestTypeInv, TypeInv
<1>3. ASSUME NEW s \in Stream, SkipLongRow(s) PROVE RestTypeInv'
  BY <1>1, <1>3 DEF SkipLongRow
<1>4. ASSUME NEW n \in Node, EnableNode(n) \/ \E force \in BOOLEAN : LockToFlush(n, force)
      PROVE  RestTypeInv'
  BY <1>4, ThreadFacts DEF EnableNode, LockToFlush, RestTypeInv
<1>5. ASSUME NEW t \in Thread, GrabPendingData(t) PROVE RestTypeInv'
  BY <1>5 DEF GrabPendingData, RestTypeInv
<1>6. ASSUME NEW t \in Thread, Release(t), UNCHANGED <<stop, mu, disabled, faults>> PROVE RestTypeInv'
  BY <1>6 DEF Release, RestTypeInv
<1>7. ASSUME NEW t \in Thread, SendToHome(t) PROVE RestTypeInv'
  <2>1. CASE block[t] = {}
    BY <1>6, <1>7, <2>1 DEF SendToHome
  <2>2. CASE block[t] # {}
    BY <1>7, <2>2 DEF SendToHome, RestTypeInv, TypeInv
  <2> QED BY <2>1, <2>2
<1>8. ASSUME NEW t \in Thread, Reroute(t) PROVE RestTypeInv'
  BY <1>8 DEF Reroute, RestTypeInv
<1>9. ASSUME NEW t \in Thread, NextNode(t) PROVE RestTypeInv'
  BY <1>9 DEF NextNode, RestTypeInv
<1>10. ASSUME NEW t \in Thread, RequestSucceeds(t) \/ Drop(t) PROVE RestTypeInv'
  BY <1>6, <1>10 DEF RequestSucceeds, Drop
<1>11. ASSUME NEW t \in Thread, RequestFails(t) PROVE RestTypeInv'
  <2>1. faults' \in Nat
    <3>1. faults' = faults \/ faults' = faults + 1
      BY <1>11 DEF RequestFails
    <3> QED BY <3>1 DEF RestTypeInv
  <2>2. UNCHANGED <<state, timedOut, sendCtxDone, mu, todo>>
        /\ disabled' = disabled \cup {target[t]} /\ target' = [target EXCEPT ![t] = 0]
    BY <1>11 DEF RequestFails
  <2> QED BY <2>1, <2>2 DEF RestTypeInv
<1>12. ASSUME NEW t \in Thread, Retry(t) PROVE RestTypeInv'
  BY <1>1, <1>12 DEF Retry
<1>13. ASSUME StartStop \/ DrainTimeout \/ EndStop PROVE RestTypeInv'
  BY <1>13 DEF StartStop, DrainTimeout, EndStop, RestTypeInv
<1>14. ASSUME UNCHANGED vars PROVE RestTypeInv'
  BY <1>1, <1>14 DEF vars
<1> QED
  BY <1>2, <1>3, <1>4, <1>5, <1>7, <1>8, <1>9, <1>10, <1>11, <1>12, <1>13, <1>14
  DEF Next, Send, Respond, Stopped

\* A block has room for another row when addRow() adds it.
FillInv ==
  \A n \in Node : IsFiniteSet(pendingData[n]) /\ Cardinality(pendingData[n]) <= BlockSize

\* Rows are added below the limit, and a swapped buffer has one row at most.
LEMMA FillNext == EmptyInv /\ TypeInv /\ PoolInv /\ FillInv /\ [Next]_vars => FillInv'
<1> SUFFICES ASSUME EmptyInv, TypeInv, PoolInv, FillInv, [Next]_vars PROVE FillInv'
  OBVIOUS
<1> USE DEF stop, buffers, threads, stored
<1>1. ASSUME UNCHANGED pendingData PROVE FillInv'
  BY <1>1 DEF FillInv
<1>2. ASSUME NEW n \in Node, NEW B, pendingData' = [pendingData EXCEPT ![n] = B],
             IsFiniteSet(B), Cardinality(B) <= BlockSize
      PROVE  FillInv'
  BY <1>2 DEF FillInv, TypeInv
<1>3. ASSUME NEW w \in Writer, AddToBlock(w) PROVE FillInv'
  <2> DEFINE n == node[w]
  <2>1. n \in Node /\ ~(Cardinality(pendingData[n]) + 1 > BlockSize)
        /\ pendingData' = [pendingData EXCEPT ![n] = pendingData[n] \cup {row[w]}]
    BY <1>3, ThreadFacts DEF AddToBlock, IsFull, Write, TypeInv
  <2>2. IsFiniteSet(pendingData[n]) /\ Cardinality(pendingData[n]) \in Nat
    BY <2>1, FS_CardinalityType DEF FillInv
  <2>3. /\ IsFiniteSet(pendingData[n] \cup {row[w]})
        /\ Cardinality(pendingData[n] \cup {row[w]}) <= Cardinality(pendingData[n]) + 1
    BY <2>2, FS_AddElement
  <2>4. IsFiniteSet(pendingData[n] \cup {row[w]})
        /\ Cardinality(pendingData[n] \cup {row[w]}) \in Nat
    BY <2>3, FS_CardinalityType
  <2>5. Cardinality(pendingData[n] \cup {row[w]}) <= BlockSize
    BY <2>1, <2>2, <2>3, <2>4, SizeAssumption
  <2> QED BY <1>2, <2>1, <2>3, <2>5
<1>4. ASSUME NEW t \in Thread, GrabPendingData(t) PROVE FillInv'
  <2>1. CASE t \in Writer
    <3>1. node[t] \in Node /\ pendingData' = [pendingData EXCEPT ![node[t]] = {row[t]}]
      BY <1>4, <2>1, GrabEffect DEF WriterGrabbed
    <3>2. IsFiniteSet({row[t]}) /\ Cardinality({row[t]}) <= BlockSize
      <4>1. 1 <= BlockSize
        BY SizeAssumption
      <4> QED BY <4>1, FS_Singleton
    <3> QED BY <1>2, <3>1, <3>2
  <2>2. CASE t \notin Writer
    <3>1. t \in Node /\ pendingData' = [pendingData EXCEPT ![t] = {}]
      BY <1>4, <2>2, GrabEffect DEF FlusherGrabbed
    <3>2. IsFiniteSet({}) /\ Cardinality({}) <= BlockSize
      BY FS_EmptySet, SizeAssumption
    <3> QED BY <1>2, <3>1, <3>2
  <2> QED BY <2>1, <2>2
<1>5. ASSUME NEW t \in Thread, SendToHome(t) \/ Reroute(t) \/ NextNode(t) \/ Retry(t) \/ Drop(t) \/ Respond(t)
      PROVE  FillInv'
  BY <1>1, <1>5 DEF SendToHome, Reroute, NextNode, Retry, Drop, Respond, RequestSucceeds,
                    RequestFails, Release
<1>6. ASSUME NEW w \in Writer, LockFullBlock(w) \/ \E s \in Stream : AddRow(w, s) PROVE FillInv'
  BY <1>1, <1>6 DEF LockFullBlock, AddRow
<1>7. ASSUME NEW n \in Node, EnableNode(n) \/ \E force \in BOOLEAN : LockToFlush(n, force)
      PROVE  FillInv'
  BY <1>1, <1>7 DEF EnableNode, LockToFlush
<1>8. ASSUME StartStop \/ DrainTimeout \/ EndStop \/ UNCHANGED vars PROVE FillInv'
  BY <1>1, <1>8 DEF StartStop, DrainTimeout, EndStop, vars
<1>9. ASSUME NEW s \in Stream, SkipLongRow(s) PROVE FillInv'
  BY <1>1, <1>9 DEF SkipLongRow
<1> QED BY <1>3, <1>4, <1>5, <1>6, <1>7, <1>8, <1>9 DEF Next, Send, AddStep, Stopped

\* Whoever takes a buffer from the pool becomes a sender, and ceases to be one when it
\* gives the buffer back.
CountInv == Len(pool) + Cardinality(Sending) = PoolSize

\* There are finitely many senders.
LEMMA SendingCount ==
  /\ IsFiniteSet(Sending) /\ Cardinality(Sending) \in Nat
  /\ \A t \in Sending : Cardinality(Sending \ {t}) = Cardinality(Sending) - 1
<1>1. IsFiniteSet(Node)
  BY SizeAssumption, FS_Interval DEF Node
<1>2. IsFiniteSet(Thread)
  BY <1>1, WriterAssumption, FS_Union DEF Thread
<1>3. IsFiniteSet(Sending)
  BY <1>2, FS_Subset DEF Sending
<1> QED BY <1>3, FS_CardinalityType, FS_RemoveElement

\* No step changes the number of buffers.
LEMMA CountNext == EmptyInv /\ TypeInv /\ CountInv /\ [Next]_vars => CountInv'
<1> SUFFICES ASSUME EmptyInv, TypeInv, CountInv, [Next]_vars PROVE CountInv'
  OBVIOUS
<1> USE DEF stop, buffers, threads, stored
<1> Len(pool) \in Nat /\ pool \in Seq({{}})
  BY DEF EmptyInv
<1>1. ASSUME UNCHANGED pool, Sending' = Sending PROVE CountInv'
  BY <1>1 DEF CountInv
<1>2. ASSUME NEW t \in Thread, NEW place, pc' = [pc EXCEPT ![t] = place], UNCHANGED pool,
             t \in Sending <=> place \in {"send", "home request", "request", "reroute", "next", "wait"}
      PROVE  CountInv'
  <2>1. Sending' = Sending
    BY <1>2 DEF Sending, TypeInv
  <2> QED BY <1>1, <1>2, <2>1
<1>3. ASSUME NEW t \in Thread, Released(t) PROVE CountInv'
  <2>1. t \in Sending /\ Sending' = Sending \ {t}
    BY <1>3 DEF Released, Sending, TypeInv
  <2>2. Len(pool') = Len(pool) + 1
    BY <1>3, AppendProperties, {} \in {{}} DEF Released
  <2>3. Cardinality(Sending') = Cardinality(Sending) - 1 /\ Cardinality(Sending) \in Nat
    BY <2>1, SendingCount
  <2> QED BY <2>2, <2>3 DEF CountInv
<1>4. ASSUME NEW t \in Thread, GrabPendingData(t) PROVE CountInv'
  <2>1. /\ pc[t] = "grab" /\ pc' = [pc EXCEPT ![t] = "send"]
        /\ pool # <<>> /\ pool' = Tail(pool)
    BY <1>4 DEF GrabPendingData, Goto
  <2>2. t \notin Sending /\ Sending' = Sending \cup {t}
    BY <2>1 DEF Sending, TypeInv
  <2>3. Len(pool') = Len(pool) - 1
    BY <2>1, HeadTailProperties
  <2>4. Cardinality(Sending \cup {t}) = Cardinality(Sending) + 1 /\ Cardinality(Sending) \in Nat
    <3>1. IsFiniteSet(Sending) /\ Cardinality(Sending) \in Nat
      BY SendingCount
    <3>2. Cardinality(Sending \cup {t}) = Cardinality(Sending) + 1
      BY <2>2, <3>1, FS_AddElement
    <3> QED BY <3>1, <3>2
  <2> QED BY <2>2, <2>3, <2>4 DEF CountInv
<1>5. ASSUME NEW t \in Thread, SendToHome(t) PROVE CountInv'
  <2>1. CASE block[t] = {}
    BY <1>3, <1>5, <2>1, ReleaseEffect
  <2>2. CASE block[t] # {}
    BY <1>2, <1>5, <2>2 DEF SendToHome, Goto, Sending
  <2> QED BY <2>1, <2>2
<1>6. ASSUME NEW t \in Thread, Reroute(t) \/ Retry(t) PROVE CountInv'
  BY <1>2, <1>6 DEF Reroute, Retry, Goto, Sending
<1>7. ASSUME NEW t \in Thread, NextNode(t) PROVE CountInv'
  BY <1>2, <1>7, NextNodeEffect DEF Sending
<1>8. ASSUME NEW t \in Thread, RequestSucceeds(t) \/ Drop(t) PROVE CountInv'
  BY <1>3, <1>8, ReleaseEffect
<1>9. ASSUME NEW t \in Thread, RequestFails(t) PROVE CountInv'
  BY <1>2, <1>9 DEF RequestFails, Goto, Sending
<1>10. ASSUME NEW w \in Writer, AddStep(w) \/ \E s \in Stream : AddRow(w, s) PROVE CountInv'
  BY <1>2, <1>10, ThreadFacts DEF AddStep, AddToBlock, LockFullBlock, AddRow, Goto, Sending
<1>11. ASSUME NEW n \in Node, NEW force \in BOOLEAN, LockToFlush(n, force) PROVE CountInv'
  BY <1>2, <1>11, ThreadFacts DEF LockToFlush, Goto, Sending
<1>12. ASSUME UNCHANGED <<pool, pc>> PROVE CountInv'
  BY <1>1, <1>12 DEF Sending
<1>13. ASSUME \/ (\E s \in Stream : SkipLongRow(s)) \/ (\E n \in Node : EnableNode(n))
              \/ StartStop \/ DrainTimeout \/ EndStop \/ UNCHANGED vars
       PROVE  CountInv'
  BY <1>12, <1>13 DEF SkipLongRow, EnableNode, StartStop, DrainTimeout, EndStop, vars
<1> QED
  BY <1>4, <1>5, <1>6, <1>7, <1>8, <1>9, <1>10, <1>11, <1>13 DEF Next, Send, Respond, Stopped

\* NetInv, for every number of nodes, writers, rows and buffers: no buffer gets lost or is
\* used twice, those in the pool are empty, a row is in one of them at most, and a block
\* doesn't outgrow maxInsertBlockSize.
THEOREM BuffersAreKept == Spec => []NetInv
<1> DEFINE Inv == IInv /\ RestTypeInv /\ FillInv /\ CountInv
<1>1. Init => RestTypeInv /\ FillInv /\ CountInv
  <2> SUFFICES ASSUME Init PROVE RestTypeInv /\ FillInv /\ CountInv
    OBVIOUS
  <2>1. RestTypeInv
    <3>1. 0 \in Node
      BY SizeAssumption DEF Node
    <3> QED BY <3>1 DEF Init, RestTypeInv
  <2>2. FillInv
    BY FS_EmptySet, SizeAssumption DEF Init, FillInv
  <2>3. Sending = {}
    BY DEF Init, Sending
  <2>4. PoolSize \in Nat
    BY SizeAssumption DEF PoolSize
  <2>5. Len(pool) = PoolSize
    BY <2>4 DEF Init
  <2> QED BY <2>1, <2>2, <2>3, <2>4, <2>5, FS_EmptySet DEF CountInv
<1>2. Inv /\ [Next]_vars => Inv'
  BY NextIInv, RestTypeNext, FillNext, CountNext DEF IInv
<1>3. Inv => NetInv
  <2> SUFFICES ASSUME Inv PROVE NetInv
    OBVIOUS
  <2>1. pool \in Seq(SUBSET Row) /\ \A i \in DOMAIN pool : pool[i] = {}
    BY DEF IInv, EmptyInv
  <2>2. NetTypeOK
    BY <2>1 DEF NetTypeOK, IInv, TypeInv, StopInv, RestTypeInv
  <2>3. /\ \A n \in Node : \A r \in pendingData[n] : r \in added
        /\ \A t \in Sending : t \in Thread /\ \A r \in block[t] : r \in added
    BY DEF IInv, FreshInv, Sending
  <2>4. /\ \A m, n \in Node : m # n => pendingData[m] \cap pendingData[n] = {}
        /\ \A t \in Sending : \A n \in Node : block[t] \cap pendingData[n] = {}
        /\ \A t, u \in Sending : t # u => block[t] \cap block[u] = {}
    BY <2>3 DEF IInv, DisjointInv
  <2> QED BY <2>1, <2>2, <2>4 DEF NetInv, BuffersAreExact, CountInv, FillInv
<1> QED BY <1>1, <1>2, <1>3, InitIInv, PTL DEF Spec
=============================================================================
