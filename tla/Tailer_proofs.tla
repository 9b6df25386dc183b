--------------------------- MODULE Tailer_proofs ---------------------------
(***************************************************************************)
(* The tailer of a log loses no line, tears no entry and sends nothing     *)
(* twice, for any number of files, lines, rotations, stops and crashes.    *)
(***************************************************************************)
EXTENDS Tailer, FiniteSetTheorems, WellFoundedInduction, TLAPS

-----------------------------------------------------------------------------
(* Lines and checkpoints *)

LEMMA LineFacts ==
  /\ \A l \in Line : l[1] \in File /\ l[2] \in 1..LinesCount /\ StreamOf[l] \in Stream
  /\ \A l \in Line : l[1] \in Nat /\ l[1] # 0 /\ l[2] \in Nat /\ l[2] # 0
  /\ \A f \in File, k \in 1..LinesCount : <<f, k>> \in Line
  /\ \A f \in File : f \in Nat /\ f # 0
  /\ File \subseteq Nat /\ 0 \notin File
BY FileAssumption DEF Line, File, Stream

LEMMA InodeFacts == \A i \in Inode : i # 0
BY FileAssumption

\* Numbers are what they seem.
LEMMA TypeFacts ==
  ASSUME TailTypeOK
  PROVE  /\ created \in Nat /\ created <= FilesCount /\ offset \in Nat /\ fd \in Nat
         /\ \A f \in File : lines[f] \in Nat /\ lines[f] <= LinesCount
<1>1. created \in 0..FilesCount /\ offset \in 0..LinesCount /\ fd \in File \cup {0}
  BY DEF TailTypeOK
<1>2. created \in Nat /\ created <= FilesCount /\ offset \in Nat
  BY <1>1, FileAssumption
<1>3. fd \in Nat
  BY <1>1, LineFacts
<1>4. ASSUME NEW f \in File
      PROVE  lines[f] \in Nat /\ lines[f] <= LinesCount
  <2>1. lines[f] \in 0..LinesCount
    BY DEF TailTypeOK
  <2> QED BY <2>1, FileAssumption
<1> QED BY <1>2, <1>3, <1>4

\* The files created so far.
LEMMA CreatedFacts ==
  ASSUME TailTypeOK, FilesInv, NEW f \in File
  PROVE  /\ f <= created => place[f] \in {"log", "old", "gone"} /\ inode[f] \in Inode /\ inode[f] # 0
         /\ ~(f <= created) => place[f] = "none" /\ Empty(f)
         /\ place[f] = "log" => f = created
         /\ f \in Nat /\ f # 0
<1>1. f \in Nat /\ f # 0 /\ created \in Nat
  BY LineFacts, TypeFacts
<1>2. f <= created <=> ~(f > created)
  BY <1>1
<1>3. place[f] \in {"none", "log", "old", "gone"}
  BY DEF TailTypeOK
<1>4. /\ place[f] = "none" <=> f > created
      /\ place[f] = "log" => f = created
      /\ IF f > created THEN Empty(f) ELSE inode[f] \in Inode
  BY DEF FilesInv
<1> QED BY <1>1, <1>2, <1>3, <1>4, InodeFacts

\* The log is the newest file.
LEMMA LogFacts ==
  ASSUME TailTypeOK, FilesInv
  PROVE  /\ Log \in File \cup {0}
         /\ Log # 0 => Log = created /\ place[Log] = "log"
         /\ Log = 0 => \A f \in File : place[f] # "log"
<1>1. CASE "log" \in {place[f] : f \in File}
  <2>1. PICK f \in File : place[f] = "log"
    BY <1>1
  <2>2. Log \in File /\ place[Log] = "log"
    BY <1>1, <2>1 DEF Log
  <2> QED BY <2>2, LineFacts DEF FilesInv
<1>2. CASE "log" \notin {place[f] : f \in File}
  BY <1>2 DEF Log
<1> QED BY <1>1, <1>2

\* Induction over the numbers up to n.
LEMMA UpTo ==
  ASSUME NEW n \in Nat, NEW S, 0 \in S, \A i \in 0..n : i < n /\ i \in S => i + 1 \in S
  PROVE  \A i \in 0..n : i \in S
<1> SUFFICES ASSUME (0..n) \ S # {} PROVE FALSE
  OBVIOUS
<1>1. IsWellFoundedOn(OpToRel(<, Nat), Nat)
  BY NatLessThanWellFounded
<1>2. PICK x \in (0..n) \ S : \A y \in (0..n) \ S : ~(<<y, x>> \in OpToRel(<, Nat))
  <2>1. (0..n) \ S \subseteq Nat
    OBVIOUS
  <2> QED BY <1>1, <2>1, WFMin
<1>3. x # 0 /\ x - 1 \in 0..n /\ x - 1 < n /\ x - 1 < x
  OBVIOUS
<1>4. x - 1 \notin S
  BY <1>3
<1>5. <<x - 1, x>> \in OpToRel(<, Nat)
  BY <1>3 DEF OpToRel
<1> QED BY <1>2, <1>3, <1>4, <1>5

-----------------------------------------------------------------------------
(* The processor *)

ProcessedSet ==
  [pending : [Stream -> SUBSET Line], commit : CheckpointSet, sent : [Line -> Nat],
   dropped : SUBSET Line, torn : SUBSET Line]

LEMMA KindCases ==
  ASSUME NEW l \in Line
  PROVE  KindOf[l] \in {"part", "full", "json", "void", "invalid", "long"}
BY LineAssumption DEF Kind

\* Which lines leave the processor with a line.
LEMMA WithFacts ==
  ASSUME NEW s, NEW l \in Line
  PROVE  /\ KindOf[l] \in {"part", "void", "long"} => SentWith(s, l) = {} /\ DroppedWith(s, l) = {}
         /\ KindOf[l] = "json" => SentWith(s, l) = {l} /\ DroppedWith(s, l) = {}
         /\ KindOf[l] = "invalid" =>
              SentWith(s, l) = {} /\ DroppedWith(s, l) = UNION {s.pending[t] : t \in Stream}
         /\ KindOf[l] = "full" /\ TooLarge(Entry(s, l)) =>
              SentWith(s, l) = {} /\ DroppedWith(s, l) = Entry(s, l)
         /\ KindOf[l] = "full" /\ ~TooLarge(Entry(s, l)) =>
              SentWith(s, l) = Entry(s, l) /\ DroppedWith(s, l) = {}
<1> DEFINE big == TooLarge(Entry(s, l))
           all == UNION {s.pending[t] : t \in Stream}
           e == Entry(s, l)
<1>1. SentWith(s, l) = CASE KindOf[l] = "json" -> {l} [] KindOf[l] = "full" /\ ~big -> e [] OTHER -> {}
  BY DEF SentWith
<1>2. DroppedWith(s, l) = CASE KindOf[l] = "invalid" -> all [] KindOf[l] = "full" /\ big -> e [] OTHER -> {}
  BY DEF DroppedWith
<1> HIDE DEF big, all, e
<1>3. /\ KindOf[l] \in {"part", "void", "long"} => SentWith(s, l) = {} /\ DroppedWith(s, l) = {}
      /\ KindOf[l] = "json" => SentWith(s, l) = {l} /\ DroppedWith(s, l) = {}
      /\ KindOf[l] = "invalid" => SentWith(s, l) = {} /\ DroppedWith(s, l) = all
      /\ KindOf[l] = "full" /\ big => SentWith(s, l) = {} /\ DroppedWith(s, l) = e
      /\ KindOf[l] = "full" /\ ~big => SentWith(s, l) = e /\ DroppedWith(s, l) = {}
  BY <1>1, <1>2
<1> QED BY <1>3 DEF big, all, e

\* What is kept after a line of each kind.
LEMMA PendingFacts ==
  ASSUME NEW s \in ProcessedSet, NEW l \in Line
  PROVE  /\ PendingAfter(s, l) \in [Stream -> SUBSET Line]
         /\ \A t \in Stream :
              PendingAfter(s, l)[t] =
                IF KindOf[l] = "invalid" \/ (KindOf[l] = "full" /\ t = StreamOf[l]) THEN {}
                ELSE IF KindOf[l] = "part" /\ t = StreamOf[l] THEN Entry(s, l) ELSE s.pending[t]
<1>1. s.pending \in [Stream -> SUBSET Line] /\ StreamOf[l] \in Stream
  BY LineFacts DEF ProcessedSet
<1>2. Entry(s, l) \in SUBSET Line
  BY <1>1 DEF Entry
<1>3. CASE KindOf[l] = "invalid"
  <2>1. PendingAfter(s, l) = [t \in Stream |-> {}]
    BY <1>3 DEF PendingAfter, NothingPending
  <2> QED BY <1>3, <2>1
<1>4. CASE KindOf[l] = "part"
  <2>1. PendingAfter(s, l) = [s.pending EXCEPT ![StreamOf[l]] = Entry(s, l)]
    BY <1>4 DEF PendingAfter
  <2> QED BY <1>1, <1>2, <1>4, <2>1
<1>5. CASE KindOf[l] = "full"
  <2>1. PendingAfter(s, l) = [s.pending EXCEPT ![StreamOf[l]] = {}]
    BY <1>5 DEF PendingAfter
  <2> QED BY <1>1, <1>5, <2>1
<1>6. CASE KindOf[l] \notin {"invalid", "part", "full"}
  <2>1. PendingAfter(s, l) = s.pending
    BY <1>6 DEF PendingAfter
  <2> QED BY <1>1, <1>6, <2>1
<1> QED BY <1>3, <1>4, <1>5, <1>6

\* What becomes of a line.
LEMMA AddFacts ==
  ASSUME NEW s, NEW l
  PROVE  /\ AddLine(s, l).pending = PendingAfter(s, l)
         /\ AddLine(s, l).commit = IF KindOf[l] \in {"long", "part"} THEN s.commit ELSE CheckpointAt(l)
         /\ AddLine(s, l).sent = [m \in Line |-> IF m \in SentWith(s, l) THEN s.sent[m] + 1 ELSE s.sent[m]]
         /\ AddLine(s, l).dropped = s.dropped \cup DroppedWith(s, l)
         /\ AddLine(s, l).torn =
              s.torn \cup {m \in SentWith(s, l) : m = l /\ KindOf[l] = "full" /\ ~Whole(s, l)}
         /\ AddLine(s, l) = [pending |-> AddLine(s, l).pending, commit |-> AddLine(s, l).commit,
                             sent |-> AddLine(s, l).sent, dropped |-> AddLine(s, l).dropped,
                             torn |-> AddLine(s, l).torn]
<1> DEFINE p == PendingAfter(s, l)
           c == IF KindOf[l] \in {"long", "part"} THEN s.commit ELSE CheckpointAt(l)
           a == [m \in Line |-> IF m \in SentWith(s, l) THEN s.sent[m] + 1 ELSE s.sent[m]]
           d == s.dropped \cup DroppedWith(s, l)
           b == s.torn \cup {m \in SentWith(s, l) : m = l /\ KindOf[l] = "full" /\ ~Whole(s, l)}
<1>1. AddLine(s, l) = [pending |-> p, commit |-> c, sent |-> a, dropped |-> d, torn |-> b]
  BY DEF AddLine, Added
<1> HIDE DEF p, c, a, d, b
<1>2. /\ AddLine(s, l).pending = p /\ AddLine(s, l).commit = c /\ AddLine(s, l).sent = a
      /\ AddLine(s, l).dropped = d /\ AddLine(s, l).torn = b
  BY <1>1
<1> QED BY <1>1, <1>2 DEF p, c, a, d, b

\* A line which is in its file.
LEMMA CheckpointAtType ==
  ASSUME TailTypeOK, FilesInv, NEW l \in Line, l[1] <= created, l[2] <= lines[l[1]]
  PROVE  /\ CheckpointAt(l) \in CheckpointSet
         /\ KindOf[l] \notin {"part", "long"} => IsCheckpoint(CheckpointAt(l))
<1>1. l[1] \in File /\ l[2] \in 1..LinesCount /\ l[1] \in Nat /\ l[1] # 0
  BY LineFacts
<1>2. inode[l[1]] \in Inode \cup {0}
  BY <1>1 DEF TailTypeOK
<1>3. l[1] \in File \cup {0} /\ l[2] \in 0..LinesCount
  BY <1>1, FileAssumption
<1>4. CheckpointAt(l) \in CheckpointSet
  BY <1>2, <1>3 DEF CheckpointAt, CheckpointSet
<1>5. l = <<l[1], l[2]>>
  BY DEF Line
<1>6. created \in Nat /\ lines[l[1]] \in Nat
  BY <1>1, TypeFacts
<1>7. l[1] \in 1..created /\ l[2] \in 1..lines[l[1]]
  BY <1>1, <1>6, FileAssumption
<1> QED BY <1>4, <1>5, <1>7 DEF CheckpointAt, IsCheckpoint

LEMMA AddLineType ==
  ASSUME TailTypeOK, FilesInv, NEW s \in ProcessedSet, IsCheckpoint(s.commit),
         NEW l \in Line, l[1] <= created, l[2] <= lines[l[1]]
  PROVE  AddLine(s, l) \in ProcessedSet /\ IsCheckpoint(AddLine(s, l).commit)
<1> DEFINE r == AddLine(s, l)
<1>1. /\ s.pending \in [Stream -> SUBSET Line] /\ s.commit \in CheckpointSet
      /\ s.sent \in [Line -> Nat] /\ s.dropped \in SUBSET Line /\ s.torn \in SUBSET Line
  BY DEF ProcessedSet
<1>a. r.pending = PendingAfter(s, l)
  BY AddFacts
<1>b. r.commit = IF KindOf[l] \in {"long", "part"} THEN s.commit ELSE CheckpointAt(l)
  BY AddFacts
<1>c. r.sent = [m \in Line |-> IF m \in SentWith(s, l) THEN s.sent[m] + 1 ELSE s.sent[m]]
  BY AddFacts
<1>d. r.dropped = s.dropped \cup DroppedWith(s, l)
  BY AddFacts
<1>e. r.torn = s.torn \cup {m \in SentWith(s, l) : m = l /\ KindOf[l] = "full" /\ ~Whole(s, l)}
  BY AddFacts
<1>8. r = [pending |-> r.pending, commit |-> r.commit, sent |-> r.sent, dropped |-> r.dropped, torn |-> r.torn]
  BY AddFacts
<1> HIDE DEF r
<1>2. r.pending \in [Stream -> SUBSET Line]
  BY <1>a, PendingFacts
<1>3. r.commit \in CheckpointSet /\ IsCheckpoint(r.commit)
  BY <1>1, <1>b, CheckpointAtType
<1>4. r.sent \in [Line -> Nat]
  <2>1. \A m \in Line : s.sent[m] \in Nat /\ s.sent[m] + 1 \in Nat
    BY <1>1
  <2>2. [m \in Line |-> IF m \in SentWith(s, l) THEN s.sent[m] + 1 ELSE s.sent[m]] \in [Line -> Nat]
    BY <2>1
  <2> QED BY <2>2, <1>c
<1>5. Entry(s, l) \subseteq Line /\ (UNION {s.pending[t] : t \in Stream}) \subseteq Line
  <2>1. \A t \in Stream : s.pending[t] \subseteq Line
    BY <1>1
  <2> QED BY <2>1, LineFacts DEF Entry
<1>6. SentWith(s, l) \subseteq Line /\ DroppedWith(s, l) \subseteq Line
  <2>1. SentWith(s, l) \in {{}, {l}, Entry(s, l)}
    BY KindCases, WithFacts
  <2>2. DroppedWith(s, l) \in {{}, Entry(s, l), UNION {s.pending[t] : t \in Stream}}
    BY KindCases, WithFacts
  <2> QED BY <1>5, <2>1, <2>2
<1>7. r.dropped \in SUBSET Line /\ r.torn \in SUBSET Line
  BY <1>1, <1>6, <1>d, <1>e
<1>9. r \in ProcessedSet
  BY <1>2, <1>3, <1>4, <1>7, <1>8 DEF ProcessedSet
<1> QED BY <1>3, <1>9 DEF r

Unread == lines[fd] - offset

\* The open file, with its position.
Reads == TailTypeOK /\ FilesInv /\ PositionInv /\ fd # 0

LEMMA UnreadFacts ==
  ASSUME Reads
  PROVE  /\ fd \in File /\ fd \in 1..created /\ offset \in Nat /\ lines[fd] \in Nat /\ Unread \in Nat
         /\ \A i \in 0..Unread : i < Unread =>
              <<fd, offset + (i + 1)>> \in Line /\ offset + (i + 1) <= lines[fd]
         /\ Processed \in ProcessedSet
<1>1. fd \in File /\ offset \in 0..LinesCount /\ lines[fd] \in 0..LinesCount
  BY DEF Reads, TailTypeOK
<1>2. created \in Nat /\ fd \in Nat /\ fd # 0 /\ fd <= created /\ offset <= lines[fd]
  BY <1>1, LineFacts, TypeFacts DEF Reads, PositionInv
<1>3. fd \in 1..created /\ offset \in Nat /\ lines[fd] \in Nat /\ Unread \in Nat
  BY <1>1, <1>2, TypeFacts DEF Unread, Reads
<1>4. \A i \in 0..Unread : i < Unread => offset + (i + 1) \in 1..lines[fd]
  BY <1>3 DEF Unread
<1>5. 1..lines[fd] \subseteq 1..LinesCount
  BY <1>1, FileAssumption
<1>6. Processed \in ProcessedSet
  BY DEF Reads, TailTypeOK, Processed, ProcessedSet
<1> QED BY <1>1, <1>3, <1>4, <1>5, <1>6, LineFacts

\* The recursion over the unread lines defines a function.
LEMMA LinesAddedDef ==
  ASSUME Reads
  PROVE  /\ LinesAdded[0] = Processed
         /\ \A i \in 0..Unread : i < Unread =>
              LinesAdded[i + 1] = AddLine(LinesAdded[i], <<fd, offset + (i + 1)>>)
<1> DEFINE n == Unread
           Def(g, m) == g = [i \in 0..m |-> IF i = 0 THEN Processed
                                           ELSE AddLine(g[i - 1], <<fd, offset + i>>)]
           S == {m \in Nat : \E g : Def(g, m)}
<1>1. n \in Nat
  BY UnreadFacts
<1>2. 0 \in S
  <2>1. Def([i \in 0..0 |-> Processed], 0)
    OBVIOUS
  <2> HIDE DEF Def
  <2> QED BY <2>1
<1>3. \A i \in 0..n : i < n /\ i \in S => i + 1 \in S
  <2> SUFFICES ASSUME NEW i \in 0..n, i < n, i \in S PROVE i + 1 \in S
    OBVIOUS
  <2>1. PICK g : Def(g, i)
    OBVIOUS
  <2> DEFINE h == [j \in 0..(i + 1) |-> IF j = i + 1 THEN AddLine(g[i], <<fd, offset + (i + 1)>>) ELSE g[j]]
  <2>2. \A j \in 0..i : h[j] = g[j]
    BY <1>1
  <2>3. h[i + 1] = AddLine(h[i], <<fd, offset + (i + 1)>>)
    BY <1>1, <2>2
  <2>4. \A j \in 0..i : h[j] = IF j = 0 THEN Processed ELSE AddLine(h[j - 1], <<fd, offset + j>>)
    <3> SUFFICES ASSUME NEW j \in 0..i PROVE h[j] = IF j = 0 THEN Processed ELSE AddLine(h[j - 1], <<fd, offset + j>>)
      OBVIOUS
    <3>1. g[j] = IF j = 0 THEN Processed ELSE AddLine(g[j - 1], <<fd, offset + j>>)
      BY <2>1
    <3>2. j # 0 => j - 1 \in 0..i
      BY <1>1
    <3> HIDE DEF h
    <3> QED BY <3>1, <3>2, <2>2
  <2>5. Def(h, i + 1)
    <3>1. \A j \in 0..(i + 1) : j = i + 1 \/ j \in 0..i
      BY <1>1
    <3>2. (i + 1) - 1 = i /\ i + 1 # 0
      BY <1>1
    <3>3. h = [j \in 0..(i + 1) |-> h[j]]
      OBVIOUS
    <3>4. \A j \in 0..(i + 1) : h[j] = IF j = 0 THEN Processed ELSE AddLine(h[j - 1], <<fd, offset + j>>)
      <4> HIDE DEF h
      <4> QED BY <2>3, <2>4, <3>1, <3>2
    <3> HIDE DEF h
    <3> QED BY <3>3, <3>4
  <2> HIDE DEF Def
  <2> QED BY <2>5, <1>1
<1>4. n \in S
  <2> HIDE DEF S
  <2> QED BY <1>1, <1>2, <1>3, UpTo
<1>5. PICK a : Def(a, n)
  BY <1>4
<1>6. Def(LinesAdded, n)
  <2>1. LinesAdded = CHOOSE b : Def(b, n)
    BY DEF LinesAdded, Unread
  <2> HIDE DEF Def
  <2> QED BY <1>5, <2>1
<1>7. \A i \in 0..n : i < n => i + 1 \in 0..n /\ i + 1 # 0 /\ (i + 1) - 1 = i
  BY <1>1
<1>8. 0 \in 0..n
  BY <1>1
<1>9. LinesAdded[0] = Processed
  BY <1>6, <1>8
<1> QED BY <1>6, <1>7, <1>9

\* What lines are taken for keeps its type, and the checkpoint is behind a whole entry.
LEMMA TakenType ==
  ASSUME Reads
  PROVE  \A i \in 0..Unread : LinesAdded[i] \in ProcessedSet /\ IsCheckpoint(LinesAdded[i].commit)
<1> DEFINE S == {i \in 0..Unread : LinesAdded[i] \in ProcessedSet /\ IsCheckpoint(LinesAdded[i].commit)}
<1>1. Unread \in Nat
  BY UnreadFacts
<1>2. 0 \in S
  <2>1. Processed.commit = commit
    BY DEF Processed
  <2> QED BY <1>1, <2>1, UnreadFacts, LinesAddedDef DEF Reads, PositionInv
<1>3. \A i \in 0..Unread : i < Unread /\ i \in S => i + 1 \in S
  <2> SUFFICES ASSUME NEW i \in 0..Unread, i < Unread, i \in S PROVE i + 1 \in S
    OBVIOUS
  <2> DEFINE l == <<fd, offset + (i + 1)>>
  <2>1. l \in Line /\ l[1] = fd /\ l[1] <= created /\ l[2] <= lines[l[1]]
    BY UnreadFacts DEF Reads, PositionInv
  <2>2. LinesAdded[i + 1] = AddLine(LinesAdded[i], l)
    BY LinesAddedDef
  <2>3. LinesAdded[i] \in ProcessedSet /\ IsCheckpoint(LinesAdded[i].commit)
    OBVIOUS
  <2>4. TailTypeOK /\ FilesInv
    BY DEF Reads
  <2>5. i + 1 \in 0..Unread
    BY <1>1
  <2> HIDE DEF l
  <2>6. LinesAdded[i + 1] \in ProcessedSet /\ IsCheckpoint(LinesAdded[i + 1].commit)
    BY <2>1, <2>2, <2>3, <2>4, AddLineType
  <2> QED BY <2>5, <2>6
<1>4. \A i \in 0..Unread : i \in S
  <2> HIDE DEF S
  <2> QED BY <1>1, <1>2, <1>3, UpTo
<1> QED BY <1>4

\* What TakeLines does, apart from its recursion.
LEMMA TakeLinesFacts ==
  ASSUME TailTypeOK, FilesInv, PositionInv, fd # 0, TakeLines
  PROVE  /\ pending' \in [Stream -> SUBSET Line] /\ commit' \in CheckpointSet
         /\ sent' \in [Line -> Nat] /\ dropped' \subseteq Line /\ torn' \subseteq Line
         /\ IsCheckpoint(commit')
         /\ offset' = lines[fd] /\ tail' = (fd \in half)
<1>1. Reads
  BY DEF Reads
<1> DEFINE s == LinesAdded[Unread]
<1>2. /\ pending' = s.pending /\ commit' = s.commit
      /\ sent' = s.sent /\ dropped' = s.dropped /\ torn' = s.torn
  BY DEF TakeLines, Unread
<1>3. s \in ProcessedSet /\ IsCheckpoint(s.commit)
  BY <1>1, TakenType, UnreadFacts
<1> HIDE DEF s
<1>4. s.pending \in [Stream -> SUBSET Line] /\ s.commit \in CheckpointSet
      /\ s.sent \in [Line -> Nat] /\ s.dropped \in SUBSET Line /\ s.torn \in SUBSET Line
  BY <1>3 DEF ProcessedSet
<1>5. offset' = lines[fd] /\ tail' = (fd \in half)
  BY DEF TakeLines
<1>6. IsCheckpoint(commit')
  BY <1>2, <1>3
<1> QED BY <1>2, <1>4, <1>5, <1>6

-----------------------------------------------------------------------------
(* The file at the path and the positions *)

LEMMA NoCheckpointFacts ==
  /\ NoCheckpoint \in CheckpointSet /\ IsCheckpoint(NoCheckpoint)
  /\ NoCheckpoint.fingerprint = 0 /\ NoCheckpoint.offset = 0 /\ NoCheckpoint.inode = 0
  /\ NothingPending \in [Stream -> SUBSET Line]
BY FileAssumption DEF NoCheckpoint, CheckpointSet, IsCheckpoint, NothingPending

\* What a committed checkpoint stands for.
LEMMA CheckpointFacts ==
  ASSUME TailTypeOK, FilesInv, NEW cp \in CheckpointSet, IsCheckpoint(cp), cp # NoCheckpoint
  PROVE  /\ cp.fingerprint \in File /\ cp.fingerprint <= created
         /\ cp.inode = inode[cp.fingerprint] /\ cp.inode \in Inode /\ cp.inode # 0
         /\ cp.offset \in Nat /\ cp.offset # 0 /\ cp.offset <= lines[cp.fingerprint]
         /\ <<cp.fingerprint, cp.offset>> \in Line
         /\ KindOf[<<cp.fingerprint, cp.offset>>] \notin {"part", "long"}
         /\ cp = [inode |-> inode[cp.fingerprint], fingerprint |-> cp.fingerprint, offset |-> cp.offset]
<1>1. /\ cp.fingerprint \in 1..created /\ cp.inode = inode[cp.fingerprint]
      /\ cp.offset \in 1..lines[cp.fingerprint]
      /\ KindOf[<<cp.fingerprint, cp.offset>>] \notin {"part", "long"}
  BY DEF IsCheckpoint
<1>2. cp.fingerprint \in File /\ cp.fingerprint <= created
  BY <1>1, TypeFacts, FileAssumption DEF File
<1>3. cp.inode \in Inode /\ cp.inode # 0
  BY <1>1, <1>2, CreatedFacts
<1>4. cp.offset \in Nat /\ cp.offset # 0 /\ cp.offset <= lines[cp.fingerprint] /\ cp.offset \in 1..LinesCount
  BY <1>1, <1>2, TypeFacts, FileAssumption
<1>5. <<cp.fingerprint, cp.offset>> \in Line
  BY <1>2, <1>4, LineFacts
<1>6. cp = [inode |-> inode[cp.fingerprint], fingerprint |-> cp.fingerprint, offset |-> cp.offset]
  BY <1>1 DEF CheckpointSet
<1> QED BY <1>1, <1>2, <1>3, <1>4, <1>5, <1>6

\* A file is resumed only if it is the one of the checkpoint.
LEMMA ResumedFacts ==
  ASSUME TailTypeOK, FilesInv, PositionInv
  PROVE  /\ Resumed(memory) # 0 => /\ memory # NoCheckpoint /\ Resumed(memory) = memory.fingerprint
                                   /\ Log # 0
         /\ Resumed(memory) = 0 => \/ Log = 0 \/ memory.fingerprint = 0
                                   \/ place[memory.fingerprint] = "gone"
<1> DEFINE found == {f \in File : place[f] \in {"log", "old"} /\ inode[f] = memory.inode
                             /\ Fingerprint(f) # 0 /\ memory.fingerprint \in {0, Fingerprint(f)}}
<1>0. IsCheckpoint(memory) /\ memory \in CheckpointSet
  BY DEF PositionInv, TailTypeOK
<1>1. \A f \in found : memory # NoCheckpoint /\ f = memory.fingerprint
  <2> SUFFICES ASSUME NEW f \in found PROVE memory # NoCheckpoint /\ f = memory.fingerprint
    OBVIOUS
  <2>1. f \in File /\ place[f] # "none" /\ inode[f] = memory.inode /\ Fingerprint(f) = f
        /\ memory.fingerprint \in {0, f}
    BY DEF Fingerprint
  <2>2. inode[f] # 0
    BY <2>1, CreatedFacts
  <2>3. memory # NoCheckpoint
    BY <2>1, <2>2, NoCheckpointFacts
  <2>4. memory.fingerprint # 0
    BY <1>0, <2>3, CheckpointFacts, LineFacts
  <2> QED BY <2>1, <2>3, <2>4
<1>2. memory.fingerprint # 0 /\ place[memory.fingerprint] # "gone" => memory.fingerprint \in found
  <2> SUFFICES ASSUME memory.fingerprint # 0, place[memory.fingerprint] # "gone"
               PROVE  memory.fingerprint \in found
    OBVIOUS
  <2> DEFINE c == memory.fingerprint
  <2>1. memory # NoCheckpoint
    BY NoCheckpointFacts
  <2>2. c \in File /\ c <= created /\ memory.inode = inode[c]
        /\ memory.offset \in Nat /\ memory.offset # 0 /\ memory.offset <= lines[c]
    BY <1>0, <2>1, CheckpointFacts
  <2>3. lines[c] > 0
    <3>1. lines[c] \in Nat
      BY <2>2, TypeFacts
    <3> QED BY <2>2, <3>1
  <2>4. place[c] \in {"log", "old", "gone"}
    BY <2>2, CreatedFacts
  <2>5. Fingerprint(c) = c /\ c # 0
    BY <2>2, <2>3, LineFacts DEF Fingerprint
  <2> QED BY <2>2, <2>4, <2>5
<1>3. Resumed(memory) = IF Log = 0 \/ found = {} THEN 0 ELSE CHOOSE f \in found : TRUE
  BY DEF Resumed
<1>4. 0 \notin found
  BY LineFacts
<1> HIDE DEF found
<1>5. Resumed(memory) # 0 => Log # 0 /\ Resumed(memory) \in found
  BY <1>3
<1>6. Resumed(memory) = 0 => Log = 0 \/ found = {}
  BY <1>3, <1>4
<1> QED BY <1>1, <1>2, <1>5, <1>6

\* The file is opened at its checkpoint, or no file is.
LEMMA OpenFacts ==
  ASSUME TailTypeOK, FilesInv, PositionInv, OpenLogFile
  PROVE  /\ commit' \in {NoCheckpoint, memory} /\ memory' = commit'
         /\ fd' = commit'.fingerprint /\ offset' = commit'.offset
         /\ fd' # 0 => commit' = memory /\ memory # NoCheckpoint
         /\ fd' = 0 => /\ commit' = NoCheckpoint
                       /\ \/ Log = 0 \/ memory.fingerprint = 0
                          \/ place[memory.fingerprint] = "gone"
         /\ fd' = Resumed(memory)
<1>1. fd' = Resumed(memory)
  BY DEF OpenLogFile
<1>2. CASE Resumed(memory) = 0
  BY <1>1, <1>2, ResumedFacts, NoCheckpointFacts DEF OpenLogFile
<1>3. CASE Resumed(memory) # 0
  <2>1. memory # NoCheckpoint /\ Resumed(memory) = memory.fingerprint
    BY <1>3, ResumedFacts
  <2>2. IsCheckpoint(memory) /\ memory \in CheckpointSet
    BY DEF PositionInv, TailTypeOK
  <2>3. memory = [inode |-> inode[memory.fingerprint], fingerprint |-> memory.fingerprint,
                  offset |-> memory.offset]
    BY <2>1, <2>2, CheckpointFacts
  <2>4. commit' = memory /\ memory' = memory /\ offset' = memory.offset
    BY <1>3, <2>1, <2>3 DEF OpenLogFile
  <2> QED BY <1>1, <1>3, <2>1, <2>4
<1> QED BY <1>2, <1>3

\* What becomes of the files.
LogTypeOK ==
  /\ symlink \in BOOLEAN /\ created \in 0..FilesCount
  /\ place \in [File -> {"none", "log", "old", "gone"}] /\ inode \in [File -> Inode \cup {0}]
  /\ lines \in [File -> 0..LinesCount] /\ half \subseteq File

\* Neither vlagent nor its checkpoints change the files.
LEMMA LogUnchanged ==
  ASSUME Process \/ SyncCheckpoints \/ Stop \/ Crash \/ UNCHANGED vars
  PROVE  UNCHANGED log
<1>1. CASE StartRead \/ OpenLogFile \/ FirstOpen \/ ReadLines \/ NoLines
  BY <1>1 DEF StartRead, OpenLogFile, FirstOpen, ReadLines, NoLines
<1>2. CASE StatusOfExisting \/ StatusOfMissing \/ StatusByLinks
  BY <1>2 DEF StatusOfExisting, StatusOfMissing, StatusByLinks
<1>3. CASE ReadRotated \/ OpenRotated \/ ReadRotatedAgain \/ ReopenRotated
  BY <1>3 DEF ReadRotated, OpenRotated, ReadRotatedAgain, ReopenRotated
<1>4. CASE EndStop \/ Start \/ SyncCheckpoints \/ Stop \/ Crash
  BY <1>4 DEF EndStop, Start, SyncCheckpoints, Stop, Crash
<1>5. CASE UNCHANGED vars
  BY <1>5 DEF vars
<1> QED BY <1>1, <1>2, <1>3, <1>4, <1>5 DEF Process

LEMMA LogTypeStep ==
  ASSUME TailTypeOK, FilesInv, [Next]_vars
  PROVE  LogTypeOK'
<1>0. LogTypeOK
  BY DEF TailTypeOK, LogTypeOK
<1>1. ASSUME NEW f \in File, WriteLine(f) PROVE LogTypeOK'
  <2>1. lines[f] + 1 \in 0..LinesCount
    BY <1>1, TypeFacts, FileAssumption DEF WriteLine
  <2>2. lines' \in [File -> 0..LinesCount]
    BY <2>1, <1>0, <1>1 DEF WriteLine, LogTypeOK
  <2>3. half' \subseteq File
    BY <1>0, <1>1 DEF WriteLine, LogTypeOK
  <2> QED BY <1>0, <1>1, <2>2, <2>3 DEF WriteLine, LogTypeOK
<1>2. ASSUME NEW f \in File, WriteHalf(f) PROVE LogTypeOK'
  BY <1>0, <1>2 DEF WriteHalf, LogTypeOK
<1>3. ASSUME NEW f \in File, Rotate(f) PROVE LogTypeOK'
  BY <1>0, <1>3 DEF Rotate, LogTypeOK
<1>4. ASSUME NEW f \in File, Unlink(f) PROVE LogTypeOK'
  BY <1>0, <1>4 DEF Unlink, LogTypeOK
<1>5. CASE Create
  <2>1. created' \in 0..FilesCount
    BY <1>5, TypeFacts, FileAssumption DEF Create
  <2>2. PICK i \in Inode : inode' = [inode EXCEPT ![created'] = i]
    BY <1>5 DEF Create
  <2>3. place' \in [File -> {"none", "log", "old", "gone"}]
    BY <1>0, <1>5 DEF Create, LogTypeOK
  <2>4. inode' \in [File -> Inode \cup {0}]
    BY <1>0, <2>2 DEF LogTypeOK
  <2> QED BY <1>0, <1>5, <2>1, <2>3, <2>4 DEF Create, LogTypeOK
<1>6. CASE UNCHANGED log
  BY <1>0, <1>6 DEF log, LogTypeOK
<1> QED BY <1>1, <1>2, <1>3, <1>4, <1>5, <1>6, LogUnchanged DEF Next, Environment


\* Files grow, and where they are, or were, doesn't change back; only files which the
\* application hasn't left change.
Grows ==
  /\ created' \in Nat /\ created <= created'
  /\ \A f \in File : /\ f <= created => inode'[f] = inode[f]
                     /\ lines'[f] \in Nat /\ lines[f] <= lines'[f]
                     /\ lines'[f] # lines[f] \/ ~(f \in half <=> f \in half') => Writable(f)
                     /\ ~Empty(f) => ~Empty(f)'
                     /\ place[f] \in {"old", "gone"} => place'[f] \in {"old", "gone"}
                     /\ place[f] = "gone" => place'[f] = "gone"

LEMMA GrowsStep ==
  ASSUME TailTypeOK, FilesInv, [Next]_vars
  PROVE  Grows
<1>0. /\ created \in Nat /\ \A f \in File : lines[f] \in Nat
      /\ lines \in [File -> 0..LinesCount] /\ place \in [File -> {"none", "log", "old", "gone"}]
      /\ inode \in [File -> Inode \cup {0}]
  BY TypeFacts DEF TailTypeOK
<1>1. ASSUME NEW g \in File, WriteLine(g) PROVE Grows
  <2>1. /\ Writable(g) /\ lines' = [lines EXCEPT ![g] = lines[g] + 1] /\ half' = half \ {g}
        /\ created' = created /\ place' = place /\ inode' = inode
    BY <1>1 DEF WriteLine
  <2>2. ASSUME NEW f \in File
        PROVE  /\ lines'[f] \in Nat /\ lines[f] <= lines'[f]
               /\ lines'[f] # lines[f] \/ ~(f \in half <=> f \in half') => f = g
               /\ ~Empty(f) => ~Empty(f)'
    <3>1. CASE f = g
      <4>1. lines'[f] = lines[f] + 1
        BY <1>0, <2>1, <3>1
      <4>2. lines'[f] \in Nat /\ lines[f] <= lines'[f] /\ lines'[f] # 0
        BY <1>0, <4>1
      <4> QED BY <3>1, <4>2 DEF Empty
    <3>2. CASE f # g
      <4>1. lines'[f] = lines[f] /\ (f \in half <=> f \in half')
        BY <1>0, <2>1, <3>2
      <4>2. lines[f] <= lines[f] /\ lines[f] \in Nat
        BY <1>0
      <4> QED BY <4>1, <4>2 DEF Empty
    <3> QED BY <3>1, <3>2
  <2>3. created <= created
    BY <1>0
  <2> QED BY <1>0, <2>1, <2>2, <2>3 DEF Grows
<1>2. ASSUME NEW g \in File, WriteHalf(g) PROVE Grows
  <2>1. /\ Writable(g) /\ half' = half \cup {g} /\ lines' = lines
        /\ created' = created /\ place' = place /\ inode' = inode
    BY <1>2 DEF WriteHalf
  <2>2. \A f \in File : ~Empty(f) => ~Empty(f)'
    BY <2>1 DEF Empty
  <2>3. created <= created /\ \A f \in File : lines[f] <= lines[f]
    BY <1>0
  <2> QED BY <1>0, <2>1, <2>2, <2>3 DEF Grows
<1>3. ASSUME NEW g \in File, Rotate(g) \/ Unlink(g) PROVE Grows
  <2>1. /\ place[g] \in {"log", "old"} /\ half' = half /\ lines' = lines /\ created' = created /\ inode' = inode
        /\ \E p \in {"old", "gone"} : place' = [place EXCEPT ![g] = p] /\ (place[g] = "log" \/ p = "gone")
    BY <1>3 DEF Rotate, Unlink
  <2>2. \A f \in File : ~Empty(f) => ~Empty(f)'
    BY <2>1 DEF Empty
  <2>3. created <= created /\ \A f \in File : lines[f] <= lines[f]
    BY <1>0
  <2>4. \A f \in File : /\ place[f] \in {"old", "gone"} => place'[f] \in {"old", "gone"}
                        /\ place[f] = "gone" => place'[f] = "gone"
    BY <1>0, <2>1
  <2> QED BY <1>0, <2>1, <2>2, <2>3, <2>4 DEF Grows
<1>4. CASE Create
  <2>1. /\ created' = created + 1 /\ place' = [place EXCEPT ![created'] = "log"]
        /\ half' = half /\ lines' = lines /\ created < FilesCount
    BY <1>4 DEF Create
  <2>2. PICK i \in Inode : inode' = [inode EXCEPT ![created'] = i]
    BY <1>4 DEF Create
  <2>3. \A f \in File : ~Empty(f) => ~Empty(f)'
    BY <2>1 DEF Empty
  <2>4. created <= created + 1 /\ created + 1 \in Nat /\ \A f \in File : lines[f] <= lines[f]
    BY <1>0
  <2>5. \A f \in File : f <= created => f # created'
    BY <1>0, <2>1, LineFacts
  <2>6. \A f \in File : f <= created => inode'[f] = inode[f]
    BY <1>0, <2>2, <2>5
  <2>7. place[created'] = "none" /\ created' \in File
    <3>1. created' \in File /\ ~(created' <= created)
      BY <1>0, <2>1, FileAssumption DEF File
    <3> QED BY <3>1, CreatedFacts
  <2>8. \A f \in File : /\ place[f] \in {"old", "gone"} => place'[f] \in {"old", "gone"}
                        /\ place[f] = "gone" => place'[f] = "gone"
    BY <1>0, <2>1, <2>7
  <2> QED BY <1>0, <2>1, <2>3, <2>4, <2>6, <2>8 DEF Grows
<1>5. CASE UNCHANGED log
  <2>1. half' = half /\ lines' = lines /\ created' = created /\ inode' = inode /\ place' = place
    BY <1>5 DEF log
  <2>2. \A f \in File : ~Empty(f) => ~Empty(f)'
    BY <2>1 DEF Empty
  <2>3. created <= created /\ \A f \in File : lines[f] <= lines[f]
    BY <1>0
  <2> QED BY <1>0, <2>1, <2>2, <2>3 DEF Grows
<1> QED BY <1>1, <1>2, <1>3, <1>4, <1>5, LogUnchanged DEF Next, Environment

\* The state of the tailer keeps its type.
TailerTypeOK ==
  /\ pc \in {"idle", "open", "read", "status", "links", "rotated", "rotated twice", "reopen",
             "panic", "down"}
  /\ stopping \in BOOLEAN
  /\ fd \in File \cup {0} /\ offset \in 0..LinesCount /\ tail \in BOOLEAN
  /\ commit \in CheckpointSet /\ memory \in CheckpointSet /\ saved \in CheckpointSet
  /\ pending \in [Stream -> SUBSET Line]
  /\ stops \in 0..MaxStops /\ crashes \in 0..MaxCrashes
  /\ sent \in [Line -> Nat] /\ dropped \subseteq Line /\ torn \subseteq Line /\ opened \subseteq File
  /\ forgiven \subseteq File /\ lateFile \in BOOLEAN /\ notReopened \in BOOLEAN

LEMMA ReopenType ==
  ASSUME TailTypeOK, FilesInv, Reopen
  PROVE  /\ Log # 0 /\ Log \in File /\ Log = created /\ fd' = Log /\ offset' = 0
         /\ offset' \in 0..LinesCount
         /\ opened' = opened \cup {Log} /\ opened' \subseteq File /\ forgiven' \subseteq File
<1>1. Log # 0 /\ Log \in File /\ Log = created
  BY LogFacts DEF Reopen
<1>2. fd' = Log /\ offset' = 0 /\ offset' \in 0..LinesCount
  BY FileAssumption DEF Reopen
<1>3. opened' = opened \cup {Log} /\ opened' \subseteq File
  BY <1>1 DEF Reopen, TailTypeOK
<1>4. forgiven' \subseteq File
  BY DEF Reopen, TailTypeOK
<1> QED BY <1>1, <1>2, <1>3, <1>4

LEMMA ForgetType ==
  ASSUME TailTypeOK, Forget
  PROVE  /\ fd' = 0 /\ fd' \in File \cup {0} /\ offset' = 0 /\ offset' \in 0..LinesCount
         /\ commit' = NoCheckpoint /\ memory' = NoCheckpoint /\ commit' \in CheckpointSet
         /\ pending' = NothingPending /\ pending' \in [Stream -> SUBSET Line]
         /\ tail' = FALSE /\ stopping' = FALSE /\ pc' = "down"
BY NoCheckpointFacts, FileAssumption DEF Forget

\* The application and the rotation don't change the tailer.
LEMMA EnvironmentUnchanged ==
  ASSUME Environment
  PROVE  UNCHANGED <<pc, stopping, logFile, checkpoint, bounds, history>>
<1>1. ASSUME NEW f \in File, WriteLine(f) \/ WriteHalf(f) \/ Rotate(f) \/ Unlink(f)
      PROVE  UNCHANGED <<pc, stopping, logFile, checkpoint, bounds, history>>
  BY <1>1 DEF WriteLine, WriteHalf, Rotate, Unlink
<1>2. CASE Create
  BY <1>2 DEF Create
<1> QED BY <1>1, <1>2 DEF Environment

LEMMA TailerTypeStep ==
  ASSUME TailTypeOK, FilesInv, PositionInv, [Next]_vars
  PROVE  TailerTypeOK'
<1>0. TailerTypeOK
  BY DEF TailTypeOK, TailerTypeOK
<1>1. CASE Environment
  BY <1>0, <1>1, EnvironmentUnchanged DEF TailerTypeOK, logFile, checkpoint, bounds, history
<1>2. CASE StartRead \/ NoLines \/ StatusOfMissing \/ ReadRotatedAgain
  BY <1>0, <1>2 DEF StartRead, NoLines, StatusOfMissing, ReadRotatedAgain, TailerTypeOK,
     logFile, checkpoint, bounds, history
<1>3. CASE OpenLogFile
  <2>1. commit' \in CheckpointSet /\ memory' \in CheckpointSet
    BY <1>3, OpenFacts, NoCheckpointFacts DEF TailTypeOK
  <2>2. fd' \in File \cup {0} /\ offset' \in 0..LinesCount
    BY <1>3, <2>1, OpenFacts DEF CheckpointSet
  <2>3. forgiven' \subseteq File
    <3>1. 1..created \subseteq File
      BY TypeFacts, FileAssumption DEF File
    <3> QED BY <1>0, <1>3, <3>1 DEF OpenLogFile, TailerTypeOK
  <2>4. /\ pc' = "read" /\ tail' = FALSE /\ pending' = NothingPending
        /\ UNCHANGED <<stopping, saved, stops, crashes, sent, dropped, torn, opened, lateFile, notReopened>>
    BY <1>3 DEF OpenLogFile, bounds
  <2> QED BY <1>0, <2>1, <2>2, <2>3, <2>4, NoCheckpointFacts DEF TailerTypeOK
<1>4. CASE FirstOpen
  <2>1. UNCHANGED <<pc, stopping, tail, commit, pending, memory, saved, stops, crashes, sent, dropped, torn,
                    lateFile, notReopened>>
    BY <1>4 DEF FirstOpen, checkpoint, bounds
  <2>2. Reopen
    BY <1>4 DEF FirstOpen
  <2> QED BY <1>0, <2>1, <2>2, ReopenType DEF TailerTypeOK
<1>5. CASE ReadLines \/ ReadRotated
  <2>1. /\ pc' \in {"read", "rotated twice", "reopen"}
        /\ memory' \in {commit', memory} /\ fd # 0
        /\ UNCHANGED <<stopping, fd, saved, stops, crashes, opened, forgiven, lateFile, notReopened>>
    BY <1>5 DEF ReadLines, ReadRotated, checkpoint, bounds
  <2>2. CASE TakeLines
    <3>1. offset' \in 0..LinesCount /\ tail' \in BOOLEAN
      <4>1. fd \in File /\ lines \in [File -> 0..LinesCount]
        BY <2>1 DEF TailTypeOK
      <4>2. offset' = lines[fd]
        BY <2>1, <2>2, TakeLinesFacts
      <4>3. tail' = (fd \in half)
        BY <2>1, <2>2, TakeLinesFacts
      <4>4. tail' \in BOOLEAN
        <5>1. CASE fd \in half
          BY <4>3, <5>1
        <5>2. CASE fd \notin half
          BY <4>3, <5>2
        <5> QED BY <5>1, <5>2
      <4> QED BY <4>1, <4>2, <4>4
    <3> QED BY <1>0, <2>1, <2>2, <3>1, TakeLinesFacts DEF TailerTypeOK
  <2>3. CASE ~TakeLines
    <3>1. UNCHANGED <<offset, tail, pending, commit, sent, dropped, torn, memory>>
      BY <1>5, <2>3 DEF ReadLines, ReadRotated, checkpoint
    <3> QED BY <1>0, <2>1, <3>1 DEF TailerTypeOK
  <2> QED BY <2>2, <2>3
<1>6. CASE StatusOfExisting
  <2>1. pc' \in {"rotated", "read"} /\ lateFile' \in BOOLEAN
    BY <1>6 DEF StatusOfExisting
  <2> QED BY <1>0, <1>6, <2>1 DEF StatusOfExisting, TailerTypeOK, logFile, checkpoint, bounds
<1>7. CASE StatusByLinks
  <2>1. UNCHANGED <<stopping, saved, stops, crashes, sent, dropped, torn, opened, lateFile, notReopened>>
        /\ pc' \in {"read", "idle"}
    BY <1>7 DEF StatusByLinks, bounds
  <2>2. CASE UNCHANGED <<logFile, memory, forgiven>>
    BY <1>0, <2>1, <2>2 DEF TailerTypeOK, logFile
  <2>3. CASE ~UNCHANGED <<logFile, memory, forgiven>>
    <3>1. /\ fd' = 0 /\ offset' = 0 /\ tail' = FALSE
          /\ commit' = NoCheckpoint /\ pending' = NothingPending /\ memory' = NoCheckpoint
          /\ forgiven' = forgiven \cup (1..fd)
      BY <1>7, <2>3 DEF StatusByLinks
    <3>2. 1..fd \subseteq File
      <4>1. fd = 0 \/ fd \in 1..FilesCount
        BY <1>0 DEF TailerTypeOK, File
      <4> QED BY <4>1, FileAssumption DEF File
    <3>3. offset' \in 0..LinesCount
      BY <3>1, FileAssumption
    <3> QED BY <1>0, <2>1, <3>1, <3>2, <3>3, NoCheckpointFacts DEF TailerTypeOK
  <2> QED BY <2>2, <2>3
<1>8. CASE OpenRotated
  <2>1. UNCHANGED <<stopping, tail, commit, pending, memory, saved, stops, crashes, sent, dropped, torn,
                    lateFile, notReopened>>
    BY <1>8 DEF OpenRotated, checkpoint, bounds
  <2>2. CASE Reopen /\ UNCHANGED pc
    BY <1>0, <2>1, <2>2, ReopenType DEF TailerTypeOK
  <2>3. CASE pc' = "reopen" /\ UNCHANGED <<fd, offset, opened, forgiven>>
    BY <1>0, <2>1, <2>3 DEF TailerTypeOK
  <2> QED BY <1>8, <2>2, <2>3 DEF OpenRotated
<1>9. CASE ReopenRotated
  <2>1. pc' = "read" /\ tail' = FALSE
        /\ UNCHANGED <<stopping, commit, pending, saved, stops, crashes, sent, dropped, torn, lateFile>>
    BY <1>9 DEF ReopenRotated, bounds
  <2>2. CASE Reopen /\ memory' = commit /\ UNCHANGED notReopened
    BY <1>0, <2>1, <2>2, ReopenType DEF TailerTypeOK
  <2>3. CASE notReopened' = TRUE /\ UNCHANGED <<fd, offset, memory, opened, forgiven>>
    BY <1>0, <2>1, <2>3 DEF TailerTypeOK
  <2> QED BY <1>9, <2>2, <2>3 DEF ReopenRotated
<1>10. CASE EndStop \/ Crash
  <2>1. Forget /\ saved' \in {saved, memory}
        /\ UNCHANGED <<stops, sent, dropped, torn, opened, forgiven, lateFile, notReopened>>
    BY <1>10 DEF EndStop, Crash, bounds, history
  <2>2. crashes' \in 0..MaxCrashes
    <3>1. crashes' = crashes \/ (crashes' = crashes + 1 /\ crashes < MaxCrashes)
      BY <1>10 DEF EndStop, Crash, bounds
    <3>2. crashes \in 0..MaxCrashes /\ MaxCrashes \in Nat
      BY <1>0, FileAssumption DEF TailerTypeOK
    <3> QED BY <3>1, <3>2
  <2> QED BY <1>0, <2>1, <2>2, ForgetType DEF TailerTypeOK
<1>11. CASE Start \/ SyncCheckpoints
  BY <1>0, <1>11 DEF Start, SyncCheckpoints, TailerTypeOK, logFile, bounds, history
<1>12. CASE Stop
  <2>1. stops' \in 0..MaxStops
    <3>1. stops \in 0..MaxStops /\ MaxStops \in Nat /\ stops < MaxStops /\ stops' = stops + 1
      BY <1>0, <1>12, FileAssumption DEF Stop, TailerTypeOK
    <3> QED BY <3>1
  <2> QED BY <1>0, <1>12, <2>1 DEF Stop, TailerTypeOK, logFile, checkpoint, history
<1>13. CASE UNCHANGED vars
  BY <1>0, <1>13 DEF vars, TailerTypeOK, logFile, checkpoint, bounds, history
<1> QED BY <1>1, <1>2, <1>3, <1>4, <1>5, <1>6, <1>7, <1>8, <1>9, <1>10, <1>11, <1>12, <1>13
   DEF Next, Process

LEMMA TypeStep ==
  ASSUME TailTypeOK, FilesInv, PositionInv, [Next]_vars
  PROVE  TailTypeOK'
BY TailerTypeStep, LogTypeStep DEF TailTypeOK, TailerTypeOK, LogTypeOK

-----------------------------------------------------------------------------
(* Where the tailer is *)

\* Only the tailer opens files, and only those which exist.
LEMMA OpenedStep ==
  ASSUME TailTypeOK, FilesInv, [Next]_vars
  PROVE  opened' = opened \/ (opened' = opened \cup {Log} /\ Log # 0 /\ created' = created)
<1>1. CASE FirstOpen \/ OpenRotated \/ ReopenRotated
  BY <1>1 DEF FirstOpen, OpenRotated, ReopenRotated, Reopen, log
<1>2. CASE Environment
  BY <1>2 DEF Environment, WriteLine, WriteHalf, Rotate, Unlink, Create, history
<1>3. CASE StartRead \/ OpenLogFile \/ ReadLines \/ NoLines
  BY <1>3 DEF StartRead, OpenLogFile, ReadLines, NoLines, history
<1>4. CASE StatusOfExisting \/ StatusOfMissing \/ StatusByLinks \/ ReadRotated \/ ReadRotatedAgain
  BY <1>4 DEF StatusOfExisting, StatusOfMissing, StatusByLinks, ReadRotated, ReadRotatedAgain, history
<1>5. CASE EndStop \/ Start \/ SyncCheckpoints \/ Stop \/ Crash
  BY <1>5 DEF EndStop, Start, SyncCheckpoints, Stop, Crash, history
<1>6. CASE UNCHANGED vars
  BY <1>6 DEF vars, history
<1> QED BY <1>1, <1>2, <1>3, <1>4, <1>5, <1>6 DEF Next, Process

LEMMA FilesStep ==
  ASSUME TailTypeOK, FilesInv, TailTypeOK', [Next]_vars
  PROVE  FilesInv'
<1>1. opened' \subseteq 1..created'
  <2>1. opened \subseteq 1..created /\ created \in Nat /\ created' \in Nat /\ created <= created'
    BY TypeFacts, GrowsStep DEF FilesInv, Grows
  <2>2. Log # 0 => Log \in 1..created
    BY LogFacts, LineFacts, <2>1
  <2>3. CASE opened' = opened
    BY <2>1, <2>3
  <2>4. CASE opened' = opened \cup {Log} /\ Log # 0 /\ created' = created
    BY <2>1, <2>2, <2>4
  <2> QED BY <2>3, <2>4, OpenedStep
<1> DEFINE Ok(f) == /\ place[f] = "none" <=> f > created
                    /\ place[f] = "log" => f = created
                    /\ IF f > created THEN Empty(f) ELSE inode[f] \in Inode
           Next1(f) == /\ place'[f] = "none" <=> f > created'
                       /\ place'[f] = "log" => f = created'
                       /\ IF f > created' THEN lines'[f] = 0 /\ f \notin half' ELSE inode'[f] \in Inode
<1>2. \A f \in File : Ok(f)
  BY DEF FilesInv
<1>3. /\ created \in Nat /\ lines \in [File -> 0..LinesCount] /\ inode \in [File -> Inode \cup {0}]
      /\ place \in [File -> {"none", "log", "old", "gone"}]
      /\ \A f \in File : f \in Nat
  BY TypeFacts, LineFacts DEF TailTypeOK
<1>4. \A f \in File : Next1(f)
  <2>1. CASE \E g \in File : WriteLine(g) \/ WriteHalf(g)
    <3>1. PICK g \in File : WriteLine(g) \/ WriteHalf(g)
      BY <2>1
    <3>2. g <= created
      <4>1. place[g] # "none"
        BY <3>1 DEF WriteLine, WriteHalf, Writable
      <4> QED BY <4>1, CreatedFacts
    <3>3. /\ created' = created /\ place' = place /\ inode' = inode
          /\ half' \in {half \ {g}, half \cup {g}}
          /\ lines' \in {lines, [lines EXCEPT ![g] = lines[g] + 1]}
      BY <3>1 DEF WriteLine, WriteHalf
    <3>4. ASSUME NEW f \in File PROVE Next1(f)
      <4>1. CASE f = g
        BY <1>2, <1>3, <3>2, <3>3, <4>1
      <4>2. CASE f # g
        <5>1. lines'[f] = lines[f] /\ (f \in half' <=> f \in half)
          BY <1>3, <3>3, <4>2
        <5> QED BY <1>2, <3>3, <5>1 DEF Empty
      <4> QED BY <4>1, <4>2
    <3> QED BY <3>4
  <2>2. CASE \E g \in File : Rotate(g) \/ Unlink(g)
    <3>1. PICK g \in File : Rotate(g) \/ Unlink(g)
      BY <2>2
    <3>2. place[g] \in {"log", "old"} /\ \E p \in {"old", "gone"} : place' = [place EXCEPT ![g] = p]
      BY <3>1 DEF Rotate, Unlink
    <3>3. created' = created /\ inode' = inode /\ half' = half /\ lines' = lines
      BY <3>1 DEF Rotate, Unlink
    <3>4. ASSUME NEW f \in File PROVE Next1(f)
      <4>1. place'[f] = place[f] \/ (place[f] # "none" /\ place'[f] \in {"old", "gone"})
        BY <1>3, <3>2
      <4> QED BY <1>2, <3>3, <4>1 DEF Empty
    <3> QED BY <3>4
  <2>3. CASE Create
    <3>1. /\ Log = 0 /\ created' = created + 1 /\ place' = [place EXCEPT ![created'] = "log"]
          /\ half' = half /\ lines' = lines
      BY <2>3 DEF Create
    <3>2. PICK i \in Inode : inode' = [inode EXCEPT ![created'] = i]
      BY <2>3 DEF Create
    <3>3. \A f \in File : place[f] # "log"
      BY <3>1, LogFacts
    <3>4. ASSUME NEW f \in File PROVE Next1(f)
      <4>1. CASE f = created'
        BY <1>3, <3>1, <3>2, <4>1
      <4>2. CASE f # created'
        <5>1. place'[f] = place[f] /\ inode'[f] = inode[f]
          BY <1>3, <3>1, <3>2, <4>2
        <5>2. f > created' <=> f > created
          BY <1>3, <3>1, <4>2
        <5> QED BY <1>2, <3>1, <3>3, <5>1, <5>2 DEF Empty
      <4> QED BY <4>1, <4>2
    <3> QED BY <3>4
  <2>4. CASE UNCHANGED log
    <3>1. created' = created /\ inode' = inode /\ half' = half /\ lines' = lines /\ place' = place
      BY <2>4 DEF log
    <3> QED BY <1>2, <3>1 DEF Empty
  <2> HIDE DEF Next1
  <2> QED BY <2>1, <2>2, <2>3, <2>4, LogUnchanged DEF Next, Environment
<1> QED BY <1>1, <1>4 DEF FilesInv, Empty

\* A checkpoint goes on being one.
LEMMA CheckpointStays ==
  ASSUME TailTypeOK, FilesInv, Grows, NEW cp \in CheckpointSet, IsCheckpoint(cp)
  PROVE  IsCheckpoint(cp)'
<1>1. CASE cp = NoCheckpoint
  BY <1>1 DEF IsCheckpoint
<1>2. CASE cp # NoCheckpoint
  <2> DEFINE f == cp.fingerprint
  <2>1. /\ f \in File /\ f <= created /\ cp.inode = inode[f] /\ KindOf[<<f, cp.offset>>] \notin {"part", "long"}
        /\ cp.offset \in Nat /\ cp.offset # 0 /\ cp.offset <= lines[f]
    BY <1>2, CheckpointFacts
  <2>2. /\ inode'[f] = inode[f] /\ lines'[f] \in Nat /\ lines[f] <= lines'[f]
        /\ created' \in Nat /\ created <= created'
    BY <2>1 DEF Grows
  <2>3. f \in Nat /\ f # 0 /\ created \in Nat /\ lines[f] \in Nat
    BY <2>1, LineFacts, TypeFacts
  <2>4. f \in 1..created' /\ cp.offset \in 1..lines'[f]
    BY <2>1, <2>2, <2>3
  <2> QED BY <2>1, <2>2, <2>4 DEF IsCheckpoint
<1> QED BY <1>1, <1>2

\* The position in a file which isn't changed by the step.
LEMMA PositionKept ==
  ASSUME TailTypeOK, FilesInv, PositionInv, Grows, UNCHANGED <<fd, offset, commit, pending>>,
         memory' \in {memory, commit, saved, NoCheckpoint}, saved' \in {saved, memory},
         pc' \in {"idle", "open", "down"} => fd = 0
  PROVE  PositionInv'
<1>1. IsCheckpoint(commit)' /\ IsCheckpoint(memory)' /\ IsCheckpoint(saved)'
  <2>1. IsCheckpoint(memory') /\ memory' \in CheckpointSet /\ IsCheckpoint(saved') /\ saved' \in CheckpointSet
        /\ IsCheckpoint(commit') /\ commit' \in CheckpointSet
    BY NoCheckpointFacts DEF PositionInv, TailTypeOK
  <2>2. \A cp \in CheckpointSet : IsCheckpoint(cp) => IsCheckpoint(cp)'
    BY CheckpointStays
  <2>3. \A cp \in CheckpointSet : IsCheckpoint(cp) =>
          \/ cp = NoCheckpoint
          \/ /\ cp.fingerprint \in 1..created' /\ cp.inode = inode'[cp.fingerprint]
             /\ cp.offset \in 1..lines'[cp.fingerprint]
             /\ KindOf[<<cp.fingerprint, cp.offset>>] \notin {"part", "long"}
    BY <2>2 DEF IsCheckpoint
  <2> QED BY <2>1, <2>3 DEF IsCheckpoint
<1>2. fd' <= created'
  BY TypeFacts DEF Grows, PositionInv
<1>3. fd' # 0 => offset' <= lines'[fd']
  <2>1. fd # 0 => fd \in File
    BY DEF TailTypeOK
  <2> QED BY <2>1, TypeFacts DEF Grows, PositionInv
<1> QED BY <1>1, <1>2, <1>3 DEF PositionInv

\* The tailer has left the file, and what it knew of it.
Nowhere ==
  /\ fd' = 0 /\ offset' = 0 /\ commit' = NoCheckpoint /\ pending' = NothingPending
  /\ memory' = NoCheckpoint /\ saved' \in {saved, memory}

LEMMA PositionStep ==
  ASSUME TailTypeOK, FilesInv, PositionInv, [Next]_vars
  PROVE  PositionInv'
<1>0. Grows
  BY GrowsStep
<1>1. CASE Environment
  BY <1>0, <1>1, EnvironmentUnchanged, PositionKept DEF logFile, checkpoint, PositionInv
<1>2. CASE StartRead \/ NoLines \/ StatusOfExisting \/ StatusOfMissing \/ ReadRotatedAgain
  <2>1. UNCHANGED <<fd, offset, commit, pending, memory, saved>>
    BY <1>2 DEF StartRead, NoLines, StatusOfExisting, StatusOfMissing, ReadRotatedAgain, logFile, checkpoint
  <2>2. pc' \in {"idle", "open", "down"} => pc \in {"idle", "open", "down"}
    BY <1>2 DEF StartRead, NoLines, StatusOfExisting, StatusOfMissing, ReadRotatedAgain
  <2> QED BY <1>0, <2>1, <2>2, PositionKept DEF PositionInv
<1>3. CASE Stop \/ SyncCheckpoints \/ Start \/ UNCHANGED vars
  <2>1. /\ UNCHANGED <<fd, offset, commit, pending>>
        /\ memory' \in {memory, saved} /\ saved' \in {saved, memory}
    BY <1>3 DEF Stop, SyncCheckpoints, Start, vars, logFile, checkpoint
  <2>2. pc' \in {"idle", "open", "down"} => pc \in {"idle", "open", "down"}
    BY <1>3 DEF Stop, SyncCheckpoints, Start, vars
  <2> QED BY <1>0, <2>1, <2>2, PositionKept DEF PositionInv
<1>4. CASE OpenLogFile
  <2>1. UNCHANGED log /\ saved' = saved /\ pc' = "read" /\ pending' = NothingPending
    BY <1>4 DEF OpenLogFile
  <2>2. commit' \in CheckpointSet /\ IsCheckpoint(commit')
    BY <1>4, OpenFacts, NoCheckpointFacts DEF PositionInv, TailTypeOK
  <2>3. created' = created /\ lines' = lines /\ inode' = inode
    BY <2>1 DEF log
  <2>4. fd' <= created' /\ (fd' # 0 => offset' <= lines'[fd'])
    <3>1. CASE fd' = 0
      BY <2>3, <3>1, TypeFacts
    <3>2. CASE fd' # 0
      <4>1. commit' # NoCheckpoint /\ fd' = commit'.fingerprint /\ offset' = commit'.offset
        BY <1>4, <3>2, OpenFacts
      <4> QED BY <2>2, <2>3, <4>1, CheckpointFacts
    <3> QED BY <3>1, <3>2
  <2>5. fd' = 0 => offset' = 0 /\ commit' = NoCheckpoint /\ pending' = NothingPending
    BY <1>4, <2>1, OpenFacts, NoCheckpointFacts
  <2>6. IsCheckpoint(saved) /\ memory' = commit'
    BY <1>4, OpenFacts DEF PositionInv
  <2>7. IsCheckpoint(commit)' /\ IsCheckpoint(memory)' /\ IsCheckpoint(saved)'
    BY <2>1, <2>2, <2>3, <2>6 DEF IsCheckpoint
  <2> QED BY <2>1, <2>4, <2>5, <2>7 DEF PositionInv, NothingPending
<1>5. CASE Reopen /\ (FirstOpen \/ OpenRotated \/ ReopenRotated)
  <2>1. UNCHANGED <<commit, pending, saved>> /\ memory' \in {memory, commit}
        /\ pc' \in {"read", "rotated"} /\ UNCHANGED log
    BY <1>5, ReopenType DEF FirstOpen, OpenRotated, ReopenRotated, checkpoint
  <2>2. created' = created /\ lines' = lines /\ inode' = inode
    BY <2>1 DEF log
  <2>3. fd' = created /\ fd' # 0 /\ fd' \in File /\ offset' = 0
    BY <1>5, ReopenType
  <2>4. IsCheckpoint(commit)' /\ IsCheckpoint(memory)' /\ IsCheckpoint(saved)'
    BY <2>1, <2>2 DEF PositionInv, IsCheckpoint
  <2> QED BY <2>1, <2>2, <2>3, <2>4, TypeFacts DEF PositionInv
<1>6. CASE ~Reopen /\ (OpenRotated \/ ReopenRotated)
  <2>1. UNCHANGED <<fd, offset, commit, pending, memory, saved>> /\ pc' \in {"read", "reopen"}
    BY <1>6 DEF OpenRotated, ReopenRotated, checkpoint
  <2> QED BY <1>0, <2>1, PositionKept
<1>7. CASE TakeLines /\ (ReadLines \/ ReadRotated)
  <2>1. /\ fd # 0 /\ fd' = fd /\ saved' = saved /\ memory' \in {memory, commit'}
        /\ pc' \notin {"idle", "open", "down"} /\ UNCHANGED log
    BY <1>7 DEF ReadLines, ReadRotated, checkpoint
  <2>2. created' = created /\ lines' = lines /\ inode' = inode
    BY <2>1 DEF log
  <2>3. IsCheckpoint(commit') /\ offset' = lines[fd]
    BY <1>7, <2>1, TakeLinesFacts
  <2>4. IsCheckpoint(commit)' /\ IsCheckpoint(memory)' /\ IsCheckpoint(saved)'
    BY <2>1, <2>2, <2>3 DEF PositionInv, IsCheckpoint
  <2>5. fd \in File
    BY <2>1 DEF TailTypeOK
  <2>6. lines[fd] <= lines[fd] /\ fd <= created
    BY <2>5, TypeFacts DEF PositionInv
  <2> QED BY <2>1, <2>2, <2>3, <2>4, <2>6 DEF PositionInv
<1>8. CASE ~TakeLines /\ (ReadLines \/ ReadRotated)
  <2>1. UNCHANGED <<fd, offset, commit, pending, memory, saved>> /\ pc' = "reopen"
    BY <1>8 DEF ReadLines, ReadRotated, checkpoint
  <2> QED BY <1>0, <2>1, PositionKept
<1>9. CASE StatusByLinks /\ pc' = "read"
  <2>1. UNCHANGED <<fd, offset, commit, pending, memory, saved>>
    BY <1>9 DEF StatusByLinks, logFile
  <2> QED BY <1>0, <1>9, <2>1, PositionKept
<1>10. CASE (StatusByLinks /\ pc' # "read") \/ EndStop \/ Crash
  <2>1. Nowhere
    BY <1>10 DEF StatusByLinks, EndStop, Crash, Forget, Nowhere
  <2>2. UNCHANGED log
    BY <1>10 DEF StatusByLinks, EndStop, Crash
  <2>3. IsCheckpoint(commit)' /\ IsCheckpoint(memory)' /\ IsCheckpoint(saved)'
    BY <2>1, <2>2, NoCheckpointFacts DEF Nowhere, PositionInv, IsCheckpoint, log
  <2>4. fd' <= created'
    BY <2>1, <2>2, TypeFacts DEF Nowhere, log
  <2> QED BY <2>1, <2>3, <2>4 DEF Nowhere, PositionInv, NothingPending
<1> QED BY <1>1, <1>2, <1>3, <1>4, <1>5, <1>6, <1>7, <1>8, <1>9, <1>10 DEF Next, Process, FirstOpen

-----------------------------------------------------------------------------
(* A file is left when nothing can be added to it *)

\* A file which the application has left isn't written to.
LEMMA AbandonedFacts ==
  ASSUME TailTypeOK, FilesInv, Grows, NEW f \in File, Abandoned(f)
  PROVE  /\ Abandoned(f)' /\ lines'[f] = lines[f] /\ (f \in half <=> f \in half')
         /\ f < created
<1>1. PICK g \in File : g > f /\ ~Empty(g)
  BY DEF Abandoned
<1>2. ~Writable(f)
  BY <1>1 DEF Writable
<1>3. ~Empty(g)'
  BY <1>1 DEF Grows
<1>4. g <= created
  BY <1>1, CreatedFacts
<1>5. f < created
  BY <1>1, <1>4, LineFacts, TypeFacts
<1> QED BY <1>1, <1>2, <1>3, <1>5 DEF Grows, Abandoned

\* A file is abandoned once the log, another file, isn't empty.
LEMMA AbandonedByLog ==
  ASSUME TailTypeOK, FilesInv, NEW f \in File, Log # 0, f <= created, f # Log, ~Empty(Log)
  PROVE  Abandoned(f)
<1>1. Log \in File /\ Log = created
  BY LogFacts
<1>2. Log > f
  BY <1>1, LineFacts
<1> QED BY <1>1, <1>2 DEF Abandoned

\* The other files which are opened were left before this one, or are given up.
LEMMA ReopenFacts ==
  ASSUME TailTypeOK, FilesInv, PositionInv, TurnInv, Reopen, UNCHANGED log,
         (pc \in {"rotated", "reopen"} /\ (pc = "rotated" => fd = 0)) \/ (pc = "read" /\ fd = 0)
  PROVE  /\ \A f \in opened' \ forgiven' : f # Log => fd # 0 /\ f \in opened \ forgiven /\ f <= fd
                                                        /\ Abandoned(f)
         /\ fd < Log
         /\ fd # 0 => pc = "reopen" /\ ~HasUnread(fd)
<1>0. /\ opened' = opened \cup {Log}
      /\ forgiven' = (forgiven \cup IF fd = 0 THEN {} ELSE {f \in File : fd < f /\ f < Log}) \ {Log}
      /\ Log \in File /\ Log = created /\ Log # 0
  BY ReopenType DEF Reopen
<1>1. CASE fd = 0
  <2>1. opened \subseteq forgiven
    BY <1>1 DEF TurnInv
  <2>2. fd < Log
    <3>1. Log \in Nat /\ Log # 0
      BY <1>0, LineFacts
    <3> QED BY <1>1, <3>1
  <2> QED BY <1>0, <1>1, <2>1, <2>2
<1>2. CASE fd # 0
  <2>1. pc = "reopen" /\ fd \in File /\ Abandoned(fd) /\ ~HasUnread(fd)
    BY <1>2 DEF TurnInv, TailTypeOK
  <2>2. fd < Log
    <3>1. PICK g \in File : g > fd /\ ~Empty(g)
      BY <2>1 DEF Abandoned
    <3>2. g <= created
      BY <3>1, CreatedFacts
    <3> QED BY <1>0, <2>1, <3>1, <3>2, LineFacts
  <2>3. ASSUME NEW f \in opened' \ forgiven', f # Log
        PROVE  f \in opened \ forgiven /\ f <= fd /\ Abandoned(f)
    <3>1. f \in opened /\ f \notin forgiven /\ f \in File /\ ~(fd < f /\ f < Log)
      <4>1. f \in opened
        BY <1>0, <2>3
      <4>2. f \in File
        BY <4>1 DEF TailTypeOK
      <4> QED BY <1>0, <1>2, <2>3, <4>1, <4>2
    <3>2. f < Log
      <4>1. f <= created
        BY <3>1, TypeFacts DEF FilesInv
      <4> QED BY <1>0, <2>3, <3>1, <4>1, LineFacts
    <3>3. f <= fd
      BY <2>1, <3>1, <3>2, LineFacts
    <3>4. f < fd => Abandoned(f)
      BY <3>1 DEF TurnInv
    <3>5. f < fd \/ f = fd
      BY <2>1, <3>1, <3>3, LineFacts
    <3> QED BY <2>1, <3>1, <3>3, <3>4, <3>5
  <2> QED BY <1>2, <2>1, <2>2, <2>3
<1> QED BY <1>1, <1>2

\* The tailer stays where it is; a file is written to only if it wasn't left.
LEMMA TurnKept ==
  ASSUME TailTypeOK, FilesInv, PositionInv, TurnInv, Grows, TailTypeOK',
         UNCHANGED <<fd, offset, tail, opened, forgiven>>,
         pc' # "panic",
         pc' \in {"rotated", "rotated twice", "reopen"} => fd # 0 /\ Abandoned(fd),
         pc' \in {"rotated twice", "reopen"} => ~HasUnread(fd),
         pc' \notin {"idle", "open", "down"} => pc \notin {"idle", "open", "down"}
  PROVE  TurnInv'
<1>1. pc' \in {"rotated", "rotated twice", "reopen"} => fd' # 0 /\ Abandoned(fd)'
  <2>1. fd # 0 => fd \in File
    BY DEF TailTypeOK
  <2> QED BY <2>1, AbandonedFacts DEF Abandoned, Empty
<1>2. pc' \in {"rotated twice", "reopen"} => ~HasUnread(fd)'
  <2> SUFFICES ASSUME pc' \in {"rotated twice", "reopen"} PROVE ~HasUnread(fd)'
    OBVIOUS
  <2>1. fd # 0 /\ fd \in File /\ Abandoned(fd) /\ ~HasUnread(fd)
    BY DEF TailTypeOK
  <2>2. lines'[fd] = lines[fd] /\ (fd \in half <=> fd \in half')
    BY <2>1, AbandonedFacts
  <2> QED BY <2>1, <2>2 DEF HasUnread
<1>3. ASSUME NEW f \in opened' \ forgiven', f < fd' PROVE Abandoned(f)'
  <2>1. f \in opened \ forgiven /\ f < fd /\ f \in File
    BY <1>3 DEF TailTypeOK
  <2>2. Abandoned(f)
    BY <2>1 DEF TurnInv
  <2> QED BY <2>1, <2>2, AbandonedFacts
<1>4. fd' = 0 /\ pc' \notin {"idle", "open", "down"} => opened' \subseteq forgiven'
  BY DEF TurnInv
<1> QED BY <1>1, <1>2, <1>3, <1>4 DEF TurnInv

\* What was unusual is remembered.
LEMMA UnusualStays ==
  ASSUME TailTypeOK, [Next]_vars
  PROVE  /\ lateFile => lateFile'
         /\ NothingUnusual' => NothingUnusual
<1>1. (lateFile => lateFile') /\ (notReopened => notReopened') /\ crashes' \in {crashes, crashes + 1}
  <2>1. CASE StartRead \/ OpenLogFile \/ FirstOpen \/ ReadLines \/ NoLines
    BY <2>1 DEF StartRead, OpenLogFile, FirstOpen, ReadLines, NoLines, history, bounds
  <2>2. CASE StatusOfMissing \/ StatusByLinks \/ ReadRotated
    <3>1. lateFile' = lateFile /\ notReopened' = notReopened /\ crashes' = crashes
      BY <2>2 DEF StatusOfMissing, StatusByLinks, ReadRotated, history, bounds
    <3> QED BY <3>1
  <2>3. CASE OpenRotated \/ ReadRotatedAgain \/ EndStop \/ Start
    <3>1. lateFile' = lateFile /\ notReopened' = notReopened /\ crashes' = crashes
      BY <2>3 DEF OpenRotated, ReadRotatedAgain, EndStop, Start, history, bounds
    <3> QED BY <3>1
  <2>6. CASE StatusOfExisting
    <3>1. notReopened' = notReopened /\ crashes' = crashes
      BY <2>6 DEF StatusOfExisting, bounds
    <3>2. lateFile' = (lateFile \/ (IsRotated /\ fd = 0))
      BY <2>6 DEF StatusOfExisting
    <3> QED BY <3>1, <3>2
  <2>7. CASE ReopenRotated
    <3>1. lateFile' = lateFile /\ crashes' = crashes /\ (notReopened' = notReopened \/ notReopened' = TRUE)
      BY <2>7 DEF ReopenRotated, bounds
    <3> QED BY <3>1
  <2>4. CASE Environment
    BY <2>4, EnvironmentUnchanged DEF history, bounds
  <2>5. CASE SyncCheckpoints \/ Stop \/ Crash \/ UNCHANGED vars
    BY <2>5 DEF SyncCheckpoints, Stop, Crash, vars, history, bounds
  <2> QED BY <2>1, <2>2, <2>3, <2>4, <2>5, <2>6, <2>7 DEF Next, Process
<1>2. crashes \in Nat
  <2>1. crashes \in 0..MaxCrashes
    BY DEF TailTypeOK
  <2> QED BY <2>1
<1>3. crashes' = 0 => crashes = 0
  BY <1>1, <1>2
<1> QED BY <1>1, <1>3 DEF NothingUnusual

LEMMA TurnStep ==
  ASSUME TailTypeOK, FilesInv, PositionInv, TailTypeOK', [Next]_vars,
         lateFile \/ TurnInv
  PROVE  lateFile' \/ TurnInv'
<1> SUFFICES ASSUME ~lateFile' PROVE TurnInv'
  OBVIOUS
<1>0. Grows
  BY GrowsStep
<1>a. lateFile => lateFile'
  BY UnusualStays
<1>b. TurnInv
  BY <1>a
<1>1. CASE Environment
  BY <1>0, <1>1, <1>b, EnvironmentUnchanged, TurnKept DEF logFile, history, TurnInv
<1>2. CASE StartRead \/ NoLines \/ StatusOfMissing \/ ReadRotatedAgain
  <2>1. UNCHANGED <<fd, offset, tail, opened, forgiven>>
    BY <1>2 DEF StartRead, NoLines, StatusOfMissing, ReadRotatedAgain, logFile, history
  <2>2. CASE StartRead \/ NoLines \/ StatusOfMissing
    <3>1. pc' \in {"open", "status", "read", "links"}
          /\ (pc' \notin {"idle", "open", "down"} => pc \notin {"idle", "open", "down"})
      BY <2>2 DEF StartRead, NoLines, StatusOfMissing
    <3> QED BY <1>0, <1>b, <2>1, <3>1, TurnKept
  <2>3. CASE ReadRotatedAgain
    <3>1. pc = "rotated twice" /\ ~HasUnread(fd) /\ pc' = "reopen"
      BY <1>b, <2>3 DEF ReadRotatedAgain, TurnInv
    <3> QED BY <1>0, <1>b, <2>1, <3>1, TurnKept DEF TurnInv
  <2> QED BY <1>2, <2>2, <2>3
<1>3. CASE Stop \/ SyncCheckpoints \/ UNCHANGED vars
  <2>1. UNCHANGED <<pc, fd, offset, tail, opened, forgiven>>
    BY <1>3 DEF Stop, SyncCheckpoints, vars, logFile, history
  <2> QED BY <1>0, <1>b, <2>1, TurnKept DEF TurnInv
<1>4. CASE Start
  <2>1. UNCHANGED <<fd, offset, tail, opened, forgiven>> /\ pc' = "idle"
    BY <1>4 DEF Start, logFile, history
  <2> QED BY <1>0, <1>b, <2>1, TurnKept
<1>5. CASE StatusOfExisting
  <2>1. UNCHANGED <<fd, offset, tail, opened, forgiven>> /\ pc = "status" /\ pc' \in {"rotated", "read"}
        /\ Log # 0 /\ (pc' = "rotated" => IsRotated /\ fd # 0)
    BY <1>5 DEF StatusOfExisting, logFile
  <2>2. pc' = "rotated" => fd # 0 /\ Abandoned(fd)
    <3> SUFFICES ASSUME pc' = "rotated" PROVE fd # 0 /\ Abandoned(fd)
      OBVIOUS
    <3>1. fd # 0 /\ fd \in File /\ fd <= created /\ offset <= lines[fd]
      BY <2>1 DEF TailTypeOK, PositionInv
    <3>2. ~Empty(Log) /\ (lines[Log] < offset \/ inode[Log] # inode[fd])
      BY <2>1 DEF IsRotated
    <3>3. Log # fd
      BY <3>1, <3>2, TypeFacts
    <3> QED BY <2>1, <3>1, <3>2, <3>3, AbandonedByLog
  <2> QED BY <1>0, <1>b, <2>1, <2>2, TurnKept
<1>6. CASE OpenLogFile
  <2>1. UNCHANGED <<place, lines, half, opened>> /\ pc' = "read"
        /\ forgiven' = IF Log = 0 \/ memory.fingerprint = 0 \/ place[memory.fingerprint] = "gone"
                       THEN 1..created ELSE forgiven
    BY <1>6 DEF OpenLogFile, log
  <2>2. CASE fd' = 0
    <3>1. opened' \subseteq forgiven'
      BY <1>6, <2>1, <2>2, OpenFacts DEF FilesInv
    <3>2. ASSUME NEW f \in opened' \ forgiven' PROVE FALSE
      BY <3>1, <3>2
    <3> QED BY <2>1, <2>2, <3>1, <3>2 DEF TurnInv
  <2>3. CASE fd' # 0
    <3>1. fd' = memory.fingerprint /\ memory # NoCheckpoint /\ memory \in CheckpointSet /\ IsCheckpoint(memory)
      BY <1>6, <2>3, OpenFacts DEF TailTypeOK, PositionInv
    <3>2. fd' \in File /\ memory.offset \in Nat /\ memory.offset # 0 /\ memory.offset <= lines[fd']
      BY <3>1, CheckpointFacts
    <3>3. lines'[fd'] # 0
      <4>1. lines[fd'] \in Nat
        BY <3>2, TypeFacts
      <4> QED BY <2>1, <3>2, <4>1
    <3>4. \A f \in opened' \ forgiven' : f < fd' => Abandoned(f)'
      <4> SUFFICES ASSUME NEW f \in opened' \ forgiven', f < fd' PROVE Abandoned(f)'
        OBVIOUS
      <4>1. f \in File
        BY DEF TailTypeOK
      <4>2. fd' > f
        BY <3>2, <4>1, LineFacts
      <4> QED BY <3>2, <3>3, <4>2 DEF Abandoned, Empty
    <3> QED BY <2>1, <2>3, <3>4 DEF TurnInv
  <2> QED BY <2>2, <2>3
<1>7. CASE Reopen /\ (FirstOpen \/ OpenRotated \/ ReopenRotated)
  <2>1. UNCHANGED log /\ pc' \in {"read", "rotated"} /\ (pc' = "rotated" => pc = "rotated" /\ fd = 0)
        /\ ((pc \in {"rotated", "reopen"} /\ (pc = "rotated" => fd = 0)) \/ (pc = "read" /\ fd = 0))
    BY <1>7, ReopenType DEF FirstOpen, OpenRotated, ReopenRotated
  <2>2. pc' # "rotated"
    BY <1>b, <2>1 DEF TurnInv
  <2>3. \A f \in opened' \ forgiven' : f # Log => f \in File /\ Abandoned(f)
    BY <1>7, <1>b, <2>1, ReopenFacts DEF TailTypeOK
  <2>4. fd' = Log /\ Log \in File
    BY <1>7, ReopenType
  <2>5. \A f \in opened' \ forgiven' : f < fd' => Abandoned(f)'
    <3> SUFFICES ASSUME NEW f \in opened' \ forgiven', f < fd' PROVE Abandoned(f)'
      OBVIOUS
    <3>1. f # Log
      BY <2>4, LineFacts
    <3> QED BY <1>0, <2>3, <3>1, AbandonedFacts
  <2> QED BY <2>1, <2>2, <2>4, <2>5, LineFacts DEF TurnInv
<1>8. CASE ~Reopen /\ (OpenRotated \/ ReopenRotated)
  <2>1. CASE OpenRotated
    <3>1. pc = "rotated" /\ fd = 0
      BY <2>1 DEF OpenRotated
    <3> QED BY <1>b, <3>1 DEF TurnInv
  <2>2. CASE ReopenRotated
    <3>1. UNCHANGED <<fd, offset, opened, forgiven>> /\ pc = "reopen" /\ pc' = "read"
      BY <1>8, <2>2 DEF ReopenRotated
    <3>2. fd # 0
      BY <1>b, <3>1 DEF TurnInv
    <3>3. ASSUME NEW f \in opened' \ forgiven', f < fd' PROVE Abandoned(f)'
      <4>1. f \in opened \ forgiven /\ f < fd /\ f \in File
        BY <3>1, <3>3 DEF TailTypeOK
      <4> QED BY <1>0, <1>b, <4>1, AbandonedFacts DEF TurnInv
    <3> QED BY <3>1, <3>2, <3>3 DEF TurnInv
  <2> QED BY <1>8, <2>1, <2>2
<1>9. CASE TakeLines /\ (ReadLines \/ ReadRotated)
  <2>1. /\ fd # 0 /\ UNCHANGED <<fd, opened, forgiven>> /\ UNCHANGED log
        /\ pc \in {"read", "rotated"} /\ pc' \in {"read", "rotated twice", "reopen"} 
        /\ (pc = "read" => pc' = "read")
    BY <1>9 DEF ReadLines, ReadRotated
  <2>2. fd \in File /\ offset' = lines[fd] /\ tail' = (fd \in half)
    BY <1>9, <2>1, TakeLinesFacts DEF TailTypeOK
  <2>3. lines' = lines /\ half' = half
    BY <2>1 DEF log
  <2>4. ~HasUnread(fd)'
    <3>1. ~(lines[fd] < lines[fd])
      BY <2>2, TypeFacts
    <3> QED BY <2>1, <2>2, <2>3, <3>1 DEF HasUnread
  <2>5. pc' \in {"rotated twice", "reopen"} => Abandoned(fd)
    BY <1>b, <2>1 DEF TurnInv
  <2>6. Abandoned(fd) => Abandoned(fd)'
    BY <1>0, <2>1, <2>2, <2>3 DEF Abandoned, Empty
  <2>7. ASSUME NEW f \in opened' \ forgiven', f < fd' PROVE Abandoned(f)'
    <3>1. f \in opened \ forgiven /\ f < fd /\ f \in File
      BY <2>1, <2>7 DEF TailTypeOK
    <3> QED BY <1>0, <1>b, <3>1, AbandonedFacts DEF TurnInv
  <2> QED BY <2>1, <2>4, <2>5, <2>6, <2>7 DEF TurnInv
<1>10. CASE ~TakeLines /\ (ReadLines \/ ReadRotated)
  <2>1. UNCHANGED <<fd, offset, tail, opened, forgiven>> /\ pc = "rotated" /\ pc' = "reopen" /\ ~HasUnread(fd)
    BY <1>10 DEF ReadLines, ReadRotated
  <2> QED BY <1>0, <1>b, <2>1, TurnKept DEF TurnInv
<1>11. CASE StatusByLinks /\ pc' = "read"
  <2>1. UNCHANGED <<fd, offset, tail, opened, forgiven>> /\ pc = "links"
    BY <1>11 DEF StatusByLinks, logFile
  <2> QED BY <1>0, <1>11, <1>b, <2>1, TurnKept
<1>12. CASE (StatusByLinks /\ pc' # "read") \/ EndStop \/ Crash
  <2>1. fd' = 0 /\ pc' \in {"idle", "down"}
    BY <1>12 DEF StatusByLinks, EndStop, Crash, Forget
  <2>2. opened' \subseteq File
    BY DEF TailTypeOK
  <2>3. \A f \in opened' : ~(f < 0)
    BY <2>2, LineFacts
  <2> QED BY <2>1, <2>3 DEF TurnInv
<1> QED BY <1>1, <1>2, <1>3, <1>4, <1>5, <1>6, <1>7, <1>8, <1>9, <1>10, <1>11, <1>12
   DEF Next, Process, FirstOpen

\* The file, its position, and when it is left.
TailBase == TailTypeOK /\ FilesInv /\ PositionInv /\ (lateFile \/ TurnInv)

LEMMA BaseInit == Init => TailBase /\ TurnInv
<1> SUFFICES ASSUME Init PROVE TailBase /\ TurnInv
  OBVIOUS
<1>1. TailTypeOK
  <2>1. created \in 0..FilesCount /\ offset \in 0..LinesCount /\ stops \in 0..MaxStops /\ crashes \in 0..MaxCrashes
    BY FileAssumption DEF Init
  <2>2. lines \in [File -> 0..LinesCount]
    BY FileAssumption DEF Init
  <2> QED BY <2>1, <2>2, NoCheckpointFacts DEF Init, TailTypeOK
<1>2. FilesInv
  <2>1. \A f \in File : f \in Nat /\ f # 0
    BY LineFacts
  <2> QED BY <2>1 DEF Init, FilesInv, Empty
<1>3. PositionInv
  BY NoCheckpointFacts DEF Init, PositionInv
<1>4. TurnInv
  BY LineFacts DEF Init, TurnInv
<1> QED BY <1>1, <1>2, <1>3, <1>4 DEF TailBase

LEMMA BaseStep == TailBase /\ [Next]_vars => TailBase'
BY TypeStep, FilesStep, PositionStep, TurnStep DEF TailBase

\* A file is read from a position which is in it, the checkpoint is behind a line of it which
\* is neither a part nor longer than the parser allows (an invalid line moves it as the last
\* line of an entry does), and, unless the file appeared while it was checked, it is left for
\* the next one when it can't be appended to any more: lf.readLines() of tail/tailer.go can't
\* meet "BUG: log file %q was appended after rotation" then.
THEOREM TailBaseHolds == Spec => []TailBase
BY BaseInit, BaseStep, PTL DEF Spec

THEOREM PanicsOnlyLate == Spec => [](pc = "panic" => lateFile)
<1>1. TailBase => (pc = "panic" => lateFile)
  BY DEF TailBase, TurnInv
<1> QED BY <1>1, TailBaseHolds, PTL

-----------------------------------------------------------------------------
(* No line is lost, and no entry is torn, when nothing comes between its lines *)

\* A log which splits entries belongs to one stream, and has neither entries of Docker nor
\* lines without content between their parts: each moves the checkpoint over what is kept.
Unmixed ==
  \A l, m \in Line :
    KindOf[l] = "part" => StreamOf[m] = StreamOf[l] /\ KindOf[m] \notin {"json", "void"}

\* What is reached was settled, or is pending.
LEMMA ReachedFacts ==
  ASSUME TailTypeOK, NEW s \in ProcessedSet, NEW k, Complete(s, k), NEW l \in Line, Reached(k, l)
  PROVE  Skipped(l) \/ s.sent[l] > 0 \/ l \in s.dropped \/ \E t \in Stream : l \in s.pending[t]
<1>1. Skipped(l) \/ BehindOf(s.commit, l) \/ \E t \in Stream : l \in s.pending[t]
  BY DEF Complete
<1>2. CASE BehindOf(s.commit, l)
  <2>1. l[1] = s.commit.fingerprint \/ (l[1] \in opened \ forgiven /\ l[2] <= lines[l[1]])
    <3>1. CASE l[1] = s.commit.fingerprint
      BY <3>1
    <3>2. CASE l[1] # s.commit.fingerprint
      <4>1. l[1] < s.commit.fingerprint
        BY <1>2, <3>2 DEF BehindOf
      <4>2. s.commit.fingerprint < fd \/ s.commit.fingerprint = fd
        BY DEF Complete
      <4>3. s.commit.fingerprint \in File \cup {0}
        BY DEF ProcessedSet, CheckpointSet
      <4>4. s.commit.fingerprint \in Nat /\ fd \in Nat /\ l[1] \in Nat
        <5>1. \A f \in File \cup {0} : f \in Nat
          BY LineFacts
        <5> QED BY <4>3, <5>1, LineFacts, TypeFacts
      <4>5. l[1] # fd
        BY <4>1, <4>2, <4>4
      <4> QED BY <4>5 DEF Reached
    <3> QED BY <3>1, <3>2
  <2> QED BY <1>2, <2>1 DEF Complete, Settled
<1> QED BY <1>1, <1>2

\* Lines which are before k, in its file or an earlier one.
LinesBefore(k) == {m \in Line : m[2] <= lines[m[1]] /\ IsBefore(m, k)}

\* The entry which ends with l begins behind such a line.
Ends(k, l) == KindOf[k] = "invalid" \/ (KindOf[k] = "full" /\ StreamOf[k] = StreamOf[l])

LEMMA EntryFacts ==
  ASSUME NEW l, NEW m \in EntryOf(l), m # l
  PROVE  /\ m \in LinesBefore(l) /\ KindOf[m] = "part" /\ StreamOf[m] = StreamOf[l]
         /\ \A p \in LinesBefore(l) : Ends(p, l) => p \in LinesBefore(m)
<1>1. EntryOf(l) = {q \in LinesBefore(l) :
                      /\ KindOf[q] = "part" /\ StreamOf[q] = StreamOf[l]
                      /\ \A p \in LinesBefore(l) : Ends(p, l) => p \in LinesBefore(q)} \cup {l}
  BY DEF EntryOf, LinesBefore, Ends
<1> QED BY <1>1

\* Lines of the entry which ends with a line of the open file are reached before it.
LEMMA EntryIsWhole ==
  ASSUME Unmixed, Reads, NEW s \in ProcessedSet, NEW k \in Nat, Complete(s, k), IsCheckpoint(s.commit),
         NEW l \in Line, l[1] = fd, l[2] = k + 1
  PROVE  Whole(s, l)
<1> SUFFICES ASSUME NEW m \in EntryOf(l), m[1] \in opened \ forgiven, m # l PROVE m \in Entry(s, l)
  BY DEF Whole, Entry
<1> DEFINE c == s.commit
           cl == <<c.fingerprint, c.offset>>
<1>1. /\ m \in LinesBefore(l) /\ KindOf[m] = "part" /\ StreamOf[m] = StreamOf[l]
      /\ \A p \in LinesBefore(l) : Ends(p, l) => p \in LinesBefore(m)
  BY EntryFacts
<1>2. m \in Line /\ m[2] <= lines[m[1]] /\ (m[1] < fd \/ (m[1] = fd /\ m[2] < k + 1))
  <2>1. m \in Line /\ m[2] <= lines[m[1]] /\ IsBefore(m, l)
    BY <1>1 DEF LinesBefore
  <2> QED BY <2>1 DEF IsBefore
<1>3. m[1] \in File /\ m[2] \in Nat /\ m[1] \in Nat
  BY <1>2, LineFacts
<1>4. Reached(k, m)
  BY <1>2, <1>3 DEF Reached
<1>5. ~BehindOf(c, m)
  <2> SUFFICES ASSUME BehindOf(c, m) PROVE FALSE
    OBVIOUS
  <2>1. c # NoCheckpoint
    BY <1>3, LineFacts, NoCheckpointFacts DEF BehindOf
  <2>2. c \in CheckpointSet /\ TailTypeOK /\ FilesInv
    BY DEF ProcessedSet, Reads
  <2>3. /\ c.fingerprint \in File /\ c.offset \in Nat /\ c.offset <= lines[c.fingerprint]
        /\ cl \in Line /\ KindOf[cl] \notin {"part", "long"}
    BY <2>1, <2>2, CheckpointFacts
  <2>4. c.fingerprint < fd \/ (c.fingerprint = fd /\ c.offset <= k)
    BY DEF Complete
  <2>5. Ends(cl, l)
    <3>1. StreamOf[cl] = StreamOf[l] /\ KindOf[cl] \notin {"json", "void"}
      BY <1>1, <1>2, <2>3 DEF Unmixed
    <3>2. KindOf[cl] \in {"full", "invalid"}
      BY <2>3, <3>1, KindCases
    <3> QED BY <3>1, <3>2 DEF Ends
  <2>6. c.fingerprint < l[1] \/ (c.fingerprint = l[1] /\ c.offset < l[2])
    BY <2>3, <2>4
  <2>7. cl \in LinesBefore(l)
    BY <2>3, <2>6 DEF LinesBefore, IsBefore
  <2>8. cl \in LinesBefore(m)
    BY <1>1, <2>5, <2>7
  <2>9. c.fingerprint < m[1] \/ (c.fingerprint = m[1] /\ c.offset < m[2])
    BY <2>8 DEF LinesBefore, IsBefore
  <2>10. c.fingerprint \in Nat
    BY <2>3, LineFacts
  <2> QED BY <1>3, <2>3, <2>9, <2>10 DEF BehindOf
<1>6. PICK t \in Stream : m \in s.pending[t]
  BY <1>1, <1>2, <1>4, <1>5 DEF Complete, Skipped
<1>7. t = StreamOf[l]
  BY <1>1, <1>6 DEF Complete
<1> QED BY <1>6, <1>7 DEF Entry

\* A larger entry doesn't fit either.
LEMMA TooLargeFacts ==
  ASSUME NEW S \in SUBSET Line, NEW T \in SUBSET S, TooLarge(T)
  PROVE  TooLarge(S)
<1>1. IsFiniteSet(1..FilesCount) /\ IsFiniteSet(1..LinesCount)
  BY FileAssumption, FS_Interval
<1>2. IsFiniteSet(Line)
  BY <1>1, FS_Product DEF Line, File
<1>3. IsFiniteSet(S)
  BY <1>2, FS_Subset
<1>4. IsFiniteSet(T) /\ Cardinality(T) <= Cardinality(S)
  BY <1>3, FS_Subset
<1>5. Cardinality(T) \in Nat /\ Cardinality(S) \in Nat
  BY <1>3, <1>4, FS_CardinalityType
<1> QED BY <1>4, <1>5, FileAssumption DEF TooLarge

\* What a line makes the processor give up has it behind it.
LEMMA DroppedFacts ==
  ASSUME Reads, NEW s \in ProcessedSet, NEW k \in Nat, Complete(s, k), NEW l \in Line, l[1] = fd, l[2] = k + 1
  PROVE  \A m \in DroppedWith(s, l) : GivenUp(m)
<1> DEFINE P == {q \in Line : KindOf[q] = "part" /\ StreamOf[q] = StreamOf[l] /\ IsBefore(q, l)} \cup {l}
<1>0. s.pending \in [Stream -> SUBSET Line] /\ StreamOf[l] \in Stream
  BY LineFacts DEF ProcessedSet
<1>1. ASSUME NEW t \in Stream, NEW m \in s.pending[t]
      PROVE  m \in Line /\ KindOf[m] = "part" /\ StreamOf[m] = t /\ IsBefore(m, l)
  <2>1. m \in Line /\ KindOf[m] = "part" /\ StreamOf[m] = t /\ (m[1] < fd \/ (m[1] = fd /\ m[2] <= k))
    BY <1>0, <1>1 DEF Complete
  <2>2. m[2] \in Nat
    BY <2>1, LineFacts
  <2> QED BY <2>1, <2>2 DEF IsBefore
<1>2. Entry(s, l) \subseteq P
  BY <1>0, <1>1 DEF Entry
<1>3. CASE KindOf[l] = "invalid"
  <2> SUFFICES ASSUME NEW m \in DroppedWith(s, l) PROVE GivenUp(m)
    OBVIOUS
  <2>1. PICK t \in Stream : m \in s.pending[t]
    BY <1>3, WithFacts
  <2> QED BY <1>1, <1>3, <2>1 DEF GivenUp
<1>4. CASE KindOf[l] = "full" /\ TooLarge(Entry(s, l))
  <2>1. TooLarge(P)
    BY <1>2, <1>4, TooLargeFacts
  <2> SUFFICES ASSUME NEW m \in DroppedWith(s, l) PROVE GivenUp(m)
    OBVIOUS
  <2>2. m \in P
    BY <1>2, <1>4, WithFacts
  <2>3. (m = l \/ (KindOf[m] = "part" /\ IsBefore(m, l))) /\ StreamOf[m] = StreamOf[l]
    BY <2>2
  <2> QED BY <1>4, <2>1, <2>3 DEF GivenUp
<1>5. CASE KindOf[l] # "invalid" /\ ~(KindOf[l] = "full" /\ TooLarge(Entry(s, l)))
  BY <1>5, WithFacts, KindCases
<1> QED BY <1>3, <1>4, <1>5

\* What is kept doesn't stay behind a checkpoint which moves over it.
LEMMA NothingStays ==
  ASSUME Unmixed, Reads, NEW s \in ProcessedSet, NEW k, Complete(s, k), NEW l \in Line,
         KindOf[l] \notin {"long", "part"}, NEW t \in Stream, NEW m \in s.pending[t]
  PROVE  m \in SentWith(s, l) \cup DroppedWith(s, l)
<1>1. m \in Line /\ KindOf[m] = "part" /\ StreamOf[m] = t
  BY DEF Complete, ProcessedSet
<1>2. StreamOf[l] = t /\ KindOf[l] \in {"full", "invalid"}
  BY <1>1, KindCases DEF Unmixed
<1>3. m \in Entry(s, l)
  BY <1>2 DEF Entry
<1>4. CASE KindOf[l] = "invalid"
  <2>1. m \in UNION {s.pending[u] : u \in Stream}
    OBVIOUS
  <2> QED BY <1>4, <2>1, WithFacts
<1>5. CASE KindOf[l] = "full"
  BY <1>3, <1>5, WithFacts
<1> QED BY <1>2, <1>4, <1>5

\* The next line is added.
LEMMA CompleteAdded ==
  ASSUME Unmixed, Reads, NEW s \in ProcessedSet, NEW k \in Nat, Complete(s, k), IsCheckpoint(s.commit),
         NEW l \in Line, l[1] = fd, l[2] = k + 1
  PROVE  Complete(AddLine(s, l), k + 1)
<1> DEFINE r == AddLine(s, l)
           w == StreamOf[l]
<1>1. fd \in Nat /\ fd # 0 /\ w \in Stream /\ l = <<fd, k + 1>>
  BY LineFacts, UnreadFacts DEF Line
<1>2. \A m \in Line : Reached(k + 1, m) => Reached(k, m) \/ m = l
  <2> SUFFICES ASSUME NEW m \in Line, Reached(k + 1, m), ~Reached(k, m) PROVE m = l
    OBVIOUS
  <2>1. m[1] = fd /\ m[2] <= k + 1 /\ ~(m[2] <= k)
    BY DEF Reached
  <2>2. m[2] \in Nat /\ m = <<m[1], m[2]>>
    BY LineFacts DEF Line
  <2> QED BY <1>1, <2>1, <2>2
<1>4. /\ s.pending \in [Stream -> SUBSET Line] /\ s.sent \in [Line -> Nat] /\ s.commit \in CheckpointSet
  BY DEF ProcessedSet
<1>5. s.commit.fingerprint < fd \/ (s.commit.fingerprint = fd /\ s.commit.offset <= k + 1)
  <2>1. s.commit.offset \in Nat
    BY <1>4, FileAssumption DEF CheckpointSet
  <2> QED BY <2>1 DEF Complete
<1>6. /\ r.commit = IF KindOf[l] \in {"long", "part"} THEN s.commit ELSE CheckpointAt(l)
      /\ r.sent = [m \in Line |-> IF m \in SentWith(s, l) THEN s.sent[m] + 1 ELSE s.sent[m]]
      /\ r.dropped = s.dropped \cup DroppedWith(s, l)
      /\ r.torn = s.torn \cup {m \in SentWith(s, l) : m = l /\ KindOf[l] = "full" /\ ~Whole(s, l)}
  BY AddFacts
<1>7. \A t \in Stream :
        r.pending[t] = IF KindOf[l] = "invalid" \/ (KindOf[l] = "full" /\ t = w) THEN {}
                       ELSE IF KindOf[l] = "part" /\ t = w THEN Entry(s, l) ELSE s.pending[t]
  <2>1. r.pending = PendingAfter(s, l)
    BY AddFacts
  <2> HIDE DEF r
  <2> QED BY <2>1, PendingFacts
<1> HIDE DEF r
<1>8. r.torn = {}
  BY <1>6, EntryIsWhole DEF Complete
<1>9. \A m \in r.dropped : GivenUp(m)
  BY <1>6, DroppedFacts DEF Complete
<1>10. ASSUME NEW t \in Stream, NEW m \in r.pending[t]
       PROVE  KindOf[m] = "part" /\ StreamOf[m] = t /\ (m[1] < fd \/ (m[1] = fd /\ m[2] <= k + 1))
  <2>1. m \in s.pending[t] \/ (m = l /\ t = w /\ KindOf[l] = "part")
    BY <1>7, <1>10 DEF Entry
  <2>2. CASE m \in s.pending[t]
    <3>1. KindOf[m] = "part" /\ StreamOf[m] = t /\ (m[1] < fd \/ (m[1] = fd /\ m[2] <= k))
      BY <2>2 DEF Complete
    <3>2. m[2] \in Nat
      BY <1>4, <2>2, LineFacts
    <3> QED BY <3>1, <3>2
  <2>3. CASE m = l /\ t = w /\ KindOf[l] = "part"
    BY <1>1, <2>3
  <2> QED BY <2>1, <2>2, <2>3
<1>11. \A m \in Line : s.sent[m] \in Nat /\ (r.sent[m] = s.sent[m] \/ r.sent[m] = s.sent[m] + 1)
  BY <1>4, <1>6
<1>12. \A m \in Line : s.sent[m] > 0 => r.sent[m] > 0
  BY <1>11
<1>13. CASE KindOf[l] \in {"long", "part"}
  <2>1. r.commit = s.commit
    BY <1>6, <1>13
  <2>2. \A m \in Line : Reached(k + 1, m) =>
          Skipped(m) \/ BehindOf(s.commit, m) \/ \E t \in Stream : m \in r.pending[t]
    <3> SUFFICES ASSUME NEW m \in Line, Reached(k + 1, m), ~Skipped(m), ~BehindOf(s.commit, m)
                 PROVE  \E t \in Stream : m \in r.pending[t]
      OBVIOUS
    <3>1. \A t \in Stream : s.pending[t] \subseteq r.pending[t]
      BY <1>7, <1>13 DEF Entry
    <3>2. CASE m = l
      <4>1. r.pending[w] = Entry(s, l)
        BY <1>1, <1>7, <1>13, <3>2 DEF Skipped
      <4> QED BY <1>1, <3>2, <4>1 DEF Entry
    <3>3. CASE Reached(k, m)
      BY <3>1, <3>3 DEF Complete
    <3> QED BY <1>2, <3>2, <3>3
  <2>3. Settled(r.commit, r)
    <3>1. Settled(s.commit, s)
      BY DEF Complete
    <3> QED BY <1>6, <1>12, <2>1, <3>1 DEF Settled
  <2>4. Complete(r, k + 1)
    BY <1>5, <1>8, <1>9, <1>10, <2>1, <2>2, <2>3 DEF Complete
  <2> QED BY <2>4 DEF r
<1>14. CASE KindOf[l] \notin {"long", "part"}
  <2>1. r.commit.fingerprint = fd /\ r.commit.offset = k + 1
    BY <1>6, <1>14 DEF CheckpointAt
  <2>2. \A m \in Line : Reached(k + 1, m) => BehindOf(r.commit, m)
    BY <2>1 DEF Reached, BehindOf
  <2>3. \A m \in Line : m \in SentWith(s, l) \cup DroppedWith(s, l) => r.sent[m] > 0 \/ m \in r.dropped
    <3> SUFFICES ASSUME NEW m \in Line, m \in SentWith(s, l) PROVE r.sent[m] > 0
      BY <1>6
    <3>1. r.sent[m] = s.sent[m] + 1
      BY <1>6
    <3> QED BY <1>11, <3>1
  <2>4. \A m \in Line : Reached(k + 1, m) => Skipped(m) \/ r.sent[m] > 0 \/ m \in r.dropped
    <3> SUFFICES ASSUME NEW m \in Line, Reached(k + 1, m), ~Skipped(m)
                 PROVE  r.sent[m] > 0 \/ m \in r.dropped
      OBVIOUS
    <3>1. CASE m = l
      <4>1. KindOf[l] \in {"json", "full"}
        BY <1>14, <3>1, KindCases DEF Skipped
      <4>2. l \in SentWith(s, l) \cup DroppedWith(s, l)
        <5>1. l \in Entry(s, l)
          BY DEF Entry
        <5> QED BY <4>1, <5>1, WithFacts
      <4> QED BY <2>3, <3>1, <4>2
    <3>2. CASE Reached(k, m)
      <4>1. CASE s.sent[m] > 0 \/ m \in s.dropped
        BY <1>6, <1>12, <4>1
      <4>2. CASE \E t \in Stream : m \in s.pending[t]
        <5>1. m \in SentWith(s, l) \cup DroppedWith(s, l)
          BY <1>14, <4>2, NothingStays
        <5> QED BY <2>3, <5>1
      <4> QED BY <3>2, <4>1, <4>2, ReachedFacts DEF Reads
    <3> QED BY <1>2, <3>1, <3>2
  <2>5. Settled(r.commit, r)
    <3> SUFFICES ASSUME NEW m \in Line, BehindOf(r.commit, m),
                        m[1] = r.commit.fingerprint \/ (m[1] \in opened \ forgiven /\ m[2] <= lines[m[1]])
                 PROVE  Skipped(m) \/ r.sent[m] > 0 \/ m \in r.dropped
      BY DEF Settled
    <3>1. Reached(k + 1, m)
      <4>1. m[1] < fd \/ (m[1] = fd /\ m[2] <= k + 1)
        BY <2>1 DEF BehindOf
      <4>2. m[1] = fd \/ (m[1] \in opened \ forgiven /\ m[2] <= lines[m[1]])
        BY <2>1
      <4>3. m[1] \in Nat
        BY LineFacts
      <4> QED BY <1>1, <4>1, <4>2, <4>3 DEF Reached
    <3> QED BY <2>4, <3>1
  <2>6. k + 1 <= k + 1
    OBVIOUS
  <2>7. Complete(r, k + 1)
    BY <1>8, <1>9, <1>10, <2>1, <2>2, <2>5, <2>6 DEF Complete
  <2> QED BY <2>7 DEF r
<1> QED BY <1>13, <1>14

\* A property of what the processor keeps, which each line it is given keeps.
LEMMA TakenInduction ==
  ASSUME Reads, NEW S, <<0, Processed>> \in S,
         \A i \in 0..Unread, s \in ProcessedSet :
           /\ i < Unread /\ <<i, s>> \in S /\ IsCheckpoint(s.commit)
           => <<i + 1, AddLine(s, <<fd, offset + (i + 1)>>)>> \in S
  PROVE  <<Unread, LinesAdded[Unread]>> \in S
<1> DEFINE T == {i \in 0..Unread : <<i, LinesAdded[i]>> \in S}
<1>1. Unread \in Nat
  BY UnreadFacts
<1>2. 0 \in T
  BY <1>1, LinesAddedDef
<1>3. \A i \in 0..Unread : i < Unread /\ i \in T => i + 1 \in T
  <2> SUFFICES ASSUME NEW i \in 0..Unread, i < Unread, i \in T PROVE i + 1 \in T
    OBVIOUS
  <2>1. LinesAdded[i + 1] = AddLine(LinesAdded[i], <<fd, offset + (i + 1)>>)
    BY LinesAddedDef
  <2>2. LinesAdded[i] \in ProcessedSet /\ IsCheckpoint(LinesAdded[i].commit)
    BY TakenType
  <2>3. <<i + 1, LinesAdded[i + 1]>> \in S
    BY <2>1, <2>2
  <2>4. i + 1 \in 0..Unread
    BY <1>1
  <2> QED BY <2>3, <2>4
<1>4. \A i \in 0..Unread : i \in T
  <2> HIDE DEF T
  <2> QED BY <1>1, <1>2, <1>3, UpTo
<1>5. Unread \in 0..Unread
  BY <1>1
<1> QED BY <1>4, <1>5

\* Lines which are read are kept.
LEMMA CompleteTaken ==
  ASSUME Unmixed, Reads, Complete(Processed, offset), TakeLines, UNCHANGED <<fd, opened, forgiven, lines>>
  PROVE  Complete(Processed, offset)'
<1> DEFINE S == {p \in Nat \X ProcessedSet : Complete(p[2], offset + p[1])}
<1>0. Unread \in Nat /\ offset \in Nat /\ Processed \in ProcessedSet /\ offset + Unread = lines[fd]
  BY UnreadFacts DEF Unread
<1>1. <<0, Processed>> \in S
  <2>1. offset + 0 = offset
    BY <1>0
  <2> QED BY <1>0, <2>1
<1>2. ASSUME NEW i \in 0..Unread, NEW s \in ProcessedSet, i < Unread, <<i, s>> \in S, IsCheckpoint(s.commit)
      PROVE  <<i + 1, AddLine(s, <<fd, offset + (i + 1)>>)>> \in S
  <2> DEFINE l == <<fd, offset + (i + 1)>>
  <2>1. l \in Line /\ l[1] = fd /\ l[2] = (offset + i) + 1 /\ l[1] <= created /\ l[2] <= lines[l[1]]
    BY <1>0, <1>2, UnreadFacts DEF Reads, PositionInv
  <2>2. Complete(s, offset + i) /\ offset + i \in Nat /\ i \in Nat /\ i + 1 \in Nat
    BY <1>0, <1>2
  <2>3. TailTypeOK /\ FilesInv
    BY DEF Reads
  <2>4. offset + (i + 1) = (offset + i) + 1
    BY <1>0, <2>2
  <2> HIDE DEF l
  <2>5. Complete(AddLine(s, l), (offset + i) + 1)
    BY <1>2, <2>1, <2>2, CompleteAdded
  <2>6. AddLine(s, l) \in ProcessedSet
    BY <1>2, <2>1, <2>3, AddLineType
  <2>7. <<i + 1, AddLine(s, l)>> \in S
    BY <2>2, <2>4, <2>5, <2>6
  <2> QED BY <2>7 DEF l
<1>3. <<Unread, LinesAdded[Unread]>> \in S
  <2> HIDE DEF S
  <2> QED BY <1>1, <1>2, TakenInduction
<1> DEFINE s == LinesAdded[Unread]
<1>4. Complete(s, lines[fd])
  BY <1>0, <1>3
<1>5. /\ pending' = s.pending /\ commit' = s.commit /\ offset' = lines[fd]
      /\ sent' = s.sent /\ dropped' = s.dropped /\ torn' = s.torn
  BY DEF TakeLines, Unread
<1> HIDE DEF s
<1>6. /\ Processed'.pending = s.pending /\ Processed'.commit = s.commit
      /\ Processed'.sent = s.sent /\ Processed'.dropped = s.dropped /\ Processed'.torn = s.torn
  BY <1>5 DEF Processed
<1> QED BY <1>4, <1>5, <1>6 DEF Complete, Settled, Reached

\* What was sent, or given up, remains so.
LEMMA SentTaken ==
  ASSUME Reads, TakeLines
  PROVE  \A l \in Line : (sent[l] > 0 => sent'[l] > 0) /\ (l \in dropped => l \in dropped')
<1> DEFINE Keeps(r) == \A l \in Line : (sent[l] > 0 => r.sent[l] > 0) /\ (l \in dropped => l \in r.dropped)
           S == {p \in Nat \X ProcessedSet : Keeps(p[2])}
<1>0. /\ Unread \in Nat /\ offset \in Nat /\ Processed \in ProcessedSet
      /\ Processed.sent = sent /\ Processed.dropped = dropped
  BY UnreadFacts DEF Processed
<1>1. <<0, Processed>> \in S
  BY <1>0
<1>2. ASSUME NEW i \in 0..Unread, NEW s \in ProcessedSet, i < Unread, <<i, s>> \in S, IsCheckpoint(s.commit)
      PROVE  <<i + 1, AddLine(s, <<fd, offset + (i + 1)>>)>> \in S
  <2> DEFINE l == <<fd, offset + (i + 1)>>
             r == AddLine(s, l)
  <2>1. l \in Line /\ l[1] <= created /\ l[2] <= lines[l[1]] /\ TailTypeOK /\ FilesInv
    BY <1>2, UnreadFacts DEF Reads, PositionInv
  <2> HIDE DEF l
  <2>2. r \in ProcessedSet
    BY <1>2, <2>1, AddLineType
  <2>3. /\ r.sent = [m \in Line |-> IF m \in SentWith(s, l) THEN s.sent[m] + 1 ELSE s.sent[m]]
        /\ r.dropped = s.dropped \cup DroppedWith(s, l)
    BY AddFacts
  <2> HIDE DEF r
  <2>4. ASSUME NEW m \in Line PROVE (s.sent[m] > 0 => r.sent[m] > 0) /\ (m \in s.dropped => m \in r.dropped)
    <3>1. s.sent[m] \in Nat
      BY DEF ProcessedSet
    <3>2. r.sent[m] = s.sent[m] \/ r.sent[m] = s.sent[m] + 1
      BY <2>3
    <3> QED BY <2>3, <3>1, <3>2
  <2>5. Keeps(s)
    BY <1>2
  <2>6. Keeps(r)
    BY <2>4, <2>5
  <2> HIDE DEF Keeps
  <2>7. <<i + 1, r>> \in S
    BY <1>2, <2>2, <2>6
  <2> QED BY <2>7 DEF r, l
<1>3. <<Unread, LinesAdded[Unread]>> \in S
  <2> HIDE DEF S
  <2> QED BY <1>1, <1>2, TakenInduction
<1>4. sent' = LinesAdded[Unread].sent /\ dropped' = LinesAdded[Unread].dropped
  BY DEF TakeLines, Unread
<1> QED BY <1>3, <1>4

\* A file which is older than the log, and was given up, remains so.
LEMMA HistoryStep ==
  ASSUME TailTypeOK, FilesInv, PositionInv, [Next]_vars
  PROVE  /\ \A f \in opened' \ forgiven' : f < created => f \in opened \ forgiven
         /\ \A l \in Line : (sent[l] > 0 => sent'[l] > 0) /\ (l \in dropped => l \in dropped')
<1>1. CASE FirstOpen \/ OpenRotated \/ ReopenRotated
  <2>1. sent' = sent /\ dropped' = dropped
    BY <1>1 DEF FirstOpen, OpenRotated, ReopenRotated
  <2>2. CASE Reopen
    <3>1. Log = created /\ opened' = opened \cup {Log} /\ \A f \in forgiven : f # Log => f \in forgiven'
      BY <2>2, ReopenType DEF Reopen
    <3> QED BY <2>1, <3>1, TypeFacts
  <2>3. CASE ~Reopen
    <3>1. opened' = opened /\ forgiven' = forgiven
      BY <1>1, <2>3 DEF FirstOpen, OpenRotated, ReopenRotated
    <3> QED BY <2>1, <3>1
  <2> QED BY <2>2, <2>3
<1>2. CASE OpenLogFile
  <2>1. sent' = sent /\ dropped' = dropped /\ opened' = opened /\ (forgiven' = 1..created \/ forgiven' = forgiven)
    BY <1>2 DEF OpenLogFile
  <2> QED BY <2>1 DEF FilesInv
<1>3. CASE StatusByLinks
  <2>1. sent' = sent /\ dropped' = dropped /\ opened' = opened /\ forgiven \subseteq forgiven'
    BY <1>3 DEF StatusByLinks
  <2> QED BY <2>1
<1>4. CASE ReadLines \/ ReadRotated
  <2>1. opened' = opened /\ forgiven' = forgiven /\ fd # 0
    BY <1>4 DEF ReadLines, ReadRotated
  <2>2. TakeLines \/ (sent' = sent /\ dropped' = dropped)
    BY <1>4 DEF ReadLines, ReadRotated
  <2> QED BY <2>1, <2>2, SentTaken DEF Reads
<1>5. CASE Environment \/ StartRead \/ NoLines \/ StatusOfExisting \/ StatusOfMissing \/ ReadRotatedAgain
  <2>1. sent' = sent /\ dropped' = dropped /\ opened' = opened /\ forgiven' = forgiven
    BY <1>5, EnvironmentUnchanged
       DEF StartRead, NoLines, StatusOfExisting, StatusOfMissing, ReadRotatedAgain, history
  <2> QED BY <2>1
<1>6. CASE EndStop \/ Start \/ SyncCheckpoints \/ Stop \/ Crash \/ UNCHANGED vars
  <2>1. sent' = sent /\ dropped' = dropped /\ opened' = opened /\ forgiven' = forgiven
    BY <1>6 DEF EndStop, Start, SyncCheckpoints, Stop, Crash, vars, history
  <2> QED BY <2>1
<1> QED BY <1>1, <1>2, <1>3, <1>4, <1>5, <1>6 DEF Next, Process

\* What a restart doesn't read is settled after the step too.
SettledAfter(cp) ==
  \A l \in Line :
    /\ BehindOf(cp, l)
    /\ l[1] = cp.fingerprint \/ (l[1] \in opened' \ forgiven' /\ l[2] <= lines'[l[1]])
    => Skipped(l) \/ sent'[l] > 0 \/ l \in dropped'

LEMMA SettledStep ==
  ASSUME TailTypeOK, FilesInv, PositionInv, [Next]_vars,
         NEW cp \in CheckpointSet, IsCheckpoint(cp), Settled(cp, Processed)
  PROVE  SettledAfter(cp)
<1> SUFFICES ASSUME NEW l \in Line, BehindOf(cp, l),
                    l[1] = cp.fingerprint \/ (l[1] \in opened' \ forgiven' /\ l[2] <= lines'[l[1]])
             PROVE  Skipped(l) \/ sent'[l] > 0 \/ l \in dropped'
  BY DEF SettledAfter
<1>1. l[1] \in File /\ l[1] \in Nat /\ l[1] # 0 /\ l[2] \in Nat
  BY LineFacts
<1>2. cp # NoCheckpoint
  BY <1>1, NoCheckpointFacts DEF BehindOf
<1>3. cp.fingerprint \in File /\ cp.fingerprint <= created /\ ~Empty(cp.fingerprint) /\ cp.fingerprint \in Nat
  <2>1. cp.fingerprint \in File /\ cp.fingerprint <= created
        /\ cp.offset \in Nat /\ cp.offset # 0 /\ cp.offset <= lines[cp.fingerprint]
    BY <1>2, CheckpointFacts
  <2>2. lines[cp.fingerprint] \in Nat /\ cp.fingerprint \in Nat
    BY <2>1, TypeFacts, LineFacts
  <2>3. lines[cp.fingerprint] # 0
    BY <2>1, <2>2
  <2> QED BY <2>1, <2>2, <2>3 DEF Empty
<1>4. l[1] = cp.fingerprint \/ (l[1] \in opened \ forgiven /\ l[2] <= lines[l[1]])
  <2>1. CASE l[1] = cp.fingerprint
    BY <2>1
  <2>2. CASE l[1] # cp.fingerprint
    <3>1. l[1] < cp.fingerprint /\ l[1] \in opened' \ forgiven' /\ l[2] <= lines'[l[1]]
      BY <2>2 DEF BehindOf
    <3>2. l[1] < created
      BY <1>1, <1>3, <3>1, TypeFacts
    <3>3. Abandoned(l[1])
      BY <1>1, <1>3, <3>1 DEF Abandoned
    <3>4. lines'[l[1]] = lines[l[1]]
      BY <1>1, <3>3, AbandonedFacts, GrowsStep
    <3> QED BY <3>1, <3>2, <3>4, HistoryStep
  <2> QED BY <2>1, <2>2
<1>5. Skipped(l) \/ sent[l] > 0 \/ l \in dropped
  BY <1>4 DEF Settled, Processed
<1> QED BY <1>5, HistoryStep

\* The tailer stays where it is.
LEMMA CompleteKept ==
  ASSUME TailTypeOK, FilesInv, PositionInv, TurnInv, [Next]_vars, Complete(Processed, offset),
         UNCHANGED <<fd, offset, commit, pending, sent, dropped, torn, opened, forgiven>>
  PROVE  Complete(Processed, offset)'
<1>1. /\ Processed.pending = pending /\ Processed.commit = commit
      /\ Processed.sent = sent /\ Processed.dropped = dropped /\ Processed.torn = torn
      /\ Processed' = Processed
  BY DEF Processed
<1>2. Settled(commit, Processed)'
  <2>1. commit \in CheckpointSet /\ IsCheckpoint(commit) /\ Settled(commit, Processed)
    BY <1>1 DEF TailTypeOK, PositionInv, Complete
  <2>2. SettledAfter(commit)
    BY <2>1, SettledStep
  <2>3. Processed.sent' = sent' /\ Processed.dropped' = dropped' /\ commit' = commit
    BY DEF Processed
  <2> QED BY <2>2, <2>3 DEF SettledAfter, Settled, BehindOf
<1>3. ASSUME NEW l \in Line, Reached(offset, l)' PROVE Reached(offset, l)
  <2>1. CASE l[1] = fd /\ l[2] <= offset
    BY <2>1 DEF Reached
  <2>2. CASE l[1] \in opened \ forgiven /\ l[1] < fd /\ l[2] <= lines'[l[1]]
    <3>1. Abandoned(l[1]) /\ l[1] \in File
      BY <2>2, LineFacts DEF TurnInv
    <3>2. lines'[l[1]] = lines[l[1]]
      BY <3>1, AbandonedFacts, GrowsStep
    <3> QED BY <2>2, <3>2 DEF Reached
  <2> QED BY <1>3, <2>1, <2>2 DEF Reached
<1>4. \A l \in Line : Reached(offset, l)' =>
        Skipped(l) \/ BehindOf(commit, l) \/ \E t \in Stream : l \in pending[t]
  BY <1>1, <1>3 DEF Complete
<1> QED BY <1>1, <1>2, <1>4 DEF Complete, Settled, BehindOf

\* No file is open.
LEMMA CompleteNowhere ==
  ASSUME Complete(Processed, offset), dropped' = dropped,
         fd' = 0, offset' = 0, commit' = NoCheckpoint, pending' = NothingPending, torn' = {}
  PROVE  Complete(Processed, offset)'
<1>1. /\ Processed'.commit = NoCheckpoint /\ Processed'.torn = {} /\ Processed'.pending = NothingPending
      /\ Processed'.dropped = Processed.dropped
  BY DEF Processed
<1>2. \A l \in Line : ~Reached(offset, l)'
  <2> SUFFICES ASSUME NEW l \in Line PROVE ~Reached(offset, l)'
    OBVIOUS
  <2>1. l[1] \in Nat /\ l[1] # 0
    BY LineFacts
  <2> QED BY <2>1 DEF Reached
<1>3. \A l \in Line : ~BehindOf(NoCheckpoint, l)
  <2> SUFFICES ASSUME NEW l \in Line PROVE ~BehindOf(NoCheckpoint, l)
    OBVIOUS
  <2>1. l[1] \in Nat /\ l[1] # 0
    BY LineFacts
  <2> QED BY <2>1, NoCheckpointFacts DEF BehindOf
<1>4. NoCheckpoint.fingerprint = fd' /\ NoCheckpoint.offset <= offset'
  BY NoCheckpointFacts
<1>5. /\ \A t \in Stream : NothingPending[t] = {}
      /\ \A l \in Processed.dropped : GivenUp(l)
  BY DEF Complete, NothingPending
<1> QED BY <1>1, <1>2, <1>3, <1>4, <1>5 DEF Complete, Settled, BehindOf

\* The file of the checkpoint is opened where the checkpoint is.
LEMMA CompleteOpened ==
  ASSUME TailTypeOK, FilesInv, PositionInv, TurnInv, [Next]_vars, OpenLogFile, fd' # 0,
         Settled(memory, Processed), torn = {}, Complete(Processed, offset)
  PROVE  Complete(Processed, offset)'
<1>1. /\ commit' = memory /\ fd' = memory.fingerprint /\ offset' = memory.offset /\ torn' = {}
      /\ memory \in CheckpointSet /\ IsCheckpoint(memory) /\ memory # NoCheckpoint
  BY OpenFacts DEF OpenLogFile, TailTypeOK, PositionInv
<1>2. SettledAfter(memory)
  BY <1>1, SettledStep
<1>3. /\ Processed'.commit = memory /\ Processed'.torn = {} /\ Processed'.sent = sent'
      /\ Processed'.dropped = dropped' /\ Processed'.pending = NothingPending
      /\ Processed.dropped = dropped /\ dropped' = dropped
  BY <1>1 DEF Processed, OpenLogFile
<1>4. Settled(commit, Processed)'
  BY <1>1, <1>2, <1>3 DEF SettledAfter, Settled, BehindOf
<1>5. \A l \in Line : Reached(offset, l)' => BehindOf(memory, l)
  BY <1>1 DEF Reached, BehindOf
<1>6. memory.offset <= memory.offset
  <2>1. memory.offset \in Nat
    BY <1>1, CheckpointFacts
  <2> QED BY <2>1
<1>7. /\ \A t \in Stream : NothingPending[t] = {}
      /\ \A l \in dropped : GivenUp(l)
  BY <1>3 DEF Complete, NothingPending
<1> QED BY <1>1, <1>3, <1>4, <1>5, <1>6, <1>7 DEF Complete, Settled, BehindOf

\* The log is opened from its beginning.
LEMMA CompleteReopened ==
  ASSUME TailTypeOK, FilesInv, PositionInv, TurnInv, [Next]_vars, Complete(Processed, offset),
         Reopen, FirstOpen \/ OpenRotated \/ ReopenRotated
  PROVE  Complete(Processed, offset)'
<1>0. /\ UNCHANGED <<commit, pending, sent, dropped, torn>> /\ UNCHANGED log
      /\ (pc \in {"rotated", "reopen"} /\ (pc = "rotated" => fd = 0)) \/ (pc = "read" /\ fd = 0)
  BY ReopenType DEF FirstOpen, OpenRotated, ReopenRotated
<1>1. /\ Processed.pending = pending /\ Processed.commit = commit
      /\ Processed.sent = sent /\ Processed.dropped = dropped /\ Processed.torn = torn
      /\ Processed' = Processed
  BY <1>0 DEF Processed
<1>2. Settled(commit, Processed)'
  <2>1. commit \in CheckpointSet /\ IsCheckpoint(commit) /\ Settled(commit, Processed)
    BY <1>1 DEF TailTypeOK, PositionInv, Complete
  <2>2. SettledAfter(commit)
    BY <2>1, SettledStep
  <2>3. Processed.sent' = sent' /\ Processed.dropped' = dropped'
    BY DEF Processed
  <2> QED BY <1>0, <2>2, <2>3 DEF SettledAfter, Settled, BehindOf
<1>3. fd' = Log /\ offset' = 0 /\ Log \in File /\ Log \in Nat /\ fd < Log /\ fd \in Nat /\ lines' = lines
  BY <1>0, ReopenType, ReopenFacts, LineFacts, TypeFacts DEF log
<1>4. commit.fingerprint < Log
  <2>1. commit.fingerprint < fd \/ commit.fingerprint = fd
    BY <1>1 DEF Complete
  <2>2. commit.fingerprint \in Nat
    <3>1. commit.fingerprint \in File \cup {0}
      BY DEF TailTypeOK, CheckpointSet
    <3>2. \A f \in File \cup {0} : f \in Nat
      BY LineFacts
    <3> QED BY <3>1, <3>2
  <2> QED BY <1>3, <2>1, <2>2
<1>5. ASSUME NEW l \in Line, Reached(offset, l)' PROVE Reached(offset, l)
  <2>1. l[1] \in File /\ l[1] \in Nat /\ l[2] \in Nat /\ l[2] # 0
    BY LineFacts
  <2>2. l[1] \in opened' \ forgiven' /\ l[1] < Log /\ l[2] <= lines[l[1]]
    BY <1>3, <1>5, <2>1 DEF Reached
  <2>3. fd # 0 /\ l[1] \in opened \ forgiven /\ l[1] <= fd /\ ~HasUnread(fd)
    BY <1>0, <1>3, <2>1, <2>2, ReopenFacts
  <2>4. CASE l[1] < fd
    BY <2>2, <2>3, <2>4 DEF Reached
  <2>5. CASE l[1] = fd
    <3>1. lines[fd] \in Nat /\ offset \in Nat
      BY <2>1, <2>5, TypeFacts
    <3>2. l[2] <= offset
      BY <2>1, <2>2, <2>3, <2>5, <3>1 DEF HasUnread
    <3> QED BY <2>5, <3>2 DEF Reached
  <2> QED BY <1>3, <2>1, <2>3, <2>4, <2>5
<1>6. \A l \in Line : Reached(offset, l)' =>
        Skipped(l) \/ BehindOf(commit, l) \/ \E t \in Stream : l \in pending[t]
  BY <1>1, <1>5 DEF Complete
<1>7. torn = {} /\ \A l \in dropped : GivenUp(l)
  BY <1>1 DEF Complete
<1>8. ASSUME NEW t \in Stream, NEW l \in pending[t]
      PROVE  KindOf[l] = "part" /\ StreamOf[l] = t /\ l[1] < Log
  <2>1. KindOf[l] = "part" /\ StreamOf[l] = t /\ (l[1] < fd \/ l[1] = fd)
    BY <1>1 DEF Complete
  <2>2. l[1] \in Nat
    BY LineFacts DEF TailTypeOK
  <2> QED BY <1>3, <2>1, <2>2
<1> QED BY <1>0, <1>1, <1>2, <1>3, <1>4, <1>6, <1>7, <1>8 DEF Complete, Settled, BehindOf

\* Where the checkpoints come from.
LEMMA MemoryStep ==
  ASSUME TailTypeOK, FilesInv, PositionInv, [Next]_vars
  PROVE  memory' \in {memory, saved, commit', NoCheckpoint} /\ saved' \in {saved, memory}
<1>1. CASE Environment \/ StartRead \/ NoLines \/ StatusOfExisting \/ StatusOfMissing
  BY <1>1, EnvironmentUnchanged DEF StartRead, NoLines, StatusOfExisting, StatusOfMissing, checkpoint
<1>2. CASE OpenLogFile
  BY <1>2, OpenFacts DEF OpenLogFile
<1>3. CASE FirstOpen \/ ReadLines \/ ReadRotated \/ ReadRotatedAgain
  BY <1>3 DEF FirstOpen, ReadLines, ReadRotated, ReadRotatedAgain, checkpoint
<1>4. CASE OpenRotated \/ ReopenRotated \/ StatusByLinks
  BY <1>4 DEF OpenRotated, ReopenRotated, StatusByLinks, checkpoint
<1>5. CASE EndStop \/ Start \/ SyncCheckpoints \/ Stop \/ Crash \/ UNCHANGED vars
  BY <1>5 DEF EndStop, Start, SyncCheckpoints, Stop, Crash, Forget, checkpoint, vars
<1> QED BY <1>1, <1>2, <1>3, <1>4, <1>5 DEF Next, Process

LEMMA CompleteStep ==
  ASSUME Unmixed, TailTypeOK, FilesInv, PositionInv, TurnInv, CompleteInv, [Next]_vars
  PROVE  CompleteInv'
<1>0. Complete(Processed, offset) /\ Settled(memory, Processed) /\ Settled(saved, Processed) /\ torn = {}
  BY DEF CompleteInv, Complete, Processed
<1>a. Complete(Processed, offset)'
  <2>1. CASE Environment
    BY <1>0, <2>1, EnvironmentUnchanged, CompleteKept DEF logFile, history
  <2>2. CASE StartRead \/ NoLines \/ StatusOfExisting \/ StatusOfMissing \/ ReadRotatedAgain
    <3>1. UNCHANGED <<fd, offset, commit, pending, sent, dropped, torn, opened, forgiven>>
      BY <2>2 DEF StartRead, NoLines, StatusOfExisting, StatusOfMissing, ReadRotatedAgain, logFile, history
    <3> QED BY <1>0, <3>1, CompleteKept
  <2>3. CASE Stop \/ SyncCheckpoints \/ Start \/ UNCHANGED vars
    <3>1. UNCHANGED <<fd, offset, commit, pending, sent, dropped, torn, opened, forgiven>>
      BY <2>3 DEF Stop, SyncCheckpoints, Start, vars, logFile, history
    <3> QED BY <1>0, <3>1, CompleteKept
  <2>4. CASE OpenLogFile
    <3>1. CASE fd' = 0
      <4>1. /\ commit' = NoCheckpoint /\ offset' = 0 /\ torn' = {}
            /\ pending' = NothingPending /\ dropped' = dropped
        BY <1>0, <2>4, <3>1, OpenFacts, NoCheckpointFacts DEF OpenLogFile
      <4> QED BY <1>0, <3>1, <4>1, CompleteNowhere
    <3> QED BY <1>0, <2>4, <3>1, CompleteOpened
  <2>5. CASE Reopen /\ (FirstOpen \/ OpenRotated \/ ReopenRotated)
    BY <1>0, <2>5, CompleteReopened
  <2>6. CASE ~Reopen /\ (OpenRotated \/ ReopenRotated)
    <3>1. UNCHANGED <<fd, offset, commit, pending, sent, dropped, torn, opened, forgiven>>
      BY <2>6 DEF OpenRotated, ReopenRotated
    <3> QED BY <1>0, <3>1, CompleteKept
  <2>7. CASE TakeLines /\ (ReadLines \/ ReadRotated)
    <3>1. fd # 0 /\ UNCHANGED <<fd, opened, forgiven, lines>>
      BY <2>7 DEF ReadLines, ReadRotated, log
    <3> QED BY <1>0, <2>7, <3>1, CompleteTaken DEF Reads
  <2>8. CASE ~TakeLines /\ (ReadLines \/ ReadRotated)
    <3>1. UNCHANGED <<fd, offset, commit, pending, sent, dropped, torn, opened, forgiven>>
      BY <2>8 DEF ReadLines, ReadRotated
    <3> QED BY <1>0, <3>1, CompleteKept
  <2>9. CASE StatusByLinks /\ pc' = "read"
    <3>1. UNCHANGED <<fd, offset, commit, pending, sent, dropped, torn, opened, forgiven>>
      BY <2>9 DEF StatusByLinks, logFile
    <3> QED BY <1>0, <3>1, CompleteKept
  <2>10. CASE (StatusByLinks /\ pc' # "read") \/ EndStop \/ Crash
    <3>1. /\ fd' = 0 /\ offset' = 0 /\ commit' = NoCheckpoint /\ torn' = {}
          /\ pending' = NothingPending /\ dropped' = dropped
      BY <1>0, <2>10 DEF StatusByLinks, EndStop, Crash, Forget, history
    <3> QED BY <1>0, <3>1, CompleteNowhere
  <2> QED BY <2>1, <2>2, <2>3, <2>4, <2>5, <2>6, <2>7, <2>8, <2>9, <2>10 DEF Next, Process, FirstOpen
<1>b. /\ SettledAfter(memory) /\ SettledAfter(saved)
  <2>1. memory \in CheckpointSet /\ saved \in CheckpointSet /\ IsCheckpoint(memory) /\ IsCheckpoint(saved)
    BY DEF TailTypeOK, PositionInv
  <2> QED BY <1>0, <2>1, SettledStep
<1>c. SettledAfter(NoCheckpoint)
  <2>1. \A l \in Line : l[1] \in Nat /\ l[1] # 0
    BY LineFacts
  <2>2. \A l \in Line : ~BehindOf(NoCheckpoint, l)
    BY <2>1, NoCheckpointFacts DEF BehindOf
  <2> QED BY <2>2 DEF SettledAfter
<1>d. SettledAfter(commit')
  BY <1>a DEF Complete, Processed, Settled, SettledAfter, BehindOf
<1>e. SettledAfter(memory') /\ SettledAfter(saved')
  BY <1>b, <1>c, <1>d, MemoryStep
<1>f. Settled(memory, Processed)' /\ Settled(saved, Processed)'
  BY <1>e DEF Settled, SettledAfter, BehindOf, Processed
<1> QED BY <1>a, <1>f DEF CompleteInv

\* At a line which is reached, no matter whether the checkpoint is behind it.
LEMMA CompleteKeeps ==
  ASSUME TailTypeOK, CompleteInv
  PROVE  LinesAreKept
<1> SUFFICES ASSUME NEW l \in Line, Reached(offset, l) PROVE Taken(l)
  BY DEF LinesAreKept
<1>1. Processed \in ProcessedSet /\ Complete(Processed, offset)
  BY DEF TailTypeOK, Processed, ProcessedSet, CompleteInv
<1>2. Processed.sent = sent /\ Processed.dropped = dropped /\ Processed.pending = pending
  BY DEF Processed
<1>3. Skipped(l) \/ Processed.sent[l] > 0 \/ l \in Processed.dropped
      \/ \E t \in Stream : l \in Processed.pending[t]
  BY <1>1, ReachedFacts
<1> QED BY <1>2, <1>3 DEF Taken

LEMMA CompleteInit == Init => CompleteInv
<1> SUFFICES ASSUME Init PROVE CompleteInv
  OBVIOUS
<1>1. Processed = [pending |-> NothingPending, commit |-> NoCheckpoint, sent |-> [l \in Line |-> 0],
                   dropped |-> {}, torn |-> {}]
  BY DEF Init, Processed
<1>2. fd = 0 /\ offset = 0 /\ memory = NoCheckpoint /\ saved = NoCheckpoint /\ opened = {}
  BY DEF Init
<1>3. \A l \in Line : l[1] \in Nat /\ l[1] # 0
  BY LineFacts
<1>4. \A l \in Line : ~BehindOf(NoCheckpoint, l)
  BY <1>3, NoCheckpointFacts DEF BehindOf
<1>5. \A l \in Line : ~Reached(offset, l)
  BY <1>2, <1>3 DEF Reached
<1>6. Settled(NoCheckpoint, Processed)
  BY <1>4 DEF Settled
<1>7. /\ Processed.pending = NothingPending /\ Processed.commit = NoCheckpoint
      /\ Processed.dropped = {} /\ Processed.torn = {}
  BY <1>1
<1>8. \A t \in Stream : NothingPending[t] = {}
  BY DEF NothingPending
<1>9. NoCheckpoint.fingerprint = fd /\ NoCheckpoint.offset <= offset
  BY <1>2, NoCheckpointFacts
<1>10. Complete(Processed, offset)
  BY <1>5, <1>6, <1>7, <1>8, <1>9 DEF Complete
<1> QED BY <1>2, <1>6, <1>10 DEF CompleteInv

-----------------------------------------------------------------------------
(* Nothing is sent twice *)

\* The next line, which wasn't sent, is added.
LEMMA FreshAdded ==
  ASSUME Reads, NEW s \in ProcessedSet, NEW k \in Nat, Fresh(s, k),
         NEW l \in Line, l[1] = fd, l[2] = k + 1
  PROVE  Fresh(AddLine(s, l), k + 1)
<1> DEFINE r == AddLine(s, l)
           w == StreamOf[l]
           Ahead(m, n) == fd = 0 \/ m[1] < fd \/ (m[1] = fd /\ m[2] <= n)
<1>1. fd \in Nat /\ fd # 0 /\ w \in Stream
  BY LineFacts, UnreadFacts
<1>2. /\ s.pending \in [Stream -> SUBSET Line] /\ s.sent \in [Line -> Nat]
      /\ \A m \in Line : m[1] \in Nat /\ m[2] \in Nat
  <2>1. s.pending \in [Stream -> SUBSET Line] /\ s.sent \in [Line -> Nat]
    BY DEF ProcessedSet
  <2>2. ASSUME NEW m \in Line PROVE m[1] \in Nat /\ m[2] \in Nat
    <3>1. m[1] \in File /\ m[2] \in 1..LinesCount
      BY LineFacts
    <3>2. m[2] \in Nat
      BY <3>1
    <3>3. m[1] \in Nat
      BY <3>1, LineFacts
    <3> QED BY <3>2, <3>3
  <2> QED BY <2>1, <2>2
<1>3. /\ \A m \in Line : s.sent[m] <= 1
      /\ \A t \in Stream : \A m \in s.pending[t] : StreamOf[m] = t /\ s.sent[m] = 0
      /\ \A m \in Line : s.sent[m] > 0 \/ (\E t \in Stream : m \in s.pending[t]) => Ahead(m, k)
      /\ pc \notin {"idle", "open", "down"} => \A m \in Line : s.sent[m] > 0 => Passed(s.commit, m)
  BY DEF Fresh
<1>4. \A m \in Line : Ahead(m, k) => Ahead(m, k + 1) /\ m # l
  BY <1>1, <1>2
<1>5. s.sent[l] = 0
  BY <1>2, <1>3, <1>4
<1>6. \A m \in Entry(s, l) : m \in Line /\ StreamOf[m] = w /\ s.sent[m] = 0 /\ Ahead(m, k + 1)
  <2> SUFFICES ASSUME NEW m \in Entry(s, l)
               PROVE  m \in Line /\ StreamOf[m] = w /\ s.sent[m] = 0 /\ Ahead(m, k + 1)
    OBVIOUS
  <2>1. CASE m = l
    BY <1>1, <1>5, <2>1
  <2>2. CASE m # l
    <3>1. m \in s.pending[w]
      BY <2>2 DEF Entry
    <3>2. m \in Line
      BY <1>1, <1>2, <3>1
    <3> QED BY <1>1, <1>3, <1>4, <3>1, <3>2
  <2> QED BY <2>1, <2>2
<1>7. /\ r.commit = IF KindOf[l] \in {"long", "part"} THEN s.commit ELSE CheckpointAt(l)
      /\ r.sent = [m \in Line |-> IF m \in SentWith(s, l) THEN s.sent[m] + 1 ELSE s.sent[m]]
      /\ \A t \in Stream :
           r.pending[t] = IF KindOf[l] = "invalid" \/ (KindOf[l] = "full" /\ t = w) THEN {}
                          ELSE IF KindOf[l] = "part" /\ t = w THEN Entry(s, l) ELSE s.pending[t]
  <2>1. r.pending = PendingAfter(s, l)
    BY AddFacts
  <2>2. /\ r.commit = IF KindOf[l] \in {"long", "part"} THEN s.commit ELSE CheckpointAt(l)
        /\ r.sent = [m \in Line |-> IF m \in SentWith(s, l) THEN s.sent[m] + 1 ELSE s.sent[m]]
    BY AddFacts
  <2> HIDE DEF r
  <2> QED BY <2>1, <2>2, PendingFacts
<1> HIDE DEF r, Ahead
<1>8. SentWith(s, l) \subseteq Entry(s, l)
  BY WithFacts, KindCases DEF Entry
<1>9. \A m \in Line : r.sent[m] = IF m \in SentWith(s, l) THEN 1 ELSE s.sent[m]
  <2> SUFFICES ASSUME NEW m \in Line PROVE r.sent[m] = IF m \in SentWith(s, l) THEN 1 ELSE s.sent[m]
    OBVIOUS
  <2>1. m \in SentWith(s, l) => s.sent[m] = 0
    BY <1>6, <1>8
  <2> QED BY <1>7, <2>1
<1>10. \A m \in Line : r.sent[m] <= 1
  BY <1>3, <1>9
<1>11. ASSUME NEW t \in Stream, NEW m \in r.pending[t] PROVE StreamOf[m] = t /\ r.sent[m] = 0
  <2>1. CASE m \in s.pending[t]
    <3>1. m \in Line /\ StreamOf[m] = t /\ s.sent[m] = 0 /\ m # l
      BY <1>2, <1>3, <1>4, <2>1
    <3>2. m \notin SentWith(s, l)
      <4>1. CASE KindOf[l] = "full"
        <5>1. t # w
          BY <1>7, <1>11, <4>1
        <5> QED BY <1>6, <1>8, <3>1, <5>1
      <4>2. CASE KindOf[l] # "full"
        BY <3>1, <4>2, WithFacts, KindCases
      <4> QED BY <4>1, <4>2
    <3> QED BY <1>9, <3>1, <3>2
  <2>2. CASE m \notin s.pending[t]
    <3>1. KindOf[l] = "part" /\ t = w /\ m \in Entry(s, l)
      BY <1>7, <1>11, <2>2
    <3>2. m \notin SentWith(s, l)
      BY <3>1, WithFacts
    <3> QED BY <1>6, <1>9, <3>1, <3>2
  <2> QED BY <2>1, <2>2
<1>12. ASSUME NEW m \in Line, r.sent[m] > 0 \/ \E t \in Stream : m \in r.pending[t]
       PROVE  Ahead(m, k + 1)
  <2>1. m \in Entry(s, l) \/ s.sent[m] > 0 \/ \E t \in Stream : m \in s.pending[t]
    BY <1>7, <1>8, <1>9, <1>12
  <2> QED BY <1>3, <1>4, <1>6, <2>1
<1>13. ASSUME pc \notin {"idle", "open", "down"}, NEW m \in Line, r.sent[m] > 0 PROVE Passed(r.commit, m)
  <2>1. CASE KindOf[l] \in {"long", "part"}
    <3>1. r.commit = s.commit /\ r.sent[m] = s.sent[m]
      BY <1>7, <1>9, <2>1, WithFacts
    <3> QED BY <1>3, <1>13, <3>1
  <2>2. CASE KindOf[l] \notin {"long", "part"}
    <3>1. m[1] < fd \/ (m[1] = fd /\ m[2] <= k + 1)
      BY <1>1, <1>12, <1>13 DEF Ahead
    <3>2. r.commit.fingerprint = fd /\ r.commit.offset = k + 1
      BY <1>7, <2>2 DEF CheckpointAt
    <3> QED BY <3>1, <3>2 DEF Passed, BehindOf
  <2> QED BY <2>1, <2>2
<1>14. Fresh(r, k + 1)
  BY <1>10, <1>11, <1>12, <1>13 DEF Fresh, Ahead
<1> QED BY <1>14 DEF r

\* Lines which are read weren't sent.
LEMMA FreshTaken ==
  ASSUME Reads, Fresh(Processed, offset), TakeLines, UNCHANGED <<fd, place>>,
         pc \notin {"idle", "open", "down"}
  PROVE  Fresh(Processed, offset)'
<1> DEFINE S == {p \in Nat \X ProcessedSet : Fresh(p[2], offset + p[1])}
<1>0. Unread \in Nat /\ offset \in Nat /\ Processed \in ProcessedSet /\ offset + Unread = lines[fd]
  BY UnreadFacts DEF Unread
<1>1. <<0, Processed>> \in S
  <2>1. offset + 0 = offset
    BY <1>0
  <2> QED BY <1>0, <2>1
<1>2. ASSUME NEW i \in 0..Unread, NEW s \in ProcessedSet, i < Unread, <<i, s>> \in S, IsCheckpoint(s.commit)
      PROVE  <<i + 1, AddLine(s, <<fd, offset + (i + 1)>>)>> \in S
  <2> DEFINE l == <<fd, offset + (i + 1)>>
  <2>1. l \in Line /\ l[1] = fd /\ l[2] = (offset + i) + 1 /\ l[1] <= created /\ l[2] <= lines[l[1]]
    BY <1>0, <1>2, UnreadFacts DEF Reads, PositionInv
  <2>2. Fresh(s, offset + i) /\ offset + i \in Nat /\ i \in Nat /\ i + 1 \in Nat
    BY <1>0, <1>2
  <2>3. TailTypeOK /\ FilesInv
    BY DEF Reads
  <2>4. offset + (i + 1) = (offset + i) + 1
    BY <1>0, <2>2
  <2> HIDE DEF l
  <2>5. Fresh(AddLine(s, l), (offset + i) + 1)
    BY <1>2, <2>1, <2>2, FreshAdded
  <2>6. AddLine(s, l) \in ProcessedSet
    BY <1>2, <2>1, <2>3, AddLineType
  <2>7. <<i + 1, AddLine(s, l)>> \in S
    BY <2>2, <2>4, <2>5, <2>6
  <2> QED BY <2>7 DEF l
<1>3. <<Unread, LinesAdded[Unread]>> \in S
  <2> HIDE DEF S
  <2> QED BY <1>1, <1>2, TakenInduction
<1> DEFINE s == LinesAdded[Unread]
<1>4. Fresh(s, lines[fd])
  BY <1>0, <1>3
<1>5. /\ pending' = s.pending /\ commit' = s.commit /\ sent' = s.sent /\ offset' = lines[fd]
  BY DEF TakeLines, Unread
<1> HIDE DEF s
<1>6. Processed'.pending = s.pending /\ Processed'.commit = s.commit /\ Processed'.sent = s.sent
  BY <1>5 DEF Processed
<1> QED BY <1>4, <1>5, <1>6 DEF Fresh, Passed, BehindOf

\* What isn't read again from the checkpoint isn't read again later.
PassedAfter(cp, l) == BehindOf(cp, l) \/ (cp = NoCheckpoint /\ place'[l[1]] \in {"old", "gone"})

LEMMA PassedStays ==
  ASSUME TailTypeOK, FilesInv, [Next]_vars, NEW cp, NEW l \in Line, Passed(cp, l)
  PROVE  PassedAfter(cp, l)
<1>1. l[1] \in File
  BY LineFacts
<1> QED BY <1>1, GrowsStep DEF Grows, Passed, PassedAfter

\* What was sent is in a file which was created.
LEMMA PassedWithoutCheckpoint ==
  ASSUME TailTypeOK, FilesInv, NEW l \in Line, Passed(NoCheckpoint, l)
  PROVE  place[l[1]] \in {"old", "gone"} /\ l[1] <= created /\ (Log # 0 => l[1] < Log)
<1>1. l[1] \in File /\ l[1] \in Nat /\ l[1] # 0
  BY LineFacts
<1>2. place[l[1]] \in {"old", "gone"}
  BY <1>1, NoCheckpointFacts DEF Passed, BehindOf
<1>3. l[1] <= created
  BY <1>1, <1>2, CreatedFacts
<1>4. Log # 0 => l[1] < Log
  BY <1>1, <1>2, <1>3, LogFacts, TypeFacts
<1> QED BY <1>2, <1>3, <1>4

\* The tailer stays where it is.
LEMMA FreshKept ==
  ASSUME TailTypeOK, FilesInv, [Next]_vars, Fresh(Processed, offset),
         UNCHANGED <<fd, offset, commit, pending, sent>>,
         pc' \notin {"idle", "open", "down"} => pc \notin {"idle", "open", "down"}
  PROVE  Fresh(Processed, offset)'
<1>1. /\ Processed.pending = pending /\ Processed.commit = commit /\ Processed.sent = sent
      /\ Processed'.pending = pending /\ Processed'.commit = commit /\ Processed'.sent = sent
  BY DEF Processed
<1>2. /\ \A l \in Line : sent[l] <= 1
      /\ \A t \in Stream : \A l \in pending[t] : StreamOf[l] = t /\ sent[l] = 0
      /\ \A l \in Line : sent[l] > 0 \/ (\E t \in Stream : l \in pending[t]) =>
           fd = 0 \/ l[1] < fd \/ (l[1] = fd /\ l[2] <= offset)
      /\ pc \notin {"idle", "open", "down"} => \A l \in Line : sent[l] > 0 => Passed(commit, l)
  BY <1>1 DEF Fresh
<1>3. pc' \notin {"idle", "open", "down"} => \A l \in Line : sent[l] > 0 => PassedAfter(commit, l)
  BY <1>2, PassedStays
<1> QED BY <1>1, <1>2, <1>3 DEF Fresh, Passed, PassedAfter, BehindOf

LEMMA FreshNowhere ==
  ASSUME Fresh(Processed, offset), sent' = sent, fd' = 0, pending' = NothingPending, pc' \in {"idle", "down"}
  PROVE  Fresh(Processed, offset)'
<1>1. Processed.sent = sent /\ Processed'.sent = sent /\ Processed'.pending = NothingPending
  BY DEF Processed
<1>2. \A l \in Line : sent[l] <= 1
  BY <1>1 DEF Fresh
<1>3. \A t \in Stream : NothingPending[t] = {}
  BY DEF NothingPending
<1> QED BY <1>1, <1>2, <1>3 DEF Fresh

\* The file of the checkpoint is opened there; without one, all that was sent is in files
\* which were renamed or removed.
LEMMA FreshOpened ==
  ASSUME TailTypeOK, FilesInv, PositionInv, [Next]_vars, OpenLogFile, Fresh(Processed, offset),
         \A l \in Line : sent[l] > 0 => Passed(memory, l)
  PROVE  Fresh(Processed, offset)'
<1>1. sent' = sent /\ pending' = NothingPending /\ pc' = "read" /\ UNCHANGED log
  BY DEF OpenLogFile
<1>2. Processed.sent = sent /\ Processed'.sent = sent /\ Processed'.pending = NothingPending
      /\ Processed'.commit = commit'
  BY <1>1 DEF Processed
<1>3. \A l \in Line : sent[l] <= 1
  BY <1>2 DEF Fresh
<1>4. \A t \in Stream : NothingPending[t] = {}
  BY DEF NothingPending
<1>5. CASE fd' # 0
  <2>1. commit' = memory /\ fd' = memory.fingerprint /\ offset' = memory.offset /\ memory # NoCheckpoint
    BY <1>5, OpenFacts
  <2>2. \A l \in Line : sent[l] > 0 => BehindOf(memory, l)
    BY <2>1 DEF Passed
  <2> QED BY <1>1, <1>2, <1>3, <1>4, <2>1, <2>2 DEF Fresh, BehindOf, Passed
<1>6. CASE fd' = 0
  <2>1. commit' = NoCheckpoint
        /\ (Log = 0 \/ memory.fingerprint = 0 \/ place[memory.fingerprint] = "gone")
    BY <1>6, OpenFacts
  <2>2. place' = place
    BY <1>1 DEF log
  <2>3. ASSUME NEW l \in Line, sent[l] > 0
        PROVE  place[l[1]] \in {"old", "gone"}
    <3>1. Passed(memory, l)
      BY <2>3
    <3>2. CASE memory = NoCheckpoint
      BY <3>1, <3>2, PassedWithoutCheckpoint
    <3>3. CASE memory # NoCheckpoint
      <4>1. BehindOf(memory, l) /\ memory \in CheckpointSet /\ IsCheckpoint(memory)
        BY <3>1, <3>3 DEF Passed, TailTypeOK, PositionInv
      <4>2. memory.fingerprint \in File /\ memory.fingerprint <= created /\ memory.fingerprint # 0
            /\ memory.fingerprint \in Nat
        BY <3>3, <4>1, CheckpointFacts, LineFacts
      <4>3. l[1] \in File /\ l[1] \in Nat /\ l[1] <= memory.fingerprint
        <5>1. l[1] \in File /\ l[1] \in Nat
          BY LineFacts
        <5> QED BY <4>1, <4>2, <5>1 DEF BehindOf
      <4>4. place[l[1]] \in {"log", "old", "gone"}
        <5>1. l[1] <= created
          BY <4>2, <4>3, TypeFacts
        <5> QED BY <4>3, <5>1, CreatedFacts
      <4>5. place[l[1]] # "log"
        <5> SUFFICES ASSUME place[l[1]] = "log" PROVE FALSE
          OBVIOUS
        <5>1. l[1] = created /\ Log # 0
          BY <4>3, CreatedFacts, LogFacts
        <5>2. l[1] = memory.fingerprint
          BY <4>2, <4>3, <5>1
        <5> QED BY <2>1, <4>2, <5>1, <5>2
      <4> QED BY <4>4, <4>5
    <3> QED BY <3>2, <3>3
  <2> QED BY <1>1, <1>2, <1>3, <1>4, <1>6, <2>1, <2>2, <2>3 DEF Fresh, Passed
<1> QED BY <1>5, <1>6

\* Nothing of the log was sent when it is opened from its beginning.
LEMMA FreshReopened ==
  ASSUME TailTypeOK, FilesInv, PositionInv, TurnInv, [Next]_vars, Reopen, Fresh(Processed, offset),
         FirstOpen \/ OpenRotated \/ ReopenRotated
  PROVE  Fresh(Processed, offset)'
<1>0. /\ UNCHANGED <<commit, pending, sent>> /\ UNCHANGED log
      /\ (pc \in {"rotated", "reopen"} /\ (pc = "rotated" => fd = 0)) \/ (pc = "read" /\ fd = 0)
  BY ReopenType DEF FirstOpen, OpenRotated, ReopenRotated
<1>1. /\ Processed.pending = pending /\ Processed.commit = commit /\ Processed.sent = sent
      /\ Processed'.pending = pending /\ Processed'.commit = commit /\ Processed'.sent = sent
  BY <1>0 DEF Processed
<1>2. /\ \A l \in Line : sent[l] <= 1
      /\ \A t \in Stream : \A l \in pending[t] : StreamOf[l] = t /\ sent[l] = 0
      /\ \A l \in Line : sent[l] > 0 \/ (\E t \in Stream : l \in pending[t]) =>
           fd = 0 \/ l[1] < fd \/ (l[1] = fd /\ l[2] <= offset)
      /\ \A l \in Line : sent[l] > 0 => Passed(commit, l)
  BY <1>0, <1>1 DEF Fresh
<1>3. fd' = Log /\ Log \in File /\ Log \in Nat /\ Log # 0 /\ fd < Log /\ fd \in Nat
  BY <1>0, ReopenType, ReopenFacts, LineFacts, TypeFacts
<1>4. ASSUME NEW l \in Line, sent[l] > 0 \/ \E t \in Stream : l \in pending[t] PROVE l[1] < Log
  <2>1. CASE fd # 0
    <3>1. l[1] < fd \/ l[1] = fd
      BY <1>2, <1>4, <2>1
    <3> QED BY <1>3, <3>1, LineFacts
  <2>2. CASE fd = 0
    <3>1. pending = NothingPending /\ commit = NoCheckpoint
      BY <2>2 DEF PositionInv
    <3>2. \A t \in Stream : pending[t] = {}
      BY <3>1 DEF NothingPending
    <3>3. Passed(NoCheckpoint, l)
      BY <1>2, <1>4, <3>1, <3>2
    <3> QED BY <1>3, <3>3, PassedWithoutCheckpoint
  <2> QED BY <2>1, <2>2
<1>5. \A l \in Line : sent[l] > 0 => PassedAfter(commit, l)
  BY <1>2, PassedStays
<1> QED BY <1>1, <1>2, <1>3, <1>4, <1>5 DEF Fresh, Passed, PassedAfter, BehindOf

\* What was sent is in files which are left, or behind the checkpoint.
LEMMA PassedAfterLinks ==
  ASSUME TailTypeOK, FilesInv, PositionInv, [Next]_vars, Fresh(Processed, offset), pc = "links",
         StatusByLinks, pc' # "read", NEW l \in Line, sent[l] > 0
  PROVE  Passed(NoCheckpoint, l)'
<1>1. (fd = 0 \/ place[fd] = "gone") /\ place' = place
  BY DEF StatusByLinks, log
<1>2. Processed.sent = sent /\ Processed.commit = commit
  BY DEF Processed
<1>3. Passed(commit, l) /\ (fd = 0 \/ l[1] < fd \/ (l[1] = fd /\ l[2] <= offset))
  BY <1>2 DEF Fresh
<1>4. place[l[1]] \in {"old", "gone"}
  <2>1. CASE fd = 0
    BY <1>3, <2>1, PassedWithoutCheckpoint DEF PositionInv
  <2>2. CASE fd # 0
    <3>1. fd \in File /\ fd \in Nat /\ fd <= created /\ place[fd] = "gone"
      BY <1>1, <2>2, TypeFacts DEF TailTypeOK, PositionInv
    <3>2. l[1] \in File /\ l[1] \in Nat
      BY LineFacts
    <3>3. CASE l[1] = fd
      BY <3>1, <3>3
    <3>4. CASE l[1] < fd
      <4>1. l[1] < created /\ l[1] <= created /\ created \in Nat
        BY <3>1, <3>2, <3>4, TypeFacts
      <4>2. l[1] # created
        BY <3>2, <4>1
      <4> QED BY <3>2, <4>1, <4>2, CreatedFacts
    <3> QED BY <1>3, <2>2, <3>3, <3>4
  <2> QED BY <2>1, <2>2
<1> QED BY <1>1, <1>4 DEF Passed

LEMMA FreshStep ==
  ASSUME TailTypeOK, FilesInv, PositionInv, TurnInv, FreshInv, [Next]_vars,
         NothingUnusual, NothingUnusual'
  PROVE  FreshInv'
<1>0. /\ Fresh(Processed, offset)
      /\ pc \in {"idle", "open"} => \A l \in Line : sent[l] > 0 => Passed(memory, l)
      /\ pc = "down" => \A l \in Line : sent[l] > 0 => Passed(saved, l)
      /\ pc \in {"read", "status", "links"} => memory = commit
  BY DEF FreshInv
<1>a. Processed.sent = sent /\ Processed.commit = commit
  BY DEF Processed
<1>b. pc \notin {"idle", "open", "down"} => \A l \in Line : sent[l] > 0 => Passed(commit, l)
  BY <1>0, <1>a DEF Fresh
<1> DEFINE MemoryOk == pc' \in {"idle", "open"} => \A l \in Line : sent'[l] > 0 => PassedAfter(memory', l)
           SavedOk  == pc' = "down" => \A l \in Line : sent'[l] > 0 => PassedAfter(saved', l)
           SameOk   == pc' \in {"read", "status", "links"} => memory' = commit'
<1> SUFFICES Fresh(Processed, offset)' /\ MemoryOk /\ SavedOk /\ SameOk
  <2>1. /\ (pc \in {"idle", "open"} => \A l \in Line : sent[l] > 0 => Passed(memory, l))' <=> MemoryOk
        /\ (pc = "down" => \A l \in Line : sent[l] > 0 => Passed(saved, l))' <=> SavedOk
    BY DEF Passed, PassedAfter, BehindOf
  <2> QED BY <2>1 DEF FreshInv
<1>1. CASE Environment \/ StartRead \/ NoLines \/ StatusOfExisting \/ StatusOfMissing \/ ReadRotatedAgain
  <2>1. UNCHANGED <<fd, offset, commit, pending, sent, memory, saved>>
    BY <1>1, EnvironmentUnchanged DEF StartRead, NoLines, StatusOfExisting, StatusOfMissing,
       ReadRotatedAgain, logFile, checkpoint, history
  <2>2. /\ pc' \notin {"idle", "open", "down"} => pc \notin {"idle", "open", "down"}
        /\ pc' \in {"idle", "open"} => pc \in {"idle", "open"}
        /\ pc' = "down" => pc = "down"
        /\ pc' \in {"read", "status", "links"} => pc \in {"read", "status", "links"}
    BY <1>1, EnvironmentUnchanged DEF StartRead, NoLines, StatusOfExisting, StatusOfMissing, ReadRotatedAgain
  <2>3. Fresh(Processed, offset)'
    BY <1>0, <2>1, <2>2, FreshKept
  <2>4. MemoryOk /\ SavedOk /\ SameOk
    BY <1>0, <2>1, <2>2, PassedStays
  <2> QED BY <2>3, <2>4
<1>2. CASE Stop \/ SyncCheckpoints \/ UNCHANGED vars
  <2>1. UNCHANGED <<pc, fd, offset, commit, pending, sent, memory>> /\ (pc = "down" => saved' = saved)
    BY <1>2 DEF Stop, SyncCheckpoints, vars, logFile, checkpoint, history
  <2>2. Fresh(Processed, offset)'
    BY <1>0, <2>1, FreshKept
  <2>3. MemoryOk /\ SavedOk /\ SameOk
    BY <1>0, <2>1, PassedStays
  <2> QED BY <2>2, <2>3
<1>3. CASE Start
  <2>1. UNCHANGED <<fd, offset, commit, pending, sent>> /\ pc = "down" /\ pc' = "idle" /\ memory' = saved
    BY <1>3 DEF Start, logFile, history
  <2>2. Fresh(Processed, offset)'
    BY <1>0, <2>1, FreshKept
  <2>3. MemoryOk /\ SavedOk /\ SameOk
    BY <1>0, <2>1, PassedStays
  <2> QED BY <2>2, <2>3
<1>4. CASE OpenLogFile
  <2>1. pc = "open" /\ pc' = "read"
    BY <1>4 DEF OpenLogFile
  <2>2. Fresh(Processed, offset)'
    BY <1>0, <1>4, <2>1, FreshOpened
  <2>3. memory' = commit'
    BY <1>4, OpenFacts
  <2> QED BY <2>1, <2>2, <2>3
<1>5. CASE Reopen /\ (FirstOpen \/ OpenRotated \/ ReopenRotated)
  <2>1. Fresh(Processed, offset)'
    BY <1>0, <1>5, FreshReopened
  <2>2. pc' \in {"read", "rotated"} /\ (pc' = "read" => memory' = commit')
    BY <1>0, <1>5, ReopenType DEF FirstOpen, OpenRotated, ReopenRotated, checkpoint
  <2> QED BY <2>1, <2>2
<1>6. CASE ~Reopen /\ (OpenRotated \/ ReopenRotated)
  <2>1. CASE OpenRotated
    <3>1. pc = "rotated" /\ fd = 0
      BY <2>1 DEF OpenRotated
    <3> QED BY <3>1 DEF TurnInv
  <2>2. CASE ReopenRotated
    <3>1. notReopened' = TRUE
      BY <1>6, <2>2 DEF ReopenRotated
    <3> QED BY <3>1 DEF NothingUnusual
  <2> QED BY <1>6, <2>1, <2>2
<1>7. CASE TakeLines /\ (ReadLines \/ ReadRotated)
  <2>1. /\ fd # 0 /\ UNCHANGED <<fd, place>> /\ pc \in {"read", "rotated"}
        /\ (pc' = "read" /\ memory' = commit') \/ pc' \in {"rotated twice", "reopen"}
    BY <1>7 DEF ReadLines, ReadRotated, log
  <2>2. Fresh(Processed, offset)'
    BY <1>0, <1>7, <2>1, FreshTaken DEF Reads
  <2> QED BY <2>1, <2>2
<1>8. CASE ~TakeLines /\ (ReadLines \/ ReadRotated)
  <2>1. UNCHANGED <<fd, offset, commit, pending, sent>> /\ pc = "rotated" /\ pc' = "reopen"
    BY <1>8 DEF ReadLines, ReadRotated
  <2>2. Fresh(Processed, offset)'
    BY <1>0, <2>1, FreshKept
  <2> QED BY <2>1, <2>2
<1>9. CASE StatusByLinks /\ pc' = "read"
  <2>1. UNCHANGED <<fd, offset, commit, pending, sent, memory>> /\ pc = "links"
    BY <1>9 DEF StatusByLinks, logFile
  <2>2. Fresh(Processed, offset)'
    BY <1>0, <2>1, FreshKept
  <2> QED BY <1>0, <1>9, <2>1, <2>2
<1>10. CASE StatusByLinks /\ pc' # "read"
  <2>1. pc = "links" /\ pc' = "idle" /\ sent' = sent /\ fd' = 0 /\ pending' = NothingPending /\ memory' = NoCheckpoint
    BY <1>10 DEF StatusByLinks
  <2>2. Fresh(Processed, offset)'
    BY <1>0, <2>1, FreshNowhere
  <2>3. \A l \in Line : sent[l] > 0 => Passed(NoCheckpoint, l)'
    BY <1>0, <1>10, <2>1, PassedAfterLinks
  <2>4. \A l \in Line : sent[l] > 0 => PassedAfter(NoCheckpoint, l)
    BY <2>3 DEF Passed, PassedAfter, BehindOf
  <2> QED BY <2>1, <2>2, <2>4
<1>11. CASE EndStop
  <2>1. pc \in {"idle", "read"} /\ pc' = "down" /\ sent' = sent /\ fd' = 0 /\ pending' = NothingPending
        /\ saved' = memory
    BY <1>11 DEF EndStop, Forget, history
  <2>2. Fresh(Processed, offset)'
    BY <1>0, <2>1, FreshNowhere
  <2>3. \A l \in Line : sent[l] > 0 => Passed(memory, l)
    BY <1>0, <1>b, <2>1
  <2>4. SavedOk
    BY <2>1, <2>3, PassedStays
  <2> QED BY <2>1, <2>2, <2>4
<1>12. CASE Crash
  <2>1. pc # "panic"
    BY DEF TurnInv
  <2>2. crashes' = crashes + 1
    BY <1>12, <2>1 DEF Crash
  <2> QED BY <2>2 DEF NothingUnusual
<1> QED BY <1>1, <1>2, <1>3, <1>4, <1>5, <1>6, <1>7, <1>8, <1>9, <1>10, <1>11, <1>12
   DEF Next, Process, FirstOpen

LEMMA FreshInit == Init => FreshInv
<1> SUFFICES ASSUME Init PROVE FreshInv
  OBVIOUS
<1>1. Processed.pending = NothingPending /\ Processed.sent = [l \in Line |-> 0]
      /\ sent = [l \in Line |-> 0] /\ fd = 0 /\ pc = "idle"
  BY DEF Init, Processed
<1>2. \A t \in Stream : NothingPending[t] = {}
  BY DEF NothingPending
<1> QED BY <1>1, <1>2 DEF FreshInv, Fresh

\* After TailBase: what was sent is behind the position, and isn't read again.
FreshBase == TailBase /\ (NothingUnusual => FreshInv)

LEMMA FreshBaseStep == FreshBase /\ [Next]_vars => FreshBase'
<1> SUFFICES ASSUME FreshBase, [Next]_vars PROVE FreshBase'
  OBVIOUS
<1>1. TailBase /\ TailBase'
  BY BaseStep DEF FreshBase
<1>2. ASSUME NothingUnusual' PROVE FreshInv'
  <2>1. TailTypeOK /\ FilesInv /\ PositionInv
    BY <1>1 DEF TailBase
  <2>2. NothingUnusual
    BY <1>2, <2>1, UnusualStays
  <2>3. TurnInv
    BY <1>1, <2>2 DEF TailBase, NothingUnusual
  <2> QED BY <1>2, <2>1, <2>2, <2>3, FreshStep DEF FreshBase
<1> QED BY <1>1, <1>2 DEF FreshBase

LEMMA FreshBaseHolds == Spec => []FreshBase
<1>1. Init => FreshBase
  BY BaseInit, FreshInit DEF FreshBase
<1> QED BY <1>1, FreshBaseStep, PTL DEF Spec

\* A line is sent twice only after a crash, or when the log was missing at the moment it was
\* to be reopened, or when the file appeared while it was checked: what checkpointsDB keeps
\* at a stop is enough to resume "without data loss or duplication", for any number of
\* files, rotations, reused inodes and stops, whichever streams the lines belong to.
THEOREM NoDuplicatesHolds == Spec => []NoDuplicates
<1>1. FreshBase => NoDuplicates
  <2>1. Processed.sent = sent
    BY DEF Processed
  <2> QED BY <2>1 DEF FreshBase, NoDuplicates, FreshInv, Fresh
<1> QED BY <1>1, FreshBaseHolds, PTL

\* The invariant of a log whose entries aren't mixed.
KeptBase == lateFile \/ (TurnInv /\ CompleteInv)

LEMMA KeptBaseStep ==
  ASSUME Unmixed
  PROVE  TailBase /\ KeptBase /\ [Next]_vars => KeptBase'
<1> SUFFICES ASSUME TailBase, KeptBase, [Next]_vars PROVE KeptBase'
  OBVIOUS
<1>1. TailTypeOK /\ FilesInv /\ PositionInv
  BY DEF TailBase
<1>2. CASE lateFile'
  BY <1>2 DEF KeptBase
<1>3. CASE ~lateFile'
  <2>1. ~lateFile
    BY <1>1, <1>3, UnusualStays
  <2>2. TurnInv /\ CompleteInv
    BY <2>1 DEF KeptBase
  <2>3. TurnInv'
    BY <1>3, BaseStep DEF TailBase
  <2>4. CompleteInv'
    BY <1>1, <2>2, CompleteStep
  <2> QED BY <2>3, <2>4 DEF KeptBase
<1> QED BY <1>2, <1>3

\* A log whose entries aren't mixed loses no line: what is behind the position of the tailer,
\* in the open file or an earlier one, was sent or waits for the end of its entry, and what a
\* restart from a checkpoint skips was sent, even when the log is rotated while it is checked
\* or reopened, or while vlagent is down, and its inode is used again.  Lines are given up
\* only when they have no content, when their entry is too large, or when an invalid line
\* breaks it off.
THEOREM TailInvHolds ==
  ASSUME Unmixed
  PROVE  Spec => []TailInv
<1>1. Init => KeptBase
  BY BaseInit, CompleteInit DEF KeptBase
<1>2. TailBase /\ KeptBase /\ [Next]_vars => KeptBase'
  BY KeptBaseStep
<1>3. Spec => [](TailBase /\ KeptBase)
  BY <1>1, <1>2, BaseInit, BaseStep, PTL DEF Spec
<1>4. FreshBase /\ TailBase /\ KeptBase => TailInv
  BY CompleteKeeps DEF FreshBase, TailBase, KeptBase, TailInv
<1> QED BY <1>3, <1>4, FreshBaseHolds, PTL

\* An entry of a log whose entries aren't mixed isn't sent without its first lines, unless an
\* invalid line is among them.
THEOREM EntriesAreWholeHolds ==
  ASSUME Unmixed
  PROVE  Spec => []EntriesAreWhole
<1>1. TailInv => EntriesAreWhole
  BY DEF TailInv, CompleteInv, Complete, Processed, EntriesAreWhole
<1> QED BY <1>1, TailInvHolds, PTL
=============================================================================
