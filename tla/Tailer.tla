------------------------------- MODULE Tailer -------------------------------
(***************************************************************************)
(* How vlagent follows a log file which is written and rotated by others:  *)
(* app/vlagent/tail with the line processors of the collectors.            *)
(*                                                                         *)
(* A file has complete lines and maybe the beginning of the next one.  The *)
(* log is rotated by renaming it; the application goes on writing to the   *)
(* renamed file until it writes to the new one.  Truncation isn't modelled *)
(* (copytruncate may lose lines by design), nor is a file which a process  *)
(* goes on writing to after the log has been deleted.                      *)
(*                                                                         *)
(* An offset is a number of lines, the fingerprint of a file its number, 0 *)
(* while its first line is incomplete.  A processor joins the lines of an  *)
(* entry which is split into several lines, for every stream of the log;   *)
(* the checkpoint is moved behind every line but those it keeps for later. *)
(***************************************************************************)
EXTENDS Naturals, FiniteSets

CONSTANTS
  FilesCount,   \* bound on files ever created at the path
  LinesCount,   \* bound on the lines of a file
  KindOf,       \* KindOf[l]: what the processor makes of line l, see Kind
  StreamOf,     \* StreamOf[l]: stdout or stderr
  MaxEntry,     \* lines in the largest entry that fits maxLogLineSize
  Inode,        \* inodes of the directory
  MaxStops,     \* bound on graceful stops
  MaxCrashes    \* bound on crashes

File == 1..FilesCount
Line == File \X (1..LinesCount)
Stream == {StreamOf[l] : l \in Line}

ASSUME FileAssumption ==
  /\ FilesCount \in Nat /\ LinesCount \in Nat /\ MaxEntry \in Nat \ {0}
  /\ MaxStops \in Nat /\ MaxCrashes \in Nat
  /\ 0 \notin Inode

\* CRI lines are a part of an entry, or "full": the last part or a whole entry. A "json"
\* line of Docker is an entry. A "void" line is empty or broken json, an "invalid" one no
\* CRI line, and a "long" one is skipped before the processor sees it.
Kind == {"part", "full", "json", "void", "invalid", "long"}

ASSUME LineAssumption == KindOf \in [Line -> Kind] /\ DOMAIN StreamOf = Line

VARIABLES
  symlink,    \* the path is a symlink, as in Kubernetes
  created,    \* number of files created so far
  place,      \* place[f]: "none", "log" (at the path), "old" (renamed), "gone"
  inode, lines,
  half,       \* files which end with an incomplete line
  pc, stopping,
  fd,         \* lf.file, or 0
  offset,     \* lf.offset
  tail,       \* lf.tail isn't empty
  commit,     \* commitInode, commitFingerprint, commitOffset
  pending,    \* pending[s]: lines of an entry kept by the processor
  memory,     \* checkpointsDB.checkpoints
  saved,      \* the file with the checkpoints
  stops, crashes,
  sent,       \* sent[l]: how many times a line was sent, in an entry (history)
  dropped,    \* lines kept by the processor, and given up (history)
  torn,       \* lines sent without the previous lines of their entry (history)
  opened,     \* files opened so far (history)
  forgiven,   \* files removed, or rotated too fast, before they were read (history)
  lateFile,   \* the file appeared between opening it and checking its status (history)
  notReopened \* the log was missing when it was to be reopened (history)

log        == <<symlink, created, place, inode, lines, half>>
logFile    == <<fd, offset, tail, commit, pending>>
checkpoint == <<memory, saved>>
bounds     == <<stops, crashes>>
history    == <<sent, dropped, torn, opened, forgiven, lateFile, notReopened>>

vars == <<log, pc, stopping, logFile, checkpoint, bounds, history>>

\* A missing checkpoint has the same effect as one without a committed line.
NoCheckpoint == [inode |-> 0, fingerprint |-> 0, offset |-> 0]

NothingPending == [s \in Stream |-> {}]

Init ==
  /\ symlink \in BOOLEAN /\ created = 0
  /\ place = [f \in File |-> "none"] /\ inode = [f \in File |-> 0]
  /\ lines = [f \in File |-> 0] /\ half = {}
  /\ pc = "idle" /\ stopping = FALSE
  /\ fd = 0 /\ offset = 0 /\ tail = FALSE /\ commit = NoCheckpoint /\ pending = NothingPending
  /\ memory = NoCheckpoint /\ saved = NoCheckpoint
  /\ stops = 0 /\ crashes = 0
  /\ sent = [l \in Line |-> 0] /\ dropped = {} /\ torn = {} /\ opened = {} /\ forgiven = {}
  /\ lateFile = FALSE /\ notReopened = FALSE

-----------------------------------------------------------------------------
(* The application and the rotation of its log *)

\* The file at the path, or 0.
Log == IF "log" \in {place[f] : f \in File} THEN CHOOSE f \in File : place[f] = "log" ELSE 0

Empty(f) == lines[f] = 0 /\ f \notin half

\* The application doesn't return to a renamed file.
Writable(f) == place[f] \in {"log", "old"} /\ \A g \in File : g > f => Empty(g)

WriteLine(f) ==
  /\ Writable(f) /\ lines[f] < LinesCount
  /\ lines' = [lines EXCEPT ![f] = @ + 1] /\ half' = half \ {f}
  /\ UNCHANGED <<symlink, created, place, inode, pc, stopping, logFile, checkpoint, bounds, history>>

WriteHalf(f) ==
  /\ Writable(f) /\ lines[f] < LinesCount /\ f \notin half
  /\ half' = half \cup {f}
  /\ UNCHANGED <<symlink, created, place, inode, lines, pc, stopping, logFile, checkpoint, bounds,
                 history>>

Create ==
  /\ Log = 0 /\ created < FilesCount
  /\ created' = created + 1
  /\ place' = [place EXCEPT ![created'] = "log"]
  /\ \E i \in Inode \ {inode[f] : f \in {g \in File : place[g] \in {"log", "old"} \/ g = fd}} :
       inode' = [inode EXCEPT ![created'] = i]
  /\ UNCHANGED <<symlink, lines, half, pc, stopping, logFile, checkpoint, bounds, history>>

Rotate(f) ==
  /\ place[f] = "log" /\ lines[f] > 0
  /\ place' = [place EXCEPT ![f] = "old"]
  /\ UNCHANGED <<symlink, created, inode, lines, half, pc, stopping, logFile, checkpoint, bounds,
                 history>>

\* Removed, or compressed.
Unlink(f) ==
  /\ place[f] \in {"log", "old"}
  /\ place' = [place EXCEPT ![f] = "gone"]
  /\ UNCHANGED <<symlink, created, inode, lines, half, pc, stopping, logFile, checkpoint, bounds,
                 history>>

-----------------------------------------------------------------------------
(* Opening the log file *)

\* The collector of files starts reading files which exist, and the one of Kubernetes
\* those of known containers.
StartRead ==
  /\ pc = "idle" /\ ~stopping
  /\ Log # 0 \/ symlink
  /\ pc' = "open"
  /\ UNCHANGED <<log, stopping, logFile, checkpoint, bounds, history>>

Fingerprint(f) == IF lines[f] > 0 THEN f ELSE 0

\* The file tryResumeFromCheckpoint() finds: at the path, or renamed; or 0.
Resumed(cp) ==
  LET found == {f \in File : place[f] \in {"log", "old"} /\ inode[f] = cp.inode
                             /\ Fingerprint(f) # 0 /\ cp.fingerprint \in {0, Fingerprint(f)}}
  IN IF Log = 0 \/ found = {} THEN 0 ELSE CHOOSE f \in found : TRUE

\* openLogFile().  What was opened before may remain unread if its checkpoint has no
\* committed line or its file is gone, or if the log is missing at that moment.
OpenLogFile ==
  LET f == Resumed(memory)
      c == memory.fingerprint
  IN
  /\ pc = "open"
  /\ pc' = "read"
  /\ fd' = f /\ tail' = FALSE /\ pending' = NothingPending
  /\ offset' = IF f = 0 THEN 0 ELSE memory.offset
  /\ commit' = IF f = 0 THEN NoCheckpoint
               ELSE [inode |-> inode[f], fingerprint |-> f, offset |-> memory.offset]
  /\ memory' = IF f = 0 THEN NoCheckpoint ELSE memory
  /\ forgiven' = IF Log = 0 \/ c = 0 \/ place[c] = "gone" THEN 1..created ELSE forgiven
  /\ UNCHANGED <<log, stopping, saved, bounds, sent, dropped, torn, opened, lateFile, notReopened>>

\* tryReopen() when the log exists.
Reopen ==
  /\ Log # 0
  /\ fd' = Log /\ offset' = 0
  /\ opened' = opened \cup {Log}
  /\ forgiven' = (forgiven \cup IF fd = 0 THEN {} ELSE {f \in File : fd < f /\ f < Log}) \ {Log}

FirstOpen ==
  /\ pc = "read" /\ ~stopping /\ fd = 0
  /\ Reopen
  /\ UNCHANGED <<log, pc, stopping, tail, commit, pending, checkpoint, bounds, sent, dropped, torn,
                 lateFile, notReopened>>

-----------------------------------------------------------------------------
(* Reading lines *)

IsBefore(l, m) == l[1] < m[1] \/ (l[1] = m[1] /\ l[2] < m[2])

\* Lines of the entry which ends with l. It doesn't reach back over an invalid line.
EntryOf(l) ==
  LET Before(k) == {m \in Line : m[2] <= lines[m[1]] /\ IsBefore(m, k)}
      Ends(k) == KindOf[k] = "invalid" \/ (KindOf[k] = "full" /\ StreamOf[k] = StreamOf[l])
  IN {m \in Before(l) : /\ KindOf[m] = "part" /\ StreamOf[m] = StreamOf[l]
                        /\ \A k \in Before(l) : Ends(k) => k \in Before(m)} \cup {l}

TooLarge(entry) == Cardinality(entry) > MaxEntry

\* The lines kept for the stream of l, and l.
Entry(s, l) == s.pending[StreamOf[l]] \cup {l}

Whole(s, l) == {m \in EntryOf(l) : m[1] \in opened \ forgiven} \subseteq Entry(s, l)

SentWith(s, l) ==
  CASE KindOf[l] = "json" -> {l}
    [] KindOf[l] = "full" /\ ~TooLarge(Entry(s, l)) -> Entry(s, l)
    [] OTHER -> {}

\* An invalid line resets both streams.
DroppedWith(s, l) ==
  CASE KindOf[l] = "invalid" -> UNION {s.pending[t] : t \in Stream}
    [] KindOf[l] = "full" /\ TooLarge(Entry(s, l)) -> Entry(s, l)
    [] OTHER -> {}

PendingAfter(s, l) ==
  CASE KindOf[l] = "invalid" -> NothingPending
    [] KindOf[l] = "part" -> [s.pending EXCEPT ![StreamOf[l]] = Entry(s, l)]
    [] KindOf[l] = "full" -> [s.pending EXCEPT ![StreamOf[l]] = {}]
    [] OTHER -> s.pending

\* What the processor makes of a line, and the checkpoint which is set with it.
Added(s, l, committed) ==
  [pending |-> PendingAfter(s, l),
   commit  |-> committed,
   sent    |-> [m \in Line |-> IF m \in SentWith(s, l) THEN s.sent[m] + 1 ELSE s.sent[m]],
   dropped |-> s.dropped \cup DroppedWith(s, l),
   torn    |-> s.torn \cup {m \in SentWith(s, l) : m = l /\ KindOf[l] = "full" /\ ~Whole(s, l)}]

CheckpointAt(l) == [inode |-> inode[l[1]], fingerprint |-> l[1], offset |-> l[2]]

\* (mutant) Every line is committed.
AddLineEagerly(s, l) == Added(s, l, CheckpointAt(l))

\* tryCompleteTail() skips a too long line. TryAddLine() lets addLine() commit the others,
\* except one which it keeps.
AddLine(s, l) ==
  Added(s, l, IF KindOf[l] \in {"long", "part"} THEN s.commit ELSE CheckpointAt(l))

HasUnread(f) == offset < lines[f] \/ (f \in half /\ ~tail)

Processed == [pending |-> pending, commit |-> commit, sent |-> sent, dropped |-> dropped, torn |-> torn]

\* What the processor makes of the first i unread lines.
LinesAdded[i \in 0..(lines[fd] - offset)] ==
  IF i = 0 THEN Processed ELSE AddLine(LinesAdded[i - 1], <<fd, offset + i>>)

\* readLines() with something to read.
TakeLines ==
  LET s == LinesAdded[lines[fd] - offset] IN
  /\ HasUnread(fd)
  /\ offset' = lines[fd] /\ tail' = (fd \in half)
  /\ pending' = s.pending /\ commit' = s.commit
  /\ sent' = s.sent /\ dropped' = s.dropped /\ torn' = s.torn

\* process(): lines were read, and the checkpoint is set.
ReadLines ==
  /\ pc = "read" /\ ~stopping /\ fd # 0
  /\ TakeLines
  /\ memory' = commit'
  /\ UNCHANGED <<log, pc, stopping, fd, saved, bounds, opened, forgiven, lateFile, notReopened>>

\* No lines were read, maybe as readLines() has seen stopCh.
NoLines ==
  /\ pc = "read"
  /\ stopping \/ (IF fd = 0 THEN Log = 0 ELSE ~HasUnread(fd))
  /\ pc' = "status"
  /\ UNCHANGED <<log, stopping, logFile, checkpoint, bounds, history>>

-----------------------------------------------------------------------------
(* Checking the status of the log file *)

\* (mutant) An empty log is a rotated one too.
IsRotatedEarly == lines[Log] < offset \/ fd = 0 \/ inode[Log] # inode[fd]

\* status() when the log exists.
IsRotated ==
  /\ ~Empty(Log)
  /\ lines[Log] < offset \/ fd = 0 \/ inode[Log] # inode[fd]

StatusOfExisting ==
  /\ pc = "status" /\ Log # 0
  /\ pc' = IF IsRotated THEN "rotated" ELSE "read"
  /\ lateFile' = (lateFile \/ (IsRotated /\ fd = 0))
  /\ UNCHANGED <<log, stopping, logFile, checkpoint, bounds, sent, dropped, torn, opened, forgiven,
                 notReopened>>

StatusOfMissing ==
  /\ pc = "status" /\ Log = 0
  /\ pc' = IF symlink THEN "read" ELSE "links"
  /\ UNCHANGED <<log, stopping, logFile, checkpoint, bounds, history>>

\* The log was missing: it is deleted if the file has no links either.  The lines which
\* were written after the last read aren't read.
StatusByLinks ==
  /\ pc = "links"
  /\ IF fd # 0 /\ place[fd] # "gone"
     THEN pc' = "read" /\ UNCHANGED <<logFile, memory, forgiven>>
     ELSE /\ pc' = "idle"
          /\ fd' = 0 /\ offset' = 0 /\ tail' = FALSE
          /\ commit' = NoCheckpoint /\ pending' = NothingPending
          /\ memory' = NoCheckpoint
          /\ forgiven' = forgiven \cup (1..fd)
  /\ UNCHANGED <<log, stopping, saved, bounds, sent, dropped, torn, opened, lateFile, notReopened>>

\* The file was rotated: what remains in it is read.
ReadRotated ==
  /\ pc = "rotated" /\ fd # 0
  /\ \/ TakeLines /\ pc' = "rotated twice"
     \/ /\ ~HasUnread(fd) /\ pc' = "reopen"
        /\ UNCHANGED <<offset, tail, pending, commit, sent, dropped, torn>>
  /\ UNCHANGED <<log, stopping, fd, checkpoint, bounds, opened, forgiven, lateFile, notReopened>>

\* The file wasn't opened yet: readLines() opens it.
OpenRotated ==
  /\ pc = "rotated" /\ fd = 0
  /\ \/ Reopen /\ UNCHANGED pc
     \/ Log = 0 /\ pc' = "reopen" /\ UNCHANGED <<fd, offset, opened, forgiven>>
  /\ UNCHANGED <<log, stopping, tail, commit, pending, checkpoint, bounds, sent, dropped, torn,
                 lateFile, notReopened>>

\* "BUG: log file %q was appended after rotation"
ReadRotatedAgain ==
  /\ pc = "rotated twice"
  /\ pc' = IF HasUnread(fd) THEN "panic" ELSE "reopen"
  /\ UNCHANGED <<log, stopping, logFile, checkpoint, bounds, history>>

\* The incomplete line is dropped, and the log is opened from the beginning; the
\* checkpoint stays in the old file until a line of the new one is committed.
ReopenRotated ==
  /\ pc = "reopen"
  /\ pc' = "read" /\ tail' = FALSE
  /\ \/ Reopen /\ memory' = commit /\ UNCHANGED notReopened
     \/ Log = 0 /\ notReopened' = TRUE /\ UNCHANGED <<fd, offset, memory, opened, forgiven>>
  /\ UNCHANGED <<log, stopping, commit, pending, saved, bounds, sent, dropped, torn, lateFile>>

-----------------------------------------------------------------------------
(* Checkpoints on disk, stops and crashes *)

\* Once per minute.
SyncCheckpoints ==
  /\ pc # "down" /\ saved # memory
  /\ saved' = memory
  /\ UNCHANGED <<log, pc, stopping, logFile, memory, bounds, history>>

Stop ==
  /\ pc \notin {"down", "panic"} /\ ~stopping /\ stops < MaxStops
  /\ stopping' = TRUE /\ stops' = stops + 1
  /\ UNCHANGED <<log, pc, logFile, checkpoint, crashes, history>>

Forget ==
  /\ pc' = "down" /\ stopping' = FALSE
  /\ fd' = 0 /\ offset' = 0 /\ tail' = FALSE /\ commit' = NoCheckpoint /\ pending' = NothingPending
  /\ memory' = NoCheckpoint

\* (mutant) Checkpoints aren't synced at stop.
EndStopUnsynced ==
  /\ stopping /\ pc \in {"idle", "read"}
  /\ Forget
  /\ UNCHANGED <<log, saved, bounds, history>>

\* The goroutine of the file has seen stopCh, and checkpointsDB syncs for the last time.
EndStop ==
  /\ stopping /\ pc \in {"idle", "read"}
  /\ saved' = memory
  /\ Forget
  /\ UNCHANGED <<log, bounds, history>>

Crash ==
  /\ \/ pc = "panic" /\ UNCHANGED crashes
     \/ pc # "down" /\ crashes < MaxCrashes /\ crashes' = crashes + 1
  /\ Forget
  /\ UNCHANGED <<log, saved, stops, history>>

Start ==
  /\ pc = "down"
  /\ pc' = "idle" /\ memory' = saved
  /\ UNCHANGED <<log, stopping, logFile, saved, bounds, history>>

-----------------------------------------------------------------------------

Process ==
  \/ StartRead \/ OpenLogFile \/ FirstOpen \/ ReadLines \/ NoLines
  \/ StatusOfExisting \/ StatusOfMissing \/ StatusByLinks
  \/ ReadRotated \/ OpenRotated \/ ReadRotatedAgain \/ ReopenRotated
  \/ EndStop \/ Start

Environment ==
  \/ \E f \in File : WriteLine(f) \/ WriteHalf(f) \/ Rotate(f) \/ Unlink(f)
  \/ Create

Next == Process \/ Environment \/ SyncCheckpoints \/ Stop \/ Crash

Spec == Init /\ [][Next]_vars

-----------------------------------------------------------------------------
(* Properties *)

CheckpointSet == [inode : Inode \cup {0}, fingerprint : File \cup {0}, offset : 0..LinesCount]

TailTypeOK ==
  /\ symlink \in BOOLEAN /\ created \in 0..FilesCount
  /\ place \in [File -> {"none", "log", "old", "gone"}] /\ inode \in [File -> Inode \cup {0}]
  /\ lines \in [File -> 0..LinesCount] /\ half \subseteq File
  /\ pc \in {"idle", "open", "read", "status", "links", "rotated", "rotated twice", "reopen",
             "panic", "down"}
  /\ stopping \in BOOLEAN
  /\ fd \in File \cup {0} /\ offset \in 0..LinesCount /\ tail \in BOOLEAN
  /\ commit \in CheckpointSet /\ memory \in CheckpointSet /\ saved \in CheckpointSet
  /\ pending \in [Stream -> SUBSET Line]
  /\ stops \in 0..MaxStops /\ crashes \in 0..MaxCrashes
  /\ sent \in [Line -> Nat] /\ dropped \subseteq Line /\ torn \subseteq Line /\ opened \subseteq File
  /\ forgiven \subseteq File /\ lateFile \in BOOLEAN /\ notReopened \in BOOLEAN

\* Lines which are passed over alone.
Skipped(l) == KindOf[l] \in {"long", "void", "invalid"}

Taken(l) == sent[l] > 0 \/ Skipped(l) \/ l \in dropped \/ \E s \in Stream : l \in pending[s]

\* A line which is behind position k of the open file, or which was written to a file
\* opened before, unless that file disappeared, or was rotated again, before it was read.
Reached(k, l) ==
  \/ l[1] = fd /\ l[2] <= k
  \/ l[1] \in opened \ forgiven /\ l[1] < fd /\ l[2] <= lines[l[1]]

\* A line behind the position of the tailer was sent, or waits for the end of its entry,
\* or was given up with its entry.
LinesAreKept == \A l \in Line : Reached(offset, l) => Taken(l)

\* Files appear at the path one after another and never return to it.
FilesInv ==
  /\ \A f \in File : /\ place[f] = "none" <=> f > created
                     /\ place[f] = "log" => f = created
                     /\ IF f > created THEN Empty(f) ELSE inode[f] \in Inode
  /\ opened \subseteq 1..created

\* A checkpoint is behind a line the processor is done with.
IsCheckpoint(cp) ==
  \/ cp = NoCheckpoint
  \/ /\ cp.fingerprint \in 1..created /\ cp.inode = inode[cp.fingerprint]
     /\ cp.offset \in 1..lines[cp.fingerprint]
     /\ KindOf[<<cp.fingerprint, cp.offset>>] \notin {"part", "long"}

\* The tailer is somewhere in a file, or nowhere.
PositionInv ==
  /\ fd <= created /\ (fd # 0 => offset <= lines[fd])
  /\ IsCheckpoint(commit) /\ IsCheckpoint(memory) /\ IsCheckpoint(saved)
  /\ pc \in {"idle", "open", "down"} => fd = 0
  /\ fd = 0 => offset = 0 /\ commit = NoCheckpoint /\ pending = NothingPending

\* The application has left the file for a later one.
Abandoned(f) == \E g \in File : g > f /\ ~Empty(g)

\* A file is left after it was read to its end, which won't move any more.
TurnInv ==
  /\ pc \in {"rotated", "rotated twice", "reopen"} => fd # 0 /\ Abandoned(fd)
  /\ pc \in {"rotated twice", "reopen"} => ~HasUnread(fd)
  /\ pc # "panic"
  /\ fd = 0 /\ pc \notin {"idle", "open", "down"} => opened \subseteq forgiven
  /\ \A f \in opened \ forgiven : f < fd => Abandoned(f)

BehindOf(cp, l) ==
  l[1] < cp.fingerprint \/ (l[1] = cp.fingerprint /\ l[2] <= cp.offset)

\* What a restart from the checkpoint doesn't read was sent, or given up.
Settled(cp, done) ==
  \A l \in Line :
    /\ BehindOf(cp, l)
    /\ l[1] = cp.fingerprint \/ (l[1] \in opened \ forgiven /\ l[2] <= lines[l[1]])
    => Skipped(l) \/ done.sent[l] > 0 \/ l \in done.dropped

\* A line is given up with its entry, for an invalid line behind it, or when the entry is
\* too large even if all parts before its end belonged to it.
GivenUp(m) ==
  \E l \in Line :
    /\ m = l \/ (KindOf[m] = "part" /\ IsBefore(m, l))
    /\ \/ KindOf[l] = "invalid"
       \/ /\ KindOf[l] = "full" /\ StreamOf[m] = StreamOf[l]
          /\ TooLarge({k \in Line : KindOf[k] = "part" /\ StreamOf[k] = StreamOf[l] /\ IsBefore(k, l)} \cup {l})

\* At position k the lines were sent up to the checkpoint, and are pending behind it.
Complete(s, k) ==
  /\ s.commit.fingerprint < fd \/ (s.commit.fingerprint = fd /\ s.commit.offset <= k)
  /\ \A l \in Line : Reached(k, l) =>
       Skipped(l) \/ BehindOf(s.commit, l) \/ \E t \in Stream : l \in s.pending[t]
  /\ \A t \in Stream : \A l \in s.pending[t] :
       KindOf[l] = "part" /\ StreamOf[l] = t /\ (l[1] < fd \/ (l[1] = fd /\ l[2] <= k))
  /\ Settled(s.commit, s)
  /\ \A l \in s.dropped : GivenUp(l)
  /\ s.torn = {}

CompleteInv ==
  /\ Complete(Processed, offset)
  /\ Settled(memory, Processed) /\ Settled(saved, Processed)

\* A restart from the checkpoint doesn't read the line again.
Passed(cp, l) == BehindOf(cp, l) \/ (cp = NoCheckpoint /\ place[l[1]] \in {"old", "gone"})

\* At position k nothing ahead of it was sent, and nothing that is pending.
Fresh(s, k) ==
  /\ \A l \in Line : s.sent[l] <= 1
  /\ \A t \in Stream : \A l \in s.pending[t] : StreamOf[l] = t /\ s.sent[l] = 0
  /\ \A l \in Line : s.sent[l] > 0 \/ (\E t \in Stream : l \in s.pending[t]) =>
       fd = 0 \/ l[1] < fd \/ (l[1] = fd /\ l[2] <= k)
  /\ pc \notin {"idle", "open", "down"} => \A l \in Line : s.sent[l] > 0 => Passed(s.commit, l)

\* The checkpoint which counts when vlagent stops now, or starts.
FreshInv ==
  /\ Fresh(Processed, offset)
  /\ pc \in {"idle", "open"} => \A l \in Line : sent[l] > 0 => Passed(memory, l)
  /\ pc = "down" => \A l \in Line : sent[l] > 0 => Passed(saved, l)
  /\ pc \in {"read", "status", "links"} => memory = commit

NothingUnusual == crashes = 0 /\ ~notReopened /\ ~lateFile

\* Types; no line is lost, even when the log is rotated while it is checked or reopened,
\* or while vlagent is down, and its inode is used again; what checkpoints stand for.
TailInv ==
  /\ TailTypeOK /\ FilesInv /\ PositionInv
  /\ lateFile \/ (TurnInv /\ LinesAreKept /\ CompleteInv)
  /\ NothingUnusual => FreshInv

\* An entry isn't sent without its first lines, in whichever file they are, although
\* vlagent may have been restarted between them, unless an invalid line is among them.
EntriesAreWhole == torn = {} \/ lateFile

\* (violated, see README.md) "skipping invalid CRI log line": an entry is sent with all its
\* lines, also those before an invalid line.
EntriesAreUncut ==
  \A l, m \in Line :
    /\ KindOf[l] = "full" /\ sent[l] > 0
    /\ KindOf[m] = "part" /\ StreamOf[m] = StreamOf[l] /\ IsBefore(m, l)
    /\ m[1] \in opened \ forgiven /\ m[2] <= lines[m[1]]
    /\ \A k \in Line : KindOf[k] = "full" /\ StreamOf[k] = StreamOf[l] /\ IsBefore(m, k) => ~IsBefore(k, l)
    => sent[m] > 0

\* "enable resuming log collection after vlagent restarts without data loss or
\* duplication": a line is sent twice only after a crash, or when the log was missing
\* at the moment it was to be reopened.
NoDuplicates == NothingUnusual => \A l \in Line : sent[l] <= 1

\* "BUG: log file %q was appended after rotation"
NeverPanics == pc # "panic"
=============================================================================
