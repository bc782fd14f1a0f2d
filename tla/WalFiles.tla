------------------------------ MODULE WalFiles ------------------------------
(***************************************************************************)
(* The files of the write-ahead log, down to where a frame may be cut: the *)
(* buffered writer, rotation, the repair of the tail when a tenant opens   *)
(* its log, and the reads that scan it, VSEARCH ... AS_OF among them.      *)
(*                                                                         *)
(* A frame is its length field and its payload.  The writer's buffer goes  *)
(* to the file when it is full, wherever in a frame that falls, and a kill *)
(* leaves the file as it is then.  Acknowledgements, lost pages and the    *)
(* checkpoint itself are the subject of Durability; which records a        *)
(* command writes, of Keyspace and Vectors.                                *)
(***************************************************************************)
EXTENDS Integers, Sequences, FiniteSets, SequencesExt

CONSTANTS
  Keys,
  Ids,        \* ids of vectors
  MaxRecs,    \* bound: records written
  MaxClock,   \* bound: the clock
  MaxKills    \* bound: kills

VARIABLES
  segs,     \* archived segments: the number in the name and the frames
  cur,      \* wal.log
  buf,      \* frames of the buffered writer; the first may be partly in the file
  seq,      \* WAL.seq
  clock,    \* time.Now()
  mode,     \* "up", in Checkpoint ("renamed", "rotated"), "down", "failed"
  wrote, kills,
  \* history
  kept,     \* records whose frames are whole in a file that is still there
  setBack   \* the clock was set back

vars == <<segs, cur, buf, seq, clock, mode, wrote, kills, kept, setBack>>

-----------------------------------------------------------------------------
(* wal.log: whether it has its header (a file that is not there has not),   *)
(* its whole frames, and how much of another frame follows them.  What is   *)
(* written behind a rest that is not its own cannot be read.                *)

Cuts == {"in length", "at payload", "in payload"}

NoHeader == [header |-> FALSE, frames |-> <<>>, rest |-> "none"]
NewLog == [NoHeader EXCEPT !.header = TRUE]

\* ReadFull returns ErrUnexpectedEOF, which a partial tail may meet, only when
\* it has read something; a payload of which nothing is there meets EOF.
Partial == {"in length", "in payload"}

scanFrames(f, allowPartialTail) ==
  \/ f.rest = "none"
  \/ allowPartialTail /\ f.rest \in Partial

InNameOrder(ss) == SetToSortSeq(ss, LAMBDA s, t : s.name < t.name)

\* Archived segments first: "wal-" sorts before "wal.log".
scanSegments ==
  LET ordered == InNameOrder(segs)
  IN  FlattenSeq([i \in DOMAIN ordered |-> ordered[i].frames]) \o cur.frames

Readable == cur.header /\ scanFrames(cur, TRUE)

BySequence(a, b) == a.seq < b.seq

ReadAll == SortSeq(scanSegments, BySequence)

\* The scan stops at the first record stamped after until; what it has read
\* of the key is sorted, and cut at that record's number.
ReadKeyHistory(key, until) ==
  LET scan == scanSegments
      after == {i \in DOMAIN scan : scan[i].time > until}
      late == IF after = {} THEN 0 ELSE Min(after)
      read == IF late = 0 THEN scan ELSE SubSeq(scan, 1, late - 1)
      matched == SortSeq(SelectSeq(read, LAMBDA r : r.key = key), BySequence)
  IN  SelectSeq(matched, LAMBDA r : late # 0 => r.seq < scan[late].seq)

\* The ids in the scratch index of VSEARCH key ... AS_OF asOf.  Of the records
\* of the key it replays VADD, VADD_BATCH and VDEL.
executeTimeTravelSearch(key, asOf) ==
  FoldLeft(LAMBDA index, r : CASE r.op = "add" -> index \cup {r.id}
                               [] r.op = "del" -> index \ {r.id}
                               [] OTHER -> index,
           {}, ReadKeyHistory(key, asOf))

-----------------------------------------------------------------------------
Init ==
  /\ segs = {} /\ cur = NewLog /\ buf = <<>> /\ seq = 0
  /\ clock = 1 /\ mode = "up" /\ wrote = 0 /\ kills = 0
  /\ kept = {} /\ setBack = FALSE

Record(key, op, id) == [seq |-> seq + 1, time |-> clock, key |-> key, op |-> op, id |-> id]

Written(log) ==
  /\ mode = "up" /\ wrote < MaxRecs
  /\ buf' = log
  /\ seq' = seq + 1 /\ wrote' = wrote + 1
  /\ UNCHANGED <<segs, cur, clock, mode, kills, kept, setBack>>

\* Mutant of Write: the number is taken before the lock that orders the frames,
\* and the previous record comes later.
Write_Unordered ==
  \E key \in Keys, op \in {"add", "del", "other"}, id \in Ids :
    Written(IF buf = <<>> THEN <<Record(key, op, id)>>
            ELSE Front(buf) \o <<Record(key, op, id), Last(buf)>>)

\* Write: number, timestamp and place in the log are one step (w.order).
Write ==
  \E key \in Keys, op \in {"add", "del", "other"}, id \in Ids :
    Written(Append(buf, Record(key, op, id)))

\* n frames of the buffer and a part of the next one reach the file.
Flushed(n, rest) ==
  /\ cur' = IF cur.rest = "foreign" THEN cur
            ELSE [cur EXCEPT !.frames = @ \o SubSeq(buf, 1, n), !.rest = rest]
  /\ kept' = kept \cup ToSet(SubSeq(buf, 1, n))
  /\ buf' = SubSeq(buf, n + 1, Len(buf))

\* The buffer is full and goes to the file; its last frame need not be whole.
Spill ==
  /\ mode = "up" /\ buf # <<>>
  /\ \E n \in 0..(Len(buf) - 1), rest \in Cuts :
       /\ n = 0 => cur.rest = "none"
       /\ Flushed(n, rest)
  /\ UNCHANGED <<segs, seq, clock, mode, wrote, kills, setBack>>

\* The flusher's tick, or Sync.
Sync ==
  /\ mode = "up" /\ buf # <<>>
  /\ Flushed(Len(buf), "none")
  /\ UNCHANGED <<segs, seq, clock, mode, wrote, kills, setBack>>

\* Checkpoint, with mutations excluded: after Sync and the snapshot, which
\* covers all of the log, Rotate renames wal.log to wal-<seq>.log, over a
\* segment of that name if there is one ...
Rename ==
  /\ mode = "up" /\ buf = <<>>
  /\ LET old == {s \in segs : s.name = seq}
     IN  /\ segs' = (segs \ old) \cup {[name |-> seq, frames |-> cur.frames]}
         /\ kept' = kept \ UNION {ToSet(s.frames) : s \in old}
  /\ cur' = NoHeader /\ mode' = "renamed"
  /\ UNCHANGED <<buf, seq, clock, wrote, kills, setBack>>

\* ... creates wal.log and writes its header ...
Header ==
  /\ mode = "renamed"
  /\ cur' = NewLog /\ mode' = "rotated"
  /\ UNCHANGED <<segs, buf, seq, clock, wrote, kills, kept, setBack>>

\* ... and the segments whose name says they are covered go, those that
\* os.Remove cannot remove excepted.
CompactThrough ==
  /\ mode = "rotated"
  /\ \E gone \in SUBSET {s \in segs : s.name <= seq} :
       /\ segs' = segs \ gone
       /\ kept' = kept \ UNION {ToSet(s.frames) : s \in gone}
  /\ mode' = "up"
  /\ UNCHANGED <<cur, buf, seq, clock, wrote, kills, setBack>>

\* The wall clock, which may be set back.
Clock ==
  /\ \E t \in (1..MaxClock) \ {clock} : clock' = t /\ setBack' = (setBack \/ t < clock)
  /\ UNCHANGED <<segs, cur, buf, seq, mode, wrote, kills, kept>>

Kill ==
  /\ mode \in {"up", "renamed", "rotated"} /\ kills < MaxKills
  /\ kills' = kills + 1
  /\ buf' = <<>> /\ mode' = "down"
  /\ UNCHANGED <<segs, cur, seq, clock, wrote, kept, setBack>>

\* Mutant of repairWALTail: the rest stays in the file.
repairWALTail_Leave(f) == IF f.rest = "none" THEN f ELSE [f EXCEPT !.rest = "foreign"]

\* A frame that ends early is truncated.
repairWALTail(f) == [f EXCEPT !.rest = "none"]

\* OpenWAL: a file that is missing or empty gets its header, any other one is
\* repaired; all segments are read, and numbers go on from the highest.
OpenWAL ==
  /\ mode = "down"
  /\ IF cur.rest \in Partial \cup {"none"}
       THEN /\ cur' = IF cur.header THEN repairWALTail(cur) ELSE NewLog
            /\ seq' = IF scanSegments = <<>> THEN 0 ELSE Last(ReadAll).seq
            /\ mode' = "up"
       ELSE mode' = "failed" /\ UNCHANGED <<cur, seq>>
  /\ UNCHANGED <<segs, buf, clock, wrote, kills, kept, setBack>>

Next ==
  \/ Write \/ Spill \/ Sync \/ Rename \/ Header \/ CompactThrough
  \/ Clock \/ Kill \/ OpenWAL

Spec == Init /\ [][Next]_vars

-----------------------------------------------------------------------------
(* Properties.                                                             *)

\* ReadAll gives exactly the records whose frames have ever been whole in the
\* files and are not compacted away, in the order of their numbers: wherever a
\* kill cut the last frame, wherever it hit a rotation, and while the log is
\* being written, except while wal.log ends right behind a length field.
FramesSurvive ==
  mode \in {"up", "rotated"} =>
    /\ Readable \/ cur.rest = "at payload"
    /\ ReadAll = SetToSortSeq(kept, BySequence)

\* VSEARCH ... AS_OF t sees a vector exactly when a retained record stamped t or
\* earlier adds it and none of those after it deletes it, across segments,
\* restarts and compactions, as long as the clock is never set back.
AsOfExact ==
  mode \in {"up", "rotated"} /\ Readable /\ ~setBack =>
    \A k \in Keys, t \in 0..MaxClock :
      LET past == {r \in kept : r.key = k /\ r.time <= t}
      IN  executeTimeTravelSearch(k, t) =
            {id \in Ids : \E a \in past :
               /\ a.op = "add" /\ a.id = id
               /\ \A d \in past : d.op = "del" /\ d.id = id => d.seq < a.seq}

\* A partial frame at the end of the log is repaired: a tenant opens its log
\* after every kill.
TailRepaired == mode # "failed"

=============================================================================
