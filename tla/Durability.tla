----------------------------- MODULE Durability -----------------------------
(***************************************************************************)
(* The durable write path of one DBX tenant: the executor's mutation lock, *)
(* the write-ahead log and its flusher, checkpoints (snapshot, CURRENT     *)
(* pointer, rotation, compaction), backup and restore, crashes, power      *)
(* loss, storage errors, and recovery.                                     *)
(*                                                                         *)
(* A logged transaction is its final-state image: the keys it touches and  *)
(* the value each ends with (NoVal: deleted).  wal.log is a set of records *)
(* with three watermarks, all sequence numbers: frames up to synced are on *)
(* stable storage, up to written in the operating system, the others still *)
(* in the process's bufio buffer.  A process crash keeps the frames up to  *)
(* written, a power loss some prefix that contains synced; the torn frame  *)
(* after the cut is the one repairWALTail truncates.  Renames and removals *)
(* of files are taken to be durable in the order they are made.            *)
(***************************************************************************)
EXTENDS Integers, FiniteSets

CONSTANTS
  Keys,       \* string keys
  Vals,       \* string values
  NoVal,      \* the value of an absent key
  SyncMode,   \* cfg.Persistence.WALSync
  MaxSeq,     \* bound: highest sequence number the log hands out
  Errors,     \* bound: whether storage operations may fail
  Whys        \* bound: the checkpoints taken, of "periodic", "backup", "stop"

ASSUME NoValAssumption == NoVal \notin Vals
ASSUME SyncModeAssumption == SyncMode \in {"always", "everysec", "no"}
ASSUME MaxSeqAssumption == MaxSeq \in Nat \ {0}
ASSUME ScopeAssumption == Errors \in BOOLEAN /\ Whys \subseteq {"periodic", "backup", "stop"}

VARIABLES
  \* on disk
  log,         \* frames of wal.log, the buffered ones included
  archives,    \* rotated segments wal-<name>.log
  synced,      \* last sequence fsynced in wal.log
  written,     \* last sequence handed to the operating system
  ckpt,        \* the checkpoint Snapshotter.Latest finds
  staged,      \* snapshot file written, CURRENT not yet pointing at it
  hasCurrent,  \* CURRENT exists
  backups,     \* the checkpoint inside the newest backup archive, if any
  \* in the process
  pc,          \* what the holder of Executor.mutationMu is doing
  kind,        \* what the checkpoint is for; "stop" until the process ends
  kv,          \* KVStore
  seq,         \* WAL.seq
  rec,         \* the record of the mutation in flight
  failed,      \* WAL.failedErr # nil
  broken,      \* every further flush fails: closed file, sticky bufio error
  \* history
  stateAt,     \* the map after each logged transaction
  acked,       \* last sequence for which WAL.Write returned nil
  doubt,       \* the frame of seq is in wal.log but its write reported an error
  rewound      \* WAL.seq was reopened below ckpt.seq, no checkpoint since

disk == <<log, archives, synced, written, ckpt, staged, hasCurrent, backups>>
proc == <<pc, kind, kv, seq, rec, failed, broken>>
hist == <<stateAt, acked, doubt, rewound>>
vars == <<disk, proc, hist>>

-----------------------------------------------------------------------------
(* Values, transactions and replay.                                        *)

Values == Vals \cup {NoVal}
Maps == [Keys -> Values]
Empty == [k \in Keys |-> NoVal]
Effects == UNION {[K -> Values] : K \in SUBSET Keys}
Records == [seq : 1..MaxSeq, eff : Effects]
Checkpoints == [seq : 0..MaxSeq, img : Maps]
NoCheckpoint == [seq |-> 0, img |-> Empty]
NoRec == [seq |-> 0, eff |-> [k \in {} |-> NoVal]]

Smaller(a, b) == IF a <= b THEN a ELSE b

\* Dispatch, and replay of one record: every touched key takes its final value.
Apply(m, eff) == [k \in Keys |-> IF k \in DOMAIN eff THEN eff[k] ELSE m[k]]

\* Mutant of Touching: recovery skips one record too many.
Touching_OffByOne(L, b, k) == {r \in L : r.seq > b + 1 /\ k \in DOMAIN r.eff}

\* The records replay applies to k on top of a checkpoint through b.
Touching(L, b, k) == {r \in L : r.seq > b /\ k \in DOMAIN r.eff}

\* Images overwrite, so the last of the records touching k decides.
LastValue(T, k, start) ==
  IF T = {} THEN start
            ELSE (CHOOSE r \in T : \A q \in T : q.seq <= r.seq).eff[k]

\* Recover: the checkpoint image, then the records above its sequence in
\* sequence order.
Recovered(L, ck) ==
  [k \in Keys |-> LastValue(Touching(L, ck.seq, k), k, ck.img[k])]

-----------------------------------------------------------------------------
(* What prepareDurableEffects can return in a state m: SET (and INCR,      *)
(* APPEND, GETSET...: one key), MSET, DEL of the keys that exist, RENAME   *)
(* of a key that exists to another one.                                    *)

SetEffects == UNION {[K -> Vals] : K \in SUBSET Keys \ {{}}}

DelEffects(m) ==
  {[k \in K |-> NoVal] : K \in SUBSET {k \in Keys : m[k] # NoVal} \ {{}}}

RenameEffect(m, from, to) ==
  [k \in {from, to} |-> IF k = to THEN m[from] ELSE NoVal]

RenameEffects(m) ==
  {RenameEffect(m, p[1], p[2]) :
     p \in {q \in Keys \X Keys : q[1] # q[2] /\ m[q[1]] # NoVal}}

prepareDurableEffects(m) == SetEffects \cup DelEffects(m) \cup RenameEffects(m)

-----------------------------------------------------------------------------
(* What a crash would leave.                                               *)

up == pc # "down"

\* A mutation is between taking its sequence number and being applied.
InFlight == pc \in {"queued", "appended", "flushed", "acked"}

\* The last sequence whose frame the flusher has put in the buffer.
appended == CASE pc = "queued" -> seq - 1
              [] pc = "down"   -> written
              [] OTHER         -> seq

Archived == UNION {a.recs : a \in archives}

\* The frames found on disk if wal.log is cut after sequence c.
Surviving(c) == Archived \cup {r \in log : r.seq <= c}

\* The checkpoint recovery would load: CURRENT's, or without CURRENT the
\* newest snapshot file, which may be the one just staged.
Latest == IF pc = "install" /\ ~hasCurrent THEN staged ELSE ckpt

-----------------------------------------------------------------------------
Init ==
  /\ log = {} /\ archives = {} /\ synced = 0 /\ written = 0
  /\ ckpt = NoCheckpoint /\ staged = NoCheckpoint /\ hasCurrent = FALSE
  /\ backups = {}
  /\ pc = "idle" /\ kind = "none" /\ kv = Empty /\ seq = 0
  /\ rec = NoRec
  /\ failed = FALSE /\ broken = FALSE
  /\ stateAt = [s \in 0..MaxSeq |-> Empty]
  /\ acked = 0 /\ doubt = FALSE /\ rewound = FALSE

-----------------------------------------------------------------------------
(* A client mutation, under mutationMu.                                    *)

\* Mutant of Execute: a latched storage failure does not stop writes.
Execute_IgnoresFailure(eff) ==
  /\ pc = "idle" /\ seq < MaxSeq
  /\ seq' = seq + 1
  /\ rec' = [seq |-> seq + 1, eff |-> eff]
  /\ pc' = "queued"
  /\ UNCHANGED <<disk, kind, kv, failed, broken, hist>>

\* Execute up to WAL.Write's enqueue: the sequence number is taken and the
\* record is in recordCh.  A latched storage failure stops writes.
Execute(eff) ==
  /\ pc = "idle" /\ ~failed /\ seq < MaxSeq
  /\ seq' = seq + 1
  /\ rec' = [seq |-> seq + 1, eff |-> eff]
  /\ pc' = "queued"
  /\ UNCHANGED <<disk, kind, kv, failed, broken, hist>>

\* The flusher writes the frame to the buffer, which may spill complete
\* frames.  Only sync=always waits for the fsync, the other modes acknowledge
\* here.  (broken without failed is a closed file: it shows at the next flush.)
Append ==
  /\ pc = "queued" /\ ~(broken /\ failed)
  /\ log' = log \cup {rec}
  /\ \E w \in written..seq : (broken => w = written) /\ written' = w
  /\ stateAt' = [stateAt EXCEPT ![seq] = Apply(kv, rec.eff)]
  /\ IF SyncMode = "always"
       THEN pc' = "appended" /\ UNCHANGED acked
       ELSE pc' = "acked" /\ acked' = seq
  /\ UNCHANGED <<archives, synced, ckpt, staged, hasCurrent, backups,
                 kind, kv, seq, rec, failed, broken, doubt, rewound>>

\* Mutant of AppendFail: the executor applies the mutation all the same.
AppendFail_Applies ==
  /\ pc = "queued" /\ Errors
  /\ stateAt' = [stateAt EXCEPT ![seq] = kv]
  /\ kv' = Apply(kv, rec.eff)
  /\ pc' = "idle" /\ rec' = NoRec
  /\ UNCHANGED <<disk, kind, seq, failed, broken, acked, doubt, rewound>>

\* A flush that fails, once or ever after: bufio keeps the error, and some of
\* the buffered frames may have reached the file before it.
FlushError ==
  /\ failed' = TRUE /\ broken' = TRUE
  /\ \E w \in written..appended : (broken => w = written) /\ written' = w

\* The frame cannot be encoded (nothing is latched), or bufio has to spill
\* and the file rejects it.
AppendFail ==
  /\ pc = "queued" /\ Errors
  /\ FlushError \/ UNCHANGED <<failed, broken, written>>
  /\ stateAt' = [stateAt EXCEPT ![seq] = kv]
  /\ pc' = "idle" /\ rec' = NoRec
  /\ UNCHANGED <<log, archives, synced, ckpt, staged, hasCurrent, backups,
                 kind, kv, seq, acked, doubt, rewound>>

\* sync=always: syncAndNotify flushes the buffer ...
Flush ==
  /\ pc = "appended" /\ ~broken
  /\ written' = seq
  /\ pc' = "flushed"
  /\ UNCHANGED <<log, archives, synced, ckpt, staged, hasCurrent, backups,
                 kind, kv, seq, rec, failed, broken, hist>>

\* Mutant of FsyncAck: acknowledged after the flush, without the fsync.
FsyncAck_NoFsync ==
  /\ pc = "flushed"
  /\ acked' = seq
  /\ pc' = "acked"
  /\ UNCHANGED <<disk, kind, kv, seq, rec, failed, broken, stateAt, doubt, rewound>>

\* ... fsyncs and acknowledges.
FsyncAck ==
  /\ pc = "flushed"
  /\ synced' = seq
  /\ acked' = seq
  /\ pc' = "acked"
  /\ UNCHANGED <<log, archives, written, ckpt, staged, hasCurrent, backups,
                 kind, kv, seq, rec, failed, broken, stateAt, doubt, rewound>>

\* Mutant of SyncFail: the error is latched but the writer is told nil.
SyncFail_Acks ==
  /\ pc \in {"appended", "flushed"} /\ Errors
  /\ failed' = TRUE
  /\ broken' = (broken \/ pc = "appended")
  /\ acked' = seq
  /\ pc' = "acked"
  /\ UNCHANGED <<disk, kind, kv, seq, rec, stateAt, doubt, rewound>>

\* Either call fails: the error is latched and the mutation is refused, but
\* its frame may be on disk.  A failed flush stays in bufio, a failed fsync
\* does not.
SyncFail ==
  /\ pc \in {"appended", "flushed"} /\ Errors
  /\ failed' = TRUE
  /\ broken' = (broken \/ pc = "appended")
  /\ doubt' = TRUE
  /\ pc' = "idle" /\ rec' = NoRec
  /\ UNCHANGED <<disk, kind, kv, seq, stateAt, acked, rewound>>

\* Mutant of SyncTick: the ticker flushes and never fsyncs.
SyncTick_FlushOnly ==
  /\ up /\ SyncMode = "everysec" /\ ~broken /\ written < appended
  /\ written' = appended
  /\ UNCHANGED <<log, archives, synced, ckpt, staged, hasCurrent, backups, proc, hist>>

\* The everysec loops (the flusher's ticker and Instance.Start's).
SyncTick ==
  /\ up /\ SyncMode = "everysec" /\ ~broken /\ synced < appended
  /\ synced' = appended /\ written' = appended
  /\ UNCHANGED <<log, archives, ckpt, staged, hasCurrent, backups, proc, hist>>

\* WAL.Sync fails and latches: in the flush, or in the fsync after a complete
\* flush.
SyncError ==
  /\ Errors \/ broken
  /\ \/ FlushError
     \/ ~broken /\ failed' = TRUE /\ written' = appended /\ UNCHANGED broken

SyncTickFail ==
  /\ up /\ SyncMode = "everysec" /\ synced < appended
  /\ SyncError
  /\ UNCHANGED <<log, archives, synced, ckpt, staged, hasCurrent, backups,
                 pc, kind, kv, seq, rec, hist>>

\* Dispatch applies the logged mutation and the client gets its reply.
Dispatch ==
  /\ pc = "acked"
  /\ kv' = Apply(kv, rec.eff)
  /\ pc' = "idle" /\ rec' = NoRec
  /\ UNCHANGED <<disk, kind, seq, failed, broken, hist>>

-----------------------------------------------------------------------------
(* A checkpoint, under mutationMu from its first step to its last: the      *)
(* periodic and size-triggered ones, the final one of Instance.Stop, and    *)
(* the one inside a backup.                                                 *)

\* The checkpoint returns and releases mutationMu.
Return == pc' = "idle" /\ kind' = IF kind = "stop" THEN "stop" ELSE "none"

\* Mutant of CheckpointSync: the log is not synced first.
CheckpointSync_NoSync(why) ==
  /\ pc = "idle" /\ kind = "none" /\ ~broken
  /\ kind' = why /\ pc' = "save"
  /\ UNCHANGED <<disk, kv, seq, rec, failed, broken, hist>>

\* Mutant of CheckpointSync: the log is rotated before the snapshot is taken.
CheckpointSync_RotatesFirst(why) ==
  /\ pc = "idle" /\ kind = "none" /\ ~broken
  /\ synced' = seq /\ written' = seq
  /\ kind' = why /\ pc' = "rotate"
  /\ UNCHANGED <<log, archives, ckpt, staged, hasCurrent, backups,
                 kv, seq, rec, failed, broken, hist>>

\* WAL.Sync succeeds; the checkpoint will cover seq.
CheckpointSync(why) ==
  /\ pc = "idle" /\ kind = "none" /\ ~broken
  /\ synced' = seq /\ written' = seq
  /\ kind' = why /\ pc' = "save"
  /\ UNCHANGED <<log, archives, ckpt, staged, hasCurrent, backups,
                 kv, seq, rec, failed, broken, hist>>

CheckpointSyncFail(why) ==
  /\ pc = "idle" /\ kind = "none"
  /\ SyncError
  /\ kind' = IF why = "stop" THEN "stop" ELSE "none"
  /\ UNCHANGED <<log, archives, synced, ckpt, staged, hasCurrent, backups,
                 pc, kv, seq, rec, hist>>

\* Mutant of SaveCheckpoint: CURRENT is not moved to the new snapshot.
SaveCheckpoint_NotInstalled ==
  /\ pc = "save"
  /\ staged' = [seq |-> seq, img |-> kv]
  /\ pc' = "rotate"
  /\ UNCHANGED <<log, archives, synced, written, ckpt, hasCurrent, backups,
                 kind, kv, seq, rec, failed, broken, hist>>

\* SaveCheckpoint writes the image and its sequence to a new snapshot file ...
SaveCheckpoint ==
  /\ pc = "save"
  /\ staged' = [seq |-> seq, img |-> kv]
  /\ pc' = "install"
  /\ UNCHANGED <<log, archives, synced, written, ckpt, hasCurrent, backups,
                 kind, kv, seq, rec, failed, broken, hist>>

\* ... and installCurrent renames CURRENT over to it.
InstallCurrent ==
  /\ pc = "install"
  /\ ckpt' = staged /\ hasCurrent' = TRUE /\ staged' = NoCheckpoint
  /\ rewound' = FALSE
  /\ pc' = IF kind = "backup" THEN "copy" ELSE "rotate"
  /\ UNCHANGED <<log, archives, synced, written, backups,
                 kind, kv, seq, rec, failed, broken, stateAt, acked, doubt>>

\* The snapshot cannot be written, or not installed: then its file is removed.
SaveFail ==
  /\ pc \in {"save", "install"} /\ Errors
  /\ Return
  /\ staged' = NoCheckpoint
  /\ UNCHANGED <<log, archives, synced, written, ckpt, hasCurrent, backups,
                 kv, seq, rec, failed, broken, hist>>

\* Backup: the archive gets the snapshot file, neither CURRENT nor the log.
CreateBackupArchive ==
  /\ pc = "copy"
  /\ \/ backups' = {ckpt}
     \/ UNCHANGED backups
  /\ Return
  /\ UNCHANGED <<log, archives, synced, written, ckpt, staged, hasCurrent,
                 kv, seq, rec, failed, broken, hist>>

\* wal.log becomes wal-<seq>.log, replacing a segment of that name.
ArchiveLog ==
  /\ archives' = {a \in archives : a.name # seq}
                   \cup {[name |-> seq, recs |-> log]}
  /\ log' = {}

Rotate ==
  /\ pc = "rotate" /\ ~failed /\ ~broken
  /\ ArchiveLog
  /\ synced' = seq /\ written' = seq
  /\ pc' = "compact"
  /\ UNCHANGED <<ckpt, staged, hasCurrent, backups,
                 kind, kv, seq, rec, failed, broken, hist>>

\* Mutant of RotateFail: no return on a latched failure.
RotateFail_Holds ==
  /\ pc = "rotate" /\ ~failed /\ SyncError
  /\ Return
  /\ UNCHANGED <<log, archives, synced, ckpt, staged, hasCurrent, backups,
                 kv, seq, rec, hist>>

\* Rotate refuses on a latched failure; its flush or fsync fails and latches;
\* or a later step fails, which latches nothing but leaves a closed file.
RotateFail ==
  /\ pc = "rotate"
  /\ \/ failed /\ UNCHANGED <<log, archives, written, failed, broken>>
     \/ ~failed /\ SyncError /\ UNCHANGED <<log, archives>>
     \/ Errors /\ ~failed /\ ~broken /\ broken' = TRUE
        /\ (ArchiveLog \/ UNCHANGED <<log, archives>>)
        /\ UNCHANGED <<written, failed>>
  /\ Return
  /\ UNCHANGED <<synced, ckpt, staged, hasCurrent, backups, kv, seq, rec, hist>>

\* CompactThrough: errors of os.Remove are ignored, so any of the covered
\* segments may stay.
CompactThrough ==
  /\ pc = "compact"
  /\ \E S \in SUBSET {a \in archives : a.name <= seq} : archives' = archives \ S
  /\ Return
  /\ UNCHANGED <<log, synced, written, ckpt, staged, hasCurrent, backups,
                 kv, seq, rec, failed, broken, hist>>

-----------------------------------------------------------------------------
(* The process ends, and starts again.                                     *)

\* The history as it stands once the map after sequence s is known to be m.
Upto(s, m) ==
  [t \in 0..MaxSeq |-> IF t < s THEN stateAt[t] ELSE IF t = s THEN m ELSE Empty]

\* Memory is gone; wal.log keeps the frames up to c, of which s are synced.
Down(c, s) ==
  /\ log' = {r \in log : r.seq <= c}
  /\ written' = c /\ synced' = s
  /\ ckpt' = Latest /\ staged' = NoCheckpoint
  /\ pc' = "down" /\ kind' = "none" /\ kv' = Empty /\ rec' = NoRec
  /\ failed' = FALSE /\ broken' = FALSE
  /\ UNCHANGED <<archives, hasCurrent, backups, seq, hist>>

\* WAL.Close at the end of Instance.Stop drains, flushes and fsyncs; a
\* mutation that slipped in after the final checkpoint is logged by then.
Close ==
  /\ kind = "stop" /\ pc \in {"idle", "acked"}
  /\ \/ ~broken /\ Down(seq, seq)
     \/ Down(written, synced)

ProcessCrash == up /\ Down(written, synced)

PowerLoss == up /\ \E c \in synced..written : Down(c, c)

\* RestoreTenant on the stopped tenant: the data directory is replaced by the
\* archive's files.
RestoreTenant ==
  /\ ~up
  /\ \E b \in backups :
       /\ ckpt' = b
       /\ stateAt' = Upto(b.seq, b.img)
       /\ rewound' = (b.seq > 0)
  /\ hasCurrent' = FALSE /\ log' = {} /\ archives' = {}
  /\ synced' = 0 /\ written' = 0
  /\ acked' = 0 /\ doubt' = FALSE
  /\ UNCHANGED <<staged, backups, proc>>

\* Mutant of Open: the next sequence is taken for the last one.
Open_NextForLast ==
  /\ ~up
  /\ \E m \in 0..MaxSeq :
       /\ \A r \in Surviving(written) : r.seq <= m
       /\ m = 0 \/ \E r \in Surviving(written) : r.seq = m
       /\ seq' = m + 1
       /\ rewound' = (rewound \/ m < ckpt.seq)
       /\ acked' = IF m < ckpt.seq THEN 0 ELSE Smaller(acked, m)
       /\ synced' = Smaller(synced, m) /\ written' = m
       /\ kv' = Recovered(Surviving(written), ckpt)
       /\ stateAt' = Upto(m, kv')
  /\ pc' = "idle" /\ doubt' = FALSE
  /\ UNCHANGED <<log, archives, ckpt, staged, hasCurrent, backups,
                 kind, rec, failed, broken>>

\* OpenWAL takes the highest sequence found in the segments for WAL.seq, and
\* Recover rebuilds the map.
Open ==
  /\ ~up
  /\ \E m \in 0..MaxSeq :
       /\ \A r \in Surviving(written) : r.seq <= m
       /\ m = 0 \/ \E r \in Surviving(written) : r.seq = m
       /\ seq' = m
       /\ rewound' = (rewound \/ m < ckpt.seq)
       /\ acked' = IF m < ckpt.seq THEN 0 ELSE Smaller(acked, m)
       /\ synced' = Smaller(synced, m) /\ written' = m
       /\ kv' = Recovered(Surviving(written), ckpt)
       /\ stateAt' = Upto(m, kv')
  /\ pc' = "idle" /\ doubt' = FALSE
  /\ UNCHANGED <<log, archives, ckpt, staged, hasCurrent, backups,
                 kind, rec, failed, broken>>

-----------------------------------------------------------------------------
Next ==
  \/ \E eff \in prepareDurableEffects(kv) : Execute(eff)
  \/ Append \/ AppendFail \/ Flush \/ FsyncAck \/ SyncFail
  \/ SyncTick \/ SyncTickFail \/ Dispatch
  \/ \E why \in Whys : CheckpointSync(why) \/ CheckpointSyncFail(why)
  \/ SaveCheckpoint \/ InstallCurrent \/ SaveFail \/ CreateBackupArchive
  \/ Rotate \/ RotateFail \/ CompactThrough
  \/ Close \/ ProcessCrash \/ PowerLoss \/ RestoreTenant \/ Open

Spec == Init /\ [][Next]_vars

\* The steps of whoever holds mutationMu: a mutation or a checkpoint.
HolderStep ==
  \/ Append \/ AppendFail \/ Flush \/ FsyncAck \/ SyncFail \/ Dispatch
  \/ SaveCheckpoint \/ InstallCurrent \/ SaveFail \/ CreateBackupArchive
  \/ Rotate \/ RotateFail \/ CompactThrough

\* The lock holder and the flusher run, and the everysec tickers keep firing.
\* Nothing is assumed of crashes, storage errors, checkpoints or restarts.
FairSpec ==
  Spec /\ WF_vars(HolderStep) /\ WF_vars(SyncTick)
       /\ WF_vars(broken /\ SyncTickFail)

-----------------------------------------------------------------------------
(* Properties.                                                             *)

\* Every variable stays in its type: the log watermarks, the holder of
\* mutationMu and the checkpoint files of executor.go, wal.go, snapshot.go.
TypeOK ==
  /\ log \subseteq Records
  /\ archives \subseteq [name : 0..MaxSeq, recs : SUBSET Records]
  /\ synced \in 0..MaxSeq /\ written \in 0..MaxSeq
  /\ ckpt \in Checkpoints /\ staged \in Checkpoints /\ hasCurrent \in BOOLEAN
  /\ backups \subseteq Checkpoints
  /\ pc \in {"idle", "queued", "appended", "flushed", "acked", "save",
             "install", "copy", "rotate", "compact", "down"}
  /\ kind \in {"none", "periodic", "backup", "stop"}
  /\ kv \in Maps /\ seq \in 0..MaxSeq
  /\ rec \in [seq : 0..MaxSeq, eff : Effects]
  /\ failed \in BOOLEAN /\ broken \in BOOLEAN
  /\ stateAt \in [0..MaxSeq -> Maps]
  /\ acked \in 0..MaxSeq /\ doubt \in BOOLEAN /\ rewound \in BOOLEAN

\* The map recovery rebuilds if the log is cut after sequence c.
AfterCrash(c) == Recovered(Surviving(c), Latest)

\* Whatever instant the process dies or the power fails, between any two steps
\* of a write, a checkpoint, a rotation or a compaction, recovery rebuilds
\* exactly the map after some prefix of the logged transactions, a prefix that
\* contains every fsynced one and is never cut inside a transaction.  A write
\* refused by a storage error may be in or out.  (While WAL.seq has not been
\* reopened below the checkpoint's sequence.)
RecoveryIsPrefix ==
  ~rewound =>
    \A c \in synced..written :
      \/ AfterCrash(c) = stateAt[c]
      \/ doubt /\ c = seq /\ AfterCrash(c) = stateAt[c - 1]

\* No crash loses a transaction WAL.Write has acknowledged.
CrashKeepsAcked ==
  \A c \in synced..written :
    \E s \in acked..MaxSeq : s <= seq /\ AfterCrash(c) = stateAt[s]

\* sync=always: an acknowledged transaction survives a crash and a power loss
\* at any instant, checkpoint steps included, while WAL.seq has not been
\* reopened below the checkpoint's sequence.
AckedSurvives == SyncMode = "always" /\ ~rewound => CrashKeepsAcked

\* What docs/architecture.md says of sync=always, without that restriction.
AlwaysIsDurable == SyncMode = "always" => CrashKeepsAcked

\* A running tenant drops a frame from its segments (rotation over a segment
\* of the same name, compaction) only when the installed checkpoint covers it.
OnlyCoveredRemoved ==
  [][up /\ pc' # "down" =>
       \A r \in Archived \cup log :
         r \in Archived' \cup log' \/ r.seq <= ckpt.seq]_vars

\* A client read never sees a map the log cannot rebuild: with no write in
\* flight or in doubt the store is the map after the last logged transaction.
StoreIsLogHead ==
  up => kv = stateAt[IF doubt \/ InFlight THEN seq - 1 ELSE seq]

\* sync=everysec: an acknowledged transaction does not stay in the buffer: it
\* is fsynced, or the storage failure that prevents it is latched, or the
\* process dies (the loss window of the flusher's and the instance's tickers).
LossWindowCloses ==
  \A s \in 1..MaxSeq :
    (up /\ acked >= s) ~> (synced >= s \/ failed \/ ~up)

\* Whatever fails on the way, a mutation and a checkpoint give mutationMu back.
MutationMuReleased == []<>(pc \in {"idle", "down"})

-----------------------------------------------------------------------------
(* The inductive invariant behind the safety properties.                   *)

\* Frames reach the buffer, the operating system and the disk in order.
Watermarks ==
  /\ synced <= written /\ written <= appended /\ appended <= seq
  /\ pc = "flushed" => written = seq

\* wal.log holds at most one frame per sequence, and none beyond appended.
LogOrdered ==
  /\ \A r \in log : r.seq <= appended
  /\ \A r, q \in log : r.seq = q.seq => r = q
  /\ pc = "queued" => rec \in Records /\ rec.seq = seq

\* Rotated frames are covered by the checkpoint, so replay never needs them.
ArchivedCovered == \A r \in Archived : r.seq <= ckpt.seq /\ r.seq <= seq

\* The steps of a checkpoint work on the state at its start.
CheckpointSteps ==
  /\ pc \in {"save", "install", "copy", "rotate", "compact"} => synced = seq
  /\ pc = "install" => staged = [seq |-> seq, img |-> kv]
  /\ pc \in {"copy", "rotate", "compact"} => ckpt.seq = seq

\* A checkpoint never covers an unsynced frame.
CheckpointSynced == ~rewound => ckpt.seq <= synced

\* A refused write whose frame is in the log has latched the failure.
DoubtLatched ==
  /\ doubt => seq > 0 /\ acked < seq
  /\ doubt /\ up => failed /\ ~InFlight

AckedSynced ==
  /\ SyncMode = "always" => acked <= synced
  /\ acked <= seq /\ (pc \in {"queued", "appended", "flushed"} => acked < seq)
  /\ pc \in {"appended", "flushed"} => SyncMode = "always"

\* Replaying the log up to any sequence the flusher has reached, on top of the
\* installed checkpoint, gives the map after that transaction.
ReplayExact ==
  ~rewound =>
    \A c \in synced..appended :
      \/ Recovered(Surviving(c), ckpt) = stateAt[c]
      \/ doubt /\ c = seq /\ Recovered(Surviving(c), ckpt) = stateAt[c - 1]

\* The logged map of the transaction being applied.
LoggedApplied ==
  pc \in {"appended", "flushed", "acked"} =>
    /\ seq > 0
    /\ stateAt[seq] = Apply(kv, rec.eff)

\* The inductive invariant: how wal.log, the archived segments, the checkpoint
\* and the store of executor.go, wal.go and snapshot.go fit together.
IInv ==
  /\ TypeOK /\ Watermarks /\ LogOrdered /\ ArchivedCovered
  /\ CheckpointSteps /\ CheckpointSynced /\ DoubtLatched /\ AckedSynced
  /\ StoreIsLogHead /\ LoggedApplied /\ ReplayExact

-----------------------------------------------------------------------------
(* The promise to clients (DurableMap) and the mapping to it.              *)

\* What clients see, or will see once recovery has run.
ClientMap == IF up THEN kv ELSE Recovered(Surviving(written), ckpt)

Submitted == IF InFlight THEN {Apply(kv, rec.eff)} ELSE {}

\* The last sequence whose transaction has an outcome.
Ended == IF InFlight THEN seq - 1 ELSE appended

\* Maps a crash may leave instead, for want of an fsync.
Unsettled ==
  IF rewound THEN {}
  ELSE {Recovered(Surviving(c), ckpt) : c \in synced..Ended} \ {ClientMap}

DM == INSTANCE DurableMap WITH
  map <- ClientMap, on <- up, submitted <- Submitted, unsettled <- Unsettled,
  saved <- {b.img : b \in backups}, lapsed <- rewound

\* sync=always: clients see a durable map.  A reply of OK is never taken back by
\* a crash, a power loss, a storage error, a checkpoint or a backup, in any
\* order and between any two steps of executor.go, wal.go and snapshot.go, while
\* WAL.seq has not been reopened below the checkpoint's sequence.
ImplementsDurableMap == DM!Spec

=============================================================================
