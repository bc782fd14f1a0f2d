-------------------------- MODULE DurabilityProofs --------------------------
(***************************************************************************)
(* Proofs about Durability: recovery rebuilds a transaction prefix and, in *)
(* sync=always, loses no acknowledged transaction, for every set of keys   *)
(* and values, every sync mode and every log length; in sync=always it     *)
(* implements DurableMap.                                                  *)
(***************************************************************************)
EXTENDS Durability, WellFoundedInduction, TLAPS

\* The leaves are small; the time is for the translation of a large context.
USE SMTT(30), ZenonT(30)

-----------------------------------------------------------------------------
\* A non-empty set of natural numbers has a least member.
LEMMA LeastNatural ==
  ASSUME NEW D, D \subseteq Nat, D # {}
  PROVE  \E d \in D : \A e \in D : d <= e
<1> DEFINE R == OpToRel(<, Nat)
<1>1. \A x, y \in Nat : <<x, y>> \in R <=> x < y
  BY DEF OpToRel
<1>2. IsWellFoundedOn(R, Nat)
  BY ZenonT(30), NatLessThanWellFounded
<1> HIDE DEF R
<1>3. PICK d \in D : \A e \in D : ~ (<<e, d>> \in R)
  BY ZenonT(30), <1>2, WFMin
<1>4. ASSUME NEW e \in D PROVE d <= e
  <2>1. e \in Nat /\ d \in Nat
    OBVIOUS
  <2>2. ~ (e < d)
    BY ZenonT(30), <1>1, <1>3, <2>1
  <2>3. QED  BY <2>1, <2>2
<1>5. QED  BY <1>4

(* Replay (Recover in recovery.go).                                        *)

\* Replay yields a map.
LEMMA ApplyType ==
  ASSUME NEW m \in Maps, NEW eff \in Effects
  PROVE  Apply(m, eff) \in Maps
BY DEF Apply, Maps, Effects

\* Replay depends only on the records above the checkpoint's sequence.
LEMMA ReplaySame ==
  ASSUME NEW L, NEW M, NEW ck,
         \A r : r \in L /\ r.seq > ck.seq <=> r \in M /\ r.seq > ck.seq
  PROVE  Recovered(L, ck) = Recovered(M, ck)
<1>1. \A k \in Keys : Touching(L, ck.seq, k) = Touching(M, ck.seq, k)
  BY DEF Touching
<1>2. QED  BY <1>1 DEF Recovered

\* With nothing above its sequence, the checkpoint's image is the result.
LEMMA ReplayNothing ==
  ASSUME NEW L \in SUBSET Records, NEW ck \in Checkpoints,
         \A r \in L : r.seq <= ck.seq
  PROVE  Recovered(L, ck) = ck.img
<1>1. \A k \in Keys : Touching(L, ck.seq, k) = {}
  BY DEF Touching, Records, Checkpoints
<1>2. Recovered(L, ck) = [k \in Keys |-> ck.img[k]]
  BY <1>1 DEF Recovered, LastValue
<1>3. QED  BY <1>2 DEF Checkpoints, Maps

\* One more record at the end of the log: its effects on top of the replay.
LEMMA ReplayLast ==
  ASSUME NEW L \in SUBSET Records, NEW ck \in Checkpoints, NEW r \in Records,
         r.seq > ck.seq, \A q \in L : q.seq < r.seq
  PROVE  Recovered(L \cup {r}, ck) = Apply(Recovered(L, ck), r.eff)
<1>1. ASSUME NEW k \in Keys
      PROVE  Recovered(L \cup {r}, ck)[k] = Apply(Recovered(L, ck), r.eff)[k]
  <2> DEFINE T == Touching(L, ck.seq, k)
             U == Touching(L \cup {r}, ck.seq, k)
             last == CHOOSE x \in U : \A q \in U : q.seq <= x.seq
  <2>1. CASE k \in DOMAIN r.eff
    <3>1. r \in U /\ (\A q \in U : q.seq <= r.seq)
      BY <2>1 DEF Touching, Records
    <3>2. last \in U /\ \A q \in U : q.seq <= last.seq
      BY ZenonT(30), <3>1
    <3>3. r.seq <= last.seq
      BY ZenonT(30), <3>1, <3>2
    <3>4. last = r
      BY <3>2, <3>3 DEF Touching, Records
    <3>5. Recovered(L \cup {r}, ck)[k] = r.eff[k]
      BY ZenonT(30), <3>1, <3>4 DEF Recovered, LastValue
    <3>6. QED  BY <3>5, <2>1 DEF Apply
  <2>2. CASE k \notin DOMAIN r.eff
    <3>1. U = T
      BY <2>2 DEF Touching
    <3>2. Recovered(L \cup {r}, ck)[k] = Recovered(L, ck)[k]
      BY <3>1 DEF Recovered
    <3>3. QED  BY <3>2, <2>2 DEF Apply
  <2>3. QED  BY <2>1, <2>2
<1>2. QED  BY ZenonT(30), <1>1 DEF Recovered, Apply

\* Replay yields a map: a non-empty set of records has a last one.
LEMMA ReplayType ==
  ASSUME NEW L \in SUBSET Records, NEW ck \in Checkpoints
  PROVE  Recovered(L, ck) \in Maps
<1>1. ASSUME NEW k \in Keys
      PROVE  LastValue(Touching(L, ck.seq, k), k, ck.img[k]) \in Values
  <2> DEFINE T == Touching(L, ck.seq, k)
             D == {MaxSeq - r.seq : r \in T}
             last == CHOOSE r \in T : \A q \in T : q.seq <= r.seq
  <2>1. CASE T = {}
    BY <2>1 DEF LastValue, Checkpoints, Maps
  <2>2. CASE T # {}
    <3>1. D \subseteq Nat /\ D # {}
      BY <2>2, MaxSeqAssumption DEF Touching, Records
    <3>2. PICK d \in D : \A e \in D : d <= e
      BY ZenonT(30), <3>1, LeastNatural
    <3>3. PICK r \in T : d = MaxSeq - r.seq
      BY <3>2
    <3>4. ASSUME NEW q \in T PROVE q.seq <= r.seq
      <4>1. MaxSeq - q.seq \in D
        OBVIOUS
      <4>2. MaxSeq - r.seq <= MaxSeq - q.seq
        BY <3>2, <3>3, <4>1
      <4>3. q.seq \in Int /\ r.seq \in Int /\ MaxSeq \in Int
        BY MaxSeqAssumption DEF Touching, Records
      <4>4. QED  BY <4>2, <4>3
    <3>5. last \in T
      BY <3>4
    <3>6. last.eff \in Effects /\ k \in DOMAIN last.eff
      BY <3>5 DEF Touching, Records
    <3>7. last.eff[k] \in Values
      BY <3>6 DEF Effects
    <3>8. QED  BY <2>2, <3>7 DEF LastValue
  <2>3. QED  BY <2>1, <2>2
<1>2. QED  BY <1>1 DEF Recovered, Maps

-----------------------------------------------------------------------------
(* Typing facts.                                                           *)

\* What prepareDurableEffects returns is a set of final-state images.
LEMMA PreparedType ==
  ASSUME NEW m \in Maps
  PROVE  prepareDurableEffects(m) \subseteq Effects
<1>1. SetEffects \subseteq Effects
  BY DEF SetEffects, Effects, Values
<1>2. DelEffects(m) \subseteq Effects
  BY DEF DelEffects, Effects, Values
<1>3. RenameEffects(m) \subseteq Effects
  <2>1. ASSUME NEW from \in Keys, NEW to \in Keys
        PROVE  RenameEffect(m, from, to) \in Effects
    <3>1. {from, to} \in SUBSET Keys
      OBVIOUS
    <3>2. m[from] \in Values /\ NoVal \in Values
      BY DEF Maps, Values
    <3>3. RenameEffect(m, from, to) \in [{from, to} -> Values]
      BY <3>2 DEF RenameEffect
    <3>4. QED  BY <3>1, <3>3 DEF Effects
  <2>2. QED  BY <2>1 DEF RenameEffects
<1>4. QED  BY <1>1, <1>2, <1>3 DEF prepareDurableEffects

\* The constants of the model are in their types.
LEMMA ConstantTypes ==
  /\ Empty \in Maps
  /\ NoCheckpoint \in Checkpoints
  /\ NoRec \in [seq : 0..MaxSeq, eff : Effects]
<1>1. Empty \in Maps
  BY DEF Empty, Maps, Values
<1>2. NoCheckpoint \in Checkpoints
  BY <1>1, MaxSeqAssumption DEF NoCheckpoint, Checkpoints
<1>3. [k \in {} |-> NoVal] \in Effects
  <2>1. [k \in {} |-> NoVal] \in [{} -> Values]
    OBVIOUS
  <2>2. {} \in SUBSET Keys
    OBVIOUS
  <2>3. QED  BY <2>1, <2>2 DEF Effects
<1>4. NoRec \in [seq : 0..MaxSeq, eff : Effects]
  BY <1>3, MaxSeqAssumption DEF NoRec
<1>5. QED  BY <1>1, <1>2, <1>4

-----------------------------------------------------------------------------
(* Invariance: the non-temporal steps.                                     *)

\* A failed flush or sync leaves the log's flags and watermark in their types.
LEMMA SyncErrorType ==
  ASSUME TypeOK, appended \in 0..MaxSeq, FlushError \/ SyncError
  PROVE  written' \in 0..MaxSeq /\ failed' \in BOOLEAN /\ broken' \in BOOLEAN
<1>1. CASE FlushError
  <2>1. written' \in 0..MaxSeq
    BY <1>1, MaxSeqAssumption DEF FlushError, TypeOK
  <2>2. failed' \in BOOLEAN /\ broken' \in BOOLEAN
    BY <1>1, Zenon DEF FlushError
  <2>3. QED  BY <2>1, <2>2
<1>2. CASE ~broken /\ failed' = TRUE /\ written' = appended /\ UNCHANGED broken
  <2>1. failed' \in BOOLEAN /\ broken' \in BOOLEAN
    BY <1>2, Zenon DEF TypeOK
  <2>2. QED  BY <1>2, <2>1
<1>3. QED  BY ZenonT(30), <1>1, <1>2 DEF SyncError

\* Each step keeps the variables in their types.
LEMMA TypeStep ==
  ASSUME IInv, Next
  PROVE  TypeOK'
<1> USE ConstantTypes, MaxSeqAssumption
<1>0. /\ TypeOK /\ Watermarks /\ LogOrdered /\ CheckpointSteps
      /\ appended \in 0..MaxSeq
  BY DEF IInv, TypeOK, Watermarks, LogOrdered, appended
<1>1. ASSUME NEW eff \in prepareDurableEffects(kv), Execute(eff)
      PROVE  TypeOK'
  <2>1. eff \in Effects
    BY <1>0, PreparedType DEF TypeOK
  <2>2. QED  BY <1>0, <1>1, <2>1 DEF Execute, TypeOK, disk, hist
<1>2. CASE Append
  <2>1. Apply(kv, rec.eff) \in Maps /\ rec \in Records
    BY <1>0, <1>2, ApplyType DEF Append, TypeOK, LogOrdered
  <2>2. written' \in 0..MaxSeq
    BY <1>0, <1>2 DEF Append, TypeOK
  <2>3. QED  BY <1>0, <1>2, <2>1, <2>2 DEF Append, TypeOK
<1>3. CASE AppendFail
  BY <1>0, <1>3, SyncErrorType DEF AppendFail, TypeOK, Checkpoints, disk, proc, hist
<1>4. CASE Flush
  BY <1>0, <1>4 DEF Flush, TypeOK, Checkpoints, disk, proc, hist
<1>5. CASE FsyncAck
  BY <1>0, <1>5 DEF FsyncAck, TypeOK, Checkpoints, disk, proc, hist
<1>6. CASE SyncFail
  BY <1>0, <1>6 DEF SyncFail, TypeOK, Checkpoints, disk, proc, hist
<1>7. CASE SyncTick
  BY <1>0, <1>7 DEF SyncTick, TypeOK, Checkpoints, disk, proc, hist
<1>8. CASE SyncTickFail
  BY <1>0, <1>8, SyncErrorType DEF SyncTickFail, TypeOK, Checkpoints, disk, proc, hist
<1>9. CASE Dispatch
  <2>1. Apply(kv, rec.eff) \in Maps
    BY <1>0, ApplyType DEF TypeOK
  <2>2. QED  BY <1>0, <1>9, <2>1 DEF Dispatch, TypeOK, disk, hist
<1>10. CASE SaveCheckpoint
  BY <1>0, <1>10 DEF SaveCheckpoint, TypeOK, Checkpoints, disk, proc, hist
<1>11. CASE InstallCurrent
  BY ZenonT(30), <1>0, <1>11 DEF InstallCurrent, TypeOK, Checkpoints, disk, proc, hist
<1>12. CASE SaveFail
  BY <1>0, <1>12 DEF SaveFail, Return, TypeOK, Checkpoints, disk, proc, hist
<1>13. CASE CreateBackupArchive
  BY <1>0, <1>13 DEF CreateBackupArchive, Return, TypeOK, Checkpoints, disk, proc, hist
<1>14. CASE Rotate
  BY <1>0, <1>14 DEF Rotate, ArchiveLog, TypeOK, Checkpoints, disk, proc, hist
<1>15. CASE RotateFail
  <2>1. log' \in SUBSET Records
    BY <1>0, <1>15 DEF RotateFail, ArchiveLog, TypeOK
  <2>2. archives' \in SUBSET [name : 0..MaxSeq, recs : SUBSET Records]
    BY <1>0, <1>15 DEF RotateFail, ArchiveLog, TypeOK
  <2>3. written' \in 0..MaxSeq /\ failed' \in BOOLEAN /\ broken' \in BOOLEAN
    <3>1. CASE SyncError
      BY <1>0, <3>1, SyncErrorType
    <3>2. CASE UNCHANGED <<written, failed>> /\ (broken' = broken \/ broken' = TRUE)
      BY ZenonT(30), <1>0, <3>2 DEF TypeOK
    <3>3. QED  BY ZenonT(30), <1>15, <3>1, <3>2 DEF RotateFail
  <2>4. QED  BY <1>0, <1>15, <2>1, <2>2, <2>3 DEF RotateFail, Return, TypeOK, hist
<1>16. CASE CompactThrough
  BY <1>0, <1>16 DEF CompactThrough, Return, TypeOK, Checkpoints, disk, proc, hist
<1>17. ASSUME NEW why \in Whys, CheckpointSync(why) \/ CheckpointSyncFail(why)
      PROVE  TypeOK'
  BY <1>0, <1>17, ScopeAssumption, SyncErrorType
     DEF CheckpointSync, CheckpointSyncFail, TypeOK, hist
<1>18. ASSUME NEW c \in 0..MaxSeq, NEW s \in 0..MaxSeq, Down(c, s)
      PROVE  TypeOK'
  <2>1. Latest \in Checkpoints
    BY <1>0 DEF TypeOK, Latest
  <2>2. QED  BY ZenonT(30), <1>0, <1>18, <2>1 DEF Down, TypeOK, hist
<1>19. CASE Close \/ ProcessCrash \/ PowerLoss
  BY <1>0, <1>18, <1>19 DEF Close, ProcessCrash, PowerLoss, TypeOK
<1>20. CASE RestoreTenant
  <2>1. PICK b \in backups : ckpt' = b /\ stateAt' = Upto(b.seq, b.img) /\ rewound' = (b.seq > 0)
    BY <1>20 DEF RestoreTenant
  <2>2. Upto(b.seq, b.img) \in [0..MaxSeq -> Maps]
    BY <1>0 DEF TypeOK, Upto, Checkpoints
  <2>3. b \in Checkpoints /\ b.seq \in Int
    BY <1>0, MaxSeqAssumption DEF TypeOK, Checkpoints
  <2>4. rewound' \in BOOLEAN
    <3>1. CASE b.seq > 0
      BY <3>1, <2>1, Zenon
    <3>2. CASE ~(b.seq > 0)
      <4>1. (b.seq > 0) = FALSE
        BY <3>2, <2>3
      <4>2. QED  BY <4>1, <2>1
    <3>3. QED  BY <3>1, <3>2
  <2>5. ckpt' \in Checkpoints /\ stateAt' \in [0..MaxSeq -> Maps]
    BY <2>1, <2>2, <2>3
  <2>6. /\ log' \subseteq Records
        /\ archives' \subseteq [name : 0..MaxSeq, recs : SUBSET Records]
    BY <1>20 DEF RestoreTenant
  <2>7. synced' \in 0..MaxSeq /\ written' \in 0..MaxSeq /\ acked' \in 0..MaxSeq
    <3>1. synced' = 0 /\ written' = 0 /\ acked' = 0
      BY <1>20 DEF RestoreTenant
    <3>2. QED  BY <3>1
  <2>8. UNCHANGED <<staged, backups, pc, kind, kv, seq, rec, failed, broken>>
    BY <1>20 DEF RestoreTenant, proc
  <2>9. hasCurrent' \in BOOLEAN /\ doubt' \in BOOLEAN
    BY <1>20, Zenon DEF RestoreTenant
  <2>10. QED  BY <1>0, <2>4, <2>5, <2>6, <2>7, <2>8, <2>9 DEF TypeOK
<1>21. CASE Open
  <2>1. PICK m \in 0..MaxSeq :
          /\ seq' = m
          /\ rewound' = (rewound \/ m < ckpt.seq)
          /\ acked' = IF m < ckpt.seq THEN 0 ELSE Smaller(acked, m)
          /\ synced' = Smaller(synced, m) /\ written' = m
          /\ kv' = Recovered(Surviving(written), ckpt)
          /\ stateAt' = Upto(m, kv')
    BY <1>21 DEF Open
  <2>2. Surviving(written) \in SUBSET Records
    BY <1>0 DEF Surviving, Archived, TypeOK
  <2>3. kv' \in Maps
    BY <1>0, <2>1, <2>2, ReplayType DEF TypeOK
  <2>4. Upto(m, kv') \in [0..MaxSeq -> Maps]
    BY <1>0, <2>3 DEF TypeOK, Upto
  <2>5. rewound' \in BOOLEAN
    BY <2>1, Zenon
  <2>6. seq' \in 0..MaxSeq /\ acked' \in 0..MaxSeq /\ synced' \in 0..MaxSeq
    BY <1>0, <2>1 DEF TypeOK, Smaller
  <2>7. written' \in 0..MaxSeq /\ stateAt' \in [0..MaxSeq -> Maps]
    BY <2>1, <2>4
  <2>8. QED  BY ZenonT(30), <1>0, <1>21, <2>3, <2>5, <2>6, <2>7 DEF Open, TypeOK
<1>22. QED
  BY ZenonT(30), <1>1, <1>2, <1>3, <1>4, <1>5, <1>6, <1>7, <1>8, <1>9, <1>10, <1>11, <1>12, <1>13, <1>14, <1>15, <1>16, <1>17, <1>19, <1>20, <1>21 DEF Next

\* The part of the inductive invariant about sequence numbers: frames, archives
\* and checkpoints are in order, and errors are latched.
Bounds ==
  /\ Watermarks /\ LogOrdered /\ ArchivedCovered /\ CheckpointSteps
  /\ CheckpointSynced /\ DoubtLatched /\ AckedSynced

\* Where the end of a process may cut wal.log.
LEMMA CutBounds ==
  ASSUME IInv, Close \/ ProcessCrash \/ PowerLoss
  PROVE  \E c \in synced..appended : \E s \in synced..c : Down(c, s)
<1>0. TypeOK /\ Watermarks
  BY DEF IInv
<1>1. /\ synced \in Int /\ written \in Int /\ appended \in Int /\ seq \in Int
      /\ synced <= written /\ written <= appended
  BY <1>0, MaxSeqAssumption DEF TypeOK, Watermarks, appended
<1>2. CASE Down(written, synced)
  BY <1>1, <1>2
<1>3. ASSUME NEW c \in synced..written, Down(c, c)
      PROVE  \E d \in synced..appended : \E s \in synced..d : Down(d, s)
  BY <1>1, <1>3
<1>4. ASSUME pc \in {"idle", "acked"}, Down(seq, seq)
      PROVE  \E d \in synced..appended : \E s \in synced..d : Down(d, s)
  BY <1>1, <1>4 DEF appended
<1>5. QED  BY <1>2, <1>3, <1>4 DEF Close, ProcessCrash, PowerLoss

\* The end of a process keeps the order of frames, archives and checkpoint.
LEMMA DownBounds ==
  ASSUME IInv, TypeOK',
         NEW c \in synced..appended, NEW s \in synced..c, Down(c, s)
  PROVE  Bounds'
<1>0. TypeOK /\ Bounds
  BY DEF IInv, Bounds
<1>1. QED
  BY <1>0, MaxSeqAssumption
     DEF Down, Latest, up, InFlight, TypeOK, Archived, hist, appended, Bounds,
         Watermarks, LogOrdered, ArchivedCovered, CheckpointSteps, CheckpointSynced,
         DoubtLatched, AckedSynced, Checkpoints, Records

\* Each step keeps the order of frames, archives and checkpoint.
LEMMA BoundsStep ==
  ASSUME IInv, Next, TypeOK'
  PROVE  Bounds'
<1> USE MaxSeqAssumption
<1>0. TypeOK /\ Bounds
  BY DEF IInv, Bounds
<1>1. ASSUME NEW eff \in prepareDurableEffects(kv), Execute(eff)
      PROVE  Bounds'
  <2>1. eff \in Effects
    BY <1>0, PreparedType DEF TypeOK
  <2>2. QED
    BY <1>0, <1>1, <2>1 DEF Execute, Archived, up, InFlight, disk, proc, hist, TypeOK, appended, Bounds,
         Watermarks, LogOrdered, ArchivedCovered, CheckpointSteps, CheckpointSynced,
         DoubtLatched, AckedSynced, Checkpoints, Records
<1>2. CASE Append
  BY <1>0, <1>2
     DEF Append, Archived, up, InFlight, disk, proc, hist, TypeOK, appended, Bounds,
         Watermarks, LogOrdered, ArchivedCovered, CheckpointSteps, CheckpointSynced,
         DoubtLatched, AckedSynced, Checkpoints, Records
<1>3. CASE AppendFail
  BY <1>0, <1>3
     DEF AppendFail, FlushError, Archived, up, InFlight, disk, proc, hist, TypeOK, appended, Bounds,
         Watermarks, LogOrdered, ArchivedCovered, CheckpointSteps, CheckpointSynced,
         DoubtLatched, AckedSynced, Checkpoints, Records
<1>4. CASE Flush
  BY <1>0, <1>4
     DEF Flush, Archived, up, InFlight, disk, proc, hist, TypeOK, appended, Bounds,
         Watermarks, LogOrdered, ArchivedCovered, CheckpointSteps, CheckpointSynced,
         DoubtLatched, AckedSynced, Checkpoints, Records
<1>5. CASE FsyncAck
  BY <1>0, <1>5
     DEF FsyncAck, Archived, up, InFlight, disk, proc, hist, TypeOK, appended, Bounds,
         Watermarks, LogOrdered, ArchivedCovered, CheckpointSteps, CheckpointSynced,
         DoubtLatched, AckedSynced, Checkpoints, Records
<1>6. CASE SyncFail
  BY <1>0, <1>6
     DEF SyncFail, Archived, up, InFlight, disk, proc, hist, TypeOK, appended, Bounds,
         Watermarks, LogOrdered, ArchivedCovered, CheckpointSteps, CheckpointSynced,
         DoubtLatched, AckedSynced, Checkpoints, Records
<1>7. CASE SyncTick
  BY <1>0, <1>7
     DEF SyncTick, Archived, up, InFlight, disk, proc, hist, TypeOK, appended, Bounds,
         Watermarks, LogOrdered, ArchivedCovered, CheckpointSteps, CheckpointSynced,
         DoubtLatched, AckedSynced, Checkpoints, Records
<1>8. CASE SyncTickFail
  BY <1>0, <1>8
     DEF SyncTickFail, SyncError, FlushError, Archived, up, InFlight, disk, proc, hist, TypeOK, appended, Bounds,
         Watermarks, LogOrdered, ArchivedCovered, CheckpointSteps, CheckpointSynced,
         DoubtLatched, AckedSynced, Checkpoints, Records
<1>9. CASE Dispatch
  BY <1>0, <1>9
     DEF Dispatch, Archived, up, InFlight, disk, proc, hist, TypeOK, appended, Bounds,
         Watermarks, LogOrdered, ArchivedCovered, CheckpointSteps, CheckpointSynced,
         DoubtLatched, AckedSynced, Checkpoints, Records
<1>10. CASE SaveCheckpoint
  BY <1>0, <1>10
     DEF SaveCheckpoint, Archived, up, InFlight, disk, proc, hist, TypeOK, appended, Bounds,
         Watermarks, LogOrdered, ArchivedCovered, CheckpointSteps, CheckpointSynced,
         DoubtLatched, AckedSynced, Checkpoints, Records
<1>11. CASE InstallCurrent
  BY <1>0, <1>11
     DEF InstallCurrent, Archived, up, InFlight, disk, proc, hist, TypeOK, appended, Bounds,
         Watermarks, LogOrdered, ArchivedCovered, CheckpointSteps, CheckpointSynced,
         DoubtLatched, AckedSynced, Checkpoints, Records
<1>12. CASE SaveFail
  BY <1>0, <1>12
     DEF SaveFail, Return, Archived, up, InFlight, disk, proc, hist, TypeOK, appended, Bounds,
         Watermarks, LogOrdered, ArchivedCovered, CheckpointSteps, CheckpointSynced,
         DoubtLatched, AckedSynced, Checkpoints, Records
<1>13. CASE CreateBackupArchive
  BY <1>0, <1>13
     DEF CreateBackupArchive, Return, Archived, up, InFlight, disk, proc, hist, TypeOK, appended, Bounds,
         Watermarks, LogOrdered, ArchivedCovered, CheckpointSteps, CheckpointSynced,
         DoubtLatched, AckedSynced, Checkpoints, Records
<1>14. CASE Rotate
  BY <1>0, <1>14
     DEF Rotate, ArchiveLog, Archived, up, InFlight, disk, proc, hist, TypeOK, appended, Bounds,
         Watermarks, LogOrdered, ArchivedCovered, CheckpointSteps, CheckpointSynced,
         DoubtLatched, AckedSynced, Checkpoints, Records
<1>15. CASE RotateFail
  BY <1>0, <1>15
     DEF RotateFail, ArchiveLog, SyncError, FlushError, Return, Archived, up, InFlight, disk, proc, hist, TypeOK, appended, Bounds,
         Watermarks, LogOrdered, ArchivedCovered, CheckpointSteps, CheckpointSynced,
         DoubtLatched, AckedSynced, Checkpoints, Records
<1>16. CASE CompactThrough
  BY <1>0, <1>16
     DEF CompactThrough, Return, Archived, up, InFlight, disk, proc, hist, TypeOK, appended, Bounds,
         Watermarks, LogOrdered, ArchivedCovered, CheckpointSteps, CheckpointSynced,
         DoubtLatched, AckedSynced, Checkpoints, Records
<1>17. ASSUME NEW why \in Whys, CheckpointSync(why) \/ CheckpointSyncFail(why)
      PROVE  Bounds'
  BY <1>0, <1>17, ScopeAssumption
     DEF CheckpointSync, CheckpointSyncFail, SyncError, FlushError, Archived, up, InFlight, disk, proc, hist, TypeOK, appended, Bounds,
         Watermarks, LogOrdered, ArchivedCovered, CheckpointSteps, CheckpointSynced,
         DoubtLatched, AckedSynced, Checkpoints, Records
<1>18. CASE Close \/ ProcessCrash \/ PowerLoss
  <2>1. \E c \in synced..appended : \E s \in synced..c : Down(c, s)
    BY <1>18, CutBounds
  <2>2. QED  BY <2>1, DownBounds
<1>19. CASE RestoreTenant
  <2>1. PICK b \in backups : ckpt' = b /\ rewound' = (b.seq > 0)
    BY <1>19 DEF RestoreTenant
  <2>2. b.seq \in 0..MaxSeq
    BY <1>0 DEF TypeOK, Checkpoints
  <2>3. ~rewound' => ckpt'.seq = 0
    <3>1. ~rewound' => ~(b.seq > 0)
      BY <2>1, Zenon
    <3>2. QED  BY <2>1, <2>2, <3>1
  <2>4. /\ log' = {} /\ archives' = {} /\ acked' = 0 /\ synced' = 0 /\ written' = 0
        /\ pc = "down" /\ pc' = pc /\ seq' = seq /\ rec' = rec
    BY <1>19 DEF RestoreTenant, up, proc
  <2>5. ~doubt'
    BY <1>19 DEF RestoreTenant
  <2>6. QED
    BY <1>0, <2>3, <2>4, <2>5
       DEF Archived, up, InFlight, TypeOK, appended, Bounds,
           Watermarks, LogOrdered, ArchivedCovered, CheckpointSteps,
           CheckpointSynced, DoubtLatched, AckedSynced, Checkpoints
<1>20. CASE Open
  <2>1. PICK m \in 0..MaxSeq :
          /\ \A r \in Surviving(written) : r.seq <= m
          /\ seq' = m
          /\ rewound' = (rewound \/ m < ckpt.seq)
          /\ acked' = IF m < ckpt.seq THEN 0 ELSE Smaller(acked, m)
          /\ synced' = Smaller(synced, m) /\ written' = m
    BY <1>20 DEF Open
  <2>2. pc = "down" /\ pc' = "idle" /\ UNCHANGED <<log, archives, ckpt>>
    BY <1>20 DEF Open, up
  <2>3. ~doubt'
    BY <1>20 DEF Open
  <2>4. ~rewound' => ~rewound /\ ~(m < ckpt.seq)
    BY <2>1, Zenon
  <2>5. Watermarks' /\ CheckpointSteps' /\ DoubtLatched'
    BY <1>0, <2>1, <2>2, <2>3
       DEF Smaller, TypeOK, appended, Watermarks, CheckpointSteps, DoubtLatched, InFlight
  <2>6. LogOrdered'
    BY <1>0, <2>1, <2>2 DEF Surviving, Archived, TypeOK, appended, LogOrdered, Bounds, Watermarks
  <2>7. ArchivedCovered'
    BY <1>0, <2>1, <2>2 DEF Surviving, Archived, ArchivedCovered, Bounds
  <2>8. CheckpointSynced'
    BY <1>0, <2>1, <2>2, <2>4 DEF Smaller, CheckpointSynced, TypeOK, Bounds, Checkpoints
  <2>9. AckedSynced'
    BY <1>0, <2>1, <2>2 DEF Smaller, AckedSynced, TypeOK, Bounds
  <2>10. QED  BY <2>5, <2>6, <2>7, <2>8, <2>9 DEF Bounds
<1>21. QED
  BY <1>1, <1>2, <1>3, <1>4, <1>5, <1>6, <1>7, <1>8, <1>9, <1>10, <1>11, <1>12, <1>13, <1>14, <1>15, <1>16, <1>17, <1>18, <1>19, <1>20 DEF Next

\* The store stays the map of the log's head, and a logged transaction is the
\* one being applied.
LEMMA StoreStep ==
  ASSUME IInv, Next, TypeOK'
  PROVE  StoreIsLogHead' /\ LoggedApplied'
<1> USE MaxSeqAssumption
<1>0. TypeOK /\ StoreIsLogHead /\ LoggedApplied /\ DoubtLatched
  BY DEF IInv
<1>1. ASSUME NEW eff \in prepareDurableEffects(kv), Execute(eff)
      PROVE  StoreIsLogHead' /\ LoggedApplied'
  BY <1>0, <1>1 DEF Execute, up, InFlight, disk, proc, hist, TypeOK,
         StoreIsLogHead, LoggedApplied, DoubtLatched
<1>2. CASE Append
  <2>1. seq \in 1..MaxSeq
    BY <1>2 DEF IInv, LogOrdered, Append, Records
  <2>2. /\ pc = "queued" /\ pc' \in {"appended", "acked"}
        /\ UNCHANGED <<kv, seq, rec, doubt>>
        /\ stateAt' = [stateAt EXCEPT ![seq] = Apply(kv, rec.eff)]
    BY <1>2 DEF Append
  <2>3. QED
    BY <1>0, <2>1, <2>2 DEF up, InFlight, TypeOK, StoreIsLogHead, LoggedApplied
<1>3. CASE AppendFail
  BY <1>0, <1>3
     DEF AppendFail, FlushError, up, InFlight, disk, proc, hist, TypeOK,
         StoreIsLogHead, LoggedApplied, DoubtLatched
<1>4. CASE Flush
  BY ZenonT(30), <1>0, <1>4
     DEF Flush, up, InFlight, disk, proc, hist, TypeOK,
         StoreIsLogHead, LoggedApplied, DoubtLatched
<1>5. CASE FsyncAck
  BY ZenonT(30), <1>0, <1>5
     DEF FsyncAck, up, InFlight, disk, proc, hist, TypeOK,
         StoreIsLogHead, LoggedApplied, DoubtLatched
<1>6. CASE SyncFail
  BY ZenonT(30), <1>0, <1>6
     DEF SyncFail, up, InFlight, disk, proc, hist, TypeOK,
         StoreIsLogHead, LoggedApplied, DoubtLatched
<1>7. CASE SyncTick
  BY ZenonT(30), <1>0, <1>7
     DEF SyncTick, up, InFlight, disk, proc, hist, TypeOK,
         StoreIsLogHead, LoggedApplied, DoubtLatched
<1>8. CASE SyncTickFail
  BY ZenonT(30), <1>0, <1>8
     DEF SyncTickFail, SyncError, FlushError, up, InFlight, disk, proc, hist, TypeOK,
         StoreIsLogHead, LoggedApplied, DoubtLatched
<1>9. CASE Dispatch
  BY ZenonT(30), <1>0, <1>9
     DEF Dispatch, up, InFlight, disk, proc, hist, TypeOK,
         StoreIsLogHead, LoggedApplied, DoubtLatched
<1>10. CASE SaveCheckpoint
  BY <1>0, <1>10
     DEF SaveCheckpoint, up, InFlight, disk, proc, hist, TypeOK,
         StoreIsLogHead, LoggedApplied, DoubtLatched
<1>11. CASE InstallCurrent
  BY <1>0, <1>11
     DEF InstallCurrent, up, InFlight, disk, proc, hist, TypeOK,
         StoreIsLogHead, LoggedApplied, DoubtLatched
<1>12. CASE SaveFail
  BY <1>0, <1>12
     DEF SaveFail, Return, up, InFlight, disk, proc, hist, TypeOK,
         StoreIsLogHead, LoggedApplied, DoubtLatched
<1>13. CASE CreateBackupArchive
  BY ZenonT(30), <1>0, <1>13
     DEF CreateBackupArchive, Return, up, InFlight, disk, proc, hist, TypeOK,
         StoreIsLogHead, LoggedApplied, DoubtLatched
<1>14. CASE Rotate
  BY ZenonT(30), <1>0, <1>14
     DEF Rotate, ArchiveLog, up, InFlight, disk, proc, hist, TypeOK,
         StoreIsLogHead, LoggedApplied, DoubtLatched
<1>15. CASE RotateFail
  BY <1>0, <1>15
     DEF RotateFail, SyncError, FlushError, Return, up, InFlight, disk, proc, hist, TypeOK,
         StoreIsLogHead, LoggedApplied, DoubtLatched
<1>16. CASE CompactThrough
  BY <1>0, <1>16
     DEF CompactThrough, Return, up, InFlight, disk, proc, hist, TypeOK,
         StoreIsLogHead, LoggedApplied, DoubtLatched
<1>17. ASSUME NEW why \in Whys, CheckpointSync(why) \/ CheckpointSyncFail(why)
      PROVE  StoreIsLogHead' /\ LoggedApplied'
  BY ZenonT(30), <1>0, <1>17, ScopeAssumption
     DEF CheckpointSync, CheckpointSyncFail, SyncError, FlushError, up, InFlight, disk, proc, hist, TypeOK,
         StoreIsLogHead, LoggedApplied, DoubtLatched
<1>18. CASE Close \/ ProcessCrash \/ PowerLoss
  <2>1. pc' = "down"
    BY <1>18 DEF Close, ProcessCrash, PowerLoss, Down
  <2>2. QED  BY <2>1 DEF StoreIsLogHead, LoggedApplied, up
<1>19. CASE RestoreTenant
  <2>1. pc' = "down"
    BY <1>19 DEF RestoreTenant, up, proc
  <2>2. QED  BY <2>1 DEF StoreIsLogHead, LoggedApplied, up
<1>20. CASE Open
  <2>1. PICK m \in 0..MaxSeq : seq' = m /\ stateAt' = Upto(m, kv')
    BY <1>20 DEF Open
  <2>2. ~doubt' /\ pc' = "idle"
    BY <1>20 DEF Open
  <2>3. stateAt'[m] = kv'
    BY <2>1 DEF Upto
  <2>4. QED  BY <2>1, <2>2, <2>3 DEF StoreIsLogHead, LoggedApplied, InFlight
<1>21. QED
  BY ZenonT(30), <1>1, <1>2, <1>3, <1>4, <1>5, <1>6, <1>7, <1>8, <1>9, <1>10, <1>11, <1>12, <1>13, <1>14, <1>15, <1>16, <1>17, <1>18, <1>19, <1>20 DEF Next

\* With the mutation lock idle at the snapshot, the staged checkpoint is exact.
LEMMA StagedExact ==
  ASSUME IInv, pc = "install"
  PROVE  \/ Recovered(Surviving(seq), staged) = stateAt[seq]
         \/ doubt /\ Recovered(Surviving(seq), staged) = stateAt[seq - 1]
<1>1. /\ TypeOK /\ LogOrdered /\ ArchivedCovered /\ CheckpointSteps
      /\ StoreIsLogHead
  BY DEF IInv
<1>2. staged \in Checkpoints /\ staged.seq = seq /\ staged.img = kv
  BY <1>1 DEF TypeOK, CheckpointSteps
<1>3. Surviving(seq) \in SUBSET Records
  BY <1>1 DEF Surviving, Archived, TypeOK
<1>4. \A r \in Surviving(seq) : r.seq <= seq
  BY <1>1 DEF Surviving, ArchivedCovered
<1>5. Recovered(Surviving(seq), staged) = kv
  BY <1>2, <1>3, <1>4, ReplayNothing
<1>6. kv = stateAt[IF doubt THEN seq - 1 ELSE seq]
  BY <1>1 DEF StoreIsLogHead, up, InFlight
<1>7. QED  BY <1>5, <1>6

\* What recovery would find: any cut of the log is exact, whichever checkpoint
\* Snapshotter.Latest would return.
LEMMA CrashExact ==
  ASSUME IInv, ~rewound, NEW c \in synced..appended
  PROVE  \/ AfterCrash(c) = stateAt[c]
         \/ doubt /\ c = seq /\ AfterCrash(c) = stateAt[c - 1]
<1>1. CASE Latest = ckpt
  BY <1>1 DEF IInv, ReplayExact, AfterCrash
<1>2. CASE Latest # ckpt
  <2>1. pc = "install" /\ Latest = staged
    BY <1>2 DEF Latest
  <2>2. c = seq
    BY <2>1, MaxSeqAssumption DEF IInv, CheckpointSteps, Watermarks, TypeOK, appended
  <2>3. QED  BY <2>1, <2>2, StagedExact DEF AfterCrash
<1>3. QED  BY <1>1, <1>2

\* Steps that move no frame and no checkpoint keep replay exact.
LEMMA QuietStep ==
  ASSUME IInv, TypeOK', UNCHANGED <<log, archives, ckpt, stateAt, rewound>>,
         synced <= synced', appended' = appended,
         doubt => doubt' /\ seq' = seq
  PROVE  ReplayExact'
<1>1. \A c : Surviving(c)' = Surviving(c)
  BY DEF Surviving, Archived
<1>2. TypeOK /\ ReplayExact /\ appended \in Int
  BY MaxSeqAssumption DEF IInv, TypeOK, appended
<1>3. SUFFICES ASSUME ~rewound, NEW c \in synced'..appended'
               PROVE  \/ Recovered(Surviving(c), ckpt) = stateAt[c]
                      \/ doubt' /\ c = seq' /\ Recovered(Surviving(c), ckpt) = stateAt[c - 1]
  BY <1>1 DEF ReplayExact
<1>4. c \in synced..appended
  BY <1>2, MaxSeqAssumption DEF TypeOK
<1>5. QED  BY <1>2, <1>3, <1>4 DEF ReplayExact

\* Rotation and compaction move only frames that the checkpoint covers.
LEMMA CoveredStep ==
  ASSUME IInv, TypeOK', Bounds', pc \in {"rotate", "compact"},
         pc' \in {"idle", "compact"},
         UNCHANGED <<ckpt, stateAt, rewound, doubt, seq, synced>>
  PROVE  ReplayExact'
<1>0. Bounds /\ TypeOK /\ ReplayExact
  BY DEF IInv, Bounds
<1>1. appended = seq /\ appended' = seq /\ synced = seq /\ synced' = seq /\ ckpt.seq = seq
  BY <1>0 DEF appended, Bounds, CheckpointSteps
<1>2. /\ Surviving(seq) \in SUBSET Records
      /\ Surviving(seq)' \in SUBSET Records
      /\ ckpt \in Checkpoints
  BY <1>0 DEF Surviving, Archived, TypeOK
<1>3. \A r \in Surviving(seq) : r.seq <= ckpt.seq
  BY <1>0, <1>1 DEF Surviving, Bounds, ArchivedCovered
<1>4. \A r \in Surviving(seq)' : r.seq <= ckpt.seq
  BY <1>0, <1>1 DEF Surviving, Bounds, ArchivedCovered
<1>5. Recovered(Surviving(seq), ckpt) = ckpt.img
  BY <1>2, <1>3, ReplayNothing
<1>6. Recovered(Surviving(seq)', ckpt) = ckpt.img
  BY <1>2, <1>4, ReplayNothing
<1>7. SUFFICES ASSUME ~rewound', NEW c \in synced'..appended'
               PROVE  (\/ Recovered(Surviving(c), ckpt) = stateAt[c]
                       \/ doubt /\ c = seq /\ Recovered(Surviving(c), ckpt) = stateAt[c - 1])'
  BY DEF ReplayExact
<1>8. c = seq /\ seq \in synced..appended
  BY <1>0, <1>1, MaxSeqAssumption DEF TypeOK
<1>9. \/ Recovered(Surviving(seq), ckpt) = stateAt[seq]
      \/ doubt /\ Recovered(Surviving(seq), ckpt) = stateAt[seq - 1]
  BY ZenonT(30), <1>0, <1>7, <1>8 DEF ReplayExact
<1>10. QED  BY <1>5, <1>6, <1>8, <1>9

\* Appending a frame extends the replay by its effects.
LEMMA AppendReplay ==
  ASSUME IInv, TypeOK', Append
  PROVE  ReplayExact'
<1>0. Bounds /\ TypeOK /\ ReplayExact /\ StoreIsLogHead
  BY DEF IInv, Bounds
<1>1. /\ rec \in Records /\ rec.seq = seq /\ seq \in 1..MaxSeq
      /\ pc = "queued" /\ appended = seq - 1 /\ appended' = seq
      /\ UNCHANGED <<archives, ckpt, rewound, doubt, seq, synced>>
      /\ log' = log \cup {rec}
      /\ stateAt' = [stateAt EXCEPT ![seq] = Apply(kv, rec.eff)]
  BY <1>0 DEF Append, Bounds, LogOrdered, appended, Records
<1>2. ~doubt /\ kv = stateAt[seq - 1]
  BY <1>0, <1>1 DEF Bounds, DoubtLatched, StoreIsLogHead, up, InFlight
<1>3. SUFFICES ASSUME ~rewound, NEW c \in synced..seq
               PROVE  Recovered(Surviving(c)', ckpt) = stateAt'[c]
  BY ZenonT(30), <1>1 DEF ReplayExact
<1>4. synced \in 0..MaxSeq /\ synced <= seq - 1 /\ ckpt.seq <= synced /\ ckpt \in Checkpoints
  BY <1>0, <1>1, <1>3 DEF Bounds, Watermarks, CheckpointSynced, TypeOK
<1>5. \A d \in synced..(seq - 1) : Recovered(Surviving(d), ckpt) = stateAt[d]
  BY <1>0, <1>1, <1>2, <1>3 DEF ReplayExact
<1>6. CASE c < seq
  <2>1. Surviving(c)' = Surviving(c)
    BY <1>1, <1>4, <1>6 DEF Surviving, Archived
  <2>2. c \in synced..(seq - 1) /\ stateAt'[c] = stateAt[c]
    BY <1>0, <1>1, <1>4, <1>6 DEF TypeOK
  <2>3. QED  BY <1>5, <2>1, <2>2
<1>7. CASE c = seq
  <2> DEFINE L == Surviving(seq - 1)
  <2>1. L \in SUBSET Records
    BY <1>0 DEF Surviving, Archived, TypeOK
  <2>2. Surviving(c)' = L \cup {rec}
    <3>1. \A r \in log : r.seq <= seq /\ r.seq <= seq - 1
      BY <1>0, <1>1 DEF Bounds, LogOrdered, TypeOK, Records
    <3>2. QED  BY <1>1, <1>7, <3>1 DEF Surviving, Archived
  <2>3. ckpt.seq \in Int /\ rec.seq > ckpt.seq
    BY <1>1, <1>4 DEF Checkpoints
  <2>4. \A q \in L : q.seq < rec.seq
    <3>1. ASSUME NEW q \in L PROVE q.seq < rec.seq
      <4>1. q.seq \in Int
        BY <2>1 DEF Records
      <4>2. q.seq <= ckpt.seq \/ q.seq <= seq - 1
        BY <1>0 DEF Surviving, Bounds, ArchivedCovered
      <4>3. QED  BY <1>1, <1>4, <2>3, <4>1, <4>2
    <3>2. QED  BY <3>1
  <2>5. Recovered(L \cup {rec}, ckpt) = Apply(Recovered(L, ckpt), rec.eff)
    BY <1>1, <1>4, <2>1, <2>3, <2>4, ReplayLast
  <2>6. Recovered(L, ckpt) = kv
    BY <1>1, <1>2, <1>4, <1>5
  <2>7. stateAt'[c] = Apply(kv, rec.eff)
    BY <1>0, <1>1, <1>7 DEF TypeOK
  <2>8. QED  BY ZenonT(30), <2>2, <2>5, <2>6, <2>7
<1>8. QED
  BY <1>1, <1>3, <1>6, <1>7, MaxSeqAssumption

\* A frame that could not be appended leaves the map as it was.
LEMMA AppendFailReplay ==
  ASSUME IInv, TypeOK', AppendFail
  PROVE  ReplayExact'
<1>0. Bounds /\ TypeOK /\ ReplayExact /\ StoreIsLogHead
  BY DEF IInv, Bounds
<1>1. /\ seq \in 1..MaxSeq
      /\ pc = "queued" /\ appended = seq - 1 /\ appended' = seq
      /\ UNCHANGED <<log, archives, ckpt, rewound, doubt, seq, synced>>
      /\ stateAt' = [stateAt EXCEPT ![seq] = kv]
  BY <1>0 DEF AppendFail, FlushError, Bounds, LogOrdered, appended, Records, disk
<1>2. ~doubt /\ kv = stateAt[seq - 1]
  BY <1>0, <1>1 DEF Bounds, DoubtLatched, StoreIsLogHead, up, InFlight
<1>3. SUFFICES ASSUME ~rewound, NEW c \in synced..seq
               PROVE  Recovered(Surviving(c)', ckpt) = stateAt'[c]
  BY ZenonT(30), <1>1 DEF ReplayExact
<1>4. synced \in 0..MaxSeq /\ synced <= seq - 1
  BY <1>0, <1>1 DEF Bounds, Watermarks, TypeOK
<1>5. \A d \in synced..(seq - 1) : Recovered(Surviving(d), ckpt) = stateAt[d]
  BY <1>0, <1>1, <1>2, <1>3 DEF ReplayExact
<1>6. Surviving(c)' = Surviving(c)
  BY ZenonT(30), <1>1 DEF Surviving, Archived
<1>7. CASE c < seq
  <2>1. c \in synced..(seq - 1) /\ stateAt'[c] = stateAt[c]
    BY <1>0, <1>1, <1>4, <1>7 DEF TypeOK
  <2>2. QED  BY <1>5, <1>6, <2>1
<1>8. CASE c = seq
  <2>1. \A r \in log : r.seq <= seq /\ r.seq <= seq - 1
    BY <1>0, <1>1 DEF Bounds, LogOrdered, TypeOK, Records
  <2>2. Surviving(c) = Surviving(seq - 1)
    BY <1>8, <2>1 DEF Surviving
  <2>3. stateAt'[c] = kv
    BY <1>0, <1>1, <1>8 DEF TypeOK
  <2>4. QED  BY <1>1, <1>2, <1>4, <1>5, <1>6, <2>2, <2>3
<1>9. QED  BY <1>1, <1>3, <1>7, <1>8, MaxSeqAssumption

\* Installing CURRENT makes the staged checkpoint the one replay starts from.
LEMMA InstallReplay ==
  ASSUME IInv, TypeOK', InstallCurrent
  PROVE  ReplayExact'
<1>1. /\ pc = "install" /\ ckpt' = staged
      /\ UNCHANGED <<log, archives, synced, seq, stateAt, doubt>>
      /\ synced = seq /\ appended' = seq /\ seq \in Int
  BY MaxSeqAssumption
     DEF IInv, InstallCurrent, CheckpointSteps, appended, TypeOK
<1>2. \A c : Surviving(c)' = Surviving(c)
  BY <1>1 DEF Surviving, Archived
<1>3. \A c \in synced'..appended' : c = seq
  BY <1>1
<1>4. \/ Recovered(Surviving(seq), staged) = stateAt[seq]
      \/ doubt /\ Recovered(Surviving(seq), staged) = stateAt[seq - 1]
  BY <1>1, StagedExact
<1>5. QED  BY <1>1, <1>2, <1>3, <1>4 DEF ReplayExact

\* What the end of a process leaves is exact at every sequence it keeps.
LEMMA DownReplay ==
  ASSUME IInv, TypeOK',
         NEW c \in synced..appended, NEW s \in synced..c, Down(c, s)
  PROVE  ReplayExact'
<1>1. /\ TypeOK /\ appended \in Int /\ synced \in Int /\ appended' = c
      /\ log' = {r \in log : r.seq <= c} /\ log \subseteq Records
      /\ ckpt' = Latest /\ synced' = s
      /\ UNCHANGED <<archives, seq, stateAt, doubt, rewound>>
  BY MaxSeqAssumption DEF IInv, TypeOK, Down, appended, hist
<1>2. SUFFICES ASSUME ~rewound, NEW d \in s..c
               PROVE  \/ Recovered(Surviving(d)', Latest) = stateAt[d]
                      \/ doubt /\ d = seq /\ Recovered(Surviving(d)', Latest) = stateAt[d - 1]
  BY <1>1 DEF ReplayExact
<1>3. d \in synced..appended /\ d <= c
  BY <1>1
<1>4. Surviving(d)' = Surviving(d)
  <2>1. \A r \in log : r.seq <= d => r.seq <= c
    BY <1>1, <1>3 DEF Records
  <2>2. QED  BY <1>1, <2>1 DEF Surviving, Archived
<1>5. QED  BY <1>2, <1>3, <1>4, CrashExact DEF AfterCrash

\* A restored backup is exact: its archive has no log.
LEMMA RestoreReplay ==
  ASSUME IInv, TypeOK', RestoreTenant
  PROVE  ReplayExact'
<1>1. PICK b \in backups :
        ckpt' = b /\ stateAt' = Upto(b.seq, b.img) /\ rewound' = (b.seq > 0)
  BY DEF RestoreTenant
<1>2. b \in Checkpoints /\ b.seq \in 0..MaxSeq
  BY ZenonT(30) DEF IInv, TypeOK, Checkpoints
<1>3. ~rewound' => b.seq = 0
  <2>1. ~rewound' => ~(b.seq > 0)
    BY <1>1, Zenon
  <2>2. QED  BY <1>2, <2>1
<1>4. log' = {} /\ archives' = {} /\ synced' = 0 /\ written' = 0 /\ pc' = "down"
  BY DEF RestoreTenant, up, proc
<1>5. appended' = 0
  BY <1>4 DEF appended
<1>6. Surviving(0)' = {}
  BY <1>4 DEF Surviving, Archived
<1>7. Recovered(Surviving(0)', b) = b.img
  BY <1>2, <1>6, ReplayNothing
<1>8. b.seq = 0 => stateAt'[0] = b.img
  BY <1>1, <1>2, MaxSeqAssumption DEF Upto
<1>9. SUFFICES ASSUME ~rewound', NEW c \in synced'..appended'
               PROVE  Recovered(Surviving(c)', ckpt') = stateAt'[c]
  BY DEF ReplayExact
<1>10. c = 0
  BY <1>4, <1>5
<1>11. QED  BY <1>1, <1>3, <1>7, <1>8, <1>9, <1>10

\* Recovery yields the exact map of the log's end, and keeps the earlier ones.
LEMMA OpenReplay ==
  ASSUME IInv, TypeOK', Open
  PROVE  ReplayExact'
<1>0. Bounds /\ TypeOK /\ ReplayExact
  BY DEF IInv, Bounds
<1>1. PICK m \in 0..MaxSeq :
        /\ \A r \in Surviving(written) : r.seq <= m
        /\ m = 0 \/ \E r \in Surviving(written) : r.seq = m
        /\ seq' = m
        /\ rewound' = (rewound \/ m < ckpt.seq)
        /\ synced' = Smaller(synced, m) /\ written' = m
        /\ kv' = Recovered(Surviving(written), ckpt)
        /\ stateAt' = Upto(m, kv')
  BY DEF Open
<1>2. /\ pc = "down" /\ pc' = "idle" /\ UNCHANGED <<log, archives, ckpt>>
      /\ appended = written /\ appended' = m
  BY <1>1 DEF Open, up, appended
<1>3. SUFFICES ASSUME ~rewound', NEW c \in synced'..m
               PROVE  Recovered(Surviving(c), ckpt) = stateAt'[c]
  <2>1. \A c : Surviving(c)' = Surviving(c)
    BY <1>2 DEF Surviving, Archived
  <2>2. QED  BY <1>2, <2>1 DEF ReplayExact
<1>4. ~rewound
  BY <1>1, <1>3, Zenon
<1>5. /\ synced \in 0..MaxSeq /\ written \in 0..MaxSeq /\ seq \in 0..MaxSeq
      /\ synced <= written /\ written <= seq /\ ckpt.seq <= synced /\ ckpt.seq \in Int
  BY <1>0, <1>2, <1>4
     DEF Bounds, Watermarks, CheckpointSynced, TypeOK, Checkpoints
<1>6. log \subseteq Records /\ Archived \subseteq Records
  BY <1>0 DEF TypeOK, Archived
<1>7. m <= written
  <2>1. ASSUME NEW r \in Surviving(written) PROVE r.seq <= written
    <3>1. r.seq \in Int
      BY <1>6 DEF Surviving, Records
    <3>2. r.seq <= ckpt.seq \/ r.seq <= written
      BY <1>0 DEF Surviving, Bounds, ArchivedCovered
    <3>3. QED  BY <1>5, <3>1, <3>2
  <2>2. QED  BY <1>1, <1>5, <2>1
<1>8. c \in 0..MaxSeq /\ c <= m
  <2>1. synced' \in 0..MaxSeq
    BY DEF TypeOK
  <2>2. m \in 0..MaxSeq /\ c \in synced'..m
    OBVIOUS
  <2>3. QED  BY <2>1, <2>2, MaxSeqAssumption
<1>9. CASE c = m
  <2>1. Surviving(c) = Surviving(written)
    <3>1. \A r \in log : r.seq <= m <=> r.seq <= written
      BY <1>1, <1>5, <1>6, <1>7 DEF Surviving, Records
    <3>2. QED  BY ZenonT(30), <1>9, <3>1 DEF Surviving
  <2>2. stateAt'[c] = kv'
    BY <1>1, <1>9 DEF Upto
  <2>3. QED  BY <1>1, <2>1, <2>2
<1>10. CASE c < m
  <2>1. c \in synced..appended /\ c < seq
    BY <1>1, <1>2, <1>3, <1>5, <1>7, <1>8, <1>10 DEF Smaller
  <2>2. stateAt'[c] = stateAt[c]
    BY <1>1, <1>8, <1>10 DEF Upto
  <2>3. c # seq
    BY <2>1, <1>5, <1>8
  <2>4. QED  BY <1>0, <1>4, <2>1, <2>2, <2>3 DEF ReplayExact
<1>11. QED  BY <1>8, <1>9, <1>10

\* Each step keeps replay exact.
LEMMA ReplayStep ==
  ASSUME IInv, Next, TypeOK', Bounds'
  PROVE  ReplayExact'
<1>0. TypeOK /\ Bounds /\ appended \in Int
  BY MaxSeqAssumption DEF IInv, Bounds, TypeOK, appended
<1>1. CASE Append \/ AppendFail \/ InstallCurrent \/ RestoreTenant \/ Open
  BY <1>1, AppendReplay, AppendFailReplay, InstallReplay, RestoreReplay, OpenReplay
<1>2. CASE Close \/ ProcessCrash \/ PowerLoss
  BY <1>2, CutBounds, DownReplay
<1>3. CASE Rotate \/ RotateFail \/ CompactThrough
  <2>1. /\ pc \in {"rotate", "compact"} /\ pc' \in {"idle", "compact"}
        /\ UNCHANGED <<ckpt, stateAt, rewound, doubt, seq, synced>>
    BY <1>0, <1>3 DEF Rotate, RotateFail, CompactThrough, Return, hist, Bounds, CheckpointSteps
  <2>2. QED  BY ZenonT(30), <2>1, CoveredStep
<1> DEFINE Quiet == /\ UNCHANGED <<log, archives, ckpt, stateAt, rewound>>
                    /\ synced <= synced' /\ appended' = appended
                    /\ (doubt => doubt' /\ seq' = seq)
<1>4. ASSUME NEW eff \in prepareDurableEffects(kv), Execute(eff)
      PROVE  Quiet
  BY <1>0, <1>4, MaxSeqAssumption
     DEF Execute, disk, hist, appended, TypeOK, Bounds, DoubtLatched, up
<1>5. CASE Flush \/ FsyncAck \/ SyncFail \/ SyncTick \/ SyncTickFail \/ Dispatch
  <2>1. Quiet
    BY <1>0, <1>5, MaxSeqAssumption
       DEF Flush, FsyncAck, SyncFail, SyncTick, SyncTickFail, SyncError, FlushError, Dispatch,
           disk, proc, hist, appended, TypeOK, Bounds, Watermarks
  <2>2. QED  BY <2>1, QuietStep
<1>6. ASSUME NEW why \in Whys, CheckpointSync(why) \/ CheckpointSyncFail(why)
      PROVE  Quiet
  BY <1>0, <1>6, MaxSeqAssumption
     DEF CheckpointSync, CheckpointSyncFail, SyncError, FlushError, hist, appended, TypeOK,
         Bounds, Watermarks
<1>7. CASE SaveCheckpoint \/ SaveFail \/ CreateBackupArchive
  <2>1. Quiet
    BY <1>0, <1>7, MaxSeqAssumption
       DEF SaveCheckpoint, SaveFail, CreateBackupArchive, Return, hist, appended, TypeOK
  <2>2. QED  BY <2>1, QuietStep
<1>8. QED
  BY <1>1, <1>2, <1>3, <1>4, <1>5, <1>6, <1>7, QuietStep DEF Next

-----------------------------------------------------------------------------
(* The theorems.                                                           *)

\* A fresh data directory satisfies the inductive invariant.
LEMMA InitInv == Init => IInv
<1> SUFFICES ASSUME Init PROVE IInv
  OBVIOUS
<1>1. TypeOK
  <2>1. stateAt \in [0..MaxSeq -> Maps]
    BY ConstantTypes DEF Init
  <2>2. /\ log \subseteq Records /\ backups \subseteq Checkpoints
        /\ archives \subseteq [name : 0..MaxSeq, recs : SUBSET Records]
    BY DEF Init
  <2>3. /\ synced \in 0..MaxSeq /\ written \in 0..MaxSeq /\ seq \in 0..MaxSeq
        /\ acked \in 0..MaxSeq
    BY MaxSeqAssumption DEF Init
  <2>4. /\ ckpt \in Checkpoints /\ staged \in Checkpoints /\ kv \in Maps
        /\ rec \in [seq : 0..MaxSeq, eff : Effects]
        /\ pc = "idle" /\ kind = "none"
    BY ConstantTypes DEF Init
  <2>5. /\ hasCurrent \in BOOLEAN /\ failed \in BOOLEAN /\ broken \in BOOLEAN
        /\ doubt \in BOOLEAN /\ rewound \in BOOLEAN
    BY Zenon DEF Init
  <2>6. QED  BY <2>1, <2>2, <2>3, <2>4, <2>5 DEF TypeOK
<1>2. Bounds
  BY MaxSeqAssumption
     DEF Init, NoCheckpoint, Bounds, Watermarks, LogOrdered, ArchivedCovered, Archived,
         CheckpointSteps, CheckpointSynced, DoubtLatched, AckedSynced, appended
<1>3. StoreIsLogHead /\ LoggedApplied
  BY MaxSeqAssumption DEF Init, StoreIsLogHead, LoggedApplied, InFlight
<1>4. ReplayExact
  <2>1. Surviving(0) = {} /\ ckpt \in Checkpoints /\ ckpt.img = Empty
    BY ConstantTypes DEF Init, Surviving, Archived, NoCheckpoint
  <2>2. Recovered(Surviving(0), ckpt) = Empty
    BY <2>1, ReplayNothing
  <2>3. \A c \in synced..appended : c = 0
    BY DEF Init, appended
  <2>4. stateAt[0] = Empty
    BY MaxSeqAssumption DEF Init
  <2>5. QED  BY ZenonT(30), <2>2, <2>3, <2>4 DEF ReplayExact
<1>5. QED  BY <1>1, <1>2, <1>3, <1>4 DEF IInv, Bounds

\* Every step, crashes and errors included, preserves the inductive invariant.
LEMMA StepInv == IInv /\ [Next]_vars => IInv'
<1> SUFFICES ASSUME IInv, [Next]_vars PROVE IInv'
  OBVIOUS
<1>1. CASE Next
  <2>1. TypeOK'
    BY <1>1, TypeStep
  <2>2. Bounds'
    BY <1>1, <2>1, BoundsStep
  <2>3. StoreIsLogHead' /\ LoggedApplied'
    BY <1>1, <2>1, StoreStep
  <2>4. ReplayExact'
    BY ZenonT(30), <1>1, <2>1, <2>2, ReplayStep
  <2>5. QED  BY <2>1, <2>2, <2>3, <2>4 DEF IInv, Bounds
<1>2. CASE UNCHANGED vars
  BY <1>2
     DEF vars, disk, proc, hist, IInv, TypeOK, Watermarks, LogOrdered, ArchivedCovered,
         Archived, CheckpointSteps, CheckpointSynced, DoubtLatched, AckedSynced,
         StoreIsLogHead, LoggedApplied, ReplayExact, Surviving, appended, up, InFlight
<1>3. QED  BY <1>1, <1>2

\* The inductive invariant holds in every reachable state.
THEOREM Invariance == Spec => []IInv
<1>1. Init => IInv
  BY InitInv
<1>2. IInv /\ [Next]_vars => IInv'
  BY StepInv
<1>3. QED  BY <1>1, <1>2, PTL DEF Spec

\* Type correctness of the write path's state, for every set of keys and
\* values and every length of the log.
THEOREM TypeCorrect == Spec => []TypeOK
<1>1. IInv => TypeOK
  BY DEF IInv
<1>2. QED  BY <1>1, Invariance, PTL

\* Recovery rebuilds the map after a prefix of the logged transactions, at
\* whatever step the process dies or the power fails.
THEOREM RecoveryCorrect == Spec => []RecoveryIsPrefix
<1>1. IInv => RecoveryIsPrefix
  <2> SUFFICES ASSUME IInv, ~rewound, NEW c \in synced..written
               PROVE  \/ AfterCrash(c) = stateAt[c]
                      \/ doubt /\ c = seq /\ AfterCrash(c) = stateAt[c - 1]
    BY DEF RecoveryIsPrefix
  <2>1. c \in synced..appended
    BY MaxSeqAssumption DEF IInv, TypeOK, Watermarks, appended
  <2>2. QED  BY <2>1, CrashExact
<1>2. QED  BY <1>1, Invariance, PTL

\* sync=always: no crash and no power loss takes an acknowledged transaction.
THEOREM AcknowledgedIsDurable == Spec => []AckedSurvives
<1>1. IInv => AckedSurvives
  <2> SUFFICES ASSUME IInv, SyncMode = "always", ~rewound, NEW c \in synced..written
               PROVE  \E s \in acked..MaxSeq : s <= seq /\ AfterCrash(c) = stateAt[s]
    BY DEF AckedSurvives, CrashKeepsAcked
  <2>1. /\ synced \in 0..MaxSeq /\ written \in 0..MaxSeq /\ seq \in 0..MaxSeq
        /\ acked \in 0..MaxSeq /\ acked <= synced /\ written <= seq
    BY MaxSeqAssumption DEF IInv, TypeOK, AckedSynced, Watermarks, appended
  <2>2. c \in synced..appended
    BY MaxSeqAssumption DEF IInv, TypeOK, Watermarks, appended
  <2>3. CASE AfterCrash(c) = stateAt[c]
    BY <2>1, <2>3, MaxSeqAssumption
  <2>4. CASE doubt /\ c = seq /\ AfterCrash(c) = stateAt[c - 1]
    <3>1. acked < seq
      BY <2>4 DEF IInv, DoubtLatched
    <3>2. seq - 1 \in acked..MaxSeq /\ seq - 1 <= seq
      BY <2>1, <3>1, MaxSeqAssumption
    <3>3. QED  BY <2>4, <3>2
  <2>5. QED  BY <2>2, <2>3, <2>4, CrashExact
<1>2. QED  BY <1>1, Invariance, PTL

\* What a client reads is the map of the last logged transaction.
THEOREM StoreCorrect == Spec => []StoreIsLogHead
<1>1. IInv => StoreIsLogHead
  BY DEF IInv
<1>2. QED  BY <1>1, Invariance, PTL

\* Rotation and compaction drop only frames covered by the installed
\* checkpoint.
THEOREM RemovalCorrect == Spec => OnlyCoveredRemoved
<1> DEFINE Kept == up /\ pc' # "down" =>
                     \A r \in Archived \cup log :
                       r \in Archived' \cup log' \/ r.seq <= ckpt.seq
<1>1. IInv /\ [Next]_vars => [Kept]_vars
  <2> SUFFICES ASSUME IInv, Next, up, pc' # "down", NEW r \in Archived \cup log
               PROVE  r \in Archived' \cup log' \/ r.seq <= ckpt.seq
    BY DEF vars
  <2>1. CASE r \in Archived
    BY <2>1 DEF IInv, ArchivedCovered
  <2>2. CASE r \in log
    <3>1. log \subseteq log' \/ log \subseteq Archived'
      <4>1. ASSUME ArchiveLog PROVE log \subseteq Archived'
        <5>1. [name |-> seq, recs |-> log] \in archives'
          BY <4>1 DEF ArchiveLog
        <5>2. QED  BY <5>1 DEF Archived
      <4>2. QED
        BY ZenonT(30), <4>1
           DEF Next, Execute, Append, AppendFail, Flush, FsyncAck, SyncFail, SyncTick,
               SyncTickFail, Dispatch, CheckpointSync, CheckpointSyncFail,
               SaveCheckpoint, InstallCurrent, SaveFail, CreateBackupArchive,
               Rotate, RotateFail, CompactThrough, Close, ProcessCrash, PowerLoss,
               Down, RestoreTenant, Open, up, disk
    <3>2. QED  BY <2>2, <3>1
  <2>3. QED  BY <2>1, <2>2
<1>2. QED  BY <1>1, Invariance, PTL DEF Spec, OnlyCoveredRemoved

-----------------------------------------------------------------------------
(* With sync=always, Durability implements DurableMap.                      *)

\* Beside the inductive invariant: an acknowledged transaction is the last one,
\* and a backup copies the map of the store.
MapInv ==
  /\ pc = "acked" => acked = seq
  /\ pc = "copy" => ckpt.img = kv

\* Each step preserves it.
LEMMA MapStep == IInv /\ MapInv /\ [Next]_vars => MapInv'
<1> SUFFICES ASSUME IInv, MapInv, [Next]_vars PROVE MapInv'
  OBVIOUS
<1>1. TypeOK /\ CheckpointSteps
  BY DEF IInv
<1>2. CASE UNCHANGED vars
  BY <1>2 DEF MapInv, vars, disk, proc, hist
<1>3. ASSUME NEW eff \in prepareDurableEffects(kv), Execute(eff)
      PROVE  MapInv'
  BY ZenonT(30), <1>3 DEF MapInv, Execute
<1>4. CASE Append \/ AppendFail \/ Flush \/ FsyncAck \/ SyncFail \/ Dispatch
  BY <1>4 DEF MapInv, Append, AppendFail, Flush, FsyncAck, SyncFail, Dispatch
<1>5. CASE SyncTick \/ SyncTickFail
  BY <1>5 DEF MapInv, SyncTick, SyncTickFail, proc, hist
<1>6. ASSUME NEW why \in Whys, CheckpointSync(why) \/ CheckpointSyncFail(why)
      PROVE  MapInv'
  BY ZenonT(30), <1>6 DEF MapInv, CheckpointSync, CheckpointSyncFail
<1>7. CASE InstallCurrent
  BY <1>1, <1>7 DEF MapInv, InstallCurrent, CheckpointSteps
<1>8. CASE SaveCheckpoint \/ SaveFail \/ CreateBackupArchive \/ Rotate \/ RotateFail \/ CompactThrough
  BY <1>8 DEF MapInv, SaveCheckpoint, SaveFail, CreateBackupArchive, Rotate, RotateFail,
              CompactThrough, Return
<1>9. CASE Close \/ ProcessCrash \/ PowerLoss \/ RestoreTenant \/ Open
  BY ZenonT(30), <1>9 DEF MapInv, Close, ProcessCrash, PowerLoss, Down, RestoreTenant, up, proc, Open
<1>10. QED
  BY <1>2, <1>3, <1>4, <1>5, <1>6, <1>7, <1>8, <1>9 DEF Next

-----------------------------------------------------------------------------
(* The maps a crash may leave.                                             *)

\* What replay yields for each cut of a log that does not change.
LEMMA SameCuts ==
  ASSUME UNCHANGED <<log, archives, ckpt>>
  PROVE  \A c : Recovered(Surviving(c), ckpt)' = Recovered(Surviving(c), ckpt)
BY DEF Surviving, Archived, Recovered

\* Steps that keep the log, the checkpoint and the store only settle.
LEMMA SettleStep ==
  ASSUME UNCHANGED <<log, archives, ckpt, kv, rewound>>, up, up',
         synced'..Ended' \subseteq synced..Ended
  PROVE  Unsettled' \subseteq Unsettled
<1>1. ClientMap = kv /\ ClientMap' = kv
  BY DEF ClientMap
<1>2. ASSUME NEW c \in synced'..Ended'
      PROVE  c \in synced..Ended /\ Recovered(Surviving(c), ckpt)' = Recovered(Surviving(c), ckpt)
  BY SameCuts
<1>3. QED  BY <1>1, <1>2 DEF Unsettled

\* Such steps leave it at that when they end no transaction and sync nothing.
LEMMA StillStep ==
  ASSUME UNCHANGED <<log, archives, ckpt, kv, rewound, synced>>, up, up', Ended' = Ended
  PROVE  Unsettled' = Unsettled
<1>1. ClientMap = kv /\ ClientMap' = kv
  BY DEF ClientMap
<1>2. \A c : Recovered(Surviving(c), ckpt)' = Recovered(Surviving(c), ckpt)
  BY SameCuts
<1>3. {Recovered(Surviving(c), ckpt) : c \in synced..Ended}' = {Recovered(Surviving(c), ckpt) : c \in synced..Ended}
  BY <1>2
<1>4. QED  BY ZenonT(30), <1>1, <1>3 DEF Unsettled

\* When the checkpoint covers all of the log, replay yields its image.
LEMMA CoveredCuts ==
  ASSUME IInv, ckpt.seq = seq, pc # "down"
  PROVE  \A c : Recovered(Surviving(c), ckpt) = ckpt.img
<1>1. TypeOK /\ LogOrdered /\ ArchivedCovered /\ Watermarks
  BY DEF IInv
<1>2. ckpt \in Checkpoints /\ log \subseteq Records /\ seq \in Int /\ appended \in Int
  BY <1>1, MaxSeqAssumption DEF TypeOK, appended
<1>3. ASSUME NEW c PROVE Recovered(Surviving(c), ckpt) = ckpt.img
  <2>1. Surviving(c) \in SUBSET Records
    BY <1>1 DEF Surviving, Archived, TypeOK
  <2>2. ASSUME NEW r \in Surviving(c) PROVE r.seq <= seq
    BY <1>1, <1>2, <2>1 DEF Surviving, ArchivedCovered, LogOrdered, Watermarks, Records
  <2>3. QED  BY <1>2, <2>1, <2>2, ReplayNothing
<1>4. QED  BY <1>3

\* A cut in the middle of the log leaves a map that is seen, submitted or
\* unsettled.
LEMMA CutMap ==
  ASSUME IInv, up, ~rewound, NEW c \in synced..appended
  PROVE  AfterCrash(c) \in {ClientMap} \cup Submitted \cup Unsettled
<1>1. /\ TypeOK /\ Watermarks /\ LogOrdered /\ ArchivedCovered /\ CheckpointSteps
      /\ DoubtLatched /\ LoggedApplied /\ ReplayExact
  BY DEF IInv
<1>2. /\ synced \in Int /\ appended \in Int /\ seq \in Int
      /\ appended <= seq /\ c \in Int
  BY <1>1, MaxSeqAssumption DEF TypeOK, appended, Watermarks
<1>3. CASE Latest # ckpt
  <2>1. pc = "install" /\ Latest = staged /\ staged = [seq |-> seq, img |-> kv] /\ staged \in Checkpoints
    BY <1>1, <1>3 DEF Latest, CheckpointSteps, TypeOK
  <2>2. Surviving(c) \in SUBSET Records
    BY <1>1 DEF Surviving, Archived, TypeOK
  <2>3. \A r \in Surviving(c) : r.seq <= seq
    BY <1>1, <2>1 DEF Surviving, ArchivedCovered, LogOrdered, appended
  <2>4. Recovered(Surviving(c), staged) = kv
    BY <2>1, <2>2, <2>3, ReplayNothing
  <2>5. QED  BY ZenonT(30), <2>1, <2>4 DEF AfterCrash, ClientMap
<1>4. CASE Latest = ckpt /\ c <= Ended
  <2>1. Ended \in Int /\ c \in synced..Ended
    BY <1>2, <1>4 DEF Ended
  <2>2. Recovered(Surviving(c), ckpt) \in {Recovered(Surviving(d), ckpt) : d \in synced..Ended}
    BY <2>1
  <2>3. QED  BY <1>4, <2>2 DEF AfterCrash, Unsettled
<1>5. CASE Latest = ckpt /\ ~(c <= Ended)
  <2>1. InFlight /\ c = seq /\ pc # "queued"
    BY <1>2, <1>5 DEF Ended, appended
  <2>2. ~doubt
    BY <1>1, <2>1 DEF DoubtLatched
  <2>3. Recovered(Surviving(seq), ckpt) = stateAt[seq]
    BY <1>1, <2>1, <2>2 DEF ReplayExact
  <2>4. stateAt[seq] = Apply(kv, rec.eff)
    BY ZenonT(30), <1>1, <2>1 DEF LoggedApplied, InFlight
  <2>5. QED  BY <1>5, <2>1, <2>3, <2>4 DEF AfterCrash, Submitted
<1>6. QED  BY <1>3, <1>4, <1>5

-----------------------------------------------------------------------------
(* A transaction.                                                          *)

\* Taking a sequence number submits the transaction.
LEMMA ExecuteMaps ==
  ASSUME IInv, NEW eff \in prepareDurableEffects(kv), Execute(eff)
  PROVE  DM!Submit
<1>1. TypeOK /\ seq \in Int
  BY MaxSeqAssumption DEF IInv, TypeOK
<1>2. /\ pc = "idle" /\ pc' = "queued" /\ seq' = seq + 1 /\ rec'.eff = eff
      /\ UNCHANGED <<log, archives, ckpt, kv, rewound, synced, backups>>
  BY ZenonT(30) DEF Execute, disk, hist
<1>3. eff \in Effects /\ Apply(kv, eff) \in Maps
  BY <1>1, PreparedType, ApplyType DEF TypeOK
<1>4. up /\ up' /\ Submitted = {} /\ Submitted' = {Apply(kv, eff)} /\ Ended' = Ended
  BY <1>1, <1>2 DEF up, Submitted, InFlight, Ended, appended, Apply
<1>5. Unsettled' = Unsettled /\ ClientMap' = ClientMap
  BY <1>2, <1>4, StillStep DEF ClientMap
<1>6. \E m \in Maps : Submitted' = {m}
  BY ZenonT(30), <1>3, <1>4
<1>7. {b.img : b \in backups}' = {b.img : b \in backups}
  BY <1>2
<1>8. up' = up
  BY <1>2 DEF up
<1>9. QED  BY ZenonT(30), <1>2, <1>4, <1>5, <1>6, <1>7, <1>8 DEF DM!Submit

\* Appending the frame of a transaction changes nothing for clients.
LEMMA AppendMaps ==
  ASSUME IInv, Append
  PROVE  UNCHANGED DM!vars
<1>1. TypeOK /\ LogOrdered
  BY ZenonT(30) DEF IInv
<1>2. /\ pc = "queued" /\ pc' \in {"appended", "acked"} /\ log' = log \cup {rec}
      /\ UNCHANGED <<archives, ckpt, kv, rewound, synced, backups, seq, rec>>
      /\ rec \in Records /\ rec.seq = seq /\ seq \in Int
  BY <1>1, MaxSeqAssumption DEF Append, LogOrdered, TypeOK
<1>3. up' = up /\ Submitted' = Submitted /\ Ended = seq - 1 /\ Ended' = seq - 1 /\ ClientMap' = ClientMap
  BY ZenonT(30), <1>2 DEF up, Submitted, InFlight, Ended, Apply, ClientMap
<1>4. ASSUME NEW c \in synced..(seq - 1)
      PROVE  Recovered(Surviving(c)', ckpt') = Recovered(Surviving(c), ckpt)
  <2>1. ~(rec.seq <= c)
    BY <1>2
  <2>2. Surviving(c)' = Surviving(c)
    BY ZenonT(30), <1>2, <2>1 DEF Surviving, Archived
  <2>3. QED  BY <1>2, <2>2
<1>5. Unsettled' = Unsettled
  BY <1>2, <1>3, <1>4 DEF Unsettled
<1>6. {b.img : b \in backups}' = {b.img : b \in backups}
  BY ZenonT(30), <1>2
<1>7. QED  BY ZenonT(30), <1>2, <1>3, <1>5, <1>6 DEF DM!vars

\* A transaction whose frame could not be appended is refused.
LEMMA AppendFailMaps ==
  ASSUME IInv, AppendFail
  PROVE  DM!Refuse
<1>1. TypeOK /\ LogOrdered /\ Watermarks
  BY DEF IInv
<1>2. /\ pc = "queued" /\ pc' = "idle"
      /\ UNCHANGED <<log, archives, ckpt, kv, rewound, synced, backups, seq>>
      /\ synced \in Int /\ seq \in Int /\ synced <= seq - 1
  BY <1>1, MaxSeqAssumption DEF AppendFail, TypeOK, Watermarks, appended
<1>3. up /\ up' = up /\ Submitted' = {} /\ Ended = seq - 1 /\ Ended' = seq /\ ClientMap' = ClientMap
  BY <1>2 DEF up, Submitted, InFlight, Ended, ClientMap, appended
<1>4. Surviving(seq) = Surviving(seq - 1)
  <2>1. \A r \in log : r.seq <= seq - 1 /\ r.seq <= seq
    BY <1>1, <1>2 DEF LogOrdered, appended, TypeOK, Records
  <2>2. QED  BY <2>1 DEF Surviving
<1>5. \A c \in synced..seq : \E d \in synced..(seq - 1) :
        Recovered(Surviving(c)', ckpt') = Recovered(Surviving(d), ckpt)
  <2>1. ASSUME NEW c \in synced..seq
        PROVE  \E d \in synced..(seq - 1) :
                 Recovered(Surviving(c)', ckpt') = Recovered(Surviving(d), ckpt)
    <3>1. Recovered(Surviving(c)', ckpt') = Recovered(Surviving(c), ckpt)
      BY <1>2, SameCuts
    <3>2. CASE c = seq
      <4>1. seq - 1 \in synced..(seq - 1)
        BY <1>2
      <4>2. QED  BY <1>4, <3>1, <3>2, <4>1
    <3>3. CASE c # seq
      <4>1. c \in synced..(seq - 1)
        BY <1>2, <3>3
      <4>2. QED  BY <3>1, <4>1
    <3>4. QED  BY <3>2, <3>3
  <2>2. QED  BY <2>1
<1>6. Unsettled' \subseteq Unsettled
  BY <1>2, <1>3, <1>5 DEF Unsettled
<1>7. {b.img : b \in backups}' = {b.img : b \in backups}
  BY ZenonT(30), <1>2
<1>8. QED  BY ZenonT(30), <1>2, <1>3, <1>6, <1>7 DEF DM!Refuse

\* An fsync settles what is in the log.
LEMMA SyncMaps ==
  ASSUME IInv,
         FsyncAck \/ (\E why \in Whys : CheckpointSync(why)),
         UNCHANGED <<log, archives, ckpt, kv, rewound, backups, seq, rec>>
  PROVE  DM!Settle
<1>1. TypeOK /\ Watermarks
  BY DEF IInv
<1>2. /\ synced' = seq /\ synced \in Int /\ seq \in Int /\ synced <= seq
      /\ \/ pc = "flushed" /\ pc' = "acked"
         \/ pc = "idle" /\ pc' = "save"
  BY <1>1, MaxSeqAssumption DEF FsyncAck, CheckpointSync, TypeOK, Watermarks, appended
<1>3. /\ up /\ up' /\ up' = up /\ Submitted' = Submitted /\ ClientMap' = ClientMap
      /\ Ended' = Ended /\ Ended \in Int /\ Ended <= seq
  BY <1>2 DEF up, Submitted, InFlight, Ended, Apply, ClientMap, appended
<1>4. synced'..Ended' \subseteq synced..Ended
  BY <1>2, <1>3
<1>5. Unsettled' \subseteq Unsettled
  BY ZenonT(30), <1>3, <1>4, SettleStep
<1>6. {b.img : b \in backups}' = {b.img : b \in backups}
  OBVIOUS
<1>7. QED  BY <1>3, <1>5, <1>6 DEF DM!Settle

\* A transaction whose fsync failed is refused; its frame may survive.
LEMMA SyncFailMaps ==
  ASSUME IInv, SyncFail
  PROVE  DM!Refuse
<1>1. TypeOK /\ DoubtLatched /\ LoggedApplied /\ ReplayExact /\ Watermarks
  BY DEF IInv
<1>2. /\ pc \in {"appended", "flushed"} /\ pc' = "idle"
      /\ UNCHANGED <<log, archives, ckpt, kv, rewound, synced, backups, seq>>
      /\ synced \in Int /\ seq \in Int /\ synced <= seq
  BY <1>1, MaxSeqAssumption DEF SyncFail, TypeOK, Watermarks, appended, disk
<1>3. /\ up /\ up' = up /\ Submitted = {Apply(kv, rec.eff)} /\ Submitted' = {}
      /\ Ended = seq - 1 /\ Ended' = seq /\ appended = seq /\ ClientMap' = ClientMap
  BY <1>2 DEF up, Submitted, InFlight, Ended, ClientMap, appended
<1>4. ASSUME ~rewound PROVE Recovered(Surviving(seq), ckpt) \in Submitted
  <2>1. ~doubt /\ seq \in synced..appended
    BY <1>1, <1>2, <1>3 DEF DoubtLatched, InFlight
  <2>2. Recovered(Surviving(seq), ckpt) = stateAt[seq]
    BY <1>1, <1>4, <2>1 DEF ReplayExact
  <2>3. QED  BY <1>1, <1>2, <1>3, <2>2 DEF LoggedApplied
<1>5. ASSUME ~rewound, NEW c \in synced..seq
      PROVE  Recovered(Surviving(c)', ckpt') \in
               {Recovered(Surviving(d), ckpt) : d \in synced..(seq - 1)} \cup Submitted
  <2>1. Recovered(Surviving(c)', ckpt') = Recovered(Surviving(c), ckpt)
    BY <1>2, SameCuts
  <2>2. c = seq \/ c \in synced..(seq - 1)
    BY <1>2
  <2>3. QED  BY <1>4, <1>5, <2>1, <2>2
<1>6. Unsettled' \subseteq Unsettled \cup Submitted
  BY <1>2, <1>3, <1>5 DEF Unsettled
<1>7. {b.img : b \in backups}' = {b.img : b \in backups}
  BY ZenonT(30), <1>2
<1>8. QED  BY <1>2, <1>3, <1>6, <1>7 DEF DM!Refuse

\* Dispatch commits: what it applies is fsynced, and nothing else is left.
LEMMA DispatchMaps ==
  ASSUME IInv, MapInv, SyncMode = "always", Dispatch
  PROVE  DM!Commit
<1>1. TypeOK /\ DoubtLatched /\ LoggedApplied /\ ReplayExact /\ Watermarks /\ AckedSynced
  BY DEF IInv
<1>2. /\ pc = "acked" /\ pc' = "idle" /\ kv' = Apply(kv, rec.eff)
      /\ UNCHANGED <<log, archives, ckpt, rewound, synced, backups, seq>>
  BY DEF Dispatch, disk, hist
<1>3. /\ synced \in Int /\ seq \in Int /\ synced = seq /\ appended = seq
  BY <1>1, <1>2, MaxSeqAssumption
     DEF MapInv, AckedSynced, Watermarks, appended, TypeOK
<1>4. /\ up /\ up' = up /\ Submitted = {Apply(kv, rec.eff)} /\ Submitted' = {}
      /\ Ended' = seq /\ ClientMap' = kv'
  BY <1>2 DEF up, Submitted, InFlight, Ended, ClientMap, appended
<1>5. ASSUME ~rewound PROVE Recovered(Surviving(seq)', ckpt') = kv'
  <2>1. ~doubt /\ seq \in synced..appended
    BY <1>1, <1>2, <1>3 DEF DoubtLatched, InFlight, up
  <2>2. Recovered(Surviving(seq), ckpt) = stateAt[seq]
    BY ZenonT(30), <1>1, <1>5, <2>1 DEF ReplayExact
  <2>3. Recovered(Surviving(seq)', ckpt') = Recovered(Surviving(seq), ckpt)
    BY <1>2, SameCuts DEF Surviving, Archived
  <2>4. QED  BY <1>1, <1>2, <2>2, <2>3 DEF LoggedApplied
<1>6. \A c \in synced'..Ended' : c = seq
  BY <1>2, <1>3, <1>4
<1>7. ASSUME NEW c \in synced'..Ended', ~rewound
      PROVE  Recovered(Surviving(c)', ckpt') = kv'
  <2>1. c = seq
    BY <1>6
  <2>2. Surviving(c)' = Surviving(seq)'
    BY ZenonT(30), <1>2, <2>1 DEF Surviving
  <2>3. QED  BY <1>5, <1>7, <2>2
<1>8. Unsettled' = {}
  BY ZenonT(30), <1>2, <1>4, <1>7 DEF Unsettled
<1>9. {b.img : b \in backups}' = {b.img : b \in backups}
  BY <1>2
<1>10. QED  BY <1>2, <1>4, <1>8, <1>9 DEF DM!Commit

-----------------------------------------------------------------------------
(* A checkpoint.                                                           *)

\* Flushing, and the steps of a checkpoint that move no file of recovery.
LEMMA QuietMaps ==
  ASSUME IInv, Flush \/ SaveCheckpoint \/ SaveFail
               \/ (\E why \in Whys : CheckpointSyncFail(why))
  PROVE  UNCHANGED DM!vars
<1>1. /\ UNCHANGED <<log, archives, ckpt, kv, rewound, synced, backups, seq, rec>>
      /\ \/ pc = "appended" /\ pc' = "flushed"
         \/ pc \in {"save", "install", "idle"} /\ pc' \in {"save", "install", "idle"}
  BY DEF Flush, SaveCheckpoint, SaveFail, CheckpointSyncFail, Return, hist
<1>2. up /\ up' /\ up' = up /\ Submitted' = Submitted /\ Ended' = Ended /\ ClientMap' = ClientMap
  BY <1>1 DEF up, Submitted, InFlight, Ended, Apply, ClientMap, appended
<1>3. Unsettled' = Unsettled
  BY ZenonT(30), <1>1, <1>2, StillStep
<1>4. {b.img : b \in backups}' = {b.img : b \in backups}
  BY <1>1
<1>5. QED  BY ZenonT(30), <1>1, <1>2, <1>3, <1>4 DEF DM!vars

\* The installed checkpoint is the store: nothing is left unsettled.
LEMMA InstallMaps ==
  ASSUME IInv, IInv', InstallCurrent
  PROVE  DM!Settle
<1>1. /\ pc = "install" /\ pc' \in {"copy", "rotate"} /\ ckpt' = [seq |-> seq, img |-> kv]
      /\ UNCHANGED <<log, archives, kv, synced, backups, seq, rec>> /\ rewound' = FALSE
  BY ZenonT(30) DEF IInv, CheckpointSteps, InstallCurrent
<1>2. /\ up /\ up' = up /\ Submitted' = Submitted /\ ClientMap = kv /\ ClientMap' = kv
  BY <1>1 DEF up, Submitted, InFlight, ClientMap
<1>3. \A c : Recovered(Surviving(c)', ckpt') = kv
  <2>1. ckpt' \in Checkpoints /\ log' \subseteq Records /\ Archived' \subseteq Records
    BY DEF IInv, TypeOK, Archived
  <2>2. \A r \in Archived' \cup log' : r.seq <= seq
    BY <1>1 DEF IInv, ArchivedCovered, LogOrdered, appended
  <2>3. ASSUME NEW c PROVE Recovered(Surviving(c)', ckpt') = kv
    <3>1. Surviving(c)' \in SUBSET Records /\ \A r \in Surviving(c)' : r.seq <= ckpt'.seq
      BY ZenonT(30), <1>1, <2>1, <2>2 DEF Surviving
    <3>2. QED  BY ZenonT(30), <1>1, <2>1, <3>1, ReplayNothing
  <2>4. QED  BY ZenonT(30), <2>3
<1>4. Unsettled' = {}
  BY <1>2, <1>3 DEF Unsettled
<1>5. {b.img : b \in backups}' = {b.img : b \in backups}
  BY ZenonT(30), <1>1
<1>6. QED  BY ZenonT(30), <1>1, <1>2, <1>4, <1>5 DEF DM!Settle

\* A backup holds the map of the store, or was not written.
LEMMA BackupMaps ==
  ASSUME IInv, MapInv, CreateBackupArchive
  PROVE  DM!Backup \/ UNCHANGED DM!vars
<1>1. /\ UNCHANGED <<log, archives, ckpt, kv, rewound, synced, seq, rec>>
      /\ pc = "copy" /\ pc' = "idle" /\ ckpt.img = kv
      /\ backups' = {ckpt} \/ UNCHANGED backups
  BY DEF CreateBackupArchive, Return, hist, MapInv
<1>2. up /\ up' /\ up' = up /\ Submitted' = Submitted /\ Ended' = Ended /\ ClientMap' = ClientMap /\ ClientMap = kv
  BY <1>1 DEF up, Submitted, InFlight, Ended, ClientMap, appended
<1>3. Unsettled' = Unsettled
  BY ZenonT(30), <1>1, <1>2, StillStep
<1>4. CASE backups' = {ckpt}
  <2>1. {b.img : b \in backups}' = {kv}
    BY ZenonT(30), <1>1, <1>4
  <2>2. QED  BY ZenonT(30), <1>1, <1>2, <1>3, <2>1 DEF DM!Backup
<1>5. CASE UNCHANGED backups
  <2>1. {b.img : b \in backups}' = {b.img : b \in backups}
    BY ZenonT(30), <1>5
  <2>2. QED  BY <1>1, <1>2, <1>3, <2>1 DEF DM!vars
<1>6. QED  BY ZenonT(30), <1>1, <1>4, <1>5

\* Rotation and compaction move only what the checkpoint covers.
LEMMA RotateMaps ==
  ASSUME IInv, IInv', Rotate \/ RotateFail \/ CompactThrough
  PROVE  UNCHANGED DM!vars
<1>1. TypeOK /\ CheckpointSteps
  BY ZenonT(30) DEF IInv
<1>2. /\ UNCHANGED <<ckpt, kv, rewound, backups, seq, rec>>
      /\ pc \in {"rotate", "compact"} /\ pc' \in {"idle", "compact"}
      /\ synced' = synced /\ synced = seq /\ ckpt.seq = seq
  BY <1>1 DEF Rotate, RotateFail, CompactThrough, Return, hist, CheckpointSteps
<1>3. up /\ up' /\ up' = up /\ Submitted' = Submitted /\ Ended = seq /\ Ended' = seq /\ ClientMap' = ClientMap
  BY <1>2 DEF up, Submitted, InFlight, Ended, ClientMap, appended
<1>4. \A c : Recovered(Surviving(c), ckpt) = ckpt.img
  BY <1>2, CoveredCuts
<1>5. \A c : Recovered(Surviving(c)', ckpt') = ckpt.img
  <2>1. ckpt' \in Checkpoints /\ log' \subseteq Records /\ Archived' \subseteq Records
    BY DEF IInv, TypeOK, Archived
  <2>2. \A r \in Archived' \cup log' : r.seq <= seq
    BY <1>2 DEF IInv, ArchivedCovered, LogOrdered, appended
  <2>3. ASSUME NEW c PROVE Recovered(Surviving(c)', ckpt') = ckpt.img
    <3>1. Surviving(c)' \in SUBSET Records /\ \A r \in Surviving(c)' : r.seq <= ckpt'.seq
      BY ZenonT(30), <1>2, <2>1, <2>2 DEF Surviving
    <3>2. QED  BY <1>2, <2>1, <3>1, ReplayNothing
  <2>4. QED  BY ZenonT(30), <2>3
<1>6. Unsettled' = Unsettled
  BY ZenonT(30), <1>2, <1>3, <1>4, <1>5 DEF Unsettled
<1>7. {b.img : b \in backups}' = {b.img : b \in backups}
  BY <1>2
<1>8. QED  BY <1>2, <1>3, <1>6, <1>7 DEF DM!vars

-----------------------------------------------------------------------------
(* The process ends, and starts again.                                     *)

\* What a cut of the log leaves is the map clients see, the one submitted or
\* one that was unsettled.
LEMMA DownMaps ==
  ASSUME IInv, IInv', up, NEW c \in synced..appended, NEW s \in synced..c, Down(c, s)
  PROVE  DM!Crash
<1> DEFINE left == {ClientMap} \cup Submitted \cup Unsettled
<1>1. TypeOK /\ synced \in Int /\ appended \in Int
  BY MaxSeqAssumption DEF IInv, TypeOK, appended
<1>2. /\ log' = {r \in log : r.seq <= c} /\ ckpt' = Latest /\ pc' = "down"
      /\ synced' = s /\ written' = c /\ UNCHANGED <<archives, backups, rewound>>
  BY DEF Down, hist
<1>3. /\ ~up' /\ Submitted' = {} /\ Ended' = c /\ ClientMap' = Recovered(Surviving(c)', ckpt')
  BY <1>2 DEF up, Submitted, InFlight, Ended, appended, ClientMap, Surviving, Archived
<1>4. ASSUME NEW d \in s..c, ~rewound PROVE Recovered(Surviving(d)', ckpt') \in left
  <2>1. d \in synced..appended /\ d <= c /\ d \in Int /\ c \in Int
    BY <1>1
  <2>2. \A r \in log : r.seq <= d => r.seq <= c
    BY <1>1, <2>1 DEF TypeOK, Records
  <2>3. Surviving(d)' = Surviving(d)
    BY <1>2, <2>2 DEF Surviving, Archived
  <2>4. Recovered(Surviving(d)', ckpt') = AfterCrash(d)
    BY <1>2, <2>3 DEF AfterCrash
  <2>5. QED  BY <1>4, <2>1, <2>4, CutMap
<1>5. {b.img : b \in backups}' = {b.img : b \in backups}
  BY ZenonT(30), <1>2
<1>6. CASE ~rewound
  <2>1. c \in s..c
    BY <1>1
  <2>2. ClientMap' \in left
    BY <1>3, <1>4, <1>6, <2>1
  <2>3. Unsettled' \subseteq left
    <3>1. Unsettled' \subseteq {Recovered(Surviving(d)', ckpt') : d \in s..c}
      BY ZenonT(30), <1>2, <1>3 DEF Unsettled
    <3>2. QED  BY <1>4, <1>6, <3>1
  <2>4. QED  BY <1>2, <1>3, <1>5, <2>2, <2>3 DEF DM!Crash
<1>7. CASE rewound
  <2>1. Surviving(c)' \in SUBSET Records /\ ckpt' \in Checkpoints
    BY DEF IInv, TypeOK, Surviving, Archived
  <2>2. ClientMap' \in Maps
    BY <1>3, <2>1, ReplayType
  <2>3. Unsettled' = {}
    BY ZenonT(30), <1>2, <1>7 DEF Unsettled
  <2>4. QED  BY ZenonT(30), <1>2, <1>3, <1>5, <1>7, <2>2, <2>3 DEF DM!Crash
<1>8. QED  BY <1>6, <1>7

\* A restored tenant has the map of its backup.
LEMMA RestoreMaps ==
  ASSUME IInv, IInv', RestoreTenant
  PROVE  DM!Restore
<1>1. PICK b \in backups : ckpt' = b
  BY DEF RestoreTenant
<1>2. /\ pc = "down" /\ pc' = "down" /\ log' = {} /\ archives' = {} /\ UNCHANGED backups
  BY ZenonT(30) DEF RestoreTenant, up, proc
<1>3. ~up /\ up' = up /\ Submitted = {} /\ Submitted' = {}
  BY <1>2 DEF up, Submitted, InFlight
<1>4. \A c : Recovered(Surviving(c)', ckpt') = b.img
  <2>1. b \in Checkpoints
    BY DEF IInv, TypeOK
  <2>2. \A c : Surviving(c)' = {}
    BY ZenonT(30), <1>2 DEF Surviving, Archived
  <2>3. QED  BY ZenonT(30), <1>1, <2>1, <2>2, ReplayNothing
<1>5. ClientMap' = b.img
  BY <1>2, <1>4 DEF ClientMap, up, Surviving, Archived
<1>6. Unsettled' = {}
  BY ZenonT(30), <1>4, <1>5 DEF Unsettled
<1>7. rewound' \in BOOLEAN
  BY ZenonT(30) DEF IInv, TypeOK
<1>8. {x.img : x \in backups}' = {x.img : x \in backups} /\ b.img \in {x.img : x \in backups}
  BY <1>2
<1>9. QED  BY ZenonT(30), <1>3, <1>5, <1>6, <1>7, <1>8 DEF DM!Restore

\* Recovery serves the map of the files it found.
LEMMA OpenMaps ==
  ASSUME IInv, IInv', Open
  PROVE  DM!Restart
<1>0. Bounds /\ TypeOK
  BY ZenonT(30) DEF IInv, Bounds
<1>1. PICK m \in 0..MaxSeq :
        /\ \A r \in Surviving(written) : r.seq <= m
        /\ m = 0 \/ \E r \in Surviving(written) : r.seq = m
        /\ seq' = m
        /\ rewound' = (rewound \/ m < ckpt.seq)
        /\ synced' = Smaller(synced, m)
        /\ kv' = Recovered(Surviving(written), ckpt)
  BY ZenonT(30) DEF Open
<1>2. pc = "down" /\ pc' = "idle" /\ UNCHANGED <<log, archives, ckpt, backups>>
  BY DEF Open, up
<1>3. /\ ~up /\ up' /\ Submitted = {} /\ Submitted' = {} /\ ClientMap' = ClientMap
      /\ ClientMap = Recovered(Surviving(written), ckpt)
      /\ Ended = written /\ Ended' = m
  BY <1>1, <1>2 DEF up, Submitted, InFlight, ClientMap, Ended, appended
<1>4. rewound' \in {rewound, TRUE}
  <2>1. rewound \in BOOLEAN /\ rewound' \in BOOLEAN
    BY DEF IInv, TypeOK
  <2>2. rewound => rewound'
    BY <1>1, Zenon
  <2>3. QED  BY ZenonT(30), <2>1, <2>2
<1>5. CASE rewound'
  <2>1. Unsettled' = {}
    BY <1>5 DEF Unsettled
  <2>2. {b.img : b \in backups}' = {b.img : b \in backups}
    BY <1>2
  <2>3. QED  BY ZenonT(30), <1>3, <1>4, <2>1, <2>2 DEF DM!Restart
<1>6. CASE ~rewound'
  <2>1. ~rewound
    BY <1>1, <1>6, Zenon
  <2>2. /\ synced \in 0..MaxSeq /\ written \in 0..MaxSeq /\ m \in Int
        /\ synced <= written /\ ckpt.seq <= synced /\ ckpt.seq \in Int
    BY <1>0, <1>2, <2>1
       DEF Bounds, Watermarks, CheckpointSynced, TypeOK, Checkpoints, appended
  <2>3. log \subseteq Records /\ Archived \subseteq Records
    BY <1>0 DEF TypeOK, Archived
  <2>4. m <= written
    <3>1. ASSUME NEW r \in Surviving(written) PROVE r.seq <= written
      <4>1. r.seq \in Int
        BY <2>3 DEF Surviving, Records
      <4>2. r.seq <= ckpt.seq \/ r.seq <= written
        BY <1>0 DEF Surviving, Bounds, ArchivedCovered
      <4>3. QED  BY <2>2, <4>1, <4>2
    <3>2. QED  BY <1>1, <2>2, <3>1
  <2>5. Surviving(m) = Surviving(written)
    <3>1. ASSUME NEW r \in log PROVE r.seq <= m <=> r.seq <= written
      <4>1. r.seq \in Int
        BY <2>3 DEF Records
      <4>2. r.seq <= written => r.seq <= m
        BY <1>1 DEF Surviving
      <4>3. QED  BY <2>2, <2>4, <4>1, <4>2
    <3>2. QED  BY <3>1 DEF Surviving
  <2>6. ASSUME NEW c \in synced'..Ended'
        PROVE  Recovered(Surviving(c)', ckpt') \in {ClientMap} \cup Unsettled
    <3>1. Recovered(Surviving(c)', ckpt') = Recovered(Surviving(c), ckpt)
      BY ZenonT(30), <1>2, SameCuts
    <3>2. c = m \/ c \in synced..Ended
      BY <1>1, <1>3, <2>2, <2>4 DEF Smaller
    <3>3. CASE c = m
      BY ZenonT(30), <1>3, <2>5, <3>1, <3>3
    <3>4. CASE c \in synced..Ended
      BY <2>1, <3>1, <3>4 DEF Unsettled
    <3>5. QED  BY ZenonT(30), <3>2, <3>3, <3>4
  <2>7. Unsettled' \subseteq Unsettled
    <3>1. Unsettled' = {Recovered(Surviving(c)', ckpt') : c \in synced'..Ended'} \ {ClientMap}
      BY ZenonT(30), <1>3, <1>6 DEF Unsettled
    <3>2. QED  BY <2>6, <3>1
  <2>8. {b.img : b \in backups}' = {b.img : b \in backups}
    BY <1>2
  <2>9. QED  BY ZenonT(30), <1>3, <1>4, <2>7, <2>8 DEF DM!Restart
<1>7. QED  BY <1>5, <1>6

-----------------------------------------------------------------------------
\* An empty tenant is an empty map.
LEMMA InitMaps == Init => MapInv /\ DM!Init
<1> SUFFICES ASSUME Init PROVE MapInv /\ DM!Init
  OBVIOUS
<1>1. /\ pc = "idle" /\ kv = Empty /\ log = {} /\ archives = {} /\ seq = 0 /\ synced = 0
      /\ ckpt = NoCheckpoint /\ backups = {} /\ rewound = FALSE
  BY DEF Init
<1>2. (up = TRUE) /\ ClientMap = Empty /\ Submitted = {} /\ Ended = 0
  BY ZenonT(30), <1>1 DEF up, ClientMap, Submitted, InFlight, Ended, appended
<1>3. \A c : Recovered(Surviving(c), ckpt) = Empty
  <2>1. \A c : Surviving(c) = {}
    BY ZenonT(30), <1>1 DEF Surviving, Archived
  <2>2. QED  BY <1>1, <2>1, ConstantTypes, ReplayNothing DEF NoCheckpoint
<1>4. Unsettled = {}
  BY ZenonT(30), <1>2, <1>3 DEF Unsettled
<1>5. {b.img : b \in backups} = {}
  BY <1>1
<1>6. MapInv
  BY ZenonT(30), <1>1 DEF MapInv
<1>7. QED  BY <1>1, <1>2, <1>4, <1>5, <1>6, ConstantTypes DEF DM!Init

\* Every step of the write path is a step of the durable map, or none.
LEMMA NextMaps ==
  ASSUME SyncMode = "always", IInv, IInv', MapInv, [Next]_vars
  PROVE  [DM!Next]_(DM!vars)
<1>1. CASE UNCHANGED vars
  BY <1>1 DEF vars, disk, proc, hist, DM!vars, ClientMap, Submitted, Unsettled, up, InFlight,
              Ended, appended, Surviving, Archived
<1>2. ASSUME NEW eff \in prepareDurableEffects(kv), Execute(eff)
      PROVE  DM!Next
  BY <1>2, ExecuteMaps DEF DM!Next
<1>3. CASE Append
  BY <1>3, AppendMaps
<1>4. CASE AppendFail
  BY <1>4, AppendFailMaps DEF DM!Next
<1>5. CASE FsyncAck \/ \E why \in Whys : CheckpointSync(why)
  <2>1. UNCHANGED <<log, archives, ckpt, kv, rewound, backups, seq, rec>>
    BY <1>5 DEF FsyncAck, CheckpointSync, hist
  <2>2. QED  BY ZenonT(30), <1>5, <2>1, SyncMaps DEF DM!Next
<1>6. CASE SyncFail
  BY <1>6, SyncFailMaps DEF DM!Next
<1>7. CASE Dispatch
  BY <1>7, DispatchMaps DEF DM!Next
<1>8. CASE Flush \/ SaveCheckpoint \/ SaveFail \/ \E why \in Whys : CheckpointSyncFail(why)
  BY ZenonT(30), <1>8, QuietMaps
<1>9. CASE SyncTick \/ SyncTickFail
  BY <1>9 DEF SyncTick, SyncTickFail
<1>10. CASE InstallCurrent
  BY <1>10, InstallMaps DEF DM!Next
<1>11. CASE CreateBackupArchive
  BY <1>11, BackupMaps DEF DM!Next
<1>12. CASE Rotate \/ RotateFail \/ CompactThrough
  BY <1>12, RotateMaps
<1>13. CASE Close \/ ProcessCrash \/ PowerLoss
  <2>1. up
    BY <1>13 DEF Close, ProcessCrash, PowerLoss, up
  <2>2. QED  BY <1>13, <2>1, CutBounds, DownMaps DEF DM!Next
<1>14. CASE RestoreTenant
  BY <1>14, RestoreMaps DEF DM!Next
<1>15. CASE Open
  BY <1>15, OpenMaps DEF DM!Next
<1>16. QED
  BY ZenonT(30), <1>1, <1>2, <1>3, <1>4, <1>5, <1>6, <1>7, <1>8, <1>9, <1>10, <1>11, <1>12, <1>13, <1>14, <1>15
     DEF Next

\* sync=always: the write path of executor.go, wal.go and snapshot.go implements
\* the durable map, for every set of keys and values and every log length:
\* crashes, power losses, storage errors, checkpoints, backups and restores in
\* any order never take back a transaction whose reply was OK, and show clients
\* whole transactions only.
THEOREM Refinement == SyncMode = "always" => (Spec => ImplementsDurableMap)
<1> SUFFICES ASSUME SyncMode = "always" PROVE Spec => ImplementsDurableMap
  OBVIOUS
<1>1. Init => IInv /\ MapInv /\ DM!Init
  BY InitInv, InitMaps
<1>2. IInv /\ MapInv /\ [Next]_vars => IInv' /\ MapInv'
  BY StepInv, MapStep
<1>3. IInv /\ IInv' /\ MapInv /\ [Next]_vars => [DM!Next]_(DM!vars)
  BY NextMaps
<1>4. QED  BY <1>1, <1>2, <1>3, PTL DEF Spec, ImplementsDurableMap, DM!Spec

=============================================================================
