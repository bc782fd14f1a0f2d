------------------------- MODULE ReplicationProofs --------------------------
(***************************************************************************)
(* What the stream to a replica promises, proved for any keys, any capacity *)
(* of liveCh, and any number of records, failures and rotations.            *)
(***************************************************************************)
EXTENDS Replication, SequenceTheorems, WellFoundedInduction, TLAPS

\* The leaves are small; the time is for the translation of a large context.
USE SMTT(30), ZenonT(30)

-----------------------------------------------------------------------------
(* The records of a segment. *)

LEMMA RecordsSeq ==
  ASSUME NEW a \in Nat, NEW b \in Nat, NEW h \in Nat, b <= h
  PROVE  /\ Records(a, b) \in Seq(1..h)
         /\ a <= b => /\ Len(Records(a, b)) = b - a
                      /\ \A i \in 1..(b - a) : Records(a, b)[i] = a + i
<1> DEFINE n == IF a < b THEN b - a ELSE 0
<1>1. n \in Nat
  OBVIOUS
<1>2. Records(a, b) \in [1..n -> 1..h]
  BY DEF Records
<1>3. Records(a, b) \in Seq(1..h)
  BY <1>1, <1>2, SeqDef
<1>4. Len(Records(a, b)) = n
  BY <1>1, <1>2, <1>3, LenProperties
<1>5. \A i \in 1..n : Records(a, b)[i] = a + i
  BY DEF Records
<1>6. a <= b => n = b - a
  OBVIOUS
<1>7. QED
  BY <1>3, <1>4, <1>5, <1>6

\* An archived segment and the wal.log that follows it are one run of records.
LEMMA RecordsJoin ==
  ASSUME NEW a \in Nat, NEW b \in Nat, NEW c \in Nat, a <= b, b <= c
  PROVE  /\ Len(Records(a, b) \o Records(b, c)) = c - a
         /\ \A i \in 1..(c - a) : (Records(a, b) \o Records(b, c))[i] = a + i
<1> DEFINE s == Records(a, b)
           t == Records(b, c)
<1>1. /\ s \in Seq(1..c) /\ Len(s) = b - a
      /\ \A i \in 1..(b - a) : s[i] = a + i
  BY RecordsSeq
<1>2. /\ t \in Seq(1..c) /\ Len(t) = c - b
      /\ \A i \in 1..(c - b) : t[i] = b + i
  BY RecordsSeq
<1> HIDE DEF s, t
<1>3. /\ s \o t \in Seq(1..c) /\ Len(s \o t) = Len(s) + Len(t)
      /\ \A i \in 1..(Len(s) + Len(t)) :
           (s \o t)[i] = IF i <= Len(s) THEN s[i] ELSE t[i - Len(s)]
  BY ZenonT(30), <1>1, <1>2, ConcatProperties
<1>4. Len(s \o t) = c - a
  BY <1>1, <1>2, <1>3
<1>5. ASSUME NEW i \in 1..(c - a) PROVE (s \o t)[i] = a + i
  <2>1. i \in 1..(Len(s) + Len(t)) /\ Len(s) = b - a
    BY <1>1, <1>2
  <2>0. (s \o t)[i] = IF i <= Len(s) THEN s[i] ELSE t[i - Len(s)]
    BY <1>3, <2>1
  <2>2. i <= b - a => s[i] = a + i
    BY <1>1
  <2>3. ~(i <= b - a) => t[i - (b - a)] = b + (i - (b - a))
    BY <1>2
  <2>4. QED
    BY <2>0, <2>1, <2>2, <2>3
<1>6. QED
  BY ZenonT(30), <1>3, <1>4, <1>5 DEF s, t

-----------------------------------------------------------------------------
(* Types. *)

LEMMA TypeInit == Init => TypeOK
<1> SUFFICES ASSUME Init PROVE TypeOK
  OBVIOUS
<1>1. keyOf \in Seq(Keys) /\ head = 0
  BY EmptySeq DEF Init, head
<1>2. liveCh \in Seq(1..head) /\ Len(liveCh) = 0 /\ boot \in Seq(1..head) /\ net \in Seq(1..head)
  BY EmptySeq DEF Init
<1>3. map \in Maps /\ saved \in Maps
  BY BoundsAssumption DEF Init, Maps, Blank
<1>4. listed \in (0..head) \X (0..head)
  BY <1>1 DEF Init
<1>5. /\ head <= MaxSeq /\ Len(liveCh) <= LiveBuffer /\ rotations \in 0..MaxRotations
      /\ fails \in 0..MaxFails /\ hand \in 0..head /\ notified \in Nat \cap {head, head - 1}
      /\ readFrom \in 0..head /\ readAt \in 0..head /\ early \in 0..head
  BY <1>1, <1>2, BoundsAssumption DEF Init
<1>6. /\ base = 0 /\ rot = 0 /\ written = 0 /\ phase = "none"
      /\ subscribed \in BOOLEAN /\ stopped \in BOOLEAN /\ gap \in BOOLEAN /\ torn \in BOOLEAN
  BY ZenonT(30) DEF Init
<1>7. QED
  BY <1>1, <1>2, <1>3, <1>4, <1>5, <1>6 DEF TypeOK

LEMMA TypeStep == TypeOK /\ [Next]_vars => TypeOK'
<1> SUFFICES ASSUME TypeOK, [Next]_vars PROVE TypeOK'
  OBVIOUS
<1> USE DEF logVars, live, conn, replica, hist
<1>0. head \in Nat /\ Len(liveCh) \in Nat
  BY LenProperties DEF TypeOK, head
<1>1. CASE UNCHANGED vars
  BY <1>1 DEF vars, TypeOK, head
<1>2. ASSUME NEW k \in Keys, Write(k) PROVE TypeOK'
  <2>1. keyOf' \in Seq(Keys) /\ head' = head + 1
    BY <1>2, AppendProperties DEF Write, TypeOK, head
  <2>2. 1..head \subseteq 1..head' /\ 0..head \subseteq 0..head'
    BY <1>0, <2>1
  <2>3. liveCh' \in Seq(1..head') /\ boot' \in Seq(1..head') /\ net' \in Seq(1..head')
    BY ZenonT(30), <1>2, <2>2, SeqMonotonic DEF Write, TypeOK
  <2>4. listed' \in (0..head') \X (0..head')
    BY <1>2, <2>2 DEF Write, TypeOK
  <2>5. head' <= MaxSeq /\ notified' \in Nat \cap {head', head' - 1}
    BY <1>0, <1>2, <2>1, BoundsAssumption DEF Write, TypeOK
  <2>6. written' \in Nat /\ rot' <= written' /\ written' <= head'
    BY <1>0, <1>2, <2>1 DEF Write, TypeOK
  <2>7. QED
    BY <1>2, <2>1, <2>2, <2>3, <2>4, <2>5, <2>6 DEF Write, TypeOK
<1>3. CASE Notify
  <2>1. head' = head
    BY <1>3 DEF Notify, head
  <2>2. notified' \in Nat \cap {head, head - 1}
    BY <1>0, <1>3 DEF Notify
  <2>3. liveCh' \in Seq(1..head) /\ Len(liveCh') <= LiveBuffer
    <3>1. head \in 1..head
      BY <1>0, <1>3 DEF Notify, TypeOK
    <3>2. /\ Append(liveCh, head) \in Seq(1..head)
          /\ Len(Append(liveCh, head)) = Len(liveCh) + 1
      BY <3>1, AppendProperties DEF TypeOK
    <3>3. CASE UNCHANGED liveCh
      BY <3>3 DEF TypeOK
    <3>4. CASE liveCh' = Append(liveCh, head) /\ Len(liveCh) < LiveBuffer
      BY <1>0, <3>2, <3>4, BoundsAssumption
    <3>5. QED
      BY <1>3, <3>3, <3>4 DEF Notify
  <2>4. gap' \in BOOLEAN
    BY ZenonT(30), <1>3 DEF Notify, TypeOK
  <2>5. QED
    BY <1>3, <2>1, <2>2, <2>3, <2>4 DEF Notify, TypeOK
<1>4. CASE Subscribe
  <2>1. head' = head
    BY <1>4 DEF Subscribe, head
  <2>2. QED
    BY <1>4, <2>1 DEF Subscribe, TypeOK
<1>5. CASE Rotate
  <2>1. head' = head
    BY <1>5 DEF Rotate, head
  <2>2. rotations' \in 0..MaxRotations
    BY <1>5, BoundsAssumption DEF Rotate, TypeOK
  <2>3. QED
    BY <1>0, <1>5, <2>1, <2>2 DEF Rotate, TypeOK
<1>6. CASE CompactThrough
  <2>1. head' = head
    BY <1>6 DEF CompactThrough, head
  <2>2. QED
    BY <1>6, <2>1 DEF CompactThrough, TypeOK
<1>7. CASE Connect
  <2>1. head' = head
    BY <1>7 DEF Connect, head
  <2>2. gap' \in BOOLEAN
    BY <1>7 DEF Connect
  <2>3. QED
    BY <1>7, <2>1, <2>2 DEF Connect, TypeOK
<1>8. CASE BootSync
  <2>1. head' = head
    BY <1>8 DEF BootSync, head
  <2>2. QED
    BY <1>0, <1>8, <2>1 DEF BootSync, TypeOK
<1>9. CASE BootList
  <2>1. head' = head
    BY <1>9 DEF BootList, head
  <2>2. listed' \in (0..head) \X (0..head)
    BY <1>0, <1>9 DEF BootList, TypeOK
  <2>3. QED
    BY <1>9, <2>1, <2>2 DEF BootList, TypeOK
<1>10. ASSUME Closed PROVE /\ listed' \in (0..head) \X (0..head)
                           /\ boot' \in Seq(1..head) /\ net' \in Seq(1..head)
                           /\ readFrom' \in 0..head /\ readAt' \in 0..head /\ early' \in 0..head
  BY <1>0, <1>10, EmptySeq DEF Closed
<1>11. CASE BootRead
  <2>1. head' = head
    BY <1>11 DEF BootRead, head
  <2>2. CASE listed[1] < listed[2] /\ base >= listed[2]
    BY ZenonT(30), <1>10, <1>11, <2>1, <2>2 DEF BootRead, Closed, TypeOK
  <2>3. CASE ~(listed[1] < listed[2] /\ base >= listed[2])
    <3>1. /\ listed[1] \in Nat /\ listed[2] \in Nat /\ listed[2] <= head
          /\ listed[1] \in 0..head /\ written \in 0..head
      BY <1>0 DEF TypeOK
    <3>2. Records(listed[1], listed[2]) \in Seq(1..head) /\ Records(rot, written) \in Seq(1..head)
      BY ZenonT(30), <1>0, <3>1, RecordsSeq DEF TypeOK
    <3>3. boot' \in Seq(1..head)
      BY ZenonT(30), <1>11, <2>3, <3>2, ConcatProperties DEF BootRead
    <3>4. torn' \in BOOLEAN
      BY ZenonT(30), <1>11, <2>3 DEF BootRead
    <3>5. QED
      BY ZenonT(30), <1>11, <2>1, <2>3, <3>1, <3>3, <3>4 DEF BootRead, TypeOK
  <2>4. QED
    BY <2>2, <2>3
<1>12. CASE BootSend
  <2>1. head' = head
    BY <1>12 DEF BootSend, head
  <2>2. boot' \in Seq(1..head) /\ net' \in Seq(1..head)
    <3>1. CASE boot = <<>>
      BY <1>12, <3>1 DEF BootSend, TypeOK
    <3>2. CASE boot # <<>>
      <4>1. Head(boot) \in 1..head /\ Tail(boot) \in Seq(1..head)
        BY ZenonT(30), <3>2, HeadTailProperties DEF TypeOK
      <4>2. Append(net, Head(boot)) \in Seq(1..head)
        BY <4>1, AppendProperties DEF TypeOK
      <4>3. QED
        BY ZenonT(30), <1>12, <3>2, <4>1, <4>2 DEF BootSend
    <3>3. QED
      BY <3>1, <3>2
  <2>3. QED
    BY <1>12, <2>1, <2>2 DEF BootSend, TypeOK
<1>13. CASE Relay
  <2>1. head' = head
    BY <1>13 DEF Relay, head
  <2>2. hand' \in 0..head /\ liveCh' \in Seq(1..head) /\ Len(liveCh') <= LiveBuffer
    BY <1>0, <1>13, HeadTailProperties, BoundsAssumption DEF Relay, TypeOK
  <2>3. QED
    BY <1>13, <2>1, <2>2 DEF Relay, TypeOK
<1>14. CASE Broadcast
  <2>1. head' = head
    BY <1>14 DEF Broadcast, head
  <2>2. hand' \in 0..head /\ early' \in 0..head
    BY <1>0, <1>14 DEF Broadcast, TypeOK
  <2>3. net' \in Seq(1..head)
    <3>1. hand \in 1..head
      BY <1>0, <1>14 DEF Broadcast, TypeOK
    <3>2. Append(net, hand) \in Seq(1..head)
      BY <3>1, AppendProperties DEF TypeOK
    <3>3. QED
      BY ZenonT(30), <1>14, <3>2 DEF Broadcast, TypeOK
  <2>4. QED
    BY <1>14, <2>1, <2>2, <2>3 DEF Broadcast, TypeOK
<1>15. CASE ConnFail
  <2>1. head' = head
    BY <1>15 DEF ConnFail, head
  <2>2. fails' \in 0..MaxFails
    BY <1>15, BoundsAssumption DEF ConnFail, TypeOK
  <2>3. Closed /\ UNCHANGED <<logVars, live, map, saved, gap>>
    BY <1>15 DEF ConnFail
  <2>4. QED
    BY ZenonT(30), <1>10, <2>1, <2>2, <2>3 DEF Closed, TypeOK
<1>16. CASE Stop
  <2>1. head' = head
    BY <1>16 DEF Stop, head
  <2>2. QED
    BY ZenonT(30), <1>10, <1>16, <2>1 DEF Stop, Closed, TypeOK
<1>17. CASE ApplyWALRecord
  <2>1. head' = head
    BY <1>17 DEF ApplyWALRecord, head
  <2>2. Head(net) \in 1..head /\ net' \in Seq(1..head)
    BY ZenonT(30), <1>17, HeadTailProperties DEF ApplyWALRecord, TypeOK
  <2>3. Head(net) \in 0..MaxSeq
    BY <1>0, <2>2, BoundsAssumption DEF TypeOK
  <2>4. map' \in Maps
    BY ZenonT(30), <1>17, <2>3 DEF ApplyWALRecord, TypeOK, Maps
  <2>5. QED
    BY <1>17, <2>1, <2>2, <2>4 DEF ApplyWALRecord, TypeOK
<1>18. CASE ReplicaCheckpoint
  <2>1. head' = head
    BY <1>18 DEF ReplicaCheckpoint, head
  <2>2. QED
    BY <1>18, <2>1 DEF ReplicaCheckpoint, TypeOK
<1>19. CASE ReplicaRestart
  <2>1. head' = head
    BY <1>19 DEF ReplicaRestart, head
  <2>2. fails' \in 0..MaxFails
    BY <1>19, BoundsAssumption DEF ReplicaRestart, TypeOK
  <2>3. Closed /\ map' = saved /\ UNCHANGED <<logVars, live, saved, gap>>
    BY <1>19 DEF ReplicaRestart
  <2>4. QED
    BY ZenonT(30), <1>10, <2>1, <2>2, <2>3 DEF Closed, TypeOK
<1>20. QED
  BY ZenonT(30), <1>1, <1>2, <1>3, <1>4, <1>5, <1>6, <1>7, <1>8, <1>9, <1>11, <1>12, <1>13,
     <1>14, <1>15, <1>16, <1>17, <1>18, <1>19 DEF Next

\* Every reachable state of the stream is well typed, and liveCh never holds
\* more than liveReplicationBuffer frames: BroadcastRecord drops instead.
THEOREM Typed == Spec => []TypeOK
  BY TypeInit, TypeStep, PTL DEF Spec

-----------------------------------------------------------------------------
(* The live frames: while none was dropped, relay hands on the records of   *)
(* the log one by one.                                                      *)

\* The last record relay has handed on, if none was dropped.
relayed == notified - Len(liveCh) - (IF hand # 0 THEN 1 ELSE 0)

QueueWhole ==
  ~gap => /\ \A i \in 1..Len(liveCh) : liveCh[i] = notified - Len(liveCh) + i
          /\ hand # 0 => hand = notified - Len(liveCh)

LEMMA QueueStep == TypeOK /\ QueueWhole /\ [Next]_vars => QueueWhole'
<1> SUFFICES ASSUME TypeOK, QueueWhole, [Next]_vars, ~gap' PROVE QueueWhole'
  BY DEF QueueWhole
<1> USE DEF logVars, live, conn, replica, hist
<1>0. head \in Nat /\ notified \in Nat /\ Len(liveCh) \in Nat
  BY LenProperties DEF TypeOK, head
<1>1. CASE UNCHANGED <<notified, liveCh, hand, gap>>
  BY <1>1 DEF QueueWhole
<1>2. CASE Notify
  <2>1. ~gap /\ liveCh' = Append(liveCh, head) /\ notified' = head /\ hand' = hand
    BY <1>2 DEF Notify
  <2>2. head \in 1..head /\ notified = head - 1
    BY <1>0, <1>2 DEF Notify, TypeOK
  <2>3. /\ Len(liveCh') = Len(liveCh) + 1
        /\ \A i \in 1..Len(liveCh) : liveCh'[i] = liveCh[i]
        /\ liveCh'[Len(liveCh) + 1] = head
    BY <2>1, <2>2, AppendProperties DEF TypeOK
  <2>4. notified' - Len(liveCh') = notified - Len(liveCh)
    BY <1>0, <2>1, <2>2, <2>3
  <2>5. ASSUME NEW i \in 1..Len(liveCh') PROVE liveCh'[i] = notified' - Len(liveCh') + i
    <3>1. CASE i \in 1..Len(liveCh)
      BY <2>1, <2>3, <2>4, <3>1 DEF QueueWhole
    <3>2. CASE i = Len(liveCh) + 1
      BY <1>0, <2>1, <2>2, <2>3, <3>2
    <3>3. QED
      BY <1>0, <2>3, <3>1, <3>2
  <2>6. QED
    BY <2>1, <2>4, <2>5 DEF QueueWhole
<1>3. CASE Connect
  <2>1. gap => liveCh = <<>> /\ hand = 0
    BY ZenonT(30), <1>3 DEF Connect
  <2>2. UNCHANGED <<notified, liveCh, hand>>
    BY <1>3 DEF Connect
  <2>3. CASE gap
    <3>1. Len(liveCh') = 0 /\ hand' = 0
      BY <2>1, <2>2, <2>3, EmptySeq
    <3>2. QED
      BY <3>1 DEF QueueWhole
  <2>4. CASE ~gap
    BY <2>2, <2>4 DEF QueueWhole
  <2>5. QED
    BY <2>3, <2>4
<1>4. CASE Relay
  <2>1. /\ ~gap /\ hand = 0 /\ liveCh # <<>> /\ notified' = notified
        /\ hand' = Head(liveCh) /\ liveCh' = Tail(liveCh)
    BY <1>4 DEF Relay
  <2>2. /\ Len(liveCh') = Len(liveCh) - 1 /\ Len(liveCh) >= 1
        /\ \A i \in 1..Len(liveCh') : liveCh'[i] = liveCh[i + 1]
    BY <1>0, <2>1, HeadTailProperties, EmptySeq DEF TypeOK
  <2>3. hand' = liveCh[1]
    BY <2>1, <2>2 DEF TypeOK
  <2>4. hand' = notified' - Len(liveCh')
    BY <1>0, <2>1, <2>2, <2>3 DEF QueueWhole
  <2>5. ASSUME NEW i \in 1..Len(liveCh') PROVE liveCh'[i] = notified' - Len(liveCh') + i
    <3>1. i + 1 \in 1..Len(liveCh)
      BY <1>0, <2>2
    <3>2. liveCh[i + 1] = notified - Len(liveCh) + (i + 1)
      BY <2>1, <3>1 DEF QueueWhole
    <3>3. QED
      BY <1>0, <2>1, <2>2, <3>2
  <2>6. QED
    BY <2>4, <2>5 DEF QueueWhole
<1>5. CASE Broadcast
  BY <1>5 DEF Broadcast, QueueWhole
<1>6. QED
  BY ZenonT(30), <1>1, <1>2, <1>3, <1>4, <1>5 DEF Next, vars, Write, Subscribe, Rotate, CompactThrough,
     BootSync, BootList, BootRead, BootSend, ConnFail, Stop, ApplyWALRecord,
     ReplicaCheckpoint, ReplicaRestart

\* What the whole queue says of the record handed on last, and what each step
\* does to it.
LEMMA RelayedBounds ==
  TypeOK /\ QueueWhole /\ ~gap =>
    /\ relayed \in Nat /\ relayed <= notified /\ relayed <= head
    /\ hand # 0 => hand = relayed + 1
<1> SUFFICES ASSUME TypeOK, QueueWhole, ~gap
             PROVE  /\ relayed \in Nat /\ relayed <= notified /\ relayed <= head
                    /\ hand # 0 => hand = relayed + 1
  OBVIOUS
<1>0. /\ head \in Nat /\ notified \in Nat /\ Len(liveCh) \in Nat /\ hand \in Nat
      /\ notified <= head
  BY LenProperties DEF TypeOK, head
<1>1. notified - Len(liveCh) >= 0
  <2>1. CASE Len(liveCh) = 0
    BY <1>0, <2>1
  <2>2. CASE Len(liveCh) # 0
    <3>1. 1 \in 1..Len(liveCh)
      BY <1>0, <2>2
    <3>2. liveCh[1] \in 1..head
      BY ZenonT(30), <3>1, ElementOfSeq DEF TypeOK
    <3>3. liveCh[1] = notified - Len(liveCh) + 1
      BY <3>1 DEF QueueWhole
    <3>4. QED
      BY <1>0, <3>2, <3>3
  <2>3. QED
    BY <2>1, <2>2
<1>2. hand # 0 => hand = notified - Len(liveCh) /\ hand >= 1
  BY <1>0 DEF QueueWhole
<1>3. QED
  BY <1>0, <1>1, <1>2 DEF relayed

LEMMA RelayedStep ==
  ASSUME TypeOK, QueueWhole, [Next]_vars, ~gap, ~gap'
  PROVE  /\ Broadcast => relayed' = relayed + 1 /\ relayed' = hand
         /\ ~Broadcast => relayed' = relayed
<1> USE DEF logVars, live, conn, replica, hist
<1>0. head \in Nat /\ notified \in Nat /\ Len(liveCh) \in Nat
  BY LenProperties DEF TypeOK, head
<1>1. CASE UNCHANGED <<notified, liveCh, hand>>
  <2>1. ~Broadcast
    BY <1>1 DEF Broadcast
  <2>2. QED
    BY <1>1, <2>1 DEF relayed
<1>2. CASE Notify
  <2>1. liveCh' = Append(liveCh, head) /\ notified' = head /\ hand' = hand
    BY <1>2 DEF Notify
  <2>2. head \in 1..head /\ notified = head - 1
    BY <1>0, <1>2 DEF Notify, TypeOK
  <2>3. Len(liveCh') = Len(liveCh) + 1
    BY <2>1, <2>2, AppendProperties DEF TypeOK
  <2>4. ~Broadcast
    BY <1>0, <2>1, <2>2 DEF Broadcast
  <2>5. QED
    BY <1>0, <2>1, <2>2, <2>3, <2>4 DEF relayed
<1>3. CASE Relay
  <2>1. Len(liveCh') = Len(liveCh) - 1
    BY <1>3, HeadTailProperties DEF Relay, TypeOK
  <2>2. Head(liveCh) \in 1..head
    BY ZenonT(30), <1>3, HeadTailProperties DEF Relay, TypeOK
  <2>3. hand = 0 /\ hand' # 0 /\ notified' = notified /\ ~Broadcast
    BY <1>0, <1>3, <2>2 DEF Relay, Broadcast
  <2>4. QED
    BY <1>0, <2>1, <2>3 DEF relayed
<1>4. CASE Broadcast
  <2>1. hand # 0 /\ hand' = 0 /\ notified' = notified /\ liveCh' = liveCh
    BY <1>4 DEF Broadcast
  <2>2. hand = relayed + 1
    BY <2>1, RelayedBounds
  <2>3. relayed' = relayed + 1
    BY <1>0, <2>1 DEF relayed
  <2>4. QED
    BY <1>4, <2>2, <2>3
<1>5. QED
  BY ZenonT(30), <1>1, <1>2, <1>3, <1>4 DEF Next, vars, Write, Subscribe, Rotate, CompactThrough, Connect,
     BootSync, BootList, BootRead, BootSend, ConnFail, Stop, ApplyWALRecord,
     ReplicaCheckpoint, ReplicaRestart

-----------------------------------------------------------------------------
(* The bootstrap.                                                           *)

\* What bootstrap reads reaches as far as the live frames handed on before it
\* has read, or the last of them is on record in early.
EarlySeen ==
  /\ phase \in {"list", "read"} /\ ~gap => relayed <= written \/ relayed = early
  /\ phase = "send" /\ ~gap => relayed <= readAt \/ relayed = early
  /\ phase = "none" => early = 0
  /\ ~gap => early <= relayed

LEMMA EarlyStep == TypeOK /\ QueueWhole /\ EarlySeen /\ [Next]_vars => EarlySeen'
<1> SUFFICES ASSUME TypeOK, QueueWhole, EarlySeen, [Next]_vars PROVE EarlySeen'
  OBVIOUS
<1> USE DEF logVars, live, conn, replica, hist
<1>0. /\ head \in Nat /\ written \in Nat /\ rot \in Nat /\ early \in Nat /\ readAt \in Nat
      /\ written <= head
  BY LenProperties DEF TypeOK, head
<1>1. TypeOK' /\ QueueWhole'
  BY TypeStep, QueueStep
<1>2. ~gap => relayed \in Nat /\ relayed <= head
  BY RelayedBounds
<1>3. ~gap' => relayed' \in Nat /\ relayed' <= head'
  <2>1. (TypeOK /\ QueueWhole /\ ~gap => relayed \in Nat /\ relayed <= head)'
    BY RelayedBounds, PTL
  <2>2. QED
    BY <1>1, <2>1
<1>4. CASE ~gap /\ ~gap' /\ ~Broadcast /\ UNCHANGED <<phase, readAt, early>> /\ written <= written'
  <2>1. relayed' = relayed
    BY <1>4, RelayedStep
  <2>2. written' \in Nat
    BY <1>1 DEF TypeOK
  <2>3. QED
    BY <1>0, <1>2, <1>4, <2>1, <2>2 DEF EarlySeen
<1>5. CASE gap /\ gap' /\ UNCHANGED <<phase, early>>
  BY <1>5 DEF EarlySeen
<1>6. CASE Notify
  <2>1. UNCHANGED <<phase, readAt, early, written>> /\ ~Broadcast
    <3>1. UNCHANGED <<phase, readAt, early, written, hand>>
      BY <1>6 DEF Notify
    <3>2. QED
      BY <3>1 DEF Broadcast
  <2>2. gap => gap'
    BY ZenonT(30), <1>6 DEF Notify
  <2>3. CASE gap'
    BY <2>1, <2>3 DEF EarlySeen
  <2>4. CASE ~gap'
    BY <1>0, <1>4, <2>1, <2>2, <2>4
  <2>5. QED
    BY <2>3, <2>4
<1>7. CASE Connect
  <2>1. phase' = "sync" /\ phase = "none" /\ early' = early
    BY <1>7 DEF Connect
  <2>2. early' = 0
    BY <2>1 DEF EarlySeen
  <2>3. QED
    BY <1>3, <2>1, <2>2 DEF EarlySeen
<1>8. CASE BootSync
  <2>1. /\ phase' = "list" /\ written' = head /\ UNCHANGED <<early, gap, keyOf>>
        /\ ~Broadcast
    BY <1>8 DEF BootSync, Broadcast
  <2>2. head' = head
    BY <2>1 DEF head
  <2>3. ~gap' => relayed' = relayed
    BY <2>1, RelayedStep
  <2>4. QED
    BY <1>2, <2>1, <2>2, <2>3 DEF EarlySeen
<1>9. CASE BootList
  <2>1. /\ phase = "list" /\ phase' = "read" /\ UNCHANGED <<early, gap, written>>
        /\ ~Broadcast
    BY <1>9 DEF BootList, Broadcast
  <2>2. ~gap' => relayed' = relayed
    BY <2>1, RelayedStep
  <2>3. QED
    BY <2>1, <2>2 DEF EarlySeen
<1>10. CASE Closed
  <2>1. phase' = "none" /\ early' = 0
    BY <1>10 DEF Closed
  <2>2. QED
    BY <1>3, <2>1 DEF EarlySeen
<1>11. CASE BootRead /\ ~Closed
  <2>1. /\ phase = "read" /\ phase' = "send" /\ UNCHANGED <<early, gap>> /\ readAt' = written
        /\ ~Broadcast
    BY <1>11 DEF BootRead, Broadcast
  <2>2. ~gap' => relayed' = relayed
    BY <2>1, RelayedStep
  <2>3. QED
    BY <2>1, <2>2 DEF EarlySeen
<1>12. CASE BootSend
  <2>1. /\ phase = "send" /\ phase' \in {"send", "live"} /\ UNCHANGED <<early, gap, readAt>>
        /\ ~Broadcast
    BY <1>12 DEF BootSend, Broadcast
  <2>2. ~gap' => relayed' = relayed
    BY <2>1, RelayedStep
  <2>3. QED
    BY <2>1, <2>2 DEF EarlySeen
<1>13. CASE Broadcast
  <2>1. /\ UNCHANGED <<phase, gap>>
        /\ early' = IF phase \in {"none", "live"} THEN early ELSE hand
    BY <1>13 DEF Broadcast
  <2>2. ~gap => relayed' = relayed + 1 /\ relayed' = hand
    BY <1>13, <2>1, RelayedStep
  <2>3. QED
    BY <1>0, <1>2, <2>1, <2>2 DEF EarlySeen
<1>14. CASE UNCHANGED <<phase, readAt, early, gap>> /\ written <= written' /\ ~Broadcast
  BY <1>4, <1>5, <1>14
<1>15. ASSUME NEW k \in Keys, Write(k) PROVE EarlySeen'
  <2>1. UNCHANGED <<phase, readAt, early, gap, hand>> /\ written' \in {written, head + 1}
    BY <1>15 DEF Write
  <2>2. written <= written' /\ ~Broadcast
    BY <1>0, <2>1 DEF Broadcast
  <2>3. QED
    BY <1>14, <2>1, <2>2
<1>16. CASE Rotate
  <2>1. UNCHANGED <<phase, readAt, early, gap, hand>> /\ written' = head
    BY <1>16 DEF Rotate
  <2>2. written <= written' /\ ~Broadcast
    BY <1>0, <2>1 DEF Broadcast
  <2>3. QED
    BY <1>14, <2>1, <2>2
<1>17. CASE Subscribe \/ CompactThrough \/ ApplyWALRecord \/ ReplicaCheckpoint \/ UNCHANGED vars
  <2>1. UNCHANGED <<phase, readAt, early, gap, hand, written>>
    BY <1>17 DEF Subscribe, CompactThrough, ApplyWALRecord, ReplicaCheckpoint, vars
  <2>2. written <= written' /\ ~Broadcast
    BY <1>0, <2>1 DEF Broadcast
  <2>3. QED
    BY ZenonT(30), <1>14, <2>1, <2>2
<1>18. CASE Relay
  <2>1. UNCHANGED <<phase, readAt, early, gap, written>> /\ hand = 0
    BY <1>18 DEF Relay
  <2>2. written <= written' /\ ~Broadcast
    BY <1>0, <2>1 DEF Broadcast
  <2>3. QED
    BY <1>14, <2>1, <2>2
<1>19. QED
  BY ZenonT(30), <1>6, <1>7, <1>8, <1>9, <1>10, <1>11, <1>12, <1>13, <1>15, <1>16, <1>17, <1>18
     DEF Next, ConnFail, Stop, ReplicaRestart

\* The segment ReadAll listed was archived when it was listed.
Listing == phase = "read" => listed[1] <= listed[2] /\ listed[2] <= rot

LEMMA ListingStep == TypeOK /\ Listing /\ [Next]_vars => Listing'
<1> SUFFICES ASSUME TypeOK, Listing, [Next]_vars PROVE Listing'
  OBVIOUS
<1> USE DEF logVars, live, conn, replica, hist
<1>0. /\ head \in Nat /\ written \in Nat /\ rot \in Nat /\ base \in Nat
      /\ base <= rot /\ rot <= head /\ listed[1] \in Nat /\ listed[2] \in Nat
  BY LenProperties DEF TypeOK, head
<1>1. CASE UNCHANGED <<phase, listed, rot>>
  BY <1>1 DEF Listing
<1>2. CASE Rotate
  <2>1. UNCHANGED <<phase, listed>> /\ rot' = head
    BY <1>2 DEF Rotate
  <2>2. QED
    BY <1>0, <2>1 DEF Listing
<1>3. CASE BootList
  <2>1. listed' = <<base, rot>> /\ rot' = rot
    BY <1>3 DEF BootList
  <2>2. QED
    BY <1>0, <2>1 DEF Listing
<1>4. CASE phase' # "read"
  BY <1>4 DEF Listing
<1>5. QED
  BY ZenonT(30), <1>1, <1>2, <1>3, <1>4 DEF Next, vars, Closed, Write, Notify, Subscribe, CompactThrough, Connect,
     BootSync, BootRead, BootSend, Relay, Broadcast, ConnFail, Stop, ApplyWALRecord,
     ReplicaCheckpoint, ReplicaRestart

\* What the bootstrap still has to send ends with the last record it read.
Booting ==
  /\ phase = "live" => boot = <<>>
  /\ phase = "send" /\ ~torn => \A i \in 1..Len(boot) : boot[i] = readAt - Len(boot) + i

LEMMA BootingStep == TypeOK /\ Listing /\ Booting /\ [Next]_vars => Booting'
<1> SUFFICES ASSUME TypeOK, Listing, Booting, [Next]_vars PROVE Booting'
  OBVIOUS
<1> USE DEF logVars, live, conn, replica, hist
<1>0. /\ head \in Nat /\ written \in Nat /\ rot \in Nat /\ Len(boot) \in Nat /\ readAt \in Nat
      /\ listed[1] \in Nat /\ listed[2] \in Nat /\ rot <= written /\ written <= head
  BY LenProperties DEF TypeOK, head
<1>1. CASE UNCHANGED <<phase, boot, readAt, torn>>
  BY <1>1 DEF Booting
<1>2. CASE phase' \notin {"send", "live"}
  BY <1>2 DEF Booting
<1>3. CASE BootRead /\ phase' = "send"
  <2>1. SUFFICES ASSUME ~torn'
                 PROVE  \A i \in 1..Len(boot') : boot'[i] = readAt' - Len(boot') + i
    BY <1>3 DEF Booting
  <2>2. /\ boot' = Records(listed[1], rot) \o Records(rot, written) /\ readAt' = written
        /\ listed[1] <= rot
    BY ZenonT(30), <1>3, <2>1 DEF BootRead, Closed, Listing
  <2>3. Len(boot') = written - listed[1] /\ \A i \in 1..(written - listed[1]) : boot'[i] = listed[1] + i
    <3> DEFINE a == listed[1]
    <3>1. a \in Nat /\ rot \in Nat /\ written \in Nat /\ a <= rot /\ rot <= written
      BY <1>0, <2>2
    <3> HIDE DEF a
    <3>2. /\ Len(Records(a, rot) \o Records(rot, written)) = written - a
          /\ \A i \in 1..(written - a) : (Records(a, rot) \o Records(rot, written))[i] = a + i
      BY ZenonT(30), <3>1, RecordsJoin
    <3>3. QED
      BY <2>2, <3>2 DEF a
  <2>4. QED
    BY <1>0, <2>2, <2>3
<1>4. CASE BootSend
  <2>1. CASE boot = <<>>
    BY <1>4, <2>1 DEF BootSend, Booting
  <2>2. CASE boot # <<>>
    <3>1. boot' = Tail(boot) /\ phase = "send" /\ phase' = "send" /\ UNCHANGED <<readAt, torn>>
      BY <1>4, <2>2 DEF BootSend
    <3>2. /\ Len(boot') = Len(boot) - 1
          /\ \A i \in 1..Len(boot') : boot'[i] = boot[i + 1]
      BY <2>2, <3>1, HeadTailProperties DEF TypeOK
    <3>3. ASSUME ~torn, NEW i \in 1..Len(boot') PROVE boot'[i] = readAt - Len(boot') + i
      <4>1. i + 1 \in 1..Len(boot)
        BY <1>0, <3>2
      <4>2. boot[i + 1] = readAt - Len(boot) + (i + 1)
        BY <3>1, <3>3, <4>1 DEF Booting
      <4>3. QED
        BY <1>0, <3>2, <4>2
    <3>4. QED
      BY <3>1, <3>3 DEF Booting
  <2>3. QED
    BY <2>1, <2>2
<1>5. QED
  BY ZenonT(30), <1>1, <1>2, <1>3, <1>4 DEF Next, vars, Closed, Write, Notify, Subscribe, Rotate, CompactThrough,
     Connect, BootSync, BootList, BootRead, Relay, Broadcast, ConnFail, Stop, ApplyWALRecord,
     ReplicaCheckpoint, ReplicaRestart

-----------------------------------------------------------------------------
(* Every record bootstrap or relay is responsible for arrives.              *)

\* No later record writes n's key.
Latest(n) == \A j \in (n + 1)..head : keyOf[j] # keyOf[n]

\* The bootstrap has a record of n's key still to send ...
InBoot(n) == \E i \in 1..Len(boot) : keyOf[boot[i]] = keyOf[n]

\* ... or n is on the wire, behind every other record of its key ...
InNet(n) ==
  \E i \in 1..Len(net) : /\ net[i] = n
                         /\ \A j \in (i + 1)..Len(net) : keyOf[net[j]] # keyOf[n]

\* ... or the replica has n, and nothing on the wire replaces it.
Applied(n) == /\ map[keyOf[n]] = n
              /\ \A i \in 1..Len(net) : keyOf[net[i]] # keyOf[n]

OnItsWay(n) == InBoot(n) \/ InNet(n) \/ Applied(n)

Clean == phase \in {"send", "live"} /\ ~gap /\ ~Overtaken /\ ~torn

Due(n) == Latest(n) /\ readFrom < n /\ n <= relayed

Arrives == Clean => \A n \in 1..head : Due(n) => OnItsWay(n)

\* A frame appended to the wire takes nothing of another key away.
LEMMA WireAppend ==
  ASSUME TypeOK, NEW n \in 1..head, NEW m \in 1..head, keyOf[m] # keyOf[n],
         UNCHANGED <<keyOf, map>>, net' = Append(net, m)
  PROVE  /\ InNet(n) => InNet(n)'
         /\ Applied(n) => Applied(n)'
<1>1. /\ Len(net) \in Nat /\ Len(net') = Len(net) + 1
      /\ \A i \in 1..Len(net) : net'[i] = net[i]
      /\ net'[Len(net) + 1] = m
  BY AppendProperties, LenProperties DEF TypeOK
<1>2. ASSUME InNet(n) PROVE InNet(n)'
  <2>1. PICK i \in 1..Len(net) : net[i] = n /\ \A j \in (i + 1)..Len(net) : keyOf[net[j]] # keyOf[n]
    BY <1>2 DEF InNet
  <2>2. i \in 1..Len(net') /\ net'[i] = n
    BY <1>1, <2>1
  <2>3. ASSUME NEW j \in (i + 1)..Len(net') PROVE keyOf[net'[j]] # keyOf[n]
    <3>1. j \in (i + 1)..Len(net) \/ j = Len(net) + 1
      BY <1>1
    <3>2. QED
      BY <1>1, <2>1, <3>1
  <2>4. QED
    BY ZenonT(30), <2>2, <2>3 DEF InNet
<1>3. ASSUME Applied(n) PROVE Applied(n)'
  <2>1. ASSUME NEW j \in 1..Len(net') PROVE keyOf[net'[j]] # keyOf[n]
    <3>1. j \in 1..Len(net) \/ j = Len(net) + 1
      BY <1>1
    <3>2. QED
      BY <1>1, <1>3, <3>1 DEF Applied
  <2>2. QED
    BY <1>3, <2>1 DEF Applied
<1>4. QED
  BY <1>2, <1>3

\* The frame just appended is on the wire.
LEMMA WireLast ==
  ASSUME TypeOK, NEW n \in 1..head, UNCHANGED keyOf, net' = Append(net, n)
  PROVE  InNet(n)'
<1>1. Len(net) \in Nat /\ Len(net') = Len(net) + 1 /\ net'[Len(net) + 1] = n
  BY AppendProperties, LenProperties DEF TypeOK
<1>2. Len(net) + 1 \in 1..Len(net') /\ \A j \in (Len(net) + 2)..Len(net') : FALSE
  BY <1>1
<1>3. QED
  BY <1>1, <1>2 DEF InNet

\* A step that changes neither the wire nor the replica's map, but may lengthen
\* the log, leaves what is on its way on its way.
LEMMA WayFrame ==
  ASSUME TypeOK, NEW n \in 1..head, head <= head', head' \in Nat,
         \A j \in 1..head : keyOf'[j] = keyOf[j], UNCHANGED <<boot, net, map>>
  PROVE  /\ Latest(n)' => Latest(n)
         /\ OnItsWay(n) => OnItsWay(n)'
<1>0. head \in Nat /\ Len(boot) \in Nat /\ Len(net) \in Nat
  BY ZenonT(30), LenProperties DEF TypeOK, head
<1>1. ASSUME Latest(n)', NEW j \in (n + 1)..head PROVE keyOf[j] # keyOf[n]
  <2>1. j \in (n + 1)..head' /\ j \in 1..head
    BY <1>0
  <2>2. keyOf'[j] # keyOf'[n]
    BY <1>1, <2>1 DEF Latest
  <2>3. QED
    BY <2>1, <2>2
<1>2. /\ \A i \in 1..Len(boot) : keyOf'[boot[i]] = keyOf[boot[i]]
      /\ \A i \in 1..Len(net) : keyOf'[net[i]] = keyOf[net[i]]
  BY ZenonT(30), ElementOfSeq DEF TypeOK
<1>3. InBoot(n) => InBoot(n)'
  BY <1>2 DEF InBoot
<1>4. InNet(n) => InNet(n)'
  <2>1. SUFFICES ASSUME NEW i \in 1..Len(net), net[i] = n,
                        \A j \in (i + 1)..Len(net) : keyOf[net[j]] # keyOf[n]
                 PROVE  InNet(n)'
    BY DEF InNet
  <2>2. \A j \in (i + 1)..Len(net) : keyOf'[net[j]] # keyOf'[n]
    BY <1>0, <1>2, <2>1
  <2>3. QED
    BY <2>1, <2>2 DEF InNet
<1>5. Applied(n) => Applied(n)'
  BY <1>2 DEF Applied
<1>6. QED
  BY <1>1, <1>3, <1>4, <1>5 DEF Latest, OnItsWay

LEMMA ArrivesBroadcast ==
  ASSUME TypeOK, QueueWhole, EarlySeen, Arrives, Broadcast, Clean'
  PROVE  Arrives'
<1> USE DEF logVars, live, conn, replica, hist
<1>0. /\ head \in Nat /\ early \in Nat /\ readAt \in Nat /\ head' = head
      /\ UNCHANGED <<keyOf, map, boot, gap, phase, readFrom, readAt, torn>>
      /\ phase \in {"send", "live"} /\ ~gap /\ ~torn
  BY LenProperties DEF TypeOK, head, Broadcast, Clean
<1>1. /\ relayed \in Nat /\ hand = relayed + 1 /\ hand \in 1..head
  BY <1>0, RelayedBounds DEF TypeOK, Broadcast
<1>2. relayed' = hand
  BY <1>0, RelayedStep DEF Next
<1>3. Clean
  <2>1. ~(early' > readAt)
    BY <1>0 DEF Clean, Overtaken
  <2>2. CASE phase = "live"
    BY <1>0, <2>1, <2>2 DEF Broadcast, Clean, Overtaken
  <2>3. CASE phase = "send"
    <3>1. early' = hand /\ early <= relayed
      BY <1>0, <2>3 DEF Broadcast, EarlySeen
    <3>2. ~(early > readAt)
      BY <1>0, <1>1, <2>1, <3>1
    <3>3. QED
      BY <1>0, <3>2 DEF Clean, Overtaken
  <2>4. QED
    BY <1>0, <2>2, <2>3
<1>4. net' = Append(net, hand)
  BY <1>0 DEF Broadcast
<1>5. ASSUME NEW n \in 1..head, Due(n)' PROVE OnItsWay(n)'
  <2>1. Latest(n) /\ readFrom < n /\ n <= hand
    BY <1>0, <1>2, <1>5 DEF Due, Latest
  <2>2. CASE n = hand
    BY <1>0, <1>4, <2>2, WireLast DEF OnItsWay
  <2>3. CASE n # hand
    <3>1. Due(n)
      BY <1>1, <2>1, <2>3 DEF Due
    <3>2. keyOf[hand] # keyOf[n]
      <4>1. hand \in (n + 1)..head
        BY <1>0, <1>1, <2>1, <2>3
      <4>2. QED
        BY <2>1, <4>1 DEF Latest
    <3>3. OnItsWay(n)
      BY <1>3, <3>1 DEF Arrives
    <3>4. InBoot(n) => InBoot(n)'
      BY <1>0 DEF InBoot
    <3>5. QED
      BY <1>0, <1>1, <1>4, <3>2, <3>3, <3>4, WireAppend DEF OnItsWay
  <2>4. QED
    BY <2>2, <2>3
<1>6. QED
  BY <1>0, <1>5 DEF Arrives

LEMMA ArrivesRead ==
  ASSUME TypeOK, QueueWhole, EarlySeen, Listing, BootRead, Clean'
  PROVE  Arrives'
<1> USE DEF logVars, live, conn, replica, hist
<1>0. /\ head \in Nat /\ early \in Nat /\ written \in Nat /\ rot \in Nat
      /\ listed[1] \in Nat /\ listed[2] \in Nat /\ rot <= written /\ written <= head
  BY LenProperties DEF TypeOK, head
<1> DEFINE a == listed[1]
<1>1. /\ UNCHANGED <<keyOf, gap, early, hand>> /\ phase = "read" /\ ~gap
      /\ boot' = Records(a, rot) \o Records(rot, written)
      /\ readFrom' = a /\ readAt' = written /\ a <= rot /\ a \in Nat
  BY ZenonT(30), <1>0 DEF BootRead, Closed, Clean, Listing
<1> HIDE DEF a
<1>2. head' = head
  BY <1>1 DEF head
<1>3. Len(boot') = written - a /\ \A i \in 1..(written - a) : boot'[i] = a + i
  <2>1. /\ Len(Records(a, rot) \o Records(rot, written)) = written - a
        /\ \A i \in 1..(written - a) : (Records(a, rot) \o Records(rot, written))[i] = a + i
    <3>1. a \in Nat /\ rot \in Nat /\ written \in Nat /\ a <= rot /\ rot <= written
      BY ZenonT(30), <1>0, <1>1
    <3>2. QED
      BY ZenonT(30), <3>1, RecordsJoin
  <2>2. QED
    BY <1>1, <2>1
<1>4. relayed \in Nat /\ relayed' = relayed
  BY <1>1, RelayedBounds, RelayedStep DEF Next, Broadcast
<1>5. relayed <= written
  BY <1>0, <1>1, <1>4 DEF EarlySeen, Clean, Overtaken
<1>6. ASSUME NEW n \in 1..head, Due(n)' PROVE InBoot(n)'
  <2>1. a < n /\ n <= written
    BY <1>0, <1>1, <1>4, <1>5, <1>6 DEF Due
  <2>2. n - a \in 1..(written - a) /\ a + (n - a) = n
    BY <1>0, <1>1, <2>1
  <2>3. n - a \in 1..Len(boot') /\ boot'[n - a] = n
    BY <1>3, <2>2
  <2>4. QED
    BY <2>3 DEF InBoot
<1>7. QED
  BY <1>2, <1>6 DEF Arrives, OnItsWay

LEMMA ArrivesSend ==
  ASSUME TypeOK, QueueWhole, EarlySeen, Booting, Arrives, BootSend, Clean'
  PROVE  Arrives'
<1> USE DEF logVars, live, conn, replica, hist
<1>0. /\ head \in Nat /\ early \in Nat /\ readAt \in Nat /\ Len(boot) \in Nat
      /\ UNCHANGED <<keyOf, map, gap, early, readFrom, readAt, torn, hand>>
      /\ phase = "send" /\ ~gap /\ ~torn /\ ~(early > readAt)
  BY LenProperties DEF TypeOK, head, BootSend, Clean, Overtaken
<1>1. head' = head
  BY ZenonT(30), <1>0 DEF head
<1>2. relayed \in Nat /\ relayed' = relayed
  BY <1>0, RelayedBounds, RelayedStep DEF Next, Broadcast
<1>3. relayed <= readAt
  BY <1>0, <1>2 DEF EarlySeen
<1>4. ASSUME NEW n \in 1..head, Due(n)' PROVE Latest(n) /\ Due(n) /\ OnItsWay(n) /\ n <= readAt
  <2>1. Due(n) /\ Latest(n) /\ n <= readAt
    BY <1>0, <1>1, <1>2, <1>3, <1>4 DEF Due, Latest
  <2>2. QED
    BY <1>0, <2>1 DEF Arrives, Clean, Overtaken
<1>5. CASE boot = <<>>
  <2>1. UNCHANGED <<boot, net>>
    BY ZenonT(30), <1>5 DEF BootSend
  <2>2. ASSUME NEW n \in 1..head, Due(n)' PROVE OnItsWay(n)'
    BY <1>0, <1>4, <2>1, <2>2 DEF OnItsWay, InBoot, InNet, Applied
  <2>3. QED
    BY <1>1, <2>2 DEF Arrives
<1>6. CASE boot # <<>>
  <2> DEFINE b == Head(boot)
  <2>1. boot' = Tail(boot) /\ net' = Append(net, b)
    BY <1>6 DEF BootSend
  <2>2. /\ b \in 1..head /\ b = boot[1] /\ Len(boot) >= 1 /\ Len(boot') = Len(boot) - 1
        /\ \A i \in 1..Len(boot') : boot'[i] = boot[i + 1]
    <3>1. boot \in Seq(1..head)
      BY DEF TypeOK
    <3>2. Len(boot) >= 1
      BY <1>0, <1>6, <3>1, EmptySeq
    <3>3. QED
      BY <1>0, <1>6, <2>1, <3>1, <3>2, HeadTailProperties
  <2> HIDE DEF b
  <2>3. \A i \in 1..Len(boot) : boot[i] = readAt - Len(boot) + i
    BY <1>0 DEF Booting
  <2>4. ASSUME NEW n \in 1..head, Due(n)' PROVE OnItsWay(n)'
    <3>1. Latest(n) /\ OnItsWay(n) /\ n <= readAt
      BY <1>4, <2>4
    <3>2. CASE keyOf[b] # keyOf[n]
      <4>1. ASSUME InBoot(n) PROVE InBoot(n)'
        <5>1. PICK i \in 1..Len(boot) : keyOf[boot[i]] = keyOf[n]
          BY <4>1 DEF InBoot
        <5>2. i # 1
          BY <2>2, <3>2, <5>1
        <5>3. i - 1 \in 1..Len(boot') /\ boot'[i - 1] = boot[i]
          BY <1>0, <2>2, <5>1, <5>2
        <5>4. QED
          BY <1>0, <5>1, <5>3 DEF InBoot
      <4>2. QED
        BY <1>0, <2>1, <2>2, <3>1, <3>2, <4>1, WireAppend DEF OnItsWay
    <3>3. CASE b = n
      BY <1>0, <2>1, <3>3, WireLast DEF OnItsWay
    <3>4. CASE keyOf[b] = keyOf[n] /\ b # n
      <4>1. b < n
        <5>1. b \notin (n + 1)..head
          BY <3>1, <3>4 DEF Latest
        <5>2. QED
          BY <1>0, <2>2, <3>4, <5>1
      <4> DEFINE i == n - (readAt - Len(boot)) - 1
      <4>2. b = readAt - Len(boot) + 1
        BY <1>0, <2>2, <2>3
      <4>3. i \in 1..Len(boot') /\ i + 1 \in 1..Len(boot)
        BY <1>0, <2>2, <3>1, <4>1, <4>2
      <4>4. boot'[i] = n
        <5>1. boot'[i] = boot[i + 1]
          BY <2>2, <4>3
        <5>2. boot[i + 1] = readAt - Len(boot) + (i + 1)
          BY <2>3, <4>3
        <5>3. QED
          BY <1>0, <5>1, <5>2
      <4>5. QED
        BY <4>3, <4>4 DEF OnItsWay, InBoot
    <3>5. QED
      BY <3>2, <3>3, <3>4
  <2>5. QED
    BY <1>1, <2>4 DEF Arrives
<1>7. QED
  BY <1>5, <1>6

LEMMA ArrivesApply ==
  ASSUME TypeOK, QueueWhole, Arrives, ApplyWALRecord, Clean'
  PROVE  Arrives'
<1> USE DEF logVars, live, conn, replica, hist
<1>0. /\ UNCHANGED <<keyOf, phase, boot, gap, early, readFrom, readAt, torn, hand>>
      /\ net # <<>> /\ net' = Tail(net) /\ ~gap
      /\ map' = [map EXCEPT ![keyOf[Head(net)]] = Head(net)]
  BY DEF ApplyWALRecord, Clean
<1>1. head' = head /\ Clean /\ head \in Nat
  BY ZenonT(30), <1>0, LenProperties DEF head, Clean, Overtaken, TypeOK
<1>2. relayed' = relayed
  BY <1>0, RelayedStep DEF Next, Broadcast
<1>3. /\ Head(net) \in 1..head /\ Head(net) = net[1] /\ Len(net) \in Nat /\ Len(net) >= 1
      /\ Len(net') = Len(net) - 1 /\ \A i \in 1..Len(net') : net'[i] = net[i + 1]
  <2>1. Len(net) \in Nat /\ Len(net) # 0
    BY <1>0, EmptySeq, LenProperties DEF TypeOK
  <2>2. Head(net) = net[1]
    BY <2>1 DEF TypeOK
  <2>3. /\ Head(net) \in 1..head /\ Len(net') = Len(net) - 1
        /\ \A i \in 1..Len(net') : net'[i] = net[i + 1]
    BY ZenonT(30), <1>0, HeadTailProperties DEF TypeOK
  <2>4. QED
    BY <2>1, <2>2, <2>3
<1>4. map \in [Keys -> 0..MaxSeq] /\ \A n \in 1..head : keyOf[n] \in Keys
  BY ZenonT(30), ElementOfSeq DEF TypeOK, Maps, head
<1>5. ASSUME NEW n \in 1..head, Due(n)' PROVE OnItsWay(n)'
  <2>1. OnItsWay(n)
    BY <1>0, <1>1, <1>2, <1>5 DEF Arrives, Due, Latest
  <2>2. InBoot(n) => InBoot(n)'
    BY <1>0 DEF InBoot
  <2>3. ASSUME InNet(n) PROVE InNet(n)' \/ Applied(n)'
    <3>1. PICK i \in 1..Len(net) : net[i] = n /\ \A j \in (i + 1)..Len(net) : keyOf[net[j]] # keyOf[n]
      BY <2>3 DEF InNet
    <3>2. ASSUME NEW j \in i..Len(net'), j >= 1 PROVE keyOf[net'[j]] # keyOf[n]
      <4>1. j + 1 \in (i + 1)..Len(net) /\ net'[j] = net[j + 1]
        BY <1>3, <3>1, <3>2
      <4>2. QED
        BY <3>1, <4>1
    <3>3. CASE i = 1
      <4>1. map'[keyOf[n]] = n
        BY <1>0, <1>3, <1>4, <3>1, <3>3
      <4>2. QED
        BY <1>0, <1>3, <3>2, <3>3, <4>1 DEF Applied
    <3>4. CASE i # 1
      <4>1. i - 1 \in 1..Len(net') /\ net'[i - 1] = n
        BY <1>3, <3>1, <3>4
      <4>2. \A j \in ((i - 1) + 1)..Len(net') : keyOf[net'[j]] # keyOf[n]
        BY <1>3, <3>1, <3>2
      <4>3. QED
        BY ZenonT(30), <1>0, <4>1, <4>2 DEF InNet
    <3>5. QED
      BY <3>3, <3>4
  <2>4. ASSUME Applied(n) PROVE Applied(n)'
    <3>1. keyOf[Head(net)] # keyOf[n]
      BY <1>3, <2>4 DEF Applied
    <3>2. map'[keyOf[n]] = n
      BY <1>0, <1>4, <2>4, <3>1 DEF Applied
    <3>3. ASSUME NEW j \in 1..Len(net') PROVE keyOf[net'[j]] # keyOf[n]
      <4>1. j + 1 \in 1..Len(net) /\ net'[j] = net[j + 1]
        BY <1>3
      <4>2. QED
        BY <2>4, <4>1 DEF Applied
    <3>4. QED
      BY <1>0, <3>2, <3>3 DEF Applied
  <2>5. QED
    BY <2>1, <2>2, <2>3, <2>4 DEF OnItsWay
<1>6. QED
  BY <1>1, <1>5 DEF Arrives

LEMMA ArrivesStep ==
  TypeOK /\ QueueWhole /\ EarlySeen /\ Listing /\ Booting /\ Arrives /\ [Next]_vars => Arrives'
<1> SUFFICES ASSUME TypeOK, QueueWhole, EarlySeen, Listing, Booting, Arrives, [Next]_vars, Clean'
             PROVE  Arrives'
  BY DEF Arrives
<1> USE DEF logVars, live, conn, replica, hist
<1>0. head \in Nat /\ Len(keyOf) = head /\ keyOf \in Seq(Keys)
  BY LenProperties DEF TypeOK, head
<1>1. CASE Broadcast
  BY <1>1, ArrivesBroadcast
<1>2. CASE BootRead
  BY <1>2, ArrivesRead
<1>3. CASE BootSend
  BY <1>3, ArrivesSend
<1>4. CASE ApplyWALRecord
  BY <1>4, ArrivesApply
<1>5. phase' \in {"send", "live"} /\ ~gap'
  BY DEF Clean
<1>6. ASSUME ~gap, ~Broadcast, UNCHANGED <<phase, boot, net, map, readFrom, readAt, early, torn>>,
             head <= head', head' \in Nat, \A j \in 1..head : keyOf'[j] = keyOf[j],
             head' = head \/ (head' = head + 1 /\ notified = head)
      PROVE  Arrives'
  <2>1. Clean /\ relayed' = relayed /\ relayed <= head
    BY <1>5, <1>6, RelayedStep, RelayedBounds DEF Clean, Overtaken
  <2>2. ASSUME NEW n \in 1..head', Due(n)' PROVE OnItsWay(n)'
    <3>1. n \in 1..head /\ readFrom < n /\ n <= relayed /\ Latest(n)'
      BY <1>0, <1>5, <1>6, <2>1, <2>2, RelayedBounds DEF Due
    <3>2. Latest(n) /\ (OnItsWay(n) => OnItsWay(n)')
      BY ZenonT(30), <1>6, <3>1, WayFrame
    <3>3. QED
      BY ZenonT(30), <2>1, <3>1, <3>2 DEF Arrives, Due
  <2>3. QED
    BY <2>2 DEF Arrives
<1>7. ASSUME NEW k \in Keys, Write(k) PROVE Arrives'
  <2>1. /\ UNCHANGED <<gap, hand, phase, boot, net, map, readFrom, readAt, early, torn>>
        /\ keyOf' = Append(keyOf, k) /\ notified = head
    BY ZenonT(30), <1>7 DEF Write
  <2>2. head' = head + 1 /\ \A j \in 1..head : keyOf'[j] = keyOf[j]
    BY <1>0, <2>1, AppendProperties DEF head
  <2>3. ~Broadcast /\ ~gap
    BY <1>5, <2>1 DEF Broadcast
  <2>4. QED
    BY <1>0, <1>6, <2>1, <2>2, <2>3
<1>8. CASE Notify \/ Subscribe \/ Rotate \/ CompactThrough \/ Relay \/ ReplicaCheckpoint \/ UNCHANGED vars
  <2>1. /\ UNCHANGED <<keyOf, phase, boot, net, map, readFrom, readAt, early, torn>>
        /\ ~gap /\ (hand = 0 \/ hand' = hand)
    <3>1. CASE Notify
      BY <1>5, <3>1 DEF Notify
    <3>2. CASE Subscribe
      BY <1>5, <3>2 DEF Subscribe
    <3>3. CASE Rotate
      BY <1>5, <3>3 DEF Rotate
    <3>4. CASE CompactThrough
      BY <1>5, <3>4 DEF CompactThrough
    <3>5. CASE Relay
      BY <1>5, <3>5 DEF Relay
    <3>6. CASE ReplicaCheckpoint
      BY <1>5, <3>6 DEF ReplicaCheckpoint
    <3>7. CASE UNCHANGED vars
      BY <1>5, <3>7 DEF vars
    <3>8. QED
      BY ZenonT(30), <1>8, <3>1, <3>2, <3>3, <3>4, <3>5, <3>6, <3>7
  <2>2. ~Broadcast
    BY <2>1 DEF Broadcast
  <2>3. head' = head
    BY ZenonT(30), <2>1 DEF head
  <2>4. QED
    BY <1>0, <1>6, <2>1, <2>2, <2>3
<1>9. CASE Connect \/ BootSync \/ BootList \/ ConnFail \/ Stop \/ ReplicaRestart
  BY <1>5, <1>9 DEF Connect, BootSync, BootList, ConnFail, Stop, ReplicaRestart, Closed
<1>10. QED
  BY <1>1, <1>2, <1>3, <1>4, <1>7, <1>8, <1>9 DEF Next

-----------------------------------------------------------------------------
(* Convergence.                                                             *)

StreamInv == TypeOK /\ QueueWhole /\ EarlySeen /\ Listing /\ Booting /\ Arrives

LEMMA StreamInit == Init => StreamInv
<1> SUFFICES ASSUME Init PROVE StreamInv
  OBVIOUS
<1>1. TypeOK
  BY TypeInit
<1>2. hand = 0 /\ phase = "none" /\ early = 0 /\ notified = 0 /\ gap = FALSE
  BY DEF Init
<1>3. Len(liveCh) = 0
  BY EmptySeq DEF Init
<1>4. QueueWhole
  BY <1>2, <1>3 DEF QueueWhole
<1>5. relayed = 0
  BY <1>2, <1>3 DEF relayed
<1>6. EarlySeen /\ Listing /\ Booting /\ Arrives
  BY <1>2, <1>5 DEF EarlySeen, Listing, Booting, Arrives, Clean
<1>7. QED
  BY <1>1, <1>4, <1>6 DEF StreamInv

\* A non-empty set of natural numbers has a least member.
LEMMA LeastOf ==
  ASSUME NEW D \in SUBSET Nat, D # {}
  PROVE  \E d \in D : \A e \in D : d <= e
<1> DEFINE R == OpToRel(<, Nat)
<1>1. \A x, y \in Nat : <<x, y>> \in R <=> x < y
  BY DEF OpToRel
<1>2. IsWellFoundedOn(R, Nat)
  BY ZenonT(30), NatLessThanWellFounded
<1> HIDE DEF R
<1>3. PICK d \in D : \A e \in D : ~ (<<e, d>> \in R)
  BY ZenonT(30), <1>2, WFMin
<1>4. \A e \in D : e \in Nat /\ d \in Nat /\ ~(e < d)
  BY ZenonT(30), <1>1, <1>3
<1>5. QED
  BY <1>4

\* The primary's value of a key is the last record that writes it.
LEMMA LastWriteIsLatest ==
  ASSUME TypeOK, NEW k \in Keys
  PROVE  /\ LastWrite(k) \in 0..head
         /\ LastWrite(k) # 0 => keyOf[LastWrite(k)] = k /\ Latest(LastWrite(k))
<1> DEFINE T == {0} \cup {n \in 1..head : keyOf[n] = k}
           D == {head - n : n \in T}
<1>0. head \in Nat
  BY ZenonT(30), LenProperties DEF TypeOK, head
<1>1. D \in SUBSET Nat /\ D # {} /\ T \subseteq 0..head
  BY <1>0
<1>2. PICK d \in D : \A e \in D : d <= e
  <2> HIDE DEF D
  <2>1. QED
    BY <1>1, LeastOf
<1>3. PICK m \in T : d = head - m
  BY ZenonT(30), <1>2
<1>4. \A n \in T : m >= n
  <2>1. SUFFICES ASSUME NEW n \in T PROVE m >= n
    OBVIOUS
  <2>2. head - m <= head - n
    BY ZenonT(30), <1>2, <1>3
  <2>3. QED
    BY <1>0, <1>1, <2>2
<1>5. LastWrite(k) \in T /\ \A n \in T : LastWrite(k) >= n
  BY ZenonT(30), <1>4 DEF LastWrite, Max
<1> HIDE DEF T
<1>6. LastWrite(k) \in 0..head /\ (LastWrite(k) # 0 => keyOf[LastWrite(k)] = k)
  BY ZenonT(30), <1>1, <1>5 DEF T
<1>7. ASSUME NEW j \in (LastWrite(k) + 1)..head PROVE keyOf[j] # k
  <2>1. j \in 1..head /\ ~(LastWrite(k) >= j)
    BY <1>0, <1>6
  <2>2. QED
    BY ZenonT(30), <1>5, <2>1 DEF T
<1>8. QED
  BY ZenonT(30), <1>6, <1>7 DEF Latest

LEMMA StreamMeans == StreamInv => QuietReplicaConverged
<1> SUFFICES ASSUME StreamInv, Quiet, ~gap, ~Overtaken, ~torn,
                    NEW k \in Keys, LastWrite(k) > readFrom
             PROVE  map[k] = LastWrite(k)
  BY DEF QuietReplicaConverged
<1> DEFINE n == LastWrite(k)
<1>1. TypeOK /\ Booting /\ Arrives
  BY DEF StreamInv
<1>2. /\ phase = "live" /\ Len(net) = 0 /\ Len(boot) = 0 /\ Len(liveCh) = 0
      /\ hand = 0 /\ notified = head
  BY ZenonT(30), <1>1, EmptySeq DEF Quiet, Booting
<1>3. readFrom \in Nat /\ head \in Nat
  BY <1>1, LenProperties DEF TypeOK, head
<1>4. n \in 1..head /\ keyOf[n] = k /\ Latest(n)
  <2>1. n \in 0..head /\ (n # 0 => keyOf[n] = k /\ Latest(n))
    BY ZenonT(30), <1>1, LastWriteIsLatest
  <2>2. QED
    BY <1>3, <2>1
<1> HIDE DEF n
<1>5. relayed = head
  BY <1>1, <1>2, LenProperties DEF relayed, TypeOK, head
<1>6. OnItsWay(n)
  BY <1>1, <1>2, <1>4, <1>5 DEF Arrives, Clean, Due, n
<1>7. Applied(n)
  BY <1>2, <1>6 DEF OnItsWay, InBoot, InNet
<1>8. QED
  BY <1>4, <1>7 DEF Applied, n

\* When nothing is on its way to the replica, it holds the primary's value of
\* every key written since the log was last compacted, whatever the writes,
\* rotations, dropped connections and restarts on the way, unless the
\* connection met one of the three hazards: a frame BroadcastRecord dropped, a
\* live frame that overtook bootstrap, a rotation while ReadAll was reading.
THEOREM Converged == Spec => []QuietReplicaConverged
<1>1. Init => StreamInv
  BY StreamInit
<1>2. StreamInv /\ [Next]_vars => StreamInv'
  BY TypeStep, QueueStep, EarlyStep, ListingStep, BootingStep, ArrivesStep DEF StreamInv
<1>3. QED
  BY <1>1, <1>2, StreamMeans, PTL DEF Spec

=============================================================================
