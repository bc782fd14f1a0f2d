---------------------------- MODULE Replication -----------------------------
(***************************************************************************)
(* Asynchronous WAL replication of one tenant: a primary's stream (live    *)
(* buffer, relay, bootstrap of each admitted connection from the log) and  *)
(* one replica that applies what it receives and reconnects when the       *)
(* connection fails.                                                       *)
(*                                                                         *)
(* Record n of the log writes key keyOf[n]; its value is n itself, so a    *)
(* map is the number of the record each key was last set by (0: none).     *)
(* The log is an archived segment <<base, rot]] and wal.log <<rot, head]], *)
(* of which the frames up to written are visible to a reader of the file.  *)
(* The sealed frames of a connection arrive in order or not at all, so the *)
(* connection is a sequence that is lost as a whole when it fails.         *)
(***************************************************************************)
EXTENDS Integers, Sequences, FiniteSetsExt

CONSTANTS
  Keys,
  LiveBuffer,    \* liveReplicationBuffer, the capacity of liveCh
  MaxSeq,        \* bound: records written
  MaxFails,      \* bound: connection failures and replica restarts
  MaxRotations   \* bound: log rotations

ASSUME BoundsAssumption ==
  /\ LiveBuffer \in Nat \ {0} /\ MaxSeq \in Nat \ {0}
  /\ MaxFails \in Nat /\ MaxRotations \in Nat

VARIABLES
  \* the primary's log
  keyOf,       \* the key of each record
  base,        \* records up to here are compacted away
  rot,         \* records up to here are in the archived segment
  written,     \* records up to here have left the process buffer
  rotations,
  \* the primary's stream
  subscribed,  \* BroadcastRecord is among the log's subscribers
  notified,    \* the last record handed to the subscribers
  liveCh,      \* live frames waiting for relay
  hand,        \* the frame relay has taken, 0 if none
  stopped,
  \* the connection, as admit goes through it
  phase,       \* none, sync, list, read, send, live
  listed,      \* the archived segment <<base, rot>> ReadAll found in the directory
  boot,        \* records still to be sent by the bootstrap
  net,         \* frames on the wire
  \* the replica
  map,
  saved,       \* the map in its own last checkpoint
  fails,
  \* history, of the current connection
  readFrom,    \* the bootstrap has the log's records above readFrom
  readAt,      \* ... up to readAt
  early,       \* last live frame sent before the bootstrap had ended
  gap,         \* a live frame was dropped while older ones could still arrive
  torn         \* the log was rotated between the listing and the reading

logVars == <<keyOf, base, rot, written, rotations>>
live == <<subscribed, notified, liveCh, hand, stopped>>
conn == <<phase, listed, boot, net>>
replica == <<map, saved, fails>>
hist == <<readFrom, readAt, early, gap, torn>>
vars == <<logVars, live, conn, replica, hist>>

head == Len(keyOf)
Maps == [Keys -> 0..MaxSeq]
Blank == [k \in Keys |-> 0]

\* The primary's store: the last record of each key.
LastWrite(k) == Max({0} \cup {n \in 1..head : keyOf[n] = k})

\* The records after a, up to b, in order.
Records(a, b) == [i \in 1..(IF a < b THEN b - a ELSE 0) |-> a + i]

Init ==
  /\ keyOf = <<>> /\ base = 0 /\ rot = 0 /\ written = 0 /\ rotations = 0
  /\ subscribed = FALSE /\ notified = 0 /\ liveCh = <<>> /\ hand = 0 /\ stopped = FALSE
  /\ phase = "none" /\ listed = <<0, 0>> /\ boot = <<>> /\ net = <<>>
  /\ map = Blank /\ saved = Blank /\ fails = 0
  /\ readFrom = 0 /\ readAt = 0 /\ early = 0 /\ gap = FALSE /\ torn = FALSE

-----------------------------------------------------------------------------
(* The primary's log.                                                      *)

\* The flusher appends a record (and acknowledges it) once it has notified
\* the subscribers of the previous one.
Write(k) ==
  /\ head < MaxSeq /\ notified = head
  /\ keyOf' = Append(keyOf, k)
  /\ written' \in {written, head + 1}
  /\ UNCHANGED <<base, rot, rotations, live, conn, replica, hist>>

\* Mutant: a blocking or unbounded enqueue instead of select with a default.
Notify_Unbounded ==
  /\ notified < head
  /\ notified' = head
  /\ IF subscribed /\ ~stopped
       THEN liveCh' = Append(liveCh, head) /\ UNCHANGED gap
       ELSE gap' = TRUE /\ UNCHANGED liveCh
  /\ UNCHANGED <<logVars, subscribed, hand, stopped, conn, replica,
                 readFrom, readAt, early, torn>>

\* notifySubs: BroadcastRecord enqueues the frame, or drops it when liveCh is
\* full.  Without the subscription nobody is told.
Notify ==
  /\ notified < head
  /\ notified' = head
  /\ IF subscribed /\ ~stopped /\ Len(liveCh) < LiveBuffer
       THEN liveCh' = Append(liveCh, head) /\ UNCHANGED gap
       ELSE gap' = TRUE /\ UNCHANGED liveCh
  /\ UNCHANGED <<logVars, subscribed, hand, stopped, conn, replica,
                 readFrom, readAt, early, torn>>

\* BecomePrimary accepts writes and starts the listener first.
Subscribe ==
  /\ ~subscribed
  /\ subscribed' = TRUE
  /\ UNCHANGED <<logVars, notified, liveCh, hand, stopped, conn, replica, hist>>

\* Checkpoint: wal.log is flushed and archived, then the archive is removed.
Rotate ==
  /\ base = rot /\ rot < head /\ rotations < MaxRotations
  /\ rot' = head /\ written' = head /\ rotations' = rotations + 1
  /\ UNCHANGED <<keyOf, base, live, conn, replica, hist>>

CompactThrough ==
  /\ base < rot
  /\ base' = rot
  /\ UNCHANGED <<keyOf, rot, written, rotations, live, conn, replica, hist>>

-----------------------------------------------------------------------------
(* The primary's stream.                                                   *)

\* The connection is gone on both sides, with whatever was on the wire.
Closed ==
  /\ phase' = "none" /\ listed' = <<0, 0>> /\ boot' = <<>> /\ net' = <<>>
  /\ readFrom' = 0 /\ readAt' = 0 /\ early' = 0 /\ torn' = FALSE

\* The replica dials, both handshake, and addReplica registers the connection
\* for live frames.
Connect ==
  /\ phase = "none" /\ ~stopped
  /\ phase' = "sync"
  /\ gap' = (gap /\ (liveCh # <<>> \/ hand # 0))
  /\ UNCHANGED <<logVars, live, listed, boot, net, replica, readFrom, readAt, early, torn>>

\* Mutant: bootstrap reads the files without flushing the log first.
BootSync_NoSync ==
  /\ phase = "sync"
  /\ phase' = "list"
  /\ UNCHANGED <<logVars, live, listed, boot, net, replica, hist>>

\* bootstrap: WAL.Sync flushes the log's buffer ...
BootSync ==
  /\ phase = "sync"
  /\ written' = head
  /\ phase' = "list"
  /\ UNCHANGED <<keyOf, base, rot, rotations, live, listed, boot, net, replica, hist>>

\* ... ReadAll lists the segments of the directory ...
BootList ==
  /\ phase = "list"
  /\ listed' = <<base, rot>>
  /\ phase' = "read"
  /\ UNCHANGED <<logVars, live, boot, net, replica, hist>>

\* Mutant: a failed ReadAll ends the bootstrap and leaves the connection open.
BootRead_KeepsConn ==
  /\ phase = "read"
  /\ ~(listed[1] < listed[2] /\ base >= listed[2])
  /\ boot' = Records(listed[1], listed[2]) \o Records(rot, written)
  /\ readFrom' = listed[1] /\ readAt' = written
  /\ torn' = (rot # listed[2])
  /\ phase' = "send"
  /\ UNCHANGED <<logVars, live, listed, net, replica, early, gap>>

\* ... and opens them by name: a listed archive that was compacted meanwhile
\* is an error, and wal.log is by then whatever follows the last rotation.
BootRead ==
  /\ phase = "read"
  /\ IF listed[1] < listed[2] /\ base >= listed[2]
       THEN Closed /\ UNCHANGED gap
       ELSE /\ boot' = Records(listed[1], listed[2]) \o Records(rot, written)
            /\ readFrom' = listed[1] /\ readAt' = written
            /\ torn' = (rot # listed[2])
            /\ phase' = "send"
            /\ UNCHANGED <<listed, net, early, gap>>
  /\ UNCHANGED <<logVars, live, replica>>

\* The records are sent one by one; the connection stays registered.
BootSend ==
  /\ phase = "send"
  /\ IF boot = <<>>
       THEN phase' = "live" /\ UNCHANGED <<boot, net>>
       ELSE boot' = Tail(boot) /\ net' = Append(net, Head(boot)) /\ UNCHANGED phase
  /\ UNCHANGED <<logVars, live, listed, replica, hist>>

\* relay takes the next live frame ...
Relay ==
  /\ hand = 0 /\ liveCh # <<>> /\ ~stopped
  /\ hand' = Head(liveCh) /\ liveCh' = Tail(liveCh)
  /\ UNCHANGED <<logVars, subscribed, notified, stopped, conn, replica, hist>>

\* ... and Broadcast sends it on every registered connection.
Broadcast ==
  /\ hand # 0
  /\ hand' = 0
  /\ net' = IF phase = "none" THEN net ELSE Append(net, hand)
  /\ early' = IF phase \in {"none", "live"} THEN early ELSE hand
  /\ UNCHANGED <<logVars, subscribed, notified, liveCh, stopped, phase, listed, boot,
                 replica, readFrom, readAt, gap, torn>>

\* A send fails or misses its deadline, the replica goes away: both ends close.
ConnFail ==
  /\ phase # "none" /\ fails < MaxFails
  /\ fails' = fails + 1
  /\ Closed
  /\ UNCHANGED <<logVars, live, map, saved, gap>>

\* PrimaryStream.Stop closes the listener and every connection.
Stop ==
  /\ ~stopped
  /\ stopped' = TRUE
  /\ Closed
  /\ UNCHANGED <<logVars, subscribed, notified, liveCh, hand, replica, gap>>

-----------------------------------------------------------------------------
(* The replica.                                                            *)

\* consumeStream: ApplyWALRecord sets the key, whatever it holds.
ApplyWALRecord ==
  /\ net # <<>>
  /\ map' = [map EXCEPT ![keyOf[Head(net)]] = Head(net)]
  /\ net' = Tail(net)
  /\ UNCHANGED <<logVars, live, phase, listed, boot, saved, fails, hist>>

\* The replica's own checkpoints are all it has on disk: applied records are
\* not written to its log.
ReplicaCheckpoint ==
  /\ saved # map
  /\ saved' = map
  /\ UNCHANGED <<logVars, live, conn, map, fails, hist>>

ReplicaRestart ==
  /\ fails < MaxFails
  /\ fails' = fails + 1
  /\ map' = saved
  /\ Closed
  /\ UNCHANGED <<logVars, live, saved, gap>>

-----------------------------------------------------------------------------
Next ==
  \/ \E k \in Keys : Write(k)
  \/ Notify \/ Subscribe \/ Rotate \/ CompactThrough
  \/ Connect \/ BootSync \/ BootList \/ BootRead \/ BootSend
  \/ Relay \/ Broadcast \/ ConnFail \/ Stop
  \/ ApplyWALRecord \/ ReplicaCheckpoint \/ ReplicaRestart

Spec == Init /\ [][Next]_vars

\* The flusher, relay, the bootstrap goroutine and the replica's loop run; the
\* replica redials for ever.
FairSpec ==
  /\ Spec
  /\ WF_vars(Notify) /\ WF_vars(Relay) /\ WF_vars(Broadcast)
  /\ WF_vars(Connect) /\ WF_vars(BootSync) /\ WF_vars(BootList)
  /\ WF_vars(BootRead) /\ WF_vars(BootSend) /\ WF_vars(ApplyWALRecord)

-----------------------------------------------------------------------------
(* Properties.                                                             *)

\* Every variable of the stream, the log and the replica keeps its type, and
\* liveCh its capacity.
TypeOK ==
  /\ keyOf \in Seq(Keys) /\ head <= MaxSeq
  /\ base <= rot /\ rot <= written /\ written <= head
  /\ base \in Nat /\ rot \in Nat /\ written \in Nat /\ rotations \in 0..MaxRotations
  /\ subscribed \in BOOLEAN /\ notified \in Nat \cap {head, head - 1}
  /\ liveCh \in Seq(1..head) /\ Len(liveCh) <= LiveBuffer
  /\ hand \in 0..head /\ stopped \in BOOLEAN
  /\ phase \in {"none", "sync", "list", "read", "send", "live"}
  /\ listed \in (0..head) \X (0..head)
  /\ boot \in Seq(1..head) /\ net \in Seq(1..head)
  /\ map \in Maps /\ saved \in Maps /\ fails \in 0..MaxFails
  /\ readFrom \in 0..head /\ readAt \in 0..head /\ early \in 0..head
  /\ gap \in BOOLEAN /\ torn \in BOOLEAN

\* Nothing is on its way to the connected replica.
Quiet ==
  /\ phase = "live" /\ net = <<>> /\ liveCh = <<>> /\ hand = 0 /\ notified = head

\* A live frame newer than the bootstrap's last record was sent before it.
Overtaken == early > readAt

\* When the stream has nothing more to send, the replica has the primary's
\* value of every key written since the last compaction, unless a live frame
\* was dropped (liveCh full, or no subscription yet), a live frame overtook
\* the bootstrap, or the log was rotated while bootstrap was reading it.
QuietReplicaConverged ==
  Quiet /\ ~gap /\ ~Overtaken /\ ~torn =>
    \A k \in Keys : LastWrite(k) > readFrom => map[k] = LastWrite(k)

\* The comment of BroadcastRecord: after a dropped frame "the replica catches
\* up on the next reconnect bootstrap".  Here that bootstrap has read the whole
\* log, and everything sent has been applied.
CatchesUpOnReconnect ==
  Quiet /\ readFrom = 0 /\ readAt = head /\ ~torn =>
    \A k \in Keys : map[k] = LastWrite(k)

\* Once writes and connection failures stop, bootstrap, relay and the replica
\* get through what they have to send and apply: the redial loop of a replica
\* whose bootstrap fails on a compacted segment ends too.
StreamDrains == <>[](stopped \/ Quiet)

=============================================================================
