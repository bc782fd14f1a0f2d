------------------------- MODULE TenantServerProofs -------------------------
(***************************************************************************)
(* What TenantServer promises, proved for any number of connections, slots, *)
(* commands and ticks.  The induction rests on mutationMu: its holder is    *)
(* one command between the lock and the reply, or one checkpoint between    *)
(* the lock and the end of the rotation.                                    *)
(***************************************************************************)
EXTENDS TenantServer, FiniteSetTheorems, TLAPS

USE SMTT(30), ZenonT(30)

Holding == {"append", "wait", "apply"}
Registered == {"reading", "execute"} \cup Holding
Slotted == {"slot", "leaving"} \cup Registered
Places == {"none", "accepted", "gone"} \cup Slotted

Working == {"sync", "save", "rotate"}
Checkpointers == {"stop", "task"}

Types ==
  /\ listener \in {"none", "open", "closed"} /\ done \in BOOLEAN
  /\ sock \in [Conns -> {"open", "closed"}] /\ at \in [Conns -> Places]
  /\ cmds \in [Conns -> Nat]
  /\ stop \in {"no", "shutdown", "sweep", "checkpoint", "close", "closing", "returned"}
              \cup Working
  /\ task \in {"idle", "checkpoint", "ended"} \cup Working

\* mutationMu is held by who is in its critical section, and by nobody else.
Excluded ==
  /\ \A c \in Conns : at[c] \in Holding <=> mutationMu = Holder("command", c)
  /\ \A g \in Checkpointers : Where(g) \in Working <=> mutationMu = Holder("checkpoint", g)

\* The channel holds the record of the command that waits for it, and no other.
InChannel ==
  /\ \A c \in Conns : at[c] = "wait" => recordCh = <<Write(c)>>
  /\ recordCh # <<>> => \E c \in Conns : at[c] = "wait" /\ recordCh = <<Write(c)>>

\* A write is in the log before it is applied, and a checkpoint that is about to
\* rotate has saved all that was acknowledged.
Ordered ==
  /\ acked = store
  /\ \A c \in Conns : at[c] = "apply" => Write(c) \in log
  /\ \A g \in Checkpointers : Where(g) = "rotate" => acked \subseteq ckpt

KeptInv == Types /\ Excluded /\ InChannel /\ Ordered /\ AckedKept

-----------------------------------------------------------------------------
\* The lock's values tell its holders apart.
LEMMA Holders ==
  /\ \A kind, who : Holder(kind, who) # Free
  /\ \A k1, w1, k2, w2 : Holder(k1, w1) = Holder(k2, w2) => k1 = k2 /\ w1 = w2
BY DEF Holder, Free

LEMMA OneRecord ==
  ASSUME NEW c, NEW n
  PROVE  Head(<<<<c, n>>>>) = <<c, n>> /\ Tail(<<<<c, n>>>>) = <<>> /\ <<c, n>>[1] = c
OBVIOUS

\* The flusher writes the record of the command that waits for it.
LEMMA Flushed ==
  ASSUME NEW c \in Conns, recordCh = <<Write(c)>>, Flush
  PROVE  /\ recordCh' = <<>> /\ log' = log \cup {Write(c)}
         /\ at' = [at EXCEPT ![c] = "apply"]
<1>1. Head(recordCh) = Write(c) /\ Tail(recordCh) = <<>>
  BY OneRecord DEF Write
<1>2. Write(c)[1] = c
  BY DEF Write
<1>3. /\ recordCh' = Tail(recordCh) /\ log' = log \cup {Head(recordCh)}
      /\ at' = [at EXCEPT ![Head(recordCh)[1]] = "apply"]
  BY DEF Flush
<1>4. QED
  BY ZenonT(30), <1>1, <1>2, <1>3

LEMMA TypesStep == Types /\ [Next]_vars => Types'
<1> SUFFICES ASSUME Types, [Next]_vars PROVE Types'
  OBVIOUS
<1> USE DEF Types, Places, Slotted, Registered, Holding, Working, server, wal
<1>1. CASE UNCHANGED vars
  BY <1>1 DEF vars
<1>2. CASE Listen \/ CloseListener
  BY <1>2 DEF Listen, CloseListener
<1>3. ASSUME NEW c \in Conns,
             Accept(c) \/ TakeSlot(c) \/ Register(c) \/ ReadCommand(c) \/ Hangup(c)
               \/ Unregister(c) \/ FreeSlot(c)
      PROVE  Types'
  BY <1>3 DEF Accept, TakeSlot, Register, ReadCommand, Hangup, Unregister, FreeSlot
<1>4. ASSUME NEW c \in Conns,
             LockMutation(c) \/ WriteStopped(c) \/ AppendRecord(c) \/ Dispatch(c)
      PROVE  Types'
  BY <1>4 DEF LockMutation, WriteStopped, AppendRecord, Dispatch, Errors
<1>5. CASE Flush \/ FlusherEnds
  BY <1>5 DEF Flush, FlusherEnds
<1>6. ASSUME NEW g \in Checkpointers,
             CheckpointLock(g) \/ CheckpointSync(g) \/ CheckpointSave(g) \/ CheckpointRotate(g)
      PROVE  Types'
  BY <1>6 DEF CheckpointLock, CheckpointSync, CheckpointSave, CheckpointRotate, CheckpointDone,
              GoTo, Checkpointers
<1>7. CASE Tick \/ TaskEnds
  BY <1>7 DEF Tick, TaskEnds
<1>8. CASE Cancel \/ Shutdown \/ Sweep \/ CloseChannel \/ CloseFile
  BY ZenonT(30), <1>8 DEF Cancel, Shutdown, Sweep, CloseChannel, CloseFile
<1>9. QED
  BY <1>1, <1>2, <1>3, <1>4, <1>5, <1>6, <1>7, <1>8 DEF Next, Checkpointers

LEMMA ExcludedStep == Types /\ Excluded /\ InChannel /\ [Next]_vars => Excluded'
<1> SUFFICES ASSUME Types, Excluded, InChannel, [Next]_vars PROVE Excluded'
  OBVIOUS
<1> USE DEF Types, Excluded, Places, Slotted, Registered, Holding, Working, Checkpointers,
            Where, server, wal
<1>1. CASE UNCHANGED vars
  BY <1>1 DEF vars
<1>2. CASE Listen \/ CloseListener
  BY <1>2 DEF Listen, CloseListener
<1>3. ASSUME NEW c \in Conns,
             Accept(c) \/ TakeSlot(c) \/ Register(c) \/ ReadCommand(c) \/ Hangup(c)
               \/ Unregister(c) \/ FreeSlot(c)
      PROVE  Excluded'
  BY <1>3 DEF Accept, TakeSlot, Register, ReadCommand, Hangup, Unregister, FreeSlot
<1>4. ASSUME NEW c \in Conns,
             LockMutation(c) \/ WriteStopped(c) \/ AppendRecord(c) \/ Dispatch(c)
      PROVE  Excluded'
  BY <1>4, Holders DEF LockMutation, WriteStopped, AppendRecord, Dispatch, Errors
<1>5. CASE Flush
  BY <1>5 DEF Flush, InChannel, Write
<1>6. CASE FlusherEnds
  BY <1>6 DEF FlusherEnds
<1>7. ASSUME NEW g \in Checkpointers,
             CheckpointLock(g) \/ CheckpointSync(g) \/ CheckpointSave(g) \/ CheckpointRotate(g)
      PROVE  Excluded'
  BY <1>7, Holders DEF CheckpointLock, CheckpointSync, CheckpointSave, CheckpointRotate, CheckpointDone,
              GoTo
<1>8. CASE Tick \/ TaskEnds
  BY <1>8 DEF Tick, TaskEnds
<1>9. CASE Cancel \/ Shutdown \/ Sweep \/ CloseChannel \/ CloseFile
  BY <1>9 DEF Cancel, Shutdown, Sweep, CloseChannel, CloseFile
<1>10. QED
  BY <1>1, <1>2, <1>3, <1>4, <1>5, <1>6, <1>7, <1>8, <1>9 DEF Next

LEMMA InChannelStep == Types /\ Excluded /\ InChannel /\ [Next]_vars => InChannel'
<1> SUFFICES ASSUME Types, Excluded, InChannel, [Next]_vars PROVE InChannel'
  OBVIOUS
<1> USE DEF Types, InChannel, Places, Slotted, Registered, Holding, Write, server, wal
<1>1. CASE UNCHANGED vars
  BY <1>1 DEF vars
<1>2. CASE Listen \/ CloseListener
  BY <1>2 DEF Listen, CloseListener
<1>3. ASSUME NEW c \in Conns,
             Accept(c) \/ TakeSlot(c) \/ Register(c) \/ ReadCommand(c) \/ Hangup(c)
               \/ Unregister(c) \/ FreeSlot(c)
      PROVE  InChannel'
  BY <1>3 DEF Accept, TakeSlot, Register, ReadCommand, Hangup, Unregister, FreeSlot
<1>4. ASSUME NEW c \in Conns, LockMutation(c) \/ WriteStopped(c) \/ Dispatch(c)
      PROVE  InChannel'
  BY <1>4 DEF LockMutation, WriteStopped, Dispatch, Errors
<1>5. ASSUME NEW c \in Conns, AppendRecord(c)
      PROVE  InChannel'
  <2>1. \A d \in Conns : at[d] = "wait" => d = c
    BY <1>5, Holders DEF AppendRecord, Excluded
  <2>2. recordCh = <<>>
    BY <1>5, <2>1 DEF AppendRecord
  <2>3. CASE chClosed
    BY <1>5, <2>1, <2>2, <2>3 DEF AppendRecord, Errors
  <2>4. CASE ~chClosed
    BY <1>5, <2>1, <2>2, <2>4 DEF AppendRecord
  <2>5. QED
    BY <2>3, <2>4
<1>6. CASE Flush
  <2>1. PICK c \in Conns : at[c] = "wait" /\ recordCh = <<Write(c)>>
    BY <1>6 DEF Flush
  <2>2. recordCh' = <<>> /\ at' = [at EXCEPT ![c] = "apply"]
    BY <1>6, <2>1, Flushed
  <2>3. \A d \in Conns : at[d] = "wait" => d = c
    BY <2>1
  <2>4. QED
    BY <2>2, <2>3
<1>7. CASE FlusherEnds
  BY <1>7 DEF FlusherEnds
<1>8. ASSUME NEW g \in Checkpointers,
             CheckpointLock(g) \/ CheckpointSync(g) \/ CheckpointSave(g) \/ CheckpointRotate(g)
      PROVE  InChannel'
  BY <1>8 DEF CheckpointLock, CheckpointSync, CheckpointSave, CheckpointRotate
<1>9. CASE Tick \/ TaskEnds
  BY <1>9 DEF Tick, TaskEnds
<1>10. CASE Cancel \/ Shutdown \/ Sweep \/ CloseChannel \/ CloseFile
  BY ZenonT(30), <1>10 DEF Cancel, Shutdown, Sweep, CloseChannel, CloseFile
<1>11. QED
  BY <1>1, <1>2, <1>3, <1>4, <1>5, <1>6, <1>7, <1>8, <1>9, <1>10 DEF Next, Checkpointers

LEMMA OrderedStep == KeptInv /\ [Next]_vars => Ordered' /\ AckedKept'
<1> SUFFICES ASSUME KeptInv, [Next]_vars PROVE Ordered' /\ AckedKept'
  OBVIOUS
<1> USE DEF KeptInv, Types, Ordered, AckedKept, Places, Slotted, Registered, Holding, Working,
            Checkpointers, Write, Where, server, wal
<1>1. CASE UNCHANGED vars
  BY <1>1 DEF vars
<1>2. CASE Listen \/ CloseListener
  BY <1>2 DEF Listen, CloseListener
<1>3. ASSUME NEW c \in Conns,
             Accept(c) \/ TakeSlot(c) \/ Register(c) \/ ReadCommand(c) \/ Hangup(c)
               \/ Unregister(c) \/ FreeSlot(c)
      PROVE  Ordered' /\ AckedKept'
  BY <1>3 DEF Accept, TakeSlot, Register, ReadCommand, Hangup, Unregister, FreeSlot
<1>4. ASSUME NEW c \in Conns, LockMutation(c) \/ WriteStopped(c) \/ AppendRecord(c)
      PROVE  Ordered' /\ AckedKept'
  BY <1>4 DEF LockMutation, WriteStopped, AppendRecord, Errors
<1>5. ASSUME NEW c \in Conns, Dispatch(c)
      PROVE  Ordered' /\ AckedKept'
  \* The command holds mutationMu, so no checkpoint is at its rotation.
  <2>1. \A g \in Checkpointers : Where(g) # "rotate"
    BY <1>5, Holders DEF Dispatch, Excluded
  <2>2. QED
    BY <1>5, <2>1 DEF Dispatch
<1>6. CASE Flush
  <2>1. PICK c \in Conns : at[c] = "wait" /\ recordCh = <<Write(c)>>
    BY <1>6 DEF Flush, InChannel
  <2>2. log' = log \cup {Write(c)} /\ at' = [at EXCEPT ![c] = "apply"]
    BY <1>6, <2>1, Flushed
  <2>3. UNCHANGED <<cmds, acked, store, ckpt, stop, task>>
    BY <1>6 DEF Flush
  <2>4. QED
    BY <2>2, <2>3
<1>7. CASE FlusherEnds
  BY <1>7 DEF FlusherEnds
<1>8. ASSUME NEW g \in Checkpointers, CheckpointLock(g) \/ CheckpointSync(g)
      PROVE  Ordered' /\ AckedKept'
  BY <1>8 DEF CheckpointLock, CheckpointSync, CheckpointDone, GoTo
<1>9. ASSUME NEW g \in Checkpointers, CheckpointSave(g)
      PROVE  Ordered' /\ AckedKept'
  BY <1>9 DEF CheckpointSave, GoTo
<1>10. ASSUME NEW g \in Checkpointers, CheckpointRotate(g)
       PROVE  Ordered' /\ AckedKept'
  \* The checkpoint holds mutationMu, so no command has logged and not applied.
  <2>1. \A c \in Conns : at[c] # "apply"
    BY <1>10, Holders DEF CheckpointRotate, Excluded
  <2>2. acked \subseteq ckpt
    BY <1>10 DEF CheckpointRotate
  <2>3. QED
    BY <1>10, <2>1, <2>2 DEF CheckpointRotate, CheckpointDone, GoTo
<1>11. CASE Tick \/ TaskEnds
  BY <1>11 DEF Tick, TaskEnds
<1>12. CASE Cancel \/ Shutdown \/ Sweep \/ CloseChannel \/ CloseFile
  BY <1>12 DEF Cancel, Shutdown, Sweep, CloseChannel, CloseFile
<1>13. QED
  BY <1>1, <1>2, <1>3, <1>4, <1>5, <1>6, <1>7, <1>8, <1>9, <1>10, <1>11, <1>12 DEF Next

LEMMA KeptInit == Init => KeptInv
<1> SUFFICES ASSUME Init PROVE KeptInv
  OBVIOUS
<1> USE DEF Init, Places, Slotted, Registered, Holding, Working
<1>1. Types
  BY ZenonT(30) DEF Types
<1>2. Excluded
  BY Holders DEF Excluded, Checkpointers, Where
<1>3. InChannel /\ AckedKept
  BY DEF InChannel, AckedKept
<1>4. Ordered
  BY DEF Ordered, Checkpointers, Where
<1>5. QED
  BY <1>1, <1>2, <1>3, <1>4 DEF KeptInv

\* Instance.Stop waits for no command and for no checkpoint task, and yet every
\* write that was answered with OK is in the log's files or in the checkpoint, at
\* every moment (instance.go, executor.go, wal.go).
THEOREM Kept == Spec => []AckedKept
<1>1. KeptInv /\ [Next]_vars => KeptInv'
  BY TypesStep, ExcludedStep, InChannelStep, OrderedStep DEF KeptInv
<1>2. KeptInv => AckedKept
  BY DEF KeptInv
<1>3. QED
  BY KeptInit, <1>1, <1>2, PTL DEF Spec

-----------------------------------------------------------------------------
(* The end of a Stop. *)

\* Shutdown closes the door, and a late Listen does not open it again.
DoorShut ==
  /\ done <=> stop \notin {"no", "shutdown"}
  /\ done => listener # "open"

\* Shutdown's sweep closes every connection it finds registered.
SweptOut ==
  /\ clients = {c \in Conns : at[c] \in Registered}
  /\ stop \notin {"no", "shutdown", "sweep"} => \A c \in clients : sock[c] = "open" => c \in late

Slots == {c \in Conns : at[c] \in Slotted}

\* connSem counts the handlers that have taken a slot and not given it back.
SlotsCounted == IsFiniteSet(Slots) /\ sem = Cardinality(Slots)

LEMMA DoorShutStep == Types /\ DoorShut /\ [Next]_vars => DoorShut'
<1> SUFFICES ASSUME Types, DoorShut, [Next]_vars PROVE DoorShut'
  OBVIOUS
<1> USE DEF Types, DoorShut, Working, server, wal
<1>1. CASE UNCHANGED vars
  BY <1>1 DEF vars
<1>2. CASE Listen \/ CloseListener
  BY <1>2 DEF Listen, CloseListener
<1>3. ASSUME NEW c \in Conns,
             Accept(c) \/ TakeSlot(c) \/ Register(c) \/ ReadCommand(c) \/ Hangup(c)
               \/ Unregister(c) \/ FreeSlot(c)
      PROVE  DoorShut'
  BY <1>3 DEF Accept, TakeSlot, Register, ReadCommand, Hangup, Unregister, FreeSlot
<1>4. ASSUME NEW c \in Conns,
             LockMutation(c) \/ WriteStopped(c) \/ AppendRecord(c) \/ Dispatch(c)
      PROVE  DoorShut'
  BY <1>4 DEF LockMutation, WriteStopped, AppendRecord, Dispatch
<1>5. CASE Flush \/ FlusherEnds
  BY <1>5 DEF Flush, FlusherEnds
<1>6. ASSUME NEW g \in Checkpointers,
             CheckpointLock(g) \/ CheckpointSync(g) \/ CheckpointSave(g) \/ CheckpointRotate(g)
      PROVE  DoorShut'
  BY <1>6 DEF CheckpointLock, CheckpointSync, CheckpointSave, CheckpointRotate, CheckpointDone,
              GoTo, Where, Checkpointers
<1>7. CASE Tick \/ TaskEnds
  BY <1>7 DEF Tick, TaskEnds
<1>8. CASE Cancel \/ Shutdown \/ Sweep \/ CloseChannel \/ CloseFile
  <2>1. CASE Cancel \/ Shutdown
    BY <2>1 DEF Cancel, Shutdown
  <2>2. CASE Sweep \/ CloseChannel \/ CloseFile
    BY <2>2 DEF Sweep, CloseChannel, CloseFile
  <2>3. QED
    BY <1>8, <2>1, <2>2
<1>9. QED
  BY <1>1, <1>2, <1>3, <1>4, <1>5, <1>6, <1>7, <1>8 DEF Next, Checkpointers

LEMMA SweptOutStep == Types /\ InChannel /\ SweptOut /\ [Next]_vars => SweptOut'
<1> SUFFICES ASSUME Types, InChannel, SweptOut, [Next]_vars PROVE SweptOut'
  OBVIOUS
<1> USE DEF Types, SweptOut, Places, Slotted, Registered, Holding, Working, server, wal
<1>1. CASE UNCHANGED vars
  BY <1>1 DEF vars
<1>2. CASE Listen \/ CloseListener
  BY <1>2 DEF Listen, CloseListener
<1>3. ASSUME NEW c \in Conns,
             Accept(c) \/ TakeSlot(c) \/ Register(c) \/ ReadCommand(c)
      PROVE  SweptOut'
  BY <1>3 DEF Accept, TakeSlot, Register, ReadCommand
<1>4. ASSUME NEW c \in Conns, Hangup(c) \/ Unregister(c) \/ FreeSlot(c)
      PROVE  SweptOut'
  BY <1>4 DEF Hangup, Unregister, FreeSlot
<1>5. ASSUME NEW c \in Conns,
             LockMutation(c) \/ WriteStopped(c) \/ AppendRecord(c) \/ Dispatch(c)
      PROVE  SweptOut'
  BY <1>5 DEF LockMutation, WriteStopped, AppendRecord, Dispatch, Errors
<1>6. CASE Flush
  <2>1. PICK c \in Conns : at[c] = "wait" /\ recordCh = <<Write(c)>>
    BY <1>6 DEF Flush, InChannel
  <2>2. at' = [at EXCEPT ![c] = "apply"] /\ UNCHANGED <<clients, stop, sock, late>>
    BY ZenonT(30), <1>6, <2>1, Flushed DEF Flush
  <2>3. QED
    BY <2>1, <2>2
<1>7. CASE FlusherEnds
  BY <1>7 DEF FlusherEnds
<1>8. ASSUME NEW g \in Checkpointers,
             CheckpointLock(g) \/ CheckpointSync(g) \/ CheckpointSave(g) \/ CheckpointRotate(g)
      PROVE  SweptOut'
  BY <1>8 DEF CheckpointLock, CheckpointSync, CheckpointSave, CheckpointRotate, CheckpointDone,
              GoTo, Where, Checkpointers
<1>9. CASE Tick \/ TaskEnds
  BY <1>9 DEF Tick, TaskEnds
<1>10. CASE Cancel \/ Shutdown \/ Sweep \/ CloseChannel \/ CloseFile
  BY <1>10 DEF Cancel, Shutdown, Sweep, CloseChannel, CloseFile
<1>11. QED
  BY <1>1, <1>2, <1>3, <1>4, <1>5, <1>6, <1>7, <1>8, <1>9, <1>10 DEF Next, Checkpointers

LEMMA SlotsCountedStep == Types /\ InChannel /\ SlotsCounted /\ [Next]_vars => SlotsCounted'
<1> SUFFICES ASSUME Types, InChannel, SlotsCounted, [Next]_vars PROVE SlotsCounted'
  OBVIOUS
<1> USE DEF Types, Places, Slotted, Registered, Holding, server, wal
<1>1. ASSUME Slots' = Slots, sem' = sem PROVE SlotsCounted'
  BY <1>1 DEF SlotsCounted
<1>2. CASE UNCHANGED vars
  BY <1>1, <1>2 DEF vars, Slots
<1>3. CASE Listen \/ CloseListener
  BY <1>1, <1>3 DEF Listen, CloseListener, Slots
<1>4. ASSUME NEW c \in Conns,
             Accept(c) \/ Register(c) \/ ReadCommand(c) \/ Hangup(c) \/ Unregister(c)
      PROVE  SlotsCounted'
  <2>1. Slots' = Slots /\ sem' = sem
    BY <1>4 DEF Accept, Register, ReadCommand, Hangup, Unregister, Slots
  <2>2. QED
    BY <1>1, <2>1
<1>5. ASSUME NEW c \in Conns, TakeSlot(c)
      PROVE  SlotsCounted'
  <2>1. CASE sem < MaxConns
    <3>1. Slots' = Slots \cup {c} /\ c \notin Slots /\ sem' = sem + 1
      BY <1>5, <2>1 DEF TakeSlot, Slots
    <3>2. QED
      BY <3>1, FS_AddElement DEF SlotsCounted
  <2>2. CASE ~(sem < MaxConns)
    <3>1. Slots' = Slots /\ sem' = sem
      BY <1>5, <2>2 DEF TakeSlot, Slots
    <3>2. QED
      BY <1>1, <3>1
  <2>3. QED
    BY <2>1, <2>2
<1>6. ASSUME NEW c \in Conns, FreeSlot(c)
      PROVE  SlotsCounted'
  <2>1. Slots' = Slots \ {c} /\ c \in Slots /\ sem' = sem - 1
    BY <1>6 DEF FreeSlot, Slots
  <2>2. QED
    BY <2>1, FS_RemoveElement DEF SlotsCounted
<1>7. ASSUME NEW c \in Conns,
             LockMutation(c) \/ WriteStopped(c) \/ AppendRecord(c) \/ Dispatch(c)
      PROVE  SlotsCounted'
  <2>1. Slots' = Slots /\ sem' = sem
    BY <1>7 DEF LockMutation, WriteStopped, AppendRecord, Dispatch, Errors, Slots
  <2>2. QED
    BY <1>1, <2>1
<1>8. CASE Flush
  <2>1. PICK c \in Conns : at[c] = "wait" /\ recordCh = <<Write(c)>>
    BY <1>8 DEF Flush, InChannel
  <2>2. at' = [at EXCEPT ![c] = "apply"] /\ sem' = sem
    BY ZenonT(30), <1>8, <2>1, Flushed DEF Flush
  <2>3. Slots' = Slots
    BY <2>1, <2>2 DEF Slots
  <2>4. QED
    BY <1>1, <2>2, <2>3
<1>9. CASE FlusherEnds \/ Tick \/ TaskEnds
  BY <1>1, <1>9 DEF FlusherEnds, Tick, TaskEnds, Slots
<1>10. ASSUME NEW g \in Checkpointers,
              CheckpointLock(g) \/ CheckpointSync(g) \/ CheckpointSave(g) \/ CheckpointRotate(g)
       PROVE  SlotsCounted'
  BY <1>1, <1>10 DEF CheckpointLock, CheckpointSync, CheckpointSave, CheckpointRotate, Slots
<1>11. CASE Cancel \/ Shutdown \/ Sweep \/ CloseChannel \/ CloseFile
  BY <1>1, <1>11 DEF Cancel, Shutdown, Sweep, CloseChannel, CloseFile, Slots
<1>12. QED
  BY <1>2, <1>3, <1>4, <1>5, <1>6, <1>7, <1>8, <1>9, <1>10, <1>11 DEF Next, Checkpointers

EndsInv == KeptInv /\ DoorShut /\ SweptOut /\ SlotsCounted

LEMMA EndsInit == Init => EndsInv
<1> SUFFICES ASSUME Init PROVE EndsInv
  OBVIOUS
<1>1. DoorShut /\ SweptOut
  BY DEF Init, DoorShut, SweptOut, Registered, Holding
<1>2. Slots = {} /\ sem = 0
  BY DEF Init, Slots, Slotted, Registered, Holding
<1>3. SlotsCounted
  BY <1>2, FS_EmptySet DEF SlotsCounted
<1>4. QED
  BY <1>1, <1>3, KeptInit DEF EndsInv

LEMMA EndsMeans == EndsInv => StopEnds
<1> SUFFICES ASSUME EndsInv, Quiet PROVE StopEnds
  BY DEF StopEnds
<1> USE DEF EndsInv, KeptInv, Types, Registered, Holding
<1>1. listener = "closed"
  BY DEF Quiet, DoorShut
<1>2. \A c \in Handlers : \/ at[c] = "reading" /\ sock[c] = "open"
                          \/ c \in Stuck /\ at[c] \in {"execute", "append"}
  BY DEF Quiet, Stuck
<1>3. Handlers = clients
  BY <1>2 DEF Handlers, SweptOut
<1>4. Handlers = Slots
  BY <1>2 DEF Handlers, Slots, Slotted
<1>5. Handlers \subseteq late \cup Stuck
  BY <1>2, <1>3 DEF Quiet, SweptOut
<1>6. QED
  BY <1>1, <1>3, <1>4, <1>5 DEF StopEnds, SlotsCounted

\* What Instance.Stop does not wait for comes to an end: the listener is closed,
\* no handler is left that was registered in time and is not stuck behind the
\* closed log, and connSem has every other slot back (instance.go, server.go).
THEOREM Ends == Spec => []StopEnds
<1>1. EndsInv /\ [Next]_vars => EndsInv'
  BY TypesStep, ExcludedStep, InChannelStep, OrderedStep, DoorShutStep, SweptOutStep,
     SlotsCountedStep DEF EndsInv, KeptInv
<1>2. QED
  BY EndsInit, <1>1, EndsMeans, PTL DEF Spec

=============================================================================
