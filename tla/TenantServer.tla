---------------------------- MODULE TenantServer ----------------------------
(***************************************************************************)
(* A tenant's engine as a process serves it: the RESP listener and its     *)
(* connections (api/server.go), their commands in the executor and in the  *)
(* log's flusher, the checkpoint task, and Instance.Stop, which waits for  *)
(* none of them.  The commands are writes under sync=always; reads,        *)
(* refused commands and AUTH are answered without a change here.  HTTP     *)
(* requests go the same way as a connection's commands, without a slot.    *)
(***************************************************************************)
EXTENDS Integers, Sequences, FiniteSets

CONSTANTS
  Conns,      \* connections of clients
  MaxConns,   \* capacity of connSem
  MaxCmds,    \* bound: commands of a connection
  MaxTicks    \* bound: ticks of the checkpoint task

VARIABLES
  \* RESPServer
  listener,   \* "none" until ListenAndServe has it, "open" or "closed"
  done,       \* the channel done is closed
  sock,       \* each connection's socket: "open" or "closed"
  at,         \* where each connection's handler is
  clients,    \* RESPServer.clients
  sem,        \* slots of connSem taken
  \* Executor and WAL
  mutationMu, \* who holds it, a command or a checkpoint
  order,      \* w.order is locked by an append that has panicked
  recordCh,   \* records for the flusher
  chClosed, flusher, fileClosed, failed,
  log,        \* writes in the log's files
  ckpt,       \* writes in the checkpoint
  store,      \* writes in memory
  \* Instance
  cancelled,  \* i.ctx
  stop, task, \* where Stop and the checkpoint task are
  covers,     \* the writes logged when each of the two has synced the log
  \* bounds and history
  cmds, ticks,
  acked,      \* writes with the reply OK
  late        \* connections registered after Shutdown has closed the others

server == <<listener, done, sock, at, clients, sem>>
wal == <<order, recordCh, chClosed, flusher, fileClosed, failed, log>>
vars == <<server, mutationMu, wal, ckpt, store, cancelled, stop, task, covers,
          cmds, ticks, acked, late>>

Free == <<>>
Holder(kind, who) == <<kind, who>>

Init ==
  /\ listener = "none" /\ done = FALSE
  /\ sock = [c \in Conns |-> "closed"] /\ at = [c \in Conns |-> "none"]
  /\ clients = {} /\ sem = 0
  /\ mutationMu = Free /\ order = FALSE
  /\ recordCh = <<>> /\ chClosed = FALSE /\ flusher = "runs"
  /\ fileClosed = FALSE /\ failed = FALSE
  /\ log = {} /\ ckpt = {} /\ store = {}
  /\ cancelled = FALSE /\ stop = "no" /\ task = "idle"
  /\ covers = [g \in {"stop", "task"} |-> {}]
  /\ cmds = [c \in Conns |-> 0] /\ ticks = 0 /\ acked = {} /\ late = {}

-----------------------------------------------------------------------------
(* RESPServer. *)

\* ListenAndServe has bound its address; after Shutdown it gives it up.
Listen ==
  /\ listener = "none"
  /\ listener' = IF done THEN "closed" ELSE "open"
  /\ UNCHANGED <<done, sock, at, clients, sem, mutationMu, wal, ckpt, store,
                 cancelled, stop, task, covers, cmds, ticks, acked, late>>

\* The goroutine that waits for the context.
CloseListener ==
  /\ listener = "open" /\ cancelled
  /\ listener' = "closed"
  /\ UNCHANGED <<done, sock, at, clients, sem, mutationMu, wal, ckpt, store,
                 cancelled, stop, task, covers, cmds, ticks, acked, late>>

Accept(c) ==
  /\ listener = "open" /\ at[c] = "none"
  /\ sock' = [sock EXCEPT ![c] = "open"] /\ at' = [at EXCEPT ![c] = "accepted"]
  /\ UNCHANGED <<listener, done, clients, sem, mutationMu, wal, ckpt, store,
                 cancelled, stop, task, covers, cmds, ticks, acked, late>>

\* handleConn takes a slot or, if there is none, refuses the connection.
TakeSlot(c) ==
  /\ at[c] = "accepted"
  /\ IF sem < MaxConns
     THEN sem' = sem + 1 /\ at' = [at EXCEPT ![c] = "slot"] /\ UNCHANGED sock
     ELSE /\ at' = [at EXCEPT ![c] = "gone"] /\ sock' = [sock EXCEPT ![c] = "closed"]
          /\ UNCHANGED sem
  /\ UNCHANGED <<listener, done, clients, mutationMu, wal, ckpt, store,
                 cancelled, stop, task, covers, cmds, ticks, acked, late>>

Register(c) ==
  /\ at[c] = "slot"
  /\ clients' = clients \cup {c} /\ at' = [at EXCEPT ![c] = "reading"]
  /\ late' = IF stop \in {"no", "shutdown", "sweep"} THEN late ELSE late \cup {c}
  /\ UNCHANGED <<listener, done, sock, sem, mutationMu, wal, ckpt, store,
                 cancelled, stop, task, covers, cmds, ticks, acked>>

\* A command that was sent before a close may be in the parser's buffer.
ReadCommand(c) ==
  /\ at[c] = "reading" /\ cmds[c] < MaxCmds
  /\ cmds' = [cmds EXCEPT ![c] = @ + 1] /\ at' = [at EXCEPT ![c] = "execute"]
  /\ UNCHANGED <<listener, done, sock, clients, sem, mutationMu, wal, ckpt, store,
                 cancelled, stop, task, covers, ticks, acked, late>>

\* The client closes the connection, or it meets its deadline.
Hangup(c) ==
  /\ sock[c] = "open"
  /\ sock' = [sock EXCEPT ![c] = "closed"]
  /\ UNCHANGED <<listener, done, at, clients, sem, mutationMu, wal, ckpt, store,
                 cancelled, stop, task, covers, cmds, ticks, acked, late>>

\* The read fails: the deferred calls, in their order.
Unregister(c) ==
  /\ at[c] = "reading" /\ sock[c] = "closed"
  /\ clients' = clients \ {c} /\ at' = [at EXCEPT ![c] = "leaving"]
  /\ UNCHANGED <<listener, done, sock, sem, mutationMu, wal, ckpt, store,
                 cancelled, stop, task, covers, cmds, ticks, acked, late>>

FreeSlot(c) ==
  /\ at[c] = "leaving"
  /\ sem' = sem - 1 /\ at' = [at EXCEPT ![c] = "gone"]
  /\ UNCHANGED <<listener, done, sock, clients, mutationMu, wal, ckpt, store,
                 cancelled, stop, task, covers, cmds, ticks, acked, late>>

-----------------------------------------------------------------------------
(* Execute, WAL.Write and the flusher. *)

Write(c) == <<c, cmds[c]>>

LockMutation(c) ==
  /\ at[c] = "execute" /\ mutationMu = Free
  /\ mutationMu' = Holder("command", c) /\ at' = [at EXCEPT ![c] = "append"]
  /\ UNCHANGED <<listener, done, sock, clients, sem, wal, ckpt, store,
                 cancelled, stop, task, covers, cmds, ticks, acked, late>>

\* The command's error is replied and its locks released, but for w.order.
Errors(c) == mutationMu' = Free /\ at' = [at EXCEPT ![c] = "reading"]

WriteStopped(c) ==
  /\ at[c] = "append" /\ failed
  /\ Errors(c)
  /\ UNCHANGED <<listener, done, sock, clients, sem, wal, ckpt, store,
                 cancelled, stop, task, covers, cmds, ticks, acked, late>>

\* A send on the closed channel panics with w.order held; Execute recovers.
AppendRecord(c) ==
  /\ at[c] = "append" /\ ~failed /\ ~order
  /\ IF chClosed THEN order' = TRUE /\ Errors(c) /\ UNCHANGED recordCh
     ELSE /\ recordCh' = Append(recordCh, Write(c)) /\ at' = [at EXCEPT ![c] = "wait"]
          /\ UNCHANGED <<order, mutationMu>>
  /\ UNCHANGED <<listener, done, sock, clients, sem, chClosed, flusher, fileClosed, failed, log,
                 ckpt, store, cancelled, stop, task, covers, cmds, ticks, acked, late>>

Flush ==
  /\ flusher = "runs" /\ recordCh # <<>>
  /\ LET w == Head(recordCh)
     IN  log' = log \cup {w} /\ at' = [at EXCEPT ![w[1]] = "apply"]
  /\ recordCh' = Tail(recordCh)
  /\ UNCHANGED <<listener, done, sock, clients, sem, mutationMu, order, chClosed, flusher,
                 fileClosed, failed, ckpt, store, cancelled, stop, task, covers, cmds, ticks,
                 acked, late>>

\* The closed channel has been drained.
FlusherEnds ==
  /\ flusher = "runs" /\ chClosed /\ recordCh = <<>>
  /\ flusher' = "ended"
  /\ UNCHANGED <<server, mutationMu, order, recordCh, chClosed, fileClosed, failed, log,
                 ckpt, store, cancelled, stop, task, covers, cmds, ticks, acked, late>>

Dispatch(c) ==
  /\ at[c] = "apply"
  /\ store' = store \cup {Write(c)} /\ acked' = acked \cup {Write(c)}
  /\ mutationMu' = Free /\ at' = [at EXCEPT ![c] = "reading"]
  /\ UNCHANGED <<listener, done, sock, clients, sem, wal, ckpt,
                 cancelled, stop, task, covers, cmds, ticks, late>>

-----------------------------------------------------------------------------
(* Checkpoint, by its task or by Stop. *)

Where(g) == IF g = "stop" THEN stop ELSE task

GoTo(g, here) ==
  /\ stop' = IF g = "stop" THEN here ELSE stop
  /\ task' = IF g = "task" THEN here ELSE task

\* Stop ignores an error and goes on; the task waits for its next tick.
CheckpointDone(g) ==
  GoTo(g, IF g = "stop" THEN "close" ELSE "idle") /\ mutationMu' = Free

\* Mutant of CheckpointLock: the checkpoint does not exclude mutations.
CheckpointLock_Shared(g) ==
  /\ Where(g) = "checkpoint"
  /\ GoTo(g, "sync")
  /\ UNCHANGED <<server, mutationMu, wal, ckpt, store, cancelled, covers, cmds, ticks, acked, late>>

CheckpointLock(g) ==
  /\ Where(g) = "checkpoint" /\ mutationMu = Free
  /\ mutationMu' = Holder("checkpoint", g) /\ GoTo(g, "sync")
  /\ UNCHANGED <<server, wal, ckpt, store, cancelled, covers, cmds, ticks, acked, late>>

CheckpointSync(g) ==
  /\ Where(g) = "sync"
  /\ IF fileClosed THEN failed' = TRUE /\ CheckpointDone(g) /\ UNCHANGED covers
     ELSE /\ covers' = [covers EXCEPT ![g] = log] /\ GoTo(g, "save")
          /\ UNCHANGED <<failed, mutationMu>>
  /\ UNCHANGED <<server, order, recordCh, chClosed, flusher, fileClosed, log,
                 ckpt, store, cancelled, cmds, ticks, acked, late>>

CheckpointSave(g) ==
  /\ Where(g) = "save"
  /\ ckpt' = store /\ GoTo(g, "rotate")
  /\ UNCHANGED <<server, mutationMu, wal, store, cancelled, covers, cmds, ticks, acked, late>>

\* Rotate and CompactThrough.
CheckpointRotate(g) ==
  /\ Where(g) = "rotate"
  /\ IF fileClosed THEN failed' = TRUE /\ UNCHANGED log
     ELSE log' = log \ covers[g] /\ UNCHANGED failed
  /\ CheckpointDone(g)
  /\ UNCHANGED <<server, order, recordCh, chClosed, flusher, fileClosed,
                 ckpt, store, cancelled, covers, cmds, ticks, acked, late>>

\* The tick may win against the cancelled context.
Tick ==
  /\ task = "idle" /\ ticks < MaxTicks
  /\ ticks' = ticks + 1 /\ task' = "checkpoint"
  /\ UNCHANGED <<server, mutationMu, wal, ckpt, store, cancelled, stop, covers, cmds, acked, late>>

TaskEnds ==
  /\ task = "idle" /\ cancelled
  /\ task' = "ended"
  /\ UNCHANGED <<server, mutationMu, wal, ckpt, store, cancelled, stop, covers, cmds, ticks,
                 acked, late>>

-----------------------------------------------------------------------------
(* Instance.Stop. *)

Cancel ==
  /\ stop = "no"
  /\ cancelled' = TRUE /\ stop' = "shutdown"
  /\ UNCHANGED <<server, mutationMu, wal, ckpt, store, task, covers, cmds, ticks, acked, late>>

\* RESPServer.Shutdown closes the listener, ...
Shutdown ==
  /\ stop = "shutdown"
  /\ done' = TRUE /\ listener' = IF listener = "open" THEN "closed" ELSE listener
  /\ stop' = "sweep"
  /\ UNCHANGED <<sock, at, clients, sem, mutationMu, wal, ckpt, store, cancelled, task, covers,
                 cmds, ticks, acked, late>>

Sweep_None ==
  /\ stop = "sweep" /\ stop' = "checkpoint"
  /\ UNCHANGED <<server, mutationMu, wal, ckpt, store, cancelled, task, covers, cmds, ticks,
                 acked, late>>

\* ... then the connections it knows.
Sweep ==
  /\ stop = "sweep"
  /\ sock' = [c \in Conns |-> IF c \in clients THEN "closed" ELSE sock[c]]
  /\ stop' = "checkpoint"
  /\ UNCHANGED <<listener, done, at, clients, sem, mutationMu, wal, ckpt, store, cancelled, task,
                 covers, cmds, ticks, acked, late>>

\* WAL.Close: the channel, then, after the flusher, the file.
CloseChannel ==
  /\ stop = "close"
  /\ chClosed' = TRUE /\ stop' = "closing"
  /\ UNCHANGED <<server, mutationMu, order, recordCh, flusher, fileClosed, failed, log, ckpt,
                 store, cancelled, task, covers, cmds, ticks, acked, late>>

CloseFile ==
  /\ stop = "closing" /\ flusher = "ended"
  /\ fileClosed' = TRUE /\ stop' = "returned"
  /\ UNCHANGED <<server, mutationMu, order, recordCh, chClosed, flusher, failed, log, ckpt,
                 store, cancelled, task, covers, cmds, ticks, acked, late>>

Next ==
  \/ Listen \/ CloseListener
  \/ \E c \in Conns : \/ Accept(c) \/ TakeSlot(c) \/ Register(c) \/ ReadCommand(c) \/ Hangup(c)
                      \/ Unregister(c) \/ FreeSlot(c)
                      \/ LockMutation(c) \/ WriteStopped(c) \/ AppendRecord(c) \/ Dispatch(c)
  \/ Flush \/ FlusherEnds
  \/ \E g \in {"stop", "task"} : \/ CheckpointLock(g) \/ CheckpointSync(g) \/ CheckpointSave(g)
                                 \/ CheckpointRotate(g)
  \/ Tick \/ TaskEnds
  \/ Cancel \/ Shutdown \/ Sweep \/ CloseChannel \/ CloseFile

Spec == Init /\ [][Next]_vars

-----------------------------------------------------------------------------
(* Properties. *)

Handlers == {c \in Conns : at[c] \notin {"none", "gone"}}

\* Handlers that wait for w.order, or for who waits for it.
Stuck == IF order /\ ~failed THEN {c \in Conns : at[c] \in {"execute", "append"}} ELSE {}

\* Only clients can make anything happen.
Quiet ==
  LET blocked == \E c \in Stuck : mutationMu = Holder("command", c)
  IN  /\ stop = "returned" /\ listener # "none"
      /\ task = "ended" \/ (task = "checkpoint" /\ blocked)
      /\ \A c \in Handlers : (at[c] = "reading" /\ sock[c] = "open") \/ (c \in Stuck /\ blocked)

\* When all is over that Stop did not wait for, no listener is left, and no
\* connection, and every slot is free.  Excepted are a connection that had been
\* accepted and was registered after Shutdown looked, and two commands or more
\* that came to the closed log, of which all but the first wait for ever.
StopEnds ==
  Quiet => /\ listener = "closed"
           /\ Handlers \subseteq late \cup Stuck
           /\ clients = Handlers /\ sem = Cardinality(Handlers)

\* A write that was acknowledged is in the log or in the checkpoint, at every
\* moment of a Stop that overtakes commands and the checkpoint task.
AckedKept == acked \subseteq log \cup ckpt

=============================================================================
