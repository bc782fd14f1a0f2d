------------------------------- MODULE Sessions -------------------------------
(***************************************************************************)
(* MULTI, EXEC, WATCH and pub/sub of a tenant without persistence: the     *)
(* open transactions (transaction/multi.go), the watched keys (watch.go)   *)
(* and the broker (events/pubsub.go) as the executor uses them.  A caller  *)
(* is a goroutine that executes commands one after another: a connection   *)
(* with a client id of its own, or an HTTP request, all of which have      *)
(* client id 0.  The locks are released between the steps of a command, so *)
(* callers meet in a session and in the broker.  Commands that EXEC runs   *)
(* are stood for by PUBLISH and SUBSCRIBE, whose order can be seen.        *)
(***************************************************************************)
EXTENDS Integers, Sequences, SequencesExt, FiniteSets

CONSTANTS
  Connections, Requests,  \* callers
  Zero,                   \* the client id of every HTTP request
  Watchable,              \* keys
  None,
  Buffer,                 \* messages a subscriber's channel holds (256)
  MaxCalls, MaxRequests,  \* bounds: commands of a connection, of a request
  MaxSubs                 \* bound: subscribers

Callers == Connections \cup Requests
Id(c) == IF c \in Connections THEN c ELSE Zero
Sessions == Connections \cup {Zero}

VARIABLES
  txs,      \* MultiManager.txs: the open transaction of a session, if any
  queues,   \* the queues of all transactions begun
  watches,  \* WatchSet.watches: the version at which a session watches a key
  chans,    \* the subscribers' channels of the one pub/sub channel
  at,       \* where each caller is
  calls,    \* commands each caller has sent
  \* What a connection knows it has sent:
  pending,  \* after MULTI, what it has queued
  sent      \* what it has had executed

vars == <<txs, queues, watches, chans, at, calls, pending, sent>>

Idle == [pc |-> "idle", run |-> <<>>, tx |-> 0, left |-> <<>>]

Init ==
  /\ txs = [s \in Sessions |-> 0] /\ queues = <<>>
  /\ watches = [s \in Sessions |-> [k \in Watchable |-> None]]
  /\ chans = <<>>
  /\ at = [c \in Callers |-> Idle]
  /\ calls = [c \in Callers |-> 0]
  /\ pending = [c \in Connections |-> None] /\ sent = [c \in Connections |-> <<>>]

-----------------------------------------------------------------------------
(* What a caller sends.                                                    *)

IsActive(s) == txs[s] # 0

Unqueued == {"MULTI", "EXEC", "DISCARD", "WATCH"}

\* Mutant of Queued: the session asked about is the HTTP requests'.
Queued_Zero(c, op) == IsActive(Zero) /\ op \notin Unqueued

Queued(c, op) == IsActive(Id(c)) /\ op \notin Unqueued

Tell(c, cmd) ==
  LET out == CASE cmd.op = "EXEC" /\ pending[c] # None -> pending[c]
               [] cmd.op = "PUBLISH" /\ pending[c] = None -> <<cmd>>
               [] OTHER -> <<>>
      open == CASE cmd.op = "MULTI" /\ pending[c] = None -> <<>>
                [] cmd.op \in {"EXEC", "DISCARD"} -> None
                [] cmd.op = "PUBLISH" /\ pending[c] # None -> Append(pending[c], cmd)
                [] OTHER -> pending[c]
  IN  pending' = [pending EXCEPT ![c] = open] /\ sent' = [sent EXCEPT ![c] = @ \o out]

\* A command arrives: it is queued if the session has a transaction open.
Execute(c) ==
  /\ at[c].pc = "idle" /\ calls[c] < (IF c \in Connections THEN MaxCalls ELSE MaxRequests)
  /\ calls' = [calls EXCEPT ![c] = @ + 1]
  /\ \E op \in {"MULTI", "EXEC", "DISCARD", "WATCH", "UNWATCH", "PUBLISH", "SUBSCRIBE"} :
       LET cmd == [op |-> op, from |-> c, n |-> calls'[c]]
       IN  /\ at' = [at EXCEPT ![c].pc = IF Queued(c, op) THEN "queue" ELSE "run", ![c].run = <<cmd>>]
           /\ IF c \in Connections THEN Tell(c, cmd) ELSE UNCHANGED <<pending, sent>>
  /\ UNCHANGED <<txs, queues, watches, chans>>

-----------------------------------------------------------------------------
(* Queue, in two steps: the transaction is looked up, then appended to.    *)

QueueLookup(c) ==
  LET tx == txs[Id(c)]
  IN  /\ at[c].pc = "queue"
      /\ at' = [at EXCEPT ![c] = IF tx = 0 THEN Idle ELSE [@ EXCEPT !.pc = "append", !.tx = tx]]
      /\ UNCHANGED <<txs, queues, watches, chans, calls, pending, sent>>

QueueAppend(c) ==
  /\ at[c].pc = "append"
  /\ queues' = [queues EXCEPT ![at[c].tx] = @ \o at[c].run]
  /\ at' = [at EXCEPT ![c] = Idle]
  /\ UNCHANGED <<txs, watches, chans, calls, pending, sent>>

-----------------------------------------------------------------------------
(* Dispatch.                                                               *)

Dispatch(c, op) == at[c].pc = "run" /\ Head(at[c].run).op = op

\* The next command of EXEC's, or the reply.
After(c) == IF Len(at[c].run) <= 1 THEN Idle
            ELSE [Idle EXCEPT !.pc = "run", !.run = Tail(at[c].run)]

Dispatched(c) == at' = [at EXCEPT ![c] = After(c)]

Begin(c) ==
  /\ Dispatch(c, "MULTI") /\ Dispatched(c)
  /\ IF IsActive(Id(c)) THEN UNCHANGED <<txs, queues>>
     ELSE /\ queues' = Append(queues, <<>>)
          /\ txs' = [txs EXCEPT ![Id(c)] = Len(queues')]
  /\ UNCHANGED <<watches, chans, calls, pending, sent>>

Unwatched(s) == [watches EXCEPT ![s] = [k \in Watchable |-> None]]

\* The newest version of a key.  Nothing writes a version.
ReadLatest(k) == 0

IsDirty(s) == \E k \in Watchable : watches[s][k] # None /\ ReadLatest(k) > watches[s][k]

\* EXEC takes the transaction from the session, to discard it if a watched key
\* has changed, ...
Exec(c) ==
  /\ Dispatch(c, "EXEC")
  /\ txs' = [txs EXCEPT ![Id(c)] = 0]
  /\ IF IsActive(Id(c)) /\ ~IsDirty(Id(c))
     THEN /\ at' = [at EXCEPT ![c].pc = "take", ![c].tx = txs[Id(c)]]
          /\ UNCHANGED watches
     ELSE Dispatched(c) /\ watches' = Unwatched(Id(c))
  /\ UNCHANGED <<queues, chans, calls, pending, sent>>

\* ... or to take its queue and dispatches that, one command after another.
ExecQueue(c) ==
  /\ at[c].pc = "take"
  /\ at' = [at EXCEPT ![c] = IF queues[at[c].tx] = <<>> THEN Idle
                              ELSE [Idle EXCEPT !.pc = "run", !.run = queues[at[c].tx]]]
  /\ watches' = Unwatched(Id(c))
  /\ UNCHANGED <<txs, queues, chans, calls, pending, sent>>

Discard(c) ==
  /\ Dispatch(c, "DISCARD") /\ Dispatched(c)
  /\ txs' = [txs EXCEPT ![Id(c)] = 0]
  /\ watches' = IF IsActive(Id(c)) THEN Unwatched(Id(c)) ELSE watches
  /\ UNCHANGED <<queues, chans, calls, pending, sent>>

Watch(c) ==
  /\ Dispatch(c, "WATCH") /\ Dispatched(c)
  /\ \E k \in Watchable : watches' = [watches EXCEPT ![Id(c)][k] = 0]
  /\ UNCHANGED <<txs, queues, chans, calls, pending, sent>>

Unwatch(c) ==
  /\ Dispatch(c, "UNWATCH") /\ Dispatched(c)
  /\ watches' = Unwatched(Id(c))
  /\ UNCHANGED <<txs, queues, chans, calls, pending, sent>>

\* The channel is made, and nobody reads it.
Subscribe(c) ==
  /\ Dispatch(c, "SUBSCRIBE") /\ Len(chans) < MaxSubs /\ Dispatched(c)
  /\ chans' = Append(chans, <<>>)
  /\ UNCHANGED <<txs, queues, watches, calls, pending, sent>>

\* PUBLISH reads the list of subscribers, ...
Publish(c) ==
  /\ Dispatch(c, "PUBLISH")
  /\ at' = [at EXCEPT ![c].pc = "send", ![c].left = [s \in DOMAIN chans |-> s]]
  /\ UNCHANGED <<txs, queues, watches, chans, calls, pending, sent>>

\* ... and without the lock sends to each, or not if its channel is full.
Send(c) ==
  LET s == Head(at[c].left)
  IN  /\ at[c].pc = "send" /\ at[c].left # <<>>
      /\ chans' = [chans EXCEPT ![s] = IF Len(@) < Buffer THEN Append(@, Head(at[c].run)) ELSE @]
      /\ at' = [at EXCEPT ![c].left = Tail(@)]
      /\ UNCHANGED <<txs, queues, watches, calls, pending, sent>>

Published(c) ==
  /\ at[c].pc = "send" /\ at[c].left = <<>>
  /\ Dispatched(c)
  /\ UNCHANGED <<txs, queues, watches, chans, calls, pending, sent>>

Next ==
  \E c \in Callers :
    \/ Execute(c) \/ QueueLookup(c) \/ QueueAppend(c)
    \/ Begin(c) \/ Exec(c) \/ ExecQueue(c) \/ Discard(c)
    \/ Watch(c) \/ Unwatch(c) \/ Subscribe(c)
    \/ Publish(c) \/ Send(c) \/ Published(c)

Spec == Init /\ [][Next]_vars

-----------------------------------------------------------------------------
(* Property.                                                               *)

\* A subscriber gets of what one connection has published, outside of MULTI and
\* with every EXEC, an unbroken run in the order sent, nothing twice and nothing
\* discarded; and unless its channel is full the run goes on to the last message
\* for which the connection has the reply.
SubscribersFollow ==
  \A s \in DOMAIN chans, c \in Connections :
    LET got == SelectSeq(chans[s], LAMBDA m : m.from = c)
    IN  /\ \E i \in 1..Len(sent[c]) - Len(got) + 1 : got = SubSeq(sent[c], i, i + Len(got) - 1)
        /\ (got # <<>> /\ Len(chans[s]) < Buffer /\ at[c].pc = "idle") => Last(got) = Last(sent[c])

=============================================================================
