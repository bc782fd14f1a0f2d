---------------------------- MODULE ControlPlane ----------------------------
(***************************************************************************)
(* The orchestrator and a tenant with replicas, one of which can be        *)
(* promoted.  In cmd/dbx-orchestrator the handlers of requests do the work *)
(* themselves, several at a time.  In the deprecated cmd/orchestrator      *)
(* requests are entries of a Raft log with one voter, applied one at a     *)
(* time by OrchestratorFSM, and applied again after a restart.             *)
(*                                                                         *)
(* A promotion swaps the data directories and all ports of two records, so *)
(* the directory stands for them: an engine listens at, and a replica      *)
(* follows, a directory.  Lifecycle has the locks of the operations on a   *)
(* single tenant; here a step is a critical section of promoteLocal, of a  *)
(* supervisor or of StartTenant, or the removal of a tenant.               *)
(***************************************************************************)
EXTENDS Integers, Sequences, FiniteSets, SequencesExt

CONSTANTS
  Primary,      \* the id of the public tenant
  Replicas,     \* the ids of its replicas
  Engines,      \* engine instances or worker processes
  None,
  Raft,         \* requests go through a Raft log
  Modes,        \* engines are workers, processes of their own: TRUE, FALSE or both
  MaxAttempts,  \* restarts of a tenant by its supervisors
  MaxEntries,   \* bound: requests, the entries of the Raft log if there is one
  MaxTroubles   \* bound: calls that fail, engines that fail, restarts of the orchestrator

Ids == {Primary} \cup Replicas

\* FSM.Apply, or (a bound) the two requests at work at a time.
Handlers == IF Raft THEN {"fsm"} ELSE {"first", "second"}

\* startReplicaSet at work; a bound, which two provisions do not reach.
SetStarts == {"set", "again"}

\* Goroutines that start and stop engines; a supervisor is named after its engine.
Goroutines == {"boot", "restore"} \cup Handlers \cup SetStarts \cup Engines

VARIABLES
  process,      \* strict isolation: engines are worker processes
  \* the disk
  entries,      \* the requests: what each has to do; the Raft log
  snap,         \* the newest Raft snapshot: how many entries it covers, the tenants
  saved,        \* the tenants in the state file
  \* the manager
  tenants,      \* which ids have a record, and the directory in each id's record
  registry,     \* m.instances or m.workers: the engine of each id, or None
  starts,       \* StartTenant at work on each id, or None
  attempts,     \* failures counted against each id
  applied,      \* entries applied by this process
  todo,         \* what each goroutine has still to do
  live,         \* the engines that have a directory open
  \* bounds and history
  troubles,
  spoiled       \* why the set may not serve: "failed", "overlap", "reset", "orphan"

manager == <<tenants, registry, starts, attempts, applied>>
disk == <<entries, snap, saved>>
vars == <<process, disk, manager, todo, live, troubles, spoiled>>

-----------------------------------------------------------------------------
Dir(id) == tenants.dir[id]

\* Tasks of a goroutine.
StopTask(e) == [do |-> "stop", engine |-> e, id |-> None]
BecomeTask(e) == [do |-> "become", engine |-> e, id |-> None]
StartTask(id) == [do |-> "start", engine |-> None, id |-> id]
RemoveTask(id) == [do |-> "remove", engine |-> None, id |-> id]
PromoteTask(id) == [do |-> "promote", engine |-> None, id |-> id]
ProvisionTask == [do |-> "provision", engine |-> None, id |-> None]

Starting(ids) == [i \in 1 .. Len(ids) |-> StartTask(ids[i])]
Stopping(es) == LET s == SetToSeq(es \ {None}) IN [i \in 1 .. Len(s) |-> StopTask(s[i])]

\* The primary before its replicas, so that its listener is bound.
InOrder(ids) == SetToSeq(ids \cap {Primary}) \o SetToSeq(ids \ {Primary})

At(g, what) == todo[g] # <<>> /\ Head(todo[g]).do = what
Task(g) == Head(todo[g])
Done(g) == todo' = [todo EXCEPT ![g] = Tail(@)]

Trouble == troubles < MaxTroubles /\ troubles' = troubles + 1

Spoil(why, yes) == spoiled' = spoiled \cup (IF yes THEN {why} ELSE {})

\* NewManager with an empty state file or, without a Raft log, one that lists
\* the set.
Init ==
  /\ process \in Modes
  /\ entries = <<>>
  /\ \E ids \in IF Raft THEN {{}} ELSE {{}, Ids} :
       tenants = [ids |-> ids, dir |-> [id \in Ids |-> id]]
  /\ saved = tenants
  /\ snap = [upto |-> 0, tenants |-> tenants]
  /\ registry = [id \in Ids |-> None] /\ starts = [id \in Ids |-> None]
  /\ attempts = [id \in Ids |-> 0] /\ applied = 0
  /\ todo = [g \in Goroutines |->
       IF g = "boot" THEN Starting(InOrder(saved.ids)) ELSE <<>>]
  /\ live = [e \in Engines |-> None]
  /\ troubles = 0
  /\ spoiled = {}

-----------------------------------------------------------------------------
(* Requests: what the handlers check first, before they append an entry or *)
(* go on to work on their own.                                             *)

Request(work) ==
  LET free == {h \in Handlers : todo[h] = <<>>} IN
  /\ todo["boot"] = <<>> /\ Len(entries) < MaxEntries
  /\ entries' = Append(entries, work)
  /\ IF Raft THEN UNCHANGED <<applied, todo>>
     ELSE /\ free # {}
          /\ applied' = applied + 1
          /\ todo' = [todo EXCEPT ![CHOOSE h \in free : TRUE] = work]
  /\ UNCHANGED <<process, snap, saved, tenants, registry, starts, attempts, live, troubles,
                 spoiled>>

ProvisionWith ==
  /\ tenants.ids = {}
  /\ Request(<<ProvisionTask>>)

\* A tenant goes with the replicas it has, which go first.
DeleteTenant(id) ==
  LET ids == IF id = Primary THEN Reverse(InOrder(tenants.ids)) ELSE <<id>> IN
  /\ id \in tenants.ids
  /\ Request([i \in DOMAIN ids |-> RemoveTask(ids[i])])

Promote(id) == Request(<<PromoteTask(id)>>)

-----------------------------------------------------------------------------
(* StartTenant. *)

\* It returns at once when the id is being started or has an engine.
StartNothing(g) ==
  /\ At(g, "start")
  /\ starts[Task(g).id] # None \/ registry[Task(g).id] # None
  /\ \A id \in Ids : starts[id] # None => starts[id].by # g
  /\ Done(g)
  /\ UNCHANGED <<process, disk, manager, live, troubles, spoiled>>

\* Mutant: a replica follows the address it was provisioned with.
Claim_FirstPrimary(g) ==
  LET id == Task(g).id IN
  /\ At(g, "start")
  /\ starts[id] = None /\ registry[id] = None
  /\ starts' = [starts EXCEPT ![id] =
       [by |-> g, stage |-> "open", dir |-> Dir(id),
        follows |-> IF id = Primary THEN None ELSE Primary]]
  /\ UNCHANGED <<process, disk, tenants, registry, attempts, applied, todo, live, troubles,
                 spoiled>>

\* Otherwise it claims the id and reads the record, and a replica's the primary's.
Claim(g) ==
  LET id == Task(g).id IN
  /\ At(g, "start")
  /\ starts[id] = None /\ registry[id] = None
  /\ starts' = [starts EXCEPT ![id] =
       [by |-> g, stage |-> "open", dir |-> Dir(id),
        follows |-> IF id # Primary /\ Primary \in tenants.ids THEN Dir(Primary) ELSE None]]
  /\ UNCHANGED <<process, disk, tenants, registry, attempts, applied, todo, live, troubles,
                 spoiled>>

Free(e) ==
  /\ live[e] = None /\ todo[e] = <<>>
  /\ \A g \in Goroutines : \A i \in DOMAIN todo[g] : todo[g][i].engine # e

\* The engine opens its directory, its sockets appear and it is registered.
Open(id) ==
  LET free == {e \in Engines : Free(e)}
      e == CHOOSE x \in free : TRUE
  IN
  /\ starts[id] # None /\ starts[id].stage = "open"
  /\ free # {}
  /\ live' = [live EXCEPT ![e] =
       [dir |-> starts[id].dir, writable |-> id = Primary,
        listens |-> IF id = Primary THEN starts[id].dir ELSE None,
        follows |-> starts[id].follows, exit |-> "run"]]
  /\ registry' = [registry EXCEPT ![id] = e]
  /\ starts' = [starts EXCEPT ![id].stage = "ok"]
  /\ UNCHANGED <<process, disk, tenants, attempts, applied, todo, troubles, spoiled>>

OpenFail(id) ==
  /\ starts[id] # None /\ starts[id].stage = "open"
  /\ Trouble
  /\ starts' = [starts EXCEPT ![id].stage = "error"]
  /\ UNCHANGED <<process, disk, tenants, registry, attempts, applied, todo, live, spoiled>>

\* The claim goes, and the caller goes on.  startReplicaSet and a promotion give
\* up when the primary does not start.
Release(id) ==
  /\ starts[id] # None /\ starts[id].stage # "open"
  /\ starts' = [starts EXCEPT ![id] = None]
  /\ LET g == starts[id].by
         gaveUp == starts[id].stage = "error" /\ id = Primary /\ g \in SetStarts \cup Handlers
     IN  /\ todo' = [todo EXCEPT ![g] = IF gaveUp THEN <<>> ELSE Tail(@)]
         /\ Spoil("failed", gaveUp /\ g \in Handlers)
  /\ UNCHANGED <<process, disk, tenants, registry, attempts, applied, live, troubles>>

-----------------------------------------------------------------------------
(* What a request does, in OrchestratorFSM.Apply or in its handler.        *)

\* The next entry of the Raft log.
Apply ==
  /\ Raft /\ todo["boot"] = <<>> /\ todo["fsm"] = <<>>
  /\ snap.upto <= applied /\ applied < Len(entries)
  /\ applied' = applied + 1
  /\ todo' = [todo EXCEPT !["fsm"] = entries[applied + 1]]
  /\ UNCHANGED <<process, disk, tenants, registry, starts, attempts, live, troubles, spoiled>>

\* The records are put in place, over whatever was there.  FSM.Apply does not save
\* them and starts the set unless the tenant runs; ProvisionWith returns when it
\* cannot save them.  A second provision has records of its own, with other ports.
Provision(g) ==
  LET s == IF todo["set"] = <<>> THEN "set" ELSE "again"
      done == [todo EXCEPT ![g] = <<>>]
  IN
  /\ At(g, "provision") /\ todo[s] = <<>>
  /\ tenants' = [ids |-> Ids, dir |-> [id \in Ids |-> id]]
  /\ \/ /\ saved' = IF Raft THEN saved ELSE tenants'
        /\ todo' = IF Raft /\ registry[Primary] # None THEN done
                    ELSE [done EXCEPT ![s] = Starting(InOrder(Ids))]
        /\ UNCHANGED troubles
     \/ ~Raft /\ Trouble /\ todo' = done /\ UNCHANGED saved
  /\ spoiled' = spoiled
       \cup (IF \E id \in tenants.ids : Dir(id) # id THEN {"reset"} ELSE {})
       \cup (IF \/ tenants.ids # {} /\ \E i, j \in DOMAIN entries :
                   i # j /\ entries[i] = <<ProvisionTask>> /\ entries[j] = <<ProvisionTask>>
                \/ \E h \in Handlers, id \in Ids : RemoveTask(id) \in Range(todo[h])
             THEN {"overlap"} ELSE {})
  /\ UNCHANGED <<process, entries, snap, registry, starts, attempts, applied, live>>

\* removeTenant; when the save fails the engine is stopped and the request ends.
RemoveTenant(g) ==
  LET id == Task(g).id
      stop == Stopping({registry[id]})
  IN
  /\ At(g, "remove")
  /\ tenants' = [tenants EXCEPT !.ids = @ \ {id}]
  /\ registry' = [registry EXCEPT ![id] = None]
  /\ \/ /\ saved' = tenants'
        /\ todo' = [todo EXCEPT ![g] = stop \o Tail(@)]
        /\ UNCHANGED troubles
     \/ /\ Trouble
        /\ todo' = [todo EXCEPT ![g] = stop]
        /\ UNCHANGED saved
  /\ Spoil("overlap", \E x \in Goroutines : StartTask(id) \in Range(todo[x]))
  /\ UNCHANGED <<process, entries, snap, starts, attempts, applied, live>>

\* promoteLocal.  Under the lock: the swap of the records, the promoted engine
\* registered for the public tenant, the others deregistered, the save.  Then the
\* tasks, which end with the stops when the save failed.
promoteLocal(g) ==
  LET r == Task(g).id
      others == tenants.ids \ {Primary, r}
      old == {registry[id] : id \in Ids \ {r}}
      new == registry[r]
      swapped == [tenants EXCEPT !.dir[Primary] = Dir(r), !.dir[r] = Dir(Primary)]
      restart == (IF new # None THEN <<BecomeTask(new)>> ELSE Starting(<<Primary>>))
                   \o Starting(<<r>> \o SetToSeq(others))
      hadEngines == old \cup {new} # {None}
  IN
  /\ At(g, "promote")
  /\ IF r \in tenants.ids /\ Primary \in tenants.ids
     THEN /\ tenants' = swapped
          /\ registry' = [id \in Ids |-> IF id = Primary THEN new ELSE None]
          /\ \/ /\ saved' = swapped
                /\ todo' = [todo EXCEPT ![g] =
                     Stopping(old) \o (IF hadEngines THEN restart ELSE <<>>)]
                /\ Spoil("overlap", \E id \in Ids : starts[id] # None)
                /\ UNCHANGED troubles
             \/ /\ Trouble
                /\ todo' = [todo EXCEPT ![g] = Stopping(old)]
                /\ Spoil("failed", TRUE)
                /\ UNCHANGED saved
     ELSE Done(g) /\ UNCHANGED <<tenants, registry, saved, troubles, spoiled>>
  /\ UNCHANGED <<process, entries, snap, starts, attempts, applied, live>>

Stop(g) ==
  /\ At(g, "stop")
  /\ live' = [live EXCEPT ![Task(g).engine] = None]
  /\ Done(g)
  /\ UNCHANGED <<process, disk, manager, troubles, spoiled>>

Answers(e) == live[e] # None /\ live[e].exit = "run"

\* BecomePrimary: no more replica stream, client writes, a listener.
Become(g) ==
  LET e == Task(g).engine IN
  /\ At(g, "become")
  /\ process => Answers(e)
  /\ live' = [live EXCEPT ![e] =
       IF @ = None THEN None
       ELSE [@ EXCEPT !.writable = TRUE, !.follows = None, !.listens = Dir(Primary)]]
  /\ Done(g)
  /\ UNCHANGED <<process, disk, manager, troubles, spoiled>>

\* The listener cannot be bound, or the worker does not answer.
BecomeFail(g) ==
  /\ At(g, "become")
  /\ \/ Trouble
     \/ process /\ ~Answers(Task(g).engine) /\ UNCHANGED troubles
  /\ todo' = [todo EXCEPT ![g] = <<>>]
  /\ Spoil("failed", TRUE)
  /\ UNCHANGED <<process, disk, manager, live>>

-----------------------------------------------------------------------------
(* Supervisors, snapshots and restarts. *)

\* An engine reports an error, or its process ends; a worker told to stop from
\* outside exits without one.
Fail(e, how) ==
  /\ Answers(e)
  /\ how = "clean" => process
  /\ Trouble
  /\ live' = [live EXCEPT ![e].exit = how]
  /\ UNCHANGED <<process, disk, manager, todo, spoiled>>

\* superviseWorker and superviseTenant: whoever the engine serves by now is
\* restarted, at most MaxAttempts times.  They do nothing about a clean exit.
Supervise(e) ==
  LET owners == {id \in Ids : registry[id] = e} IN
  /\ live[e] # None /\ live[e].exit = "error"
  /\ live' = [live EXCEPT ![e].exit = "seen"]
  /\ registry' = [id \in Ids |-> IF id \in owners THEN None ELSE registry[id]]
  /\ IF owners \cap tenants.ids = {} THEN UNCHANGED <<attempts, todo>>
     ELSE LET id == CHOOSE x \in owners : TRUE IN
          /\ attempts' = [attempts EXCEPT ![id] = @ + 1]
          /\ todo' = [todo EXCEPT ![e] =
               <<StopTask(e)>> \o
               (IF attempts[id] < MaxAttempts THEN <<StartTask(id)>> ELSE <<>>)]
  /\ UNCHANGED <<process, disk, tenants, starts, applied, troubles, spoiled>>

\* FSM.Snapshot and Persist.
Snapshot ==
  /\ Raft /\ todo["boot"] = <<>> /\ todo["fsm"] = <<>>
  /\ snap.upto < applied
  /\ snap' = [upto |-> applied, tenants |-> tenants]
  /\ UNCHANGED <<process, entries, saved, manager, todo, live, troubles, spoiled>>

\* FSM.Restore: the map is replaced and tenants without an engine are started;
\* no start reads what another one writes, so their order does not matter.
Restore ==
  /\ Raft /\ todo["boot"] = <<>> /\ applied < snap.upto
  /\ tenants' = snap.tenants /\ applied' = snap.upto
  /\ todo' = [todo EXCEPT !["restore"] =
       Starting(InOrder({id \in snap.tenants.ids : registry[id] = None}))]
  /\ Spoil("reset", \E id \in tenants.ids :
       ~(id \in snap.tenants.ids /\ snap.tenants.dir[id] = Dir(id)))
  /\ UNCHANGED <<process, disk, registry, starts, attempts, live, troubles>>

\* The orchestrator is killed, or ends after StopAll, and NewManager starts what
\* the state file lists.  Workers that were not stopped live on.
Restart(stopAll) ==
  LET left == {e \in Engines : /\ process /\ live[e] # None
                               /\ ~(stopAll /\ e \in Range(registry))}
  IN
  /\ Trouble
  /\ tenants' = saved /\ applied' = IF Raft THEN 0 ELSE applied
  /\ registry' = [id \in Ids |-> None] /\ starts' = [id \in Ids |-> None]
  /\ attempts' = [id \in Ids |-> 0]
  /\ todo' = [g \in Goroutines |->
       IF g = "boot" THEN Starting(InOrder(saved.ids)) ELSE <<>>]
  /\ live' = [e \in Engines |-> IF e \in left THEN [live[e] EXCEPT !.exit = "seen"] ELSE None]
  /\ Spoil("orphan", left # {})
  /\ UNCHANGED <<process, disk>>

-----------------------------------------------------------------------------
Next ==
  \/ ProvisionWith \/ \E id \in Ids : DeleteTenant(id)
  \/ \E id \in Replicas : Promote(id)
  \/ \E id \in Ids : Open(id) \/ OpenFail(id) \/ Release(id)
  \/ \E g \in Goroutines : StartNothing(g) \/ Claim(g)
  \/ Apply \/ \E h \in Handlers : Provision(h) \/ RemoveTenant(h) \/ promoteLocal(h)
  \/ \E g \in Goroutines : Stop(g) \/ Become(g) \/ BecomeFail(g)
  \/ \E e \in Engines : Supervise(e) \/ Fail(e, "error") \/ Fail(e, "clean")
  \/ Snapshot \/ Restore
  \/ Restart(TRUE) \/ Restart(FALSE)

Spec == Init /\ [][Next]_vars

-----------------------------------------------------------------------------
(* Properties. *)

Quiet ==
  /\ \A g \in Goroutines : todo[g] = <<>>
  /\ \A id \in Ids : starts[id] = None

\* Every engine is in the directory of the tenant it is registered for, and no
\* other engine is; the public tenant's accepts writes, and the replicas' follow it.
Serves ==
  /\ \A e \in Engines : live[e] # None => \E id \in tenants.ids : registry[id] = e
  /\ \A id \in Ids : registry[id] # None /\ live[registry[id]].exit = "run" =>
       LET e == live[registry[id]] IN
       /\ e.dir = Dir(id)
       /\ id = Primary => e.writable /\ e.listens = Dir(id)
       /\ id # Primary => ~e.writable /\ e.follows = Dir(Primary)

\* A replica set serves, through promotions, failed engines and their supervisors,
\* deletions and restarts (promoteLocal, superviseWorker, StartTenant, FSM.Apply).
\* Not claimed after a promotion that returned an error or that met a StartTenant at
\* work, a provision that met another or a removal at work, after a promotion is
\* applied again or with workers a kill left behind.
SetServes == Quiet /\ spoiled = {} => Serves

\* Once the log is applied and nothing is at work, no two engines are in the same
\* directory, whatever was promoted before a restart (fsm.go, NewManager).
OwnDirectory ==
  Quiet /\ applied = Len(entries) /\ spoiled \subseteq {"reset"} =>
    \A d, e \in Engines : d # e /\ live[d] # None /\ live[e] # None => live[d].dir # live[e].dir

=============================================================================
