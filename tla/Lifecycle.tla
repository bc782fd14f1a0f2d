----------------------------- MODULE Lifecycle ------------------------------
(***************************************************************************)
(* The orchestrator's tenant lifecycle on one node: provision, start,      *)
(* supervise, hibernate, wake, delete, restore, shut down and restart.     *)
(*                                                                         *)
(* Each operation is a goroutine.  It holds the manager's lock for one     *)
(* critical section at a time and stops, opens or moves things between     *)
(* them, so a step here is one critical section or one such effect.  The   *)
(* goroutine that supervises an engine is named after the engine.          *)
(*                                                                         *)
(* A tenant record is a pointer: an operation may hold the one it read     *)
(* while the map has another, or none, under the same id.  Engines run in  *)
(* the orchestrator's process and die with it.                             *)
(***************************************************************************)
EXTENDS Integers, FiniteSets

CONSTANTS
  Ids,          \* tenant ids, each with its data directory
  Slots,        \* goroutines that serve requests
  Engines,      \* engine instances
  None,
  Records,      \* bound: records of one id that exist at a time, 1 .. Records
  Budget,       \* tenants whose quotas fit in 70% of the node's budget
  MaxTenants,   \* maxTenantsPerNode
  MaxRestarts,  \* restarts of a tenant by its supervisors
  MaxOps,       \* bound: requests
  MaxFaults,    \* bound: saves, starts and validations that fail
  MaxFailures,  \* bound: engines that report an error
  MaxCrashes    \* bound: crashes and shutdowns

Goroutines == Slots \cup Engines
Tenants == Ids \X (1 .. Records)

ASSUME LifecycleAssumption ==
  /\ Slots \cap Engines = {}
  /\ None \notin Ids /\ None \notin Engines /\ None \notin Tenants
  /\ None # "archive"
  /\ \A n \in {Records, Budget, MaxTenants, MaxRestarts, MaxOps, MaxFaults,
               MaxFailures, MaxCrashes} : n \in Nat
  /\ Records > 0

VARIABLES
  \* the manager
  tenants,      \* the record of each id, or None
  hibernated,   \* the records whose Hibernated is set
  instances,    \* the engine registered for each id, or None
  starting,     \* ids of the StartTenant in progress
  quotas,       \* ids with memory reserved
  restarts,     \* failures counted against each id
  boot,         \* ids NewManager has still to start
  \* the engines
  live,         \* those that have their data directory open
  failed,       \* those that have reported an error
  home,         \* the id whose directory an engine opened
  \* the disk
  saved,        \* what the state file says of each id: absent, awake or hibernated
  dir,          \* what each data directory holds: "empty", "data", "archive" or None
  rollback,     \* ... and its .rollback sibling
  \* the goroutines
  gr,           \* each one's next step, record, engines to stop, continuation
  ops, faults, failures, crashes,
  \* history
  overlap,      \* ids on which an operation began while another was at work
  unsaved,      \* ids with a change that could not be saved, since the start
  cut,          \* ids with a restore that a crash or a failed rename back cut short
  denied,       \* ids whose last start, or restore, failed to start an engine
  want          \* what the directory of each id should hold

manager == <<tenants, hibernated, instances, starting, quotas, restarts, boot>>
engines == <<live, failed, home>>
disk == <<saved, dir, rollback>>
history == <<overlap, unsaved, cut, denied, want>>
counts == <<ops, faults, failures, crashes>>
vars == <<manager, engines, disk, gr, counts, history>>

Steps == {"idle", "watch", "insert", "remove", "stop", "purge", "extract",
          "swap", "place", "commit", "undo", "start", "claim", "admit", "open",
          "publish", "release-ok", "release-error", "boot", "exit"}

Idle == [pc |-> "idle", tenant |-> None, held |-> {}, then |-> "idle"]
Watch == [Idle EXCEPT !.pc = "watch"]

-----------------------------------------------------------------------------
At(g, step) == gr[g].pc = step

Step(pc, t, held, then) == [pc |-> pc, tenant |-> t, held |-> held, then |-> then]

Go(g, next) == gr' = [gr EXCEPT ![g] = next]

Id(g) == gr[g].tenant[1]

\* Where a goroutine goes after the step that had a continuation.
Continue(r) ==
  IF r.then \in {"idle", "boot"} THEN Idle ELSE Step(r.then, r.tenant, {}, "idle")

\* ... and when StartTenant returned an error: a restore is undone.
Failed(g) ==
  IF gr[g].then = "commit" THEN Step("undo", gr[g].tenant, {}, "idle") ELSE Idle

\* An operation or a supervisor is at work on the tenant; StopAll is on all.
Working(id) ==
  \E g \in Goroutines :
    gr[g].pc \notin {"idle", "watch"} /\ (gr[g].tenant = None \/ Id(g) = id)

Overlap(id) == overlap' = IF Working(id) THEN overlap \cup {id} ELSE overlap

\* The API is served between the end of NewManager and the call of StopAll.
Serving ==
  boot = {} /\ \A g \in Slots : gr[g].then \notin {"boot", "exit"} /\ ~At(g, "exit")

Begin(g, id) ==
  /\ g \in Slots /\ At(g, "idle")
  /\ Serving
  /\ ops < MaxOps /\ ops' = ops + 1
  /\ Overlap(id)

Fault == faults < MaxFaults /\ faults' = faults + 1

Registered(id) == {instances[id]} \ {None}

\* The state file's view of a tenant map.
Image(t, h) ==
  [id \in Ids |-> IF t[id] = None THEN "absent"
                  ELSE IF t[id] \in h THEN "hibernated" ELSE "awake"]

SaveState ==
  /\ saved' = Image(tenants', hibernated')
  /\ UNCHANGED <<faults, unsaved>>

SaveStateFail(id) ==
  /\ Fault
  /\ unsaved' = unsaved \cup {id}
  /\ UNCHANGED saved

Init ==
  /\ \E loaded \in SUBSET Ids :
       /\ saved = [id \in Ids |-> IF id \in loaded THEN "awake" ELSE "absent"]
       /\ tenants = [id \in Ids |-> IF id \in loaded THEN <<id, 1>> ELSE None]
       /\ dir = [id \in Ids |-> IF id \in loaded THEN "data" ELSE None]
       /\ boot = loaded
  /\ want = dir
  /\ hibernated = {} /\ instances = [id \in Ids |-> None]
  /\ starting = {} /\ quotas = {} /\ restarts = [id \in Ids |-> 0]
  /\ live = {} /\ failed = {} /\ home = [e \in Engines |-> None]
  /\ rollback = [id \in Ids |-> None]
  /\ gr = [g \in Goroutines |-> Idle]
  /\ ops = 0 /\ faults = 0 /\ failures = 0 /\ crashes = 0
  /\ overlap = {} /\ unsaved = {} /\ cut = {} /\ denied = {}

-----------------------------------------------------------------------------
(* Provision and delete. *)

\* The checks of ProvisionWith, which then releases the lock.
ProvisionWith(g, id) ==
  /\ Begin(g, id)
  /\ tenants[id] = None
  /\ Cardinality({i \in Ids : tenants[i] # None}) < MaxTenants
  /\ \E n \in 1 .. Records :
       /\ \A x \in Goroutines : gr[x].tenant # <<id, n>>
       /\ hibernated' = hibernated \ {<<id, n>>}
       /\ Go(g, Step("insert", <<id, n>>, {}, "idle"))
  /\ UNCHANGED <<tenants, instances, starting, quotas, restarts, boot, engines, disk,
                 faults, failures, crashes, unsaved, cut, denied, want>>

\* ... and inserts the record, whatever is there by now.  When the save fails
\* the record stays, and nothing is started.
Insert(g) ==
  /\ At(g, "insert")
  /\ tenants' = [tenants EXCEPT ![Id(g)] = gr[g].tenant]
  /\ UNCHANGED hibernated
  /\ \/ SaveState /\ Go(g, Step("start", gr[g].tenant, {}, "idle"))
     \/ SaveStateFail(Id(g)) /\ Go(g, Idle)
  /\ UNCHANGED <<instances, starting, quotas, restarts, boot, engines, dir, rollback,
                 ops, failures, crashes, overlap, cut, denied, want>>

\* deleteTenant reads the record and releases the lock.
DeleteTenant(g, id, purge) ==
  /\ Begin(g, id)
  /\ tenants[id] # None
  /\ Go(g, Step("remove", tenants[id], {}, IF purge THEN "purge" ELSE "idle"))
  /\ UNCHANGED <<manager, engines, disk, faults, failures, crashes, unsaved, cut,
                 denied, want>>

\* Mutant: the memory reservation outlives the tenant.
RemoveTenant_KeepQuota(g) ==
  /\ At(g, "remove")
  /\ instances' = [instances EXCEPT ![Id(g)] = None]
  /\ tenants' = [tenants EXCEPT ![Id(g)] = None]
  /\ UNCHANGED <<hibernated, quotas>>
  /\ SaveState
  /\ Go(g, Step("stop", gr[g].tenant, Registered(Id(g)), gr[g].then))
  /\ UNCHANGED <<starting, restarts, boot, engines, dir, rollback, ops, failures,
                 crashes, overlap, cut, denied, want>>

RemoveTenant(g) ==
  /\ At(g, "remove")
  /\ instances' = [instances EXCEPT ![Id(g)] = None]
  /\ quotas' = quotas \ {Id(g)}
  /\ tenants' = [tenants EXCEPT ![Id(g)] = None]
  /\ UNCHANGED hibernated
  /\ \/ /\ SaveState
        /\ Go(g, Step("stop", gr[g].tenant, Registered(Id(g)), gr[g].then))
     \/ /\ SaveStateFail(Id(g))
        /\ Go(g, Step("stop", gr[g].tenant, Registered(Id(g)), "idle"))
  /\ UNCHANGED <<starting, restarts, boot, engines, dir, rollback, ops, failures,
                 crashes, overlap, cut, denied, want>>

\* Stop returns for every engine the goroutine took out of the map.  The
\* supervisor of an engine that is stopped in order ends.
Stop(g) ==
  /\ At(g, "stop")
  /\ live' = live \ gr[g].held
  /\ gr' = [x \in Goroutines |->
              IF x = g THEN Continue(gr[g])
              ELSE IF x \in gr[g].held \ failed /\ At(x, "watch") THEN Idle
              ELSE gr[x]]
  /\ UNCHANGED <<manager, failed, home, disk, counts, history>>

Purge(g) ==
  /\ At(g, "purge")
  /\ dir' = [dir EXCEPT ![Id(g)] = None]
  /\ want' = [want EXCEPT ![Id(g)] = None]
  /\ Go(g, Idle)
  /\ UNCHANGED <<manager, engines, saved, rollback, counts, overlap, unsaved, cut, denied>>

-----------------------------------------------------------------------------
(* Hibernate and wake. *)

\* Mutant: the engine is taken out of the map and not stopped.
HibernateTenant_NoStop(g, id) ==
  /\ Begin(g, id)
  /\ tenants[id] # None
  /\ UNCHANGED tenants
  /\ hibernated' = hibernated \cup {tenants[id]}
  /\ instances' = [instances EXCEPT ![id] = None]
  /\ SaveState
  /\ UNCHANGED <<gr, starting, quotas, restarts, boot, engines, dir, rollback, failures,
                 crashes, cut, denied, want>>

\* A save that fails marks the tenant awake, whatever it was before.
HibernateTenant(g, id) ==
  /\ Begin(g, id)
  /\ tenants[id] # None
  /\ UNCHANGED tenants
  /\ \/ /\ hibernated' = hibernated \cup {tenants[id]}
        /\ instances' = [instances EXCEPT ![id] = None]
        /\ SaveState
        /\ Go(g, Step("stop", tenants[id], Registered(id), "idle"))
     \/ /\ hibernated' = hibernated \ {tenants[id]}
        /\ SaveStateFail(id)
        /\ UNCHANGED <<instances, gr>>
  /\ UNCHANGED <<starting, quotas, restarts, boot, engines, dir, rollback, failures,
                 crashes, cut, denied, want>>

\* A save that fails marks the tenant hibernated, whatever it was before.
WakeTenant(g, id, requireHibernated) ==
  /\ Begin(g, id)
  /\ tenants[id] # None
  /\ requireHibernated => tenants[id] \in hibernated
  /\ UNCHANGED tenants
  /\ \/ /\ hibernated' = hibernated \ {tenants[id]}
        /\ SaveState
        /\ Go(g, Step("start", tenants[id], {}, "idle"))
     \/ /\ hibernated' = hibernated \cup {tenants[id]}
        /\ SaveStateFail(id)
        /\ UNCHANGED gr
  /\ UNCHANGED <<instances, starting, quotas, restarts, boot, engines, dir, rollback,
                 failures, crashes, cut, denied, want>>

-----------------------------------------------------------------------------
(* StartTenant.  It returns nil without an engine when another start of the *)
(* tenant is in progress.                                                   *)

\* The Hibernated flag of the record is read without a lock.
StartTenant(g) ==
  /\ At(g, "start")
  /\ \/ gr[g].tenant \in hibernated /\ Go(g, Failed(g))
     \/ gr[g].tenant \notin hibernated /\ Go(g, [gr[g] EXCEPT !.pc = "claim"])
  /\ UNCHANGED <<manager, engines, disk, counts, history>>

\* Mutant: a start does not look for another start in progress.
Claim_NoStarting(g) ==
  /\ At(g, "claim")
  /\ \/ /\ instances[Id(g)] # None
        /\ Go(g, Continue(gr[g]))
        /\ UNCHANGED starting
     \/ /\ instances[Id(g)] = None
        /\ starting' = starting \cup {Id(g)}
        /\ Go(g, [gr[g] EXCEPT !.pc = "admit"])
  /\ UNCHANGED <<tenants, hibernated, instances, quotas, restarts, boot, engines, disk,
                 counts, history>>

Claim(g) ==
  /\ At(g, "claim")
  /\ \/ /\ Id(g) \in starting \/ instances[Id(g)] # None
        /\ Go(g, Continue(gr[g]))
        /\ UNCHANGED starting
     \/ /\ Id(g) \notin starting /\ instances[Id(g)] = None
        /\ starting' = starting \cup {Id(g)}
        /\ Go(g, [gr[g] EXCEPT !.pc = "admit"])
  /\ UNCHANGED <<tenants, hibernated, instances, quotas, restarts, boot, engines, disk,
                 counts, history>>

\* MkdirAll of the data directory.
MakeDir(id) ==
  /\ dir' = IF dir[id] = None THEN [dir EXCEPT ![id] = "empty"] ELSE dir
  /\ want' = IF dir[id] = None /\ want[id] = None
             THEN [want EXCEPT ![id] = "empty"] ELSE want

\* The directory, the key, the engine's configuration and its users; then the
\* reservation of memory, which a tenant that has one keeps.
Admit(g) ==
  /\ At(g, "admit")
  /\ \/ /\ MakeDir(Id(g))
        /\ Id(g) \in quotas \/ Cardinality(quotas) < Budget
        /\ quotas' = quotas \cup {Id(g)}
        /\ Go(g, [gr[g] EXCEPT !.pc = "open"])
        /\ UNCHANGED faults
     \/ /\ MakeDir(Id(g))
        /\ Id(g) \notin quotas /\ Cardinality(quotas) >= Budget
        /\ Go(g, [gr[g] EXCEPT !.pc = "release-error"])
        /\ UNCHANGED <<quotas, faults>>
     \/ /\ Fault
        /\ MakeDir(Id(g)) \/ UNCHANGED <<dir, want>>
        /\ Go(g, [gr[g] EXCEPT !.pc = "release-error"])
        /\ UNCHANGED quotas
  /\ UNCHANGED <<tenants, hibernated, instances, starting, restarts, boot, engines, saved,
                 rollback, ops, failures, crashes, overlap, unsaved, cut, denied>>

Unused(e) ==
  /\ e \notin live /\ At(e, "idle")
  /\ \A id \in Ids : instances[id] # e
  /\ \A g \in Goroutines : e \notin gr[g].held

\* The engine opens its files and binds its sockets, or fails.  What some errors
\* of Instance.Start leave open, a log that nobody appends to, is left out.
Open(g) ==
  /\ At(g, "open")
  /\ MakeDir(Id(g))
  /\ \/ \E e \in Engines :
          /\ Unused(e)
          /\ live' = live \cup {e} /\ failed' = failed \ {e}
          /\ home' = [home EXCEPT ![e] = Id(g)]
          /\ Go(g, [gr[g] EXCEPT !.pc = "publish", !.held = {e}])
          /\ UNCHANGED faults
     \/ /\ Fault
        /\ Go(g, [gr[g] EXCEPT !.pc = "release-error"])
        /\ UNCHANGED engines
  /\ UNCHANGED <<manager, saved, rollback, ops, failures, crashes, overlap, unsaved, cut,
                 denied>>

\* The engine is registered, without another look at the tenant, and supervised.
Publish(g) ==
  /\ At(g, "publish")
  /\ \E e \in gr[g].held :
       /\ instances' = [instances EXCEPT ![Id(g)] = e]
       /\ gr' = [gr EXCEPT ![g].pc = "release-ok", ![g].held = {}, ![e] = Watch]
  /\ denied' = denied \ {Id(g)}
  /\ UNCHANGED <<tenants, hibernated, starting, quotas, restarts, boot, engines, disk,
                 counts, overlap, unsaved, cut, want>>

\* Mutant: a start that succeeds does not release its claim.
Release_KeepClaim(g) ==
  /\ gr[g].pc \in {"release-ok", "release-error"}
  /\ \/ /\ At(g, "release-ok") /\ Go(g, Continue(gr[g]))
        /\ UNCHANGED <<starting, denied>>
     \/ /\ At(g, "release-error") /\ Go(g, Failed(g))
        /\ starting' = starting \ {Id(g)} /\ denied' = denied \cup {Id(g)}
  /\ UNCHANGED <<tenants, hibernated, instances, quotas, restarts, boot, engines, disk,
                 counts, overlap, unsaved, cut, want>>

\* The deferred release of the claim, and the return.
Release(g) ==
  /\ gr[g].pc \in {"release-ok", "release-error"}
  /\ starting' = starting \ {Id(g)}
  /\ \/ At(g, "release-ok") /\ Go(g, Continue(gr[g])) /\ UNCHANGED denied
     \/ At(g, "release-error") /\ Go(g, Failed(g)) /\ denied' = denied \cup {Id(g)}
  /\ UNCHANGED <<tenants, hibernated, instances, quotas, restarts, boot, engines, disk,
                 counts, overlap, unsaved, cut, want>>

-----------------------------------------------------------------------------
(* Supervision. *)

EngineFails(e) ==
  /\ At(e, "watch") /\ e \in live \ failed
  /\ failures < MaxFailures /\ failures' = failures + 1
  /\ failed' = failed \cup {e}
  /\ UNCHANGED <<manager, live, home, disk, gr, ops, faults, crashes, history>>

\* The supervisor receives the error.  An engine that is still registered is
\* taken out of the map; it is stopped and restarted unless its tenant is
\* gone or hibernated, in which case the supervisor just returns.
SuperviseTenant(e) ==
  /\ At(e, "watch") /\ e \in failed
  /\ \/ /\ \A id \in Ids : instances[id] # e
        /\ Go(e, Idle)
        /\ UNCHANGED <<instances, restarts, overlap>>
     \/ \E id \in Ids :
          /\ instances[id] = e
          /\ instances' = [instances EXCEPT ![id] = None]
          /\ Overlap(id)
          /\ \/ /\ tenants[id] = None \/ tenants[id] \in hibernated
                /\ Go(e, Idle)
                /\ UNCHANGED restarts
             \/ /\ tenants[id] # None /\ tenants[id] \notin hibernated
                /\ restarts' = [restarts EXCEPT ![id] = @ + 1]
                /\ Go(e, Step("stop", tenants[id], {e},
                              IF restarts[id] < MaxRestarts THEN "start" ELSE "idle"))
  /\ UNCHANGED <<tenants, hibernated, starting, quotas, boot, engines, disk, counts,
                 unsaved, cut, denied, want>>

-----------------------------------------------------------------------------
(* Restore. *)

RestoreTenant(g, id) ==
  /\ Begin(g, id)
  /\ tenants[id] # None
  /\ instances' = [instances EXCEPT ![id] = None]
  /\ Go(g, Step("stop", tenants[id], Registered(id), "extract"))
  /\ UNCHANGED <<tenants, hibernated, starting, quotas, restarts, boot, engines, disk,
                 faults, failures, crashes, unsaved, cut, denied, want>>

\* The old rollback goes and the archive is validated in a staging directory.
\* When that directory cannot be made the tenant is left stopped.
Extract(g) ==
  /\ At(g, "extract")
  /\ rollback' = [rollback EXCEPT ![Id(g)] = None]
  /\ \/ /\ Go(g, [gr[g] EXCEPT !.pc = "swap"])
        /\ UNCHANGED <<faults, denied>>
     \/ /\ Fault
        /\ Go(g, Step("start", gr[g].tenant, {}, "idle"))
        /\ UNCHANGED denied
     \/ /\ Fault
        /\ Go(g, Idle)
        /\ denied' = denied \cup {Id(g)}
  /\ UNCHANGED <<manager, engines, saved, dir, ops, failures, crashes, overlap, unsaved,
                 cut, want>>

\* A directory is not renamed over another one.
Swap(g) ==
  /\ At(g, "swap")
  /\ LET id == Id(g) IN
     \/ /\ dir[id] # None => rollback[id] = None
        /\ rollback' = [rollback EXCEPT ![id] = IF dir[id] # None THEN dir[id] ELSE @]
        /\ dir' = [dir EXCEPT ![id] = None]
        /\ Go(g, [gr[g] EXCEPT !.pc = "place"])
        /\ UNCHANGED faults
     \/ /\ dir[id] # None /\ rollback[id] # None
        /\ Go(g, Step("start", gr[g].tenant, {}, "idle"))
        /\ UNCHANGED <<dir, rollback, faults>>
     \/ /\ Fault
        /\ Go(g, Step("start", gr[g].tenant, {}, "idle"))
        /\ UNCHANGED <<dir, rollback>>
  /\ UNCHANGED <<manager, engines, saved, ops, failures, crashes, history>>

\* The rollback is renamed back if the name is free.
PutBack(id) ==
  IF dir[id] = None
  THEN dir' = [dir EXCEPT ![id] = rollback[id]]
       /\ rollback' = [rollback EXCEPT ![id] = None]
  ELSE UNCHANGED <<dir, rollback>>

\* When the archive cannot take the name, the old directory gets it back, or
\* that rename fails too; its error is ignored.
Place(g) ==
  /\ At(g, "place")
  /\ \/ /\ dir[Id(g)] = None
        /\ dir' = [dir EXCEPT ![Id(g)] = "archive"]
        /\ Go(g, Step("start", gr[g].tenant, {}, "commit"))
        /\ UNCHANGED <<rollback, faults, cut>>
     \/ /\ (dir[Id(g)] # None /\ UNCHANGED faults) \/ Fault
        /\ PutBack(Id(g))
        /\ Go(g, Step("start", gr[g].tenant, {}, "idle"))
        /\ UNCHANGED cut
     \/ /\ Fault
        /\ cut' = cut \cup {Id(g)}
        /\ Go(g, Step("start", gr[g].tenant, {}, "idle"))
        /\ UNCHANGED <<dir, rollback>>
  /\ UNCHANGED <<manager, engines, saved, ops, failures, crashes, overlap, unsaved, denied,
                 want>>

Commit(g) ==
  /\ At(g, "commit")
  /\ rollback' = [rollback EXCEPT ![Id(g)] = None]
  /\ want' = [want EXCEPT ![Id(g)] = "archive"]
  /\ Go(g, Idle)
  /\ UNCHANGED <<manager, engines, saved, dir, counts, overlap, unsaved, cut, denied>>

\* Mutant: the restored directory is deleted and the old one left aside.
Undo_NoRename(g) ==
  /\ At(g, "undo")
  /\ dir' = [dir EXCEPT ![Id(g)] = None]
  /\ Go(g, Step("start", gr[g].tenant, {}, "idle"))
  /\ UNCHANGED <<manager, engines, saved, rollback, counts, history>>

\* The restored directory is deleted and the old one put back; the error of
\* this rename is ignored too.
Undo(g) ==
  /\ At(g, "undo")
  /\ \/ /\ dir' = [dir EXCEPT ![Id(g)] = rollback[Id(g)]]
        /\ rollback' = [rollback EXCEPT ![Id(g)] = None]
        /\ UNCHANGED <<faults, cut>>
     \/ /\ Fault
        /\ dir' = [dir EXCEPT ![Id(g)] = None]
        /\ cut' = cut \cup {Id(g)}
        /\ UNCHANGED rollback
  /\ Go(g, Step("start", gr[g].tenant, {}, "idle"))
  /\ UNCHANGED <<manager, engines, saved, ops, failures, crashes, overlap, unsaved, denied,
                 want>>

-----------------------------------------------------------------------------
(* Shutdown, crash and restart of the orchestrator. *)

StopAll(g) ==
  /\ g \in Slots /\ At(g, "idle") /\ Serving
  /\ crashes < MaxCrashes /\ crashes' = crashes + 1
  /\ Go(g, Step("stop", None, UNION {Registered(id) : id \in Ids}, "exit"))
  /\ instances' = [id \in Ids |-> None]
  /\ overlap' = overlap \cup {id \in Ids : Working(id)}
  /\ UNCHANGED <<tenants, hibernated, starting, quotas, restarts, boot, engines, disk,
                 ops, faults, failures, unsaved, cut, denied, want>>

Restoring(id) ==
  \E g \in Goroutines :
    /\ gr[g].pc \in {"place", "commit", "undo"} \/ gr[g].then = "commit"
    /\ Id(g) = id

\* The process is gone, and NewManager loads the state file.
Reboot ==
  /\ tenants' = [id \in Ids |-> IF saved[id] = "absent" THEN None ELSE <<id, 1>>]
  /\ hibernated' = {<<id, 1>> : id \in {i \in Ids : saved[i] = "hibernated"}}
  /\ boot' = {id \in Ids : saved[id] = "awake"}
  /\ instances' = [id \in Ids |-> None]
  /\ starting' = {} /\ quotas' = {} /\ restarts' = [id \in Ids |-> 0]
  /\ live' = {} /\ failed' = {} /\ home' = [e \in Engines |-> None]
  /\ gr' = [g \in Goroutines |-> Idle]
  /\ cut' = cut \cup {id \in Ids : Restoring(id)}
  /\ unsaved' = {} /\ denied' = {}
  /\ UNCHANGED <<disk, ops, faults, failures, overlap, want>>

Crash == crashes < MaxCrashes /\ crashes' = crashes + 1 /\ Reboot

Exit(g) == At(g, "exit") /\ Reboot /\ UNCHANGED crashes

\* NewManager starts the tenants that are awake, one after the other.
BootTenant(g) ==
  /\ g \in Slots /\ \A x \in Slots : At(x, "idle")
  /\ \E id \in boot :
       /\ boot' = boot \ {id}
       /\ Go(g, Step("start", tenants[id], {}, "boot"))
  /\ UNCHANGED <<tenants, hibernated, instances, starting, quotas, restarts, engines, disk,
                 counts, history>>

-----------------------------------------------------------------------------
Request(g, id) ==
  \/ ProvisionWith(g, id)
  \/ \E purge \in BOOLEAN : DeleteTenant(g, id, purge)
  \/ HibernateTenant(g, id)
  \/ \E requireHibernated \in BOOLEAN : WakeTenant(g, id, requireHibernated)
  \/ RestoreTenant(g, id)

Proceed(g) ==
  \/ Insert(g) \/ RemoveTenant(g) \/ Stop(g) \/ Purge(g)
  \/ StartTenant(g) \/ Claim(g) \/ Admit(g) \/ Open(g) \/ Publish(g) \/ Release(g)
  \/ Extract(g) \/ Swap(g) \/ Place(g) \/ Commit(g) \/ Undo(g)
  \/ Exit(g)

Next ==
  \/ \E g \in Slots, id \in Ids : Request(g, id)
  \/ \E g \in Goroutines : Proceed(g)
  \/ \E g \in Slots : StopAll(g) \/ BootTenant(g)
  \/ \E e \in Engines : EngineFails(e) \/ SuperviseTenant(e)
  \/ Crash

Spec == Init /\ [][Next]_vars

\* A goroutine that can run is run; nobody has to call the API.
FairSpec ==
  /\ Spec
  /\ \A g \in Goroutines : WF_vars(Proceed(g))
  /\ \A e \in Engines : WF_vars(SuperviseTenant(e))
  /\ WF_vars(\E g \in Slots : BootTenant(g))

-----------------------------------------------------------------------------
\* The engine was taken out of the map by a goroutine that is about to stop it.
Condemned(e) == \E g \in Goroutines : At(g, "stop") /\ e \in gr[g].held

\* Its supervisor found the tenant gone or hibernated and left it running.
Leaked(e) == e \in failed /\ At(e, "idle")

\* StartTenant (manager.go:533) against itself and every other operation: of
\* two engines that have one data directory open, one has been taken out of
\* the map and is being stopped, or is a failed one its supervisor left.
OneEngine ==
  \A e1, e2 \in live :
    e1 # e2 /\ home[e1] = home[e2] =>
      \E e \in {e1, e2} : Condemned(e) \/ Leaked(e)

\* No operation (hibernate.go:19, manager.go:398, backup_restore.go:83) loses
\* track of a running engine: it is registered for its own tenant, or in the
\* hands of the goroutine that will register or stop it.
NoLostEngine ==
  \A e \in live :
    \/ instances[home[e]] = e
    \/ \E g \in Goroutines : e \in gr[g].held /\ gr[g].pc \in {"publish", "stop"}
    \/ Leaked(e)

EnginesOf(id) == {e \in live : home[e] = id}

\* Requests that do not overlap on a tenant, with failing engines, failing
\* starts and restarts of the orchestrator in between: one engine at most
\* has the directory open at any time.  Once nothing is at work a deleted or
\* hibernated tenant has none, a running engine is registered and has memory
\* reserved, and a deleted tenant holds no reservation.
SequentialTenants ==
  \A id \in Ids \ (overlap \cup unsaved) :
    /\ \A e1, e2 \in EnginesOf(id) : e1 = e2
    /\ ~Working(id) =>
         /\ EnginesOf(id) \subseteq Registered(id)
         /\ EnginesOf(id) # {} =>
              /\ id \in quotas
              /\ tenants[id] \notin hibernated \cup {None}
         /\ tenants[id] = None => id \notin quotas

\* RestoreTenant (backup_restore.go:80) is all or nothing: when nothing is at
\* work on a tenant whose requests never overlapped and whose restores no
\* crash and no failed rename back cut short, its directory holds what its
\* last successful restore, purge or first start left, and not what a failed
\* restore tried.
RestoreOutcome ==
  \A id \in Ids \ (overlap \cup cut) : ~Working(id) => dir[id] = want[id]

\* superviseTenant (manager.go:753): the engine of a tenant that has restarts
\* left fails, and there is a new one unless the tenant was deleted or
\* hibernated, the start was refused, or another operation overlapped.
Restarted ==
  \A id \in Ids :
    instances[id] \in failed /\ restarts[id] < MaxRestarts ~>
      \/ instances[id] \in live \ failed
      \/ tenants[id] \in hibernated \cup {None}
      \/ id \in denied \cup overlap

\* docs/api-reference.md:151: hibernation stops the engine, and an idle tenant
\* does not occupy a live process.
HibernateStops ==
  \A id \in Ids :
    /\ ~Working(id) /\ saved[id] = "hibernated"
    /\ tenants[id] \in hibernated
    => EnginesOf(id) = {}
=============================================================================
