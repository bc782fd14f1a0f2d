---------------------------- MODULE TenantProofs ----------------------------
(***************************************************************************)
(* What one operation at a time leaves of a tenant: the engines and the    *)
(* reservation of an id on which no two operations overlapped, for any     *)
(* number of tenants, requests, engines and failures.                      *)
(***************************************************************************)
EXTENDS LifecycleProofs

\* The leaves are small; the time is for the translation of a large context.
USE SMTT(30), ZenonT(30)

\* The goroutine is at work on the tenant: Working(id) says that one is.
Busy(g, id) ==
  gr[g].pc \notin {"idle", "watch"} /\ (gr[g].tenant = None \/ Id(g) = id)

\* The steps of StartTenant, and those of RestoreTenant outside it.
Launching == {"start", "claim"} \cup Claiming

RestoreSteps == {"extract", "swap", "place", "commit", "undo"}

\* What each step may be followed by.
Continues ==
  \A g \in Goroutines :
    /\ gr[g].pc \in Launching => gr[g].then \in {"idle", "boot", "commit"}
    /\ gr[g].pc = "stop" =>
         gr[g].then \in {"idle", "purge", "extract", "start", "exit"}
    /\ gr[g].pc = "remove" => gr[g].then \in {"idle", "purge"}
    /\ gr[g].pc \notin Launching \cup {"stop", "remove"} => gr[g].then = "idle"

\* A tenant's record is a record of its id.
Named ==
  \A id \in Ids : tenants[id] # None => tenants[id][1] = id

\* One goroutine at most is at work on a tenant without overlaps.
Alone ==
  \A id \in Ids \ overlap : \A g, h \in Goroutines :
    Busy(g, id) /\ Busy(h, id) => g = h

\* Nothing has happened yet to a tenant NewManager has still to start.
BootFresh ==
  /\ boot \subseteq Ids
  /\ \A id \in boot : ~Working(id) /\ instances[id] = None

\* A goroutine stops engines of the tenant it works on, one of each tenant.
HeldHome ==
  \A g \in Goroutines : gr[g].pc = "stop" =>
    \A e \in gr[g].held :
      /\ gr[g].tenant = None \/ home[e] = Id(g)
      /\ \A f \in gr[g].held : home[e] = home[f] => e = f

\* ... and until it has, no other is registered.
Vacated ==
  \A id \in Ids \ overlap : \A g \in Goroutines :
    gr[g].pc = "stop" /\ Busy(g, id) => instances[id] = None

\* The tenants whose requests did not overlap and whose changes were saved.
Orderly == Ids \ (overlap \cup unsaved)

\* An engine is registered or in somebody's hands; its supervisor left none.
Tracked ==
  \A e \in live : home[e] \in Orderly =>
    instances[home[e]] = e \/ \E g \in Goroutines : e \in gr[g].held

\* The goroutine works on the tenant's record, not on one that was replaced.
OnRecord(g) ==
  \/ gr[g].pc \in Launching \cup RestoreSteps
  \/ gr[g].pc = "stop" /\ gr[g].then \in {"start", "extract"}

Current ==
  \A g \in Goroutines : gr[g].tenant \in Tenants /\ Id(g) \in Orderly =>
    /\ gr[g].pc = "insert" => instances[Id(g)] = None
    /\ OnRecord(g) => tenants[Id(g)] = gr[g].tenant
    /\ gr[g].pc \in {"claim"} \cup Opening => gr[g].tenant \notin hibernated
    /\ gr[g].pc \in {"open", "publish"} => Id(g) \in quotas

\* A registered engine belongs to a tenant that is awake and has memory
\* reserved, and a tenant that is gone has none.
Served ==
  \A id \in Orderly :
    /\ instances[id] # None => tenants[id] \notin hibernated \cup {None} /\ id \in quotas
    /\ tenants[id] = None => id \notin quotas

\* Operations on one tenant taken in turn: the inductive invariant.
InTurn ==
  /\ Continues
  /\ Named
  /\ Alone
  /\ BootFresh
  /\ HeldHome
  /\ Vacated
  /\ Tracked
  /\ Current
  /\ Served

-----------------------------------------------------------------------------
\* A step that begins no stop.
LEMMA HeldHomeKept ==
  ASSUME HeldHome, UNCHANGED home,
         \A h \in Goroutines : gr'[h].pc = "stop" => gr'[h] = gr[h]
  PROVE  HeldHome'
BY DEF HeldHome, Id

\* A step after which the goroutines at work on a tenant are those before
\* it, or one that found nobody at work.
LEMMA AloneKept ==
  ASSUME Alone, NEW g \in Goroutines, overlap \subseteq overlap',
         \A id \in Ids \ overlap' : \A h \in Goroutines :
           Busy(h, id)' => Busy(h, id) \/ (h = g /\ ~Working(id))
  PROVE  Alone'
<1> SUFFICES ASSUME NEW id \in Ids \ overlap', NEW h \in Goroutines, NEW k \in Goroutines,
                    Busy(h, id)', Busy(k, id)'
             PROVE  h = k
  BY DEF Alone
<1>1. Working(id) <=> \E x \in Goroutines : Busy(x, id)
  BY DEF Working, Busy
<1> QED
  BY <1>1 DEF Alone

\* NewManager's tenants are left alone.
LEMMA BootFreshKept ==
  ASSUME BootFresh, boot' \subseteq boot,
         \A id \in boot', h \in Goroutines : Busy(h, id)' => Busy(h, id),
         \A id \in boot' : instances'[id] \in {instances[id], None}
  PROVE  BootFresh'
<1>1. \A id \in boot' : Working(id)' => Working(id)
  BY DEF Working, Busy
<1> QED
  BY <1>1 DEF BootFresh

\* A step of a goroutine at work that moves no engine and replaces no record.
LEMMA QuietStep ==
  ASSUME Own, InTurn, NEW g \in Goroutines, NEW r \in Locals,
         gr[g].tenant \in Tenants, gr[g].pc \notin {"idle", "watch", "stop", "publish"},
         gr' = [gr EXCEPT ![g] = r],
         r.pc \notin {"stop", "publish", "insert", "remove"}, r.held = {},
         r.pc = "idle" \/ r.tenant = gr[g].tenant,
         r.pc \in Launching \cup RestoreSteps => OnRecord(g),
         r.pc \in {"claim"} \cup Opening =>
           gr[g].pc \in {"claim"} \cup Opening \/ gr[g].tenant \notin hibernated,
         r.pc = "open" => Id(g) \in quotas',
         r.pc \in Launching => r.then \in {"idle", "boot", "commit"},
         r.pc \notin Launching => r.then = "idle",
         quotas' = quotas \/ (OnRecord(g) /\ quotas' = quotas \cup {Id(g)}),
         UNCHANGED <<tenants, hibernated, instances, live, home, boot, overlap, unsaved>>
  PROVE  InTurn'
<1>1. gr \in [Goroutines -> Locals] /\ gr'[g] = r
      /\ \A h \in Goroutines : h # g => gr'[h] = gr[h]
  BY DEF Own, OwnType
<1>2. gr[g].held = {} /\ Id(g) \in Ids /\ None \notin Tenants
  BY LocalFacts, LifecycleAssumption DEF Id, Tenants
<1>3. \A h \in Goroutines, id \in Ids : Busy(h, id)' => Busy(h, id)
  BY <1>1 DEF Busy, Id
<1>4. Continues'
  BY <1>1 DEF InTurn, Continues
<1>5. Named'
  BY DEF InTurn, Named
<1>6. Alone'
  BY <1>3, AloneKept DEF InTurn
<1>7. BootFresh'
  BY <1>3, BootFreshKept DEF InTurn, BootFresh
<1>8. HeldHome'
  BY <1>1 DEF InTurn, HeldHome, Id
<1>9. Vacated'
  BY <1>1, <1>3 DEF InTurn, Vacated
<1>10. Tracked'
  BY ZenonT(30), <1>1, <1>2 DEF InTurn, Tracked, Orderly
<1>11. Current'
  <2> SUFFICES ASSUME NEW h \in Goroutines, gr'[h].tenant \in Tenants,
                      Id(h)' \in Orderly
               PROVE  /\ gr'[h].pc = "insert" => instances[Id(h)'] = None
                      /\ OnRecord(h)' => tenants[Id(h)'] = gr'[h].tenant
                      /\ gr'[h].pc \in {"claim"} \cup Opening =>
                           gr'[h].tenant \notin hibernated
                      /\ gr'[h].pc \in {"open", "publish"} => Id(h)' \in quotas'
    BY ZenonT(30) DEF Current, Orderly
  <2>1. CASE h # g
    BY ZenonT(30), <1>1, <2>1 DEF InTurn, Current, OnRecord, Id
  <2>2. CASE h = g /\ r.pc # "idle"
    <3>1. Id(g)' = Id(g) /\ Id(g) \in Orderly /\ gr'[g] = r
      BY ZenonT(30), <1>1, <2>2 DEF Id
    <3>2. OnRecord(g)' => OnRecord(g)
      BY <2>2, <3>1 DEF OnRecord
    <3> QED
      BY <2>2, <3>1, <3>2 DEF InTurn, Current
  <2>3. CASE h = g /\ r.pc = "idle"
    BY <1>1, <2>3 DEF OnRecord, Launching, RestoreSteps, Claiming, Opening
  <2> QED
    BY ZenonT(30), <2>1, <2>2, <2>3
<1>12. Served'
  BY <1>2 DEF InTurn, Served, Orderly, Current
<1> QED
  BY ZenonT(30), <1>4, <1>5, <1>6, <1>7, <1>8, <1>9, <1>10, <1>11, <1>12 DEF InTurn

\* A step that begins an operation on a tenant, or gives it to NewManager's
\* start, and moves no engine.
LEMMA BeginStep ==
  ASSUME Own, InTurn, NEW g \in Goroutines, NEW r \in Locals, NEW id \in Ids,
         gr[g].pc = "idle", gr' = [gr EXCEPT ![g] = r],
         r.pc \in {"insert", "remove", "start"}, r.held = {},
         r.tenant \in Tenants, r.tenant[1] = id,
         r.pc = "insert" /\ id \in Orderly => instances[id] = None,
         r.pc = "start" => tenants[id] = r.tenant,
         r.pc = "start" => r.then \in {"idle", "boot", "commit"},
         r.pc = "remove" => r.then \in {"idle", "purge"},
         r.pc = "insert" => r.then = "idle",
         \A t \in Tenants : t \in hibernated' => t \in hibernated,
         boot' \subseteq boot \ {id},
         overlap \subseteq overlap', id \notin overlap' => ~Working(id),
         unsaved \subseteq unsaved',
         UNCHANGED <<tenants, quotas, instances, live, home>>
  PROVE  InTurn'
<1>1. gr \in [Goroutines -> Locals] /\ gr'[g] = r
      /\ \A h \in Goroutines : h # g => gr'[h] = gr[h]
  BY DEF Own, OwnType
<1>2. gr[g].held = {} /\ r.tenant # None /\ Id(g)' = id
  BY <1>1, LocalFacts, LifecycleAssumption DEF Id
<1>3. /\ \A h \in Goroutines, i \in Ids : h # g => (Busy(h, i)' <=> Busy(h, i))
      /\ \A i \in Ids : Busy(g, i)' => i = id
  BY ZenonT(30), <1>1, <1>2 DEF Busy, Id
<1>4. Continues'
  BY <1>1 DEF InTurn, Continues, Launching, Claiming
<1>5. Named'
  BY DEF InTurn, Named
<1>6. Alone'
  BY <1>3, AloneKept DEF InTurn
<1>7. BootFresh'
  <2>1. \A i \in boot' : i \in boot /\ i # id /\ i \in Ids
    BY DEF InTurn, BootFresh
  <2> QED
    BY <1>3, <2>1, BootFreshKept DEF InTurn
<1>8. HeldHome'
  BY <1>1 DEF InTurn, HeldHome, Id
<1>9. Vacated'
  BY <1>1, <1>3 DEF InTurn, Vacated
<1>10. Tracked'
  BY <1>1, <1>2 DEF InTurn, Tracked, Orderly
<1>11. Current'
  <2> SUFFICES ASSUME NEW h \in Goroutines, gr'[h].tenant \in Tenants,
                      Id(h)' \in Orderly'
               PROVE  /\ gr'[h].pc = "insert" => instances[Id(h)'] = None
                      /\ OnRecord(h)' => tenants[Id(h)'] = gr'[h].tenant
                      /\ gr'[h].pc \in {"claim"} \cup Opening =>
                           gr'[h].tenant \notin hibernated'
                      /\ gr'[h].pc \in {"open", "publish"} => Id(h)' \in quotas
    BY DEF Current
  <2>1. CASE h # g
    <3>1. gr'[h] = gr[h] /\ Id(h)' = Id(h) /\ Id(h) \in Orderly
      BY ZenonT(30), <1>1, <2>1 DEF Id, Orderly
    <3>2. OnRecord(h)' <=> OnRecord(h)
      BY ZenonT(30), <3>1 DEF OnRecord
    <3> QED
      BY <3>1, <3>2 DEF InTurn, Current
  <2>2. CASE h = g
    <3>1. id \in Orderly
      BY ZenonT(30), <1>2, <2>2 DEF Orderly
    <3> QED
      BY ZenonT(30), <1>1, <1>2, <2>2, <3>1 DEF OnRecord, Launching, RestoreSteps, Claiming, Opening
  <2> QED
    BY <2>1, <2>2
<1>12. Served'
  BY DEF InTurn, Served, Orderly, Own, OwnType
<1> QED
  BY ZenonT(30), <1>4, <1>5, <1>6, <1>7, <1>8, <1>9, <1>10, <1>11, <1>12 DEF InTurn

\* A step that changes nothing but the flag of a tenant it could not save.
LEMMA LeftStep ==
  ASSUME Own, InTurn, overlap \subseteq overlap', unsaved \subseteq unsaved',
         \A t \in Tenants : t[1] \in Orderly' /\ t \in hibernated' => t \in hibernated,
         UNCHANGED <<gr, tenants, quotas, instances, live, home, boot>>
  PROVE  InTurn'
<1>1. \A h \in Goroutines, i \in Ids : Busy(h, i)' <=> Busy(h, i)
  BY ZenonT(30) DEF Busy, Id
<1>2. Continues' /\ Named'
  BY DEF InTurn, Continues, Named
<1>3. Alone'
  BY <1>1 DEF InTurn, Alone
<1>4. BootFresh'
  BY ZenonT(30), <1>1, BootFreshKept DEF InTurn, BootFresh
<1>5. HeldHome'
  BY DEF InTurn, HeldHome, Id
<1>6. Vacated'
  BY <1>1 DEF InTurn, Vacated
<1>7. Tracked'
  BY ZenonT(30) DEF InTurn, Tracked, Orderly
<1>8. Current'
  <2>1. \A h \in Goroutines : Id(h)' = Id(h) /\ (OnRecord(h)' <=> OnRecord(h))
    BY DEF Id, OnRecord
  <2>2. Orderly' \subseteq Orderly
    BY DEF Orderly
  <2> QED
    BY <2>1, <2>2 DEF InTurn, Current, Id
<1>9. Served'
  <2>1. \A id \in Ids : tenants[id] = None \/ (tenants[id] \in Tenants /\ tenants[id][1] = id)
    BY DEF InTurn, Named, Own, OwnType
  <2>2. Orderly' \subseteq Orderly /\ Orderly' \subseteq Ids
    BY DEF Orderly
  <2> QED
    BY <2>1, <2>2 DEF InTurn, Served
<1> QED
  BY <1>2, <1>3, <1>4, <1>5, <1>6, <1>7, <1>8, <1>9 DEF InTurn

\* A step that takes the engines of the tenants in D out of the map, to stop
\* them: those of its own tenant, or all.
Takes(g, r, D) ==
  /\ gr[g].pc \notin {"publish", "stop"} /\ gr' = [gr EXCEPT ![g] = r]
  /\ r.pc = "stop" /\ r.held = {instances[id] : id \in D} \ {None}
  /\ \/ r.tenant = None /\ D = Ids
     \/ r.tenant \in Tenants /\ D = {r.tenant[1]}
  /\ instances' = [id \in Ids |-> IF id \in D THEN None ELSE instances[id]]
  /\ r.then \in {"idle", "purge", "extract", "start", "exit"}
  /\ r.then \in {"start", "extract"} /\ r.tenant \in Tenants =>
       tenants'[r.tenant[1]] = r.tenant
  /\ overlap \subseteq overlap' /\ unsaved \subseteq unsaved'
  /\ \A id \in D \ overlap' : Busy(g, id) \/ ~Working(id)
  /\ boot' = boot /\ boot \cap D = {}
  /\ Named'
  /\ \A id \in Ids \ D : tenants'[id] = tenants[id] /\ (id \in quotas' <=> id \in quotas)
  /\ \A id \in D \cap Orderly' : tenants'[id] = None => id \notin quotas'
  /\ \A t \in Tenants : t[1] \notin D /\ t \in hibernated' => t \in hibernated
  /\ UNCHANGED <<live, home>>

LEMMA TakeTurn ==
  ASSUME Own, InTurn, NEW g \in Goroutines, NEW r \in Locals, NEW D \in SUBSET Ids,
         Takes(g, r, D)
  PROVE  InTurn'
<1>0. /\ gr[g].pc \notin {"publish", "stop"} /\ UNCHANGED <<live, home>> /\ Named'
      /\ overlap \subseteq overlap'
  BY ZenonT(30) DEF Takes
<1>1. gr \in [Goroutines -> Locals] /\ gr'[g] = r
      /\ \A h \in Goroutines : h # g => gr'[h] = gr[h]
  BY DEF Takes, Own, OwnType
<1>2. gr[g].held = {} /\ instances \in [Ids -> Engines \cup {None}]
      /\ None \notin Tenants /\ None \notin Engines
  BY ZenonT(30), <1>0, LocalFacts, LifecycleAssumption DEF Own, OwnType
<1>3. /\ \A h \in Goroutines, i \in Ids : h # g => (Busy(h, i)' <=> Busy(h, i))
      /\ \A i \in Ids : Busy(g, i)' <=> i \in D
  BY ZenonT(30), <1>1, <1>2 DEF Takes, Busy, Id
<1>4. Continues'
  BY ZenonT(30), <1>1 DEF Takes, InTurn, Continues, Launching, Claiming
<1>5. Alone'
  BY <1>3, AloneKept DEF InTurn, Takes
<1>6. BootFresh'
  <2>1. \A i \in boot' : i \notin D /\ i \in Ids
    BY ZenonT(30) DEF Takes, InTurn, BootFresh
  <2> QED
    BY <1>3, <2>1, BootFreshKept DEF Takes, InTurn
<1>7. \A id \in Ids : instances[id] # None =>
         instances[id] \in live /\ home[instances[id]] = id
  BY ZenonT(30) DEF Own, RegisteredLive
<1>8. HeldHome'
  <2> SUFFICES ASSUME NEW h \in Goroutines, gr'[h].pc = "stop", NEW e \in gr'[h].held
               PROVE  /\ gr'[h].tenant = None \/ home[e] = Id(h)'
                      /\ \A f \in gr'[h].held : home[e] = home[f] => e = f
    BY ZenonT(30), <1>0 DEF HeldHome
  <2>1. CASE h # g
    BY <1>1, <2>1 DEF Takes, InTurn, HeldHome, Id
  <2>2. CASE h = g
    BY <1>1, <1>7, <2>2 DEF Takes, Id
  <2> QED
    BY <2>1, <2>2
<1>9. Vacated'
  BY <1>1, <1>3 DEF Takes, InTurn, Vacated
<1>10. Tracked'
  <2> SUFFICES ASSUME NEW e \in live, home[e] \in Orderly'
               PROVE  instances'[home[e]] = e \/ \E h \in Goroutines : e \in gr'[h].held
    BY ZenonT(30), <1>0 DEF Tracked
  <2>1. home[e] \in Orderly /\ home[e] \in Ids /\ e # None
    BY ZenonT(30), <1>2 DEF Takes, Orderly, Own, OwnType
  <2>2. CASE instances[home[e]] = e
    BY <1>1, <2>1, <2>2 DEF Takes
  <2>3. CASE \E h \in Goroutines : e \in gr[h].held
    BY ZenonT(30), <1>1, <1>2, <2>3 DEF Takes
  <2> QED
    BY ZenonT(30), <2>1, <2>2, <2>3 DEF InTurn, Tracked
<1>11. Current'
  <2> SUFFICES ASSUME NEW h \in Goroutines, gr'[h].tenant \in Tenants,
                      Id(h)' \in Orderly'
               PROVE  /\ gr'[h].pc = "insert" => instances'[Id(h)'] = None
                      /\ OnRecord(h)' => tenants'[Id(h)'] = gr'[h].tenant
                      /\ gr'[h].pc \in {"claim"} \cup Opening =>
                           gr'[h].tenant \notin hibernated'
                      /\ gr'[h].pc \in {"open", "publish"} => Id(h)' \in quotas'
    BY ZenonT(30) DEF Current
  <2>1. CASE h = g
    BY <1>1, <2>1 DEF Takes, OnRecord, Opening, Launching, Claiming, RestoreSteps, Id
  <2>2. CASE h # g /\ Id(h) \in D
    <3>1. gr'[h] = gr[h] /\ Id(h)' = Id(h) /\ Id(h) \in Ids \ overlap'
      BY ZenonT(30), <1>1, <2>2 DEF Takes, Id, Orderly
    <3>2. gr[h].pc \in {"idle", "watch"}
      BY ZenonT(30), <1>3, <1>5, <2>2, <3>1 DEF Alone, Busy
    <3> QED
      BY ZenonT(30), <3>1, <3>2 DEF OnRecord, Opening, Launching, Claiming, RestoreSteps
  <2>3. CASE h # g /\ Id(h) \notin D
    <3>1. gr'[h] = gr[h] /\ Id(h)' = Id(h) /\ Id(h) \in Orderly /\ Id(h) \in Ids
          /\ Id(h) = gr[h].tenant[1]
      BY <1>1, <2>3 DEF Takes, Id, Orderly
    <3>2. OnRecord(h)' <=> OnRecord(h)
      BY ZenonT(30), <3>1 DEF OnRecord
    <3>3. /\ instances'[Id(h)] = instances[Id(h)] /\ tenants'[Id(h)] = tenants[Id(h)]
          /\ Id(h) \in quotas' <=> Id(h) \in quotas
      BY ZenonT(30), <2>3, <3>1 DEF Takes
    <3>4. gr[h].tenant \in Tenants /\ (gr[h].tenant \in hibernated' => gr[h].tenant \in hibernated)
      BY ZenonT(30), <2>3, <3>1 DEF Takes
    <3> QED
      BY ZenonT(30), <3>1, <3>2, <3>3, <3>4 DEF InTurn, Current
  <2> QED
    BY ZenonT(30), <1>1, <2>1, <2>2, <2>3
<1>12. Served'
  <2>1. \A id \in Ids : tenants[id] = None \/ (tenants[id] \in Tenants /\ tenants[id][1] = id)
    BY ZenonT(30) DEF InTurn, Named, Own, OwnType
  <2>2. Orderly' \subseteq Orderly /\ Orderly' \subseteq Ids
    BY DEF Takes, Orderly
  <2> QED
    BY <2>1, <2>2 DEF Takes, InTurn, Served
<1> QED
  BY ZenonT(30), <1>0, <1>4, <1>5, <1>6, <1>8, <1>9, <1>10, <1>11, <1>12 DEF InTurn

\* Insert: the record enters the map, and is started if it was saved.
LEMMA InsertTurn ==
  ASSUME Own, BootQuiet, InTurn, NEW g \in Goroutines, Insert(g)
  PROVE  InTurn'
<1>1. /\ gr[g].pc = "insert" /\ tenants' = [tenants EXCEPT ![Id(g)] = gr[g].tenant]
      /\ UNCHANGED <<hibernated, quotas, instances, live, home, boot, overlap>>
  BY ZenonT(30) DEF Insert, At, engines
<1>2. gr[g].tenant \in Tenants /\ Id(g) \in Ids /\ gr[g].held = {} /\ None \notin Tenants
  BY <1>1, LocalFacts, LifecycleAssumption
<1>3. PICK r \in {Step("start", gr[g].tenant, {}, "idle"), Idle} :
        /\ gr' = [gr EXCEPT ![g] = r]
        /\ \/ r.pc = "start" /\ unsaved' = unsaved /\ r.tenant = gr[g].tenant
           \/ r.pc = "idle" /\ unsaved' = unsaved \cup {Id(g)}
  BY DEF Insert, Go, SaveState, SaveStateFail, Step, Idle
<1>4. r.held = {} /\ r.then = "idle"
  BY <1>3 DEF Step, Idle
<1>5. gr \in [Goroutines -> Locals] /\ gr'[g] = r
      /\ \A h \in Goroutines : h # g => gr'[h] = gr[h]
  BY ZenonT(30), <1>3 DEF Own, OwnType
<1>6. boot = {}
  BY <1>1 DEF BootQuiet
<1>7. /\ tenants \in [Ids -> Tenants \cup {None}] /\ tenants'[Id(g)] = gr[g].tenant
      /\ \A id \in Ids : id # Id(g) => tenants'[id] = tenants[id]
  BY ZenonT(30), <1>1, <1>2 DEF Own, OwnType
<1>8. \A h \in Goroutines, id \in Ids : Busy(h, id)' => Busy(h, id)
  BY ZenonT(30), <1>1, <1>3, <1>5 DEF Busy, Id
<1>9. Continues'
  BY ZenonT(30), <1>3, <1>4, <1>5 DEF InTurn, Continues, Launching, Claiming
<1>10. Named'
  BY <1>2, <1>7 DEF InTurn, Named, Id
<1>11. Alone'
  BY ZenonT(30), <1>1, <1>8, AloneKept DEF InTurn
<1>12. BootFresh'
  BY ZenonT(30), <1>1, <1>6 DEF BootFresh
<1>13. HeldHome'
  <2>1. \A h \in Goroutines : gr'[h].pc = "stop" => gr'[h] = gr[h]
    BY ZenonT(30), <1>3, <1>5
  <2> QED
    BY ZenonT(30), <1>1, <2>1, HeldHomeKept DEF InTurn
<1>14. Vacated'
  BY ZenonT(30), <1>1, <1>3, <1>5, <1>8 DEF InTurn, Vacated
<1>15. Tracked'
  BY ZenonT(30), <1>1, <1>2, <1>3, <1>5 DEF InTurn, Tracked, Orderly
<1>16. Orderly' \subseteq Orderly /\ Orderly' \subseteq Ids
  BY <1>1, <1>3 DEF Orderly
<1>17. Current'
  <2> SUFFICES ASSUME NEW h \in Goroutines, gr'[h].tenant \in Tenants,
                      Id(h)' \in Orderly'
               PROVE  /\ gr'[h].pc = "insert" => instances[Id(h)'] = None
                      /\ OnRecord(h)' => tenants'[Id(h)'] = gr'[h].tenant
                      /\ gr'[h].pc \in {"claim"} \cup Opening =>
                           gr'[h].tenant \notin hibernated
                      /\ gr'[h].pc \in {"open", "publish"} => Id(h)' \in quotas
    BY ZenonT(30), <1>1 DEF Current
  <2>1. CASE h = g
    BY ZenonT(30), <1>3, <1>5, <1>7, <2>1
       DEF OnRecord, Opening, Launching, Claiming, RestoreSteps, Id
  <2>2. CASE h # g /\ Id(h) = Id(g)
    <3>1. gr'[h] = gr[h] /\ Id(h)' = Id(h) /\ Id(h) \in Ids \ overlap
      BY ZenonT(30), <1>1, <1>5, <2>2 DEF Id, Orderly
    <3>2. gr[h].pc \in {"idle", "watch"}
      BY ZenonT(30), <1>1, <2>2, <3>1 DEF InTurn, Alone, Busy
    <3> QED
      BY ZenonT(30), <3>1, <3>2 DEF OnRecord, Opening, Launching, Claiming, RestoreSteps
  <2>3. CASE h # g /\ Id(h) # Id(g)
    <3>1. gr'[h] = gr[h] /\ Id(h)' = Id(h) /\ Id(h) \in Orderly /\ Id(h) \in Ids
      BY ZenonT(30), <1>5, <1>16, <2>3 DEF Id
    <3>2. OnRecord(h)' <=> OnRecord(h)
      BY ZenonT(30), <3>1 DEF OnRecord
    <3> QED
      BY ZenonT(30), <1>7, <2>3, <3>1, <3>2 DEF InTurn, Current
  <2> QED
    BY ZenonT(30), <2>1, <2>2, <2>3
<1>18. Served'
  <2> SUFFICES ASSUME NEW id \in Orderly'
               PROVE  /\ instances[id] # None =>
                           tenants'[id] \notin hibernated \cup {None} /\ id \in quotas
                      /\ tenants'[id] = None => id \notin quotas
    BY ZenonT(30), <1>1 DEF Served
  <2>1. CASE id = Id(g)
    BY ZenonT(30), <1>1, <1>2, <1>7, <1>16, <2>1 DEF InTurn, Current
  <2>2. CASE id # Id(g)
    BY <1>7, <1>16, <2>2 DEF InTurn, Served
  <2> QED
    BY <2>1, <2>2
<1> QED
  BY ZenonT(30), <1>9, <1>10, <1>11, <1>12, <1>13, <1>14, <1>15, <1>17, <1>18 DEF InTurn

\* Stop: engines are closed, and the goroutine goes on with its tenant.
LEMMA StopTurn ==
  ASSUME Own, InTurn, NEW g \in Goroutines, Stop(g)
  PROVE  InTurn'
<1>1. /\ gr[g].pc = "stop" /\ live' = live \ gr[g].held
      /\ UNCHANGED <<tenants, hibernated, quotas, instances, home, boot, overlap, unsaved>>
  BY ZenonT(30) DEF Stop, At, manager, history
<1>2. gr'[g] = Continue(gr[g])
      /\ \A h \in Goroutines \ {g} :
           gr'[h] = gr[h] \/ (gr'[h] = Idle /\ gr[h].pc = "watch")
  BY DEF Stop, At
<1>3. gr[g].then \in {"idle", "purge", "extract", "start", "exit"}
  BY ZenonT(30), <1>1 DEF InTurn, Continues
<1>4. PICK r : /\ gr'[g] = r /\ r.held = {} /\ r.then = "idle"
               /\ \/ r.pc = "idle"
                  \/ r.pc = gr[g].then /\ r.tenant = gr[g].tenant
  BY <1>2, <1>3 DEF Continue, Step, Idle
<1>5. Idle.pc = "idle" /\ Idle.then = "idle" /\ Idle.held = {} /\ Idle.tenant = None
      /\ None \notin Tenants
  BY ZenonT(30), LifecycleAssumption DEF Idle
<1>6. \A h \in Goroutines, id \in Ids : Busy(h, id)' => Busy(h, id)
  BY ZenonT(30), <1>1, <1>2, <1>4, <1>5 DEF Busy, Id
<1>7. Continues'
  BY <1>2, <1>3, <1>4, <1>5 DEF InTurn, Continues, Launching, Claiming
<1>8. Named'
  BY <1>1 DEF InTurn, Named
<1>9. Alone'
  BY ZenonT(30), <1>1, <1>6, AloneKept DEF InTurn
<1>10. BootFresh'
  BY ZenonT(30), <1>1, <1>6, BootFreshKept DEF InTurn, BootFresh
<1>11. HeldHome'
  <2>1. \A h \in Goroutines : gr'[h].pc = "stop" => gr'[h] = gr[h]
    BY <1>2, <1>3, <1>4, <1>5
  <2> QED
    BY ZenonT(30), <1>1, <2>1, HeldHomeKept DEF InTurn
<1>12. Vacated'
  BY ZenonT(30), <1>1, <1>2, <1>3, <1>4, <1>5, <1>6 DEF InTurn, Vacated
<1>13. Tracked'
  <2> SUFFICES ASSUME NEW e \in live', home[e] \in Orderly
               PROVE  instances[home[e]] = e \/ \E h \in Goroutines : e \in gr'[h].held
    BY <1>1 DEF Tracked, Orderly
  <2>1. CASE instances[home[e]] = e
    BY ZenonT(30), <2>1
  <2>2. CASE \E h \in Goroutines : e \in gr[h].held
    <3>1. PICK h \in Goroutines : e \in gr[h].held
      BY ZenonT(30), <2>2
    <3>2. h # g /\ gr[h].pc \in {"publish", "stop"}
      BY <1>1, <3>1 DEF Own, HeldApart
    <3> QED
      BY ZenonT(30), <1>2, <3>1, <3>2
  <2> QED
    BY ZenonT(30), <1>1, <2>1, <2>2 DEF InTurn, Tracked
<1>14. Current'
  <2> SUFFICES ASSUME NEW h \in Goroutines, gr'[h].tenant \in Tenants,
                      Id(h)' \in Orderly
               PROVE  /\ gr'[h].pc = "insert" => instances[Id(h)'] = None
                      /\ OnRecord(h)' => tenants[Id(h)'] = gr'[h].tenant
                      /\ gr'[h].pc \in {"claim"} \cup Opening =>
                           gr'[h].tenant \notin hibernated
                      /\ gr'[h].pc \in {"open", "publish"} => Id(h)' \in quotas
    BY ZenonT(30), <1>1 DEF Current, Orderly
  <2>1. CASE h = g /\ r.pc # "idle"
    <3>1. Id(g)' = Id(g) /\ gr'[g].tenant = gr[g].tenant /\ gr'[g].pc = gr[g].then
      BY ZenonT(30), <1>4, <2>1 DEF Id
    <3>2. OnRecord(g)' => OnRecord(g)
      BY ZenonT(30), <1>1, <1>3, <3>1 DEF OnRecord, Launching, Claiming, RestoreSteps
    <3> QED
      BY ZenonT(30), <1>3, <2>1, <3>1, <3>2 DEF InTurn, Current, Opening
  <2>2. CASE h = g /\ r.pc = "idle"
    BY ZenonT(30), <1>4, <2>2 DEF OnRecord, Launching, RestoreSteps, Claiming, Opening
  <2>3. CASE h # g
    <3>1. gr'[h] = gr[h]
      BY ZenonT(30), <1>2, <1>5, <2>3
    <3> QED
      BY <3>1 DEF InTurn, Current, OnRecord, Id
  <2> QED
    BY ZenonT(30), <2>1, <2>2, <2>3
<1>15. Served'
  BY <1>1 DEF InTurn, Served, Orderly
<1> QED
  BY <1>7, <1>8, <1>9, <1>10, <1>11, <1>12, <1>13, <1>14, <1>15 DEF InTurn

\* Open: the start has an engine in its tenant's directory.
LEMMA OpenTurn ==
  ASSUME Own, InTurn, NEW g \in Goroutines, gr[g].pc = "open", NEW e \in Engines,
         Unused(e), live' = live \cup {e}, home' = [home EXCEPT ![e] = Id(g)],
         gr' = [gr EXCEPT ![g] = [gr[g] EXCEPT !.pc = "publish", !.held = {e}]],
         UNCHANGED <<tenants, hibernated, quotas, instances, boot, overlap, unsaved>>
  PROVE  InTurn'
<1>1. gr[g] \in Locals /\ gr[g].tenant \in Tenants /\ Id(g) \in Ids /\ gr[g].held = {}
  BY LocalFacts
<1>2. PICK r : /\ gr'[g] = r /\ r.pc = "publish" /\ r.held = {e}
               /\ r.tenant = gr[g].tenant /\ r.then = gr[g].then
  <2> DEFINE r == [gr[g] EXCEPT !.pc = "publish", !.held = {e}]
  <2>1. r.pc = "publish" /\ r.held = {e} /\ r.tenant = gr[g].tenant /\ r.then = gr[g].then
    BY <1>1 DEF Locals
  <2>2. gr'[g] = r
    BY DEF Own, OwnType
  <2> QED
    BY ZenonT(30), <2>1, <2>2
<1>3. \A h \in Goroutines : h # g => gr'[h] = gr[h]
  BY DEF Own, OwnType
<1>4. /\ home \in [Engines -> Ids \cup {None}] /\ home'[e] = Id(g)
      /\ \A x \in Engines : x # e => home'[x] = home[x]
      /\ live \subseteq Engines
  BY DEF Own, OwnType
<1>5. \A h \in Goroutines : gr[h].held \subseteq Engines \ {e}
  BY DEF Own, OwnType, Locals, Unused
<1>6. \A h \in Goroutines, id \in Ids : Busy(h, id)' => Busy(h, id)
  BY <1>2, <1>3 DEF Busy, Id
<1>7. Continues'
  BY <1>2, <1>3 DEF InTurn, Continues, Launching, Claiming
<1>8. Named' /\ Served'
  BY DEF InTurn, Named, Served, Orderly
<1>9. Alone'
  BY <1>6, AloneKept DEF InTurn
<1>10. BootFresh'
  BY <1>6, BootFreshKept DEF InTurn, BootFresh
<1>11. HeldHome'
  <2> SUFFICES ASSUME NEW h \in Goroutines, gr'[h].pc = "stop", NEW x \in gr'[h].held
               PROVE  /\ gr'[h].tenant = None \/ home'[x] = Id(h)'
                      /\ \A f \in gr'[h].held : home'[x] = home'[f] => x = f
    BY DEF HeldHome
  <2>1. gr'[h] = gr[h]
    BY <1>2, <1>3
  <2> QED
    BY <1>4, <1>5, <2>1 DEF InTurn, HeldHome, Id
<1>12. Vacated'
  BY <1>2, <1>3, <1>6 DEF InTurn, Vacated
<1>13. Tracked'
  <2> SUFFICES ASSUME NEW x \in live', home'[x] \in Orderly
               PROVE  instances[home'[x]] = x \/ \E h \in Goroutines : x \in gr'[h].held
    BY DEF Tracked, Orderly
  <2>1. CASE x = e
    BY <1>2, <2>1
  <2>2. CASE x # e
    BY <1>1, <1>3, <1>4, <2>2 DEF InTurn, Tracked
  <2> QED
    BY <2>1, <2>2
<1>14. Current'
  <2>1. \A h \in Goroutines : gr'[h].tenant = gr[h].tenant /\ Id(h)' = Id(h)
    BY <1>2, <1>3 DEF Id
  <2>2. \A h \in Goroutines : OnRecord(h)' => OnRecord(h)
    BY <1>2, <1>3 DEF OnRecord, Launching, Claiming
  <2>3. Orderly' = Orderly
    BY DEF Orderly
  <2> QED
    BY <1>2, <1>3, <2>1, <2>2, <2>3 DEF InTurn, Current, Opening
<1> QED
  BY <1>7, <1>8, <1>9, <1>10, <1>11, <1>12, <1>13, <1>14 DEF InTurn

\* Publish: the engine is registered for a tenant that is awake.
LEMMA PublishTurn ==
  ASSUME Own, InTurn, NEW g \in Goroutines, Publish(g)
  PROVE  InTurn'
<1>1. /\ gr[g].pc = "publish"
      /\ UNCHANGED <<tenants, hibernated, quotas, live, home, boot, overlap, unsaved>>
  BY DEF Publish, At, engines
<1>2. PICK e \in gr[g].held :
        /\ instances' = [instances EXCEPT ![Id(g)] = e]
        /\ gr' = [gr EXCEPT ![g].pc = "release-ok", ![g].held = {}, ![e] = Watch]
  BY ZenonT(30) DEF Publish
<1>3. /\ gr[g] \in Locals /\ gr[g].tenant \in Tenants /\ Id(g) \in Ids
      /\ None \notin Tenants /\ None \notin Engines
  BY <1>1, LocalFacts, LifecycleAssumption
<1>4. e \in Engines /\ gr[g].held = {e} /\ home[e] = Id(g) /\ gr[e].pc = "idle"
      /\ e \in Goroutines /\ e # g
  BY <1>1, <1>2 DEF Own, PublishOwn, Goroutines
<1>5. PICK r : /\ gr'[g] = r /\ r.pc = "release-ok" /\ r.held = {}
               /\ r.tenant = gr[g].tenant /\ r.then = gr[g].then
  <2> DEFINE r == [gr[g] EXCEPT !.pc = "release-ok", !.held = {}]
  <2>1. r.pc = "release-ok" /\ r.held = {} /\ r.tenant = gr[g].tenant
        /\ r.then = gr[g].then
    BY <1>3 DEF Locals
  <2>2. gr'[g] = r
    BY <1>2, <1>4 DEF Own, OwnType
  <2> QED
    BY ZenonT(30), <2>1, <2>2
<1>6. \A h \in Goroutines : h # g /\ h # e => gr'[h] = gr[h]
  BY <1>2, <1>4 DEF Own, OwnType
<1>7. gr'[e].pc = "watch" /\ gr'[e].then = "idle" /\ gr'[e].held = {}
      /\ gr'[e].tenant = None /\ gr[e].held = {}
  BY <1>2, <1>4, LocalFacts DEF Own, OwnType, Watch, Idle
<1>8. /\ instances \in [Ids -> Engines \cup {None}] /\ instances'[Id(g)] = e
      /\ \A id \in Ids : id # Id(g) => instances'[id] = instances[id]
  BY ZenonT(30), <1>2, <1>3 DEF Own, OwnType
<1>9. \A h \in Goroutines, id \in Ids : Busy(h, id)' => Busy(h, id)
  BY ZenonT(30), <1>1, <1>5, <1>6, <1>7 DEF Busy, Id
<1>10. Continues'
  BY <1>1, <1>5, <1>6, <1>7 DEF InTurn, Continues, Launching, Claiming
<1>11. Named'
  BY <1>1 DEF InTurn, Named
<1>12. Alone'
  BY ZenonT(30), <1>1, <1>9, AloneKept DEF InTurn
<1>13. BootFresh'
  <2>1. Id(g) \notin boot
    BY ZenonT(30), <1>1 DEF InTurn, BootFresh, Working
  <2> QED
    BY ZenonT(30), <1>1, <1>8, <1>9, <2>1, BootFreshKept DEF InTurn, BootFresh
<1>14. HeldHome'
  <2>1. \A h \in Goroutines : gr'[h].pc = "stop" => gr'[h] = gr[h]
    BY ZenonT(30), <1>5, <1>6, <1>7
  <2> QED
    BY ZenonT(30), <1>1, <2>1, HeldHomeKept DEF InTurn
<1>15. Vacated'
  <2> SUFFICES ASSUME NEW id \in Ids \ overlap, NEW h \in Goroutines,
                      gr'[h].pc = "stop", Busy(h, id)'
               PROVE  instances'[id] = None
    BY ZenonT(30), <1>1 DEF Vacated
  <2>1. h # g /\ gr'[h] = gr[h] /\ Busy(h, id)
    BY ZenonT(30), <1>5, <1>6, <1>7, <1>9
  <2>2. id # Id(g)
    BY <1>1, <2>1 DEF InTurn, Alone, Busy
  <2> QED
    BY ZenonT(30), <1>8, <2>1, <2>2 DEF InTurn, Vacated
<1>16. Tracked'
  <2> SUFFICES ASSUME NEW x \in live, home[x] \in Orderly
               PROVE  instances'[home[x]] = x \/ \E h \in Goroutines : x \in gr'[h].held
    BY ZenonT(30), <1>1 DEF Tracked, Orderly
  <2>1. CASE x = e
    BY ZenonT(30), <1>4, <1>8, <2>1
  <2>2. CASE x # e /\ instances[home[x]] = x
    <3>1. instances[Id(g)] = None /\ x # None /\ home[x] \in Ids
      BY ZenonT(30), <1>1, <1>3 DEF Own, OwnType, ClaimedVacant, Opening, Orderly
    <3> QED
      BY ZenonT(30), <1>8, <2>2, <3>1
  <2>3. CASE x # e /\ \E h \in Goroutines : x \in gr[h].held
    BY ZenonT(30), <1>4, <1>6, <1>7, <2>3
  <2> QED
    BY ZenonT(30), <2>1, <2>2, <2>3 DEF InTurn, Tracked
<1>17. Current'
  <2> SUFFICES ASSUME NEW h \in Goroutines, gr'[h].tenant \in Tenants,
                      Id(h)' \in Orderly
               PROVE  /\ gr'[h].pc = "insert" => instances'[Id(h)'] = None
                      /\ OnRecord(h)' => tenants[Id(h)'] = gr'[h].tenant
                      /\ gr'[h].pc \in {"claim"} \cup Opening =>
                           gr'[h].tenant \notin hibernated
                      /\ gr'[h].pc \in {"open", "publish"} => Id(h)' \in quotas
    BY ZenonT(30), <1>1 DEF Current, Orderly
  <2>1. h # e
    BY ZenonT(30), <1>3, <1>7
  <2>2. CASE h = g
    BY <1>1, <1>5, <2>2 DEF InTurn, Current, OnRecord, Launching, Claiming, Opening, Id
  <2>3. CASE h # g
    <3>1. gr'[h] = gr[h] /\ Id(h)' = Id(h) /\ Id(h) \in Ids
      BY ZenonT(30), <1>6, <2>1, <2>3 DEF Id, Orderly
    <3>2. OnRecord(h)' <=> OnRecord(h)
      BY ZenonT(30), <3>1 DEF OnRecord
    <3>3. gr[h].pc = "insert" => Id(h) # Id(g)
      BY ZenonT(30), <1>1, <2>3, <3>1 DEF InTurn, Alone, Busy, Orderly
    <3> QED
      BY ZenonT(30), <1>8, <3>1, <3>2, <3>3 DEF InTurn, Current
  <2> QED
    BY ZenonT(30), <2>2, <2>3
<1>18. Served'
  <2> SUFFICES ASSUME NEW id \in Orderly
               PROVE  /\ instances'[id] # None =>
                           tenants[id] \notin hibernated \cup {None} /\ id \in quotas
                      /\ tenants[id] = None => id \notin quotas
    BY ZenonT(30), <1>1 DEF Served, Orderly
  <2>1. CASE id = Id(g)
    BY ZenonT(30), <1>1, <1>3, <2>1 DEF InTurn, Current, Served, OnRecord, Launching, Claiming, Opening
  <2>2. CASE id # Id(g)
    BY ZenonT(30), <1>8, <2>2 DEF InTurn, Served, Orderly
  <2> QED
    BY ZenonT(30), <2>1, <2>2
<1> QED
  BY ZenonT(30), <1>10, <1>11, <1>12, <1>13, <1>14, <1>15, <1>16, <1>17, <1>18 DEF InTurn

\* A supervisor returns: its engine is out of the map, and if it took the
\* engine out itself the tenant was gone or hibernated.
LEMMA ReturnTurn ==
  ASSUME Own, InTurn, NEW e \in Engines, gr[e].pc = "watch",
         gr' = [gr EXCEPT ![e] = Idle],
         instances' \in [Ids -> Engines \cup {None}],
         \A id \in Ids : instances'[id] \in {instances[id], None},
         \A id \in Ids : instances[id] \notin {e, None} => instances'[id] = instances[id],
         \A id \in Ids : instances[id] = e => tenants[id] \in hibernated \cup {None},
         overlap \subseteq overlap',
         UNCHANGED <<tenants, hibernated, quotas, live, home, boot, unsaved>>
  PROVE  InTurn'
<1>1. e \in Goroutines /\ gr'[e] = Idle
      /\ \A h \in Goroutines : h # e => gr'[h] = gr[h]
  BY DEF Own, OwnType, Goroutines
<1>2. Idle.pc = "idle" /\ Idle.then = "idle" /\ Idle.held = {} /\ Idle.tenant = None
      /\ None \notin Tenants /\ None \notin Engines /\ gr[e].held = {}
  BY ZenonT(30), <1>1, LocalFacts, LifecycleAssumption DEF Idle
<1>3. \A h \in Goroutines, id \in Ids : Busy(h, id)' => Busy(h, id)
  BY ZenonT(30), <1>1, <1>2 DEF Busy, Id
<1>4. Continues'
  BY <1>1, <1>2 DEF InTurn, Continues, Launching, Claiming
<1>5. Named'
  BY ZenonT(30) DEF InTurn, Named
<1>6. Alone'
  BY <1>1, <1>3, AloneKept DEF InTurn
<1>7. BootFresh'
  BY ZenonT(30), <1>3, BootFreshKept DEF InTurn, BootFresh
<1>8. HeldHome'
  <2>1. \A h \in Goroutines : gr'[h].pc = "stop" => gr'[h] = gr[h]
    BY ZenonT(30), <1>1, <1>2
  <2> QED
    BY ZenonT(30), <2>1, HeldHomeKept DEF InTurn
<1>9. Vacated'
  BY ZenonT(30), <1>1, <1>2, <1>3 DEF InTurn, Vacated
<1>10. Orderly' \subseteq Orderly /\ Orderly' \subseteq Ids
  BY ZenonT(30) DEF Orderly
<1>11. Tracked'
  <2> SUFFICES ASSUME NEW x \in live, home[x] \in Orderly'
               PROVE  instances'[home[x]] = x \/ \E h \in Goroutines : x \in gr'[h].held
    BY ZenonT(30) DEF Tracked
  <2>1. home[x] \in Orderly /\ home[x] \in Ids /\ x # None
    BY ZenonT(30), <1>2, <1>10 DEF Own, OwnType
  <2>2. CASE instances[home[x]] = x
    <3>1. x # e
      BY ZenonT(30), <1>2, <2>1, <2>2 DEF InTurn, Served
    <3> QED
      BY ZenonT(30), <2>1, <2>2, <3>1
  <2>3. CASE \E h \in Goroutines : x \in gr[h].held
    BY <1>1, <1>2, <2>3
  <2> QED
    BY ZenonT(30), <2>1, <2>2, <2>3 DEF InTurn, Tracked
<1>12. Current'
  <2> SUFFICES ASSUME NEW h \in Goroutines, gr'[h].tenant \in Tenants,
                      Id(h)' \in Orderly'
               PROVE  /\ gr'[h].pc = "insert" => instances'[Id(h)'] = None
                      /\ OnRecord(h)' => tenants[Id(h)'] = gr'[h].tenant
                      /\ gr'[h].pc \in {"claim"} \cup Opening =>
                           gr'[h].tenant \notin hibernated
                      /\ gr'[h].pc \in {"open", "publish"} => Id(h)' \in quotas
    BY ZenonT(30) DEF Current
  <2>1. gr'[h] = gr[h] /\ Id(h)' = Id(h) /\ Id(h) \in Orderly /\ Id(h) \in Ids
    BY ZenonT(30), <1>1, <1>2, <1>10 DEF Id
  <2>2. OnRecord(h)' <=> OnRecord(h)
    BY ZenonT(30), <2>1 DEF OnRecord
  <2> QED
    BY ZenonT(30), <2>1, <2>2 DEF InTurn, Current
<1>13. Served'
  BY <1>10 DEF InTurn, Served
<1> QED
  BY ZenonT(30), <1>4, <1>5, <1>6, <1>7, <1>8, <1>9, <1>11, <1>12, <1>13 DEF InTurn

\* A process that has just started has touched no tenant.
Untouched ==
  /\ Named /\ boot \subseteq Ids
  /\ instances = [id \in Ids |-> None] /\ quotas = {} /\ live = {}
  /\ gr = [g \in Goroutines |-> Idle]

LEMMA FreshTurn == Untouched => InTurn
<1> SUFFICES ASSUME Untouched PROVE InTurn
  OBVIOUS
<1> USE DEF Untouched
<1>1. \A g \in Goroutines : gr[g].pc = "idle" /\ gr[g].then = "idle" /\ gr[g].tenant = None
  BY ZenonT(30) DEF Idle
<1>2. Continues /\ Alone /\ HeldHome /\ Vacated
  BY <1>1 DEF Continues, Launching, Claiming, Alone, Busy, HeldHome, Vacated
<1>3. BootFresh
  BY <1>1 DEF BootFresh, Working
<1>4. Tracked /\ Served
  BY ZenonT(30) DEF Tracked, Served, Orderly
<1>5. Current
  BY <1>1, LifecycleAssumption DEF Current
<1> QED
  BY <1>2, <1>3, <1>4, <1>5 DEF InTurn

-----------------------------------------------------------------------------
(* The actions.                                                            *)

\* A goroutine goes on with its tenant at a plain step.
LEMMA StepShape ==
  ASSUME NEW pc, NEW t, NEW held, NEW then
  PROVE  /\ Step(pc, t, held, then).pc = pc /\ Step(pc, t, held, then).tenant = t
         /\ Step(pc, t, held, then).held = held /\ Step(pc, t, held, then).then = then
BY ZenonT(30) DEF Step

IsStep(r, pc, t, held, then) ==
  /\ r \in Locals /\ r.pc = pc /\ r.tenant = t /\ r.held = held /\ r.then = then

\* A step that a request begins with, or that stops an engine.
LEMMA OpeningStep ==
  ASSUME NEW pc \in {"stop", "insert", "remove", "start"}, NEW t \in Tenants,
         NEW held \in SUBSET Engines, NEW then \in {"idle", "purge", "extract", "start", "boot"}
  PROVE  IsStep(Step(pc, t, held, then), pc, t, held, then)
BY StepFacts, StepShape DEF IsStep, Steps, Continuations

\* ... or only changes its program counter.
LEMMA AdvanceShape ==
  ASSUME NEW r \in Locals, NEW pc \in Steps
  PROVE  /\ [r EXCEPT !.pc = pc].pc = pc /\ [r EXCEPT !.pc = pc].tenant = r.tenant
         /\ [r EXCEPT !.pc = pc].held = r.held /\ [r EXCEPT !.pc = pc].then = r.then
BY ZenonT(30) DEF Locals

LEMMA IdleShape == /\ Idle \in Locals /\ Idle.pc = "idle" /\ Idle.tenant = None
                   /\ Idle.held = {} /\ Idle.then = "idle"
BY ZenonT(30) DEF Idle, Locals, Steps, Continuations

\* Where a start goes when it returns.
LEMMA ReturnShape ==
  ASSUME Own, InTurn, NEW g \in Goroutines, gr[g].pc \in Launching,
         NEW r \in {Continue(gr[g]), Failed(g)}
  PROVE  /\ r \in Locals /\ r.held = {} /\ r.then = "idle"
         /\ r.pc \in {"idle", "commit", "undo"}
         /\ r.pc = "idle" \/ r.tenant = gr[g].tenant
         /\ r.pc = "idle" <=> gr[g].then # "commit"
<1>1. gr[g].then \in {"idle", "boot", "commit"}
  BY ZenonT(30) DEF InTurn, Continues
<1>2. gr[g].tenant \in Tenants
  BY ZenonT(30), LocalFacts DEF Launching, Claiming
<1>3. r \in Locals
  BY <1>2, ContinueFacts
<1> QED
  BY <1>1, <1>3, IdleShape, StepShape DEF Continue, Failed

\* The steps of StartTenant.
LEMMA LaunchTurn ==
  ASSUME Own, InTurn, NEW g \in Goroutines,
         StartTenant(g) \/ Claim(g) \/ Admit(g) \/ Open(g) \/ Release(g)
  PROVE  InTurn'
<1>1. gr[g].pc \in {"start", "claim", "admit", "open", "release-ok", "release-error"}
  BY ZenonT(30) DEF StartTenant, Claim, Admit, Open, Release, At
<1>2. /\ gr[g] \in Locals /\ gr[g].tenant \in Tenants /\ gr[g].held = {}
      /\ gr[g].pc \in Launching
  BY <1>1, LocalFacts DEF Launching, Claiming
<1>3. OnRecord(g) /\ gr[g].then \in {"idle", "boot", "commit"}
  BY ZenonT(30), <1>2 DEF OnRecord, InTurn, Continues
<1>4. UNCHANGED <<tenants, hibernated, instances, boot, overlap, unsaved>>
  BY ZenonT(30) DEF StartTenant, Claim, Admit, Open, Release, manager, history
<1>5. ASSUME NEW r \in {Continue(gr[g]), Failed(g)}, Go(g, r),
             UNCHANGED <<quotas, live, home>>
      PROVE  InTurn'
  <2>1. /\ r \in Locals /\ r.held = {} /\ r.then = "idle"
        /\ r.pc \in {"idle", "commit", "undo"}
        /\ r.pc = "idle" \/ r.tenant = gr[g].tenant
    BY ZenonT(30), <1>2, <1>5, ReturnShape
  <2>2. /\ r.pc \notin {"stop", "publish", "insert", "remove", "open"}
        /\ r.pc \notin {"claim"} \cup Opening /\ r.pc \notin Launching
    BY ZenonT(30), <2>1 DEF Opening, Launching, Claiming
  <2>3. gr' = [gr EXCEPT ![g] = r]
    BY <1>5 DEF Go
  <2> QED
    BY ZenonT(30), <1>1, <1>2, <1>3, <1>4, <1>5, <2>1, <2>2, <2>3, QuietStep
<1>6. ASSUME NEW pc \in {"claim", "admit", "open", "release-error"},
             Go(g, [gr[g] EXCEPT !.pc = pc]),
             pc # "release-error" =>
               gr[g].pc \in {"claim"} \cup Opening \/ gr[g].tenant \notin hibernated,
             pc = "open" => Id(g) \in quotas',
             quotas' = quotas \/ quotas' = quotas \cup {Id(g)},
             UNCHANGED <<live, home>>
      PROVE  InTurn'
  <2> DEFINE r == [gr[g] EXCEPT !.pc = pc]
  <2>1. pc \in Steps
    BY <1>6 DEF Steps
  <2>2. r.pc = pc /\ r.tenant = gr[g].tenant /\ r.held = {} /\ r.then = gr[g].then
    BY <1>2, <2>1, AdvanceShape
  <2>3. r \in Locals
    BY <1>2, <2>1, AdvanceFacts
  <2>4. gr' = [gr EXCEPT ![g] = r]
    BY <1>6 DEF Go
  <2> HIDE DEF r
  <2>5. r.pc \notin {"stop", "publish", "insert", "remove"} /\ r.pc \in Launching
        /\ (r.pc \in {"claim"} \cup Opening => r.pc # "release-error")
    BY <1>6, <2>2 DEF Launching, Claiming, Opening
  <2> QED
    BY ZenonT(30), <1>1, <1>2, <1>3, <1>4, <1>6, <2>2, <2>3, <2>4, <2>5, QuietStep
<1>7. CASE StartTenant(g)
  <2>1. UNCHANGED <<quotas, live, home>>
    BY <1>7 DEF StartTenant, manager, engines
  <2>2. \/ Go(g, Failed(g))
        \/ gr[g].tenant \notin hibernated /\ Go(g, [gr[g] EXCEPT !.pc = "claim"])
    BY <1>7 DEF StartTenant
  <2> QED
    BY <1>5, <1>6, <2>1, <2>2
<1>8. CASE Claim(g)
  <2>1. UNCHANGED <<quotas, live, home>> /\ gr[g].pc = "claim"
    BY <1>8 DEF Claim, engines, At
  <2>2. Go(g, Continue(gr[g])) \/ Go(g, [gr[g] EXCEPT !.pc = "admit"])
    BY <1>8 DEF Claim
  <2> QED
    BY <1>5, <1>6, <2>1, <2>2
<1>9. CASE Admit(g)
  <2>1. UNCHANGED <<live, home>> /\ gr[g].pc \in Opening
    BY <1>9 DEF Admit, engines, At, Opening
  <2>2. \/ quotas' = quotas \cup {Id(g)} /\ Go(g, [gr[g] EXCEPT !.pc = "open"])
        \/ quotas' = quotas /\ Go(g, [gr[g] EXCEPT !.pc = "release-error"])
    BY <1>9 DEF Admit
  <2> QED
    BY <1>6, <2>1, <2>2
<1>10. CASE Open(g)
  <2>1. UNCHANGED quotas /\ gr[g].pc = "open"
    BY ZenonT(30), <1>10 DEF Open, manager, At
  <2>2. CASE \E e \in Engines :
               /\ Unused(e)
               /\ live' = live \cup {e} /\ home' = [home EXCEPT ![e] = Id(g)]
               /\ Go(g, [gr[g] EXCEPT !.pc = "publish", !.held = {e}])
    BY ZenonT(30), <1>4, <2>1, <2>2, OpenTurn DEF Go
  <2>3. CASE Go(g, [gr[g] EXCEPT !.pc = "release-error"]) /\ UNCHANGED engines
    <3>1. UNCHANGED <<live, home>>
      BY <2>3 DEF engines
    <3> QED
      BY <1>6, <2>1, <2>3, <3>1
  <2> QED
    BY ZenonT(30), <1>10, <2>2, <2>3 DEF Open
<1>11. CASE Release(g)
  <2>1. UNCHANGED <<quotas, live, home>>
    BY ZenonT(30), <1>11 DEF Release, engines
  <2>2. Go(g, Continue(gr[g])) \/ Go(g, Failed(g))
    BY ZenonT(30), <1>11 DEF Release
  <2> QED
    BY <1>5, <2>1, <2>2
<1> QED
  BY <1>7, <1>8, <1>9, <1>10, <1>11

\* The steps of a purge and of a restore outside StartTenant.
LEMMA RestoreTurn ==
  ASSUME Own, InTurn, NEW g \in Goroutines,
         Purge(g) \/ Extract(g) \/ Swap(g) \/ Place(g) \/ Commit(g) \/ Undo(g)
  PROVE  InTurn'
<1>1. gr[g].pc \in {"purge", "extract", "swap", "place", "commit", "undo"}
  BY DEF Purge, Extract, Swap, Place, Commit, Undo, At
<1>2. /\ gr[g] \in Locals /\ gr[g].tenant \in Tenants /\ gr[g].held = {}
  BY ZenonT(30), <1>1, LocalFacts
<1>3. UNCHANGED <<tenants, hibernated, instances, quotas, live, home, boot, overlap, unsaved>>
  BY DEF Purge, Extract, Swap, Place, Commit, Undo, manager, engines, history
<1>4. PICK r \in {Idle, [gr[g] EXCEPT !.pc = "swap"], [gr[g] EXCEPT !.pc = "place"],
                  Step("start", gr[g].tenant, {}, "idle"),
                  Step("start", gr[g].tenant, {}, "commit")} :
        Go(g, r) /\ (r = Idle \/ gr[g].pc # "purge")
  BY DEF Purge, Extract, Swap, Place, Commit, Undo, At
<1>5. gr[g].then = "idle"
  BY <1>1 DEF InTurn, Continues, Launching, Claiming
<1>6. /\ r.held = {} /\ r.pc \in {"idle", "swap", "place", "start"}
      /\ r.pc = "idle" \/ (r.tenant = gr[g].tenant /\ gr[g].pc # "purge")
      /\ r.then \in {"idle", "commit"} /\ (r.pc # "start" => r.then = "idle")
  <2>1. CASE r = Idle
    BY <2>1, IdleShape
  <2>2. CASE r \in {[gr[g] EXCEPT !.pc = "swap"], [gr[g] EXCEPT !.pc = "place"]}
    BY <1>2, <1>4, <1>5, <2>2, IdleShape DEF Locals
  <2>3. CASE r \in {Step("start", gr[g].tenant, {}, "idle"),
                    Step("start", gr[g].tenant, {}, "commit")}
    BY <1>4, <2>3, IdleShape DEF Step
  <2> QED
    BY <1>4, <2>1, <2>2, <2>3
<1>7. r \in Locals
  <2>1. {"swap", "place", "start"} \subseteq Steps
        /\ {"idle", "commit"} \subseteq Continuations
    BY DEF Steps, Continuations
  <2> QED
    BY <1>2, <1>4, <2>1, IdleFacts, StepFacts, AdvanceFacts
<1>8. /\ r.pc \notin {"stop", "publish", "insert", "remove", "open"}
      /\ r.pc \notin {"claim"} \cup Opening /\ (r.pc \in Launching => r.pc = "start")
      /\ (r.pc = "start" => r.pc \in Launching)
      /\ (r.pc # "idle" => OnRecord(g))
  BY <1>1, <1>6 DEF Opening, Launching, Claiming, OnRecord, RestoreSteps
<1>9. gr' = [gr EXCEPT ![g] = r] /\ "idle" \notin Launching \cup RestoreSteps
  BY <1>4 DEF Go, Launching, Claiming, RestoreSteps
<1> HIDE <1>4
<1> QED
  BY ZenonT(30), <1>1, <1>2, <1>3, <1>6, <1>7, <1>8, <1>9, QuietStep

\* A request that finds the API served and its goroutine idle.
LEMMA BeginFacts ==
  ASSUME Own, NEW g \in Slots, NEW id \in Ids, Begin(g, id)
  PROVE  /\ g \in Goroutines /\ gr[g].pc = "idle" /\ boot = {}
         /\ overlap \subseteq overlap' /\ (id \notin overlap' => ~Working(id))
BY DEF Begin, At, Serving, Overlap, Goroutines

LEMMA RegisteredOne ==
  ASSUME NEW id \in Ids
  PROVE  Registered(id) = {instances[i] : i \in {id}} \ {None}
BY DEF Registered

\* A goroutine takes the engine of its tenant out of the map, to stop it.
LEMMA TakeOneTurn ==
  ASSUME Own, InTurn, NEW g \in Goroutines, NEW id \in Ids, NEW t \in Tenants, t[1] = id,
         NEW then \in {"idle", "purge", "extract", "start"},
         gr[g].pc \notin {"publish", "stop"},
         instances' = [instances EXCEPT ![id] = None],
         Go(g, Step("stop", t, Registered(id), then)),
         then \in {"start", "extract"} => tenants'[id] = t,
         overlap \subseteq overlap', unsaved \subseteq unsaved',
         id \notin overlap' => Busy(g, id) \/ ~Working(id),
         boot' = boot, id \notin boot, Named',
         \A i \in Ids : i # id =>
           tenants'[i] = tenants[i] /\ (i \in quotas' <=> i \in quotas),
         tenants'[id] = None /\ id \in Orderly' => id \notin quotas',
         \A x \in Tenants : x[1] # id /\ x \in hibernated' => x \in hibernated,
         UNCHANGED <<live, home>>
  PROVE  InTurn'
<1> DEFINE r == Step("stop", t, Registered(id), then)
           D == {id}
<1>1. instances \in [Ids -> Engines \cup {None}]
  BY ZenonT(30) DEF Own, OwnType
<1>2. IsStep(r, "stop", t, Registered(id), then)
  <2>1. Registered(id) \in SUBSET Engines
    BY ZenonT(30), <1>1 DEF Registered
  <2> QED
    BY ZenonT(30), <2>1, OpeningStep
<1>3. gr' = [gr EXCEPT ![g] = r]
  BY ZenonT(30) DEF Go
<1> HIDE DEF r
<1>4. r.pc = "stop" /\ r.tenant = t /\ r.held = Registered(id) /\ r.then = then /\ r \in Locals
  BY ZenonT(30), <1>2 DEF IsStep
<1>5. r.held = {instances[i] : i \in D} \ {None}
  <2>1. Registered(id) = {instances[i] : i \in {id}} \ {None}
    BY ZenonT(30), RegisteredOne
  <2> QED
    BY ZenonT(30), <1>4, <2>1
<1>6. instances' = [i \in Ids |-> IF i \in D THEN None ELSE instances[i]]
  BY ZenonT(30), <1>1
<1>7. /\ r.tenant \in Tenants /\ D = {r.tenant[1]}
      /\ r.then \in {"idle", "purge", "extract", "start", "exit"}
      /\ r.then \in {"start", "extract"} => tenants'[r.tenant[1]] = r.tenant
      /\ boot \cap D = {}
  BY ZenonT(30), <1>4
<1>8. /\ \A i \in D \ overlap' : Busy(g, i) \/ ~Working(i)
      /\ \A i \in Ids \ D : tenants'[i] = tenants[i] /\ (i \in quotas' <=> i \in quotas)
      /\ \A i \in D \cap Orderly' : tenants'[i] = None => i \notin quotas'
      /\ \A x \in Tenants : x[1] \notin D /\ x \in hibernated' => x \in hibernated
  BY ZenonT(30)
<1>9. D \in SUBSET Ids
  BY ZenonT(30)
<1> HIDE DEF D
<1>10. Takes(g, r, D)
  BY ZenonT(30), <1>3, <1>4, <1>5, <1>6, <1>7, <1>8 DEF Takes
<1> QED
  BY ZenonT(30), <1>4, <1>9, <1>10, TakeTurn

\* Every request.
LEMMA RequestTurn ==
  ASSUME Own, InTurn, NEW g \in Slots, NEW id \in Ids, Request(g, id)
  PROVE  InTurn'
<1>1. Begin(g, id)
  BY ZenonT(30) DEF Request, ProvisionWith, DeleteTenant, HibernateTenant, WakeTenant, RestoreTenant
<1>2. /\ g \in Goroutines /\ gr[g].pc = "idle" /\ boot = {}
      /\ overlap \subseteq overlap' /\ (id \notin overlap' => ~Working(id))
  BY <1>1, BeginFacts
<1>3. /\ UNCHANGED <<boot, tenants, quotas, live, home>>
  BY ZenonT(30) DEF Request, ProvisionWith, DeleteTenant, HibernateTenant, WakeTenant, RestoreTenant,
         manager, engines
<1>4. /\ tenants[id] # None => tenants[id] \in Tenants /\ tenants[id][1] = id
      /\ instances \in [Ids -> Engines \cup {None}]
  BY DEF InTurn, Named, Own, OwnType
<1>5. ASSUME NEW pc \in {"insert", "remove", "start"}, NEW t \in Tenants, t[1] = id,
             NEW then \in {"idle", "purge"}, Go(g, Step(pc, t, {}, then)),
             then = "purge" => pc = "remove",
             pc = "insert" /\ id \in Orderly => instances[id] = None,
             pc = "start" => tenants[id] = t,
             \A x \in Tenants : x \in hibernated' => x \in hibernated,
             unsaved \subseteq unsaved', UNCHANGED instances
      PROVE  InTurn'
  <2> DEFINE r == Step(pc, t, {}, then)
  <2>1. IsStep(r, pc, t, {}, then)
    <3>1. pc \in {"stop", "insert", "remove", "start"} /\ then \in {"idle", "purge"}
      BY ZenonT(30), <1>5
    <3> QED
      BY ZenonT(30), <3>1, OpeningStep
  <2>2. gr' = [gr EXCEPT ![g] = r]
    BY ZenonT(30), <1>5 DEF Go
  <2> HIDE DEF r
  <2>3. r.pc = pc /\ r.tenant = t /\ r.held = {} /\ r.then = then /\ r \in Locals
    BY ZenonT(30), <2>1 DEF IsStep
  <2> QED
    BY ZenonT(30), <1>2, <1>3, <1>5, <2>2, <2>3, BeginStep
<1>6. ASSUME NEW then \in {"idle", "extract"}, tenants[id] # None,
             instances' = [instances EXCEPT ![id] = None],
             Go(g, Step("stop", tenants[id], Registered(id), then)),
             \A t \in Tenants : t[1] # id /\ t \in hibernated' => t \in hibernated,
             unsaved \subseteq unsaved'
      PROVE  InTurn'
  <2>1. Named' /\ tenants'[id] # None /\ id \notin boot
    BY ZenonT(30), <1>2, <1>3, <1>6 DEF InTurn, Named
  <2> QED
    BY ZenonT(30), <1>2, <1>3, <1>4, <1>6, <2>1, TakeOneTurn
<1>7. CASE ProvisionWith(g, id)
  <2>1. PICK n \in 1 .. Records : /\ hibernated' = hibernated \ {<<id, n>>}
                                  /\ Go(g, Step("insert", <<id, n>>, {}, "idle"))
    BY ZenonT(30), <1>7 DEF ProvisionWith
  <2>2. /\ tenants[id] = None
        /\ UNCHANGED <<instances, unsaved>>
    BY ZenonT(30), <1>7 DEF ProvisionWith
  <2>3. <<id, n>> \in Tenants /\ <<id, n>>[1] = id
    BY ZenonT(30) DEF Tenants
  <2>4. id \in Orderly => instances[id] = None
    BY ZenonT(30), <2>2 DEF InTurn, Served
  <2> QED
    BY ZenonT(30), <1>5, <2>1, <2>2, <2>3, <2>4
<1>8. CASE \E purge \in BOOLEAN : DeleteTenant(g, id, purge)
  <2>1. PICK then \in {"purge", "idle"} : Go(g, Step("remove", tenants[id], {}, then))
    BY <1>8 DEF DeleteTenant
  <2>2. tenants[id] # None /\ UNCHANGED <<hibernated, instances, unsaved>>
    BY <1>8 DEF DeleteTenant, manager
  <2> QED
    BY ZenonT(30), <1>4, <1>5, <2>1, <2>2
<1>9. CASE HibernateTenant(g, id)
  <2>1. tenants[id] # None
    BY <1>9 DEF HibernateTenant
  <2>2. CASE /\ hibernated' = hibernated \cup {tenants[id]} /\ SaveState
             /\ instances' = [instances EXCEPT ![id] = None]
             /\ Go(g, Step("stop", tenants[id], Registered(id), "idle"))
    <3>1. unsaved' = unsaved
      BY <2>2 DEF SaveState
    <3> QED
      BY ZenonT(30), <1>4, <1>6, <2>1, <2>2, <3>1
  <2>3. CASE /\ hibernated' = hibernated \ {tenants[id]} /\ SaveStateFail(id)
             /\ UNCHANGED <<instances, gr>>
    <3>1. unsaved \subseteq unsaved' /\ hibernated' \subseteq hibernated
      BY <2>3 DEF SaveStateFail
    <3> QED
      BY ZenonT(30), <1>2, <1>3, <2>3, <3>1, LeftStep
  <2> QED
    BY ZenonT(30), <1>9, <2>2, <2>3 DEF HibernateTenant
<1>10. CASE \E requireHibernated \in BOOLEAN : WakeTenant(g, id, requireHibernated)
  <2>1. tenants[id] # None /\ UNCHANGED instances
    BY <1>10 DEF WakeTenant
  <2>2. CASE /\ hibernated' = hibernated \ {tenants[id]} /\ SaveState
             /\ Go(g, Step("start", tenants[id], {}, "idle"))
    <3>1. unsaved' = unsaved
      BY <2>2 DEF SaveState
    <3> QED
      BY ZenonT(30), <1>4, <1>5, <2>1, <2>2, <3>1
  <2>3. CASE /\ hibernated' = hibernated \cup {tenants[id]} /\ SaveStateFail(id)
             /\ UNCHANGED gr
    <3>1. unsaved' = unsaved \cup {id}
      BY <2>3 DEF SaveStateFail
    <3>2. \A t \in Tenants : t[1] \in Orderly' /\ t \in hibernated' => t \in hibernated
      BY ZenonT(30), <1>4, <2>1, <2>3, <3>1 DEF Orderly
    <3> QED
      BY ZenonT(30), <1>2, <1>3, <2>1, <2>3, <3>1, <3>2, LeftStep
  <2> QED
    BY ZenonT(30), <1>10, <2>2, <2>3 DEF WakeTenant
<1>11. CASE RestoreTenant(g, id)
  <2>1. /\ tenants[id] # None /\ UNCHANGED <<hibernated, unsaved>>
        /\ instances' = [instances EXCEPT ![id] = None]
        /\ Go(g, Step("stop", tenants[id], Registered(id), "extract"))
    BY <1>11 DEF RestoreTenant
  <2> QED
    BY ZenonT(30), <1>6, <2>1
<1> QED
  BY <1>7, <1>8, <1>9, <1>10, <1>11 DEF Request

\* A delete takes the tenant, its engine and its reservation out.
LEMMA RemoveTurn ==
  ASSUME Own, BootQuiet, InTurn, NEW g \in Goroutines, RemoveTenant(g)
  PROVE  InTurn'
<1>1. /\ gr[g].pc = "remove" /\ instances' = [instances EXCEPT ![Id(g)] = None]
      /\ quotas' = quotas \ {Id(g)} /\ tenants' = [tenants EXCEPT ![Id(g)] = None]
      /\ UNCHANGED <<hibernated, live, home, boot, overlap>>
  BY ZenonT(30) DEF RemoveTenant, At, engines
<1>2. /\ gr[g] \in Locals /\ gr[g].tenant \in Tenants /\ Id(g) \in Ids
      /\ Id(g) = gr[g].tenant[1] /\ boot = {}
      /\ instances \in [Ids -> Engines \cup {None}]
      /\ tenants \in [Ids -> Tenants \cup {None}]
  BY ZenonT(30), <1>1, LocalFacts DEF BootQuiet, Id, Own, OwnType
<1>3. PICK then \in {gr[g].then, "idle"} :
        /\ Go(g, Step("stop", gr[g].tenant, Registered(Id(g)), then))
        /\ unsaved \subseteq unsaved'
  BY ZenonT(30) DEF RemoveTenant, SaveState, SaveStateFail
<1>4. then \in {"idle", "purge"}
  BY ZenonT(30), <1>1, <1>3 DEF InTurn, Continues
<1>5. Named' /\ tenants'[Id(g)] = None /\ \A i \in Ids : i # Id(g) => tenants'[i] = tenants[i]
  BY ZenonT(30), <1>1, <1>2 DEF InTurn, Named
<1>6. Busy(g, Id(g))
  BY ZenonT(30), <1>1 DEF Busy
<1> QED
  BY ZenonT(30), <1>1, <1>2, <1>3, <1>4, <1>5, <1>6, TakeOneTurn

\* A supervisor that receives an error.
LEMMA SuperviseTurn ==
  ASSUME Own, InTurn, NEW e \in Engines, SuperviseTenant(e)
  PROVE  InTurn'
<1>1. /\ gr[e].pc = "watch" /\ e \in Goroutines
      /\ UNCHANGED <<tenants, hibernated, quotas, live, home, boot, unsaved>>
  BY ZenonT(30) DEF SuperviseTenant, At, engines, Goroutines
<1>2. /\ instances \in [Ids -> Engines \cup {None}] /\ e # None
      /\ tenants \in [Ids -> Tenants \cup {None}]
  BY ZenonT(30), LifecycleAssumption DEF Own, OwnType
<1>3. CASE /\ \A id \in Ids : instances[id] # e
           /\ Go(e, Idle) /\ UNCHANGED <<instances, overlap>>
  BY ZenonT(30), <1>1, <1>2, <1>3, ReturnTurn DEF Go
<1>4. ASSUME NEW id \in Ids, instances[id] = e, Overlap(id),
             instances' = [instances EXCEPT ![id] = None]
      PROVE  /\ overlap \subseteq overlap' /\ (id \notin overlap' => ~Working(id))
             /\ id \notin boot
             /\ \A i \in Ids : instances[i] = e => i = id
  BY <1>2, <1>4 DEF Overlap, InTurn, BootFresh, Own, RegisteredLive
<1>5. ASSUME NEW id \in Ids, instances[id] = e, Overlap(id),
             instances' = [instances EXCEPT ![id] = None],
             tenants[id] = None \/ tenants[id] \in hibernated, Go(e, Idle)
      PROVE  InTurn'
  <2>1. /\ overlap \subseteq overlap' /\ \A i \in Ids : instances[i] = e => i = id
    BY ZenonT(30), <1>4, <1>5
  <2>2. /\ instances' \in [Ids -> Engines \cup {None}]
        /\ \A i \in Ids : instances'[i] \in {instances[i], None}
        /\ \A i \in Ids : instances[i] \notin {e, None} => instances'[i] = instances[i]
        /\ \A i \in Ids : instances[i] = e => tenants[i] \in hibernated \cup {None}
    BY ZenonT(30), <1>2, <1>5, <2>1
  <2>3. gr' = [gr EXCEPT ![e] = Idle]
    BY <1>5 DEF Go
  <2> QED
    BY ZenonT(30), <1>1, <2>1, <2>2, <2>3, ReturnTurn
<1>6. ASSUME NEW id \in Ids, instances[id] = e, Overlap(id),
             instances' = [instances EXCEPT ![id] = None], tenants[id] # None,
             NEW then \in {"start", "idle"}, Go(e, Step("stop", tenants[id], {e}, then))
      PROVE  InTurn'
  <2>1. /\ overlap \subseteq overlap' /\ (id \notin overlap' => ~Working(id))
        /\ id \notin boot
    BY ZenonT(30), <1>4, <1>6
  <2>2. Registered(id) = {e} /\ tenants[id] \in Tenants /\ tenants[id][1] = id
    BY ZenonT(30), <1>2, <1>6 DEF Registered, InTurn, Named
  <2>3. Named'
    BY <1>1 DEF InTurn, Named
  <2> QED
    BY ZenonT(30), <1>1, <1>6, <2>1, <2>2, <2>3, TakeOneTurn
<1> QED
  BY ZenonT(30), <1>3, <1>5, <1>6 DEF SuperviseTenant

\* The orderly shutdown takes every engine out of the map.
LEMMA StopAllTurn ==
  ASSUME Own, InTurn, NEW g \in Slots, StopAll(g)
  PROVE  InTurn'
<1> DEFINE all == UNION {Registered(id) : id \in Ids}
           r == Step("stop", None, all, "exit")
<1>1. /\ gr[g].pc = "idle" /\ g \in Goroutines /\ boot = {}
      /\ instances' = [id \in Ids |-> None] /\ gr' = [gr EXCEPT ![g] = r]
      /\ overlap' = overlap \cup {id \in Ids : Working(id)}
      /\ UNCHANGED <<tenants, hibernated, quotas, live, home, boot, unsaved>>
  BY DEF StopAll, At, Go, Serving, engines, Goroutines
<1>2. all = {instances[id] : id \in Ids} \ {None}
  BY ZenonT(30) DEF Registered
<1>3. all \in SUBSET Engines
  BY <1>2 DEF Own, OwnType
<1> HIDE DEF all
<1>4. r \in Locals
  BY <1>3 DEF Step, Locals, Steps, Continuations
<1>5. r.pc = "stop" /\ r.tenant = None /\ r.held = all /\ r.then = "exit"
  BY StepShape
<1> HIDE DEF r
<1>6. instances' = [id \in Ids |-> IF id \in Ids THEN None ELSE instances[id]]
  BY ZenonT(30), <1>1
<1>7. Named' /\ None \notin Tenants
  BY ZenonT(30), <1>1, LifecycleAssumption DEF InTurn, Named
<1>8. \A id \in Ids \cap Orderly' : tenants'[id] = None => id \notin quotas'
  BY <1>1 DEF InTurn, Served, Orderly
<1>9. \A t \in Tenants : t \in hibernated' => t \in hibernated
  BY <1>1
<1>10. \A id \in Ids \ overlap' : ~Working(id)
  BY <1>1
<1>11. Ids \in SUBSET Ids /\ overlap \subseteq overlap' /\ unsaved \subseteq unsaved'
  BY <1>1
<1>12. Takes(g, r, Ids)
  BY ZenonT(30), <1>1, <1>2, <1>5, <1>6, <1>7, <1>8, <1>9, <1>10, <1>11 DEF Takes
<1> QED
  BY ZenonT(30), <1>1, <1>4, <1>11, <1>12, TakeTurn

\* NewManager starts the next tenant.
LEMMA BootTurn ==
  ASSUME Own, BootQuiet, InTurn, NEW g \in Slots, BootTenant(g)
  PROVE  InTurn'
<1>1. PICK id \in boot : /\ boot' = boot \ {id}
                         /\ Go(g, Step("start", tenants[id], {}, "boot"))
  BY DEF BootTenant
<1>2. /\ gr[g].pc = "idle" /\ g \in Goroutines
      /\ UNCHANGED <<tenants, hibernated, quotas, instances, live, home, overlap, unsaved>>
  BY ZenonT(30) DEF BootTenant, At, engines, history, Goroutines
<1>3. /\ id \in Ids /\ tenants[id] \in Tenants /\ tenants[id] # None /\ ~Working(id)
  BY ZenonT(30), <1>1, LifecycleAssumption DEF BootQuiet, InTurn, BootFresh
<1>4. tenants[id][1] = id
  BY ZenonT(30), <1>3 DEF InTurn, Named
<1> DEFINE r == Step("start", tenants[id], {}, "boot")
<1>5. IsStep(r, "start", tenants[id], {}, "boot")
  BY ZenonT(30), <1>3, OpeningStep
<1>6. gr' = [gr EXCEPT ![g] = r]
  BY ZenonT(30), <1>1 DEF Go
<1> HIDE DEF r
<1>7. r \in Locals /\ r.pc = "start" /\ r.tenant = tenants[id] /\ r.held = {} /\ r.then = "boot"
  BY ZenonT(30), <1>5 DEF IsStep
<1>8. boot' \subseteq boot \ {id} /\ overlap \subseteq overlap' /\ unsaved \subseteq unsaved'
  BY ZenonT(30), <1>1, <1>2
<1> QED
  BY ZenonT(30), <1>2, <1>3, <1>4, <1>6, <1>7, <1>8, BeginStep

\* NewManager after a crash or a shutdown.
LEMMA RebootTurn == Reboot => InTurn'
<1> SUFFICES ASSUME Reboot PROVE InTurn'
  OBVIOUS
<1>1. /\ Named' /\ boot' \subseteq Ids /\ instances' = [id \in Ids |-> None]
      /\ quotas' = {} /\ live' = {} /\ gr' = [g \in Goroutines |-> Idle]
  BY ZenonT(30) DEF Reboot, Named
<1>2. (Untouched => InTurn)'
  BY FreshTurn, PTL
<1> QED
  BY <1>1, <1>2 DEF Untouched

\* Every step keeps the operations on a tenant in turn.
LEMMA NextTurn == Own /\ BootQuiet /\ InTurn /\ [Next]_vars => InTurn'
<1> SUFFICES ASSUME Own, BootQuiet, InTurn, [Next]_vars PROVE InTurn'
  OBVIOUS
<1>1. ASSUME NEW g \in Slots, NEW id \in Ids, Request(g, id) PROVE InTurn'
  BY <1>1, RequestTurn
<1>2. ASSUME NEW g \in Goroutines, Proceed(g) PROVE InTurn'
  <2>1. CASE Exit(g)
    BY ZenonT(30), <2>1, RebootTurn DEF Exit
  <2>2. CASE ~Exit(g)
    BY ZenonT(30), <1>2, <2>2, InsertTurn, RemoveTurn, StopTurn, LaunchTurn, PublishTurn, RestoreTurn
       DEF Proceed
  <2> QED
    BY <2>1, <2>2
<1>3. ASSUME NEW g \in Slots, StopAll(g) \/ BootTenant(g) PROVE InTurn'
  BY <1>3, StopAllTurn, BootTurn
<1>4. ASSUME NEW e \in Engines, SuperviseTenant(e) PROVE InTurn'
  BY <1>4, SuperviseTurn
<1>5. CASE UNCHANGED <<gr, tenants, hibernated, quotas, instances, live, home, boot, overlap,
                       unsaved>>
  BY <1>5, LeftStep
<1>6. ASSUME NEW e \in Engines, EngineFails(e) PROVE InTurn'
  BY <1>5, <1>6 DEF EngineFails, manager, history
<1>7. CASE Crash
  BY <1>7, RebootTurn DEF Crash
<1>8. CASE UNCHANGED vars
  BY <1>5, <1>8 DEF vars, manager, engines, history
<1> QED
  BY ZenonT(30), <1>1, <1>2, <1>3, <1>4, <1>6, <1>7, <1>8 DEF Next

-----------------------------------------------------------------------------
(* What the invariant says of a tenant.                                    *)

\* An engine of an orderly tenant is registered, or in the hands of the
\* goroutine at work on the tenant.
LEMMA WhoHas ==
  ASSUME Own, InTurn, NEW id \in Orderly, NEW e \in EnginesOf(id)
  PROVE  /\ e \in Engines
         /\ \/ instances[id] = e
            \/ \E g \in Goroutines : /\ e \in gr[g].held /\ Busy(g, id)
                                     /\ gr[g].pc \in {"publish", "stop"}
                                     /\ instances[id] = None
<1>1. e \in live /\ home[e] = id /\ e \in Engines /\ id \in Ids \ overlap
  BY DEF EnginesOf, Own, OwnType, Orderly
<1>2. CASE \E g \in Goroutines : e \in gr[g].held
  <2>1. PICK g \in Goroutines : e \in gr[g].held
    BY ZenonT(30), <1>2
  <2>2. CASE gr[g].pc = "publish"
    <3>1. home[e] = Id(g)
      BY <2>1, <2>2 DEF Own, PublishOwn
    <3>2. instances[Id(g)] = None
      BY ZenonT(30), <2>2 DEF Own, ClaimedVacant, Opening
    <3> QED
      BY ZenonT(30), <1>1, <2>1, <2>2, <3>1, <3>2 DEF Busy
  <2>3. CASE gr[g].pc = "stop"
    <3>1. Busy(g, id)
      BY ZenonT(30), <1>1, <2>1, <2>3 DEF InTurn, HeldHome, Busy
    <3>2. instances[id] = None
      BY ZenonT(30), <1>1, <2>3, <3>1 DEF InTurn, Vacated
    <3> QED
      BY ZenonT(30), <1>1, <2>1, <2>3, <3>1, <3>2
  <2> QED
    BY ZenonT(30), <2>1, <2>2, <2>3 DEF Own, HeldApart
<1>3. CASE instances[id] = e
  BY <1>1, <1>3
<1> QED
  BY ZenonT(30), <1>1, <1>2, <1>3 DEF InTurn, Tracked

\* ... and there is one at most.
LEMMA OneOf ==
  ASSUME Own, InTurn, NEW id \in Orderly, NEW e \in EnginesOf(id), NEW f \in EnginesOf(id)
  PROVE  e = f
<1>1. id \in Ids \ overlap /\ None \notin Engines /\ home[e] = home[f]
  BY ZenonT(30), LifecycleAssumption DEF Orderly, EnginesOf
<1>2. CASE instances[id] = e \/ instances[id] = f
  BY <1>1, <1>2, WhoHas
<1>3. CASE instances[id] # e /\ instances[id] # f
  <2>1. PICK g \in Goroutines : /\ e \in gr[g].held /\ Busy(g, id)
                                /\ gr[g].pc \in {"publish", "stop"}
    BY ZenonT(30), <1>3, WhoHas
  <2>2. PICK h \in Goroutines : f \in gr[h].held /\ Busy(h, id)
    BY <1>3, WhoHas
  <2>3. g = h
    BY ZenonT(30), <1>1, <2>1, <2>2 DEF InTurn, Alone
  <2>4. CASE gr[g].pc = "publish"
    BY <2>1, <2>2, <2>3, <2>4 DEF Own, PublishOwn
  <2>5. CASE gr[g].pc = "stop"
    BY ZenonT(30), <1>1, <2>1, <2>2, <2>3, <2>5 DEF InTurn, HeldHome
  <2> QED
    BY ZenonT(30), <2>1, <2>4, <2>5
<1> QED
  BY ZenonT(30), <1>2, <1>3

\* The invariant implies what SequentialTenants says of the engines and the
\* reservation (manager.go, hibernate.go, backup_restore.go).
LEMMA TurnMeans == Own /\ InTurn => SequentialTenants
<1> SUFFICES ASSUME Own, InTurn, NEW id \in Orderly
             PROVE  /\ \A e1, e2 \in EnginesOf(id) : e1 = e2
                    /\ ~Working(id) =>
                         /\ EnginesOf(id) \subseteq Registered(id)
                         /\ EnginesOf(id) # {} =>
                              /\ id \in quotas
                              /\ tenants[id] \notin hibernated \cup {None}
                         /\ tenants[id] = None => id \notin quotas
  BY DEF SequentialTenants, Orderly
<1>1. \A e1, e2 \in EnginesOf(id) : e1 = e2
  BY OneOf
<1>2. ASSUME ~Working(id), NEW e \in EnginesOf(id)
      PROVE  instances[id] = e /\ e # None
  <2>1. \A g \in Goroutines : ~Busy(g, id)
    BY <1>2 DEF Working, Busy
  <2> QED
    BY ZenonT(30), <1>2, <2>1, WhoHas, LifecycleAssumption
<1>3. ~Working(id) => EnginesOf(id) \subseteq Registered(id)
  BY <1>2 DEF Registered
<1>4. ~Working(id) /\ EnginesOf(id) # {} =>
        id \in quotas /\ tenants[id] \notin hibernated \cup {None}
  BY ZenonT(30), <1>2 DEF InTurn, Served
<1>5. tenants[id] = None => id \notin quotas
  BY ZenonT(30) DEF InTurn, Served
<1> QED
  BY ZenonT(30), <1>1, <1>3, <1>4, <1>5

\* The first start.
LEMMA InitTurn == Init => InTurn
<1> SUFFICES ASSUME Init PROVE Untouched
  BY FreshTurn
<1>1. PICK loaded \in SUBSET Ids :
        /\ tenants = [id \in Ids |-> IF id \in loaded THEN <<id, 1>> ELSE None]
        /\ boot = loaded
  BY ZenonT(30) DEF Init
<1>2. Named /\ boot \subseteq Ids
  BY <1>1 DEF Named
<1> QED
  BY ZenonT(30), <1>2 DEF Init, Untouched

\* Operations on a tenant that do not overlap find it as the one before left
\* it: InTurn is inductive beside Own.
THEOREM Turns == Spec => []InTurn
<1>1. Init => InTurn
  BY InitTurn
<1>2. Own /\ BootQuiet /\ InTurn /\ [Next]_vars => InTurn'
  BY NextTurn
<1> QED
  BY <1>1, <1>2, Ownership, PTL DEF Spec

\* One engine at most has the directory of a tenant open while its requests
\* do not overlap, whatever fails, and once nothing is at work a running
\* engine is registered, awake and paid for (manager.go:398, manager.go:533,
\* hibernate.go:19, backup_restore.go:83).
THEOREM TenantsSequential == Spec => []SequentialTenants
BY TurnMeans, Turns, Ownership, PTL
=============================================================================
