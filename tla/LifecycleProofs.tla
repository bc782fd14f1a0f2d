--------------------------- MODULE LifecycleProofs --------------------------
(***************************************************************************)
(* No engine is lost and no two engines work in one directory, for any     *)
(* number of tenants, requests, engines and failures.                      *)
(***************************************************************************)
EXTENDS Lifecycle, TLAPS

\* The leaves are small; the time is for the translation of a large context.
USE SMTT(30), ZenonT(30)

\* The steps of StartTenant between the claim and its deferred release.
Claiming == {"admit", "open", "publish", "release-ok", "release-error"}

\* ... and those before the engine is registered.
Opening == {"admit", "open", "publish"}

Continuations == {"idle", "boot", "purge", "extract", "start", "commit", "exit"}

Locals == [pc : Steps, tenant : Tenants \cup {None}, held : SUBSET Engines,
           then : Continuations]

\* A goroutine works on a tenant, except StopAll and one that only waits.
Bound(r) ==
  r.pc \notin {"idle", "watch", "exit"} /\ ~(r.pc = "stop" /\ r.then = "exit")
    => r.tenant \in Tenants

OwnType ==
  /\ tenants \in [Ids -> Tenants \cup {None}]
  /\ instances \in [Ids -> Engines \cup {None}]
  /\ starting \subseteq Ids
  /\ live \subseteq Engines
  /\ home \in [Engines -> Ids \cup {None}]
  /\ \A e \in live : home[e] \in Ids
  /\ gr \in [Goroutines -> Locals]
  /\ \A g \in Goroutines : Bound(gr[g])

\* starting is a lock: one goroutine is between Claim and Release.
ClaimLock ==
  /\ \A g \in Goroutines : gr[g].pc \in Claiming => Id(g) \in starting
  /\ \A g, h \in Goroutines :
       gr[g].pc \in Claiming /\ gr[h].pc \in Claiming /\ Id(g) = Id(h) => g = h

\* While the claim is held nobody else registers an engine.
ClaimedVacant ==
  \A g \in Goroutines : gr[g].pc \in Opening => instances[Id(g)] = None

\* A registered engine runs in its tenant's directory, and is supervised.
RegisteredLive ==
  \A id \in Ids :
    instances[id] # None =>
      /\ instances[id] \in live
      /\ home[instances[id]] = id
      /\ gr[instances[id]].pc = "watch"

\* Engines in the hands of a goroutine are in no other's, nor in the map.
HeldApart ==
  /\ \A g \in Goroutines : gr[g].held # {} => gr[g].pc \in {"publish", "stop"}
  /\ \A g \in Goroutines : \A e \in gr[g].held :
       e \in live /\ \A id \in Ids : instances[id] # e
  /\ \A g, h \in Goroutines : g # h => gr[g].held \cap gr[h].held = {}

\* What a start publishes is the engine it opened for its tenant.
PublishOwn ==
  \A g \in Goroutines :
    gr[g].pc = "publish" =>
      \E e \in Engines : gr[g].held = {e} /\ home[e] = Id(g) /\ gr[e].pc = "idle"

\* NewManager starts tenants it has loaded, before anything else is served.
BootQuiet ==
  /\ boot \subseteq Ids
  /\ boot # {} => /\ \A id \in boot : tenants[id] \in Tenants
                 /\ \A g \in Goroutines : gr[g].pc \notin {"insert", "remove"}

\* Who has each engine, and who may register one: the inductive invariant.
Own ==
  /\ OwnType
  /\ ClaimLock
  /\ ClaimedVacant
  /\ RegisteredLive
  /\ HeldApart
  /\ PublishOwn
  /\ NoLostEngine

-----------------------------------------------------------------------------
\* The invariant implies that two engines in one directory are never both in
\* use (StartTenant, manager.go:533).
LEMMA OwnOneEngine == Own => OneEngine
<1> SUFFICES ASSUME Own, NEW e1 \in live, NEW e2 \in live,
                    e1 # e2, home[e1] = home[e2],
                    ~Condemned(e1), ~Condemned(e2), ~Leaked(e1), ~Leaked(e2)
             PROVE  FALSE
  BY DEF OneEngine
<1>1. \A e \in {e1, e2} :
        \/ instances[home[e]] = e
        \/ \E g \in Goroutines : e \in gr[g].held /\ gr[g].pc = "publish"
  BY DEF Own, NoLostEngine, Condemned, At
<1>2. \A e \in {e1, e2}, g \in Goroutines :
        e \in gr[g].held /\ gr[g].pc = "publish" =>
          gr[g].held = {e} /\ home[e] = Id(g) /\ instances[home[e]] = None
  BY DEF Own, PublishOwn, ClaimedVacant, Opening
<1>3. None \notin {e1, e2}
  BY LifecycleAssumption DEF Own, OwnType
<1>4. CASE instances[home[e1]] = e1 \/ instances[home[e2]] = e2
  BY <1>1, <1>2, <1>3, <1>4
<1>5. CASE instances[home[e1]] # e1 /\ instances[home[e2]] # e2
  <2>1. PICK g \in Goroutines : e1 \in gr[g].held /\ gr[g].pc = "publish"
    BY <1>1, <1>5
  <2>2. PICK h \in Goroutines : e2 \in gr[h].held /\ gr[h].pc = "publish"
    BY <1>1, <1>5
  <2>3. g = h
    BY <1>2, <2>1, <2>2 DEF Own, ClaimLock, Claiming
  <2> QED
    BY <1>2, <2>1, <2>2, <2>3
<1> QED
  BY <1>4, <1>5

\* A step that takes no engine and no claim and gives no engine back; it may
\* release the claim.
LEMMA NeutralStep ==
  ASSUME Own, NEW g \in Goroutines, NEW r \in Locals, Bound(r),
         g \in Slots \/ gr[g].pc \notin {"idle", "watch"},
         gr[g].pc \notin {"publish", "stop"},
         r.pc \notin {"publish", "stop", "watch"}, r.held = {},
         r.pc \in Claiming => gr[g].pc \in Claiming /\ r.tenant = gr[g].tenant,
         r.pc \in Opening => gr[g].pc \in Opening,
         gr' = [gr EXCEPT ![g] = r],
         \/ starting' = starting
         \/ /\ gr[g].pc \in Claiming /\ r.pc \notin Claiming
            /\ starting' = starting \ {Id(g)},
         tenants' \in [Ids -> Tenants \cup {None}],
         UNCHANGED <<instances, live, failed, home>>
  PROVE  Own'
<1>1. gr \in [Goroutines -> Locals] /\ gr'[g] = r
      /\ \A h \in Goroutines : h # g => gr'[h] = gr[h]
  BY DEF Own, OwnType
<1>2. gr[g].held = {}
  BY <1>1 DEF Own, HeldApart
<1>3. \A e \in Engines : gr[e].pc \in {"idle", "watch"} => gr'[e] = gr[e]
  BY <1>1, LifecycleAssumption DEF Goroutines
<1>4. OwnType'
  BY <1>1 DEF Own, OwnType
<1>5. ClaimLock'
  BY <1>1 DEF Own, ClaimLock, Id
<1>6. ClaimedVacant'
  BY <1>1 DEF Own, ClaimedVacant, Id, Opening, Claiming
<1>7. RegisteredLive'
  BY <1>3 DEF Own, OwnType, RegisteredLive
<1>8. HeldApart'
  BY <1>1, <1>2 DEF Own, HeldApart
<1>9. PublishOwn'
  BY <1>1, <1>3 DEF Own, PublishOwn, Id
<1>10. NoLostEngine'
  BY <1>1, <1>2, <1>3 DEF Own, OwnType, NoLostEngine, Leaked, At
<1> QED
  BY <1>4, <1>5, <1>6, <1>7, <1>8, <1>9, <1>10 DEF Own

\* A step that leaves engines, claims and goroutines alone.
LEMMA SameStep ==
  ASSUME Own, tenants' \in [Ids -> Tenants \cup {None}],
         UNCHANGED <<instances, starting, live, failed, home, gr>>
  PROVE  Own'
<1>1. OwnType'
  BY DEF Own, OwnType
<1>2. ClaimLock' /\ ClaimedVacant' /\ PublishOwn'
  BY DEF Own, ClaimLock, ClaimedVacant, PublishOwn, Id
<1>3. RegisteredLive' /\ HeldApart'
  BY DEF Own, RegisteredLive, HeldApart
<1>4. NoLostEngine'
  BY DEF Own, NoLostEngine, Leaked, At
<1> QED
  BY <1>1, <1>2, <1>3, <1>4 DEF Own

\* A step that takes the engines of the tenants in D out of the map, to stop
\* them; it may be taken by the supervisor of one of them.
LEMMA TakeStep ==
  ASSUME Own, NEW g \in Goroutines, NEW r \in Locals, Bound(r), NEW D \in SUBSET Ids,
         g \in Slots \/ gr[g].pc \notin {"idle", "watch"} \/ g \in r.held,
         gr[g].pc \notin Claiming \cup {"stop"},
         r.pc = "stop", r.held = {instances[id] : id \in D} \ {None},
         gr' = [gr EXCEPT ![g] = r],
         instances' = [id \in Ids |-> IF id \in D THEN None ELSE instances[id]],
         tenants' \in [Ids -> Tenants \cup {None}],
         UNCHANGED <<starting, live, failed, home>>
  PROVE  Own'
<1>1. gr \in [Goroutines -> Locals] /\ gr'[g] = r
      /\ \A h \in Goroutines : h # g => gr'[h] = gr[h]
  BY DEF Own, OwnType
<1>2. gr[g].held = {}
  BY <1>1 DEF Own, HeldApart, Claiming
<1>3. \A id \in Ids : instances[id] \in r.held => id \in D
  BY LifecycleAssumption DEF Own, OwnType, RegisteredLive
<1>4. \A e \in Engines \ r.held : gr[e].pc \in {"idle", "watch"} => gr'[e] = gr[e]
  BY <1>1, LifecycleAssumption DEF Goroutines
<1>5. OwnType'
  BY <1>1 DEF Own, OwnType
<1>6. ClaimLock'
  BY <1>1 DEF Own, ClaimLock, Id, Claiming
<1>7. ClaimedVacant'
  BY <1>1 DEF Own, OwnType, Locals, Bound, ClaimedVacant, Id, Opening, Tenants
<1>8. RegisteredLive'
  BY <1>3, <1>4 DEF Own, OwnType, RegisteredLive
<1>9. HeldApart'
  <2>1. \A e \in r.held : e \in live /\ \A id \in Ids : instances'[id] # e
    BY <1>3, LifecycleAssumption DEF Own, OwnType, RegisteredLive
  <2>2. \A h \in Goroutines : h # g => r.held \cap gr[h].held = {}
    BY DEF Own, HeldApart
  <2>3. \A h \in Goroutines : h # g => \A e \in gr[h].held :
          e \in live /\ \A id \in Ids : instances'[id] # e
    BY LifecycleAssumption DEF Own, OwnType, HeldApart
  <2> QED
    BY <1>1, <2>1, <2>2, <2>3 DEF Own, HeldApart
<1>10. PublishOwn'
  <2> SUFFICES ASSUME NEW h \in Goroutines, gr'[h].pc = "publish"
               PROVE  \E e \in Engines : /\ gr'[h].held = {e} /\ home'[e] = Id(h)'
                                         /\ gr'[e].pc = "idle"
    BY DEF PublishOwn
  <2>1. h # g /\ gr'[h] = gr[h]
    BY <1>1
  <2>2. PICK e \in Engines : gr[h].held = {e} /\ home[e] = Id(h) /\ gr[e].pc = "idle"
    BY <2>1 DEF Own, PublishOwn
  <2>3. e \notin r.held
    BY ZenonT(30), <2>2 DEF Own, HeldApart
  <2> QED
    BY <1>4, <2>1, <2>2, <2>3 DEF Id
<1>11. NoLostEngine'
  <2> SUFFICES ASSUME NEW e \in live
               PROVE  \/ instances'[home[e]] = e
                      \/ \E h \in Goroutines :
                           e \in gr'[h].held /\ gr'[h].pc \in {"publish", "stop"}
                      \/ Leaked(e)'
    BY DEF NoLostEngine, At
  <2>1. CASE e \in r.held
    BY <1>1, <2>1
  <2>2. CASE instances[home[e]] = e /\ e \notin r.held
    <3>1. home[e] \in Ids /\ e # None
      BY LifecycleAssumption DEF Own, OwnType
    <3>2. home[e] \notin D
      BY <2>2, <3>1
    <3> QED
      BY <2>2, <3>1, <3>2
  <2>3. CASE \E h \in Goroutines :
               e \in gr[h].held /\ gr[h].pc \in {"publish", "stop"}
    BY <1>1, <1>2, <2>3
  <2>4. CASE Leaked(e) /\ e \notin r.held
    BY <1>4, <2>4 DEF Own, OwnType, Leaked, At
  <2> QED
    BY <2>1, <2>2, <2>3, <2>4 DEF Own, NoLostEngine
<1> QED
  BY <1>5, <1>6, <1>7, <1>8, <1>9, <1>10, <1>11 DEF Own

-----------------------------------------------------------------------------
(* The steps that move a claim or an engine.                               *)

\* Claim: StartTenant takes the tenant's claim when it is free.
LEMMA ClaimTaken ==
  ASSUME Own, NEW g \in Goroutines, gr[g].pc = "claim",
         Id(g) \notin starting, instances[Id(g)] = None,
         starting' = starting \cup {Id(g)},
         gr' = [gr EXCEPT ![g] = [gr[g] EXCEPT !.pc = "admit"]],
         UNCHANGED <<tenants, instances, live, failed, home>>
  PROVE  Own'
<1> DEFINE r == [gr[g] EXCEPT !.pc = "admit"]
<1>1. gr[g] \in Locals /\ gr[g].tenant \in Tenants /\ Id(g) \in Ids
  BY DEF Own, OwnType, Bound, Id, Tenants
<1>2. gr[g].held = {}
  BY DEF Own, HeldApart
<1>3. r \in Locals /\ r.pc = "admit" /\ r.tenant = gr[g].tenant /\ r.held = {}
  BY <1>1, <1>2 DEF Locals, Steps
<1> HIDE DEF r
<1>4. gr \in [Goroutines -> Locals] /\ gr'[g] = r
      /\ \A h \in Goroutines : h # g => gr'[h] = gr[h]
  BY DEF Own, OwnType, r
<1>5. \A e \in Engines : gr[e].pc \in {"idle", "watch"} => gr'[e] = gr[e]
  BY <1>4, LifecycleAssumption DEF Goroutines
<1>6. OwnType'
  <2>1. Bound(r)
    BY <1>1, <1>3 DEF Bound
  <2> QED
    BY <1>1, <1>3, <1>4, <2>1 DEF Own, OwnType
<1>7. ClaimLock'
  BY <1>3, <1>4 DEF Own, ClaimLock, Id
<1>8. ClaimedVacant'
  BY <1>3, <1>4 DEF Own, ClaimedVacant, Id
<1>9. RegisteredLive'
  BY <1>5 DEF Own, OwnType, RegisteredLive
<1>10. HeldApart'
  BY <1>2, <1>3, <1>4 DEF Own, HeldApart
<1>11. PublishOwn'
  BY <1>3, <1>4, <1>5 DEF Own, PublishOwn, Id
<1>12. NoLostEngine'
  BY <1>2, <1>4, <1>5 DEF Own, OwnType, NoLostEngine, Leaked, At
<1> QED
  BY <1>6, <1>7, <1>8, <1>9, <1>10, <1>11, <1>12 DEF Own

\* Open: the claimant opens an engine that nobody uses.
LEMMA EngineOpened ==
  ASSUME Own, NEW g \in Goroutines, gr[g].pc = "open", NEW e \in Engines, Unused(e),
         live' = live \cup {e}, failed' = failed \ {e},
         home' = [home EXCEPT ![e] = Id(g)],
         gr' = [gr EXCEPT ![g] = [gr[g] EXCEPT !.pc = "publish", !.held = {e}]],
         UNCHANGED <<tenants, instances, starting>>
  PROVE  Own'
<1> DEFINE r == [gr[g] EXCEPT !.pc = "publish", !.held = {e}]
<1>1. gr[g] \in Locals /\ gr[g].tenant \in Tenants /\ Id(g) \in Ids
  BY DEF Own, OwnType, Bound, Id, Tenants
<1>2. gr[g].held = {}
  BY DEF Own, HeldApart
<1>3. r \in Locals /\ r.pc = "publish" /\ r.tenant = gr[g].tenant /\ r.held = {e}
  BY ZenonT(30), <1>1 DEF Locals, Steps
<1> HIDE DEF r
<1>4. gr \in [Goroutines -> Locals] /\ gr'[g] = r
      /\ \A h \in Goroutines : h # g => gr'[h] = gr[h]
  BY DEF Own, OwnType, r
<1>5. \A x \in Engines : gr[x].pc \in {"idle", "watch"} => gr'[x] = gr[x]
  BY <1>4, LifecycleAssumption DEF Goroutines
<1>6. /\ e \notin live /\ gr[e].pc = "idle"
      /\ \A id \in Ids : instances[id] # e
      /\ \A h \in Goroutines : e \notin gr[h].held
  BY DEF Unused, At
<1>7. /\ home \in [Engines -> Ids \cup {None}] /\ home'[e] = Id(g)
      /\ \A x \in Engines : x # e => home'[x] = home[x]
  BY DEF Own, OwnType
<1>8. OwnType'
  <2>1. Bound(r)
    BY <1>1, <1>3 DEF Bound
  <2>2. home' \in [Engines -> Ids \cup {None}] /\ \A x \in live' : home'[x] \in Ids
    BY <1>1, <1>7 DEF Own, OwnType
  <2> QED
    BY <1>3, <1>4, <2>1, <2>2 DEF Own, OwnType
<1>9. ClaimLock'
  BY <1>3, <1>4 DEF Own, ClaimLock, Id, Claiming
<1>10. ClaimedVacant'
  BY <1>3, <1>4 DEF Own, ClaimedVacant, Id, Opening
<1>11. RegisteredLive'
  BY <1>5, <1>6, <1>7 DEF Own, OwnType, RegisteredLive
<1>12. HeldApart'
  BY <1>2, <1>3, <1>4, <1>6 DEF Own, HeldApart
<1>13. PublishOwn'
  <2> SUFFICES ASSUME NEW h \in Goroutines, gr'[h].pc = "publish"
               PROVE  \E x \in Engines : /\ gr'[h].held = {x} /\ home'[x] = Id(h)'
                                         /\ gr'[x].pc = "idle"
    BY DEF PublishOwn
  <2>1. CASE h = g
    BY <1>3, <1>4, <1>5, <1>6, <1>7, <2>1 DEF Id
  <2>2. CASE h # g
    BY <1>4, <1>5, <1>6, <1>7, <2>2 DEF Own, PublishOwn, Id
  <2> QED
    BY <2>1, <2>2
<1>14. NoLostEngine'
  <2> SUFFICES ASSUME NEW x \in live'
               PROVE  \/ instances[home'[x]] = x
                      \/ \E h \in Goroutines :
                           x \in gr'[h].held /\ gr'[h].pc \in {"publish", "stop"}
                      \/ Leaked(x)'
    BY DEF NoLostEngine, At
  <2>1. CASE x = e
    BY <1>3, <1>4, <2>1
  <2>2. CASE x # e
    BY <1>2, <1>4, <1>5, <1>7, <2>2 DEF Own, OwnType, NoLostEngine, Leaked, At
  <2> QED
    BY <2>1, <2>2
<1> QED
  BY <1>8, <1>9, <1>10, <1>11, <1>12, <1>13, <1>14 DEF Own

\* Publish: the engine is registered and its supervisor starts.
LEMMA EnginePublished ==
  ASSUME Own, NEW g \in Goroutines, gr[g].pc = "publish", NEW e \in gr[g].held,
         instances' = [instances EXCEPT ![Id(g)] = e],
         gr' = [gr EXCEPT ![g].pc = "release-ok", ![g].held = {}, ![e] = Watch],
         UNCHANGED <<tenants, starting, live, failed, home>>
  PROVE  Own'
<1>1. gr[g] \in Locals /\ gr[g].tenant \in Tenants /\ Id(g) \in Ids
  BY DEF Own, OwnType, Bound, Id, Tenants
<1>2. /\ e \in Engines /\ gr[g].held = {e} /\ home[e] = Id(g) /\ gr[e].pc = "idle"
      /\ e \in live /\ \A id \in Ids : instances[id] # e
  BY DEF Own, PublishOwn, HeldApart
<1>3. e # g /\ e \in Goroutines
  BY <1>2 DEF Goroutines
<1>4. PICK r \in Locals : /\ gr'[g] = r /\ r.pc = "release-ok" /\ r.held = {}
                          /\ r.tenant = gr[g].tenant
  <2> DEFINE r == [gr[g] EXCEPT !.pc = "release-ok", !.held = {}]
  <2>1. r \in Locals /\ r.pc = "release-ok" /\ r.held = {} /\ r.tenant = gr[g].tenant
    BY ZenonT(30), <1>1 DEF Locals, Steps
  <2>2. gr'[g] = r
    BY <1>3 DEF Own, OwnType
  <2> QED
    BY ZenonT(30), <2>1, <2>2
<1>5. gr'[e] = Watch /\ Watch \in Locals /\ Watch.pc = "watch" /\ Watch.held = {}
  BY <1>3 DEF Own, OwnType, Watch, Idle, Locals, Steps, Continuations
<1>6. /\ \A h \in Goroutines : h # g /\ h # e => gr'[h] = gr[h]
      /\ gr' \in [Goroutines -> Locals]
  BY <1>1, <1>3, <1>4, <1>5 DEF Own, OwnType
<1>7. /\ instances \in [Ids -> Engines \cup {None}] /\ instances'[Id(g)] = e
      /\ \A id \in Ids : id # Id(g) => instances'[id] = instances[id]
      /\ instances[Id(g)] = None
  BY <1>1 DEF Own, OwnType, ClaimedVacant, Opening
<1>8. OwnType'
  <2>1. instances' \in [Ids -> Engines \cup {None}]
    BY <1>2 DEF Own, OwnType
  <2>2. \A h \in Goroutines : Bound(gr'[h])
    BY <1>1, <1>4, <1>5, <1>6 DEF Own, OwnType, Bound
  <2> QED
    BY <1>6, <2>1, <2>2 DEF Own, OwnType
<1>9. ClaimLock'
  BY <1>4, <1>5, <1>6 DEF Own, ClaimLock, Id, Claiming
<1>10. ClaimedVacant'
  <2> SUFFICES ASSUME NEW h \in Goroutines, gr'[h].pc \in Opening
               PROVE  instances'[Id(h)'] = None
    BY DEF ClaimedVacant
  <2>1. h # g /\ h # e /\ gr'[h] = gr[h]
    BY <1>4, <1>5, <1>6 DEF Opening
  <2>2. Id(h) # Id(g)
    BY <2>1 DEF Own, ClaimLock, Opening, Claiming
  <2>3. Id(h) \in Ids /\ instances[Id(h)] = None
    BY <2>1 DEF Own, OwnType, Bound, Id, Tenants, Opening, ClaimedVacant
  <2> QED
    BY <1>7, <2>1, <2>2, <2>3 DEF Id
<1>11. RegisteredLive'
  <2> SUFFICES ASSUME NEW id \in Ids, instances'[id] # None
               PROVE  /\ instances'[id] \in live /\ home[instances'[id]] = id
                      /\ gr'[instances'[id]].pc = "watch"
    BY ZenonT(30) DEF RegisteredLive
  <2>1. CASE id = Id(g)
    BY <1>2, <1>5, <1>7, <2>1
  <2>2. CASE id # Id(g)
    <3>1. instances'[id] = instances[id] /\ instances[id] \in Goroutines
      BY <1>7, <2>2 DEF Goroutines
    <3>2. gr[instances[id]].pc = "watch"
      BY <3>1 DEF Own, RegisteredLive
    <3>3. gr'[instances[id]] = gr[instances[id]]
      BY <1>2, <1>6, <3>1, <3>2
    <3> QED
      BY <3>1, <3>2, <3>3 DEF Own, RegisteredLive
  <2> QED
    BY <2>1, <2>2
<1>12. HeldApart'
  <2>1. \A h \in Goroutines : gr'[h].held # {} => gr'[h] = gr[h] /\ h # g
    BY <1>4, <1>5, <1>6
  <2>2. \A h \in Goroutines : h # g => e \notin gr[h].held
    BY DEF Own, HeldApart
  <2>3. \A h \in Goroutines : gr'[h].held # {} => gr'[h].pc \in {"publish", "stop"}
    BY ZenonT(30), <2>1 DEF Own, HeldApart
  <2>4. \A h \in Goroutines : \A x \in gr'[h].held :
          x \in live /\ \A id \in Ids : instances'[id] # x
    <3> SUFFICES ASSUME NEW h \in Goroutines, NEW x \in gr'[h].held
                 PROVE  x \in live /\ \A id \in Ids : instances'[id] # x
      OBVIOUS
    <3>1. x \in gr[h].held /\ x # e
      BY ZenonT(30), <2>1, <2>2
    <3> QED
      BY <1>7, <3>1 DEF Own, HeldApart
  <2>5. \A h, k \in Goroutines : h # k => gr'[h].held \cap gr'[k].held = {}
    BY ZenonT(30), <2>1 DEF Own, HeldApart
  <2> QED
    BY ZenonT(30), <2>3, <2>4, <2>5 DEF HeldApart
<1>13. PublishOwn'
  <2> SUFFICES ASSUME NEW h \in Goroutines, gr'[h].pc = "publish"
               PROVE  \E x \in Engines : /\ gr'[h].held = {x} /\ home[x] = Id(h)'
                                         /\ gr'[x].pc = "idle"
    BY ZenonT(30) DEF PublishOwn
  <2>1. h # g /\ h # e /\ gr'[h] = gr[h]
    BY <1>4, <1>5, <1>6
  <2>2. PICK x \in Engines : gr[h].held = {x} /\ home[x] = Id(h) /\ gr[x].pc = "idle"
    BY <2>1 DEF Own, PublishOwn
  <2>3. x # e /\ x # g /\ x \in Goroutines
    BY <1>2, <2>1, <2>2 DEF Own, HeldApart, Goroutines
  <2> QED
    BY <1>6, <2>1, <2>2, <2>3 DEF Id
<1>14. NoLostEngine'
  <2> SUFFICES ASSUME NEW x \in live
               PROVE  \/ instances'[home[x]] = x
                      \/ \E h \in Goroutines :
                           x \in gr'[h].held /\ gr'[h].pc \in {"publish", "stop"}
                      \/ Leaked(x)'
    BY ZenonT(30) DEF NoLostEngine, At
  <2>1. CASE x = e
    BY <1>2, <1>7, <2>1
  <2>2. CASE x # e /\ instances[home[x]] = x
    <3>1. home[x] \in Ids /\ home[x] # Id(g)
      BY <1>7, <2>2, LifecycleAssumption DEF Own, OwnType
    <3> QED
      BY <1>7, <2>2, <3>1
  <2>3. CASE x # e /\ \E h \in Goroutines :
                        x \in gr[h].held /\ gr[h].pc \in {"publish", "stop"}
    BY <1>2, <1>6, <2>3
  <2>4. CASE x # e /\ Leaked(x)
    BY <1>6, <2>4 DEF Own, OwnType, Leaked, At, Goroutines
  <2> QED
    BY ZenonT(30), <2>1, <2>2, <2>3, <2>4 DEF Own, NoLostEngine
<1> QED
  BY <1>8, <1>9, <1>10, <1>11, <1>12, <1>13, <1>14 DEF Own

\* Stop: the engines are closed, and the supervisors of those that had not
\* failed return.
LEMMA EnginesStopped == ASSUME Own, NEW g \in Goroutines, Stop(g) PROVE Own'
<1> DEFINE Returning(x) == x \in gr[g].held \ failed /\ gr[x].pc = "watch"
<1>1. /\ gr[g].pc = "stop" /\ live' = live \ gr[g].held
      /\ UNCHANGED <<tenants, instances, starting, failed, home>>
  BY DEF Stop, At, manager
<1>2. /\ gr'[g] = Continue(gr[g])
      /\ \A x \in Goroutines \ {g} : gr'[x] = IF Returning(x) THEN Idle ELSE gr[x]
  BY DEF Stop, At
<1>3. Continue(gr[g]) \in Locals /\ Bound(Continue(gr[g]))
      /\ Continue(gr[g]).held = {} /\ Continue(gr[g]).pc \in Continuations
  <2>1. gr[g] \in Locals /\ Bound(gr[g])
    BY ZenonT(30) DEF Own, OwnType
  <2>2. CASE gr[g].then \in {"idle", "boot"}
    BY ZenonT(30), <2>1, <2>2 DEF Continue, Idle, Locals, Bound, Steps, Continuations
  <2>3. CASE gr[g].then \notin {"idle", "boot"}
    BY ZenonT(30), <1>1, <2>1, <2>3 DEF Continue, Step, Locals, Bound, Steps, Continuations
  <2> QED
    BY <2>2, <2>3
<1>4. Idle \in Locals /\ Bound(Idle) /\ Idle.held = {} /\ Idle.pc = "idle"
  BY DEF Idle, Locals, Bound, Steps, Continuations
<1> HIDE DEF Returning
<1>5. gr' \in [Goroutines -> Locals]
  <2>1. \A x \in Goroutines : gr'[x] \in Locals
    BY <1>2, <1>3, <1>4 DEF Own, OwnType
  <2>2. gr' = [x \in Goroutines |-> gr'[x]]
    BY DEF Stop
  <2> QED
    BY <2>1, <2>2
<1>6. \A h \in Goroutines : gr'[h].held # {} => h # g /\ gr'[h] = gr[h]
  BY <1>2, <1>3, <1>4
<1>7. \A h \in Goroutines : gr'[h].pc \in Claiming \cup {"stop", "watch"} =>
                              h # g /\ gr'[h] = gr[h]
  BY <1>2, <1>3, <1>4 DEF Claiming, Continuations
<1>8. \A e \in Engines : e # g /\ gr[e].pc = "idle" => gr'[e] = gr[e]
  BY <1>2 DEF Returning, Goroutines
<1>9. OwnType'
  BY <1>1, <1>2, <1>3, <1>4, <1>5 DEF Own, OwnType
<1>10. ClaimLock'
  BY <1>1, <1>7 DEF Own, ClaimLock, Id
<1>11. ClaimedVacant'
  BY <1>1, <1>7 DEF Own, ClaimedVacant, Id, Opening, Claiming
<1>12. RegisteredLive'
  <2> SUFFICES ASSUME NEW id \in Ids, instances[id] # None
               PROVE  /\ instances[id] \in live' /\ home[instances[id]] = id
                      /\ gr'[instances[id]].pc = "watch"
    BY <1>1 DEF RegisteredLive
  <2>1. /\ instances[id] \in live /\ home[instances[id]] = id
        /\ gr[instances[id]].pc = "watch" /\ instances[id] \notin gr[g].held
    BY DEF Own, RegisteredLive, HeldApart
  <2>2. instances[id] \in Goroutines \ {g}
    BY <1>1, <2>1 DEF Own, OwnType, Goroutines
  <2>3. ~Returning(instances[id])
    BY <2>1 DEF Returning
  <2> QED
    BY <1>1, <1>2, <2>1, <2>2, <2>3
<1>13. HeldApart'
  <2>1. \A h \in Goroutines : gr'[h].held # {} => gr'[h].pc \in {"publish", "stop"}
    BY ZenonT(30), <1>6 DEF Own, HeldApart
  <2>2. \A h \in Goroutines : \A e \in gr'[h].held :
          e \in live' /\ \A id \in Ids : instances'[id] # e
    <3> SUFFICES ASSUME NEW h \in Goroutines, NEW e \in gr'[h].held
                 PROVE  e \in live' /\ \A id \in Ids : instances'[id] # e
      OBVIOUS
    <3>1. h # g /\ e \in gr[h].held
      BY <1>6
    <3>2. e \notin gr[g].held
      BY <3>1 DEF Own, HeldApart
    <3> QED
      BY <1>1, <3>1, <3>2 DEF Own, HeldApart
  <2>3. \A h, k \in Goroutines : h # k => gr'[h].held \cap gr'[k].held = {}
    BY <1>6 DEF Own, HeldApart
  <2> QED
    BY <2>1, <2>2, <2>3 DEF HeldApart
<1>14. PublishOwn'
  <2> SUFFICES ASSUME NEW h \in Goroutines, gr'[h].pc = "publish"
               PROVE  \E e \in Engines : /\ gr'[h].held = {e} /\ home[e] = Id(h)'
                                         /\ gr'[e].pc = "idle"
    BY <1>1 DEF PublishOwn
  <2>1. h # g /\ gr'[h] = gr[h]
    BY <1>7 DEF Claiming
  <2>2. PICK e \in Engines : gr[h].held = {e} /\ home[e] = Id(h) /\ gr[e].pc = "idle"
    BY <2>1 DEF Own, PublishOwn
  <2>3. gr'[e] = gr[e]
    BY <1>1, <1>8, <2>2
  <2> QED
    BY <2>1, <2>2, <2>3 DEF Id
<1>15. NoLostEngine'
  <2> SUFFICES ASSUME NEW e \in live'
               PROVE  \/ instances[home[e]] = e
                      \/ \E h \in Goroutines :
                           e \in gr'[h].held /\ gr'[h].pc \in {"publish", "stop"}
                      \/ e \in failed /\ gr'[e].pc = "idle"
    BY <1>1 DEF NoLostEngine, Leaked, At
  <2>1. e \in live /\ e \in Engines /\ e \notin gr[g].held
    BY <1>1 DEF Own, OwnType
  <2>2. CASE \E h \in Goroutines :
               e \in gr[h].held /\ gr[h].pc \in {"publish", "stop"}
    <3>1. PICK h \in Goroutines : e \in gr[h].held /\ gr[h].pc \in {"publish", "stop"}
      BY <2>2
    <3>2. h # g /\ ~Returning(h)
      BY <2>1, <3>1 DEF Returning
    <3> QED
      BY <1>2, <3>1, <3>2
  <2>3. CASE Leaked(e)
    BY <1>1, <1>8, <2>1, <2>3 DEF Leaked, At
  <2> QED
    BY <2>1, <2>2, <2>3 DEF Own, NoLostEngine
<1> QED
  BY <1>9, <1>10, <1>11, <1>12, <1>13, <1>14, <1>15 DEF Own

\* An engine reports an error.
LEMMA EngineFailed ==
  ASSUME Own, NEW e \in Engines, EngineFails(e) PROVE Own'
<1>1. /\ failed' = failed \cup {e}
      /\ UNCHANGED <<tenants, instances, starting, live, home, gr>>
  BY DEF EngineFails, manager
<1>2. OwnType'
  BY <1>1 DEF Own, OwnType
<1>3. ClaimLock' /\ ClaimedVacant' /\ PublishOwn'
  BY <1>1 DEF Own, ClaimLock, ClaimedVacant, PublishOwn, Id
<1>4. RegisteredLive' /\ HeldApart'
  BY <1>1 DEF Own, RegisteredLive, HeldApart
<1>5. NoLostEngine'
  BY <1>1 DEF Own, NoLostEngine, Leaked, At
<1> QED
  BY <1>2, <1>3, <1>4, <1>5 DEF Own

\* A supervisor returns: its engine failed, and is in the map no longer.
LEMMA SupervisorReturned ==
  ASSUME Own, NEW e \in Engines, gr[e].pc = "watch", e \in failed,
         instances' \in [Ids -> Engines \cup {None}],
         \A id \in Ids : instances[id] # e => instances'[id] = instances[id],
         \A id \in Ids : instances'[id] # e /\ (instances[id] = e => instances'[id] = None),
         gr' = [gr EXCEPT ![e] = Idle],
         UNCHANGED <<tenants, starting, live, failed, home>>
  PROVE  Own'
<1>1. Idle \in Locals /\ Bound(Idle) /\ Idle.held = {} /\ Idle.pc = "idle"
  BY DEF Idle, Locals, Bound, Steps, Continuations
<1>2. /\ e \in Goroutines /\ gr'[e] = Idle /\ gr \in [Goroutines -> Locals]
      /\ \A h \in Goroutines : h # e => gr'[h] = gr[h]
  BY DEF Own, OwnType, Goroutines
<1>3. gr[e].held = {}
  BY <1>2 DEF Own, HeldApart
<1>4. OwnType'
  BY <1>1, <1>2 DEF Own, OwnType
<1>5. ClaimLock'
  BY ZenonT(30), <1>1, <1>2 DEF Own, ClaimLock, Id, Claiming
<1>6. ClaimedVacant'
  <2> SUFFICES ASSUME NEW h \in Goroutines, gr'[h].pc \in Opening
               PROVE  instances'[Id(h)'] = None
    BY DEF ClaimedVacant
  <2>1. gr'[h] = gr[h]
    BY <1>1, <1>2 DEF Opening
  <2>2. Id(h) \in Ids /\ instances[Id(h)] = None
    BY <2>1 DEF Own, OwnType, Bound, Id, Tenants, Opening, ClaimedVacant
  <2> QED
    BY <2>1, <2>2, LifecycleAssumption DEF Id
<1>7. RegisteredLive'
  BY <1>2 DEF Own, OwnType, RegisteredLive, Goroutines
<1>8. HeldApart'
  <2>1. \A h \in Goroutines : gr'[h].held = gr[h].held
                              /\ (gr[h].held # {} => gr'[h] = gr[h])
    BY ZenonT(30), <1>1, <1>2, <1>3
  <2>2. \A x \in live, id \in Ids : instances[id] # x => instances'[id] # x
    BY ZenonT(30), LifecycleAssumption DEF Own, OwnType
  <2> QED
    BY <2>1, <2>2 DEF Own, HeldApart
<1>9. PublishOwn'
  BY <1>1, <1>2 DEF Own, PublishOwn, Id, Goroutines
<1>10. NoLostEngine'
  <2> SUFFICES ASSUME NEW x \in live
               PROVE  \/ instances'[home[x]] = x
                      \/ \E h \in Goroutines :
                           x \in gr'[h].held /\ gr'[h].pc \in {"publish", "stop"}
                      \/ x \in failed /\ gr'[x].pc = "idle"
    BY DEF NoLostEngine, Leaked, At
  <2>1. CASE x = e
    BY <1>1, <1>2, <2>1
  <2>2. CASE x # e
    <3>1. gr'[x] = gr[x] /\ home[x] \in Ids
      BY <1>2, <2>2 DEF Own, OwnType, Goroutines
    <3> QED
      BY <1>2, <1>3, <2>2, <3>1 DEF Own, NoLostEngine, Leaked, At
  <2> QED
    BY <2>1, <2>2
<1> QED
  BY ZenonT(30), <1>4, <1>5, <1>6, <1>7, <1>8, <1>9, <1>10 DEF Own

-----------------------------------------------------------------------------
(* The actions.                                                            *)

\* The records a goroutine's locals become.
LEMMA StepFacts ==
  ASSUME NEW pc \in Steps, NEW t \in Tenants, NEW held \in SUBSET Engines,
         NEW then \in Continuations
  PROVE  /\ Step(pc, t, held, then) \in Locals /\ Bound(Step(pc, t, held, then))
         /\ Step(pc, t, held, then).pc = pc /\ Step(pc, t, held, then).held = held
BY DEF Step, Locals, Bound

LEMMA IdleFacts == Idle \in Locals /\ Bound(Idle) /\ Idle.pc = "idle" /\ Idle.held = {}
BY DEF Idle, Locals, Bound, Steps, Continuations

\* A goroutine at a step of its own has a record of the right type.
LEMMA LocalFacts ==
  ASSUME Own, NEW g \in Goroutines
  PROVE  /\ gr[g] \in Locals /\ Bound(gr[g])
         /\ gr[g].pc \notin {"idle", "watch", "exit", "stop"} =>
              gr[g].tenant \in Tenants /\ Id(g) \in Ids
         /\ gr[g].pc \notin {"publish", "stop"} => gr[g].held = {}
<1>1. gr[g] \in Locals /\ Bound(gr[g])
  BY DEF Own, OwnType
<1>2. gr[g].pc \notin {"publish", "stop"} => gr[g].held = {}
  BY DEF Own, HeldApart
<1> QED
  BY <1>1, <1>2 DEF Bound, Id, Tenants

\* A goroutine changes its program counter only.
LEMMA AdvanceFacts ==
  ASSUME NEW r \in Locals, r.tenant \in Tenants, NEW pc \in Steps
  PROVE  /\ [r EXCEPT !.pc = pc] \in Locals /\ Bound([r EXCEPT !.pc = pc])
         /\ [r EXCEPT !.pc = pc].pc = pc
         /\ [r EXCEPT !.pc = pc].held = r.held
         /\ [r EXCEPT !.pc = pc].tenant = r.tenant
BY DEF Locals, Bound

\* What comes after a step with a continuation, and after a failed start.
LEMMA ContinueFacts ==
  ASSUME Own, NEW g \in Goroutines, gr[g].tenant \in Tenants
  PROVE  /\ Continue(gr[g]) \in Locals /\ Bound(Continue(gr[g]))
         /\ Continue(gr[g]).pc \in Continuations /\ Continue(gr[g]).held = {}
         /\ Failed(g) \in Locals /\ Bound(Failed(g))
         /\ Failed(g).pc \in {"undo", "idle"} /\ Failed(g).held = {}
<1>1. gr[g] \in Locals
  BY LocalFacts
<1>2. /\ Continue(gr[g]) \in Locals /\ Bound(Continue(gr[g]))
      /\ Continue(gr[g]).pc \in Continuations /\ Continue(gr[g]).held = {}
  <2>1. CASE gr[g].then \in {"idle", "boot"}
    BY ZenonT(30), <2>1, IdleFacts DEF Continue, Continuations
  <2>2. CASE gr[g].then \notin {"idle", "boot"}
    <3>1. gr[g].then \in Continuations /\ gr[g].then \in Steps
      BY <1>1 DEF Locals, Continuations, Steps
    <3>2. "idle" \in Continuations
      BY ZenonT(30) DEF Continuations
    <3> QED
      BY <2>2, <3>1, <3>2, StepFacts DEF Continue
  <2> QED
    BY <2>1, <2>2
<1>3. /\ Failed(g) \in Locals /\ Bound(Failed(g))
      /\ Failed(g).pc \in {"undo", "idle"} /\ Failed(g).held = {}
  <2>1. "undo" \in Steps /\ "idle" \in Continuations
    BY DEF Steps, Continuations
  <2> QED
    BY <2>1, IdleFacts, StepFacts DEF Failed
<1> QED
  BY <1>2, <1>3

\* Neutral steps: the new locals are a plain record at a step outside
\* StartTenant's claim.
LEMMA PlainStep ==
  ASSUME Own, NEW g \in Goroutines, NEW r \in Locals, Bound(r), r.held = {},
         g \in Slots \/ gr[g].pc \notin {"idle", "watch"},
         gr[g].pc \notin {"publish", "stop"},
         r.pc \in {"idle", "insert", "remove", "purge", "extract", "swap", "place",
                   "commit", "undo", "start", "claim", "boot", "exit"},
         Go(g, r), tenants' \in [Ids -> Tenants \cup {None}],
         UNCHANGED <<instances, starting, live, failed, home>>
  PROVE  Own'
<1>1. r.pc \notin {"publish", "stop", "watch"} \cup Claiming \cup Opening
  BY ZenonT(30) DEF Claiming, Opening
<1>2. gr' = [gr EXCEPT ![g] = r] /\ starting' = starting
  BY DEF Go
<1> QED
  BY ZenonT(30), <1>1, <1>2, NeutralStep

\* A start goes on, or gives up, before it has an engine.
LEMMA ClaimantStep ==
  ASSUME Own, NEW g \in Goroutines, gr[g].pc \in {"admit", "open"},
         NEW pc \in {"open", "release-error"}, Go(g, [gr[g] EXCEPT !.pc = pc]),
         UNCHANGED <<tenants, instances, starting, live, failed, home>>
  PROVE  Own'
<1> DEFINE r == [gr[g] EXCEPT !.pc = pc]
<1>1. gr[g] \in Locals /\ gr[g].tenant \in Tenants /\ gr[g].held = {}
  BY LocalFacts
<1>2. pc \in Steps
  BY DEF Steps
<1>3. /\ r \in Locals /\ Bound(r) /\ r.pc = pc /\ r.held = {}
      /\ r.tenant = gr[g].tenant
  BY <1>1, <1>2, AdvanceFacts
<1>4. gr' = [gr EXCEPT ![g] = r]
  BY DEF Go
<1> HIDE DEF r
<1>5. /\ gr[g].pc \in Claiming /\ gr[g].pc \in Opening
      /\ gr[g].pc \notin {"idle", "watch", "publish", "stop"}
      /\ r.pc \notin {"publish", "stop", "watch"}
  BY <1>3 DEF Claiming, Opening
<1>6. tenants' \in [Ids -> Tenants \cup {None}]
  BY DEF Own, OwnType
<1> QED
  BY ZenonT(30), <1>3, <1>4, <1>5, <1>6, NeutralStep

\* The steps of StartTenant.
LEMMA StartSteps ==
  ASSUME Own, NEW g \in Goroutines,
         StartTenant(g) \/ Claim(g) \/ Admit(g) \/ Open(g) \/ Publish(g) \/ Release(g)
  PROVE  Own'
<1>1. tenants \in [Ids -> Tenants \cup {None}]
  BY ZenonT(30) DEF Own, OwnType
<1>2. gr[g] \in Locals
  BY LocalFacts
<1>3. CASE StartTenant(g)
  <2>1. gr[g].pc = "start" /\ tenants' = tenants
        /\ UNCHANGED <<instances, starting, live, failed, home>>
    BY <1>3 DEF StartTenant, At, manager, engines
  <2>2. gr[g].tenant \in Tenants /\ gr[g].held = {}
    BY <2>1, LocalFacts
  <2>3. CASE Go(g, Failed(g))
    BY ZenonT(30), <1>1, <2>1, <2>2, <2>3, ContinueFacts, PlainStep
  <2>4. CASE Go(g, [gr[g] EXCEPT !.pc = "claim"])
    <3>1. "claim" \in Steps
      BY DEF Steps
    <3> QED
      BY ZenonT(30), <1>1, <1>2, <2>1, <2>2, <2>4, <3>1, AdvanceFacts, PlainStep
  <2> QED
    BY <1>3, <2>3, <2>4 DEF StartTenant
<1>4. CASE Claim(g)
  <2>1. gr[g].pc = "claim" /\ tenants' = tenants
        /\ UNCHANGED <<instances, live, failed, home>>
    BY ZenonT(30), <1>4 DEF Claim, At, engines
  <2>2. gr[g].tenant \in Tenants /\ gr[g].held = {}
    BY ZenonT(30), <2>1, LocalFacts
  <2>3. CASE Go(g, Continue(gr[g])) /\ UNCHANGED starting
    <3>1. Continue(gr[g]).pc \in {"idle", "boot", "purge", "extract", "start", "commit",
                                  "exit"}
      BY ZenonT(30), <2>2, ContinueFacts DEF Continuations
    <3> QED
      BY ZenonT(30), <1>1, <2>1, <2>2, <2>3, <3>1, ContinueFacts, PlainStep
  <2>4. CASE /\ Id(g) \notin starting /\ instances[Id(g)] = None
             /\ starting' = starting \cup {Id(g)}
             /\ Go(g, [gr[g] EXCEPT !.pc = "admit"])
    BY ZenonT(30), <2>1, <2>4, ClaimTaken DEF Go
  <2> QED
    BY <1>4, <2>3, <2>4 DEF Claim
<1>5. CASE Admit(g)
  <2>1. gr[g].pc = "admit" /\ tenants' = tenants
        /\ UNCHANGED <<instances, starting, live, failed, home>>
    BY <1>5 DEF Admit, At, engines
  <2>2. PICK pc \in {"open", "release-error"} : Go(g, [gr[g] EXCEPT !.pc = pc])
    BY <1>5 DEF Admit
  <2> QED
    BY ZenonT(30), <2>1, <2>2, ClaimantStep
<1>6. CASE Open(g)
  <2>1. gr[g].pc = "open" /\ tenants' = tenants /\ UNCHANGED <<instances, starting>>
    BY ZenonT(30), <1>6 DEF Open, At, manager
  <2>2. CASE \E e \in Engines :
               /\ Unused(e)
               /\ live' = live \cup {e} /\ failed' = failed \ {e}
               /\ home' = [home EXCEPT ![e] = Id(g)]
               /\ Go(g, [gr[g] EXCEPT !.pc = "publish", !.held = {e}])
    BY ZenonT(30), <2>1, <2>2, EngineOpened DEF Go
  <2>3. CASE Go(g, [gr[g] EXCEPT !.pc = "release-error"]) /\ UNCHANGED engines
    <3>1. UNCHANGED <<live, failed, home>>
      BY <2>3 DEF engines
    <3> QED
      BY ZenonT(30), <2>1, <2>3, <3>1, ClaimantStep
  <2> QED
    BY ZenonT(30), <1>6, <2>2, <2>3 DEF Open
<1>7. CASE Publish(g)
  BY ZenonT(30), <1>7, EnginePublished DEF Publish, At, engines
<1>8. CASE Release(g)
  <2>1. /\ gr[g].pc \in {"release-ok", "release-error"} /\ tenants' = tenants
        /\ starting' = starting \ {Id(g)}
        /\ UNCHANGED <<instances, live, failed, home>>
    BY ZenonT(30), <1>8 DEF Release, engines
  <2>2. gr[g].tenant \in Tenants /\ gr[g].held = {}
    BY <2>1, LocalFacts
  <2>3. PICK r \in {Continue(gr[g]), Failed(g)} : Go(g, r)
    BY ZenonT(30), <1>8 DEF Release
  <2>4. r \in Locals /\ Bound(r) /\ r.held = {}
        /\ r.pc \notin {"publish", "stop", "watch"} \cup Claiming \cup Opening
    BY ZenonT(30), <2>2, ContinueFacts DEF Claiming, Opening, Continuations
  <2> QED
    BY ZenonT(30), <1>1, <2>1, <2>3, <2>4, NeutralStep DEF Go, Claiming
<1> QED
  BY <1>3, <1>4, <1>5, <1>6, <1>7, <1>8

\* A goroutine goes on with a plain step on a tenant.
LEMMA PlainTo ==
  ASSUME Own, NEW g \in Goroutines, NEW t \in Tenants, NEW then \in Continuations,
         NEW pc \in {"insert", "remove", "purge", "extract", "swap", "place", "commit",
                     "undo", "start", "claim"},
         g \in Slots \/ gr[g].pc \notin {"idle", "watch"},
         gr[g].pc \notin {"publish", "stop"},
         Go(g, Step(pc, t, {}, then)), tenants' \in [Ids -> Tenants \cup {None}],
         UNCHANGED <<instances, starting, live, failed, home>>
  PROVE  Own'
<1> DEFINE r == Step(pc, t, {}, then)
<1>1. r \in Locals /\ Bound(r) /\ r.pc = pc /\ r.held = {}
  BY StepFacts DEF Steps
<1>2. r.pc \in {"idle", "insert", "remove", "purge", "extract", "swap", "place",
                "commit", "undo", "start", "claim", "boot", "exit"}
  BY <1>1
<1> HIDE DEF r
<1>3. Go(g, r)
  BY ZenonT(30) DEF r
<1> QED
  BY ZenonT(30), <1>1, <1>2, <1>3, PlainStep

\* ... or is done.
LEMMA PlainDone ==
  ASSUME Own, NEW g \in Goroutines,
         g \in Slots \/ gr[g].pc \notin {"idle", "watch"},
         gr[g].pc \notin {"publish", "stop"},
         Go(g, Idle), tenants' \in [Ids -> Tenants \cup {None}],
         UNCHANGED <<instances, starting, live, failed, home>>
  PROVE  Own'
BY IdleFacts, PlainStep

\* ... or advances with the locals it has.
LEMMA PlainAdvance ==
  ASSUME Own, NEW g \in Goroutines, NEW pc \in {"swap", "place"},
         gr[g].pc \in {"extract", "swap"},
         Go(g, [gr[g] EXCEPT !.pc = pc]), tenants' \in [Ids -> Tenants \cup {None}],
         UNCHANGED <<instances, starting, live, failed, home>>
  PROVE  Own'
<1> DEFINE r == [gr[g] EXCEPT !.pc = pc]
<1>1. gr[g] \in Locals /\ gr[g].tenant \in Tenants /\ gr[g].held = {}
  BY LocalFacts
<1>2. pc \in Steps
  BY DEF Steps
<1>3. r \in Locals /\ Bound(r) /\ r.pc = pc /\ r.held = {}
  BY <1>1, <1>2, AdvanceFacts
<1>4. r.pc \in {"idle", "insert", "remove", "purge", "extract", "swap", "place",
                "commit", "undo", "start", "claim", "boot", "exit"}
  BY <1>3
<1> HIDE DEF r
<1>5. Go(g, r)
  BY DEF r
<1> QED
  BY <1>3, <1>4, <1>5, PlainStep

\* A goroutine takes the engine of one tenant out of the map, to stop it.
LEMMA TakeOne ==
  ASSUME Own, NEW g \in Goroutines, NEW id \in Ids, NEW t \in Tenants,
         NEW then \in Continuations,
         g \in Slots \/ gr[g].pc \notin {"idle", "watch"} \/ g \in Registered(id),
         gr[g].pc \notin Claiming \cup {"stop"},
         instances' = [instances EXCEPT ![id] = None],
         Go(g, Step("stop", t, Registered(id), then)),
         tenants' \in [Ids -> Tenants \cup {None}],
         UNCHANGED <<starting, live, failed, home>>
  PROVE  Own'
<1> DEFINE r == Step("stop", t, Registered(id), then)
<1>1. Registered(id) \in SUBSET Engines
  BY ZenonT(30) DEF Own, OwnType, Registered
<1>2. r \in Locals /\ Bound(r) /\ r.pc = "stop" /\ r.held = Registered(id)
  BY <1>1, StepFacts DEF Steps
<1>3. r.held = {instances[i] : i \in {id}} \ {None}
  BY ZenonT(30), <1>2 DEF Registered
<1>4. instances' = [i \in Ids |-> IF i \in {id} THEN None ELSE instances[i]]
  BY ZenonT(30) DEF Own, OwnType
<1> HIDE DEF r
<1>5. gr' = [gr EXCEPT ![g] = r]
  BY DEF Go, r
<1>6. {id} \in SUBSET Ids
  OBVIOUS
<1> QED
  BY ZenonT(30), <1>2, <1>3, <1>4, <1>5, <1>6, TakeStep

\* Every request keeps the invariant.
LEMMA RequestSteps ==
  ASSUME Own, NEW g \in Slots, NEW id \in Ids, Request(g, id)
  PROVE  Own'
<1>1. g \in Goroutines /\ tenants \in [Ids -> Tenants \cup {None}]
  BY DEF Own, OwnType, Goroutines
<1>2. gr[g].pc = "idle"
  BY ZenonT(30) DEF Request, ProvisionWith, DeleteTenant, HibernateTenant, WakeTenant, RestoreTenant,
         Begin, At
<1>3. gr[g].pc \notin Claiming \cup {"stop", "publish"}
  BY <1>2 DEF Claiming
<1>4. {"idle", "purge", "extract"} \subseteq Continuations
  BY DEF Continuations
<1>5. CASE ProvisionWith(g, id)
  <2>1. PICK n \in 1 .. Records : Go(g, Step("insert", <<id, n>>, {}, "idle"))
    BY ZenonT(30), <1>5 DEF ProvisionWith
  <2>2. <<id, n>> \in Tenants
    BY DEF Tenants
  <2>3. UNCHANGED <<tenants, instances, starting, live, failed, home>>
    BY ZenonT(30), <1>5 DEF ProvisionWith, engines
  <2> QED
    BY ZenonT(30), <1>1, <1>3, <1>4, <2>1, <2>2, <2>3, PlainTo
<1>6. CASE \E purge \in BOOLEAN : DeleteTenant(g, id, purge)
  <2>1. PICK then \in {"purge", "idle"} : Go(g, Step("remove", tenants[id], {}, then))
    BY <1>6 DEF DeleteTenant
  <2>2. tenants[id] \in Tenants
    BY <1>1, <1>6 DEF DeleteTenant
  <2>3. UNCHANGED <<tenants, instances, starting, live, failed, home>>
    BY <1>6 DEF DeleteTenant, manager, engines
  <2> QED
    BY ZenonT(30), <1>1, <1>3, <1>4, <2>1, <2>2, <2>3, PlainTo
<1>7. CASE HibernateTenant(g, id)
  <2>1. /\ tenants[id] \in Tenants
        /\ UNCHANGED <<tenants, starting, live, failed, home>>
    BY <1>1, <1>7 DEF HibernateTenant, engines
  <2>2. CASE /\ instances' = [instances EXCEPT ![id] = None]
             /\ Go(g, Step("stop", tenants[id], Registered(id), "idle"))
    BY ZenonT(30), <1>1, <1>3, <1>4, <2>1, <2>2, TakeOne
  <2>3. CASE UNCHANGED <<instances, gr>>
    BY <1>1, <2>1, <2>3, SameStep
  <2> QED
    BY <1>7, <2>2, <2>3 DEF HibernateTenant
<1>8. CASE \E requireHibernated \in BOOLEAN : WakeTenant(g, id, requireHibernated)
  <2>1. /\ tenants[id] \in Tenants
        /\ UNCHANGED <<tenants, instances, starting, live, failed, home>>
    BY <1>1, <1>8 DEF WakeTenant, engines
  <2>2. CASE Go(g, Step("start", tenants[id], {}, "idle"))
    BY ZenonT(30), <1>1, <1>3, <1>4, <2>1, <2>2, PlainTo
  <2>3. CASE UNCHANGED gr
    BY <1>1, <2>1, <2>3, SameStep
  <2> QED
    BY <1>8, <2>2, <2>3 DEF WakeTenant
<1>9. CASE RestoreTenant(g, id)
  <2>1. /\ tenants[id] \in Tenants
        /\ UNCHANGED <<tenants, starting, live, failed, home>>
        /\ instances' = [instances EXCEPT ![id] = None]
        /\ Go(g, Step("stop", tenants[id], Registered(id), "extract"))
    BY <1>1, <1>9 DEF RestoreTenant, engines
  <2> QED
    BY ZenonT(30), <1>1, <1>3, <1>4, <2>1, TakeOne
<1> QED
  BY <1>5, <1>6, <1>7, <1>8, <1>9 DEF Request

\* The steps of a provision, a delete and a restore outside StartTenant.
LEMMA OperationSteps ==
  ASSUME Own, NEW g \in Goroutines,
         Insert(g) \/ RemoveTenant(g) \/ Purge(g) \/ Extract(g) \/ Swap(g) \/ Place(g)
           \/ Commit(g) \/ Undo(g)
  PROVE  Own'
<1>1. tenants \in [Ids -> Tenants \cup {None}]
  BY DEF Own, OwnType
<1>2. {"idle", "commit"} \subseteq Continuations
  BY DEF Continuations
<1>3. gr[g].pc \in {"insert", "remove", "purge", "extract", "swap", "place", "commit",
                    "undo"}
  BY ZenonT(30) DEF Insert, RemoveTenant, Purge, Extract, Swap, Place, Commit, Undo, At
<1>4. gr[g].tenant \in Tenants /\ Id(g) \in Ids /\ gr[g] \in Locals
  BY <1>3, LocalFacts
<1>5. CASE Insert(g)
  <2>1. tenants' \in [Ids -> Tenants \cup {None}]
    BY <1>1, <1>4, <1>5 DEF Insert
  <2>2. UNCHANGED <<instances, starting, live, failed, home>>
    BY <1>5 DEF Insert, engines
  <2>3. Go(g, Step("start", gr[g].tenant, {}, "idle")) \/ Go(g, Idle)
    BY <1>5 DEF Insert
  <2> QED
    BY ZenonT(30), <1>2, <1>3, <1>4, <2>1, <2>2, <2>3, PlainTo, PlainDone
<1>6. CASE RemoveTenant(g)
  <2>1. tenants' \in [Ids -> Tenants \cup {None}]
    BY ZenonT(30), <1>1, <1>6 DEF RemoveTenant
  <2>2. /\ instances' = [instances EXCEPT ![Id(g)] = None]
        /\ UNCHANGED <<starting, live, failed, home>>
    BY ZenonT(30), <1>6 DEF RemoveTenant, engines
  <2>3. PICK then \in {gr[g].then, "idle"} :
          Go(g, Step("stop", gr[g].tenant, Registered(Id(g)), then))
    BY ZenonT(30), <1>6 DEF RemoveTenant
  <2>4. then \in Continuations
    BY ZenonT(30), <1>2, <1>4 DEF Locals
  <2>5. gr[g].pc \notin {"idle", "watch"} /\ gr[g].pc \notin Claiming \cup {"stop"}
    BY ZenonT(30), <1>3 DEF Claiming
  <2> QED
    BY ZenonT(30), <1>4, <2>1, <2>2, <2>3, <2>4, <2>5, TakeOne
<1>7. CASE Purge(g)
  <2>1. Go(g, Idle) /\ UNCHANGED <<tenants, instances, starting, live, failed, home>>
    BY <1>7 DEF Purge, manager, engines
  <2> QED
    BY ZenonT(30), <1>1, <1>3, <2>1, PlainDone
<1>8. CASE Extract(g)
  <2>1. UNCHANGED <<tenants, instances, starting, live, failed, home>>
    BY <1>8 DEF Extract, manager, engines
  <2>2. CASE Go(g, [gr[g] EXCEPT !.pc = "swap"])
    <3>1. gr[g].pc = "extract"
      BY <1>8 DEF Extract, At
    <3> QED
      BY ZenonT(30), <1>1, <2>1, <2>2, <3>1, PlainAdvance
  <2>3. CASE Go(g, Step("start", gr[g].tenant, {}, "idle")) \/ Go(g, Idle)
    BY ZenonT(30), <1>1, <1>2, <1>3, <1>4, <2>1, <2>3, PlainTo, PlainDone
  <2> QED
    BY <1>8, <2>2, <2>3 DEF Extract
<1>9. CASE Swap(g)
  <2>1. UNCHANGED <<tenants, instances, starting, live, failed, home>>
    BY <1>9 DEF Swap, manager, engines
  <2>2. CASE Go(g, [gr[g] EXCEPT !.pc = "place"])
    <3>1. gr[g].pc = "swap"
      BY <1>9 DEF Swap, At
    <3> QED
      BY ZenonT(30), <1>1, <2>1, <2>2, <3>1, PlainAdvance
  <2>3. CASE Go(g, Step("start", gr[g].tenant, {}, "idle"))
    BY ZenonT(30), <1>1, <1>2, <1>3, <1>4, <2>1, <2>3, PlainTo
  <2> QED
    BY <1>9, <2>2, <2>3 DEF Swap
<1>10. CASE Place(g)
  <2>1. UNCHANGED <<tenants, instances, starting, live, failed, home>>
    BY ZenonT(30), <1>10 DEF Place, manager, engines
  <2>2. PICK then \in {"commit", "idle"} : Go(g, Step("start", gr[g].tenant, {}, then))
    BY ZenonT(30), <1>10 DEF Place
  <2> QED
    BY ZenonT(30), <1>1, <1>2, <1>3, <1>4, <2>1, <2>2, PlainTo
<1>11. CASE Commit(g)
  <2>1. Go(g, Idle) /\ UNCHANGED <<tenants, instances, starting, live, failed, home>>
    BY <1>11 DEF Commit, manager, engines
  <2> QED
    BY ZenonT(30), <1>1, <1>3, <2>1, PlainDone
<1>12. CASE Undo(g)
  <2>1. /\ Go(g, Step("start", gr[g].tenant, {}, "idle"))
        /\ UNCHANGED <<tenants, instances, starting, live, failed, home>>
    BY ZenonT(30), <1>12 DEF Undo, manager, engines
  <2> QED
    BY ZenonT(30), <1>1, <1>2, <1>3, <1>4, <2>1, PlainTo
<1> QED
  BY <1>5, <1>6, <1>7, <1>8, <1>9, <1>10, <1>11, <1>12

\* A supervisor that receives an error.
LEMMA SuperviseStep ==
  ASSUME Own, NEW e \in Engines, SuperviseTenant(e)
  PROVE  Own'
<1>1. /\ gr[e].pc = "watch" /\ e \in failed
      /\ UNCHANGED <<tenants, starting, live, failed, home>>
  BY ZenonT(30) DEF SuperviseTenant, At, engines
<1>2. /\ tenants \in [Ids -> Tenants \cup {None}] /\ e \in Goroutines
      /\ instances \in [Ids -> Engines \cup {None}] /\ e # None
  BY ZenonT(30), LifecycleAssumption DEF Own, OwnType, Goroutines
<1>3. CASE (\A id \in Ids : instances[id] # e) /\ Go(e, Idle) /\ UNCHANGED instances
  BY ZenonT(30), <1>1, <1>2, <1>3, SupervisorReturned DEF Go
<1>4. ASSUME NEW id \in Ids, instances[id] = e,
             instances' = [instances EXCEPT ![id] = None]
      PROVE  /\ instances' \in [Ids -> Engines \cup {None}]
             /\ \A i \in Ids : instances[i] # e => instances'[i] = instances[i]
             /\ \A i \in Ids : instances'[i] # e /\ (instances[i] = e => instances'[i] = None)
  <2>1. \A i \in Ids : instances[i] = e => i = id
    BY <1>2, <1>4 DEF Own, RegisteredLive
  <2> QED
    BY <1>2, <1>4, <2>1
<1>5. ASSUME NEW id \in Ids, instances[id] = e,
             instances' = [instances EXCEPT ![id] = None], Go(e, Idle)
      PROVE  Own'
  BY ZenonT(30), <1>1, <1>4, <1>5, SupervisorReturned DEF Go
<1>6. ASSUME NEW id \in Ids, instances[id] = e, tenants[id] # None,
             instances' = [instances EXCEPT ![id] = None],
             NEW then \in {"start", "idle"}, Go(e, Step("stop", tenants[id], {e}, then))
      PROVE  Own'
  <2>1. Registered(id) = {e} /\ tenants[id] \in Tenants
    BY <1>2, <1>6 DEF Registered
  <2>2. gr[e].pc \notin Claiming \cup {"stop"} /\ then \in Continuations
    BY <1>1 DEF Claiming, Continuations
  <2>3. Go(e, Step("stop", tenants[id], Registered(id), then)) /\ e \in Registered(id)
    BY <1>6, <2>1
  <2> QED
    BY ZenonT(30), <1>1, <1>2, <1>6, <2>1, <2>2, <2>3, TakeOne
<1> QED
  BY ZenonT(30), <1>3, <1>5, <1>6 DEF SuperviseTenant

\* The orderly shutdown takes every engine out of the map.
LEMMA StopAllStep ==
  ASSUME Own, NEW g \in Slots, StopAll(g)
  PROVE  Own'
<1> DEFINE all == UNION {Registered(id) : id \in Ids}
           r == Step("stop", None, all, "exit")
<1>1. /\ gr[g].pc = "idle" /\ g \in Goroutines
      /\ instances' = [id \in Ids |-> None]
      /\ UNCHANGED <<tenants, starting, live, failed, home>>
      /\ gr' = [gr EXCEPT ![g] = r]
  BY DEF StopAll, At, Go, engines, Goroutines
<1>2. all = {instances[id] : id \in Ids} \ {None}
  BY ZenonT(30) DEF Registered
<1>3. all \in SUBSET Engines
  BY <1>2 DEF Own, OwnType
<1> HIDE DEF all
<1>4. r \in Locals /\ Bound(r) /\ r.pc = "stop" /\ r.held = all
  BY <1>3 DEF Step, Locals, Bound, Steps, Continuations
<1> HIDE DEF r
<1>5. instances' = [id \in Ids |-> IF id \in Ids THEN None ELSE instances[id]]
  BY <1>1
<1>6. gr[g].pc \notin Claiming \cup {"stop"}
  BY <1>1 DEF Claiming
<1>7. tenants' \in [Ids -> Tenants \cup {None}] /\ Ids \in SUBSET Ids
  BY <1>1 DEF Own, OwnType
<1> QED
  BY ZenonT(30), <1>1, <1>2, <1>4, <1>5, <1>6, <1>7, TakeStep

\* After a start of the process there is no goroutine and no engine.
Fresh ==
  /\ tenants \in [Ids -> Tenants \cup {None}]
  /\ instances = [id \in Ids |-> None] /\ starting = {} /\ live = {}
  /\ home = [e \in Engines |-> None] /\ gr = [g \in Goroutines |-> Idle]
  /\ boot \subseteq Ids /\ \A id \in boot : tenants[id] \in Tenants

\* ... so the invariant holds.
LEMMA FreshInv == Fresh => Own /\ BootQuiet
<1> SUFFICES ASSUME Fresh PROVE Own /\ BootQuiet
  OBVIOUS
<1>1. \A g \in Goroutines : gr[g] = Idle
  BY DEF Fresh
<1>2. OwnType
  BY ZenonT(30), IdleFacts DEF Fresh, OwnType
<1>3. ClaimLock /\ ClaimedVacant /\ PublishOwn
  BY ZenonT(30), <1>1, IdleFacts DEF ClaimLock, ClaimedVacant, PublishOwn, Claiming, Opening
<1>4. RegisteredLive /\ HeldApart /\ NoLostEngine
  BY <1>1, IdleFacts DEF Fresh, RegisteredLive, HeldApart, NoLostEngine
<1>5. BootQuiet
  BY ZenonT(30), <1>1, IdleFacts DEF Fresh, BootQuiet
<1> QED
  BY <1>2, <1>3, <1>4, <1>5 DEF Own

\* The orchestrator's first start, on any set of tenants.
LEMMA InitInv == Init => Own /\ BootQuiet
<1> SUFFICES ASSUME Init PROVE Own /\ BootQuiet
  OBVIOUS
<1>1. \A id \in Ids : <<id, 1>> \in Tenants
  BY LifecycleAssumption DEF Tenants
<1>2. PICK loaded \in SUBSET Ids :
        /\ tenants = [id \in Ids |-> IF id \in loaded THEN <<id, 1>> ELSE None]
        /\ boot = loaded
  BY ZenonT(30) DEF Init
<1>3. tenants \in [Ids -> Tenants \cup {None}] /\ \A id \in boot : tenants[id] \in Tenants
  BY <1>1, <1>2
<1> QED
  BY ZenonT(30), <1>2, <1>3, FreshInv DEF Init, Fresh

\* NewManager after a crash or a shutdown.
LEMMA RebootInv == Reboot => Own' /\ BootQuiet'
<1> SUFFICES ASSUME Reboot PROVE Own' /\ BootQuiet'
  OBVIOUS
<1>1. \A id \in Ids : <<id, 1>> \in Tenants
  BY LifecycleAssumption DEF Tenants
<1>2. /\ tenants' \in [Ids -> Tenants \cup {None}]
      /\ boot' \subseteq Ids /\ \A id \in boot' : tenants'[id] \in Tenants
  BY ZenonT(30), <1>1 DEF Reboot
<1>3. Fresh'
  BY <1>2 DEF Reboot, Fresh
<1> QED
  BY <1>3, FreshInv, PTL

\* NewManager starts the next tenant.
LEMMA BootStep ==
  ASSUME Own, BootQuiet, NEW g \in Slots, BootTenant(g)
  PROVE  Own' /\ BootQuiet'
<1>1. PICK id \in boot : /\ boot' = boot \ {id}
                         /\ Go(g, Step("start", tenants[id], {}, "boot"))
  BY ZenonT(30) DEF BootTenant
<1>2. /\ gr[g].pc = "idle" /\ g \in Goroutines
      /\ UNCHANGED <<tenants, instances, starting, live, failed, home>>
  BY ZenonT(30) DEF BootTenant, At, engines, Goroutines
<1>3. tenants[id] \in Tenants /\ "boot" \in Continuations /\ boot # {}
  BY <1>1 DEF BootQuiet, Continuations
<1>4. tenants' \in [Ids -> Tenants \cup {None}] /\ gr \in [Goroutines -> Locals]
  BY ZenonT(30), <1>2 DEF Own, OwnType
<1>5. Own'
  BY ZenonT(30), <1>1, <1>2, <1>3, <1>4, PlainTo
<1>6. \A h \in Goroutines : gr'[h].pc \notin {"insert", "remove"}
  <2>1. Step("start", tenants[id], {}, "boot").pc = "start"
    BY DEF Step
  <2> QED
    BY ZenonT(30), <1>1, <1>3, <1>4, <2>1 DEF Go, BootQuiet
<1>7. BootQuiet'
  BY ZenonT(30), <1>1, <1>2, <1>6 DEF BootQuiet
<1> QED
  BY <1>5, <1>7

\* A step of one goroutine that keeps tenants and boot, and does not begin a
\* provision or a delete.
LEMMA BootKept ==
  ASSUME Own, BootQuiet, NEW g \in Goroutines, NEW r, Go(g, r),
         r.pc \notin {"insert", "remove"}, UNCHANGED <<tenants, boot>>
  PROVE  BootQuiet'
BY ZenonT(30) DEF Own, OwnType, BootQuiet, Go

\* Nothing disturbs NewManager while it has tenants to start.
LEMMA ProceedBoot ==
  ASSUME Own, BootQuiet, NEW g \in Goroutines, Proceed(g), ~Exit(g)
  PROVE  BootQuiet'
<1>1. gr[g] \in Locals
  BY LocalFacts
<1>2. \A pc \in Steps, then \in Steps, t \in Tenants \cup {None}, held \in SUBSET Engines :
        Step(pc, t, held, then).pc = pc
  BY DEF Step
<1>3. \A pc \in Steps : [gr[g] EXCEPT !.pc = pc].pc = pc
  BY ZenonT(30), <1>1 DEF Locals
<1>4. /\ Continue(gr[g]).pc \notin {"insert", "remove"}
      /\ Failed(g).pc \notin {"insert", "remove"} /\ Idle.pc = "idle"
  BY ZenonT(30), <1>1 DEF Continue, Failed, Step, Idle, Locals, Continuations
<1>5. CASE Insert(g) \/ RemoveTenant(g)
  <2>1. gr[g].pc \in {"insert", "remove"} /\ UNCHANGED boot
    BY ZenonT(30), <1>5 DEF Insert, RemoveTenant, At
  <2> QED
    BY <2>1 DEF BootQuiet
<1>6. CASE Stop(g)
  <2>1. UNCHANGED <<tenants, boot>>
    BY ZenonT(30), <1>6 DEF Stop, manager
  <2>2. \A x \in Goroutines : gr'[x] \in {Continue(gr[g]), Idle, gr[x]}
    BY ZenonT(30), <1>6 DEF Stop
  <2> QED
    BY ZenonT(30), <1>4, <2>1, <2>2 DEF BootQuiet
<1>7. CASE Publish(g)
  <2>1. UNCHANGED <<tenants, boot>> /\ gr[g].pc = "publish"
    BY <1>7 DEF Publish, At
  <2>2. PICK e \in gr[g].held :
          gr' = [gr EXCEPT ![g].pc = "release-ok", ![g].held = {}, ![e] = Watch]
    BY ZenonT(30), <1>7 DEF Publish
  <2>3. e \in Goroutines /\ e # g
    BY <2>1 DEF Own, PublishOwn, Goroutines
  <2>4. gr'[g].pc = "release-ok" /\ gr'[e].pc = "watch"
        /\ \A h \in Goroutines : h # g /\ h # e => gr'[h] = gr[h]
    <3>1. Watch.pc = "watch"
      BY ZenonT(30) DEF Watch, Idle
    <3>2. gr \in [Goroutines -> Locals]
      BY DEF Own, OwnType
    <3>3. gr'[g] = [gr[g] EXCEPT !.pc = "release-ok", !.held = {}]
      BY <2>2, <2>3, <3>2
    <3>4. [gr[g] EXCEPT !.pc = "release-ok", !.held = {}].pc = "release-ok"
      BY <1>1 DEF Locals
    <3>5. gr'[e] = Watch /\ \A h \in Goroutines : h # g /\ h # e => gr'[h] = gr[h]
      BY <2>2, <2>3, <3>2
    <3> QED
      BY <3>1, <3>3, <3>4, <3>5
  <2> QED
    BY <2>1, <2>4 DEF BootQuiet
<1>8. CASE Purge(g) \/ Commit(g)
  <2>1. Go(g, Idle) /\ UNCHANGED <<tenants, boot>>
    BY <1>8 DEF Purge, Commit, manager
  <2> QED
    BY ZenonT(30), <1>4, <2>1, BootKept
<1>9. CASE StartTenant(g) \/ Claim(g) \/ Admit(g) \/ Open(g) \/ Release(g)
  <2>1. UNCHANGED <<tenants, boot>>
    BY ZenonT(30), <1>9 DEF StartTenant, Claim, Admit, Open, Release, manager
  <2>2. \/ Go(g, Failed(g)) \/ Go(g, Continue(gr[g]))
        \/ \E pc \in {"claim", "admit", "open", "release-error"} :
             Go(g, [gr[g] EXCEPT !.pc = pc])
        \/ \E e \in Engines : Go(g, [gr[g] EXCEPT !.pc = "publish", !.held = {e}])
    BY ZenonT(30), <1>9 DEF StartTenant, Claim, Admit, Open, Release
  <2>3. \A e \in Engines : [gr[g] EXCEPT !.pc = "publish", !.held = {e}].pc = "publish"
    BY <1>1 DEF Locals
  <2>4. \A pc \in {"claim", "admit", "open", "release-error"} :
          [gr[g] EXCEPT !.pc = pc].pc \notin {"insert", "remove"}
    BY <1>3 DEF Steps
  <2> QED
    BY ZenonT(30), <1>4, <2>1, <2>2, <2>3, <2>4, BootKept
<1>10. CASE Extract(g) \/ Swap(g) \/ Place(g) \/ Undo(g)
  <2>1. UNCHANGED <<tenants, boot>>
    BY ZenonT(30), <1>10 DEF Extract, Swap, Place, Undo, manager
  <2>2. PICK r \in {Idle, [gr[g] EXCEPT !.pc = "swap"], [gr[g] EXCEPT !.pc = "place"],
                    Step("start", gr[g].tenant, {}, "idle"),
                    Step("start", gr[g].tenant, {}, "commit")} : Go(g, r)
    BY <1>10 DEF Extract, Swap, Place, Undo
  <2>3. r.pc \in {"idle", "swap", "place", "start"}
    BY <1>1, <1>4 DEF Step, Locals
  <2> QED
    BY ZenonT(30), <2>1, <2>2, <2>3, BootKept
<1> QED
  BY ZenonT(30), <1>5, <1>6, <1>7, <1>8, <1>9, <1>10 DEF Proceed

\* Every step of the orchestrator, of its engines and of its clients.
LEMMA NextInv == Own /\ BootQuiet /\ [Next]_vars => Own' /\ BootQuiet'
<1> SUFFICES ASSUME Own, BootQuiet, [Next]_vars PROVE Own' /\ BootQuiet'
  OBVIOUS
<1>1. ASSUME NEW g \in Slots, NEW id \in Ids, Request(g, id) PROVE Own' /\ BootQuiet'
  <2>1. boot = {} /\ UNCHANGED boot
    BY ZenonT(30), <1>1 DEF Request, ProvisionWith, DeleteTenant, HibernateTenant, WakeTenant,
                RestoreTenant, Begin, Serving, manager
  <2> QED
    BY <1>1, <2>1, RequestSteps DEF BootQuiet
<1>2. ASSUME NEW g \in Goroutines, Proceed(g) PROVE Own' /\ BootQuiet'
  <2>1. CASE Exit(g)
    BY ZenonT(30), <2>1, RebootInv DEF Exit
  <2>2. CASE ~Exit(g)
    BY ZenonT(30), <1>2, <2>2, EnginesStopped, StartSteps, OperationSteps, ProceedBoot DEF Proceed
  <2> QED
    BY <2>1, <2>2
<1>3. ASSUME NEW g \in Slots, StopAll(g) PROVE Own' /\ BootQuiet'
  <2>1. boot = {} /\ UNCHANGED boot
    BY ZenonT(30), <1>3 DEF StopAll, Serving
  <2> QED
    BY <1>3, <2>1, StopAllStep DEF BootQuiet
<1>4. ASSUME NEW g \in Slots, BootTenant(g) PROVE Own' /\ BootQuiet'
  BY ZenonT(30), <1>4, BootStep
<1>5. ASSUME NEW e \in Engines, EngineFails(e) PROVE Own' /\ BootQuiet'
  <2>1. UNCHANGED <<tenants, boot, gr>>
    BY ZenonT(30), <1>5 DEF EngineFails, manager
  <2> QED
    BY ZenonT(30), <1>5, <2>1, EngineFailed DEF BootQuiet
<1>6. ASSUME NEW e \in Engines, SuperviseTenant(e) PROVE Own' /\ BootQuiet'
  <2>1. UNCHANGED <<tenants, boot>> /\ e \in Goroutines
    BY ZenonT(30), <1>6 DEF SuperviseTenant, Goroutines
  <2>2. \/ Go(e, Idle)
        \/ \E id \in Ids, then \in {"start", "idle"} :
             Go(e, Step("stop", tenants[id], {e}, then))
    BY ZenonT(30), <1>6 DEF SuperviseTenant
  <2>3. /\ Idle.pc = "idle"
        /\ \A id \in Ids, then \in {"start", "idle"} :
             Step("stop", tenants[id], {e}, then).pc = "stop"
    BY DEF Idle, Step
  <2> QED
    BY <1>6, <2>1, <2>2, <2>3, SuperviseStep, BootKept
<1>7. CASE Crash
  BY ZenonT(30), <1>7, RebootInv DEF Crash
<1>8. CASE UNCHANGED vars
  <2>1. UNCHANGED <<tenants, instances, starting, live, failed, home, gr, boot>>
    BY <1>8 DEF vars, manager, engines
  <2>2. tenants' \in [Ids -> Tenants \cup {None}]
    BY <2>1 DEF Own, OwnType
  <2> QED
    BY ZenonT(30), <2>1, <2>2, SameStep DEF BootQuiet
<1> QED
  BY ZenonT(30), <1>1, <1>2, <1>3, <1>4, <1>5, <1>6, <1>7, <1>8 DEF Next

-----------------------------------------------------------------------------
\* Engines and claims are always owned as Own says: the inductive invariant
\* of the orchestrator's goroutines (manager.go, hibernate.go,
\* backup_restore.go).
THEOREM Ownership == Spec => [](Own /\ BootQuiet)
<1>1. Init => Own /\ BootQuiet
  BY InitInv
<1>2. Own /\ BootQuiet /\ [Next]_vars => (Own /\ BootQuiet)'
  BY NextInv
<1> QED
  BY <1>1, <1>2, PTL DEF Spec

\* Of two engines that have one data directory open, one is being stopped or
\* is a failed one its supervisor left: StartTenant (manager.go:533) against
\* any number of other operations.
THEOREM EnginesExclusive == Spec => []OneEngine
BY Ownership, OwnOneEngine, PTL

\* Whatever overlaps, no operation loses track of a running engine
\* (hibernate.go:19, manager.go:398, backup_restore.go:83).
THEOREM EnginesTracked == Spec => []NoLostEngine
<1>1. Own => NoLostEngine
  BY DEF Own
<1> QED
  BY <1>1, Ownership, PTL
=============================================================================
