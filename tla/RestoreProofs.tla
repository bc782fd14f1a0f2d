--------------------------- MODULE RestoreProofs ----------------------------
(***************************************************************************)
(* A restore is all or nothing: the data directory of an id on which no    *)
(* two operations overlapped, for any number of tenants, requests, engines *)
(* and failures.                                                           *)
(***************************************************************************)
EXTENDS TenantProofs

USE SMTT(30), ZenonT(30)

\* The goroutine is in the part of a restore that has moved the directory.
Restores(g) == gr[g].pc \in {"place", "commit", "undo"} \/ gr[g].then = "commit"

DiskType ==
  /\ dir \in [Ids -> {None, "empty", "data", "archive"}]
  /\ rollback \in [Ids -> {None, "empty", "data", "archive"}]
  /\ want \in [Ids -> {None, "empty", "data", "archive"}]

\* While a restore has moved the old directory aside it is the rollback, and
\* at any other time the directory is what the last operation left.
KeptAt(id) ==
  /\ ~Restoring(id) => dir[id] = want[id]
  /\ \A g \in Goroutines : Restores(g) /\ Id(g) = id =>
       /\ rollback[id] = want[id]
       /\ dir[id] = IF gr[g].pc = "place" THEN None ELSE "archive"
  /\ \A g \in Goroutines : gr[g].pc = "swap" /\ Id(g) = id => rollback[id] = None

Kept == \A id \in Ids \ (overlap \cup cut) : KeptAt(id)

\* A step that leaves a tenant's files alone and takes no goroutine into or
\* out of the restore.
LEMMA KeptSame ==
  ASSUME NEW id \in Ids, KeptAt(id), dir'[id] = dir[id], rollback'[id] = rollback[id],
         want'[id] = want[id],
         \A h \in Goroutines :
           /\ (Restores(h)' /\ Id(h)' = id) <=> (Restores(h) /\ Id(h) = id)
           /\ Restores(h) /\ Id(h) = id => (gr'[h].pc = "place" <=> gr[h].pc = "place")
           /\ gr'[h].pc = "swap" /\ Id(h)' = id => gr[h].pc = "swap" /\ Id(h) = id
  PROVE  KeptAt(id)'
<1>1. Restoring(id) <=> \E h \in Goroutines : Restores(h) /\ Id(h) = id
  BY DEF Restoring, Restores
<1>2. Restoring(id)' <=> \E h \in Goroutines : Restores(h)' /\ Id(h)' = id
  BY DEF Restoring, Restores, Id
<1> QED
  BY <1>1, <1>2 DEF KeptAt

\* The other goroutines, when one works on an id without overlaps.
LEMMA NobodyElse ==
  ASSUME Own, InTurn, NEW g \in Goroutines, NEW h \in Goroutines, h # g,
         gr[g].pc \notin {"idle", "watch"}, Id(g) \in Ids \ overlap, Id(h) = Id(g)
  PROVE  ~Restores(h) /\ gr[h].pc \in {"idle", "watch"}
<1>1. gr[h].pc \in {"idle", "watch"}
  BY DEF InTurn, Alone, Busy
<1> QED
  BY <1>1 DEF InTurn, Continues, Restores, Launching, Claiming

\* A step of a restore or a purge on the files of its own tenant.
LEMMA KeptOwn ==
  ASSUME Own, InTurn, Kept, NEW g \in Goroutines, NEW r,
         gr[g].pc \notin {"idle", "watch"}, Id(g) \in Ids,
         gr' = [gr EXCEPT ![g] = r], r.pc = "idle" \/ r.tenant = gr[g].tenant,
         r.pc \in {"idle", "swap"} => r.then = "idle",
         overlap \subseteq overlap', cut \subseteq cut',
         \A id \in Ids : id # Id(g) =>
           dir'[id] = dir[id] /\ rollback'[id] = rollback[id] /\ want'[id] = want[id],
         Id(g) \notin overlap' \cup cut' =>
           IF r.pc \in {"place", "commit", "undo"} \/ r.then = "commit"
           THEN /\ rollback'[Id(g)] = want'[Id(g)]
                /\ dir'[Id(g)] = IF r.pc = "place" THEN None ELSE "archive"
           ELSE /\ dir'[Id(g)] = want'[Id(g)]
                /\ r.pc = "swap" => rollback'[Id(g)] = None
  PROVE  Kept'
<1>1. gr'[g] = r /\ \A h \in Goroutines : h # g => gr'[h] = gr[h]
  BY DEF Own, OwnType
<1> SUFFICES ASSUME NEW id \in Ids, id \notin overlap' \cup cut' PROVE KeptAt(id)'
  BY DEF Kept
<1>2. CASE id # Id(g)
  <2>1. \A h \in Goroutines :
          /\ (Restores(h)' /\ Id(h)' = id) <=> (Restores(h) /\ Id(h) = id)
          /\ Restores(h) /\ Id(h) = id => (gr'[h].pc = "place" <=> gr[h].pc = "place")
          /\ gr'[h].pc = "swap" /\ Id(h)' = id => gr[h].pc = "swap" /\ Id(h) = id
    BY <1>1, <1>2 DEF Restores, Id
  <2>2. KeptAt(id)
    BY DEF Kept
  <2> QED
    BY ZenonT(30), <1>2, <2>1, <2>2, KeptSame
<1>3. CASE id = Id(g)
  <2>1. \A h \in Goroutines : h # g /\ Id(h)' = id =>
          ~Restores(h)' /\ gr'[h].pc \notin {"swap"}
    <3> SUFFICES ASSUME NEW h \in Goroutines, h # g, Id(h)' = id
                 PROVE  ~Restores(h)' /\ gr'[h].pc \notin {"swap"}
      OBVIOUS
    <3>1. gr'[h] = gr[h] /\ Id(h) = id /\ id \in Ids \ overlap
      BY ZenonT(30), <1>1 DEF Id
    <3> QED
      BY <1>3, <3>1, NobodyElse DEF Restores
  <2>2. /\ Restores(g)' <=> r.pc \in {"place", "commit", "undo"} \/ r.then = "commit"
        /\ r.pc # "idle" => Id(g)' = id
    BY ZenonT(30), <1>1, <1>3 DEF Restores, Id
  <2>3. Restoring(id)' <=> \E h \in Goroutines : Restores(h)' /\ Id(h)' = id
    BY DEF Restoring, Restores, Id
  <2>4. Restores(g)' => Restoring(id)'
    BY ZenonT(30), <2>2, <2>3
  <2>5. ~Restoring(id)' => dir'[id] = want'[id]
    BY ZenonT(30), <1>3, <2>2, <2>4
  <2>6. ASSUME NEW h \in Goroutines, Restores(h)', Id(h)' = id
        PROVE  /\ rollback'[id] = want'[id]
               /\ dir'[id] = IF gr'[h].pc = "place" THEN None ELSE "archive"
    <3>1. h = g
      BY <2>1, <2>6
    <3> QED
      BY <1>1, <1>3, <2>2, <2>6, <3>1
  <2>7. ASSUME NEW h \in Goroutines, gr'[h].pc = "swap", Id(h)' = id
        PROVE  rollback'[id] = None
    <3>1. h = g
      BY <2>1, <2>7
    <3>2. r.pc = "swap" /\ gr[g].tenant = r.tenant
      BY <1>1, <2>7, <3>1
    <3> QED
      BY <1>3, <3>2
  <2> QED
    BY ZenonT(30), <2>5, <2>6, <2>7 DEF KeptAt
<1> QED
  BY ZenonT(30), <1>2, <1>3

\* What is in the files of the tenant a goroutine works on.
LEMMA KeptNow ==
  ASSUME Own, InTurn, Kept, NEW g \in Goroutines, gr[g].pc \notin {"idle", "watch"},
         Id(g) \in Ids \ (overlap \cup cut)
  PROVE  IF Restores(g)
         THEN /\ rollback[Id(g)] = want[Id(g)]
              /\ dir[Id(g)] = IF gr[g].pc = "place" THEN None ELSE "archive"
         ELSE /\ dir[Id(g)] = want[Id(g)]
              /\ gr[g].pc = "swap" => rollback[Id(g)] = None
<1>1. KeptAt(Id(g))
  BY DEF Kept
<1>2. CASE Restores(g)
  BY <1>1, <1>2 DEF KeptAt
<1>3. CASE ~Restores(g)
  <2>1. Restoring(Id(g)) => \E h \in Goroutines : Restores(h) /\ Id(h) = Id(g)
    BY DEF Restoring, Restores
  <2>2. ~Restoring(Id(g))
    BY <1>3, <2>1, NobodyElse
  <2> QED
    BY <1>1, <1>3, <2>2 DEF KeptAt
<1> QED
  BY <1>2, <1>3

\* A step that touches no files: no goroutine enters or leaves the restore.
LEMMA KeptLeft ==
  ASSUME Kept, overlap \subseteq overlap', cut \subseteq cut',
         UNCHANGED <<dir, rollback, want>>,
         \A h \in Goroutines :
           \/ gr'[h] = gr[h]
           \/ ~Restores(h) /\ ~Restores(h)' /\ gr'[h].pc # "swap"
           \/ /\ Restores(h) /\ Restores(h)' /\ gr'[h].tenant = gr[h].tenant
              /\ gr[h].pc # "place" /\ gr'[h].pc \notin {"place", "swap"}
  PROVE  Kept'
<1> SUFFICES ASSUME NEW id \in Ids, id \notin overlap' \cup cut' PROVE KeptAt(id)'
  BY DEF Kept
<1>1. \A h \in Goroutines :
        /\ (Restores(h)' /\ Id(h)' = id) <=> (Restores(h) /\ Id(h) = id)
        /\ Restores(h) /\ Id(h) = id => (gr'[h].pc = "place" <=> gr[h].pc = "place")
        /\ gr'[h].pc = "swap" /\ Id(h)' = id => gr[h].pc = "swap" /\ Id(h) = id
  BY DEF Restores, Id
<1>2. KeptAt(id)
  BY DEF Kept
<1> QED
  BY <1>1, <1>2, KeptSame

\* ... taken by one goroutine.
LEMMA KeptGo ==
  ASSUME Own, Kept, NEW g \in Goroutines, NEW r, gr' = [gr EXCEPT ![g] = r],
         overlap \subseteq overlap', cut \subseteq cut', UNCHANGED <<dir, rollback, want>>,
         ~Restores(g), r.pc \notin {"place", "commit", "undo", "swap"}, r.then # "commit"
  PROVE  Kept'
<1>1. gr'[g] = r /\ \A h \in Goroutines : h # g => gr'[h] = gr[h]
  BY DEF Own, OwnType
<1>2. ~Restores(g)' /\ gr'[g].pc # "swap"
  BY <1>1 DEF Restores
<1> QED
  BY <1>1, <1>2, KeptLeft

\* Who does not restore.
LEMMA NotRestoring ==
  ASSUME InTurn, NEW g \in Goroutines,
         gr[g].pc \in {"idle", "watch", "insert", "remove", "stop", "purge", "extract",
                       "swap", "exit"}
  PROVE  ~Restores(g)
BY DEF InTurn, Continues, Restores, Launching, Claiming

\* Requests, supervisors and NewManager begin, and leave the files alone.
LEMMA BeginKept ==
  ASSUME Own, InTurn, Kept, NEW g \in Goroutines, gr[g].pc \in {"idle", "watch", "insert", "remove"},
         \/ UNCHANGED gr
         \/ Go(g, Idle)
         \/ \E pc \in {"insert", "remove", "start", "stop"}, t \in Tenants \cup {None},
              held \in SUBSET Engines,
              then \in {"idle", "purge", "extract", "start", "boot", "exit"} :
                Go(g, Step(pc, t, held, then)),
         overlap \subseteq overlap', UNCHANGED <<dir, rollback, want, cut>>
  PROVE  Kept'
<1>1. ~Restores(g)
  BY NotRestoring
<1>2. CASE UNCHANGED gr
  BY <1>2, KeptLeft
<1>3. CASE Go(g, Idle)
  BY ZenonT(30), <1>1, <1>3, IdleShape, KeptGo DEF Go
<1>4. ASSUME NEW pc \in {"insert", "remove", "start", "stop"}, NEW t, NEW held,
             NEW then \in {"idle", "purge", "extract", "start", "boot", "exit"},
             Go(g, Step(pc, t, held, then))
      PROVE  Kept'
  <2> DEFINE r == Step(pc, t, held, then)
  <2>1. r.pc = pc /\ r.then = then
    BY StepShape
  <2>2. gr' = [gr EXCEPT ![g] = r]
    BY <1>4 DEF Go
  <2> HIDE DEF r
  <2> QED
    BY ZenonT(30), <1>1, <1>4, <2>1, <2>2, KeptGo
<1> QED
  BY ZenonT(30), <1>2, <1>3, <1>4

LEMMA RequestKept ==
  ASSUME Own, InTurn, Kept, NEW g \in Slots, NEW id \in Ids, Request(g, id)
  PROVE  Kept'
<1>1. Begin(g, id)
  BY DEF Request, ProvisionWith, DeleteTenant, HibernateTenant, WakeTenant, RestoreTenant
<1>2. g \in Goroutines /\ gr[g].pc = "idle" /\ overlap \subseteq overlap'
  BY ZenonT(30), <1>1, BeginFacts
<1>3. UNCHANGED <<dir, rollback, want, cut>>
  BY DEF Request, ProvisionWith, DeleteTenant, HibernateTenant, WakeTenant, RestoreTenant,
         disk
<1>4. tenants[id] \in Tenants \cup {None} /\ Registered(id) \in SUBSET Engines
  BY DEF Own, OwnType, Registered
<1>5. \A n \in 1 .. Records : <<id, n>> \in Tenants
  BY DEF Tenants
<1>6. \/ UNCHANGED gr
      \/ \E pc \in {"insert", "remove", "start", "stop"}, t \in Tenants \cup {None},
           held \in SUBSET Engines,
           then \in {"idle", "purge", "extract", "start", "boot", "exit"} :
             Go(g, Step(pc, t, held, then))
  <2>1. CASE ProvisionWith(g, id)
    BY <1>5, <2>1 DEF ProvisionWith
  <2>2. ASSUME NEW purge \in BOOLEAN, DeleteTenant(g, id, purge)
        PROVE  \E then \in {"idle", "purge"} : Go(g, Step("remove", tenants[id], {}, then))
    BY <2>2 DEF DeleteTenant
  <2>3. CASE HibernateTenant(g, id)
    BY <1>4, <2>3 DEF HibernateTenant
  <2>4. ASSUME NEW wake \in BOOLEAN, WakeTenant(g, id, wake)
        PROVE  UNCHANGED gr \/ Go(g, Step("start", tenants[id], {}, "idle"))
    BY <2>4 DEF WakeTenant
  <2>5. CASE RestoreTenant(g, id)
    BY ZenonT(30), <1>4, <2>5 DEF RestoreTenant
  <2> QED
    BY ZenonT(30), <1>4, <2>1, <2>2, <2>3, <2>4, <2>5 DEF Request
<1> QED
  BY ZenonT(30), <1>2, <1>3, <1>6, BeginKept

LEMMA InsertKept ==
  ASSUME Own, InTurn, Kept, NEW g \in Goroutines, Insert(g) \/ RemoveTenant(g)
  PROVE  Kept'
<1>1. gr[g].pc \in {"insert", "remove"} /\ UNCHANGED <<dir, rollback, want, cut, overlap>>
  BY ZenonT(30) DEF Insert, RemoveTenant, At
<1>2. /\ gr[g].tenant \in Tenants /\ Id(g) \in Ids
      /\ gr[g].then \in {"idle", "purge"}
  BY ZenonT(30), <1>1, LocalFacts DEF InTurn, Continues, Launching, Claiming
<1>3. Registered(Id(g)) \in SUBSET Engines
  BY <1>2 DEF Own, OwnType, Registered
<1>4. \/ Go(g, Idle)
      \/ \E pc \in {"insert", "remove", "start", "stop"}, t \in Tenants \cup {None},
           held \in SUBSET Engines,
           then \in {"idle", "purge", "extract", "start", "boot", "exit"} :
             Go(g, Step(pc, t, held, then))
  <2>1. CASE Insert(g)
    BY ZenonT(30), <1>2, <2>1 DEF Insert
  <2>2. CASE RemoveTenant(g)
    BY ZenonT(30), <1>2, <1>3, <2>2 DEF RemoveTenant
  <2> QED
    BY ZenonT(30), <2>1, <2>2
<1> QED
  BY ZenonT(30), <1>1, <1>4, BeginKept

LEMMA ManagerKept ==
  ASSUME Own, BootQuiet, InTurn, Kept, NEW g \in Goroutines,
         \/ g \in Slots /\ (StopAll(g) \/ BootTenant(g))
         \/ g \in Engines /\ SuperviseTenant(g)
  PROVE  Kept'
<1>1. /\ gr[g].pc \in {"idle", "watch"} /\ overlap \subseteq overlap'
      /\ UNCHANGED <<dir, rollback, want, cut>>
  BY DEF StopAll, BootTenant, SuperviseTenant, Overlap, At, disk, history
<1>2. /\ \A id \in Ids : tenants[id] \in Tenants \cup {None}
      /\ UNION {Registered(id) : id \in Ids} \in SUBSET Engines
      /\ boot \subseteq Ids
  BY DEF Own, OwnType, Registered, InTurn, BootFresh
<1>3. \/ Go(g, Idle)
      \/ \E pc \in {"insert", "remove", "start", "stop"}, t \in Tenants \cup {None},
           held \in SUBSET Engines,
           then \in {"idle", "purge", "extract", "start", "boot", "exit"} :
             Go(g, Step(pc, t, held, then))
  <2>1. CASE StopAll(g)
    BY ZenonT(30), <1>2, <2>1 DEF StopAll
  <2>2. CASE BootTenant(g)
    BY ZenonT(30), <1>2, <2>2 DEF BootTenant
  <2>3. CASE g \in Engines /\ SuperviseTenant(g)
    BY <1>2, <2>3 DEF SuperviseTenant
  <2> QED
    BY ZenonT(30), <2>1, <2>2, <2>3
<1> QED
  BY ZenonT(30), <1>1, <1>3, BeginKept

LEMMA StopKept ==
  ASSUME Own, InTurn, Kept, NEW g \in Goroutines, Stop(g)
  PROVE  Kept'
<1>1. gr[g].pc = "stop" /\ UNCHANGED <<dir, rollback, want, cut, overlap>>
  BY ZenonT(30) DEF Stop, At, disk, history
<1>2. gr'[g] = Continue(gr[g])
      /\ \A h \in Goroutines \ {g} :
           gr'[h] = gr[h] \/ (gr'[h] = Idle /\ gr[h].pc = "watch")
  BY DEF Stop, At
<1>3. gr[g].then \in {"idle", "purge", "extract", "start", "exit"}
  BY ZenonT(30), <1>1 DEF InTurn, Continues
<1>4. gr'[g].then = "idle" /\ gr'[g].pc \in {"idle", "purge", "extract", "start", "exit"}
  BY <1>2, <1>3, IdleShape, StepShape DEF Continue
<1>5. ~Restores(g) /\ ~Restores(g)' /\ gr'[g].pc # "swap"
  BY ZenonT(30), <1>1, <1>4, NotRestoring DEF Restores
<1>6. ASSUME NEW h \in Goroutines \ {g}, gr'[h] # gr[h]
      PROVE  ~Restores(h) /\ ~Restores(h)' /\ gr'[h].pc # "swap"
  <2>1. gr'[h] = Idle /\ gr[h].pc = "watch"
    BY ZenonT(30), <1>2, <1>6
  <2> QED
    BY ZenonT(30), <2>1, IdleShape, NotRestoring DEF Restores
<1> QED
  BY ZenonT(30), <1>1, <1>5, <1>6, KeptLeft

LEMMA PublishKept ==
  ASSUME Own, InTurn, Kept, NEW g \in Goroutines, Publish(g)
  PROVE  Kept'
<1>1. gr[g].pc = "publish" /\ UNCHANGED <<dir, rollback, want, cut, overlap>>
  BY DEF Publish, At, disk
<1>2. PICK e \in gr[g].held :
        gr' = [gr EXCEPT ![g].pc = "release-ok", ![g].held = {}, ![e] = Watch]
  BY ZenonT(30) DEF Publish
<1>3. gr[g] \in Locals
  BY LocalFacts
<1>4. e \in Goroutines /\ e # g /\ gr[e].pc = "idle"
  BY <1>1, <1>2 DEF Own, PublishOwn, Goroutines
<1>5. /\ gr'[g].pc = "release-ok" /\ gr'[g].tenant = gr[g].tenant
      /\ gr'[g].then = gr[g].then
  <2> DEFINE r == [gr[g] EXCEPT !.pc = "release-ok", !.held = {}]
  <2>1. r.pc = "release-ok" /\ r.tenant = gr[g].tenant /\ r.then = gr[g].then
    BY <1>3 DEF Locals
  <2>2. gr'[g] = r
    BY <1>2, <1>4 DEF Own, OwnType
  <2> QED
    BY <2>1, <2>2
<1>6. \A h \in Goroutines : h # g /\ h # e => gr'[h] = gr[h]
  BY <1>2, <1>4 DEF Own, OwnType
<1>7. gr'[e].pc = "watch" /\ gr'[e].then = "idle"
  BY ZenonT(30), <1>2, <1>4 DEF Own, OwnType, Watch, Idle
<1>8. ~Restores(e) /\ ~Restores(e)' /\ gr'[e].pc # "swap"
  BY ZenonT(30), <1>4, <1>7, NotRestoring DEF Restores
<1>9. Restores(g) <=> Restores(g)'
  BY <1>1, <1>5 DEF Restores
<1> QED
  BY ZenonT(30), <1>1, <1>5, <1>6, <1>8, <1>9, KeptLeft

\* The steps of StartTenant that touch no files.
LEMMA StartKept ==
  ASSUME Own, InTurn, Kept, NEW g \in Goroutines, StartTenant(g) \/ Claim(g) \/ Release(g)
  PROVE  Kept'
<1>1. /\ gr[g].pc \in Launching /\ gr[g].pc \notin {"place", "commit", "undo"}
      /\ UNCHANGED <<dir, rollback, want, cut, overlap>>
  BY ZenonT(30) DEF StartTenant, Claim, Release, At, Launching, Claiming, disk, history
<1>2. gr[g] \in Locals
  BY LocalFacts
<1>3. PICK r \in {Continue(gr[g]), Failed(g), [gr[g] EXCEPT !.pc = "claim"],
                  [gr[g] EXCEPT !.pc = "admit"]} : Go(g, r)
  BY DEF StartTenant, Claim, Release
<1>4. /\ (r.pc \in {"place", "commit", "undo"} \/ r.then = "commit") <=> gr[g].then = "commit"
      /\ gr[g].then = "commit" => r.tenant = gr[g].tenant
      /\ r.pc \notin {"place", "swap"}
  <2>1. CASE r \in {Continue(gr[g]), Failed(g)}
    BY <1>1, <2>1, ReturnShape
  <2>2. CASE r \in {[gr[g] EXCEPT !.pc = "claim"], [gr[g] EXCEPT !.pc = "admit"]}
    <3>1. r.pc \in {"claim", "admit"} /\ r.tenant = gr[g].tenant /\ r.then = gr[g].then
      BY <1>2, <2>2 DEF Locals
    <3> QED
      BY <3>1
  <2> QED
    BY <1>3, <2>1, <2>2
<1>5. gr'[g] = r /\ \A h \in Goroutines : h # g => gr'[h] = gr[h]
  BY <1>3 DEF Own, OwnType, Go
<1>6. /\ Restores(g) <=> gr[g].then = "commit"
      /\ Restores(g)' <=> gr[g].then = "commit"
  BY <1>1, <1>4, <1>5 DEF Restores
<1> HIDE <1>3
<1> QED
  BY ZenonT(30), <1>1, <1>4, <1>5, <1>6, KeptLeft

\* The two steps that make sure that there is a directory.
LEMMA MakeDirKept ==
  ASSUME Own, InTurn, DiskType, Kept, NEW g \in Goroutines, Admit(g) \/ Open(g)
  PROVE  Kept'
<1>1. /\ gr[g].pc \in {"admit", "open"} /\ UNCHANGED <<rollback, cut, overlap>>
      /\ MakeDir(Id(g)) \/ UNCHANGED <<dir, want>>
  BY ZenonT(30) DEF Admit, Open, At
<1>2. gr[g] \in Locals /\ Id(g) \in Ids
  BY <1>1, LocalFacts
<1>3. PICK r : /\ gr' = [gr EXCEPT ![g] = r] /\ r.tenant = gr[g].tenant
               /\ r.then = gr[g].then /\ r.pc \in {"open", "release-error", "publish"}
  <2>1. ASSUME NEW pc \in {"open", "release-error"}, Go(g, [gr[g] EXCEPT !.pc = pc])
        PROVE  \E r : /\ gr' = [gr EXCEPT ![g] = r] /\ r.tenant = gr[g].tenant
                      /\ r.then = gr[g].then /\ r.pc \in {"open", "release-error", "publish"}
    <3> DEFINE r == [gr[g] EXCEPT !.pc = pc]
    <3>1. r.tenant = gr[g].tenant /\ r.then = gr[g].then /\ r.pc = pc
      BY <1>2 DEF Locals
    <3>2. gr' = [gr EXCEPT ![g] = r]
      BY <2>1 DEF Go
    <3> QED
      BY ZenonT(30), <3>1, <3>2
  <2>2. ASSUME NEW e, Go(g, [gr[g] EXCEPT !.pc = "publish", !.held = {e}])
        PROVE  \E r : /\ gr' = [gr EXCEPT ![g] = r] /\ r.tenant = gr[g].tenant
                      /\ r.then = gr[g].then /\ r.pc \in {"open", "release-error", "publish"}
    <3> DEFINE r == [gr[g] EXCEPT !.pc = "publish", !.held = {e}]
    <3>1. r.tenant = gr[g].tenant /\ r.then = gr[g].then /\ r.pc = "publish"
      BY <1>2 DEF Locals
    <3>2. gr' = [gr EXCEPT ![g] = r]
      BY <2>2 DEF Go
    <3> QED
      BY ZenonT(30), <3>1, <3>2
  <2>3. CASE Admit(g)
    BY <2>1, <2>3 DEF Admit
  <2>4. CASE Open(g)
    BY ZenonT(30), <2>1, <2>2, <2>4 DEF Open
  <2> QED
    BY <2>3, <2>4
<1>4. Restores(g) <=> gr[g].then = "commit"
  BY ZenonT(30), <1>1 DEF Restores
<1>5. \A id \in Ids : id # Id(g) =>
        dir'[id] = dir[id] /\ rollback'[id] = rollback[id] /\ want'[id] = want[id]
  BY ZenonT(30), <1>1, <1>2 DEF MakeDir, DiskType
<1>6. ASSUME Id(g) \notin overlap' \cup cut'
      PROVE  IF r.pc \in {"place", "commit", "undo"} \/ r.then = "commit"
             THEN /\ rollback'[Id(g)] = want'[Id(g)]
                  /\ dir'[Id(g)] = IF r.pc = "place" THEN None ELSE "archive"
             ELSE /\ dir'[Id(g)] = want'[Id(g)]
                  /\ r.pc = "swap" => rollback'[Id(g)] = None
  <2>1. IF gr[g].then = "commit"
        THEN rollback[Id(g)] = want[Id(g)] /\ dir[Id(g)] = "archive"
        ELSE dir[Id(g)] = want[Id(g)]
    BY ZenonT(30), <1>1, <1>2, <1>4, <1>6, KeptNow
  <2>2. dir[Id(g)] # None => UNCHANGED <<dir, want>>
    BY <1>1 DEF MakeDir
  <2>3. dir[Id(g)] = want[Id(g)] => dir'[Id(g)] = want'[Id(g)]
    BY <1>1, <1>2 DEF MakeDir, DiskType
  <2> QED
    BY ZenonT(30), <1>1, <1>3, <2>1, <2>2, <2>3, LifecycleAssumption
<1>7. r.pc \notin {"idle", "swap"} /\ overlap \subseteq overlap' /\ cut \subseteq cut'
      /\ gr[g].pc \notin {"idle", "watch"}
  BY <1>1, <1>3
<1> HIDE <1>1
<1> QED
  BY ZenonT(30), <1>2, <1>3, <1>5, <1>6, <1>7, KeptOwn

\* The steps of a restore and of a purge: where the goroutine goes, ...
LEMMA FilesShape ==
  ASSUME Own, InTurn, NEW g \in Goroutines,
         gr[g].pc \in {"purge", "extract", "swap", "place", "commit", "undo"}
  PROVE  /\ Id(g) \in Ids
         /\ Go(g, Idle) => \E r :
              gr' = [gr EXCEPT ![g] = r] /\ r.pc = "idle" /\ r.then = "idle"
         /\ \A pc \in Steps : Go(g, [gr[g] EXCEPT !.pc = pc]) => \E r :
              /\ gr' = [gr EXCEPT ![g] = r] /\ r.tenant = gr[g].tenant
              /\ r.pc = pc /\ r.then = "idle"
         /\ \A then : Go(g, Step("start", gr[g].tenant, {}, then)) => \E r :
              /\ gr' = [gr EXCEPT ![g] = r] /\ r.tenant = gr[g].tenant
              /\ r.pc = "start" /\ r.then = then
<1>1. gr[g] \in Locals /\ Id(g) \in Ids
  BY LocalFacts
<1>2. gr[g].then = "idle"
  BY DEF InTurn, Continues, Launching, Claiming
<1>3. ASSUME NEW pc \in Steps, Go(g, [gr[g] EXCEPT !.pc = pc])
      PROVE  \E r : /\ gr' = [gr EXCEPT ![g] = r] /\ r.tenant = gr[g].tenant
                    /\ r.pc = pc /\ r.then = "idle"
  <2> DEFINE r == [gr[g] EXCEPT !.pc = pc]
  <2>1. r.tenant = gr[g].tenant /\ r.pc = pc /\ r.then = "idle"
    BY <1>1, <1>2 DEF Locals
  <2>2. gr' = [gr EXCEPT ![g] = r]
    BY <1>3 DEF Go
  <2> QED
    BY ZenonT(30), <2>1, <2>2
<1>4. ASSUME NEW then, Go(g, Step("start", gr[g].tenant, {}, then))
      PROVE  \E r : /\ gr' = [gr EXCEPT ![g] = r] /\ r.tenant = gr[g].tenant
                    /\ r.pc = "start" /\ r.then = then
  <2> DEFINE r == Step("start", gr[g].tenant, {}, then)
  <2>1. r.tenant = gr[g].tenant /\ r.pc = "start" /\ r.then = then
    BY StepShape
  <2>2. gr' = [gr EXCEPT ![g] = r]
    BY <1>4 DEF Go
  <2> QED
    BY ZenonT(30), <2>1, <2>2
<1>5. Go(g, Idle) => \E r : gr' = [gr EXCEPT ![g] = r] /\ r.pc = "idle" /\ r.then = "idle"
  BY ZenonT(30), IdleShape DEF Go
<1> QED
  BY ZenonT(30), <1>1, <1>3, <1>4, <1>5

LEMMA PurgeKept ==
  ASSUME Own, InTurn, DiskType, Kept, NEW g \in Goroutines, Purge(g)
  PROVE  Kept'
<1>1. /\ gr[g].pc = "purge" /\ Go(g, Idle) /\ UNCHANGED <<rollback, cut, overlap>>
      /\ dir' = [dir EXCEPT ![Id(g)] = None] /\ want' = [want EXCEPT ![Id(g)] = None]
  BY DEF Purge, At
<1>2. Id(g) \in Ids
      /\ \E r : gr' = [gr EXCEPT ![g] = r] /\ r.pc = "idle" /\ r.then = "idle"
  BY <1>1, FilesShape
<1> PICK r : gr' = [gr EXCEPT ![g] = r] /\ r.pc = "idle" /\ r.then = "idle"
  BY ZenonT(30), <1>2
<1>3. dir'[Id(g)] = None /\ want'[Id(g)] = None
      /\ \A id \in Ids : id # Id(g) =>
           dir'[id] = dir[id] /\ rollback'[id] = rollback[id] /\ want'[id] = want[id]
  BY <1>1, <1>2 DEF DiskType
<1> QED
  BY ZenonT(30), <1>1, <1>2, <1>3, KeptOwn

LEMMA ExtractKept ==
  ASSUME Own, InTurn, DiskType, Kept, NEW g \in Goroutines, Extract(g)
  PROVE  Kept'
<1>1. /\ gr[g].pc = "extract" /\ UNCHANGED <<dir, want, cut, overlap>>
      /\ rollback' = [rollback EXCEPT ![Id(g)] = None]
  BY DEF Extract, At
<1>2. Id(g) \in Ids
  BY <1>1, FilesShape
<1>3. PICK r : /\ gr' = [gr EXCEPT ![g] = r]
               /\ r.pc = "idle" \/ r.tenant = gr[g].tenant
               /\ r.pc \in {"idle", "swap", "start"} /\ r.then = "idle"
  <2>1. \/ Go(g, [gr[g] EXCEPT !.pc = "swap"])
        \/ Go(g, Step("start", gr[g].tenant, {}, "idle"))
        \/ Go(g, Idle)
    BY DEF Extract
  <2>2. "swap" \in Steps
    BY ZenonT(30) DEF Steps
  <2> QED
    BY <1>1, <2>1, <2>2, FilesShape
<1>4. rollback'[Id(g)] = None
      /\ \A id \in Ids : id # Id(g) =>
           dir'[id] = dir[id] /\ rollback'[id] = rollback[id] /\ want'[id] = want[id]
  BY ZenonT(30), <1>1, <1>2 DEF DiskType
<1>5. Id(g) \notin overlap \cup cut' => dir[Id(g)] = want[Id(g)]
  BY ZenonT(30), <1>1, <1>2, NotRestoring, KeptNow
<1>6. /\ r.pc \notin {"place", "commit", "undo"} /\ r.then # "commit"
      /\ overlap' = overlap /\ cut' = cut /\ dir' = dir /\ want' = want
      /\ gr[g].pc \notin {"idle", "watch"}
  BY <1>1, <1>3
<1> QED
  BY ZenonT(30), <1>2, <1>3, <1>4, <1>5, <1>6, KeptOwn

\* Without a directory there is nothing to move aside, and no rollback.
LEMMA SwapKept ==
  ASSUME Own, InTurn, DiskType, Kept, NEW g \in Goroutines, Swap(g)
  PROVE  Kept'
<1>1. gr[g].pc = "swap" /\ UNCHANGED <<want, cut, overlap>>
  BY DEF Swap, At, history
<1>2. Id(g) \in Ids
  BY ZenonT(30), <1>1, FilesShape
<1>3. Id(g) \notin overlap \cup cut' => dir[Id(g)] = want[Id(g)] /\ rollback[Id(g)] = None
  BY ZenonT(30), <1>1, <1>2, NotRestoring, KeptNow
<1>4. CASE /\ rollback' = [rollback EXCEPT ![Id(g)] = IF dir[Id(g)] # None THEN dir[Id(g)] ELSE @]
           /\ dir' = [dir EXCEPT ![Id(g)] = None]
           /\ Go(g, [gr[g] EXCEPT !.pc = "place"])
  <2>1. PICK r : /\ gr' = [gr EXCEPT ![g] = r] /\ r.tenant = gr[g].tenant
                 /\ r.pc = "place" /\ r.then = "idle"
    BY ZenonT(30), <1>1, <1>4, FilesShape DEF Steps
  <2>2. /\ dir'[Id(g)] = None
        /\ rollback'[Id(g)] = IF dir[Id(g)] # None THEN dir[Id(g)] ELSE rollback[Id(g)]
        /\ \A id \in Ids : id # Id(g) =>
             dir'[id] = dir[id] /\ rollback'[id] = rollback[id] /\ want'[id] = want[id]
    BY <1>1, <1>2, <1>4 DEF DiskType
  <2>3. Id(g) \notin overlap \cup cut' => rollback'[Id(g)] = want'[Id(g)]
    BY <1>1, <1>3, <2>2
  <2> QED
    BY ZenonT(30), <1>1, <1>2, <2>1, <2>2, <2>3, KeptOwn
<1>5. CASE Go(g, Step("start", gr[g].tenant, {}, "idle")) /\ UNCHANGED <<dir, rollback>>
  <2>1. PICK r : /\ gr' = [gr EXCEPT ![g] = r] /\ r.tenant = gr[g].tenant
                 /\ r.pc = "start" /\ r.then = "idle"
    BY <1>1, <1>5, FilesShape
  <2> QED
    BY ZenonT(30), <1>1, <1>2, <1>3, <1>5, <2>1, KeptOwn
<1> QED
  BY <1>4, <1>5 DEF Swap

LEMMA PlaceKept ==
  ASSUME Own, InTurn, DiskType, Kept, NEW g \in Goroutines, Place(g)
  PROVE  Kept'
<1>1. gr[g].pc = "place" /\ UNCHANGED <<want, overlap>> /\ cut \subseteq cut'
  BY ZenonT(30) DEF Place, At
<1>2. Id(g) \in Ids
  BY ZenonT(30), <1>1, FilesShape
<1>3. Id(g) \notin overlap \cup cut' => rollback[Id(g)] = want[Id(g)] /\ dir[Id(g)] = None
  BY ZenonT(30), <1>1, <1>2, KeptNow DEF Restores
<1>4. CASE /\ dir' = [dir EXCEPT ![Id(g)] = "archive"] /\ UNCHANGED rollback
           /\ Go(g, Step("start", gr[g].tenant, {}, "commit"))
  <2>1. PICK r : /\ gr' = [gr EXCEPT ![g] = r] /\ r.tenant = gr[g].tenant
                 /\ r.pc = "start" /\ r.then = "commit"
    BY <1>1, <1>4, FilesShape
  <2>2. /\ dir'[Id(g)] = "archive"
        /\ \A id \in Ids : id # Id(g) =>
             dir'[id] = dir[id] /\ rollback'[id] = rollback[id] /\ want'[id] = want[id]
    BY ZenonT(30), <1>1, <1>2, <1>4 DEF DiskType
  <2>3. Id(g) \notin overlap \cup cut' => rollback'[Id(g)] = want'[Id(g)]
    BY <1>1, <1>3, <1>4
  <2> QED
    BY ZenonT(30), <1>1, <1>2, <2>1, <2>2, <2>3, KeptOwn
<1>5. CASE /\ PutBack(Id(g)) \/ (Id(g) \in cut' /\ UNCHANGED <<dir, rollback>>)
           /\ Go(g, Step("start", gr[g].tenant, {}, "idle"))
  <2>1. PICK r : /\ gr' = [gr EXCEPT ![g] = r] /\ r.tenant = gr[g].tenant
                 /\ r.pc = "start" /\ r.then = "idle"
    BY <1>1, <1>5, FilesShape
  <2>2. \A id \in Ids : id # Id(g) =>
          dir'[id] = dir[id] /\ rollback'[id] = rollback[id] /\ want'[id] = want[id]
    BY ZenonT(30), <1>1, <1>2, <1>5 DEF DiskType, PutBack
  <2>3. Id(g) \notin overlap \cup cut' => dir'[Id(g)] = want'[Id(g)]
    BY ZenonT(30), <1>1, <1>2, <1>3, <1>5 DEF DiskType, PutBack
  <2> QED
    BY ZenonT(30), <1>1, <1>2, <2>1, <2>2, <2>3, KeptOwn
<1> QED
  BY <1>4, <1>5 DEF Place

LEMMA CommitKept ==
  ASSUME Own, InTurn, DiskType, Kept, NEW g \in Goroutines, Commit(g)
  PROVE  Kept'
<1>1. /\ gr[g].pc = "commit" /\ Go(g, Idle) /\ UNCHANGED <<dir, cut, overlap>>
      /\ rollback' = [rollback EXCEPT ![Id(g)] = None]
      /\ want' = [want EXCEPT ![Id(g)] = "archive"]
  BY DEF Commit, At
<1>2. Id(g) \in Ids
  BY ZenonT(30), <1>1, FilesShape
<1>3. PICK r : gr' = [gr EXCEPT ![g] = r] /\ r.pc = "idle" /\ r.then = "idle"
  BY ZenonT(30), <1>1, FilesShape
<1>4. Id(g) \notin overlap \cup cut' => dir'[Id(g)] = "archive"
  BY ZenonT(30), <1>1, <1>2, KeptNow DEF Restores
<1>5. want'[Id(g)] = "archive"
      /\ \A id \in Ids : id # Id(g) =>
           dir'[id] = dir[id] /\ rollback'[id] = rollback[id] /\ want'[id] = want[id]
  BY <1>1, <1>2 DEF DiskType
<1> QED
  BY ZenonT(30), <1>1, <1>2, <1>3, <1>4, <1>5, KeptOwn

LEMMA UndoKept ==
  ASSUME Own, InTurn, DiskType, Kept, NEW g \in Goroutines, Undo(g)
  PROVE  Kept'
<1>1. /\ gr[g].pc = "undo" /\ UNCHANGED <<want, overlap>> /\ cut \subseteq cut'
      /\ Go(g, Step("start", gr[g].tenant, {}, "idle"))
  BY DEF Undo, At
<1>2. Id(g) \in Ids
  BY <1>1, FilesShape
<1>3. PICK r : /\ gr' = [gr EXCEPT ![g] = r] /\ r.tenant = gr[g].tenant
               /\ r.pc = "start" /\ r.then = "idle"
  BY <1>1, FilesShape
<1>4. Id(g) \notin overlap \cup cut' => rollback[Id(g)] = want[Id(g)]
  BY ZenonT(30), <1>1, <1>2, KeptNow DEF Restores
<1>5. /\ Id(g) \notin cut' => dir'[Id(g)] = rollback[Id(g)]
      /\ \A id \in Ids : id # Id(g) =>
           dir'[id] = dir[id] /\ rollback'[id] = rollback[id] /\ want'[id] = want[id]
  BY ZenonT(30), <1>1, <1>2 DEF DiskType, Undo
<1> QED
  BY ZenonT(30), <1>1, <1>2, <1>3, <1>4, <1>5, KeptOwn

\* A restore that the end of the process interrupts is in cut; no other
\* directory differs from what is wanted.
LEMMA RebootKept ==
  ASSUME Own, InTurn, Kept, Reboot
  PROVE  Kept'
<1>1. /\ gr' = [g \in Goroutines |-> Idle] /\ UNCHANGED <<dir, rollback, want, overlap>>
      /\ cut' = cut \cup {id \in Ids : Restoring(id)}
  BY ZenonT(30) DEF Reboot, disk
<1>2. \A g \in Goroutines : ~Restores(g)' /\ gr'[g].pc # "swap"
  BY <1>1, IdleShape DEF Restores
<1> SUFFICES ASSUME NEW id \in Ids, id \notin overlap' \cup cut' PROVE KeptAt(id)'
  BY DEF Kept
<1>3. KeptAt(id) /\ ~Restoring(id)
  BY <1>1 DEF Kept
<1>4. dir'[id] = want'[id]
  BY ZenonT(30), <1>1, <1>3 DEF KeptAt
<1> QED
  BY <1>2, <1>4 DEF KeptAt

LEMMA NextDisk == Own /\ DiskType /\ [Next]_vars => DiskType'
<1> SUFFICES ASSUME Own, DiskType, [Next]_vars PROVE DiskType'
  OBVIOUS
<1>1. CASE UNCHANGED <<dir, rollback, want>>
  BY <1>1 DEF DiskType
<1>2. ASSUME NEW g \in Goroutines, Admit(g) \/ Open(g) PROVE DiskType'
  <2>1. UNCHANGED rollback /\ (MakeDir(Id(g)) \/ UNCHANGED <<dir, want>>)
    BY ZenonT(30), <1>2 DEF Admit, Open
  <2> QED
    BY <2>1 DEF MakeDir, DiskType
<1>3. ASSUME NEW g \in Goroutines, Purge(g) \/ Extract(g) \/ Commit(g) PROVE DiskType'
  BY <1>3 DEF DiskType, Purge, Extract, Commit, history
<1>4. ASSUME NEW g \in Goroutines, Swap(g) PROVE DiskType'
  <2>1. gr[g].pc = "swap" /\ UNCHANGED want
    BY ZenonT(30), <1>4 DEF Swap, At, history
  <2>2. Id(g) \in Ids
    BY <2>1, LocalFacts
  <2> QED
    BY <1>4, <2>1, <2>2 DEF DiskType, Swap
<1>5. ASSUME NEW g \in Goroutines, Place(g) \/ Undo(g) PROVE DiskType'
  <2>1. gr[g].pc \in {"place", "undo"} /\ UNCHANGED want
    BY ZenonT(30), <1>5 DEF Place, Undo, At
  <2>2. Id(g) \in Ids
    BY ZenonT(30), <2>1, LocalFacts
  <2> QED
    BY ZenonT(30), <1>5, <2>1, <2>2 DEF DiskType, Place, Undo, PutBack
<1>6. ASSUME NEW g \in Goroutines, Proceed(g) PROVE DiskType'
  <2>1. CASE Insert(g) \/ RemoveTenant(g) \/ Stop(g) \/ StartTenant(g) \/ Claim(g)
             \/ Publish(g) \/ Release(g) \/ Exit(g)
    BY <1>1, <2>1 DEF Insert, RemoveTenant, Stop, StartTenant, Claim, Publish, Release, Exit,
                      Reboot, disk, history
  <2> QED
    BY ZenonT(30), <1>2, <1>3, <1>4, <1>5, <1>6, <2>1 DEF Proceed
<1>7. ASSUME NEW g \in Slots, NEW id \in Ids, Request(g, id) PROVE DiskType'
  BY ZenonT(30), <1>1, <1>7 DEF Request, ProvisionWith, DeleteTenant, HibernateTenant, WakeTenant,
                    RestoreTenant, disk
<1>8. ASSUME NEW g \in Goroutines,
             StopAll(g) \/ BootTenant(g) \/ EngineFails(g) \/ SuperviseTenant(g)
      PROVE  DiskType'
  BY ZenonT(30), <1>1, <1>8 DEF StopAll, BootTenant, EngineFails, SuperviseTenant, disk, history
<1>9. CASE Crash \/ UNCHANGED vars
  BY ZenonT(30), <1>1, <1>9 DEF Crash, Reboot, vars, disk, history
<1> QED
  BY ZenonT(30), <1>6, <1>7, <1>8, <1>9 DEF Next, Goroutines

\* Every step keeps the files.
LEMMA NextKept == Own /\ BootQuiet /\ InTurn /\ DiskType /\ Kept /\ [Next]_vars => Kept'
<1> SUFFICES ASSUME Own, BootQuiet, InTurn, DiskType, Kept, [Next]_vars PROVE Kept'
  OBVIOUS
<1>1. ASSUME NEW g \in Slots, NEW id \in Ids, Request(g, id) PROVE Kept'
  BY <1>1, RequestKept
<1>2. ASSUME NEW g \in Goroutines, Proceed(g) PROVE Kept'
  <2>1. CASE Exit(g)
    BY ZenonT(30), <2>1, RebootKept DEF Exit
  <2>2. CASE ~Exit(g)
    BY ZenonT(30), <1>2, <2>2, InsertKept, StopKept, StartKept, MakeDirKept, PublishKept, PurgeKept,
       ExtractKept, SwapKept, PlaceKept, CommitKept, UndoKept
       DEF Proceed
  <2> QED
    BY <2>1, <2>2
<1>3. ASSUME NEW g \in Slots, StopAll(g) \/ BootTenant(g) PROVE Kept'
  <2>1. g \in Goroutines
    BY DEF Goroutines
  <2> QED
    BY <1>3, <2>1, ManagerKept
<1>4. ASSUME NEW e \in Engines, SuperviseTenant(e) PROVE Kept'
  <2>1. e \in Goroutines
    BY ZenonT(30) DEF Goroutines
  <2> QED
    BY <1>4, <2>1, ManagerKept
<1>5. CASE UNCHANGED <<gr, dir, rollback, want, cut, overlap>>
  BY ZenonT(30), <1>5, KeptLeft
<1>6. ASSUME NEW e \in Engines, EngineFails(e) PROVE Kept'
  BY <1>5, <1>6 DEF EngineFails, disk, history
<1>7. CASE Crash
  BY <1>7, RebootKept DEF Crash
<1>8. CASE UNCHANGED vars
  BY ZenonT(30), <1>5, <1>8 DEF vars, disk, history
<1> QED
  BY ZenonT(30), <1>1, <1>2, <1>3, <1>4, <1>6, <1>7, <1>8 DEF Next

LEMMA InitKept == Init => DiskType /\ Kept
<1> SUFFICES ASSUME Init PROVE DiskType /\ Kept
  OBVIOUS
<1>1. DiskType
  BY ZenonT(30) DEF Init, DiskType
<1>2. gr = [g \in Goroutines |-> Idle] /\ want = dir
  BY DEF Init
<1>3. \A g \in Goroutines : ~Restores(g) /\ gr[g].pc # "swap"
  BY ZenonT(30), <1>2, IdleShape DEF Restores
<1> QED
  BY <1>1, <1>2, <1>3 DEF Kept, KeptAt

\* A tenant that nothing is at work on is not being restored.
LEMMA KeptMeans == InTurn /\ Kept => RestoreOutcome
<1> SUFFICES ASSUME InTurn, Kept, NEW id \in Ids \ (overlap \cup cut), ~Working(id)
             PROVE  dir[id] = want[id]
  BY DEF RestoreOutcome
<1>1. \A g \in Goroutines : Restores(g) => gr[g].pc \notin {"idle", "watch"}
  BY ZenonT(30), NotRestoring
<1>2. ~Restoring(id)
  BY <1>1 DEF Restoring, Restores, Working
<1> QED
  BY ZenonT(30), <1>2 DEF Kept, KeptAt

\* RestoreTenant (backup_restore.go:80) is all or nothing, for every number of
\* tenants, requests, engines and failures: whatever the interleaving with the
\* operations on other tenants, the directory of a tenant at rest is what its
\* last successful restore, purge or first start left.
THEOREM RestoreKept == Spec => []RestoreOutcome
<1>1. Init => DiskType /\ Kept
  BY InitKept
<1>2. Own /\ BootQuiet /\ InTurn /\ DiskType /\ Kept /\ [Next]_vars => DiskType' /\ Kept'
  BY NextDisk, NextKept
<1>3. InTurn /\ Kept => RestoreOutcome
  BY KeptMeans
<1> QED
  BY <1>1, <1>2, <1>3, Turns, Ownership, PTL DEF Spec
=============================================================================
