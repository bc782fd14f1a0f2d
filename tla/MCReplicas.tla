----------------------------- MODULE MCReplicas -----------------------------
(***************************************************************************)
(* A tenant that acknowledges durable writes (Durability, sync=always),    *)
(* the stream to its replica (Replication) and the replica set it belongs  *)
(* to (ControlPlane), for TLC.  They have no state in common here, so an   *)
(* instance works on one of them and the variables of the others stay as   *)
(* they are.  Replica sets have two replicas, or one and more trouble,     *)
(* with requests in a Raft log and with requests served side by side.      *)
(***************************************************************************)
EXTENDS MCReplication

CONSTANTS v1, None

VARIABLES
  part,
  log, archives, synced, flushed, ckpt, staged, hasCurrent, backups,
  pc, kind, kv, seq, rec, failed, broken, stateAt, acked, doubt, rewound,
  process, entries, snap, stored, tenants, registry, starts, attempts, done, todo, running,
  troubles, spoiled

streamVars == vars
tenantVars == <<log, archives, synced, flushed, ckpt, staged, hasCurrent, backups, pc, kind,
  kv, seq, rec, failed, broken, stateAt, acked, doubt, rewound>>
setVars == <<process, entries, snap, stored, tenants, registry, starts, attempts, done,
  todo, running, troubles, spoiled>>

Log == INSTANCE Durability WITH
  written <- flushed,
  Vals <- {v1}, NoVal <- None, SyncMode <- "always", MaxSeq <- 2, Errors <- FALSE,
  Whys <- {"periodic", "stop"}

Sets == INSTANCE ControlPlane WITH
  saved <- stored, applied <- done, live <- running,
  Primary <- "p", Replicas <- {"r1", "r2"}, Engines <- {"e1", "e2", "e3", "e4"},
  Raft <- TRUE, Modes <- BOOLEAN, MaxAttempts <- 1, MaxEntries <- 2, MaxTroubles <- 1

Pair == INSTANCE ControlPlane WITH
  saved <- stored, applied <- done, live <- running,
  Primary <- "p", Replicas <- {"r1"}, Engines <- {"e1", "e2", "e3"},
  Raft <- TRUE, Modes <- BOOLEAN, MaxAttempts <- 1, MaxEntries <- 2, MaxTroubles <- 2

DirectSets == INSTANCE ControlPlane WITH
  saved <- stored, applied <- done, live <- running,
  Primary <- "p", Replicas <- {"r1", "r2"}, Engines <- {"e1", "e2", "e3", "e4"},
  Raft <- FALSE, Modes <- BOOLEAN, MaxAttempts <- 1, MaxEntries <- 2, MaxTroubles <- 0

DirectPair == INSTANCE ControlPlane WITH
  saved <- stored, applied <- done, live <- running,
  Primary <- "p", Replicas <- {"r1"}, Engines <- {"e1", "e2", "e3"},
  Raft <- FALSE, Modes <- BOOLEAN, MaxAttempts <- 1, MaxEntries <- 2, MaxTroubles <- 1

MCInit ==
  /\ part \in {"stream", "log", "set", "pair", "direct set", "direct pair"}
  /\ Init /\ Log!Init
  /\ CASE part = "pair" -> Pair!Init
       [] part = "direct set" -> DirectSets!Init
       [] part = "direct pair" -> DirectPair!Init
       [] OTHER -> Sets!Init
  /\ part \in {"stream", "log"} => process = FALSE

MCNext ==
  /\ \/ part = "stream" /\ Next /\ UNCHANGED <<tenantVars, setVars>>
     \/ part = "log" /\ Log!Next /\ UNCHANGED <<streamVars, setVars>>
     \/ part = "set" /\ Sets!Next /\ UNCHANGED <<streamVars, tenantVars>>
     \/ part = "pair" /\ Pair!Next /\ UNCHANGED <<streamVars, tenantVars>>
     \/ part = "direct set" /\ DirectSets!Next /\ UNCHANGED <<streamVars, tenantVars>>
     \/ part = "direct pair" /\ DirectPair!Next /\ UNCHANGED <<streamVars, tenantVars>>
  /\ UNCHANGED part

MCSpec == MCInit /\ [][MCNext]_<<part, streamVars, tenantVars, setVars>>

-----------------------------------------------------------------------------
(* Properties, explained in the modules they come from; TypeOK and         *)
(* QuietReplicaConverged are Replication's.                                *)

\* Recovery rebuilds the map after a prefix of the transactions (executor.go, wal.go).
RecoveryIsPrefix == Log!RecoveryIsPrefix

\* An acknowledged transaction is in what recovery rebuilds (executor.go, wal.go).
AckedSurvives == Log!AckedSurvives

\* A replica set serves through promotions and failures (manager.go, fsm.go).
SetServes ==
  /\ part = "set" => Sets!SetServes
  /\ part = "pair" => Pair!SetServes
  /\ part = "direct set" => DirectSets!SetServes
  /\ part = "direct pair" => DirectPair!SetServes

=============================================================================
