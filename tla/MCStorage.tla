----------------------------- MODULE MCStorage ------------------------------
(***************************************************************************)
(* What is kept in files, for TLC: the orchestrator's tenants (StateFile), *)
(* a tenant's log (WalFiles), a vector index (Vectors), its graphs (Hnsw)  *)
(* and what a Stop leaves (TenantServer).  They have no state in common,   *)
(* so an instance works on one of them and the variables of the others     *)
(* stay as they are.                                                       *)
(***************************************************************************)
EXTENDS StateFile, TLC

CONSTANTS k1, a, b, v1, v2, v3

VARIABLES
  part,
  segs, cur, buf, seq, clock, mode, wrote, kills, kept, setBack,
  entry, ix, shadow, disk, log, ckpt, op, serving, pos, recs, crashes, want, torn,
  graphs, vec, dead, moves,
  listener, done, sock, at, clients, sem, mutationMu, order, recordCh, chClosed, flusher,
  fileClosed, failed, logged, saved, applied, cancelled, stop, task, covers, cmds, ticks,
  replied, late

fileVars == vars
logVars == <<segs, cur, buf, seq, clock, mode, wrote, kills, kept, setBack>>
indexVars == <<entry, ix, shadow, disk, log, ckpt, op, serving, pos, recs, crashes, want, torn>>
graphVars == <<graphs, vec, dead, moves>>
serverVars == <<listener, done, sock, at, clients, sem, mutationMu, order, recordCh, chClosed,
                flusher, fileClosed, failed, logged, saved, applied, cancelled, stop, task,
                covers, cmds, ticks, replied, late>>

Log == INSTANCE WalFiles WITH
  Keys <- {k1}, Ids <- {a}, MaxRecs <- 3, MaxClock <- 2, MaxKills <- 2

\* Two vectors, in either order.
MCBatches ==
  LET item(x, y) == [id |-> x, val |-> y]
      both(x, y) == {<<item(a, x), item(b, y)>>, <<item(b, y), item(a, x)>>}
  IN  both(v1, v2) \cup both(v2, v1)

\* Two vectors of one dimension and one of another; a migration changes the
\* encoding or the dimension.
MCDim == [v \in {v1, v2, v3} |-> IF v = v3 THEN 2 ELSE 1]
MCShapes == {[dim |-> 1, encoding |-> "float32"], [dim |-> 2, encoding |-> "sq8"]}

Index == INSTANCE Vectors WITH
  mode <- serving,
  Ids <- {a, b}, Vals <- {v1, v2, v3}, Dim <- MCDim, Shapes <- MCShapes, Encoding <- "sq8",
  Batches <- {}, Percent <- 50, MaxVectors <- 2, MaxRecs <- 4, MaxCrashes <- 1

\* With batches, and with a quota of one vector.
Batched == INSTANCE Vectors WITH
  mode <- serving,
  Ids <- {a, b}, Vals <- {v1, v2, v3}, Dim <- MCDim, Shapes <- MCShapes, Encoding <- "sq8",
  Batches <- MCBatches, Percent <- 50, MaxVectors <- 2, MaxRecs <- 3, MaxCrashes <- 1

Full == INSTANCE Vectors WITH
  mode <- serving,
  Ids <- {a, b}, Vals <- {v1, v2, v3}, Dim <- MCDim, Shapes <- MCShapes, Encoding <- "sq8",
  Batches <- {}, Percent <- 50, MaxVectors <- 1, MaxRecs <- 3, MaxCrashes <- 1

Graph == INSTANCE Hnsw WITH
  Points <- {0, 2, 3}, Levels <- {0, 1}, M <- 1, M0 <- 1, EfUpper <- 1,
  EfConstruct <- 2, EfSearch <- 3, MinFetch <- 1, Shards <- 1,
  MaxRows <- 4, MaxMoves <- 1

Server == INSTANCE TenantServer WITH
  log <- logged, ckpt <- saved, store <- applied, acked <- replied,
  Conns <- {a, b}, MaxConns <- 1, MaxCmds <- 2, MaxTicks <- 1

Symmetric == Permutations({a, b}) \cup Permutations({v1, v2})

MCInit ==
  /\ part \in {"state file", "log", "index", "batches", "quota", "graphs", "server"}
  /\ Init /\ Log!Init /\ Index!Init /\ Graph!Init /\ Server!Init

MCNext ==
  /\ \/ part = "state file" /\ Next /\ UNCHANGED <<logVars, indexVars, graphVars, serverVars>>
     \/ part = "log" /\ Log!Next /\ UNCHANGED <<fileVars, indexVars, graphVars, serverVars>>
     \/ part = "index" /\ Index!Next /\ UNCHANGED <<fileVars, logVars, graphVars, serverVars>>
     \/ part = "batches" /\ Batched!Next /\ UNCHANGED <<fileVars, logVars, graphVars, serverVars>>
     \/ part = "quota" /\ Full!Next /\ UNCHANGED <<fileVars, logVars, graphVars, serverVars>>
     \/ part = "graphs" /\ Graph!Next /\ UNCHANGED <<fileVars, logVars, indexVars, serverVars>>
     \/ part = "server" /\ Server!Next /\ UNCHANGED <<fileVars, logVars, indexVars, graphVars>>
  /\ UNCHANGED part

MCSpec == MCInit /\ [][MCNext]_<<part, fileVars, logVars, indexVars, graphVars,
                                  serverVars>>

-----------------------------------------------------------------------------
(* Properties, explained in the modules they come from.                    *)

\* ReadAll returns every frame that was whole when a kill came (wal.go).
FramesSurvive == part = "log" => Log!FramesSurvive

\* AS_OF sees the retained records up to its time and no others (wal.go).
AsOfExact == part = "log" => Log!AsOfExact

\* The index serves what the log says, after every restart (vector.go).
ServesTheLog == part \in {"index", "batches", "quota"} => Index!ServesTheLog

\* The graph holds a node for every row and for nothing else (vector.go).
GraphMatchesRows == part \in {"index", "batches", "quota"} => Index!GraphMatchesRows

\* Recovery does not fail on a record that a command has applied (recovery.go).
RecoveryRepeats ==
  /\ part \in {"index", "batches"} => Index!RecoveryRepeats
  /\ part = "quota" => Full!RecoveryRepeats

\* A graph passes the check it must pass to be loaded (hnsw_persist.go).
GraphValid == part = "graphs" => Graph!GraphValid

\* VSEARCH on a small index is exact (hnsw.go).
SearchExact == part = "graphs" => Graph!SearchExact

\* What Stop does not wait for comes to an end (instance.go, server.go).
StopEnds == part = "server" => Server!StopEnds

\* Stop loses no acknowledged write, whatever it overtakes (instance.go, wal.go).
AckedKept == part = "server" => Server!AckedKept

=============================================================================
