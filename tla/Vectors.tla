------------------------------ MODULE Vectors -------------------------------
(***************************************************************************)
(* One vector index of the durable profile: its rows in a memory-mapped    *)
(* file, its metadata file, its HNSW graph file, the shadow index of a     *)
(* migration, the seal a checkpoint takes of it, and recovery.             *)
(*                                                                         *)
(* Mutations hold mutationMu from the log append to the end, so one is     *)
(* under way at a time.  It changes the index in memory and leaves a list  *)
(* of file operations behind, which are done one after another; the        *)
(* tenant's process may be killed between any two of them.  What is mapped *)
(* survives that, what is only in memory does not; file operations         *)
(* succeed.  A search returns the live rows the graph holds: Hnsw is about *)
(* which of them it ranks first.                                           *)
(***************************************************************************)
EXTENDS Integers, Sequences, FiniteSets, SequencesExt

CONSTANTS
  Ids,         \* vector ids
  Vals,        \* vectors
  Dim,         \* the dimension of each
  Batches,     \* sequences of ids with vectors that a client adds at once
  Shapes,      \* dimensions and encodings of the models a client migrates to
  Encoding,    \* VectorStore.encoding
  None,
  Percent,     \* share of tombstones above which VDEL compacts
  MaxVectors,  \* VectorStore.maxVectors
  MaxRecs,     \* bound: records logged
  MaxCrashes   \* bound: kills and stops; a recovery that failed is tried again once

VARIABLES
  entry,    \* the key in KVStore: "absent", "nil" (no index attached) or "open"
  ix,       \* the attached index
  shadow,   \* its shadow index, None when no migration is active
  disk,     \* the files: data (the mapped rows), meta, graph
  log,      \* records above the checkpoint
  ckpt,     \* the checkpoint: whether it holds the key, the seal, and (history)
            \* whether it was taken during a migration, and whether there are
            \* vectors that only records below it have added
  op,       \* the operation under way: its record, its file operations, its end
  mode,     \* "up", "recovering" or "failed"
  pos,      \* recovery: the next record; 0 before the seals are verified
  recs, crashes,
  \* history
  want,     \* what the log says of the index: its vectors, its shadow's
  torn      \* files ("rows", "graph") that nothing in the log rewrites as they were

vars == <<entry, ix, shadow, disk, log, ckpt, op, mode, pos, recs, crashes, want, torn>>

-----------------------------------------------------------------------------
(* The index.                                                              *)

Shape(dim, encoding) == [dim |-> dim, encoding |-> encoding]

\* What a row holds: the vector as its encoding wrote it.
Cell(shape, v) == [shape |-> shape, val |-> v]
Blank == Cell(Shape(0, Encoding), None)
Row(id) == [id |-> id, dead |-> FALSE, gen |-> 1]
IdsOf(rows) == [r \in DOMAIN rows |-> rows[r].id]
RowOf(rows, id) ==
  LET places == {r \in DOMAIN rows : rows[r].id = id}
  IN  IF places = {} THEN 0 ELSE Min(places)
NoData == [r \in 1..Cardinality(Ids) |-> Blank]

\* Mutant of GraphOf: the saved graph is taken as it is.
GraphOf_Saved(saved, rows) == IF saved # None THEN saved ELSE <<>>

\* loadHNSWGraphs and validateShards: a saved graph of the right size is
\* taken, else rebuildGraph inserts every row.
GraphOf(saved, rows) ==
  IF saved # None /\ Len(saved) = Len(rows) THEN saved ELSE IdsOf(rows)

\* An index over no metadata, of the store's encoding.
New(shape) == [shape |-> shape, rows |-> <<>>, graph |-> <<>>, fresh |-> TRUE]
Nowhere == New(Shape(0, Encoding))

\* newMMapVectorIndex on the files of d, asked for a shape.  Metadata that is
\* there must have the dimension (Fits); its encoding is kept.
Opened(d, shape) ==
  IF d.meta = None
    THEN New(shape)
    ELSE [shape |-> d.meta.shape, rows |-> d.meta.rows,
          graph |-> GraphOf(d.graph, d.meta.rows), fresh |-> TRUE]

Fits(dim) == disk.meta = None \/ disk.meta.shape.dim = dim

MetaOf(i) == [shape |-> i.shape, rows |-> i.rows]

\* File operations: one that puts content in place, and WriteSealedFile, which
\* removes the file before it renames the new one to it.
Put(file, to) == [file |-> file, to |-> to]
Sealed(file, to) == <<Put(file, None), Put(file, to)>>

\* Close: metadata and graph are written.
Close(i) == Sealed("meta", MetaOf(i)) \o Sealed("graph", i.graph)

\* Add or replace one vector in an index; a new row enters the graph.
Added(i, id) ==
  LET r == RowOf(i.rows, id)
  IN  IF r = 0
        THEN [i EXCEPT !.rows = Append(@, Row(id)), !.graph = Append(@, id)]
        ELSE [i EXCEPT !.rows[r] = IF @.dead THEN [@ EXCEPT !.dead = FALSE, !.gen = @ + 1] ELSE @]

Stored(d, i, id, v) == [d EXCEPT ![RowOf(i.rows, id)] = Cell(i.shape, v)]

\* A batch is a sequence of ids with vectors; of one id's the last counts.
AddedAll(i, batch) == FoldLeft(LAMBDA j, x : Added(j, x.id), i, batch)

\* The rows of a batch, written one after another.
StoredAll(d, i, batch) ==
  [n \in DOMAIN batch |-> Put("data",
     FoldLeft(LAMBDA e, x : Stored(e, i, x.id, x.val), d, SubSeq(batch, 1, n)))]

Dead(rows) == {r \in DOMAIN rows : rows[r].dead}

\* The row that row r of the compacted index comes from.
Source(rows, r) == CHOOSE s \in DOMAIN rows \ Dead(rows) :
                     Cardinality({q \in 1..s : q \notin Dead(rows)}) = r

Compacted(i) ==
  LET live == [r \in 1..(Len(i.rows) - Cardinality(Dead(i.rows))) |-> i.rows[Source(i.rows, r)]]
  IN  [i EXCEPT !.rows = live, !.graph = IdsOf(live), !.fresh = FALSE]

\* The writes of VCompact on rows i: the rows one by one, metadata, graph.
Compaction(d, i) ==
  LET j == Compacted(i)
      moved(n) == [r \in DOMAIN d |-> IF r <= n THEN d[Source(i.rows, r)] ELSE d[r]]
  IN  [n \in DOMAIN j.rows |-> Put("data", moved(n))] \o Close(j)

\* What searches of an index return: ids and vectors, None for a row that some
\* other encoding or dimension wrote.
Found(i, d) ==
  {<<i.rows[r].id, IF d[r].shape = i.shape THEN d[r].val ELSE None>> :
     r \in {q \in DOMAIN i.rows : ~i.rows[q].dead /\ q <= Len(i.graph)}}

-----------------------------------------------------------------------------
(* Records.                                                                *)

Rec(o, id, v, shape) == [op |-> o, id |-> id, val |-> v, shape |-> shape]

Records ==
  {Rec(o, id, v, None) : o \in {"VADD", "MADD"}, id \in Ids, v \in Vals}
    \cup {Rec("VADD_BATCH", None, batch, None) : batch \in Batches}
    \cup {Rec("VDEL", id, None, None) : id \in Ids}
    \cup {Rec("START", None, None, shape) : shape \in Shapes}
    \cup {Rec(o, None, None, None) : o \in {"SWAP", "CANCEL", "DEL"}}

Adds(rec) == rec.op \in {"VADD", "VADD_BATCH"}
Items(rec) == IF rec.op = "VADD" THEN <<[id |-> rec.id, val |-> rec.val]>> ELSE rec.val
IdsIn(rec) == {x.id : x \in ToSet(Items(rec))}

\* An operation: "apply" its record, or do its file operations and then let it
\* return ("ok"), fail ("error"), save the checkpoint or stop the process.
Do(rec, todo, end) == [rec |-> rec, todo |-> todo, end |-> end]
NoOp == Do(None, <<>>, "none")
Idle == op = NoOp

\* validateBatchCapacity, and once more VAdd and VAddBatch.
Room(rows, rec) ==
  Len(rows) + Cardinality({id \in IdsIn(rec) : RowOf(rows, id) = 0}) <= MaxVectors

\* The shape getOrCreate asks newMMapVectorIndex for.
Asked(rec) == Shape(IF Adds(rec) THEN Dim[Head(Items(rec)).val] ELSE 0, Encoding)

\* The checks before the log append.  A key that is not open but has metadata
\* is opened by the first of them (Open).
Valid(rec) ==
  LET r == IF entry = "open" THEN RowOf(ix.rows, rec.id) ELSE 0
  IN  CASE Adds(rec) ->
             IF entry = "open" THEN ix.shape.dim = Asked(rec).dim /\ Room(ix.rows, rec)
                               ELSE disk.meta = None /\ Room(<<>>, rec)
        [] rec.op = "VDEL"   -> r # 0 /\ ~ix.rows[r].dead
        [] rec.op = "MADD"   -> entry = "open" /\ shadow # None
        [] rec.op = "SWAP"   -> entry = "open" /\ shadow # None /\ shadow.i.rows # <<>>
        [] rec.op = "DEL"    -> entry # "absent"
        [] OTHER             -> TRUE

\* getOrCreate meets files of another dimension and fails.
Mismatch(rec) == (Adds(rec) \/ rec.op = "START") /\ entry # "open" /\ ~Fits(Asked(rec).dim)

\* The index getOrCreate returns.
Base(rec) == IF entry = "open" THEN ix ELSE Opened(disk, Asked(rec))

\* getReadOnly finds or attaches an index.
Attaches == entry = "open" \/ ~Fits(0)

\* The index getReadOnly works on.
Attached == IF entry = "open" THEN ix ELSE Opened(disk, disk.meta.shape)

\* Whether the index takes the record; recovery runs into the same answers.
Accepted(rec) ==
  /\ ~Mismatch(rec)
  /\ CASE Adds(rec) -> Base(rec).shape.dim = Asked(rec).dim /\ Room(Base(rec).rows, rec)
       [] rec.op = "VDEL" -> Attaches \/ disk.meta = None
       [] rec.op = "MADD" -> entry = "open" /\ shadow # None /\ shadow.i.shape.dim = Dim[rec.val]
       [] rec.op = "SWAP" -> Attaches /\ (entry = "open" /\ shadow # None => shadow.i.rows # <<>>)
       [] rec.op = "CANCEL" -> Attaches
       [] OTHER -> TRUE

NoVecs == [id \in Ids |-> None]

\* Whether startMigration finds its migration already under way.
Resumes(rec) == shadow # None /\ shadow.i.shape = rec.shape

\* What the logged records ask of the index.  A START that fails on the files'
\* dimension has emptied them.
Wanted(w, rec) ==
  CASE Adds(rec) ->
         [w EXCEPT !.vecs = FoldLeft(LAMBDA f, x : [f EXCEPT ![x.id] = x.val], @, Items(rec))]
    [] rec.op = "VDEL"   -> [w EXCEPT !.vecs[rec.id] = None]
    [] rec.op = "START"  -> [vecs |-> IF Mismatch(rec) THEN NoVecs ELSE w.vecs,
                             new |-> IF Resumes(rec) THEN w.new ELSE NoVecs]
    [] rec.op = "MADD"   -> [w EXCEPT !.new[rec.id] = rec.val]
    [] rec.op = "SWAP"   -> [w EXCEPT !.vecs = w.new]
    [] OTHER             -> w

-----------------------------------------------------------------------------
Init ==
  /\ entry = "absent" /\ ix = Nowhere /\ shadow = None
  /\ disk = [data |-> NoData, meta |-> None, graph |-> None]
  /\ log = <<>> /\ ckpt = [key |-> FALSE, seal |-> None, during |-> FALSE, below |-> FALSE]
  /\ op = NoOp /\ mode = "up" /\ pos = 0 /\ recs = 0 /\ crashes = 0
  /\ want = [vecs |-> NoVecs, new |-> NoVecs]
  /\ torn = {}

\* The first read of an index that is not attached.
Open ==
  /\ mode = "up" /\ Idle /\ entry # "open" /\ Attaches
  /\ entry' = "open" /\ ix' = Attached
  /\ UNCHANGED <<shadow, disk, log, ckpt, op, mode, pos, recs, crashes, want, torn>>

\* Dispatch of a mutation up to writeWAL.
Log(rec) ==
  /\ mode = "up" /\ Idle /\ recs < MaxRecs /\ Valid(rec)
  /\ log' = Append(log, rec) /\ recs' = recs + 1
  /\ op' = Do(rec, <<>>, "apply")
  /\ want' = IF Accepted(rec) \/ Mismatch(rec) THEN Wanted(want, rec) ELSE want
  /\ UNCHANGED <<entry, ix, shadow, disk, ckpt, mode, pos, crashes, torn>>

\* VCOMPACT, which is not logged.
VCompact ==
  /\ mode = "up" /\ Idle /\ entry = "open" /\ Dead(ix.rows) # {}
  /\ ix' = Compacted(ix)
  /\ op' = Do(None, Compaction(disk.data, ix), "ok")
  /\ UNCHANGED <<entry, shadow, disk, log, ckpt, mode, pos, recs, crashes, want, torn>>

-----------------------------------------------------------------------------
(* Applying a record, by a command or by recovery.                         *)

\* What is left to do of a record: file operations, or its end.  The command
\* returns; recovery goes on, or ends with the error.
Ends(rec, todo, end) ==
  /\ op' = IF todo = <<>> THEN NoOp ELSE Do(rec, todo, end)
  /\ pos' = IF todo = <<>> /\ mode = "recovering" /\ end = "ok" THEN pos + 1 ELSE pos
  /\ mode' = IF todo = <<>> /\ mode = "recovering" /\ end = "error" THEN "failed" ELSE mode

Done(rec, todo) == Ends(rec, todo, "ok")

\* Vectors are below a checkpoint that does not seal them.
Left == ckpt.below /\ ckpt.seal = None

\* An error after the append.  newMMapVectorIndex closes the index it has made
\* when the dimension is not the metadata's: an empty one takes its place.
Refused(rec) ==
  /\ ~Accepted(rec)
  /\ Ends(rec, IF Mismatch(rec) THEN Close(New(Asked(rec))) ELSE <<>>, "error")
  /\ torn' = torn \cup IF Mismatch(rec) /\ mode = "recovering" /\ Left THEN {"rows"} ELSE {}
  /\ UNCHANGED <<entry, ix, shadow>>

\* VAdd and VAddBatch: rows are mapped one by one; metadata is written when it
\* is an index's first or a second old.
Add(rec) ==
  LET i == AddedAll(Base(rec), Items(rec))
  IN  /\ Adds(rec) /\ Accepted(rec)
      /\ \E flush \in BOOLEAN :
           /\ Base(rec).fresh => flush
           /\ ix' = [i EXCEPT !.fresh = @ /\ ~flush]
           /\ Done(rec, StoredAll(disk.data, i, Items(rec))
                          \o IF flush THEN Sealed("meta", MetaOf(i)) ELSE <<>>)
      /\ entry' = "open"
      /\ UNCHANGED <<shadow, torn>>

\* Mutant of NotFound: to delete what is not there is an error.
NotFound_Error(rec) == Ends(rec, <<>>, "error")

\* VDel of an id without a live row returns false and no error.
NotFound(rec) == Done(rec, <<>>)

\* VDel: the tombstone goes to the metadata at once.  The command, not
\* recovery, then compacts above the ratio.
VDel(rec) ==
  LET i == Attached
      r == RowOf(i.rows, rec.id)
      j == [i EXCEPT !.rows[r] = [@ EXCEPT !.dead = TRUE, !.gen = @ + 1], !.fresh = FALSE]
      compacts == mode = "up" /\ 100 * Cardinality(Dead(j.rows)) > Percent * Len(j.rows)
  IN  /\ rec.op = "VDEL" /\ Accepted(rec)
      /\ IF ~Attaches THEN NotFound(rec) /\ UNCHANGED <<entry, ix>>
         ELSE /\ entry' = "open"
              /\ IF r = 0 \/ i.rows[r].dead THEN NotFound(rec) /\ ix' = i
                 ELSE /\ ix' = IF compacts THEN Compacted(j) ELSE j
                      /\ Done(rec, Sealed("meta", MetaOf(j))
                                     \o IF compacts THEN Compaction(disk.data, j) ELSE <<>>)
      /\ UNCHANGED <<shadow, torn>>

\* DEL: the index is closed and its key goes; the files stay.
Del(rec) ==
  /\ rec.op = "DEL"
  /\ entry' = "absent" /\ ix' = Nowhere /\ shadow' = None
  /\ Done(rec, IF entry = "open" THEN Close(ix) ELSE <<>>)
  /\ UNCHANGED torn

startMigration(rec) ==
  /\ rec.op = "START" /\ Accepted(rec)
  /\ entry' = "open" /\ ix' = Base(rec)
  /\ shadow' = IF Resumes(rec) THEN shadow
               ELSE [i |-> New(rec.shape), data |-> NoData]
  /\ Done(rec, <<>>) /\ UNCHANGED torn

insertShadowVector(rec) ==
  LET i == Added(shadow.i, rec.id)
      r == RowOf(i.rows, rec.id)
      j == IF RowOf(shadow.i.rows, rec.id) = 0 THEN i ELSE [i EXCEPT !.rows[r].gen = @ + 1]
  IN  /\ rec.op = "MADD" /\ Accepted(rec)
      /\ shadow' = [i |-> j, data |-> Stored(shadow.data, j, rec.id, rec.val)]
      /\ Done(rec, <<>>) /\ UNCHANGED <<entry, ix, torn>>

cancelMigration(rec) ==
  /\ rec.op = "CANCEL" /\ Accepted(rec)
  /\ shadow' = None
  /\ entry' = "open" /\ ix' = Attached
  /\ Done(rec, <<>>) /\ UNCHANGED torn

\* swapMigration closes both indexes, moves the shadow's files over the live
\* ones and opens them.  Without a migration it has been done before.
swapMigration(rec) ==
  LET new == [data |-> shadow.data, meta |-> MetaOf(shadow.i), graph |-> shadow.i.graph]
      moves == <<Put("data", NoData), Put("data", new.data)>>
                 \o Sealed("meta", new.meta) \o Sealed("graph", new.graph)
  IN  /\ rec.op = "SWAP" /\ Accepted(rec)
      /\ entry' = "open" /\ shadow' = None
      /\ IF shadow # None
           THEN ix' = Opened(new, shadow.i.shape) /\ Done(rec, Close(ix) \o moves)
           ELSE ix' = Attached /\ Done(rec, <<>>)
      /\ UNCHANGED torn

Apply ==
  /\ \/ mode = "up" /\ op.end = "apply"
     \/ mode = "recovering" /\ Idle /\ pos \in DOMAIN log
  /\ LET rec == IF mode = "up" THEN op.rec ELSE log[pos]
     IN  \/ Refused(rec) \/ Add(rec) \/ VDel(rec) \/ Del(rec)
         \/ startMigration(rec) \/ insertShadowVector(rec) \/ cancelMigration(rec)
         \/ swapMigration(rec)
  /\ UNCHANGED <<disk, log, ckpt, recs, crashes, want>>

-----------------------------------------------------------------------------
(* Checkpoints, the end of an operation, kills and recovery.               *)

\* Mutant of Checkpoint: the metadata is not flushed before it is sealed.
Checkpoint_NoFlush ==
  /\ mode = "up" /\ Idle /\ log # <<>>
  /\ op' = Do(None, IF entry = "open" THEN <<Put("meta", disk.meta)>> ELSE <<>>, "save")
  /\ UNCHANGED <<entry, ix, shadow, disk, log, ckpt, mode, pos, recs, crashes, want, torn>>

\* FlushDurable, before the checkpoint is saved.
Checkpoint ==
  /\ mode = "up" /\ Idle /\ log # <<>>
  /\ op' = Do(None, IF entry = "open" THEN Sealed("meta", MetaOf(ix)) ELSE <<>>, "save")
  /\ ix' = [ix EXCEPT !.fresh = FALSE]
  /\ UNCHANGED <<entry, shadow, disk, log, ckpt, mode, pos, recs, crashes, want, torn>>

\* IndexSeals, the snapshot, and the log below it removed.
SaveCheckpoint ==
  LET seal == IF entry = "open" THEN disk.meta ELSE None
  IN  /\ op.end = "save" /\ op.todo = <<>>
      /\ ckpt' = [key |-> entry # "absent", seal |-> seal, during |-> shadow # None,
                  below |-> want.vecs # NoVecs]
      /\ log' = <<>> /\ op' = NoOp
      /\ UNCHANGED <<entry, ix, shadow, disk, mode, pos, recs, crashes, want, torn>>

\* The next file operation.
FileStep ==
  /\ op.todo # <<>>
  /\ disk' = [disk EXCEPT ![Head(op.todo).file] = Head(op.todo).to]
  /\ IF op.end \in {"ok", "error"} THEN Ends(op.rec, Tail(op.todo), op.end)
     ELSE op' = [op EXCEPT !.todo = Tail(@)] /\ UNCHANGED <<mode, pos>>
  /\ UNCHANGED <<entry, ix, shadow, log, ckpt, recs, crashes, want, torn>>

\* Files are half-way from one state to another, and the log does not hold
\* what would write them again: metadata removed and not yet put back, of
\* vectors the checkpoint does not seal; rows moved under metadata that does
\* not know, or a graph file of the uncompacted index.  A swap is not
\* repeatable either when a checkpoint was taken in its migration: the shadow's
\* first part is nowhere, and older mutations are replayed on the promoted index.
Tearing ==
  LET ahead == {op.todo[n].file : n \in DOMAIN op.todo}
      gone == disk.meta = None /\ "meta" \in ahead
      compacts == op.end = "ok" /\ "graph" \in ahead /\ (op.rec = None \/ op.rec.op = "VDEL")
      cut == ckpt.during /\ \E j \in DOMAIN log : log[j].op = "SWAP"
  IN  (IF cut \/ (gone /\ Left) \/ (compacts /\ "meta" \in ahead /\ ckpt.below) THEN {"rows"} ELSE {})
        \cup (IF gone \/ compacts \/ cut THEN {"graph"} ELSE {})

\* The process is gone; the next start loads the checkpoint and recovers.
Restart ==
  /\ entry' = IF ckpt.key THEN "nil" ELSE "absent"
  /\ ix' = Nowhere /\ shadow' = None /\ op' = NoOp /\ mode' = "recovering" /\ pos' = 0
  /\ torn' = torn \cup Tearing
  /\ UNCHANGED <<disk, log, ckpt, recs, want>>

Crash ==
  /\ mode # "failed" /\ crashes < MaxCrashes
  /\ crashes' = crashes + 1
  /\ Restart

\* StartTenant again, after a recovery that failed.
Retry ==
  /\ mode = "failed" /\ crashes <= MaxCrashes
  /\ crashes' = crashes + 1
  /\ Restart

\* Instance.Stop after its checkpoint: the shadow is let go, metadata and graph
\* are written.
CloseAll ==
  /\ mode = "up" /\ Idle /\ entry = "open" /\ crashes < MaxCrashes
  /\ crashes' = crashes + 1
  /\ shadow' = None /\ op' = Do(None, Close(ix), "stop")
  /\ UNCHANGED <<entry, ix, disk, log, ckpt, mode, pos, recs, want, torn>>

Stopped ==
  /\ op.end = "stop" /\ op.todo = <<>>
  /\ Restart /\ UNCHANGED crashes

\* Whether recovery attaches an index to a key of the checkpoint.
ReopenPersisted == ckpt.key /\ disk.meta # None

\* ReopenPersisted, then VerifySeals, except for an index the log swaps.
VerifySeals ==
  /\ mode = "recovering" /\ pos = 0
  /\ LET reopens == ReopenPersisted
         sealed == ckpt.seal # None /\ ~\E j \in DOMAIN log : log[j].op = "SWAP"
     IN  IF \/ reopens /\ Fits(0)
            \/ sealed /\ ~(reopens /\ disk.meta = ckpt.seal)
           THEN mode' = "failed" /\ UNCHANGED <<entry, ix, pos>>
           ELSE /\ pos' = 1 /\ UNCHANGED mode
                /\ entry' = IF reopens THEN "open" ELSE entry
                /\ ix' = IF reopens THEN Attached ELSE ix
  /\ UNCHANGED <<shadow, disk, log, ckpt, op, recs, crashes, want, torn>>

Recovered ==
  /\ mode = "recovering" /\ Idle /\ pos > Len(log)
  /\ mode' = "up"
  /\ UNCHANGED <<entry, ix, shadow, disk, log, ckpt, op, pos, recs, crashes, want, torn>>

Next ==
  \/ Open \/ (\E rec \in Records : Log(rec)) \/ VCompact \/ Apply \/ FileStep
  \/ Checkpoint \/ SaveCheckpoint \/ Crash \/ Retry \/ CloseAll \/ Stopped
  \/ VerifySeals \/ Recovered

Spec == Init /\ [][Next]_vars

-----------------------------------------------------------------------------
(* Properties.                                                             *)

\* What the tenant serves once its recovery has gone through is what the
\* logged mutations say, whatever part of the index files the kill let through
\* and whatever of it replay applies a second time: the live ids, their own
\* vectors, all reachable by a search.  Excepted is what no record can write
\* again (Tearing): vectors below the checkpoint whose metadata was removed
\* and not put back, emptied by recovery or moved by half a compaction, and a
\* swap whose migration began below the checkpoint.
ServesTheLog ==
  mode = "up" /\ Idle /\ "rows" \notin torn =>
    LET i == IF entry = "open" THEN ix ELSE Opened(disk, Shape(0, Encoding))
    IN  Found(i, disk.data) = {<<id, want.vecs[id]>> : id \in {j \in Ids : want.vecs[j] # None}}

\* The graph searches walk was built over the rows it is used for, although a
\* saved graph is taken by its size alone.  Excepted are kills in a compaction
\* and between removal and renaming of the metadata.
GraphMatchesRows ==
  mode = "up" /\ Idle /\ entry = "open" /\ torn = {} => ix.graph = IdsOf(ix.rows)

\* What the commands have applied recovery applies too: on a log of additions
\* and deletions no record fails, however much of it the files already hold
\* and however often it has been replayed.  Excepted are migrations, and the
\* quota: rows that a compaction has freed are in use again in replay.
RecoveryRepeats ==
  mode = "failed" /\ pos > 0 =>
    \/ \E j \in DOMAIN log : log[j].op \in {"START", "MADD", "SWAP", "CANCEL"}
    \/ Adds(log[pos]) /\ ~Room(Base(log[pos]).rows, log[pos])

\* Recovery finds the index as the checkpoint sealed it and goes on to apply
\* the mutations logged after it.  (An index that only VMIGRATE START has made
\* has no dimension yet and does not reopen at all.)
SealsVerified == mode = "failed" /\ pos = 0 => disk.meta # None /\ Fits(0)

=============================================================================
