------------------------------ MODULE Keyspace ------------------------------
(***************************************************************************)
(* The string commands of the durable profile: what prepareDurableEffects  *)
(* logs for a command, what Dispatch does to the store a moment later, and *)
(* what recovery makes of the log; deadlines, the expiry heap and its      *)
(* reaper; the memory accounting that admits writes.                       *)
(*                                                                         *)
(* Time is counted in ticks, Second of them to the second, and passes      *)
(* between the steps of a command: prepareDurableEffects and Dispatch read *)
(* the clock on their own.  A value is the decimal number its bytes spell. *)
(* The log is durable here (Durability is about its loss): a sequence of   *)
(* effects, transaction after transaction.  A client's call is its load of *)
(* accountedMemory, its critical section up to the log append, and the     *)
(* dispatch that ends it.                                                  *)
(***************************************************************************)
EXTENDS Integers, Sequences, FiniteSets, SequencesExt

CONSTANTS
  Keys,        \* string keys
  Clients,     \* connections
  None,        \* no entry
  Second,      \* ticks in a second
  TTLs,        \* lifetimes clients ask for, in ticks (PX), EX in multiples of Second
  Ops,         \* the commands clients send
  Limit,       \* Executor.maxMemory
  Start,       \* the clock at the beginning
  MaxNow,      \* bound: the clock at the end
  MaxFlight,   \* bound: ticks from prepareDurableEffects to Dispatch
  MaxCmds,     \* bound: commands
  MaxCrashes   \* bound: restarts

ASSUME ClockAssumption ==
  /\ Second \in Nat \ {0} /\ Start \in Nat /\ Start > Second + 1
  /\ MaxNow \in Nat /\ MaxFlight \in Nat /\ MaxCmds \in Nat /\ MaxCrashes \in Nat
ASSUME TTLAssumption == TTLs \subseteq Nat
ASSUME NoneAssumption == None \notin [val : Int, exp : Nat, ver : Nat]

VARIABLES
  store,      \* KVStore: entries, expiry heaps, version counter
  now,        \* time.Now()
  log,        \* the effects of the WAL records above the checkpoint, in order
  ckpt,       \* the installed checkpoint: value and deadline of each key
  call,       \* what each client's Execute is doing
  accounted,  \* Executor.accountedMemory
  replay,     \* next effect recovery applies; 0 when the tenant serves
  cmds, crashes,
  \* history
  parted,     \* keys whose store and log a command has driven apart
  bumped,     \* keys with a deadline whose version INCR has moved
  drift       \* accountedMemory lost an update or counted a command that failed;
              \* a restart measures afresh

vars == <<store, now, log, ckpt, call, accounted, replay, cmds, crashes,
          parted, bumped, drift>>

-----------------------------------------------------------------------------
(* KVStore.  A store is its entries, the items of its heaps and the last   *)
(* version handed out.                                                     *)

Item(k, e) == [key |-> k, exp |-> e.exp, ver |-> e.ver]

\* Get: present and not expired.
Visible(s, k, t) == s.kv[k] # None /\ (s.kv[k].exp = 0 \/ t <= s.kv[k].exp)

\* Store an entry; an entry with a deadline gets a heap item.
Put(s, k, e) ==
  [s EXCEPT !.kv[k] = e, !.ver = @ + 1,
            !.heap = IF e.exp > 0 THEN @ \cup {Item(k, e)} ELSE @]

Set(s, k, v, exp) == Put(s, k, [val |-> v, exp |-> exp, ver |-> s.ver + 1])

Delete(s, k) == [s EXCEPT !.kv[k] = None]

\* Mutant of Expire: the entry keeps its version and no item is pushed.
Expire_NoItem(s, k, seconds, t) ==
  IF ~Visible(s, k, t) THEN s
  ELSE IF seconds <= 0 THEN Delete(s, k)
  ELSE [s EXCEPT !.kv[k].exp = t + seconds * Second]

Expire(s, k, seconds, t) ==
  IF ~Visible(s, k, t) THEN s
  ELSE IF seconds <= 0 THEN Delete(s, k)
  ELSE Set(s, k, s.kv[k].val, t + seconds * Second)

\* The version stays, so an item of the old deadline keeps matching it.
Persist(s, k, t) == IF Visible(s, k, t) THEN [s EXCEPT !.kv[k].exp = 0] ELSE s

Rename(s, from, to, t) ==
  LET e == s.kv[from]
  IN  IF ~Visible(s, from, t) THEN s
      ELSE IF e.exp > 0 /\ e.exp <= t THEN Delete(s, from)
      ELSE Set(Delete(s, from), to, e.val, e.exp)

\* Incr moves the version and pushes no item.
Incr(s, k, by, t) ==
  IF Visible(s, k, t)
    THEN [s EXCEPT !.kv[k].val = @ + by, !.kv[k].ver = s.ver + 1, !.ver = @ + 1]
    ELSE Set(s, k, by, 0)

\* Appends the byte 1; a new entry has version 0.
Append1(s, k, t) ==
  IF Visible(s, k, t) THEN [s EXCEPT !.kv[k].val = 10 * @ + 1]
                      ELSE [s EXCEPT !.kv[k] = [val |-> 1, exp |-> 0, ver |-> 0]]

-----------------------------------------------------------------------------
(* Commands, as ParseSetArgs and the argument checks leave them: s is a     *)
(* lifetime in seconds, which PX rounds down, 0 for none.  SETEX is SET with *)
(* one, GETSET is SET without; INCRBY and DECRBY are INCR and DECR.  EXPIRE  *)
(* takes any number, also one that leads back before 1970 (time 0).          *)

Cmd(op, k, to, s) == [op |-> op, k |-> k, to |-> to, s |-> s]

Seconds == {p \div Second : p \in TTLs}

Commands ==
  {c \in {Cmd(op, k, k, s) : op \in {"SET", "SET NX", "SET XX"}, k \in Keys, s \in Seconds \cup {0}}
           \cup {Cmd("EXPIRE", k, k, s) : k \in Keys, s \in Seconds \cup {-1, -Start}}
           \cup {Cmd(op, k, to, 0) : op \in {"RENAME", "DEL"}, k \in Keys, to \in Keys}
           \cup {c \in {Cmd("MSET", k, to, 0) : k \in Keys, to \in Keys} : c.to # c.k}
           \cup {Cmd(op, k, k, 0) : op \in {"SETNX", "PERSIST", "INCR", "DECR", "APPEND"},
                                    k \in Keys}
     : c.op \in Ops}

\* The value a client sets.
NewVal == 9

Written(c) == {c.k, c.to}

\* Whether SET and SETNX go ahead.
Admits(s, c, t) ==
  CASE c.op \in {"SET NX", "SETNX"} -> ~Visible(s, c.k, t)
    [] c.op = "SET XX"              -> Visible(s, c.k, t)
    [] OTHER                        -> TRUE

\* Dispatch on the live store at time t.
KeyCommand(s, c, t) ==
  CASE c.op = "DEL"     -> Delete(Delete(s, c.k), c.to)
    [] c.op = "EXPIRE"  -> Expire(s, c.k, c.s, t)
    [] c.op = "PERSIST" -> Persist(s, c.k, t)
    [] c.op = "RENAME"  -> Rename(s, c.k, c.to, t)

StringCommand(s, c, t) ==
  CASE c.op \in {"SET", "SET NX", "SET XX", "SETNX"} ->
         IF Admits(s, c, t)
           THEN Set(s, c.k, NewVal, IF c.s > 0 THEN t + c.s * Second ELSE 0) ELSE s
    [] c.op = "MSET"   -> Set(Set(s, c.k, NewVal, 0), c.to, NewVal, 0)
    [] c.op = "INCR"   -> Incr(s, c.k, 1, t)
    [] c.op = "DECR"   -> Incr(s, c.k, -1, t)
    [] c.op = "APPEND" -> Append1(s, c.k, t)

Dispatched(s, c, t) ==
  IF c.op \in {"DEL", "EXPIRE", "PERSIST", "RENAME"} THEN KeyCommand(s, c, t)
                                                     ELSE StringCommand(s, c, t)

-----------------------------------------------------------------------------
(* Logged effects.                                                         *)

SetTo(k, v, exp) == [type |-> "set", key |-> k, val |-> v, exp |-> exp]
Drop(k) == [type |-> "delete", key |-> k, val |-> 0, exp |-> 0]
DeadlineOf(k, exp) == [type |-> "expire", key |-> k, val |-> 0, exp |-> exp]

\* The final state of every key the command will touch, as seen at time t.
prepareDurableEffects(s, c, t) ==
  LET e == s.kv[c.k]
      seen == Visible(s, c.k, t)
  IN  CASE c.op \in {"SET", "SET NX", "SET XX", "SETNX"} ->
             IF Admits(s, c, t)
               THEN <<SetTo(c.k, NewVal, IF c.s > 0 THEN t + c.s * Second ELSE 0)>> ELSE <<>>
        [] c.op = "MSET"    -> <<SetTo(c.k, NewVal, 0), SetTo(c.to, NewVal, 0)>>
        [] c.op = "DEL"     -> [i \in 1..Cardinality({k \in Written(c) : Visible(s, k, t)}) |->
                                  Drop(IF i = 1 /\ seen THEN c.k ELSE c.to)]
        [] c.op = "EXPIRE"  -> IF seen THEN <<DeadlineOf(c.k, t + c.s * Second)>> ELSE <<>>
        [] c.op = "PERSIST" -> IF seen /\ e.exp # 0 THEN <<DeadlineOf(c.k, 0)>> ELSE <<>>
        [] c.op = "RENAME"  -> IF seen THEN <<SetTo(c.to, e.val, e.exp), Drop(c.k)>> ELSE <<>>
        [] c.op = "INCR"    -> <<IF seen THEN SetTo(c.k, e.val + 1, e.exp) ELSE SetTo(c.k, 1, 0)>>
        [] c.op = "DECR"    -> <<IF seen THEN SetTo(c.k, e.val - 1, e.exp) ELSE SetTo(c.k, -1, 0)>>
        [] c.op = "APPEND"  -> <<IF seen THEN SetTo(c.k, 10 * e.val + 1, e.exp)
                                         ELSE SetTo(c.k, 1, 0)>>

\* A record Dispatch writes itself when nothing was prepared: SET that went
\* ahead after all (its TTLNano counts the seconds as milliseconds, to which
\* WAL.Write adds the time), and DEL of an entry that had expired.
LegacyRecord(s, c, t) ==
  CASE c.op \in {"SET", "SET NX", "SET XX"} /\ Admits(s, c, t) ->
         <<SetTo(c.k, NewVal, IF c.s > 0 THEN t + (c.s * Second) \div 1000 ELSE 0)>>
    [] c.op = "DEL" /\ (s.kv[c.k] # None \/ s.kv[c.to] # None) -> <<Drop(c.k), Drop(c.to)>>
    [] OTHER -> <<>>

\* Mutant of ApplySet: a set that has expired by now is passed over.
ApplySet_Skip(s, eff, t) ==
  IF eff.exp > 0 /\ eff.exp <= t THEN s ELSE Set(s, eff.key, eff.val, eff.exp)

ApplySet(s, eff, t) ==
  IF eff.exp > 0 /\ eff.exp <= t THEN Delete(s, eff.key) ELSE Set(s, eff.key, eff.val, eff.exp)

\* applyRecoveredEffect: a deadline is turned back into whole seconds, at
\* least one.
ApplyEffect(s, eff, t) ==
  LET left == eff.exp - t
  IN  CASE eff.type = "delete" -> Delete(s, eff.key)
        [] eff.type = "set" -> ApplySet(s, eff, t)
        [] eff.type = "expire" ->
             IF eff.exp <= 0 THEN Persist(s, eff.key, t)
             ELSE IF left <= 0 THEN Delete(s, eff.key)
             ELSE Expire(s, eff.key, IF left < Second THEN 1 ELSE left \div Second, t)

\* LoadWithHeader: what has expired is skipped.
Loaded(img, t) ==
  LET live == {k \in Keys : img[k] # None /\ (img[k].exp = 0 \/ img[k].exp > t)}
      kv == [k \in Keys |-> IF k \in live THEN [val |-> img[k].val, exp |-> img[k].exp, ver |-> 1]
                                          ELSE None]
  IN  [kv |-> kv, ver |-> 1,
       heap |-> {Item(k, kv[k]) : k \in {j \in live : img[j].exp > 0}}]

\* The store a recovery at time t would rebuild.
Replayed(t) == FoldLeft(LAMBDA s, eff : ApplyEffect(s, eff, t), Loaded(ckpt, t), log)

-----------------------------------------------------------------------------
(* Memory accounting, in units: an entry is Overhead and its digits, a heap *)
(* item is one.                                                            *)

Overhead == 2
Digits(v) == (IF v < 0 THEN 1 ELSE 0)
               + (IF v > -10 /\ v < 10 THEN 1 ELSE IF v > -100 /\ v < 100 THEN 2 ELSE 3)
Bytes(v) == Overhead + Digits(v)

\* The string part of KVStore.MemoryUsage.
DataBytes(s, t) ==
  MapThenSumSet(LAMBDA k : Bytes(s.kv[k].val), {k \in Keys : Visible(s, k, t)})

measureMemoryUsage(s, t) == DataBytes(s, t) + Cardinality(s.heap)

\* Mutant of OldBytes: an expired entry is subtracted too.
OldBytes_Expired(s, k, t) == IF s.kv[k] # None THEN Bytes(s.kv[k].val) ELSE 0

OldBytes(s, k, t) == IF Visible(s, k, t) THEN Bytes(s.kv[k].val) ELSE 0

\* What accountedMemory would become: of each key the last effect counts.
effectsFitQuota(s, effs, t) ==
  LET touched == {e.key : e \in {x \in ToSet(effs) : x.type # "expire"}}
      last(k) == effs[CHOOSE i \in DOMAIN effs : /\ effs[i].key = k
                        /\ \A j \in DOMAIN effs : effs[j].key = k => j <= i]
      new(k) == IF last(k).type = "set" THEN Bytes(last(k).val) ELSE 0
  IN  accounted + MapThenSumSet(LAMBDA k : new(k) - OldBytes(s, k, t), touched)

-----------------------------------------------------------------------------
NoCmd == Cmd("none", None, None, 0)
Idle == [pc |-> "idle", cmd |-> NoCmd, at |-> 0, projected |-> 0, logged |-> FALSE, seen |-> {}]

\* A tenant that has come up from a checkpoint, which may be empty.
Init ==
  /\ now = Start /\ log = <<>>
  /\ ckpt \in [Keys -> [val : {NewVal}, exp : {0, Start + Second}, ver : {0}] \cup {None}]
  /\ store = Loaded(ckpt, now)
  /\ call = [c \in Clients |-> Idle]
  /\ accounted = measureMemoryUsage(store, now) /\ replay = 0 /\ cmds = 0 /\ crashes = 0
  /\ parted = {} /\ bumped = {} /\ drift = FALSE

Serving == replay = 0

\* mutationMu: held from the prepared effects to the end of Dispatch.
Unlocked == \A c \in Clients : call[c].pc # "logged"

\* Execute up to mutationMu: projectedMemory is loaded before the lock.
Execute(c, cmd) ==
  /\ Serving /\ call[c].pc = "idle" /\ cmds < MaxCmds
  /\ call' = [call EXCEPT ![c] = [Idle EXCEPT !.pc = "waiting", !.cmd = cmd,
                                              !.projected = accounted]]
  /\ cmds' = cmds + 1
  /\ UNCHANGED <<store, now, log, ckpt, accounted, replay, crashes, parted, bumped, drift>>

\* Under mutationMu: the effects, the quota, the log.  Without effects the
\* value loaded before the lock stays.
Prepare(c) ==
  /\ Serving /\ call[c].pc = "waiting" /\ Unlocked
  /\ LET effs == prepareDurableEffects(store, call[c].cmd, now)
         projected == effectsFitQuota(store, effs, now)
         held == [call[c] EXCEPT !.pc = "logged", !.at = now,
                    !.seen = {k \in Written(call[c].cmd) : Visible(store, k, now)}]
     IN  \/ effs = <<>>
            /\ call' = [call EXCEPT ![c] = held]
            /\ UNCHANGED log
         \/ effs # <<>> /\ projected <= Limit
            /\ call' = [call EXCEPT ![c] = [held EXCEPT !.projected = projected, !.logged = TRUE]]
            /\ log' = log \o effs
         \/ effs # <<>> /\ projected > Limit
            /\ call' = [call EXCEPT ![c] = Idle]
            /\ UNCHANGED log
  /\ UNCHANGED <<store, now, ckpt, accounted, replay, cmds, crashes, parted, bumped, drift>>

\* An entry the command found when its effects were prepared has expired or
\* was reaped since; Rename gives up already at the deadline itself.
Raced(c) ==
  \E k \in call[c].seen :
    \/ ~Visible(store, k, now)
    \/ call[c].cmd.op = "RENAME" /\ store.kv[k].exp \in 1..now

SelfRename(c) ==
  LET cmd == call[c].cmd
  IN  cmd.op = "RENAME" /\ cmd.k = cmd.to /\ Visible(store, cmd.k, now)

\* EXPIRE of a deadline before 1970: Dispatch deletes, the log persists.
BeforeEpoch(c) ==
  LET cmd == call[c].cmd
  IN  cmd.op = "EXPIRE" /\ call[c].logged /\ call[c].at + cmd.s * Second <= 0

\* Dispatch, the record it may write itself, and accountedMemory.
Dispatch(c) ==
  /\ Serving /\ call[c].pc = "logged"
  /\ LET cmd == call[c].cmd
         legacy == IF call[c].logged THEN <<>> ELSE LegacyRecord(store, cmd, now)
         apart == Raced(c) \/ SelfRename(c) \/ BeforeEpoch(c)
     IN  /\ store' = Dispatched(store, cmd, now)
         /\ log' = log \o legacy
         /\ parted' = IF apart THEN parted \cup Written(cmd) ELSE parted
         /\ drift' = (drift \/ apart \/ (~call[c].logged /\ call[c].projected < accounted))
         /\ bumped' = {k \in Keys :
                         /\ store'.kv[k] # None /\ store'.kv[k].exp > 0
                         /\ \/ k \in bumped /\ store'.kv[k].ver = store.kv[k].ver
                            \/ cmd.op \in {"INCR", "DECR"} /\ k = cmd.k}
  /\ accounted' = call[c].projected
  /\ call' = [call EXCEPT ![c] = Idle]
  /\ UNCHANGED <<now, ckpt, replay, cmds, crashes>>

\* Mutant of Reap: the item's version and deadline are not compared.
Reap_AnyItem ==
  /\ Serving
  /\ \E i \in store.heap :
       /\ i.exp <= now
       /\ store' = [store EXCEPT !.heap = @ \ {i}, !.kv[i.key] = None]
  /\ UNCHANGED <<now, log, ckpt, call, accounted, replay, cmds, crashes, parted, bumped, drift>>

\* One turn of DeleteExpiredLimit's loop: a due item is popped, and its entry
\* goes if version and deadline are still the item's.
Reap ==
  /\ Serving
  /\ \E i \in store.heap :
       /\ i.exp <= now
       /\ store' = [store EXCEPT !.heap = @ \ {i},
                      !.kv[i.key] = IF @ # None /\ Item(i.key, @) = i THEN None ELSE @]
  /\ UNCHANGED <<now, log, ckpt, call, accounted, replay, cmds, crashes, parted, bumped, drift>>

Tick ==
  /\ now < MaxNow
  /\ \A c \in Clients : call[c].pc = "logged" => now < call[c].at + MaxFlight
  /\ now' = now + 1
  /\ UNCHANGED <<store, log, ckpt, call, accounted, replay, cmds, crashes, parted, bumped, drift>>

\* Executor.Checkpoint: the visible entries with their deadlines.
Checkpoint ==
  /\ Serving /\ Unlocked /\ log # <<>>
  /\ ckpt' = [k \in Keys |-> IF Visible(store, k, now)
                               THEN [val |-> store.kv[k].val, exp |-> store.kv[k].exp, ver |-> 0]
                               ELSE None]
  /\ log' = <<>> /\ parted' = {}
  /\ UNCHANGED <<store, now, call, accounted, replay, cmds, crashes, bumped, drift>>

-----------------------------------------------------------------------------
(* A restart: the checkpoint is loaded, then the log is applied effect by  *)
(* effect, then SetMemoryLimit measures.                                   *)

Crash ==
  /\ Serving /\ crashes < MaxCrashes
  /\ crashes' = crashes + 1
  /\ call' = [c \in Clients |-> Idle]
  /\ store' = Loaded(ckpt, now) /\ replay' = 1
  /\ parted' = {} /\ bumped' = {} /\ accounted' = 0
  /\ UNCHANGED <<now, log, ckpt, cmds, drift>>

Recover ==
  /\ ~Serving /\ replay <= Len(log)
  /\ store' = ApplyEffect(store, log[replay], now)
  /\ replay' = replay + 1
  /\ UNCHANGED <<now, log, ckpt, call, accounted, cmds, crashes, parted, bumped, drift>>

SetMemoryLimit ==
  /\ ~Serving /\ replay > Len(log)
  /\ accounted' = measureMemoryUsage(store, now) /\ replay' = 0
  /\ drift' = (drift /\ DataBytes(store, now) > Limit)
  /\ UNCHANGED <<store, now, log, ckpt, call, cmds, crashes, parted, bumped>>

Next ==
  \/ \E c \in Clients :
       \/ \E cmd \in Commands : Execute(c, cmd)
       \/ Prepare(c) \/ Dispatch(c)
  \/ Reap \/ Tick \/ Checkpoint \/ Crash \/ Recover \/ SetMemoryLimit

Spec == Init /\ [][Next]_vars

-----------------------------------------------------------------------------
(* Properties.                                                             *)

\* How far a deadline in the store and its logged form may lie apart: the
\* time a command is in flight, and the second replay rounds by.
Slack == MaxFlight + Second

Near(a, b) == a - b <= Slack /\ b - a <= Slack

\* The store and the log agree on k: the same value, with deadlines a second
\* apart at most; an entry one of them lacks is about to expire.
Agree(k) ==
  LET there == Replayed(now)
      L == Visible(store, k, now)
      R == Visible(there, k, now)
      l == store.kv[k]
      r == there.kv[k]
  IN  /\ L /\ R => l.val = r.val /\ (l.exp = 0 <=> r.exp = 0) /\ Near(l.exp, r.exp)
      /\ L /\ ~R => l.exp # 0 /\ Near(l.exp, now)
      /\ R /\ ~L => r.exp # 0 /\ Near(r.exp, now)

\* The log prolongs a lifetime (EXPIRE, PERSIST) that an effect before it, or
\* the checkpoint, lets end by now: replay drops the key before it gets there.
Prolonged(k) ==
  \E j \in DOMAIN log :
    /\ log[j].type = "expire" /\ log[j].key = k
    /\ \/ ckpt[k] # None /\ ckpt[k].exp \in 1..now
       \/ \E i \in 1..(j - 1) : log[i].key = k /\ log[i].exp \in 1..now

\* What Dispatch did to the store is what recovery makes of the effects
\* prepareDurableEffects logged for it, for every sequence of commands,
\* checkpoints and restarts.  Excepted are a key whose entry expired between
\* the two, RENAME of a key to itself, EXPIRE of a deadline before 1970, and a
\* prolonged lifetime.
ReplayAgrees ==
  Serving /\ Unlocked =>
    \A k \in Keys : k \in parted \/ Prolonged(k) \/ Agree(k)

\* The same without the exceptions: an effect is the final state of its key.
EffectsAreFinal == Serving /\ Unlocked => \A k \in Keys \ parted : Agree(k)

\* The admission check of effectsFitQuota bounds the data: as long as no
\* update of accountedMemory was lost, it covers the visible strings, which
\* stay within the limit.
QuotaHolds ==
  Serving /\ ~drift =>
    /\ Unlocked => DataBytes(store, now) <= accounted
    /\ DataBytes(store, now) <= Limit

\* DeleteExpiredLimit finds every entry with a deadline by its heap item; only
\* INCR and DECR, which move the version, hide one.
ReaperFinds ==
  \A k \in Keys \ bumped :
    store.kv[k] # None /\ store.kv[k].exp > 0 => Item(k, store.kv[k]) \in store.heap

\* Nothing but a command, a restart or its own deadline takes an entry away:
\* a stale heap item never reaps a key that was set again, persisted or given
\* a later deadline.
NothingReapedEarly ==
  [][Serving /\ Serving' /\ call' = call =>
       \A k \in Keys : store.kv[k] # None /\ store'.kv[k] = None =>
                         store.kv[k].exp \in 1..now]_vars

=============================================================================
