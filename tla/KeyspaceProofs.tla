--------------------------- MODULE KeyspaceProofs ---------------------------
(***************************************************************************)
(* Deadlines and the expiry heap, proved for any keys, clients, lifetimes,  *)
(* commands and restarts: the reaper finds what it has to delete, and       *)
(* deletes nothing else.                                                    *)
(***************************************************************************)
EXTENDS Keyspace, FiniteSetTheorems, SequenceTheorems, TLAPS

\* The leaves are small; the time is for the translation of a large context.
USE SMTT(30), ZenonT(30)

-----------------------------------------------------------------------------
(* Types.                                                                   *)

Entries == [val : Int, exp : Nat, ver : Nat]
Images == [Keys -> Entries \cup {None}]
Items == [key : Keys, exp : Nat \ {0}, ver : Nat]
Stores == [kv : Images, ver : Nat, heap : SUBSET Items]

\* Only a "set" effect has a deadline that is never negative.
Effects ==
  {e \in [type : {"set", "delete", "expire"}, key : Keys, val : Int, exp : Int] :
     e.type = "set" => e.exp \in Nat}

KeyOps == {"DEL", "EXPIRE", "PERSIST", "RENAME"}
SetOps == {"SET", "SET NX", "SET XX", "SETNX"}
Orders ==
  [op : KeyOps \cup SetOps \cup {"MSET", "INCR", "DECR", "APPEND"}, k : Keys, to : Keys, s : Int]

\* accountedMemory is a sum over the store: what it is does not matter here.
Calls(projected) ==
  [pc : {"idle", "waiting", "logged"}, cmd : Orders \cup {NoCmd}, at : Nat,
   projected : {projected}, logged : BOOLEAN, seen : SUBSET Keys]

CallsTyped ==
  /\ call = [c \in Clients |-> call[c]]
  /\ \A c \in Clients : /\ call[c] \in Calls(call[c].projected)
                        /\ call[c].pc # "idle" => call[c].cmd \in Orders

Types ==
  /\ store \in Stores /\ now \in Nat /\ log \in Seq(Effects) /\ ckpt \in Images
  /\ replay \in Nat /\ CallsTyped

-----------------------------------------------------------------------------
(* What the operations of KVStore do to a store: each keeps its type, and   *)
(* leaves every key outside X without a deadline, with an item in the heap, *)
(* or with the deadline and version it had.                                 *)

Itemised(s, s2, X) ==
  /\ s.heap \subseteq s2.heap
  /\ \A k \in Keys \ X :
       s2.kv[k] # None /\ s2.kv[k].exp > 0 =>
         \/ Item(k, s2.kv[k]) \in s2.heap
         \/ s.kv[k] # None /\ Item(k, s.kv[k]) = Item(k, s2.kv[k])

LEMMA ItemisedTwice ==
  ASSUME NEW s, NEW s1, NEW s2, Itemised(s, s1, {}), Itemised(s1, s2, {})
  PROVE  Itemised(s, s2, {})
  BY ZenonT(30) DEF Itemised, Item

LEMMA ItemisedSame ==
  ASSUME NEW s PROVE Itemised(s, s, {})
  BY DEF Itemised

LEMMA Products ==
  ASSUME NEW a \in Nat, NEW b \in Nat PROVE a * b \in Nat
  OBVIOUS

LEMMA PutStore ==
  ASSUME NEW s \in Stores, NEW k \in Keys, NEW e \in Entries
  PROVE  Put(s, k, e) \in Stores /\ Itemised(s, Put(s, k, e), {})
<1> DEFINE s2 == Put(s, k, e)
<1>0. s2.kv = [s.kv EXCEPT ![k] = e] /\ s2.ver = s.ver + 1
  BY DEF Put, Stores
<1>1. s2.heap = IF e.exp > 0 THEN s.heap \cup {Item(k, e)} ELSE s.heap
  BY DEF Put, Stores
<1>2. e.exp > 0 => Item(k, e) \in Items
  BY DEF Item, Items, Entries
<1>3. s2.kv \in Images /\ s2.ver \in Nat /\ s2.heap \in SUBSET Items
  BY <1>0, <1>1, <1>2 DEF Stores, Images
<1>4. s2 \in Stores
  BY ZenonT(30), <1>3 DEF Put, Stores
<1>5. ASSUME NEW j \in Keys, s2.kv[j] # None, s2.kv[j].exp > 0
      PROVE  Item(j, s2.kv[j]) \in s2.heap \/ s.kv[j] = s2.kv[j]
  BY ZenonT(30), <1>0, <1>1, <1>5 DEF Stores, Images
<1>6. s.heap \subseteq s2.heap
  BY <1>1
<1> HIDE DEF s2
<1>7. Itemised(s, s2, {})
  BY <1>5, <1>6 DEF Itemised
<1>8. QED
  BY <1>4, <1>7 DEF s2

LEMMA SetStore ==
  ASSUME NEW s \in Stores, NEW k \in Keys, NEW v \in Int, NEW exp \in Nat
  PROVE  Set(s, k, v, exp) \in Stores /\ Itemised(s, Set(s, k, v, exp), {})
<1>1. [val |-> v, exp |-> exp, ver |-> s.ver + 1] \in Entries
  BY DEF Entries, Stores
<1>2. QED
  BY <1>1, PutStore DEF Set

LEMMA DeleteStore ==
  ASSUME NEW s \in Stores, NEW k \in Keys
  PROVE  Delete(s, k) \in Stores /\ Itemised(s, Delete(s, k), {})
<1>1. Delete(s, k) \in Stores
  BY DEF Delete, Stores, Images
<1>2. Itemised(s, Delete(s, k), {})
  BY DEF Delete, Stores, Images, Itemised
<1>3. QED
  BY <1>1, <1>2

LEMMA ExpireStore ==
  ASSUME NEW s \in Stores, NEW k \in Keys, NEW seconds \in Int, NEW t \in Nat
  PROVE  /\ Expire(s, k, seconds, t) \in Stores
         /\ Itemised(s, Expire(s, k, seconds, t), {})
<1>1. CASE ~Visible(s, k, t)
  BY <1>1, ItemisedSame DEF Expire
<1>2. CASE Visible(s, k, t) /\ seconds <= 0
  BY ZenonT(30), <1>2, DeleteStore DEF Expire
<1>3. CASE Visible(s, k, t) /\ ~(seconds <= 0)
  <2>1. t + seconds * Second \in Nat
    BY <1>3, Products, ClockAssumption
  <2>2. s.kv[k].val \in Int
    BY <1>3 DEF Visible, Stores, Images, Entries
  <2>3. Expire(s, k, seconds, t) = Set(s, k, s.kv[k].val, t + seconds * Second)
    BY <1>3 DEF Expire
  <2>4. QED
    BY ZenonT(30), <2>1, <2>2, <2>3, SetStore
<1>4. QED
  BY ZenonT(30), <1>1, <1>2, <1>3

LEMMA PersistStore ==
  ASSUME NEW s \in Stores, NEW k \in Keys, NEW t \in Nat
  PROVE  Persist(s, k, t) \in Stores /\ Itemised(s, Persist(s, k, t), {})
<1>1. CASE ~Visible(s, k, t)
  BY <1>1, ItemisedSame DEF Persist
<1>2. CASE Visible(s, k, t)
  <2> DEFINE s2 == Persist(s, k, t)
  <2>1. s.kv[k] \in Entries
    BY <1>2 DEF Visible, Stores, Images
  <2>2. s2.kv = [s.kv EXCEPT ![k] = [s.kv[k] EXCEPT !.exp = 0]] /\ s2.heap = s.heap
    BY <1>2 DEF Persist, Stores
  <2>3. [s.kv[k] EXCEPT !.exp = 0] \in Entries /\ [s.kv[k] EXCEPT !.exp = 0].exp = 0
    BY <2>1 DEF Entries
  <2>4. s2 \in Stores
    BY ZenonT(30), <1>2, <2>2, <2>3 DEF Persist, Stores, Images
  <2> HIDE DEF s2
  <2>5. Itemised(s, s2, {})
    BY <2>2, <2>3 DEF Itemised, Stores, Images
  <2>6. QED
    BY <2>4, <2>5 DEF s2
<1>3. QED
  BY <1>1, <1>2

LEMMA RenameStore ==
  ASSUME NEW s \in Stores, NEW k \in Keys, NEW to \in Keys, NEW t \in Nat
  PROVE  Rename(s, k, to, t) \in Stores /\ Itemised(s, Rename(s, k, to, t), {})
<1> DEFINE e == s.kv[k]
<1>1. CASE ~Visible(s, k, t)
  BY <1>1, ItemisedSame DEF Rename
<1>2. CASE Visible(s, k, t) /\ e.exp > 0 /\ e.exp <= t
  BY <1>2, DeleteStore DEF Rename
<1>3. CASE Visible(s, k, t) /\ ~(e.exp > 0 /\ e.exp <= t)
  <2>1. e.val \in Int /\ e.exp \in Nat
    BY <1>3 DEF Visible, Stores, Images, Entries
  <2>2. Rename(s, k, to, t) = Set(Delete(s, k), to, e.val, e.exp)
    BY <1>3 DEF Rename
  <2> HIDE DEF e
  <2>3. Delete(s, k) \in Stores /\ Itemised(s, Delete(s, k), {})
    BY DeleteStore
  <2>4. /\ Set(Delete(s, k), to, e.val, e.exp) \in Stores
        /\ Itemised(Delete(s, k), Set(Delete(s, k), to, e.val, e.exp), {})
    BY ZenonT(30), <2>1, <2>3, SetStore
  <2>5. QED
    BY ZenonT(30), <2>2, <2>3, <2>4, ItemisedTwice
<1>4. QED
  BY ZenonT(30), <1>1, <1>2, <1>3

\* INCR moves the version of its key and pushes no item: the one exception.
LEMMA IncrStore ==
  ASSUME NEW s \in Stores, NEW k \in Keys, NEW by \in Int, NEW t \in Nat
  PROVE  Incr(s, k, by, t) \in Stores /\ Itemised(s, Incr(s, k, by, t), {k})
<1>1. CASE ~Visible(s, k, t)
  <2>1. Incr(s, k, by, t) = Set(s, k, by, 0)
    BY <1>1 DEF Incr
  <2>2. QED
    BY <2>1, SetStore DEF Itemised
<1>2. CASE Visible(s, k, t)
  <2> DEFINE s2 == Incr(s, k, by, t)
             e1 == [s.kv[k] EXCEPT !.val = s.kv[k].val + by]
             e2 == [e1 EXCEPT !.ver = s.ver + 1]
  <2>1. s.kv[k] \in Entries
    BY <1>2 DEF Visible, Stores, Images
  <2>2. /\ s2.kv = [s.kv EXCEPT ![k] = e2]
        /\ s2.heap = s.heap /\ s2.ver = s.ver + 1
    BY ZenonT(30), <1>2 DEF Incr, Stores, Images
  <2>3. e2 \in Entries
    <3>1. e1 \in Entries
      BY <2>1 DEF Entries
    <3>2. s.ver + 1 \in Nat
      BY DEF Stores
    <3> HIDE DEF e1
    <3>3. QED
      BY ZenonT(30), <3>1, <3>2 DEF Entries
  <2>4. s2 \in Stores
    <3>1. /\ s2.kv \in Images /\ s2.heap \in SUBSET Items /\ s2.ver \in Nat
      <4> HIDE DEF e2, s2
      <4>1. QED
        BY <2>2, <2>3 DEF Stores, Images
    <3>2. QED
      BY ZenonT(30), <1>2, <3>1 DEF Incr, Stores
  <2> HIDE DEF s2
  <2>5. Itemised(s, s2, {k})
    BY ZenonT(30), <2>2 DEF Itemised, Stores, Images
  <2>6. QED
    BY <2>4, <2>5 DEF s2
<1>3. QED
  BY ZenonT(30), <1>1, <1>2

LEMMA AppendStore ==
  ASSUME NEW s \in Stores, NEW k \in Keys, NEW t \in Nat
  PROVE  Append1(s, k, t) \in Stores /\ Itemised(s, Append1(s, k, t), {})
<1> DEFINE s2 == Append1(s, k, t)
<1>1. CASE ~Visible(s, k, t)
  <2> DEFINE e2 == [val |-> 1, exp |-> 0, ver |-> 0]
  <2>1. s2.kv = [s.kv EXCEPT ![k] = e2] /\ s2.heap = s.heap
    BY <1>1 DEF Append1, Stores
  <2>2. e2 \in Entries /\ e2.exp = 0
    BY DEF Entries
  <2>3. s2 \in Stores
    BY ZenonT(30), <1>1, <2>1, <2>2 DEF Append1, Stores, Images
  <2> HIDE DEF s2, e2
  <2>4. Itemised(s, s2, {})
    BY <2>1, <2>2 DEF Itemised, Stores, Images
  <2>5. QED
    BY <2>3, <2>4 DEF s2
<1>2. CASE Visible(s, k, t)
  <2> DEFINE e2 == [s.kv[k] EXCEPT !.val = 10 * s.kv[k].val + 1]
  <2>1. s.kv[k] \in Entries /\ s.kv[k] # None
    BY <1>2 DEF Visible, Stores, Images
  <2>2. s2.kv = [s.kv EXCEPT ![k] = e2] /\ s2.heap = s.heap
    BY <1>2 DEF Append1, Stores
  <2>3. e2 \in Entries /\ Item(k, e2) = Item(k, s.kv[k])
    BY <2>1 DEF Entries, Item
  <2>4. s2 \in Stores
    BY ZenonT(30), <1>2, <2>2, <2>3 DEF Append1, Stores, Images
  <2> HIDE DEF s2, e2
  <2>5. Itemised(s, s2, {})
    BY ZenonT(30), <2>1, <2>2, <2>3 DEF Itemised, Stores, Images
  <2>6. QED
    BY <2>4, <2>5 DEF s2
<1>3. QED
  BY <1>1, <1>2

-----------------------------------------------------------------------------
(* Commands, effects and checkpoints.                                       *)

\* Dispatch keeps the store's type; INCR and DECR are the exception above.
LEMMA DispatchedStore ==
  ASSUME NEW s \in Stores, NEW c \in Orders, NEW t \in Nat
  PROVE  /\ Dispatched(s, c, t) \in Stores
         /\ Itemised(s, Dispatched(s, c, t), IF c.op \in {"INCR", "DECR"} THEN {c.k} ELSE {})
<1>0. c.k \in Keys /\ c.to \in Keys /\ c.s \in Int
  BY DEF Orders
<1>1. CASE c.op = "DEL"
  <2>1. Delete(s, c.k) \in Stores /\ Itemised(s, Delete(s, c.k), {})
    BY ZenonT(30), <1>0, DeleteStore
  <2>2. /\ Delete(Delete(s, c.k), c.to) \in Stores
        /\ Itemised(Delete(s, c.k), Delete(Delete(s, c.k), c.to), {})
    BY ZenonT(30), <1>0, <2>1, DeleteStore
  <2>3. Dispatched(s, c, t) = Delete(Delete(s, c.k), c.to)
    BY <1>1 DEF Dispatched, KeyCommand
  <2>4. QED
    BY ZenonT(30), <1>1, <2>1, <2>2, <2>3, ItemisedTwice
<1>2. CASE c.op = "EXPIRE"
  <2>1. Dispatched(s, c, t) = Expire(s, c.k, c.s, t)
    BY <1>2 DEF Dispatched, KeyCommand
  <2>2. QED
    BY ZenonT(30), <1>0, <1>2, <2>1, ExpireStore
<1>3. CASE c.op = "PERSIST"
  <2>1. Dispatched(s, c, t) = Persist(s, c.k, t)
    BY ZenonT(30), <1>3 DEF Dispatched, KeyCommand
  <2>2. QED
    BY ZenonT(30), <1>0, <1>3, <2>1, PersistStore
<1>4. CASE c.op = "RENAME"
  <2>1. Dispatched(s, c, t) = Rename(s, c.k, c.to, t)
    BY <1>4 DEF Dispatched, KeyCommand
  <2>2. QED
    BY <1>0, <1>4, <2>1, RenameStore
<1>5. CASE c.op \in SetOps
  <2> DEFINE exp == IF c.s > 0 THEN t + c.s * Second ELSE 0
  <2>1. exp \in Nat
    BY <1>0, Products, ClockAssumption
  <2>2. Dispatched(s, c, t) = IF Admits(s, c, t) THEN Set(s, c.k, NewVal, exp) ELSE s
    BY <1>5 DEF Dispatched, StringCommand, SetOps
  <2> HIDE DEF exp
  <2>3. Set(s, c.k, NewVal, exp) \in Stores /\ Itemised(s, Set(s, c.k, NewVal, exp), {})
    BY <1>0, <2>1, SetStore DEF NewVal
  <2>4. c.op \notin {"INCR", "DECR"}
    BY <1>5 DEF SetOps
  <2>5. QED
    BY <2>2, <2>3, <2>4, ItemisedSame
<1>6. CASE c.op = "MSET"
  <2> DEFINE s1 == Set(s, c.k, NewVal, 0)
             s2 == Set(s1, c.to, NewVal, 0)
  <2>1. s1 \in Stores /\ Itemised(s, s1, {})
    BY <1>0, SetStore DEF NewVal
  <2> HIDE DEF s1
  <2>2. s2 \in Stores /\ Itemised(s1, s2, {})
    BY <1>0, <2>1, SetStore DEF NewVal
  <2>3. Dispatched(s, c, t) = s2
    BY <1>6 DEF Dispatched, StringCommand, s1
  <2> HIDE DEF s2
  <2>4. QED
    BY ZenonT(30), <1>6, <2>1, <2>2, <2>3, ItemisedTwice
<1>7. CASE c.op = "INCR"
  <2>1. Dispatched(s, c, t) = Incr(s, c.k, 1, t)
    BY <1>7 DEF Dispatched, StringCommand
  <2>2. QED
    BY <1>0, <1>7, <2>1, IncrStore
<1>8. CASE c.op = "DECR"
  <2>1. Dispatched(s, c, t) = Incr(s, c.k, -1, t)
    BY <1>8 DEF Dispatched, StringCommand
  <2>2. QED
    BY <1>0, <1>8, <2>1, IncrStore
<1>9. CASE c.op = "APPEND"
  <2>1. Dispatched(s, c, t) = Append1(s, c.k, t)
    BY <1>9 DEF Dispatched, StringCommand
  <2>2. QED
    BY <1>0, <1>9, <2>1, AppendStore
<1>10. QED
  BY <1>1, <1>2, <1>3, <1>4, <1>5, <1>6, <1>7, <1>8, <1>9 DEF Orders, KeyOps

\* applyRecoveredEffect gives every entry with a deadline its item.
LEMMA ApplyStore ==
  ASSUME NEW s \in Stores, NEW eff \in Effects, NEW t \in Nat
  PROVE  /\ ApplyEffect(s, eff, t) \in Stores
         /\ Itemised(s, ApplyEffect(s, eff, t), {})
<1>0. eff.key \in Keys /\ eff.val \in Int /\ eff.exp \in Int
  BY DEF Effects
<1>1. CASE eff.type = "delete"
  <2>1. ApplyEffect(s, eff, t) = Delete(s, eff.key)
    BY ZenonT(30), <1>1 DEF ApplyEffect
  <2>2. QED
    BY ZenonT(30), <1>0, <2>1, DeleteStore
<1>2. CASE eff.type = "set"
  <2>1. ApplyEffect(s, eff, t) \in {Delete(s, eff.key), Set(s, eff.key, eff.val, eff.exp)}
    BY <1>2 DEF ApplyEffect, ApplySet
  <2>2. eff.exp \in Nat
    BY <1>2 DEF Effects
  <2>3. QED
    BY <1>0, <2>1, <2>2, DeleteStore, SetStore
<1>3. CASE eff.type = "expire"
  <2> DEFINE left == eff.exp - t
             seconds == IF left < Second THEN 1 ELSE left \div Second
  <2>1. ApplyEffect(s, eff, t) \in {Persist(s, eff.key, t), Delete(s, eff.key),
                                   Expire(s, eff.key, seconds, t)}
    BY ZenonT(30), <1>3 DEF ApplyEffect
  <2>2. seconds \in Int
    BY <1>0, ClockAssumption
  <2> HIDE DEF seconds
  <2>3. QED
    BY ZenonT(30), <1>0, <2>1, <2>2, PersistStore, DeleteStore, ExpireStore
<1>4. QED
  BY <1>1, <1>2, <1>3 DEF Effects

LEMMA LoadedStore ==
  ASSUME NEW img \in Images, NEW t \in Nat
  PROVE  /\ Loaded(img, t) \in Stores
         /\ \A k \in Keys : Loaded(img, t).kv[k] # None /\ Loaded(img, t).kv[k].exp > 0 =>
                            Item(k, Loaded(img, t).kv[k]) \in Loaded(img, t).heap
<1> DEFINE there == {k \in Keys : img[k] # None /\ (img[k].exp = 0 \/ img[k].exp > t)}
           kv == [k \in Keys |-> IF k \in there
                                   THEN [val |-> img[k].val, exp |-> img[k].exp, ver |-> 1]
                                   ELSE None]
           heap == {Item(k, kv[k]) : k \in {j \in there : img[j].exp > 0}}
<1>1. Loaded(img, t) = [kv |-> kv, ver |-> 1, heap |-> heap]
  BY DEF Loaded
<1>2. \A k \in there : /\ img[k] \in Entries /\ kv[k] \in Entries
                        /\ kv[k].exp = img[k].exp /\ kv[k].ver = 1
  BY DEF Images, Entries
<1>3. kv \in Images
  BY ZenonT(30), <1>2 DEF Images
<1>4. \A k \in Keys : k \notin there => kv[k] = None
  OBVIOUS
<1> HIDE DEF kv
<1>5. heap \in SUBSET Items
  BY <1>2 DEF Item, Items, Entries
<1>6. \A k \in Keys : kv[k] # None /\ kv[k].exp > 0 => Item(k, kv[k]) \in heap
  BY ZenonT(30), <1>2, <1>4
<1> HIDE DEF heap
<1>7. QED
  BY <1>1, <1>3, <1>5, <1>6 DEF Stores

\* The effects of a command, and the record Dispatch may write itself.
LEMMA EffectTypes ==
  ASSUME NEW k \in Keys, NEW v \in Int, NEW n \in Nat, NEW d \in Int
  PROVE  SetTo(k, v, n) \in Effects /\ Drop(k) \in Effects /\ DeadlineOf(k, d) \in Effects
  BY DEF SetTo, Drop, DeadlineOf, Effects

LEMMA ShortSeqs ==
  ASSUME NEW S, NEW a \in S, NEW b \in S
  PROVE  <<>> \in Seq(S) /\ <<a>> \in Seq(S) /\ <<a, b>> \in Seq(S)
  OBVIOUS

LEMMA PreparedType ==
  ASSUME NEW s \in Stores, NEW c \in Orders, NEW t \in Nat
  PROVE  prepareDurableEffects(s, c, t) \in Seq(Effects)
<1> DEFINE e == s.kv[c.k]
           effs == prepareDurableEffects(s, c, t)
<1>0. c.k \in Keys /\ c.to \in Keys /\ c.s \in Int
  BY DEF Orders
<1>1. Visible(s, c.k, t) => e \in Entries
  BY <1>0 DEF Visible, Stores, Images
<1>2. CASE c.op \in SetOps
  <2> DEFINE exp == IF c.s > 0 THEN t + c.s * Second ELSE 0
  <2>1. exp \in Nat
    BY <1>0, Products, ClockAssumption
  <2>2. effs = IF Admits(s, c, t) THEN <<SetTo(c.k, NewVal, exp)>> ELSE <<>>
    BY <1>2 DEF prepareDurableEffects, SetOps
  <2> HIDE DEF exp, effs
  <2>3. SetTo(c.k, NewVal, exp) \in Effects
    BY <1>0, <2>1, EffectTypes DEF NewVal
  <2>4. QED
    BY ZenonT(30), <2>2, <2>3, ShortSeqs DEF effs
<1>3. CASE c.op = "MSET"
  <2>1. effs = <<SetTo(c.k, NewVal, 0), SetTo(c.to, NewVal, 0)>>
    BY <1>3 DEF prepareDurableEffects
  <2>2. SetTo(c.k, NewVal, 0) \in Effects /\ SetTo(c.to, NewVal, 0) \in Effects
    BY <1>0, EffectTypes DEF NewVal
  <2> HIDE DEF effs
  <2>3. QED
    BY <2>1, <2>2, ShortSeqs DEF effs
<1>4. CASE c.op = "DEL"
  <2> DEFINE T == {k \in Written(c) : Visible(s, k, t)}
             seen == Visible(s, c.k, t)
  <2>1. effs = [i \in 1..Cardinality(T) |-> Drop(IF i = 1 /\ seen THEN c.k ELSE c.to)]
    BY <1>4 DEF prepareDurableEffects
  <2>2. IsFiniteSet({c.k} \cup {c.to})
    BY ZenonT(30), FS_Singleton, FS_Union
  <2>3. IsFiniteSet(T)
    BY <2>2, FS_Subset DEF Written
  <2>4. Cardinality(T) \in Nat
    BY ZenonT(30), <2>3, FS_CardinalityType
  <2>5. Drop(c.k) \in Effects /\ Drop(c.to) \in Effects
    BY ZenonT(30), <1>0, EffectTypes
  <2> HIDE DEF effs, T
  <2>6. effs \in [1..Cardinality(T) -> Effects]
    BY ZenonT(30), <2>1, <2>5
  <2>7. QED
    BY ZenonT(30), <2>4, <2>6, SeqDef DEF effs
<1>5. CASE c.op = "EXPIRE"
  <2>1. effs = IF Visible(s, c.k, t) THEN <<DeadlineOf(c.k, t + c.s * Second)>> ELSE <<>>
    BY <1>5 DEF prepareDurableEffects
  <2>2. t + c.s * Second \in Int
    BY <1>0, ClockAssumption
  <2>3. DeadlineOf(c.k, t + c.s * Second) \in Effects
    BY ZenonT(30), <1>0, <2>2, EffectTypes
  <2> HIDE DEF effs
  <2>4. QED
    BY <2>1, <2>3, ShortSeqs DEF effs
<1>6. CASE c.op = "PERSIST"
  <2>1. effs = IF Visible(s, c.k, t) /\ e.exp # 0 THEN <<DeadlineOf(c.k, 0)>> ELSE <<>>
    BY <1>6 DEF prepareDurableEffects
  <2>2. DeadlineOf(c.k, 0) \in Effects
    BY <1>0, EffectTypes
  <2> HIDE DEF effs
  <2>3. QED
    BY ZenonT(30), <2>1, <2>2, ShortSeqs DEF effs
<1>7. CASE c.op = "RENAME"
  <2>1. effs = IF Visible(s, c.k, t) THEN <<SetTo(c.to, e.val, e.exp), Drop(c.k)>> ELSE <<>>
    BY ZenonT(30), <1>7 DEF prepareDurableEffects
  <2>2. Visible(s, c.k, t) => SetTo(c.to, e.val, e.exp) \in Effects /\ Drop(c.k) \in Effects
    BY ZenonT(30), <1>0, <1>1, EffectTypes DEF Entries
  <2>3. <<>> \in Seq(Effects)
    OBVIOUS
  <2> HIDE DEF effs
  <2>4. QED
    BY ZenonT(30), <2>1, <2>2, <2>3, ShortSeqs DEF effs
<1>8. CASE c.op \in {"INCR", "DECR", "APPEND"}
  <2>1. PICK v \in Int, w \in Int :
          effs = <<IF Visible(s, c.k, t) THEN SetTo(c.k, v, e.exp) ELSE SetTo(c.k, w, 0)>>
    <3> DEFINE old == IF Visible(s, c.k, t) THEN e.val ELSE 0
    <3>1. old \in Int
      BY <1>1 DEF Entries
    <3>2. CASE c.op = "INCR"
      <4>1. effs = <<IF Visible(s, c.k, t) THEN SetTo(c.k, old + 1, e.exp) ELSE SetTo(c.k, 1, 0)>>
        BY ZenonT(30), <3>2 DEF prepareDurableEffects
      <4>2. QED
        BY <3>1, <4>1
    <3>3. CASE c.op = "DECR"
      <4>1. effs = <<IF Visible(s, c.k, t) THEN SetTo(c.k, old - 1, e.exp) ELSE SetTo(c.k, -1, 0)>>
        BY ZenonT(30), <3>3 DEF prepareDurableEffects
      <4>2. QED
        BY <3>1, <4>1
    <3>4. CASE c.op = "APPEND"
      <4>1. effs = <<IF Visible(s, c.k, t) THEN SetTo(c.k, 10 * old + 1, e.exp)
                                          ELSE SetTo(c.k, 1, 0)>>
        BY ZenonT(30), <3>4 DEF prepareDurableEffects
      <4>2. QED
        BY <3>1, <4>1
    <3>5. QED
      BY ZenonT(30), <1>8, <3>2, <3>3, <3>4
  <2>2. Visible(s, c.k, t) => SetTo(c.k, v, e.exp) \in Effects
    BY ZenonT(30), <1>0, <1>1, EffectTypes DEF Entries
  <2>3. SetTo(c.k, w, 0) \in Effects
    BY ZenonT(30), <1>0, EffectTypes
  <2> HIDE DEF effs
  <2>4. QED
    BY ZenonT(30), <2>1, <2>2, <2>3, ShortSeqs DEF effs
<1>9. QED
  BY <1>2, <1>3, <1>4, <1>5, <1>6, <1>7, <1>8 DEF Orders, KeyOps

LEMMA LegacyType ==
  ASSUME NEW s \in Stores, NEW c \in Orders, NEW t \in Nat
  PROVE  LegacyRecord(s, c, t) \in Seq(Effects)
<1> DEFINE exp == IF c.s > 0 THEN t + (c.s * Second) \div 1000 ELSE 0
<1>0. c.k \in Keys /\ c.to \in Keys /\ c.s \in Int
  BY DEF Orders
<1>1. exp \in Nat
  <2>1. CASE c.s > 0
    <3>1. c.s * Second \in Nat
      BY <1>0, <2>1, Products, ClockAssumption
    <3>2. (c.s * Second) \div 1000 \in Nat
      BY <3>1
    <3>3. QED
      BY <2>1, <3>2
  <2>2. CASE ~(c.s > 0)
    BY <2>2
  <2>3. QED
    BY ZenonT(30), <2>1, <2>2
<1>2. LegacyRecord(s, c, t) \in {<<SetTo(c.k, NewVal, exp)>>, <<Drop(c.k), Drop(c.to)>>, <<>>}
  BY DEF LegacyRecord
<1> HIDE DEF exp
<1>3. SetTo(c.k, NewVal, exp) \in Effects /\ Drop(c.k) \in Effects /\ Drop(c.to) \in Effects
  BY <1>0, <1>1, EffectTypes DEF NewVal
<1>4. QED
  BY ZenonT(30), <1>2, <1>3, ShortSeqs

-----------------------------------------------------------------------------
(* The steps.                                                               *)

LEMMA CommandsAreOrders == Commands \subseteq Orders
<1>1. Seconds \subseteq Int
  BY ClockAssumption, TTLAssumption DEF Seconds
<1>2. Start \in Int /\ -Start \in Int
  BY ClockAssumption
<1>3. ASSUME NEW op \in KeyOps \cup SetOps \cup {"MSET", "INCR", "DECR", "APPEND"},
             NEW k \in Keys, NEW to \in Keys, NEW s \in Int
      PROVE  Cmd(op, k, to, s) \in Orders
  BY DEF Cmd, Orders
<1> DEFINE
  Conditional == {"SET", "SET NX", "SET XX"}
  Single == {"SETNX", "PERSIST", "INCR", "DECR", "APPEND"}
  Sets == {Cmd(op, k, k, s) : op \in Conditional, k \in Keys, s \in Seconds \cup {0}}
  Expires == {Cmd("EXPIRE", k, k, s) : k \in Keys, s \in Seconds \cup {-1, -Start}}
  Pairs == {Cmd(op, k, to, 0) : op \in {"RENAME", "DEL"}, k \in Keys, to \in Keys}
  Msets == {Cmd("MSET", k, to, 0) : k \in Keys, to \in Keys}
  Singles == {Cmd(op, k, k, 0) : op \in Single, k \in Keys}
<1>4. Commands = {c \in Sets \cup Expires \cup Pairs \cup {c \in Msets : c.to # c.k} \cup Singles
                  : c.op \in Ops}
  BY DEF Commands
<1>5. /\ Conditional \subseteq SetOps
      /\ Single \subseteq KeyOps \cup SetOps \cup {"MSET", "INCR", "DECR", "APPEND"}
  BY DEF KeyOps, SetOps
<1> HIDE DEF Conditional, Single
<1>6. ASSUME NEW c \in Sets PROVE c \in Orders
  <2>1. PICK op \in Conditional, k \in Keys, s \in Seconds \cup {0} : c = Cmd(op, k, k, s)
    OBVIOUS
  <2>2. s \in Int
    BY <1>1, <2>1
  <2>3. QED
    BY <1>3, <1>5, <2>1, <2>2
<1>7. ASSUME NEW c \in Expires PROVE c \in Orders
  <2>1. PICK k \in Keys, s \in Seconds \cup {-1, -Start} : c = Cmd("EXPIRE", k, k, s)
    OBVIOUS
  <2>2. s \in Int
    BY <1>1, <1>2, <2>1
  <2>3. QED
    BY <1>3, <2>1, <2>2 DEF KeyOps
<1>8. ASSUME NEW c \in Pairs PROVE c \in Orders
  BY <1>3 DEF KeyOps
<1>9. ASSUME NEW c \in Msets PROVE c \in Orders
  BY <1>3
<1>10. ASSUME NEW c \in Singles PROVE c \in Orders
  <2>1. PICK op \in Single, k \in Keys : c = Cmd(op, k, k, 0)
    OBVIOUS
  <2>2. op \in KeyOps \cup SetOps \cup {"MSET", "INCR", "DECR", "APPEND"} /\ 0 \in Int
    BY <1>5, <2>1
  <2>3. QED
    BY <1>3, <2>1, <2>2
<1> HIDE DEF Sets, Expires, Pairs, Msets, Singles
<1>11. QED
  BY <1>4, <1>6, <1>7, <1>8, <1>9, <1>10

LEMMA IdleTyped == Idle \in Calls(Idle.projected) /\ Idle.pc = "idle"
  BY DEF Idle, Calls

\* A command that is dispatched is one of those a client may send.
LEMMA DispatchesOrder ==
  ASSUME NEW c \in Clients, CallsTyped, Dispatch(c)
  PROVE  call[c].cmd \in Orders
<1>1. call[c].pc = "logged"
  BY ZenonT(30) DEF Dispatch
<1>2. QED
  BY <1>1 DEF CallsTyped

\* A step that gives one client's call a well-typed value.
LEMMA CallChange ==
  ASSUME CallsTyped, NEW c \in Clients, NEW r, r \in Calls(r.projected),
         r.pc # "idle" => r.cmd \in Orders, call' = [call EXCEPT ![c] = r]
  PROVE  CallsTyped'
<1>1. \A d \in Clients : call'[d] = IF d = c THEN r ELSE call[d]
  BY DEF CallsTyped
<1>2. call' = [d \in Clients |-> call'[d]]
  BY DEF CallsTyped
<1>3. QED
  BY ZenonT(30), <1>1, <1>2 DEF CallsTyped

LEMMA TypesInit == Init => Types
<1> SUFFICES ASSUME Init PROVE Types
  OBVIOUS
<1>1. now \in Nat /\ replay \in Nat /\ log \in Seq(Effects)
  BY ZenonT(30), ClockAssumption, EmptySeq DEF Init
<1>2. ckpt \in Images
  BY ClockAssumption DEF Init, Images, Entries, NewVal
<1>3. store \in Stores
  BY ZenonT(30), <1>1, <1>2, LoadedStore DEF Init
<1>4. CallsTyped
  <2>1. call = [c \in Clients |-> Idle]
    BY DEF Init
  <2>2. QED
    BY ZenonT(30), <2>1, IdleTyped DEF CallsTyped
<1>5. QED
  BY ZenonT(30), <1>1, <1>2, <1>3, <1>4 DEF Types

LEMMA TypesStep == Types /\ [Next]_vars => Types'
<1> SUFFICES ASSUME Types, [Next]_vars PROVE Types'
  OBVIOUS
<1>0. /\ store \in Stores /\ now \in Nat /\ log \in Seq(Effects) /\ ckpt \in Images
      /\ replay \in Nat /\ CallsTyped
  BY DEF Types
<1>1. CASE UNCHANGED vars
  BY <1>1 DEF vars, Types, CallsTyped
<1>2. ASSUME NEW c \in Clients, NEW cmd \in Commands, Execute(c, cmd) PROVE Types'
  <2> DEFINE r == [Idle EXCEPT !.pc = "waiting", !.cmd = cmd, !.projected = accounted]
  <2>1. call' = [call EXCEPT ![c] = r] /\ UNCHANGED <<store, now, log, ckpt, replay>>
    BY <1>2 DEF Execute
  <2>2. cmd \in Orders
    BY CommandsAreOrders
  <2>3. r \in Calls(r.projected) /\ r.cmd = cmd
    BY ZenonT(30), <2>2 DEF Idle, Calls
  <2> HIDE DEF r
  <2>4. CallsTyped'
    BY ZenonT(30), <1>0, <2>1, <2>2, <2>3, CallChange
  <2>5. QED
    BY ZenonT(30), <1>0, <2>1, <2>4 DEF Types
<1>3. ASSUME NEW c \in Clients, Prepare(c) PROVE Types'
  <2> DEFINE cmd == call[c].cmd
             effs == prepareDurableEffects(store, cmd, now)
             seen == {k \in Written(cmd) : Visible(store, k, now)}
             held == [call[c] EXCEPT !.pc = "logged", !.at = now, !.seen = seen]
             fits == [held EXCEPT !.projected = effectsFitQuota(store, effs, now), !.logged = TRUE]
  <2>1. call[c].pc = "waiting" /\ cmd \in Orders /\ call[c] \in Calls(call[c].projected)
    BY ZenonT(30), <1>0, <1>3 DEF Prepare, CallsTyped
  <2>2. effs \in Seq(Effects)
    BY ZenonT(30), <1>0, <2>1, PreparedType
  <2>3. seen \in SUBSET Keys
    BY ZenonT(30), <2>1 DEF Written, Orders
  <2>4. UNCHANGED <<store, now, ckpt, replay>>
    BY <1>3 DEF Prepare
  <2>5. /\ call' \in {[call EXCEPT ![c] = held], [call EXCEPT ![c] = fits], [call EXCEPT ![c] = Idle]}
        /\ log' \in {log, log \o effs}
    BY <1>3 DEF Prepare
  <2> HIDE DEF effs, seen
  <2>6. held \in Calls(held.projected) /\ held.cmd = cmd
    BY ZenonT(30), <1>0, <2>1, <2>3 DEF Calls
  <2>7. fits \in Calls(fits.projected) /\ fits.cmd = cmd
    <3> HIDE DEF held
    <3>1. QED
      BY ZenonT(30), <2>6 DEF Calls
  <2> HIDE DEF held, fits, cmd
  <2>8. CallsTyped'
    BY <1>0, <2>1, <2>5, <2>6, <2>7, IdleTyped, CallChange
  <2>9. log' \in Seq(Effects)
    <3>1. log \o effs \in Seq(Effects)
      BY ZenonT(30), <1>0, <2>2, ConcatProperties
    <3>2. QED
      BY ZenonT(30), <1>0, <2>5, <3>1
  <2>10. QED
    BY ZenonT(30), <1>0, <2>4, <2>8, <2>9 DEF Types
<1>4. ASSUME NEW c \in Clients, Dispatch(c) PROVE Types'
  <2> DEFINE cmd == call[c].cmd
             legacy == IF call[c].logged THEN <<>> ELSE LegacyRecord(store, cmd, now)
  <2>1. cmd \in Orders
    BY ZenonT(30), <1>0, <1>4, DispatchesOrder
  <2>2. /\ store' = Dispatched(store, cmd, now) /\ log' = log \o legacy
        /\ call' = [call EXCEPT ![c] = Idle] /\ UNCHANGED <<now, ckpt, replay>>
    BY <1>4 DEF Dispatch
  <2> HIDE DEF cmd
  <2>3. legacy \in Seq(Effects)
    BY ZenonT(30), <1>0, <2>1, LegacyType, EmptySeq
  <2> HIDE DEF legacy
  <2>4. store' \in Stores
    BY ZenonT(30), <1>0, <2>1, <2>2, DispatchedStore
  <2>5. log' \in Seq(Effects)
    BY ZenonT(30), <1>0, <2>2, <2>3, ConcatProperties
  <2>6. CallsTyped'
    BY ZenonT(30), <1>0, <2>2, IdleTyped, CallChange
  <2>7. QED
    BY ZenonT(30), <1>0, <2>2, <2>4, <2>5, <2>6 DEF Types
<1>5. CASE Reap
  <2>1. PICK i \in store.heap :
          store' = [store EXCEPT !.heap = @ \ {i},
                      !.kv[i.key] = IF @ # None /\ Item(i.key, @) = i THEN None ELSE @]
    BY ZenonT(30), <1>5 DEF Reap
  <2>2. UNCHANGED <<now, log, ckpt, replay, call>>
    BY <1>5 DEF Reap
  <2>3. i.key \in Keys
    BY <1>0, <2>1 DEF Stores, Items
  <2>4. store' \in Stores
    <3> DEFINE e == store.kv[i.key]
               e2 == IF e # None /\ Item(i.key, e) = i THEN None ELSE e
    <3>1. store'.kv = [store.kv EXCEPT ![i.key] = e2] /\ store'.heap = store.heap \ {i}
      BY ZenonT(30), <1>0, <2>1 DEF Stores
    <3>2. e2 \in Entries \cup {None}
      BY <1>0, <2>3 DEF Stores, Images
    <3> HIDE DEF e, e2
    <3>3. store'.kv \in Images
      BY ZenonT(30), <1>0, <3>1, <3>2 DEF Stores, Images
    <3>4. store'.heap \in SUBSET Items
      BY ZenonT(30), <1>0, <3>1 DEF Stores
    <3>5. QED
      BY ZenonT(30), <1>0, <2>1, <3>3, <3>4 DEF Stores
  <2>5. QED
    BY ZenonT(30), <1>0, <2>2, <2>4 DEF Types, CallsTyped
<1>6. CASE Tick
  <2>1. now' = now + 1 /\ UNCHANGED <<store, log, ckpt, replay, call>>
    BY <1>6 DEF Tick
  <2>2. QED
    BY <1>0, <2>1 DEF Types, CallsTyped
<1>7. CASE Checkpoint
  <2>1. log' = <<>> /\ UNCHANGED <<store, now, replay, call>>
    BY <1>7 DEF Checkpoint
  <2>2. ckpt' \in Images
    <3>1. ASSUME NEW k \in Keys, Visible(store, k, now)
          PROVE  [val |-> store.kv[k].val, exp |-> store.kv[k].exp, ver |-> 0] \in Entries
      BY <1>0, <3>1 DEF Visible, Stores, Images, Entries
    <3>2. QED
      BY ZenonT(30), <1>7, <3>1 DEF Checkpoint, Images
  <2>3. log' \in Seq(Effects)
    BY ZenonT(30), <2>1, EmptySeq
  <2>4. QED
    BY ZenonT(30), <1>0, <2>1, <2>2, <2>3 DEF Types, CallsTyped
<1>8. CASE Crash
  <2>1. /\ store' = Loaded(ckpt, now) /\ replay' = 1 /\ call' = [c \in Clients |-> Idle]
        /\ UNCHANGED <<now, log, ckpt>>
    BY <1>8 DEF Crash
  <2>2. CallsTyped'
    BY ZenonT(30), <2>1, IdleTyped DEF CallsTyped
  <2>3. store' \in Stores
    BY ZenonT(30), <1>0, <2>1, LoadedStore
  <2>4. QED
    BY ZenonT(30), <1>0, <2>1, <2>2, <2>3 DEF Types
<1>9. CASE Recover
  <2>1. /\ store' = ApplyEffect(store, log[replay], now) /\ replay' = replay + 1
        /\ replay # 0 /\ replay <= Len(log) /\ UNCHANGED <<now, log, ckpt, call>>
    BY <1>9 DEF Recover, Serving
  <2>2. log[replay] \in Effects
    <3>1. Len(log) \in Nat
      BY ZenonT(30), <1>0, LenProperties
    <3>2. replay \in 1..Len(log)
      BY <1>0, <2>1, <3>1
    <3>3. QED
      BY <1>0, <3>2, ElementOfSeq
  <2>3. store' \in Stores
    BY ZenonT(30), <1>0, <2>1, <2>2, ApplyStore
  <2>4. QED
    BY <1>0, <2>1, <2>3 DEF Types, CallsTyped
<1>10. CASE SetMemoryLimit
  <2>1. replay' = 0 /\ UNCHANGED <<store, now, log, ckpt, call>>
    BY ZenonT(30), <1>10 DEF SetMemoryLimit
  <2>2. QED
    BY ZenonT(30), <1>0, <2>1 DEF Types, CallsTyped
<1>11. QED
  BY <1>1, <1>2, <1>3, <1>4, <1>5, <1>6, <1>7, <1>8, <1>9, <1>10 DEF Next

-----------------------------------------------------------------------------
(* The reaper.                                                              *)

\* An operation that itemises keeps what the reaper finds.
LEMMA FindsStep ==
  ASSUME NEW s, NEW s2, NEW X, NEW B, NEW B2, Itemised(s, s2, X),
         \A k \in Keys \ B : s.kv[k] # None /\ s.kv[k].exp > 0 => Item(k, s.kv[k]) \in s.heap,
         \A k \in Keys \ B2 : s2.kv[k] # None /\ s2.kv[k].exp > 0 =>
            k \notin X /\ (k \in B => s2.kv[k].ver # s.kv[k].ver)
  PROVE  \A k \in Keys \ B2 :
           s2.kv[k] # None /\ s2.kv[k].exp > 0 => Item(k, s2.kv[k]) \in s2.heap
<1> SUFFICES ASSUME NEW k \in Keys \ B2, s2.kv[k] # None, s2.kv[k].exp > 0,
                    Item(k, s2.kv[k]) \notin s2.heap
             PROVE  FALSE
  OBVIOUS
<1>1. k \notin X /\ (k \in B => s2.kv[k].ver # s.kv[k].ver)
  OBVIOUS
<1>2. s.kv[k] # None /\ Item(k, s.kv[k]) = Item(k, s2.kv[k]) /\ s.heap \subseteq s2.heap
  BY ZenonT(30), <1>1 DEF Itemised
<1>3. s.kv[k].exp = s2.kv[k].exp /\ s.kv[k].ver = s2.kv[k].ver
  BY ZenonT(30), <1>2 DEF Item
<1>4. Item(k, s.kv[k]) \in s.heap
  BY ZenonT(30), <1>1, <1>2, <1>3
<1>5. QED
  BY ZenonT(30), <1>2, <1>4

LEMMA ReaperStep == Types /\ ReaperFinds /\ [Next]_vars => ReaperFinds'
<1> SUFFICES ASSUME Types, ReaperFinds, [Next]_vars PROVE ReaperFinds'
  OBVIOUS
<1>0. /\ store \in Stores /\ now \in Nat /\ log \in Seq(Effects) /\ ckpt \in Images
      /\ replay \in Nat /\ CallsTyped
  BY DEF Types
<1>1. CASE UNCHANGED <<store, bumped>>
  BY <1>1 DEF ReaperFinds
<1>2. ASSUME NEW c \in Clients, Dispatch(c) PROVE ReaperFinds'
  <2> DEFINE cmd == call[c].cmd
             X == IF cmd.op \in {"INCR", "DECR"} THEN {cmd.k} ELSE {}
  <2>1. cmd \in Orders
    BY ZenonT(30), <1>0, <1>2, DispatchesOrder
  <2>2. /\ store' = Dispatched(store, cmd, now)
        /\ bumped' = {k \in Keys : /\ store'.kv[k] # None /\ store'.kv[k].exp > 0
                                    /\ \/ k \in bumped /\ store'.kv[k].ver = store.kv[k].ver
                                       \/ cmd.op \in {"INCR", "DECR"} /\ k = cmd.k}
    BY <1>2 DEF Dispatch
  <2> HIDE DEF cmd
  <2>3. Itemised(store, store', X)
    BY ZenonT(30), <1>0, <2>1, <2>2, DispatchedStore
  <2>4. \A k \in Keys \ bumped' : store'.kv[k] # None /\ store'.kv[k].exp > 0 =>
           k \notin X /\ (k \in bumped => store'.kv[k].ver # store.kv[k].ver)
    BY ZenonT(30), <2>2
  <2> HIDE DEF X
  <2>5. QED
    BY ZenonT(30), <2>3, <2>4, FindsStep DEF ReaperFinds
<1>3. CASE Reap
  <2>1. PICK i \in store.heap :
          store' = [store EXCEPT !.heap = @ \ {i},
                      !.kv[i.key] = IF @ # None /\ Item(i.key, @) = i THEN None ELSE @]
    BY ZenonT(30), <1>3 DEF Reap
  <2>2. UNCHANGED bumped
    BY <1>3 DEF Reap
  <2>3. /\ store'.heap = store.heap \ {i}
        /\ \A k \in Keys : store'.kv[k] # None =>
             store'.kv[k] = store.kv[k] /\ (k = i.key => Item(k, store.kv[k]) # i)
    BY ZenonT(30), <1>0, <2>1 DEF Stores, Images
  <2>4. ASSUME NEW k \in Keys, store'.kv[k] # None PROVE Item(k, store'.kv[k]) # i
    BY <2>3, <2>4 DEF Item
  <2>5. QED
    BY ZenonT(30), <2>2, <2>3, <2>4 DEF ReaperFinds
<1>4. CASE Crash
  BY <1>0, <1>4, LoadedStore DEF Crash, ReaperFinds
<1>5. CASE Recover
  <2>1. /\ store' = ApplyEffect(store, log[replay], now)
        /\ replay # 0 /\ replay <= Len(log) /\ UNCHANGED bumped
    BY <1>5 DEF Recover, Serving
  <2>2. log[replay] \in Effects
    <3>1. Len(log) \in Nat
      BY ZenonT(30), <1>0, LenProperties
    <3>2. replay \in 1..Len(log)
      BY <1>0, <2>1, <3>1
    <3>3. QED
      BY ZenonT(30), <1>0, <3>2, ElementOfSeq
  <2>3. Itemised(store, store', {})
    BY ZenonT(30), <1>0, <2>1, <2>2, ApplyStore
  <2>4. \A k \in Keys \ bumped' : store'.kv[k] # None /\ store'.kv[k].exp > 0 =>
           k \notin {} /\ (k \in bumped => store'.kv[k].ver # store.kv[k].ver)
    BY <2>1
  <2>5. QED
    BY ZenonT(30), <2>3, <2>4, FindsStep DEF ReaperFinds
<1>6. QED
  BY ZenonT(30), <1>1, <1>2, <1>3, <1>4, <1>5 DEF Next, vars, Execute, Prepare, Tick, Checkpoint, SetMemoryLimit

\* Every entry with a deadline that INCR and DECR have left alone has its item
\* in the expiry heap, so DeleteExpiredLimit finds it when it is due: after
\* SET, EXPIRE, PERSIST, RENAME, APPEND, replay and loading alike.
THEOREM Found == Spec => []ReaperFinds
<1>1. Init => Types /\ ReaperFinds
  <2> SUFFICES ASSUME Init PROVE Types /\ ReaperFinds
    OBVIOUS
  <2>1. Types
    BY TypesInit
  <2>2. store = Loaded(ckpt, now)
    BY DEF Init
  <2>3. QED
    BY <2>1, <2>2, LoadedStore DEF Types, ReaperFinds
<1>2. (Types /\ ReaperFinds) /\ [Next]_vars => (Types /\ ReaperFinds)'
  BY TypesStep, ReaperStep
<1>3. QED
  BY <1>1, <1>2, PTL DEF Spec

\* Outside a command and a restart an entry goes only by the reaper and only
\* after its own deadline: a stale item, of an entry that was set again,
\* persisted or given another deadline, deletes nothing.
THEOREM NotReapedEarly == Spec => NothingReapedEarly
<1> DEFINE Step == Serving /\ Serving' /\ call' = call =>
                     \A k \in Keys : store.kv[k] # None /\ store'.kv[k] = None =>
                                       store.kv[k].exp \in 1..now
<1>1. Types /\ [Next]_vars => [Step]_vars
  <2> SUFFICES ASSUME Types, [Next]_vars, Serving, Serving', call' = call,
                      NEW k \in Keys, store.kv[k] # None, store'.kv[k] = None
               PROVE  store.kv[k].exp \in 1..now
    OBVIOUS
  <2>0. store \in Stores /\ now \in Nat /\ CallsTyped
    BY DEF Types
  <2>1. CASE UNCHANGED store
    BY <2>1
  <2>2. ASSUME NEW c \in Clients, Dispatch(c) PROVE FALSE
    <3>1. call' = [call EXCEPT ![c] = Idle] /\ call[c].pc = "logged"
      BY ZenonT(30), <2>2 DEF Dispatch
    <3>2. call'[c].pc = "idle"
      BY ZenonT(30), <2>0, <3>1, IdleTyped DEF CallsTyped
    <3>3. QED
      BY ZenonT(30), <3>1, <3>2
  <2>3. CASE Reap
    <3>1. PICK i \in store.heap :
            /\ i.exp <= now
            /\ store' = [store EXCEPT !.heap = @ \ {i},
                           !.kv[i.key] = IF @ # None /\ Item(i.key, @) = i THEN None ELSE @]
      BY ZenonT(30), <2>3 DEF Reap
    <3>2. k = i.key /\ Item(k, store.kv[k]) = i
      BY <2>0, <3>1 DEF Stores, Images
    <3>3. i.exp \in Nat \ {0} /\ store.kv[k].exp = i.exp
      BY <2>0, <3>2 DEF Stores, Items, Item
    <3>4. QED
      BY <2>0, <3>1, <3>3
  <2>4. CASE Crash \/ Recover \/ SetMemoryLimit
    BY <2>4 DEF Crash, Recover, SetMemoryLimit, Serving
  <2>5. QED
    BY ZenonT(30), <2>1, <2>2, <2>3, <2>4 DEF Next, vars, Execute, Prepare, Tick, Checkpoint
<1>2. QED
  BY <1>1, TypesInit, TypesStep, PTL DEF Spec, NothingReapedEarly

=============================================================================
