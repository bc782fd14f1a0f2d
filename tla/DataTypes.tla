----------------------------- MODULE DataTypes ------------------------------
(***************************************************************************)
(* Lists, hashes, sets, sorted sets, streams, bitmaps, geo sets and JSON   *)
(* documents over KVStore, as the commands of Executor.Dispatch reach      *)
(* them; what of these types no command calls is left out.  They exist     *)
(* only with persistence disabled: the durable profile refuses them.       *)
(*                                                                         *)
(* A command works under its key's shard lock, so it is one step; JSON.SET *)
(* with a path reads the document and writes it back under two locks.      *)
(* Expiry is a mark on the entry here (Keyspace has deadlines).  A float   *)
(* score is an integer or NaN, a member's name its place in the order of   *)
(* names.  Replies that only report what an entry holds are left out.      *)
(***************************************************************************)
EXTENDS Integers, Sequences, FiniteSets, SequencesExt

CONSTANTS
  Keys, Clients, None,
  Members,    \* members, fields and list elements, in the order of their names
  Ints,       \* hash values that are numbers
  Scores, NaN,
  Offsets,    \* bit offsets
  Paths,      \* JSON paths: sequences of names
  MaxMs,      \* bound: the clock, in milliseconds
  MaxLen,     \* bound: elements of a list or a stream
  MaxSets,    \* bound: JSON.SETs of parts of a document
  MaxCmds     \* bound: commands

VARIABLES
  store,    \* KVStore: key -> entry or None
  ms,       \* time.Now().UnixMilli()
  doing,    \* client -> its JSON.SET between read and write, or None
  cmds,
  \* history
  serial,   \* stream entries added so far
  odd,      \* key -> what has happened to its present entry: "nan", "bent", "raced"
  bits,     \* key -> the offsets SET and SETBIT have left set
  sets      \* key -> the acknowledged JSON.SETs of its document

vars == <<store, ms, doing, cmds, serial, odd, bits, sets>>
history == <<serial, odd, bits, sets>>

-----------------------------------------------------------------------------
(* Entries.                                                                *)

\* The value getOrCreate starts with.
Empty(type) ==
  CASE type \in {"list", "bitmap"} -> <<>>
    [] type = "set"                -> {}
    [] type = "hash"               -> [f \in {} |-> 0]
    [] type = "doc"                -> [p \in {} |-> 0]
    [] type \in {"zset", "geo"}    -> [scores |-> [m \in {} |-> 0], sorted |-> <<>>]
    [] type = "stream"             -> [entries |-> <<>>, lastID |-> None]

Entry(type, val) == [type |-> type, val |-> val, ttl |-> "none"]

\* GetForRead: an expired entry is as good as none.
Live(k) == store[k] # None /\ store[k].ttl # "over"

\* getOrCreate returns an entry of the type, or the WRONGTYPE error.
RightType(k, type) == Live(k) => store[k].type = type

\* The value of a key as its type's store sees it.
ValueOf(k, type) == IF Live(k) THEN store[k].val ELSE Empty(type)

\* A write through getOrCreate, which keeps a live entry's deadline.
getOrCreate(k, type, val) ==
  IF Live(k) THEN [store EXCEPT ![k].val = val]
             ELSE [store EXCEPT ![k] = Entry(type, val)]

\* What is known of an entry ends with it.
Forget(k) ==
  /\ odd' = [odd EXCEPT ![k] = {}] /\ bits' = [bits EXCEPT ![k] = {}]
  /\ sets' = [sets EXCEPT ![k] = <<>>] /\ UNCHANGED serial

-----------------------------------------------------------------------------
(* Lists.  Indexes count from 0, or from the end when negative.            *)

\* Mutant of From: the last element is -2.
From_Two(i, n) == IF i < 0 THEN n + i + 1 ELSE i

From(i, n) == IF i < 0 THEN n + i ELSE i
Begin(i, n) == IF From(i, n) < 0 THEN 0 ELSE From(i, n)
Stop(i, n) == IF From(i, n) >= n THEN n - 1 ELSE From(i, n)

LPush(items, v) == <<v>> \o items
RPush(items, v) == Append(items, v)
LPop(items) == IF items = <<>> THEN items ELSE Tail(items)
RPop(items) == IF items = <<>> THEN items ELSE Front(items)

LRange(items, i, j) ==
  LET n == Len(items) IN SubSeq(items, Begin(i, n) + 1, Stop(j, n) + 1)

\* GETRANGE, on the bytes of a string.
GetRange(bytes, i, j) ==
  LET l == Len(bytes)
      start == IF i >= 0 THEN i ELSE IF l + i < 0 THEN 0 ELSE l + i
      end == LET e == IF j < 0 THEN l + j ELSE j IN IF e >= l THEN l - 1 ELSE e
  IN  IF start > end THEN <<>> ELSE SubSeq(bytes, start + 1, end + 1)

InRange(items, i) == From(i, Len(items)) \in 0..(Len(items) - 1)
LIndex(items, i) == IF InRange(items, i) THEN items[From(i, Len(items)) + 1] ELSE None

-----------------------------------------------------------------------------
(* Hashes and sets.                                                        *)

HSet(m, f, v) == [g \in DOMAIN m \cup {f} |-> IF g = f THEN v ELSE m[g]]
HDel(m, f) == [g \in DOMAIN m \ {f} |-> m[g]]

\* A field that does not parse as an integer is an error.
HIncrBy(m, f, d) ==
  IF f \notin DOMAIN m THEN HSet(m, f, d)
  ELSE IF m[f] = None THEN m ELSE HSet(m, f, m[f] + d)

SAdd(s, e) == s \cup {e}
SRem(s, e) == s \ {e}

\* What SPOP may leave: the command takes one member, any one.
SPop(s) == IF s = {} THEN {s} ELSE {s \ {e} : e \in s}

-----------------------------------------------------------------------------
(* Sorted sets: a map of scores and the slice ZRANGE and ZRANK read.       *)

Pair(m, s) == [m |-> m, s |-> s]

\* Go's comparison of floats: every one with NaN is false.
Above(a, b) == a # NaN /\ b # NaN /\ a > b
Differ(a, b) == a = NaN \/ b = NaN \/ a # b

\* sort.Search, the bisection for the first index past (score, member), as it
\* goes also on a slice that is not in order.
Search(sorted, member, score) ==
  LET past(i) == IF Differ(sorted[i].s, score) THEN Above(sorted[i].s, score)
                                                ELSE sorted[i].m >= member
      n == Len(sorted)
      in[lo \in 0..n, hi \in 0..n] ==
        IF lo >= hi THEN lo
        ELSE LET h == (lo + hi) \div 2
             IN  IF past(h + 1) THEN in[lo, h] ELSE in[h + 1, hi]
  IN  in[0, n] + 1

insertSorted(sorted, member, score) ==
  InsertAt(sorted, Search(sorted, member, score), Pair(member, score))

\* Mutant of removeSorted: the element is looked up under the score 0.
removeSorted_Zero(sorted, member, score) ==
  LET i == Search(sorted, member, 0)
  IN  IF i <= Len(sorted) /\ sorted[i].m = member THEN RemoveAt(sorted, i) ELSE sorted

removeSorted(sorted, member, score) ==
  LET i == Search(sorted, member, score)
  IN  IF i <= Len(sorted) /\ sorted[i].m = member THEN RemoveAt(sorted, i) ELSE sorted

Without(z, m) == IF m \in DOMAIN z.scores THEN removeSorted(z.sorted, m, z.scores[m]) ELSE z.sorted

ZAdd(z, m, s) ==
  [scores |-> HSet(z.scores, m, s), sorted |-> insertSorted(Without(z, m), m, s)]

ZRem(z, m) == [scores |-> HDel(z.scores, m), sorted |-> Without(z, m)]

\* score += delta; a NaN stays one.
ZIncrBy(z, m, d) ==
  LET s == IF m \in DOMAIN z.scores THEN z.scores[m] ELSE 0
  IN  ZAdd(z, m, IF s = NaN \/ d = NaN THEN NaN ELSE s + d)

\* Rank of a member, -1 without one.
ZRank(z, m) ==
  LET places == {i \in DOMAIN z.sorted : z.sorted[i].m = m}
  IN  IF places = {} THEN -1 ELSE Min(places) - 1

ZRange(z, i, j) == LRange(z.sorted, i, j)

\* GeoAdd keeps the points the same way but sorts them anew; points of one
\* geohash come in any order.
GeoAdd(z, m, s) ==
  LET p == HSet(z.scores, m, s)
  IN  {[scores |-> p, sorted |-> q] :
         q \in {o \in [1..Cardinality(DOMAIN p) -> {Pair(n, p[n]) : n \in DOMAIN p}] :
                  /\ \A i, j \in DOMAIN o : i < j => o[i].m # o[j].m /\ o[i].s <= o[j].s}}

-----------------------------------------------------------------------------
(* Streams.  An id is "<ms>-<seq>" and ids are compared as strings.        *)

Digits(n) == IF n < 10 THEN <<n>> ELSE <<n \div 10, n % 10>>

\* The characters of an id; '-' sorts before the digits.
Text(id) == Digits(id[1]) \o <<-1>> \o Digits(id[2])

\* a > b in Go; None, the lastID of an empty stream, is below every id.
After(a, b) ==
  b = None \/
  LET x == Text(a)
      y == Text(b)
      same(i) == \A j \in 1..(i - 1) : x[j] = y[j]
  IN  \E i \in DOMAIN x : i <= Len(y) + 1 /\ same(i) /\ (i > Len(y) \/ x[i] > y[i])

generateID(last) ==
  IF last # None /\ last[1] = ms THEN <<ms, last[2] + 1>> ELSE <<ms, 0>>

XAdd(st, id, n, keep) ==
  LET all == Append(st.entries, [id |-> id, n |-> n])
      cut == IF keep > 0 /\ Len(all) > keep THEN Len(all) - keep ELSE 0
  IN  [st EXCEPT !.entries = SubSeq(all, cut + 1, Len(all)), !.lastID = id]

XRange(st, a, b) ==
  SelectSeq(st.entries, LAMBDA e : (e.id = a \/ After(e.id, a)) /\ ~After(e.id, b))

XRevRange(st, a, b) == Reverse(XRange(st, b, a))

-----------------------------------------------------------------------------
(* Bitmaps: bytes, the first bit of each the most significant.             *)

ensureSize(buf, o) ==
  buf \o [i \in 1..(IF o \div 8 < Len(buf) THEN 0 ELSE o \div 8 + 1 - Len(buf)) |-> 0]

Weight(o) == 2 ^ (7 - (o % 8))

GetBit(buf, o) ==
  IF o \div 8 >= Len(buf) THEN 0 ELSE (buf[o \div 8 + 1] \div Weight(o)) % 2

\* Mutant of SetBit: the bit is added whatever it was.
SetBit_Add(buf, o, b) ==
  LET grown == ensureSize(buf, o) IN [grown EXCEPT ![o \div 8 + 1] = (@ + b * Weight(o)) % 256]

SetBit(buf, o, b) ==
  LET grown == ensureSize(buf, o)
  IN  [grown EXCEPT ![o \div 8 + 1] = @ + (b - GetBit(grown, o)) * Weight(o)]

popCount(byte) == Cardinality({i \in 0..7 : (byte \div 2 ^ i) % 2 = 1})
BitCount(buf) == FoldLeft(LAMBDA n, byte : n + popCount(byte), 0, buf)

\* The first place of a bit in byte order, or past the end for 0, -1 for 1.
BitPos(buf, b) ==
  LET at == {o \in 0..(8 * Len(buf) - 1) : GetBit(buf, o) = b}
  IN  IF at # {} THEN CHOOSE o \in at : \A q \in at : o <= q
      ELSE IF b = 0 THEN 8 * Len(buf) ELSE -1

-----------------------------------------------------------------------------
(* Documents: the leaves of the JSON value by their paths.  A root that is *)
(* not an object, a number, an array or null, is a leaf at the path <<>>.  *)

\* Mutant of setJSONPath: the object on the way is made anew.
setJSONPath_Anew(doc, p, v) ==
  LET keep == {q \in DOMAIN doc : q[1] # p[1]}
  IN  [q \in keep \cup {p} |-> IF q = p THEN v ELSE doc[q]]

\* A value on the way to p becomes an object, an object at p a value.
setJSONPath(doc, p, v) ==
  LET keep == {q \in DOMAIN doc : ~IsPrefix(q, p) /\ ~IsPrefix(p, q)}
  IN  [q \in keep \cup {p} |-> IF q = p THEN v ELSE doc[q]]

\* The value of a name in an object; no name is in a leaf or in nothing.
Field(value, name) ==
  LET under == {q \in DOMAIN value : q # <<>> /\ Head(q) = name}
  IN  [r \in {Tail(q) : q \in under} |-> value[<<name>> \o r]]

getJSONPath(doc, p) == FoldLeft(Field, doc, p)

-----------------------------------------------------------------------------
(* Commands.                                                               *)

Init ==
  /\ store \in [Keys -> {None} \cup
       {Entry("stream", [Empty("stream") EXCEPT !.entries = <<[id |-> <<1, 9>>, n |-> 0]>>,
                                                !.lastID = <<1, 9>>])}]
  /\ ms = 1 /\ doing = [c \in Clients |-> None] /\ cmds = 0
  /\ serial = 1 /\ odd = [k \in Keys |-> {}]
  /\ bits = [k \in Keys |-> {}] /\ sets = [k \in Keys |-> <<>>]

Called == cmds < MaxCmds /\ cmds' = cmds + 1 /\ UNCHANGED <<ms, doing>>

\* A command of one type: one of its outcomes becomes the value.  A key of
\* another type is WRONGTYPE, which changes nothing.
Typed(k, type, outcomes) ==
  /\ RightType(k, type) /\ Called
  /\ \E v \in outcomes : store' = getOrCreate(k, type, v)

\* Pops and removals create the key, too.
ListCommand(k) ==
  LET l == ValueOf(k, "list")
  IN  /\ Typed(k, "list",
           (IF Len(l) < MaxLen THEN {LPush(l, e) : e \in Members} \cup {RPush(l, e) : e \in Members}
                               ELSE {})
             \cup {LPop(l), RPop(l)})
      /\ UNCHANGED history

HashCommand(k) ==
  LET m == ValueOf(k, "hash")
  IN  /\ Typed(k, "hash",
           {HSet(m, f, v) : f \in Members, v \in Ints \cup {None}}
             \cup {HDel(m, f) : f \in Members}
             \cup {n \in {HIncrBy(m, f, d) : f \in Members, d \in {-1, 1}} :
                     \A f \in DOMAIN n : n[f] \in Ints \cup {None}})
      /\ UNCHANGED history

SetCommand(k) ==
  LET s == ValueOf(k, "set")
  IN  /\ Typed(k, "set", {SAdd(s, e) : e \in Members} \cup {SRem(s, e) : e \in Members}
                                 \cup SPop(s))
      /\ UNCHANGED history

\* ParseFloat of the score takes "nan".
ZSetCommand(k) ==
  LET z == ValueOf(k, "zset")
      scored(y) == {y.scores[m] : m \in DOMAIN y.scores}
  IN  /\ Typed(k, "zset", {y \in {ZAdd(z, m, s) : m \in Members, s \in Scores \cup {NaN}}
                               \cup {ZRem(z, m) : m \in Members}
                               \cup {ZIncrBy(z, m, s) : m \in Members, s \in Scores} :
                             scored(y) \subseteq Scores \cup {NaN}})
      /\ odd' = [odd EXCEPT ![k] =
           @ \cup (IF NaN \in scored(store'[k].val) THEN {"nan"} ELSE {})]
      /\ UNCHANGED <<serial, bits, sets>>

GeoCommand(k) ==
  LET z == ValueOf(k, "geo")
  IN  /\ Typed(k, "geo", UNION {GeoAdd(z, m, s) : m \in Members, s \in Scores})
      /\ UNCHANGED history

\* XADD with a generated id or the client's own, MAXLEN or not.
XADD(k) ==
  LET st == ValueOf(k, "stream")
  IN  /\ RightType(k, "stream") /\ Len(st.entries) < MaxLen
      /\ \E id \in {generateID(st.lastID), <<1, 1>>}, keep \in {0, 1} :
        /\ Typed(k, "stream", {XAdd(st, id, serial, keep)})
        /\ serial' = serial + 1
        /\ odd' = [odd EXCEPT ![k] =
             IF After(id, st.lastID) THEN @ ELSE @ \cup {"bent"}]
        /\ UNCHANGED <<bits, sets>>

\* SET, over whatever is there: a string of no byte or of one.
SET(k) ==
  /\ Called
  /\ \E s \in {<<>>, <<65>>} :
       /\ store' = [store EXCEPT ![k] = Entry("string", s)]
       /\ bits' = [bits EXCEPT ![k] = IF s = <<>> THEN {} ELSE {1, 7}]
  /\ odd' = [odd EXCEPT ![k] = {}] /\ sets' = [sets EXCEPT ![k] = <<>>]
  /\ UNCHANGED serial

\* getBitmap takes strings for bitmaps; the entry keeps its type.
SETBIT(k) ==
  LET buf == ValueOf(k, "bitmap")
      type == IF Live(k) /\ store[k].type = "string" THEN "string" ELSE "bitmap"
  IN  \E o \in Offsets, b \in {0, 1} :
        /\ Typed(k, type, {SetBit(buf, o, b)})
        /\ bits' = [bits EXCEPT ![k] = IF b = 1 THEN @ \cup {o} ELSE @ \ {o}]
        /\ UNCHANGED <<serial, odd, sets>>

\* JSON.SET key . value, over whatever is there.
SetDoc(k) ==
  /\ Called
  /\ \E p \in Paths \cup {<<>>}, v \in Members :
       /\ store' = [store EXCEPT ![k] = Entry("doc", [q \in {p} |-> v])]
       /\ sets' = [sets EXCEPT ![k] = <<[p |-> p, v |-> v]>>]
  /\ odd' = [odd EXCEPT ![k] = {}] /\ bits' = [bits EXCEPT ![k] = {}]
  /\ UNCHANGED serial

\* JSON.SET key path value, first half: DocumentStore.Get and Unmarshal, which
\* needs an object (null passes it and panics in setJSONPath: an error, too).
SetPathRead(c, k) ==
  /\ doing[c] = None /\ cmds < MaxCmds /\ cmds' = cmds + 1
  /\ RightType(k, "doc") /\ <<>> \notin DOMAIN ValueOf(k, "doc") /\ Len(sets[k]) < MaxSets
  /\ \E p \in Paths, v \in Members :
       doing' = [doing EXCEPT ![c] = [k |-> k, p |-> p, v |-> v, doc |-> ValueOf(k, "doc")]]
  /\ UNCHANGED <<store, ms, history>>

\* Second half: KVStore.Set of the whole document, over whatever is there.
SetPathWrite(c) ==
  /\ doing[c] # None
  /\ LET d == doing[c]
         doc == RightType(d.k, "doc")
     IN  /\ store' = [store EXCEPT ![d.k] = Entry("doc", setJSONPath(d.doc, d.p, d.v))]
         /\ sets' = [sets EXCEPT ![d.k] = Append(@, [p |-> d.p, v |-> d.v])]
         /\ odd' = [odd EXCEPT ![d.k] = (IF doc THEN @ ELSE {}) \cup
              (IF doc /\ ValueOf(d.k, "doc") = d.doc THEN {} ELSE {"raced"})]
         /\ bits' = [bits EXCEPT ![d.k] = {}]
  /\ doing' = [doing EXCEPT ![c] = None]
  /\ UNCHANGED <<ms, cmds, serial>>

\* DEL and JSON.DEL; FLUSHALL does as much to one shard after another.
DEL(k) ==
  /\ Called /\ store' = [store EXCEPT ![k] = None]
  /\ Forget(k)

EXPIRE(k) ==
  /\ Called /\ Live(k) /\ store' = [store EXCEPT ![k].ttl = "armed"]
  /\ UNCHANGED history

\* The deadline passes; the entry stays until a write or the reaper drops it.
Lapse(k) ==
  /\ store[k] # None /\ store[k].ttl = "armed"
  /\ store' = [store EXCEPT ![k].ttl = "over"]
  /\ Forget(k) /\ UNCHANGED <<ms, doing, cmds>>

\* The wall clock, which may also be set back.
Clock ==
  /\ ms' \in 1..MaxMs /\ ms' # ms
  /\ UNCHANGED <<store, doing, cmds, history>>

Next ==
  \/ \E k \in Keys : \/ ListCommand(k) \/ HashCommand(k) \/ SetCommand(k) \/ ZSetCommand(k)
                     \/ GeoCommand(k) \/ XADD(k) \/ SET(k) \/ SETBIT(k)
                     \/ SetDoc(k) \/ DEL(k) \/ EXPIRE(k) \/ Lapse(k)
                     \/ \E c \in Clients : SetPathRead(c, k)
  \/ \E c \in Clients : SetPathWrite(c)
  \/ Clock

Spec == Init /\ [][Next]_vars

-----------------------------------------------------------------------------
(* Properties.                                                             *)

Holds(k, type) == Live(k) /\ store[k].type = type

\* Whatever scores members are given, moved to and removed from, the slice of
\* a sorted set holds every member once, with its score, in order of score and
\* name; a member's rank is the number of members below it.  A NaN score has no
\* place in the order and is excepted.
ZSetConsistent ==
  \A k \in Keys : Holds(k, "zset") /\ "nan" \notin odd[k] =>
    LET z == store[k].val
        below(m, n) == \/ z.scores[m] < z.scores[n]
                       \/ z.scores[m] = z.scores[n] /\ m < n
    IN  /\ Len(z.sorted) = Cardinality(DOMAIN z.scores)
        /\ \A m \in DOMAIN z.scores :
             LET rank == Cardinality({n \in DOMAIN z.scores : below(n, m)})
             IN  /\ ZRank(z, m) = rank /\ ZRange(z, rank, rank) = <<Pair(m, z.scores[m])>>

\* The bytes of a bitmap, or of a string that SETBIT writes into, stand for the
\* bits that SET and SETBIT have left set: GETBIT, BITCOUNT and BITPOS answer as
\* a set of offsets would.
BitsAgree ==
  \A k \in Keys : Holds(k, "bitmap") \/ Holds(k, "string") =>
    LET buf == store[k].val
        top == 8 * Len(buf)
    IN  /\ \A o \in 0..top : GetBit(buf, o) = IF o \in bits[k] THEN 1 ELSE 0
        /\ BitCount(buf) = Cardinality(bits[k])
        /\ IF bits[k] = {} THEN BitPos(buf, 1) = -1
             ELSE BitPos(buf, 1) \in bits[k] /\ \A o \in bits[k] : BitPos(buf, 1) <= o
        /\ BitPos(buf, 0) \notin bits[k] /\ 0..(BitPos(buf, 0) - 1) \subseteq bits[k]

\* A document holds the value of every acknowledged JSON.SET that no later one
\* replaced, set a part of, or set a whole around, and nothing else, and JSON.GET
\* finds under a path what was set there, unless two of them, or one and another
\* write of the key, crossed between read and write.
DocAgrees ==
  \A k \in Keys : Holds(k, "doc") /\ "raced" \notin odd[k] => 
    LET doc == store[k].val
        last == {i \in DOMAIN sets[k] : \A j \in (i + 1)..Len(sets[k]) :
                   ~IsPrefix(sets[k][i].p, sets[k][j].p) /\ ~IsPrefix(sets[k][j].p, sets[k][i].p)}
        at(p) == {i \in last : IsPrefix(p, sets[k][i].p)}
        got(p) == getJSONPath(doc, p)
    IN  /\ {<<p, doc[p]>> : p \in DOMAIN doc} = {<<sets[k][i].p, sets[k][i].v>> : i \in last}
        /\ \A p \in Paths : {<<p \o q, got(p)[q]>> : q \in DOMAIN got(p)} =
                              {<<sets[k][i].p, sets[k][i].v>> : i \in at(p)}

\* LRANGE, and with it ZRANGE and GETRANGE, returns the elements whose place is
\* not before start and not after stop, counted from either end, and LINDEX
\* the one at a place; XRANGE between the ids of two entries of a stream whose
\* ids are in order returns these, and all between, XREVRANGE the same backwards.
RangesAgree ==
  \A k \in Keys :
    /\ Holds(k, "list") =>
         \A i, j \in -3..3 :
           LET l == store[k].val
               n == Len(l)
               in == {p \in 1..n : /\ IF i < 0 THEN n - p < -i ELSE p > i
                                   /\ IF j < 0 THEN n - p >= -j - 1 ELSE p <= j + 1}
               got == LRange(l, i, j)
           IN  /\ Len(got) = Cardinality(in)
               /\ GetRange(l, i, j) = got
               /\ \A p \in in : l[p] = got[Cardinality({q \in in : q <= p})]
               /\ i = j => LIndex(l, i) = IF in = {} THEN None ELSE got[1]
    /\ Holds(k, "stream") /\ "bent" \notin odd[k] =>
         LET e == store[k].val.entries
             st == store[k].val
         IN  \A i, j \in DOMAIN e :
               /\ XRange(st, e[i].id, e[j].id) = SubSeq(e, i, j)
               /\ XRevRange(st, e[j].id, e[i].id) = Reverse(SubSeq(e, i, j))

=============================================================================
