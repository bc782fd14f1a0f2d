----------------------------- MODULE MCCommands -----------------------------
(***************************************************************************)
(* The commands of the two profiles of a tenant for TLC: Keyspace with     *)
(* persistence enabled, DataTypes and Sessions with persistence disabled.  *)
(* A behaviour is one of the three, and the others' variables stay as they *)
(* are.                                                                    *)
(***************************************************************************)
EXTENDS MCKeyspace

CONSTANTS NaN, j1, Zero, h1

VARIABLES
  part, entries, ms, doing, tcmds, serial, odd, bits, sets,
  txs, queues, watches, chans, at, calls, pending, sent

typeVars == <<entries, ms, doing, tcmds, serial, odd, bits, sets>>
sessionVars == <<txs, queues, watches, chans, at, calls, pending, sent>>

Types == INSTANCE DataTypes WITH
  store <- entries, cmds <- tcmds,
  Keys <- {j1}, Members <- 1..2, Ints <- 1..2, Scores <- 1..2,
  Offsets <- {0, 7, 9}, Paths <- {<<1>>, <<1, 2>>, <<1, 3>>},
  MaxMs <- 2, MaxLen <- 3, MaxSets <- 2, MaxCmds <- 5

Served == INSTANCE Sessions WITH
  Connections <- {j1}, Requests <- {h1}, Watchable <- {j1},
  Buffer <- 2, MaxCalls <- 4, MaxRequests <- 2, MaxSubs <- 1

\* The first checkpoint of an instance holds at most one of the two keys.
OtherKey(k) == IF k = k1 THEN k2 ELSE k1

MCInit ==
  /\ part \in {"durable", "types", "sessions"}
  /\ Init /\ \A k \in Keys : ckpt[k] # None => part = "durable" /\ ckpt[OtherKey(k)] = None
  /\ Types!Init /\ (part # "types" => \A j \in DOMAIN entries : entries[j] = None)
  /\ Served!Init

MCNext ==
  \/ part = "durable" /\ Next /\ UNCHANGED <<part, typeVars, sessionVars>>
  \/ part = "types" /\ Types!Next /\ UNCHANGED <<part, vars, sessionVars>>
  \/ part = "sessions" /\ Served!Next /\ UNCHANGED <<part, vars, typeVars>>

MCSpec == MCInit /\ [][MCNext]_<<part, vars, typeVars, sessionVars>>

-----------------------------------------------------------------------------
(* Properties of the other modules, where they are explained.              *)

\* A sorted set's slice is its map in order (zset.go).
ZSetConsistent == part = "types" => Types!ZSetConsistent

\* Bits, their count and the first of them agree with what SETBIT was told
\* (bitmap.go).
BitsAgree == part = "types" => Types!BitsAgree

\* A document holds what its JSON.SETs add up to (document.go).
DocAgrees == part = "types" => Types!DocAgrees

\* LRANGE, LINDEX, ZRANGE and XRANGE agree on positions (list.go).
RangesAgree == part = "types" => Types!RangesAgree

\* A subscriber gets a connection's messages, EXEC's too, unbroken and in order
\* (multi.go, pubsub.go).
SubscribersFollow == part = "sessions" => Served!SubscribersFollow

=============================================================================
