----------------------------- MODULE DurableMap -----------------------------
(***************************************************************************)
(* What a tenant with sync=always promises its clients: one map, changed   *)
(* by whole transactions, one at a time.  A transaction whose reply was OK *)
(* is never lost.  One that a crash or a storage error has cut off happens *)
(* as a whole or not at all; until the next transaction or checkpoint it   *)
(* may come and go with every crash.  Durability implements this.          *)
(***************************************************************************)
EXTENDS Integers

CONSTANTS
  Maps   \* the maps a tenant can hold

VARIABLES
  map,        \* what clients see, or will see after the restart
  on,         \* the tenant serves
  submitted,  \* the map after the transaction in progress, if there is one
  unsettled,  \* other maps a crash may leave
  saved,      \* the map in the newest backup, if there is one
  lapsed      \* the promise is suspended

vars == <<map, on, submitted, unsettled, saved, lapsed>>

Init ==
  /\ map \in Maps /\ on = TRUE
  /\ submitted = {} /\ unsettled = {} /\ saved = {} /\ lapsed = FALSE

Submit ==
  /\ on /\ submitted = {}
  /\ \E m \in Maps : submitted' = {m}
  /\ UNCHANGED <<map, on, unsettled, saved, lapsed>>

\* The transaction takes effect and its client gets the reply OK.
Commit ==
  /\ on
  /\ map' \in submitted
  /\ submitted' = {} /\ unsettled' = {}
  /\ UNCHANGED <<on, saved, lapsed>>

\* The client gets an error; the transaction may yet happen.
Refuse ==
  /\ on
  /\ submitted' = {}
  /\ unsettled' \subseteq unsettled \cup submitted
  /\ UNCHANGED <<map, on, saved, lapsed>>

\* A sync or a checkpoint.
Settle ==
  /\ on
  /\ unsettled' \subseteq unsettled
  /\ lapsed' \in {lapsed, FALSE}
  /\ UNCHANGED <<map, on, submitted, saved>>

Backup ==
  /\ on /\ saved' = {map}
  /\ UNCHANGED <<map, on, submitted, unsettled, lapsed>>

\* The process ends, by whatever cause.
Crash ==
  LET left == {map} \cup submitted \cup unsettled \cup (IF lapsed THEN Maps ELSE {})
  IN  /\ on /\ ~on'
      /\ map' \in left /\ unsettled' \subseteq left
      /\ submitted' = {}
      /\ UNCHANGED <<saved, lapsed>>

\* The log's sequence may restart below the checkpoint's: until the next
\* checkpoint, recovery skips what is logged.
Restart ==
  /\ ~on /\ on'
  /\ unsettled' \subseteq unsettled
  /\ lapsed' \in {lapsed, TRUE}
  /\ UNCHANGED <<map, submitted, saved>>

Restore ==
  /\ ~on
  /\ map' \in saved
  /\ unsettled' = {}
  /\ lapsed' \in BOOLEAN
  /\ UNCHANGED <<on, submitted, saved>>

Next ==
  \/ Submit \/ Commit \/ Refuse \/ Settle \/ Backup
  \/ Crash \/ Restart \/ Restore

Spec == Init /\ [][Next]_vars

=============================================================================
