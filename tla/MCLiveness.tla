----------------------------- MODULE MCLiveness -----------------------------
(***************************************************************************)
(* What must eventually happen, for TLC: in the stream to a replica        *)
(* (Replication) and to a tenant whose engine fails (Lifecycle).  They     *)
(* have no state in common, so an instance works on one of them and the    *)
(* variables of the other stay as they are.                                *)
(***************************************************************************)
EXTENDS Naturals, TLC

CONSTANTS k1, t1, g1, e1, e2, e3, None

VARIABLES
  part,
  keyOf, base, rot, written, rotations, subscribed, notified, liveCh, hand, stopped,
  phase, listed, boot, net, map, saved, fails, readFrom, readAt, early, gap, torn,
  tenants, hibernated, instances, starting, quotas, restarts, toBoot, live, failed, home,
  stateFile, dir, rollback, gr, ops, faults, failures, crashes, overlap, unsaved, cut,
  denied, want

streamVars == <<keyOf, base, rot, written, rotations, subscribed, notified, liveCh, hand,
  stopped, phase, listed, boot, net, map, saved, fails, readFrom, readAt, early, gap, torn>>
tenantVars == <<tenants, hibernated, instances, starting, quotas, restarts, toBoot, live,
  failed, home, stateFile, dir, rollback, gr, ops, faults, failures, crashes, overlap,
  unsaved, cut, denied, want>>

Stream == INSTANCE Replication WITH
  Keys <- {k1}, LiveBuffer <- 1, MaxSeq <- 2, MaxFails <- 1, MaxRotations <- 1

Manager == INSTANCE Lifecycle WITH
  boot <- toBoot, saved <- stateFile,
  Ids <- {t1}, Slots <- {g1}, Engines <- {e1, e2, e3}, Records <- 2, Budget <- 1,
  MaxTenants <- 1, MaxRestarts <- 1, MaxOps <- 2, MaxFaults <- 1, MaxFailures <- 2,
  MaxCrashes <- 0

MCInit ==
  /\ part \in {"stream", "tenants"}
  /\ Stream!Init /\ Manager!Init

MCNext ==
  /\ \/ part = "stream" /\ Stream!Next /\ UNCHANGED tenantVars
     \/ part = "tenants" /\ Manager!Next /\ UNCHANGED streamVars
  /\ UNCHANGED part

\* The fairness of the two specifications, each for its own steps.
MCSpec ==
  /\ MCInit /\ [][MCNext]_<<part, streamVars, tenantVars>>
  /\ WF_streamVars(part = "stream" /\ Stream!Notify)
  /\ WF_streamVars(part = "stream" /\ Stream!Relay)
  /\ WF_streamVars(part = "stream" /\ Stream!Broadcast)
  /\ WF_streamVars(part = "stream" /\ Stream!Connect)
  /\ WF_streamVars(part = "stream" /\ Stream!BootSync)
  /\ WF_streamVars(part = "stream" /\ Stream!BootList)
  /\ WF_streamVars(part = "stream" /\ Stream!BootRead)
  /\ WF_streamVars(part = "stream" /\ Stream!BootSend)
  /\ WF_streamVars(part = "stream" /\ Stream!ApplyWALRecord)
  /\ \A g \in {g1, e1, e2, e3} : WF_tenantVars(part = "tenants" /\ Manager!Proceed(g))
  /\ \A e \in {e1, e2, e3} : WF_tenantVars(part = "tenants" /\ Manager!SuperviseTenant(e))
  /\ WF_tenantVars(part = "tenants" /\ Manager!BootTenant(g1))

-----------------------------------------------------------------------------
(* Properties, explained in the modules they come from.                    *)

\* Bootstrap, relay and replica get through what they have to send (stream.go).
StreamDrains == part = "stream" => Stream!StreamDrains

\* A failed engine's tenant is started again while it has restarts (manager.go).
Restarted == Manager!Restarted

=============================================================================
