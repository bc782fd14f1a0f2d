--------------------------- MODULE StateFileProofs --------------------------
(***************************************************************************)
(* saveState is atomic for any number of saves, faults and crashes.        *)
(***************************************************************************)
EXTENDS StateFile, TLAPS

\* The orchestrator starts without a state file.
LEMMA InitSaveInv == Init => SaveInv
<1> SUFFICES ASSUME Init PROVE SaveInv
  OBVIOUS
<1>1. exposed \in BOOLEAN
  BY ZenonT(30) DEF Init
<1>2. TypeOK
  BY <1>1, ContentAssumption DEF Init, TypeOK, Contents
<1> QED
  BY <1>2 DEF Init, SaveInv

\* Each file operation of saveState, each failure, the crash and the restart
\* preserve the invariant.
LEMMA NextSaveInv == SaveInv /\ [Next]_vars => SaveInv'
<1> SUFFICES ASSUME SaveInv, [Next]_vars PROVE SaveInv'
  OBVIOUS
<1> USE ContentAssumption DEF SaveInv, TypeOK, Contents
<1>1. CASE SaveState
  BY <1>1 DEF SaveState, files
<1>2. CASE WriteTmp
  BY <1>2 DEF WriteTmp
<1>3. CASE WriteTmpFail
  BY <1>3 DEF WriteTmpFail, ReturnError, Fail
<1>4. CASE RemoveBackup
  BY <1>4 DEF RemoveBackup, RemoveBak, Fail
<1>5. CASE Rotate
  BY <1>5 DEF Rotate
<1>6. CASE RotateFail
  BY <1>6 DEF RotateFail, ReturnError, Fail
<1>7. CASE Install
  BY <1>7 DEF Install
<1>8. CASE InstallFail
  <2>1. pc = "install" /\ pc' = "idle" /\ UNCHANGED <<tmp, mem, saves, acked>>
    BY <1>8 DEF InstallFail, ReturnError
  <2>2. exposed' = (exposed \/ (file' = None /\ bak' # None))
    BY <1>8 DEF InstallFail, ReturnError
  <2>3. faults' \in 0 .. MaxFaults
    BY <1>8 DEF InstallFail, ReturnError, Fail
  <2>4. exposed' \in BOOLEAN
    BY <2>2
  <2>5. CASE bak # None /\ file' = bak /\ bak' = None
    BY <2>1, <2>2, <2>3, <2>4, <2>5
  <2>6. CASE UNCHANGED <<file, bak>>
    BY ZenonT(30), <2>1, <2>2, <2>3, <2>4, <2>6
  <2> QED
    BY <1>8, <2>5, <2>6 DEF InstallFail
<1>9. CASE Clean
  BY <1>9 DEF Clean, RemoveBak, Fail
<1>10. CASE Crash
  BY ZenonT(30), <1>10 DEF Crash, files
<1>11. CASE NewManager
  BY <1>11 DEF NewManager, loadState, files
<1>12. CASE UNCHANGED vars
  BY <1>12 DEF vars
<1> QED
  BY <1>1, <1>2, <1>3, <1>4, <1>5, <1>6, <1>7, <1>8, <1>9, <1>10, <1>11,
     <1>12 DEF Next

\* The state file and its siblings always stand as SaveInv says.
THEOREM SaveInvariant == Spec => []SaveInv
BY InitSaveInv, NextSaveInv, PTL DEF Spec

\* A restart finds the last acknowledged map or the one being saved, at every
\* step of saveState, unless .bak was left as the only copy.
THEOREM SavesAreAtomic == Spec => []AtomicSave
<1>1. SaveInv => AtomicSave
  BY ContentAssumption
     DEF SaveInv, TypeOK, Contents, AtomicSave, Loadable, loadState
<1> QED
  BY <1>1, SaveInvariant, PTL
=============================================================================
