----------------------------- MODULE StateFile ------------------------------
(***************************************************************************)
(* The orchestrator's state file: saveState writes a temporary file,       *)
(* rotates the current file to .bak and installs the temporary one;        *)
(* loadState reads the file, or .bak when there is none.  Every caller     *)
(* holds the manager's lock, so saves do not overlap; a crash of the       *)
(* process comes between any two of their file operations.                 *)
(*                                                                         *)
(* A content is the number of the tenant map it encodes: map n is the n-th *)
(* one a save was started for, and map 0 is the empty map of a first run.  *)
(***************************************************************************)
EXTENDS Integers

CONSTANTS
  None,        \* no such file
  MaxSaves,    \* bound: calls of saveState
  MaxFaults    \* bound: file operations that fail

ASSUME ContentAssumption ==
  None \notin Nat /\ MaxSaves \in Nat /\ MaxFaults \in Nat

VARIABLES
  file, bak, tmp,  \* what m.stateFile and its two siblings hold
  mem,             \* m.tenants
  pc,              \* the next step of saveState; idle, or down
  faults, saves,
  \* history
  acked,           \* the map of the last save that returned nil, or was loaded
  exposed          \* .bak was, at some time, the only copy

files == <<file, bak, tmp>>
vars == <<file, bak, tmp, mem, pc, faults, saves, acked, exposed>>

Contents == 0 .. MaxSaves

TypeOK ==
  /\ file \in Contents \cup {None}
  /\ bak \in Contents \cup {None}
  /\ tmp \in Contents \cup {None}
  /\ mem \in Contents
  /\ acked \in Contents
  /\ pc \in {"idle", "write", "remove", "rotate", "install", "clean", "down"}
  /\ faults \in 0 .. MaxFaults
  /\ saves \in Contents
  /\ exposed \in BOOLEAN

-----------------------------------------------------------------------------
\* What loadState returns.  NewManager takes "no such file" for a first run.
loadState ==
  IF file # None THEN file ELSE IF bak # None THEN bak ELSE 0

Init ==
  /\ file = None /\ bak = None /\ tmp = None
  /\ mem = 0 /\ acked = 0
  /\ pc = "idle"
  /\ faults = 0 /\ saves = 0
  /\ exposed = FALSE

\* A lifecycle operation has changed m.tenants and calls saveState.
SaveState ==
  /\ pc = "idle" /\ saves < MaxSaves
  /\ saves' = saves + 1
  /\ mem' = saves'
  /\ pc' = "write"
  /\ UNCHANGED <<files, faults, acked, exposed>>

Fail == faults < MaxFaults /\ faults' = faults + 1

\* saveState returns an error.
ReturnError ==
  /\ Fail
  /\ pc' = "idle"
  /\ exposed' = (exposed \/ (file' = None /\ bak' # None))
  /\ UNCHANGED <<mem, saves, acked>>

WriteTmp ==
  /\ pc = "write"
  /\ tmp' = mem
  /\ pc' = "remove"
  /\ UNCHANGED <<file, bak, mem, faults, saves, acked, exposed>>

WriteTmpFail ==
  /\ pc = "write"
  /\ tmp' = None
  /\ UNCHANGED <<file, bak>>
  /\ ReturnError

\* os.Remove of the backup, whose failure is ignored.
RemoveBak ==
  \/ bak' = None /\ UNCHANGED faults
  \/ Fail /\ UNCHANGED bak

\* The stale backup goes before the rotation.
RemoveBackup ==
  /\ pc = "remove"
  /\ RemoveBak
  /\ pc' = "rotate"
  /\ UNCHANGED <<file, tmp, mem, saves, acked, exposed>>

\* Mutated: the old file is removed to make room, not renamed.
Rotate_Remove ==
  /\ pc = "rotate"
  /\ file' = None
  /\ pc' = "install"
  /\ UNCHANGED <<bak, tmp, mem, faults, saves, acked, exposed>>

Rotate ==
  /\ pc = "rotate"
  /\ IF file # None THEN bak' = file /\ file' = None ELSE UNCHANGED <<bak, file>>
  /\ pc' = "install"
  /\ UNCHANGED <<tmp, mem, faults, saves, acked, exposed>>

RotateFail ==
  /\ pc = "rotate" /\ file # None
  /\ tmp' = None
  /\ UNCHANGED <<file, bak>>
  /\ ReturnError

Install ==
  /\ pc = "install"
  /\ file' = tmp /\ tmp' = None
  /\ pc' = "clean"
  /\ UNCHANGED <<bak, mem, faults, saves, acked, exposed>>

\* The new file cannot be installed: the old one is put back, if that works.
InstallFail ==
  /\ pc = "install"
  /\ \/ bak # None /\ file' = bak /\ bak' = None
     \/ UNCHANGED <<file, bak>>
  /\ UNCHANGED tmp
  /\ ReturnError

Clean ==
  /\ pc = "clean"
  /\ RemoveBak
  /\ acked' = mem
  /\ pc' = "idle"
  /\ UNCHANGED <<file, tmp, mem, saves, exposed>>

\* The process dies; a temporary file it was writing is never read.
Crash ==
  /\ pc \in {"idle", "write", "remove", "rotate", "install", "clean"}
  /\ pc' = "down"
  /\ exposed' = (exposed \/ (file = None /\ bak # None))
  /\ UNCHANGED <<files, mem, faults, saves, acked>>

\* NewManager: the map that was loaded is the state from here on.
NewManager ==
  /\ pc = "down"
  /\ mem' = loadState
  /\ acked' = mem'
  /\ pc' = "idle"
  /\ UNCHANGED <<files, faults, saves, exposed>>

Next ==
  \/ SaveState
  \/ WriteTmp \/ WriteTmpFail
  \/ RemoveBackup
  \/ Rotate \/ RotateFail
  \/ Install \/ InstallFail
  \/ Clean
  \/ Crash \/ NewManager

Spec == Init /\ [][Next]_vars

-----------------------------------------------------------------------------
\* loadState finds the map of the last save that returned nil, or the one
\* of a save that a crash cut short after its rename.
Loadable ==
  \/ loadState = acked
  \/ pc \in {"clean", "down"} /\ loadState = mem

\* saveState (manager.go:151) is atomic, at every step and whatever fails: as
\* long as no crash and no failed pair of renames has left .bak as the only
\* copy, a restart finds the last acknowledged map or the one being saved,
\* and after a save that returned an error it finds the acknowledged one.
AtomicSave == exposed \/ Loadable

\* Why it holds, and inductive.  Between saves the file is the acknowledged map,
\* or there has never been one; while it is away .bak is; and the temporary
\* file is complete before anything else is touched.
SaveInv ==
  /\ TypeOK
  /\ pc \in {"remove", "rotate", "install"} => tmp = mem
  /\ pc = "clean" => file = mem
  /\ exposed \/
       /\ pc \in {"idle", "write", "remove", "rotate"} =>
            \/ file = acked
            \/ file = None /\ bak = None /\ acked = 0
       /\ pc = "install" =>
            file = None /\ (bak = acked \/ (bak = None /\ acked = 0))
       /\ pc = "down" =>
            \/ file \in {acked, mem}
            \/ file = None /\ bak = None /\ acked = 0

\* What the comment at manager.go:141 says of a crash between the rotation and
\* the installation: it leaves the previous complete copy for loadState.
BackupCoversCrash == pc = "down" => Loadable

=============================================================================
