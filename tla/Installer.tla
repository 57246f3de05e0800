----------------------------- MODULE Installer -----------------------------
(***************************************************************************)
(* What the installer does to Standable's folder (install.sh, and          *)
(* scripts/install.sh, update.sh and uninstall.sh): it fetches an archive, *)
(* verifies it, replaces the bridge's files one by one, each after a       *)
(* backup and by a rename, and registers the driver.                       *)
(*                                                                         *)
(* A run can end at any step (a command fails under set -e, or it is       *)
(* killed), can be repeated with the same or another version, and nothing  *)
(* keeps two runs apart.  Not in the model: an overlay named on the        *)
(* command line, which is not verified, and the settings file, which       *)
(* scripts/install.sh has enable-dashboard.sh edit.                        *)
(***************************************************************************)
EXTENDS Naturals, FiniteSets

CONSTANTS
  MaxRuns,      \* bound: runs of the installer
  MaxVersion,   \* versions are 1..MaxVersion
  MaxFile,      \* bridge_files in their order, VERSION first
  Optional,     \* scripts that not every version has
  Shipped,      \* the files of a version
  MaxAtOnce     \* bound: runs at the same time

Run == 1..MaxRuns
Version == 1..MaxVersion
File == 1..MaxFile
VersionFile == 1

ASSUME InstallerAssumption ==
  /\ MaxRuns \in Nat /\ MaxVersion \in Nat \ {0} /\ MaxFile \in Nat \ {0}
  /\ Optional \subseteq File \ {VersionFile}
  /\ Shipped \in [Version -> SUBSET File]
  /\ \A v \in Version : File \ Optional \subseteq Shipped[v]
  /\ MaxAtOnce \in Nat

\* The contents of a file: that of a version, or less than one.
Absent == 0
Torn == MaxVersion + 1
Content == Version \cup {Absent, Torn}

VARIABLES
  \* Standable's folder and SteamVR's registry
  destination,       \* the bridge's files
  registered,
  \* runs
  at,                \* where a run is
  archive,           \* the version it has an archive of
  register_driver,
  todo,              \* of bridge_files, those the loop has not got to the end of
  temporary_file,
  backup,            \* what its backup directory holds
  \* history
  ever,              \* contents a file has had
  overlapped         \* two runs have been past their checks at once

folderVars == <<destination, registered>>
fetchVars == <<archive, register_driver>>
vars == <<folderVars, at, fetchVars, todo, temporary_file, backup, ever, overlapped>>

-----------------------------------------------------------------------------
Idle == {"none", "done", "ended"}
Busy == {"backup", "open", "write", "rename", "register"}
First(files) == CHOOSE f \in files : \A g \in files : f <= g
Current(r) == First(todo[r])
Goto(r, place) == at' = [at EXCEPT ![r] = place]

\* The directory of a run is named by the nanosecond: no two runs share one.
BackupByVersion(r) == archive[r]
Backup(r) == r

\* The archive comes from the release, the repository or the checkout, and may arrive torn.
FetchArchive(r) ==
  /\ at[r] = "none"
  /\ \A s \in Run : s < r => at[s] # "none"
  /\ Cardinality({s \in Run : at[s] \notin Idle}) < MaxAtOnce
  /\ \E content \in Version \cup {Torn}, register \in BOOLEAN :
       /\ archive' = [archive EXCEPT ![r] = content]
       /\ register_driver' = [register_driver EXCEPT ![r] = register]
  /\ Goto(r, "verify")
  /\ UNCHANGED <<folderVars, todo, temporary_file, backup, ever, overlapped>>

\* The shortcut a version check would be.
BridgeFilesUnlessCurrent(v) == IF destination[VersionFile] = v THEN {} ELSE Shipped[v]
BridgeFiles(v) == Shipped[v]

\* Where the loop goes on with the files left.
LoopPlace(files) == IF files = {} THEN "register" ELSE "backup"

\* SHA256SUMS is a second download: what is published may have changed since the first.  A
\* mismatch ends the run before anything is touched (EndEarly).
Verified(content) == \E published \in Version : content = published

Verify(r) ==
  /\ at[r] = "verify"
  /\ Verified(archive[r])
  /\ todo' = [todo EXCEPT ![r] = BridgeFiles(archive[r])]
  /\ overlapped' = (overlapped \/ \E s \in Run : at[s] \in Busy)
  /\ Goto(r, LoopPlace(todo'[r]))
  /\ UNCHANGED <<folderVars, fetchVars, temporary_file, backup, ever>>

\* The destination is opened and copied whole, whatever is renamed over it meanwhile; a copy
\* cut short leaves the destination and is no backup.
BackUp(r) ==
  LET f == Current(r) IN
  /\ at[r] = "backup"
  /\ backup' = IF destination[f] = Absent THEN backup
               ELSE [backup EXCEPT ![Backup(r)][f] = destination[f]]
  /\ Goto(r, "open")
  /\ UNCHANGED <<folderVars, fetchVars, todo, temporary_file, ever, overlapped>>

\* install writes the temporary file beside the destination.
PutInPlace(r, content) ==
  /\ temporary_file' = [temporary_file EXCEPT ![r] = content]
  /\ destination' = [destination EXCEPT ![Current(r)] = content]
Put(r, content) ==
  /\ temporary_file' = [temporary_file EXCEPT ![r] = content]
  /\ UNCHANGED destination

OpenTemporary(r) ==
  /\ at[r] = "open"
  /\ Put(r, Torn)
  /\ Goto(r, "write")
  /\ UNCHANGED <<registered, fetchVars, todo, backup, ever, overlapped>>

WriteTemporary(r) ==
  /\ at[r] = "write"
  /\ Put(r, archive[r])
  /\ Goto(r, "rename")
  /\ UNCHANGED <<registered, fetchVars, todo, backup, ever, overlapped>>

Rename(r) ==
  LET f == Current(r) IN
  /\ at[r] = "rename"
  /\ destination' = [destination EXCEPT ![f] = temporary_file[r]]
  /\ ever' = [ever EXCEPT ![f] = @ \cup {temporary_file[r]}]
  /\ temporary_file' = [temporary_file EXCEPT ![r] = Absent]
  /\ todo' = [todo EXCEPT ![r] = @ \ {f}]
  /\ Goto(r, LoopPlace(todo'[r]))
  /\ UNCHANGED <<registered, fetchVars, backup, overlapped>>

\* The run is over; a temporary file it leaves is not looked at again.
Leave(r, how) ==
  /\ Goto(r, how)
  /\ archive' = [archive EXCEPT ![r] = Absent]
  /\ register_driver' = [register_driver EXCEPT ![r] = FALSE]
  /\ todo' = [todo EXCEPT ![r] = {}]
  /\ temporary_file' = [temporary_file EXCEPT ![r] = Absent]

\* The files every version has (required_overlay), those of the bridge that scripts/install.sh
\* asks for among them; Standable's own files are there.
Required == File \ Optional

Register(r) ==
  /\ at[r] = "register"
  /\ register_driver[r] => \A f \in Required : destination[f] # Absent
  /\ registered' = (registered \/ register_driver[r])
  /\ Leave(r, "done")
  /\ UNCHANGED <<destination, backup, ever, overlapped>>

\* A command fails or the run is killed: what it has written stays.
EndEarly(r) ==
  /\ at[r] \notin Idle
  /\ Leave(r, "ended")
  /\ UNCHANGED <<folderVars, backup, ever, overlapped>>

\* uninstall.sh: "No files or Standable settings were deleted."
Uninstall ==
  /\ registered' = FALSE
  /\ UNCHANGED <<destination, at, fetchVars, todo, temporary_file, backup, ever, overlapped>>

\* Nothing of the bridge is installed, or a version from before, with or without registration.
Init ==
  /\ \E v \in {Absent} \cup Version :
       /\ destination = [f \in File |-> IF v \in Version /\ f \in Shipped[v] THEN v ELSE Absent]
       /\ registered \in (IF v = Absent THEN {FALSE} ELSE BOOLEAN)
  /\ at = [r \in Run |-> "none"]
  /\ archive = [r \in Run |-> Absent]
  /\ register_driver = [r \in Run |-> FALSE]
  /\ todo = [r \in Run |-> {}]
  /\ temporary_file = [r \in Run |-> Absent]
  /\ backup = [r \in Run |-> [f \in File |-> Absent]]
  /\ ever = [f \in File |-> {destination[f]}]
  /\ overlapped = FALSE

Step(r) ==
  \/ FetchArchive(r) \/ Verify(r)
  \/ BackUp(r) \/ OpenTemporary(r) \/ WriteTemporary(r) \/ Rename(r)
  \/ Register(r) \/ EndEarly(r)
Next == Uninstall \/ \E r \in Run : Step(r)

Spec == Init /\ [][Next]_vars

-----------------------------------------------------------------------------
\* Every variable has its type.
TypeOK ==
  /\ destination \in [File -> Content] /\ registered \in BOOLEAN
  /\ at \in [Run -> Idle \cup Busy \cup {"verify"}]
  /\ archive \in [Run -> Content] /\ register_driver \in [Run -> BOOLEAN]
  /\ todo \in [Run -> SUBSET File] /\ temporary_file \in [Run -> Content]
  /\ backup \in [Run -> [File -> Content]]
  /\ ever \in [File -> SUBSET Content] /\ overlapped \in BOOLEAN

\* "verifies SHA256SUMS ... atomic replacement" (docs/ARCHITECTURE.md): wherever runs end and
\* however they overlap, every file of the bridge is absent or a whole file of a verified
\* version, and a registered folder has every file the driver needs.
FilesWhole ==
  /\ \A f \in File : destination[f] # Torn
  /\ registered => \A f \in Required : destination[f] # Absent

\* "Every install or update backs up replaced bridge files" (README.md): as long as no two
\* runs have been past their checks at once, whatever a file of the bridge has held is in the
\* folder or in some run's backup, however many runs were cut short and repeated.
ReplacedIsBackedUp ==
  ~overlapped =>
    \A f \in File : \A content \in ever[f] \ {Absent} :
      destination[f] = content \/ \E r \in Run : backup[r][f] = content

\* A run that reports success leaves every file of its version in place, whatever earlier runs
\* left half done, and has registered the driver unless told not to.
FinishedIsComplete ==
  [][\A r \in Run :
       at[r] # "done" /\ at'[r] = "done" /\ ~overlapped =>
         /\ \A f \in Shipped[archive[r]] : destination'[f] = archive[r]
         /\ register_driver[r] => registered']_vars
=============================================================================
