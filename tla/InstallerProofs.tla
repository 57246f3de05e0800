-------------------------- MODULE InstallerProofs --------------------------
(***************************************************************************)
(* FilesWhole, ReplacedIsBackedUp and FinishedIsComplete hold of Installer *)
(* for any number of runs, versions and files.                             *)
(***************************************************************************)
EXTENDS Installer, TLAPS, WellFoundedInduction

-----------------------------------------------------------------------------
(* Type correctness.                                                       *)

\* A run that has files left goes on with one of them.
LEMMA FirstIsOne ==
  ASSUME NEW files \in SUBSET File, files # {}
  PROVE  First(files) \in files
<1>1. files \subseteq Nat
  BY InstallerAssumption DEF File
<1>2. \E f \in files : \A g \in files : ~ <<g, f>> \in OpToRel(<, Nat)
  BY <1>1, NatLessThanWellFounded, WFMin
<1>3. \A f, g \in files : <<g, f>> \in OpToRel(<, Nat) <=> g < f
  BY <1>1 DEF OpToRel
<1>4. PICK f \in files : \A g \in files : ~ <<g, f>> \in OpToRel(<, Nat)
  BY <1>2
<1>5. \A g \in files : f <= g
  <2> TAKE g \in files
  <2>1. ~ (g < f)
    BY <1>3, <1>4
  <2> QED
    BY <1>1, <2>1
<1> QED
  BY <1>5 DEF First

LEMMA ContentTypes ==
  /\ Absent \in Content /\ Torn \in Content /\ Version \subseteq Content
  /\ Absent \notin Version /\ Torn \notin Version /\ Torn # Absent
BY InstallerAssumption DEF Content, Absent, Torn, Version

LEMMA TypeInit == Init => TypeOK
<1> SUFFICES ASSUME Init PROVE TypeOK
  OBVIOUS
<1>1. PICK v \in {Absent} \cup Version :
        /\ destination = [f \in File |-> IF v \in Version /\ f \in Shipped[v] THEN v ELSE Absent]
        /\ registered \in (IF v = Absent THEN {FALSE} ELSE BOOLEAN)
  BY DEF Init
<1>2. destination \in [File -> Content] /\ registered \in BOOLEAN
  BY <1>1, ContentTypes
<1>3. ever \in [File -> SUBSET Content]
  BY <1>2 DEF Init
<1>4. /\ at \in [Run -> Idle \cup Busy \cup {"verify"}]
      /\ archive \in [Run -> Content] /\ register_driver \in [Run -> BOOLEAN]
      /\ todo \in [Run -> SUBSET File] /\ temporary_file \in [Run -> Content]
      /\ overlapped \in BOOLEAN
  BY ContentTypes DEF Init, Idle
<1>5. backup \in [Run -> [File -> Content]]
  BY ContentTypes DEF Init
<1> QED
  BY <1>2, <1>3, <1>4, <1>5 DEF TypeOK

LEMMA TypeLeave ==
  ASSUME TypeOK, NEW r \in Run, NEW how \in Idle, Leave(r, how)
  PROVE  /\ at' \in [Run -> Idle \cup Busy \cup {"verify"}]
         /\ archive' \in [Run -> Content] /\ register_driver' \in [Run -> BOOLEAN]
         /\ todo' \in [Run -> SUBSET File] /\ temporary_file' \in [Run -> Content]
BY ContentTypes DEF Leave, Goto, TypeOK

LEMMA TypeStep ==
  ASSUME TypeOK, NEW r \in Run, Step(r)
  PROVE  TypeOK'
<1> USE ContentTypes DEF TypeOK, Goto, Idle, Busy, folderVars, fetchVars
<1>1. CASE FetchArchive(r)
  BY <1>1 DEF FetchArchive
<1>2. CASE Verify(r)
  <2>1. Shipped[archive[r]] \in SUBSET File
    BY <1>2, InstallerAssumption DEF Verify, Verified
  <2>2. todo' \in [Run -> SUBSET File]
    BY <1>2, <2>1 DEF Verify, BridgeFiles
  <2> QED
    BY <1>2, <2>2 DEF Verify, LoopPlace
<1>3. CASE BackUp(r)
  <2>1. backup' \in [Run -> [File -> Content]]
    BY <1>3 DEF BackUp, Backup
  <2> QED
    BY <1>3, <2>1 DEF BackUp
<1>4. CASE OpenTemporary(r)
  BY <1>4 DEF OpenTemporary, Put
<1>5. CASE WriteTemporary(r)
  BY <1>5 DEF WriteTemporary, Put
<1>6. CASE Rename(r)
  <2>1. destination' \in [File -> Content]
    BY <1>6 DEF Rename
  <2>2. ever' \in [File -> SUBSET Content]
    BY <1>6 DEF Rename
  <2> QED
    BY <1>6, <2>1, <2>2 DEF Rename, LoopPlace
<1>7. CASE Register(r)
  BY <1>7, TypeLeave DEF Register
<1>8. CASE EndEarly(r)
  BY <1>8, TypeLeave DEF EndEarly
<1> QED
  BY <1>1, <1>2, <1>3, <1>4, <1>5, <1>6, <1>7, <1>8 DEF Step

-----------------------------------------------------------------------------
(* The invariant.  A run past its checks has the archive of a version; what *)
(* it renames is whole; while runs do not overlap, the file it works on has *)
(* its content in the run's own backup, which holds nothing yet of the      *)
(* files still to come, and the files behind it are of its version.         *)

InLoop == {"backup", "open", "write", "rename"}
BackedUp == {"open", "write", "rename"}

Whole ==
  /\ \A r \in Run : at[r] \in Busy => archive[r] \in Version
  /\ \A r \in Run : at[r] = "rename" => temporary_file[r] = archive[r]
  /\ \A r \in Run : at[r] \in InLoop => todo[r] # {}
  /\ \A r \in Run : at[r] = "register" => todo[r] = {}
  /\ FilesWhole

Saved(f, content) == destination[f] = content \/ \E r \in Run : backup[r][f] = content

Kept ==
  /\ \A r, s \in Run : at[r] \in Busy /\ at[s] \in Busy => r = s
  /\ \A f \in File : destination[f] \in ever[f]
  /\ \A f \in File : \A content \in ever[f] \ {Absent} : Saved(f, content)
  /\ \A r \in Run : at[r] \in {"none", "verify"} => \A f \in File : backup[r][f] = Absent
  /\ \A r \in Run : at[r] = "backup" => \A f \in todo[r] : backup[r][f] = Absent
  /\ \A r \in Run : at[r] \in BackedUp =>
       /\ \A f \in todo[r] \ {Current(r)} : backup[r][f] = Absent
       /\ destination[Current(r)] \in {Absent, backup[r][Current(r)]}

Behind ==
  \A r \in Run : at[r] \in Busy =>
    \A f \in Shipped[archive[r]] \ todo[r] : destination[f] = archive[r]

IInv == TypeOK /\ Whole /\ (~overlapped => Kept /\ Behind)

\* A step of a run leaves the others where they are.
LEMMA OthersStay ==
  ASSUME TypeOK, NEW r \in Run, Step(r), NEW s \in Run \ {r}
  PROVE  /\ at'[s] = at[s] /\ archive'[s] = archive[s] /\ todo'[s] = todo[s]
         /\ temporary_file'[s] = temporary_file[s] /\ backup'[s] = backup[s]
BY DEF Step, FetchArchive, Verify, BackUp, OpenTemporary, WriteTemporary, Rename, Register, EndEarly,
       Leave, Put, Backup, Goto, TypeOK, folderVars, fetchVars

LEMMA InvariantInit == Init => IInv
<1> SUFFICES ASSUME Init PROVE IInv
  OBVIOUS
<1>1. TypeOK
  BY TypeInit
<1>2. PICK v \in {Absent} \cup Version :
        /\ destination = [f \in File |-> IF v \in Version /\ f \in Shipped[v] THEN v ELSE Absent]
        /\ registered \in (IF v = Absent THEN {FALSE} ELSE BOOLEAN)
  BY DEF Init
<1>3. FilesWhole
  <2>1. \A f \in File : destination[f] # Torn
    BY <1>2, ContentTypes
  <2>2. ASSUME registered PROVE \A f \in Required : destination[f] # Absent
    <3>1. v \in Version
      BY <1>2, <2>2
    <3>2. Required \subseteq Shipped[v] /\ Required \subseteq File
      BY <3>1, InstallerAssumption DEF Required
    <3> QED
      BY <1>2, <3>1, <3>2, ContentTypes
  <2> QED
    BY <2>1, <2>2 DEF FilesWhole
<1>4. Whole
  BY <1>3 DEF Init, Whole, Busy, InLoop
<1>5. Kept
  <2>1. \A f \in File : ever[f] = {destination[f]}
    BY DEF Init
  <2> QED
    BY <2>1 DEF Init, Kept, Busy, BackedUp, Saved
<1>6. Behind
  BY DEF Init, Behind, Busy
<1> QED
  BY <1>1, <1>4, <1>5, <1>6 DEF IInv

LEMMA WholeStep ==
  ASSUME TypeOK, Whole, NEW r \in Run, Step(r)
  PROVE  Whole'
<1>1. \A s \in Run \ {r} :
        /\ at'[s] = at[s] /\ archive'[s] = archive[s] /\ todo'[s] = todo[s]
        /\ temporary_file'[s] = temporary_file[s]
  BY OthersStay
<1>2. /\ at'[r] \in Busy => archive'[r] \in Version
      /\ at'[r] = "rename" => temporary_file'[r] = archive'[r]
      /\ at'[r] \in InLoop => todo'[r] # {}
      /\ at'[r] = "register" => todo'[r] = {}
  <2> USE DEF TypeOK, Whole, Goto, Idle, Busy, InLoop, fetchVars
  <2>1. CASE FetchArchive(r)
    BY <2>1 DEF FetchArchive
  <2>2. CASE Verify(r)
    BY <2>2 DEF Verify, Verified, LoopPlace
  <2>3. CASE BackUp(r)
    BY <2>3 DEF BackUp
  <2>4. CASE OpenTemporary(r)
    BY <2>4 DEF OpenTemporary, Put
  <2>5. CASE WriteTemporary(r)
    BY <2>5 DEF WriteTemporary, Put
  <2>6. CASE Rename(r)
    BY <2>6 DEF Rename, LoopPlace
  <2>7. CASE Register(r) \/ EndEarly(r)
    BY <2>7 DEF Register, EndEarly, Leave
  <2> QED
    BY <2>1, <2>2, <2>3, <2>4, <2>5, <2>6, <2>7 DEF Step
<1>3. FilesWhole'
  <2>1. CASE Rename(r)
    <3>1. temporary_file[r] \in Version
      BY <2>1 DEF Rename, Whole, Busy
    <3>2. \A f \in File : destination'[f] \in {destination[f], temporary_file[r]}
      BY <2>1 DEF Rename, TypeOK
    <3>3. registered' = registered /\ Required \subseteq File
      BY <2>1 DEF Rename, Required
    <3> QED
      BY <3>1, <3>2, <3>3, ContentTypes DEF Whole, FilesWhole
  <2>2. CASE Register(r)
    BY <2>2 DEF Register, Whole, FilesWhole
  <2>3. CASE FetchArchive(r) \/ Verify(r) \/ BackUp(r) \/ OpenTemporary(r) \/ WriteTemporary(r)
             \/ EndEarly(r)
    BY <2>3 DEF FetchArchive, Verify, BackUp, OpenTemporary, WriteTemporary, EndEarly, Put, Whole,
        FilesWhole, folderVars
  <2> QED
    BY <2>1, <2>2, <2>3 DEF Step
<1> QED
  BY <1>1, <1>2, <1>3 DEF Whole

\* Behind the file it works on, a run alone past its checks has left its own.
LEMMA BehindStep ==
  ASSUME IInv, NEW r \in Run, Step(r), ~overlapped'
  PROVE  Behind'
<1>0. TypeOK /\ TypeOK' /\ Whole
  BY TypeStep DEF IInv
<1>1. ~overlapped
  BY <1>0 DEF Step, FetchArchive, Verify, BackUp, OpenTemporary, WriteTemporary, Rename, Register,
      EndEarly, TypeOK
<1>2. Kept /\ Behind
  BY <1>1 DEF IInv
<1>3. \A s \in Run \ {r} : at'[s] = at[s] /\ archive'[s] = archive[s] /\ todo'[s] = todo[s]
  BY <1>0, OthersStay
<1>4. CASE Rename(r)
  <2>1. at[r] \in Busy /\ archive[r] \in Version /\ temporary_file[r] = archive[r]
    BY <1>0, <1>4 DEF Rename, Whole, Busy
  <2>2. \A s \in Run \ {r} : at'[s] \notin Busy
    BY <1>2, <1>3, <2>1 DEF Kept
  <2>3. \A f \in Shipped[archive[r]] \ todo'[r] : destination'[f] = archive[r]
    <3>1. Shipped[archive[r]] \subseteq File
      BY <2>1, InstallerAssumption
    <3>2. \A f \in Shipped[archive[r]] : f # Current(r) => destination'[f] = destination[f]
      BY <1>0, <1>4, <3>1 DEF Rename, TypeOK
    <3>3. Current(r) \in Shipped[archive[r]] => destination'[Current(r)] = archive[r]
      BY <1>0, <1>4, <2>1, <3>1 DEF Rename, TypeOK
    <3>4. todo'[r] = todo[r] \ {Current(r)}
      BY <1>0, <1>4 DEF Rename, TypeOK
    <3> QED
      BY <1>2, <2>1, <3>2, <3>3, <3>4 DEF Behind
  <2>4. archive'[r] = archive[r]
    BY <1>4 DEF Rename, fetchVars
  <2> QED
    BY <2>2, <2>3, <2>4 DEF Behind
<1>5. CASE Verify(r)
  <2>1. archive[r] \in Version /\ archive' = archive /\ destination' = destination
    BY <1>5 DEF Verify, Verified, fetchVars, folderVars
  <2>2. todo'[r] = Shipped[archive[r]]
    BY <1>0, <1>5 DEF Verify, BridgeFiles, TypeOK
  <2> QED
    BY <1>2, <1>3, <2>1, <2>2 DEF Behind
<1>6. CASE FetchArchive(r) \/ Register(r) \/ EndEarly(r)
  <2>1. at'[r] \notin Busy /\ destination' = destination
    BY <1>0, <1>6 DEF FetchArchive, Register, EndEarly, Leave, Goto, Busy, folderVars, TypeOK
  <2> QED
    BY <1>2, <1>3, <2>1 DEF Behind
<1>7. CASE BackUp(r) \/ OpenTemporary(r) \/ WriteTemporary(r)
  <2>1. /\ at[r] \in Busy /\ destination' = destination
        /\ archive' = archive /\ todo' = todo
    BY <1>7 DEF BackUp, OpenTemporary, WriteTemporary, Put, Busy, folderVars, fetchVars
  <2> QED
    BY <1>2, <1>3, <2>1 DEF Behind
<1> QED
  BY <1>4, <1>5, <1>6, <1>7 DEF Step

\* While runs do not overlap, what a step replaces is in the folder or in a backup.
LEMMA KeptStep ==
  ASSUME IInv, NEW r \in Run, Step(r), ~overlapped'
  PROVE  Kept'
<1>0. TypeOK /\ TypeOK' /\ Whole
  BY TypeStep DEF IInv
<1>1. ~overlapped
  BY <1>0 DEF Step, FetchArchive, Verify, BackUp, OpenTemporary, WriteTemporary, Rename, Register,
      EndEarly, TypeOK
<1>2. Kept
  BY <1>1 DEF IInv
<1>3. \A s \in Run \ {r} : at'[s] = at[s] /\ todo'[s] = todo[s] /\ backup'[s] = backup[s]
  BY <1>0, OthersStay
<1>4. ASSUME NEW files, todo[r] = files, at[r] \in InLoop
      PROVE  Current(r) \in files /\ Current(r) \in File
  <2>1. todo[r] \in SUBSET File /\ todo[r] # {}
    BY <1>0, <1>4 DEF TypeOK, Whole
  <2> QED
    BY <1>4, <2>1, FirstIsOne DEF Current
\* Each step moves r itself as its part of Kept asks, and either nothing was lost.
<1>5. SUFFICES
        /\ at'[r] \in Busy => at[r] \in Busy \/ \A s \in Run : at[s] \notin Busy
        /\ \A f \in File : destination'[f] \in ever'[f]
        /\ \A f \in File : \A content \in ever'[f] \ {Absent} : Saved(f, content)'
        /\ at'[r] \in {"none", "verify"} => \A f \in File : backup'[r][f] = Absent
        /\ at'[r] = "backup" => \A f \in todo'[r] : backup'[r][f] = Absent
        /\ at'[r] \in BackedUp =>
             /\ \A f \in todo'[r] \ {First(todo'[r])} : backup'[r][f] = Absent
             /\ destination'[First(todo'[r])] \in {Absent, backup'[r][First(todo'[r])]}
        /\ \A s \in Run \ {r} : at[s] \in BackedUp =>
             destination'[Current(s)] = destination[Current(s)]
  <2>1. \A p, s \in Run : at'[p] \in Busy /\ at'[s] \in Busy => p = s
    BY <1>2, <1>3, <1>5 DEF Kept
  <2>2. \A s \in Run : at'[s] \in BackedUp =>
          /\ \A f \in todo'[s] \ {Current(s)'} : backup'[s][f] = Absent
          /\ destination'[Current(s)'] \in {Absent, backup'[s][Current(s)']}
    <3>1. ASSUME NEW s \in Run \ {r} PROVE Current(s)' = Current(s)
      BY <1>3, <3>1 DEF Current
    <3> QED
      BY <1>2, <1>3, <1>5, <3>1 DEF Kept, Current
  <2> QED
    BY <1>2, <1>3, <1>5, <2>1, <2>2 DEF Kept
<1>6. CASE BackUp(r)
  <2> DEFINE f == Current(r)
  <2>1. /\ at[r] = "backup" /\ at'[r] = "open"
        /\ destination' = destination /\ todo' = todo /\ ever' = ever
        /\ at[r] \in Busy /\ at[r] \in InLoop
    BY <1>0, <1>6 DEF BackUp, Goto, TypeOK, folderVars, Busy, InLoop
  <2>2. f \in todo[r] /\ f \in File
    BY <1>4, <2>1
  <2>3. \A g \in File : backup'[r][g] = backup[r][g] \/ (g = f /\ backup'[r][g] = destination[f])
    BY <1>0, <1>6, <2>2 DEF BackUp, Backup, TypeOK
  <2>4. destination[f] \in {Absent, backup'[r][f]}
    BY <1>0, <1>6, <2>2 DEF BackUp, Backup, TypeOK
  <2>5. \A g \in todo[r] : backup[r][g] = Absent
    BY <1>2, <2>1 DEF Kept
  <2>6. ASSUME NEW g \in File, NEW content \in ever'[g] \ {Absent}
        PROVE  Saved(g, content)'
    <3>1. Saved(g, content)
      BY <1>2, <2>1, <2>6 DEF Kept
    <3>2. CASE destination[g] = content
      BY <2>1, <3>2 DEF Saved
    <3>3. CASE \E s \in Run : backup[s][g] = content
      <4>1. PICK s \in Run : backup[s][g] = content
        BY <3>3
      <4>2. s = r => g # f
        BY <2>2, <2>5, <2>6, <4>1
      <4>3. backup'[s][g] = content
        BY <1>3, <2>3, <4>1, <4>2
      <4> QED
        BY <4>3 DEF Saved
    <3> QED
      BY <3>1, <3>2, <3>3 DEF Saved
  <2>7. \A g \in todo[r] \ {f} : backup'[r][g] = Absent
    BY <1>0, <2>3, <2>5 DEF TypeOK
  <2>8. \A g \in File : destination'[g] \in ever'[g]
    BY <1>2, <2>1 DEF Kept
  <2> QED
    BY <2>1, <2>4, <2>6, <2>7, <2>8 DEF Current
<1>7. CASE Rename(r)
  <2> DEFINE f == Current(r)
  <2>1. /\ at[r] = "rename" /\ at[r] \in InLoop /\ at[r] \in BackedUp /\ at[r] \in Busy
        /\ backup' = backup /\ todo'[r] = todo[r] \ {f}
        /\ at'[r] \in {"register", "backup"}
    BY <1>0, <1>7 DEF Rename, Goto, TypeOK, Busy, InLoop, BackedUp, LoopPlace
  <2>2. f \in todo[r] /\ f \in File
    BY <1>4, <2>1
  <2>3. \A g \in File \ {f} : destination'[g] = destination[g] /\ ever'[g] = ever[g]
    BY <1>0, <1>7 DEF Rename, TypeOK
  <2>4. destination'[f] = temporary_file[r] /\ ever'[f] = ever[f] \cup {temporary_file[r]}
    BY <1>0, <1>7, <2>2 DEF Rename, TypeOK
  <2>5. destination[f] \in {Absent, backup[r][f]} /\ \A g \in todo[r] \ {f} : backup[r][g] = Absent
    BY <1>2, <2>1 DEF Kept
  <2>6. ASSUME NEW g \in File, NEW content \in ever'[g] \ {Absent}
        PROVE  Saved(g, content)'
    <3>1. CASE content \in ever[g]
      <4>1. Saved(g, content)
        BY <1>2, <2>6, <3>1 DEF Kept
      <4> QED
        BY <2>1, <2>3, <2>5, <2>6, <4>1 DEF Saved
    <3>2. CASE content \notin ever[g]
      BY <2>3, <2>4, <2>6, <3>2 DEF Saved
    <3> QED
      BY <3>1, <3>2
  <2>7. \A g \in File : destination'[g] \in ever'[g]
    BY <1>2, <2>3, <2>4 DEF Kept
  <2>8. \A s \in Run \ {r} : at[s] \notin BackedUp
    BY <1>2, <2>1 DEF Kept, Busy, BackedUp
  <2> QED
    BY <2>1, <2>5, <2>6, <2>7, <2>8 DEF Busy, BackedUp
<1>8. CASE Verify(r)
  <2>1. /\ at[r] = "verify" /\ at'[r] \in {"register", "backup"}
        /\ destination' = destination /\ ever' = ever /\ backup' = backup
        /\ \A s \in Run : at[s] \notin Busy
    BY <1>0, <1>8 DEF Verify, Goto, TypeOK, LoopPlace, folderVars
  <2>2. \A f \in File : backup'[r][f] = Absent
    BY <1>2, <2>1 DEF Kept
  <2>3. todo'[r] \subseteq File
    BY <1>0 DEF TypeOK
  <2> QED
    BY <1>2, <2>1, <2>2, <2>3 DEF Kept, Saved, BackedUp
<1>9. CASE OpenTemporary(r) \/ WriteTemporary(r)
  <2>1. /\ at[r] \in BackedUp /\ at'[r] \in {"write", "rename"} /\ at[r] \in Busy
        /\ destination' = destination /\ ever' = ever /\ backup' = backup /\ todo' = todo
    BY <1>0, <1>9 DEF OpenTemporary, WriteTemporary, Put, Goto, TypeOK, Busy, BackedUp
  <2> QED
    BY <1>2, <2>1 DEF Kept, Saved, Current
<1>10. CASE FetchArchive(r) \/ Register(r) \/ EndEarly(r)
  <2>1. /\ at'[r] \notin Busy /\ at'[r] \notin BackedUp
        /\ at'[r] \in {"none", "verify"} => at[r] = "none"
        /\ destination' = destination /\ ever' = ever /\ backup' = backup
    BY <1>0, <1>10 DEF FetchArchive, Register, EndEarly, Leave, Goto, Busy, BackedUp, TypeOK, folderVars
  <2> QED
    BY <1>2, <2>1 DEF Kept, Saved, Busy
<1> QED
  BY <1>6, <1>7, <1>8, <1>9, <1>10 DEF Step

LEMMA InvariantStep == IInv /\ [Next]_vars => IInv'
<1> SUFFICES ASSUME IInv, [Next]_vars PROVE IInv'
  OBVIOUS
<1>1. ASSUME NEW r \in Run, Step(r) PROVE IInv'
  <2>1. TypeOK'
    BY <1>1, TypeStep DEF IInv
  <2>2. Whole'
    BY <1>1, WholeStep DEF IInv
  <2> QED
    BY <1>1, <2>1, <2>2, KeptStep, BehindStep DEF IInv
<1>2. CASE UNCHANGED vars
  <2>1. TypeOK'
    BY <1>2 DEF IInv, TypeOK, vars, folderVars, fetchVars
  <2>2. Whole'
    BY <1>2 DEF IInv, Whole, FilesWhole, vars, folderVars, fetchVars
  <2>3. Kept => Kept'
    BY <1>2 DEF Kept, Saved, Current, vars, folderVars, fetchVars
  <2>4. Behind => Behind'
    BY <1>2 DEF Behind, vars, folderVars, fetchVars
  <2>5. overlapped' = overlapped
    BY <1>2 DEF vars
  <2> QED
    BY <2>1, <2>2, <2>3, <2>4, <2>5 DEF IInv
<1>3. CASE Uninstall
  <2> USE <1>3 DEF Uninstall
  <2>1. TypeOK'
    BY DEF IInv, TypeOK, fetchVars
  <2>2. Whole'
    BY DEF IInv, Whole, FilesWhole, fetchVars
  <2>3. Kept => Kept'
    BY DEF Kept, Saved, Current, fetchVars
  <2>4. Behind => Behind'
    BY DEF Behind, fetchVars
  <2>5. overlapped' = overlapped
    OBVIOUS
  <2> QED
    BY <2>1, <2>2, <2>3, <2>4, <2>5 DEF IInv
<1> QED
  BY <1>1, <1>2, <1>3 DEF Next

LEMMA Invariant == Spec => []IInv
BY InvariantInit, InvariantStep, PTL DEF Spec

-----------------------------------------------------------------------------
\* Every variable has its type.
THEOREM Types == Spec => []TypeOK
<1>1. IInv => TypeOK
  BY DEF IInv
<1> QED
  BY <1>1, Invariant, PTL

\* However many runs there are, wherever they end and however they overlap, no file of the
\* bridge is ever a part of one, and a registered folder has the files the driver needs.
THEOREM FilesAlwaysWhole == Spec => []FilesWhole
<1>1. IInv => FilesWhole
  BY DEF IInv, Whole
<1> QED
  BY <1>1, Invariant, PTL

\* As long as runs do not overlap past their checks, no content of a bridge file is lost,
\* wherever the runs end and whatever versions they install.
THEOREM NothingLost == Spec => []ReplacedIsBackedUp
<1>1. IInv => ReplacedIsBackedUp
  BY DEF IInv, Kept, Saved, ReplacedIsBackedUp
<1> QED
  BY <1>1, Invariant, PTL

\* A run that reports success has put every file of its version in place and has registered
\* the driver unless told not to, whatever the runs before it left half done.
THEOREM SuccessIsComplete == Spec => FinishedIsComplete
<1> DEFINE Complete ==
      \A r \in Run :
        at[r] # "done" /\ at'[r] = "done" /\ ~overlapped =>
          /\ \A f \in Shipped[archive[r]] : destination'[f] = archive[r]
          /\ register_driver[r] => registered'
<1>1. IInv /\ [Next]_vars => [Complete]_vars
  <2> SUFFICES ASSUME IInv, Next, NEW r \in Run, at[r] # "done", at'[r] = "done", ~overlapped
               PROVE  /\ \A f \in Shipped[archive[r]] : destination'[f] = archive[r]
                      /\ register_driver[r] => registered'
    BY DEF Complete
  <2>1. TypeOK /\ Whole /\ Behind
    BY DEF IInv
  <2>2. Step(r)
    <3>1. ~Uninstall
      BY DEF Uninstall
    <3>2. PICK s \in Run : Step(s)
      BY <3>1 DEF Next
    <3>3. s = r
      BY <2>1, <3>2, OthersStay
    <3> QED
      BY <3>2, <3>3
  <2>3. Register(r)
    BY <2>1, <2>2 DEF Step, FetchArchive, Verify, BackUp, OpenTemporary, WriteTemporary, Rename,
        EndEarly, Leave, Goto, LoopPlace, TypeOK
  <2>4. at[r] = "register" /\ at[r] \in Busy /\ todo[r] = {} /\ destination' = destination
    BY <2>1, <2>3 DEF Register, Whole, Busy
  <2>5. register_driver[r] => registered'
    BY <2>3 DEF Register
  <2> QED
    BY <2>1, <2>4, <2>5 DEF Behind
<1>2. IInv /\ [Next]_vars /\ IInv' => [Complete]_vars
  BY <1>1
<1> QED
  BY <1>2, Invariant, PTL DEF Spec, FinishedIsComplete, Complete
=============================================================================
