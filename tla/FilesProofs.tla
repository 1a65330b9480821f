----------------------------- MODULE FilesProofs -----------------------------
(* Proofs about Files for every number of drifts, scripts and faults.        *)
EXTENDS Files, TLAPS

\* Pair i is in order, or its backup is missing.
Healed(i) ==
    content[Backup[i]] # "none" => content[Primary[i]] = content[Backup[i]]

\* How far an integrity check that nobody disturbed has got.
CheckInv ==
    /\ up
    /\ pc \in {"wait", "policy", "policyCopy"} => Healed(1) /\ Healed(2)
    /\ pair = 2 => Healed(1)
    /\ pc = "hashBackup" => ph = content[Primary[pair]]
    /\ pc = "copy"       => content[Primary[pair]] = "none"
    /\ pc = "copyRest"   => content[Primary[pair]] = "part"
    /\ pc = "rename"     => content[Stage[pair]] = content[Backup[pair]]

\* The inductive invariant.
IInv == TypeOK /\ (quiet => CheckInv)

-----------------------------------------------------------------------------
\* The files are different ones.
LEMMA FileFacts ==
    /\ Primary[1] = "driver" /\ Primary[2] = "watchdog"
    /\ Backup[1] = "driverBackup" /\ Backup[2] = "watchdogBackup"
    /\ Stage[1] = "driverStage" /\ Stage[2] = "watchdogStage"
    /\ Pair = {1, 2}
    /\ File = {"driver", "watchdog", "driverBackup", "watchdogBackup", "driverStage",
               "watchdogStage", "policy", "policySource"}
<1>1. Pair = {1, 2}
  BY DEF Pair
<1>2. QED
  BY <1>1 DEF Primary, Backup, Stage, File

\* The steps of the scripts are numbered within the bound.
LEMMA OrderFacts ==
    Len(InstallOrder) = 8 /\ Len(UninstallOrder) = 10
BY DEF InstallOrder, UninstallOrder

\* The conjuncts of TypeOK, the Boolean ones apart.
TypeFlags ==
    /\ foreign \in BOOLEAN /\ locked \in BOOLEAN /\ tight \subseteq Dir
    /\ up \in BOOLEAN /\ image \in BOOLEAN /\ registered \in BOOLEAN
    /\ refused \in BOOLEAN /\ quiet \in BOOLEAN /\ cut \in BOOLEAN

TypeFiles ==
    /\ content \in [File -> Content]
    /\ pc \in PC /\ pair \in Pair /\ ph \in Content

TypeSteps ==
    /\ script \in {"none", "install", "uninstall", "uninstalled"}
    /\ step \in 0 .. 2 * Len(InstallOrder)
    /\ drifts \in 0 .. MaxDrifts /\ runs \in 0 .. MaxScripts /\ faults \in 0 .. MaxFaults

LEMMA TypeParts == TypeOK <=> TypeFlags /\ TypeFiles /\ TypeSteps
BY DEF TypeOK, TypeFlags, TypeFiles, TypeSteps

\* The initial state satisfies the inductive invariant.
LEMMA InitIInv == Init => IInv
<1> SUFFICES ASSUME Init PROVE IInv
  OBVIOUS
<1> USE FilesAssumption, OrderFacts DEF Init
<1>1. TypeFiles
  BY FileFacts DEF TypeFiles, Content, Whole, PC
<1>2. TypeSteps
  BY DEF TypeSteps
<1>3. TypeFlags
  BY DEF TypeFlags, Dir
<1>4. QED
  BY <1>1, <1>2, <1>3, TypeParts DEF IInv

\* Every step preserves the types.
LEMMA TypeStep ==
    ASSUME TypeOK, [Next]_vars
    PROVE  TypeOK'
<1> USE FilesAssumption, FileFacts, OrderFacts DEF TypeFlags, TypeFiles, TypeSteps
<1>0. TypeFlags /\ TypeFiles /\ TypeSteps
  BY TypeParts
<1>1. CASE BeginPass
  <2>1. TypeFlags'
    BY <1>0, <1>1 DEF BeginPass, Advance, PC, disk, guards, scripts, bounds
  <2>2. TypeFiles'
    BY <1>0, <1>1 DEF BeginPass, Advance, PC, disk, guards, scripts, bounds
  <2>3. TypeSteps'
    BY <1>0, <1>1 DEF BeginPass, Advance, PC, disk, guards, scripts, bounds
  <2>4. QED
    BY <2>1, <2>2, <2>3 DEF TypeOK
<1>2. CASE CheckPolicy
  <2>1. TypeFlags'
    BY <1>0, <1>2 DEF CheckPolicy, Advance, PC, Put, Content, disk, guards, scripts,
           bounds
  <2>2. TypeFiles'
    BY <1>0, <1>2 DEF CheckPolicy, Advance, PC, Put, Content, disk, guards, scripts,
           bounds
  <2>3. TypeSteps'
    BY <1>0, <1>2 DEF CheckPolicy, Advance, PC, Put, Content, disk, guards, scripts,
           bounds
  <2>4. QED
    BY <2>1, <2>2, <2>3 DEF TypeOK
<1>3. CASE CopyPolicy
  <2>1. TypeFlags'
    BY <1>0, <1>3 DEF CopyPolicy, Advance, PC, Put, disk, guards, scripts, bounds
  <2>2. TypeFiles'
    BY <1>0, <1>3 DEF CopyPolicy, Advance, PC, Put, disk, guards, scripts, bounds
  <2>3. TypeSteps'
    BY <1>0, <1>3 DEF CopyPolicy, Advance, PC, Put, disk, guards, scripts, bounds
  <2>4. QED
    BY <2>1, <2>2, <2>3 DEF TypeOK
<1>4. CASE HashPrimary
  <2>1. TypeFlags'
    BY <1>0, <1>4 DEF HashPrimary, Advance, PC, disk, guards, scripts, bounds
  <2>2. TypeFiles'
    BY <1>0, <1>4 DEF HashPrimary, Advance, PC, disk, guards, scripts, bounds
  <2>3. TypeSteps'
    BY <1>0, <1>4 DEF HashPrimary, Advance, PC, disk, guards, scripts, bounds
  <2>4. QED
    BY <2>1, <2>2, <2>3 DEF TypeOK
<1>5. CASE HashBackup
  <2>1. TypeFlags'
    BY <1>0, <1>5 DEF HashBackup, AfterPair, NextPair, Repair, PC, Content, disk, guards,
           scripts, bounds
  <2>2. TypeFiles'
    BY <1>0, <1>5 DEF HashBackup, AfterPair, NextPair, Repair, PC, Content, disk, guards,
           scripts, bounds
  <2>3. TypeSteps'
    BY <1>0, <1>5 DEF HashBackup, AfterPair, NextPair, Repair, PC, Content, disk, guards,
           scripts, bounds
  <2>4. QED
    BY <2>1, <2>2, <2>3 DEF TypeOK
<1>6. CASE HashPrimaryFails \/ HashBackupFails
  <2>1. TypeFlags'
    BY <1>0, <1>6 DEF HashPrimaryFails, HashBackupFails, Fault, Advance, AfterPair,
           NextPair, PC, Content, disk, guards, scripts, bounds
  <2>2. TypeFiles'
    BY <1>0, <1>6 DEF HashPrimaryFails, HashBackupFails, Fault, Advance, AfterPair,
           NextPair, PC, Content, disk, guards, scripts, bounds
  <2>3. TypeSteps'
    BY <1>0, <1>6 DEF HashPrimaryFails, HashBackupFails, Fault, Advance, AfterPair,
           NextPair, PC, Content, disk, guards, scripts, bounds
  <2>4. QED
    BY <2>1, <2>2, <2>3 DEF TypeOK
<1>7. CASE CreateCopy
  <2>1. TypeFlags'
    BY <1>0, <1>7 DEF CreateCopy, Advance, PC, Put, Content, Target, disk, guards,
           scripts, bounds
  <2>2. TypeFiles'
    BY <1>0, <1>7 DEF CreateCopy, Advance, PC, Put, Content, Target, disk, guards,
           scripts, bounds
  <2>3. TypeSteps'
    BY <1>0, <1>7 DEF CreateCopy, Advance, PC, Put, Content, Target, disk, guards,
           scripts, bounds
  <2>4. QED
    BY <2>1, <2>2, <2>3 DEF TypeOK
<1>8. CASE FillCopy
  <2>1. TypeFlags'
    BY <1>0, <1>8 DEF FillCopy, Advance, AfterPair, NextPair, Target, Source, PC, Put,
           disk, guards, scripts, bounds
  <2>2. TypeFiles'
    BY <1>0, <1>8 DEF FillCopy, Advance, AfterPair, NextPair, Target, Source, PC, Put,
           disk, guards, scripts, bounds
  <2>3. TypeSteps'
    BY <1>0, <1>8 DEF FillCopy, Advance, AfterPair, NextPair, Target, Source, PC, Put,
           disk, guards, scripts, bounds
  <2>4. QED
    BY <2>1, <2>2, <2>3 DEF TypeOK
<1>9. CASE Rename
  <2>1. TypeFlags'
    BY <1>0, <1>9 DEF Rename, Advance, AfterPair, NextPair, Target, Source, PC, Content,
           disk, guards, scripts, bounds
  <2>2. TypeFiles'
    BY <1>0, <1>9 DEF Rename, Advance, AfterPair, NextPair, Target, Source, PC, Content,
           disk, guards, scripts, bounds
  <2>3. TypeSteps'
    BY <1>0, <1>9 DEF Rename, Advance, AfterPair, NextPair, Target, Source, PC, Content,
           disk, guards, scripts, bounds
  <2>4. QED
    BY <2>1, <2>2, <2>3 DEF TypeOK
<1>10. CASE RepairRefused \/ RepairFails
  <2>1. TypeFlags'
    BY <1>0, <1>10 DEF RepairRefused, RepairFails, GiveUp, Fault, PC, disk, guards,
           scripts, bounds
  <2>2. TypeFiles'
    BY <1>0, <1>10 DEF RepairRefused, RepairFails, GiveUp, Fault, PC, disk, guards,
           scripts, bounds
  <2>3. TypeSteps'
    BY <1>0, <1>10 DEF RepairRefused, RepairFails, GiveUp, Fault, PC, disk, guards,
           scripts, bounds
  <2>4. QED
    BY <2>1, <2>2, <2>3 DEF TypeOK
<1>11. CASE StartInstall \/ StartUninstall
  <2>1. TypeFlags'
    BY <1>0, <1>11 DEF StartInstall, StartUninstall, disk, guards, dog
  <2>2. TypeFiles'
    BY <1>0, <1>11 DEF StartInstall, StartUninstall, disk, guards, dog
  <2>3. TypeSteps'
    BY <1>0, <1>11 DEF StartInstall, StartUninstall, disk, guards, dog
  <2>4. QED
    BY <2>1, <2>2, <2>3 DEF TypeOK
<1>12. CASE InstallWrites
  <2>1. TypeFlags'
    BY <1>0, <1>12 DEF InstallWrites, InstallAdvances, Put, Content, Whole, guards, dog,
           bounds
  <2>2. TypeFiles'
    BY <1>0, <1>12 DEF InstallWrites, InstallAdvances, Put, Content, Whole, guards, dog,
           bounds
  <2>3. TypeSteps'
    BY <1>0, <1>12 DEF InstallWrites, InstallAdvances, Put, Content, Whole, guards, dog,
           bounds
  <2>4. QED
    BY <2>1, <2>2, <2>3 DEF TypeOK
<1>13. CASE InstallSkips \/ InstallAcl
  <2>1. TypeFlags'
    BY <1>0, <1>13 DEF InstallSkips, InstallAcl, InstallAdvances, disk, guards, dog,
           bounds
  <2>2. TypeFiles'
    BY <1>0, <1>13 DEF InstallSkips, InstallAcl, InstallAdvances, disk, guards, dog,
           bounds
  <2>3. TypeSteps'
    BY <1>0, <1>13 DEF InstallSkips, InstallAcl, InstallAdvances, disk, guards, dog,
           bounds
  <2>4. QED
    BY <2>1, <2>2, <2>3 DEF TypeOK
<1>14. CASE InstallService
  <2>1. TypeFlags'
    BY <1>0, <1>14 DEF InstallService, InstallAdvances, PC, disk, guards, bounds
  <2>2. TypeFiles'
    BY <1>0, <1>14 DEF InstallService, InstallAdvances, PC, disk, guards, bounds
  <2>3. TypeSteps'
    BY <1>0, <1>14 DEF InstallService, InstallAdvances, PC, disk, guards, bounds
  <2>4. QED
    BY <2>1, <2>2, <2>3 DEF TypeOK
<1>15. CASE InstallDenied \/ KillScript
  <2>1. TypeFlags'
    BY <1>0, <1>15 DEF InstallDenied, KillScript, Fault, disk, guards, dog, bounds
  <2>2. TypeFiles'
    BY <1>0, <1>15 DEF InstallDenied, KillScript, Fault, disk, guards, dog, bounds
  <2>3. TypeSteps'
    BY <1>0, <1>15 DEF InstallDenied, KillScript, Fault, disk, guards, dog, bounds
  <2>4. QED
    BY <2>1, <2>2, <2>3 DEF TypeOK
<1>16. CASE UninstallStep
  <2>1. TypeFlags'
    BY <1>0, <1>16 DEF UninstallStep, Content, bounds
  <2>2. TypeFiles'
    BY <1>0, <1>16 DEF UninstallStep, Content, bounds
  <2>3. TypeSteps'
    BY <1>0, <1>16 DEF UninstallStep, Content, bounds
  <2>4. QED
    BY <2>1, <2>2, <2>3 DEF TypeOK
<1>17. CASE Crash \/ Restart
  <2>1. TypeFlags'
    BY <1>0, <1>17 DEF Crash, Restart, Fault, PC, Content, disk, guards, scripts, bounds
  <2>2. TypeFiles'
    BY <1>0, <1>17 DEF Crash, Restart, Fault, PC, Content, disk, guards, scripts, bounds
  <2>3. TypeSteps'
    BY <1>0, <1>17 DEF Crash, Restart, Fault, PC, Content, disk, guards, scripts, bounds
  <2>4. QED
    BY <2>1, <2>2, <2>3 DEF TypeOK
<1>18. CASE Reboot
  <2>1. TypeFlags'
    BY <1>0, <1>18 DEF Reboot, Fault, PC, Content, disk
  <2>2. TypeFiles'
    BY <1>0, <1>18 DEF Reboot, Fault, PC, Content, disk
  <2>3. TypeSteps'
    BY <1>0, <1>18 DEF Reboot, Fault, PC, Content, disk
  <2>4. QED
    BY <2>1, <2>2, <2>3 DEF TypeOK
<1>19. CASE LockChanges \/ AclDrifts
  <2>1. TypeFlags'
    BY <1>0, <1>19 DEF LockChanges, AclDrifts, disk, dog, scripts, bounds
  <2>2. TypeFiles'
    BY <1>0, <1>19 DEF LockChanges, AclDrifts, disk, dog, scripts, bounds
  <2>3. TypeSteps'
    BY <1>0, <1>19 DEF LockChanges, AclDrifts, disk, dog, scripts, bounds
  <2>4. QED
    BY <2>1, <2>2, <2>3 DEF TypeOK
<1>20. CASE FileDrifts
  <2>1. TypeFlags'
    BY <1>0, <1>20 DEF FileDrifts, Put, Content, Whole, guards, scripts
  <2>2. TypeFiles'
    BY <1>0, <1>20 DEF FileDrifts, Put, Content, Whole, guards, scripts
  <2>3. TypeSteps'
    BY <1>0, <1>20 DEF FileDrifts, Put, Content, Whole, guards, scripts
  <2>4. QED
    BY <2>1, <2>2, <2>3 DEF TypeOK
<1>21. CASE UNCHANGED vars
  <2>1. TypeFlags'
    BY <1>0, <1>21 DEF vars, dog, disk, guards, scripts, bounds
  <2>2. TypeFiles'
    BY <1>0, <1>21 DEF vars, dog, disk, guards, scripts, bounds
  <2>3. TypeSteps'
    BY <1>0, <1>21 DEF vars, dog, disk, guards, scripts, bounds
  <2>4. QED
    BY <2>1, <2>2, <2>3 DEF TypeOK
<1>22. QED
  BY <1>1, <1>2, <1>3, <1>4, <1>5, <1>6, <1>7, <1>8, <1>9, <1>10, <1>11, <1>12, <1>13,
           <1>14,
     <1>15, <1>16, <1>17, <1>18, <1>19, <1>20, <1>21 DEF Next, PassStep, Environment

\* The steps after which a check is no longer undisturbed ...
Disturbs ==
    \/ HashPrimaryFails \/ HashBackupFails \/ RepairRefused \/ RepairFails
    \/ InstallWrites \/ UninstallStep \/ Crash \/ Reboot \/ FileDrifts

LEMMA Disturbed == Disturbs => ~quiet'
BY DEF Disturbs, HashPrimaryFails, HashBackupFails, RepairRefused, RepairFails, GiveUp,
       InstallWrites, UninstallStep, Crash, Reboot, FileDrifts

\* ... and those that touch neither a file nor the watchdog.
Stutters ==
    \/ StartInstall \/ InstallSkips \/ InstallAcl \/ InstallDenied \/ StartUninstall
    \/ KillScript \/ LockChanges \/ AclDrifts

\* A step of the watchdog takes an undisturbed check further; a step of anybody
\* else leaves every file of the pairs alone or ends it.
LEMMA CheckStep ==
    ASSUME IInv, [Next]_vars, quiet'
    PROVE  CheckInv'
<1> USE FileFacts DEF IInv, TypeOK, CheckInv, Healed
<1>1. CASE BeginPass
  BY <1>1 DEF BeginPass, Advance, disk
<1>2. CASE CheckPolicy
  BY <1>2 DEF CheckPolicy, Advance, Put
<1>3. CASE CopyPolicy
  BY <1>3 DEF CopyPolicy, Advance, Put
<1>4. CASE HashPrimary
  BY <1>4 DEF HashPrimary, Advance, disk
<1>5. CASE HashBackup
  BY <1>5 DEF HashBackup, AfterPair, NextPair, Repair, disk
<1>6. CASE CreateCopy
  BY <1>6 DEF CreateCopy, Advance, Put, Target, Source, Content
<1>7. CASE FillCopy
  BY <1>7 DEF FillCopy, Advance, AfterPair, NextPair, Target, Source, Put
<1>8. CASE Rename
  BY <1>8 DEF Rename, Advance, AfterPair, NextPair, Target, Source
<1>9. CASE Disturbs
  BY <1>9, Disturbed
<1>10. CASE Stutters
  BY <1>10 DEF Stutters, StartInstall, InstallSkips, InstallAcl, InstallDenied, StartUninstall,
               KillScript, LockChanges, AclDrifts, disk, dog
<1>11. CASE InstallService
  BY <1>11 DEF InstallService, disk
<1>12. CASE Restart
  BY <1>12 DEF Restart
<1>13. CASE UNCHANGED vars
  BY <1>13 DEF vars, disk, dog
<1>14. QED
  BY <1>1, <1>2, <1>3, <1>4, <1>5, <1>6, <1>7, <1>8, <1>9, <1>10, <1>11, <1>12, <1>13
     DEF Next, PassStep, Environment, Disturbs, Stutters

\* IInv is an invariant of the specification.
LEMMA IInvInvariant == Spec => []IInv
<1>1. IInv /\ [Next]_vars => IInv'
  BY TypeStep, CheckStep DEF IInv
<1>2. QED
  BY InitIInv, <1>1, PTL DEF Spec

\* No step of an undisturbed check, and nobody else, takes a whole primary away
\* from a whole backup.
LEMMA WholeStep ==
    ASSUME IInv, [Next]_vars, quiet, quiet', NEW i \in Pair,
           content[Primary[i]] \in Whole, content[Backup[i]] \in Whole
    PROVE  content'[Primary[i]] \in Whole
<1> USE FileFacts DEF IInv, TypeOK, CheckInv, Whole, Content
<1>1. CASE BeginPass \/ HashPrimary \/ HashBackup
  BY <1>1 DEF BeginPass, HashPrimary, HashBackup, disk
<1>2. CASE CheckPolicy \/ CopyPolicy
  <2>1. content' = content \/ \E c : content' = [content EXCEPT !["policy"] = c]
    BY <1>2 DEF CheckPolicy, CopyPolicy, Put
  <2>2. content'[Primary[i]] = content[Primary[i]]
    BY <2>1
  <2>3. QED
    BY <2>2
<1>3. CASE CreateCopy
  BY <1>3 DEF CreateCopy, Advance, Put, Target
<1>4. CASE FillCopy
  BY <1>4 DEF FillCopy, Advance, Put, Target, Source
<1>5. CASE Rename
  <2>1. /\ pc = "rename" /\ content[Stage[pair]] = content[Backup[pair]]
        /\ content' = [content EXCEPT ![Primary[pair]] = content[Stage[pair]],
                                      ![Stage[pair]] = "none"]
    BY <1>5 DEF Rename, Advance, Target, Source
  <2>2. QED
    BY <2>1
<1>6. CASE Disturbs
  BY <1>6, Disturbed
<1>7. CASE Stutters \/ InstallService \/ Restart
  BY <1>7 DEF Stutters, StartInstall, InstallSkips, InstallAcl, InstallService, InstallDenied,
              StartUninstall, KillScript, LockChanges, AclDrifts, Restart, disk
<1>8. CASE UNCHANGED vars
  BY <1>8 DEF vars, disk
<1>9. QED
  BY <1>1, <1>2, <1>3, <1>4, <1>5, <1>6, <1>7, <1>8
     DEF Next, PassStep, Environment, Disturbs, Stutters

-----------------------------------------------------------------------------
\* The files, the watchdog and the scripts keep their types.
THEOREM TypeCorrect == Spec => []TypeOK
<1>1. IInv => TypeOK
  BY DEF IInv
<1>2. QED
  BY IInvInvariant, <1>1, PTL

\* One integrity check that nobody disturbs leaves every pair in order, whatever
\* it finds (enforce_windows.go 226-251).
THEOREM OnePassHealsTheorem == Spec => []OnePassHeals
<1>1. IInv => OnePassHeals
  BY FileFacts DEF IInv, CheckInv, Healed, OnePassHeals
<1>2. QED
  BY IInvInvariant, <1>1, PTL

\* ... and never shows a partial primary where a whole one was (280-292).
THEOREM PresentStaysWholeTheorem == Spec => PresentStaysWhole
<1>1. IInv /\ [Next]_vars
        => [\A i \in Pair :
              (/\ quiet /\ quiet'
               /\ content[Primary[i]] \in Whole /\ content[Backup[i]] \in Whole)
              => content'[Primary[i]] \in Whole]_vars
  BY WholeStep
<1>2. QED
  BY IInvInvariant, <1>1, PTL DEF Spec, PresentStaysWhole
=============================================================================
