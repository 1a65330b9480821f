-------------------------------- MODULE Files --------------------------------
(* The files of an installation and everybody who writes them at the same    *)
(* time: two checks of the watchdog's pass (ensureWDACPolicy and             *)
(* ensureFileIntegrity, watchdog/enforce_windows.go 148-170, 226-292), the   *)
(* installer's steps 3, 7 and 8 (scripts/Install-Lockguard.ps1) and the      *)
(* uninstaller (scripts/Uninstall-Lockguard.ps1), while the driver's         *)
(* minifilter denies whoever writes outside the permissive window, the ACLs  *)
(* the installer sets deny SYSTEM and the administrators, and Windows        *)
(* protects the image of a running process and files that others hold open.  *)
(* The other checks of a pass are module Watchdog.                           *)
EXTENDS Naturals, Sequences

CONSTANTS
    MaxDrifts,  \* bound: how often a file drifts
    MaxScripts, \* bound: how often a script is started
    MaxFaults   \* bound: crashes, reboots and failing operations together

ASSUME FilesAssumption ==
    MaxDrifts \in Nat /\ MaxScripts \in Nat /\ MaxFaults \in Nat

\* The pairs of ensureFileIntegrity, and the .new files of atomicReplace.
Primary == <<"driver", "watchdog">>
Backup  == <<"driverBackup", "watchdogBackup">>
Stage   == <<"driverStage", "watchdogStage">>
Pair == 1 .. 2

\* ... the .cip file in CiPolicies\Active and its copy among the configuration.
File == {Primary[i] : i \in Pair} \cup {Backup[i] : i \in Pair}
        \cup {Stage[i] : i \in Pair} \cup {"policy", "policySource"}

\* "old" is what is installed at first, "new" what the installer brings, "bad"
\* anything else, "part" a file created and not completely written, "none" no file.
Whole == {"old", "new", "bad"}
Content == Whole \cup {"part", "none"}

\* The installer's ACLs leave SYSTEM read and execute, the administrators read
\* (174-181), on what is in ProgramData\Lockguard and in Lockguard-Restore.
Shielded == [ProgramData |-> {"watchdog", "watchdogStage", "policySource"},
             Restore |-> {"driverBackup", "watchdogBackup"}]
Dir == {"ProgramData", "Restore"}

VARIABLES
    content,    \* of each file
    foreign,    \* another .cip file than lockguard.cip is in CiPolicies\Active
    locked,     \* the driver is loaded and its window closed
    tight,      \* the directories the ACL of which is as the installer sets it
    up,         \* the watchdog's process runs
    image,      \* the file of the name "watchdog" is the image of that process
    registered, \* its service exists and is not marked for deletion
    pc,         \* the watchdog: next step of the two checks, "wait" in between
    pair,       \* the pair it is at
    ph,         \* the hash of that pair's primary
    script,     \* the script that runs: "none", "install", "uninstall", "uninstalled"
    step,       \* its next step
    refused,    \* history: the driver denied this uninstallation something
    quiet,      \* history: since the integrity check began nobody else wrote and
                \* nothing failed
    cut,        \* history: a copy of the policy was cut short or made from a part
    drifts, runs, faults

disk == <<content, foreign>>
guards == <<locked, tight>>
dog == <<up, image, registered, pc, pair, ph>>
scripts == <<script, step, refused>>
bounds == <<drifts, runs, faults>>
vars == <<disk, guards, dog, scripts, quiet, cut, bounds>>

PC == {"wait", "policy", "policyCopy", "hashPrimary", "hashBackup",
       "copy", "copyRest", "stage", "stageRest", "rename"}

\* Installer: Copy-Item of each file (168-171, 289) and ConvertFrom-CIPolicy (282)
\* take two steps; "acl" is icacls (174-181), "service" --service-install (264).
InstallOrder == <<"driver", "driverBackup", "watchdog", "watchdogBackup", "acl",
                  "service", "policySource", "policy">>

\* Uninstaller: sc delete (63), Remove-Item of the policy (70), icacls /reset and
\* Remove-Item of each directory (137-142), the driver (145).
UninstallOrder == <<"service", "policy",
                    "ProgramData", "watchdog", "watchdogStage", "policySource",
                    "Restore", "watchdogBackup", "driverBackup", "driver">>

TypeOK ==
    /\ content \in [File -> Content]
    /\ foreign \in BOOLEAN /\ locked \in BOOLEAN /\ tight \subseteq Dir
    /\ up \in BOOLEAN /\ image \in BOOLEAN /\ registered \in BOOLEAN
    /\ pc \in PC /\ pair \in Pair /\ ph \in Content
    /\ script \in {"none", "install", "uninstall", "uninstalled"}
    /\ step \in 0 .. 2 * Len(InstallOrder)
    /\ refused \in BOOLEAN /\ quiet \in BOOLEAN /\ cut \in BOOLEAN
    /\ drifts \in 0 .. MaxDrifts /\ runs \in 0 .. MaxScripts /\ faults \in 0 .. MaxFaults

\* Installed and booted.  The driver may have failed to load, the policy may not
\* have been compiled (Install-Lockguard.ps1 284, 295), Windows brings policies,
\* and an uninstallation that was denied the files may have removed the service.
Init ==
    /\ \E p \in {"old", "none"} :
          content = [f \in File |-> IF f \in {Stage[i] : i \in Pair} THEN "none"
                                    ELSE IF f \in {"policy", "policySource"} THEN p
                                    ELSE "old"]
    /\ foreign \in BOOLEAN /\ locked \in BOOLEAN /\ tight = Dir
    /\ registered \in BOOLEAN /\ up = registered /\ image = registered
    /\ pc = (IF up THEN "policy" ELSE "wait") /\ pair = 1 /\ ph = "none"
    /\ script = "none" /\ step = 0 /\ refused = FALSE
    /\ quiet = FALSE /\ cut = FALSE
    /\ drifts = 0 /\ runs = 0 /\ faults = 0

\* minifilter.c 17-24: every file but the policy, at every operation that changes it.
Locked(f) == locked /\ f # "policy"

\* The ACL counts when a file is opened, created or renamed.
Denied(f) == Locked(f) \/ \E d \in tight : f \in Shielded[d]

\* Windows neither overwrites nor replaces nor deletes the image of a process; it
\* can be renamed.  (The driver's image was read by the boot loader.)
Running(f) == f = "watchdog" /\ image

Put(f, c) == content' = [content EXCEPT ![f] = c]

-----------------------------------------------------------------------------
\* The watchdog's pass.

Advance(from, to) == up /\ pc = from /\ pc' = to

\* One of the bounded number of failures.
Fault == faults < MaxFaults /\ faults' = faults + 1 /\ UNCHANGED <<drifts, runs>>

BeginPass ==
    /\ Advance("wait", "policy")
    /\ UNCHANGED <<disk, guards, up, image, registered, pair, ph, scripts, quiet, cut, bounds>>

\* Mutant: the test for an error of os.Stat the wrong way round.
PolicyMissingInverted == content["policy"] = "none" /\ ~foreign /\ content["policySource"] = "none"

\* ensureWDACPolicy is content with any .cip file; without one it opens the
\* copy and creates lockguard.cip.
PolicyMissing == content["policy"] = "none" /\ ~foreign /\ content["policySource"] # "none"

CheckPolicy ==
    /\ Advance("policy", IF PolicyMissing THEN "policyCopy" ELSE "hashPrimary")
    /\ IF PolicyMissing THEN Put("policy", "part") ELSE UNCHANGED content
    /\ pair' = 1
    /\ UNCHANGED <<foreign, guards, up, image, registered, ph, scripts, quiet, cut, bounds>>

\* ... which io.Copy then fills.
CopyPolicy ==
    /\ Advance("policyCopy", "hashPrimary")
    /\ content["policySource"] # "none"
    /\ Put("policy", content["policySource"])
    /\ cut' = (cut \/ content["policySource"] = "part")
    /\ UNCHANGED <<foreign, guards, up, image, registered, pair, ph, scripts, quiet, bounds>>

\* fileHash of the primary.
HashPrimary ==
    /\ Advance("hashPrimary", "hashBackup")
    /\ ph' = content[Primary[pair]]
    /\ quiet' = (quiet \/ pair = 1)
    /\ UNCHANGED <<disk, guards, up, image, registered, pair, scripts, cut, bounds>>

\* The installer is in the middle of writing f, which it may hold for itself.
HeldByScript(f) ==
    script = "install" /\ step > 0 /\ step % 2 = 0 /\ f = InstallOrder[step \div 2]

\* fileHash fails on a file that is there: to ensureFileIntegrity any error says
\* that it is missing (236-238).
HashPrimaryFails ==
    /\ Advance("hashPrimary", "hashBackup")
    /\ Fault \/ (HeldByScript(Primary[pair]) /\ UNCHANGED bounds)
    /\ ph' = "none" /\ quiet' = FALSE
    /\ UNCHANGED <<disk, guards, up, image, registered, pair, scripts, cut>>

\* Mutant: a pair that is in order ends the check.
OnePairOnly(i) == "wait"

\* Where the loop over the pairs goes once pair i is done.
AfterPair(i) == IF i = 1 THEN "hashPrimary" ELSE "wait"

\* Mutant: the loop runs past the end.
PastTheEnd(i) == i + 1

NextPair(i) == IF i = 1 THEN 2 ELSE i

\* Mutant: a primary that differs is overwritten in place.
RepairInPlace(p, b) == IF p # b THEN "copy" ELSE "none"

\* What ensureFileIntegrity does about a primary and a backup that both exist.
Repair(p, b) == IF p # b THEN "stage" ELSE "none"

\* fileHash of the backup, and the switch: a missing primary is restored, one that
\* differs is replaced, without a backup there is nothing to compare with.
HashBackup ==
    /\ up /\ pc = "hashBackup"
    /\ LET bh == content[Backup[pair]]
           todo == IF bh = "none" THEN "none"
                   ELSE IF ph = "none" THEN "copy" ELSE Repair(ph, bh)
       IN  /\ pc' = IF todo = "none" THEN AfterPair(pair) ELSE todo
           /\ pair' = IF todo = "none" THEN NextPair(pair) ELSE pair
    /\ ph' = "none"
    /\ UNCHANGED <<disk, guards, up, image, registered, scripts, quiet, cut, bounds>>

\* Without the hash of the backup the pair is passed over.
HashBackupFails ==
    /\ Advance("hashBackup", AfterPair(pair)) /\ pair' = NextPair(pair)
    /\ Fault \/ (HeldByScript(Backup[pair]) /\ UNCHANGED bounds)
    /\ ph' = "none" /\ quiet' = FALSE
    /\ UNCHANGED <<disk, guards, up, image, registered, scripts, cut>>

\* The file the next step of a copy writes, and the one it reads.
Target == IF pc = "policyCopy" THEN "policy"
          ELSE IF pc \in {"stage", "stageRest"} THEN Stage[pair] ELSE Primary[pair]
Source == IF pc = "policyCopy" THEN "policySource"
          ELSE IF pc = "rename" THEN Stage[pair] ELSE Backup[pair]

Repairing == {"copy", "copyRest", "stage", "stageRest", "rename"}

\* copyFile onto the primary (restore) or onto .new (atomicReplace): the source
\* is opened, the destination created, or emptied if it is there.
CreateCopy ==
    /\ Advance("copy", "copyRest") \/ Advance("stage", "stageRest")
    /\ ~Denied(Target) /\ ~Running(Target) /\ content[Source] # "none"
    /\ Put(Target, "part")
    /\ UNCHANGED <<foreign, guards, up, image, registered, pair, ph, scripts, quiet, cut, bounds>>

\* io.Copy: what the source holds now.
FillCopy ==
    /\ \/ Advance("copyRest", AfterPair(pair)) /\ pair' = NextPair(pair)
       \/ Advance("stageRest", "rename") /\ UNCHANGED pair
    /\ ~Locked(Target) /\ content[Source] # "none"
    /\ Put(Target, content[Source])
    /\ UNCHANGED <<foreign, guards, up, image, registered, ph, scripts, quiet, cut, bounds>>

\* os.Rename of .new over the primary.
Rename ==
    /\ Advance("rename", AfterPair(pair)) /\ pair' = NextPair(pair)
    /\ ~Denied(Target) /\ ~Running(Target) /\ content[Source] # "none"
    /\ content' = [content EXCEPT ![Target] = content[Source], ![Source] = "none"]
    /\ UNCHANGED <<foreign, guards, up, image, registered, ph, scripts, quiet, cut, bounds>>

\* An error ends the check before the pairs that follow are looked at; what was
\* written of the file stays.
GiveUp ==
    /\ up /\ pc \in Repairing \cup {"policyCopy"}
    /\ pc' = IF pc = "policyCopy" THEN "hashPrimary" ELSE "wait"
    /\ quiet' = FALSE /\ cut' = (cut \/ pc = "policyCopy")
    /\ pair' = 1
    /\ UNCHANGED <<disk, guards, up, image, registered, ph, scripts>>

\* The minifilter, the ACL or Windows denies a step of the repair, the installer
\* holds one of the files, or the source has disappeared.
RepairRefused ==
    /\ GiveUp
    /\ \/ content[Source] = "none"
       \/ Denied(Target) \/ Running(Target)
       \/ HeldByScript(Target) \/ HeldByScript(Source)
    /\ UNCHANGED bounds

\* The file system reports an error.
RepairFails == GiveUp /\ Fault

PassStep ==
    \/ BeginPass \/ CheckPolicy \/ CopyPolicy \/ HashPrimary \/ HashBackup
    \/ CreateCopy \/ FillCopy \/ Rename \/ RepairRefused
-----------------------------------------------------------------------------
\* The installer: odd steps create a file, even ones fill it.

Item == InstallOrder[(step + 1) \div 2]

Creating == step % 2 = 1

StartInstall ==
    /\ script = "none"
    /\ runs < MaxScripts /\ runs' = runs + 1
    /\ script' = "install" /\ step' = 1
    /\ UNCHANGED <<disk, guards, dog, refused, quiet, cut, drifts, faults>>

\* The script goes on by n steps, or is done.
InstallAdvances(n) ==
    IF step + n <= 2 * Len(InstallOrder)
    THEN step' = step + n /\ UNCHANGED script
    ELSE step' = 0 /\ script' = "none"

\* The watchdog reads or writes f at this moment, and holds it meanwhile.
HeldByDog(f) ==
    up /\ \/ pc = "hashPrimary" /\ f = Primary[pair]
          \/ pc = "hashBackup" /\ f = Backup[pair]
          \/ pc \in {"policyCopy", "copyRest", "stageRest"} /\ f \in {Source, Target}

\* The file is created or emptied, or gets its content.
InstallWrites ==
    /\ script = "install" /\ Item \in File
    /\ IF Creating THEN ~Denied(Item) /\ ~Running(Item) ELSE ~Locked(Item)
    /\ Item = "policy" => content["policySource"] # "none"
    /\ Put(Item, IF Creating THEN "part"
                 ELSE IF Item = "policy" THEN content["policySource"] ELSE "new")
    /\ cut' = (cut \/ (Item = "policy" /\ ~Creating /\ content["policySource"] = "part"))
    /\ InstallAdvances(1)
    /\ quiet' = FALSE
    /\ UNCHANGED <<foreign, guards, dog, refused, bounds>>

\* Without ConvertFrom-CIPolicy the policy is not compiled, without a compiled one
\* it is not deployed (284, 295).
InstallSkips ==
    /\ script = "install" /\ Creating
    /\ Item = "policySource" \/ (Item = "policy" /\ content["policySource"] = "none")
    /\ InstallAdvances(2)
    /\ UNCHANGED <<disk, guards, dog, refused, quiet, cut, bounds>>

\* icacls; the script does not look at whether it succeeds.
InstallAcl ==
    /\ script = "install" /\ Item = "acl"
    /\ tight' \in IF locked THEN {tight} ELSE {tight, Dir}
    /\ InstallAdvances(2)
    /\ UNCHANGED <<disk, locked, dog, refused, quiet, cut, bounds>>

\* The executable that was copied.
Startable == content["watchdog"] \in {"old", "new"}

\* An existing service is left alone, one marked for deletion too.
InstallService ==
    /\ script = "install" /\ Item = "service"
    /\ IF up \/ registered THEN UNCHANGED <<up, image, registered, pc>>
       ELSE Startable /\ up' = TRUE /\ image' = TRUE /\ registered' = TRUE /\ pc' = "policy"
    /\ InstallAdvances(2)
    /\ UNCHANGED <<disk, guards, pair, ph, refused, quiet, cut, bounds>>

\* A file that cannot be written, or a program that cannot be run (the ACL gives
\* the administrators no execute), ends the script ($ErrorActionPreference = 'Stop').
InstallDenied ==
    /\ script = "install"
    /\ \/ Item \in File /\ (Denied(Item) \/ Running(Item) \/ HeldByDog(Item))
       \/ Item = "policy" /\ ~Creating /\ content["policySource"] = "none"
       \/ Item = "service" /\ ~(up \/ registered) /\ (~Startable \/ Denied("watchdog"))
    /\ cut' = (cut \/ HeldByScript("policy"))
    /\ script' = "none" /\ step' = 0
    /\ UNCHANGED <<disk, guards, dog, refused, quiet, bounds>>

-----------------------------------------------------------------------------
\* The uninstaller.

StartUninstall ==
    /\ script = "none"
    /\ runs < MaxScripts /\ runs' = runs + 1
    /\ script' = "uninstall" /\ step' = 1 /\ refused' = FALSE
    /\ UNCHANGED <<disk, guards, dog, quiet, cut, drifts, faults>>

\* Windows does not delete the image of a running process, nor a file that is open
\* in the middle of a copy.
InUse(f) ==
    \/ Running(f)
    \/ up /\ pc \in {"policyCopy", "copyRest", "stageRest"} /\ f \in {Source, Target}

\* Errors are passed over ('Continue', SilentlyContinue).  sc stop changes nothing:
\* the service does not accept it (service_windows.go 94-96); sc delete marks the
\* service, its process goes on.
UninstallStep ==
    /\ script = "uninstall"
    /\ LET item == UninstallOrder[step]
       IN  /\ content' = [f \in File |-> IF f = item /\ ~Denied(f) /\ ~InUse(f)
                                         THEN "none" ELSE content[f]]
           /\ registered' = (registered /\ item # "service")
           /\ tight' = IF locked THEN tight ELSE tight \ {item}
           /\ refused' = (refused \/ (item # "service" /\ Locked(item)))
    /\ IF step < Len(UninstallOrder)
       THEN step' = step + 1 /\ UNCHANGED script
       ELSE step' = 0 /\ script' = "uninstalled"
    /\ quiet' = FALSE
    /\ UNCHANGED <<foreign, locked, up, image, pc, pair, ph, cut, bounds>>

-----------------------------------------------------------------------------
\* The service control manager and the rest of the system (external).

\* A script is killed.
KillScript ==
    /\ script \in {"install", "uninstall"}
    /\ Fault
    /\ script' = "none" /\ step' = 0
    /\ cut' = (cut \/ HeldByScript("policy"))
    /\ UNCHANGED <<disk, guards, dog, refused, quiet>>

Crash ==
    /\ up
    /\ Fault
    /\ up' = FALSE /\ image' = FALSE /\ pc' = "wait" /\ pair' = 1 /\ ph' = "none"
    /\ quiet' = FALSE /\ cut' = (cut \/ pc = "policyCopy")
    /\ UNCHANGED <<disk, guards, registered, scripts>>

\* The recovery action of serviceInstall; nobody restarts a deleted service.
Restart ==
    /\ ~up /\ registered /\ Startable
    /\ up' = TRUE /\ image' = TRUE /\ pc' = "policy"
    /\ UNCHANGED <<disk, guards, registered, pair, ph, scripts, quiet, cut, bounds>>

Reboot ==
    /\ Fault
    /\ up' = (registered /\ Startable) /\ image' = up'
    /\ pc' = IF up' THEN "policy" ELSE "wait"
    /\ pair' = 1 /\ ph' = "none" /\ quiet' = FALSE
    /\ cut' = (cut \/ pc = "policyCopy" \/ HeldByScript("policy"))
    /\ locked' \in {l \in BOOLEAN : l => content["driver"] # "none"}
    /\ script' = "none" /\ step' = 0
    /\ UNCHANGED <<disk, tight, registered, refused>>

\* The window opens, ends, or the driver is started.
LockChanges ==
    /\ locked' = ~locked
    /\ UNCHANGED <<disk, tight, dog, scripts, quiet, cut, bounds>>

\* An administrator, their owner, gives himself and SYSTEM the files again.
AclDrifts ==
    /\ ~locked /\ tight # {} /\ tight' = {}
    /\ drifts < MaxDrifts /\ drifts' = drifts + 1
    /\ UNCHANGED <<disk, locked, dog, scripts, quiet, cut, runs, faults>>

\* A file is replaced or removed; one that runs is moved aside.
FileDrifts ==
    /\ drifts < MaxDrifts /\ drifts' = drifts + 1
    /\ \/ \E f \in File, c \in {"bad", "none"} :
            ~Locked(f) /\ Put(f, c) /\ image' = (image /\ f # "watchdog") /\ UNCHANGED foreign
       \/ foreign' = ~foreign /\ UNCHANGED <<content, image>>
    /\ quiet' = FALSE
    /\ UNCHANGED <<guards, up, registered, pc, pair, ph, scripts, cut, runs, faults>>

Environment ==
    \/ StartInstall \/ InstallWrites \/ InstallSkips \/ InstallAcl \/ InstallService
    \/ InstallDenied \/ StartUninstall \/ UninstallStep \/ KillScript
    \/ Crash \/ Restart \/ Reboot \/ LockChanges \/ AclDrifts \/ FileDrifts

Next == PassStep \/ HashPrimaryFails \/ HashBackupFails \/ RepairFails \/ Environment

Spec == Init /\ [][Next]_vars

\* The ticker fires, the goroutine is scheduled, SCM restarts what crashed.
\* Nothing is assumed of the scripts: they may stop in the middle.
Fairness == WF_vars(PassStep) /\ WF_vars(Restart)

FairSpec == Spec /\ Fairness

-----------------------------------------------------------------------------
\* Properties.

\* One check that nobody interferes with and in which nothing fails leaves every
\* primary as its backup, whatever partial files earlier checks, crashes and
\* scripts left behind (enforce_windows.go 226-251).
OnePassHeals ==
    (quiet /\ pc = "wait") =>
        \A i \in Pair : content[Backup[i]] # "none"
                          => content[Primary[i]] = content[Backup[i]]

\* "atomicReplace stages dst.new then MoveFileEx" (285): a primary that is there is
\* never seen partial while it is repaired from a whole backup, unless somebody
\* else wrote since the check began or something failed: a primary that could not
\* be read is taken for missing and written in place.
PresentStaysWhole ==
    [][\A i \in Pair :
         (/\ quiet /\ quiet'
          /\ content[Primary[i]] \in Whole /\ content[Backup[i]] \in Whole)
         => content'[Primary[i]] \in Whole]_vars

\* Nothing that lasts is in the way of a repair of pair i: the driver, the ACL, the
\* running image, an installer that stopped in the middle of one of the files.
Repairable(i) ==
    /\ ~Denied(Primary[i]) /\ ~Running(Primary[i])
    /\ ~HeldByScript(Primary[i]) /\ ~HeldByScript(Backup[i])

\* Whatever an installer that stops half-way, crashes and damaged files do: once
\* the watchdog can write a primary, and those of the pairs before, and a backup
\* keeps its content, the primary gets that content for good, a damaged backup's
\* included.
FilesFollowBackups ==
    \A i \in Pair, c \in Whole :
        <>[](up /\ content[Backup[i]] = c /\ \A j \in 1 .. i : Repairable(j))
            => <>[](content[Primary[i]] = c)

\* Where there is no other policy file, a removed one is redeployed, whatever
\* happens to the pass, and is whole unless a copy of it was cut short (148-169).
PolicyReturns ==
    <>[](up /\ content["policySource"] \in Whole /\ ~foreign /\ ~HeldByScript("policy"))
        => <>[](content["policy"] \in Whole \/ (cut /\ content["policy"] = "part"))

\* "remove the WDAC policy (so future boots don't enforce against things we need to
\* delete)" (Uninstall-Lockguard.ps1 15-16): an uninstallation that was denied
\* nothing leaves no policy behind.
UninstallRemovesPolicy ==
    (script = "uninstalled" /\ ~refused) => content["policy"] = "none"
=============================================================================
