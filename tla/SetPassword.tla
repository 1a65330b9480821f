----------------------------- MODULE SetPassword -----------------------------
(* Recovering and changing the password: cli/main.go --recover and           *)
(* --set-password, scripts/Recover-Lockguard.ps1, Set-LockguardPassword.ps1. *)
(* A run of a tool reads salt, iterations and verifier from the registry,    *)
(* checks the typed password against them, unlocks the driver, and, to       *)
(* change the password, writes the three values one by one; the driver's     *)
(* registry callback screens every write (Lease is the window's interface).  *)
(* The driver itself compares with the verifier it read at boot.  The first  *)
(* credential is written by scripts/Install-Lockguard.ps1, which takes a key *)
(* that exists for a complete one (108-109).                                 *)
(*                                                                           *)
(* A credential stands for a password with the salt it was set with: the     *)
(* registry's InstallSalt names the credential the salt belongs to, Verifier *)
(* the one the HMAC was computed from, and a key derived with the salt of    *)
(* one credential never matches the verifier of another.  Iterations has one *)
(* value in every tool, but reading and writing it are steps.                *)
EXTENDS Lease

CONSTANTS
    Tool,        \* concurrent runs of the tools
    Credential,  \* pool of credentials, recycled when nothing refers to them
    NoCred       \* "none"

ASSUME SetPasswordAssumption == NoCred \notin Credential

VARIABLES
    keyThere,              \* HKLM\SYSTEM\Lockguard\Recovery exists
    regSalt, regVerifier,  \* its values, NoCred when missing
    loaded,                \* the driver is loaded
    gStoredVerifier,       \* its copy of the verifier, NoCred when it has none
    inst,                  \* the installer: next value to write, or "idle"
    instNew,               \* the credential it writes
    pc,                    \* where each tool is
    salt, verifier,        \* what each tool read
    new,                   \* the new credential each tool made
    checked,               \* history: sample of the last check that let each tool write
    cut,                   \* history: a change of the password was cut short
    changed                \* history: the registry changed since the last boot

toolVars == <<pc, salt, verifier, new, checked>>
instVars == <<keyThere, loaded, inst, instNew>>
regVars == <<instVars, regSalt, regVerifier, changed>>
vars == <<leaseVars, regVars, gStoredVerifier, toolVars, cut>>

Writing == {"writeIterations", "writeVerifier"}
PC == {"idle", "readVerifier", "check", "unlock", "window", "writeSalt"}
      \cup Writing \cup {"denied", "refused"}

TypeOKP ==
    /\ TypeOK
    /\ keyThere \in BOOLEAN /\ loaded \in BOOLEAN
    /\ regSalt \in Credential \cup {NoCred} /\ regVerifier \in Credential \cup {NoCred}
    /\ inst \in {"idle", "salt", "iterations", "verifier"}
    /\ instNew \in Credential \cup {NoCred}
    /\ gStoredVerifier \in Credential \cup {NoCred}
    /\ pc \in [Tool -> PC]
    /\ salt \in [Tool -> Credential \cup {NoCred}]
    /\ verifier \in [Tool -> Credential \cup {NoCred}]
    /\ new \in [Tool -> Credential \cup {NoCred}]
    /\ checked \in [Tool -> 0 .. MaxTime]
    /\ cut \in BOOLEAN /\ changed \in BOOLEAN

\* Installed and booted, the driver has read the verifier or will retry; or
\* nothing is there yet.
InitP ==
    /\ Init
    /\ keyThere \in BOOLEAN /\ loaded = keyThere
    /\ regSalt \in (IF keyThere THEN Credential ELSE {NoCred})
    /\ regVerifier = regSalt
    /\ inst = "idle" /\ instNew = NoCred
    /\ gStoredVerifier \in {regVerifier, NoCred}
    /\ pc = [p \in Tool |-> "idle"]
    /\ salt = [p \in Tool |-> NoCred]
    /\ verifier = [p \in Tool |-> NoCred]
    /\ new = [p \in Tool |-> NoCred]
    /\ checked = [p \in Tool |-> 0]
    /\ cut = FALSE /\ changed = FALSE

InUse == {regSalt, regVerifier, gStoredVerifier, instNew}
         \cup UNION {{salt[p], verifier[p], new[p]} : p \in Tool}

Goto(p, label) == pc' = [pc EXCEPT ![p] = label]

\* The run ends; its locals are gone.
Exit(p) ==
    /\ Goto(p, "idle")
    /\ salt' = [salt EXCEPT ![p] = NoCred]
    /\ verifier' = [verifier EXCEPT ![p] = NoCred]
    /\ new' = [new EXCEPT ![p] = NoCred]
    /\ checked' = [checked EXCEPT ![p] = 0]

-----------------------------------------------------------------------------
\* Reading and checking.

\* readRecoveryRegistry: the salt first.
ReadSalt(p) ==
    /\ pc[p] = "idle"
    /\ regSalt # NoCred
    /\ salt' = [salt EXCEPT ![p] = regSalt]
    /\ Goto(p, "readVerifier")
    /\ UNCHANGED <<leaseVars, regVars, gStoredVerifier, verifier, new, checked, cut>>

\* ... the iterations, always the same value, then the verifier.
ReadVerifier(p) ==
    /\ pc[p] = "readVerifier"
    /\ regVerifier # NoCred
    /\ verifier' = [verifier EXCEPT ![p] = regVerifier]
    /\ Goto(p, "check")
    /\ UNCHANGED <<leaseVars, regVars, gStoredVerifier, salt, new, checked, cut>>

\* A value is missing: "not installed".
NotInstalled(p) ==
    /\ pc[p] = "readVerifier"
    /\ regVerifier = NoCred
    /\ Exit(p)
    /\ UNCHANGED <<leaseVars, regVars, gStoredVerifier, cut>>

\* Mutant: the typed password is sent to the driver unchecked.
PreVerifiesAlways(p) == TRUE

\* The password can only match if salt and verifier belong together.
PreVerifies(p) == salt[p] = verifier[p]

\* The typed password matches what was read: go on to the driver.
LocalCheck(p) ==
    /\ pc[p] = "check"
    /\ PreVerifies(p)
    /\ Goto(p, "unlock")
    /\ UNCHANGED <<leaseVars, regVars, gStoredVerifier, salt, verifier, new, checked, cut>>

\* "wrong password": the run ends before the driver is touched.
WrongPassword(p) ==
    /\ pc[p] = "check"
    /\ Exit(p)
    /\ UNCHANGED <<leaseVars, regVars, gStoredVerifier, cut>>

-----------------------------------------------------------------------------
\* The driver (module RecoveryChannel, seen from outside).

\* The driver's verifier when an UNLOCK is handled: a GET_NONCE that finds none
\* loaded reads the registry.
DriverVerifier == IF gStoredVerifier = NoCred THEN regVerifier ELSE gStoredVerifier

\* GET_NONCE and UNLOCK succeed: the key is the one the driver knows.
Unlock(p) ==
    /\ pc[p] = "unlock" /\ loaded
    /\ gStoredVerifier' = DriverVerifier
    /\ salt[p] = DriverVerifier
    /\ \E s \in RecentSamples : Open(s)
    /\ Goto(p, "window")
    /\ UNCHANGED <<regVars, salt, verifier, new, checked, cut>>

\* The driver refuses the key.
Refused(p) ==
    /\ pc[p] = "unlock" /\ loaded
    /\ gStoredVerifier' = DriverVerifier
    /\ salt[p] # DriverVerifier
    /\ Goto(p, "refused")
    /\ UNCHANGED <<leaseVars, regVars, salt, verifier, new, checked, cut>>

\* The driver cannot be opened, or the exchange fails for one of the reasons
\* RecoveryChannel lists (overtaken, slow, no randomness, no HMAC).
UnlockFails(p) ==
    /\ pc[p] = "unlock"
    /\ Exit(p)
    /\ UNCHANGED <<leaseVars, regVars, gStoredVerifier, cut>>

-----------------------------------------------------------------------------
\* Changing the password.

\* readStrongPasswordTwice, a new salt, PBKDF2: any amount of time later there
\* is a new credential.
NewPassword(p) ==
    /\ pc[p] = "window"
    /\ \E c \in Credential \ InUse : new' = [new EXCEPT ![p] = c]
    /\ Goto(p, "writeSalt")
    /\ UNCHANGED <<leaseVars, regVars, gStoredVerifier, salt, verifier, checked, cut>>

\* --recover ends with the window open; so does a change given up at the prompt.
Leave(p) ==
    /\ pc[p] = "window"
    /\ Exit(p)
    /\ UNCHANGED <<leaseVars, regVars, gStoredVerifier, cut>>

\* A write is let through by the registry callback, which renews the lease.
Allowed(p) ==
    \E s \in RecentSamples :
        Grant(s) /\ checked' = [checked EXCEPT ![p] = s]

WriteSalt(p) ==
    /\ pc[p] = "writeSalt"
    /\ Allowed(p)
    /\ regSalt' = new[p] /\ changed' = TRUE
    /\ Goto(p, "writeIterations")
    /\ UNCHANGED <<instVars, regVerifier, gStoredVerifier, salt, verifier, new, cut>>

WriteIterations(p) ==
    /\ pc[p] = "writeIterations"
    /\ Allowed(p)
    /\ Goto(p, "writeVerifier")
    /\ UNCHANGED <<regVars, gStoredVerifier, salt, verifier, new, cut>>

WriteVerifier(p) ==
    /\ pc[p] = "writeVerifier"
    /\ \E s \in RecentSamples : Grant(s)
    /\ regVerifier' = new[p] /\ changed' = TRUE
    /\ cut' = (cut \/ \E q \in Tool \ {p} : pc[q] \in Writing)
    /\ Exit(p)
    /\ UNCHANGED <<instVars, regSalt, gStoredVerifier>>

\* Mutant: a failed write does not end the run.
CarryOn(p) == CASE pc[p] = "writeSalt"       -> "writeIterations"
                [] pc[p] = "writeIterations" -> "writeVerifier"
                [] OTHER                     -> "denied"

\* A failed write ends the run.
AfterDenied(p) == "denied"

\* A write is denied: the window is over (found so by the fast reject or under
\* the lock, whose holder closes it).
Denied(p) ==
    /\ pc[p] \in {"writeSalt"} \cup Writing
    /\ \/ deadline = 0 /\ UNCHANGED leaseVars
       \/ \E s \in RecentSamples : Close(s)
    /\ cut' = (cut \/ pc[p] \in Writing)
    /\ Goto(p, AfterDenied(p))
    /\ UNCHANGED <<regVars, gStoredVerifier, salt, verifier, new, checked>>

\* A denied or refused run reports the error and ends.
Report(p) ==
    /\ pc[p] \in {"denied", "refused"}
    /\ Exit(p)
    /\ UNCHANGED <<leaseVars, regVars, gStoredVerifier, cut>>

\* A run is killed between two writes (external).
Kill(p) ==
    /\ pc[p] \in Writing
    /\ cut' = TRUE
    /\ Exit(p)
    /\ UNCHANGED <<leaseVars, regVars, gStoredVerifier>>

-----------------------------------------------------------------------------
\* The installer, on a machine whose driver is not loaded.

\* New-Item.  A key that exists is taken as it is.
InstallKey ==
    /\ inst = "idle" /\ ~keyThere /\ ~loaded
    /\ keyThere' = TRUE
    /\ \E c \in Credential \ InUse : instNew' = c
    /\ inst' = "salt"
    /\ UNCHANGED <<leaseVars, loaded, regSalt, regVerifier, changed, gStoredVerifier,
                   toolVars, cut>>

\* New-ItemProperty, three times.
InstallValue ==
    /\ \/ inst = "salt" /\ inst' = "iterations"
          /\ regSalt' = instNew /\ UNCHANGED <<regVerifier, instNew>>
       \/ inst = "iterations" /\ inst' = "verifier"
          /\ UNCHANGED <<regSalt, regVerifier, instNew>>
       \/ inst = "verifier" /\ inst' = "idle"
          /\ regVerifier' = instNew /\ instNew' = NoCred /\ UNCHANGED regSalt
    /\ UNCHANGED <<leaseVars, keyThere, loaded, changed, gStoredVerifier, toolVars, cut>>

\* The installation is interrupted (external).
InstallKilled ==
    /\ inst # "idle"
    /\ inst' = "idle" /\ instNew' = NoCred
    /\ cut' = TRUE
    /\ UNCHANGED <<leaseVars, keyThere, loaded, regSalt, regVerifier, changed,
                   gStoredVerifier, toolVars>>

\* Steps 6 and 7 of an installation that found or wrote the key: the driver's
\* service, and the watchdog that starts it.  A load of the verifier that fails
\* is tolerated (lockguard.c 454-460).
LoadDriver ==
    /\ inst = "idle" /\ keyThere /\ ~loaded
    /\ loaded' = TRUE
    /\ gStoredVerifier' \in {regVerifier, NoCred}
    /\ changed' = FALSE
    /\ UNCHANGED <<leaseVars, keyThere, inst, instNew, regSalt, regVerifier, toolVars, cut>>

-----------------------------------------------------------------------------

\* The other callers of LgIsPermissive.
OtherCheck ==
    /\ \E s \in RecentSamples : Grant(s) \/ Close(s)
    /\ UNCHANGED <<regVars, gStoredVerifier, toolVars, cut>>

\* The driver cannot be unloaded: its state goes with a reboot only, and so do
\* the tools.  DriverEntry loads the verifier, or fails to (454-460).
Reboot ==
    /\ deadline' = 0 /\ promised' = 0 /\ UNCHANGED clock
    /\ gStoredVerifier' \in {regVerifier, NoCred}
    /\ changed' = FALSE
    /\ cut' = (cut \/ inst # "idle" \/ \E p \in Tool : pc[p] \in Writing)
    /\ inst' = "idle" /\ instNew' = NoCred
    /\ pc' = [p \in Tool |-> "idle"]
    /\ salt' = [p \in Tool |-> NoCred]
    /\ verifier' = [p \in Tool |-> NoCred]
    /\ new' = [p \in Tool |-> NoCred]
    /\ checked' = [p \in Tool |-> 0]
    /\ UNCHANGED <<keyThere, loaded, regSalt, regVerifier>>

TickP == Tick /\ UNCHANGED <<regVars, gStoredVerifier, toolVars, cut>>

ToolStep(p) ==
    \/ ReadSalt(p) \/ ReadVerifier(p) \/ NotInstalled(p) \/ LocalCheck(p) \/ WrongPassword(p)
    \/ Unlock(p) \/ Refused(p) \/ UnlockFails(p)
    \/ NewPassword(p) \/ Leave(p)
    \/ WriteSalt(p) \/ WriteIterations(p) \/ WriteVerifier(p)
    \/ Denied(p) \/ Report(p) \/ Kill(p)

InstallStep == InstallKey \/ InstallValue \/ InstallKilled \/ LoadDriver

NextP == TickP \/ OtherCheck \/ Reboot \/ InstallStep \/ \E p \in Tool : ToolStep(p)

SpecP == InitP /\ [][NextP]_vars

-----------------------------------------------------------------------------
\* Properties.

\* The three writes of a change are not atomic, nor are the installer's, yet a
\* registry that nobody is in the middle of writing holds one credential, and a
\* loaded driver finds one there, unless a change or an installation was cut short:
\* by a kill, a reboot, a denial between two writes, or two runs overlapping.  (A
\* registry that holds two is one no password opens: no run passes its check.)
RegistryWhole ==
    (~cut /\ inst = "idle" /\ \A p \in Tool : pc[p] \notin Writing)
        => regSalt = regVerifier /\ (loaded => regSalt # NoCred)

\* The lease carries a change through: a run whose first write was allowed is
\* denied a later one only if Grace has gone by since its previous write, even
\* if the window's original end passes in between and others try to close it.
DenialBetweenWritesIsLate ==
    [][\A p \in Tool :
         (pc[p] \in Writing /\ pc'[p] = "denied") => clock >= checked[p] + Grace]_vars

\* "The driver never sees a bad attempt that didn't already pre-verify"
\* (Recover-Lockguard.ps1 17-18): although each run checks against its own,
\* possibly torn or outdated reading of the registry, a driver that has a verifier
\* refuses the key of a run that pre-verified only if the registry has changed
\* since the last boot.
RefusedOnlyAfterChange ==
    \A p \in Tool : pc[p] = "refused" => changed

\* "The new password takes effect immediately for future --recover" runs
\* (cli/main.go 15-16): no run with the registry's password is refused.
NewPasswordEffective ==
    \A p \in Tool : pc[p] = "refused" => salt[p] # regVerifier
=============================================================================
