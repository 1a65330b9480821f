--------------------------- MODULE SetPasswordProofs ---------------------------
(* Proofs about SetPassword for any number of tools and credentials, on top of *)
(* what LeaseProofs says of the window.                                        *)
EXTENDS SetPassword, LeaseProofs

\* The installer works on a machine without a driver, and on values nobody has
\* written yet.
InstallInv ==
    /\ ~keyThere => regSalt = NoCred /\ regVerifier = NoCred /\ ~loaded
    /\ inst # "idle" =>
         /\ keyThere /\ ~loaded
         /\ regVerifier = NoCred
         /\ instNew # NoCred
    /\ inst = "salt" => regSalt = NoCred
    /\ inst \in {"iterations", "verifier"} => regSalt = instNew

\* Where a tool is says which of its locals are set.
ToolInv ==
    \A p \in Tool :
      /\ pc[p] \in {"check", "unlock"} => verifier[p] # NoCred
      /\ pc[p] = "unlock" => salt[p] = verifier[p]
      /\ pc[p] \in {"writeSalt"} \cup Writing => new[p] # NoCred
      /\ ~loaded => pc[p] \in {"idle", "readVerifier", "check", "unlock"}

\* Unless something was cut short, what is in the registry is whole, or one run or
\* the installer has written its salt and will write its verifier.
WholeInv ==
    ~cut =>
      /\ \A p \in Tool :
           pc[p] \in Writing /\ (\A q \in Tool \ {p} : pc[q] \notin Writing)
             => regSalt = new[p]
      /\ keyThere /\ inst = "idle" /\ (\A p \in Tool : pc[p] \notin Writing)
           => regSalt = regVerifier /\ regSalt # NoCred

\* Until the registry changes, the driver and every tool that has read a verifier
\* have the registry's.
SameInv ==
    /\ ~loaded => ~changed
    /\ ~changed =>
         /\ gStoredVerifier \in {regVerifier, NoCred}
         /\ \A p \in Tool : verifier[p] \in {regVerifier, NoCred}

\* A run between two writes still holds a promise.
HeldInv ==
    \A p \in Tool : pc[p] \in Writing => checked[p] + Grace <= promised

\* The inductive invariant.
PInv ==
    /\ IInv
    /\ TypeOKP
    /\ InstallInv
    /\ ToolInv
    /\ WholeInv
    /\ SameInv
    /\ RefusedOnlyAfterChange
    /\ HeldInv

-----------------------------------------------------------------------------
\* The initial states satisfy the inductive invariant.
LEMMA InitPInv == InitP => PInv
<1> SUFFICES ASSUME InitP PROVE PInv
  OBVIOUS
<1> USE SetPasswordAssumption DEF InitP
<1>1. IInv
  BY InitIInv
<1>2. keyThere \in BOOLEAN /\ loaded \in BOOLEAN /\ cut \in BOOLEAN /\ changed \in BOOLEAN
  OBVIOUS
<1>3. /\ regSalt \in Credential \cup {NoCred} /\ regVerifier \in Credential \cup {NoCred}
      /\ inst \in {"idle", "salt", "iterations", "verifier"}
      /\ instNew \in Credential \cup {NoCred}
      /\ gStoredVerifier \in Credential \cup {NoCred}
  OBVIOUS
<1>4. /\ pc \in [Tool -> PC]
      /\ salt \in [Tool -> Credential \cup {NoCred}]
      /\ verifier \in [Tool -> Credential \cup {NoCred}]
      /\ new \in [Tool -> Credential \cup {NoCred}]
  BY DEF PC
<1>5. checked \in [Tool -> 0 .. MaxTime]
  BY LeaseAssumption
<1>6. TypeOKP
  BY <1>1, <1>2, <1>3, <1>4, <1>5 DEF TypeOKP, IInv
<1>7. InstallInv /\ ToolInv /\ WholeInv
  BY DEF InstallInv, ToolInv, WholeInv, Writing
<1>8. SameInv /\ RefusedOnlyAfterChange /\ HeldInv
  BY DEF SameInv, RefusedOnlyAfterChange, HeldInv, Writing
<1>9. QED
  BY <1>1, <1>6, <1>7, <1>8 DEF PInv

\* Every step is one of the window's or starts it anew.
LEMMA LeaseStep ==
    ASSUME IInv, [NextP]_vars
    PROVE  IInv'
<1>1. CASE Reboot
  BY <1>1, LeaseAssumption DEF Reboot, IInv, TypeOK, PromiseInv, RemainingBounded
<1>2. CASE [Next]_leaseVars
  BY <1>2, NextIInv
<1>3. CASE UNCHANGED leaseVars
  BY <1>3, <1>2
<1>4. ASSUME NEW p \in Tool, ToolStep(p) PROVE [Next]_leaseVars
  <2>1. CASE ReadSalt(p) \/ ReadVerifier(p) \/ NotInstalled(p) \/ LocalCheck(p) \/ WrongPassword(p)
    BY <2>1 DEF ReadSalt, ReadVerifier, NotInstalled, LocalCheck, WrongPassword
  <2>2. CASE Unlock(p) \/ Refused(p) \/ UnlockFails(p)
    BY <2>2 DEF Unlock, Refused, UnlockFails, Next
  <2>3. CASE NewPassword(p) \/ Leave(p) \/ Report(p) \/ Kill(p)
    BY <2>3 DEF NewPassword, Leave, Report, Kill
  <2>4. CASE WriteSalt(p) \/ WriteIterations(p) \/ WriteVerifier(p)
    BY <2>4 DEF WriteSalt, WriteIterations, WriteVerifier, Allowed, Next
  <2>5. CASE Denied(p)
    BY <2>5 DEF Denied, Next
  <2>6. QED
    BY <1>4, <2>1, <2>2, <2>3, <2>4, <2>5 DEF ToolStep
<1>5. CASE InstallStep
  BY <1>5, <1>3 DEF InstallStep, InstallKey, InstallValue, InstallKilled, LoadDriver
<1>6. CASE TickP \/ OtherCheck
  BY <1>6, <1>2 DEF TickP, OtherCheck, Next
<1>7. CASE UNCHANGED vars
  BY <1>7, <1>3 DEF vars
<1>8. QED
  BY <1>1, <1>2, <1>4, <1>5, <1>6, <1>7 DEF NextP
\* What Exit does to the types.
LEMMA ExitTypes ==
    ASSUME TypeOKP, NEW p \in Tool, Exit(p)
    PROVE  /\ pc' \in [Tool -> PC]
           /\ salt' \in [Tool -> Credential \cup {NoCred}]
           /\ verifier' \in [Tool -> Credential \cup {NoCred}]
           /\ new' \in [Tool -> Credential \cup {NoCred}]
           /\ checked' \in [Tool -> 0 .. MaxTime]
BY LeaseAssumption DEF TypeOKP, Exit, Goto, PC

\* Every step preserves the types.
LEMMA TypeStep ==
    ASSUME IInv, TypeOKP, [NextP]_vars
    PROVE  TypeOKP'
<1> USE SetPasswordAssumption DEF TypeOKP, Goto, PC, Writing, toolVars, instVars, regVars
<1>1. TypeOK'
  BY LeaseStep DEF IInv
<1>2. ASSUME NEW p \in Tool,
             ReadSalt(p) \/ ReadVerifier(p) \/ LocalCheck(p) \/ NewPassword(p)
      PROVE  TypeOKP'
  BY <1>1, <1>2 DEF ReadSalt, ReadVerifier, LocalCheck, NewPassword
<1>3. ASSUME NEW p \in Tool,
             NotInstalled(p) \/ WrongPassword(p) \/ UnlockFails(p) \/ Leave(p) \/ Report(p)
      PROVE  TypeOKP'
  BY <1>1, <1>3, ExitTypes DEF NotInstalled, WrongPassword, UnlockFails, Leave, Report
<1>4. ASSUME NEW p \in Tool, Unlock(p) \/ Refused(p) PROVE TypeOKP'
  BY <1>1, <1>4 DEF Unlock, Refused, DriverVerifier
<1>5. ASSUME NEW p \in Tool, WriteSalt(p) \/ WriteIterations(p) PROVE TypeOKP'
  <2>1. checked' \in [Tool -> 0 .. MaxTime]
    <3>1. PICK s \in RecentSamples : checked' = [checked EXCEPT ![p] = s]
      BY <1>5 DEF WriteSalt, WriteIterations, Allowed
    <3>2. s \in 0 .. MaxTime
      BY SampleRange, LeaseAssumption DEF TypeOK
    <3>3. QED
      BY <3>1, <3>2
  <2>2. changed' \in BOOLEAN /\ cut' \in BOOLEAN
    BY <1>5 DEF WriteSalt, WriteIterations
  <2>3. QED
    BY <1>1, <1>5, <2>1, <2>2 DEF WriteSalt, WriteIterations
<1>6. ASSUME NEW p \in Tool, WriteVerifier(p) PROVE TypeOKP'
  <2>1. changed' \in BOOLEAN /\ cut' \in BOOLEAN
    BY <1>6 DEF WriteVerifier
  <2>2. QED
    BY <1>1, <1>6, <2>1, ExitTypes DEF WriteVerifier
<1>7. ASSUME NEW p \in Tool, Denied(p) PROVE TypeOKP'
  <2>1. cut' \in BOOLEAN
    BY <1>7 DEF Denied
  <2>2. QED
    BY <1>1, <1>7, <2>1 DEF Denied, AfterDenied
<1>8. ASSUME NEW p \in Tool, Kill(p) PROVE TypeOKP'
  <2>1. cut' \in BOOLEAN
    BY <1>8 DEF Kill
  <2>2. QED
    BY <1>1, <1>8, <2>1, ExitTypes DEF Kill
<1>9. CASE InstallKey \/ InstallKilled
  <2>1. keyThere' \in BOOLEAN /\ loaded' \in BOOLEAN /\ cut' \in BOOLEAN /\ changed' \in BOOLEAN
    BY <1>9 DEF InstallKey, InstallKilled
  <2>2. QED
    BY <1>1, <1>9, <2>1 DEF InstallKey, InstallKilled
<1>10. CASE InstallValue
  BY <1>1, <1>10 DEF InstallValue
<1>11. CASE LoadDriver
  <2>1. keyThere' \in BOOLEAN /\ loaded' \in BOOLEAN /\ cut' \in BOOLEAN /\ changed' \in BOOLEAN
    BY <1>11 DEF LoadDriver
  <2>2. QED
    BY <1>1, <1>11, <2>1 DEF LoadDriver
<1>12. CASE Reboot
  <2>1. keyThere' \in BOOLEAN /\ loaded' \in BOOLEAN /\ cut' \in BOOLEAN /\ changed' \in BOOLEAN
    BY <1>12 DEF Reboot
  <2>2. /\ pc' \in [Tool -> PC]
        /\ salt' \in [Tool -> Credential \cup {NoCred}]
        /\ verifier' \in [Tool -> Credential \cup {NoCred}]
        /\ new' \in [Tool -> Credential \cup {NoCred}]
    BY <1>12 DEF Reboot
  <2>3. checked' \in [Tool -> 0 .. MaxTime]
    BY <1>12, LeaseAssumption DEF Reboot
  <2>4. QED
    BY <1>1, <1>12, <2>1, <2>2, <2>3 DEF Reboot
<1>13. CASE TickP \/ OtherCheck \/ UNCHANGED vars
  BY <1>1, <1>13 DEF TickP, OtherCheck, vars
<1>14. QED
  BY <1>2, <1>3, <1>4, <1>5, <1>6, <1>7, <1>8, <1>9, <1>10, <1>11, <1>12, <1>13
     DEF NextP, ToolStep, InstallStep
\* The installer keeps its order.
LEMMA InstallInvStep ==
    ASSUME TypeOKP, InstallInv, ToolInv, [NextP]_vars
    PROVE  InstallInv'
<1> USE SetPasswordAssumption DEF TypeOKP, InstallInv, regVars, instVars
<1>1. CASE InstallKey
  BY <1>1 DEF InstallKey
<1>2. CASE InstallValue \/ InstallKilled
  BY <1>2 DEF InstallValue, InstallKilled
<1>3. CASE LoadDriver \/ Reboot
  BY <1>3 DEF LoadDriver, Reboot
<1>4. ASSUME NEW p \in Tool, ToolStep(p) PROVE InstallInv'
  <2>1. CASE WriteSalt(p) \/ WriteVerifier(p)
    <3>1. loaded
      BY <2>1 DEF WriteSalt, WriteVerifier, ToolInv
    <3>2. QED
      BY <2>1, <3>1 DEF WriteSalt, WriteVerifier
  <2>2. CASE \/ ReadSalt(p) \/ ReadVerifier(p) \/ NotInstalled(p) \/ LocalCheck(p)
             \/ WrongPassword(p) \/ Unlock(p) \/ Refused(p) \/ UnlockFails(p)
    BY <2>2 DEF ReadSalt, ReadVerifier, NotInstalled, LocalCheck, WrongPassword, Unlock,
                Refused, UnlockFails
  <2>3. CASE \/ NewPassword(p) \/ Leave(p) \/ WriteIterations(p)
             \/ Denied(p) \/ Report(p) \/ Kill(p)
    BY <2>3 DEF NewPassword, Leave, WriteIterations, Denied, Report, Kill
  <2>4. QED
    BY <1>4, <2>1, <2>2, <2>3 DEF ToolStep
<1>5. CASE TickP \/ OtherCheck \/ UNCHANGED vars
  BY <1>5 DEF TickP, OtherCheck, vars
<1>6. QED
  BY <1>1, <1>2, <1>3, <1>4, <1>5 DEF NextP, InstallStep

\* The tools keep theirs.
LEMMA ToolInvStep ==
    ASSUME TypeOKP, ToolInv, [NextP]_vars
    PROVE  ToolInv'
<1> USE SetPasswordAssumption DEF TypeOKP, ToolInv, Goto, Exit, Writing, toolVars, regVars, instVars
<1>1. CASE InstallStep
  BY <1>1 DEF InstallStep, InstallKey, InstallValue, InstallKilled, LoadDriver
<1>2. CASE Reboot
  BY <1>2 DEF Reboot
<1>3. ASSUME NEW p \in Tool, ReadSalt(p) \/ ReadVerifier(p) PROVE ToolInv'
  BY <1>3 DEF ReadSalt, ReadVerifier
<1>4. ASSUME NEW p \in Tool, LocalCheck(p) PROVE ToolInv'
  BY <1>4 DEF LocalCheck, PreVerifies
<1>5. ASSUME NEW p \in Tool,
             NotInstalled(p) \/ WrongPassword(p) \/ UnlockFails(p) \/ Leave(p) \/ Report(p)
      PROVE  ToolInv'
  BY <1>5 DEF NotInstalled, WrongPassword, UnlockFails, Leave, Report
<1>6. ASSUME NEW p \in Tool, Unlock(p) \/ Refused(p) \/ NewPassword(p) PROVE ToolInv'
  BY <1>6 DEF Unlock, Refused, NewPassword
<1>7. ASSUME NEW p \in Tool, WriteSalt(p) \/ WriteIterations(p) PROVE ToolInv'
  BY <1>7 DEF WriteSalt, WriteIterations
<1>8. ASSUME NEW p \in Tool, WriteVerifier(p) \/ Kill(p) PROVE ToolInv'
  BY <1>8 DEF WriteVerifier, Kill
<1>9. ASSUME NEW p \in Tool, Denied(p) PROVE ToolInv'
  BY <1>9 DEF Denied, AfterDenied
<1>10. CASE TickP \/ OtherCheck \/ UNCHANGED vars
  BY <1>10 DEF TickP, OtherCheck, vars
<1>11. QED
  BY <1>1, <1>2, <1>3, <1>4, <1>5, <1>6, <1>7, <1>8, <1>9, <1>10 DEF NextP, ToolStep

\* A run that leaves the writes before the last one, or lets another one in between,
\* cuts a change short.
LEMMA WholeInvStep ==
    ASSUME TypeOKP, InstallInv, ToolInv, WholeInv, [NextP]_vars
    PROVE  WholeInv'
<1> USE SetPasswordAssumption DEF TypeOKP, WholeInv, Goto, Exit, Writing, toolVars, regVars, instVars
<1>1. CASE InstallKey \/ InstallValue
  BY <1>1 DEF InstallKey, InstallValue, InstallInv, ToolInv
<1>2. CASE InstallKilled \/ LoadDriver
  BY <1>2 DEF InstallKilled, LoadDriver
<1>3. CASE Reboot
  BY <1>3 DEF Reboot
<1>4. ASSUME NEW p \in Tool, ReadSalt(p) \/ ReadVerifier(p) \/ LocalCheck(p) \/ NewPassword(p)
      PROVE  WholeInv'
  BY <1>4 DEF ReadSalt, ReadVerifier, LocalCheck, NewPassword
<1>5. ASSUME NEW p \in Tool,
             NotInstalled(p) \/ WrongPassword(p) \/ UnlockFails(p) \/ Leave(p) \/ Report(p)
      PROVE  WholeInv'
  BY <1>5 DEF NotInstalled, WrongPassword, UnlockFails, Leave, Report
<1>6. ASSUME NEW p \in Tool, Unlock(p) \/ Refused(p) PROVE WholeInv'
  BY <1>6 DEF Unlock, Refused
<1>7. ASSUME NEW p \in Tool, WriteSalt(p) PROVE WholeInv'
  BY <1>7 DEF WriteSalt
<1>8. ASSUME NEW p \in Tool, WriteIterations(p) PROVE WholeInv'
  BY <1>8 DEF WriteIterations
<1>9. ASSUME NEW p \in Tool, WriteVerifier(p) PROVE WholeInv'
  BY <1>9 DEF WriteVerifier, ToolInv
<1>10. ASSUME NEW p \in Tool, Denied(p) \/ Kill(p) PROVE WholeInv'
  BY <1>10 DEF Denied, AfterDenied, Kill
<1>11. CASE TickP \/ OtherCheck \/ UNCHANGED vars
  BY <1>11 DEF TickP, OtherCheck, vars
<1>12. QED
  BY <1>1, <1>2, <1>3, <1>4, <1>5, <1>6, <1>7, <1>8, <1>9, <1>10, <1>11
     DEF NextP, ToolStep, InstallStep
\* A refusal means that the driver's verifier is not the one the run read.
LEMMA SameInvStep ==
    ASSUME TypeOKP, InstallInv, ToolInv, SameInv, RefusedOnlyAfterChange, [NextP]_vars
    PROVE  SameInv' /\ RefusedOnlyAfterChange'
<1> DEFINE Goal == SameInv' /\ RefusedOnlyAfterChange'
<1> USE SetPasswordAssumption DEF TypeOKP, SameInv, RefusedOnlyAfterChange, Goto, Exit, PC,
        toolVars, regVars, instVars
<1>1. CASE InstallKey \/ InstallValue \/ InstallKilled
  BY <1>1 DEF InstallKey, InstallValue, InstallKilled, InstallInv
<1>2. CASE LoadDriver
  BY <1>2 DEF LoadDriver, ToolInv
<1>3. CASE Reboot
  BY <1>3 DEF Reboot
<1>4. ASSUME NEW p \in Tool, ReadSalt(p) \/ ReadVerifier(p) \/ LocalCheck(p) \/ NewPassword(p)
      PROVE  Goal
  BY <1>4 DEF ReadSalt, ReadVerifier, LocalCheck, NewPassword
<1>5. ASSUME NEW p \in Tool,
             NotInstalled(p) \/ WrongPassword(p) \/ UnlockFails(p) \/ Leave(p) \/ Report(p)
      PROVE  Goal
  BY <1>5 DEF NotInstalled, WrongPassword, UnlockFails, Leave, Report
<1>6. ASSUME NEW p \in Tool, Unlock(p) PROVE Goal
  BY <1>6 DEF Unlock, DriverVerifier
<1>7. ASSUME NEW p \in Tool, Refused(p) PROVE Goal
  <2>1. ~changed => DriverVerifier = salt[p]
    BY <1>7 DEF Refused, DriverVerifier, ToolInv
  <2>2. changed
    BY <1>7, <2>1 DEF Refused
  <2>3. QED
    BY <1>7, <2>2 DEF Refused
<1>8. ASSUME NEW p \in Tool, WriteSalt(p) \/ WriteVerifier(p) PROVE Goal
  BY <1>8 DEF WriteSalt, WriteVerifier, ToolInv, Writing
<1>9. ASSUME NEW p \in Tool, WriteIterations(p) \/ Kill(p) PROVE Goal
  BY <1>9 DEF WriteIterations, Kill
<1>10. ASSUME NEW p \in Tool, Denied(p) PROVE Goal
  BY <1>10 DEF Denied, AfterDenied
<1>11. CASE TickP \/ OtherCheck \/ UNCHANGED vars
  BY <1>11 DEF TickP, OtherCheck, vars
<1>12. QED
  BY <1>1, <1>2, <1>3, <1>4, <1>5, <1>6, <1>7, <1>8, <1>9, <1>10, <1>11
     DEF NextP, ToolStep, InstallStep

\* Only a reboot takes a promise back, and it ends every run.
LEMMA PromisedGrows ==
    ASSUME IInv, [Next]_leaseVars
    PROVE  promised <= promised'
<1> USE LeaseAssumption DEF IInv, TypeOK
<1>1. CASE Tick
  BY <1>1 DEF Tick
<1>2. ASSUME NEW s \in RecentSamples, Open(s) \/ Close(s) PROVE promised <= promised'
  BY <1>2 DEF Open, Close
<1>3. ASSUME NEW s \in RecentSamples, Grant(s) PROVE promised <= promised'
  BY <1>3, SampleRange DEF Grant, Later
<1>4. CASE UNCHANGED leaseVars
  BY <1>4 DEF leaseVars
<1>5. QED
  BY <1>1, <1>2, <1>3, <1>4 DEF Next

\* Every write that is let through renews the promise.
LEMMA HeldInvStep ==
    ASSUME IInv, TypeOKP, HeldInv, [NextP]_vars
    PROVE  HeldInv'
<1> USE LeaseAssumption DEF TypeOKP, HeldInv, Goto, Exit, Writing, toolVars
<1> DEFINE Grown == promised \in Nat /\ promised' \in Nat /\ promised <= promised'
<1>1. [Next]_leaseVars => Grown
  BY PromisedGrows, LeaseStep DEF IInv, TypeOK
<1>2. UNCHANGED leaseVars => Grown
  BY <1>1
<1>3. CASE Reboot
  BY <1>3 DEF Reboot
<1>4. CASE InstallStep
  BY <1>4, <1>2 DEF InstallStep, InstallKey, InstallValue, InstallKilled, LoadDriver
<1>5. ASSUME NEW p \in Tool,
             \/ ReadSalt(p) \/ ReadVerifier(p) \/ NotInstalled(p) \/ LocalCheck(p)
             \/ WrongPassword(p) \/ UnlockFails(p) \/ Refused(p)
      PROVE  HeldInv'
  BY <1>5, <1>2 DEF ReadSalt, ReadVerifier, NotInstalled, LocalCheck, WrongPassword,
                    UnlockFails, Refused
<1>6. ASSUME NEW p \in Tool, NewPassword(p) \/ Leave(p) \/ Report(p) \/ Kill(p) PROVE HeldInv'
  BY <1>6, <1>2 DEF NewPassword, Leave, Report, Kill
<1>7. ASSUME NEW p \in Tool, Unlock(p) \/ Denied(p) PROVE HeldInv'
  <2>1. Grown
    BY <1>7, <1>1 DEF Unlock, Denied, Next, leaseVars
  <2>2. QED
    BY <1>7, <2>1 DEF Unlock, Denied, AfterDenied
<1>8. ASSUME NEW p \in Tool, WriteSalt(p) \/ WriteIterations(p) PROVE HeldInv'
  <2>1. PICK s \in RecentSamples : Grant(s) /\ checked' = [checked EXCEPT ![p] = s]
    BY <1>8 DEF WriteSalt, WriteIterations, Allowed
  <2>2. s \in Nat
    BY SampleRange DEF IInv
  <2>3. Grown /\ s + Grace <= promised'
    <3>1. Grown
      BY <1>1, <2>1 DEF Next
    <3>2. promised' = Later(promised, s + Grace)
      BY <2>1 DEF Grant
    <3>3. QED
      BY <2>2, <3>1, <3>2 DEF Later
  <2>4. \A q \in Tool : q # p => pc'[q] = pc[q] /\ checked'[q] = checked[q]
    BY <1>8, <2>1 DEF WriteSalt, WriteIterations
  <2>5. checked'[p] = s
    BY <2>1
  <2>6. QED
    BY <2>2, <2>3, <2>4, <2>5
<1>9. ASSUME NEW p \in Tool, WriteVerifier(p) PROVE HeldInv'
  <2>1. Grown
    BY <1>9, <1>1 DEF WriteVerifier, Next
  <2>2. QED
    BY <1>9, <2>1 DEF WriteVerifier
<1>10. CASE TickP \/ OtherCheck
  <2>1. Grown
    BY <1>10, <1>1 DEF TickP, OtherCheck, Next
  <2>2. QED
    BY <1>10, <2>1 DEF TickP, OtherCheck
<1>11. CASE UNCHANGED vars
  BY <1>11 DEF vars, leaseVars
<1>12. QED
  BY <1>3, <1>4, <1>5, <1>6, <1>7, <1>8, <1>9, <1>10, <1>11 DEF NextP, ToolStep

\* PInv is an invariant of the specification.
LEMMA PInvInvariant == SpecP => []PInv
<1>1. PInv /\ [NextP]_vars => PInv'
  BY LeaseStep, TypeStep, InstallInvStep, ToolInvStep, WholeInvStep, SameInvStep, HeldInvStep
     DEF PInv
<1>2. QED
  BY InitPInv, <1>1, PTL DEF SpecP

-----------------------------------------------------------------------------
\* The registry, the driver's copy, the installer and the tools keep their types.
THEOREM TypeCorrectP == SpecP => []TypeOKP
<1>1. PInv => TypeOKP
  BY DEF PInv
<1>2. QED
  BY PInvInvariant, <1>1, PTL

\* The window that the tools see keeps its promises (lockguard.c 74-113).
THEOREM ToolsLeaseTheorem == SpecP => [](LeasePromise /\ RemainingBounded)
<1>1. PInv => LeasePromise /\ RemainingBounded
  BY LeaseAssumption DEF PInv, IInv, TypeOK, PromiseInv, LeasePromise, RemainingBounded
<1>2. QED
  BY PInvInvariant, <1>1, PTL

\* The three values of a credential end up together unless a change or an
\* installation was cut short (cli/main.go 229-262, Install-Lockguard.ps1 108-133).
THEOREM RegistryWholeTheorem == SpecP => []RegistryWhole
<1>1. PInv => RegistryWhole
  BY DEF PInv, InstallInv, WholeInv, RegistryWhole
<1>2. QED
  BY PInvInvariant, <1>1, PTL

\* The driver refuses no run that pre-verified, before the registry changes
\* (Recover-Lockguard.ps1 17-18).
THEOREM RefusedTheorem == SpecP => []RefusedOnlyAfterChange
<1>1. PInv => RefusedOnlyAfterChange
  BY DEF PInv
<1>2. QED
  BY PInvInvariant, <1>1, PTL

\* A run is denied between two writes only when its lease has ended.
THEOREM DenialTheorem == SpecP => DenialBetweenWritesIsLate
<1>1. ASSUME PInv, NEW p \in Tool, pc[p] \in Writing, Denied(p)
      PROVE  clock >= checked[p] + Grace
  <2>1. /\ clock \in Nat /\ promised \in Nat /\ deadline \in Nat /\ checked[p] \in Nat
        /\ checked[p] + Grace <= promised
    BY <1>1, LeaseAssumption DEF PInv, IInv, TypeOK, TypeOKP, HeldInv
  <2>2. promised <= clock
    <3>1. CASE deadline = 0
      BY <1>1, <3>1 DEF PInv, IInv, PromiseInv
    <3>2. ASSUME NEW s \in RecentSamples, Close(s) PROVE promised <= clock
      BY <1>1, <2>1, <3>2, SampleRange DEF Close, PInv, IInv, PromiseInv
    <3>3. QED
      BY <1>1, <3>1, <3>2 DEF Denied
  <2>3. QED
    BY <2>1, <2>2, LeaseAssumption
<1>2. ASSUME PInv, [NextP]_vars, NEW p \in Tool, pc[p] \in Writing, pc'[p] = "denied"
      PROVE  Denied(p)
  <2> USE <1>2 DEF PInv, TypeOKP, Goto, Exit, Writing, toolVars
  <2>1. PICK q \in Tool : ToolStep(q)
    BY DEF NextP, TickP, OtherCheck, Reboot, InstallStep, InstallKey, InstallValue,
           InstallKilled, LoadDriver, vars
  <2>2. CASE \/ ReadSalt(q) \/ ReadVerifier(q) \/ NotInstalled(q) \/ LocalCheck(q)
             \/ WrongPassword(q) \/ Unlock(q) \/ Refused(q) \/ UnlockFails(q)
    BY <2>2 DEF ReadSalt, ReadVerifier, NotInstalled, LocalCheck, WrongPassword, Unlock,
                Refused, UnlockFails
  <2>3. CASE \/ NewPassword(q) \/ Leave(q) \/ WriteSalt(q) \/ WriteIterations(q)
             \/ WriteVerifier(q) \/ Report(q) \/ Kill(q)
    BY <2>3 DEF NewPassword, Leave, WriteSalt, WriteIterations, WriteVerifier, Report, Kill
  <2>4. CASE Denied(q)
    BY <2>4 DEF Denied
  <2>5. QED
    BY <2>1, <2>2, <2>3, <2>4 DEF ToolStep
<1>3. PInv /\ [NextP]_vars
        => [\A p \in Tool :
              (pc[p] \in Writing /\ pc'[p] = "denied") => clock >= checked[p] + Grace]_vars
  BY <1>1, <1>2
<1>4. QED
  BY PInvInvariant, <1>3, PTL DEF SpecP, DenialBetweenWritesIsLate
=============================================================================
