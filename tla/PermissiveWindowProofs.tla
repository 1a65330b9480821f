------------------------ MODULE PermissiveWindowProofs ------------------------
(* Proofs about PermissiveWindow for every set of threads and all values of  *)
(* Window, Grace, Stall and MaxTime that satisfy WindowAssumption.           *)
EXTENDS PermissiveWindow, TLAPS

\* A thread about to enter a critical section holds a sample that is not from
\* the future and at most Stall old.
SampleInv ==
    \A t \in Thread :
        /\ now[t] <= clock
        /\ pc[t] \in {"enter", "check", "opening"} => 1 <= now[t] /\ clock <= now[t] + Stall

\* One thread holds the lock in the middle of a section, and it has made its
\* first store and not its second.
LockInv ==
    /\ \A t, u \in Thread :
          pc[t] \in {"opening", "closing"} /\ pc[u] \in {"opening", "closing"} => t = u
    /\ \A t \in Thread :
          /\ pc[t] = "opening" => gPermissive
          /\ pc[t] = "closing" => ~gPermissive /\ gPermissiveExpires # 0

\* A promise that is still due is covered by the deadline of an open window, and
\* outside the sections the deadline of an open window covers every promise.
PromiseInv ==
    /\ promised <= clock + Grace
    /\ promised <= clock \/ (gPermissive /\ promised <= gPermissiveExpires)
    /\ LockFree /\ gPermissive => promised <= gPermissiveExpires
    /\ \A t \in Thread : pc[t] = "active" => now[t] + Grace <= promised

\* The inductive invariant.
IInv ==
    /\ TypeOK
    /\ SampleInv
    /\ LockInv
    /\ PromiseInv
    /\ FlagMatchesExpiry
    /\ ExpiryJustified

-----------------------------------------------------------------------------
\* Later is the maximum of two naturals.
LEMMA LaterMax ==
    ASSUME NEW a \in Nat, NEW b \in Nat
    PROVE  /\ Later(a, b) \in Nat
           /\ a <= Later(a, b)
           /\ b <= Later(a, b)
           /\ Later(a, b) \in {a, b}
BY DEF Later

\* The initial state satisfies the inductive invariant.
LEMMA InitIInv == Init => IInv
<1> SUFFICES ASSUME Init PROVE IInv
  OBVIOUS
<1> USE WindowAssumption DEF Init
<1>1. TypeOK
  <2>1. pc \in [Thread -> PC]
    BY DEF PC
  <2>2. clock \in 1 .. MaxTime /\ opened \in 0 .. MaxTime
    OBVIOUS
  <2>3. now \in [Thread -> 0 .. MaxTime]
    OBVIOUS
  <2>4. gPermissive \in BOOLEAN
    OBVIOUS
  <2>5. gPermissiveExpires \in 0 .. MaxTime + Window /\ promised \in 0 .. MaxTime + Grace
    OBVIOUS
  <2>6. QED
    BY <2>1, <2>2, <2>3, <2>4, <2>5 DEF TypeOK
<1>2. SampleInv /\ LockInv /\ PromiseInv
  BY DEF SampleInv, LockInv, PromiseInv
<1>3. FlagMatchesExpiry /\ ExpiryJustified
  BY DEF FlagMatchesExpiry, ExpiryJustified
<1>4. QED
  BY <1>1, <1>2, <1>3 DEF IInv

\* Every step preserves the types (PermissiveWindow's TypeOK).
LEMMA TypeStep ==
    ASSUME TypeOK, SampleInv, [Next]_vars
    PROVE  TypeOK'
<1> USE WindowAssumption
<1>1. CASE Tick
  BY <1>1 DEF Tick, TypeOK, PC
<1>2. ASSUME NEW t \in Thread, EnterSample(t) PROVE TypeOK'
  BY <1>2 DEF EnterSample, TypeOK, PC
<1>3. ASSUME NEW t \in Thread, EnterFlag(t) \/ EnterDeadline(t) PROVE TypeOK'
  <2>1. CASE EnterFlag(t)
    BY <2>1 DEF EnterFlag, TypeOK, PC
  <2>2. CASE EnterDeadline(t)
    BY <2>2 DEF EnterDeadline, WindowEnd, TypeOK, PC
  <2>3. QED
    BY <1>3, <2>1, <2>2
<1>4. ASSUME NEW t \in Thread, FastCheck(t) PROVE TypeOK'
  BY <1>4 DEF FastCheck, TypeOK, PC
<1>5. ASSUME NEW t \in Thread, CheckSample(t) PROVE TypeOK'
  BY <1>5 DEF CheckSample, TypeOK, PC
<1>6. ASSUME NEW t \in Thread, CheckGrant(t) PROVE TypeOK'
  BY <1>6 DEF CheckGrant, Leased, Later, TypeOK, PC
<1>7. ASSUME NEW t \in Thread, CheckClosed(t) \/ CloseFlag(t) \/ CloseDeadline(t)
      PROVE  TypeOK'
  <2>1. pc' \in [Thread -> PC]
    BY <1>7 DEF CheckClosed, CloseFlag, CloseDeadline, TypeOK, PC
  <2>2. gPermissive' \in BOOLEAN
    BY <1>7 DEF CheckClosed, CloseFlag, CloseDeadline, TypeOK
  <2>3. gPermissiveExpires' \in {0, gPermissiveExpires}
    BY <1>7 DEF CheckClosed, CloseFlag, CloseDeadline, Reset
  <2>4. gPermissiveExpires' \in 0 .. MaxTime + Window
    BY <2>3 DEF TypeOK
  <2>5. UNCHANGED <<clock, now, opened, promised>>
    BY <1>7 DEF CheckClosed, CloseFlag, CloseDeadline
  <2>6. QED
    BY <2>1, <2>2, <2>4, <2>5 DEF TypeOK
<1>8. ASSUME NEW t \in Thread, CallerDone(t) PROVE TypeOK'
  BY <1>8 DEF CallerDone, TypeOK, PC
<1>9. CASE UNCHANGED vars
  BY <1>9 DEF vars, TypeOK
<1>10. QED
  BY <1>1, <1>2, <1>3, <1>4, <1>5, <1>6, <1>7, <1>8, <1>9 DEF Next, ThreadStep

\* Every step preserves the freshness of the samples: Tick is held back by the
\* threads that hold one.
LEMMA SampleStep ==
    ASSUME TypeOK, SampleInv, [Next]_vars
    PROVE  SampleInv'
<1> USE WindowAssumption DEF TypeOK, SampleInv
<1>1. CASE Tick
  BY <1>1 DEF Tick
<1>2. ASSUME NEW t \in Thread, EnterSample(t) PROVE SampleInv'
  BY <1>2 DEF EnterSample
<1>3. ASSUME NEW t \in Thread, EnterFlag(t) \/ EnterDeadline(t) PROVE SampleInv'
  BY <1>3 DEF EnterFlag, EnterDeadline
<1>4. ASSUME NEW t \in Thread, FastCheck(t) PROVE SampleInv'
  BY <1>4 DEF FastCheck
<1>5. ASSUME NEW t \in Thread, CheckSample(t) PROVE SampleInv'
  BY <1>5 DEF CheckSample
<1>6. ASSUME NEW t \in Thread, CheckGrant(t) PROVE SampleInv'
  BY <1>6 DEF CheckGrant
<1>7. ASSUME NEW t \in Thread, CheckClosed(t) \/ CloseFlag(t) \/ CloseDeadline(t)
      PROVE  SampleInv'
  BY <1>7 DEF CheckClosed, CloseFlag, CloseDeadline
<1>8. ASSUME NEW t \in Thread, CallerDone(t) PROVE SampleInv'
  BY <1>8 DEF CallerDone
<1>9. CASE UNCHANGED vars
  BY <1>9 DEF vars
<1>10. QED
  BY <1>1, <1>2, <1>3, <1>4, <1>5, <1>6, <1>7, <1>8, <1>9 DEF Next, ThreadStep

\* Every step preserves the exclusion: a section begins only when the lock is free,
\* and who does not hold the lock changes neither the flag nor the deadline.
LEMMA LockStep ==
    ASSUME IInv, [Next]_vars
    PROVE  LockInv'
<1> USE WindowAssumption DEF IInv, TypeOK, LockInv
<1>1. CASE Tick
  BY <1>1 DEF Tick
<1>2. ASSUME NEW t \in Thread,
             EnterSample(t) \/ FastCheck(t) \/ CheckSample(t) \/ CheckClosed(t) \/ CallerDone(t)
      PROVE  LockInv'
  BY <1>2 DEF EnterSample, FastCheck, CheckSample, CheckClosed, CallerDone
<1>3. ASSUME NEW t \in Thread, EnterFlag(t) PROVE LockInv'
  BY <1>3 DEF EnterFlag, LockFree
<1>4. ASSUME NEW t \in Thread, EnterDeadline(t) PROVE LockInv'
  BY <1>4 DEF EnterDeadline
<1>5. ASSUME NEW t \in Thread, CheckGrant(t) PROVE LockInv'
  BY <1>5 DEF CheckGrant, LockFree
<1>6. ASSUME NEW t \in Thread, CloseFlag(t) PROVE LockInv'
  BY <1>6 DEF CloseFlag, LockFree, FlagMatchesExpiry
<1>7. ASSUME NEW t \in Thread, CloseDeadline(t) PROVE LockInv'
  BY <1>7 DEF CloseDeadline
<1>8. CASE UNCHANGED vars
  BY <1>8 DEF vars
<1>9. QED
  BY <1>1, <1>2, <1>3, <1>4, <1>5, <1>6, <1>7, <1>8 DEF Next, ThreadStep

\* Every step preserves what the deadline owes the callers, and the agreement
\* of flag, deadline and history.
LEMMA OwedStep ==
    ASSUME IInv, [Next]_vars
    PROVE  (PromiseInv /\ FlagMatchesExpiry /\ ExpiryJustified)'
<1> DEFINE P == PromiseInv /\ FlagMatchesExpiry /\ ExpiryJustified
<1> USE WindowAssumption
        DEF IInv, TypeOK, SampleInv, LockInv, PromiseInv, FlagMatchesExpiry, ExpiryJustified
<1>1. CASE Tick
  BY <1>1 DEF Tick, LockFree
<1>2. ASSUME NEW t \in Thread, EnterSample(t) PROVE P'
  BY <1>2 DEF EnterSample, LockFree
<1>3. ASSUME NEW t \in Thread, EnterFlag(t) PROVE P'
  <2>1. ~LockFree'
    BY <1>3 DEF EnterFlag, LockFree
  <2>2. QED
    BY <1>3, <2>1 DEF EnterFlag
<1>4. ASSUME NEW t \in Thread, EnterDeadline(t) PROVE P'
  <2>1. /\ now[t] \in Nat /\ promised \in Nat /\ clock \in Nat
        /\ promised <= clock + Grace
        /\ clock <= now[t] + Stall
        /\ gPermissive /\ gPermissive'
    BY <1>4 DEF EnterDeadline
  <2>2. promised <= now[t] + Window /\ now[t] + Window # 0
    BY <2>1
  <2>3. QED
    BY <1>4, <2>1, <2>2 DEF EnterDeadline, WindowEnd
<1>5. ASSUME NEW t \in Thread, FastCheck(t) PROVE P'
  BY <1>5 DEF FastCheck, LockFree
<1>6. ASSUME NEW t \in Thread, CheckSample(t) PROVE P'
  BY <1>6 DEF CheckSample, LockFree
<1>7. ASSUME NEW t \in Thread, CheckGrant(t) PROVE P'
  <2>1. /\ now[t] \in Nat /\ now[t] <= clock
        /\ gPermissive /\ gPermissive'
        /\ gPermissiveExpires' = Later(gPermissiveExpires, now[t] + Grace)
        /\ promised' = Later(promised, now[t] + Grace)
        /\ UNCHANGED <<clock, opened, now>>
    BY <1>7 DEF CheckGrant, StillOpen, Leased
  <2>2. FlagMatchesExpiry' /\ ExpiryJustified'
    <3>1. /\ gPermissiveExpires \in Nat /\ gPermissiveExpires # 0
          /\ gPermissiveExpires' # 0
      BY <2>1, <1>7 DEF CheckGrant, Later
    <3>2. FlagMatchesExpiry'
      BY <2>1, <3>1
    <3>3. CASE gPermissiveExpires <= now[t] + Grace
      BY <1>7, <2>1, <3>1, <3>3 DEF CheckGrant, Later
    <3>4. CASE now[t] + Grace < gPermissiveExpires
      BY <2>1, <3>1, <3>4 DEF Later
    <3>5. QED
      BY <2>1, <3>1, <3>2, <3>3, <3>4
  <2>3. /\ promised' <= clock' + Grace
        /\ promised' <= gPermissiveExpires'
    BY <2>1, <1>7 DEF CheckGrant, Later
  <2>4. \A u \in Thread : pc'[u] = "active" => now'[u] + Grace <= promised'
    BY <1>7, <2>1 DEF CheckGrant, Later
  <2>5. QED
    BY <2>1, <2>2, <2>3, <2>4
<1>8. ASSUME NEW t \in Thread, CheckClosed(t) PROVE P'
  BY <1>8 DEF CheckClosed, LockFree
<1>9. ASSUME NEW t \in Thread, CloseFlag(t) PROVE P'
  <2>1. gPermissiveExpires <= now[t] /\ now[t] <= clock
    BY <1>9 DEF CloseFlag, StillOpen
  <2>2. promised <= clock /\ gPermissiveExpires <= clock
    BY <2>1
  <2>3. ~LockFree'
    BY <1>9 DEF CloseFlag, LockFree
  <2>4. QED
    BY <1>9, <2>2, <2>3 DEF CloseFlag
<1>10. ASSUME NEW t \in Thread, CloseDeadline(t) PROVE P'
  <2>1. gPermissiveExpires' = 0 /\ ~gPermissive /\ promised <= clock
    BY <1>10 DEF CloseDeadline, Reset
  <2>2. QED
    BY <1>10, <2>1 DEF CloseDeadline
<1>11. ASSUME NEW t \in Thread, CallerDone(t) PROVE P'
  BY <1>11 DEF CallerDone, LockFree
<1>12. CASE UNCHANGED vars
  BY <1>12 DEF vars, LockFree
<1>13. QED
  BY <1>1, <1>2, <1>3, <1>4, <1>5, <1>6, <1>7, <1>8, <1>9, <1>10, <1>11, <1>12
     DEF Next, ThreadStep

\* IInv is an invariant of the specification.
LEMMA IInvInvariant == Spec => []IInv
<1>1. IInv /\ [Next]_vars => IInv'
  BY TypeStep, SampleStep, LockStep, OwedStep DEF IInv
<1>2. QED
  BY InitIInv, <1>1, PTL DEF Spec

-----------------------------------------------------------------------------
\* The variables of the window keep their types, and no deadline or promise is
\* ever computed beyond the last sample plus its span (lockguard.c 70-120).
THEOREM TypeCorrect == Spec => []TypeOK
<1>1. IInv => TypeOK
  BY DEF IInv
<1>2. QED
  BY IInvInvariant, <1>1, PTL

\* The flag and the deadline agree whenever the lock is free, and the deadline that a
\* lock-free reader may find beside a cleared flag has passed: each section makes its
\* two stores one after the other, flag first (lockguard.c 78-79, 99-100).
THEOREM FlagTheorem == Spec => []FlagMatchesExpiry
<1>1. IInv => FlagMatchesExpiry
  BY DEF IInv
<1>2. QED
  BY IInvInvariant, <1>1, PTL

\* The invariant gives every caller told TRUE its lease.
LEMMA LeaseFromIInv == IInv => LeaseHonoured
<1> SUFFICES ASSUME IInv, NEW t \in Thread, Leasing(t)
             PROVE  gPermissive /\ now[t] + Grace <= gPermissiveExpires
  BY DEF LeaseHonoured
<1>1. /\ now[t] \in Nat /\ clock \in Nat /\ promised \in Nat /\ gPermissiveExpires \in Nat
      /\ clock < now[t] + Grace
      /\ now[t] + Grace <= promised
  BY DEF IInv, TypeOK, PromiseInv, Leasing
<1>2. gPermissive
  BY <1>1, WindowAssumption DEF IInv, PromiseInv
<1>3. QED
  BY <1>1, <1>2, WindowAssumption DEF IInv, PromiseInv

\* Whatever the other threads do, a caller told TRUE finds the window open for
\* Grace from its sample (lockguard.c 102-113).
THEOREM LeaseTheorem == Spec => []LeaseHonoured
BY IInvInvariant, LeaseFromIInv, PTL

\* The deadline is always that of the last opening or of a promise to a caller.
THEOREM ExpiryTheorem == Spec => []ExpiryJustified
<1>1. IInv => ExpiryJustified
  BY DEF IInv
<1>2. QED
  BY IInvInvariant, <1>1, PTL

\* While one thread acts on TRUE under its lease, no sibling's check comes out
\* FALSE: the race of lockguard.c 104-107 is closed for any number of threads.
THEOREM SiblingsTheorem == Spec => SiblingsAgree
<1> DEFINE Agree == \A t, u \in Thread :
             Leasing(t) => ~(pc[u] # "inactive" /\ pc'[u] = "inactive")
<1>1. ASSUME IInv, Next PROVE Agree
  <2> SUFFICES ASSUME NEW t \in Thread, NEW u \in Thread, Leasing(t),
                      pc[u] # "inactive", pc'[u] = "inactive"
               PROVE  FALSE
    OBVIOUS
  <2>1. /\ gPermissive
        /\ now[t] + Grace <= gPermissiveExpires
        /\ clock < now[t] + Grace
    BY <1>1, LeaseFromIInv DEF LeaseHonoured, Leasing
  <2>2. FastCheck(u) \/ CheckClosed(u) \/ CloseDeadline(u)
    BY <1>1 DEF IInv, TypeOK, Next, ThreadStep, Tick, EnterSample, EnterFlag, EnterDeadline,
                FastCheck, CheckSample, CheckGrant, CheckClosed, CloseFlag, CloseDeadline,
                CallerDone
  <2>3. CASE FastCheck(u)
    BY <1>1, <2>1, <2>3 DEF FastCheck, IInv, TypeOK
  <2>4. CASE CheckClosed(u)
    BY <2>1, <2>4 DEF CheckClosed
  <2>5. CASE CloseDeadline(u)
    BY <1>1, <2>1, <2>5 DEF CloseDeadline, IInv, LockInv
  <2>6. QED
    BY <2>2, <2>3, <2>4, <2>5
<1>2. IInv /\ [Next]_vars => [Agree]_vars
  BY <1>1
<1>3. QED
  BY IInvInvariant, <1>2, PTL DEF Spec, SiblingsAgree

\* A check that comes out TRUE was made less than Stall after the deadline at
\* worst, since its sample was before it (lockguard.c 93-97).
THEOREM PromptTheorem == Spec => ExtensionIsPrompt
<1> DEFINE Prompt == \A t \in Thread :
             (pc[t] = "check" /\ pc'[t] = "active") => clock < gPermissiveExpires + Stall
<1>1. ASSUME IInv, Next PROVE Prompt
  <2> SUFFICES ASSUME NEW t \in Thread, pc[t] = "check", pc'[t] = "active"
               PROVE  clock < gPermissiveExpires + Stall
    OBVIOUS
  <2>1. CheckGrant(t)
    BY <1>1 DEF IInv, TypeOK, Next, ThreadStep, Tick, EnterSample, EnterFlag, EnterDeadline,
                FastCheck, CheckSample, CheckGrant, CheckClosed, CloseFlag, CloseDeadline,
                CallerDone
  <2>2. now[t] < gPermissiveExpires /\ clock <= now[t] + Stall
    BY <1>1, <2>1 DEF CheckGrant, StillOpen, IInv, SampleInv
  <2>3. QED
    BY <1>1, <2>2, WindowAssumption DEF IInv, TypeOK
<1>2. IInv /\ [Next]_vars => [Prompt]_vars
  BY <1>1
<1>3. QED
  BY IInvInvariant, <1>2, PTL DEF Spec, ExtensionIsPrompt

-----------------------------------------------------------------------------
\* Refinement: the threads, the flag and the lock implement the abstract window
\* of module Lease.
LEMMA LeaseStep ==
    ASSUME IInv, [Next]_vars
    PROVE  [LeaseSpec!Next]_(LeaseSpec!leaseVars)
<1> USE DEF LeaseSpec!leaseVars
<1>1. CASE Tick
  BY <1>1 DEF Tick, LeaseSpec!Next, LeaseSpec!Tick
<1>2. ASSUME NEW t \in Thread, pc[t] \in {"enter", "check", "opening"}
      PROVE  now[t] \in LeaseSpec!RecentSamples
  BY <1>2, WindowAssumption DEF IInv, TypeOK, SampleInv, LeaseSpec!RecentSamples
<1>3. ASSUME NEW t \in Thread, EnterDeadline(t)
      PROVE  LeaseSpec!Next
  <2>1. LeaseSpec!Open(now[t])
    BY <1>3 DEF EnterDeadline, WindowEnd, LeaseSpec!Open
  <2>2. now[t] \in LeaseSpec!RecentSamples
    BY <1>2, <1>3 DEF EnterDeadline
  <2>3. QED
    BY <2>1, <2>2 DEF LeaseSpec!Next
<1>4. ASSUME NEW t \in Thread, CheckGrant(t)
      PROVE  LeaseSpec!Next
  <2>1. LeaseSpec!Grant(now[t])
    BY <1>4 DEF CheckGrant, StillOpen, Leased, Later, LeaseSpec!Grant, LeaseSpec!Later
  <2>2. QED
    BY <1>2, <1>4, <2>1 DEF CheckGrant, LeaseSpec!Next
<1>5. ASSUME NEW t \in Thread, CloseDeadline(t)
      PROVE  LeaseSpec!Next
  <2>1. clock \in LeaseSpec!RecentSamples
    BY WindowAssumption DEF IInv, TypeOK, LeaseSpec!RecentSamples
  <2>2. gPermissiveExpires # 0 /\ gPermissiveExpires <= clock
    BY <1>5 DEF CloseDeadline, IInv, LockInv, FlagMatchesExpiry
  <2>3. LeaseSpec!Close(clock)
    BY <1>5, <2>2, WindowAssumption DEF CloseDeadline, Reset, IInv, TypeOK, LeaseSpec!Close
  <2>4. QED
    BY <2>1, <2>3 DEF LeaseSpec!Next
<1>6. ASSUME NEW t \in Thread,
             EnterSample(t) \/ EnterFlag(t) \/ FastCheck(t) \/ CheckSample(t)
               \/ CheckClosed(t) \/ CloseFlag(t) \/ CallerDone(t)
      PROVE  UNCHANGED LeaseSpec!leaseVars
  BY <1>6 DEF EnterSample, EnterFlag, FastCheck, CheckSample, CheckClosed, CloseFlag, CallerDone
<1>7. CASE UNCHANGED vars
  BY <1>7 DEF vars
<1>8. QED
  BY <1>1, <1>3, <1>4, <1>5, <1>6, <1>7 DEF Next, ThreadStep

\* The code's window is an implementation of the abstract one, so whatever Lease
\* promises holds of it.
THEOREM Refinement == Spec => ImplementsLease
<1>1. Init => LeaseSpec!Init
  BY DEF Init, LeaseSpec!Init
<1>2. QED
  BY <1>1, IInvInvariant, LeaseStep, PTL DEF Spec, ImplementsLease, LeaseSpec!Spec

\* No opening lies in the future.
OpenedInv == opened <= clock

LEMMA OpenedStep ==
    ASSUME IInv, OpenedInv, [Next]_vars
    PROVE  OpenedInv'
<1> USE DEF IInv, TypeOK, SampleInv, OpenedInv
<1>1. CASE Tick
  BY <1>1 DEF Tick
<1>2. ASSUME NEW t \in Thread, EnterDeadline(t) PROVE OpenedInv'
  BY <1>2 DEF EnterDeadline
<1>3. ASSUME NEW t \in Thread,
             EnterSample(t) \/ EnterFlag(t) \/ FastCheck(t) \/ CheckSample(t) \/ CheckGrant(t)
               \/ CheckClosed(t) \/ CloseFlag(t) \/ CloseDeadline(t) \/ CallerDone(t)
      PROVE  OpenedInv'
  BY <1>3 DEF EnterSample, EnterFlag, FastCheck, CheckSample, CheckGrant, CheckClosed,
              CloseFlag, CloseDeadline, CallerDone
<1>4. CASE UNCHANGED vars
  BY <1>4 DEF vars
<1>5. QED
  BY <1>1, <1>2, <1>3, <1>4 DEF Next, ThreadStep

\* What the abstract window promises holds of the code: a lease granted at the expiry
\* boundary is not cut short, and however often leases are renewed the window never has
\* more than one full Window left to run, although both ends are computed from samples
\* older than the lock (lockguard.c 70-120).
THEOREM PromiseTheorem ==
    Spec => [](LeaseSpec!LeasePromise /\ LeaseSpec!RemainingBounded)
<1>1. Init => OpenedInv
  BY DEF Init, OpenedInv
<1>2. IInv => LeaseSpec!LeasePromise
  BY WindowAssumption DEF IInv, TypeOK, PromiseInv, FlagMatchesExpiry, LeaseSpec!LeasePromise
<1>3. IInv /\ OpenedInv => LeaseSpec!RemainingBounded
  <2> SUFFICES ASSUME IInv, OpenedInv PROVE gPermissiveExpires <= clock + Window
    BY DEF LeaseSpec!RemainingBounded
  <2>1. /\ promised \in Nat /\ clock \in Nat /\ opened \in Nat
        /\ promised <= clock + Window
    BY WindowAssumption DEF IInv, TypeOK, PromiseInv
  <2>2. gPermissiveExpires = 0 \/ gPermissiveExpires \in {opened + Window, promised}
    BY DEF IInv, ExpiryJustified
  <2>3. QED
    BY <2>1, <2>2, WindowAssumption DEF OpenedInv
<1>4. IInv /\ OpenedInv /\ [Next]_vars => OpenedInv'
  BY OpenedStep
<1>5. QED
  BY <1>1, <1>2, <1>3, <1>4, IInvInvariant, PTL DEF Spec
=============================================================================
