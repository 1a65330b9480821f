------------------------- MODULE RecoveryChannelProofs -------------------------
(* Proofs about RecoveryChannel for any number of clients and nonces, every    *)
(* lifetime of a nonce, retry interval, window and counter width.              *)
EXTENDS RecoveryChannel, TLAPS

\* A nonce on its way to be published is in nobody else's hands, and the pending one
\* in the hands of no UNLOCK.
NonceInv ==
    /\ gNonceValid => gPendingNonce # NoNonce
    /\ \A c \in Client :
         /\ pc[c] \in {"idle", "sample", "cas", "load", "random"} => nonce[c] = NoNonce
         /\ pc[c] = "publish" =>
              /\ nonce[c] # NoNonce
              /\ gPendingNonce # nonce[c]
              /\ \A d \in Client : taken[d] # nonce[c]
         /\ pc[c] \in InUnlock /\ gNonceValid => gPendingNonce # taken[c]
    /\ \A c, d \in Client :
         c # d =>
           /\ nonce[c] # NoNonce => nonce[c] # nonce[d]
           /\ pc[c] \in InUnlock /\ pc[d] \in InUnlock => taken[c] # taken[d]

\* The nonce of a client that was overtaken is not the pending one again; that of one
\* that was not still is, or was when its UNLOCK took it.
OvertakenInv ==
    \A c \in Client :
      /\ overtaken[c] =>
           /\ pc[c] \in {"have"} \cup InUnlock \cup Answered
           /\ gNonceValid => gPendingNonce # nonce[c]
           /\ pc[c] \in {"age", "verify"} => nonce[c] # taken[c]
           /\ pc[c] \notin {"commit", "opened"}
      /\ nonce[c] # NoNonce /\ ~overtaken[c] =>
           /\ pc[c] = "have" =>
                gNonceValid /\ gPendingNonce = nonce[c] /\ gNonceIssuedAt = now[c]
           /\ pc[c] \in {"age", "verify"} => taken[c] = nonce[c] /\ issuedAt[c] = now[c]

\* A thread in the load has made its sample the stamp, or been followed by one that
\* has.
LoadInv ==
    \A c \in Client :
      /\ pc[c] \in {"cas", "load"} => 1 <= now[c]
      /\ pc[c] = "cas" => last[c] = 0 \/ last[c] + RetryInterval <= now[c]
      /\ pc[c] = "load" => now[c] <= gVerifierLastRetry

\* The inductive invariant.
IInv ==
    /\ TypeOK
    /\ NonceInv
    /\ OvertakenInv
    /\ LoadInv
    /\ RefusalHasReason
    /\ LoadersSpaced

-----------------------------------------------------------------------------
\* The initial state satisfies the inductive invariant.
LEMMA InitIInv == Init => IInv
<1> SUFFICES ASSUME Init PROVE IInv
  OBVIOUS
<1> USE ChannelAssumption DEF Init
<1>1. TypeOK
  <2>1. registryReady \in BOOLEAN /\ gVerifierLoaded \in BOOLEAN /\ gNonceValid \in BOOLEAN
    OBVIOUS
  <2>2. QED
    BY <2>1 DEF TypeOK, PC
<1>2. NonceInv
  BY DEF NonceInv, InUnlock
<1>3. OvertakenInv
  BY DEF OvertakenInv
<1>4. LoadInv /\ LoadersSpaced /\ RefusalHasReason
  BY DEF LoadInv, LoadersSpaced, RefusalHasReason
<1>5. QED
  BY <1>1, <1>2, <1>3, <1>4 DEF IInv

\* The tamper counter wraps within its width.
LEMMA TamperRange ==
    ASSUME TypeOK, RecordTamper
    PROVE  gTamperCount' \in 0 .. TamperModulus - 1
BY ChannelAssumption DEF TypeOK, RecordTamper

\* Every step preserves the types.
LEMMA TypeStep ==
    ASSUME TypeOK, [Next]_vars
    PROVE  TypeOK'
<1> USE ChannelAssumption DEF TypeOK, Goto, PC, Answered, InUnlock, nonceVars, verifierVars,
        localVars, histVars
<1>1. ASSUME NEW c \in Client, GetNonce(c) \/ SampleRetry(c) PROVE TypeOK'
  <2>1. CASE GetNonce(c)
    BY <2>1 DEF GetNonce
  <2>2. CASE SampleRetry(c)
    BY <2>2 DEF SampleRetry
  <2>3. QED
    BY <1>1, <2>1, <2>2
<1>2. ASSUME NEW c \in Client, CompareExchange(c) PROVE TypeOK'
  BY <1>2 DEF CompareExchange
<1>3. ASSUME NEW c \in Client, LoadVerifier(c) PROVE TypeOK'
  BY <1>3 DEF LoadVerifier
<1>4. ASSUME NEW c \in Client, RandomFails(c) PROVE TypeOK'
  BY <1>4 DEF RandomFails
<1>5. ASSUME NEW c \in Client, Random(c) PROVE TypeOK'
  BY <1>5 DEF Random
<1>6. ASSUME NEW c \in Client, Publish(c) PROVE TypeOK'
  BY <1>6 DEF Publish, Overtake
<1>7. ASSUME NEW c \in Client, Take(c) PROVE TypeOK'
  BY <1>7 DEF Take, Invalidated
<1>8. ASSUME NEW c \in Client, TakeNothing(c) PROVE TypeOK'
  BY <1>8, TamperRange DEF TakeNothing
<1>9. ASSUME NEW c \in Client, CheckAge(c) PROVE TypeOK'
  BY <1>9, TamperRange DEF CheckAge
<1>10. ASSUME NEW c \in Client, Refuse(c) PROVE TypeOK'
  BY <1>10, TamperRange DEF Refuse
<1>11. ASSUME NEW c \in Client, CryptoFails(c) PROVE TypeOK'
  BY <1>11 DEF CryptoFails
<1>12. ASSUME NEW c \in Client, Accept(c) PROVE TypeOK'
  BY <1>12 DEF Accept
<1>13. ASSUME NEW c \in Client, EnterPermissiveWindow(c) PROVE TypeOK'
  BY <1>13 DEF EnterPermissiveWindow, WindowEnd
<1>14. ASSUME NEW c \in Client, Return(c) PROVE TypeOK'
  BY <1>14 DEF Return
<1>15. CASE Tick
  BY <1>15 DEF Tick
<1>16. CASE RegistryUp
  BY <1>16 DEF RegistryUp
<1>17. CASE UNCHANGED vars
  BY <1>17 DEF vars
<1>18. QED
  BY <1>1, <1>2, <1>3, <1>4, <1>5, <1>6, <1>7, <1>8, <1>9, <1>10, <1>11, <1>12, <1>13,
     <1>14, <1>15, <1>16, <1>17 DEF Next, ClientStep, ReloadStep, UnlockStep
\* The nonces stay apart: a new one differs from all that anybody still holds, and
\* whoever takes the pending one invalidates it.
LEMMA NonceStep ==
    ASSUME TypeOK, NonceInv, [Next]_vars
    PROVE  NonceInv'
<1> USE ChannelAssumption DEF TypeOK, NonceInv, Goto, InUnlock, nonceVars, localVars
<1>1. ASSUME NEW c \in Client, GetNonce(c) \/ SampleRetry(c) PROVE NonceInv'
  BY <1>1 DEF GetNonce, SampleRetry
<1>2. ASSUME NEW c \in Client, CompareExchange(c) PROVE NonceInv'
  BY <1>2 DEF CompareExchange
<1>3. ASSUME NEW c \in Client, LoadVerifier(c) \/ RandomFails(c) PROVE NonceInv'
  BY <1>3 DEF LoadVerifier, RandomFails
<1>4. ASSUME NEW c \in Client, Random(c) PROVE NonceInv'
  <2>1. PICK n \in Nonce \ InUse : nonce' = [nonce EXCEPT ![c] = n]
    BY <1>4 DEF Random
  <2>2. /\ n # NoNonce /\ n # gPendingNonce
        /\ \A d \in Client : n # nonce[d] /\ n # taken[d]
    BY <2>1 DEF InUse
  <2>3. QED
    BY <1>4, <2>1, <2>2 DEF Random
<1>5. ASSUME NEW c \in Client, Publish(c) PROVE NonceInv'
  BY <1>5 DEF Publish
<1>6. ASSUME NEW c \in Client, Take(c) PROVE NonceInv'
  BY <1>6 DEF Take, Invalidated
<1>7. ASSUME NEW c \in Client, TakeNothing(c) \/ CheckAge(c) \/ Refuse(c) \/ CryptoFails(c)
      PROVE  NonceInv'
  BY <1>7 DEF TakeNothing, CheckAge, Refuse, CryptoFails
<1>8. ASSUME NEW c \in Client, Accept(c) \/ EnterPermissiveWindow(c) PROVE NonceInv'
  BY <1>8 DEF Accept, EnterPermissiveWindow
<1>9. ASSUME NEW c \in Client, Return(c) PROVE NonceInv'
  BY <1>9 DEF Return, Answered
<1>10. CASE Tick \/ RegistryUp \/ UNCHANGED vars
  BY <1>10 DEF Tick, RegistryUp, vars
<1>11. QED
  BY <1>1, <1>2, <1>3, <1>4, <1>5, <1>6, <1>7, <1>8, <1>9, <1>10
     DEF Next, ClientStep, ReloadStep, UnlockStep

\* Who replaces or consumes the pending nonce marks the exchanges he upsets.
LEMMA OvertakenStep ==
    ASSUME TypeOK, NonceInv, OvertakenInv, [Next]_vars
    PROVE  OvertakenInv'
<1> USE ChannelAssumption DEF TypeOK, NonceInv, OvertakenInv, Goto, InUnlock, Answered,
        nonceVars, localVars, histVars
<1>1. ASSUME NEW c \in Client, GetNonce(c) \/ SampleRetry(c) PROVE OvertakenInv'
  BY <1>1 DEF GetNonce, SampleRetry
<1>2. ASSUME NEW c \in Client, CompareExchange(c) PROVE OvertakenInv'
  BY <1>2 DEF CompareExchange
<1>3. ASSUME NEW c \in Client, LoadVerifier(c) \/ RandomFails(c) PROVE OvertakenInv'
  BY <1>3 DEF LoadVerifier, RandomFails
<1>4. ASSUME NEW c \in Client, Random(c) PROVE OvertakenInv'
  BY <1>4 DEF Random
<1>5. ASSUME NEW c \in Client, Publish(c) PROVE OvertakenInv'
  BY <1>5 DEF Publish, Overtake
<1>6. ASSUME NEW c \in Client, Take(c) PROVE OvertakenInv'
  BY <1>6 DEF Take, Invalidated
<1>7. ASSUME NEW c \in Client, TakeNothing(c) \/ CheckAge(c) \/ CryptoFails(c)
      PROVE  OvertakenInv'
  BY <1>7 DEF TakeNothing, CheckAge, CryptoFails
<1>8. ASSUME NEW c \in Client, Refuse(c) PROVE OvertakenInv'
  BY <1>8 DEF Refuse
<1>9. ASSUME NEW c \in Client, Accept(c) \/ EnterPermissiveWindow(c) PROVE OvertakenInv'
  BY <1>9 DEF Accept, EnterPermissiveWindow, ResponseMatches
<1>10. ASSUME NEW c \in Client, Return(c) PROVE OvertakenInv'
  BY <1>10 DEF Return
<1>11. CASE Tick \/ RegistryUp \/ UNCHANGED vars
  BY <1>11 DEF Tick, RegistryUp, vars
<1>12. QED
  BY <1>1, <1>2, <1>3, <1>4, <1>5, <1>6, <1>7, <1>8, <1>9, <1>10, <1>11
     DEF Next, ClientStep, ReloadStep, UnlockStep
\* A client that was not overtaken finds its own nonce, issued when it sampled the
\* time.
LEMMA ReasonStep ==
    ASSUME TypeOK, NonceInv, OvertakenInv, RefusalHasReason, [Next]_vars
    PROVE  RefusalHasReason'
<1> USE ChannelAssumption DEF TypeOK, NonceInv, OvertakenInv, RefusalHasReason, Goto, InUnlock,
        Answered, nonceVars, localVars, histVars
<1>1. ASSUME NEW c \in Client, GetNonce(c) \/ SampleRetry(c) \/ RandomFails(c) \/ Random(c)
      PROVE  RefusalHasReason'
  BY <1>1 DEF GetNonce, SampleRetry, RandomFails, Random
<1>2. ASSUME NEW c \in Client, CompareExchange(c) \/ LoadVerifier(c) PROVE RefusalHasReason'
  BY <1>2 DEF CompareExchange, LoadVerifier
<1>3. ASSUME NEW c \in Client, Publish(c) PROVE RefusalHasReason'
  BY <1>3 DEF Publish, Overtake
<1>4. ASSUME NEW c \in Client, Take(c) PROVE RefusalHasReason'
  BY <1>4 DEF Take
<1>5. ASSUME NEW c \in Client, TakeNothing(c) PROVE RefusalHasReason'
  BY <1>5 DEF TakeNothing
<1>6. ASSUME NEW c \in Client, CheckAge(c) PROVE RefusalHasReason'
  BY <1>6 DEF CheckAge, Fresh
<1>7. ASSUME NEW c \in Client, Refuse(c) PROVE RefusalHasReason'
  BY <1>7 DEF Refuse, ResponseMatches
<1>8. ASSUME NEW c \in Client, CryptoFails(c) PROVE RefusalHasReason'
  BY <1>8 DEF CryptoFails
<1>9. ASSUME NEW c \in Client, Accept(c) \/ EnterPermissiveWindow(c) PROVE RefusalHasReason'
  BY <1>9 DEF Accept, EnterPermissiveWindow
<1>10. ASSUME NEW c \in Client, Return(c) PROVE RefusalHasReason'
  BY <1>10 DEF Return
<1>11. CASE Tick \/ RegistryUp \/ UNCHANGED vars
  BY <1>11 DEF Tick, RegistryUp, vars
<1>12. QED
  BY <1>1, <1>2, <1>3, <1>4, <1>5, <1>6, <1>7, <1>8, <1>9, <1>10, <1>11
     DEF Next, ClientStep, ReloadStep, UnlockStep

\* The stamp grows by at least RetryInterval with every thread that is elected, so
\* those in the load are spaced.
LEMMA LoadStep ==
    ASSUME TypeOK, LoadInv, LoadersSpaced, [Next]_vars
    PROVE  LoadInv' /\ LoadersSpaced'
<1> USE ChannelAssumption DEF TypeOK, LoadInv, LoadersSpaced, Goto, verifierVars, localVars
<1>1. ASSUME NEW c \in Client, GetNonce(c) \/ SampleRetry(c) PROVE LoadInv' /\ LoadersSpaced'
  BY <1>1 DEF GetNonce, SampleRetry, RetryDue
<1>2. ASSUME NEW c \in Client, CompareExchange(c) PROVE LoadInv' /\ LoadersSpaced'
  BY <1>2 DEF CompareExchange, StampUnmoved
<1>3. ASSUME NEW c \in Client, LoadVerifier(c) \/ RandomFails(c) \/ Random(c) \/ Publish(c)
      PROVE  LoadInv' /\ LoadersSpaced'
  BY <1>3 DEF LoadVerifier, RandomFails, Random, Publish
<1>4. ASSUME NEW c \in Client, Take(c) \/ TakeNothing(c) \/ CheckAge(c) \/ Refuse(c)
      PROVE  LoadInv' /\ LoadersSpaced'
  BY <1>4 DEF Take, TakeNothing, CheckAge, Refuse
<1>5. ASSUME NEW c \in Client, CryptoFails(c) \/ Accept(c) \/ EnterPermissiveWindow(c)
      PROVE  LoadInv' /\ LoadersSpaced'
  BY <1>5 DEF CryptoFails, Accept, EnterPermissiveWindow
<1>6. ASSUME NEW c \in Client, Return(c) PROVE LoadInv' /\ LoadersSpaced'
  BY <1>6 DEF Return
<1>7. CASE Tick \/ RegistryUp \/ UNCHANGED vars
  BY <1>7 DEF Tick, RegistryUp, vars
<1>8. QED
  BY <1>1, <1>2, <1>3, <1>4, <1>5, <1>6, <1>7 DEF Next, ClientStep, ReloadStep, UnlockStep

\* IInv is an invariant of the specification.
LEMMA IInvInvariant == Spec => []IInv
<1>1. IInv /\ [Next]_vars => IInv'
  BY TypeStep, NonceStep, OvertakenStep, ReasonStep, LoadStep DEF IInv
<1>2. QED
  BY InitIInv, <1>1, PTL DEF Spec

-----------------------------------------------------------------------------
\* The driver's globals, the clients' locals and the histories keep their types.
THEOREM TypeCorrect == Spec => []TypeOK
<1>1. IInv => TypeOK
  BY DEF IInv
<1>2. QED
  BY IInvInvariant, <1>1, PTL

\* However many clients race for the one pending nonce, no nonce serves two UNLOCK
\* calls (lockguard.c 315-323).
THEOREM SingleUseTheorem == Spec => []NonceSingleUse
<1>1. IInv => NonceSingleUse
  BY DEF IInv, NonceInv, NonceSingleUse
<1>2. QED
  BY IInvInvariant, <1>1, PTL

\* Who opens the window was alone with his nonce from GET_NONCE to UNLOCK
\* (293-295, 316-321, 353).
THEOREM UndisturbedTheorem == Spec => []SuccessIsUndisturbed
<1>1. IInv => SuccessIsUndisturbed
  BY DEF IInv, OvertakenInv, SuccessIsUndisturbed
<1>2. QED
  BY IInvInvariant, <1>1, PTL

\* Who does everything right is refused for one of the reasons the code has
\* (303-363).
THEOREM ReasonTheorem == Spec => []RefusalHasReason
<1>1. IInv => RefusalHasReason
  BY DEF IInv
<1>2. QED
  BY IInvInvariant, <1>1, PTL

\* The compare-exchange spaces the loads whatever the number of racing calls
\* (44-58).
THEOREM SpacedTheorem == Spec => []LoadersSpaced
<1>1. IInv => LoadersSpaced
  BY DEF IInv
<1>2. QED
  BY IInvInvariant, <1>1, PTL

-----------------------------------------------------------------------------
\* Refinement: the shared buffer and the handlers' sections implement the one-shot
\* challenges of module Challenge.

\* No sample is from the future, and an UNLOCK works on a nonce.
SpentInv ==
    \A c \in Client :
        /\ now[c] <= clock
        /\ pc[c] \in {"publish", "commit"} => 1 <= now[c]
        /\ pc[c] \in InUnlock => taken[c] # NoNonce
        /\ pc[c] = "commit" => nonce[c] # NoNonce

\* Every step preserves that.
LEMMA SpentStep ==
    ASSUME TypeOK, NonceInv, SpentInv, [Next]_vars
    PROVE  SpentInv'
<1> USE DEF TypeOK, SpentInv, Goto, InUnlock, nonceVars, localVars
<1>1. ASSUME NEW c \in Client, GetNonce(c) \/ SampleRetry(c) PROVE SpentInv'
  BY <1>1 DEF GetNonce, SampleRetry
<1>2. ASSUME NEW c \in Client, CompareExchange(c) \/ LoadVerifier(c) \/ RandomFails(c) \/ Publish(c)
      PROVE  SpentInv'
  BY <1>2 DEF CompareExchange, LoadVerifier, RandomFails, Publish
<1>3. ASSUME NEW c \in Client, Random(c) PROVE SpentInv'
  BY <1>3 DEF Random
<1>4. ASSUME NEW c \in Client, Take(c) PROVE SpentInv'
  BY <1>4 DEF Take, NonceInv
<1>5. ASSUME NEW c \in Client, TakeNothing(c) \/ CheckAge(c) \/ Refuse(c) \/ CryptoFails(c)
      PROVE  SpentInv'
  BY <1>5 DEF TakeNothing, CheckAge, Refuse, CryptoFails
<1>6. ASSUME NEW c \in Client, Accept(c) PROVE SpentInv'
  BY <1>6 DEF Accept, ResponseMatches
<1>7. ASSUME NEW c \in Client, EnterPermissiveWindow(c) PROVE SpentInv'
  BY <1>7 DEF EnterPermissiveWindow
<1>8. ASSUME NEW c \in Client, Return(c) PROVE SpentInv'
  BY <1>8 DEF Return, Answered
<1>9. CASE Tick \/ RegistryUp \/ UNCHANGED vars
  BY <1>9 DEF Tick, RegistryUp, vars
<1>10. QED
  BY <1>1, <1>2, <1>3, <1>4, <1>5, <1>6, <1>7, <1>8, <1>9
     DEF Next, ClientStep, ReloadStep, UnlockStep

LEMMA SpentInvariant == Spec => []SpentInv
<1>1. Init => SpentInv
  <2> SUFFICES ASSUME Init, NEW c \in Client
               PROVE  now[c] <= clock /\ pc[c] = "idle"
    BY DEF SpentInv, InUnlock
  <2>1. QED
    BY DEF Init
<1>2. IInv /\ SpentInv /\ [Next]_vars => SpentInv'
  BY SpentStep DEF IInv
<1>3. QED
  BY <1>1, <1>2, IInvInvariant, PTL DEF Spec

\* A step of one client that leaves the histories of the others alone leaves their
\* exchanges alone.
Undisturbed(c) ==
    \A d \in Client \ {c} :
        pc'[d] = pc[d] /\ now'[d] = now[d] /\ nonce'[d] = nonce[d] /\ overtaken'[d] = overtaken[d]

LEMMA OthersKeep ==
    ASSUME NEW c \in Client, Undisturbed(c)
    PROVE  \A d \in Client \ {c} : Exchange(d)' = Exchange(d) /\ Issued(d)' = Issued(d)
BY DEF Undisturbed, Exchange, Issued

LEMMA DropStep ==
    ASSUME NEW c \in Client, Undisturbed(c), Exchange(c)' = "none",
           UNCHANGED <<clock, gPermissiveExpires>>
    PROVE  ChallengeSpec!Drop(c)
<1>1. \A d \in Client \ {c} : Exchange(d)' = Exchange(d) /\ Issued(d)' = Issued(d)
  BY OthersKeep
<1>2. Issued(c)' = 0
  BY DEF Issued
<1>3. QED
  BY <1>1, <1>2 DEF ChallengeSpec!Drop

LEMMA KeepStep ==
    ASSUME NEW c \in Client, Undisturbed(c), Exchange(c)' = Exchange(c), Issued(c)' = Issued(c),
           UNCHANGED <<clock, gPermissiveExpires>>
    PROVE  UNCHANGED ChallengeSpec!challengeVars
<1>1. \A d \in Client : Exchange(d)' = Exchange(d) /\ Issued(d)' = Issued(d)
  BY OthersKeep
<1>2. QED
  BY <1>1 DEF ChallengeSpec!challengeVars

\* What becomes of a client's challenge is what the handler does to it.
LEMMA ChallengeStep ==
    ASSUME IInv, SpentInv, [Next]_vars
    PROVE  [ChallengeSpec!Next]_(ChallengeSpec!challengeVars)
<1> USE DEF Goto
<1> DEFINE Goal == [ChallengeSpec!Next]_(ChallengeSpec!challengeVars)
<1>1. ASSUME NEW c \in Client, ChallengeSpec!Drop(c) PROVE Goal
  BY <1>1 DEF ChallengeSpec!Next
<1>2. ASSUME NEW c \in Client, GetNonce(c) \/ Return(c) PROVE Goal
  <2>1. Undisturbed(c) /\ nonce'[c] = NoNonce /\ UNCHANGED <<clock, gPermissiveExpires>>
    BY <1>2 DEF IInv, TypeOK, GetNonce, Return, Undisturbed
  <2>2. QED
    BY <1>1, <2>1, DropStep DEF Exchange
<1>3. ASSUME NEW c \in Client,
             SampleRetry(c) \/ CompareExchange(c) \/ LoadVerifier(c) \/ RandomFails(c)
               \/ Random(c)
      PROVE  Goal
  <2>1. /\ Undisturbed(c) /\ UNCHANGED <<clock, gPermissiveExpires>>
        /\ pc[c] \in {"sample", "cas", "load", "random"}
        /\ pc'[c] \in {"cas", "load", "random", "failed", "publish"}
    BY <1>3 DEF IInv, TypeOK, SampleRetry, CompareExchange, LoadVerifier, RandomFails, Random,
         Undisturbed, localVars, histVars
  <2>2. Exchange(c) = "none" /\ Exchange(c)' = "none"
    BY <2>1 DEF Exchange
  <2>3. QED
    BY <2>1, <2>2, KeepStep DEF Issued
<1>4. ASSUME NEW c \in Client, Publish(c) PROVE Goal
  <2>1. /\ pc[c] = "publish" /\ pc'[c] = "have" /\ nonce[c] # NoNonce /\ nonce' = nonce
        /\ now' = now /\ UNCHANGED <<clock, gPermissiveExpires>>
        /\ \A d \in Client : overtaken'[d] = IF d = c THEN FALSE
                                             ELSE overtaken[d] \/ pc[d] = "have"
        /\ \A d \in Client \ {c} : pc'[d] = pc[d]
    BY <1>4 DEF IInv, TypeOK, NonceInv, Publish, Overtake, localVars
  <2>2. now[c] \in 1 .. clock
    BY <2>1 DEF IInv, TypeOK, SpentInv
  <2>3. Exchange(c) = "none" /\ Exchange(c)' = "live" /\ Issued(c)' = now[c]
    BY <2>1 DEF Exchange, Issued
  <2>4. \A d \in Client \ {c} :
           Exchange(d)' = IF Exchange(d) = "live" THEN "none" ELSE Exchange(d)
    BY <2>1 DEF Exchange
  <2>5. \A d \in Client \ {c} : Issued(d)' = IF Exchange(d) = "live" THEN 0 ELSE Issued(d)
    BY <2>1, <2>4 DEF Issued
  <2>6. ChallengeSpec!Displace(c, "live") /\ ChallengeSpec!Stamp(c, now[c])
    BY <2>3, <2>4, <2>5 DEF ChallengeSpec!Displace, ChallengeSpec!Stamp
  <2>7. ChallengeSpec!Issue(c)
    BY <2>1, <2>2, <2>3, <2>6 DEF ChallengeSpec!Issue
  <2>8. QED
    BY <2>7 DEF ChallengeSpec!Next
<1>5. ASSUME NEW c \in Client, Take(c) PROVE Goal
  <2>1. /\ pc[c] \in {"idle", "have"} /\ pc'[c] = "age" /\ nonce' = nonce
        /\ now' = now /\ UNCHANGED <<clock, gPermissiveExpires>>
        /\ \A d \in Client : overtaken'[d] = (overtaken[d] \/ (d # c /\ pc[d] = "have"))
        /\ \A d \in Client \ {c} : pc'[d] = pc[d]
    BY <1>5 DEF IInv, TypeOK, Take
  <2>2. pc[c] = "idle" => nonce[c] = NoNonce
    BY DEF IInv, NonceInv
  <2>3. /\ Exchange(c) \in {"none", "live"}
        /\ Exchange(c)' = IF Exchange(c) = "live" THEN "spent" ELSE "none"
        /\ Issued(c)' = Issued(c)
    BY <2>1, <2>2 DEF Exchange, Issued
  <2>4. \A d \in Client \ {c} :
           Exchange(d)' = IF Exchange(d) = "live" THEN "none" ELSE Exchange(d)
    BY <2>1 DEF Exchange
  <2>5. \A d \in Client \ {c} : Issued(d)' = IF Exchange(d) = "live" THEN 0 ELSE Issued(d)
    BY <2>1, <2>4 DEF Issued
  <2>6. ChallengeSpec!Spend(c)
    BY <2>1, <2>3, <2>4, <2>5
       DEF ChallengeSpec!Spend, ChallengeSpec!Displace, ChallengeSpec!Stamp
  <2>7. QED
    BY <2>6 DEF ChallengeSpec!Next
<1>6. ASSUME NEW c \in Client, TakeNothing(c) \/ Refuse(c) \/ CryptoFails(c) PROVE Goal
  <2>1. /\ Undisturbed(c) /\ pc'[c] \in {"refused", "failed"}
        /\ UNCHANGED <<clock, gPermissiveExpires>>
    BY <1>6 DEF IInv, TypeOK, TakeNothing, Refuse, CryptoFails, Undisturbed, localVars, histVars
  <2>2. QED
    BY <1>1, <2>1, DropStep DEF Exchange
<1>7. ASSUME NEW c \in Client, CheckAge(c) PROVE Goal
  <2>1. /\ Undisturbed(c) /\ pc[c] = "age" /\ UNCHANGED <<clock, gPermissiveExpires>>
        /\ UNCHANGED <<now, nonce, overtaken>>
        /\ \/ pc'[c] = "timedout"
           \/ pc'[c] = "verify" /\ clock - issuedAt[c] <= TTL
    BY <1>7 DEF IInv, TypeOK, CheckAge, Fresh, Undisturbed, localVars, histVars
  <2>2. CASE pc'[c] = "timedout"
    BY <1>1, <2>1, <2>2, DropStep DEF Exchange
  <2>3. CASE pc'[c] = "verify" /\ Exchange(c) = "spent"
    <3>1. clock <= Issued(c) + TTL
      <4>1. nonce[c] # NoNonce /\ ~overtaken[c] /\ Issued(c) = now[c]
        BY <2>3 DEF Exchange, Issued
      <4>2. issuedAt[c] = now[c]
        BY <2>1, <4>1 DEF IInv, OvertakenInv
      <4>3. QED
        BY <2>1, <2>3, <4>1, <4>2, ChannelAssumption DEF IInv, TypeOK
    <3>2. Exchange(c)' = "fresh" /\ Issued(c)' = 0
      BY <2>1, <2>3 DEF Exchange, Issued
    <3>3. \A d \in Client \ {c} : Exchange(d)' = Exchange(d) /\ Issued(d)' = Issued(d)
      BY <2>1, OthersKeep
    <3>4. ChallengeSpec!Pass(c)
      BY <2>1, <2>3, <3>1, <3>2, <3>3 DEF ChallengeSpec!Pass
    <3>5. QED
      BY <3>4 DEF ChallengeSpec!Next
  <2>4. CASE pc'[c] = "verify" /\ Exchange(c) # "spent"
    <3>1. Exchange(c) = "none" /\ Exchange(c)' = "none"
      BY <2>1, <2>4 DEF Exchange
    <3>2. QED
      BY <2>1, <3>1, KeepStep DEF Issued
  <2>5. QED
    BY <2>1, <2>2, <2>3, <2>4
<1>8. ASSUME NEW c \in Client, Accept(c) PROVE Goal
  <2>1. /\ Undisturbed(c) /\ pc[c] = "verify" /\ pc'[c] = "commit"
        /\ UNCHANGED <<clock, gPermissiveExpires, nonce, overtaken>>
    BY <1>8 DEF IInv, TypeOK, Accept, Undisturbed, histVars
  <2>2. Exchange(c)' = Exchange(c) /\ Exchange(c) \in {"none", "fresh"}
    BY <2>1 DEF Exchange
  <2>3. QED
    BY <2>1, <2>2, KeepStep DEF Issued
<1>9. ASSUME NEW c \in Client, EnterPermissiveWindow(c) PROVE Goal
  <2>1. /\ Undisturbed(c) /\ pc[c] = "commit" /\ pc'[c] = "opened"
        /\ UNCHANGED <<clock, nonce, overtaken>>
        /\ gPermissiveExpires' = now[c] + Window
    BY <1>9 DEF IInv, TypeOK, EnterPermissiveWindow, WindowEnd, Undisturbed, localVars, histVars
  <2>2. nonce[c] # NoNonce /\ ~overtaken[c]
    BY <2>1 DEF IInv, OvertakenInv, SpentInv
  <2>3. Exchange(c) = "fresh" /\ Exchange(c)' = "won" /\ Issued(c) = 0 /\ Issued(c)' = 0
    BY <2>1, <2>2 DEF Exchange, Issued
  <2>4. \A d \in Client \ {c} : Exchange(d)' = Exchange(d) /\ Issued(d)' = Issued(d)
    BY <2>1, OthersKeep
  <2>5. now[c] \in 1 .. clock
    BY <2>1 DEF IInv, TypeOK, SpentInv
  <2>6. ChallengeSpec!Open(c)
    BY <2>1, <2>3, <2>4, <2>5 DEF ChallengeSpec!Open
  <2>7. QED
    BY <2>6 DEF ChallengeSpec!Next
<1>10. CASE Tick \/ RegistryUp \/ UNCHANGED vars
  <2>1. /\ UNCHANGED <<gPermissiveExpires, pc, now, nonce, overtaken>>
        /\ clock' = clock \/ (clock < MaxTime /\ clock' = clock + 1)
    BY <1>10 DEF Tick, RegistryUp, vars, localVars, histVars
  <2>2. \A d \in Client : Exchange(d)' = Exchange(d) /\ Issued(d)' = Issued(d)
    BY <2>1 DEF Exchange, Issued
  <2>3. QED
    BY <2>1, <2>2
       DEF ChallengeSpec!challengeVars, ChallengeSpec!Next, ChallengeSpec!Tick
<1>11. QED
  BY <1>2, <1>3, <1>4, <1>5, <1>6, <1>7, <1>8, <1>9, <1>10
     DEF Next, ClientStep, ReloadStep, UnlockStep

\* Whatever any number of clients do to the one nonce they share, the window is opened
\* only for a client that answered its own challenge, once, in time and before anybody
\* else drew or spent one (lockguard.c 274-363).
THEOREM ChallengeTheorem == Spec => ImplementsChallenge
<1>1. Init => ChallengeSpec!Init
  BY DEF Init, ChallengeSpec!Init, Exchange, Issued
<1>2. QED
  BY <1>1, IInvInvariant, SpentInvariant, ChallengeStep, PTL
     DEF Spec, ImplementsChallenge, ChallengeSpec!Spec

\* At no time are there two exchanges that could still succeed (lockguard.c 293-295).
THEOREM OneLiveTheorem == Spec => [](ChallengeSpec!OneLive)
<1>1. IInv => ChallengeSpec!OneLive
  <2> SUFFICES ASSUME IInv, NEW c \in Client, NEW d \in Client,
                      Exchange(c) = "live", Exchange(d) = "live"
               PROVE  c = d
    BY DEF ChallengeSpec!OneLive
  <2>1. nonce[c] # NoNonce /\ gPendingNonce = nonce[c] /\ gPendingNonce = nonce[d]
    BY DEF Exchange, IInv, OvertakenInv
  <2>2. QED
    BY <2>1 DEF IInv, NonceInv
<1>2. QED
  BY <1>1, IInvInvariant, PTL
=============================================================================
