--------------------------- MODULE RecoveryChannel ---------------------------
(* The challenge/response exchange of driver/lockguard.c: GET_NONCE (lines   *)
(* 274-301, with the lazy reload of the verifier, 47-66) and UNLOCK (lines   *)
(* 303-363), called concurrently by any number of clients that share ONE     *)
(* pending nonce.  cli/main.go and scripts/Recover-Lockguard.ps1 are such    *)
(* clients; so is anything else that opens the device.                       *)
(*                                                                           *)
(* A nonce is an abstract value.  32 random bytes do not repeat; the finite  *)
(* pool is recycled, a value being drawn only when nobody refers to it.      *)
(* HMAC is abstract too: a response is right or wrong for a nonce.           *)
EXTENDS Naturals

CONSTANTS
    Client,         \* threads issuing IOCTLs
    Nonce,          \* pool of nonces
    NoNonce,        \* "none": the zeroed buffer, or a client without a nonce
    TTL,            \* LG_NONCE_TTL_SECONDS
    RetryInterval,  \* LG_VERIFIER_RETRY_INTERVAL_100NS
    Window,         \* LG_UNLOCK_WINDOW_SECONDS
    TamperModulus,  \* gTamperCount is a 32-bit counter, kept modulo this
    MaxTime         \* bound: the clock stops here

ASSUME ChannelAssumption ==
    /\ NoNonce \notin Nonce
    /\ TTL \in Nat
    /\ RetryInterval \in Nat \ {0}
    /\ Window \in Nat \ {0}
    /\ TamperModulus \in Nat \ {0, 1}
    /\ MaxTime \in Nat \ {0}

VARIABLES
    clock,
    \* driver globals
    gNonceValid, gPendingNonce, gNonceIssuedAt,
    gVerifierLoaded, gVerifierLastRetry,
    gPermissiveExpires, gTamperCount,
    \* the registry: can the recovery key be read yet?
    registryReady,
    \* per client: control point, local samples, nonce it was given, nonce its
    \* unlock took and when that one was issued
    pc, now, last, nonce, taken, issuedAt,
    \* history, per client: the pending nonce was touched by another client
    \* since this one got its nonce; this exchange had a reason to fail
    overtaken, excused

nonceVars    == <<gNonceValid, gPendingNonce, gNonceIssuedAt>>
verifierVars == <<gVerifierLoaded, gVerifierLastRetry, registryReady>>
localVars    == <<now, last, nonce, taken, issuedAt>>
histVars     == <<overtaken, excused>>
vars == <<clock, nonceVars, verifierVars, gPermissiveExpires, gTamperCount,
          pc, localVars, histVars>>

\* GET_NONCE: "sample", "cas", "load" in LgRecoveryTryReload; "random"; "publish".
\* "have": GET_NONCE returned, UNLOCK not sent.
\* UNLOCK: "age", "verify", "commit" (in LgEnterPermissiveWindow).
\* Answers: "opened", "refused", "timedout", "failed".
Answered == {"opened", "refused", "timedout", "failed"}
InUnlock == {"age", "verify", "commit"}
PC == {"idle", "sample", "cas", "load", "random", "publish", "have"} \cup InUnlock \cup Answered

TypeOK ==
    /\ clock \in 1 .. MaxTime
    /\ gNonceValid \in BOOLEAN
    /\ gPendingNonce \in Nonce \cup {NoNonce}
    /\ gNonceIssuedAt \in 0 .. MaxTime
    /\ gVerifierLoaded \in BOOLEAN
    /\ gVerifierLastRetry \in 0 .. MaxTime
    /\ registryReady \in BOOLEAN
    /\ gPermissiveExpires \in 0 .. MaxTime + Window
    /\ gTamperCount \in 0 .. TamperModulus - 1
    /\ pc \in [Client -> PC]
    /\ now \in [Client -> 0 .. MaxTime]
    /\ last \in [Client -> 0 .. MaxTime]
    /\ nonce \in [Client -> Nonce \cup {NoNonce}]
    /\ taken \in [Client -> Nonce \cup {NoNonce}]
    /\ issuedAt \in [Client -> 0 .. MaxTime]
    /\ overtaken \in [Client -> BOOLEAN]
    /\ excused \in [Client -> BOOLEAN]

\* DriverEntry has run: the boot-time load of the verifier worked or was
\* tolerated (lockguard.c 454-460).
Init ==
    /\ clock = 1
    /\ gNonceValid = FALSE
    /\ gPendingNonce = NoNonce
    /\ gNonceIssuedAt = 0
    /\ registryReady \in BOOLEAN
    /\ gVerifierLoaded = registryReady
    /\ gVerifierLastRetry = 0
    /\ gPermissiveExpires = 0
    /\ gTamperCount = 0
    /\ pc = [c \in Client |-> "idle"]
    /\ now = [c \in Client |-> 0]
    /\ last = [c \in Client |-> 0]
    /\ nonce = [c \in Client |-> NoNonce]
    /\ taken = [c \in Client |-> NoNonce]
    /\ issuedAt = [c \in Client |-> 0]
    /\ overtaken = [c \in Client |-> FALSE]
    /\ excused = [c \in Client |-> FALSE]

Goto(c, label) == pc' = [pc EXCEPT ![c] = label]

\* LgRecordTamperEvent.
RecordTamper == gTamperCount' = (gTamperCount + 1) % TamperModulus

\* Nonces that some buffer still holds.
InUse == {nonce[c] : c \in Client} \cup {taken[c] : c \in Client} \cup {gPendingNonce}

\* The exchanges of the other clients that a change of the pending nonce upsets.
Overtake(c) ==
    overtaken' = [d \in Client |->
                    IF d = c THEN FALSE ELSE overtaken[d] \/ pc[d] = "have"]

-----------------------------------------------------------------------------
\* GET_NONCE

\* Mutant: the interval is not looked at.
RetryAlways(t, stamp) == TRUE

\* Mutant: one attempt only.
RetryOnce(t, stamp) == stamp = 0

\* May a reload be tried at t after an attempt with that stamp?
RetryDue(t, stamp) == stamp = 0 \/ t - stamp >= RetryInterval

\* LgHandleGetNonce into LgRecoveryTryReload, the look at gVerifierLoaded.
GetNonce(c) ==
    /\ pc[c] \in {"idle", "have"}
    /\ Goto(c, IF gVerifierLoaded THEN "random" ELSE "sample")
    /\ nonce' = [nonce EXCEPT ![c] = NoNonce]
    /\ now' = [now EXCEPT ![c] = 0]
    /\ overtaken' = [overtaken EXCEPT ![c] = FALSE]
    /\ UNCHANGED <<clock, nonceVars, verifierVars, gPermissiveExpires,
                   gTamperCount, last, taken, issuedAt, excused>>

\* LgRecoveryTryReload, on to the compare-exchange.  Another thread may have loaded the
\* verifier meanwhile.  Sampling the time and reading the stamp is one step: an attempt
\* stamped in between makes the code return at once, here it makes the compare-exchange
\* fail.
SampleRetry(c) ==
    /\ pc[c] = "sample"
    /\ IF RetryDue(clock, gVerifierLastRetry)
       THEN /\ Goto(c, "cas")
            /\ now' = [now EXCEPT ![c] = clock]
            /\ last' = [last EXCEPT ![c] = gVerifierLastRetry]
       ELSE /\ Goto(c, "random")
            /\ UNCHANGED <<now, last>>
    /\ UNCHANGED <<clock, nonceVars, verifierVars, gPermissiveExpires,
                   gTamperCount, nonce, taken, issuedAt, histVars>>

\* Mutant: a plain store for InterlockedCompareExchange64.
StampFree(c) == TRUE

\* The compare-exchange finds the stamp this thread read.
StampUnmoved(c) == gVerifierLastRetry = last[c]

\* LgRecoveryTryReload, the compare-exchange that elects the loading thread.
CompareExchange(c) ==
    /\ pc[c] = "cas"
    /\ IF StampUnmoved(c)
       THEN gVerifierLastRetry' = now[c] /\ Goto(c, "load")
       ELSE UNCHANGED gVerifierLastRetry /\ Goto(c, "random")
    /\ UNCHANGED <<clock, nonceVars, gVerifierLoaded, registryReady,
                   gPermissiveExpires, gTamperCount, localVars, histVars>>

\* LgRecoveryLoadVerifier: three reads; the flag is set last, and only if all
\* three succeeded.
LoadVerifier(c) ==
    /\ pc[c] = "load"
    /\ gVerifierLoaded' = (gVerifierLoaded \/ registryReady)
    /\ Goto(c, "random")
    /\ UNCHANGED <<clock, nonceVars, gVerifierLastRetry, registryReady,
                   gPermissiveExpires, gTamperCount, localVars, histVars>>

\* LgGenerateRandom fails: the handler returns and no nonce is published.
RandomFails(c) ==
    /\ pc[c] = "random"
    /\ Goto(c, "failed")
    /\ UNCHANGED <<clock, nonceVars, verifierVars, gPermissiveExpires,
                   gTamperCount, localVars, histVars>>

\* LgGenerateRandom, and the sample of the time that becomes the issue time.
Random(c) ==
    /\ pc[c] = "random"
    /\ \E n \in Nonce \ InUse : nonce' = [nonce EXCEPT ![c] = n]
    /\ now' = [now EXCEPT ![c] = clock]
    /\ last' = [last EXCEPT ![c] = 0]
    /\ Goto(c, "publish")
    /\ UNCHANGED <<clock, nonceVars, verifierVars, gPermissiveExpires,
                   gTamperCount, taken, issuedAt, histVars>>

\* The critical section of LgHandleGetNonce: a pending nonce of another client
\* is overwritten.
Publish(c) ==
    /\ pc[c] = "publish"
    /\ gPendingNonce' = nonce[c]
    /\ gNonceValid' = TRUE
    /\ gNonceIssuedAt' = now[c]
    /\ Overtake(c)
    /\ Goto(c, "have")
    /\ UNCHANGED <<clock, verifierVars, gPermissiveExpires, gTamperCount,
                   localVars, excused>>

-----------------------------------------------------------------------------
\* UNLOCK

\* Mutant: the pending nonce survives its use.
NotInvalidated == gNonceValid

\* gNonceValid after a take: "single-use".
Invalidated == FALSE

\* The critical section of LgHandleUnlock when a nonce is pending.
Take(c) ==
    /\ pc[c] \in {"idle", "have"}
    /\ gNonceValid
    /\ taken' = [taken EXCEPT ![c] = gPendingNonce]
    /\ issuedAt' = [issuedAt EXCEPT ![c] = gNonceIssuedAt]
    /\ gNonceValid' = Invalidated
    /\ gPendingNonce' = IF Invalidated THEN gPendingNonce ELSE NoNonce
    /\ overtaken' = [d \in Client |->
                       overtaken[d] \/ (d # c /\ pc[d] = "have")]
    /\ Goto(c, "age")
    /\ UNCHANGED <<clock, gNonceIssuedAt, verifierVars, gPermissiveExpires,
                   gTamperCount, now, last, nonce, excused>>

\* LgHandleUnlock when no nonce is pending: "unlock without nonce".
TakeNothing(c) ==
    /\ pc[c] \in {"idle", "have"}
    /\ ~gNonceValid
    /\ RecordTamper
    /\ Goto(c, "refused")
    /\ UNCHANGED <<clock, nonceVars, verifierVars, gPermissiveExpires,
                   localVars, histVars>>

\* Mutant: >= for >.
FreshStrict(t, issued) == t - issued < TTL

\* Mutant: the age is not looked at.
FreshUnchecked(t, issued) == TRUE

\* The nonce issued at the given time has not outlived LG_NONCE_TTL_SECONDS.
Fresh(t, issued) == t - issued <= TTL

\* LgHandleUnlock, the age of the nonce taken.
CheckAge(c) ==
    /\ pc[c] = "age"
    /\ IF Fresh(clock, issuedAt[c])
       THEN Goto(c, "verify") /\ UNCHANGED gTamperCount
       ELSE Goto(c, "timedout") /\ RecordTamper
    /\ UNCHANGED <<clock, nonceVars, verifierVars, gPermissiveExpires,
                   localVars, histVars>>

\* Mutant: the response is not compared with the nonce that was taken.
ResponseUnchecked(c) == TRUE

\* The response, computed from the client's own nonce, answers the one taken.
ResponseMatches(c) == nonce[c] = taken[c]

\* LgRecoveryCheckKey returns an error (no verifier loaded, HMAC unavailable, or
\* a key that does not match), or the response is not the HMAC of the nonce
\* taken: "unlock with wrong key", "unlock challenge mismatch".
Refuse(c) ==
    /\ pc[c] = "verify"
    /\ \E keyRight, cryptoWorks \in BOOLEAN :
          /\ \/ ~gVerifierLoaded
             \/ ~keyRight
             \/ ~cryptoWorks
             \/ ~ResponseMatches(c)
          /\ excused' = [excused EXCEPT ![c] =
                           ~gVerifierLoaded \/ ~keyRight \/ ~cryptoWorks]
    /\ RecordTamper
    /\ Goto(c, "refused")
    /\ UNCHANGED <<clock, nonceVars, verifierVars, gPermissiveExpires,
                   localVars, overtaken>>

\* The key is right but the HMAC over the nonce cannot be computed: the status
\* is returned and nothing is counted (348-351).
CryptoFails(c) ==
    /\ pc[c] = "verify"
    /\ gVerifierLoaded
    /\ Goto(c, "failed")
    /\ UNCHANGED <<clock, nonceVars, verifierVars, gPermissiveExpires,
                   gTamperCount, localVars, histVars>>

\* Right key, right response: on into LgEnterPermissiveWindow, whose sample of
\* the time is the next thing to happen.
Accept(c) ==
    /\ pc[c] = "verify"
    /\ gVerifierLoaded
    /\ ResponseMatches(c)
    /\ now' = [now EXCEPT ![c] = clock]
    /\ Goto(c, "commit")
    /\ UNCHANGED <<clock, nonceVars, verifierVars, gPermissiveExpires,
                   gTamperCount, last, nonce, taken, issuedAt, histVars>>

\* Mutant: the window counted from one unit too late.
WindowEndLate(s) == s + Window + 1

WindowEnd(s) == s + Window

\* The critical section of LgEnterPermissiveWindow.  What checks do to the
\* deadline afterwards is module PermissiveWindow's subject.
EnterPermissiveWindow(c) ==
    /\ pc[c] = "commit"
    /\ gPermissiveExpires' = WindowEnd(now[c])
    /\ Goto(c, "opened")
    /\ UNCHANGED <<clock, nonceVars, verifierVars, gTamperCount, localVars, histVars>>

\* The client has its answer, or gave up between the two calls (external).
Return(c) ==
    /\ pc[c] \in Answered \cup {"have"}
    /\ Goto(c, "idle")
    /\ now' = [now EXCEPT ![c] = 0]
    /\ last' = [last EXCEPT ![c] = 0]
    /\ nonce' = [nonce EXCEPT ![c] = NoNonce]
    /\ taken' = [taken EXCEPT ![c] = NoNonce]
    /\ issuedAt' = [issuedAt EXCEPT ![c] = 0]
    /\ overtaken' = [overtaken EXCEPT ![c] = FALSE]
    /\ excused' = [excused EXCEPT ![c] = FALSE]
    /\ UNCHANGED <<clock, nonceVars, verifierVars, gPermissiveExpires, gTamperCount>>

-----------------------------------------------------------------------------

Tick ==
    /\ clock < MaxTime
    /\ clock' = clock + 1
    /\ UNCHANGED <<nonceVars, verifierVars, gPermissiveExpires, gTamperCount,
                   pc, localVars, histVars>>

\* The SYSTEM hive comes up (external): "registry not yet ready" (279-281).
RegistryUp ==
    /\ ~registryReady
    /\ registryReady' = TRUE
    /\ UNCHANGED <<clock, nonceVars, gVerifierLoaded, gVerifierLastRetry,
                   gPermissiveExpires, gTamperCount, pc, localVars, histVars>>

\* The rest of a GET_NONCE call that has started.
ReloadStep(c) ==
    \/ SampleRetry(c) \/ CompareExchange(c) \/ LoadVerifier(c)
    \/ RandomFails(c) \/ Random(c) \/ Publish(c)

\* The rest of an UNLOCK call that has started.
UnlockStep(c) ==
    CheckAge(c) \/ Refuse(c) \/ CryptoFails(c) \/ Accept(c) \/ EnterPermissiveWindow(c)

ClientStep(c) == GetNonce(c) \/ Take(c) \/ TakeNothing(c) \/ Return(c)

Next ==
    \/ Tick
    \/ RegistryUp
    \/ \E c \in Client : ClientStep(c) \/ ReloadStep(c) \/ UnlockStep(c)

Spec == Init /\ [][Next]_vars

\* The scheduler runs every handler to its end and time passes; some client
\* keeps asking for nonces whenever it is not inside a call.
Fairness ==
    /\ WF_vars(Tick)
    /\ \A c \in Client : WF_vars(ReloadStep(c)) /\ WF_vars(UnlockStep(c))
    /\ \A c \in Client : WF_vars(Return(c)) /\ SF_vars(GetNonce(c))

FairSpec == Spec /\ Fairness

-----------------------------------------------------------------------------
\* Properties.

\* One nonce admits at most one unlock attempt: no two UNLOCK calls work on the
\* same nonce, and the one being worked on is no longer pending (315-323).
NonceSingleUse ==
    \A c \in Client :
        pc[c] \in InUnlock =>
            /\ \A d \in Client \ {c} : pc[d] \in InUnlock => taken[d] # taken[c]
            /\ gNonceValid => gPendingNonce # taken[c]

\* Success means an undisturbed exchange: between the client's GET_NONCE and its
\* UNLOCK no other client replaced or consumed the nonce, although all share one
\* buffer (293-295, 316-321, 353).
SuccessIsUndisturbed ==
    \A c \in Client : pc[c] \in {"commit", "opened"} => ~overtaken[c]

\* What has become of the challenge a client was given, and when it was issued.
Exchange(c) ==
    IF nonce[c] = NoNonce \/ overtaken[c] THEN "none"
    ELSE CASE pc[c] = "have"                -> "live"
           [] pc[c] = "age"                 -> "spent"
           [] pc[c] \in {"verify", "commit"} -> "fresh"
           [] pc[c] = "opened"              -> "won"
           [] OTHER                         -> "none"

Issued(c) == IF Exchange(c) \in {"live", "spent"} THEN now[c] ELSE 0

\* The shared buffer and the handlers' separate sections implement one-shot challenges:
\* the window is opened only by a client that answered its own, once, in time and
\* before anybody else drew or spent one (274-363).
ChallengeSpec ==
    INSTANCE Challenge WITH
        deadline <- gPermissiveExpires,
        exchange <- [c \in Client |-> Exchange(c)],
        issued   <- [c \in Client |-> Issued(c)]
ImplementsChallenge == ChallengeSpec!Spec

\* The converse for a client that did everything right: it is refused only if
\* another client got between its two calls, the crypto provider failed, or the
\* verifier was not loaded; and timed out only if it was slow or overtaken.
RefusalHasReason ==
    \A c \in Client :
        nonce[c] # NoNonce =>
            /\ pc[c] = "refused" => overtaken[c] \/ excused[c]
            /\ pc[c] = "timedout" => overtaken[c] \/ clock > now[c] + TTL

\* The retry of the verifier load is rate-limited however many GET_NONCE calls
\* race: two threads in the load claimed it RetryInterval apart (44-46, 54-58).
LoadersSpaced ==
    \A c, d \in Client :
        (c # d /\ pc[c] = "load" /\ pc[d] = "load" /\ now[c] <= now[d])
        => now[d] >= now[c] + RetryInterval

\* "This keeps recovery from being permanently disabled by a transient
\* early-boot failure" (279-281): once the registry can be read, and while the
\* clock can still pass the retry interval, asking for nonces loads the verifier.
VerifierRecovers ==
    (registryReady /\ gVerifierLastRetry + RetryInterval <= MaxTime) ~> gVerifierLoaded
=============================================================================
