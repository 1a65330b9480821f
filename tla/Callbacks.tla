------------------------------ MODULE Callbacks ------------------------------
(* The driver's callbacks as users of the permissive window: the registry    *)
(* callback (regcb.c), process creation (procnotify.c), process handles      *)
(* (obcallback.c), the file system minifilter (minifilter.c) and the STATUS  *)
(* IOCTL (lockguard.c 373-387), each running on whatever thread made the     *)
(* request, interleaved inside LgIsPermissive (module PermissiveWindow).     *)
(*                                                                           *)
(* A request is abstracted to what the handlers branch on:                   *)
(*   via        the handler it reaches                                       *)
(*   mutating   it is of a kind the handler screens: set/delete/rename of a  *)
(*              key or value, create with write or delete access, dangerous  *)
(*              set-information, write, process creation (not exit), a       *)
(*              handle with a bit of PROC_DENIED_MASK                        *)
(*   named      its target could be identified: key name resolved, file name *)
(*              available, image name present, user handle to a process      *)
(*   target     its name: the path by which a key was opened, the file or    *)
(*              image name as the handler gets it; compared with the list of *)
(*              the handler (module NameMatch)                               *)
EXTENDS WindowHistory, NameMatch, FiniteSets

CONSTANTS
    Name,           \* names of keys, files and images
    Requests,       \* the requests that may arrive, a subset of Request below
    NoRequest,      \* "none"
    TamperModulus   \* gTamperCount is a 32-bit counter, kept modulo this

VARIABLES
    request,       \* the request each thread is handling
    answer,        \* what the handler decided: "none", "allow" or "deny"
    replyExpires,  \* PermissiveExpiresSystemTime of a STATUS reply
    gTamperCount

cbVars == <<histVars, request, answer, replyExpires, gTamperCount>>

Handlers == {"registry", "file", "process", "handle", "unload", "status"}

Request == [via : Handlers, mutating : BOOLEAN, named : BOOLEAN, target : Name]

ASSUME CallbacksAssumption ==
    /\ Name \subseteq Seq(Char)
    /\ Requests \subseteq Request
    /\ NoRequest \notin Request
    /\ TamperModulus \in Nat \ {0, 1}

TypeOKC ==
    /\ TypeOK
    /\ seen \in [Thread -> SUBSET BOOLEAN]
    /\ request \in [Thread -> Requests \cup {NoRequest}]
    /\ answer \in [Thread -> {"none", "allow", "deny"}]
    /\ replyExpires \in [Thread -> 0 .. MaxTime + Window]
    /\ gTamperCount \in 0 .. TamperModulus - 1

InitC ==
    /\ InitH
    /\ request = [t \in Thread |-> NoRequest]
    /\ answer = [t \in Thread |-> "none"]
    /\ replyExpires = [t \in Thread |-> 0]
    /\ gTamperCount = 0

-----------------------------------------------------------------------------
\* What each handler looks at before it asks LgIsPermissive.

\* The target is on the handler's list.
OnList(r) ==
    CASE r.via = "registry" -> LgKeyNameMatchesAny(LgResolveKeyName(r.target))
      [] r.via = "file"     -> LgPathMatches(r.target)
      [] r.via = "process"  -> LgIsBlocked(r.target)
      [] r.via = "handle"   -> LgPidIsProtected(r.target)
      [] OTHER              -> FALSE

\* The registry and file callbacks match the target first; the process and
\* handle callbacks ask about the window first.
ChecksWindow(r) ==
    CASE r.via \in {"registry", "file"} -> r.mutating /\ r.named /\ OnList(r)
      [] r.via = "process"              -> r.mutating /\ r.named
      [] r.via = "handle"               -> r.named
      [] OTHER                          -> TRUE

\* Mutant: PROC_DENIED_MASK is not looked at.
DeniesUnmasked(r) ==
    CASE r.via \in {"process", "handle"} -> OnList(r)
      [] r.via = "status"               -> FALSE
      [] OTHER                          -> TRUE

\* What a handler told FALSE still has to find before it denies.
Denies(r) ==
    CASE r.via = "process" -> OnList(r)
      [] r.via = "handle"  -> OnList(r) /\ r.mutating
      [] r.via = "status"  -> FALSE
      [] OTHER             -> TRUE

-----------------------------------------------------------------------------

\* A request its handler lets through without asking about the window.
PassUnscreened(t) ==
    /\ pc[t] = "idle" /\ answer[t] = "none"
    /\ \E r \in Requests :
          /\ ~ChecksWindow(r)
          /\ request' = [request EXCEPT ![t] = r]
    /\ answer' = [answer EXCEPT ![t] = "allow"]
    /\ UNCHANGED <<histVars, replyExpires, gTamperCount>>

\* A request its handler screens: the call of LgIsPermissive begins.
Screen(t) ==
    /\ answer[t] = "none"
    /\ \E r \in Requests :
          /\ ChecksWindow(r)
          /\ request' = [request EXCEPT ![t] = r]
    /\ FastCheck(t) /\ Observe
    /\ UNCHANGED <<answer, replyExpires, gTamperCount>>

\* The remaining steps of LgIsPermissive, and LgEnterPermissiveWindow when the
\* thread serves an UNLOCK (module RecoveryChannel).
WindowStep(t) ==
    /\ answer[t] = "none"
    /\ \/ EnterSample(t) \/ EnterFlag(t) \/ EnterDeadline(t)
       \/ CheckSample(t) \/ CheckGrant(t)
       \/ CheckClosed(t) \/ CloseFlag(t) \/ CloseDeadline(t)
    /\ Observe
    /\ UNCHANGED <<request, answer, replyExpires, gTamperCount>>

\* Told TRUE, every handler lets the request through.
Allow(t) ==
    /\ pc[t] = "active" \/ (pc[t] = "inactive" /\ ~Denies(request[t]))
    /\ answer[t] = "none"
    /\ request[t].via # "status"
    /\ answer' = [answer EXCEPT ![t] = "allow"]
    /\ UNCHANGED <<histVars, request, replyExpires, gTamperCount>>

\* LgRecordTamperEvent.
RecordTamper == gTamperCount' = (gTamperCount + 1) % TamperModulus

\* Told FALSE: LgRecordTamperEvent, and STATUS_ACCESS_DENIED, the denied bits
\* stripped off the handle, or STATUS_FLT_DO_NOT_DETACH.
Deny(t) ==
    /\ pc[t] = "inactive" /\ Denies(request[t])
    /\ answer[t] = "none"
    /\ RecordTamper
    /\ answer' = [answer EXCEPT ![t] = "deny"]
    /\ UNCHANGED <<histVars, request, replyExpires>>

\* LgHandleStatus reads the deadline after LgIsPermissive returned, unlocked.
ReplyStatus(t) ==
    /\ pc[t] \in {"active", "inactive"}
    /\ answer[t] = "none"
    /\ request[t].via = "status"
    /\ replyExpires' = [replyExpires EXCEPT ![t] = gPermissiveExpires]
    /\ answer' = [answer EXCEPT ![t] = "allow"]
    /\ UNCHANGED <<histVars, request, gTamperCount>>

\* The handler returns.
Complete(t) ==
    /\ answer[t] # "none"
    /\ CallerDone(t) \/ (pc[t] = "idle" /\ UNCHANGED vars)
    /\ Observe
    /\ request' = [request EXCEPT ![t] = NoRequest]
    /\ answer' = [answer EXCEPT ![t] = "none"]
    /\ replyExpires' = [replyExpires EXCEPT ![t] = 0]
    /\ UNCHANGED gTamperCount

TickC ==
    /\ Tick /\ Observe
    /\ UNCHANGED <<request, answer, replyExpires, gTamperCount>>

HandlerStep(t) ==
    \/ PassUnscreened(t) \/ Screen(t) \/ WindowStep(t)
    \/ Allow(t) \/ Deny(t) \/ ReplyStatus(t) \/ Complete(t)

NextC == TickC \/ \E t \in Thread : HandlerStep(t)

SpecC == InitC /\ [][NextC]_cbVars

-----------------------------------------------------------------------------
\* Properties.

\* A request for something the driver's lists name.  A key is named as the kernel
\* names the key object; so the prefixes below CurrentControlSet name nothing.
Guarded(r) ==
    \/ r.via = "unload"
    \/ /\ r.mutating /\ r.named
       /\ CASE r.via = "registry" -> IsProtectedKey(LgResolveKeyName(r.target))
            [] r.via = "file"     -> IsProtectedPath(r.target)
            [] r.via = "process"  -> IsBlockedImage(r.target)
            [] r.via = "handle"   -> IsProtectedImage(r.target)
            [] OTHER              -> FALSE

\* A request for something the comments say is stopped: also a key that only its path
\* brings below a listed one, and an image that fits a pattern.
Documented(r) ==
    \/ Guarded(r)
    \/ /\ r.mutating /\ r.named
       /\ CASE r.via = "registry" -> IsDocumentedKey(r.target)
            [] r.via = "process"  -> IsDocumentedImage(r.target)
            [] OTHER              -> FALSE

\* Although the handlers match and check in different orders, and the check is
\* spread over an unlocked read, an old sample and a lock: a guarded request is
\* let through only if the window was open at some moment of the call.
GuardedNeedsWindow ==
    \A t \in Thread :
        (answer[t] = "allow" /\ Guarded(request[t])) => TRUE \in seen[t]

\* And the driver denies nothing it does not announce: only documented requests, and
\* only if the window was closed at some moment of the call.
OnlyGuardedDenied ==
    \A t \in Thread :
        answer[t] = "deny" => Documented(request[t]) /\ FALSE \in seen[t]

\* What the comments claim of everything they name (regcb.c 4-12, procnotify.c 4-6, 13).
DocumentedNeedsWindow ==
    \A t \in Thread :
        (answer[t] = "allow" /\ Documented(request[t])) => TRUE \in seen[t]

\* A STATUS reply pairs the flag with a deadline read later and without the
\* lock (380-381).  As long as the reply is assembled within the lease it never
\* says "permissive" with a deadline that has already been reset or has passed.
StatusCoherent ==
    \A t \in Thread :
        (answer[t] = "allow" /\ request[t].via = "status" /\ Leasing(t))
        => clock < replyExpires[t]
=============================================================================
