---------------------------- MODULE CallbacksProofs ----------------------------
(* Proofs about Callbacks for any number of threads, any lists and requests    *)
(* and all times that satisfy the assumptions: first what the comparisons of   *)
(* names find (module NameMatch), then the handlers, on top of the window's    *)
(* invariant (PermissiveWindowProofs).                                         *)
EXTENDS Callbacks, PermissiveWindowProofs, SequenceTheorems, WellFoundedInduction

-----------------------------------------------------------------------------
\* The comparisons of names, for every list and every name.

\* A stretch of a name equals n if it does character by character.
LEMMA PartEqual ==
    ASSUME NEW name \in Seq(Char), NEW n \in Seq(Char), NEW off \in Nat,
           off + Len(n) <= Len(name)
    PROVE  Part(name, off, Len(n)) = n <=> OccursAt(n, name, off)
<1> DEFINE p == Part(name, off, Len(n))
<1>1. Len(name) \in Nat /\ Len(n) \in Nat
  BY LenProperties
<1>2. \A i \in off + 1 .. off + Len(n) : name[i] \in Char
  BY <1>1, ElementOfSeq
<1>3. /\ p \in Seq(Char)
      /\ Len(p) = Len(n)
      /\ \A i \in 1 .. Len(n) : p[i] = name[off + i]
  <2>1. /\ p \in Seq(Char)
        /\ Len(p) = IF off + 1 <= off + Len(n) THEN off + Len(n) - (off + 1) + 1 ELSE 0
        /\ \A i \in 1 .. off + Len(n) - (off + 1) + 1 : p[i] = name[off + 1 + i - 1]
    BY <1>1, <1>2, SubSeqProperties, off + 1 \in Int, off + Len(n) \in Int DEF Part
  <2>2. \A i \in 1 .. Len(n) : off + 1 + i - 1 = off + i
    BY <1>1
  <2>3. off + Len(n) - (off + 1) + 1 = Len(n)
    BY <1>1
  <2>4. QED
    BY <1>1, <2>1, <2>2, <2>3
<1>4. ASSUME \A k \in 1 .. Len(n) : name[off + k] = n[k] PROVE p = n
  <2>1. \A i \in 1 .. Len(p) : p[i] = n[i]
    BY <1>3, <1>4
  <2>2. QED
    BY <1>3, <2>1, SeqEqual
<1>5. ASSUME p = n PROVE \A k \in 1 .. Len(n) : name[off + k] = n[k]
  BY <1>3, <1>5
<1>6. QED
  BY <1>4, <1>5 DEF OccursAt

\* The registry callback recognises exactly the keys at or below a protected one,
\* and those whose names only continue it (regcb.c 35-53).
THEOREM KeyTheorem ==
    ASSUME NEW name \in Seq(Char)
    PROVE  LgKeyNameMatchesAny(name) <=> IsProtectedKey(name)
<1>1. ASSUME NEW p \in gProtectedPrefixes
      PROVE  (Len(name) >= Len(p) /\ Part(name, 0, Len(p)) = p) <=> OccursAt(p, name, 0)
  <2>1. p \in Seq(Char) /\ Len(p) \in Nat /\ Len(name) \in Nat
    BY NameMatchAssumption, LenProperties
  <2>2. CASE 0 + Len(p) <= Len(name)
    BY <2>1, <2>2, PartEqual
  <2>3. CASE ~(0 + Len(p) <= Len(name))
    BY <2>1, <2>3 DEF OccursAt
  <2>4. QED
    BY <2>2, <2>3
<1>2. QED
  BY <1>1 DEF LgKeyNameMatchesAny, IsProtectedKey

\* The name of a key object is a name.
LEMMA ResolveType ==
    ASSUME NEW path \in Seq(Char)
    PROVE  LgResolveKeyName(path) \in Seq(Char)
<1>1. CASE ~LeadsThrough(path, CurrentControlSet)
  BY <1>1 DEF LgResolveKeyName
<1>2. CASE LeadsThrough(path, CurrentControlSet)
  <2> DEFINE a == Len(CurrentControlSet)
             b == Len(path) - Len(CurrentControlSet)
  <2>1. a \in Nat /\ b \in Nat /\ a + b = Len(path) /\ Len(path) \in Nat
    BY <1>2, NameMatchAssumption, LenProperties DEF LeadsThrough
  <2>2. \A i \in a + 1 .. a + b : path[i] \in Char
    BY <2>1, ElementOfSeq
  <2>3. Part(path, a, b) \in Seq(Char)
    BY <2>1, <2>2, SubSeqProperties, a + 1 \in Int, a + b \in Int DEF Part
  <2>4. ControlSet \o Part(path, a, b) \in Seq(Char)
    BY <2>3, NameMatchAssumption, ConcatProperties
  <2>5. QED
    BY <1>2, <2>4 DEF LgResolveKeyName
<1>3. QED
  BY <1>1, <1>2

\* The minifilter recognises exactly the paths that a protected stretch occurs in,
\* its last possible place included (minifilter.c 26-63).
THEOREM PathTheorem ==
    ASSUME NEW name \in Seq(Char)
    PROVE  LgPathMatches(name) <=> IsProtectedPath(name)
<1>1. ASSUME NEW n \in gProtectedSuffixes
      PROVE  (/\ Len(name) >= Len(n)
              /\ \E off \in Starts(name, n) : Part(name, off, Len(n)) = n)
             <=> \E off \in 0 .. Len(name) : OccursAt(n, name, off)
  <2>1. n \in Seq(Char) /\ Len(n) \in Nat /\ Len(name) \in Nat
    BY NameMatchAssumption, LenProperties
  <2>2. \A off \in Nat : off + Len(n) <= Len(name)
           => (Part(name, off, Len(n)) = n <=> OccursAt(n, name, off))
    BY <2>1, PartEqual
  <2>3. \A off \in Nat : OccursAt(n, name, off) => off + Len(n) <= Len(name)
    BY DEF OccursAt
  <2>4. \A off : off \in Starts(name, n) <=> off \in Nat /\ off + Len(n) <= Len(name)
    BY <2>1 DEF Starts
  <2>5. QED
    BY <2>1, <2>2, <2>3, <2>4
<1>2. QED
  BY <1>1 DEF LgPathMatches, IsProtectedPath

\* The walk back from the end of a path stops at one place.
LEMMA BaseStartProperties ==
    ASSUME NEW path \in Seq(Char), NEW separators
    PROVE  LET b == BaseStart(path, separators)
           IN  /\ b \in 0 .. Len(path)
               /\ b = 0 \/ path[b] \in separators
               /\ \A j \in b + 1 .. Len(path) : path[j] \notin separators
<1> DEFINE Stop(i) == i = 0 \/ path[i] \in separators
           Rest == {k \in Nat : k <= Len(path) /\ Stop(Len(path) - k)}
<1>1. Len(path) \in Nat
  BY LenProperties
<1>2. Len(path) \in Rest
  BY <1>1
<1>3. PICK k \in Rest : \A l \in Rest : <<l, k>> \notin OpToRel(<, Nat)
  <2>1. Rest \subseteq Nat /\ Rest # {}
    BY <1>2
  <2>2. QED
    BY <2>1, WFMin, NatLessThanWellFounded
<1>4. \A l \in Rest : ~(l < k)
  BY <1>3 DEF OpToRel
<1>5. DEFINE i == Len(path) - k
<1>6. i \in 0 .. Len(path) /\ Stop(i)
  BY <1>1
<1>7. ASSUME NEW j \in i + 1 .. Len(path) PROVE path[j] \notin separators
  <2>1. Len(path) - j \in Nat /\ Len(path) - j <= Len(path) /\ Len(path) - j < k
    BY <1>1, <1>6, <1>7
  <2>2. Len(path) - j \notin Rest
    BY <1>4, <2>1
  <2>3. Len(path) - (Len(path) - j) = j
    BY <1>1
  <2>4. ~Stop(j)
    BY <2>1, <2>2, <2>3
  <2>5. QED
    BY <2>4
<1>8. \E b \in 0 .. Len(path) :
         /\ b = 0 \/ path[b] \in separators
         /\ \A j \in b + 1 .. Len(path) : path[j] \notin separators
  BY <1>6, <1>7
<1>9. QED
  BY <1>8 DEF BaseStart

\* The base name of a path is n, if n has no separator in it, just when the path ends
\* in n.
LEMMA BasenameEqual ==
    ASSUME NEW path \in Seq(Char), NEW n \in Seq(Char), NEW separators,
           \A k \in 1 .. Len(n) : n[k] \notin separators
    PROVE  LET base == Basename(path, separators)
           IN  (Len(base) = Len(n) /\ Part(base, 0, Len(n)) = n) <=> EndsIn(path, n, separators)
<1> DEFINE base == Basename(path, separators)
           b == BaseStart(path, separators)
<1>1. Len(path) \in Nat /\ Len(n) \in Nat
  BY LenProperties
<1>2. /\ b \in 0 .. Len(path)
      /\ b = 0 \/ path[b] \in separators
      /\ \A j \in b + 1 .. Len(path) : path[j] \notin separators
  BY BaseStartProperties
<1> HIDE DEF b
<1>3. /\ base \in Seq(Char)
      /\ Len(base) = Len(path) - b
      /\ base = Part(path, b, Len(path) - b)
  <2>1. base = SubSeq(path, b + 1, b + (Len(path) - b))
    BY DEF Basename, Part, b
  <2>2. \A j \in b + 1 .. b + (Len(path) - b) : path[j] \in Char
    BY <1>1, <1>2, ElementOfSeq
  <2>3. /\ SubSeq(path, b + 1, b + (Len(path) - b)) \in Seq(Char)
        /\ Len(SubSeq(path, b + 1, b + (Len(path) - b)))
             = IF b + 1 <= b + (Len(path) - b) THEN b + (Len(path) - b) - (b + 1) + 1 ELSE 0
    BY <1>1, <1>2, <2>2, SubSeqProperties, b + 1 \in Int, b + (Len(path) - b) \in Int
  <2>4. QED
    BY <1>1, <1>2, <2>1, <2>3 DEF Part
<1> HIDE DEF base
<1>4. Len(base) = Len(n) => Part(base, 0, Len(n)) = base
  <2>1. SubSeq(base, 1, Len(base)) = base
    BY <1>3, SubSeqFull
  <2>2. 0 + 1 = 1 /\ 0 + Len(n) = Len(n)
    BY <1>1
  <2>3. QED
    BY <2>1, <2>2 DEF Part
<1>5. CASE Len(path) - b = Len(n)
  <2>1. b = Len(path) - Len(n) /\ b + Len(n) = Len(path)
    BY <1>1, <1>2, <1>5
  <2>2. Part(path, b, Len(n)) = n <=> OccursAt(n, path, b)
    BY <1>2, <2>1, PartEqual
  <2>3. EndsIn(path, n, separators) <=> OccursAt(n, path, b)
    BY <1>1, <1>2, <2>1 DEF EndsIn
  <2>4. QED
    BY <1>3, <1>4, <1>5, <2>2, <2>3 DEF base
<1>6. CASE Len(path) - b # Len(n)
  <2>1. ASSUME EndsIn(path, n, separators) PROVE FALSE
    <3> DEFINE a == Len(path) - Len(n)
    <3>1. /\ a \in 0 .. Len(path) /\ a # b
          /\ a = 0 \/ path[a] \in separators
          /\ \A k \in 1 .. Len(n) : path[a + k] = n[k]
      BY <1>1, <1>2, <1>6, <2>1 DEF EndsIn, OccursAt
    <3>2. CASE a < b
      <4>1. b - a \in 1 .. Len(n) /\ a + (b - a) = b /\ b # 0
        BY <1>1, <1>2, <3>1, <3>2
      <4>2. path[b] = n[b - a]
        BY <3>1, <4>1
      <4>3. QED
        BY <1>2, <4>1, <4>2
    <3>3. CASE b < a
      BY <1>1, <1>2, <3>1, <3>3
    <3>4. QED
      BY <1>1, <1>2, <3>1, <3>2, <3>3
  <2>2. QED
    BY <1>3, <1>6, <2>1 DEF base
<1>7. QED
  BY <1>5, <1>6

\* The process callback recognises exactly the images whose last component is a
\* blocked name, neither longer nor shorter (procnotify.c 45-67).
THEOREM ImageTheorem ==
    ASSUME NEW path \in Seq(Char)
    PROVE  LgIsBlocked(path) <=> IsBlockedImage(path)
<1>1. ASSUME NEW n \in gBlocked
      PROVE  LET base == Basename(path, {"\\", "/"})
             IN  (Len(base) = Len(n) /\ Part(base, 0, Len(n)) = n)
                   <=> EndsIn(path, n, {"\\", "/"})
  BY NameMatchAssumption, BasenameEqual
<1>2. QED
  BY <1>1 DEF LgIsBlocked, OneOf, IsBlockedImage

\* So does the handle callback with the images of protected processes
\* (obcallback.c 21-49).
THEOREM ProtectedTheorem ==
    ASSUME NEW path \in Seq(Char)
    PROVE  LgPidIsProtected(path) <=> IsProtectedImage(path)
<1>1. ASSUME NEW n \in ProtectedImages
      PROVE  LET base == Basename(path, {"\\"})
             IN  (Len(base) = Len(n) /\ Part(base, 0, Len(n)) = n) <=> EndsIn(path, n, {"\\"})
  <2>1. \A k \in 1 .. Len(n) : n[k] \notin {"\\"}
    BY NameMatchAssumption
  <2>2. QED
    BY NameMatchAssumption, <2>1, BasenameEqual
<1>2. QED
  BY <1>1 DEF LgPidIsProtected, OneOf, IsProtectedImage

-----------------------------------------------------------------------------
\* The handlers.

\* A check that is about to come out TRUE has seen the window open, or is in a state
\* in which it is.
SeenInv ==
    /\ seen \in [Thread -> SUBSET BOOLEAN]
    /\ \A t \in Thread :
         (pc[t] = "check" /\ StillOpen(now[t])) => TRUE \in seen[t] \/ WindowOpen
    /\ VerdictFresh

\* The types of the callbacks' own variables.
CallTypes ==
    /\ request \in [Thread -> Requests \cup {NoRequest}]
    /\ answer \in [Thread -> {"none", "allow", "deny"}]
    /\ replyExpires \in [Thread -> 0 .. MaxTime + Window]
    /\ gTamperCount \in 0 .. TamperModulus - 1

\* What has to be true of a request for its handler to be where it is.
AnswerInv ==
    \A t \in Thread :
      /\ pc[t] \in {"sample", "check", "closing", "active", "inactive"} =>
           request[t] \in Requests /\ ChecksWindow(request[t])
      /\ answer[t] # "none" =>
           /\ request[t] \in Requests
           /\ pc[t] \in {"idle", "active", "inactive"}
      /\ answer[t] # "none" /\ pc[t] = "idle" =>
           answer[t] = "allow" /\ ~ChecksWindow(request[t])
      /\ answer[t] = "allow" /\ pc[t] = "inactive" => ~Denies(request[t])
      /\ answer[t] = "deny" => pc[t] = "inactive" /\ Denies(request[t])

\* A STATUS reply made under a lease reaches to its end.
ReplyInv ==
    \A t \in Thread :
      (answer[t] = "allow" /\ request[t].via = "status" /\ pc[t] = "active")
        => clock >= now[t] + Grace \/ now[t] + Grace <= replyExpires[t]

\* The inductive invariant.
CInv ==
    /\ IInv
    /\ SeenInv
    /\ CallTypes
    /\ AnswerInv
    /\ ReplyInv

-----------------------------------------------------------------------------
\* A handler screens every guarded request ...
LEMMA GuardedScreened ==
    ASSUME NEW r \in Requests, Guarded(r)
    PROVE  ChecksWindow(r) /\ Denies(r)
<1>1. r \in Request /\ r.target \in Seq(Char) /\ LgResolveKeyName(r.target) \in Seq(Char)
  BY CallbacksAssumption, ResolveType DEF Request
<1>2. CASE r.via = "unload"
  BY <1>2 DEF ChecksWindow, Denies
<1>3. CASE r.via = "registry"
  BY <1>1, <1>3, KeyTheorem DEF Guarded, ChecksWindow, Denies, OnList
<1>4. CASE r.via = "file"
  BY <1>1, <1>4, PathTheorem DEF Guarded, ChecksWindow, Denies, OnList
<1>5. CASE r.via = "process"
  BY <1>1, <1>5, ImageTheorem DEF Guarded, ChecksWindow, Denies, OnList
<1>6. CASE r.via = "handle"
  BY <1>1, <1>6, ProtectedTheorem DEF Guarded, ChecksWindow, Denies, OnList
<1>7. CASE r.via = "status"
  BY <1>7 DEF Guarded
<1>8. QED
  BY <1>1, <1>2, <1>3, <1>4, <1>5, <1>6, <1>7 DEF Request, Handlers

\* ... and denies no other.
LEMMA DeniedGuarded ==
    ASSUME NEW r \in Requests, ChecksWindow(r), Denies(r)
    PROVE  Guarded(r)
<1>1. r \in Request /\ r.target \in Seq(Char) /\ LgResolveKeyName(r.target) \in Seq(Char)
  BY CallbacksAssumption, ResolveType DEF Request
<1>2. CASE r.via = "unload"
  BY <1>2 DEF Guarded
<1>3. CASE r.via = "registry"
  BY <1>1, <1>3, KeyTheorem DEF Guarded, ChecksWindow, Denies, OnList
<1>4. CASE r.via = "file"
  BY <1>1, <1>4, PathTheorem DEF Guarded, ChecksWindow, Denies, OnList
<1>5. CASE r.via = "process"
  BY <1>1, <1>5, ImageTheorem DEF Guarded, ChecksWindow, Denies, OnList
<1>6. CASE r.via = "handle"
  BY <1>1, <1>6, ProtectedTheorem DEF Guarded, ChecksWindow, Denies, OnList
<1>7. CASE r.via = "status"
  BY <1>7 DEF Denies
<1>8. QED
  BY <1>1, <1>2, <1>3, <1>4, <1>5, <1>6, <1>7 DEF Request, Handlers

-----------------------------------------------------------------------------
\* The initial state satisfies the inductive invariant.
LEMMA InitCInv == InitC => CInv
<1> SUFFICES ASSUME InitC PROVE CInv
  OBVIOUS
<1>1. IInv
  BY InitIInv DEF InitC, InitH
<1>2. pc = [t \in Thread |-> "idle"] /\ seen = [t \in Thread |-> {}]
  BY DEF InitC, InitH, Init
<1>3. SeenInv
  BY <1>2 DEF SeenInv, VerdictFresh
<1>4. CallTypes
  BY CallbacksAssumption, WindowAssumption DEF InitC, CallTypes
<1>5. AnswerInv /\ ReplyInv
  BY <1>2 DEF InitC, AnswerInv, ReplyInv
<1>6. QED
  BY <1>1, <1>3, <1>4, <1>5 DEF CInv

\* The callbacks drive the window by its own steps, and each is observed.
LEMMA WindowSteps ==
    ASSUME [NextC]_cbVars
    PROVE  [Next]_vars /\ (Observe \/ UNCHANGED histVars)
<1>1. CASE TickC
  BY <1>1 DEF TickC, Next
<1>2. ASSUME NEW t \in Thread, PassUnscreened(t) \/ Allow(t) \/ Deny(t) \/ ReplyStatus(t)
      PROVE  UNCHANGED histVars
  BY <1>2 DEF PassUnscreened, Allow, Deny, ReplyStatus
<1>3. ASSUME NEW t \in Thread, Screen(t) \/ WindowStep(t) \/ Complete(t)
      PROVE  [Next]_vars /\ Observe
  BY <1>3 DEF Screen, WindowStep, Complete, Next, ThreadStep
<1>4. UNCHANGED cbVars => UNCHANGED histVars
  BY DEF cbVars, histVars
<1>5. UNCHANGED histVars => UNCHANGED vars
  BY DEF histVars, vars
<1>6. QED
  BY <1>1, <1>2, <1>3, <1>4, <1>5 DEF NextC, HandlerStep

\* Whoever keeps the window open or opens it, keeps it open for longer than a thread
\* can have been on its way to the lock; so a check that would be granted sees it open.
LEMMA SeenStep ==
    ASSUME IInv, SeenInv, [Next]_vars, Observe
    PROVE  SeenInv'
<1> USE WindowAssumption, HistoryAssumption
        DEF IInv, TypeOK, SampleInv, SeenInv, VerdictFresh, Observe, WindowOpen, StillOpen
<1>1. seen' \in [Thread -> SUBSET BOOLEAN]
  <2>1. WindowOpen \in BOOLEAN
    OBVIOUS
  <2>2. \A t \in Thread : seen[t] \cup {WindowOpen} \in SUBSET BOOLEAN
    BY <2>1
  <2>3. QED
    BY <2>2
<1> DEFINE Fresh(t) == /\ pc'[t] = "active"   => TRUE \in seen'[t]
                       /\ pc'[t] = "inactive" => FALSE \in seen'[t]
<1>2. CASE Tick
  BY <1>1, <1>2 DEF Tick
<1>3. ASSUME NEW t \in Thread, EnterSample(t) PROVE SeenInv'
  BY <1>1, <1>3 DEF EnterSample
<1>4. ASSUME NEW t \in Thread, EnterFlag(t) \/ EnterDeadline(t) PROVE SeenInv'
  <2>1. CASE EnterFlag(t)
    <3>1. gPermissive \/ gPermissiveExpires = 0
      BY <2>1 DEF EnterFlag, FlagMatchesExpiry
    <3>2. ASSUME NEW u \in Thread, pc'[u] = "check", StillOpen(now[u])'
          PROVE  TRUE \in seen'[u] \/ WindowOpen'
      <4>1. /\ pc[u] = "check" /\ now'[u] = now[u] /\ now[u] \in Nat
            /\ gPermissiveExpires' = gPermissiveExpires /\ clock' = clock
        BY <2>1, <3>2 DEF EnterFlag
      <4>2. gPermissive
        BY <3>1, <3>2, <4>1
      <4>3. TRUE \in seen[u] \/ WindowOpen
        BY <3>2, <4>1, <4>2
      <4>4. CASE WindowOpen
        BY <2>1, <4>1, <4>4 DEF EnterFlag
      <4>5. CASE TRUE \in seen[u]
        <5>1. seen'[u] = seen[u] \cup {WindowOpen}
          BY <3>2, <4>1
        <5>2. QED
          BY <4>5, <5>1
      <4>6. QED
        BY <4>3, <4>4, <4>5
    <3>3. \A u \in Thread : Fresh(u)
      BY <2>1 DEF EnterFlag
    <3>4. QED
      BY <1>1, <3>2, <3>3
  <2>2. CASE EnterDeadline(t)
    <3>1. /\ now[t] \in Nat /\ clock \in Nat /\ clock <= now[t] + Stall
          /\ gPermissive /\ gPermissive'
          /\ gPermissiveExpires' = now[t] + Window /\ clock' = clock
      BY <2>2 DEF EnterDeadline, WindowEnd, LockInv
    <3>2. WindowOpen'
      BY <3>1
    <3>3. \A u \in Thread : Fresh(u)
      BY <2>2 DEF EnterDeadline
    <3>4. QED
      BY <1>1, <3>2, <3>3
  <2>3. QED
    BY <1>4, <2>1, <2>2
<1>5. ASSUME NEW t \in Thread, FastCheck(t) PROVE SeenInv'
  BY <1>1, <1>5 DEF FastCheck
<1>6. ASSUME NEW t \in Thread, CheckSample(t) PROVE SeenInv'
  BY <1>1, <1>6 DEF CheckSample
<1>7. ASSUME NEW t \in Thread, CheckGrant(t) PROVE SeenInv'
  <2>1. /\ now[t] \in Nat /\ clock \in Nat /\ clock <= now[t] + Stall
        /\ gPermissiveExpires \in Nat
        /\ gPermissive' /\ gPermissiveExpires' = Later(gPermissiveExpires, now[t] + Grace)
        /\ clock' = clock
    BY <1>7 DEF CheckGrant, Leased
  <2>2. WindowOpen'
    BY <2>1 DEF Later
  <2>3. seen'[t] = seen[t] \cup {WindowOpen}
    BY <1>7 DEF CheckGrant
  <2>4. TRUE \in seen'[t]
    BY <1>7, <2>3 DEF CheckGrant
  <2>5. \A u \in Thread \ {t} : Fresh(u)
    BY <1>7 DEF CheckGrant
  <2>6. pc'[t] = "active"
    BY <1>7 DEF CheckGrant
  <2>7. \A u \in Thread : Fresh(u)
    BY <2>4, <2>5, <2>6
  <2>8. QED
    BY <1>1, <2>2, <2>7
<1>8. ASSUME NEW t \in Thread, CheckClosed(t) \/ CloseFlag(t) \/ CloseDeadline(t)
      PROVE  SeenInv'
  <2>1. CASE CheckClosed(t)
    BY <1>1, <2>1 DEF CheckClosed
  <2>2. CASE CloseFlag(t)
    BY <1>1, <2>2 DEF CloseFlag
  <2>3. CASE CloseDeadline(t)
    <3>1. ~gPermissive /\ ~gPermissive'
      BY <2>3 DEF CloseDeadline, LockInv
    <3>2. seen'[t] = seen[t] \cup {WindowOpen} /\ pc'[t] = "inactive"
      BY <2>3 DEF CloseDeadline
    <3>3. \A u \in Thread \ {t} : Fresh(u)
      BY <2>3 DEF CloseDeadline
    <3>4. FALSE \in seen'[t]
      BY <3>1, <3>2
    <3>5. \A u \in Thread : Fresh(u)
      BY <3>2, <3>3, <3>4
    <3>6. QED
      BY <1>1, <3>1, <3>5
  <2>4. QED
    BY <1>8, <2>1, <2>2, <2>3
<1>9. ASSUME NEW t \in Thread, CallerDone(t) PROVE SeenInv'
  BY <1>1, <1>9 DEF CallerDone
<1>10. CASE UNCHANGED vars
  BY <1>1, <1>10 DEF vars
<1>11. QED
  BY <1>2, <1>3, <1>4, <1>5, <1>6, <1>7, <1>8, <1>9, <1>10 DEF Next, ThreadStep
\* Every step preserves the types of the callbacks' own variables.
LEMMA CallTypesStep ==
    ASSUME IInv, CallTypes, [NextC]_cbVars
    PROVE  CallTypes'
<1> USE CallbacksAssumption DEF CallTypes
<1>1. ASSUME NEW t \in Thread, PassUnscreened(t) \/ Screen(t) \/ Allow(t) PROVE CallTypes'
  BY <1>1 DEF PassUnscreened, Screen, Allow
<1>2. ASSUME NEW t \in Thread, WindowStep(t) PROVE CallTypes'
  BY <1>2 DEF WindowStep
<1>3. ASSUME NEW t \in Thread, Deny(t) PROVE CallTypes'
  BY <1>3 DEF Deny, RecordTamper
<1>4. ASSUME NEW t \in Thread, ReplyStatus(t) PROVE CallTypes'
  BY <1>4 DEF ReplyStatus, IInv, TypeOK
<1>5. ASSUME NEW t \in Thread, Complete(t) PROVE CallTypes'
  BY <1>5, WindowAssumption DEF Complete
<1>6. CASE TickC \/ UNCHANGED cbVars
  BY <1>6 DEF TickC, cbVars
<1>7. QED
  BY <1>1, <1>2, <1>3, <1>4, <1>5, <1>6 DEF NextC, HandlerStep

\* A handler answers as it was told, once.
LEMMA AnswerStep ==
    ASSUME IInv, CallTypes, AnswerInv, [NextC]_cbVars
    PROVE  AnswerInv'
<1> USE CallbacksAssumption DEF IInv, TypeOK, CallTypes, AnswerInv, histVars
<1>1. ASSUME NEW t \in Thread, PassUnscreened(t) PROVE AnswerInv'
  BY <1>1 DEF PassUnscreened
<1>2. ASSUME NEW t \in Thread, Screen(t) PROVE AnswerInv'
  BY <1>2 DEF Screen, FastCheck
<1>3. ASSUME NEW t \in Thread, WindowStep(t) PROVE AnswerInv'
  BY <1>3 DEF WindowStep, EnterSample, EnterFlag, EnterDeadline, CheckSample, CheckGrant,
              CheckClosed, CloseFlag, CloseDeadline
<1>4. ASSUME NEW t \in Thread, Allow(t) PROVE AnswerInv'
  BY <1>4 DEF Allow
<1>5. ASSUME NEW t \in Thread, Deny(t) PROVE AnswerInv'
  BY <1>5 DEF Deny
<1>6. ASSUME NEW t \in Thread, ReplyStatus(t) PROVE AnswerInv'
  BY <1>6 DEF ReplyStatus, Denies
<1>7. ASSUME NEW t \in Thread, Complete(t) PROVE AnswerInv'
  BY <1>7 DEF Complete, CallerDone, vars
<1>8. CASE TickC \/ UNCHANGED cbVars
  BY <1>8 DEF TickC, Tick, cbVars
<1>9. QED
  BY <1>1, <1>2, <1>3, <1>4, <1>5, <1>6, <1>7, <1>8 DEF NextC, HandlerStep

\* A STATUS reply copies the deadline while the lease that covers it lasts, or later.
LEMMA ReplyStep ==
    ASSUME IInv, CallTypes, AnswerInv, ReplyInv, [NextC]_cbVars
    PROVE  ReplyInv'
<1> USE WindowAssumption DEF IInv, TypeOK, CallTypes, AnswerInv, ReplyInv, histVars
<1>1. ASSUME NEW t \in Thread, PassUnscreened(t) PROVE ReplyInv'
  BY <1>1 DEF PassUnscreened
<1>2. ASSUME NEW t \in Thread, Screen(t) PROVE ReplyInv'
  BY <1>2 DEF Screen, FastCheck
<1>3. ASSUME NEW t \in Thread, WindowStep(t) PROVE ReplyInv'
  BY <1>3 DEF WindowStep, EnterSample, EnterFlag, EnterDeadline, CheckSample, CheckGrant,
              CheckClosed, CloseFlag, CloseDeadline
<1>4. ASSUME NEW t \in Thread, Allow(t) \/ Deny(t) PROVE ReplyInv'
  BY <1>4 DEF Allow, Deny
<1>5. ASSUME NEW t \in Thread, ReplyStatus(t) PROVE ReplyInv'
  <2>1. pc[t] = "active" => clock >= now[t] + Grace \/ now[t] + Grace <= gPermissiveExpires
    BY LeaseFromIInv DEF LeaseHonoured, Leasing
  <2>2. QED
    BY <1>5, <2>1 DEF ReplyStatus
<1>6. ASSUME NEW t \in Thread, Complete(t) PROVE ReplyInv'
  BY <1>6 DEF Complete, CallerDone, vars
<1>7. CASE TickC \/ UNCHANGED cbVars
  BY <1>7 DEF TickC, Tick, cbVars
<1>8. QED
  BY <1>1, <1>2, <1>3, <1>4, <1>5, <1>6, <1>7 DEF NextC, HandlerStep

\* CInv is an invariant of the specification.
LEMMA CInvInvariant == SpecC => []CInv
<1>1. ASSUME CInv, [NextC]_cbVars PROVE CInv'
  <2>1. [Next]_vars /\ (Observe \/ UNCHANGED histVars)
    BY <1>1, WindowSteps
  <2>2. IInv'
    <3>1. IInv /\ TypeOK /\ SampleInv
      BY <1>1 DEF CInv, IInv
    <3>2. TypeOK' /\ SampleInv' /\ LockInv'
      BY <1>1, <2>1, <3>1, TypeStep, SampleStep, LockStep DEF CInv
    <3>3. (PromiseInv /\ FlagMatchesExpiry /\ ExpiryJustified)'
      BY <1>1, <2>1, OwedStep DEF CInv
    <3>4. QED
      BY <3>2, <3>3 DEF IInv
  <2>3. ASSUME Observe PROVE SeenInv'
    BY <1>1, <2>1, <2>3, SeenStep DEF CInv
  <2>4. ASSUME UNCHANGED histVars PROVE SeenInv'
    BY <1>1, <2>4 DEF CInv, SeenInv, VerdictFresh, StillOpen, WindowOpen, histVars
  <2>5. SeenInv'
    BY <2>1, <2>3, <2>4
  <2>6. QED
    BY <1>1, <2>2, <2>5, CallTypesStep, AnswerStep, ReplyStep DEF CInv
<1>2. QED
  BY InitCInv, <1>1, PTL DEF SpecC

-----------------------------------------------------------------------------
\* The window, the requests and the answers keep their types.
THEOREM TypeCorrectC == SpecC => []TypeOKC
<1>1. CInv => TypeOKC
  BY DEF CInv, IInv, SeenInv, CallTypes, TypeOKC
<1>2. QED
  BY CInvInvariant, <1>1, PTL

\* An answer of LgIsPermissive was true at some moment of the call, for any number of
\* racing calls (lockguard.c 86-118).
THEOREM FreshTheorem == SpecC => []VerdictFresh
<1>1. CInv => VerdictFresh
  BY DEF CInv, SeenInv
<1>2. QED
  BY CInvInvariant, <1>1, PTL

\* No handler lets a request for something its list names through unless the window was
\* open; keys are taken by the names that LgResolveKeyName returns (regcb.c 55-145, minifilter.c 65-146, procnotify.c 69-91, obcallback.c 51-74).
THEOREM GuardedTheorem == SpecC => []GuardedNeedsWindow
<1>1. CInv => GuardedNeedsWindow
  <2> SUFFICES ASSUME CInv, NEW t \in Thread, answer[t] = "allow", Guarded(request[t])
               PROVE  TRUE \in seen[t]
    BY DEF GuardedNeedsWindow
  <2>1. request[t] \in Requests /\ pc[t] \in {"idle", "active", "inactive"}
    BY DEF CInv, AnswerInv
  <2>2. ChecksWindow(request[t]) /\ Denies(request[t])
    BY <2>1, GuardedScreened
  <2>3. pc[t] = "active"
    BY <2>1, <2>2 DEF CInv, AnswerInv
  <2>4. QED
    BY <2>3 DEF CInv, SeenInv, VerdictFresh
<1>2. QED
  BY CInvInvariant, <1>1, PTL

\* ... and none denies what the comments do not announce, or while the window was open
\* throughout.
THEOREM OnlyGuardedTheorem == SpecC => []OnlyGuardedDenied
<1>1. CInv => OnlyGuardedDenied
  <2> SUFFICES ASSUME CInv, NEW t \in Thread, answer[t] = "deny"
               PROVE  Documented(request[t]) /\ FALSE \in seen[t]
    BY DEF OnlyGuardedDenied
  <2>1. pc[t] = "inactive" /\ Denies(request[t])
    BY DEF CInv, AnswerInv
  <2>2. request[t] \in Requests /\ ChecksWindow(request[t])
    BY <2>1 DEF CInv, AnswerInv
  <2>3. QED
    BY <2>1, <2>2, DeniedGuarded DEF CInv, SeenInv, VerdictFresh, Documented
<1>2. QED
  BY CInvInvariant, <1>1, PTL

\* A STATUS reply made under a lease names a deadline that has not passed while the
\* lease lasts (lockguard.c 373-387).
THEOREM StatusTheorem == SpecC => []StatusCoherent
<1>1. CInv => StatusCoherent
  BY WindowAssumption
     DEF CInv, IInv, TypeOK, CallTypes, ReplyInv, StatusCoherent, Leasing
<1>2. QED
  BY CInvInvariant, <1>1, PTL

-----------------------------------------------------------------------------
\* The handlers and the window.

\* The handlers, any number of them in any order, drive the window by its own steps
\* only, so that all that is proved of PermissiveWindow's behaviours holds while they
\* run, its refinement of Lease included (regcb.c 140, minifilter.c 81, 106, 122, 141,
\* procnotify.c 79, obcallback.c 59, lockguard.c 380).
THEOREM WindowTheorem == SpecC => Spec
<1>1. InitC => Init
  BY DEF InitC, InitH
<1>2. [NextC]_cbVars => [Next]_vars
  BY WindowSteps
<1>3. QED
  BY <1>1, <1>2, PTL DEF SpecC, Spec

\* No handler that was told TRUE loses the window before its lease is over, whatever the
\* others ask or deny meanwhile, and none of them is told FALSE as long as one acts under
\* its lease (lockguard.c 102-113).
THEOREM HandlersAgreeTheorem == SpecC => []LeaseHonoured /\ SiblingsAgree /\ ImplementsLease
BY WindowTheorem, LeaseTheorem, SiblingsTheorem, Refinement, PTL
=============================================================================
