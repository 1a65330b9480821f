-------------------------- MODULE DriverEntryProofs --------------------------
(* Proofs about DriverEntry for every number of faults, every table of       *)
(* filters at least as long as the list, and all network flows.              *)
EXTENDS DriverEntry, TLAPS

\* Outside the label fail the locals say how far DriverEntry has got.
ProgressInv ==
    pc \notin {"undo", "undoClose"} =>
        /\ "device" \in created <=> pc \notin {"unloaded", "device"}
        /\ "symlink" \in created <=> pc \notin {"unloaded", "device", "symlink"}
        /\ "wfp" \in created <=>
             pc \in {"registry", "process", "register", "start", "handle", "up"}
        /\ "registry" \in created <=> pc \in {"process", "register", "start", "handle", "up"}
        /\ "process" \in created <=> pc \in {"register", "start", "handle", "up"}
        /\ "minifilter" \in created <=> pc \in {"handle", "up"}

\* Under it too what is created is a prefix of the order of creation.
ChainInv ==
    /\ "symlink" \in created => "device" \in created
    /\ "wfp" \in created => "symlink" \in created
    /\ "registry" \in created => "wfp" \in created
    /\ "process" \in created => "registry" \in created
    /\ "minifilter" \in created => "process" \in created
    /\ pc = "undoClose" => "wfp" \in created /\ "registry" \notin created

\* The locals are right about the kernel's objects.
ObjectInv ==
    /\ \A s \in {"device", "symlink", "registry", "process"} : s \in objects <=> s \in created
    /\ "filtering" \in objects <=> "minifilter" \in created
    /\ "minifilter" \in objects <=> ("minifilter" \in created \/ pc = "start")
    /\ "handle" \in objects <=> pc = "up"

\* ... and about the filters and the session.
FilterInv ==
    /\ "wfp" \notin created => installed = {}
    /\ "wfp" \in created => session = "open"
    /\ "wfp" \in created /\ pc # "undoClose" => installed = Everything
    /\ pc \in {"unloaded", "device", "symlink", "verifier", "engine", "undo"}
          /\ "wfp" \notin created => session = "none"
    /\ pc \in {"device", "symlink", "verifier", "engine", "begin", "sublayer"} =>
          gFilterCount = 0
    /\ pc \in {"add", "commit"} => pending = (1 .. gFilterCount) \cup {SubLayer}
    /\ pc = "commit" => gFilterCount = FilterCount

\* Only the unregistering of a callback leaves a handler behind, and only for as
\* long as DriverEntry waits for it.
HandlerInv == pc # "undo" => running \subseteq objects

\* The inductive invariant.
IInv ==
    /\ TypeOK
    /\ ProgressInv /\ ChainInv
    /\ ObjectInv
    /\ FilterInv
    /\ HandlerInv

-----------------------------------------------------------------------------
\* The initial state satisfies the inductive invariant.
LEMMA InitIInv == Init => IInv
<1> SUFFICES ASSUME Init PROVE IInv
  OBVIOUS
<1> USE DriverEntryAssumption DEF Init
<1>1. TypeOK
  BY DEF TypeOK, PC, Local, Object, Callback, FilterCount
<1>2. ProgressInv /\ ChainInv /\ ObjectInv /\ FilterInv /\ HandlerInv
  BY DEF ProgressInv, ChainInv, ObjectInv, FilterInv, HandlerInv
<1>3. QED
  BY <1>1, <1>2 DEF IInv

\* Which calls lie where: the successor of each call is a control point.
LEMMA AfterCall ==
    /\ \A c \in InitCall : After[c] \in PC
    /\ After["device"] = "symlink" /\ After["symlink"] = "verifier"
    /\ After["verifier"] = "engine" /\ After["engine"] = "begin"
    /\ After["begin"] = "sublayer" /\ After["sublayer"] = "add"
    /\ After["add"] = "commit" /\ After["commit"] = "registry"
    /\ After["registry"] = "process" /\ After["process"] = "register"
    /\ After["register"] = "start" /\ After["start"] = "handle"
    /\ After["handle"] = "up"
BY DEF After, InitCall, PC

\* Every step preserves the types.
LEMMA TypeStep ==
    ASSUME IInv, [Next]_vars
    PROVE  TypeOK'
<1> USE DriverEntryAssumption, AfterCall DEF IInv, TypeOK, Fault
<1>1. CASE Load
  BY <1>1 DEF Load, PC, InitCall, After, FilterCount
<1>2. CASE Register
  BY <1>2 DEF Register, Registration, Local, Object, Callback, PC, wfpVars
<1>3. CASE LoadVerifier \/ OpenEngine \/ BeginTransaction \/ AllAdded
  BY <1>3 DEF LoadVerifier, OpenEngine, BeginTransaction, AllAdded, PC, InitCall, After, wfpVars
<1>4. CASE AddSubLayer
  BY <1>4 DEF AddSubLayer, PC, InitCall, After, Everything
<1>5. CASE AddFilter
  BY <1>5 DEF AddFilter, MoreToAdd, Everything, AllFilters, FilterCount
<1>6. CASE Commit
  BY <1>6 DEF Commit, PC, InitCall, After, Local
<1>7. CASE RegisterMinifilter \/ StartFiltering
  <2>1. pc' \in PC
    BY <1>7 DEF RegisterMinifilter, StartFiltering, PC
  <2>2. objects' \subseteq Object /\ created' \subseteq Local
    BY <1>7 DEF RegisterMinifilter, StartFiltering, Object, Callback, Local
  <2>3. UNCHANGED <<wfpVars, running, bfeUp, faults>>
    BY <1>7 DEF RegisterMinifilter, StartFiltering
  <2>4. QED
    BY <2>1, <2>2, <2>3 DEF wfpVars
<1>8. CASE WfpFails
  BY <1>8 DEF WfpFails, Fails, SessionEnd, PC
<1>9. CASE CallFails
  BY <1>9 DEF CallFails, Fails, StartUndone, PC, wfpVars
<1>10. ASSUME NEW s \in Local, Undo(s) PROVE TypeOK'
  BY <1>10 DEF Undo, PC, wfpVars
<1>11. CASE UndoFilters
  BY <1>11 DEF UndoFilters, PC, Everything
<1>12. CASE UndoEngine
  BY <1>12 DEF UndoEngine, SessionEnd, PC, FilterCount
<1>13. CASE ReturnError
  BY <1>13 DEF ReturnError, PC, wfpVars
<1>14. CASE BfeStarts
  BY <1>14 DEF BfeStarts, wfpVars
<1>15. CASE Reboot
  <2>1. pc' = "unloaded" /\ bfeUp' = FALSE /\ session' = "none" /\ gFilterCount' = 0
    BY <1>15 DEF Reboot
  <2>2. created' = {} /\ objects' = {} /\ running' = {} /\ pending' = {} /\ installed' = {}
    BY <1>15 DEF Reboot
  <2>3. faults' \in 0 .. MaxFaults
    BY <1>15 DEF Reboot
  <2>4. /\ created' \subseteq Local /\ objects' \subseteq Object /\ running' \subseteq Callback
        /\ pending' \subseteq Everything /\ installed' \subseteq Everything
    BY <2>2
  <2>5. pc' \in PC /\ gFilterCount' \in 0 .. FilterCount
    BY <2>1 DEF PC, FilterCount
  <2>6. session' \in {"none", "open", "tx"} /\ bfeUp' \in BOOLEAN
    BY <2>1
  <2>7. QED
    BY <2>3, <2>4, <2>5, <2>6
<1>16. ASSUME NEW s \in Callback, HandlerStarts(s) \/ HandlerReturns(s) PROVE TypeOK'
  BY <1>16 DEF HandlerStarts, HandlerReturns, wfpVars
<1>17. CASE UNCHANGED vars
  BY <1>17 DEF vars, wfpVars
<1>18. QED
  BY <1>1, <1>2, <1>3, <1>4, <1>5, <1>6, <1>7, <1>8, <1>9, <1>10, <1>11, <1>12,
     <1>13, <1>14, <1>15, <1>16, <1>17 DEF Next, EntryStep

\* Every step keeps the locals in step with the control point.
LEMMA ProgressStep ==
    ASSUME IInv, [Next]_vars
    PROVE  ProgressInv' /\ ChainInv'
<1> USE AfterCall DEF IInv, ProgressInv, ChainInv
<1>1. CASE Load \/ LoadVerifier \/ OpenEngine \/ BeginTransaction \/ AddSubLayer
           \/ AddFilter \/ AllAdded \/ RegisterMinifilter
  BY <1>1 DEF Load, LoadVerifier, OpenEngine, BeginTransaction, AddSubLayer, AddFilter,
              AllAdded, RegisterMinifilter
<1>2. CASE Register
  BY <1>2 DEF Register, Registration, Local
<1>3. CASE Commit \/ StartFiltering
  BY <1>3 DEF Commit, StartFiltering
<1>4. CASE WfpFails
  BY <1>4 DEF WfpFails, WfpCall
<1>5. CASE CallFails
  BY <1>5 DEF CallFails, Registration
<1>6. ASSUME NEW s \in Local, Undo(s) PROVE ProgressInv' /\ ChainInv'
  <2>1. /\ pc = "undo" /\ pc' = "undo" /\ created' = created \ {s} /\ s # "wfp"
        /\ s \in created
    BY <1>6 DEF Undo, NextUndone
  <2>2. \A j \in 1 .. 6 : UndoOrder[j] = s => \A k \in 1 .. j - 1 : UndoOrder[k] \notin created
    BY <1>6 DEF Undo, NextUndone, UndoOrder, Local
  <2>3. /\ s = "device" => "symlink" \notin created
        /\ s = "symlink" => "wfp" \notin created
        /\ s = "registry" => "process" \notin created
        /\ s = "process" => "minifilter" \notin created
    BY <2>2 DEF UndoOrder
  <2>4. QED
    BY <2>1, <2>3
<1>7. CASE UndoFilters
  <2>1. "wfp" \in created /\ "registry" \notin created
    BY <1>7 DEF UndoFilters, NextUndone, UndoOrder
  <2>2. QED
    BY <1>7, <2>1 DEF UndoFilters
<1>8. CASE UndoEngine
  BY <1>8 DEF UndoEngine
<1>9. CASE ReturnError \/ Reboot
  BY <1>9 DEF ReturnError, Reboot
<1>10. CASE BfeStarts \/ UNCHANGED vars
  BY <1>10 DEF BfeStarts, vars
<1>11. ASSUME NEW s \in Callback, HandlerStarts(s) \/ HandlerReturns(s)
       PROVE  ProgressInv' /\ ChainInv'
  BY <1>11 DEF HandlerStarts, HandlerReturns
<1>12. QED
  BY <1>1, <1>2, <1>3, <1>4, <1>5, <1>6, <1>7, <1>8, <1>9, <1>10, <1>11 DEF Next, EntryStep

\* Every step keeps the locals right about the kernel's objects.
LEMMA ObjectStep ==
    ASSUME IInv, [Next]_vars
    PROVE  ObjectInv'
<1> USE AfterCall DEF IInv, ObjectInv
<1>1. CASE Load \/ LoadVerifier \/ OpenEngine \/ BeginTransaction \/ AddSubLayer
           \/ AddFilter \/ AllAdded
  BY <1>1 DEF Load, LoadVerifier, OpenEngine, BeginTransaction, AddSubLayer, AddFilter,
              AllAdded
<1>2. CASE Register
  BY <1>2 DEF Register, Registration, Local, ProgressInv
<1>3. CASE Commit \/ RegisterMinifilter \/ StartFiltering
  BY <1>3 DEF Commit, RegisterMinifilter, StartFiltering, ProgressInv
<1>4. CASE WfpFails
  BY <1>4 DEF WfpFails, WfpCall
<1>5. CASE CallFails
  BY <1>5 DEF CallFails, Registration, StartUndone, ProgressInv
<1>6. ASSUME NEW s \in Local, Undo(s) PROVE ObjectInv'
  BY <1>6 DEF Undo, Removed, Local
<1>7. CASE UndoFilters \/ UndoEngine
  BY <1>7 DEF UndoFilters, UndoEngine
<1>8. CASE ReturnError \/ Reboot
  BY <1>8 DEF ReturnError, Reboot
<1>9. CASE BfeStarts \/ UNCHANGED vars
  BY <1>9 DEF BfeStarts, vars
<1>10. ASSUME NEW s \in Callback, HandlerStarts(s) \/ HandlerReturns(s) PROVE ObjectInv'
  BY <1>10 DEF HandlerStarts, HandlerReturns
<1>11. QED
  BY <1>1, <1>2, <1>3, <1>4, <1>5, <1>6, <1>7, <1>8, <1>9, <1>10 DEF Next, EntryStep

\* Every step keeps them right about the filters and the session.
LEMMA FilterStep ==
    ASSUME IInv, [Next]_vars
    PROVE  FilterInv'
<1> USE AfterCall DEF IInv, FilterInv
<1>1. CASE Load \/ LoadVerifier \/ OpenEngine \/ BeginTransaction \/ AddSubLayer
  BY <1>1 DEF Load, LoadVerifier, OpenEngine, BeginTransaction, AddSubLayer, wfpVars,
              ProgressInv
<1>2. CASE AddFilter
  <2>1. /\ pc = "add" /\ pc' = "add" /\ gFilterCount' = gFilterCount + 1
        /\ pending' = pending \cup {gFilterCount + 1}
        /\ gFilterCount \in Nat
    BY <1>2 DEF AddFilter, TypeOK, FilterCount
  <2>2. pending' = (1 .. gFilterCount') \cup {SubLayer}
    BY <2>1
  <2>3. QED
    BY <1>2, <2>1, <2>2 DEF AddFilter
<1>3. CASE AllAdded
  BY <1>3 DEF AllAdded, MoreToAdd, TypeOK, wfpVars, FilterCount
<1>4. CASE Commit
  BY <1>4 DEF Commit, ProgressInv, Everything, AllFilters
<1>5. CASE Register \/ RegisterMinifilter \/ StartFiltering
  BY <1>5 DEF Register, Registration, Local, RegisterMinifilter, StartFiltering, wfpVars,
              ProgressInv
<1>6. CASE WfpFails
  BY <1>6 DEF WfpFails, WfpCall, SessionEnd, ProgressInv
<1>7. CASE CallFails
  BY <1>7 DEF CallFails, Registration, wfpVars, ProgressInv
<1>8. ASSUME NEW s \in Local, Undo(s) PROVE FilterInv'
  BY <1>8 DEF Undo, wfpVars
<1>9. CASE UndoFilters
  BY <1>9 DEF UndoFilters, NextUndone
<1>10. CASE UndoEngine
  BY <1>10 DEF UndoEngine, SessionEnd
<1>11. CASE ReturnError \/ Reboot
  BY <1>11 DEF ReturnError, Reboot, wfpVars
<1>12. CASE BfeStarts \/ UNCHANGED vars
  BY <1>12 DEF BfeStarts, vars, wfpVars
<1>13. ASSUME NEW s \in Callback, HandlerStarts(s) \/ HandlerReturns(s) PROVE FilterInv'
  BY <1>13 DEF HandlerStarts, HandlerReturns, wfpVars
<1>14. QED
  BY <1>1, <1>2, <1>3, <1>4, <1>5, <1>6, <1>7, <1>8, <1>9, <1>10, <1>11, <1>12, <1>13
     DEF Next, EntryStep

\* Every step leaves handlers only to registered callbacks, or to DriverEntry
\* waiting for them.
LEMMA HandlerStep ==
    ASSUME IInv, [Next]_vars
    PROVE  HandlerInv'
<1> USE AfterCall DEF IInv, HandlerInv
<1>1. CASE Load \/ LoadVerifier \/ OpenEngine \/ BeginTransaction \/ AddSubLayer
           \/ AddFilter \/ AllAdded \/ Commit
  BY <1>1 DEF Load, LoadVerifier, OpenEngine, BeginTransaction, AddSubLayer, AddFilter,
              AllAdded, Commit
<1>2. CASE Register \/ RegisterMinifilter \/ StartFiltering
  BY <1>2 DEF Register, Registration, RegisterMinifilter, StartFiltering
<1>3. CASE WfpFails \/ CallFails
  BY <1>3 DEF WfpFails, CallFails
<1>4. ASSUME NEW s \in Local, Undo(s) PROVE HandlerInv'
  BY <1>4 DEF Undo
<1>5. CASE UndoFilters \/ UndoEngine \/ ReturnError
  BY <1>5 DEF UndoFilters, UndoEngine, ReturnError, Drained
<1>6. CASE Reboot
  BY <1>6 DEF Reboot
<1>7. CASE BfeStarts \/ UNCHANGED vars
  BY <1>7 DEF BfeStarts, vars
<1>8. ASSUME NEW s \in Callback, HandlerStarts(s) \/ HandlerReturns(s) PROVE HandlerInv'
  BY <1>8 DEF HandlerStarts, HandlerReturns
<1>9. QED
  BY <1>1, <1>2, <1>3, <1>4, <1>5, <1>6, <1>7, <1>8 DEF Next, EntryStep

\* IInv is an invariant of the specification.
LEMMA IInvInvariant == Spec => []IInv
<1>1. IInv /\ [Next]_vars => IInv'
  BY TypeStep, ProgressStep, ObjectStep, FilterStep, HandlerStep DEF IInv
<1>2. QED
  BY InitIInv, <1>1, PTL DEF Spec

-----------------------------------------------------------------------------
\* The filters one by one.

\* The loop of wfp.c 113 stops after n rounds if v has exactly n leading ones.
LEMMA LeadingOnesAt ==
    ASSUME NEW v, NEW n \in 0 .. 8,
           Shifted(v, n) < 128, \A m \in 0 .. n - 1 : Shifted(v, m) >= 128,
           \A m \in 0 .. 8 : Shifted(v, m) \in Nat
    PROVE  LeadingOnes(v) = n
<1> DEFINE P(k) == Shifted(v, k) < 128 /\ \A m \in 0 .. k - 1 : Shifted(v, m) >= 128
<1>1. ASSUME NEW k \in 0 .. 8, P(k) PROVE k = n
  <2>1. CASE k < n
    <3>1. k \in 0 .. n - 1
      BY <2>1
    <3>2. QED
      BY <1>1, <3>1
  <2>2. CASE n < k
    <3>1. n \in 0 .. k - 1
      BY <2>2
    <3>2. QED
      BY <1>1, <3>1
  <2>3. QED
    BY <2>1, <2>2
<1>2. QED
  BY <1>1 DEF LeadingOnes

\* The values of v in that loop for the bytes of the two masks.
LEMMA ShiftedNat ==
    ASSUME NEW v \in 0 .. 255, NEW m \in 0 .. 8
    PROVE  Shifted(v, m) \in Nat
<1>1. m \in {0, 1, 2, 3, 4, 5, 6, 7, 8}
  OBVIOUS
<1>2. 2 ^ 0 = 1 /\ 2 ^ 1 = 2 /\ 2 ^ 2 = 4 /\ 2 ^ 3 = 8 /\ 2 ^ 4 = 16
      /\ 2 ^ 5 = 32 /\ 2 ^ 6 = 64 /\ 2 ^ 7 = 128 /\ 2 ^ 8 = 256
  OBVIOUS
<1>3. /\ 2 ^ 0 \in Nat /\ 2 ^ 1 \in Nat /\ 2 ^ 2 \in Nat /\ 2 ^ 3 \in Nat /\ 2 ^ 4 \in Nat
      /\ 2 ^ 5 \in Nat /\ 2 ^ 6 \in Nat /\ 2 ^ 7 \in Nat /\ 2 ^ 8 \in Nat
  BY <1>2
<1>4. 2 ^ m \in Nat
  BY <1>1, <1>3, Zenon
<1>5. v * 2 ^ m \in Nat
  BY <1>4
<1>6. QED
  BY <1>5 DEF Shifted

LEMMA LeadingOnesValues ==
    LeadingOnes(255) = 8 /\ LeadingOnes(192) = 2 /\ LeadingOnes(254) = 7
<1>1. 2 ^ 0 = 1 /\ 2 ^ 1 = 2 /\ 2 ^ 2 = 4 /\ 2 ^ 3 = 8 /\ 2 ^ 4 = 16
      /\ 2 ^ 5 = 32 /\ 2 ^ 6 = 64 /\ 2 ^ 7 = 128 /\ 2 ^ 8 = 256
  OBVIOUS
<1>2. LeadingOnes(255) = 8
  <2>1. Shifted(255, 8) < 128
    BY <1>1 DEF Shifted
  <2>2. ASSUME NEW m \in 0 .. 7 PROVE Shifted(255, m) >= 128
    <3>1. m \in {0, 1, 2, 3, 4, 5, 6, 7}
      OBVIOUS
    <3>2. /\ Shifted(255, 0) >= 128 /\ Shifted(255, 1) >= 128 /\ Shifted(255, 2) >= 128
          /\ Shifted(255, 3) >= 128 /\ Shifted(255, 4) >= 128 /\ Shifted(255, 5) >= 128
          /\ Shifted(255, 6) >= 128 /\ Shifted(255, 7) >= 128
      BY <1>1 DEF Shifted
    <3>3. QED
      BY <3>1, <3>2, Zenon
  <2>3. QED
    BY <2>1, <2>2, LeadingOnesAt, ShiftedNat
<1>3. LeadingOnes(192) = 2
  <2>1. Shifted(192, 2) < 128
    BY <1>1 DEF Shifted
  <2>2. ASSUME NEW m \in 0 .. 1 PROVE Shifted(192, m) >= 128
    <3>1. m \in {0, 1}
      OBVIOUS
    <3>2. /\ Shifted(192, 0) >= 128 /\ Shifted(192, 1) >= 128
      BY <1>1 DEF Shifted
    <3>3. QED
      BY <3>1, <3>2, Zenon
  <2>3. QED
    BY <2>1, <2>2, LeadingOnesAt, ShiftedNat
<1>4. LeadingOnes(254) = 7
  <2>1. Shifted(254, 7) < 128
    BY <1>1 DEF Shifted
  <2>2. ASSUME NEW m \in 0 .. 6 PROVE Shifted(254, m) >= 128
    <3>1. m \in {0, 1, 2, 3, 4, 5, 6}
      OBVIOUS
    <3>2. /\ Shifted(254, 0) >= 128 /\ Shifted(254, 1) >= 128 /\ Shifted(254, 2) >= 128
          /\ Shifted(254, 3) >= 128 /\ Shifted(254, 4) >= 128 /\ Shifted(254, 5) >= 128
          /\ Shifted(254, 6) >= 128
      BY <1>1 DEF Shifted
    <3>3. QED
      BY <3>1, <3>2, Zenon
  <2>3. QED
    BY <2>1, <2>2, LeadingOnesAt, ShiftedNat
<1>5. QED
  BY <1>2, <1>3, <1>4

\* fe80::/10 and fc00::/7 reach the platform with the masks of ten and seven ones.
LEMMA V6Masks ==
    /\ PrefixMask(PrefixLength(LanV6[1].bytes)) = 65472
    /\ PrefixMask(PrefixLength(LanV6[2].bytes)) = 65024
<1>1. PrefixLength(LanV6[1].bytes) = 10 /\ PrefixLength(LanV6[2].bytes) = 7
  BY LeadingOnesValues DEF PrefixLength, LanV6
<1>2. 65536 - 2 ^ (16 - 10) = 65472 /\ 65536 - 2 ^ (16 - 7) = 65024
  OBVIOUS
<1>3. QED
  BY <1>1, <1>2 DEF PrefixMask

\* The six denying filters cover the six layers, and each matches any flow there.
LEMMA DenyFilters ==
    ASSUME NEW i \in 15 .. 20
    PROVE  /\ Filters[i] = [layer |-> DeniedLayers[i - 14], action |-> 1, net |-> <<0, 0>>,
                            mask |-> <<0, 0>>, port |-> 0, weight |-> 256]
           /\ i \in 1 .. 20
<1>1. Filters[i] = DefaultDeny(DeniedLayers[i - 14])
  BY DEF Filters, FilterCount
<1>2. QED
  BY <1>1 DEF DefaultDeny, Filter, StoredAction, FWP_ACTION_BLOCK, AnyPort, DenyWeight

LEMMA DenyLayers ==
    \A l \in Layer : \E i \in 15 .. 20 : DeniedLayers[i - 14] = l
<1>1. /\ DeniedLayers[15 - 14] = "CONNECT_V4" /\ DeniedLayers[16 - 14] = "CONNECT_V6"
      /\ DeniedLayers[17 - 14] = "RECV_ACCEPT_V4" /\ DeniedLayers[18 - 14] = "RECV_ACCEPT_V6"
      /\ DeniedLayers[19 - 14] = "RESOURCE_ASSIGNMENT_V4"
      /\ DeniedLayers[20 - 14] = "RESOURCE_ASSIGNMENT_V6"
  BY DEF DeniedLayers
<1>2. QED
  BY <1>1 DEF Layer

\* The permitting filters, part by part.
LEMMA V4Filters ==
    ASSUME NEW i \in 1 .. 4
    PROVE  /\ Filters[i] = [layer |-> "CONNECT_V4", action |-> 2,
                  net |-> <<LanV4[i].net, 0>>, mask |-> <<LanV4[i].mask, 0>>,
                  port |-> 0, weight |-> 61440]
           /\ Filters[i + 4] = [layer |-> "RECV_ACCEPT_V4", action |-> 2,
                  net |-> <<LanV4[i].net, 0>>, mask |-> <<LanV4[i].mask, 0>>,
                  port |-> 0, weight |-> 61440]
<1>1. /\ Filters[i] = V4LanPermit("CONNECT_V4", i)
      /\ Filters[i + 4] = V4LanPermit("RECV_ACCEPT_V4", i + 4 - 4)
  BY DEF Filters, FilterCount
<1>2. i + 4 - 4 = i
  OBVIOUS
<1>3. QED
  BY <1>1, <1>2
     DEF V4LanPermit, Filter, StoredAction, FWP_ACTION_PERMIT, AnyPort, PermitWeight

LEMMA MulticastFilters ==
    ASSUME NEW i \in 1 .. 2
    PROVE  Filters[i + 8] = [layer |-> "CONNECT_V4", action |-> 2,
                  net |-> Discovery[i].addr, mask |-> <<65535, 65535>>,
                  port |-> Discovery[i].port, weight |-> 61440]
<1>1. Filters[i + 8] = MulticastDiscovery("CONNECT_V4", i + 8 - 8)
  BY DEF Filters, FilterCount
<1>2. i + 8 - 8 = i
  OBVIOUS
<1>3. QED
  BY <1>1, <1>2 DEF MulticastDiscovery, Filter, StoredAction, FWP_ACTION_PERMIT, PermitWeight

LEMMA V6Filters ==
    ASSUME NEW i \in 1 .. 2
    PROVE  /\ Filters[i + 10] = [layer |-> "CONNECT_V6", action |-> 2,
                  net |-> <<LanV6[i].net, 0>>,
                  mask |-> <<PrefixMask(PrefixLength(LanV6[i].bytes)), 0>>,
                  port |-> 0, weight |-> 61440]
           /\ Filters[i + 12] = [layer |-> "RECV_ACCEPT_V6", action |-> 2,
                  net |-> <<LanV6[i].net, 0>>,
                  mask |-> <<PrefixMask(PrefixLength(LanV6[i].bytes)), 0>>,
                  port |-> 0, weight |-> 61440]
<1>1. /\ Filters[i + 10] = V6LanPermit("CONNECT_V6", i + 10 - 10)
      /\ Filters[i + 12] = V6LanPermit("RECV_ACCEPT_V6", i + 12 - 12)
  BY DEF Filters, FilterCount
<1>2. i + 10 - 10 = i /\ i + 12 - 12 = i
  OBVIOUS
<1>3. QED
  BY <1>1, <1>2
     DEF V6LanPermit, Filter, StoredAction, FWP_ACTION_PERMIT, AnyPort, PermitWeight

\* A group is a number below 2^16.
LEMMA GroupRange ==
    /\ \A x \in Group : x \in Nat /\ x <= 65535
    /\ \A x \in Nat : x <= 65535 => x \in Group
<1>1. MaxGroup \in Nat /\ \A x \in Nat : x <= MaxGroup <=> x <= 65535
  BY DEF MaxGroup
<1>2. \A x : x \in Group <=> x \in Nat /\ x <= MaxGroup
  BY <1>1 DEF Group
<1>3. QED
  BY <1>1, <1>2

\* A full mask leaves all of a group, an empty one nothing.
LEMMA FullMask ==
    ASSUME NEW x \in Group
    PROVE  Masked(x, 65535) = x
<1>1. x \in Nat
  BY GroupRange
<1>2. x % 1 = 0 /\ 65536 - 65535 = 1 /\ x - 0 = x
  BY <1>1
<1>3. QED
  BY <1>2 DEF Masked

LEMMA EmptyMask ==
    ASSUME NEW x \in Group
    PROVE  Masked(x, 0) = 0
<1>1. x \in Nat /\ x <= 65535
  BY GroupRange
<1>2. x % 65536 = x /\ 65536 - 0 = 65536 /\ x - x = 0
  BY <1>1
<1>3. QED
  BY <1>2 DEF Masked

\* The parts of a flow.
LEMMA FlowTypes ==
    ASSUME NEW flow \in Flow
    PROVE  /\ flow.layer \in Layer
           /\ flow.addr[1] \in Group /\ flow.addr[2] \in Group
           /\ flow.port \in Group
<1>1. /\ flow.layer \in Layer /\ flow.port \in Group
      /\ flow.addr \in [1 .. 2 -> Group]
  BY DEF Flow
<1>2. 1 \in 1 .. 2 /\ 2 \in 1 .. 2
  OBVIOUS
<1>3. QED
  BY <1>1, <1>2

\* The two groups of an address are tested one by one.
LEMMA MatchesBoth ==
    ASSUME NEW f, NEW flow
    PROVE  Matches(f, flow) <=>
             /\ f.layer = flow.layer
             /\ Masked(flow.addr[1], f.mask[1]) = Masked(f.net[1], f.mask[1])
             /\ Masked(flow.addr[2], f.mask[2]) = Masked(f.net[2], f.mask[2])
             /\ f.port = AnyPort \/ f.port = flow.port
<1>1. \A g : g \in 1 .. 2 <=> g = 1 \/ g = 2
  OBVIOUS
<1>2. QED
  BY <1>1 DEF Matches

\* The four IPv4 ranges by their octets, and the two IPv6 ranges.
LEMMA V4Masks ==
    ASSUME NEW x \in Group
    PROVE  /\ Masked(x, LanV4[1].mask) = Masked(LanV4[1].net, LanV4[1].mask) <=> x \div 256 = 10
           /\ Masked(x, LanV4[2].mask) = Masked(LanV4[2].net, LanV4[2].mask)
                <=> x \div 256 = 172 /\ x % 256 \in 16 .. 31
           /\ Masked(x, LanV4[3].mask) = Masked(LanV4[3].net, LanV4[3].mask)
                <=> x \div 256 = 192 /\ x % 256 = 168
           /\ Masked(x, LanV4[4].mask) = Masked(LanV4[4].net, LanV4[4].mask)
                <=> x \div 256 = 169 /\ x % 256 = 254
<1>1. /\ LanV4[1] = [net |-> 2560, mask |-> 65280]
      /\ LanV4[2] = [net |-> 44048, mask |-> 65520]
      /\ LanV4[3] = [net |-> 49320, mask |-> 65535]
      /\ LanV4[4] = [net |-> 43518, mask |-> 65535]
  BY DEF LanV4, Octets
<1>0. x \in Nat /\ x <= 65535
  BY GroupRange
<1>2. Masked(x, 65280) = Masked(2560, 65280) <=> x \div 256 = 10
  BY <1>0 DEF Masked
<1>3. Masked(x, 65520) = Masked(44048, 65520) <=> x \div 256 = 172 /\ x % 256 \in 16 .. 31
  BY <1>0 DEF Masked
<1>4. x = 49320 <=> x \div 256 = 192 /\ x % 256 = 168
  BY <1>0
<1>5. x = 43518 <=> x \div 256 = 169 /\ x % 256 = 254
  BY <1>0
<1>6. x \in Group /\ 49320 \in Group /\ 43518 \in Group
  BY GroupRange
<1>7. /\ Masked(x, 65535) = Masked(49320, 65535) <=> x = 49320
      /\ Masked(x, 65535) = Masked(43518, 65535) <=> x = 43518
  BY <1>6, FullMask
<1>8. QED
  BY <1>1, <1>2, <1>3, <1>4, <1>5, <1>7

LEMMA V6Ranges ==
    ASSUME NEW x \in Group
    PROVE  LET mask(i) == PrefixMask(PrefixLength(LanV6[i].bytes))
           IN  /\ Masked(x, mask(1)) = Masked(LanV6[1].net, mask(1)) <=> x \in 65152 .. 65215
               /\ Masked(x, mask(2)) = Masked(LanV6[2].net, mask(2)) <=> x \div 256 \in 252 .. 253
<1>1. LanV6[1].net = 65152 /\ LanV6[2].net = 64512
  BY DEF LanV6, Octets
<1>0. x \in Nat /\ x <= 65535
  BY GroupRange
<1>2. Masked(x, 65472) = Masked(65152, 65472) <=> x \in 65152 .. 65215
  BY <1>0 DEF Masked
<1>3. Masked(x, 65024) = Masked(64512, 65024) <=> x \div 256 \in 252 .. 253
  BY <1>0 DEF Masked
<1>4. QED
  BY <1>1, <1>2, <1>3, V6Masks

\* Which flows the permitting filters of each kind match.
LEMMA V4Matches ==
    ASSUME NEW flow \in Flow
    PROVE  LET a == flow.addr[1] \div 256
               b == flow.addr[1] % 256
           IN  (\E i \in 1 .. 8 : Matches(Filters[i], flow))
                 <=> /\ flow.layer \in {"CONNECT_V4", "RECV_ACCEPT_V4"}
                     /\ \/ a = 10
                        \/ a = 172 /\ b \in 16 .. 31
                        \/ a = 192 /\ b = 168
                        \/ a = 169 /\ b = 254
<1> DEFINE x == flow.addr[1]
           y == flow.addr[2]
           In(i) == Masked(x, LanV4[i].mask) = Masked(LanV4[i].net, LanV4[i].mask)
<1>1. x \in Group /\ y \in Group
  BY FlowTypes
<1>2. Masked(y, 0) = Masked(0, 0)
  BY <1>1, GroupRange, EmptyMask
<1>3. ASSUME NEW i \in 1 .. 4
      PROVE  /\ Matches(Filters[i], flow) <=> flow.layer = "CONNECT_V4" /\ In(i)
             /\ Matches(Filters[i + 4], flow) <=> flow.layer = "RECV_ACCEPT_V4" /\ In(i)
  <2>1. ASSUME NEW l,
               NEW f, f = [layer |-> l, action |-> 2, net |-> <<LanV4[i].net, 0>>,
                           mask |-> <<LanV4[i].mask, 0>>, port |-> 0, weight |-> 61440]
        PROVE  Matches(f, flow) <=> flow.layer = l /\ In(i)
    <3>1. /\ f.layer = l /\ f.port = 0
          /\ f.net[1] = LanV4[i].net /\ f.net[2] = 0
          /\ f.mask[1] = LanV4[i].mask /\ f.mask[2] = 0
      BY <2>1
    <3>2. QED
      BY <1>2, <3>1, MatchesBoth DEF AnyPort
  <2>2. QED
    BY <2>1, V4Filters
<1>4. /\ In(1) <=> x \div 256 = 10
      /\ In(2) <=> x \div 256 = 172 /\ x % 256 \in 16 .. 31
      /\ In(3) <=> x \div 256 = 192 /\ x % 256 = 168
      /\ In(4) <=> x \div 256 = 169 /\ x % 256 = 254
  BY <1>1, V4Masks
<1> HIDE DEF In
<1>5. (\E i \in 1 .. 8 : Matches(Filters[i], flow))
        <=> /\ flow.layer \in {"CONNECT_V4", "RECV_ACCEPT_V4"}
            /\ \E i \in 1 .. 4 : In(i)
  <2>1. \A i \in 1 .. 8 : i \in 1 .. 4 \/ (i - 4 \in 1 .. 4 /\ (i - 4) + 4 = i)
    OBVIOUS
  <2>2. \A i \in 1 .. 4 : i \in 1 .. 8 /\ i + 4 \in 1 .. 8
    OBVIOUS
  <2>3. QED
    BY <1>3, <2>1, <2>2
<1>6. (\E i \in 1 .. 4 : In(i)) <=> In(1) \/ In(2) \/ In(3) \/ In(4)
  <2>1. \A i : i \in 1 .. 4 <=> i = 1 \/ i = 2 \/ i = 3 \/ i = 4
    OBVIOUS
  <2>2. QED
    BY <2>1
<1>7. QED
  BY <1>4, <1>5, <1>6

LEMMA V6Matches ==
    ASSUME NEW flow \in Flow
    PROVE  (\E i \in 11 .. 14 : Matches(Filters[i], flow))
             <=> /\ flow.layer \in {"CONNECT_V6", "RECV_ACCEPT_V6"}
                 /\ flow.addr[1] \in 65152 .. 65215 \/ flow.addr[1] \div 256 \in 252 .. 253
<1> DEFINE x == flow.addr[1]
           y == flow.addr[2]
           mask(i) == PrefixMask(PrefixLength(LanV6[i].bytes))
           In(i) == Masked(x, mask(i)) = Masked(LanV6[i].net, mask(i))
<1>1. x \in Group /\ y \in Group
  BY FlowTypes
<1>2. Masked(y, 0) = Masked(0, 0)
  BY <1>1, GroupRange, EmptyMask
<1>3. ASSUME NEW i \in 1 .. 2
      PROVE  /\ Matches(Filters[i + 10], flow) <=> flow.layer = "CONNECT_V6" /\ In(i)
             /\ Matches(Filters[i + 12], flow) <=> flow.layer = "RECV_ACCEPT_V6" /\ In(i)
  <2>1. ASSUME NEW l,
               NEW f, f = [layer |-> l, action |-> 2, net |-> <<LanV6[i].net, 0>>,
                           mask |-> <<mask(i), 0>>, port |-> 0, weight |-> 61440]
        PROVE  Matches(f, flow) <=> flow.layer = l /\ In(i)
    <3>1. /\ f.layer = l /\ f.port = 0
          /\ f.net[1] = LanV6[i].net /\ f.net[2] = 0
          /\ f.mask[1] = mask(i) /\ f.mask[2] = 0
      BY <2>1
    <3>2. QED
      BY <1>2, <3>1, MatchesBoth DEF AnyPort
  <2>2. QED
    BY <2>1, V6Filters
<1>4. /\ In(1) <=> x \in 65152 .. 65215
      /\ In(2) <=> x \div 256 \in 252 .. 253
  BY <1>1, V6Ranges
<1> HIDE DEF In
<1>5. (\E i \in 11 .. 14 : Matches(Filters[i], flow))
        <=> /\ flow.layer \in {"CONNECT_V6", "RECV_ACCEPT_V6"}
            /\ In(1) \/ In(2)
  <2>1. \A i : i \in 11 .. 14 <=> i = 1 + 10 \/ i = 2 + 10 \/ i = 1 + 12 \/ i = 2 + 12
    OBVIOUS
  <2>2. 1 \in 1 .. 2 /\ 2 \in 1 .. 2
    OBVIOUS
  <2>3. /\ Matches(Filters[1 + 10], flow) <=> flow.layer = "CONNECT_V6" /\ In(1)
        /\ Matches(Filters[2 + 10], flow) <=> flow.layer = "CONNECT_V6" /\ In(2)
        /\ Matches(Filters[1 + 12], flow) <=> flow.layer = "RECV_ACCEPT_V6" /\ In(1)
        /\ Matches(Filters[2 + 12], flow) <=> flow.layer = "RECV_ACCEPT_V6" /\ In(2)
    BY <1>3, <2>2
  <2>4. QED
    BY <2>1, <2>3
<1>6. QED
  BY <1>4, <1>5

LEMMA MulticastMatches ==
    ASSUME NEW flow \in Flow
    PROVE  (\E i \in 9 .. 10 : Matches(Filters[i], flow))
             <=> flow \in {[layer |-> "CONNECT_V4", addr |-> <<57344, 251>>, port |-> 5353],
                           [layer |-> "CONNECT_V4", addr |-> <<61439, 65530>>, port |-> 1900]}
<1> DEFINE x == flow.addr[1]
           y == flow.addr[2]
<1>1. x \in Group /\ y \in Group
  BY FlowTypes
<1>2. /\ Discovery[1].addr = <<57344, 251>> /\ Discovery[1].port = 5353
      /\ Discovery[2].addr = <<61439, 65530>> /\ Discovery[2].port = 1900
  BY DEF Discovery, Octets
<1>3. 57344 \in Group /\ 251 \in Group /\ 61439 \in Group /\ 65530 \in Group
  BY GroupRange
<1>4. ASSUME NEW i \in 1 .. 2, NEW u \in Group, NEW v \in Group, NEW p \in Nat \ {0},
             Discovery[i].addr = <<u, v>>, Discovery[i].port = p
      PROVE  Matches(Filters[i + 8], flow) <=>
                /\ flow.layer = "CONNECT_V4" /\ x = u /\ y = v /\ flow.port = p
  <2> DEFINE f == Filters[i + 8]
  <2>1. /\ f.layer = "CONNECT_V4" /\ f.port = p
        /\ f.net[1] = u /\ f.net[2] = v
        /\ f.mask[1] = 65535 /\ f.mask[2] = 65535
    BY <1>4, MulticastFilters
  <2>2. /\ Masked(x, 65535) = Masked(u, 65535) <=> x = u
        /\ Masked(y, 65535) = Masked(v, 65535) <=> y = v
    BY <1>1, FullMask
  <2> HIDE DEF f
  <2>3. Matches(f, flow) <=>
                /\ flow.layer = "CONNECT_V4" /\ x = u /\ y = v /\ flow.port = p
    BY <2>1, <2>2, MatchesBoth DEF AnyPort
  <2>4. QED
    BY <2>3 DEF f
<1>5. ASSUME NEW u, NEW v, NEW p
      PROVE  flow = [layer |-> "CONNECT_V4", addr |-> <<u, v>>, port |-> p]
               <=> flow.layer = "CONNECT_V4" /\ x = u /\ y = v /\ flow.port = p
  <2>1. flow = [layer |-> flow.layer, addr |-> flow.addr, port |-> flow.port]
    BY DEF Flow
  <2>2. flow.addr = <<x, y>>
    <3>1. flow.addr \in [1 .. 2 -> Group]
      BY DEF Flow
    <3>2. QED
      BY <3>1
  <2>3. QED
    BY <2>1, <2>2
<1>6. /\ Matches(Filters[1 + 8], flow) <=>
           flow = [layer |-> "CONNECT_V4", addr |-> <<57344, 251>>, port |-> 5353]
      /\ Matches(Filters[2 + 8], flow) <=>
           flow = [layer |-> "CONNECT_V4", addr |-> <<61439, 65530>>, port |-> 1900]
  <2>1. 1 \in 1 .. 2 /\ 2 \in 1 .. 2 /\ 5353 \in Nat \ {0} /\ 1900 \in Nat \ {0}
    OBVIOUS
  <2>2. Matches(Filters[1 + 8], flow) <=>
           /\ flow.layer = "CONNECT_V4" /\ x = 57344 /\ y = 251 /\ flow.port = 5353
    BY <1>2, <1>3, <1>4, <2>1
  <2>3. Matches(Filters[2 + 8], flow) <=>
           /\ flow.layer = "CONNECT_V4" /\ x = 61439 /\ y = 65530 /\ flow.port = 1900
    BY <1>2, <1>3, <1>4, <2>1
  <2>4. QED
    BY <1>5, <2>2, <2>3
<1>7. \A i : i \in 9 .. 10 <=> i = 1 + 8 \/ i = 2 + 8
  OBVIOUS
<1>8. QED
  BY <1>6, <1>7

\* The permitting filters outweigh the denying ones, one of which matches any flow: a
\* flow is let through just when a permitting filter matches it.
LEMMA PermitDecides ==
    ASSUME NEW flow \in Flow
    PROVE  Permitted(1 .. 20, flow) <=> \E i \in 1 .. 14 : Matches(Filters[i], flow)
<1> DEFINE hits == {i \in 1 .. 20 : Matches(Filters[i], flow)}
<1>1. \A i \in 1 .. 14 : Filters[i].weight = 61440 /\ Filters[i].action = 2
  <2>1. \A i \in 1 .. 14 : \/ i \in 1 .. 4
                           \/ i - 4 \in 1 .. 4 /\ (i - 4) + 4 = i
                           \/ i - 8 \in 1 .. 2 /\ (i - 8) + 8 = i
                           \/ i - 10 \in 1 .. 2 /\ (i - 10) + 10 = i
                           \/ i - 12 \in 1 .. 2 /\ (i - 12) + 12 = i
    OBVIOUS
  <2>2. /\ \A i \in 1 .. 4 : /\ Filters[i].weight = 61440 /\ Filters[i].action = 2
                             /\ Filters[i + 4].weight = 61440 /\ Filters[i + 4].action = 2
        /\ \A i \in 1 .. 2 : /\ Filters[i + 8].weight = 61440 /\ Filters[i + 8].action = 2
                             /\ Filters[i + 10].weight = 61440 /\ Filters[i + 10].action = 2
                             /\ Filters[i + 12].weight = 61440 /\ Filters[i + 12].action = 2
    BY V4Filters, MulticastFilters, V6Filters
  <2>3. QED
    BY <2>1, <2>2
<1>2. \A i \in 15 .. 20 : Filters[i].weight = 256 /\ Filters[i].action = 1
  BY DenyFilters
<1>3. \E i \in 15 .. 20 : i \in hits
  <2>1. flow.layer \in Layer /\ flow.addr[1] \in Group /\ flow.addr[2] \in Group
    BY FlowTypes
  <2>2. PICK i \in 15 .. 20 : DeniedLayers[i - 14] = flow.layer
    BY <2>1, DenyLayers
  <2>3. /\ Filters[i].layer = flow.layer /\ Filters[i].port = 0
        /\ Filters[i].net[1] = 0 /\ Filters[i].net[2] = 0
        /\ Filters[i].mask[1] = 0 /\ Filters[i].mask[2] = 0
    BY <2>2, DenyFilters
  <2>4. Masked(flow.addr[1], 0) = Masked(0, 0) /\ Masked(flow.addr[2], 0) = Masked(0, 0)
    BY <2>1, GroupRange, EmptyMask
  <2>5. Matches(Filters[i], flow)
    BY <2>3, <2>4, MatchesBoth DEF AnyPort
  <2>6. QED
    BY <2>5
<1>4. 2 % 256 = FWP_ACTION_PERMIT % 256 /\ 1 % 256 # FWP_ACTION_PERMIT % 256
  BY DEF FWP_ACTION_PERMIT
<1>5. Permitted(1 .. 20, flow) <=>
        \E i \in hits : /\ \A j \in hits : Filters[j].weight <= Filters[i].weight
                        /\ Filters[i].action % 256 = FWP_ACTION_PERMIT % 256
  BY <1>3 DEF Permitted
<1>6. \A i \in 1 .. 20 : i \in 1 .. 14 \/ i \in 15 .. 20
  OBVIOUS
<1>7. ASSUME NEW i \in hits, Filters[i].action % 256 = FWP_ACTION_PERMIT % 256
      PROVE  i \in 1 .. 14
  BY <1>2, <1>4, <1>6, <1>7
<1>8. ASSUME NEW i \in 1 .. 14, Matches(Filters[i], flow)
      PROVE  /\ i \in hits
             /\ \A j \in hits : Filters[j].weight <= Filters[i].weight
             /\ Filters[i].action % 256 = FWP_ACTION_PERMIT % 256
  <2>1. i \in hits
    BY <1>8
  <2>2. \A j \in hits : Filters[j].weight = 61440 \/ Filters[j].weight = 256
    BY <1>1, <1>2, <1>6
  <2>3. Filters[i].weight = 61440 /\ Filters[i].action = 2
    BY <1>1
  <2>4. \A j \in hits : Filters[j].weight <= Filters[i].weight
    <3>1. 61440 <= 61440 /\ 256 <= 61440
      OBVIOUS
    <3>2. QED
      BY <2>2, <2>3, <3>1
  <2>5. QED
    BY <1>4, <2>1, <2>3, <2>4
<1>9. QED
  BY <1>5, <1>7, <1>8

-----------------------------------------------------------------------------
\* The types, among them that the list of filters fits its table (wfp.c 53-60).
THEOREM TypeCorrect == Spec => []TypeOK
<1>1. IInv => TypeOK
  BY DEF IInv
<1>2. QED
  BY IInvInvariant, <1>1, PTL

\* DriverEntry ends with everything in place or with nothing left, whatever
\* fails and however often it is tried (lockguard.c 421-495).
THEOREM AllOrNothingTheorem == Spec => []AllOrNothing
<1>1. IInv => AllOrNothing
  <2>1. ASSUME IInv, pc = "up"
        PROVE  objects = Object /\ installed = Everything /\ session = "open"
    BY <2>1 DEF IInv, TypeOK, ProgressInv, ObjectInv, FilterInv, Object, Callback
  <2>2. ASSUME IInv, pc = "unloaded"
        PROVE  objects = {} /\ installed = {} /\ running = {} /\ session = "none"
    BY <2>2 DEF IInv, TypeOK, ProgressInv, ObjectInv, FilterInv, HandlerInv, Object, Callback
  <2>3. QED
    BY <2>1, <2>2 DEF AllOrNothing
<1>2. QED
  BY IInvInvariant, <1>1, PTL

\* No callback is registered unless all filters are in force.
THEOREM DefendersTheorem == Spec => []DefendersBehindFilter
<1>1. ASSUME IInv, NEW s \in objects \cap Callback PROVE installed = Everything
  <2>1. "registry" \in created
    BY <1>1 DEF IInv, ProgressInv, ChainInv, ObjectInv, Callback
  <2>2. QED
    BY <1>1, <2>1 DEF IInv, ChainInv, FilterInv
<1>2. IInv => DefendersBehindFilter
  BY <1>1 DEF DefendersBehindFilter
<1>3. QED
  BY IInvInvariant, <1>2, PTL

\* The filters together let through the LAN and the two discovery addresses, and
\* nothing else, whatever the address and the port (wfp.c 61-211).
THEOREM PolicyTheorem ==
    \A flow \in Flow : Permitted(AllFilters, flow) <=> OnLan(flow)
<1> SUFFICES ASSUME NEW flow \in Flow PROVE Permitted(AllFilters, flow) <=> OnLan(flow)
  OBVIOUS
<1> DEFINE a == flow.addr[1] \div 256
           b == flow.addr[1] % 256
           V4 == flow.layer \in {"CONNECT_V4", "RECV_ACCEPT_V4"}
           V6 == flow.layer \in {"CONNECT_V6", "RECV_ACCEPT_V6"}
           Private == \/ a = 10
                      \/ a = 172 /\ b \in 16 .. 31
                      \/ a = 192 /\ b = 168
                      \/ a = 169 /\ b = 254
           Found == flow \in {[layer |-> "CONNECT_V4", addr |-> <<57344, 251>>, port |-> 5353],
                              [layer |-> "CONNECT_V4", addr |-> <<61439, 65530>>, port |-> 1900]}
           Local6 == flow.addr[1] \in 65152 .. 65215 \/ a \in 252 .. 253
<1>1. AllFilters = 1 .. 20
  BY DEF AllFilters, FilterCount
<1>2. \A i : i \in 1 .. 14 <=> i \in 1 .. 8 \/ i \in 9 .. 10 \/ i \in 11 .. 14
  OBVIOUS
<1>3. Permitted(AllFilters, flow) <=> (V4 /\ Private) \/ Found \/ (V6 /\ Local6)
  <2>1. (\E i \in 1 .. 8 : Matches(Filters[i], flow)) <=> V4 /\ Private
    BY V4Matches
  <2>2. (\E i \in 9 .. 10 : Matches(Filters[i], flow)) <=> Found
    BY MulticastMatches
  <2>3. (\E i \in 11 .. 14 : Matches(Filters[i], flow)) <=> V6 /\ Local6
    BY V6Matches
  <2>4. Permitted(AllFilters, flow) <=> \E i \in 1 .. 14 : Matches(Filters[i], flow)
    BY <1>1, PermitDecides
  <2> HIDE DEF V4, V6, Private, Found, Local6
  <2>5. QED
    BY <1>2, <2>1, <2>2, <2>3, <2>4
<1>4. Found => V4
  OBVIOUS
<1>5. ~(V4 /\ V6)
  OBVIOUS
<1>6. OnLan(flow) <=> IF V4 THEN Private \/ Found ELSE V6 /\ Local6
  <2>1. CASE V4
    BY <1>5, <2>1 DEF OnLan
  <2>2. CASE V6
    BY <1>5, <2>2 DEF OnLan
  <2>3. CASE ~V4 /\ ~V6
    BY <2>3 DEF OnLan
  <2>4. QED
    BY <2>1, <2>2, <2>3
<1> HIDE DEF V4, V6, Private, Found, Local6
<1>7. QED
  BY <1>3, <1>4, <1>5, <1>6

\* What the network enforces is nothing or the LAN policy, whatever fails and when
\* (wfp.c 162-236).
THEOREM NetworkTheorem == Spec => []NetworkWhole
<1>1. IInv => NetworkWhole
  <2> SUFFICES ASSUME IInv, pc # "undoClose", installed # {}
               PROVE  \A flow \in Flows : Permitted(installed \ {SubLayer}, flow) <=> OnLan(flow)
    BY DEF NetworkWhole
  <2>1. installed = Everything
    BY DEF IInv, FilterInv
  <2>2. installed \ {SubLayer} = AllFilters
    BY <2>1 DEF Everything, AllFilters, SubLayer
  <2>3. QED
    BY <2>2, PolicyTheorem, DriverEntryAssumption
<1>2. QED
  BY IInvInvariant, <1>1, PTL
=============================================================================
