---------------------------- MODULE WatchdogProofs ----------------------------
(* Proofs about Watchdog for any number of interfaces, drifts and faults: what *)
(* one pass of the loop guarantees.                                            *)
EXTENDS Watchdog, WellFoundedInduction, TLAPS

-----------------------------------------------------------------------------
\* The inductive invariant: PassRemedies at every step of the pass.

\* The settings whose checks come before a step of the loop.
Before == [p \in PC |->
    CASE p \in {"driver", "audio"} -> {}
      [] p = "endpoint" -> {"audio"}
      [] p = "bcd" -> {"audio", "endpoint"}
      [] p = "policy" -> {"audio", "endpoint", "bcd"}
      [] p \in {"wlan", "wlanPermit", "wlanDeny", "ifeo"} ->
             {"audio", "endpoint", "bcd", "policy"}
      [] p = "files" -> Setting \ {"files"}
      [] OTHER -> Setting]

SettingInv == Alive => drifted \cap Before[pc] \subseteq excused

DriverInv == Alive /\ pc # "driver" => driverUp \/ "driver" \in excused

\* While the lists are being set, the interfaces that are not left are filtered, and
\* the one in work has its permit list.
ListInv ==
    Alive /\ pc \in {"wlanPermit", "wlanDeny"} =>
        /\ queue # {}
        /\ "wlan" \notin excused =>
              /\ queue \subseteq present
              /\ \A i \in present \ queue : AsFarAsSeen(i)
              /\ pc = "wlanDeny" => "permit" \in lists[Current]

FilteredInv ==
    Alive /\ pc \in {"ifeo", "files", "heartbeat", "wait"} /\ ssidKnown /\ "wlan" \notin excused
        => \A i \in present : AsFarAsSeen(i)

\* The two deny-all entries of an interface come and go together, unless a drift
\* has taken one of them.
DenyInv ==
    \A i \in Iface :
        \/ DenyAll \cap lists[i] = {} \/ DenyAll \subseteq lists[i]
        \/ i \in eroded

PassInv == SettingInv /\ DriverInv /\ ListInv /\ FilteredInv /\ DenyInv

IInv == TypeOK /\ PassInv

-----------------------------------------------------------------------------
\* Typing.

LEMMA Names ==
    /\ {"audio", "endpoint", "bcd", "policy", "ifeo", "files"} \subseteq PC
    /\ {"wait", "driver", "wlan", "wlanPermit", "wlanDeny", "heartbeat"} \subseteq PC
    /\ Setting \subseteq PC
BY DEF PC, Setting

LEMMA Types == TypeOK /\ [Next]_vars => TypeOK'
<1> SUFFICES ASSUME TypeOK, [Next]_vars PROVE TypeOK'
  OBVIOUS
<1> USE WatchdogAssumption DEF TypeOK
<1> USE Names DEF Advance
<1>1. CASE BeginPass
  BY <1>1 DEF BeginPass, driver, wlan, bounds
<1>2. CASE EnsureDriverRunning
  BY <1>2 DEF EnsureDriverRunning, wlan, bounds
<1>3. CASE Heartbeat
  BY <1>3 DEF Heartbeat, driver, wlan, bounds
<1>4. CASE CheckWLAN
  BY <1>4 DEF CheckWLAN, driver, wlan, bounds
<1>5. CASE SetPermit
  <2>1. lists' \in [Iface -> SUBSET Entry]
    BY <1>5 DEF SetPermit, Entry, DenyAll
  <2>2. QED
    BY <1>5, <2>1 DEF SetPermit, driver, bounds
<1>6. CASE SetDeny
  <2>1. lists' \in [Iface -> SUBSET Entry]
    BY <1>6 DEF SetDeny, Entry, DenyAll
  <2>2. QED
    BY <1>6, <2>1 DEF SetDeny, Left, driver, bounds
<1>7. CASE IfaceGone
  BY <1>7 DEF IfaceGone, driver, wlan, bounds
<1>8. ASSUME NEW s \in Setting, CheckSetting(s) \/ CheckDenied(s) \/ CheckFails(s)
      PROVE  TypeOK'
  <2>1. s \in PC /\ s = pc /\ s \in Setting
    BY <1>8 DEF CheckSetting, CheckDenied, CheckFails
  <2>2. NextCheck[s] \in PC
    BY DEF NextCheck, Setting
  <2>3. CASE CheckSetting(s)
    BY <2>2, <2>3 DEF CheckSetting, Remedied, driver, wlan, bounds
  <2>4. CASE CheckDenied(s)
    BY <2>2, <2>4 DEF CheckDenied, AfterDenied, driver, wlan, bounds
  <2>5. CASE CheckFails(s)
    BY <2>2, <2>5 DEF CheckFails, driver, wlan
  <2>6. QED
    BY <1>8, <2>3, <2>4, <2>5
<1>9. CASE DriverStartFails
  BY <1>9 DEF DriverStartFails, driver, wlan
<1>10. CASE WLANFails
  BY <1>10 DEF WLANFails, driver, wlan
<1>11. CASE StopLoop \/ Restart \/ Shutdown
  BY <1>11 DEF StopLoop, Restart, Shutdown, driver, wlan, bounds
<1>12. CASE Crash \/ Reboot
  <2>1. CASE Crash
    BY <2>1 DEF Crash, driver, wlan
  <2>2. CASE Reboot
    <3>1. driverUp' \in BOOLEAN /\ windowOpen' \in BOOLEAN
      BY <2>2 DEF Reboot
    <3>2. /\ svc' = "running" /\ pc' \in PC /\ faults' \in 0 .. MaxFaults
          /\ beats' \in 0 .. 1 /\ queue' = {} /\ excused' = {}
      BY <2>2 DEF Reboot
    <3>3. /\ drifted' = drifted /\ present' = present /\ lists' = lists
          /\ ssidKnown' = ssidKnown /\ drifts' = drifts /\ eroded' = eroded
      BY <2>2 DEF Reboot, wlan
    <3>4. QED
      BY <3>1, <3>2, <3>3
  <2>3. QED
    BY <1>12, <2>1, <2>2
<1>13. CASE ToggleWindow
  BY <1>13 DEF ToggleWindow, wlan, bounds
<1>14. CASE SettingDrifts
  BY <1>14 DEF SettingDrifts, driver, wlan
<1>15. CASE WLANDrifts
  <2>1. present' \subseteq Iface
    BY <1>15 DEF WLANDrifts
  <2>2. lists' \in [Iface -> SUBSET Entry]
    BY <1>15 DEF WLANDrifts
  <2>3. eroded' \subseteq Iface
    BY <1>15 DEF WLANDrifts, Halved
  <2>4. QED
    BY <1>15, <2>1, <2>2, <2>3 DEF WLANDrifts, driver
<1>16. CASE SSIDPicked
  BY <1>16 DEF SSIDPicked, driver, bounds
<1>17. CASE UNCHANGED vars
  BY <1>17 DEF vars, driver, wlan, bounds
<1>18. QED
  BY <1>1, <1>2, <1>3, <1>4, <1>5, <1>6, <1>7, <1>8, <1>9, <1>10, <1>11, <1>12,
     <1>13, <1>14, <1>15, <1>16, <1>17
     DEF Next, PassStep, FailingStep, Environment

LEMMA InitTypes == Init => TypeOK
<1>1. ASSUME Init PROVE lists \in [Iface -> SUBSET Entry]
  BY <1>1 DEF Init
<1>2. ASSUME Init PROVE driverUp \in BOOLEAN /\ windowOpen \in BOOLEAN /\ ssidKnown \in BOOLEAN
  BY <1>2 DEF Init
<1>3. ASSUME Init PROVE drifts \in 0 .. MaxDrifts /\ faults \in 0 .. MaxFaults /\ beats \in 0 .. 1
  BY <1>3, WatchdogAssumption DEF Init
<1>4. QED
  BY <1>1, <1>2, <1>3, Names DEF Init, TypeOK

\* The loop's variables always have the types that its checks presuppose.
THEOREM TypeCorrect == Spec => []TypeOK
BY InitTypes, Types, PTL DEF Spec

-----------------------------------------------------------------------------
\* What each part of the invariant needs of the order of the checks.

LEMMA BeforeValues ==
    /\ Before["driver"] = {} /\ Before["audio"] = {}
    /\ Before["endpoint"] = {"audio"}
    /\ Before["bcd"] = {"audio", "endpoint"}
    /\ Before["policy"] = {"audio", "endpoint", "bcd"}
    /\ \A p \in {"wlan", "wlanPermit", "wlanDeny", "ifeo"} :
          Before[p] = {"audio", "endpoint", "bcd", "policy"}
    /\ Before["files"] = Setting \ {"files"}
    /\ Before["heartbeat"] = Setting /\ Before["wait"] = Setting
BY Names DEF Before

\* A check adds only itself to what comes before the next step, and leads neither back
\* to the start of the pass nor into the middle of the interfaces.
LEMMA NextCheckOrder ==
    ASSUME NEW s \in Setting
    PROVE  /\ Before[NextCheck[s]] \subseteq Before[s] \cup {s}
           /\ NextCheck[s] \notin {"driver", "wait", "wlanPermit", "wlanDeny"}
           /\ NextCheck[s] \in {"ifeo", "files", "heartbeat"} => s \in {"ifeo", "files"}
<1>1. s \in {"audio", "endpoint", "bcd", "policy", "ifeo", "files"}
  BY DEF Setting
<1>2. Before[NextCheck[s]] \subseteq Before[s] \cup {s}
  BY <1>1, BeforeValues DEF NextCheck, Setting
<1>3. QED
  BY <1>1, <1>2 DEF NextCheck

\* The loop is at one of its interfaces.
LEMMA CurrentIn ==
    ASSUME queue \subseteq Iface, queue # {}
    PROVE  Current \in queue
<1>1. queue \subseteq Nat
  BY WatchdogAssumption DEF Iface
<1>2. PICK i \in queue : \A j \in queue : <<j, i>> \notin OpToRel(<, Nat)
  BY <1>1, WFMin, NatLessThanWellFounded
<1>3. \A j \in queue : ~(j < i)
  BY <1>1, <1>2 DEF OpToRel
<1>4. \A j \in queue : i <= j
  BY <1>1, <1>3
<1>5. QED
  BY <1>4 DEF Current

\* What wlanFiltersOK finds in order is filtered, as far as it can see.
LEMMA FilterOKFiltered ==
    ASSUME TypeOK, DenyInv, NEW i \in Iface, FilterOK(i)
    PROVE  AsFarAsSeen(i)
<1>1. lists[i] \subseteq {"permit"} \cup DenyAll /\ "permit" \in lists[i]
  BY DEF TypeOK, FilterOK, Entry
<1>2. DenyAll \cap lists[i] # {}
  BY <1>1 DEF FilterOK
<1>3. i \in eroded \/ DenyAll \subseteq lists[i]
  BY <1>2 DEF DenyInv
<1>4. QED
  BY <1>1, <1>3 DEF AsFarAsSeen, Filtered, Entry

-----------------------------------------------------------------------------
\* The parts of the invariant, one action at a time.

\* The steps of one setting's check, and what becomes of the rest meanwhile.
LEMMA SettingSteps ==
    ASSUME NEW s \in Setting, CheckSetting(s) \/ CheckDenied(s) \/ CheckFails(s)
    PROVE  /\ Alive /\ pc = s /\ pc' = NextCheck[s]
           /\ (drifted' = drifted \ {s} /\ excused' = excused \ {s})
                \/ (drifted' = drifted /\ excused' = excused \cup {s})
           /\ UNCHANGED <<svc, driverUp, present, lists, eroded, ssidKnown>>
BY DEF CheckSetting, CheckDenied, CheckFails, Advance, AfterDenied, Remedied, driver, wlan

LEMMA SettingStep == IInv /\ [Next]_vars => SettingInv'
<1> SUFFICES ASSUME TypeOK, SettingInv, [Next]_vars PROVE SettingInv'
  BY DEF IInv, PassInv
<1> USE DEF SettingInv
<1>1. CASE BeginPass \/ EnsureDriverRunning \/ DriverStartFails \/ Restart \/ Reboot
  <2>1. pc' \in {"driver", "audio"}
    BY <1>1 DEF BeginPass, EnsureDriverRunning, DriverStartFails, Restart, Reboot, Advance
  <2>2. QED
    BY <2>1, BeforeValues
<1>2. CASE Heartbeat
  BY <1>2, BeforeValues DEF Heartbeat, Advance, Alive
<1>3. CASE CheckWLAN \/ SetPermit \/ SetDeny \/ IfaceGone \/ WLANFails
  <2>1. /\ Alive /\ drifted' = drifted /\ excused \cap Setting \subseteq excused'
        /\ pc \in {"wlan", "wlanPermit", "wlanDeny"}
        /\ pc' \in {"wlanPermit", "wlanDeny", "ifeo"}
    BY <1>3 DEF CheckWLAN, SetPermit, SetDeny, IfaceGone, WLANFails, Advance, Setting
  <2>2. Before[pc'] = Before[pc] /\ Before[pc] \subseteq Setting
    BY <2>1, BeforeValues DEF Setting
  <2>3. QED
    BY <2>1, <2>2
<1>4. ASSUME NEW s \in Setting, CheckSetting(s) \/ CheckDenied(s) \/ CheckFails(s)
      PROVE  SettingInv'
  <2>1. Before[NextCheck[s]] \subseteq Before[s] \cup {s}
    BY NextCheckOrder
  <2>2. drifted \cap Before[s] \subseteq excused
    BY <1>4, SettingSteps
  <2>3. drifted' \cap (Before[s] \cup {s}) \subseteq excused'
    BY <1>4, <2>2, SettingSteps
  <2>4. pc' = NextCheck[s]
    BY <1>4, SettingSteps
  <2>5. QED
    BY <2>1, <2>3, <2>4
<1>5. CASE StopLoop \/ Crash
  BY <1>5 DEF StopLoop, Crash, Alive
<1>6. CASE Shutdown \/ ToggleWindow \/ WLANDrifts \/ SSIDPicked
  BY <1>6 DEF Shutdown, ToggleWindow, WLANDrifts, SSIDPicked, Alive
<1>7. CASE SettingDrifts
  BY <1>7 DEF SettingDrifts, Alive
<1>8. CASE UNCHANGED vars
  BY <1>8 DEF vars, Alive
<1>9. QED
  BY <1>1, <1>2, <1>3, <1>4, <1>5, <1>6, <1>7, <1>8
     DEF Next, PassStep, FailingStep, Environment

LEMMA DriverStep == IInv /\ [Next]_vars => DriverInv'
<1> SUFFICES ASSUME TypeOK, DriverInv, [Next]_vars PROVE DriverInv'
  BY DEF IInv, PassInv
<1> USE DEF DriverInv
<1>1. CASE BeginPass \/ Restart \/ Reboot
  BY <1>1 DEF BeginPass, Restart, Reboot, Advance
<1>2. CASE EnsureDriverRunning \/ DriverStartFails
  BY <1>2 DEF EnsureDriverRunning, DriverStartFails
<1>3. CASE Heartbeat \/ CheckWLAN \/ SetPermit \/ SetDeny \/ IfaceGone \/ WLANFails
  <2>1. /\ Alive /\ pc # "driver" /\ driverUp' = driverUp
        /\ "driver" \in excused => "driver" \in excused'
    BY <1>3 DEF Heartbeat, CheckWLAN, SetPermit, SetDeny, IfaceGone, WLANFails, Advance, driver
  <2>2. QED
    BY <2>1
<1>4. ASSUME NEW s \in Setting, CheckSetting(s) \/ CheckDenied(s) \/ CheckFails(s)
      PROVE  DriverInv'
  <2>1. s # "driver"
    BY DEF Setting
  <2>2. QED
    BY <1>4, <2>1, SettingSteps
<1>5. CASE StopLoop \/ Crash
  BY <1>5 DEF StopLoop, Crash, Alive
<1>6. CASE Shutdown \/ WLANDrifts \/ SSIDPicked \/ SettingDrifts
  BY <1>6 DEF Shutdown, WLANDrifts, SSIDPicked, SettingDrifts, Alive, driver
<1>7. CASE ToggleWindow
  BY <1>7 DEF ToggleWindow, Alive
<1>8. CASE UNCHANGED vars
  BY <1>8 DEF vars, Alive, driver
<1>9. QED
  BY <1>1, <1>2, <1>3, <1>4, <1>5, <1>6, <1>7, <1>8
     DEF Next, PassStep, FailingStep, Environment

\* Setting the deny list of an interface leaves it filtered, like those before it.
LEMMA SetDenyFilters ==
    ASSUME TypeOK, ListInv, SetDeny, "wlan" \notin excused, NEW i \in present \ queue'
    PROVE  AsFarAsSeen(i)'
<1>1. /\ Alive /\ pc = "wlanDeny" /\ queue' = queue \ {Current}
      /\ lists' = [lists EXCEPT ![Current] = @ \cup DenyAll]
      /\ eroded' = eroded \ {Current}
  BY DEF SetDeny, Advance, Left
<1>2. Current \in queue /\ Current \in Iface
  BY <1>1, CurrentIn DEF TypeOK, ListInv
<1>3. CASE i = Current
  <2>1. "permit" \in lists[Current]
    BY <1>1 DEF ListInv
  <2>2. lists'[Current] = lists[Current] \cup DenyAll /\ lists[Current] \subseteq Entry
    BY <1>1, <1>2 DEF TypeOK
  <2>3. QED
    BY <1>3, <2>1, <2>2 DEF AsFarAsSeen, Filtered, Entry
<1>4. CASE i # Current
  <2>1. AsFarAsSeen(i) /\ i \in Iface
    BY <1>1, <1>4 DEF ListInv, TypeOK
  <2>2. lists'[i] = lists[i] /\ (i \in eroded' <=> i \in eroded)
    BY <1>1, <1>4, <2>1 DEF TypeOK
  <2>3. QED
    BY <2>1, <2>2 DEF AsFarAsSeen, Filtered
<1>5. QED
  BY <1>3, <1>4

LEMMA ListStep == IInv /\ [Next]_vars => ListInv'
<1> SUFFICES ASSUME TypeOK, ListInv, [Next]_vars PROVE ListInv'
  BY DEF IInv, PassInv
<1> DEFINE Within == {"wlanPermit", "wlanDeny"}
<1>1. CASE BeginPass \/ EnsureDriverRunning \/ DriverStartFails \/ Heartbeat \/ Restart
             \/ Reboot \/ IfaceGone \/ WLANFails
  <2>1. pc' \notin Within
    BY <1>1 DEF BeginPass, EnsureDriverRunning, DriverStartFails, Heartbeat, Restart,
         Reboot, IfaceGone, WLANFails, Advance
  <2>2. QED
    BY <2>1 DEF ListInv
<1>2. CASE CheckWLAN
  <2>1. /\ pc' # "wlanDeny"
        /\ pc' = "wlanPermit" => queue' # {} /\ queue' = present
        /\ present' = present
    BY <1>2 DEF CheckWLAN, Advance, wlan
  <2>2. QED
    BY <2>1 DEF ListInv
<1>3. CASE SetPermit
  <2>1. /\ Alive /\ pc = "wlanPermit" /\ pc' = "wlanDeny"
        /\ UNCHANGED <<queue, present, eroded, excused>>
        /\ lists' = [lists EXCEPT ![Current] = @ \cup {"permit"}]
    BY <1>3 DEF SetPermit, Advance
  <2>2. queue # {}
    BY <2>1 DEF ListInv
  <2>3. Current \in queue /\ Current \in Iface /\ Current' = Current
    BY <2>1, <2>2, CurrentIn DEF TypeOK, Current
  <2>4. "permit" \in lists'[Current]
    BY <2>1, <2>3 DEF TypeOK
  <2>5. ASSUME "wlan" \notin excused, NEW i \in present \ queue PROVE AsFarAsSeen(i)'
    <3>1. AsFarAsSeen(i) /\ i # Current /\ i \in Iface
      BY <2>1, <2>3, <2>5 DEF ListInv, TypeOK
    <3>2. lists'[i] = lists[i] /\ eroded' = eroded
      BY <2>1, <3>1 DEF TypeOK
    <3>3. QED
      BY <3>1, <3>2 DEF AsFarAsSeen, Filtered
  <2>6. "wlan" \notin excused => queue \subseteq present
    BY <2>1 DEF ListInv
  <2>7. QED
    BY <2>1, <2>2, <2>3, <2>4, <2>5, <2>6 DEF ListInv
<1>4. CASE SetDeny
  <2>1. /\ Alive /\ pc = "wlanDeny" /\ pc' = IF queue' = {} THEN "ifeo" ELSE "wlanPermit"
        /\ queue' = queue \ {Current} /\ UNCHANGED <<present, excused>>
    BY <1>4 DEF SetDeny, Advance, Left
  <2>2. "wlan" \notin excused => queue' \subseteq present
    BY <2>1 DEF ListInv
  <2>3. "wlan" \notin excused => \A i \in present \ queue' : AsFarAsSeen(i)'
    BY <1>4, SetDenyFilters
  <2>4. QED
    BY <2>1, <2>2, <2>3 DEF ListInv
<1>5. ASSUME NEW s \in Setting, CheckSetting(s) \/ CheckDenied(s) \/ CheckFails(s)
      PROVE  ListInv'
  <2>1. pc' \notin Within
    BY <1>5, SettingSteps, NextCheckOrder
  <2>2. QED
    BY <2>1 DEF ListInv
<1>6. CASE StopLoop \/ Crash
  BY <1>6 DEF StopLoop, Crash, Alive, ListInv
<1>7. CASE WLANDrifts \/ SSIDPicked
  <2>1. "wlan" \in excused' /\ UNCHANGED <<svc, pc, queue>>
    BY <1>7 DEF WLANDrifts, SSIDPicked
  <2>2. QED
    BY <2>1 DEF ListInv, Alive
<1>8. CASE Shutdown \/ ToggleWindow \/ SettingDrifts \/ UNCHANGED vars
  <2>1. /\ Alive' => Alive
        /\ UNCHANGED <<pc, queue, present, lists, eroded>>
        /\ "wlan" \in excused => "wlan" \in excused'
    BY <1>8 DEF Shutdown, ToggleWindow, SettingDrifts, vars, wlan, Alive
  <2>2. Current' = Current
    BY <2>1 DEF Current
  <2>3. \A i : AsFarAsSeen(i)' <=> AsFarAsSeen(i)
    BY <2>1 DEF AsFarAsSeen, Filtered
  <2>4. QED
    BY <2>1, <2>2, <2>3 DEF ListInv
<1>9. QED
  BY <1>1, <1>2, <1>3, <1>4, <1>5, <1>6, <1>7, <1>8
     DEF Next, PassStep, FailingStep, Environment

LEMMA DenyStep == IInv /\ [Next]_vars => DenyInv'
<1> SUFFICES ASSUME TypeOK, ListInv, DenyInv, [Next]_vars PROVE DenyInv'
  BY DEF IInv, PassInv
<1>1. CASE SetPermit
  <2>1. /\ lists' = [lists EXCEPT ![Current] = @ \cup {"permit"}] /\ eroded' = eroded
    BY <1>1 DEF SetPermit
  <2>2. \A i \in Iface : DenyAll \cap lists'[i] = DenyAll \cap lists[i]
    BY <2>1 DEF TypeOK, DenyAll
  <2>3. QED
    BY <2>1, <2>2 DEF DenyInv
<1>2. CASE SetDeny
  <2>1. /\ lists' = [lists EXCEPT ![Current] = @ \cup DenyAll] /\ eroded' = eroded \ {Current}
    BY <1>2 DEF SetDeny
  <2>2. \A i \in Iface :
           IF i = Current THEN DenyAll \subseteq lists'[i]
           ELSE lists'[i] = lists[i] /\ (i \in eroded' <=> i \in eroded)
    BY <2>1 DEF TypeOK
  <2>3. QED
    BY <2>2 DEF DenyInv
<1>3. CASE WLANDrifts
  <2>1. CASE UNCHANGED <<lists, eroded>>
    BY <2>1 DEF DenyInv
  <2>2. ASSUME NEW i \in Iface, NEW gone \in SUBSET lists[i],
               lists' = [lists EXCEPT ![i] = @ \ gone],
               eroded' = IF DenyAll \subseteq lists[i] THEN eroded \cup Halved(i, gone)
                         ELSE IF DenyAll \cap lists[i] \subseteq gone THEN eroded \ {i}
                         ELSE eroded
        PROVE  DenyInv'
    <3>1. \A j \in Iface \ {i} : lists'[j] = lists[j] /\ (j \in eroded' <=> j \in eroded)
      BY <2>2 DEF TypeOK, Halved
    <3>2. lists'[i] = lists[i] \ gone
      BY <2>2 DEF TypeOK
    <3>3. CASE DenyAll \subseteq lists[i]
      <4>1. DenyAll \cap lists'[i] = DenyAll \ gone
        BY <3>2, <3>3
      <4>2. DenyAll \ gone = {} \/ DenyAll \ gone = DenyAll \/ i \in eroded'
        BY <2>2, <3>3 DEF Halved
      <4>3. QED
        BY <3>1, <4>1, <4>2 DEF DenyInv
    <3>4. CASE ~(DenyAll \subseteq lists[i])
      <4>1. DenyAll \cap lists'[i] = {} \/ i \in eroded'
        BY <2>2, <3>2, <3>4 DEF DenyInv
      <4>2. QED
        BY <3>1, <4>1 DEF DenyInv
    <3>5. QED
      BY <3>3, <3>4
  <2>3. QED
    BY <1>3, <2>1, <2>2 DEF WLANDrifts
<1>4. ASSUME NEW s \in Setting, CheckSetting(s) \/ CheckDenied(s) \/ CheckFails(s)
      PROVE  DenyInv'
  BY <1>4, SettingSteps DEF DenyInv
<1>5. CASE BeginPass \/ EnsureDriverRunning \/ DriverStartFails \/ Heartbeat \/ Restart
             \/ Reboot \/ CheckWLAN \/ IfaceGone \/ WLANFails \/ StopLoop \/ Crash \/ SSIDPicked
             \/ Shutdown \/ ToggleWindow \/ SettingDrifts \/ UNCHANGED vars
  <2>1. UNCHANGED <<lists, eroded>>
    BY <1>5 DEF BeginPass, EnsureDriverRunning, DriverStartFails, Heartbeat, Restart, Reboot,
         CheckWLAN, IfaceGone, WLANFails, StopLoop, Crash, SSIDPicked, Shutdown, ToggleWindow,
         SettingDrifts, vars, wlan
  <2>2. QED
    BY <2>1 DEF DenyInv
<1>6. QED
  BY <1>1, <1>2, <1>3, <1>4, <1>5 DEF Next, PassStep, FailingStep, Environment

LEMMA FilteredStep == IInv /\ [Next]_vars => FilteredInv'
<1> SUFFICES ASSUME TypeOK, DenyInv, ListInv, ListInv', FilteredInv, [Next]_vars PROVE FilteredInv'
  BY ListStep DEF IInv, PassInv
<1> DEFINE After == {"ifeo", "files", "heartbeat", "wait"}
<1>1. CASE BeginPass \/ EnsureDriverRunning \/ DriverStartFails \/ Restart \/ Reboot \/ SetPermit
  <2>1. pc' \notin After
    BY <1>1 DEF BeginPass, EnsureDriverRunning, DriverStartFails, Restart, Reboot, SetPermit,
         Advance
  <2>2. QED
    BY <2>1 DEF FilteredInv
<1>2. CASE Heartbeat \/ Shutdown \/ ToggleWindow \/ SettingDrifts \/ UNCHANGED vars
  <2>1. /\ Alive' => Alive
        /\ pc' \in After => pc \in After
        /\ UNCHANGED <<present, lists, eroded, ssidKnown>>
        /\ "wlan" \in excused => "wlan" \in excused'
    BY <1>2 DEF Heartbeat, Shutdown, ToggleWindow, SettingDrifts, Advance, vars, wlan, Alive
  <2>2. \A i : AsFarAsSeen(i)' <=> AsFarAsSeen(i)
    BY <2>1 DEF AsFarAsSeen, Filtered
  <2>3. QED
    BY <2>1, <2>2 DEF FilteredInv
<1>3. CASE CheckWLAN
  <2>1. /\ pc' \in After /\ ssidKnown => \A i \in present : FilterOK(i)
        /\ UNCHANGED <<present, lists, eroded, ssidKnown>>
    BY <1>3 DEF CheckWLAN, Advance, wlan
  <2>2. \A i \in present : FilterOK(i) => AsFarAsSeen(i)
    BY FilterOKFiltered DEF TypeOK
  <2>3. \A i : AsFarAsSeen(i)' <=> AsFarAsSeen(i)
    BY <2>1 DEF AsFarAsSeen, Filtered
  <2>4. QED
    BY <2>1, <2>2, <2>3 DEF FilteredInv
<1>4. CASE SetDeny
  <2>1. /\ pc' \in After => queue' = {}
        /\ UNCHANGED <<present, excused>>
    BY <1>4 DEF SetDeny, Advance, Left
  <2>2. "wlan" \notin excused => \A i \in present \ queue' : AsFarAsSeen(i)'
    BY <1>4, SetDenyFilters
  <2>3. QED
    BY <2>1, <2>2 DEF FilteredInv
<1>5. CASE IfaceGone
  <2>1. /\ Alive /\ pc \in {"wlanPermit", "wlanDeny"} /\ Current \notin present
        /\ UNCHANGED excused
    BY <1>5 DEF IfaceGone
  <2>2. Current \in queue
    BY <2>1, CurrentIn DEF TypeOK, ListInv
  <2>3. "wlan" \in excused
    BY <2>1, <2>2 DEF ListInv
  <2>4. QED
    BY <2>1, <2>3 DEF FilteredInv
<1>6. CASE WLANFails \/ WLANDrifts \/ SSIDPicked
  <2>1. "wlan" \in excused'
    BY <1>6 DEF WLANFails, WLANDrifts, SSIDPicked
  <2>2. QED
    BY <2>1 DEF FilteredInv
<1>7. ASSUME NEW s \in Setting, CheckSetting(s) \/ CheckDenied(s) \/ CheckFails(s)
      PROVE  FilteredInv'
  <2>1. /\ pc' \in After => Alive /\ pc \in After
        /\ UNCHANGED <<present, lists, eroded, ssidKnown>>
        /\ s # "wlan"
        /\ "wlan" \in excused => "wlan" \in excused'
    BY <1>7, SettingSteps, NextCheckOrder DEF Setting
  <2>2. \A i : AsFarAsSeen(i)' <=> AsFarAsSeen(i)
    BY <2>1 DEF AsFarAsSeen, Filtered
  <2>3. QED
    BY <2>1, <2>2 DEF FilteredInv
<1>8. CASE StopLoop \/ Crash
  BY <1>8 DEF StopLoop, Crash, Alive, FilteredInv
<1>9. QED
  BY <1>1, <1>2, <1>3, <1>4, <1>5, <1>6, <1>7, <1>8
     DEF Next, PassStep, FailingStep, Environment

-----------------------------------------------------------------------------
\* The theorem.

LEMMA Invariance == Spec => []IInv
<1>1. Init => IInv
  <2>1. Init => PassInv
    BY BeforeValues DEF Init, PassInv, SettingInv, DriverInv, ListInv, FilteredInv, DenyInv
  <2>2. Init => TypeOK
    BY InitTypes
  <2>3. QED
    BY <2>1, <2>2 DEF IInv
<1>2. IInv /\ [Next]_vars => IInv'
  BY Types, SettingStep, DriverStep, ListStep, DenyStep, FilteredStep DEF IInv, PassInv
<1>3. QED
  BY <1>1, <1>2, PTL DEF Spec

\* One pass is enough: whatever is not as installed between two passes drifted after its
\* check of that pass, or that very check was denied or failed (enforce_windows.go
\* 47-70, wlan_windows.go 208-288).
THEOREM PassTheorem == Spec => []PassRemedies
<1>1. IInv => PassRemedies
  <2>1. drifted \subseteq Setting => drifted \cap Setting = drifted
    OBVIOUS
  <2>2. QED
    BY <2>1, BeforeValues
       DEF IInv, TypeOK, PassInv, SettingInv, DriverInv, FilteredInv, AsFarAsSeen, PassRemedies
<1>2. QED
  BY <1>1, Invariance, PTL
=============================================================================
