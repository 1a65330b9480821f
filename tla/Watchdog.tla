------------------------------- MODULE Watchdog -------------------------------
(* lockguard-svc.exe: the enforcement loop of watchdog/enforce_windows.go    *)
(* inside the service of watchdog/service_windows.go, the filter lists of    *)
(* watchdog/wlan_windows.go, and what decides whether the remedies get       *)
(* through: the driver, which screens the watchdog's own writes and process  *)
(* starts like everybody else's.                                             *)
(*                                                                           *)
(* One pass runs the checks in order, then sends a heartbeat.  The two       *)
(* checks of files are one step each here, and in detail in module Files.    *)
EXTENDS Naturals

CONSTANTS
    Ifaces,     \* number of WLAN interfaces
    MaxDrifts,  \* bound: how often something drifts
    MaxFaults   \* bound: crashes, reboots and failing remedies together

ASSUME WatchdogAssumption ==
    Ifaces \in Nat /\ MaxDrifts \in Nat /\ MaxFaults \in Nat

\* In the order of their enumeration.
Iface == 1 .. Ifaces

\* Settings that one step checks and remedies.
Setting == {"audio", "endpoint", "bcd", "policy", "ifeo", "files"}

\* What an interface's group policy lists can hold: the printer's network in the
\* permit list, the two deny-all entries in the deny list.
DenyAll == {"infrastructure", "adhoc"}
Entry == {"permit"} \cup DenyAll

VARIABLES
    svc,        \* "running", "down" (SCM will restart it), "stopping", "stopped"
    pc,         \* next step of the loop, "wait" between passes
    driverUp,   \* the driver is loaded
    windowOpen, \* its permissive window is open
    drifted,    \* settings that are not as installed
    present,    \* the interfaces there are
    lists,      \* the entries of each interface's lists
    eroded,     \* history: interfaces that lost one of two deny-all entries to a drift
    ssidKnown,  \* lockguard.json names the printer's network
    queue,      \* interfaces applyWLANFilters has still to do
    beats,      \* heartbeats the driver got, modulo 2
    drifts, faults,
    excused     \* history: what this pass need not have seen to, see PassRemedies

wlan == <<present, lists, eroded, ssidKnown>>
driver == <<driverUp, windowOpen>>
bounds == <<drifts, faults>>
vars == <<svc, pc, driver, drifted, wlan, queue, beats, bounds, excused>>

PC == {"wait", "driver", "wlan", "wlanPermit", "wlanDeny", "heartbeat"} \cup Setting

TypeOK ==
    /\ svc \in {"running", "down", "stopping", "stopped"}
    /\ pc \in PC
    /\ driverUp \in BOOLEAN /\ windowOpen \in BOOLEAN
    /\ drifted \subseteq Setting
    /\ present \subseteq Iface
    /\ lists \in [Iface -> SUBSET Entry]
    /\ eroded \subseteq Iface
    /\ ssidKnown \in BOOLEAN
    /\ queue \subseteq Iface
    /\ beats \in 0 .. 1
    /\ drifts \in 0 .. MaxDrifts /\ faults \in 0 .. MaxFaults
    /\ excused \subseteq Setting \cup {"driver", "wlan"}

\* Installed, booted, the service started; the driver may have failed to load.
\* The lists are empty: netsh.exe, which the installer uses, fills the user's.
Init ==
    /\ svc = "running" /\ pc = "driver"
    /\ driverUp \in BOOLEAN /\ windowOpen = FALSE
    /\ drifted = {}
    /\ present = Iface
    /\ lists = [i \in Iface |-> {}]
    /\ eroded = {}
    /\ ssidKnown \in BOOLEAN
    /\ queue = {}
    /\ beats = 0
    /\ drifts = 0 /\ faults = 0
    /\ excused = {}

-----------------------------------------------------------------------------
\* The driver, seen by the watchdog: regcb.c, minifilter.c and procnotify.c deny
\* guarded requests, and nothing exempts the watchdog.
Locked == driverUp /\ ~windowOpen

\* The remedies it guards: bcdedit.exe is on procnotify.c's list, the IFEO keys
\* on regcb.c's, the files on minifilter.c's.
Guarded == {"bcd", "ifeo", "files"}

\* bcdedit.exe and the IFEO values are used on every pass, files only when
\* they are out of order.
Touched(s) == s \in {"bcd", "ifeo"} \/ s \in drifted

DeniedNow(s) == Locked /\ s \in Guarded /\ Touched(s)

-----------------------------------------------------------------------------
\* The loop.  Each step moves on to the next check whether or not its own
\* failed: errors are only logged (64-70).

Alive == svc \in {"running", "stopping"}

Advance(from, to) == Alive /\ pc = from /\ pc' = to

\* The ticker fires.  select picks at random when the stop channel is closed too.
BeginPass ==
    /\ Advance("wait", "driver")
    /\ excused' = {}
    /\ UNCHANGED <<svc, driver, drifted, wlan, queue, beats, bounds>>

\* ensureDriverRunning: sc start, and DriverEntry succeeds.
EnsureDriverRunning ==
    /\ Advance("driver", "audio")
    /\ driverUp' = TRUE
    /\ UNCHANGED <<svc, windowOpen, drifted, wlan, queue, beats, bounds, excused>>

\* ... or DriverEntry fails.
DriverStartFails ==
    /\ Advance("driver", "audio")
    /\ ~driverUp
    /\ faults < MaxFaults /\ faults' = faults + 1
    /\ excused' = excused \cup {"driver"}
    /\ UNCHANGED <<svc, driver, drifted, wlan, queue, beats, drifts>>

NextCheck == [audio |-> "endpoint", endpoint |-> "bcd", bcd |-> "policy",
              policy |-> "wlan", ifeo |-> "files", files |-> "heartbeat"]

\* Mutant: the service is stopped but its start type is left as it is.
RemediedNothing(s) == drifted

Remedied(s) == drifted \ {s}

\* A check that is not denied anything finds its setting in order or remedies it.
CheckSetting(s) ==
    /\ Advance(s, NextCheck[s])
    /\ ~DeniedNow(s)
    /\ drifted' = Remedied(s)
    /\ excused' = excused \ {s}
    /\ UNCHANGED <<svc, driver, wlan, queue, beats, bounds>>

\* Mutant: a denied check is tried again until it works.
RetryInPlace(s) == s

\* Mutant: the pass ends with the first error.
PassAborted(s) == "heartbeat"

\* A denied check ends with an error that is only logged.
AfterDenied(s) == NextCheck[s]

CheckDenied(s) ==
    /\ Advance(s, AfterDenied(s))
    /\ DeniedNow(s)
    /\ excused' = excused \cup {s}
    /\ UNCHANGED <<svc, driver, drifted, wlan, queue, beats, bounds>>

\* The remedy itself fails (sc.exe, bcdedit.exe, the registry, a file).
CheckFails(s) ==
    /\ Advance(s, NextCheck[s])
    /\ s \in drifted
    /\ faults < MaxFaults /\ faults' = faults + 1
    /\ excused' = excused \cup {s}
    /\ UNCHANGED <<svc, driver, drifted, wlan, queue, beats, drifts>>

\* Mutant: the deny list is not looked at.
FilterPermits(i) == "permit" \in lists[i]

\* wlanFiltersOK, for one interface: the network is permitted, something denied.
FilterOK(i) == "permit" \in lists[i] /\ lists[i] \ {"permit"} # {}

\* ensureWLANFilter: without a network in the configuration there is nothing to
\* do; else every interface is checked, and if one is not in order the lists of all
\* interfaces are set.
CheckWLAN ==
    LET todo == IF ssidKnown /\ \E i \in present : ~FilterOK(i) THEN present ELSE {}
    IN  /\ Advance("wlan", IF todo = {} THEN "ifeo" ELSE "wlanPermit")
        /\ queue' = todo
        /\ excused' = excused \ {"wlan"}
        /\ UNCHANGED <<svc, driver, drifted, wlan, beats, bounds>>

\* applyWLANFilters: the interface it is at.
Current == CHOOSE i \in queue : \A j \in queue : i <= j

\* Its permit list ...
SetPermit ==
    /\ Advance("wlanPermit", "wlanDeny")
    /\ Current \in present
    /\ lists' = [lists EXCEPT ![Current] = @ \cup {"permit"}]
    /\ UNCHANGED <<svc, driver, drifted, present, eroded, ssidKnown, queue, beats, bounds,
                   excused>>

\* Mutant: the loop runs past the last interface.
LeftPastTheEnd == {Current + 1}

\* The interfaces that are left after this one.
Left == queue \ {Current}

\* ... and its deny list.
SetDeny ==
    /\ Advance("wlanDeny", IF Left = {} THEN "ifeo" ELSE "wlanPermit")
    /\ Current \in present
    /\ lists' = [lists EXCEPT ![Current] = @ \cup DenyAll]
    /\ eroded' = eroded \ {Current}
    /\ queue' = Left
    /\ UNCHANGED <<svc, driver, drifted, present, ssidKnown, beats, bounds, excused>>

\* WlanAPI does not know the interface any more: an error ends the check, the
\* interfaces that follow and a missing deny list are left for the next pass.
IfaceGone ==
    /\ Alive /\ pc \in {"wlanPermit", "wlanDeny"} /\ pc' = "ifeo"
    /\ Current \notin present
    /\ queue' = {}
    /\ UNCHANGED <<svc, driver, drifted, wlan, beats, bounds, excused>>

\* Any other failure of WlanAPI or of reading the configuration.
WLANFails ==
    /\ Alive /\ pc \in {"wlan", "wlanPermit", "wlanDeny"} /\ pc' = "ifeo"
    /\ faults < MaxFaults /\ faults' = faults + 1
    /\ queue' = {}
    /\ excused' = excused \cup {"wlan"}
    /\ UNCHANGED <<svc, driver, drifted, wlan, beats, drifts>>

\* sendHeartbeat: fails without the driver, and that is only logged.
Heartbeat ==
    /\ Advance("heartbeat", "wait")
    /\ beats' = IF driverUp THEN 1 - beats ELSE beats
    /\ UNCHANGED <<svc, driver, drifted, wlan, queue, bounds, excused>>

\* The loop sees the stop channel closed; Execute reports Stopped.
StopLoop ==
    /\ svc = "stopping" /\ pc = "wait"
    /\ svc' = "stopped"
    /\ UNCHANGED <<pc, driver, drifted, wlan, queue, beats, bounds, excused>>

PassStep ==
    \/ EnsureDriverRunning \/ Heartbeat
    \/ CheckWLAN \/ SetPermit \/ SetDeny \/ IfaceGone
    \/ \E s \in Setting : CheckSetting(s) \/ CheckDenied(s)

FailingStep == DriverStartFails \/ WLANFails \/ \E s \in Setting : CheckFails(s)

-----------------------------------------------------------------------------
\* The service control manager and the rest of the system (external).

\* Execute gets svc.Shutdown and closes the stop channel.  (svc.Stop is refused
\* and changes nothing, 121-124.)
Shutdown ==
    /\ svc = "running"
    /\ svc' = "stopping"
    /\ UNCHANGED <<pc, driver, drifted, wlan, queue, beats, bounds, excused>>

Crash ==
    /\ Alive
    /\ faults < MaxFaults /\ faults' = faults + 1
    /\ svc' = "down" /\ pc' = "wait" /\ queue' = {}
    /\ excused' = {}
    /\ UNCHANGED <<driver, drifted, wlan, beats, drifts>>

\* SCM runs the recovery action registered by serviceInstall (54-58).
Restart ==
    /\ svc = "down"
    /\ svc' = "running" /\ pc' = "driver"
    /\ UNCHANGED <<driver, drifted, wlan, queue, beats, bounds, excused>>

Reboot ==
    /\ faults < MaxFaults /\ faults' = faults + 1
    /\ svc' = "running" /\ pc' = "driver" /\ queue' = {}
    /\ driverUp' \in BOOLEAN /\ windowOpen' = FALSE
    /\ beats' = 0
    /\ excused' = {}
    /\ UNCHANGED <<drifted, wlan, drifts>>

\* Somebody passes the password exchange; the window ends.
ToggleWindow ==
    /\ driverUp
    /\ windowOpen' = ~windowOpen
    /\ UNCHANGED <<svc, pc, driverUp, drifted, wlan, queue, beats, bounds, excused>>

\* Something drifts.  What the driver guards can only drift while it is not
\* locked.
SettingDrifts ==
    /\ drifts < MaxDrifts /\ drifts' = drifts + 1
    /\ \E s \in Setting :
          /\ s \in Guarded => ~Locked
          /\ drifted' = drifted \cup {s}
          /\ excused' = excused \cup {s}
    /\ UNCHANGED <<svc, pc, driver, wlan, queue, beats, faults>>

\* The interface, if that leaves it one of its two deny-all entries.
Halved(i, gone) == IF DenyAll \ gone \notin {{}, DenyAll} THEN {i} ELSE {}

\* An adapter comes or goes, or somebody deletes entries of its lists.
WLANDrifts ==
    /\ drifts < MaxDrifts /\ drifts' = drifts + 1
    /\ \E i \in Iface :
          \/ /\ present' = (present \ {i}) \cup ({i} \ present)
             /\ UNCHANGED <<lists, eroded>>
          \/ /\ \E gone \in SUBSET lists[i] \ {{}} :
                   /\ lists' = [lists EXCEPT ![i] = @ \ gone]
                   /\ eroded' = IF DenyAll \subseteq lists[i] THEN eroded \cup Halved(i, gone)
                                ELSE IF DenyAll \cap lists[i] \subseteq gone THEN eroded \ {i}
                                ELSE eroded
             /\ UNCHANGED present
    /\ excused' = excused \cup {"wlan"}
    /\ UNCHANGED <<svc, pc, driver, drifted, ssidKnown, queue, beats, faults>>

\* The installer's step 12 writes the network into lockguard.json.
SSIDPicked ==
    /\ ~ssidKnown /\ ssidKnown' = TRUE
    /\ excused' = excused \cup {"wlan"}
    /\ UNCHANGED <<svc, pc, driver, drifted, present, lists, eroded, queue, beats, bounds>>

Environment ==
    \/ Shutdown \/ Crash \/ Reboot \/ ToggleWindow
    \/ SettingDrifts \/ WLANDrifts \/ SSIDPicked

Next == BeginPass \/ PassStep \/ FailingStep \/ StopLoop \/ Restart \/ Environment

Spec == Init /\ [][Next]_vars

\* The ticker keeps firing, the goroutine is scheduled, SCM restarts what
\* crashed, and select does not ignore a closed stop channel for ever.
Fairness ==
    /\ WF_vars(BeginPass) /\ WF_vars(PassStep)
    /\ SF_vars(StopLoop)
    /\ WF_vars(Restart)

FairSpec == Spec /\ Fairness

-----------------------------------------------------------------------------
\* Properties.

\* The printer's network is permitted on an interface and all others, of either type,
\* are denied.
Filtered(i) == lists[i] = Entry

\* ... or a drift has left the interface with one type denied, which wlanFiltersOK takes
\* for all of them (240).
AsFarAsSeen(i) == Filtered(i) \/ i \in eroded

\* One pass is enough: when it is over, every setting is as installed, the driver is
\* up and every interface is filtered, except one whose deny list a drift has eroded.
\* The only other exceptions are what drifted after its own check and the checks that
\* were themselves denied or failed: no error, denial or adapter that goes away keeps a
\* pass from the checks that follow, and no check undoes what an earlier one did
\* (enforce_windows.go 47-70).
PassRemedies ==
    Alive /\ pc = "wait" =>
        /\ drifted \subseteq excused
        /\ driverUp \/ "driver" \in excused
        /\ ssidKnown /\ "wlan" \notin excused =>
             \A i \in present : AsFarAsSeen(i)

\* A shutdown is never lost, whatever check it interrupts: the loop finishes its
\* pass and the service stops (115-120), unless it dies first.
ShutdownCompletes == svc = "stopping" ~> svc # "stopping"

\* As long as the service is not shut down and the driver is up, heartbeats keep
\* reaching the driver: no check, denied or failing, ends the loop.
HeartbeatsContinue ==
    <>[](svc = "running" /\ driverUp) => ([]<>(beats = 0) /\ []<>(beats = 1))

\* Drift is always remedied, across crashes, failing remedies and denied neighbours,
\* as long as the service is there to run: what the driver does not guard in any
\* case, what it guards once it is not locked for good.
DriftRemedied ==
    /\ <>[](svc = "running") => <>[](drifted \subseteq Guarded)
    /\ <>[](svc = "running" /\ ~Locked) => <>[](drifted = {})

\* Every interface ends up with the network permitted and all others denied, for both
\* types of network, although crashes, failures and adapters that go away interrupt the
\* setting of the lists between any two of them (wlan_windows.go 208-288); except one
\* that a drift has left with half of its deny list.
InterfacesFiltered ==
    <>[](svc = "running" /\ ssidKnown) =>
        <>[](\A i \in present : AsFarAsSeen(i))
=============================================================================
