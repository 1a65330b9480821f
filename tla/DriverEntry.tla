----------------------------- MODULE DriverEntry -----------------------------
(* DriverEntry of driver/lockguard.c (421-495) and the initialisers and      *)
(* finalisers it calls in wfp.c, regcb.c, procnotify.c, minifilter.c and     *)
(* obcallback.c: seven subsystems brought up one after another, and taken    *)
(* down in reverse when one fails, while the handlers that are already       *)
(* registered run on other threads.                                          *)
(*                                                                           *)
(* The image is loaded at boot, and again by the watchdog and the scheduled  *)
(* tasks ("sc start") until a DriverEntry has succeeded; it has no unload    *)
(* routine.  Every call may fail; it certainly fails when its name, altitude *)
(* or key is still taken, and FwpmEngineOpen before the base filtering       *)
(* engine (BFE) is up, as it is not when a boot-start driver initialises.    *)
(* A device is not opened before its DriverEntry has returned.               *)
EXTENDS NetworkFilter, FiniteSets

CONSTANTS
    MaxFilters, \* LG_MAX_FILTERS
    MaxFaults,  \* bound: failing calls and reboots together
    Flows       \* the flows NetworkWhole asks about

ASSUME DriverEntryAssumption ==
    /\ MaxFilters \in Nat /\ FilterCount <= MaxFilters
    /\ MaxFaults \in Nat
    /\ Flows \subseteq Flow

VARIABLES
    pc,           \* the next call of DriverEntry, see PC
    created,      \* its locals devCreated, symCreated, wfpUp, regUp, procUp, miniUp
    objects,      \* what the kernel has on the driver's behalf
    session,      \* gEngine: "none", or a session "open" or in a transaction, "tx"
    gFilterCount, \* entries of gFilterIds
    pending,      \* what the open transaction has added
    installed,    \* what the BFE has: the sublayer, and filters by number
    running,      \* callbacks with a handler running on some thread
    bfeUp,        \* the base filtering engine is running
    faults

wfpVars == <<session, gFilterCount, pending, installed>>
vars == <<pc, created, objects, wfpVars, running, bfeUp, faults>>

SubLayer == 0
AllFilters == 1 .. FilterCount
Everything == AllFilters \cup {SubLayer}

\* Handlers the kernel calls, by what makes it call them.
Callback == {"registry", "process", "filtering", "handle"}

Object == {"device", "symlink", "minifilter"} \cup Callback

\* The calls that register one object under a flag of its own.
Registration == {"device", "symlink", "registry", "process", "handle"}

\* Calls in order; "undo" is the label fail, and "undoClose" inside LgWfpFinalize.
After == [device |-> "symlink", symlink |-> "verifier", verifier |-> "engine",
          engine |-> "begin", begin |-> "sublayer", sublayer |-> "add",
          add |-> "commit", commit |-> "registry", registry |-> "process",
          process |-> "register", register |-> "start", start |-> "handle",
          handle |-> "up"]

InitCall == DOMAIN After
WfpCall == {"engine", "begin", "sublayer", "add", "commit"}
PC == InitCall \cup {"unloaded", "up", "undo", "undoClose"}

Local == {"device", "symlink", "wfp", "registry", "process", "minifilter"}

TypeOK ==
    /\ pc \in PC
    /\ created \subseteq Local
    /\ objects \subseteq Object
    /\ session \in {"none", "open", "tx"}
    /\ gFilterCount \in 0 .. FilterCount
    /\ pending \subseteq Everything
    /\ installed \subseteq Everything
    /\ running \subseteq Callback
    /\ bfeUp \in BOOLEAN
    /\ faults \in 0 .. MaxFaults

Init ==
    /\ pc = "unloaded"
    /\ created = {} /\ objects = {}
    /\ session = "none" /\ gFilterCount = 0
    /\ pending = {} /\ installed = {}
    /\ running = {}
    /\ bfeUp \in BOOLEAN
    /\ faults = 0

-----------------------------------------------------------------------------
\* Bringing up.

\* A driver is loaded: fresh globals, DriverEntry is called.
Load ==
    /\ pc = "unloaded"
    /\ pc' = "device"
    /\ gFilterCount' = 0
    /\ UNCHANGED <<created, objects, session, pending, installed, running, bfeUp, faults>>

\* Mutant: the loops add one filter too many.
MoreToAddTooMany == gFilterCount <= FilterCount

\* LgWfpInitialize has filters left to add.
MoreToAdd == gFilterCount < FilterCount

\* The call at pc cannot succeed.
Collides ==
    \/ pc \in Registration /\ pc \in objects
    \/ pc = "register" /\ "minifilter" \in objects
    \/ pc = "engine" /\ ~bfeUp
    \/ pc = "sublayer" /\ SubLayer \in installed
    \/ pc = "add" /\ gFilterCount >= MaxFilters

\* IoCreateDevice, IoCreateSymbolicLink, CmRegisterCallbackEx,
\* PsSetCreateProcessNotifyRoutineEx and ObRegisterCallbacks, each followed by
\* the assignment of its flag.  Nothing can fail after the last, so obUp is of
\* no consequence.
Register ==
    /\ pc \in Registration /\ ~Collides
    /\ objects' = objects \cup {pc}
    /\ created' = created \cup ({pc} \cap Local)
    /\ pc' = After[pc]
    /\ UNCHANGED <<wfpVars, running, bfeUp, faults>>

\* LgRecoveryLoadVerifier: a failure is tolerated (450-460).  RecoveryChannel
\* has the verifier.
LoadVerifier ==
    /\ pc = "verifier"
    /\ pc' = After[pc]
    /\ UNCHANGED <<created, objects, wfpVars, running, bfeUp, faults>>

\* LgWfpInitialize: FwpmEngineOpen, FwpmTransactionBegin, FwpmSubLayerAdd.
OpenEngine ==
    /\ pc = "engine" /\ ~Collides
    /\ session' = "open"
    /\ pc' = After[pc]
    /\ UNCHANGED <<created, objects, gFilterCount, pending, installed, running, bfeUp, faults>>

BeginTransaction ==
    /\ pc = "begin"
    /\ session' = "tx"
    /\ pc' = After[pc]
    /\ UNCHANGED <<created, objects, gFilterCount, pending, installed, running, bfeUp, faults>>

AddSubLayer ==
    /\ pc = "sublayer" /\ ~Collides
    /\ pending' = {SubLayer}
    /\ pc' = After[pc]
    /\ UNCHANGED <<created, objects, session, gFilterCount, installed, running, bfeUp, faults>>

\* LgAddFilter, once for each of the filters.
AddFilter ==
    /\ pc = "add" /\ MoreToAdd /\ ~Collides
    /\ gFilterCount' = gFilterCount + 1
    /\ pending' = pending \cup {gFilterCount + 1}
    /\ UNCHANGED <<pc, created, objects, session, installed, running, bfeUp, faults>>

AllAdded ==
    /\ pc = "add" /\ ~MoreToAdd
    /\ pc' = After[pc]
    /\ UNCHANGED <<created, objects, wfpVars, running, bfeUp, faults>>

\* FwpmTransactionCommit; DriverEntry sets wfpUp.
Commit ==
    /\ pc = "commit"
    /\ session' = "open"
    /\ installed' = installed \cup pending
    /\ pending' = {}
    /\ created' = created \cup {"wfp"}
    /\ pc' = After[pc]
    /\ UNCHANGED <<objects, gFilterCount, running, bfeUp, faults>>

\* LgMiniFilterInitialize: FltRegisterFilter, then FltStartFiltering.
RegisterMinifilter ==
    /\ pc = "register" /\ ~Collides
    /\ objects' = objects \cup {"minifilter"}
    /\ pc' = After[pc]
    /\ UNCHANGED <<created, wfpVars, running, bfeUp, faults>>

StartFiltering ==
    /\ pc = "start"
    /\ objects' = objects \cup {"filtering"}
    /\ created' = created \cup {"minifilter"}
    /\ pc' = After[pc]
    /\ UNCHANGED <<wfpVars, running, bfeUp, faults>>

-----------------------------------------------------------------------------
\* A call fails.

\* A failure that nothing in the state explains.
Fault == faults < MaxFaults /\ faults' = faults + 1

\* The call at pc fails, whether by chance or by collision.
Fails == IF Collides THEN UNCHANGED faults ELSE Fault

\* FWPM_SESSION_FLAG_DYNAMIC: what the session added goes with it.
SessionEnd(i) == {}

\* The label fail of LgWfpInitialize: abort, close.
WfpFails ==
    /\ pc \in WfpCall /\ (pc = "add" => MoreToAdd)
    /\ Fails
    /\ session' = "none"
    /\ pending' = {}
    /\ installed' = SessionEnd(installed)
    /\ pc' = "undo"
    /\ UNCHANGED <<created, objects, gFilterCount, running, bfeUp>>

\* Mutant: the failing FltStartFiltering leaves the filter registered.
LeftRegistered(o) == o

\* LgMiniFilterInitialize unregisters the filter it could not start.
StartUndone(o) == o \ {"minifilter"}

CallFails ==
    /\ pc \in Registration \cup {"register", "start"}
    /\ Fails
    /\ objects' = IF pc = "start" THEN StartUndone(objects) ELSE objects
    /\ pc' = "undo"
    /\ UNCHANGED <<created, wfpVars, running, bfeUp>>

-----------------------------------------------------------------------------
\* The label fail of DriverEntry: what was created is undone in this order.
\* Unregistering a callback waits for its handlers (external): the next step is
\* taken when no handler is running that is no longer registered.

\* Mutant: the order of creation.
UndoOrderForward == <<"device", "symlink", "wfp", "registry", "process", "minifilter">>

UndoOrder == <<"minifilter", "process", "registry", "wfp", "symlink", "device">>

\* The part undone next.
NextUndone(s) ==
    \E i \in 1 .. 6 :
        /\ s = UndoOrder[i] /\ s \in created
        /\ \A j \in 1 .. i - 1 : UndoOrder[j] \notin created

\* Mutant: the symbolic link is forgotten.
RemovedButSymlink(s) == IF s = "symlink" THEN {} ELSE {s}

\* The objects the finaliser of s removes.
Removed(s) == IF s = "minifilter" THEN {"minifilter", "filtering"} ELSE {s}

Drained == running \subseteq objects

Undo(s) ==
    /\ pc = "undo" /\ Drained
    /\ s # "wfp" /\ NextUndone(s)
    /\ created' = created \ {s}
    /\ objects' = objects \ Removed(s)
    /\ UNCHANGED <<pc, wfpVars, running, bfeUp, faults>>

\* LgWfpFinalize: the transaction that deletes filters and sublayer.  The
\* function goes on if it cannot be begun or committed, and also if a filter, and
\* with it the sublayer, cannot be deleted.
UndoFilters ==
    /\ pc = "undo" /\ Drained
    /\ NextUndone("wfp")
    /\ \/ installed' = {} /\ UNCHANGED faults
       \/ Fault /\ UNCHANGED installed
       \/ Fault /\ \E i \in AllFilters : installed' = {SubLayer, i}
    /\ pc' = "undoClose"
    /\ UNCHANGED <<created, objects, session, gFilterCount, pending, running, bfeUp>>

\* ... and FwpmEngineClose.
UndoEngine ==
    /\ pc = "undoClose"
    /\ installed' = SessionEnd(installed)
    /\ session' = "none"
    /\ gFilterCount' = 0
    /\ created' = created \ {"wfp"}
    /\ pc' = "undo"
    /\ UNCHANGED <<objects, pending, running, bfeUp, faults>>

\* DriverEntry returns its error, and the image is unloaded (external).
ReturnError ==
    /\ pc = "undo" /\ Drained
    /\ created = {}
    /\ pc' = "unloaded"
    /\ UNCHANGED <<created, objects, wfpVars, running, bfeUp, faults>>

-----------------------------------------------------------------------------
\* Other threads and the machine (external).

HandlerStarts(s) ==
    /\ s \in objects \cap Callback /\ s \notin running
    /\ running' = running \cup {s}
    /\ UNCHANGED <<pc, created, objects, wfpVars, bfeUp, faults>>

HandlerReturns(s) ==
    /\ s \in running
    /\ running' = running \ {s}
    /\ UNCHANGED <<pc, created, objects, wfpVars, bfeUp, faults>>

BfeStarts ==
    /\ ~bfeUp
    /\ bfeUp' = TRUE
    /\ UNCHANGED <<pc, created, objects, wfpVars, running, faults>>

Reboot ==
    /\ Fault
    /\ pc' = "unloaded" /\ bfeUp' = FALSE
    /\ created' = {} /\ objects' = {} /\ running' = {}
    /\ session' = "none" /\ gFilterCount' = 0 /\ pending' = {} /\ installed' = {}

EntryStep ==
    \/ Register \/ LoadVerifier \/ OpenEngine \/ BeginTransaction \/ AddSubLayer
    \/ AddFilter \/ AllAdded \/ Commit \/ RegisterMinifilter \/ StartFiltering
    \/ WfpFails \/ CallFails
    \/ \E s \in Local : Undo(s)
    \/ UndoFilters \/ UndoEngine \/ ReturnError

Next ==
    \/ Load \/ EntryStep \/ BfeStarts \/ Reboot
    \/ \E s \in Callback : HandlerStarts(s) \/ HandlerReturns(s)

Spec == Init /\ [][Next]_vars

\* DriverEntry and the handlers run to their ends, the BFE comes up, and
\* somebody keeps starting the driver: the watchdog on every tick
\* (enforce_windows.go 102-109), the scheduled tasks besides.
Fairness ==
    /\ WF_vars(Load) /\ WF_vars(EntryStep) /\ WF_vars(BfeStarts)
    /\ \A s \in Callback : WF_vars(HandlerReturns(s))

FairSpec == Spec /\ Fairness

-----------------------------------------------------------------------------
\* Properties.

\* "On any failure it tears down the partial state and returns" (lockguard.c
\* 5-8): whichever calls fail and whatever runs meanwhile, DriverEntry ends with
\* everything in place, or with nothing left: no object, no filter, no session,
\* no handler in an image that is gone.
AllOrNothing ==
    /\ pc = "up" => objects = Object /\ installed = Everything /\ session = "open"
    /\ pc = "unloaded" => objects = {} /\ installed = {} /\ running = {} /\ session = "none"

\* The driver does not defend an open network: while any of its callbacks can be
\* called, all its filters are in force, on the way up and on the way down.
DefendersBehindFilter ==
    objects \cap Callback # {} => installed = Everything

\* RFC 1918 and link-local addresses, by their octets, and the two discovery
\* addresses outbound; no port is to be had (wfp.c 4-6, 131-132, 209).
OnLan(flow) ==
    LET a == flow.addr[1] \div 256
        b == flow.addr[1] % 256
    IN  CASE flow.layer \in {"CONNECT_V4", "RECV_ACCEPT_V4"} ->
               \/ a = 10
               \/ a = 172 /\ b \in 16 .. 31
               \/ a = 192 /\ b = 168
               \/ a = 169 /\ b = 254
               \/ flow \in {[layer |-> "CONNECT_V4", addr |-> <<57344, 251>>, port |-> 5353],
                            [layer |-> "CONNECT_V4", addr |-> <<61439, 65530>>, port |-> 1900]}
          [] flow.layer \in {"CONNECT_V6", "RECV_ACCEPT_V6"} ->
               flow.addr[1] \in 65152 .. 65215 \/ a \in 252 .. 253
          [] OTHER -> FALSE

\* What the network enforces is at every moment either nothing or exactly the
\* LAN policy, never part of it: not while filters are being added one by one,
\* not when the addition fails half way.  (Between the two steps of LgWfpFinalize
\* a filter that could not be deleted is on its own.)
NetworkWhole ==
    \/ installed = {} \/ pc = "undoClose"
    \/ \A flow \in Flows : Permitted(installed \ {SubLayer}, flow) <=> OnLan(flow)

\* Although a boot-start driver finds no BFE and fails, and any other call may
\* fail at any time: once the failures end, repeated starts bring the driver up,
\* and it stays.  No failed attempt leaves a name behind that stops the next.
DriverComesUp == <>[](pc = "up")
=============================================================================
