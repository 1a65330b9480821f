---------------------------- MODULE WindowHistory ----------------------------
(* PermissiveWindow with one history variable more: in which states, open or *)
(* closed, each call of LgIsPermissive has seen the window so far.  It says  *)
(* what an answer computed from an unsynchronised flag and a sample older    *)
(* than the lock still means.                                                *)
EXTENDS PermissiveWindow

\* A thread is not held up for a whole grace period between sampling the time and
\* taking the lock.  VerdictFresh needs it: otherwise the lease one check renews
\* from an old sample may be over when the next check is granted its own.
ASSUME HistoryAssumption == Stall < Grace

VARIABLE seen  \* history: values of WindowOpen during each thread's call

histVars == <<clock, gPermissive, gPermissiveExpires, pc, now, opened, promised, seen>>

WindowOpen == gPermissive /\ clock < gPermissiveExpires

InitH == Init /\ seen = [t \in Thread |-> {}]

\* A call has seen every state from the one it began in to the one its verdict
\* was reached in, the state the verdict itself made (a lease) not included.
Observe ==
    seen' = [t \in Thread |->
               IF pc'[t] \in {"idle", "enter", "opening"} THEN {}
               ELSE IF pc[t] \in {"active", "inactive"} THEN seen[t]
               ELSE seen[t] \cup {WindowOpen}]

NextH == Next /\ Observe

SpecH == InitH /\ [][NextH]_histVars

\* An answer of LgIsPermissive was true of the window at some moment of the
\* call: TRUE is never said of a window that was shut throughout the call (the
\* sample is older than the lock, 93-97), FALSE never of one that was open
\* throughout (the fast reject takes no lock, 88-90).
VerdictFresh ==
    \A t \in Thread :
        /\ pc[t] = "active"   => TRUE \in seen[t]
        /\ pc[t] = "inactive" => FALSE \in seen[t]
=============================================================================
