------------------------------ MODULE Challenge ------------------------------
(* What GET_NONCE and UNLOCK of driver/lockguard.c promise, without the      *)
(* nonces, the buffer all clients share, the verifier and the handlers'      *)
(* steps: a challenge can be answered once, by the client it was issued to,  *)
(* within TTL, and only until somebody else draws or spends one; nothing but *)
(* an answered challenge opens the window.                                   *)
EXTENDS Naturals

CONSTANTS
    Client,   \* whoever issues IOCTLs
    TTL,      \* LG_NONCE_TTL_SECONDS
    Window,   \* LG_UNLOCK_WINDOW_SECONDS
    MaxTime   \* bound: the clock stops here

VARIABLES
    clock,     \* system time
    deadline,  \* end of the window the last answer opened
    exchange,  \* what has become of each client's challenge
    issued     \* when it was issued, 0 if it no longer matters

challengeVars == <<clock, deadline, exchange, issued>>

Init ==
    /\ clock = 1
    /\ deadline = 0
    /\ exchange = [c \in Client |-> "none"]
    /\ issued = [c \in Client |-> 0]

Tick ==
    /\ clock < MaxTime
    /\ clock' = clock + 1
    /\ UNCHANGED <<deadline, exchange, issued>>

\* The exchanges of everybody but c come to nothing, unless their challenge has
\* already been spent; c's goes on to the state given.
Displace(c, state) ==
    exchange' = [d \in Client |-> IF d = c THEN state
                                  ELSE IF exchange[d] = "live" THEN "none" ELSE exchange[d]]

\* The time of an issue that no longer matters is forgotten.
Stamp(c, s) ==
    issued' = [d \in Client |-> IF d = c THEN s
                                ELSE IF exchange[d] = "live" THEN 0 ELSE issued[d]]

\* c is given a challenge, stamped with a sample of the time.
Issue(c) ==
    /\ exchange[c] = "none"
    /\ Displace(c, "live")
    /\ \E s \in 1 .. clock : Stamp(c, s)
    /\ UNCHANGED <<clock, deadline>>

\* c answers: its own challenge if that is live, else in vain.
Spend(c) ==
    /\ exchange[c] \in {"none", "live"}
    /\ Displace(c, IF exchange[c] = "live" THEN "spent" ELSE "none")
    /\ Stamp(c, issued[c])
    /\ UNCHANGED <<clock, deadline>>

\* The challenge is found to be in time.
Pass(c) ==
    /\ exchange[c] = "spent"
    /\ clock <= issued[c] + TTL
    /\ exchange' = [exchange EXCEPT ![c] = "fresh"]
    /\ issued' = [issued EXCEPT ![c] = 0]
    /\ UNCHANGED <<clock, deadline>>

\* The window is opened, counted from a sample of the time.
Open(c) ==
    /\ exchange[c] = "fresh"
    /\ exchange' = [exchange EXCEPT ![c] = "won"]
    /\ \E s \in 1 .. clock : deadline' = s + Window
    /\ UNCHANGED <<clock, issued>>

\* The exchange ends, one way or the other.
Drop(c) ==
    /\ exchange' = [exchange EXCEPT ![c] = "none"]
    /\ issued' = [issued EXCEPT ![c] = 0]
    /\ UNCHANGED <<clock, deadline>>

Next == Tick \/ \E c \in Client : Issue(c) \/ Spend(c) \/ Pass(c) \/ Open(c) \/ Drop(c)

Spec == Init /\ [][Next]_challengeVars

-----------------------------------------------------------------------------

\* There is never more than one exchange that an UNLOCK could still bring to success
\* (lockguard.c 274-301).
OneLive == \A c, d \in Client : exchange[c] = "live" /\ exchange[d] = "live" => c = d
=============================================================================
