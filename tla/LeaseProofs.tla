------------------------------ MODULE LeaseProofs ------------------------------
(* Proofs about Lease for all values of Window, Grace, Stall and MaxTime that  *)
(* satisfy LeaseAssumption.                                                    *)
EXTENDS Lease, TLAPS

\* No promise is for longer than Grace; the deadline of an open window covers
\* every promise; a closed window owes nothing.
PromiseInv ==
    /\ promised <= clock + Grace
    /\ deadline # 0 => promised <= deadline
    /\ deadline = 0 => promised <= clock

\* The inductive invariant.
IInv == TypeOK /\ PromiseInv /\ RemainingBounded

\* A sample is a time that has been, at most Stall ago.
LEMMA SampleRange ==
    ASSUME TypeOK, NEW s \in RecentSamples
    PROVE  s \in Nat /\ 1 <= s /\ s <= clock /\ clock <= s + Stall
BY LeaseAssumption DEF TypeOK, RecentSamples

\* The initial state satisfies the inductive invariant.
LEMMA InitIInv == Init => IInv
BY LeaseAssumption DEF Init, IInv, TypeOK, PromiseInv, RemainingBounded

\* Every step preserves the inductive invariant.
LEMMA NextIInv ==
    ASSUME IInv, [Next]_leaseVars
    PROVE  IInv'
<1> USE LeaseAssumption DEF IInv, TypeOK, PromiseInv, RemainingBounded
<1>1. CASE Tick
  BY <1>1 DEF Tick
<1>2. ASSUME NEW s \in RecentSamples, Open(s) PROVE IInv'
  <2>1. s \in Nat /\ 1 <= s /\ s <= clock /\ clock <= s + Stall
    BY SampleRange
  <2>2. s + Window # 0 /\ promised <= s + Window
    BY <2>1
  <2>3. QED
    BY <1>2, <2>1, <2>2 DEF Open
<1>3. ASSUME NEW s \in RecentSamples, Grant(s) PROVE IInv'
  <2>1. s \in Nat /\ 1 <= s /\ s <= clock
    BY SampleRange
  <2>2. QED
    BY <1>3, <2>1 DEF Grant, Later
<1>4. ASSUME NEW s \in RecentSamples, Close(s) PROVE IInv'
  <2>1. s \in Nat /\ s <= clock
    BY SampleRange
  <2>2. QED
    BY <1>4, <2>1 DEF Close
<1>5. CASE UNCHANGED leaseVars
  BY <1>5 DEF leaseVars
<1>6. QED
  BY <1>1, <1>2, <1>3, <1>4, <1>5 DEF Next

\* IInv is an invariant of the specification.
LEMMA IInvInvariant == Spec => []IInv
BY InitIInv, NextIInv, PTL DEF Spec

-----------------------------------------------------------------------------
\* The abstract window keeps its types.
THEOREM TypeCorrect == Spec => []TypeOK
<1>1. IInv => TypeOK
  BY DEF IInv
<1>2. QED
  BY IInvInvariant, <1>1, PTL

\* A promise that is still due is covered by the deadline (lockguard.c 102-113):
\* neither a check that closes the window nor one that re-opens it from an older
\* sample cuts a lease short.
THEOREM PromiseTheorem == Spec => []LeasePromise
<1>1. IInv => LeasePromise
  BY LeaseAssumption DEF IInv, TypeOK, PromiseInv, LeasePromise
<1>2. QED
  BY IInvInvariant, <1>1, PTL

\* The window never has more than one full Window left to run.
THEOREM RemainingTheorem == Spec => []RemainingBounded
<1>1. IInv => RemainingBounded
  BY DEF IInv
<1>2. QED
  BY IInvInvariant, <1>1, PTL
=============================================================================
