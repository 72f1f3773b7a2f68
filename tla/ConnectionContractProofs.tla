---------------------- MODULE ConnectionContractProofs ----------------------
(***************************************************************************)
(* The contract's own invariants follow from its actions.  Together with   *)
(* the refinement of AgentConnectionProofs they hold of the code's model.  *)
(***************************************************************************)
EXTENDS ConnectionContract, TLAPS

Promise ==
    /\ phase \in {"idle", "running", "stopped"}
    /\ WayForward
    /\ OfflineWillRetry
    /\ live => phase = "running"
    /\ refused => state \in {"authentication-error", "agent-error", "offline"}
    /\ phase = "running" /\ state = "authentication-error" => refused

\* A running connection is alive, will retry or was refused, and is shown
\* offline only while it waits to retry (scheduleReconnect).  That the attempt
\* which ends silently will retry, or was refused, needs the last two parts:
\* a refusal is shown only of an attempt that was refused.
THEOREM ContractPromise == Spec => []Promise
<1>1. Init => Promise
  BY DEF Init, Promise, WayForward, OfflineWillRetry
<1>2. Promise /\ [Next]_vars => Promise'
  <2> SUFFICES ASSUME Promise, [Next]_vars PROVE Promise'
    OBVIOUS
  <2> USE DEF Promise, WayForward, OfflineWillRetry
  <2>1. CASE Attempt
    BY <2>1 DEF Attempt, Begin
  <2>2. CASE Retry
    BY <2>2 DEF Retry, Begin
  <2>3. CASE Accept
    BY <2>3 DEF Accept
  <2>4. CASE Refuse
    BY <2>4 DEF Refuse
  <2>5. CASE Fault
    BY <2>5 DEF Fault
  <2>6. CASE Stale
    BY <2>6 DEF Stale
  <2>7. CASE Lose
    BY <2>7 DEF Lose
  <2>8. CASE Over
    BY <2>8 DEF Over
  <2>9. CASE UNCHANGED vars
    BY <2>9 DEF vars
  <2> QED
    BY <2>1, <2>2, <2>3, <2>4, <2>5, <2>6, <2>7, <2>8, <2>9 DEF Next
<1> QED
  BY <1>1, <1>2, PTL DEF Spec
=============================================================================
