-------------------------- MODULE DurableLogProofs --------------------------
(* What the contract of the log implies. *)
EXTENDS DurableLog, TLAPS

\* Records are counted in order, and in an undamaged file every flush that
\* reported success made its records durable before a caller was told.
LogInv ==
    /\ len \in Nat /\ stable \in Nat /\ reported \in Nat /\ confirmed \in Nat
    /\ lossy \in BOOLEAN
    /\ ~lossy => confirmed <= stable /\ stable = reported

\* A record a caller was told is durable survives every crash of an undamaged
\* log: what commitDurable's callers rely on, from the contract alone.
THEOREM ConfirmedRecordsAreStable == LogSpec => []ConfirmedIsStable
<1>1. LogInit => LogInv
  <2> SUFFICES ASSUME LogInit PROVE LogInv
    OBVIOUS
  <2>1. len = 0 /\ stable = 0 /\ reported = 0 /\ confirmed = 0 /\ lossy \in BOOLEAN
    BY DEF LogInit
  <2> QED BY <2>1 DEF LogInv
<1>2. LogInv /\ [LogNext]_logVars => LogInv'
  <2> SUFFICES ASSUME LogInv, [LogNext]_logVars PROVE LogInv'
    OBVIOUS
  <2>1. CASE AppendOne
    BY <2>1 DEF AppendOne, LogInv
  <2>2. CASE Flush
    <3>1. reported' \in Nat /\ stable' \in Nat /\ reported' >= reported /\ stable' >= stable
      BY <2>2 DEF Flush, LogInv
    <3>2. confirmed' \in Nat /\ (confirmed' = confirmed \/ confirmed' <= reported')
      BY <2>2, <3>1 DEF Flush, LogInv
    <3> QED BY <2>2, <3>1, <3>2 DEF Flush, LogInv
  <2>3. CASE Damage
    BY <2>3 DEF Damage, LogInv
  <2>4. CASE Restart
    <3>1. len' \in Nat /\ stable' \in Nat /\ stable' >= stable
      BY <2>4 DEF Restart, LogInv
    <3> QED BY <2>4, <3>1 DEF Restart, LogInv
  <2>5. CASE UNCHANGED logVars
    BY <2>5 DEF logVars, LogInv
  <2> QED BY <2>1, <2>2, <2>3, <2>4, <2>5 DEF LogNext
<1>3. LogInv => ConfirmedIsStable
  BY DEF LogInv, ConfirmedIsStable
<1> QED BY <1>1, <1>2, <1>3, PTL DEF LogSpec

=============================================================================
