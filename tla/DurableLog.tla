----------------------------- MODULE DurableLog -----------------------------
(***************************************************************************)
(* What the write-ahead log and the committer promise together, and what   *)
(* the store relies on: records take consecutive numbers, a crash keeps a  *)
(* prefix that contains every record a caller was told is durable, and     *)
(* nothing else is said of the rest.  Once a failed disk operation has     *)
(* damaged the file (`lossy') a flush that reports success proves nothing. *)
(***************************************************************************)
EXTENDS Naturals

VARIABLES
    len,        \* records appended
    stable,     \* records 1..stable survive any crash
    reported,   \* records 1..reported were covered by a flush that succeeded
    confirmed,  \* the highest record some caller was told is durable
    lossy       \* a disk failure left the file damaged

logVars == <<len, stable, reported, confirmed, lossy>>

LogInit ==
    /\ len = 0
    /\ stable = 0
    /\ reported = 0
    /\ confirmed = 0
    /\ lossy = FALSE

AppendOne ==
    /\ len' = len + 1
    /\ UNCHANGED <<stable, reported, confirmed, lossy>>

\* The flush covers the records appended when it began, not the later ones.
\* Callers it serves may be answered in the same step.
Flush ==
    /\ reported' \in reported..len
    /\ stable' \in stable..reported'
    /\ ~lossy => stable' = reported'
    /\ \/ confirmed' = confirmed
       \/ confirmed' \in confirmed..reported'
    /\ UNCHANGED <<len, lossy>>

Damage ==
    /\ lossy' = TRUE
    /\ UNCHANGED <<len, stable, reported, confirmed>>

\* The process restarts on what is left; in an undamaged file that is a prefix
\* of what was appended.
Restart ==
    /\ len' \in Nat
    /\ ~lossy => len' <= len
    /\ stable' \in stable..len'
    /\ reported' = stable'
    /\ UNCHANGED <<confirmed, lossy>>

LogNext == AppendOne \/ Flush \/ Damage \/ Restart

LogSpec == LogInit /\ [][LogNext]_logVars

-----------------------------------------------------------------------------

\* A record a caller was told is durable survives every crash, unless a disk
\* failure damaged the file before.
ConfirmedIsStable == ~lossy => confirmed <= stable

=============================================================================
