---------------------------- MODULE WorkerProofs ----------------------------
(***************************************************************************)
(* Proofs about the dispatcher and the workers: the shape of the state,    *)
(* the slots of a stream, the capacity of a worker and what the loop can   *)
(* block on, for any number of jobs, streams, slots and retries.           *)
(***************************************************************************)
EXTENDS WorkerInv, FiniteSetTheorems, SequenceTheorems, TLAPS

-----------------------------------------------------------------------------
(* Renewals *)

\* What is left of a positive length in whole milliseconds.
LEMMA WholeMillis ==
    ASSUME NEW n \in Nat \ {0}
    PROVE  LET whole == (n \div Milli) * Milli
           IN /\ whole \in Nat /\ whole <= n /\ n < whole + Milli
              /\ n >= Milli => whole > 0
              /\ n < Milli => whole = 0
              /\ n < Second + Milli => whole <= Second
              /\ n >= Second + Milli => whole > Second
<1>1. Milli \in Nat \ {0} /\ Second \in Nat \ {0} /\ Second % Milli = 0
    BY LeaseAssumption
<1>2. PICK m \in Nat : m = n \div Milli /\ m * Milli <= n /\ n < m * Milli + Milli
  <2>1. n \div Milli \in Nat /\ n % Milli \in 0..(Milli - 1)
        /\ n = Milli * (n \div Milli) + (n % Milli)
      BY <1>1
  <2>2. (n \div Milli) * Milli = Milli * (n \div Milli) /\ (n \div Milli) * Milli \in Int
      BY <1>1, <2>1
  <2> QED BY <1>1, <2>1, <2>2
<1>3. PICK k \in Nat : Second = k * Milli
  <2>1. Second \div Milli \in Nat /\ Second = Milli * (Second \div Milli) + (Second % Milli)
      BY <1>1
  <2>2. (Second \div Milli) * Milli = Milli * (Second \div Milli)
        /\ (Second \div Milli) * Milli \in Int
      BY <1>1, <2>1
  <2>3. Second = (Second \div Milli) * Milli
      BY <1>1, <2>1, <2>2
  <2> QED BY <2>1, <2>3, Zenon
<1>4. \A a, b \in Nat : a < b => a * Milli + Milli <= b * Milli
  <2> SUFFICES ASSUME NEW a \in Nat, NEW b \in Nat, a < b PROVE a * Milli + Milli <= b * Milli
      OBVIOUS
  <2>1. PICK c \in Nat : b = a + 1 + c
      OBVIOUS
  <2>2. b * Milli = a * Milli + Milli + c * Milli /\ c * Milli >= 0 /\ a * Milli \in Int
      BY <1>1, <2>1
  <2> QED BY <1>1, <2>2
<1> DEFINE whole == m * Milli
<1>5. whole \in Nat /\ whole <= n /\ n < whole + Milli
    BY <1>1, <1>2
<1>6. m = 0 => whole = 0
    BY <1>1
<1>7. m # 0 => whole >= Milli
  <2>1. 0 * Milli = 0
      BY <1>1
  <2> QED BY <1>1, <1>4, <2>1
<1>8. /\ k < m => whole >= Second + Milli
      /\ m <= k => whole <= Second
    BY <1>1, <1>3, <1>4, <1>5
<1> HIDE DEF whole
<1>9. /\ n >= Milli => whole > 0
      /\ n < Milli => whole = 0
      /\ n < Second + Milli => whole <= Second
      /\ n >= Second + Milli => whole > Second
    BY <1>1, <1>5, <1>6, <1>7, <1>8
<1> QED BY <1>2, <1>5, <1>9 DEF whole

\* For every length a pool may be configured with: the interval pool.go computes
\* is shorter than the lease clampLease gives if, and only if, it is renewable.
LEMMA IntervalWithinLease ==
    ASSUME NEW d \in Int
    PROVE  RenewedInTime(d) <=> Renewable(d)
<1> DEFINE own == PoolLease(d)
           whole == (own \div Milli) * Milli
<1>1. /\ Second \in Nat /\ DefaultLease \in Nat /\ MaxLease \in Nat /\ Milli \in Nat
      /\ 0 < Milli /\ Milli < Second /\ Second < DefaultLease /\ DefaultLease <= MaxLease
    BY LeaseAssumption
<1>2. own \in Nat \ {0}
    BY <1>1 DEF PoolLease
<1>3. /\ whole \in Nat /\ whole <= own /\ own < whole + Milli
      /\ own >= Milli => whole > 0
      /\ own < Milli => whole = 0
      /\ own < Second + Milli => whole <= Second
      /\ own >= Second + Milli => whole > Second
    BY <1>2, WholeMillis
<1>4. GivenLease(d) = ClampLease(whole)
    BY DEF GivenLease, AskedMillis
<1> HIDE DEF own, whole
<1>5. own \div 3 \in Int /\ 3 * (own \div 3) <= own /\ own < 3 * (own \div 3) + 3
    BY <1>2
<1>6. HeartbeatInterval(own) < ClampLease(whole) <=>
        own < 3 * MaxLease /\ (own < Milli \/ own >= Second + Milli)
    BY <1>1, <1>2, <1>3, <1>5 DEF HeartbeatInterval, ClampLease
<1> QED BY <1>4, <1>6 DEF RenewedInTime, Renewable, own

\* With a lease that is renewable, and with no other, a worker's heartbeat is due
\* before the lease ends (RenewsInTime), whatever the lengths are.
THEOREM LeasesAreRenewedInTime == Spec => []RenewsInTime
<1>1. -1..(3 * MaxLease + 1) \subseteq Int
    BY LeaseAssumption
<1>2. \A d \in -1..(3 * MaxLease + 1) : RenewedInTime(d) <=> Renewable(d)
    BY <1>1, IntervalWithinLease
<1>3. RenewsInTime
    BY <1>2 DEF RenewsInTime
<1> QED BY <1>3, PTL

-----------------------------------------------------------------------------
(* The shape of the state *)

JobStates == {"Absent", "Ready", "Waiting", "Leased", "Done", "DeadLetter"}
Expiries  == {"none", "first", "renewed", "passed"}

\* What a job may be while n leases were issued: its shape, and an attempt left
\* if it may be delivered again.
GoodJob(j, r, n) ==
    /\ r \in [state : JobStates, attempt : Nat, epoch : 0..n, expiry : Expiries]
    /\ r.attempt <= MaxRetries[j] + 1
    /\ r.state = "Leased" <=> r.expiry # "none"
    /\ r.state \in {"Absent", "Ready", "Waiting"} => r.attempt <= MaxRetries[j]

\* The conjuncts of TypeOK on the store, with AttemptInv.
StoreShape ==
    /\ job \in [Jobs -> [state : JobStates, attempt : Nat, epoch : 0..Len(leases),
                         expiry : Expiries]]
    /\ \A j \in Jobs : GoodJob(j, job[j], Len(leases))
    /\ leases \in Seq([job : Jobs, stream : Streams])

\* Those on the streams.
StreamShape ==
    /\ conn \in [Streams -> {"new", "open", "silent", "hungup", "gone"}]
    /\ inFlight \in [Streams -> 0..MaxInFlight]
    /\ ch \in [Streams -> Seq(Tokens)]
    /\ \A s \in Streams : Len(ch[s]) <= MaxInFlight
    /\ owner \in [Jobs -> Streams \cup {None}]

\* And the others.
RestShape ==
    /\ calls \cup running \subseteq Tokens
    /\ cancelled \subseteq running
    /\ {failed, stopping, overtaken} \subseteq BOOLEAN
    /\ loop \in [pc : {"release", "scan", "own", "send", "sleep", "exit"},
                 ids : SUBSET Jobs, seen : SUBSET Streams, todo : SUBSET Streams,
                 placed : BOOLEAN]

\* The shape in parts is the type invariant.
LEMMA ShapeIsType == StoreShape /\ StreamShape /\ RestShape <=> TypeOK /\ AttemptInv
    BY DEF TypeOK, AttemptInv, StoreShape, StreamShape, RestShape, GoodJob, JobStates, Expiries

\* The same after the step.
LEMMA ShapeIsTypeNext == (StoreShape /\ StreamShape /\ RestShape)' <=> (TypeOK /\ AttemptInv)'
    BY DEF TypeOK, AttemptInv, StoreShape, StreamShape, RestShape, GoodJob, JobStates, Expiries

\* Jobs that are good make a good store.
LEMMA GoodJobs ==
    ASSUME NEW f, f = [j \in Jobs |-> f[j]], NEW n \in Nat, \A j \in Jobs : GoodJob(j, f[j], n)
    PROVE  f \in [Jobs -> [state : JobStates, attempt : Nat, epoch : 0..n, expiry : Expiries]]
    BY DEF GoodJob

\* failLocked leaves a job that has attempts left, or a dead one.
LEMMA FailedGood ==
    ASSUME StoreShape, NEW j \in Jobs, Leased(j)
    PROVE  /\ GoodJob(j, Failed(j), Len(leases))
           /\ Failed(j).state # "Leased" /\ Failed(j).epoch = job[j].epoch
<1>1. job[j] \in [state : JobStates, attempt : Nat, epoch : 0..Len(leases), expiry : Expiries]
    BY DEF StoreShape
<1>2. GoodJob(j, job[j], Len(leases)) /\ MaxRetries[j] \in Nat
    BY MaxRetriesAssumption DEF StoreShape
<1>3. PICK st \in {"DeadLetter", "Waiting"} :
         /\ st = IF job[j].attempt > MaxRetries[j] THEN "DeadLetter" ELSE "Waiting"
         /\ st = "Waiting" => job[j].attempt <= MaxRetries[j]
    BY <1>1, <1>2
<1>4. Failed(j) = [job[j] EXCEPT !.state = st, !.expiry = "none"]
    BY <1>3, Zenon DEF Failed
<1>5. Failed(j) = [state |-> st, attempt |-> job[j].attempt, epoch |-> job[j].epoch,
                   expiry |-> "none"]
    BY <1>1, <1>4
<1> QED BY <1>1, <1>2, <1>3, <1>5 DEF GoodJob, Leased, JobStates, Expiries

\* A step that replaces job j by a good one, and issues nothing.
LEMMA ReplaceJob ==
    ASSUME StoreShape, NEW j \in Jobs, NEW r, GoodJob(j, r, Len(leases)),
           job' = [job EXCEPT ![j] = r], UNCHANGED leases
    PROVE  StoreShape'
<1>1. \A k \in Jobs : job'[k] = IF k = j THEN r ELSE job[k]
    BY DEF StoreShape
<1>2. job' \in [Jobs -> [state : JobStates, attempt : Nat, epoch : 0..Len(leases), expiry : Expiries]]
    BY DEF StoreShape, GoodJob
<1>3. \A k \in Jobs : GoodJob(k, job'[k], Len(leases))
    BY <1>1 DEF StoreShape
<1> QED BY <1>2, <1>3 DEF StoreShape, GoodJob

\* A step that leaves jobs and leases alone.
LEMMA SameStore == ASSUME StoreShape, UNCHANGED <<job, leases>> PROVE StoreShape'
    BY DEF StoreShape, GoodJob

\* A step that leaves the streams alone; leases may be added.
LEMMA SameStreams ==
    ASSUME StreamShape, UNCHANGED streamVars, Tokens \subseteq Tokens'
    PROVE  StreamShape'
<1>1. \A s \in Streams : ch[s] \in Seq(Tokens')
    BY SeqMonotonic DEF StreamShape
<1> QED BY <1>1 DEF StreamShape, streamVars

\* The lease a token of a well-shaped store was issued for.
LEMMA LeaseFields ==
    ASSUME StoreShape, NEW e \in Tokens
    PROVE  leases[e] \in [job : Jobs, stream : Streams] /\ leases[e].job \in Jobs
           /\ leases[e].stream \in Streams /\ e \in 1..Len(leases)
<1>1. leases \in Seq([job : Jobs, stream : Streams])
    BY DEF StoreShape
<1>2. e \in 1..Len(leases)
    BY <1>1, LenProperties DEF Tokens
<1>3. leases[e] \in [job : Jobs, stream : Streams]
    BY <1>1, <1>2, ElementOfSeq
<1> QED BY <1>2, <1>3

\* Tokens are the numbers of the leases.
LEMMA LenLeases == ASSUME StoreShape PROVE Len(leases) \in Nat /\ Tokens = 1..Len(leases)
    BY DEF StoreShape, Tokens


\* What release does: the streams lose the jobs that are released, and a slot
\* for each of them.
LEMMA ReleaseFacts ==
    ASSUME StreamShape, OwnedInv, NEW js \in SUBSET Jobs, Release(js), UNCHANGED leases
    PROVE  /\ StreamShape'
           /\ \A j \in Jobs : owner'[j] = IF j \in js THEN None ELSE owner[j]
           /\ \A s \in Streams :
                /\ IsFiniteSet(Owned(s))' /\ Cardinality(Owned(s))' <= inFlight'[s]
                /\ inFlight'[s] <= inFlight[s]
                /\ inFlight[s] = Cardinality(Owned(s)) => inFlight'[s] = Cardinality(Owned(s))'
<1>1. \A j \in Jobs : owner'[j] = IF j \in js THEN None ELSE owner[j]
    BY DEF Release
<1>2. owner' \in [Jobs -> Streams \cup {None}]
    BY DEF Release, StreamShape
<1>3. ASSUME NEW s \in Streams
      PROVE  /\ IsFiniteSet(Owned(s))' /\ Cardinality(Owned(s))' <= inFlight'[s]
             /\ inFlight'[s] \in 0..MaxInFlight /\ inFlight'[s] <= inFlight[s]
             /\ inFlight[s] = Cardinality(Owned(s)) => inFlight'[s] = Cardinality(Owned(s))'
  <2> DEFINE R == {j \in js : owner[j] = s}
  <2>1. IsFiniteSet(Owned(s)) /\ Cardinality(Owned(s)) <= inFlight[s]
      BY DEF OwnedInv
  <2>2. Owned(s)' = Owned(s) \ R
      BY <1>1, DispatcherNone DEF Owned
  <2>3. R = Owned(s) \cap R
      BY DEF Owned
  <2>4. /\ IsFiniteSet(R) /\ Cardinality(R) \in Nat /\ Cardinality(R) <= Cardinality(Owned(s))
        /\ Cardinality(Owned(s)) \in Nat
      BY <2>1, <2>3, FS_Subset, FS_CardinalityType
  <2>8. /\ IsFiniteSet(Owned(s) \ R)
        /\ Cardinality(Owned(s) \ R) = Cardinality(Owned(s)) - Cardinality(Owned(s) \cap R)
      BY <2>1, FS_Difference, Zenon
  <2>9. Cardinality(Owned(s) \cap R) = Cardinality(R)
      BY <2>3
  <2>5. IsFiniteSet(Owned(s)') /\ Cardinality(Owned(s)') = Cardinality(Owned(s)) - Cardinality(R)
      BY <2>2, <2>8, <2>9
  <2>6. inFlight'[s] = IF inFlight[s] > Cardinality(R) THEN inFlight[s] - Cardinality(R) ELSE 0
      BY DEF Release
  <2>7. inFlight[s] \in 0..MaxInFlight /\ MaxInFlight \in Nat
      BY MaxInFlightAssumption DEF StreamShape
  <2> HIDE DEF R
  <2> QED BY <2>1, <2>4, <2>5, <2>6, <2>7
<1>4. inFlight' \in [Streams -> 0..MaxInFlight]
  <2>1. inFlight' = [s \in Streams |-> inFlight'[s]]
      BY DEF Release
  <2> QED BY <2>1, <1>3
<1>5. StreamShape'
    BY <1>2, <1>4 DEF Release, StreamShape, Tokens
<1> QED BY <1>1, <1>3, <1>5

\* Each step of the loop keeps the shape of the state.
LEMMA LoopShape ==
    ASSUME StoreShape, StreamShape, RestShape, Slots, LoopStep
    PROVE  (StoreShape /\ StreamShape /\ RestShape)'
<1> USE DEF workVars
<1>0. UNCHANGED workVars
    BY DEF LoopStep
<1>1. CASE LoopReclaim
  <2>0. PICK ids \in SUBSET {j \in Jobs : ~failed /\ job[j].expiry = "passed"} :
          /\ job' = [j \in Jobs |-> IF j \in ids THEN Failed(j) ELSE job[j]]
          /\ loop' = [loop EXCEPT !.pc = "release", !.ids = ids]
      BY <1>1 DEF LoopReclaim
  <2>1. ids \subseteq Jobs /\ \A j \in ids : Leased(j)
      BY DEF StoreShape, GoodJob, Leased
  <2>2. job' = [j \in Jobs |-> IF j \in ids THEN Failed(j) ELSE job[j]]
        /\ loop' = [loop EXCEPT !.pc = "release", !.ids = ids]
        /\ UNCHANGED <<leases, failed, streamVars, calls, stopping, overtaken>>
      BY <1>1, <2>0 DEF LoopReclaim
  <2>3. \A j \in Jobs : GoodJob(j, job'[j], Len(leases))
      BY <2>1, <2>2, FailedGood DEF StoreShape
  <2>4. job' = [j \in Jobs |-> job'[j]] /\ Len(leases) \in Nat
      BY <2>2, LenLeases
  <2>5. StoreShape'
      BY <2>2, <2>3, <2>4, GoodJobs DEF StoreShape, GoodJob
  <2>6. StreamShape'
      BY <2>2, SameStreams DEF Tokens
  <2>7. RestShape'
      BY <1>0, <2>1, <2>2 DEF RestShape, Tokens
  <2> QED BY <2>5, <2>6, <2>7
<1>2. CASE LoopRelease
  <2>1. Release(loop.ids) /\ UNCHANGED leases /\ loop.ids \in SUBSET Jobs /\ OwnedInv
      BY <1>2 DEF LoopRelease, storeVars, RestShape, Slots, Tables
  <2>2. StreamShape'
      BY <2>1, ReleaseFacts
  <2>3. StoreShape'
      BY <1>2, SameStore DEF LoopRelease, storeVars
  <2>4. RestShape'
      BY <1>0, <1>2 DEF LoopRelease, storeVars, RestShape, Tokens, Registered
  <2> QED BY <2>2, <2>3, <2>4
<1>3. CASE LoopOwn
  <2>1. Held \in Tokens /\ inFlight[leases[Held].stream] < MaxInFlight
      BY <1>3, LenLeases DEF LoopOwn, Slots, Tables, HandInv, InHand, Held, Tokens, WorkerOf
  <2>2. leases[Held].stream \in Streams /\ leases[Held].job \in Jobs
      BY <2>1, LeaseFields
  <2>3. StoreShape'
      BY <1>3, SameStore DEF LoopOwn, storeVars
  <2>4. inFlight' \in [Streams -> 0..MaxInFlight] /\ owner' \in [Jobs -> Streams \cup {None}]
      BY <1>3, <2>1, <2>2, MaxInFlightAssumption DEF LoopOwn, StreamShape
  <2>5. StreamShape'
      BY <1>3, <2>4 DEF LoopOwn, StreamShape, storeVars, Tokens
  <2>6. overtaken' \in BOOLEAN
      BY <1>3, Zenon DEF LoopOwn, RestShape
  <2>7. RestShape'
      BY <1>0, <1>3, <2>6 DEF LoopOwn, RestShape, storeVars, Tokens
  <2> QED BY <2>3, <2>5, <2>7
<1>4. CASE LoopSend
  <2>1. Held \in Tokens
      BY <1>4, LenLeases DEF LoopSend, Slots, Tables, HandInv, InHand, Held, Tokens
  <2>2. leases[Held].stream \in Streams
      BY <2>1, LeaseFields
  <2>3. StoreShape'
      BY <1>4, SameStore DEF LoopSend, storeVars
  <2>4. ASSUME NEW s \in Streams, Len(ch[s]) < MaxInFlight
        PROVE  /\ [ch EXCEPT ![s] = Append(@, Held)] \in [Streams -> Seq(Tokens)]
               /\ Len(Append(ch[s], Held)) <= MaxInFlight
      BY <2>1, <2>4, MaxInFlightAssumption DEF StreamShape
  <2>5. ch' \in [Streams -> Seq(Tokens)] /\ \A s \in Streams : Len(ch'[s]) <= MaxInFlight
      BY <1>4, <2>2, <2>4 DEF LoopSend, StreamShape
  <2>6. StreamShape'
      BY <1>4, <2>5 DEF LoopSend, StreamShape, storeVars, Tokens
  <2>7. loop'.pc = "scan" /\ loop' \in [pc : {"release", "scan", "own", "send", "sleep", "exit"},
                 ids : SUBSET Jobs, seen : SUBSET Streams, todo : SUBSET Streams,
                 placed : BOOLEAN]
      BY <1>4 DEF LoopSend, RestShape
  <2>8. RestShape'
      BY <1>0, <1>4, <2>7 DEF LoopSend, RestShape, storeVars, Tokens
  <2> QED BY <2>3, <2>6, <2>8
<1>5. CASE LoopEndPass
  <2>1. StoreShape' /\ StreamShape'
      BY <1>5, SameStore, SameStreams DEF LoopEndPass, storeVars, Tokens
  <2>2. RestShape'
      BY <1>0, <1>5 DEF LoopEndPass, RestShape, storeVars, Tokens
  <2> QED BY <2>1, <2>2
<1>6. ASSUME NEW s \in Streams, LoopSkip(s)
      PROVE  (StoreShape /\ StreamShape /\ RestShape)'
  <2>1. StoreShape' /\ StreamShape'
      BY <1>6, SameStore, SameStreams DEF LoopSkip, storeVars, Tokens
  <2>2. RestShape'
      BY <1>0, <1>6 DEF LoopSkip, RestShape, storeVars, Tokens
  <2> QED BY <2>1, <2>2
<1>7. ASSUME NEW s \in Streams, NEW j \in Jobs, LoopLease(s, j)
      PROVE  (StoreShape /\ StreamShape /\ RestShape)'
  <2> DEFINE r == [state |-> "Leased", attempt |-> job[j].attempt + 1,
                   epoch |-> Len(leases) + 1, expiry |-> "first"]
  <2>1. job' = [job EXCEPT ![j] = r] /\ leases' = Append(leases, [job |-> j, stream |-> s])
        /\ job[j].state = "Ready"
        /\ UNCHANGED <<failed, streamVars, calls, stopping, overtaken>>
        /\ loop' = [loop EXCEPT !.pc = "own", !.todo = loop.todo \ {s}]
      BY <1>7 DEF LoopLease
  <2>2. /\ leases' \in Seq([job : Jobs, stream : Streams])
        /\ Len(leases') = Len(leases) + 1 /\ Len(leases) \in Nat
      BY <2>1 DEF StoreShape
  <2>12. MaxRetries[j] \in Nat /\ job[j].attempt \in Nat /\ job[j].attempt <= MaxRetries[j]
      BY <2>1, MaxRetriesAssumption DEF GoodJob, StoreShape
  <2>3. GoodJob(j, r, Len(leases'))
      BY <2>2, <2>12 DEF GoodJob, JobStates, Expiries
  <2>4. \A k \in Jobs : GoodJob(k, job[k], Len(leases'))
      BY <2>2 DEF StoreShape, GoodJob
  <2> HIDE DEF r
  <2>5. \A k \in Jobs : job'[k] = IF k = j THEN r ELSE job[k]
      BY <2>1 DEF StoreShape
  <2>6. \A k \in Jobs : GoodJob(k, job'[k], Len(leases'))
      BY <2>3, <2>4, <2>5
  <2>7. job' = [k \in Jobs |-> job'[k]]
      BY <2>1 DEF StoreShape
  <2>8. StoreShape'
      BY <2>2, <2>6, <2>7, GoodJobs DEF StoreShape, GoodJob
  <2>9. Tokens \subseteq Tokens'
    <3>1. Tokens = 1..Len(leases) /\ Tokens' = 1..Len(leases')
        BY <2>2, LenProperties DEF StoreShape, Tokens
    <3> QED BY <2>2, <3>1
  <2>10. StreamShape'
      BY <2>1, <2>9, SameStreams
  <2>11. RestShape'
      BY <1>0, <2>1, <2>9 DEF RestShape
  <2> QED BY <2>8, <2>10, <2>11
<1> QED BY <1>1, <1>2, <1>3, <1>4, <1>5, <1>6, <1>7 DEF LoopStep


\* So does each step of the clock and of the outside world.
LEMMA EventShape ==
    ASSUME StoreShape, StreamShape, RestShape, UNCHANGED workVars,
           \/ LoopExit \/ Stop \/ FlushFails
           \/ \E j \in Jobs : Submit(j) \/ BackoffElapses(j) \/ ExpiryPasses(j)
    PROVE  (StoreShape /\ StreamShape /\ RestShape)'
<1> USE DEF workVars
<1>1. CASE LoopExit \/ Stop \/ FlushFails
  <2>1. UNCHANGED <<job, leases, streamVars>>
      BY <1>1 DEF LoopExit, Stop, FlushFails, storeVars
  <2>2. StoreShape' /\ StreamShape'
      BY <2>1, SameStore, SameStreams DEF Tokens
  <2>3. RestShape'
      BY <1>1 DEF LoopExit, Stop, FlushFails, storeVars, RestShape, Tokens
  <2> QED BY <2>2, <2>3
<1>2. ASSUME NEW j \in Jobs, Submit(j) \/ BackoffElapses(j) \/ ExpiryPasses(j)
      PROVE  (StoreShape /\ StreamShape /\ RestShape)'
  <2>1. UNCHANGED <<leases, failed, streamVars, calls, loop, stopping, overtaken>>
      BY <1>2 DEF Submit, BackoffElapses, ExpiryPasses
  <2>2. GoodJob(j, job[j], Len(leases)) /\ job \in [Jobs -> [state : JobStates, attempt : Nat,
                             epoch : 0..Len(leases), expiry : Expiries]]
      BY DEF StoreShape
  <2>3. PICK r : job' = [job EXCEPT ![j] = r] /\ GoodJob(j, r, Len(leases))
    <3>1. CASE Submit(j) \/ BackoffElapses(j)
      <4>1. PICK st \in {"Ready", "Waiting"} : job' = [job EXCEPT ![j].state = st]
          BY <3>1 DEF Submit, BackoffElapses
      <4>2. job[j].state \in {"Absent", "Waiting"}
          BY <3>1 DEF Submit, BackoffElapses
      <4>3. job' = [job EXCEPT ![j] = [job[j] EXCEPT !.state = st]]
          BY <4>1, <2>2
      <4>4. GoodJob(j, [job[j] EXCEPT !.state = st], Len(leases))
          BY <2>2, <4>2 DEF GoodJob, JobStates, Expiries
      <4> QED BY <4>3, <4>4
    <3>2. CASE ExpiryPasses(j)
      <4>1. job' = [job EXCEPT ![j] = [job[j] EXCEPT !.expiry = "passed"]]
          BY <3>2, <2>2 DEF ExpiryPasses
      <4>2. GoodJob(j, [job[j] EXCEPT !.expiry = "passed"], Len(leases))
          BY <3>2, <2>2 DEF ExpiryPasses, GoodJob, JobStates, Expiries
      <4> QED BY <4>1, <4>2
    <3> QED BY <1>2, <3>1, <3>2
  <2>4. StoreShape' /\ StreamShape'
      BY <2>1, <2>3, ReplaceJob, SameStreams DEF Tokens
  <2>5. RestShape'
      BY <2>1 DEF RestShape, Tokens
  <2> QED BY <2>4, <2>5
<1> QED BY <1>1, <1>2

\* Each step of a stream and its worker.
LEMMA StreamStepShape ==
    ASSUME StoreShape, StreamShape, RestShape, NEW s \in Streams,
           Connect(s) \/ StreamStep(s) \/ StreamBreaks(s) \/ WorkerStops(s) \/ WorkerDies(s)
    PROVE  (StoreShape /\ StreamShape /\ RestShape)'
<1> USE DEF workVars, storeVars
<1>1. UNCHANGED <<job, leases, failed, inFlight, calls, loop, stopping, overtaken>>
    BY DEF Connect, StreamStep, StreamBreaks, WorkerStops, WorkerDies, Register, Receive,
           StreamSend, Unregister, HangUp
<1>2. StoreShape' /\ Tokens' = Tokens
    BY <1>1, SameStore DEF Tokens
<1>3. CASE Connect(s)
    BY <1>1, <1>2, <1>3 DEF Connect, Register, StreamShape, RestShape
<1>4. CASE Receive(s)
  <2>1. /\ ch[s] \in Seq(Tokens) /\ ch[s] # <<>> /\ Len(ch[s]) <= MaxInFlight
        /\ MaxInFlight \in Nat
      BY <1>4, MaxInFlightAssumption DEF Receive, StreamSend, StreamShape
  <2>2. Head(ch[s]) \in Tokens /\ Tail(ch[s]) \in Seq(Tokens) /\ Len(Tail(ch[s])) <= MaxInFlight
      BY <2>1, HeadTailProperties, LenProperties
  <2>3. ch' = [ch EXCEPT ![s] = Tail(ch[s])] /\ UNCHANGED <<conn, owner, cancelled>>
      BY <1>4 DEF Receive, StreamSend
  <2>4. StreamShape'
      BY <1>1, <1>2, <2>2, <2>3 DEF StreamShape
  <2>5. RestShape'
      BY <1>1, <1>2, <1>4, <2>2 DEF RestShape, Receive
  <2> QED BY <1>2, <2>4, <2>5
<1>5. CASE Unregister(s) /\ UNCHANGED workVars
  <2>1. StreamShape'
      BY <1>1, <1>2, <1>5 DEF Unregister, StreamShape
  <2> QED BY <1>1, <1>2, <1>5, <2>1 DEF RestShape
<1>6. CASE HangUp(s)
  <2>1. StreamShape'
      BY <1>1, <1>2, <1>6, MaxInFlightAssumption DEF HangUp, StreamShape
  <2>2. CASE StreamBreaks(s)
      BY <1>1, <1>2, <2>1, <2>2 DEF StreamBreaks, RestShape
  <2>3. CASE WorkerStops(s)
      BY <1>1, <1>2, <2>1, <2>3 DEF WorkerStops, RestShape, Of
  <2>4. StreamBreaks(s) \/ WorkerStops(s)
      BY <1>6 DEF HangUp, Connect, Register, StreamStep, Receive, StreamSend, Unregister,
                  StreamBreaks, WorkerDies, StreamShape
  <2> QED BY <2>2, <2>3, <2>4
<1>7. CASE WorkerDies(s)
    BY <1>1, <1>2, <1>7 DEF WorkerDies, StreamShape, RestShape, Of
<1> QED BY <1>3, <1>4, <1>5, <1>6, <1>7 DEF StreamStep, StreamBreaks, WorkerStops

\* A settled lease leaves a good job.
LEMMA SettleShape ==
    ASSUME StoreShape, NEW e \in Tokens, HandlerSucceeds(e) \/ HandlerFails(e)
    PROVE  /\ StoreShape'
           /\ \/ UNCHANGED <<job, calls>>
              \/ /\ Current(e) /\ ~failed
                 /\ calls' = calls \cup {e}
                 /\ \A j \in Jobs : j # leases[e].job => job'[j] = job[j]
                 /\ ~Leased(leases[e].job)' /\ job'[leases[e].job].epoch = e
<1> DEFINE j == leases[e].job
           done == [job[j] EXCEPT !.state = "Done", !.expiry = "none"]
<1>1. j \in Jobs
    BY LeaseFields
<1>2. job[j] \in [state : JobStates, attempt : Nat, epoch : 0..Len(leases), expiry : Expiries]
      /\ GoodJob(j, job[j], Len(leases))
    BY <1>1 DEF StoreShape
<1>3. GoodJob(j, done, Len(leases)) /\ done.state # "Leased" /\ done.epoch = job[j].epoch
    BY <1>2 DEF GoodJob, JobStates, Expiries
<1>4. PICK r \in {done, Failed(j)} : Settle(e, r)
    BY Zenon DEF HandlerSucceeds, HandlerFails, Ack, Nack
<1>5. CASE Current(e) /\ ~failed
  <2>1. GoodJob(j, r, Len(leases)) /\ r.state # "Leased" /\ r.epoch = e
      BY <1>1, <1>3, <1>5, FailedGood DEF Current, Leased
  <2> HIDE DEF done
  <2>2. job' = [job EXCEPT ![j] = r] /\ calls' = calls \cup {e} /\ UNCHANGED leases
      BY <1>4, <1>5 DEF Settle
  <2>3. StoreShape'
      BY <1>1, <2>1, <2>2, ReplaceJob
  <2> QED BY <1>1, <1>5, <2>1, <2>2, <2>3 DEF Leased, StoreShape
<1>6. CASE ~(Current(e) /\ ~failed)
  <2> HIDE DEF done
  <2>1. UNCHANGED <<job, leases, calls>>
      BY <1>4, <1>6 DEF Settle
  <2> QED BY <2>1, SameStore
<1> QED BY <1>5, <1>6

\* Each step of an execution or of a call that is waiting.
LEMMA ExecutionShape ==
    ASSUME StoreShape, StreamShape, RestShape, OwnedInv, NEW e \in Tokens,
           \/ HandlerSucceeds(e) \/ HandlerFails(e) \/ ReportLost(e) \/ Deadline(e) \/ Beat(e)
           \/ (CallReleases(e) \/ CallFails(e)) /\ UNCHANGED workVars
    PROVE  (StoreShape /\ StreamShape /\ RestShape)'
<1> USE DEF workVars, storeVars, dispVars
<1>1. leases[e].job \in Jobs
    BY LeaseFields
<1>2. CASE HandlerSucceeds(e) \/ HandlerFails(e)
  <2>1. /\ UNCHANGED <<leases, failed, streamVars, loop, stopping, overtaken>>
        /\ running' = running \ {e} /\ cancelled' = cancelled \ {e}
      BY <1>2 DEF HandlerSucceeds, HandlerFails, Finished, Ack, Nack, Settle
  <2>2. StoreShape' /\ StreamShape'
      BY <1>2, <2>1, SettleShape, SameStreams DEF Tokens
  <2>3. calls' \subseteq calls \cup {e}
      BY <1>2, SettleShape
  <2>4. RestShape'
      BY <2>1, <2>3 DEF RestShape, Tokens
  <2> QED BY <2>2, <2>4
<1>3. CASE ReportLost(e) \/ Deadline(e) \/ (CallFails(e) /\ UNCHANGED workVars)
  <2>1. UNCHANGED <<job, leases, failed, streamVars, loop, stopping, overtaken>>
      BY <1>3 DEF ReportLost, Deadline, CallFails
  <2>2. StoreShape' /\ StreamShape'
      BY <2>1, SameStore, SameStreams DEF Tokens
  <2>3. RestShape'
      BY <1>3, <2>1 DEF ReportLost, Deadline, CallFails, Finished, RestShape, Tokens
  <2> QED BY <2>2, <2>3
<1>4. CASE Beat(e)
  <2>1. UNCHANGED <<leases, failed, streamVars, calls, loop, stopping, overtaken, running>>
      BY <1>4 DEF Beat, Heartbeat
  <2>2. StoreShape'
    <3>1. CASE Heartbeat(e)
      <4>1. job' = [job EXCEPT ![leases[e].job] = [job[leases[e].job] EXCEPT !.expiry = "renewed"]]
          BY <1>1, <3>1 DEF Heartbeat, StoreShape
      <4>2. GoodJob(leases[e].job, [job[leases[e].job] EXCEPT !.expiry = "renewed"], Len(leases))
          BY <1>1, <3>1 DEF Heartbeat, Current, StoreShape, GoodJob, JobStates, Expiries
      <4> QED BY <1>1, <2>1, <4>1, <4>2, ReplaceJob
    <3>2. CASE UNCHANGED job
        BY <2>1, <3>2, SameStore
    <3> QED BY <1>4, <3>1, <3>2 DEF Beat
  <2>3. StreamShape'
      BY <2>1, SameStreams DEF Tokens
  <2>4. RestShape'
      BY <1>4, <2>1 DEF Beat, RestShape, Tokens
  <2> QED BY <2>2, <2>3, <2>4
<1>5. CASE CallReleases(e) /\ UNCHANGED workVars
  <2>1. StoreShape'
      BY <1>5, SameStore DEF CallReleases
  <2>2. StreamShape'
    <3>1. Release({leases[e].job}) /\ {leases[e].job} \in SUBSET Jobs /\ UNCHANGED leases
        BY <1>1, <1>5 DEF CallReleases
    <3> QED BY <3>1, ReleaseFacts
  <2>3. RestShape'
      BY <1>5 DEF CallReleases, RestShape, Tokens
  <2> QED BY <2>1, <2>2, <2>3
<1> QED BY <1>2, <1>3, <1>4, <1>5

-----------------------------------------------------------------------------
(* The tables *)

Shape == StoreShape /\ StreamShape /\ RestShape

\* No lease begins or ends, and no slot is taken or released.
Undisturbed ==
    /\ UNCHANGED <<leases, inFlight, owner, overtaken>>
    /\ \A j \in Jobs : (Leased(j)' <=> Leased(j)) /\ job'[j].epoch = job[j].epoch
    /\ \A s \in Streams : CtxDone(s) => CtxDone(s)'
    /\ \A s \in Streams : ch'[s] \in {ch[s], <<>>}
    /\ failed => failed'
    /\ running' \subseteq running
    /\ calls' = calls \/ (failed' /\ calls' \subseteq calls)
    /\ loop'.ids = loop.ids
    /\ loop'.pc = loop.pc \/ {loop.pc, loop'.pc} \subseteq {"scan", "sleep", "exit"}

\* What a lease is, for the job and for the token.
LEMMA CurrentLease ==
    ASSUME StoreShape, NEW e \in Tokens
    PROVE  leases[e].job \in Jobs /\ (Current(e) <=> Leased(leases[e].job) /\ job[leases[e].job].epoch = e)
    BY LeaseFields DEF Current, Leased

\* A step that disturbs none of the tables keeps them in agreement.
LEMMA UndisturbedTables == ASSUME Shape, Shape', Tables, Undisturbed PROVE Tables'
<1>1. /\ Tokens' = Tokens /\ Held' = Held
      /\ \A j \in Jobs : (Leased(j)' <=> Leased(j)) /\ job'[j].epoch = job[j].epoch
      /\ \A e : WorkerOf(e)' = WorkerOf(e) /\ leases'[e] = leases[e]
    BY DEF Undisturbed, Tokens, Held, WorkerOf
<1>2. \A e \in Tokens : Current(e)' <=> Current(e)
    BY <1>1, LeaseFields DEF Current, Leased, Shape
<1>3. \A j \in Jobs : Unslotted(j)' <=> Unslotted(j)
    BY <1>1 DEF Undisturbed, Unslotted
<1>4. \A s \in Streams : Owned(s)' = Owned(s)
    BY DEF Undisturbed, Owned
<1>5. LeaseInv'
    BY <1>1 DEF Tables, LeaseInv
<1>6. HandInv'
  <2>1. InHand' => InHand
      BY DEF Undisturbed, InHand
  <2>2. ASSUME InHand
        PROVE  /\ Held # 0 /\ Current(Held)' /\ Held \notin running' \cup calls'
               /\ \A s \in Streams : \A i \in DOMAIN ch'[s] : ch'[s][i] # Held
    <3>1. Held # 0 /\ Current(Held) /\ Held \in Tokens
        BY <2>2, LenLeases DEF Tables, HandInv, Held, Shape
    <3>2. Held \notin running' \cup calls'
        BY <2>2 DEF Tables, HandInv, Undisturbed
    <3>3. \A s \in Streams : \A i \in DOMAIN ch'[s] : ch'[s][i] # Held
        BY <2>2 DEF Tables, HandInv, Undisturbed
    <3>4. Current(Held)'
        BY <1>1, <1>2, <3>1 DEF Current, Held
    <3> QED BY <3>1, <3>2, <3>3, <3>4
  <2>3. loop'.pc = "own" => inFlight'[WorkerOf(Held)] < MaxInFlight
      BY DEF Tables, HandInv, Undisturbed
  <2> QED BY <1>1, <2>1, <2>2, <2>3 DEF HandInv
<1>7. ChannelInv'
    BY <1>1 DEF Tables, ChannelInv, Undisturbed
<1>8. SweepInv'
  <2>1. loop.ids \subseteq Jobs
      BY DEF Shape, RestShape
  <2> QED BY <1>1, <2>1 DEF Tables, SweepInv, Undisturbed
<1>9. CallsInv'
  <2>1. \A e \in calls : leases[e].job \in Jobs
      BY LeaseFields DEF Shape, RestShape
  <2> QED BY <1>1, <1>3, <2>1 DEF Tables, CallsInv, Undisturbed
<1>10. OwnedInv'
    BY <1>4 DEF Tables, OwnedInv, Undisturbed
<1>11. OwnerInv'
  <2>1. \A j \in Jobs : Leased(j) => WorkerOf(job[j].epoch) \in Streams
      BY LeaseFields DEF Tables, LeaseInv, Shape, WorkerOf
  <2> QED BY <1>1, <1>3, <2>1 DEF Tables, OwnerInv, Undisturbed
<1>12. SlotInv'
  <2> SUFFICES ASSUME ~overtaken', ~failed'
               PROVE  /\ \A j \in Jobs : owner'[j] # None =>
                           \/ Leased(j)' /\ ~Unslotted(j)' /\ WorkerOf(job[j].epoch)' = owner'[j]
                           \/ ReleaseDue(j)'
                      /\ \A s \in Streams : ~CtxDone(s)' => inFlight'[s] = Cardinality(Owned(s)')
      BY DEF SlotInv
  <2>1. ~overtaken /\ ~failed /\ calls' = calls
      BY DEF Undisturbed
  <2>2. \A j \in Jobs : ReleaseDue(j) => ReleaseDue(j)'
      BY <1>1, <2>1 DEF ReleaseDue, Undisturbed
  <2> QED BY <1>1, <1>3, <1>4, <2>1, <2>2 DEF Tables, SlotInv, Undisturbed
<1> QED BY <1>5, <1>6, <1>7, <1>8, <1>9, <1>10, <1>11, <1>12 DEF Tables


\* Slots are released for jobs js: by the sweep or by a call, each of which then
\* owes nothing more, and, unless a call was overtaken, for no valid lease.
Releases(js) ==
    /\ Release(js)
    /\ UNCHANGED <<job, leases, failed, overtaken, running>>
    /\ calls' \subseteq calls /\ \A e \in calls \ calls' : leases[e].job \in js
    /\ loop'.ids \subseteq loop.ids /\ loop.ids \subseteq loop'.ids \cup js
    /\ loop'.ids # {} => loop'.pc = "release"
    /\ loop'.pc = loop.pc \/ (loop.pc = "release" /\ loop'.pc \in {"scan", "sleep"})
    /\ ~overtaken => \A j \in js : Leased(j) => Unslotted(j)

\* A release keeps them in agreement.
LEMMA ReleasesTables ==
    ASSUME Shape, Shape', Tables, NEW js \in SUBSET Jobs, Releases(js)
    PROVE  Tables'
<1>1. /\ Tokens' = Tokens /\ Held' = Held
      /\ \A j : Leased(j)' <=> Leased(j)
      /\ \A e : WorkerOf(e)' = WorkerOf(e) /\ (Current(e)' <=> Current(e))
      /\ UNCHANGED <<job, leases, failed, overtaken, running, conn, ch>>
    BY DEF Releases, Release, Tokens, Held, WorkerOf, Current, Leased, CtxDone
<1>2. \A j \in Jobs : Unslotted(j)' <=> Unslotted(j)
    BY <1>1 DEF Releases, Unslotted
<1>3. /\ \A j \in Jobs : owner'[j] = IF j \in js THEN None ELSE owner[j]
      /\ \A s \in Streams :
           /\ IsFiniteSet(Owned(s))' /\ Cardinality(Owned(s))' <= inFlight'[s]
           /\ inFlight'[s] <= inFlight[s]
           /\ inFlight[s] = Cardinality(Owned(s)) => inFlight'[s] = Cardinality(Owned(s))'
    BY <1>1, ReleaseFacts DEF Shape, Tables, Releases
<1>4. LeaseInv'
    BY <1>1 DEF Tables, LeaseInv, Leased
<1>5. HandInv'
  <2>1. ASSUME InHand'
        PROVE  /\ InHand /\ Held # 0 /\ Current(Held) /\ Held \notin running \cup calls'
               /\ \A s \in Streams : \A i \in DOMAIN ch[s] : ch[s][i] # Held
    <3>1. InHand
        BY <2>1 DEF Releases, InHand
    <3> QED BY <3>1 DEF Tables, HandInv, Releases
  <2>2. ASSUME loop'.pc = "own" PROVE inFlight'[WorkerOf(Held)] < MaxInFlight
    <3>1. loop.pc = "own" /\ InHand
        BY <2>2 DEF Releases, InHand
    <3>2. Held \in Tokens /\ inFlight[WorkerOf(Held)] < MaxInFlight
        BY <3>1, LenLeases DEF Tables, HandInv, Shape, Held
    <3>3. WorkerOf(Held) \in Streams
        BY <3>2, LeaseFields DEF Shape, WorkerOf
    <3>4. inFlight'[WorkerOf(Held)] <= inFlight[WorkerOf(Held)]
        BY <1>3, <3>3
    <3>5. inFlight[WorkerOf(Held)] \in Nat /\ inFlight'[WorkerOf(Held)] \in Nat /\ MaxInFlight \in Nat
        BY <3>3, MaxInFlightAssumption DEF Shape, StreamShape
    <3> QED BY <3>2, <3>4, <3>5
  <2>3. Current(Held) => Current(Held)'
      BY <1>1 DEF Current, Held
  <2> QED BY <1>1, <2>1, <2>2, <2>3 DEF HandInv
<1>6. ChannelInv'
    BY <1>1 DEF Tables, ChannelInv
<1>7. SweepInv'
    BY <1>1 DEF Tables, SweepInv, Releases
<1>8. CallsInv'
  <2>1. \A e \in calls : leases[e].job \in Jobs
      BY LeaseFields DEF Shape, RestShape
  <2> QED BY <1>1, <1>2, <2>1 DEF Tables, CallsInv, Releases
<1>9. OwnedInv'
    BY <1>3 DEF OwnedInv
<1>10. OwnerInv'
    BY <1>1, <1>2, <1>3 DEF Tables, OwnerInv, Releases, CtxDone
<1>11. SlotInv'
  <2> SUFFICES ASSUME ~overtaken, ~failed
               PROVE  /\ \A j \in Jobs : owner'[j] # None =>
                           \/ Leased(j) /\ ~Unslotted(j) /\ WorkerOf(job[j].epoch) = owner'[j]
                           \/ ReleaseDue(j)'
                      /\ \A s \in Streams : ~CtxDone(s) => inFlight'[s] = Cardinality(Owned(s))'
      BY <1>1, <1>2 DEF SlotInv, CtxDone
  <2>1. ASSUME NEW j \in Jobs, owner'[j] # None
        PROVE  \/ Leased(j) /\ ~Unslotted(j) /\ WorkerOf(job[j].epoch) = owner'[j]
               \/ ReleaseDue(j)'
    <3>1. j \notin js /\ owner'[j] = owner[j]
        BY <2>1, <1>3
    <3>2. CASE ReleaseDue(j)
        BY <1>1, <3>1, <3>2 DEF ReleaseDue, Releases
    <3> QED BY <2>1, <3>1, <3>2 DEF Tables, SlotInv
  <2>2. \A s \in Streams : ~CtxDone(s) => inFlight'[s] = Cardinality(Owned(s))'
      BY <1>3 DEF Tables, SlotInv
  <2> QED BY <2>1, <2>2
<1> QED BY <1>4, <1>5, <1>6, <1>7, <1>8, <1>9, <1>10, <1>11 DEF Tables

\* The sweep releases what it took back, a call the job it settled.
LEMMA ReleaseCases ==
    ASSUME Shape, Tables
    PROVE  /\ LoopRelease /\ UNCHANGED workVars => Releases(loop.ids)
           /\ \A e \in calls : CallReleases(e) /\ UNCHANGED workVars => Releases({leases[e].job})
<1>1. ASSUME LoopRelease, UNCHANGED workVars PROVE Releases(loop.ids)
    BY <1>1 DEF LoopRelease, workVars, storeVars, Releases, Tables, SweepInv, Shape, RestShape
<1>2. ASSUME NEW e \in calls, CallReleases(e), UNCHANGED workVars PROVE Releases({leases[e].job})
    BY <1>2 DEF CallReleases, workVars, storeVars, Releases, Tables, SweepInv, CallsInv
<1> QED BY <1>1, <1>2


\* The leases of jobs js end, by the sweep or by a call, and a release is due for
\* each; the lease in the loop's hands is none of them.
Ends(js) ==
    /\ UNCHANGED <<leases, failed, streamVars, overtaken>>
    /\ \A j \in Jobs : /\ job'[j].epoch = job[j].epoch
                       /\ Leased(j)' <=> Leased(j) /\ j \notin js
    /\ \A j \in js : ReleaseDue(j)'
    /\ running' \subseteq running
    /\ calls \subseteq calls' /\ \A e \in calls' \ calls : e \in running /\ leases[e].job \in js
    /\ loop.ids \subseteq loop'.ids /\ loop'.ids \subseteq loop.ids \cup js
    /\ loop'.ids # {} => loop'.pc = "release"
    /\ loop'.pc = loop.pc \/ (loop.pc = "sleep" /\ loop'.pc = "release")
    /\ InHand => leases[Held].job \notin js

\* So does the end of some leases.
LEMMA EndsTables ==
    ASSUME Shape, Shape', Tables, NEW js \in SUBSET Jobs, Ends(js)
    PROVE  Tables'
<1>1. /\ Tokens' = Tokens /\ Held' = Held
      /\ \A e : WorkerOf(e)' = WorkerOf(e)
      /\ UNCHANGED <<leases, failed, overtaken, conn, inFlight, ch, owner>>
    BY DEF Ends, streamVars, Tokens, Held, WorkerOf
<1>2. \A j \in Jobs : Unslotted(j)' <=> Unslotted(j)
    BY <1>1 DEF Ends, Unslotted
<1>3. \A j \in Jobs : /\ job'[j].epoch = job[j].epoch
                      /\ Leased(j)' <=> Leased(j) /\ j \notin js
    BY DEF Ends
<1>4. LeaseInv'
    BY <1>1, <1>3 DEF Tables, LeaseInv
<1>5. HandInv'
  <2>1. ASSUME InHand'
        PROVE  /\ Held # 0 /\ Current(Held)' /\ Held \notin running' \cup calls'
               /\ \A s \in Streams : \A i \in DOMAIN ch[s] : ch[s][i] # Held
    <3>1. InHand
        BY <2>1 DEF Ends, InHand
    <3>2. /\ Held # 0 /\ Current(Held) /\ Held \notin running \cup calls
          /\ \A s \in Streams : \A i \in DOMAIN ch[s] : ch[s][i] # Held
        BY <3>1 DEF Tables, HandInv
    <3>3. Held \in Tokens /\ leases[Held].job \in Jobs /\ leases[Held].job \notin js
        BY <3>1, <3>2, LenLeases, LeaseFields DEF Shape, Held, Ends
    <3>4. Current(Held)'
        BY <1>1, <1>3, <3>2, <3>3 DEF Current, Leased, Held
    <3> QED BY <3>2, <3>4 DEF Ends
  <2>2. loop'.pc = "own" => inFlight'[WorkerOf(Held)] < MaxInFlight
      BY <1>1 DEF Tables, HandInv, Ends
  <2> QED BY <1>1, <2>1, <2>2 DEF HandInv
<1>6. ChannelInv'
    BY <1>1 DEF Tables, ChannelInv
<1>7. SweepInv'
  <2>1. loop.ids \subseteq Jobs
      BY DEF Shape, RestShape
  <2> QED BY <1>3, <2>1 DEF Tables, SweepInv, Ends
<1>8. CallsInv'
  <2>1. \A e \in calls' : leases[e].job \in Jobs
      BY <1>1, LeaseFields DEF Shape, RestShape
  <2> QED BY <1>1, <1>2, <1>3, <2>1 DEF Tables, CallsInv, Ends
<1>9. OwnedInv'
    BY <1>1 DEF Tables, OwnedInv, Owned
<1>10. OwnerInv'
    BY <1>1, <1>2, <1>3 DEF Tables, OwnerInv, CtxDone
<1>11. SlotInv'
  <2>1. \A j \in Jobs : ReleaseDue(j) => ReleaseDue(j)'
      BY <1>1 DEF Ends, ReleaseDue
  <2>2. \A j \in js : ReleaseDue(j)'
      BY DEF Ends
  <2>3. \A s \in Streams : Owned(s)' = Owned(s) /\ (CtxDone(s)' <=> CtxDone(s))
      BY <1>1 DEF Owned, CtxDone
  <2> QED BY <1>1, <1>2, <1>3, <2>1, <2>2, <2>3 DEF Tables, SlotInv
<1> QED BY <1>4, <1>5, <1>6, <1>7, <1>8, <1>9, <1>10, <1>11 DEF Tables

\* ReclaimExpired ends leases that have expired.
LEMMA ReclaimEnds ==
    ASSUME Shape, Tables, LoopReclaim, UNCHANGED workVars
    PROVE  \E js \in SUBSET Jobs : Ends(js)
<1>0. PICK js \in SUBSET {j \in Jobs : ~failed /\ job[j].expiry = "passed"} :
        /\ job' = [j \in Jobs |-> IF j \in js THEN Failed(j) ELSE job[j]]
        /\ loop' = [loop EXCEPT !.pc = "release", !.ids = js]
    BY DEF LoopReclaim
<1>1. js \subseteq Jobs /\ \A j \in js : Leased(j)
    BY DEF Shape, StoreShape, GoodJob, Leased
<1>2. /\ job' = [j \in Jobs |-> IF j \in js THEN Failed(j) ELSE job[j]]
      /\ loop.pc = "sleep" /\ loop' = [loop EXCEPT !.pc = "release", !.ids = js]
      /\ UNCHANGED <<leases, failed, streamVars, calls, overtaken, running>>
    BY <1>0 DEF LoopReclaim, workVars
<1>3. \A j \in Jobs : job'[j].epoch = job[j].epoch /\ (Leased(j)' <=> Leased(j) /\ j \notin js)
    BY <1>1, <1>2, FailedGood DEF Leased, Shape
<1>4. loop'.pc = "release" /\ loop'.ids = js /\ loop.ids = {} /\ ~InHand
    BY <1>2 DEF Shape, RestShape, Tables, SweepInv, InHand
<1>5. \A j \in js : ReleaseDue(j)'
    BY <1>4 DEF ReleaseDue
<1>6. Ends(js)
    BY <1>2, <1>3, <1>4, <1>5 DEF Ends
<1> QED BY <1>1, <1>6

\* A call that passes holdsLease ends the lease; one that does not changes
\* nothing the tables depend on.
LEMMA SettleEnds ==
    ASSUME Shape, Tables, NEW e \in running, HandlerSucceeds(e) \/ HandlerFails(e)
    PROVE  Undisturbed \/ \E js \in SUBSET Jobs : Ends(js)
<1>1. e \in Tokens /\ leases[e].job \in Jobs
    BY LeaseFields DEF Shape, RestShape
<1>2. /\ UNCHANGED <<leases, failed, streamVars, loop, overtaken>>
      /\ running' = running \ {e}
    BY DEF HandlerSucceeds, HandlerFails, Finished, Ack, Nack, Settle
<1>3. CASE UNCHANGED <<job, calls>>
  <2>1. Undisturbed
      BY <1>2, <1>3 DEF Undisturbed, Leased, CtxDone, streamVars
  <2> QED BY <2>1
<1>4. ASSUME Current(e), ~failed, calls' = calls \cup {e},
             \A j \in Jobs : j # leases[e].job => job'[j] = job[j],
             ~Leased(leases[e].job)', job'[leases[e].job].epoch = e
      PROVE  Ends({leases[e].job})
  <2>1. \A j \in Jobs : /\ job'[j].epoch = job[j].epoch
                        /\ Leased(j)' <=> Leased(j) /\ j # leases[e].job
      BY <1>1, <1>2, <1>4 DEF Leased, Current
  <2>2. InHand => leases[Held].job # leases[e].job
      BY <1>4 DEF Tables, HandInv, Current
  <2>3. ReleaseDue(leases[e].job)'
      BY <1>2, <1>4 DEF ReleaseDue
  <2> QED BY <1>2, <1>4, <2>1, <2>2, <2>3 DEF Ends, Tables, SweepInv
<1> QED BY <1>1, <1>3, <1>4, SettleShape DEF Shape


\* A lease begins: the loop holds it, and neither a slot nor a channel knows of it.
LEMMA LeaseTables ==
    ASSUME Shape, Shape', Tables, NEW s \in Streams, NEW j \in Jobs, LoopLease(s, j),
           UNCHANGED workVars
    PROVE  Tables'
<1> DEFINE n == Len(leases)
           r == [state |-> "Leased", attempt |-> job[j].attempt + 1, epoch |-> n + 1,
                 expiry |-> "first"]
<1>1. /\ loop.pc = "scan" /\ inFlight[s] < MaxInFlight /\ ~failed /\ job[j].state = "Ready"
      /\ leases' = Append(leases, [job |-> j, stream |-> s])
      /\ job' = [job EXCEPT ![j] = r]
      /\ loop' = [loop EXCEPT !.pc = "own", !.todo = loop.todo \ {s}]
      /\ UNCHANGED <<failed, conn, inFlight, ch, owner, calls, overtaken, running, cancelled>>
    BY DEF LoopLease, workVars, streamVars
<1>2. leases \in Seq([job : Jobs, stream : Streams]) /\ n \in Nat /\ Tokens = 1..n
    BY LenLeases DEF Shape, StoreShape
<1>3. /\ Held' = n + 1 /\ Tokens' = 1..(n + 1)
      /\ leases'[n + 1] = [job |-> j, stream |-> s]
      /\ \A e \in Tokens : leases'[e] = leases[e]
    BY <1>1, <1>2 DEF Held, Tokens
<1>4. \A k \in Jobs : job'[k] = IF k = j THEN r ELSE job[k]
    BY <1>1 DEF Shape, StoreShape
<1>5. /\ ~Leased(j) /\ Leased(j)' /\ job'[j].epoch = n + 1
      /\ \A k \in Jobs \ {j} : (Leased(k)' <=> Leased(k)) /\ job'[k].epoch = job[k].epoch
    BY <1>1, <1>4 DEF Leased
<1> HIDE DEF n, r
<1>6. loop'.pc = "own" /\ loop'.ids = loop.ids /\ loop.ids = {}
    BY <1>1 DEF Shape, RestShape, Tables, SweepInv
<1>7. \A k \in Jobs : job[k].epoch \in 0..n
    BY <1>2 DEF Shape, StoreShape, n
<1>8. /\ Unslotted(j)' /\ \A k \in Jobs : ~Unslotted(k)
      /\ \A k \in Jobs \ {j} : ~Unslotted(k)'
    BY <1>1, <1>2, <1>3, <1>5, <1>6, <1>7 DEF Unslotted
<1>9. \A e \in Tokens : WorkerOf(e)' = WorkerOf(e)
    BY <1>3 DEF WorkerOf
<1>10. LeaseInv'
    BY <1>2, <1>3, <1>5 DEF Tables, LeaseInv
<1>11. /\ calls \cup running \subseteq Tokens
       /\ \A t \in Streams : \A i \in DOMAIN ch[t] : ch[t][i] \in Tokens
  <2>1. \A t \in Streams : ch[t] \in Seq(Tokens)
      BY DEF Shape, StreamShape
  <2>2. \A t \in Streams : \A i \in DOMAIN ch[t] : ch[t][i] \in Tokens
      BY <2>1, LenProperties, ElementOfSeq
  <2> QED BY <2>2 DEF Shape, RestShape
<1>12. HandInv'
  <2>1. Held' # 0 /\ Held' \notin Tokens
      BY <1>2, <1>3
  <2>2. Current(Held)'
      BY <1>3, <1>5 DEF Current, Leased, Held
  <2>4. WorkerOf(Held)' = s
      BY <1>3 DEF WorkerOf, Held
  <2>3. inFlight'[WorkerOf(Held)'] < MaxInFlight
      BY <1>1, <2>4
  <2> QED BY <1>1, <1>11, <2>1, <2>2, <2>3 DEF HandInv
<1>13. ChannelInv'
    BY <1>1, <1>9, <1>11 DEF Tables, ChannelInv
<1>14. SweepInv'
    BY <1>6 DEF SweepInv
<1>15. CallsInv'
  <2>1. ASSUME ~overtaken, NEW e \in calls, Leased(leases[e].job)'
        PROVE  Unslotted(leases[e].job)'
    <3>1. e \in Tokens /\ leases'[e] = leases[e] /\ leases[e].job \in Jobs
        BY <1>3, <1>11, LeaseFields DEF Shape
    <3>2. CASE leases[e].job = j
        BY <1>8, <3>1, <3>2 DEF Unslotted
    <3>3. CASE leases[e].job # j
      <4>1. Leased(leases[e].job)
          BY <1>4, <2>1, <3>1, <3>3 DEF Leased
      <4> QED BY <1>8, <2>1, <3>1, <4>1 DEF Tables, CallsInv
    <3> QED BY <3>2, <3>3
  <2> QED BY <1>1, <2>1 DEF CallsInv
<1>16. OwnedInv'
    BY <1>1 DEF Tables, OwnedInv, Owned
<1>17. OwnerInv'
  <2>1. \A k \in Jobs : Leased(k) => job[k].epoch \in Tokens
      BY DEF Tables, LeaseInv
  <2> QED BY <1>1, <1>5, <1>8, <1>9, <2>1 DEF Tables, OwnerInv, CtxDone
<1>18. SlotInv'
  <2>1. \A k \in Jobs : Leased(k) => job[k].epoch \in Tokens
      BY DEF Tables, LeaseInv
  <2>2. \A k \in Jobs : ReleaseDue(k) => ReleaseDue(k)'
      BY <1>1, <1>3, <1>6, <1>11 DEF ReleaseDue
  <2>3. \A t \in Streams : Owned(t)' = Owned(t) /\ (CtxDone(t)' <=> CtxDone(t))
      BY <1>1 DEF Owned, CtxDone
  <2> QED BY <1>1, <1>5, <1>8, <1>9, <2>1, <2>2, <2>3 DEF Tables, SlotInv
<1> QED BY <1>10, <1>12, <1>13, <1>14, <1>15, <1>16, <1>17, <1>18 DEF Tables

\* The lease gets its slot.
LEMMA OwnTables ==
    ASSUME Shape, Shape', Tables, LoopOwn, UNCHANGED workVars
    PROVE  Tables'
<1> DEFINE j == leases[Held].job
           s == leases[Held].stream
<1>1. /\ loop.pc = "own"
      /\ inFlight' = [inFlight EXCEPT ![s] = @ + 1]
      /\ owner' = [owner EXCEPT ![j] = s]
      /\ overtaken' = (overtaken \/ \E e \in calls : leases[e].job = j)
      /\ loop' = [loop EXCEPT !.pc = "send"]
      /\ UNCHANGED <<job, leases, failed, conn, ch, calls, running, cancelled>>
    BY DEF LoopOwn, workVars, storeVars
<1>2. /\ Held # 0 /\ Current(Held) /\ Held \notin running \cup calls
      /\ \A t \in Streams : \A i \in DOMAIN ch[t] : ch[t][i] # Held
    BY <1>1 DEF Tables, HandInv, InHand
<1>3. Held \in Tokens /\ j \in Jobs /\ s \in Streams /\ s # None
    BY <1>2, LenLeases, LeaseFields, DispatcherNone DEF Shape, Held
<1>4. Leased(j) /\ job[j].epoch = Held
    BY <1>2 DEF Current, Leased
<1>5. loop'.pc = "send" /\ loop'.ids = loop.ids /\ loop.ids = {}
    BY <1>1 DEF Shape, RestShape, Tables, SweepInv
<1>6. /\ \A k \in Jobs : (Leased(k)' <=> Leased(k)) /\ ~Unslotted(k)'
      /\ \A k \in Jobs : Leased(k) => (Unslotted(k) <=> k = j)
  <2>1. \A k \in Jobs : Leased(k) => leases[job[k].epoch].job = k
      BY DEF Tables, LeaseInv
  <2> QED BY <1>1, <1>4, <1>5, <2>1 DEF Leased, Unslotted
<1>7. Held' = Held /\ Tokens' = Tokens /\ \A e : WorkerOf(e)' = WorkerOf(e) /\ WorkerOf(Held) = s
    BY <1>1 DEF Held, Tokens, WorkerOf
<1>8. /\ \A t \in Streams : inFlight'[t] = IF t = s THEN inFlight[t] + 1 ELSE inFlight[t]
      /\ \A k \in Jobs : owner'[k] = IF k = j THEN s ELSE owner[k]
    BY <1>1, <1>3 DEF Shape, StreamShape
<1>9. LeaseInv' /\ ChannelInv'
    BY <1>1, <1>7 DEF Tables, LeaseInv, ChannelInv, Leased
<1>10. HandInv'
  <2>1. Current(Held)'
      BY <1>1, <1>2 DEF Current, Held
  <2> QED BY <1>1, <1>2, <1>5, <1>7, <2>1 DEF HandInv
<1>11. SweepInv'
    BY <1>5 DEF SweepInv
<1> HIDE DEF j, s
<1>12. CallsInv'
  <2>1. ASSUME ~overtaken', NEW e \in calls PROVE ~Leased(leases[e].job)
    <3>1. leases[e].job \in Jobs /\ leases[e].job # j
        BY <1>1, <2>1, LeaseFields DEF Shape, RestShape
    <3> QED BY <1>1, <1>6, <2>1, <3>1 DEF Tables, CallsInv
  <2> QED BY <1>1, <2>1 DEF CallsInv, Leased
<1>13. ASSUME NEW t \in Streams
       PROVE  /\ IsFiniteSet(Owned(t)') /\ Cardinality(Owned(t)') <= inFlight'[t]
              /\ owner[j] = None => Cardinality(Owned(t)') = IF t = s THEN Cardinality(Owned(t)) + 1
                                                             ELSE Cardinality(Owned(t))
  <2>1. IsFiniteSet(Owned(t)) /\ Cardinality(Owned(t)) <= inFlight[t]
      BY DEF Tables, OwnedInv
  <2>2. Owned(t)' = IF t = s THEN Owned(t) \cup {j} ELSE Owned(t) \ {j}
      BY <1>3, <1>8 DEF Owned
  <2>3. owner[j] = None => j \notin Owned(t)
      BY DispatcherNone DEF Owned
  <2>4. /\ IsFiniteSet(Owned(t) \cup {j})
        /\ Cardinality(Owned(t) \cup {j}) = IF j \in Owned(t) THEN Cardinality(Owned(t))
                                            ELSE Cardinality(Owned(t)) + 1
      BY <2>1, FS_AddElement, Zenon
  <2>5. /\ IsFiniteSet(Owned(t) \ {j})
        /\ Cardinality(Owned(t) \ {j}) = IF j \in Owned(t) THEN Cardinality(Owned(t)) - 1
                                         ELSE Cardinality(Owned(t))
      BY <2>1, FS_RemoveElement, Zenon
  <2>6. Cardinality(Owned(t)) \in Nat /\ inFlight[t] \in Nat
      BY <2>1, FS_CardinalityType, MaxInFlightAssumption DEF Shape, StreamShape
  <2> QED BY <1>8, <2>1, <2>2, <2>3, <2>4, <2>5, <2>6
<1>14. OwnedInv'
    BY <1>13 DEF OwnedInv
<1>15. OwnerInv'
    BY <1>1, <1>4, <1>6, <1>7, <1>8 DEF Tables, OwnerInv, CtxDone
<1>16. SlotInv'
  <2> SUFFICES ASSUME ~overtaken', ~failed'
               PROVE  /\ \A k \in Jobs : owner'[k] # None =>
                           \/ Leased(k)' /\ ~Unslotted(k)' /\ WorkerOf(job[k].epoch)' = owner'[k]
                           \/ ReleaseDue(k)'
                      /\ \A t \in Streams : ~CtxDone(t)' => inFlight'[t] = Cardinality(Owned(t)')
      BY DEF SlotInv
  <2>1. ~overtaken /\ ~failed /\ ~ReleaseDue(j)
      BY <1>1, <1>5 DEF ReleaseDue
  <2>2. owner[j] = None
      BY <1>3, <1>4, <1>6, <2>1 DEF Tables, SlotInv
  <2>3. \A k \in Jobs : ReleaseDue(k)' <=> ReleaseDue(k)
      BY <1>1, <1>5 DEF ReleaseDue
  <2>4. ASSUME NEW k \in Jobs, owner'[k] # None
        PROVE  \/ Leased(k)' /\ ~Unslotted(k)' /\ WorkerOf(job[k].epoch)' = owner'[k]
               \/ ReleaseDue(k)'
    <3>1. CASE k = j
        BY <1>1, <1>4, <1>6, <1>7, <1>8, <3>1
    <3>2. CASE k # j
        BY <1>1, <1>6, <1>7, <1>8, <2>1, <2>3, <2>4, <3>2 DEF Tables, SlotInv
    <3> QED BY <3>1, <3>2
  <2>5. \A t \in Streams : CtxDone(t)' <=> CtxDone(t)
      BY <1>1 DEF CtxDone
  <2>6. \A t \in Streams : ~CtxDone(t)' => inFlight'[t] = Cardinality(Owned(t)')
      BY <1>8, <1>13, <2>1, <2>2, <2>5 DEF Tables, SlotInv
  <2> QED BY <2>4, <2>6
<1> QED BY <1>9, <1>10, <1>11, <1>12, <1>14, <1>15, <1>16 DEF Tables


\* The lease leaves the loop's hands, for the channel or for nowhere.
LEMMA SendTables ==
    ASSUME Shape, Shape', Tables, LoopSend, UNCHANGED workVars
    PROVE  Tables'
<1> DEFINE s == leases[Held].stream
<1>1. /\ loop.pc = "send" /\ loop'.pc = "scan" /\ loop'.ids = loop.ids /\ loop.ids = {}
      /\ UNCHANGED <<job, leases, failed, conn, inFlight, owner, calls, overtaken, running>>
    BY DEF LoopSend, workVars, storeVars, Shape, RestShape, Tables, SweepInv
<1>2. ch' = ch \/ ch' = [ch EXCEPT ![s] = Append(@, Held)]
    BY DEF LoopSend
<1>3. /\ Held \in Tokens /\ s \in Streams /\ WorkerOf(Held) = s
      /\ \A t \in Streams : \A i \in DOMAIN ch[t] : ch[t][i] # Held
  <2>1. Held # 0 /\ \A t \in Streams : \A i \in DOMAIN ch[t] : ch[t][i] # Held
      BY <1>1 DEF Tables, HandInv, InHand
  <2>2. Held \in Tokens
      BY <2>1, LenLeases DEF Shape, Held
  <2> QED BY <2>1, <2>2, LeaseFields DEF Shape, WorkerOf
<1>4. ChannelInv'
  <2>1. CASE ch' = ch
      BY <1>1, <2>1 DEF Tables, ChannelInv, WorkerOf
  <2>2. CASE ch' = [ch EXCEPT ![s] = Append(@, Held)]
    <3>1. ch \in [Streams -> Seq(Tokens)]
        BY DEF Shape, StreamShape
    <3>2. ch'[s] = Append(ch[s], Held) /\ \A t \in Streams \ {s} : ch'[t] = ch[t]
        BY <1>3, <2>2, <3>1
    <3>3. /\ ch[s] \in Seq(Tokens) /\ Len(ch[s]) \in Nat /\ DOMAIN ch[s] = 1..Len(ch[s])
          /\ DOMAIN ch'[s] = 1..(Len(ch[s]) + 1) /\ ch'[s][Len(ch[s]) + 1] = Held
          /\ \A i \in 1..Len(ch[s]) : ch'[s][i] = ch[s][i]
        BY <1>3, <3>1, <3>2
    <3> HIDE DEF s
    <3>4. ASSUME NEW i \in DOMAIN ch'[s]
          PROVE  /\ WorkerOf(ch'[s][i]) = s
                 /\ \A k \in DOMAIN ch'[s] : ch'[s][i] = ch'[s][k] => i = k
      <4>1. \A k \in 1..Len(ch[s]) : /\ WorkerOf(ch[s][k]) = s /\ ch[s][k] # Held
                                     /\ \A m \in 1..Len(ch[s]) : ch[s][k] = ch[s][m] => k = m
          BY <1>3, <3>3 DEF Tables, ChannelInv
      <4>2. \A k \in DOMAIN ch'[s] : k \in 1..Len(ch[s]) \/ k = Len(ch[s]) + 1
          BY <3>3
      <4>3. CASE i = Len(ch[s]) + 1
          BY <1>3, <3>3, <4>1, <4>2, <4>3
      <4>4. CASE i \in 1..Len(ch[s])
          BY <3>3, <4>1, <4>2, <4>4
      <4> QED BY <4>2, <4>3, <4>4
    <3>5. ASSUME NEW t \in Streams \ {s}, NEW i \in DOMAIN ch'[t]
          PROVE  /\ WorkerOf(ch'[t][i]) = t
                 /\ \A k \in DOMAIN ch'[t] : ch'[t][i] = ch'[t][k] => i = k
        BY <3>2 DEF Tables, ChannelInv
    <3> QED BY <1>1, <3>4, <3>5 DEF ChannelInv, WorkerOf
  <2> QED BY <1>2, <2>1, <2>2
<1>5. LeaseInv' /\ HandInv' /\ SweepInv' /\ OwnedInv'
    BY <1>1 DEF Tables, LeaseInv, HandInv, SweepInv, OwnedInv, InHand, Leased, Owned, Tokens
<1>6. \A j \in Jobs : ~Unslotted(j)' /\ ~Unslotted(j) /\ (Leased(j)' <=> Leased(j))
    BY <1>1 DEF Unslotted, Leased
<1>7. CallsInv'
  <2>1. \A e \in calls : leases[e].job \in Jobs
      BY LeaseFields DEF Shape, RestShape
  <2> QED BY <1>1, <1>6, <2>1 DEF Tables, CallsInv
<1>8. OwnerInv'
    BY <1>1, <1>6 DEF Tables, OwnerInv, CtxDone, WorkerOf
<1>9. SlotInv'
    BY <1>1, <1>6 DEF Tables, SlotInv, CtxDone, WorkerOf, Owned, ReleaseDue
<1> QED BY <1>4, <1>5, <1>7, <1>8, <1>9 DEF Tables

\* A worker takes a lease from its channel.
LEMMA ReceiveTables ==
    ASSUME Shape, Shape', Tables, NEW s \in Streams, Receive(s)
    PROVE  Tables'
<1>1. /\ ch[s] # <<>> /\ ch' = [ch EXCEPT ![s] = Tail(ch[s])]
      /\ running' \subseteq running \cup {Head(ch[s])}
      /\ UNCHANGED <<job, leases, failed, conn, inFlight, owner, calls, loop, overtaken>>
    BY DEF Receive, StreamSend, storeVars
<1>2. ch \in [Streams -> Seq(Tokens)]
    BY DEF Shape, StreamShape
<1>3. ch'[s] = Tail(ch[s]) /\ \A t \in Streams \ {s} : ch'[t] = ch[t]
    BY <1>1, <1>2
<1>4. /\ Len(ch[s]) \in Nat /\ 1 \in DOMAIN ch[s] /\ Head(ch[s]) = ch[s][1]
      /\ DOMAIN ch[s] = 1..Len(ch[s]) /\ DOMAIN ch'[s] = 1..(Len(ch[s]) - 1)
      /\ \A i \in DOMAIN ch'[s] : i + 1 \in DOMAIN ch[s] /\ ch'[s][i] = ch[s][i + 1]
  <2>1. ch[s] \in Seq(Tokens) /\ ch[s] # <<>>
      BY <1>1, <1>2
  <2>2. Len(ch[s]) \in Nat \ {0} /\ DOMAIN ch[s] = 1..Len(ch[s]) /\ Head(ch[s]) = ch[s][1]
      BY <2>1
  <2>3. /\ Tail(ch[s]) \in Seq(Tokens) /\ Len(Tail(ch[s])) = Len(ch[s]) - 1
        /\ \A i \in 1..Len(Tail(ch[s])) : Tail(ch[s])[i] = ch[s][i + 1]
      BY <2>1, HeadTailProperties
  <2>4. DOMAIN Tail(ch[s]) = 1..(Len(ch[s]) - 1)
      BY <2>3, LenProperties
  <2> QED BY <1>3, <2>2, <2>3, <2>4
<1>5. \A t \in Streams : \A i \in DOMAIN ch'[t] : \E k \in DOMAIN ch[t] : ch'[t][i] = ch[t][k]
    BY <1>3, <1>4
<1>6. HandInv'
  <2>1. ASSUME InHand
        PROVE  /\ Held \notin running' \cup calls'
               /\ \A t \in Streams : \A i \in DOMAIN ch'[t] : ch'[t][i] # Held
    <3>1. /\ Held \notin running \cup calls
          /\ \A t \in Streams : \A i \in DOMAIN ch[t] : ch[t][i] # Held
        BY <2>1 DEF Tables, HandInv
    <3>2. Head(ch[s]) # Held
        BY <1>4, <3>1
    <3> QED BY <1>1, <1>5, <3>1, <3>2
  <2> QED BY <1>1, <2>1 DEF Tables, HandInv, InHand, Held, Current, WorkerOf
<1>7. ChannelInv'
  <2>1. ASSUME NEW i \in DOMAIN ch'[s]
        PROVE  /\ WorkerOf(ch'[s][i]) = s
               /\ \A k \in DOMAIN ch'[s] : ch'[s][i] = ch'[s][k] => i = k
      BY <1>4 DEF Tables, ChannelInv
  <2>2. ASSUME NEW t \in Streams \ {s}, NEW i \in DOMAIN ch'[t]
        PROVE  /\ WorkerOf(ch'[t][i]) = t
               /\ \A k \in DOMAIN ch'[t] : ch'[t][i] = ch'[t][k] => i = k
      BY <1>3 DEF Tables, ChannelInv
  <2> QED BY <1>1, <2>1, <2>2 DEF ChannelInv, WorkerOf
<1>8. LeaseInv' /\ SweepInv' /\ CallsInv' /\ OwnedInv' /\ OwnerInv' /\ SlotInv'
    BY <1>1 DEF Tables, LeaseInv, SweepInv, CallsInv, OwnedInv, OwnerInv, SlotInv, Leased,
                Unslotted, Held, Owned, Tokens, WorkerOf, CtxDone, ReleaseDue
<1> QED BY <1>6, <1>7, <1>8 DEF Tables

\* A broken stream is forgotten, with what it owned.
LEMMA UnregisterTables ==
    ASSUME Shape, Shape', Tables, NEW s \in Streams, Unregister(s), UNCHANGED workVars
    PROVE  Tables'
<1>1. /\ conn[s] = "hungup" /\ conn' = [conn EXCEPT ![s] = "gone"]
      /\ \A j \in Jobs : owner'[j] = IF owner[j] = s THEN None ELSE owner[j]
      /\ UNCHANGED <<job, leases, failed, inFlight, ch, calls, loop, overtaken, running>>
    BY DEF Unregister, storeVars, workVars
<1>2. \A t \in Streams : (CtxDone(t)' <=> CtxDone(t)) /\ CtxDone(s)
    BY <1>1 DEF CtxDone, Shape, StreamShape
<1>3. LeaseInv' /\ HandInv' /\ ChannelInv' /\ SweepInv' /\ CallsInv'
    BY <1>1 DEF Tables, LeaseInv, HandInv, ChannelInv, SweepInv, CallsInv, Leased, InHand,
                Unslotted, Held, Tokens, WorkerOf, Current
<1>4. \A t \in Streams : Owned(t)' = IF t = s THEN {} ELSE Owned(t)
    BY <1>1, DispatcherNone DEF Owned
<1>5. OwnedInv'
  <2>1. \A t \in Streams : inFlight[t] \in Nat
      BY MaxInFlightAssumption DEF Shape, StreamShape
  <2>2. IsFiniteSet({}) /\ Cardinality({}) = 0
      BY FS_EmptySet
  <2> QED BY <1>1, <1>4, <2>1, <2>2 DEF Tables, OwnedInv
<1>6. /\ \A j \in Jobs : Leased(j) => WorkerOf(job[j].epoch) \in Streams
      /\ \A j \in Jobs : (Leased(j)' <=> Leased(j)) /\ (Unslotted(j)' <=> Unslotted(j))
                         /\ (ReleaseDue(j)' <=> ReleaseDue(j))
      /\ \A e : WorkerOf(e)' = WorkerOf(e)
    BY <1>1, LeaseFields DEF Tables, LeaseInv, Shape, WorkerOf, Leased, Unslotted, Held, ReleaseDue
<1>7. OwnerInv'
    BY <1>1, <1>2, <1>6 DEF Tables, OwnerInv
<1>8. SlotInv'
    BY <1>1, <1>2, <1>4, <1>6 DEF Tables, SlotInv
<1> QED BY <1>3, <1>5, <1>7, <1>8 DEF Tables


\* The remaining steps leave the tables alone.
LEMMA UndisturbedSteps ==
    ASSUME Shape
    PROVE  /\ \A s \in Streams : LoopSkip(s) /\ UNCHANGED workVars => Undisturbed
           /\ LoopEndPass /\ UNCHANGED workVars => Undisturbed
           /\ (LoopExit \/ Stop \/ FlushFails) /\ UNCHANGED workVars => Undisturbed
           /\ \A j \in Jobs : (Submit(j) /\ UNCHANGED workVars) \/ ClockStep(j) => Undisturbed
           /\ \A s \in Streams : Connect(s) \/ StreamBreaks(s) \/ WorkerStops(s) \/ WorkerDies(s)
                                     => Undisturbed
           /\ \A e \in running : ReportLost(e) \/ Deadline(e) \/ Beat(e) => Undisturbed
           /\ \A e \in calls : CallFails(e) /\ UNCHANGED workVars => Undisturbed
<1> USE DEF workVars, storeVars, dispVars, Leased, CtxDone
<1>1. loop \in [pc : {"release", "scan", "own", "send", "sleep", "exit"},
                ids : SUBSET Jobs, seen : SUBSET Streams, todo : SUBSET Streams, placed : BOOLEAN]
      /\ job \in [Jobs -> [state : JobStates, attempt : Nat, epoch : 0..Len(leases),
                           expiry : Expiries]]
      /\ \A j \in Jobs : job[j].state = "Leased" <=> job[j].expiry # "none"
    BY DEF Shape, RestShape, StoreShape, GoodJob
<1>2. ASSUME NEW s \in Streams, LoopSkip(s), UNCHANGED workVars PROVE Undisturbed
    BY <1>1, <1>2 DEF LoopSkip, Undisturbed, streamVars
<1>3. ASSUME LoopEndPass, UNCHANGED workVars PROVE Undisturbed
    BY <1>1, <1>3 DEF LoopEndPass, Undisturbed, streamVars
<1>4. ASSUME LoopExit \/ Stop \/ FlushFails, UNCHANGED workVars PROVE Undisturbed
    BY <1>1, <1>4 DEF LoopExit, Stop, FlushFails, Undisturbed, streamVars
<1>5. ASSUME NEW j \in Jobs, (Submit(j) /\ UNCHANGED workVars) \/ ClockStep(j) PROVE Undisturbed
  <2>1. UNCHANGED <<leases, failed, conn, inFlight, ch, owner, calls, loop, overtaken, running>>
      BY <1>5 DEF Submit, ClockStep, BackoffElapses, ExpiryPasses, streamVars
  <2>2. \A k \in Jobs : (Leased(k)' <=> Leased(k)) /\ job'[k].epoch = job[k].epoch
    <3>1. CASE Submit(j)
        BY <1>1, <3>1 DEF Submit
    <3>2. CASE BackoffElapses(j)
        BY <1>1, <3>2 DEF BackoffElapses
    <3>3. CASE ExpiryPasses(j)
        BY <1>1, <3>3 DEF ExpiryPasses
    <3> QED BY <1>5, <3>1, <3>2, <3>3 DEF ClockStep
  <2> QED BY <2>1, <2>2 DEF Undisturbed
<1>6. ASSUME NEW s \in Streams,
             Connect(s) \/ StreamBreaks(s) \/ WorkerStops(s) \/ WorkerDies(s)
      PROVE  Undisturbed
  <2>1. /\ UNCHANGED <<job, leases, failed, inFlight, owner, calls, loop, overtaken>>
        /\ running' \subseteq running
      BY <1>6 DEF Connect, Register, StreamBreaks, WorkerStops, WorkerDies, HangUp
  <2>4. ch' = ch \/ ch' = [ch EXCEPT ![s] = <<>>]
      BY <1>6 DEF Connect, Register, StreamBreaks, WorkerStops, WorkerDies, HangUp
  <2>6. /\ ch \in [Streams -> Seq(Tokens)]
        /\ conn \in [Streams -> {"new", "open", "silent", "hungup", "gone"}]
      BY DEF Shape, StreamShape
  <2>2. \A t \in Streams : ch'[t] = ch[t] \/ ch'[t] = <<>>
      BY <2>4, <2>6
  <2>5. \/ conn' = [conn EXCEPT ![s] = "hungup"]
        \/ conn[s] \in {"new", "open"} /\ conn' = [conn EXCEPT ![s] = "open"]
        \/ conn[s] = "open" /\ conn' = [conn EXCEPT ![s] = "silent"]
      BY <1>6 DEF Connect, Register, StreamBreaks, WorkerStops, WorkerDies, HangUp
  <2>3. \A t \in Streams : CtxDone(t) => CtxDone(t)'
      BY <2>5, <2>6
  <2> QED BY <2>1, <2>2, <2>3 DEF Undisturbed
<1>7. ASSUME NEW e \in running, ReportLost(e) \/ Deadline(e) \/ Beat(e) PROVE Undisturbed
  <2>1. /\ UNCHANGED <<leases, failed, conn, inFlight, ch, owner, calls, loop, overtaken>>
        /\ running' \subseteq running
      BY <1>7 DEF ReportLost, Finished, Deadline, Beat, Heartbeat, streamVars
  <2>2. leases[e].job \in Jobs
      BY LeaseFields DEF Shape, RestShape
  <2>3. \A k \in Jobs : (Leased(k)' <=> Leased(k)) /\ job'[k].epoch = job[k].epoch
    <3>1. CASE Heartbeat(e)
        BY <1>1, <2>2, <3>1 DEF Heartbeat
    <3>2. CASE UNCHANGED job
        BY <3>2
    <3> QED BY <1>7, <3>1, <3>2 DEF ReportLost, Deadline, Beat
  <2> QED BY <2>1, <2>3 DEF Undisturbed
<1>8. ASSUME NEW e \in calls, CallFails(e), UNCHANGED workVars PROVE Undisturbed
    BY <1>1, <1>8 DEF CallFails, Undisturbed, streamVars
<1> QED BY <1>2, <1>3, <1>4, <1>5, <1>6, <1>7, <1>8

-----------------------------------------------------------------------------
(* The invariant *)

LEMMA SlotsInit == Init => TypeOK /\ Slots
<1> SUFFICES ASSUME Init PROVE TypeOK /\ Slots
    OBVIOUS
<1>1. leases = <<>> /\ Len(leases) = 0 /\ Tokens = {} /\ calls = {} /\ running = {}
    BY DEF Init, Tokens
<1>2. TypeOK /\ AttemptInv
  <2>1. StoreShape
    <3>1. \A j \in Jobs : job[j] = [state |-> "Absent", attempt |-> 0, epoch |-> 0, expiry |-> "none"]
                         /\ MaxRetries[j] \in Nat
        BY MaxRetriesAssumption DEF Init
    <3>2. job = [j \in Jobs |-> job[j]]
        BY DEF Init
    <3>3. \A j \in Jobs : GoodJob(j, job[j], Len(leases))
        BY <1>1, <3>1 DEF GoodJob, JobStates, Expiries
    <3> QED BY <1>1, <3>2, <3>3, GoodJobs, EmptySeq DEF StoreShape
  <2>2. StreamShape
      BY <1>1, MaxInFlightAssumption, EmptySeq DEF Init, StreamShape
  <2>3. RestShape
      BY <1>1 DEF Init, RestShape
  <2> QED BY <2>1, <2>2, <2>3, ShapeIsType
<1>3. \A s \in Streams : Owned(s) = {}
  <2>1. \A j \in Jobs : owner[j] = None
      BY DEF Init
  <2> QED BY <2>1, DispatcherNone DEF Owned
<1>8. IsFiniteSet({}) /\ Cardinality({}) = 0 /\ \A s \in Streams : inFlight[s] = 0
    BY FS_EmptySet DEF Init
<1>4. OwnedInv
    BY <1>3, <1>8 DEF OwnedInv
<1>5. SlotInv
    BY <1>3, <1>8 DEF SlotInv, Init
<1>6. \A j \in Jobs : ~Leased(j)
    BY DEF Init, Leased
<1>7. LeaseInv /\ HandInv /\ ChannelInv /\ SweepInv /\ CallsInv /\ OwnerInv
    BY <1>1, <1>6 DEF LeaseInv, HandInv, InHand, ChannelInv, SweepInv, CallsInv, OwnerInv, Init
<1> QED BY <1>2, <1>4, <1>5, <1>7 DEF Slots, Tables

\* The shape of the state is kept by every step.
LEMMA ShapeStep == ASSUME Shape, Slots, [Next]_vars PROVE Shape'
<1>1. CASE UNCHANGED vars
    BY <1>1, SameStore, SameStreams
       DEF Shape, vars, dispVars, workVars, storeVars, streamVars, RestShape, Tokens
<1>2. CASE Next
  <2>1. ASSUME NEW e \in running \cup calls PROVE e \in Tokens
      BY DEF Shape, RestShape
  <2>2. OwnedInv
      BY DEF Slots, Tables
  <2>3. CASE LoopStep
      BY <2>3, LoopShape DEF Shape
  <2>4. CASE (LoopExit \/ Stop \/ FlushFails) /\ UNCHANGED workVars
      BY <2>4, EventShape DEF Shape
  <2>5. CASE \E j \in Jobs : (Submit(j) /\ UNCHANGED workVars) \/ ClockStep(j)
      BY <2>5, EventShape DEF Shape, ClockStep
  <2>6. CASE \E s \in Streams : Connect(s) \/ StreamStep(s) \/ StreamBreaks(s) \/ WorkerStops(s)
                                \/ WorkerDies(s)
      BY <2>6, StreamStepShape DEF Shape
  <2>7. CASE \E e \in running : HandlerSucceeds(e) \/ HandlerFails(e) \/ ReportLost(e)
                                \/ Deadline(e) \/ Beat(e)
      BY <2>1, <2>2, <2>7, ExecutionShape DEF Shape
  <2>8. CASE \E e \in calls : (CallReleases(e) \/ CallFails(e)) /\ UNCHANGED workVars
      BY <2>1, <2>2, <2>8, ExecutionShape DEF Shape
  <2> QED BY <1>1, <1>2, <2>3, <2>4, <2>5, <2>6, <2>7, <2>8 DEF Next
<1> QED BY <1>1, <1>2

\* And so are the tables.
LEMMA TablesStep == ASSUME Shape, Shape', Tables, [Next]_vars PROVE Tables'
<1>1. CASE UNCHANGED vars
  <2>1. Undisturbed
      BY <1>1 DEF vars, dispVars, workVars, storeVars, streamVars, Undisturbed, Leased, CtxDone
  <2> QED BY <2>1, UndisturbedTables
<1>2. CASE Next
  <2>1. CASE LoopStep
    <3>1. UNCHANGED workVars
        BY <2>1 DEF LoopStep
    <3>2. CASE LoopReclaim
        BY <3>1, <3>2, ReclaimEnds, EndsTables
    <3>3. CASE LoopRelease
      <4>1. loop.ids \in SUBSET Jobs
          BY DEF Shape, RestShape
      <4> QED BY <3>1, <3>3, <4>1, ReleaseCases, ReleasesTables
    <3>4. CASE LoopOwn
        BY <3>1, <3>4, OwnTables
    <3>5. CASE LoopSend
        BY <3>1, <3>5, SendTables
    <3>6. CASE LoopEndPass \/ \E s \in Streams : LoopSkip(s)
        BY <3>1, <3>6, UndisturbedSteps, UndisturbedTables
    <3>7. CASE \E s \in Streams : \E j \in Jobs : LoopLease(s, j)
        BY <3>1, <3>7, LeaseTables
    <3> QED BY <2>1, <3>2, <3>3, <3>4, <3>5, <3>6, <3>7 DEF LoopStep
  <2>2. CASE \/ (LoopExit \/ Stop \/ FlushFails) /\ UNCHANGED workVars
             \/ \E j \in Jobs : (Submit(j) /\ UNCHANGED workVars) \/ ClockStep(j)
      BY <2>2, UndisturbedSteps, UndisturbedTables
  <2>3. ASSUME NEW s \in Streams,
               Connect(s) \/ StreamStep(s) \/ StreamBreaks(s) \/ WorkerStops(s) \/ WorkerDies(s)
        PROVE  Tables'
    <3>1. CASE Receive(s)
        BY <3>1, ReceiveTables
    <3>2. CASE Unregister(s) /\ UNCHANGED workVars
        BY <3>2, UnregisterTables
    <3> QED BY <2>3, <3>1, <3>2, UndisturbedSteps, UndisturbedTables DEF StreamStep
  <2>4. ASSUME NEW e \in running,
               HandlerSucceeds(e) \/ HandlerFails(e) \/ ReportLost(e) \/ Deadline(e) \/ Beat(e)
        PROVE  Tables'
    <3>1. CASE HandlerSucceeds(e) \/ HandlerFails(e)
        BY <3>1, SettleEnds, EndsTables, UndisturbedTables
    <3> QED BY <2>4, <3>1, UndisturbedSteps, UndisturbedTables
  <2>5. ASSUME NEW e \in calls, CallReleases(e) \/ CallFails(e), UNCHANGED workVars
        PROVE  Tables'
    <3>1. CASE CallReleases(e)
      <4>1. {leases[e].job} \in SUBSET Jobs
          BY LeaseFields DEF Shape, RestShape
      <4> QED BY <2>5, <3>1, <4>1, ReleaseCases, ReleasesTables
    <3> QED BY <2>5, <3>1, UndisturbedSteps, UndisturbedTables
  <2> QED BY <1>1, <1>2, <2>1, <2>2, <2>3, <2>4, <2>5 DEF Next
<1> QED BY <1>1, <1>2

\* The invariant the results below rest on: in every reachable state the store,
\* the channels, the calls under way and the slot tables of dispatcher.go agree.
THEOREM SlotsHold == Spec => [](TypeOK /\ Slots)
<1>1. TypeOK /\ Slots /\ [Next]_vars => (TypeOK /\ Slots)'
  <2> SUFFICES ASSUME TypeOK, Slots, [Next]_vars PROVE (TypeOK /\ Slots)'
      OBVIOUS
  <2>1. Shape /\ Tables
      BY ShapeIsType DEF Shape, Slots
  <2>2. Shape'
      BY <2>1, ShapeStep
  <2>3. Tables'
      BY <2>1, <2>2, TablesStep
  <2> QED BY <2>2, <2>3, ShapeIsTypeNext DEF Shape, Slots
<1> QED BY <1>1, SlotsInit, PTL DEF Spec


\* The shape of the state of dispatcher and workers: tokens are issued ones, no
\* job is delivered beyond its budget and a stream never counts more slots than
\* its worker asked for.
THEOREM TypeCorrect == Spec => []TypeOK
    BY SlotsHold, PTL

\* The valid leases of a connected worker are no more than the jobs recorded as
\* its own, and one more while the loop is about to record it.
LEMMA LeasesAreOwned ==
    ASSUME Shape, Tables, ~overtaken, NEW s \in Streams, ~CtxDone(s)
    PROVE  LET C == {e \in Tokens : WorkerOf(e) = s /\ Current(e)}
           IN IsFiniteSet(C) /\ Cardinality(C) <= MaxInFlight
<1> DEFINE C == {e \in Tokens : WorkerOf(e) = s /\ Current(e)}
           D == {e \in C : ~(loop.pc = "own" /\ e = Held)}
           f == [e \in D |-> leases[e].job]
<1>1. /\ IsFiniteSet(Owned(s)) /\ Cardinality(Owned(s)) <= inFlight[s]
      /\ Cardinality(Owned(s)) \in Nat
    BY FS_CardinalityType DEF Tables, OwnedInv
<1>2. ASSUME NEW e \in D PROVE leases[e].job \in Owned(s)
  <2>1. e \in Tokens /\ WorkerOf(e) = s /\ leases[e].job \in Jobs
        /\ Leased(leases[e].job) /\ job[leases[e].job].epoch = e
      BY CurrentLease DEF Shape
  <2>2. ~Unslotted(leases[e].job)
      BY <2>1 DEF Unslotted
  <2> QED BY <2>1, <2>2 DEF Tables, OwnerInv, Owned
<1>3. f \in Injection(D, Owned(s))
  <2>1. f \in [D -> Owned(s)]
      BY <1>2
  <2>2. \A a, b \in D : f[a] = f[b] => a = b
      BY DEF Current
  <2> HIDE DEF f, D
  <2> QED BY <2>1, <2>2 DEF Injection, IsInjective
<1>4. IsFiniteSet(D) /\ Cardinality(D) <= Cardinality(Owned(s)) /\ Cardinality(D) \in Nat
  <2> HIDE DEF f, D
  <2>1. IsFiniteSet(D) /\ Cardinality(D) <= Cardinality(Owned(s))
      BY <1>1, <1>3, FS_Injection, Zenon
  <2> QED BY <2>1, FS_CardinalityType
<1>5. inFlight[s] \in Nat /\ inFlight[s] <= MaxInFlight /\ MaxInFlight \in Nat
    BY MaxInFlightAssumption DEF Shape, StreamShape
<1>6. ASSUME C = D PROVE IsFiniteSet(C) /\ Cardinality(C) <= MaxInFlight
    BY <1>1, <1>4, <1>5, <1>6
<1>7. ASSUME C # D PROVE IsFiniteSet(C) /\ Cardinality(C) <= MaxInFlight
  <2>1. loop.pc = "own" /\ Held \in C /\ C = D \cup {Held}
      BY <1>7
  <2>2. inFlight[s] < MaxInFlight
      BY <2>1 DEF Tables, HandInv
  <2>3. /\ IsFiniteSet(D \cup {Held})
        /\ Cardinality(D \cup {Held}) = IF Held \in D THEN Cardinality(D) ELSE Cardinality(D) + 1
    <3> HIDE DEF D
    <3> QED BY <1>4, FS_AddElement, Zenon
  <2> HIDE DEF C, D
  <2> QED BY <1>1, <1>4, <1>5, <2>1, <2>2, <2>3
<1> QED BY <1>6, <1>7

\* A connected worker never holds more valid leases than it asked for, unless a
\* job was handed out again before the slot of its last delivery was released.
THEOREM CapacityHolds == Spec => []CapacityKept
<1>1. TypeOK /\ Slots => CapacityKept
  <2> SUFFICES ASSUME TypeOK, Slots, ~overtaken, NEW s \in Streams, ~CtxDone(s)
               PROVE  Cardinality({e \in Tokens : WorkerOf(e) = s /\ Current(e)}) <= MaxInFlight
      BY DEF CapacityKept
  <2> QED BY ShapeIsType, LeasesAreOwned DEF Shape, Slots
<1> QED BY <1>1, SlotsHold, PTL

\* No slot of a connected worker is lost, whichever of Ack, Nack, expiry and
\* disconnection ends a lease: the slots in use are the jobs recorded as its own,
\* each of them on lease to it or about to be released.
THEOREM SlotsAreExact == Spec => []SlotsExact
<1>1. TypeOK /\ Slots => SlotsExact
  <2> SUFFICES ASSUME Slots, ~overtaken, ~failed, NEW s \in Streams, ~CtxDone(s)
               PROVE  /\ inFlight[s] = Cardinality({j \in Jobs : owner[j] = s})
                      /\ \A j \in Jobs : owner[j] = s =>
                            \/ job[j].state = "Leased" /\ WorkerOf(job[j].epoch) = s
                            \/ ReleaseDue(j)
      BY DEF SlotsExact
  <2>1. inFlight[s] = Cardinality(Owned(s))
      BY DEF Slots, Tables, SlotInv
  <2>2. s # None
      BY DispatcherNone
  <2> QED BY <2>1, <2>2 DEF Slots, Tables, SlotInv, Owned, Leased
<1> QED BY <1>1, SlotsHold, PTL

\* When the loop waits for the channel of a connected worker, and no release has
\* overtaken a delivery, the channel holds a lease that is over: a full channel
\* of valid leases and the one in the loop's hands would exceed the capacity.
THEOREM BlockedOnlyByStale == Spec => []BlocksOnlyBehindStale
<1>1. TypeOK /\ Slots => BlocksOnlyBehindStale
  <2> DEFINE s == WorkerOf(Held)
             C == {e \in Tokens : WorkerOf(e) = s /\ Current(e)}
  <2> SUFFICES ASSUME TypeOK, Slots, loop.pc = "send", ~CtxDone(s), Len(ch[s]) = MaxInFlight,
                      ~overtaken, \A i \in DOMAIN ch[s] : Current(ch[s][i])
               PROVE  FALSE
      BY DEF BlocksOnlyBehindStale
  <2>1. Shape /\ Tables
      BY ShapeIsType DEF Shape, Slots
  <2>2. /\ Held # 0 /\ Current(Held)
        /\ \A t \in Streams : \A i \in DOMAIN ch[t] : ch[t][i] # Held
      BY DEF Slots, Tables, HandInv, InHand
  <2>3. Held \in Tokens /\ s \in Streams
      BY <2>1, <2>2, LenLeases, LeaseFields DEF Shape, Held, WorkerOf
  <2>4. IsFiniteSet(C) /\ Cardinality(C) <= MaxInFlight
      BY <2>1, <2>3, LeasesAreOwned
  <2>5. Held \in C
      BY <2>2, <2>3
  <2>6. ch[s] \in Seq(Tokens) /\ MaxInFlight \in Nat /\ DOMAIN ch[s] = 1..MaxInFlight
      BY <2>1, <2>3, MaxInFlightAssumption, LenProperties DEF Shape, StreamShape
  <2>7. \A i \in 1..MaxInFlight : ch[s][i] \in Tokens
      BY <2>6, ElementOfSeq
  <2>8. \A i \in 1..MaxInFlight : ch[s][i] \in C \ {Held}
      BY <2>1, <2>2, <2>3, <2>6, <2>7 DEF Tables, ChannelInv
  <2> DEFINE E == C \ {Held}
             g == [i \in 1..MaxInFlight |-> ch[s][i]]
  <2>9. g \in Injection(1..MaxInFlight, E)
    <3>1. g \in [1..MaxInFlight -> E]
        BY <2>8
    <3>2. \A a, b \in 1..MaxInFlight : g[a] = g[b] => a = b
        BY <2>1, <2>3, <2>6 DEF Tables, ChannelInv
    <3> HIDE DEF g, E
    <3> QED BY <3>1, <3>2 DEF Injection, IsInjective
  <2>10. IsFiniteSet(E) /\ Cardinality(E) = Cardinality(C) - 1 /\ Cardinality(C) \in Nat
    <3> HIDE DEF C
    <3> QED BY <2>4, <2>5, FS_RemoveElement, FS_CardinalityType
  <2> HIDE DEF g, E, C, s
  <2>11. Cardinality(1..MaxInFlight) = MaxInFlight
    <3>1. MaxInFlight \in Int /\ 1 \in Int /\ 1 <= MaxInFlight /\ MaxInFlight - 1 + 1 = MaxInFlight
        BY MaxInFlightAssumption
    <3>2. Cardinality(1..MaxInFlight) = IF 1 > MaxInFlight THEN 0 ELSE MaxInFlight - 1 + 1
        BY <3>1, FS_Interval
    <3> QED BY <3>1, <3>2
  <2>12. Cardinality(1..MaxInFlight) <= Cardinality(E)
      BY <2>9, <2>10, FS_Injection, Zenon
  <2> QED BY <2>4, <2>6, <2>10, <2>11, <2>12
<1> QED BY <1>1, SlotsHold, PTL

=============================================================================
