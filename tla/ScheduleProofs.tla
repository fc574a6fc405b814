--------------------------- MODULE ScheduleProofs ---------------------------
(***************************************************************************)
(* Proofs about the retry delay and the schedule index: delays are sound   *)
(* for any word size and configuration, the heaps hold exactly the current *)
(* key of every job that may be leased, Lease takes the best of them, and  *)
(* none waits longer than the tick.                                        *)
(***************************************************************************)
EXTENDS ScheduleIndex, WellFoundedInduction, TLAPS

-----------------------------------------------------------------------------
(* The retry delay *)

HalfWord == 2^(WordBits - 1)

\* Words have positive values.
LEMMA HalfWordType == HalfWord \in Nat /\ HalfWord > 1
<1>1. WordBits - 1 \in Nat
    BY WordAssumption
<1>2. HalfWord \in Int
    BY <1>1 DEF HalfWord
<1>3. DefaultBackoffBase \in 1..(HalfWord - 1)
    BY WordAssumption DEF HalfWord
<1> QED BY <1>2, <1>3

\* The shift stays within its limit, and the next attempt's is no smaller.
LEMMA ShiftRange ==
    ASSUME NEW a \in Int
    PROVE  Shift(a) \in 0..MaxBackoffShift /\ Shift(a + 1) \in 0..MaxBackoffShift
           /\ Shift(a) <= Shift(a + 1)
    BY WordAssumption DEF Shift

\* Defaults replace what is not positive.
LEMMA Configured ==
    ASSUME NEW d \in Int
    PROVE  /\ Base(d) \in Nat \ {0} /\ CapDelay(d) \in Nat \ {0}
           /\ d < HalfWord => Base(d) < HalfWord /\ CapDelay(d) < HalfWord
<1>1. HalfWord \in Nat /\ DefaultBackoffBase \in 1..(HalfWord - 1)
      /\ DefaultBackoffCap \in 1..(HalfWord - 1)
    BY HalfWordType, WordAssumption DEF HalfWord
<1> QED BY <1>1 DEF Base, CapDelay

\* The product before it is cut to a word.
Product(a, base) == Base(base) * 2^Shift(a)

\* The doubled base, before it wraps, is positive.
LEMMA ProductType ==
    ASSUME NEW a \in Int, NEW base \in Int
    PROVE  Product(a, base) \in Nat \ {0}
<1>1. Base(base) \in Nat \ {0}
    BY Configured
<1>2. 2^Shift(a) \in Nat \ {0}
    BY ShiftRange, PowerAssumption
<1>3. \A x, y \in Nat \ {0} : x * y \in Nat \ {0}
    OBVIOUS
<1> QED BY <1>1, <1>2, <1>3 DEF Product

\* A product below two to the word size is kept or turns negative.
LEMMA WrapOnce ==
    ASSUME NEW x \in Nat
    PROVE  /\ Wrap(x) \in Int
           /\ x < HalfWord => Wrap(x) = x
           /\ HalfWord <= x /\ x < 2 * HalfWord => Wrap(x) < 0
<1> DEFINE H == HalfWord
<1>1. H \in Nat /\ H > 1
    BY HalfWordType
<1>2. Wrap(x) = ((x + H) % (2 * H)) - H
    BY DEF Wrap, HalfWord
<1> HIDE DEF H
<1>3. (x + H) % (2 * H) \in Int
    BY <1>1
<1>4. ASSUME x < H PROVE (x + H) % (2 * H) = x + H
    BY <1>1, <1>4
<1>5. ASSUME H <= x, x < 2 * H PROVE (x + H) % (2 * H) = x - H
  <2>1. x + H = (2 * H) * 1 + (x - H) /\ 0 <= x - H /\ x - H < 2 * H
      BY <1>1, <1>5
  <2> QED BY <1>1, <2>1
<1> USE DEF H
<1> QED BY <1>1, <1>2, <1>3, <1>4, <1>5

\* The ceiling is positive and within the cap, and as long as the product does
\* not wrap past zero it is the smaller of the two.
LEMMA CeilingFacts ==
    ASSUME NEW a \in Int, NEW base \in Int, NEW capDelay \in Int
    PROVE  LET c == CapDelay(capDelay)
           IN /\ Ceiling(a, base, capDelay) \in 1..c
              /\ capDelay < HalfWord /\ Product(a, base) < 2 * HalfWord =>
                   Ceiling(a, base, capDelay) =
                       IF Product(a, base) > c THEN c ELSE Product(a, base)
<1> DEFINE c == CapDelay(capDelay)
           x == Product(a, base)
<1>1. c \in Nat \ {0} /\ x \in Nat \ {0} /\ HalfWord \in Nat
    BY Configured, ProductType, HalfWordType
<1>2. capDelay < HalfWord => c < HalfWord
    BY Configured
<1>3. Ceiling(a, base, capDelay) = IF Wrap(x) <= 0 \/ Wrap(x) > c THEN c ELSE Wrap(x)
    BY DEF Ceiling, Product
<1>4. /\ Wrap(x) \in Int
      /\ x < HalfWord => Wrap(x) = x
      /\ HalfWord <= x /\ x < 2 * HalfWord => Wrap(x) < 0
    BY <1>1, WrapOnce
<1> HIDE DEF c, x
<1>5. Ceiling(a, base, capDelay) \in 1..c
    BY <1>1, <1>3, <1>4
<1>6. ASSUME capDelay < HalfWord, x < 2 * HalfWord
      PROVE  Ceiling(a, base, capDelay) = IF x > c THEN c ELSE x
    BY <1>1, <1>2, <1>3, <1>4, <1>6
<1> QED BY <1>5, <1>6 DEF c, x

\* The delays are between half of the ceiling and the ceiling.
LEMMA DelaysFacts ==
    ASSUME NEW a, NEW base, NEW capDelay, NEW n \in Nat \ {0}, Ceiling(a, base, capDelay) = n
    PROVE  /\ \A d \in Delays(a, base, capDelay) : /\ d \in Nat /\ 0 < d
                                                   /\ n \div 2 <= d /\ d <= n
           /\ \E e \in Delays(a, base, capDelay) :
                 e \in Nat /\ e = IF n = 1 THEN 1 ELSE (n \div 2) + (n \div 2) - 1
           /\ n = 1 => Delays(a, base, capDelay) = {1}
           /\ n # 1 => Delays(a, base, capDelay) = (n \div 2)..((n \div 2) + (n \div 2) - 1)
<1>1. n \div 2 \in Nat /\ 2 * (n \div 2) <= n /\ n < 2 * (n \div 2) + 2
    OBVIOUS
<1>2. Delays(a, base, capDelay) = IF n \div 2 <= 0 THEN {n} ELSE (n \div 2)..((n \div 2) + (n \div 2) - 1)
    BY DEF Delays
<1>3. n \div 2 <= 0 <=> n = 1
    BY <1>1
<1> QED BY <1>1, <1>2, <1>3


\* A larger ceiling allows a delay at least as long.
LEMMA DelaysGrow ==
    ASSUME NEW a, NEW b, NEW base, NEW capDelay, NEW n \in Nat \ {0}, NEW m \in Nat \ {0},
           Ceiling(a, base, capDelay) = n, Ceiling(b, base, capDelay) = m, n <= m,
           NEW d \in Delays(a, base, capDelay)
    PROVE  \E e \in Delays(b, base, capDelay) : d <= e
<1>1. PICK e \in Delays(b, base, capDelay) :
          e \in Nat /\ e = IF m = 1 THEN 1 ELSE (m \div 2) + (m \div 2) - 1
    BY DelaysFacts
<1>2. /\ n = 1 => d = 1
      /\ n # 1 => d \in (n \div 2)..((n \div 2) + (n \div 2) - 1)
    BY DelaysFacts
<1>3. /\ n \div 2 \in Nat /\ 2 * (n \div 2) <= n /\ n < 2 * (n \div 2) + 2
      /\ m \div 2 \in Nat /\ 2 * (m \div 2) <= m /\ m < 2 * (m \div 2) + 2
    OBVIOUS
<1>4. d <= e
    BY <1>1, <1>2, <1>3
<1> QED BY <1>1, <1>4

\* The next product is no smaller, and none exceeds the one of the largest shift.
LEMMA ProductsGrow ==
    ASSUME NEW a \in Int, NEW base \in Int
    PROVE  /\ Product(a, base) <= Product(a + 1, base)
           /\ Product(a + 1, base) <= Base(base) * 2^MaxBackoffShift
<1>1. \A x, y, z \in Nat : y <= z => x * y <= x * z
    OBVIOUS
<1>2. /\ Shift(a) \in 0..MaxBackoffShift /\ Shift(a + 1) \in 0..MaxBackoffShift
      /\ Shift(a) <= Shift(a + 1) /\ MaxBackoffShift \in 0..MaxBackoffShift
    BY ShiftRange, WordAssumption
<1>3. /\ 2^Shift(a) \in Nat /\ 2^Shift(a + 1) \in Nat /\ 2^MaxBackoffShift \in Nat
      /\ 2^Shift(a) <= 2^Shift(a + 1) /\ 2^Shift(a + 1) <= 2^MaxBackoffShift
    BY <1>2, PowerAssumption
<1>4. Base(base) \in Nat
    BY Configured
<1> QED BY <1>1, <1>3, <1>4 DEF Product

\* Whatever the word size, the base and the cap, the delays after an attempt are
\* positive and within the cap, follow the doubling as long as the product does
\* not wrap past zero, and do not shrink if no attempt's does.
LEMMA DelaysAreSound == ASSUME NEW a \in Nat PROVE SoundFor(a)
<1> SUFFICES ASSUME NEW base \in {d \in Durations : d >= -1},
                    NEW capDelay \in {d \in Durations : d >= -1},
                    NEW d \in Delays(a, base, capDelay)
             PROVE  LET product == Base(base) * 2^Shift(a)
                        wanted  == IF product > CapDelay(capDelay) THEN CapDelay(capDelay) ELSE product
                    IN /\ 0 < d /\ d <= CapDelay(capDelay)
                       /\ product < 2 * 2^(WordBits - 1) => wanted \div 2 <= d /\ d <= wanted
                       /\ Base(base) * 2^MaxBackoffShift < 2 * 2^(WordBits - 1) =>
                            \E e \in Delays(a + 1, base, capDelay) : d <= e
    BY DEF SoundFor
<1> DEFINE c == CapDelay(capDelay)
           wanted(x) == IF x > c THEN c ELSE x
<1>1. base \in Int /\ capDelay \in Int /\ capDelay < HalfWord /\ HalfWord \in Nat
  <2>1. Durations = (-HalfWord)..(HalfWord - 1)
      BY DEF Durations, HalfWord
  <2> QED BY <2>1, HalfWordType
<1>10. a \in Int /\ a + 1 \in Int
    OBVIOUS
<1>2. c \in Nat \ {0} /\ Product(a, base) \in Nat \ {0} /\ Product(a + 1, base) \in Nat \ {0}
    BY <1>1, <1>10, Configured, ProductType
<1>3. PICK n \in 1..c : n = Ceiling(a, base, capDelay)
    BY <1>1, <1>10, CeilingFacts
<1>4. PICK m \in 1..c : m = Ceiling(a + 1, base, capDelay)
    BY <1>1, <1>10, CeilingFacts
<1>5. /\ Product(a, base) < 2 * HalfWord => n = wanted(Product(a, base))
      /\ Product(a + 1, base) < 2 * HalfWord => m = wanted(Product(a + 1, base))
    BY <1>1, <1>3, <1>4, <1>10, CeilingFacts
<1>6. d \in Nat /\ 0 < d /\ n \div 2 <= d /\ d <= n
    BY <1>2, <1>3, DelaysFacts
<1>7. 0 < d /\ d <= c
    BY <1>2, <1>3, <1>6
<1>8. Product(a, base) < 2 * HalfWord =>
          wanted(Product(a, base)) \div 2 <= d /\ d <= wanted(Product(a, base))
    BY <1>5, <1>6
<1>9. ASSUME Base(base) * 2^MaxBackoffShift < 2 * HalfWord
      PROVE  \E e \in Delays(a + 1, base, capDelay) : d <= e
  <2>1. Base(base) * 2^MaxBackoffShift \in Int
    <3>1. 2^MaxBackoffShift \in Nat /\ Base(base) \in Nat
        BY <1>1, Configured, PowerAssumption, WordAssumption
    <3> QED BY <3>1
  <2>2. Product(a, base) <= Product(a + 1, base) /\ Product(a + 1, base) < 2 * HalfWord
      BY <1>1, <1>2, <1>9, <2>1, ProductsGrow
  <2>3. n <= m
      BY <1>1, <1>2, <1>3, <1>4, <1>5, <2>2
  <2>4. n \in Nat \ {0} /\ m \in Nat \ {0}
      BY <1>2, <1>3, <1>4
  <2> QED BY <1>3, <1>4, <2>3, <2>4, DelaysGrow
<1> QED BY <1>7, <1>8, <1>9 DEF Product, HalfWord

\* A job that fails now or later waits for a sound delay, whatever its attempt.
THEOREM BackoffIsSound == Spec => []BackoffSound
<1>1. Attempts \subseteq SoundAttempts
    BY DelaysAreSound, WordAssumption DEF SoundAttempts, Attempts
<1>2. BackoffSound
    BY <1>1 DEF BackoffSound
<1> QED BY <1>2, PTL

\* The delay of a retry is positive and within the configured cap.
LEMMA RetryDelay ==
    ASSUME NEW a \in Int, NEW d \in Delays(a, BackoffBase, BackoffCap)
    PROVE  d \in Nat /\ d <= CapDelay(BackoffCap)
<1>1. BackoffBase \in Int /\ BackoffCap \in Int
    BY ScheduleAssumption
<1>2. PICK n \in 1..CapDelay(BackoffCap) : n = Ceiling(a, BackoffBase, BackoffCap)
    BY <1>1, CeilingFacts
<1>3. CapDelay(BackoffCap) \in Nat
    BY <1>1, Configured
<1>4. d \in Nat /\ d <= n
    BY <1>2, <1>3, DelaysFacts
<1> QED BY <1>2, <1>3, <1>4

-----------------------------------------------------------------------------
(* The inductive invariant *)

\* The current keys of the jobs of queue q that may be leased, jobs being f.
Keys(f, q) == {Entry(j, f[j]) : j \in {k \in Jobs : Leasable(f[k]) /\ f[k].queue = q}}

InReady(q) == DOMAIN ready[q]
InDelayed(q) == DOMAIN delayed[q]

\* Each of the keys is in one of the two heaps, once.
HeapsInv ==
    /\ ready = [q \in Queues |-> SetToBag(InReady(q))]
    /\ delayed = [q \in Queues |-> SetToBag(InDelayed(q))]
    /\ \A q \in Queues : /\ InReady(q) \cap InDelayed(q) = {}
                         /\ InReady(q) \cup InDelayed(q) = Keys(job, q)

\* The shape of a job after n faults: one that may be leased has an attempt left,
\* or one that a restart gave it.
GoodJob(r, n) ==
    /\ r \in JobRec
    /\ \E w \in Waits : r.eligibleAt <= MaxTime + w
    /\ r.attempt <= MaxRetries + n + 1
    /\ r.state = "Absent" \/ Leasable(r) => r.attempt <= MaxRetries + n

JobsInv == job = [j \in Jobs |-> job[j]] /\ \A j \in Jobs : GoodJob(job[j], faults)

\* The jobs on disk have that shape too, and a job that Open took off a lease
\* waits until a record says what became of it.
DiskInv ==
    /\ disk = [j \in Jobs |-> disk[j]] /\ \A j \in Jobs : GoodJob(disk[j], faults)
    /\ unsaved \in 0..MaxLost
    /\ recovered \subseteq {j \in Jobs : job[j].state = "RetryWait"}

\* Time, the faults and the dispatch loop.
LoopInv ==
    /\ now \in 0..MaxTime
    /\ loop \in [pc : {"pass", "sleep"}, todo : SUBSET Served, until : Int, refused : BOOLEAN]
    /\ loop.pc = "sleep" => loop.until - now \in 0..DispatchTick
    /\ waited \in [Jobs -> 0..(DispatchTick + 1)]
    /\ faults \in 0..MaxFaults

\* What a pass has left behind has become eligible since, and no time has passed;
\* while the loop sleeps, the rest of the timer is left of the tick to every
\* eligible job.  Neither depends on what the wall clock shows.
NoticeInv ==
    ~loop.refused => \A j \in Jobs : Eligible(j) /\ job[j].queue \in Served =>
        /\ loop.pc = "pass" /\ job[j].queue \notin loop.todo => waited[j] = 0
        /\ loop.pc = "sleep" => waited[j] + (loop.until - now) <= DispatchTick

ScheduleInv == HeapsInv /\ JobsInv /\ DiskInv /\ LoopInv /\ NoticeInv

\* What is assumed of the constants.
LEMMA Bounds ==
    /\ MaxTime \in Nat /\ MaxFaults \in Nat /\ MaxRetries \in Nat /\ DispatchTick \in Nat \ {0}
    /\ MaxLost \in Nat \ {0}
    /\ Jobs \subseteq Nat /\ Served \subseteq Queues /\ Waits \subseteq Nat
    /\ CapDelay(BackoffCap) \in Waits /\ CapDelay(BackoffCap) \in Nat
    /\ \A m \in Requests : /\ m.queue \in Queues /\ m.priority \in Nat
                           /\ m.delay \in Nat /\ m.delay \in Waits
<1>1. BackoffCap \in Int
    BY ScheduleAssumption
<1>2. CapDelay(BackoffCap) \in Nat
    BY <1>1, Configured
<1> QED BY <1>2, ScheduleAssumption DEF Waits

\* Bags without repetitions are sets.
LEMMA BagFacts ==
    /\ \A S : DOMAIN SetToBag(S) = S /\ BagToSet(SetToBag(S)) = S /\ IsABag(SetToBag(S))
    /\ \A S, T : S \cap T = {} => SetToBag(S) (+) SetToBag(T) = SetToBag(S \cup T)
    /\ \A S, T : SetToBag(S) (-) SetToBag(T) = SetToBag(S \ T)
<1>1. \A S : DOMAIN SetToBag(S) = S /\ BagToSet(SetToBag(S)) = S /\ IsABag(SetToBag(S))
    BY DEF SetToBag, BagToSet, IsABag
<1>2. ASSUME NEW S, NEW T, S \cap T = {} PROVE SetToBag(S) (+) SetToBag(T) = SetToBag(S \cup T)
    BY <1>2 DEF SetToBag, (+)
<1>3. ASSUME NEW S, NEW T PROVE SetToBag(S) (-) SetToBag(T) = SetToBag(S \ T)
    BY DEF SetToBag, (-)
<1> QED BY <1>1, <1>2, <1>3

\* The invariant implies what the runs check.
LEMMA InvImplies == ScheduleInv => SchedTypeOK /\ EntriesExact /\ NoticedWithinTick
<1> SUFFICES ASSUME ScheduleInv PROVE SchedTypeOK /\ EntriesExact /\ NoticedWithinTick
    OBVIOUS
<1> USE DEF ScheduleInv
<1>1. \A q \in Queues : ready[q] = SetToBag(InReady(q)) /\ delayed[q] = SetToBag(InDelayed(q))
    BY DEF HeapsInv
<1>2. EntriesExact
  <2>1. ASSUME NEW q \in Queues
        PROVE  ready[q] (+) delayed[q] = SetToBag(Keys(job, q))
    <3>1. InReady(q) \cap InDelayed(q) = {} /\ InReady(q) \cup InDelayed(q) = Keys(job, q)
        BY DEF HeapsInv
    <3> QED BY <1>1, <3>1, BagFacts
  <2> QED BY <2>1 DEF EntriesExact, Keys
<1>3. SchedTypeOK
  <2>1. \A q \in Queues : IsABag(ready[q]) /\ IsABag(delayed[q])
      BY <1>1, BagFacts
  <2>2. job \in [Jobs -> JobRec] /\ disk \in [Jobs -> JobRec]
    <3>1. \A j \in Jobs : job[j] \in JobRec /\ disk[j] \in JobRec
        BY DEF JobsInv, DiskInv, GoodJob
    <3> QED BY <3>1 DEF JobsInv, DiskInv
  <2>3. \A j \in Jobs : \A r \in {job[j], disk[j]} :
          (\E w \in Waits : r.eligibleAt <= MaxTime + w) /\ r.attempt <= MaxRetries + faults + 1
      BY DEF JobsInv, DiskInv, GoodJob
  <2> QED BY <2>1, <2>2, <2>3, Bounds DEF SchedTypeOK, LoopInv, DiskInv
<1>4. NoticedWithinTick
  <2> SUFFICES ASSUME loop.pc = "sleep", ~loop.refused, NEW j \in Jobs, Eligible(j),
                      job[j].queue \in Served
               PROVE  waited[j] <= DispatchTick
      BY DEF NoticedWithinTick
  <2>1. waited[j] + (loop.until - now) <= DispatchTick
      BY DEF NoticeInv
  <2>2. waited[j] \in Int /\ loop.until - now \in 0..DispatchTick /\ DispatchTick \in Nat
      BY Bounds DEF LoopInv
  <2> QED BY <2>1, <2>2
<1> QED BY <1>2, <1>3, <1>4

\* The invariant holds of an empty index.
LEMMA ScheduleInit == Init => ScheduleInv
<1> SUFFICES ASSUME Init PROVE ScheduleInv
    OBVIOUS
<1> USE DEF Init
<1>1. EmptyBag = SetToBag({}) /\ DOMAIN EmptyBag = {}
    BY BagFacts DEF EmptyBag
<1>2. \A q \in Queues : Keys(job, q) = {}
    BY DEF Keys, NoJob, Leasable
<1>3. HeapsInv
    BY <1>1, <1>2 DEF HeapsInv, InReady, InDelayed
<1>4. JobsInv
  <2>1. (CHOOSE q \in Queues : TRUE) \in Queues
      BY ScheduleAssumption
  <2>2. \E w \in Waits : NoJob.eligibleAt <= MaxTime + w
    <3>1. CapDelay(BackoffCap) \in Waits /\ CapDelay(BackoffCap) \in Nat /\ MaxTime \in Nat
        BY Bounds
    <3>2. 0 <= MaxTime + CapDelay(BackoffCap)
        BY <3>1
    <3> QED BY <3>1, <3>2 DEF NoJob
  <2>3. GoodJob(NoJob, 0)
      BY <2>1, <2>2, Bounds DEF GoodJob, JobRec, NoJob, States, Leasable
  <2> QED BY <2>3 DEF JobsInv
<1>7. DiskInv
    BY <1>4, Bounds DEF DiskInv, JobsInv
<1>5. LoopInv
  <2>1. loop.pc = "pass" /\ waited \in [Jobs -> 0..(DispatchTick + 1)]
      BY Bounds
  <2>2. 0 \in Int
      OBVIOUS
  <2>4. loop \in [pc : {"pass", "sleep"}, todo : SUBSET Served, until : Int, refused : BOOLEAN]
      BY <2>2, Zenon
  <2>3. now \in 0..MaxTime /\ faults \in 0..MaxFaults
      BY Bounds
  <2> QED BY <2>1, <2>3, <2>4 DEF LoopInv
<1>6. NoticeInv
    BY DEF NoticeInv, NoJob, Leasable, Eligible
<1> QED BY <1>3, <1>4, <1>5, <1>6, <1>7 DEF ScheduleInv

-----------------------------------------------------------------------------
(* The heaps as sets of entries *)

\* An entry in a heap of queue q is the current key of a job of q that may be
\* leased, so it is valid, and it runs if its time has come.
LEMMA EntryFacts ==
    ASSUME HeapsInv, JobsInv, now \in Nat, NEW q \in Queues, NEW e \in InReady(q) \cup InDelayed(q)
    PROVE  /\ e.id \in Jobs /\ e = Entry(e.id, job[e.id])
           /\ Leasable(job[e.id]) /\ job[e.id].queue = q
           /\ Valid(e) /\ (Runs(e) <=> e.eligibleAt <= now)
           /\ {e.id, e.priority, e.enqueuedAt, e.eligibleAt} \subseteq Nat
<1>1. e \in Keys(job, q)
    BY DEF HeapsInv
<1>2. PICK j \in Jobs : e = Entry(j, job[j]) /\ Leasable(job[j]) /\ job[j].queue = q
    BY <1>1 DEF Keys
<1>3. e.id = j /\ e.priority = job[j].priority /\ e.enqueuedAt = job[j].enqueuedAt
      /\ e.eligibleAt = job[j].eligibleAt
    BY <1>2 DEF Entry
<1>4. GoodJob(job[j], faults)
    BY DEF JobsInv
<1>5. job[j].priority \in Nat /\ job[j].enqueuedAt \in Nat /\ job[j].eligibleAt \in Nat /\ j \in Nat
  <2>1. job[j].priority \in Nat /\ job[j].enqueuedAt \in 0..MaxTime
        /\ job[j].eligibleAt \in Nat
      BY <1>4, Zenon DEF GoodJob, JobRec
  <2>2. 0..MaxTime \subseteq Nat /\ j \in Nat
      BY Bounds
  <2> QED BY <2>1, <2>2, Zenon
<1> QED BY <1>2, <1>3, <1>5 DEF Valid, Runs

\* A step that refiles the entries of one queue.
LEMMA HeapsStep ==
    ASSUME HeapsInv, NEW q \in Queues, NEW A, NEW B,
           ready' = [ready EXCEPT ![q] = SetToBag(A)],
           delayed' = [delayed EXCEPT ![q] = SetToBag(B)],
           A \cap B = {}, A \cup B = Keys(job', q),
           \A p \in Queues \ {q} : Keys(job', p) = Keys(job, p)
    PROVE  HeapsInv'
<1>1. /\ ready = [p \in Queues |-> ready[p]] /\ delayed = [p \in Queues |-> delayed[p]]
      /\ \A p \in Queues : ready[p] = SetToBag(InReady(p)) /\ delayed[p] = SetToBag(InDelayed(p))
    BY DEF HeapsInv
<1>2. ready' = [p \in Queues |-> ready'[p]] /\ delayed' = [p \in Queues |-> delayed'[p]]
    BY <1>1
<1>3. ready'[q] = SetToBag(A) /\ delayed'[q] = SetToBag(B) /\ InReady(q)' = A /\ InDelayed(q)' = B
    BY <1>1, BagFacts DEF InReady, InDelayed
<1>4. ASSUME NEW p \in Queues \ {q}
      PROVE  /\ ready'[p] = ready[p] /\ delayed'[p] = delayed[p]
             /\ InReady(p)' = InReady(p) /\ InDelayed(p)' = InDelayed(p)
    BY <1>1 DEF InReady, InDelayed
<1>5. \A p \in Queues : ready'[p] = SetToBag(InReady(p)') /\ delayed'[p] = SetToBag(InDelayed(p)')
    BY <1>1, <1>3, <1>4
<1>6. \A p \in Queues : /\ InReady(p)' \cap InDelayed(p)' = {}
                        /\ InReady(p)' \cup InDelayed(p)' = Keys(job', p)
    BY <1>3, <1>4 DEF HeapsInv
<1>7. ready' = [p \in Queues |-> SetToBag(InReady(p)')]
    BY <1>2, <1>5
<1>8. delayed' = [p \in Queues |-> SetToBag(InDelayed(p)')]
    BY <1>2, <1>5
<1> QED BY <1>6, <1>7, <1>8 DEF HeapsInv

\* The keys after job j has become r.
LEMMA KeysUpdate ==
    ASSUME JobsInv, NEW j \in Jobs, NEW r, job' = [job EXCEPT ![j] = r]
    PROVE  /\ ~Leasable(job[j]) /\ ~Leasable(r) => \A q : Keys(job', q) = Keys(job, q)
           /\ ~Leasable(job[j]) /\ Leasable(r) =>
                /\ Keys(job', r.queue) = Keys(job, r.queue) \cup {Entry(j, r)}
                /\ \A q : q # r.queue => Keys(job', q) = Keys(job, q)
           /\ Leasable(job[j]) /\ ~Leasable(r) =>
                \A q : Keys(job', q) = Keys(job, q) \ {Entry(j, job[j])}
<1>1. job'[j] = r /\ \A k \in Jobs \ {j} : job'[k] = job[k]
    BY DEF JobsInv
<1>2. \A k, l \in Jobs : \A a, b : Entry(k, a) = Entry(l, b) => k = l
    BY DEF Entry
<1>3. ~Leasable(job[j]) /\ ~Leasable(r) => \A q : Keys(job', q) = Keys(job, q)
    BY <1>1 DEF Keys
<1>4. ~Leasable(job[j]) /\ Leasable(r) =>
        /\ Keys(job', r.queue) = Keys(job, r.queue) \cup {Entry(j, r)}
        /\ \A q : q # r.queue => Keys(job', q) = Keys(job, q)
    BY <1>1 DEF Keys
<1>5. Leasable(job[j]) /\ ~Leasable(r) =>
        \A q : Keys(job', q) = Keys(job, q) \ {Entry(j, job[j])}
    BY <1>1, <1>2 DEF Keys
<1> QED BY <1>3, <1>4, <1>5


\* What promote moves, and the ready heap after it.
Due(q) == {e \in InDelayed(q) : e.eligibleAt <= now}
Poppable(q) == InReady(q) \cup Due(q)

\* What promote moves, as sets.
LEMMA PromoteFacts ==
    ASSUME HeapsInv, NEW q \in Queues
    PROVE  /\ Elapsed(q) = SetToBag(Due(q))
           /\ Promoted(q) = SetToBag(Poppable(q))
           /\ delayed[q] (-) Elapsed(q) = SetToBag(InDelayed(q) \ Due(q))
           /\ Candidates(q) = {e \in Poppable(q) : Runs(e)}
<1>1. /\ ready[q] = SetToBag(InReady(q)) /\ delayed[q] = SetToBag(InDelayed(q))
      /\ InReady(q) \cap InDelayed(q) = {}
    BY DEF HeapsInv
<1>2. Elapsed(q) = SetToBag(Due(q))
  <2>1. BagToSet(delayed[q]) = InDelayed(q) /\ \A e \in InDelayed(q) : delayed[q][e] = 1
      BY <1>1, BagFacts DEF SetToBag
  <2> QED BY <2>1 DEF Elapsed, Those, Due, SetToBag
<1>3. Promoted(q) = SetToBag(Poppable(q))
  <2>1. InReady(q) \cap Due(q) = {}
      BY <1>1 DEF Due
  <2> QED BY <1>1, <1>2, <2>1, BagFacts DEF Promoted, Poppable
<1>4. delayed[q] (-) Elapsed(q) = SetToBag(InDelayed(q) \ Due(q))
    BY <1>1, <1>2, BagFacts
<1>5. Candidates(q) = {e \in Poppable(q) : Runs(e)}
    BY <1>3, BagFacts DEF Candidates
<1> QED BY <1>2, <1>3, <1>4, <1>5

\* What Lease pops before its candidate, as a set.
LEMMA PassedFacts ==
    ASSUME HeapsInv, NEW q \in Queues, NEW e
    PROVE  Passed(q, e) = SetToBag({f \in Poppable(q) : Less(f, e)})
<1>1. BagToSet(Promoted(q)) = Poppable(q) /\ \A f \in Poppable(q) : Promoted(q)[f] = 1
    BY PromoteFacts, BagFacts DEF SetToBag
<1> QED BY <1>1 DEF Passed, Those, SetToBag

\* What of it Lease files again.
LEMMA RefiledFacts ==
    ASSUME NEW S
    PROVE  Refiled(SetToBag(S)) = SetToBag({f \in S : Valid(f) /\ ~Runs(f)})
<1>1. BagToSet(SetToBag(S)) = S /\ \A f \in S : SetToBag(S)[f] = 1
    BY BagFacts DEF SetToBag
<1> QED BY <1>1 DEF Refiled, Those, SetToBag

\* The entries popped before the first candidate are all filed again.
LEMMA TakeFacts ==
    ASSUME HeapsInv, JobsInv, now \in Nat, NEW q \in Queues,
           NEW e \in Candidates(q), \A f \in Candidates(q) : f = e \/ Less(e, f),
           NEW P, P = {f \in Poppable(q) : Less(f, e)}
    PROVE  /\ e \in Poppable(q) \ P
           /\ Promoted(q) (-) Passed(q, e) = SetToBag(Poppable(q) \ P)
           /\ delayed[q] (-) Elapsed(q) (+) Refiled(Passed(q, e))
                = SetToBag((InDelayed(q) \ Due(q)) \cup P)
<1>1. /\ e \in Poppable(q)
      /\ \A f \in Poppable(q) : Runs(f) => f = e \/ Less(e, f)
    BY PromoteFacts
<1>2. Poppable(q) \subseteq InReady(q) \cup InDelayed(q)
    BY DEF Poppable, Due
<1>3. \A f \in Poppable(q) : {f.id, f.priority, f.enqueuedAt} \subseteq Nat /\ Valid(f)
    BY <1>2, EntryFacts
<1>4. \A f \in P : f # e /\ ~Less(e, f)
  <2> SUFFICES ASSUME NEW f \in P PROVE f # e /\ ~Less(e, f)
      OBVIOUS
  <2>1. Less(f, e) /\ {f.id, f.priority, f.enqueuedAt, e.id, e.priority, e.enqueuedAt} \subseteq Nat
      BY <1>1, <1>3
  <2> QED BY <2>1 DEF Less
<1>5. \A f \in P : Valid(f) /\ ~Runs(f)
    BY <1>1, <1>3, <1>4
<1>6. Passed(q, e) = SetToBag(P)
    BY PassedFacts
<1>7. Refiled(Passed(q, e)) = SetToBag(P)
    BY <1>5, <1>6, RefiledFacts
<1>8. Promoted(q) (-) Passed(q, e) = SetToBag(Poppable(q) \ P)
    BY <1>6, PromoteFacts, BagFacts
<1>9. (InDelayed(q) \ Due(q)) \cap P = {}
    BY DEF Poppable, HeapsInv
<1>10. delayed[q] (-) Elapsed(q) (+) Refiled(Passed(q, e)) = SetToBag((InDelayed(q) \ Due(q)) \cup P)
    BY <1>7, <1>9, PromoteFacts, BagFacts
<1> QED BY <1>1, <1>4, <1>8, <1>10


-----------------------------------------------------------------------------
(* The steps, heaps first *)

\* push files the key of a job that may be leased now and could not before.
LEMMA PushHeaps ==
    ASSUME HeapsInv, JobsInv, NEW j \in Jobs, NEW r, ~Leasable(job[j]), Leasable(r),
           r.queue \in Queues, job' = [job EXCEPT ![j] = r], Push(ready, delayed, j, r, now)
    PROVE  HeapsInv'
<1> DEFINE q == r.queue
           E == {Entry(j, r)}
<1>1. /\ Keys(job', q) = Keys(job, q) \cup E
      /\ \A p \in Queues \ {q} : Keys(job', p) = Keys(job, p)
    BY KeysUpdate
<1>2. Entry(j, r) \notin Keys(job, q)
  <2>1. \A k : \A s : Entry(k, s).id = k
      BY DEF Entry
  <2> HIDE DEF Leasable, Entry
  <2> QED BY <2>1 DEF Keys
<1>3. /\ ready = [p \in Queues |-> ready[p]] /\ delayed = [p \in Queues |-> delayed[p]]
      /\ ready[q] = SetToBag(InReady(q)) /\ delayed[q] = SetToBag(InDelayed(q))
      /\ InReady(q) \cap InDelayed(q) = {} /\ InReady(q) \cup InDelayed(q) = Keys(job, q)
    BY DEF HeapsInv
<1>4. ready = [ready EXCEPT ![q] = SetToBag(InReady(q))]
      /\ delayed = [delayed EXCEPT ![q] = SetToBag(InDelayed(q))]
    BY <1>3
<1>5. InReady(q) \cap E = {} /\ InDelayed(q) \cap E = {}
    BY <1>2, <1>3
<1>6. /\ ready[q] (+) SetToBag(E) = SetToBag(InReady(q) \cup E)
      /\ delayed[q] (+) SetToBag(E) = SetToBag(InDelayed(q) \cup E)
    BY <1>3, <1>5, BagFacts
<1>7. CASE r.eligibleAt > now
  <2>1. ready' = ready /\ delayed' = [delayed EXCEPT ![q] = SetToBag(InDelayed(q) \cup E)]
      BY <1>6, <1>7 DEF Push
  <2>2. InReady(q) \cap (InDelayed(q) \cup E) = {}
        /\ InReady(q) \cup (InDelayed(q) \cup E) = Keys(job', q)
      BY <1>1, <1>3, <1>5
  <2> HIDE DEF q, E
  <2> QED BY <1>1, <1>4, <2>1, <2>2, HeapsStep DEF q
<1>8. CASE ~(r.eligibleAt > now)
  <2>1. ready' = [ready EXCEPT ![q] = SetToBag(InReady(q) \cup E)] /\ delayed' = delayed
      BY <1>6, <1>8 DEF Push
  <2>2. (InReady(q) \cup E) \cap InDelayed(q) = {}
        /\ (InReady(q) \cup E) \cup InDelayed(q) = Keys(job', q)
      BY <1>1, <1>3, <1>5
  <2> HIDE DEF q, E
  <2> QED BY <1>1, <1>4, <2>1, <2>2, HeapsStep DEF q
<1> QED BY <1>7, <1>8

\* A job that could not be leased still cannot.
LEMMA UnfiledHeaps ==
    ASSUME HeapsInv, JobsInv, NEW j \in Jobs, NEW r, ~Leasable(job[j]), ~Leasable(r),
           job' = [job EXCEPT ![j] = r], UNCHANGED <<ready, delayed>>
    PROVE  HeapsInv'
<1>1. \A p \in Queues : Keys(job', p) = Keys(job, p)
    BY KeysUpdate
<1> QED BY <1>1 DEF HeapsInv, InReady, InDelayed

\* Nothing but jobs and heaps is in the heaps' invariant.
LEMMA SameHeaps ==
    ASSUME HeapsInv, UNCHANGED <<job, ready, delayed>>
    PROVE  HeapsInv'
    BY DEF HeapsInv, InReady, InDelayed

\* Whatever Lease pops is leased, filed again or, if it was refused, put back.
LEMMA LeaseHeaps ==
    ASSUME HeapsInv, JobsInv, now \in Nat, NEW q \in Queues, NEW e \in Candidates(q), Lease(q, e)
    PROVE  /\ HeapsInv'
           /\ e.id \in Jobs /\ job[e.id].queue = q /\ Runs(e) /\ e = Entry(e.id, job[e.id])
           /\ job' = [job EXCEPT ![e.id] = [job[e.id] EXCEPT !.state = "Leased",
                                                             !.attempt = @ + 1]]
<1> DEFINE P == {f \in Poppable(q) : Less(f, e)}
           r == [job[e.id] EXCEPT !.state = "Leased", !.attempt = @ + 1]
<1>1. /\ e \in Poppable(q) \ P
      /\ Promoted(q) (-) Passed(q, e) = SetToBag(Poppable(q) \ P)
      /\ delayed[q] (-) Elapsed(q) (+) Refiled(Passed(q, e))
           = SetToBag((InDelayed(q) \ Due(q)) \cup P)
    BY TakeFacts DEF Lease, Take
<1>2. e \in InReady(q) \cup InDelayed(q)
    BY <1>1 DEF Poppable, Due
<1>3. e.id \in Jobs /\ e = Entry(e.id, job[e.id]) /\ Leasable(job[e.id]) /\ job[e.id].queue = q
    BY <1>2, EntryFacts
<1>4. Runs(e)
    BY PromoteFacts
<1>5. job' = [job EXCEPT ![e.id] = r]
    BY <1>3 DEF Lease, JobsInv
<1>6. ~Leasable(r)
  <2>1. job[e.id] \in JobRec
      BY <1>3 DEF JobsInv, GoodJob
  <2>2. r.state = "Leased"
      BY <2>1 DEF JobRec
  <2> QED BY <2>2 DEF Leasable
<1>7. \A p : Keys(job', p) = Keys(job, p) \ {e}
  <2> HIDE DEF r
  <2> QED BY <1>3, <1>5, <1>6, KeysUpdate
<1>8. \A p \in Queues \ {q} : Keys(job', p) = Keys(job, p)
  <2>1. ASSUME NEW p \in Queues \ {q} PROVE e \notin Keys(job, p)
    <3>1. \A k : \A s : Entry(k, s).id = k
        BY DEF Entry
    <3> QED BY <1>3, <3>1 DEF Keys
  <2> QED BY <1>7, <2>1
<1> DEFINE A == (Poppable(q) \ P) \ {e}
           B == (InDelayed(q) \ Due(q)) \cup P
<1>9. ready' = [ready EXCEPT ![q] = SetToBag(A)] /\ delayed' = [delayed EXCEPT ![q] = SetToBag(B)]
  <2>1. Promoted(q) (-) Passed(q, e) (-) SetToBag({e}) = SetToBag(A)
      BY <1>1, BagFacts
  <2> QED BY <1>1, <2>1 DEF Lease, Take
<1>10. A \cap B = {} /\ A \cup B = Keys(job', q)
  <2>1. InReady(q) \cap InDelayed(q) = {} /\ InReady(q) \cup InDelayed(q) = Keys(job, q)
      BY DEF HeapsInv
  <2>2. Due(q) \subseteq InDelayed(q) /\ P \subseteq Poppable(q)
      BY DEF Due
  <2> HIDE DEF P
  <2> QED BY <1>1, <1>7, <2>1, <2>2 DEF Poppable
<1>11. HeapsInv'
  <2> HIDE DEF A, B
  <2> QED BY <1>8, <1>9, <1>10, HeapsStep
<1> QED BY <1>3, <1>4, <1>5, <1>11

\* A refused Lease leaves every entry in one of the heaps.
LEMMA RefusedHeaps ==
    ASSUME HeapsInv, JobsInv, now \in Nat, NEW q \in Queues, NEW e \in Candidates(q),
           LeaseRefused(q, e)
    PROVE  HeapsInv'
<1> DEFINE P == {f \in Poppable(q) : Less(f, e)}
           A == Poppable(q) \ P
           B == (InDelayed(q) \ Due(q)) \cup P
<1>1. /\ Promoted(q) (-) Passed(q, e) = SetToBag(A)
      /\ delayed[q] (-) Elapsed(q) (+) Refiled(Passed(q, e)) = SetToBag(B)
  <2>1. \A f \in Candidates(q) : f = e \/ Less(e, f)
      BY DEF LeaseRefused
  <2>2. \A X : X = P =>
          /\ Promoted(q) (-) Passed(q, e) = SetToBag(Poppable(q) \ X)
          /\ delayed[q] (-) Elapsed(q) (+) Refiled(Passed(q, e))
               = SetToBag((InDelayed(q) \ Due(q)) \cup X)
      BY <2>1, TakeFacts, Zenon
  <2> QED BY <2>2, Zenon
<1>2. ready' = [ready EXCEPT ![q] = SetToBag(A)] /\ delayed' = [delayed EXCEPT ![q] = SetToBag(B)]
    BY <1>1 DEF LeaseRefused
<1>3. A \cap B = {} /\ A \cup B = Keys(job, q)
  <2>1. InReady(q) \cap InDelayed(q) = {} /\ InReady(q) \cup InDelayed(q) = Keys(job, q)
      BY DEF HeapsInv
  <2>2. Due(q) \subseteq InDelayed(q) /\ P \subseteq Poppable(q)
      BY DEF Due
  <2> HIDE DEF P
  <2> QED BY <2>1, <2>2 DEF Poppable
<1>4. job' = job
    BY DEF LeaseRefused
<1> HIDE DEF A, B
<1> QED BY <1>2, <1>3, <1>4, HeapsStep

\* With no candidate everything popped waits, and is filed as waiting.
LEMMA NothingHeaps ==
    ASSUME HeapsInv, JobsInv, now \in Nat, NEW q \in Queues, LeaseNothing(q)
    PROVE  HeapsInv' /\ \A e \in InReady(q) \cup InDelayed(q) : e.eligibleAt > now
<1>1. \A e \in Poppable(q) : Valid(e) /\ ~Runs(e)
  <2>1. Poppable(q) \subseteq InReady(q) \cup InDelayed(q)
      BY DEF Poppable, Due
  <2> QED BY <2>1, PromoteFacts, EntryFacts DEF LeaseNothing
<1>2. \A e \in InReady(q) \cup InDelayed(q) : e.eligibleAt > now
  <2> SUFFICES ASSUME NEW e \in InReady(q) \cup InDelayed(q) PROVE e.eligibleAt > now
      OBVIOUS
  <2>1. e.eligibleAt \in Nat /\ (Runs(e) <=> e.eligibleAt <= now)
      BY EntryFacts
  <2>2. e \in Poppable(q) \/ ~(e.eligibleAt <= now)
      BY DEF Poppable, Due
  <2> QED BY <1>1, <2>1, <2>2
<1> DEFINE B == (InDelayed(q) \ Due(q)) \cup Poppable(q)
<1>3. Refiled(Promoted(q)) = SetToBag(Poppable(q))
  <2>1. {f \in Poppable(q) : Valid(f) /\ ~Runs(f)} = Poppable(q)
      BY <1>1
  <2> QED BY <2>1, PromoteFacts, RefiledFacts
<1>4. delayed[q] (-) Elapsed(q) (+) Refiled(Promoted(q)) = SetToBag(B)
  <2>1. (InDelayed(q) \ Due(q)) \cap Poppable(q) = {}
      BY DEF Poppable, HeapsInv
  <2> QED BY <1>3, <2>1, PromoteFacts, BagFacts
<1>5. EmptyBag = SetToBag({})
    BY DEF EmptyBag
<1>6. ready' = [ready EXCEPT ![q] = SetToBag({})] /\ delayed' = [delayed EXCEPT ![q] = SetToBag(B)]
      /\ job' = job
    BY <1>4, <1>5 DEF LeaseNothing
<1>7. {} \cap B = {} /\ {} \cup B = Keys(job, q)
  <2>1. InReady(q) \cup InDelayed(q) = Keys(job, q)
      BY DEF HeapsInv
  <2>2. Due(q) \subseteq InDelayed(q)
      BY DEF Due
  <2> QED BY <2>1, <2>2 DEF Poppable
<1> HIDE DEF B
<1>8. HeapsInv'
    BY <1>6, <1>7, HeapsStep
<1> QED BY <1>2, <1>8


\* Recovery files every job that may be leased afresh.
LEMMA RestartHeaps ==
    ASSUME NEW t, Restart(t)
    PROVE  HeapsInv'
<1> DEFINE S(q, due) == {Entry(j, job'[j]) : j \in {k \in Jobs :
                           /\ Leasable(job'[k])
                           /\ job'[k].queue = q
                           /\ (job'[k].eligibleAt <= t) = due}}
<1>1. /\ ready' = [q \in Queues |-> SetToBag(S(q, TRUE))]
      /\ delayed' = [q \in Queues |-> SetToBag(S(q, FALSE))]
    BY DEF Restart
<1>2. \A q \in Queues : InReady(q)' = S(q, TRUE) /\ InDelayed(q)' = S(q, FALSE)
    BY <1>1, BagFacts DEF InReady, InDelayed
<1>3. ASSUME NEW q \in Queues
      PROVE  S(q, TRUE) \cap S(q, FALSE) = {} /\ S(q, TRUE) \cup S(q, FALSE) = Keys(job', q)
  <2>1. \A j, k \in Jobs : \A a, b : Entry(j, a) = Entry(k, b) => j = k
      BY DEF Entry
  <2>2. S(q, TRUE) \cup S(q, FALSE) = Keys(job', q)
      BY DEF Keys
  <2>3. S(q, TRUE) \cap S(q, FALSE) = {}
      BY <2>1
  <2> QED BY <2>2, <2>3
<1> HIDE DEF S
<1>4. /\ ready' = [q \in Queues |-> SetToBag(InReady(q)')]
      /\ delayed' = [q \in Queues |-> SetToBag(InDelayed(q)')]
    BY <1>1, <1>2
<1> QED BY <1>2, <1>3, <1>4 DEF HeapsInv

-----------------------------------------------------------------------------
(* The rest of the invariant, for steps that change one job *)

\* More faults allow what fewer do.
LEMMA MoreFaults ==
    ASSUME NEW r, NEW n \in Nat, NEW m \in Nat, n <= m, GoodJob(r, n)
    PROVE  GoodJob(r, m)
<1>1. r.attempt \in Nat /\ r.attempt <= MaxRetries + n + 1
      /\ (r.state = "Absent" \/ Leasable(r) => r.attempt <= MaxRetries + n)
    BY DEF GoodJob, JobRec
<1>2. r.attempt <= MaxRetries + m + 1 /\ (r.state = "Absent" \/ Leasable(r) => r.attempt <= MaxRetries + m)
    BY <1>1, Bounds
<1> QED BY <1>2 DEF GoodJob

\* The parts of a good job's shape.
LEMMA JobShape ==
    ASSUME JobsInv, faults \in Nat, NEW j \in Jobs
    PROVE  LET r == job[j] IN
           /\ r = [state |-> r.state, queue |-> r.queue, priority |-> r.priority,
                   enqueuedAt |-> r.enqueuedAt, eligibleAt |-> r.eligibleAt, attempt |-> r.attempt]
           /\ r.state \in States /\ r.queue \in Queues /\ r.priority \in Nat
           /\ r.enqueuedAt \in 0..MaxTime /\ r.eligibleAt \in Nat /\ r.attempt \in Nat
           /\ r.attempt <= MaxRetries + faults + 1
           /\ Leasable(r) => r.attempt <= MaxRetries + faults
<1>1. GoodJob(job[j], faults)
    BY DEF JobsInv
<1> QED BY <1>1 DEF GoodJob, JobRec

\* A job after its state, and perhaps its time and attempt, were assigned.
LEMMA AssignedRecord ==
    ASSUME NEW r \in JobRec, NEW s, NEW e, NEW a
    PROVE  LET new(t, n) == [state |-> s, queue |-> r.queue, priority |-> r.priority,
                             enqueuedAt |-> r.enqueuedAt, eligibleAt |-> t, attempt |-> n]
           IN /\ [r EXCEPT !.state = s] = new(r.eligibleAt, r.attempt)
              /\ [r EXCEPT !.state = s, !.eligibleAt = e] = new(e, r.attempt)
              /\ [r EXCEPT !.state = s, !.attempt = a] = new(r.eligibleAt, a)
<1> DEFINE new(t, n) == [state |-> s, queue |-> r.queue, priority |-> r.priority,
                         enqueuedAt |-> r.enqueuedAt, eligibleAt |-> t, attempt |-> n]
<1>2. [r EXCEPT !.state = s] = new(r.eligibleAt, r.attempt)
    BY DEF JobRec
<1>3. [new(r.eligibleAt, r.attempt) EXCEPT !.eligibleAt = e] = new(e, r.attempt)
    OBVIOUS
<1>5. [new(r.eligibleAt, r.attempt) EXCEPT !.attempt = a] = new(r.eligibleAt, a)
    OBVIOUS
<1>6. [r EXCEPT !.state = s, !.eligibleAt = e] = new(e, r.attempt)
    BY <1>2, <1>3, Zenon
<1>8. [r EXCEPT !.state = s, !.attempt = a] = new(r.eligibleAt, a)
    BY <1>2, <1>5, Zenon
<1> QED BY <1>2, <1>6, <1>8

\* The same of a job of the store.
LEMMA Assigned ==
    ASSUME JobsInv, NEW j \in Jobs, NEW s, NEW e, NEW a
    PROVE  LET new(t, n) == [state |-> s, queue |-> job[j].queue, priority |-> job[j].priority,
                             enqueuedAt |-> job[j].enqueuedAt, eligibleAt |-> t, attempt |-> n]
           IN /\ [job[j] EXCEPT !.state = s] = new(job[j].eligibleAt, job[j].attempt)
              /\ [job[j] EXCEPT !.state = s, !.eligibleAt = e] = new(e, job[j].attempt)
              /\ [job[j] EXCEPT !.state = s, !.attempt = a] = new(job[j].eligibleAt, a)
<1>1. job[j] \in JobRec
    BY DEF JobsInv, GoodJob
<1> QED BY <1>1, AssignedRecord, Zenon

\* A job whose state, times and attempt are within their bounds is good.
LEMMA GoodRecord ==
    ASSUME NEW s \in States, NEW q \in Queues, NEW p \in Nat, NEW t \in 0..MaxTime,
           NEW e \in Nat, NEW a \in Nat, NEW n \in Nat, NEW w \in Waits, e <= MaxTime + w,
           a <= MaxRetries + n + 1, s \in {"Absent", "Pending", "RetryWait"} => a <= MaxRetries + n
    PROVE  GoodJob([state |-> s, queue |-> q, priority |-> p, enqueuedAt |-> t,
                    eligibleAt |-> e, attempt |-> a], n)
    BY DEF GoodJob, JobRec, Leasable

\* A good job taken back to its lease is good, and one taken off it is after one
\* more fault.
LEMMA LeaseAndBack ==
    ASSUME NEW n \in Nat, NEW r, GoodJob(r, n)
    PROVE  /\ GoodJob([r EXCEPT !.state = "Leased"], n)
           /\ \A t \in 0..MaxTime :
                 /\ GoodJob([r EXCEPT !.state = "RetryWait", !.eligibleAt = t], n + 1)
                 /\ [r EXCEPT !.state = "RetryWait", !.eligibleAt = t].state = "RetryWait"
<1>1. r \in JobRec
    BY DEF GoodJob
<1>2. /\ r.queue \in Queues /\ r.priority \in Nat /\ r.enqueuedAt \in 0..MaxTime
      /\ r.eligibleAt \in Nat /\ r.attempt \in Nat /\ r.attempt <= MaxRetries + n + 1
    BY DEF GoodJob, JobRec
<1>3. PICK w \in Waits : r.eligibleAt <= MaxTime + w
    BY DEF GoodJob
<1>4. "Leased" \in States /\ "RetryWait" \in States /\ CapDelay(BackoffCap) \in Waits
    BY Bounds DEF States
<1>5. GoodJob([r EXCEPT !.state = "Leased"], n)
  <2>1. [r EXCEPT !.state = "Leased"] =
          [state |-> "Leased", queue |-> r.queue, priority |-> r.priority,
           enqueuedAt |-> r.enqueuedAt, eligibleAt |-> r.eligibleAt, attempt |-> r.attempt]
      BY <1>1, AssignedRecord, Zenon
  <2>2. GoodJob([state |-> "Leased", queue |-> r.queue, priority |-> r.priority,
           enqueuedAt |-> r.enqueuedAt, eligibleAt |-> r.eligibleAt, attempt |-> r.attempt], n)
      BY <1>2, <1>3, <1>4, GoodRecord
  <2> QED BY <2>1, <2>2, Zenon
<1>6. ASSUME NEW t \in 0..MaxTime
      PROVE  /\ GoodJob([r EXCEPT !.state = "RetryWait", !.eligibleAt = t], n + 1)
             /\ [r EXCEPT !.state = "RetryWait", !.eligibleAt = t].state = "RetryWait"
  <2>1. [r EXCEPT !.state = "RetryWait", !.eligibleAt = t] =
          [state |-> "RetryWait", queue |-> r.queue, priority |-> r.priority,
           enqueuedAt |-> r.enqueuedAt, eligibleAt |-> t, attempt |-> r.attempt]
      BY <1>1, AssignedRecord, Zenon
  <2>2. t \in Nat /\ t <= MaxTime + CapDelay(BackoffCap) /\ n + 1 \in Nat
        /\ r.attempt <= MaxRetries + (n + 1) /\ r.attempt <= MaxRetries + (n + 1) + 1
      BY <1>2, Bounds
  <2>3. GoodJob([state |-> "RetryWait", queue |-> r.queue, priority |-> r.priority,
           enqueuedAt |-> r.enqueuedAt, eligibleAt |-> t, attempt |-> r.attempt], n + 1)
      BY <1>2, <1>4, <2>2, GoodRecord
  <2>4. [state |-> "RetryWait", queue |-> r.queue, priority |-> r.priority,
           enqueuedAt |-> r.enqueuedAt, eligibleAt |-> t, attempt |-> r.attempt].state = "RetryWait"
      OBVIOUS
  <2> QED BY <2>1, <2>3, <2>4, Zenon
<1> QED BY <1>5, <1>6

\* What the history says of a step: a job's wait goes on only if it was and is
\* eligible.
LEMMA WatchFacts ==
    ASSUME LoopInv, NEW d \in Nat, Watch(d)
    PROVE  /\ waited' \in [Jobs -> 0..(DispatchTick + 1)]
           /\ \A j \in Jobs : waited[j] \in Nat /\ waited'[j] \in Nat /\ waited'[j] <= waited[j] + d
           /\ \A j \in Jobs : ~Eligible(j) \/ job[j].queue \notin Served => waited'[j] = 0
<1> DEFINE ends(j) == ~(Eligible(j) /\ Eligible(j)' /\ job[j].queue \in Served)
<1>1. waited' = [j \in Jobs |-> IF ends(j) THEN 0
        ELSE IF waited[j] + d > DispatchTick THEN DispatchTick + 1 ELSE waited[j] + d]
    BY DEF Watch
<1>2. DispatchTick \in Nat /\ \A j \in Jobs : waited[j] \in 0..(DispatchTick + 1)
    BY Bounds DEF LoopInv
<1>3. \A j \in Jobs : ~Eligible(j) \/ job[j].queue \notin Served => ends(j)
    OBVIOUS
<1> HIDE DEF ends
<1>4. \A j \in Jobs : waited'[j] = IF ends(j) THEN 0
        ELSE IF waited[j] + d > DispatchTick THEN DispatchTick + 1 ELSE waited[j] + d
    BY <1>1
<1>5. \A j \in Jobs : /\ waited'[j] \in 0..(DispatchTick + 1)
                      /\ waited[j] \in Nat /\ waited'[j] \in Nat /\ waited'[j] <= waited[j] + d
    BY <1>2, <1>4
<1> QED BY <1>1, <1>3, <1>4, <1>5

\* A step that leaves the loop where it is, and its timer, is harmless: a job
\* whose wait goes on was there before, and a wait that begins has the whole
\* timer to come.
LEMMA NoticeKept ==
    ASSUME ScheduleInv, Watch(0), loop'.pc = loop.pc, loop'.todo = loop.todo,
           loop'.refused = loop.refused, loop'.until - now' = loop.until - now,
           \A j \in Jobs : Eligible(j) /\ Eligible(j)' => job'[j].queue = job[j].queue
    PROVE  NoticeInv'
<1> SUFFICES ASSUME ~loop.refused, NEW j \in Jobs, Eligible(j)', job'[j].queue \in Served
             PROVE  /\ loop.pc = "pass" /\ job'[j].queue \notin loop.todo => waited'[j] = 0
                    /\ loop.pc = "sleep" => waited'[j] + (loop.until - now) <= DispatchTick
    BY DEF NoticeInv
<1>1. /\ waited[j] \in Nat /\ waited'[j] \in Nat /\ waited'[j] <= waited[j] + 0
      /\ ~Eligible(j) => waited'[j] = 0
    BY WatchFacts DEF ScheduleInv
<1>2. loop.pc = "sleep" => loop.until - now \in 0..DispatchTick
    BY DEF ScheduleInv, LoopInv
<1>3. DispatchTick \in Nat /\ loop.until - now \in Int
    BY Bounds DEF ScheduleInv, LoopInv
<1>4. CASE Eligible(j)
  <2>1. job'[j].queue = job[j].queue
      BY <1>4
  <2>2. /\ loop.pc = "pass" /\ job[j].queue \notin loop.todo => waited[j] = 0
        /\ loop.pc = "sleep" => waited[j] + (loop.until - now) <= DispatchTick
      BY <1>4, <2>1 DEF ScheduleInv, NoticeInv
  <2> QED BY <1>1, <1>3, <2>1, <2>2
<1>5. CASE ~Eligible(j)
    BY <1>1, <1>2, <1>3, <1>5
<1> QED BY <1>4, <1>5

\* A step of one job that could not be leased before or cannot be after it.
LEMMA JobStep ==
    ASSUME ScheduleInv, NEW j \in Jobs, NEW r, job' = [job EXCEPT ![j] = r],
           GoodJob(r, faults), ~Leasable(job[j]) \/ ~Leasable(r), Record(j), Watch(0),
           UNCHANGED <<now, loop, faults>>
    PROVE  JobsInv' /\ DiskInv' /\ LoopInv' /\ NoticeInv'
<1> USE DEF ScheduleInv
<1>1. job' = [k \in Jobs |-> job'[k]] /\ job'[j] = r /\ \A k \in Jobs \ {j} : job'[k] = job[k]
    BY DEF JobsInv
<1>2. JobsInv'
    BY <1>1 DEF JobsInv
<1>3. LoopInv'
    BY WatchFacts DEF LoopInv
<1>4. DiskInv'
  <2>1. disk' = disk /\ unsaved' \in 0..MaxLost /\ recovered' = recovered \ {j}
      BY Bounds DEF Record, DiskInv
  <2>2. recovered' \subseteq {k \in Jobs : job'[k].state = "RetryWait"}
      BY <1>1, <2>1 DEF DiskInv
  <2> QED BY <2>1, <2>2 DEF DiskInv
<1>5. \A k \in Jobs : Eligible(k) /\ Eligible(k)' => job'[k].queue = job[k].queue
    BY <1>1 DEF Eligible
<1>6. NoticeInv'
    BY <1>5, NoticeKept
<1> QED BY <1>2, <1>3, <1>4, <1>6

\* Submit keeps the invariant.
LEMMA SubmitStep ==
    ASSUME ScheduleInv, NEW j \in Jobs, NEW m \in Requests, Submit(j, m), Watch(0)
    PROVE  ScheduleInv'
<1> DEFINE r == [state |-> "Pending", queue |-> m.queue, priority |-> m.priority, enqueuedAt |-> now,
                 eligibleAt |-> now + m.delay, attempt |-> 0]
<1>1. job' = [job EXCEPT ![j] = r] /\ Push(ready, delayed, j, r, now)
    BY DEF Submit
<1>2. ~Leasable(job[j]) /\ Leasable(r) /\ r.queue \in Queues
    BY Bounds DEF Submit, Leasable
<1>3. /\ now \in 0..MaxTime /\ faults \in Nat /\ m.delay \in Waits /\ now + m.delay \in Nat
      /\ now + m.delay <= MaxTime + m.delay
    BY Bounds DEF ScheduleInv, LoopInv
<1>4. GoodJob(r, faults)
    BY <1>3, Bounds, GoodRecord DEF States
<1>6. UNCHANGED <<now, loop, faults>> /\ Record(j)
    BY DEF Submit
<1> HIDE DEF r
<1>7. HeapsInv'
    BY <1>1, <1>2, PushHeaps DEF ScheduleInv
<1> QED BY <1>1, <1>2, <1>4, <1>6, <1>7, JobStep DEF ScheduleInv

\* So does a retry.
LEMMA RetryStep ==
    ASSUME ScheduleInv, NEW j \in Jobs,
           NEW d \in Delays(job[j].attempt, BackoffBase, BackoffCap), Retry(j, d), Watch(0)
    PROVE  ScheduleInv'
<1> DEFINE r == [job[j] EXCEPT !.state = "RetryWait", !.eligibleAt = now + d]
<1>1. job' = [job EXCEPT ![j] = r] /\ Push(ready, delayed, j, r, now)
    BY DEF Retry
<1>2. now \in 0..MaxTime /\ now \in Nat /\ faults \in Nat
    BY Bounds DEF ScheduleInv, LoopInv
<1>3. job[j].attempt \in Nat /\ job[j].attempt <= MaxRetries /\ job[j].state = "Leased"
    BY <1>2, JobShape DEF Retry, ScheduleInv
<1>4. d \in Nat /\ d <= CapDelay(BackoffCap)
    BY <1>3, RetryDelay
<1>5. now + d \in Nat /\ now + d >= now /\ now + d <= MaxTime + CapDelay(BackoffCap)
    BY <1>2, <1>4, Bounds
<1>6. r = [state |-> "RetryWait", queue |-> job[j].queue, priority |-> job[j].priority,
           enqueuedAt |-> job[j].enqueuedAt, eligibleAt |-> now + d, attempt |-> job[j].attempt]
    BY Assigned, Zenon DEF ScheduleInv
<1>7. GoodJob(r, faults)
  <2>1. job[j].attempt <= MaxRetries + faults + 1 /\ job[j].attempt <= MaxRetries + faults
      BY <1>2, <1>3, Bounds
  <2>2. /\ job[j].queue \in Queues /\ job[j].priority \in Nat
        /\ job[j].enqueuedAt \in 0..MaxTime
      BY <1>2, JobShape DEF ScheduleInv
  <2>3. CapDelay(BackoffCap) \in Waits /\ "RetryWait" \in States
      BY Bounds DEF States
  <2> HIDE DEF r
  <2> QED BY <1>2, <1>3, <1>5, <1>6, <2>1, <2>2, <2>3, GoodRecord
<1>8. ~Leasable(job[j]) /\ Leasable(r) /\ r.queue \in Queues /\ r.eligibleAt >= now
    BY <1>2, <1>3, <1>5, <1>6, JobShape DEF Leasable, ScheduleInv
<1>9. UNCHANGED <<now, loop, faults>> /\ Record(j)
    BY DEF Retry
<1> HIDE DEF r
<1>10. HeapsInv'
    BY <1>1, <1>8, PushHeaps DEF ScheduleInv
<1> QED BY <1>1, <1>7, <1>8, <1>9, <1>10, JobStep DEF ScheduleInv

\* So does ReplayJob.
LEMMA ReplayStep ==
    ASSUME ScheduleInv, NEW j \in Jobs, ReplayJob(j), Watch(0)
    PROVE  ScheduleInv'
<1> DEFINE r == [job[j] EXCEPT !.state = "Pending", !.eligibleAt = now, !.attempt = 0]
<1>1. job' = [job EXCEPT ![j] = r] /\ Push(ready, delayed, j, r, now)
    BY DEF ReplayJob
<1>2. now \in 0..MaxTime /\ now \in Nat /\ faults \in Nat /\ now <= MaxTime + CapDelay(BackoffCap)
    BY Bounds DEF ScheduleInv, LoopInv
<1>3. r = [state |-> "Pending", queue |-> job[j].queue, priority |-> job[j].priority,
           enqueuedAt |-> job[j].enqueuedAt, eligibleAt |-> now, attempt |-> 0]
  <2> DEFINE new(e, a) == [state |-> "Pending", queue |-> job[j].queue, priority |-> job[j].priority,
                           enqueuedAt |-> job[j].enqueuedAt, eligibleAt |-> e, attempt |-> a]
  <2>1. [job[j] EXCEPT !.state = "Pending", !.eligibleAt = now] = new(now, job[j].attempt)
      BY Assigned, Zenon DEF ScheduleInv
  <2>2. [new(now, job[j].attempt) EXCEPT !.attempt = 0] = new(now, 0)
      OBVIOUS
  <2> QED BY <2>1, <2>2, Zenon
<1>4. GoodJob(r, faults)
  <2>1. /\ job[j].queue \in Queues /\ job[j].priority \in Nat
        /\ job[j].enqueuedAt \in 0..MaxTime
      BY <1>2, JobShape DEF ScheduleInv
  <2>2. 0 <= MaxRetries + faults /\ 0 <= MaxRetries + faults + 1
      BY <1>2, Bounds
  <2>3. CapDelay(BackoffCap) \in Waits /\ "Pending" \in States /\ 0 \in Nat
      BY Bounds DEF States
  <2> HIDE DEF r
  <2> QED BY <1>2, <1>3, <2>1, <2>2, <2>3, GoodRecord
<1>5. ~Leasable(job[j]) /\ Leasable(r) /\ r.queue \in Queues /\ r.eligibleAt >= now
  <2>1. job[j].queue \in Queues
      BY <1>2, JobShape DEF ScheduleInv
  <2>2. ~Leasable(job[j])
      BY DEF Leasable, ReplayJob
  <2> QED BY <1>2, <1>3, <2>1, <2>2 DEF Leasable
<1>6. UNCHANGED <<now, loop, faults>> /\ Record(j)
    BY DEF ReplayJob
<1> HIDE DEF r
<1>7. HeapsInv'
    BY <1>1, <1>5, PushHeaps DEF ScheduleInv
<1> QED BY <1>1, <1>4, <1>5, <1>6, <1>7, JobStep DEF ScheduleInv

\* So does Ack.
LEMMA AckStep ==
    ASSUME ScheduleInv, NEW j \in Jobs, Ack(j), Watch(0)
    PROVE  ScheduleInv'
<1> DEFINE r == [job[j] EXCEPT !.state = "Done"]
<1>1. job' = [job EXCEPT ![j] = r]
    BY DEF Ack, ScheduleInv, JobsInv
<1>2. faults \in Nat
    BY Bounds DEF ScheduleInv, LoopInv
<1>3. r = [state |-> "Done", queue |-> job[j].queue, priority |-> job[j].priority,
           enqueuedAt |-> job[j].enqueuedAt, eligibleAt |-> job[j].eligibleAt, attempt |-> job[j].attempt]
    BY Assigned, Zenon DEF ScheduleInv
<1>4. GoodJob(r, faults)
  <2>1. PICK w \in Waits : job[j].eligibleAt <= MaxTime + w
      BY DEF ScheduleInv, JobsInv, GoodJob
  <2>2. /\ job[j].queue \in Queues /\ job[j].priority \in Nat
        /\ job[j].enqueuedAt \in 0..MaxTime /\ job[j].eligibleAt \in Nat /\ job[j].attempt \in Nat
        /\ job[j].attempt <= MaxRetries + faults + 1
      BY <1>2, JobShape DEF ScheduleInv
  <2> QED BY <1>2, <1>3, <2>1, <2>2, GoodRecord DEF States
<1>5. ~Leasable(job[j]) /\ ~Leasable(r)
    BY <1>3 DEF Leasable, Ack
<1>6. UNCHANGED <<now, loop, faults>> /\ UNCHANGED <<ready, delayed>> /\ Record(j)
    BY DEF Ack
<1> HIDE DEF r
<1>7. HeapsInv'
    BY <1>1, <1>5, <1>6, UnfiledHeaps DEF ScheduleInv
<1> QED BY <1>1, <1>4, <1>5, <1>6, <1>7, JobStep DEF ScheduleInv

\* So does a dead letter.
LEMMA DeadLetterStep ==
    ASSUME ScheduleInv, NEW j \in Jobs, DeadLetter(j), Watch(0)
    PROVE  ScheduleInv'
<1> DEFINE r == [job[j] EXCEPT !.state = "DeadLetter", !.eligibleAt = now]
<1>1. job' = [job EXCEPT ![j] = r]
    BY DEF DeadLetter, ScheduleInv, JobsInv
<1>2. now \in Nat /\ faults \in Nat /\ now <= MaxTime + CapDelay(BackoffCap)
    BY Bounds DEF ScheduleInv, LoopInv
<1>3. r = [state |-> "DeadLetter", queue |-> job[j].queue, priority |-> job[j].priority,
           enqueuedAt |-> job[j].enqueuedAt, eligibleAt |-> now, attempt |-> job[j].attempt]
    BY Assigned, Zenon DEF ScheduleInv
<1>4. GoodJob(r, faults)
  <2>1. /\ job[j].queue \in Queues /\ job[j].priority \in Nat
        /\ job[j].enqueuedAt \in 0..MaxTime /\ job[j].attempt \in Nat
        /\ job[j].attempt <= MaxRetries + faults + 1
      BY <1>2, JobShape DEF ScheduleInv
  <2> QED BY <1>2, <1>3, <2>1, Bounds, GoodRecord DEF States
<1>5. ~Leasable(job[j]) /\ ~Leasable(r)
    BY <1>3 DEF Leasable, DeadLetter
<1>6. UNCHANGED <<now, loop, faults>> /\ UNCHANGED <<ready, delayed>> /\ Record(j)
    BY DEF DeadLetter
<1> HIDE DEF r
<1>7. HeapsInv'
    BY <1>1, <1>5, <1>6, UnfiledHeaps DEF ScheduleInv
<1> QED BY <1>1, <1>4, <1>5, <1>6, <1>7, JobStep DEF ScheduleInv

\* So does Lease.
LEMMA LeaseStep ==
    ASSUME ScheduleInv, NEW q \in Queues, NEW e \in Candidates(q), Lease(q, e), Watch(0)
    PROVE  ScheduleInv'
<1> DEFINE j == e.id
           r == [job[j] EXCEPT !.state = "Leased", !.attempt = @ + 1]
<1>1. now \in Nat /\ faults \in Nat
    BY Bounds DEF ScheduleInv, LoopInv
<1>2. HeapsInv' /\ j \in Jobs /\ job' = [job EXCEPT ![j] = r] /\ Runs(e)
    BY <1>1, LeaseHeaps DEF ScheduleInv
<1>3. r = [state |-> "Leased", queue |-> job[j].queue, priority |-> job[j].priority,
           enqueuedAt |-> job[j].enqueuedAt, eligibleAt |-> job[j].eligibleAt,
           attempt |-> job[j].attempt + 1]
    BY <1>2, Assigned, Zenon DEF ScheduleInv
<1>4. GoodJob(r, faults)
  <2>1. PICK w \in Waits : job[j].eligibleAt <= MaxTime + w
      BY <1>2 DEF ScheduleInv, JobsInv, GoodJob
  <2>2. /\ job[j].queue \in Queues /\ job[j].priority \in Nat
        /\ job[j].enqueuedAt \in 0..MaxTime /\ job[j].eligibleAt \in Nat /\ job[j].attempt \in Nat
        /\ job[j].attempt <= MaxRetries + faults
      BY <1>1, <1>2, JobShape DEF ScheduleInv, Runs, Valid
  <2>3. job[j].attempt + 1 \in Nat /\ job[j].attempt + 1 <= MaxRetries + faults + 1
      BY <1>1, <2>2, Bounds
  <2> QED BY <1>1, <1>3, <2>1, <2>2, <2>3, GoodRecord DEF States
<1>5. ~Leasable(r)
    BY <1>3 DEF Leasable
<1>6. UNCHANGED <<now, loop, faults>> /\ Record(j)
    BY DEF Lease
<1> HIDE DEF r, j
<1> QED BY <1>2, <1>4, <1>5, <1>6, JobStep DEF ScheduleInv


-----------------------------------------------------------------------------
(* The steps of the loop, the clock and recovery *)

LEMMA RefusedStep ==
    ASSUME ScheduleInv, NEW q \in Queues, NEW e \in Candidates(q), LeaseRefused(q, e), Watch(0)
    PROVE  ScheduleInv'
<1> USE DEF ScheduleInv
<1>1. now \in Nat /\ faults \in Nat /\ faults + 1 \in Nat /\ faults <= faults + 1
      /\ faults < MaxFaults /\ faults' = faults + 1 /\ faults' \in 0..MaxFaults
    BY Bounds DEF LoopInv, LeaseRefused
<1>2. HeapsInv'
    BY <1>1, RefusedHeaps
<1>3. JobsInv'
  <2>1. job' = job
      BY DEF LeaseRefused
  <2> QED BY <1>1, <2>1, MoreFaults DEF JobsInv
<1>4. loop' = [pc |-> loop.pc, todo |-> loop.todo \ {q}, until |-> loop.until, refused |-> TRUE]
    BY DEF LeaseRefused, LoopInv
<1>5. LoopInv'
    BY <1>1, <1>4, WatchFacts DEF LoopInv, LeaseRefused
<1>6. NoticeInv'
    BY <1>4 DEF NoticeInv
<1>7. DiskInv'
  <2>1. UNCHANGED <<job, disk, unsaved, recovered>>
      BY DEF LeaseRefused, diskVars
  <2> QED BY <1>1, <2>1, MoreFaults DEF DiskInv
<1> QED BY <1>2, <1>3, <1>5, <1>6, <1>7

\* So does a Lease that finds nothing.
LEMMA NothingStep ==
    ASSUME ScheduleInv, NEW q \in Queues, LeaseNothing(q), Watch(0)
    PROVE  ScheduleInv'
<1> USE DEF ScheduleInv
<1>1. now \in Nat
    BY Bounds DEF LoopInv
<1>2. HeapsInv' /\ \A e \in Keys(job, q) : e.eligibleAt > now
    BY <1>1, NothingHeaps DEF HeapsInv
<1>3. UNCHANGED <<now, job, disk, unsaved, recovered, faults>>
    BY DEF LeaseNothing, diskVars
<1>4. JobsInv' /\ DiskInv'
    BY <1>3 DEF JobsInv, DiskInv
<1>5. loop' = [pc |-> loop.pc, todo |-> loop.todo \ {q}, until |-> loop.until, refused |-> loop.refused]
    BY DEF LeaseNothing, LoopInv
<1>6. LoopInv'
    BY <1>3, <1>5, WatchFacts DEF LoopInv
<1>7. NoticeInv'
  <2> SUFFICES ASSUME ~loop.refused, NEW j \in Jobs, Eligible(j), job[j].queue \in Served
               PROVE  /\ loop.pc = "pass" /\ job[j].queue \notin loop.todo \ {q} => waited'[j] = 0
                      /\ loop.pc = "sleep" => waited'[j] + (loop.until - now) <= DispatchTick
      BY <1>3, <1>5 DEF NoticeInv, Eligible
  <2>1. CASE job[j].queue # q
    <3>1. /\ loop.pc = "pass" /\ job[j].queue \notin loop.todo => waited[j] = 0
          /\ loop.pc = "sleep" => waited[j] + (loop.until - now) <= DispatchTick
        BY DEF NoticeInv
    <3>2. waited[j] \in Nat /\ waited'[j] \in Nat /\ waited'[j] <= waited[j] + 0
        BY WatchFacts
    <3>3. loop.until - now \in Int /\ DispatchTick \in Int
        BY Bounds DEF LoopInv
    <3> QED BY <2>1, <3>1, <3>2, <3>3
  <2>2. CASE job[j].queue = q
    <3>1. Entry(j, job[j]) \in Keys(job, q)
        BY <2>2 DEF Keys, Eligible
    <3>2. job[j].eligibleAt > now
        BY <1>2, <3>1 DEF Entry
    <3>3. job[j].eligibleAt \in Nat
        BY DEF JobsInv, GoodJob, JobRec
    <3> QED BY <1>1, <3>2, <3>3 DEF Eligible
  <2> QED BY <2>1, <2>2
<1> QED BY <1>2, <1>4, <1>6, <1>7

\* So does a restart.
LEMMA RestartStep ==
    ASSUME ScheduleInv, NEW t \in 0..MaxTime, Restart(t), Watch(0)
    PROVE  ScheduleInv'
<1> USE DEF ScheduleInv
<1>1. /\ now' = t /\ disk' = disk /\ unsaved' = 0
      /\ recovered' = {j \in Jobs : disk[j].state = "Leased"}
      /\ job' = [j \in Jobs |-> IF disk[j].state = "Leased"
                   THEN [disk[j] EXCEPT !.state = "RetryWait", !.eligibleAt = t] ELSE disk[j]]
      /\ loop' = [pc |-> "pass", todo |-> Served, until |-> t, refused |-> FALSE]
    BY DEF Restart
<1>2. faults \in Nat /\ faults + 1 \in Nat /\ faults <= faults + 1 /\ faults' = faults + 1
      /\ faults' \in 0..MaxFaults /\ t \in Int
  <2>1. faults < MaxFaults /\ faults' = faults + 1
      BY DEF Restart
  <2> QED BY <2>1, Bounds DEF LoopInv
<1>3. HeapsInv'
    BY RestartHeaps
<1>4. \A j \in Jobs : GoodJob(disk[j], faults) /\ GoodJob(disk[j], faults + 1)
    BY <1>2, MoreFaults DEF DiskInv
<1>5. \A j \in Jobs : /\ GoodJob(job'[j], faults + 1)
                      /\ disk[j].state = "Leased" => job'[j].state = "RetryWait"
    BY <1>1, <1>2, <1>4, LeaseAndBack
<1>6. JobsInv'
    BY <1>1, <1>2, <1>5 DEF JobsInv
<1>7. DiskInv'
  <2>1. recovered' \subseteq {j \in Jobs : job'[j].state = "RetryWait"}
      BY <1>1, <1>5
  <2>2. disk' = disk /\ disk = [j \in Jobs |-> disk[j]]
      BY <1>1 DEF DiskInv
  <2>4. \A j \in Jobs : GoodJob(disk[j], faults')
    <3>1. faults' = faults + 1
        BY <1>2
    <3> QED BY <1>4, <3>1, Zenon
  <2>3. unsaved' \in 0..MaxLost
    <3>1. 0 \in 0..MaxLost
        BY Bounds
    <3> QED BY <1>1, <3>1, Zenon
  <2> QED BY <2>1, <2>2, <2>3, <2>4 DEF DiskInv
<1>8. LoopInv'
  <2>1. loop' \in [pc : {"pass", "sleep"}, todo : SUBSET Served, until : Int, refused : BOOLEAN]
      BY <1>1, <1>2, Zenon
  <2> QED BY <1>1, <1>2, <2>1, WatchFacts DEF LoopInv
<1>9. NoticeInv'
    BY <1>1 DEF NoticeInv
<1> QED BY <1>3, <1>6, <1>7, <1>8, <1>9

\* So does the loop when it wakes.
LEMMA WakeStep ==
    ASSUME ScheduleInv, Wake, Watch(0)
    PROVE  ScheduleInv'
<1> USE DEF ScheduleInv
<1>1. loop' = [pc |-> "pass", todo |-> Served, until |-> now, refused |-> FALSE] /\ now \in Int
    BY Bounds DEF Wake, LoopInv
<1>2. UNCHANGED <<now, job, ready, delayed, disk, unsaved, recovered, faults>>
    BY DEF Wake, diskVars
<1>3. HeapsInv' /\ JobsInv' /\ DiskInv'
    BY <1>2, SameHeaps DEF JobsInv, DiskInv
<1>4. LoopInv'
    BY <1>1, <1>2, WatchFacts DEF LoopInv
<1>5. NoticeInv'
    BY <1>1 DEF NoticeInv
<1> QED BY <1>3, <1>4, <1>5

\* So do records that reach the disk.
LEMMA FlushStep ==
    ASSUME ScheduleInv, Flush, Watch(0)
    PROVE  ScheduleInv'
<1> USE DEF ScheduleInv
<1>1. UNCHANGED <<now, job, ready, delayed, loop, recovered, faults>> /\ unsaved' = 0
    BY DEF Flush
<1>2. disk' = [j \in Jobs |-> IF j \in recovered THEN [job[j] EXCEPT !.state = "Leased"] ELSE job[j]]
    BY DEF Flush
<1>3. HeapsInv' /\ JobsInv'
    BY <1>1, SameHeaps DEF JobsInv
<1>4. DiskInv'
  <2>1. faults \in Nat
      BY Bounds DEF LoopInv
  <2>2. \A j \in Jobs : GoodJob(disk'[j], faults)
      BY <1>2, <2>1, LeaseAndBack DEF JobsInv
  <2> QED BY <1>1, <1>2, <2>2, Bounds DEF DiskInv
<1>5. LoopInv'
    BY <1>1, WatchFacts DEF LoopInv
<1>6. NoticeInv'
    BY <1>1, NoticeKept
<1> QED BY <1>3, <1>4, <1>5, <1>6

\* The loop sleeps for at least one unit of time and at most for the tick.
LEMMA SleepForFacts ==
    ASSUME ScheduleInv
    PROVE  SleepFor \in 1..DispatchTick
<1> DEFINE soonest == CHOOSE d \in Deadlines : \A e \in Deadlines : d <= e
<1>1. now \in Nat
    BY Bounds DEF ScheduleInv, LoopInv
<1>2. Deadlines \subseteq Nat
  <2> SUFFICES ASSUME NEW q \in Queues, NEW e \in BagToSet(delayed[q]) PROVE e.eligibleAt \in Nat
      BY DEF Deadlines
  <2>1. e \in InDelayed(q)
      BY BagFacts DEF ScheduleInv, HeapsInv
  <2> QED BY <1>1, <2>1, EntryFacts DEF ScheduleInv
<1>3. ASSUME Deadlines # {} PROVE soonest \in Nat
  <2>1. \E d \in Deadlines : \A e \in Deadlines : ~(<<e, d>> \in OpToRel(<, Nat))
      BY <1>2, <1>3, NatLessThanWellFounded, WFMin
  <2>2. \E d \in Deadlines : \A e \in Deadlines : d <= e
    <3>1. \A d, e \in Nat : ~(<<e, d>> \in OpToRel(<, Nat)) => d <= e
        BY DEF OpToRel
    <3> QED BY <1>2, <2>1, <3>1
  <2>3. soonest \in Deadlines
      BY <2>2
  <2> QED BY <1>2, <2>3
<1> HIDE DEF soonest
<1>4. SleepFor = IF Deadlines # {} /\ soonest > now /\ soonest - now < DispatchTick
                 THEN soonest - now ELSE DispatchTick
    BY DEF SleepFor, soonest
<1> QED BY <1>1, <1>3, <1>4, Bounds

\* So does the loop when it goes to sleep.
LEMMA SleepStep ==
    ASSUME ScheduleInv, Sleep, Watch(0)
    PROVE  ScheduleInv'
<1>1. PICK n \in 1..DispatchTick : n = SleepFor
    BY SleepForFacts
<1> USE DEF ScheduleInv
<1>2. loop' = [pc |-> "sleep", todo |-> loop.todo, until |-> now + n, refused |-> loop.refused]
    BY <1>1 DEF Sleep, LoopInv
<1>3. UNCHANGED <<now, job, ready, delayed, disk, unsaved, recovered, faults>>
    BY DEF Sleep, diskVars
<1>4. HeapsInv' /\ JobsInv' /\ DiskInv'
    BY <1>3, SameHeaps DEF JobsInv, DiskInv
<1>5. now \in Nat /\ DispatchTick \in Nat /\ now + n \in Int /\ (now + n) - now \in 0..DispatchTick
    BY Bounds DEF LoopInv
<1>6. LoopInv'
    BY <1>2, <1>3, <1>5, WatchFacts DEF LoopInv
<1>7. NoticeInv'
  <2> SUFFICES ASSUME ~loop.refused, NEW j \in Jobs, Eligible(j), job[j].queue \in Served
               PROVE  waited'[j] + ((now + n) - now) <= DispatchTick
      BY <1>2, <1>3 DEF NoticeInv, Eligible
  <2>1. waited[j] = 0
      BY DEF NoticeInv, Sleep
  <2>2. waited'[j] \in Nat /\ waited'[j] <= waited[j] + 0
      BY WatchFacts
  <2> QED BY <1>5, <2>1, <2>2
<1> QED BY <1>4, <1>6, <1>7

\* So does the passing of time: a wait that goes on grows by what the timer loses.
LEMMA TimeStep ==
    ASSUME ScheduleInv, TimePasses, Watch(1)
    PROVE  ScheduleInv'
<1> USE DEF ScheduleInv
<1>1. /\ UNCHANGED <<job, ready, delayed, loop, disk, unsaved, recovered, faults>>
      /\ now' = now + 1 /\ loop.pc = "sleep"
    BY DEF TimePasses, diskVars
<1>2. HeapsInv' /\ JobsInv' /\ DiskInv'
    BY <1>1, SameHeaps DEF JobsInv, DiskInv
<1>3. now \in Nat /\ now' \in 0..MaxTime /\ loop.until - now' \in 0..DispatchTick /\ loop.until \in Int
      /\ DispatchTick \in Nat
    BY Bounds DEF LoopInv, TimePasses
<1>4. LoopInv'
    BY <1>1, <1>3, WatchFacts DEF LoopInv
<1>5. NoticeInv'
  <2> SUFFICES ASSUME ~loop.refused, NEW j \in Jobs, job[j].queue \in Served
               PROVE  waited'[j] + (loop.until - now') <= DispatchTick
      BY <1>1 DEF NoticeInv
  <2>1. /\ waited[j] \in Nat /\ waited'[j] \in Nat /\ waited'[j] <= waited[j] + 1
        /\ ~Eligible(j) => waited'[j] = 0
      BY WatchFacts
  <2>2. Eligible(j) => waited[j] + (loop.until - now) <= DispatchTick
      BY <1>1 DEF NoticeInv
  <2> QED BY <1>1, <1>3, <2>1, <2>2
<1> QED BY <1>2, <1>4, <1>5

\* So does a clock that is set, back or ahead: the timer goes with it.
LEMMA ClockStep ==
    ASSUME ScheduleInv, NEW t \in 0..MaxTime, ClockSet(t), Watch(0)
    PROVE  ScheduleInv'
<1> USE DEF ScheduleInv
<1>1. /\ now' = t /\ loop' = [loop EXCEPT !.until = @ + (t - now)]
      /\ UNCHANGED <<job, ready, delayed, disk, unsaved, recovered>>
    BY DEF ClockSet, diskVars
<1>2. /\ loop.until + (t - now) \in Int /\ (loop.until + (t - now)) - t = loop.until - now
    BY Bounds DEF LoopInv
<1>3. loop' = [pc |-> loop.pc, todo |-> loop.todo, until |-> loop.until + (t - now),
               refused |-> loop.refused]
    BY <1>1 DEF LoopInv
<1>4. faults \in Nat /\ faults + 1 \in Nat /\ faults <= faults + 1
      /\ faults' = faults + 1 /\ faults' \in 0..MaxFaults
    BY Bounds DEF LoopInv, ClockSet
<1>5. HeapsInv'
    BY <1>1, SameHeaps
<1>6. JobsInv' /\ DiskInv'
    BY <1>1, <1>4, MoreFaults DEF JobsInv, DiskInv
<1>7. LoopInv'
    BY <1>1, <1>2, <1>3, <1>4, WatchFacts DEF LoopInv
<1>8. NoticeInv'
    BY <1>1, <1>2, <1>3, NoticeKept
<1> QED BY <1>5, <1>6, <1>7, <1>8


-----------------------------------------------------------------------------
(* The theorems *)

LEMMA ScheduleNext == ScheduleInv /\ [Next]_vars => ScheduleInv'
<1> SUFFICES ASSUME ScheduleInv, [Next]_vars PROVE ScheduleInv'
    OBVIOUS
<1>1. CASE Instant /\ Watch(0)
  <2>1. ASSUME NEW j \in Jobs, NEW m \in Requests, Submit(j, m)
        PROVE  ScheduleInv'
      BY <1>1, <2>1, SubmitStep
  <2>2. ASSUME NEW j \in Jobs, Ack(j) \/ DeadLetter(j) \/ ReplayJob(j)
        PROVE  ScheduleInv'
      BY <1>1, <2>2, AckStep, DeadLetterStep, ReplayStep
  <2>3. ASSUME NEW j \in Jobs, NEW d \in Delays(job[j].attempt, BackoffBase, BackoffCap), Retry(j, d)
        PROVE  ScheduleInv'
      BY <1>1, <2>3, RetryStep
  <2>4. ASSUME NEW q \in Queues, LeaseNothing(q)
        PROVE  ScheduleInv'
      BY <1>1, <2>4, NothingStep
  <2>5. ASSUME NEW q \in Queues, NEW e \in Candidates(q), Lease(q, e) \/ LeaseRefused(q, e)
        PROVE  ScheduleInv'
      BY <1>1, <2>5, LeaseStep, RefusedStep
  <2>6. CASE Wake \/ Sleep \/ Flush
      BY <1>1, <2>6, WakeStep, SleepStep, FlushStep
  <2>7. ASSUME NEW t \in 0..MaxTime, ClockSet(t) \/ Restart(t)
        PROVE  ScheduleInv'
      BY <1>1, <2>7, ClockStep, RestartStep
  <2> QED BY <1>1, <2>1, <2>2, <2>3, <2>4, <2>5, <2>6, <2>7 DEF Instant
<1>2. CASE TimePasses /\ Watch(1)
    BY <1>2, TimeStep
<1>3. CASE UNCHANGED vars
  <2>1. UNCHANGED <<now, job, ready, delayed, loop, disk, unsaved, recovered, waited, faults>>
      BY <1>3 DEF vars, diskVars
  <2>2. HeapsInv'
      BY <2>1, SameHeaps DEF ScheduleInv
  <2> QED BY <2>1, <2>2 DEF ScheduleInv, JobsInv, DiskInv, LoopInv, NoticeInv, Eligible
<1> QED BY <1>1, <1>2, <1>3 DEF Next

\* The invariant of the index, the jobs, the loop and the clock, for any numbers
\* of jobs, queues, retries and faults.
THEOREM ScheduleInvHolds == Spec => []ScheduleInv
    BY ScheduleInit, ScheduleNext, PTL DEF Spec

\* The shape of the state: no time lies further ahead of the last moment the clock
\* can show than a delay, no attempt counter is above the budget by more than one
\* and one per fault, and the timer is never more than a tick ahead (SchedTypeOK).
THEOREM ScheduleTypeCorrect == Spec => []SchedTypeOK
    BY ScheduleInvHolds, InvImplies, PTL

\* The heaps of a queue hold the current key of every job that may be leased,
\* once, and nothing else, whatever a restart loses and however the clock is set
\* (EntriesExact).
THEOREM IndexIsExact == Spec => []EntriesExact
    BY ScheduleInvHolds, InvImplies, PTL

\* A sleeping loop leaves no eligible job of a served queue alone for longer than
\* the tick, in elapsed time, however the wall clock is set (NoticedWithinTick).
THEOREM NoticedInTime == Spec => []NoticedWithinTick
    BY ScheduleInvHolds, InvImplies, PTL

\* Only Lease leases, and what it takes precedes all that may run.
LEMMA LeasesTheBest ==
    ASSUME ScheduleInv, [Next]_vars, NEW j \in Jobs,
           job[j].state # "Leased", job'[j].state = "Leased"
    PROVE  /\ Eligible(j)
           /\ \A k \in Jobs \ {j} : Eligible(k) /\ job[k].queue = job[j].queue => Before(j, k)
<1>1. now \in Nat /\ faults \in Nat
    BY Bounds DEF ScheduleInv, LoopInv
<1>2. ASSUME NEW k \in Jobs, NEW r, r.state # "Leased", job' = [job EXCEPT ![k] = r]
      PROVE  FALSE
    BY <1>2 DEF ScheduleInv, JobsInv
<1>3. ASSUME NEW k \in Jobs, NEW m \in Requests, Submit(k, m)
      PROVE  FALSE
    BY <1>2, <1>3 DEF Submit
<1>4. ASSUME NEW k \in Jobs, Ack(k) \/ DeadLetter(k) \/ ReplayJob(k)
                             \/ \E d \in Delays(job[k].attempt, BackoffBase, BackoffCap) : Retry(k, d)
      PROVE  FALSE
  <2> DEFINE new(s, e, a) == [state |-> s, queue |-> job[k].queue, priority |-> job[k].priority,
                              enqueuedAt |-> job[k].enqueuedAt, eligibleAt |-> e, attempt |-> a]
  <2>1. job'[k].state # "Leased"
    <3>1. CASE Ack(k)
      <4>1. job' = [job EXCEPT ![k] = [job[k] EXCEPT !.state = "Done"]]
          BY <3>1 DEF Ack, ScheduleInv, JobsInv
      <4>2. job'[k] = [job[k] EXCEPT !.state = "Done"]
          BY <4>1 DEF ScheduleInv, JobsInv
      <4>3. job'[k] = new("Done", job[k].eligibleAt, job[k].attempt)
          BY <4>2, Assigned, Zenon DEF ScheduleInv
      <4> QED BY <4>3
    <3>2. CASE DeadLetter(k)
      <4>1. job' = [job EXCEPT ![k] = [job[k] EXCEPT !.state = "DeadLetter", !.eligibleAt = now]]
          BY <3>2 DEF DeadLetter, ScheduleInv, JobsInv
      <4>2. job'[k] = [job[k] EXCEPT !.state = "DeadLetter", !.eligibleAt = now]
          BY <4>1 DEF ScheduleInv, JobsInv
      <4>3. job'[k] = new("DeadLetter", now, job[k].attempt)
          BY <4>2, Assigned, Zenon DEF ScheduleInv
      <4> QED BY <4>3
    <3>3. CASE ReplayJob(k)
      <4>1. job'[k] = [job[k] EXCEPT !.state = "Pending", !.eligibleAt = now, !.attempt = 0]
          BY <3>3 DEF ReplayJob, ScheduleInv, JobsInv
      <4>2. [job[k] EXCEPT !.state = "Pending", !.eligibleAt = now] = new("Pending", now, job[k].attempt)
          BY Assigned, Zenon DEF ScheduleInv
      <4>3. job'[k] = [new("Pending", now, job[k].attempt) EXCEPT !.attempt = 0]
          BY <4>1, <4>2, Zenon
      <4> QED BY <4>3
    <3>4. ASSUME NEW d \in Delays(job[k].attempt, BackoffBase, BackoffCap), Retry(k, d)
          PROVE  job'[k].state # "Leased"
      <4>1. job'[k] = [job[k] EXCEPT !.state = "RetryWait", !.eligibleAt = now + d]
          BY <3>4 DEF Retry, ScheduleInv, JobsInv
      <4>2. job'[k] = new("RetryWait", now + d, job[k].attempt)
          BY <4>1, Assigned, Zenon DEF ScheduleInv
      <4> QED BY <4>2
    <3> QED BY <1>4, <3>1, <3>2, <3>3, <3>4
  <2>2. \A i \in Jobs \ {k} : job'[i] = job[i]
    <3>1. CASE Ack(k) \/ DeadLetter(k)
        BY <3>1 DEF Ack, DeadLetter, ScheduleInv, JobsInv
    <3>2. CASE ReplayJob(k)
        BY <3>2 DEF ReplayJob, ScheduleInv, JobsInv
    <3>3. CASE \E d \in Delays(job[k].attempt, BackoffBase, BackoffCap) : Retry(k, d)
        BY <3>3 DEF Retry, ScheduleInv, JobsInv
    <3> QED BY <1>4, <3>1, <3>2, <3>3
  <2> QED BY <2>1, <2>2
<1>5. ASSUME NEW t \in 0..MaxTime, Restart(t) PROVE FALSE
  <2>1. job'[j] = IF disk[j].state = "Leased"
                  THEN [disk[j] EXCEPT !.state = "RetryWait", !.eligibleAt = t] ELSE disk[j]
      BY <1>5 DEF Restart
  <2>2. GoodJob(disk[j], faults)
      BY DEF ScheduleInv, DiskInv
  <2>3. job'[j].state # "Leased"
      BY <1>1, <2>1, <2>2, LeaseAndBack
  <2> QED BY <2>3
<1>6. CASE UNCHANGED job
    BY <1>6
<1>7. ASSUME NEW q \in Queues, NEW e \in Candidates(q), Lease(q, e)
      PROVE  /\ Eligible(j)
             /\ \A k \in Jobs \ {j} : Eligible(k) /\ job[k].queue = job[j].queue => Before(j, k)
  <2>1. /\ e.id \in Jobs /\ job[e.id].queue = q /\ Runs(e) /\ e = Entry(e.id, job[e.id])
        /\ job' = [job EXCEPT ![e.id] = [job[e.id] EXCEPT !.state = "Leased", !.attempt = @ + 1]]
      BY <1>1, <1>7, LeaseHeaps DEF ScheduleInv
  <2>2. e.id = j
    <3>1. \A i \in Jobs \ {e.id} : job'[i] = job[i]
        BY <2>1 DEF ScheduleInv, JobsInv
    <3> QED BY <3>1
  <2>3. Eligible(j)
      BY <2>1, <2>2 DEF Eligible, Runs, Valid
  <2>4. ASSUME NEW k \in Jobs \ {j}, Eligible(k), job[k].queue = q PROVE Before(j, k)
    <3> DEFINE f == Entry(k, job[k])
    <3>1. f \in InReady(q) \cup InDelayed(q)
        BY <2>4 DEF ScheduleInv, HeapsInv, Keys, Eligible
    <3>2. f.id = k /\ f.eligibleAt = job[k].eligibleAt /\ f.eligibleAt <= now
        BY <2>4 DEF Entry, Eligible
    <3>3. f \in Poppable(q) /\ Runs(f)
        BY <1>1, <3>1, <3>2, EntryFacts DEF Poppable, Due, ScheduleInv
    <3>4. f \in Candidates(q)
        BY <3>3, PromoteFacts DEF ScheduleInv
    <3>5. Less(e, f)
        BY <1>7, <2>2, <3>2, <3>4 DEF Lease, Take
    <3> QED BY <2>1, <2>2, <3>5 DEF Less, Before, Entry
  <2> QED BY <2>1, <2>2, <2>3, <2>4
<1> QED BY <1>3, <1>4, <1>5, <1>6, <1>7
        DEF Next, Instant, vars, LeaseNothing, LeaseRefused, Wake, Sleep, Flush, TimePasses, ClockSet

\* What a step leases may run, and no eligible job of its queue comes before it
\* (BestFirst).
THEOREM BestJobFirst == Spec => BestFirst
<1>1. ScheduleInv /\ [Next]_vars =>
        [\A j \in Jobs : job[j].state # "Leased" /\ job'[j].state = "Leased" =>
           /\ Eligible(j)
           /\ \A k \in Jobs \ {j} : Eligible(k) /\ job[k].queue = job[j].queue => Before(j, k)]_vars
    BY LeasesTheBest
<1> QED BY <1>1, ScheduleInvHolds, PTL DEF Spec, BestFirst

=============================================================================
