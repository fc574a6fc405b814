----------------------------- MODULE WalProofs -----------------------------
(***************************************************************************)
(* Proofs about Wal: what a caller is told is on disk, nobody is left      *)
(* waiting, and the log keeps the contract of DurableLog.                  *)
(***************************************************************************)
EXTENDS Wal, SequenceTheorems, FiniteSetTheorems, WellFoundedInduction, TLAPS

Segment == [base : Nat \ {0}, recs : Seq(0..MaxAppends), synced : Nat]

PCs == {"idle", "off", "rotate", "frame", "commit", "wait", "take", "drain", "rlock", "fsync"}

\* The segment files.
FilesInv ==
    /\ segs \in Seq(Segment)
    /\ Len(segs) > 0
    /\ \A k \in 1..Len(segs) : segs[k].synced <= Len(segs[k].recs)

\* The types of the files and of the numbers.
DiskInv ==
    /\ FilesInv
    /\ buf \in Seq(1..MaxAppends)
    /\ activeSize \in Nat
    /\ nextLSN \in Nat \ {0}
    /\ lsnOf \in Seq(Nat \ {0})
    /\ Len(lsnOf) <= MaxAppends
    /\ confirmed \subseteq 1..Len(lsnOf)
    /\ claimed \in Nat
    /\ closed \in BOOLEAN /\ broken \in BOOLEAN /\ up \in BOOLEAN /\ damaged \in BOOLEAN

\* Who holds w.mu, who waits and who serves.  A rotation keeps w.mu with an
\* empty buffer, and every caller in the queue has a flushLoop.
LockInv ==
    /\ rotator \in Procs \cup {None}
    /\ waiters \subseteq Procs
    /\ batch \subseteq Procs
    /\ running \in BOOLEAN
    /\ pc \in [Threads -> PCs]
    /\ rec \in [Threads -> 0..MaxAppends]
    /\ target \in [Threads -> Nat]
    /\ mark \in [Threads -> Nat]
    /\ pc[Flusher] \in {"off", "take", "drain", "rlock", "fsync"}
    /\ \A p \in Procs : /\ pc[p] \notin {"off", "take"}
                        /\ pc[p] \in {"rotate", "frame"} <=> rotator = p
                        /\ pc[p] = "wait" <=> p \in waiters \cup batch
    /\ rotator # None => Len(lsnOf) < MaxAppends /\ buf = <<>>
    /\ waiters \cap batch = {}
    /\ running <=> pc[Flusher] # "off"
    /\ waiters # {} => running
    /\ batch # {} => pc[Flusher] \in {"drain", "rlock", "fsync"}
    /\ ~up => buf = <<>> /\ \A t \in Threads : pc[t] \in {"idle", "off"}

\* The segments by number: the first LSN, the number of entries, of flushed and
\* of readable ones, and the entries of segment k.  Top is the active one.
Top          == Len(segs)
Base(k)      == segs[k].base
Size(k)      == Len(segs[k].recs)
Synced(k)    == segs[k].synced
Valid(k)     == ValidLen(segs[k].recs)
Entry(k, i)  == segs[k].recs[i]

\* Whatever happened to the file, a record is never found before the place of
\* its LSN, and its LSN lies below the segments that follow.
BasesInv == \A k, l \in 1..Top : k < l => Base(k) <= Base(l)

EntriesInv ==
    \A k \in 1..Top : \A i \in 1..Size(k) : Entry(k, i) # Torn =>
        /\ Entry(k, i) <= Len(lsnOf)
        /\ lsnOf[Entry(k, i)] <= Base(k) + i - 1
        /\ \A l \in 1..Top : k < l => lsnOf[Entry(k, i)] < Base(l)
        /\ up => lsnOf[Entry(k, i)] < nextLSN

BufferInv ==
    \A i \in 1..Len(buf) :
        /\ buf[i] <= Len(lsnOf)
        /\ lsnOf[buf[i]] < nextLSN
        /\ lsnOf[buf[i]] <= Base(Top) + Size(Top) + i - 1

NextInv ==
    up => Base(Top) <= nextLSN /\ nextLSN <= Base(Top) + Size(Top) + Len(buf)

PlaceInv == BasesInv /\ EntriesInv /\ BufferInv /\ NextInv

\* In an undamaged log every record is at the place of its LSN: the segments
\* follow one another without a gap, all but the last are flushed, and a torn
\* record is only found at the very end before Open.
ExactEntries ==
    \A k \in 1..Top : \A i \in 1..Size(k) :
        /\ Entry(k, i) = Torn => ~up /\ k = Top /\ i = Size(k)
        /\ Entry(k, i) # Torn => lsnOf[Entry(k, i)] = Base(k) + i - 1

ExactSegments ==
    \A k \in 1..Top : k < Top => /\ Synced(k) = Size(k)
                                /\ Base(k + 1) = Base(k) + Size(k)

ExactBuffer == \A i \in 1..Len(buf) : lsnOf[buf[i]] = Base(Top) + Size(Top) + i - 1

ExactNext ==
    /\ up => nextLSN = Base(Top) + Size(Top) + Len(buf)
    /\ ~up => Base(Top) + Valid(Top) <= nextLSN

ExactInv == ~damaged => ExactEntries /\ ExactSegments /\ ExactBuffer /\ ExactNext

Told(t) == IF t = Flusher THEN batch ELSE {t}

\* A goroutine that will be told about its record.
Expects(p) == pc[p] \in {"commit", "wait", "drain", "rlock", "fsync"}

\* A flush covers the records of the callers it will answer, and began after
\* they were written.
FlushInv ==
    /\ \A p \in Procs : Expects(p) => rec[p] \in 1..Len(lsnOf) /\ lsnOf[rec[p]] < nextLSN
    /\ \A t \in Threads : pc[t] \in {"rlock", "fsync"} =>
         /\ target[t] < nextLSN
         /\ \A p \in Told(t) : lsnOf[rec[p]] <= target[t]
    /\ \A t \in Threads : pc[t] = "fsync" => mark[t] <= Size(Top)
    /\ up => claimed < nextLSN

\* Record r is in a segment.
Written(r) == \E k \in 1..Top : \E i \in 1..Size(k) : Entry(k, i) = r

Buffered(r) == \E i \in 1..Len(buf) : buf[i] = r

\* In an undamaged log the record of a caller that expects an answer is in the
\* files or in the buffer, and what a flush covers is in the files before it.
CoverInv ==
    ~damaged =>
      /\ \A p \in Procs : Expects(p) =>
            lsnOf[rec[p]] < Base(1) \/ Written(rec[p]) \/ Buffered(rec[p])
      /\ \A t \in Threads :
            /\ pc[t] = "rlock" => target[t] < Base(Top) + Size(Top)
            /\ pc[t] = "fsync" => target[t] < Base(Top) + mark[t]
      /\ claimed < Base(Top) + Synced(Top)

\* The inductive invariant.
WalInv == DiskInv /\ LockInv /\ PlaceInv /\ ExactInv /\ FlushInv /\ CoverInv

-----------------------------------------------------------------------------
(* Lemmas about the operators *)

USE DEF Torn

\* The bounds are numbers.
LEMMA Bounds ==
    /\ MaxSegmentSize \in Nat /\ MaxAppends \in Nat /\ MaxFaults \in Nat /\ MaxCrashes \in Nat
    /\ Flusher \notin Procs /\ None \notin Procs /\ None # Flusher
BY WalBoundsAssumption, FlusherAssumption

\* A set of numbers that is not empty has a least element.
LEMMA NatMin ==
    ASSUME NEW S, S \subseteq Nat, S # {}
    PROVE  /\ Min(S) \in S /\ \A x \in S : Min(S) <= x
<1>1. \E x \in S : \A y \in S : ~(<<y, x>> \in OpToRel(<, Nat))
    BY NatLessThanWellFounded, WFMin
<1>2. \A x, y \in Nat : ~(<<y, x>> \in OpToRel(<, Nat)) => x <= y
    BY DEF OpToRel
<1>3. \E x \in S : \A y \in S : x <= y
    BY <1>1, <1>2
<1> QED BY <1>3 DEF Min

\* scanRecords: the entries before the first torn one.
LEMMA ValidLenFacts ==
    ASSUME NEW s \in Seq(Nat)
    PROVE  /\ ValidLen(s) \in Nat /\ ValidLen(s) <= Len(s)
           /\ \A i \in 1..ValidLen(s) : s[i] # Torn
           /\ ValidLen(s) < Len(s) => s[ValidLen(s) + 1] = Torn
<1> DEFINE I == {i \in 1..Len(s) : s[i] = Torn}
<1>1. SelectInSeq(s, LAMBDA r : r = Torn) = IF I # {} THEN Min(I) ELSE 0
    BY DEF SelectInSeq
<1>2. I \subseteq Nat
    OBVIOUS
<1>3. I # {} => Min(I) \in I /\ \A x \in I : Min(I) <= x
    BY <1>2, NatMin
<1> DEFINE first == SelectInSeq(s, LAMBDA r : r = Torn)
<1>4. ValidLen(s) = IF first = 0 THEN Len(s) ELSE first - 1
    BY DEF ValidLen
<1>5. first = IF I # {} THEN Min(I) ELSE 0
    BY <1>1
<1> HIDE DEF I, first
<1>6. CASE I = {}
    BY <1>4, <1>5, <1>6 DEF I
<1>7. CASE I # {}
  <2>1. first \in 1..Len(s) /\ s[first] = Torn /\ \A x \in 1..Len(s) : s[x] = Torn => first <= x
      BY <1>3, <1>5, <1>7 DEF I
  <2> QED BY <1>4, <2>1
<1> QED BY <1>6, <1>7

\* An entry is readable when no entry up to it is torn.
LEMMA ValidLenIff ==
    ASSUME NEW s \in Seq(Nat), NEW i \in 1..Len(s)
    PROVE  i <= ValidLen(s) <=> \A j \in 1..i : s[j] # Torn
<1> DEFINE v == ValidLen(s)
<1>1. /\ v \in Nat /\ v <= Len(s)
      /\ \A j \in 1..v : s[j] # Torn
      /\ v < Len(s) => s[v + 1] = Torn
    BY ValidLenFacts
<1> HIDE DEF v
<1>2. i <= v => \A j \in 1..i : s[j] # Torn
    BY <1>1
<1>3. i > v => v + 1 \in 1..i /\ s[v + 1] = Torn
    BY <1>1
<1> QED BY <1>1, <1>2, <1>3 DEF v

\* Nothing is torn: the whole file is readable.
LEMMA ValidLenWhole ==
    ASSUME NEW s \in Seq(Nat), \A i \in 1..Len(s) : s[i] # Torn
    PROVE  ValidLen(s) = Len(s)
<1>1. /\ ValidLen(s) \in Nat /\ ValidLen(s) <= Len(s)
      /\ ValidLen(s) < Len(s) => s[ValidLen(s) + 1] = Torn
    BY ValidLenFacts
<1> QED BY <1>1

-----------------------------------------------------------------------------
(* What the steps do to the files *)

\* The active segment now holds the entries R, of which Y are flushed.
Became(R, Y) ==
    segs' = [segs EXCEPT ![Len(segs)] = [base |-> Active.base, recs |-> R, synced |-> Y]]

\* The active segment is a well-formed one.
LEMMA ActiveFacts ==
    ASSUME DiskInv
    PROVE  /\ Len(segs) \in Nat \ {0}
           /\ \A k \in 1..Len(segs) :
                /\ segs[k] \in Segment
                /\ segs[k] = [base |-> segs[k].base, recs |-> segs[k].recs,
                              synced |-> segs[k].synced]
                /\ segs[k].base \in Nat \ {0}
                /\ segs[k].recs \in Seq(0..MaxAppends)
                /\ segs[k].recs \in Seq(Nat)
                /\ Len(segs[k].recs) \in Nat
                /\ \A i \in 1..Len(segs[k].recs) : segs[k].recs[i] \in 0..MaxAppends
                /\ segs[k].synced \in Nat
                /\ segs[k].synced <= Len(segs[k].recs)
           /\ Len(segs) \in 1..Len(segs)
<1>1. Len(segs) \in Nat \ {0} /\ Len(segs) \in 1..Len(segs)
    BY DEF DiskInv, FilesInv
<1>2. ASSUME NEW k \in 1..Len(segs)
      PROVE  /\ segs[k] \in Segment
             /\ segs[k] = [base |-> segs[k].base, recs |-> segs[k].recs,
                           synced |-> segs[k].synced]
             /\ segs[k].base \in Nat \ {0}
             /\ segs[k].recs \in Seq(0..MaxAppends)
             /\ segs[k].synced \in Nat
             /\ segs[k].synced <= Len(segs[k].recs)
  <2>1. segs[k] \in Segment /\ segs[k].synced <= Len(segs[k].recs)
      BY <1>2, ElementOfSeq DEF DiskInv, FilesInv
  <2>2. \A s \in Segment : /\ s = [base |-> s.base, recs |-> s.recs, synced |-> s.synced]
                           /\ s.base \in Nat \ {0}
                           /\ s.recs \in Seq(0..MaxAppends)
                           /\ s.synced \in Nat
      BY DEF Segment
  <2> QED BY <2>1, <2>2
<1>3. ASSUME NEW s \in Seq(0..MaxAppends)
      PROVE  s \in Seq(Nat) /\ Len(s) \in Nat /\ \A i \in 1..Len(s) : s[i] \in 0..MaxAppends
    BY Bounds
<1> QED BY <1>1, <1>2, <1>3

\* A step that replaces the active segment leaves the others alone.
LEMMA BecameFacts ==
    ASSUME DiskInv, NEW R \in Seq(0..MaxAppends), NEW Y \in Nat, Y <= Len(R), Became(R, Y)
    PROVE  /\ segs' \in Seq(Segment)
           /\ Len(segs') = Len(segs)
           /\ \A k \in 1..Len(segs) : segs'[k].synced <= Len(segs'[k].recs)
           /\ \A k \in 1..Len(segs) : segs'[k].base = segs[k].base
           /\ \A k \in 1..Len(segs) : k # Len(segs) => segs'[k] = segs[k]
           /\ segs'[Len(segs)].recs = R
           /\ segs'[Len(segs)].synced = Y
           /\ Active'.base = Active.base /\ Active'.recs = R /\ Active'.synced = Y
<1> DEFINE s == [base |-> Active.base, recs |-> R, synced |-> Y]
<1>1. s \in Segment
    BY ActiveFacts DEF Segment, Active
<1>2. segs \in Seq(Segment) /\ Len(segs) \in 1..Len(segs) /\ segs' = [segs EXCEPT ![Len(segs)] = s]
    BY ActiveFacts DEF DiskInv, FilesInv, Became
<1>3. s.base = Active.base /\ s.recs = R /\ s.synced = Y
    OBVIOUS
<1> HIDE DEF s
<1>4. /\ segs' \in Seq(Segment)
      /\ Len(segs') = Len(segs)
      /\ \A k \in 1..Len(segs) : segs'[k] = IF k = Len(segs) THEN s ELSE segs[k]
    BY <1>1, <1>2, ExceptSeq
<1> QED BY <1>2, <1>3, <1>4, ActiveFacts DEF Active

\* The forms in which the actions change the active segment.
LEMMA SetRecs ==
    ASSUME DiskInv, NEW R, segs' = [segs EXCEPT ![Len(segs)].recs = R]
    PROVE  Became(R, Active.synced)
<1>1. Active = [base |-> Active.base, recs |-> Active.recs, synced |-> Active.synced]
    BY ActiveFacts DEF Active
<1>2. [Active EXCEPT !.recs = R] = [base |-> Active.base, recs |-> R, synced |-> Active.synced]
    BY <1>1
<1>3. segs' = [segs EXCEPT ![Len(segs)] = [Active EXCEPT !.recs = R]]
    BY DEF Active
<1> QED BY <1>2, <1>3 DEF Became

\* A flush that changes only the mark leaves the records alone.
LEMMA SetSynced ==
    ASSUME DiskInv, NEW Y, segs' = [segs EXCEPT ![Len(segs)].synced = Y]
    PROVE  Became(Active.recs, Y)
<1>1. Active = [base |-> Active.base, recs |-> Active.recs, synced |-> Active.synced]
    BY ActiveFacts DEF Active
<1>2. [Active EXCEPT !.synced = Y] = [base |-> Active.base, recs |-> Active.recs, synced |-> Y]
    BY <1>1
<1>3. segs' = [segs EXCEPT ![Len(segs)] = [Active EXCEPT !.synced = Y]]
    BY DEF Active
<1> QED BY <1>2, <1>3 DEF Became

\* Every whole record of R comes from the same place of the active segment, or
\* from the buffer laid behind it.
From(R) ==
    /\ R \in Seq(0..MaxAppends)
    /\ \A i \in 1..Len(R) : R[i] # Torn =>
          \/ i <= Len(Active.recs) /\ R[i] = Active.recs[i]
          \/ \E j \in 1..Len(buf) : i = Len(Active.recs) + j /\ R[i] = buf[j]

\* The buffer laid behind the active segment.
LEMMA WrittenRecs ==
    ASSUME DiskInv
    PROVE  LET R == Active.recs \o buf
           IN /\ R \in Seq(0..MaxAppends)
              /\ Len(R) = Len(Active.recs) + Len(buf)
              /\ \A i \in 1..Len(Active.recs) : R[i] = Active.recs[i]
              /\ \A j \in 1..Len(buf) : R[Len(Active.recs) + j] = buf[j]
              /\ From(R)
<1> DEFINE R == Active.recs \o buf
<1>1. Active.recs \in Seq(0..MaxAppends) /\ Len(Active.recs) \in Nat
    BY ActiveFacts DEF Active
<1>2. buf \in Seq(1..MaxAppends) /\ buf \in Seq(0..MaxAppends) /\ Len(buf) \in Nat
  <2>1. 1..MaxAppends \subseteq 0..MaxAppends
      BY Bounds
  <2> QED BY <2>1, SeqMonotonic, LenProperties DEF DiskInv
<1>3. /\ R \in Seq(0..MaxAppends)
      /\ Len(R) = Len(Active.recs) + Len(buf)
      /\ \A i \in 1..Len(Active.recs) + Len(buf) : R[i] =
            IF i <= Len(Active.recs) THEN Active.recs[i] ELSE buf[i - Len(Active.recs)]
    BY <1>1, <1>2, ConcatProperties
<1> HIDE DEF R
<1>4. \A i \in 1..Len(Active.recs) : R[i] = Active.recs[i]
    BY <1>1, <1>2, <1>3
<1>5. ASSUME NEW j \in 1..Len(buf) PROVE R[Len(Active.recs) + j] = buf[j]
  <2> DEFINE i == Len(Active.recs) + j
  <2>1. /\ i \in 1..Len(Active.recs) + Len(buf) /\ ~(i <= Len(Active.recs))
        /\ i - Len(Active.recs) = j
      BY <1>1, <1>2
  <2> HIDE DEF i
  <2>2. R[i] = buf[j]
      BY <1>3, <2>1
  <2> QED BY <2>2 DEF i
<1>6. ASSUME NEW i \in 1..Len(R)
      PROVE  \/ i <= Len(Active.recs) /\ R[i] = Active.recs[i]
             \/ \E j \in 1..Len(buf) : i = Len(Active.recs) + j /\ R[i] = buf[j]
  <2>1. CASE i <= Len(Active.recs)
      BY <1>1, <1>4, <2>1
  <2>2. CASE i > Len(Active.recs)
    <3>1. i - Len(Active.recs) \in 1..Len(buf) /\ i = Len(Active.recs) + (i - Len(Active.recs))
        BY <1>1, <1>2, <1>3, <2>2
    <3> QED BY <1>5, <3>1
  <2> QED BY <1>1, <2>1, <2>2
<1>7. From(R)
    BY <1>3, <1>6 DEF From
<1> QED BY <1>3, <1>4, <1>5, <1>7 DEF R

\* A prefix of the entries, perhaps with a torn one behind it.
LEMMA CutRecs ==
    ASSUME NEW s \in Seq(0..MaxAppends), NEW n \in 0..Len(s), NEW torn \in BOOLEAN
    PROVE  LET R == SubSeq(s, 1, n) \o (IF torn THEN <<Torn>> ELSE <<>>)
           IN /\ R \in Seq(0..MaxAppends)
              /\ Len(R) = IF torn THEN n + 1 ELSE n
              /\ \A i \in 1..n : R[i] = s[i]
              /\ torn => R[n + 1] = Torn
<1> DEFINE P == SubSeq(s, 1, n)
<1> DEFINE T == IF torn THEN <<Torn>> ELSE <<>>
<1>1. P \in Seq(0..MaxAppends) /\ Len(P) = n /\ \A i \in 1..n : P[i] = s[i]
  <2>1. Len(s) \in Nat /\ \A i \in 1..n : s[i] \in 0..MaxAppends
      BY Bounds
  <2> QED BY <2>1, SubSeqProperties
<1>2. T \in Seq(0..MaxAppends) /\ Len(T) = (IF torn THEN 1 ELSE 0) /\ (torn => T[1] = Torn)
  <2>1. 0 \in 0..MaxAppends
      BY Bounds
  <2>2. CASE torn
      BY <2>1, <2>2
  <2>3. CASE ~torn
      BY <2>3
  <2> QED BY <2>2, <2>3
<1>3. Len(s) \in Nat /\ n \in Nat
    BY LenProperties
<1> HIDE DEF P, T
<1>4. /\ P \o T \in Seq(0..MaxAppends)
      /\ Len(P \o T) = Len(P) + Len(T)
      /\ \A i \in 1..Len(P) + Len(T) : (P \o T)[i] = IF i <= Len(P) THEN P[i] ELSE T[i - Len(P)]
    BY <1>1, <1>2, ConcatProperties
<1>5. torn => (P \o T)[n + 1] = Torn
    BY <1>1, <1>2, <1>3, <1>4
<1>6. \A i \in 1..n : (P \o T)[i] = s[i]
    BY <1>1, <1>2, <1>3, <1>4
<1> QED BY <1>1, <1>2, <1>3, <1>4, <1>5, <1>6 DEF P, T

\* The active segment grows by nothing, by the whole buffer or, when a write
\* fails, by a part of it; and no fewer of its entries are flushed.
Extends(R, Y) ==
    /\ Became(R, Y)
    /\ From(R)
    /\ Len(R) >= Len(Active.recs)
    /\ \A i \in 1..Len(Active.recs) : R[i] = Active.recs[i]
    /\ Y \in Nat /\ Y <= Len(R) /\ Y >= Active.synced
    /\ nextLSN' = nextLSN /\ lsnOf' = lsnOf /\ up' = up /\ damaged' \in BOOLEAN
    /\ \/ buf' = buf
       \/ /\ buf' = <<>>
          /\ Len(R) = Len(Active.recs) + Len(buf)
          /\ \A j \in 1..Len(buf) : R[Len(Active.recs) + j] = buf[j]
    /\ ~damaged' => /\ ~damaged
                    /\ Len(R) + Len(buf') = Len(Active.recs) + Len(buf)
                    /\ \A i \in 1..Len(R) : R[i] = Torn => i <= Len(Active.recs)

\* A successful write lays the buffer behind the active segment.
LEMMA WriteExtends ==
    ASSUME DiskInv, NEW Y \in Nat, Became(Active.recs \o buf, Y), buf' = <<>>,
           nextLSN' = nextLSN, lsnOf' = lsnOf, up' = up, damaged' = damaged,
           Y = Active.synced \/ Y = Len(Active.recs) + Len(buf)
    PROVE  Extends(Active.recs \o buf, Y)
<1> DEFINE R == Active.recs \o buf
<1>1. /\ R \in Seq(0..MaxAppends)
      /\ Len(R) = Len(Active.recs) + Len(buf)
      /\ \A i \in 1..Len(Active.recs) : R[i] = Active.recs[i]
      /\ \A j \in 1..Len(buf) : R[Len(Active.recs) + j] = buf[j]
      /\ From(R)
    BY WrittenRecs
<1>2. Became(R, Y)
    OBVIOUS
<1> HIDE DEF R
<1>3. /\ Active.synced \in Nat /\ Active.synced <= Len(Active.recs) /\ Len(Active.recs) \in Nat
      /\ buf \in Seq(1..MaxAppends) /\ damaged \in BOOLEAN
    BY ActiveFacts DEF Active, DiskInv
<1>4. Len(buf) \in Nat /\ \A j \in 1..Len(buf) : buf[j] # Torn
    BY <1>3, Bounds
<1>5. Len(buf') = 0
    OBVIOUS
<1>6. \A i \in 1..Len(R) : R[i] = Torn => i <= Len(Active.recs)
  <2> SUFFICES ASSUME NEW i \in 1..Len(R), ~(i <= Len(Active.recs)) PROVE R[i] # Torn
      OBVIOUS
  <2>1. i - Len(Active.recs) \in 1..Len(buf) /\ i = Len(Active.recs) + (i - Len(Active.recs))
      BY <1>1, <1>3, <1>4
  <2> QED BY <1>1, <1>4, <2>1
<1>7. Extends(R, Y)
    BY <1>1, <1>2, <1>3, <1>4, <1>5, <1>6 DEF Extends
<1> QED BY <1>7 DEF R

\* A flush changes the number of flushed entries only.
LEMMA SyncExtends ==
    ASSUME DiskInv, NEW Y \in Nat, Became(Active.recs, Y), Y >= Active.synced,
           Y <= Len(Active.recs), buf' = buf,
           nextLSN' = nextLSN, lsnOf' = lsnOf, up' = up, damaged' = damaged
    PROVE  Extends(Active.recs, Y)
<1>1. /\ Active.recs \in Seq(0..MaxAppends) /\ Len(Active.recs) \in Nat
      /\ damaged \in BOOLEAN
    BY ActiveFacts DEF Active, DiskInv
<1>2. From(Active.recs)
    BY <1>1 DEF From
<1> QED BY <1>1, <1>2 DEF Extends

\* What a failed write leaves: some whole records and perhaps a torn one.
LEMMA FailedRecs ==
    ASSUME DiskInv, NEW k \in Nat, NEW torn \in BOOLEAN, k <= Len(buf), torn => k < Len(buf)
    PROVE  LET R == Active.recs \o (SubSeq(buf, 1, k) \o (IF torn THEN <<Torn>> ELSE <<>>))
           IN /\ From(R)
              /\ Len(R) \in Nat /\ Len(R) >= Len(Active.recs)
              /\ k = 0 /\ ~torn => Len(R) = Len(Active.recs)
              /\ \A i \in 1..Len(Active.recs) : R[i] = Active.recs[i]
<1> DEFINE a == Active.recs
<1> DEFINE b == SubSeq(buf, 1, k) \o (IF torn THEN <<Torn>> ELSE <<>>)
<1> DEFINE R == a \o b
<1>1. a \in Seq(0..MaxAppends) /\ Len(a) \in Nat
    BY ActiveFacts DEF Active
<1>2. buf \in Seq(0..MaxAppends) /\ Len(buf) \in Nat
  <2>1. 1..MaxAppends \subseteq 0..MaxAppends
      BY Bounds
  <2> QED BY <2>1, SeqMonotonic, LenProperties DEF DiskInv
<1>3. /\ b \in Seq(0..MaxAppends)
      /\ Len(b) = IF torn THEN k + 1 ELSE k
      /\ \A i \in 1..k : b[i] = buf[i]
      /\ torn => b[k + 1] = Torn
  <2>1. k \in 0..Len(buf)
      BY <1>2
  <2> QED BY <1>2, <2>1, CutRecs
<1> HIDE DEF a, b
<1>5. /\ R \in Seq(0..MaxAppends)
      /\ Len(R) = Len(a) + Len(b)
      /\ \A i \in 1..Len(a) + Len(b) : R[i] = IF i <= Len(a) THEN a[i] ELSE b[i - Len(a)]
    BY <1>1, <1>3, ConcatProperties
<1> HIDE DEF R
<1>6. \A i \in 1..Len(a) : R[i] = a[i]
    BY <1>1, <1>3, <1>5
<1>7. ASSUME NEW i \in 1..Len(R), R[i] # Torn, ~(i <= Len(a))
      PROVE  \E j \in 1..Len(buf) : i = Len(a) + j /\ R[i] = buf[j]
  <2> DEFINE j == i - Len(a)
  <2>1. j \in 1..Len(b) /\ i = Len(a) + j /\ R[i] = b[j]
      BY <1>1, <1>3, <1>5, <1>7
  <2> HIDE DEF j
  <2>2. j \in 1..k
      BY <1>3, <1>7, <2>1
  <2>3. j \in 1..Len(buf)
      BY <1>2, <2>2
  <2> QED BY <1>3, <2>1, <2>2, <2>3
<1>8. From(R)
    BY <1>5, <1>6, <1>7 DEF From, a
<1>9. Len(b) \in Nat /\ (k = 0 /\ ~torn => Len(b) = 0)
    BY <1>3
<1>10. Len(R) \in Nat /\ Len(R) >= Len(a) /\ (k = 0 /\ ~torn => Len(R) = Len(a))
    BY <1>1, <1>5, <1>9
<1> QED BY <1>6, <1>8, <1>10 DEF a, b, R

\* What DiskInv says of the numbers the invariants compare.
LEMMA NumberFacts ==
    ASSUME DiskInv
    PROVE  /\ nextLSN \in Nat \ {0}
           /\ Len(buf) \in Nat /\ Len(lsnOf) \in Nat
           /\ \A i \in 1..Len(buf) : buf[i] \in 1..MaxAppends
           /\ \A r \in 1..Len(lsnOf) : lsnOf[r] \in Nat \ {0}
           /\ Active.base \in Nat \ {0} /\ Active.synced \in Nat /\ Len(Active.recs) \in Nat
           /\ Active.recs \in Seq(Nat)
           /\ claimed \in Nat
<1>1. /\ nextLSN \in Nat \ {0} /\ claimed \in Nat
      /\ Len(buf) \in Nat /\ Len(lsnOf) \in Nat
      /\ \A i \in 1..Len(buf) : buf[i] \in 1..MaxAppends
      /\ \A r \in 1..Len(lsnOf) : lsnOf[r] \in Nat \ {0}
  <2>1. buf \in Seq(1..MaxAppends) /\ lsnOf \in Seq(Nat \ {0})
      BY DEF DiskInv
  <2>2. Len(buf) \in Nat /\ Len(lsnOf) \in Nat
      BY <2>1, LenProperties
  <2>3. /\ \A i \in 1..Len(buf) : buf[i] \in 1..MaxAppends
        /\ \A r \in 1..Len(lsnOf) : lsnOf[r] \in Nat \ {0}
      BY <2>1, ElementOfSeq
  <2> QED BY <2>2, <2>3 DEF DiskInv
<1> QED BY <1>1, ActiveFacts DEF Active

\* A failed write adds a prefix of the buffer and perhaps a torn record.
LEMMA WriteFailsExtends ==
    ASSUME DiskInv, NEW k \in Nat, NEW torn \in BOOLEAN, WriteFails(k, torn),
           lsnOf' = lsnOf, up' = up
    PROVE  \E R : Extends(R, Active.synced)
<1> DEFINE R == Active.recs \o (SubSeq(buf, 1, k) \o (IF torn THEN <<Torn>> ELSE <<>>))
<1>1. k <= Len(buf) /\ (torn => k < Len(buf)) /\ buf' = buf /\ nextLSN' = nextLSN
    BY DEF WriteFails
<1>2. /\ From(R)
      /\ Len(R) \in Nat /\ Len(R) >= Len(Active.recs)
      /\ k = 0 /\ ~torn => Len(R) = Len(Active.recs)
      /\ \A i \in 1..Len(Active.recs) : R[i] = Active.recs[i]
    BY <1>1, FailedRecs
<1>3. Became(R, Active.synced)
  <2>1. segs' = [segs EXCEPT ![Len(segs)].recs = R]
      BY DEF WriteFails, Active
  <2> QED BY <2>1, SetRecs
<1>4. damaged' = (damaged \/ k > 0 \/ torn) /\ damaged \in BOOLEAN
    BY DEF WriteFails, DiskInv
<1> HIDE DEF R
<1>5. /\ Active.synced \in Nat /\ Active.synced <= Len(Active.recs) /\ Len(Active.recs) \in Nat
    BY ActiveFacts DEF Active
<1>6. Len(R) \in Nat /\ Len(R) >= Len(Active.recs)
    BY <1>2
<1>7. ~damaged' => ~damaged /\ Len(R) = Len(Active.recs)
  <2> SUFFICES ASSUME ~damaged' PROVE ~damaged /\ Len(R) = Len(Active.recs)
      OBVIOUS
  <2>1. ~damaged /\ ~(k > 0) /\ ~torn
      BY <1>4
  <2>2. k = 0
      BY <2>1
  <2> QED BY <1>2, <2>1, <2>2
<1>8. damaged' \in BOOLEAN
    BY <1>4
<1>9. Active.synced <= Len(R)
    BY <1>5, <1>6
<1>10. \A i \in 1..Len(R) : ~damaged' /\ R[i] = Torn => i <= Len(Active.recs)
    BY <1>5, <1>7
<1>11. ~damaged' => Len(R) + Len(buf') = Len(Active.recs) + Len(buf)
    BY <1>1, <1>7
<1>12. Active.synced >= Active.synced
    BY <1>5
<1>13. Extends(R, Active.synced)
    BY <1>1, <1>2, <1>3, <1>5, <1>6, <1>7, <1>8, <1>9, <1>10, <1>11, <1>12 DEF Extends
<1> QED BY <1>13

-----------------------------------------------------------------------------
(* The same by segment number *)

\* What DiskInv says of the segments.
LEMMA Shape ==
    ASSUME DiskInv
    PROVE  /\ Top \in Nat \ {0} /\ 1 \in 1..Top /\ Top \in 1..Top
           /\ \A k \in 1..Top :
                /\ Base(k) \in Nat \ {0}
                /\ Size(k) \in Nat
                /\ Synced(k) \in Nat /\ Synced(k) <= Size(k)
                /\ Valid(k) \in Nat /\ Valid(k) <= Size(k)
                /\ \A i \in 1..Size(k) : Entry(k, i) \in 0..MaxAppends
                /\ \A i \in 1..Size(k) : i <= Valid(k) <=> \A j \in 1..i : Entry(k, j) # Torn
                /\ (\A i \in 1..Size(k) : Entry(k, i) # Torn) => Valid(k) = Size(k)
<1>1. Top \in Nat \ {0} /\ 1 \in 1..Top /\ Top \in 1..Top
    BY ActiveFacts DEF Top
<1> SUFFICES ASSUME NEW k \in 1..Top
             PROVE  /\ Base(k) \in Nat \ {0}
                    /\ Size(k) \in Nat
                    /\ Synced(k) \in Nat /\ Synced(k) <= Size(k)
                    /\ Valid(k) \in Nat /\ Valid(k) <= Size(k)
                    /\ \A i \in 1..Size(k) : Entry(k, i) \in 0..MaxAppends
                    /\ \A i \in 1..Size(k) :
                          i <= Valid(k) <=> \A j \in 1..i : Entry(k, j) # Torn
                    /\ (\A i \in 1..Size(k) : Entry(k, i) # Torn) => Valid(k) = Size(k)
    BY <1>1
<1> DEFINE s == segs[k].recs
<1>2. /\ s \in Seq(Nat)
      /\ Base(k) \in Nat \ {0} /\ Size(k) \in Nat
      /\ Synced(k) \in Nat /\ Synced(k) <= Size(k)
      /\ \A i \in 1..Size(k) : Entry(k, i) \in 0..MaxAppends
    BY ActiveFacts DEF Base, Size, Synced, Entry, Top
<1>3. Valid(k) = ValidLen(s) /\ Size(k) = Len(s) /\ \A i : Entry(k, i) = s[i]
    BY DEF Valid, Size, Entry
<1> HIDE DEF s
<1>4. ValidLen(s) \in Nat /\ ValidLen(s) <= Len(s)
    BY <1>2, ValidLenFacts
<1>5. \A i \in 1..Len(s) : i <= ValidLen(s) <=> \A j \in 1..i : s[j] # Torn
    BY <1>2, ValidLenIff
<1>6. (\A i \in 1..Len(s) : s[i] # Torn) => ValidLen(s) = Len(s)
    BY <1>2, ValidLenWhole
<1> QED BY <1>2, <1>3, <1>4, <1>5, <1>6

\* The same after a step.
Shaped ==
    /\ Top \in Nat \ {0} /\ 1 \in 1..Top /\ Top \in 1..Top
    /\ Base(Top) \in Nat \ {0} /\ Size(Top) \in Nat /\ Synced(Top) \in Nat
    /\ \A k \in 1..Top :
         /\ Base(k) \in Nat \ {0}
         /\ Size(k) \in Nat
         /\ Synced(k) \in Nat /\ Synced(k) <= Size(k)
         /\ Valid(k) \in Nat /\ Valid(k) <= Size(k)
         /\ \A i \in 1..Size(k) : i <= Valid(k) <=> \A j \in 1..i : Entry(k, j) # Torn

\* The files have the shape their sizes and marks say.
LEMMA ShapeNow == DiskInv => Shaped
BY Shape DEF Shaped

\* So they have after the step.
LEMMA ShapeNext == DiskInv' => Shaped'
BY ShapeNow, PTL

\* Segment k is as it was.
Same(k) ==
    /\ Size(k)' = Size(k) /\ Synced(k)' = Synced(k) /\ Valid(k)' = Valid(k)
    /\ \A i \in 1..Size(k) : Entry(k, i)' = Entry(k, i)

\* Only the active segment changes.
TopStep ==
    /\ Top' = Top
    /\ \A k \in 1..Top : Base(k)' = Base(k)
    /\ \A k \in 1..Top : k # Top => Same(k)

\* A new content of the active segment touches no other segment.
LEMMA BecameTop ==
    ASSUME DiskInv, NEW R \in Seq(0..MaxAppends), NEW Y \in Nat, Y <= Len(R), Became(R, Y)
    PROVE  /\ TopStep
           /\ FilesInv'
           /\ \A k \in 1..Top : k = Top =>
                /\ Size(k)' = Len(R) /\ Synced(k)' = Y /\ Valid(k)' = ValidLen(R)
                /\ \A i \in 1..Len(R) : Entry(k, i)' = R[i]
<1>1. /\ segs' \in Seq(Segment)
      /\ Len(segs') = Len(segs)
      /\ \A k \in 1..Len(segs) : segs'[k].synced <= Len(segs'[k].recs)
      /\ \A k \in 1..Len(segs) : segs'[k].base = segs[k].base
      /\ \A k \in 1..Len(segs) : k # Len(segs) => segs'[k] = segs[k]
      /\ segs'[Len(segs)].recs = R
      /\ segs'[Len(segs)].synced = Y
    BY BecameFacts
<1>2. TopStep
    BY <1>1 DEF TopStep, Same, Top, Base, Size, Synced, Valid, Entry
<1>3. \A k \in 1..Top : k = Top =>
                /\ Size(k)' = Len(R) /\ Synced(k)' = Y /\ Valid(k)' = ValidLen(R)
                /\ \A i \in 1..Len(R) : Entry(k, i)' = R[i]
    BY <1>1 DEF Top, Size, Synced, Valid, Entry
<1>4. FilesInv'
    BY <1>1, ActiveFacts DEF FilesInv
<1> QED BY <1>2, <1>3, <1>4

\* The numbers of the segments and the LSNs stay; the active segment grows by
\* nothing, by the whole buffer or, when a write fails, by a part of it; and no
\* fewer of its entries are flushed.
Grows ==
    /\ TopStep /\ FilesInv'
    /\ nextLSN' = nextLSN /\ lsnOf' = lsnOf /\ up' = up /\ damaged' \in BOOLEAN
    /\ \A k \in 1..Top : k = Top =>
         /\ Size(k)' \in Nat /\ Size(k)' >= Size(k)
         /\ Synced(k)' \in Nat /\ Synced(k)' >= Synced(k)
         /\ \A i \in 1..Size(k) : Entry(k, i)' = Entry(k, i)
         /\ \A i \in 1..Size(k)' : Entry(k, i)' # Torn =>
               i <= Size(k) \/ \E j \in 1..Len(buf) : i = Size(k) + j /\ Entry(k, i)' = buf[j]
         /\ \/ buf' = buf
            \/ /\ buf' = <<>>
               /\ Size(k)' = Size(k) + Len(buf)
               /\ \A i, j \in Nat : j \in 1..Len(buf) /\ i = Size(k) + j => Entry(k, i)' = buf[j]
         /\ ~damaged' => /\ ~damaged
                         /\ Size(k)' + Len(buf') = Size(k) + Len(buf)
                         /\ \A i \in 1..Size(k)' : Entry(k, i)' = Torn => i <= Size(k)

\* Writing the buffer, whole or in part, makes the files grow.
LEMMA ExtendsGrows ==
    ASSUME DiskInv, NEW R, NEW Y, Extends(R, Y)
    PROVE  Grows
<1>1. R \in Seq(0..MaxAppends) /\ Y \in Nat /\ Y <= Len(R) /\ Became(R, Y) /\ Len(R) \in Nat
  <2>1. R \in Seq(0..MaxAppends)
      BY DEF Extends, From
  <2> QED BY <2>1 DEF Extends
<1>2. /\ TopStep
      /\ FilesInv'
      /\ \A k \in 1..Top : k = Top =>
           /\ Size(k)' = Len(R) /\ Synced(k)' = Y /\ Valid(k)' = ValidLen(R)
           /\ \A i \in 1..Len(R) : Entry(k, i)' = R[i]
    BY <1>1, BecameTop
<1>3. \A k \in 1..Top : k = Top => /\ Size(k) = Len(Active.recs) /\ Size(k) \in Nat
                                   /\ Synced(k) = Active.synced
                                   /\ \A i : Entry(k, i) = Active.recs[i]
  <2>1. \A k \in 1..Top : Size(k) \in Nat
      BY Shape
  <2> QED BY <2>1 DEF Size, Entry, Active, Synced, Top
<1>4. nextLSN' = nextLSN /\ lsnOf' = lsnOf /\ up' = up /\ damaged' \in BOOLEAN
    BY DEF Extends
<1> SUFFICES ASSUME NEW k \in 1..Top, k = Top
    PROVE
         /\ Size(k)' \in Nat /\ Size(k)' >= Size(k)
         /\ Synced(k)' \in Nat /\ Synced(k)' >= Synced(k)
         /\ \A i \in 1..Size(k) : Entry(k, i)' = Entry(k, i)
         /\ \A i \in 1..Size(k)' : Entry(k, i)' # Torn =>
               i <= Size(k) \/ \E j \in 1..Len(buf) : i = Size(k) + j /\ Entry(k, i)' = buf[j]
         /\ \/ buf' = buf
            \/ /\ buf' = <<>>
               /\ Size(k)' = Size(k) + Len(buf)
               /\ \A i, j \in Nat : j \in 1..Len(buf) /\ i = Size(k) + j => Entry(k, i)' = buf[j]
         /\ ~damaged' => /\ ~damaged
                         /\ Size(k)' + Len(buf') = Size(k) + Len(buf)
                         /\ \A i \in 1..Size(k)' : Entry(k, i)' = Torn => i <= Size(k)
    BY <1>2, <1>4 DEF Grows
<1>5. /\ Size(k)' = Len(R) /\ Synced(k)' = Y /\ \A i \in 1..Len(R) : Entry(k, i)' = R[i]
      /\ Size(k) = Len(Active.recs) /\ Synced(k) = Active.synced /\ Size(k) \in Nat
      /\ \A i : Entry(k, i) = Active.recs[i]
    BY <1>2, <1>3
<1>6. Size(k)' \in Nat /\ Size(k)' >= Size(k) /\ Synced(k)' \in Nat /\ Synced(k)' >= Synced(k)
    BY <1>1, <1>5 DEF Extends
<1>7. \A i \in 1..Size(k) : Entry(k, i)' = Entry(k, i)
  <2>1. \A i \in 1..Size(k) : i \in 1..Len(R)
      BY <1>1, <1>5, <1>6
  <2> QED BY <1>5, <2>1 DEF Extends
<1>8. \A i \in 1..Size(k)' : Entry(k, i)' # Torn =>
               i <= Size(k) \/ \E j \in 1..Len(buf) : i = Size(k) + j /\ Entry(k, i)' = buf[j]
  <2> SUFFICES ASSUME NEW i \in 1..Size(k)', Entry(k, i)' # Torn
               PROVE  \/ i <= Size(k)
                      \/ \E j \in 1..Len(buf) : i = Size(k) + j /\ Entry(k, i)' = buf[j]
      OBVIOUS
  <2>1. i \in 1..Len(R) /\ Entry(k, i)' = R[i]
      BY <1>5
  <2>2. \/ i <= Len(Active.recs)
        \/ \E j \in 1..Len(buf) : i = Len(Active.recs) + j /\ R[i] = buf[j]
      BY <2>1 DEF Extends, From
  <2> QED BY <1>5, <2>1, <2>2
<1>9. \/ buf' = buf
      \/ /\ buf' = <<>>
         /\ Size(k)' = Size(k) + Len(buf)
         /\ \A i, j \in Nat : j \in 1..Len(buf) /\ i = Size(k) + j => Entry(k, i)' = buf[j]
  <2>1. CASE buf' = buf
      BY <2>1
  <2>2. CASE /\ buf' = <<>> /\ Len(R) = Len(Active.recs) + Len(buf)
             /\ \A j \in 1..Len(buf) : R[Len(Active.recs) + j] = buf[j]
    <3>1. Size(k)' = Size(k) + Len(buf) /\ Len(buf) \in Nat
        BY <1>5, <2>2, NumberFacts
    <3>2. ASSUME NEW i \in Nat, NEW j \in Nat, j \in 1..Len(buf), i = Size(k) + j
          PROVE  Entry(k, i)' = buf[j]
      <4>1. R[i] = buf[j]
          BY <1>5, <2>2, <3>2
      <4>2. i \in 1..Len(R)
          BY <1>1, <1>5, <3>1, <3>2
      <4> QED BY <1>5, <4>1, <4>2
    <3> QED BY <2>2, <3>1, <3>2
  <2> QED BY <2>1, <2>2 DEF Extends
<1>10. ~damaged' => /\ ~damaged
                    /\ Size(k)' + Len(buf') = Size(k) + Len(buf)
                    /\ \A i \in 1..Size(k)' : Entry(k, i)' = Torn => i <= Size(k)
    BY <1>5 DEF Extends
<1> QED BY <1>6, <1>7, <1>8, <1>9, <1>10

-----------------------------------------------------------------------------
(* Every kind of change to the files keeps PlaceInv and ExactInv *)

\* An entry that is not torn, and an entry of the buffer, is a record.
LEMMA EntryRecord ==
    ASSUME DiskInv, EntriesInv, NEW k \in 1..Top, NEW i \in 1..Size(k), Entry(k, i) # Torn
    PROVE  Entry(k, i) \in 1..Len(lsnOf) /\ lsnOf[Entry(k, i)] \in Nat \ {0}
<1>1. Entry(k, i) \in 0..MaxAppends
    BY Shape
<1>2. Entry(k, i) <= Len(lsnOf)
    BY DEF EntriesInv
<1>3. Entry(k, i) \in 1..Len(lsnOf)
    BY <1>1, <1>2, Bounds, NumberFacts
<1> QED BY <1>3, NumberFacts

\* What is in the buffer has been appended.
LEMMA BufferRecord ==
    ASSUME DiskInv, BufferInv, NEW i \in 1..Len(buf)
    PROVE  buf[i] \in 1..Len(lsnOf) /\ lsnOf[buf[i]] \in Nat \ {0}
<1>1. buf[i] \in 1..MaxAppends /\ buf[i] <= Len(lsnOf)
    BY NumberFacts DEF BufferInv
<1>2. buf[i] \in 1..Len(lsnOf)
    BY <1>1, Bounds, NumberFacts
<1> QED BY <1>2, NumberFacts

\* The active segment keeps its number and its base.
LEMMA TopValues ==
    ASSUME DiskInv, TopStep, NEW k, k = Top
    PROVE  /\ k \in 1..Top /\ k \in Nat \ {0} /\ Top' = k
           /\ Base(Top)' = Base(k) /\ Base(k)' = Base(k) /\ Base(Top) = Base(k)
           /\ Size(Top)' = Size(k)' /\ Size(Top) = Size(k)
           /\ Synced(Top)' = Synced(k)' /\ Synced(Top) = Synced(k)
           /\ Valid(Top)' = Valid(k)' /\ Valid(Top) = Valid(k)
<1>1. k \in 1..Top /\ k \in Nat \ {0} /\ Top' = k /\ Base(k)' = Base(k)
    BY Shape DEF TopStep
<1> QED BY <1>1 DEF Base, Size, Synced, Valid

\* Writing part of the buffer puts no entry beyond its place.
LEMMA PlaceGrows ==
    ASSUME DiskInv, PlaceInv, Grows
    PROVE  PlaceInv'
<1> PICK t : t = Top
    OBVIOUS
<1>0. BasesInv /\ EntriesInv /\ BufferInv /\ NextInv
    BY DEF PlaceInv
<1>1. /\ t \in 1..Top /\ t \in Nat \ {0} /\ Top' = t /\ t = Top
      /\ Base(Top)' = Base(t) /\ Base(t)' = Base(t) /\ Base(Top) = Base(t)
      /\ Size(Top)' = Size(t)' /\ Size(Top) = Size(t)
    BY TopValues DEF Grows
<1>2. /\ Base(t) \in Nat \ {0} /\ Size(t) \in Nat
      /\ \A k \in 1..Top : Base(k) \in Nat
    BY <1>1, Shape
<1>3. /\ nextLSN' = nextLSN /\ lsnOf' = lsnOf /\ up' = up
      /\ \A k \in 1..Top : Base(k)' = Base(k)
      /\ \A k \in 1..Top : k # Top => Same(k)
    BY DEF Grows, TopStep
<1>4. /\ Size(t)' \in Nat /\ Size(t)' >= Size(t)
      /\ \A i \in 1..Size(t) : Entry(t, i)' = Entry(t, i)
      /\ \A i \in 1..Size(t)' : Entry(t, i)' # Torn =>
            i <= Size(t) \/ \E j \in 1..Len(buf) : i = Size(t) + j /\ Entry(t, i)' = buf[j]
      /\ buf' = buf \/ (buf' = <<>> /\ Size(t)' = Size(t) + Len(buf))
    BY <1>1 DEF Grows
<1>5. BasesInv'
    BY <1>0, <1>1, <1>3 DEF BasesInv
<1>6. BufferInv'
  <2> SUFFICES ASSUME NEW i \in 1..Len(buf'), buf' = buf
               PROVE  /\ buf[i] <= Len(lsnOf) /\ lsnOf[buf[i]] < nextLSN
                      /\ lsnOf[buf[i]] <= Base(t) + Size(t)' + i - 1
    <3>1. CASE buf' = buf
        BY <1>1, <1>3, <3>1 DEF BufferInv
    <3>2. CASE buf' = <<>>
        BY <3>2 DEF BufferInv
    <3> QED BY <1>4, <3>1, <3>2
  <2>1. /\ buf[i] <= Len(lsnOf) /\ lsnOf[buf[i]] < nextLSN
        /\ lsnOf[buf[i]] <= Base(t) + Size(t) + i - 1
      BY <1>0, <1>1 DEF BufferInv
  <2>2. buf[i] \in 1..Len(lsnOf)
      BY <2>1, NumberFacts
  <2>3. lsnOf[buf[i]] \in Nat /\ i \in Nat
      BY <2>2, NumberFacts
  <2> QED BY <1>2, <1>4, <2>1, <2>3
<1>7. NextInv'
  <2>1. CASE buf' = buf
      BY <1>0, <1>1, <1>2, <1>3, <1>4, <2>1, NumberFacts DEF NextInv
  <2>2. CASE buf' = <<>> /\ Size(t)' = Size(t) + Len(buf)
    <3>1. Len(buf') = 0
        BY <2>2
    <3> QED BY <1>0, <1>1, <1>2, <1>3, <2>2, <3>1, NumberFacts DEF NextInv
  <2> QED BY <1>4, <2>1, <2>2
<1>8. EntriesInv'
  <2> SUFFICES ASSUME NEW k \in 1..Top', NEW i \in 1..Size(k)', Entry(k, i)' # Torn
               PROVE  /\ Entry(k, i)' <= Len(lsnOf)
                      /\ lsnOf[Entry(k, i)'] <= Base(k) + i - 1
                      /\ \A l \in 1..Top : k < l => lsnOf[Entry(k, i)'] < Base(l)
                      /\ up => lsnOf[Entry(k, i)'] < nextLSN
      BY <1>1, <1>3 DEF EntriesInv
  <2>1. CASE k # t \/ i <= Size(t)
    <3>1. k \in 1..Top /\ i \in 1..Size(k) /\ Entry(k, i)' = Entry(k, i)
        BY <1>1, <1>2, <1>3, <1>4, <2>1 DEF Same
    <3> QED BY <1>0, <3>1 DEF EntriesInv
  <2>2. CASE k = t /\ ~(i <= Size(t))
    <3> PICK j \in 1..Len(buf) : i = Size(t) + j /\ Entry(t, i)' = buf[j]
        BY <1>4, <2>2
    <3>1. /\ buf[j] <= Len(lsnOf) /\ lsnOf[buf[j]] < nextLSN
          /\ lsnOf[buf[j]] <= Base(t) + Size(t) + j - 1
        BY <1>0, <1>1 DEF BufferInv
    <3>2. Base(t) + Size(t) + j - 1 = Base(t) + i - 1
        BY <1>2
    <3>3. \A l \in 1..Top : ~(k < l)
        BY <1>1, <2>2
    <3> QED BY <2>2, <3>1, <3>2, <3>3
  <2> QED BY <2>1, <2>2
<1> QED BY <1>5, <1>6, <1>7, <1>8 DEF PlaceInv

\* In an undamaged log the segment grows by the buffer or by nothing.
LEMMA ExactGrows ==
    ASSUME DiskInv, ExactInv, Grows, up
    PROVE  ExactInv'
<1> SUFFICES ASSUME ~damaged'
             PROVE  ExactEntries' /\ ExactSegments' /\ ExactBuffer' /\ ExactNext'
    BY DEF ExactInv
<1> PICK t : t = Top
    OBVIOUS
<1>1. /\ t \in 1..Top /\ t \in Nat \ {0} /\ Top' = t /\ t = Top
      /\ Base(Top)' = Base(t) /\ Base(t)' = Base(t) /\ Base(Top) = Base(t)
      /\ Size(Top)' = Size(t)' /\ Size(Top) = Size(t)
    BY TopValues DEF Grows
<1>2. /\ Base(t) \in Nat \ {0} /\ Size(t) \in Nat
      /\ \A k \in 1..Top : Base(k) \in Nat
      /\ Len(buf) \in Nat
    BY <1>1, Shape, NumberFacts
<1>3. /\ nextLSN' = nextLSN /\ lsnOf' = lsnOf /\ up' = up
      /\ \A k \in 1..Top : Base(k)' = Base(k)
      /\ \A k \in 1..Top : k # Top => Same(k)
    BY DEF Grows, TopStep
<1>4. /\ Size(t)' \in Nat /\ Size(t)' >= Size(t)
      /\ \A i \in 1..Size(t) : Entry(t, i)' = Entry(t, i)
      /\ \A i \in 1..Size(t)' : Entry(t, i)' # Torn =>
            i <= Size(t) \/ \E j \in 1..Len(buf) : i = Size(t) + j /\ Entry(t, i)' = buf[j]
      /\ buf' = buf \/ (buf' = <<>> /\ Size(t)' = Size(t) + Len(buf))
      /\ ~damaged
      /\ Size(t)' + Len(buf') = Size(t) + Len(buf)
      /\ \A i \in 1..Size(t)' : Entry(t, i)' = Torn => i <= Size(t)
    BY <1>1 DEF Grows
<1>5. ExactEntries /\ ExactSegments /\ ExactBuffer /\ ExactNext
    BY <1>4 DEF ExactInv
<1>6. ExactEntries'
  <2> SUFFICES ASSUME NEW k \in 1..Top', NEW i \in 1..Size(k)'
               PROVE  /\ Entry(k, i)' # Torn
                      /\ lsnOf[Entry(k, i)'] = Base(k) + i - 1
      BY <1>1, <1>3 DEF ExactEntries
  <2>1. CASE k # t \/ i <= Size(t)
    <3>1. k \in 1..Top /\ i \in 1..Size(k) /\ Entry(k, i)' = Entry(k, i)
        BY <1>1, <1>2, <1>3, <1>4, <2>1 DEF Same
    <3> QED BY <1>5, <3>1 DEF ExactEntries
  <2>2. CASE k = t /\ ~(i <= Size(t))
    <3>1. Entry(t, i)' # Torn
        BY <1>4, <2>2
    <3> PICK j \in 1..Len(buf) : i = Size(t) + j /\ Entry(t, i)' = buf[j]
        BY <1>4, <2>2, <3>1
    <3>2. lsnOf[buf[j]] = Base(t) + Size(t) + j - 1
        BY <1>1, <1>5 DEF ExactBuffer
    <3>3. Base(t) + Size(t) + j - 1 = Base(t) + i - 1
        BY <1>2
    <3> QED BY <2>2, <3>1, <3>2, <3>3
  <2> QED BY <2>1, <2>2
<1>7. ExactSegments'
  <2> SUFFICES ASSUME NEW k \in 1..Top', k < Top'
               PROVE  Synced(k)' = Size(k)' /\ Base(k + 1)' = Base(k)' + Size(k)'
      BY DEF ExactSegments
  <2>1. k \in 1..Top /\ k + 1 \in 1..Top /\ k < Top /\ k # Top
      BY <1>1
  <2>2. Base(k + 1)' = Base(k + 1)
      BY <1>3, <2>1 DEF Base
  <2> QED BY <1>3, <1>5, <2>1, <2>2 DEF ExactSegments, Same
<1>8. ExactBuffer'
  <2>1. CASE buf' = buf
    <3>1. Size(t)' = Size(t)
        BY <1>2, <1>4, <2>1
    <3> QED BY <1>1, <1>3, <1>5, <2>1, <3>1 DEF ExactBuffer
  <2>2. CASE buf' = <<>>
      BY <2>2 DEF ExactBuffer
  <2> QED BY <1>4, <2>1, <2>2
<1>9. ExactNext'
  <2>1. Len(buf') \in Nat
    <3>1. CASE buf' = buf
        BY <1>2, <3>1
    <3>2. CASE buf' = <<>>
        BY <3>2
    <3> QED BY <1>4, <3>1, <3>2
  <2>2. nextLSN = Base(t) + Size(t) + Len(buf)
      BY <1>1, <1>5 DEF ExactNext
  <2>3. nextLSN = Base(t) + Size(t)' + Len(buf')
      BY <1>2, <1>4, <2>1, <2>2
  <2> QED BY <1>1, <1>3, <2>3 DEF ExactNext
<1> QED BY <1>6, <1>7, <1>8, <1>9

\* A record is framed behind the buffer and takes the next LSN.
Frames ==
    /\ segs' = segs /\ up' = up /\ damaged' = damaged
    /\ buf' = Append(buf, Len(lsnOf) + 1)
    /\ lsnOf' = Append(lsnOf, nextLSN)
    /\ nextLSN' = nextLSN + 1
    /\ Len(lsnOf) < MaxAppends
    /\ up

\* The files are as they were.
LEMMA SameFiles ==
    ASSUME segs' = segs
    PROVE  /\ Top' = Top
           /\ Base(Top)' = Base(Top) /\ Size(Top)' = Size(Top)
           /\ Synced(Top)' = Synced(Top) /\ Valid(Top)' = Valid(Top)
           /\ \A k : /\ Base(k)' = Base(k) /\ Size(k)' = Size(k)
                     /\ Synced(k)' = Synced(k) /\ Valid(k)' = Valid(k)
                     /\ \A i : Entry(k, i)' = Entry(k, i)
           /\ FilesInv' <=> FilesInv
BY DEF Top, Base, Size, Synced, Valid, Entry, FilesInv

\* What framing a record does to the tables.
LEMMA FrameFacts ==
    ASSUME DiskInv, Frames
    PROVE  /\ lsnOf' \in Seq(Nat \ {0}) /\ buf' \in Seq(1..MaxAppends)
           /\ Len(lsnOf') = Len(lsnOf) + 1 /\ Len(buf') = Len(buf) + 1
           /\ Len(lsnOf') \in Nat /\ Len(lsnOf') <= MaxAppends
           /\ \A r \in 1..Len(lsnOf) : lsnOf'[r] = lsnOf[r]
           /\ lsnOf'[Len(lsnOf) + 1] = nextLSN
           /\ \A i \in 1..Len(buf) : buf'[i] = buf[i]
           /\ buf'[Len(buf) + 1] = Len(lsnOf) + 1
<1>1. /\ lsnOf \in Seq(Nat \ {0}) /\ nextLSN \in Nat \ {0}
      /\ buf \in Seq(1..MaxAppends)
    BY DEF DiskInv
<1>2. Len(lsnOf) \in Nat /\ Len(lsnOf) < MaxAppends
    BY NumberFacts DEF Frames
<1>3. Len(lsnOf) + 1 \in 1..MaxAppends
    BY <1>2, Bounds
<1>4. lsnOf' = Append(lsnOf, nextLSN) /\ buf' = Append(buf, Len(lsnOf) + 1)
    BY DEF Frames
<1>5. /\ lsnOf' \in Seq(Nat \ {0}) /\ Len(lsnOf') = Len(lsnOf) + 1
      /\ \A r \in 1..Len(lsnOf) : lsnOf'[r] = lsnOf[r]
      /\ lsnOf'[Len(lsnOf) + 1] = nextLSN
    BY <1>1, <1>4, AppendProperties
<1>6. /\ buf' \in Seq(1..MaxAppends) /\ Len(buf') = Len(buf) + 1
      /\ \A i \in 1..Len(buf) : buf'[i] = buf[i]
      /\ buf'[Len(buf) + 1] = Len(lsnOf) + 1
    BY <1>1, <1>3, <1>4, AppendProperties
<1> QED BY <1>2, <1>5, <1>6, Bounds

\* A framed record has its place behind the buffer.
LEMMA PlaceFrames ==
    ASSUME DiskInv, PlaceInv, Frames
    PROVE  PlaceInv'
<1>0. BasesInv /\ EntriesInv /\ BufferInv /\ NextInv
    BY DEF PlaceInv
<1>1. /\ Top' = Top /\ Base(Top)' = Base(Top) /\ Size(Top)' = Size(Top)
      /\ \A k : /\ Base(k)' = Base(k) /\ Size(k)' = Size(k)
                /\ \A i : Entry(k, i)' = Entry(k, i)
    BY SameFiles DEF Frames
<1>2. /\ Len(lsnOf') = Len(lsnOf) + 1 /\ Len(buf') = Len(buf) + 1
      /\ \A r \in 1..Len(lsnOf) : lsnOf'[r] = lsnOf[r]
      /\ lsnOf'[Len(lsnOf) + 1] = nextLSN
      /\ \A i \in 1..Len(buf) : buf'[i] = buf[i]
      /\ buf'[Len(buf) + 1] = Len(lsnOf) + 1
    BY FrameFacts
<1>3. nextLSN' = nextLSN + 1 /\ up' = up /\ up
    BY DEF Frames
<1>4. /\ Base(Top) \in Nat /\ Size(Top) \in Nat /\ Len(buf) \in Nat /\ Len(lsnOf) \in Nat
      /\ nextLSN \in Nat
    BY Shape, NumberFacts
<1>5. BasesInv'
    BY <1>0, <1>1 DEF BasesInv
<1>6. NextInv'
  <2>1. Base(Top) <= nextLSN /\ nextLSN <= Base(Top) + Size(Top) + Len(buf)
      BY <1>0, <1>3 DEF NextInv
  <2>2. Base(Top) <= nextLSN + 1 /\ nextLSN + 1 <= Base(Top) + Size(Top) + (Len(buf) + 1)
      BY <1>4, <2>1
  <2> QED BY <1>1, <1>2, <1>3, <2>2 DEF NextInv
<1>7. EntriesInv'
  <2> SUFFICES ASSUME NEW k \in 1..Top, NEW i \in 1..Size(k), Entry(k, i) # Torn
               PROVE  /\ Entry(k, i) <= Len(lsnOf')
                      /\ lsnOf'[Entry(k, i)] <= Base(k) + i - 1
                      /\ \A l \in 1..Top : k < l => lsnOf'[Entry(k, i)] < Base(l)
                      /\ lsnOf'[Entry(k, i)] < nextLSN'
      BY <1>1 DEF EntriesInv
  <2>1. /\ Entry(k, i) <= Len(lsnOf)
        /\ lsnOf[Entry(k, i)] <= Base(k) + i - 1
        /\ \A l \in 1..Top : k < l => lsnOf[Entry(k, i)] < Base(l)
        /\ lsnOf[Entry(k, i)] < nextLSN
      BY <1>0, <1>3 DEF EntriesInv
  <2>2. Entry(k, i) \in 1..Len(lsnOf)
      BY <1>0, EntryRecord
  <2>3. lsnOf'[Entry(k, i)] = lsnOf[Entry(k, i)] /\ lsnOf[Entry(k, i)] \in Nat
      BY <1>2, <2>2, NumberFacts
  <2> QED BY <1>2, <1>3, <1>4, <2>1, <2>2, <2>3
<1>8. BufferInv'
  <2> SUFFICES ASSUME NEW i \in 1..Len(buf) + 1
               PROVE  /\ buf'[i] <= Len(lsnOf) + 1
                      /\ lsnOf'[buf'[i]] < nextLSN + 1
                      /\ lsnOf'[buf'[i]] <= Base(Top) + Size(Top) + i - 1
      BY <1>1, <1>2, <1>3 DEF BufferInv
  <2>1. CASE i = Len(buf) + 1
    <3>1. nextLSN <= Base(Top) + Size(Top) + Len(buf)
        BY <1>0, <1>3 DEF NextInv
    <3>2. buf'[i] = Len(lsnOf) + 1 /\ lsnOf'[buf'[i]] = nextLSN
        BY <1>2, <2>1
    <3>3. Base(Top) + Size(Top) + i - 1 = Base(Top) + Size(Top) + Len(buf)
        BY <1>4, <2>1
    <3> QED BY <1>4, <3>1, <3>2, <3>3
  <2>2. CASE i # Len(buf) + 1
    <3>1. i \in 1..Len(buf)
        BY <1>4, <2>2
    <3>2. /\ buf[i] <= Len(lsnOf)
          /\ lsnOf[buf[i]] < nextLSN
          /\ lsnOf[buf[i]] <= Base(Top) + Size(Top) + i - 1
        BY <1>0, <3>1 DEF BufferInv
    <3>3. buf[i] \in 1..Len(lsnOf) /\ buf'[i] = buf[i]
        BY <1>2, <1>4, <3>1, <3>2, NumberFacts
    <3>4. lsnOf'[buf[i]] = lsnOf[buf[i]] /\ lsnOf[buf[i]] \in Nat
        BY <1>2, <3>3, NumberFacts
    <3> QED BY <1>4, <3>2, <3>3, <3>4
  <2> QED BY <2>1, <2>2
<1> QED BY <1>5, <1>6, <1>7, <1>8 DEF PlaceInv

\* In an undamaged log that place is exactly the end.
LEMMA ExactFrames ==
    ASSUME DiskInv, PlaceInv, ExactInv, Frames
    PROVE  ExactInv'
<1> SUFFICES ASSUME ~damaged'
             PROVE  ExactEntries' /\ ExactSegments' /\ ExactBuffer' /\ ExactNext'
    BY DEF ExactInv
<1>0. ExactEntries /\ ExactSegments /\ ExactBuffer /\ ExactNext
    BY DEF ExactInv, Frames
<1>1. /\ Top' = Top /\ Base(Top)' = Base(Top) /\ Size(Top)' = Size(Top)
      /\ \A k : /\ Base(k)' = Base(k) /\ Size(k)' = Size(k) /\ Synced(k)' = Synced(k)
                /\ \A i : Entry(k, i)' = Entry(k, i)
    BY SameFiles DEF Frames
<1>2. /\ Len(lsnOf') = Len(lsnOf) + 1 /\ Len(buf') = Len(buf) + 1
      /\ \A r \in 1..Len(lsnOf) : lsnOf'[r] = lsnOf[r]
      /\ lsnOf'[Len(lsnOf) + 1] = nextLSN
      /\ \A i \in 1..Len(buf) : buf'[i] = buf[i]
      /\ buf'[Len(buf) + 1] = Len(lsnOf) + 1
    BY FrameFacts
<1>3. nextLSN' = nextLSN + 1 /\ up' = up /\ up
    BY DEF Frames
<1>4. /\ Base(Top) \in Nat /\ Size(Top) \in Nat /\ Len(buf) \in Nat /\ Len(lsnOf) \in Nat
      /\ nextLSN \in Nat
    BY Shape, NumberFacts
<1>5. nextLSN = Base(Top) + Size(Top) + Len(buf)
    BY <1>0, <1>3 DEF ExactNext
<1>6. ExactEntries'
  <2> SUFFICES ASSUME NEW k \in 1..Top, NEW i \in 1..Size(k)
               PROVE  Entry(k, i) # Torn /\ lsnOf'[Entry(k, i)] = Base(k) + i - 1
      BY <1>1, <1>3 DEF ExactEntries
  <2>1. Entry(k, i) # Torn /\ lsnOf[Entry(k, i)] = Base(k) + i - 1
      BY <1>0, <1>3 DEF ExactEntries
  <2>2. Entry(k, i) \in 1..Len(lsnOf)
      BY <2>1, EntryRecord DEF PlaceInv
  <2> QED BY <1>2, <2>1, <2>2
<1>7. ExactSegments'
  <2> SUFFICES ASSUME NEW k \in 1..Top, k < Top
               PROVE  Synced(k) = Size(k) /\ Base(k + 1) = Base(k) + Size(k)
    <3>1. \A k \in 1..Top : Base(k + 1)' = Base(k + 1)
        BY <1>1 DEF Frames, Base
    <3> QED BY <1>1, <3>1 DEF ExactSegments
  <2> QED BY <1>0 DEF ExactSegments
<1>8. ExactBuffer'
  <2> SUFFICES ASSUME NEW i \in 1..Len(buf) + 1
               PROVE  lsnOf'[buf'[i]] = Base(Top) + Size(Top) + i - 1
      BY <1>1, <1>2 DEF ExactBuffer
  <2>1. CASE i = Len(buf) + 1
    <3>1. buf'[i] = Len(lsnOf) + 1 /\ lsnOf'[buf'[i]] = nextLSN
        BY <1>2, <2>1
    <3> QED BY <1>4, <1>5, <2>1, <3>1
  <2>2. CASE i # Len(buf) + 1
    <3>1. i \in 1..Len(buf)
        BY <1>4, <2>2
    <3>2. buf[i] <= Len(lsnOf) /\ lsnOf[buf[i]] = Base(Top) + Size(Top) + i - 1
        BY <1>0, <3>1 DEF ExactBuffer, PlaceInv, BufferInv
    <3>3. buf[i] \in 1..Len(lsnOf) /\ buf'[i] = buf[i]
        BY <1>2, <1>4, <3>1, <3>2, NumberFacts
    <3> QED BY <1>2, <3>2, <3>3
  <2> QED BY <2>1, <2>2
<1>9. ExactNext'
  <2>1. nextLSN + 1 = Base(Top) + Size(Top) + (Len(buf) + 1)
      BY <1>4, <1>5
  <2> QED BY <1>1, <1>2, <1>3, <2>1 DEF ExactNext
<1> QED BY <1>6, <1>7, <1>8, <1>9

\* The active segment is flushed and an empty one follows it.
Rotates ==
    /\ FilesInv'
    /\ Top' = Top + 1
    /\ \A k \in 1..Top : /\ Base(k)' = Base(k) /\ Size(k)' = Size(k) /\ Valid(k)' = Valid(k)
                         /\ Synced(k)' = IF k = Top THEN Size(k) ELSE Synced(k)
                         /\ \A i \in 1..Size(k) : Entry(k, i)' = Entry(k, i)
    /\ \A k \in Nat : k = Top + 1 => Base(k)' = nextLSN /\ Size(k)' = 0 /\ Synced(k)' = 0
    /\ up /\ buf = <<>>
    /\ nextLSN' = nextLSN /\ lsnOf' = lsnOf /\ up' = up /\ damaged' = damaged /\ buf' = buf

\* What a rotation does to the files.
LEMMA RotateRotates ==
    ASSUME DiskInv, LockInv, NEW p \in Procs, Rotate(p)
    PROVE  Rotates
<1> DEFINE s == [segs EXCEPT ![Len(segs)].synced = Len(Active.recs)]
<1> DEFINE e == [base |-> nextLSN, recs |-> <<>>, synced |-> 0]
<1> DEFINE a == [base |-> Active.base, recs |-> Active.recs, synced |-> Len(Active.recs)]
<1>1. s = [segs EXCEPT ![Len(segs)] = a]
  <2>1. Active = [base |-> Active.base, recs |-> Active.recs, synced |-> Active.synced]
      BY ActiveFacts DEF Active
  <2>2. [Active EXCEPT !.synced = Len(Active.recs)] = a
      BY <2>1
  <2> QED BY <2>2 DEF Active
<1>2. a \in Segment /\ a.base = Active.base /\ a.recs = Active.recs /\ a.synced = Len(Active.recs)
    BY ActiveFacts DEF Segment, Active
<1>3. e \in Segment /\ e.base = nextLSN /\ e.recs = <<>> /\ e.synced = 0
    BY DEF Segment, DiskInv
<1>4. segs' = Append(s, e)
    BY DEF Rotate
<1>5. segs \in Seq(Segment) /\ Len(segs) \in 1..Len(segs) /\ Len(segs) \in Nat \ {0}
    BY ActiveFacts DEF DiskInv, FilesInv
<1> HIDE DEF a, e
<1>6. /\ s \in Seq(Segment) /\ Len(s) = Len(segs)
      /\ \A k \in 1..Len(segs) : s[k] = IF k = Len(segs) THEN a ELSE segs[k]
    BY <1>1, <1>2, <1>5, ExceptSeq
<1> HIDE DEF s
<1>7. /\ segs' \in Seq(Segment) /\ Len(segs') = Len(segs) + 1
      /\ \A k \in 1..Len(segs) : segs'[k] = s[k]
      /\ segs'[Len(segs) + 1] = e
  <2>1. /\ Append(s, e) \in Seq(Segment) /\ Len(Append(s, e)) = Len(s) + 1
        /\ \A k \in 1..Len(s) : Append(s, e)[k] = s[k]
        /\ Append(s, e)[Len(s) + 1] = e
      BY <1>3, <1>6, AppendProperties
  <2> QED BY <1>4, <1>6, <2>1
<1>8. \A k \in 1..Len(segs) : k # Len(segs) => segs'[k] = segs[k]
    BY <1>6, <1>7
<1>9. /\ segs'[Len(segs)].base = Active.base /\ segs'[Len(segs)].recs = Active.recs
      /\ segs'[Len(segs)].synced = Len(Active.recs)
    BY <1>2, <1>5, <1>6, <1>7
<1>10. FilesInv'
  <2> SUFFICES ASSUME NEW k \in 1..Len(segs) + 1
               PROVE  segs'[k].synced <= Len(segs'[k].recs)
      BY <1>5, <1>7 DEF FilesInv
  <2>1. CASE k \in 1..Len(segs) /\ k # Len(segs)
      BY <1>8, <2>1, ActiveFacts
  <2>2. CASE k = Len(segs)
      BY <1>5, <1>9, <2>2, ActiveFacts DEF Active
  <2>3. CASE k = Len(segs) + 1
      BY <1>3, <1>7, <2>3
  <2> QED BY <1>5, <2>1, <2>2, <2>3
<1>11. Top' = Top + 1
    BY <1>7 DEF Top
<1>12. ASSUME NEW k \in 1..Top
       PROVE  /\ Base(k)' = Base(k) /\ Size(k)' = Size(k) /\ Valid(k)' = Valid(k)
              /\ Synced(k)' = IF k = Top THEN Size(k) ELSE Synced(k)
              /\ \A i \in 1..Size(k) : Entry(k, i)' = Entry(k, i)
  <2>1. CASE k # Len(segs)
      BY <1>8, <2>1 DEF Top, Base, Size, Valid, Synced, Entry
  <2>2. CASE k = Len(segs)
      BY <1>9, <2>2 DEF Top, Base, Size, Valid, Synced, Entry, Active
  <2> QED BY <2>1, <2>2
<1>13. \A k \in Nat : k = Top + 1 => Base(k)' = nextLSN /\ Size(k)' = 0 /\ Synced(k)' = 0
    BY <1>3, <1>7 DEF Top, Base, Size, Synced
<1>14. up /\ buf = <<>>
    BY Bounds DEF Rotate, LockInv
<1>15. nextLSN' = nextLSN /\ lsnOf' = lsnOf /\ up' = up /\ damaged' = damaged /\ buf' = buf
    BY DEF Rotate
<1> QED BY <1>10, <1>11, <1>12, <1>13, <1>14, <1>15 DEF Rotates

\* The numbers of a rotation.
LEMMA RotatesValues ==
    ASSUME DiskInv, Rotates, NEW t, t = Top
    PROVE  /\ t \in Nat \ {0} /\ t \in 1..Top /\ t + 1 \in Nat /\ Top' = t + 1
           /\ Base(Top)' = nextLSN /\ Size(Top)' = 0 /\ Synced(Top)' = 0
           /\ Base(Top) = Base(t) /\ Size(Top) = Size(t)
           /\ Base(t) \in Nat /\ Size(t) \in Nat /\ nextLSN \in Nat
           /\ Len(buf) = 0 /\ Len(buf') = 0
<1>1. t \in Nat \ {0} /\ t \in 1..Top /\ t + 1 \in Nat /\ Top' = t + 1
    BY Shape DEF Rotates
<1>2. Base(t) \in Nat /\ Size(t) \in Nat /\ nextLSN \in Nat
    BY <1>1, Shape, NumberFacts
<1>3. PICK u \in Nat : u = t + 1
    BY <1>1
<1>4. Base(u)' = nextLSN /\ Size(u)' = 0 /\ Synced(u)' = 0 /\ Top' = u
    BY <1>1, <1>3 DEF Rotates
<1>5. Base(Top)' = nextLSN /\ Size(Top)' = 0 /\ Synced(Top)' = 0
    BY <1>4 DEF Base, Size, Synced
<1>6. Len(buf) = 0 /\ Len(buf') = 0
    BY DEF Rotates
<1> QED BY <1>1, <1>2, <1>5, <1>6

\* The new segment begins at the next LSN.
LEMMA PlaceRotates ==
    ASSUME DiskInv, PlaceInv, Rotates
    PROVE  PlaceInv'
<1> PICK t : t = Top
    OBVIOUS
<1>0. BasesInv /\ EntriesInv /\ NextInv /\ up
    BY DEF PlaceInv, Rotates
<1>1. /\ t \in Nat \ {0} /\ t \in 1..Top /\ t + 1 \in Nat /\ Top' = t + 1
      /\ Base(Top)' = nextLSN /\ Size(Top)' = 0
      /\ Base(Top) = Base(t) /\ Base(t) \in Nat /\ nextLSN \in Nat
      /\ Len(buf) = 0 /\ Len(buf') = 0
    BY RotatesValues
<1>2. /\ nextLSN' = nextLSN /\ lsnOf' = lsnOf /\ up' = up
      /\ \A k \in 1..Top : /\ Base(k)' = Base(k) /\ Size(k)' = Size(k)
                           /\ \A i \in 1..Size(k) : Entry(k, i)' = Entry(k, i)
      /\ \A k \in Nat : k = t + 1 => Base(k)' = nextLSN /\ Size(k)' = 0
    BY DEF Rotates
<1>3. \A k \in 1..Top : Base(k) \in Nat /\ Base(k) <= nextLSN
  <2> SUFFICES ASSUME NEW k \in 1..Top PROVE Base(k) \in Nat /\ Base(k) <= nextLSN
      OBVIOUS
  <2>1. Base(k) \in Nat /\ Base(t) <= nextLSN
      BY <1>0, <1>1, Shape DEF NextInv
  <2>2. Base(k) <= Base(t)
      BY <1>0, <1>1, <2>1 DEF BasesInv
  <2> QED BY <1>1, <2>1, <2>2
<1>4. BasesInv'
  <2> SUFFICES ASSUME NEW k \in 1..t + 1, NEW l \in 1..t + 1, k < l PROVE Base(k)' <= Base(l)'
      BY <1>1 DEF BasesInv
  <2>1. k \in 1..Top
      BY <1>1
  <2>2. CASE l = t + 1
      BY <1>2, <1>3, <2>1, <2>2
  <2>3. CASE l # t + 1
    <3>1. l \in 1..Top
        BY <1>1, <2>3
    <3> QED BY <1>0, <1>2, <2>1, <3>1 DEF BasesInv
  <2> QED BY <2>2, <2>3
<1>5. EntriesInv'
  <2> SUFFICES ASSUME NEW k \in 1..t + 1, NEW i \in 1..Size(k)', Entry(k, i)' # Torn
               PROVE  /\ Entry(k, i)' <= Len(lsnOf)
                      /\ lsnOf[Entry(k, i)'] <= Base(k)' + i - 1
                      /\ \A l \in 1..t + 1 : k < l => lsnOf[Entry(k, i)'] < Base(l)'
                      /\ up => lsnOf[Entry(k, i)'] < nextLSN
      BY <1>1, <1>2 DEF EntriesInv
  <2>1. CASE k = t + 1
      BY <1>1, <1>2, <2>1
  <2>2. CASE k # t + 1
    <3>1. k \in 1..Top /\ i \in 1..Size(k) /\ Entry(k, i)' = Entry(k, i) /\ Base(k)' = Base(k)
        BY <1>1, <1>2, <2>2
    <3>2. /\ Entry(k, i) <= Len(lsnOf)
          /\ lsnOf[Entry(k, i)] <= Base(k) + i - 1
          /\ \A l \in 1..Top : k < l => lsnOf[Entry(k, i)] < Base(l)
          /\ lsnOf[Entry(k, i)] < nextLSN
        BY <1>0, <3>1 DEF EntriesInv
    <3>3. ASSUME NEW l \in 1..t + 1, k < l PROVE lsnOf[Entry(k, i)] < Base(l)'
      <4>1. CASE l = t + 1
          BY <1>1, <1>2, <3>2, <4>1
      <4>2. CASE l # t + 1
        <5>1. l \in 1..Top
            BY <1>1, <4>2
        <5> QED BY <1>2, <3>2, <3>3, <5>1
      <4> QED BY <4>1, <4>2
    <3> QED BY <3>1, <3>2, <3>3
  <2> QED BY <2>1, <2>2
<1>6. BufferInv'
    BY <1>1 DEF BufferInv
<1>7. NextInv'
    BY <1>1, <1>2 DEF NextInv
<1> QED BY <1>4, <1>5, <1>6, <1>7 DEF PlaceInv

\* An undamaged log stays contiguous across a rotation.
LEMMA ExactRotates ==
    ASSUME DiskInv, PlaceInv, ExactInv, Rotates
    PROVE  ExactInv'
<1> SUFFICES ASSUME ~damaged'
             PROVE  ExactEntries' /\ ExactSegments' /\ ExactBuffer' /\ ExactNext'
    BY DEF ExactInv
<1> PICK t : t = Top
    OBVIOUS
<1>0. ExactEntries /\ ExactSegments /\ ExactNext /\ up
    BY DEF ExactInv, Rotates
<1>1. /\ t \in Nat \ {0} /\ t \in 1..Top /\ t + 1 \in Nat /\ Top' = t + 1
      /\ Base(Top)' = nextLSN /\ Size(Top)' = 0
      /\ Base(Top) = Base(t) /\ Size(Top) = Size(t)
      /\ Base(t) \in Nat /\ Size(t) \in Nat /\ nextLSN \in Nat
      /\ Len(buf) = 0 /\ Len(buf') = 0
    BY RotatesValues
<1>2. /\ nextLSN' = nextLSN /\ lsnOf' = lsnOf /\ up' = up
      /\ \A k \in 1..Top : /\ Base(k)' = Base(k) /\ Size(k)' = Size(k)
                           /\ Synced(k)' = IF k = t THEN Size(k) ELSE Synced(k)
                           /\ \A i \in 1..Size(k) : Entry(k, i)' = Entry(k, i)
      /\ \A k \in Nat : k = t + 1 => Base(k)' = nextLSN /\ Size(k)' = 0
    BY DEF Rotates
<1>3. nextLSN = Base(t) + Size(t)
    BY <1>0, <1>1 DEF ExactNext
<1>4. ExactEntries'
  <2> SUFFICES ASSUME NEW k \in 1..t + 1, NEW i \in 1..Size(k)'
               PROVE  Entry(k, i)' # Torn /\ lsnOf[Entry(k, i)'] = Base(k)' + i - 1
      BY <1>1, <1>2 DEF ExactEntries
  <2>1. CASE k = t + 1
      BY <1>1, <1>2, <2>1
  <2>2. CASE k # t + 1
    <3>1. k \in 1..Top /\ i \in 1..Size(k) /\ Entry(k, i)' = Entry(k, i) /\ Base(k)' = Base(k)
        BY <1>1, <1>2, <2>2
    <3> QED BY <1>0, <3>1 DEF ExactEntries
  <2> QED BY <2>1, <2>2
<1>5. ExactSegments'
  <2> SUFFICES ASSUME NEW k \in 1..t + 1, k < t + 1
               PROVE  Synced(k)' = Size(k)' /\ Base(k + 1)' = Base(k)' + Size(k)'
      BY <1>1 DEF ExactSegments
  <2>1. k \in 1..Top /\ k + 1 \in Nat
      BY <1>1
  <2>2. PICK u \in Nat : u = k + 1
      BY <2>1
  <2>3. Base(k + 1)' = Base(u)'
      BY <2>2 DEF Base
  <2>4. CASE k = t
      BY <1>2, <1>3, <2>1, <2>2, <2>3, <2>4
  <2>5. CASE k # t
    <3>1. k < Top /\ u \in 1..Top
        BY <1>1, <2>1, <2>2, <2>5
    <3>2. Synced(k) = Size(k) /\ Base(u) = Base(k) + Size(k)
        BY <1>0, <2>1, <2>2, <3>1 DEF ExactSegments
    <3> QED BY <1>2, <2>1, <2>3, <2>5, <3>1, <3>2
  <2> QED BY <2>4, <2>5
<1>6. ExactBuffer'
    BY <1>1 DEF ExactBuffer
<1>7. ExactNext'
    BY <1>0, <1>1, <1>2 DEF ExactNext
<1> QED BY <1>4, <1>5, <1>6, <1>7

\* The d oldest segments are deleted, never the active one.
Truncates(d) ==
    /\ d \in Nat /\ d >= 1 /\ d < Top
    /\ FilesInv'
    /\ Top' = Top - d
    /\ \A k, l \in 1..Top : l = k + d =>
         /\ Base(k)' = Base(l) /\ Size(k)' = Size(l)
         /\ Synced(k)' = Synced(l) /\ Valid(k)' = Valid(l)
         /\ \A i : Entry(k, i)' = Entry(l, i)
    /\ nextLSN' = nextLSN /\ lsnOf' = lsnOf /\ up' = up /\ damaged' = damaged /\ buf' = buf

\* TruncateBefore drops leading segments.
LEMMA TruncateTruncates ==
    ASSUME DiskInv, NEW lsn, TruncateBefore(lsn)
    PROVE  \E d \in Nat : Truncates(d)
<1> PICK c \in 2..Len(segs) : segs' = SubSeq(segs, c, Len(segs))
    BY DEF TruncateBefore
<1>1. PICK d \in Nat : d = c - 1
    BY ActiveFacts
<1>2. segs \in Seq(Segment) /\ Len(segs) \in Nat \ {0} /\ c \in Nat /\ c >= 2 /\ c <= Len(segs)
    BY ActiveFacts DEF DiskInv, FilesInv
<1>3. /\ segs' \in Seq(Segment)
      /\ Len(segs') = Len(segs) - d
      /\ \A k \in 1..Len(segs) - d : segs'[k] = segs[k + d]
  <2>1. \A i \in c..Len(segs) : segs[i] \in Segment
      BY <1>2, ElementOfSeq
  <2>2. /\ segs' \in Seq(Segment)
        /\ Len(segs') = IF c <= Len(segs) THEN Len(segs) - c + 1 ELSE 0
        /\ \A i \in 1..Len(segs) - c + 1 : segs'[i] = segs[c + i - 1]
      BY <1>2, <2>1, SubSeqProperties
  <2>3. Len(segs) - c + 1 = Len(segs) - d
      BY <1>1, <1>2
  <2>4. \A k \in 1..Len(segs) - d : c + k - 1 = k + d
      BY <1>1, <1>2
  <2> QED BY <1>2, <2>2, <2>3, <2>4
<1>4. d >= 1 /\ d < Top /\ Top' = Top - d
    BY <1>1, <1>2, <1>3 DEF Top
<1>5. FilesInv'
  <2>0. Len(segs') > 0
      BY <1>1, <1>2, <1>3
  <2> SUFFICES ASSUME NEW k \in 1..Len(segs) - d PROVE segs'[k].synced <= Len(segs'[k].recs)
      BY <1>3, <2>0 DEF FilesInv
  <2>1. k + d \in 1..Len(segs)
      BY <1>1, <1>2
  <2> QED BY <1>3, <2>1, ActiveFacts
<1>6. ASSUME NEW k \in 1..Top, NEW l \in 1..Top, l = k + d
      PROVE  /\ Base(k)' = Base(l) /\ Size(k)' = Size(l)
             /\ Synced(k)' = Synced(l) /\ Valid(k)' = Valid(l)
             /\ \A i : Entry(k, i)' = Entry(l, i)
  <2>1. segs'[k] = segs[l]
    <3>1. k \in 1..Len(segs) - d
        BY <1>2, <1>6 DEF Top
    <3> QED BY <1>3, <1>6, <3>1
  <2> QED BY <2>1 DEF Base, Size, Synced, Valid, Entry
<1>7. nextLSN' = nextLSN /\ lsnOf' = lsnOf /\ up' = up /\ damaged' = damaged /\ buf' = buf
    BY DEF TruncateBefore, histVars
<1>8. Truncates(d)
    BY <1>4, <1>5, <1>6, <1>7 DEF Truncates
<1> QED BY <1>8

\* Every segment that is left is one of the old ones.
LEMMA TruncatesValues ==
    ASSUME DiskInv, NEW d, Truncates(d)
    PROVE  /\ Top' \in 1..Top
           /\ Base(Top)' = Base(Top) /\ Size(Top)' = Size(Top)
           /\ Synced(Top)' = Synced(Top) /\ Valid(Top)' = Valid(Top)
           /\ \A k \in 1..Top' : k \in 1..Top /\ k + d \in 1..Top
<1>1. d \in Nat /\ d >= 1 /\ d < Top /\ Top' = Top - d /\ Top \in Nat \ {0}
    BY Shape DEF Truncates
<1>2. Top' \in 1..Top /\ \A k \in 1..Top' : k \in 1..Top /\ k + d \in 1..Top
    BY <1>1
<1>3. PICK k \in 1..Top : k = Top'
    BY <1>2
<1>4. Top = k + d /\ Top \in 1..Top
    BY <1>1, <1>3
<1>5. Base(k)' = Base(Top) /\ Size(k)' = Size(Top) /\ Synced(k)' = Synced(Top) /\ Valid(k)' = Valid(Top)
    BY <1>4 DEF Truncates
<1> QED BY <1>2, <1>3, <1>5 DEF Base, Size, Synced, Valid

\* Dropping leading segments moves no entry.
LEMMA PlaceTruncates ==
    ASSUME DiskInv, PlaceInv, NEW d, Truncates(d)
    PROVE  PlaceInv'
<1>0. BasesInv /\ EntriesInv /\ BufferInv /\ NextInv
    BY DEF PlaceInv
<1>1. /\ Base(Top)' = Base(Top) /\ Size(Top)' = Size(Top)
      /\ \A k \in 1..Top' : k \in 1..Top /\ k + d \in 1..Top
    BY TruncatesValues
<1>2. /\ nextLSN' = nextLSN /\ lsnOf' = lsnOf /\ up' = up /\ buf' = buf /\ d \in Nat
      /\ \A k, l \in 1..Top : l = k + d => /\ Base(k)' = Base(l) /\ Size(k)' = Size(l)
                                           /\ \A i : Entry(k, i)' = Entry(l, i)
    BY DEF Truncates
<1>3. BasesInv'
  <2> SUFFICES ASSUME NEW k \in 1..Top', NEW l \in 1..Top', k < l PROVE Base(k)' <= Base(l)'
      BY DEF BasesInv
  <2>1. PICK k2 \in 1..Top : k2 = k + d
      BY <1>1
  <2>2. PICK l2 \in 1..Top : l2 = l + d
      BY <1>1
  <2>3. k2 < l2 /\ k \in 1..Top /\ l \in 1..Top
      BY <1>1, <1>2, <2>1, <2>2
  <2>4. Base(k)' = Base(k2) /\ Base(l)' = Base(l2)
      BY <1>2, <2>1, <2>2, <2>3
  <2> QED BY <1>0, <2>3, <2>4 DEF BasesInv
<1>4. EntriesInv'
  <2> SUFFICES ASSUME NEW k \in 1..Top', NEW i \in 1..Size(k)', Entry(k, i)' # Torn
               PROVE  /\ Entry(k, i)' <= Len(lsnOf)
                      /\ lsnOf[Entry(k, i)'] <= Base(k)' + i - 1
                      /\ \A l \in 1..Top' : k < l => lsnOf[Entry(k, i)'] < Base(l)'
                      /\ up => lsnOf[Entry(k, i)'] < nextLSN
      BY <1>2 DEF EntriesInv
  <2>1. PICK k2 \in 1..Top : k2 = k + d
      BY <1>1
  <2>2. k \in 1..Top /\ Base(k)' = Base(k2) /\ Size(k)' = Size(k2) /\ Entry(k, i)' = Entry(k2, i)
      BY <1>1, <1>2, <2>1
  <2>3. /\ Entry(k2, i) <= Len(lsnOf)
        /\ lsnOf[Entry(k2, i)] <= Base(k2) + i - 1
        /\ \A l \in 1..Top : k2 < l => lsnOf[Entry(k2, i)] < Base(l)
        /\ up => lsnOf[Entry(k2, i)] < nextLSN
      BY <1>0, <2>2 DEF EntriesInv
  <2>4. ASSUME NEW l \in 1..Top', k < l PROVE lsnOf[Entry(k2, i)] < Base(l)'
    <3>1. PICK l2 \in 1..Top : l2 = l + d
        BY <1>1
    <3>2. k2 < l2 /\ l \in 1..Top
        BY <1>1, <1>2, <2>1, <2>4, <3>1
    <3> QED BY <1>2, <2>3, <3>1, <3>2
  <2> QED BY <2>2, <2>3, <2>4
<1>5. BufferInv'
    BY <1>0, <1>1, <1>2 DEF BufferInv
<1>6. NextInv'
    BY <1>0, <1>1, <1>2 DEF NextInv
<1> QED BY <1>3, <1>4, <1>5, <1>6 DEF PlaceInv

\* What is left is contiguous.
LEMMA ExactTruncates ==
    ASSUME DiskInv, ExactInv, NEW d, Truncates(d)
    PROVE  ExactInv'
<1> SUFFICES ASSUME ~damaged'
             PROVE  ExactEntries' /\ ExactSegments' /\ ExactBuffer' /\ ExactNext'
    BY DEF ExactInv
<1>0. ExactEntries /\ ExactSegments /\ ExactBuffer /\ ExactNext
    BY DEF ExactInv, Truncates
<1>1. /\ Base(Top)' = Base(Top) /\ Size(Top)' = Size(Top) /\ Valid(Top)' = Valid(Top)
      /\ \A k \in 1..Top' : k \in 1..Top /\ k + d \in 1..Top
    BY TruncatesValues
<1>2. /\ nextLSN' = nextLSN /\ lsnOf' = lsnOf /\ up' = up /\ buf' = buf
      /\ d \in Nat /\ Top' = Top - d /\ Top \in Nat
      /\ \A k, l \in 1..Top : l = k + d => /\ Base(k)' = Base(l) /\ Size(k)' = Size(l)
                                           /\ Synced(k)' = Synced(l)
                                           /\ \A i : Entry(k, i)' = Entry(l, i)
    BY Shape DEF Truncates
<1>3. ExactEntries'
  <2> SUFFICES ASSUME NEW k \in 1..Top', NEW i \in 1..Size(k)'
               PROVE  /\ Entry(k, i)' = Torn => ~up /\ k = Top' /\ i = Size(k)'
                      /\ Entry(k, i)' # Torn => lsnOf[Entry(k, i)'] = Base(k)' + i - 1
      BY <1>2 DEF ExactEntries
  <2>1. PICK k2 \in 1..Top : k2 = k + d
      BY <1>1
  <2>2. k \in 1..Top /\ Base(k)' = Base(k2) /\ Size(k)' = Size(k2) /\ Entry(k, i)' = Entry(k2, i)
      BY <1>1, <1>2, <2>1
  <2>3. k2 = Top => k = Top'
      BY <1>2, <2>1, <2>2
  <2> QED BY <1>0, <2>2, <2>3 DEF ExactEntries
<1>4. ExactSegments'
  <2> SUFFICES ASSUME NEW k \in 1..Top', k < Top'
               PROVE  Synced(k)' = Size(k)' /\ Base(k + 1)' = Base(k)' + Size(k)'
      BY DEF ExactSegments
  <2>1. PICK k2 \in 1..Top : k2 = k + d
      BY <1>1
  <2>2. k2 < Top /\ k \in 1..Top /\ k + 1 \in 1..Top /\ k2 + 1 \in 1..Top /\ k2 + 1 = (k + 1) + d
      BY <1>1, <1>2, <2>1
  <2>3. PICK u \in 1..Top : u = k + 1
      BY <2>2
  <2>4. Base(k + 1)' = Base(u)' /\ Base(u)' = Base(k2 + 1)
    <3>1. Base(k + 1)' = Base(u)'
        BY <2>3 DEF Base
    <3>2. k2 + 1 = u + d
        BY <2>2, <2>3
    <3> QED BY <1>2, <2>2, <3>1, <3>2
  <2>5. Synced(k2) = Size(k2) /\ Base(k2 + 1) = Base(k2) + Size(k2)
      BY <1>0, <2>2 DEF ExactSegments
  <2> QED BY <1>2, <2>1, <2>2, <2>4, <2>5
<1>5. ExactBuffer'
    BY <1>0, <1>1, <1>2 DEF ExactBuffer
<1>6. ExactNext'
    BY <1>0, <1>1, <1>2 DEF ExactNext
<1> QED BY <1>3, <1>4, <1>5, <1>6


\* A crash: the active segment keeps what was flushed and a prefix of the rest,
\* perhaps with a torn entry behind it; the buffer is gone.
Cuts ==
    /\ TopStep /\ FilesInv'
    /\ up /\ up' = FALSE /\ buf' = <<>>
    /\ nextLSN' = nextLSN /\ lsnOf' = lsnOf /\ damaged' = damaged
    /\ \A k \in 1..Top : k = Top =>
         /\ Synced(k)' = Synced(k)
         /\ \E n \in 0..Size(k) :
              /\ Synced(k) <= n /\ n <= Size(k)' /\ Size(k)' \in Nat
              /\ Valid(k)' \in Nat /\ Valid(k)' <= n
              /\ \A i \in 1..n : Entry(k, i)' = Entry(k, i)
              /\ \A i \in 1..Size(k)' : i > n => Entry(k, i)' = Torn /\ i = Size(k)'

\* What a crash leaves of the active segment.
LEMMA CrashCuts ==
    ASSUME DiskInv, NEW n \in Nat, NEW torn \in BOOLEAN, Crash(n, torn)
    PROVE  Cuts
<1> DEFINE s == Active.recs
<1> DEFINE R == SubSeq(s, 1, n) \o (IF torn THEN <<Torn>> ELSE <<>>)
<1>1. /\ s \in Seq(0..MaxAppends) /\ Len(s) \in Nat
      /\ Active.synced \in Nat /\ Active.synced <= n /\ n \in 0..Len(s)
  <2>1. s \in Seq(0..MaxAppends) /\ Len(s) \in Nat /\ Active.synced \in Nat
      BY ActiveFacts DEF Active
  <2>2. n \in Active.synced..Len(s)
      BY DEF Crash
  <2> QED BY <2>1, <2>2
<1>2. /\ R \in Seq(0..MaxAppends)
      /\ Len(R) = IF torn THEN n + 1 ELSE n
      /\ \A i \in 1..n : R[i] = s[i]
      /\ torn => R[n + 1] = Torn
    BY <1>1, CutRecs
<1>3. Became(R, Active.synced)
  <2>1. segs' = [segs EXCEPT ![Len(segs)].recs = R]
      BY DEF Crash, Active
  <2> QED BY <2>1, SetRecs
<1> HIDE DEF R
<1>4. Len(R) \in Nat /\ n <= Len(R) /\ Active.synced <= Len(R)
    BY <1>1, <1>2
<1>5. \A i \in 1..Len(R) : i > n => R[i] = Torn /\ i = Len(R)
    BY <1>1, <1>2
<1>6. ValidLen(R) \in Nat /\ ValidLen(R) <= n
  <2>1. R \in Seq(Nat)
      BY <1>2, Bounds
  <2>2. /\ ValidLen(R) \in Nat /\ ValidLen(R) <= Len(R)
        /\ \A i \in 1..ValidLen(R) : R[i] # Torn
      BY <2>1, ValidLenFacts
  <2> QED BY <1>1, <1>2, <2>2
<1>7. /\ TopStep /\ FilesInv'
      /\ \A k \in 1..Top : k = Top =>
           /\ Size(k)' = Len(R) /\ Synced(k)' = Active.synced /\ Valid(k)' = ValidLen(R)
           /\ \A i \in 1..Len(R) : Entry(k, i)' = R[i]
    BY <1>1, <1>2, <1>3, <1>4, BecameTop
<1>8. \A k \in 1..Top : k = Top => /\ Size(k) = Len(s) /\ Synced(k) = Active.synced
                                   /\ \A i : Entry(k, i) = s[i]
    BY DEF Size, Synced, Entry, Top, Active
<1>9. ASSUME NEW k \in 1..Top, k = Top
      PROVE  /\ Synced(k)' = Synced(k)
             /\ \E m \in 0..Size(k) :
                  /\ Synced(k) <= m /\ m <= Size(k)' /\ Size(k)' \in Nat
                  /\ Valid(k)' \in Nat /\ Valid(k)' <= m
                  /\ \A i \in 1..m : Entry(k, i)' = Entry(k, i)
                  /\ \A i \in 1..Size(k)' : i > m => Entry(k, i)' = Torn /\ i = Size(k)'
  <2>1. /\ Size(k)' = Len(R) /\ Synced(k)' = Active.synced /\ Valid(k)' = ValidLen(R)
        /\ \A i \in 1..Len(R) : Entry(k, i)' = R[i]
        /\ Size(k) = Len(s) /\ Synced(k) = Active.synced /\ \A i : Entry(k, i) = s[i]
      BY <1>7, <1>8, <1>9
  <2> HIDE DEF s
  <2>2. \A i \in 1..n : i \in 1..Len(R)
      BY <1>1, <1>4
  <2>3. \A i \in 1..n : Entry(k, i)' = Entry(k, i)
      BY <1>2, <2>1, <2>2
  <2>4. n \in 0..Size(k) /\ Synced(k) <= n /\ n <= Size(k)' /\ Size(k)' \in Nat
      BY <1>1, <1>4, <2>1
  <2>5. \A i \in 1..Size(k)' : i > n => Entry(k, i)' = Torn /\ i = Size(k)'
      BY <1>5, <2>1
  <2> QED BY <1>6, <2>1, <2>3, <2>4, <2>5
<1>10. /\ up /\ up' = FALSE /\ buf' = <<>>
       /\ nextLSN' = nextLSN /\ lsnOf' = lsnOf /\ damaged' = damaged
    BY DEF Crash, histVars
<1> QED BY <1>7, <1>9, <1>10 DEF Cuts

\* A shortened segment has its entries where they were.
LEMMA PlaceCuts ==
    ASSUME DiskInv, PlaceInv, Cuts
    PROVE  PlaceInv'
<1> PICK t : t = Top
    OBVIOUS
<1>0. BasesInv /\ EntriesInv
    BY DEF PlaceInv
<1>1. /\ t \in 1..Top /\ Top' = t /\ t = Top
    BY TopValues DEF Cuts
<1>2. /\ lsnOf' = lsnOf /\ ~up' /\ buf' = <<>>
      /\ \A k \in 1..Top : Base(k)' = Base(k)
      /\ \A k \in 1..Top : k # Top => Same(k)
    BY DEF Cuts, TopStep
<1>3. PICK n \in 0..Size(t) :
        /\ \A i \in 1..n : Entry(t, i)' = Entry(t, i)
        /\ \A i \in 1..Size(t)' : i > n => Entry(t, i)' = Torn
        /\ Size(t)' \in Nat
    BY <1>1 DEF Cuts
<1>4. BasesInv'
    BY <1>0, <1>1, <1>2 DEF BasesInv
<1>5. EntriesInv'
  <2> SUFFICES ASSUME NEW k \in 1..Top', NEW i \in 1..Size(k)', Entry(k, i)' # Torn
               PROVE  /\ Entry(k, i)' <= Len(lsnOf)
                      /\ lsnOf[Entry(k, i)'] <= Base(k) + i - 1
                      /\ \A l \in 1..Top : k < l => lsnOf[Entry(k, i)'] < Base(l)
      BY <1>1, <1>2 DEF EntriesInv
  <2>1. k \in 1..Top /\ i \in 1..Size(k) /\ Entry(k, i)' = Entry(k, i)
    <3>1. CASE k # t
        BY <1>1, <1>2, <3>1 DEF Same
    <3>2. CASE k = t
      <4>1. i \in 1..n /\ Size(t) \in Nat
          BY <1>1, <1>3, <3>2, Shape
      <4> QED BY <1>1, <1>3, <3>2, <4>1
    <3> QED BY <3>1, <3>2
  <2> QED BY <1>0, <2>1 DEF EntriesInv
<1>6. BufferInv'
    BY <1>2 DEF BufferInv
<1>7. NextInv'
    BY <1>2 DEF NextInv
<1> QED BY <1>4, <1>5, <1>6, <1>7 DEF PlaceInv

\* An undamaged log is cut at the end only.
LEMMA ExactCuts ==
    ASSUME DiskInv, ExactInv, Cuts
    PROVE  ExactInv'
<1> SUFFICES ASSUME ~damaged'
             PROVE  ExactEntries' /\ ExactSegments' /\ ExactBuffer' /\ ExactNext'
    BY DEF ExactInv
<1> PICK t : t = Top
    OBVIOUS
<1>0. ExactEntries /\ ExactSegments /\ ExactBuffer /\ ExactNext
    BY DEF ExactInv, Cuts
<1>1. /\ t \in 1..Top /\ Top' = t /\ t = Top
      /\ Base(Top)' = Base(t) /\ Base(Top) = Base(t)
      /\ Size(Top) = Size(t) /\ Valid(Top)' = Valid(t)'
    BY TopValues DEF Cuts
<1>2. /\ lsnOf' = lsnOf /\ ~up' /\ up /\ buf' = <<>> /\ nextLSN' = nextLSN
      /\ \A k \in 1..Top : Base(k)' = Base(k)
      /\ \A k \in 1..Top : k # Top => Same(k)
    BY DEF Cuts, TopStep
<1>3. PICK n \in 0..Size(t) :
        /\ \A i \in 1..n : Entry(t, i)' = Entry(t, i)
        /\ \A i \in 1..Size(t)' : i > n => Entry(t, i)' = Torn /\ i = Size(t)'
        /\ Size(t)' \in Nat
        /\ Valid(t)' \in Nat /\ Valid(t)' <= n
    BY <1>1 DEF Cuts
<1>4. Size(t) \in Nat /\ Base(t) \in Nat /\ Len(buf) \in Nat /\ n \in Nat /\ n <= Size(t)
    BY <1>1, Shape, NumberFacts
<1>5. ExactEntries'
  <2> SUFFICES ASSUME NEW k \in 1..Top', NEW i \in 1..Size(k)'
               PROVE  /\ Entry(k, i)' = Torn => k = Top' /\ i = Size(k)'
                      /\ Entry(k, i)' # Torn => lsnOf[Entry(k, i)'] = Base(k) + i - 1
      BY <1>1, <1>2 DEF ExactEntries
  <2>1. CASE k # t
    <3>1. k \in 1..Top /\ i \in 1..Size(k) /\ Entry(k, i)' = Entry(k, i)
        BY <1>1, <1>2, <2>1 DEF Same
    <3> QED BY <1>0, <1>2, <3>1 DEF ExactEntries
  <2>2. CASE k = t /\ i > n
      BY <1>1, <1>3, <2>2
  <2>3. CASE k = t /\ ~(i > n)
    <3>1. i \in 1..n /\ i \in 1..Size(t)
        BY <1>3, <1>4, <2>3
    <3>2. Entry(t, i)' = Entry(t, i) /\ Entry(t, i) # Torn
        BY <1>0, <1>1, <1>2, <1>3, <3>1 DEF ExactEntries
    <3> QED BY <1>0, <1>1, <2>3, <3>1, <3>2 DEF ExactEntries
  <2> QED BY <2>1, <2>2, <2>3
<1>6. ExactSegments'
  <2> SUFFICES ASSUME NEW k \in 1..Top', k < Top'
               PROVE  Synced(k)' = Size(k)' /\ Base(k + 1)' = Base(k)' + Size(k)'
      BY DEF ExactSegments
  <2>1. k \in 1..Top /\ k + 1 \in 1..Top /\ k < Top /\ k # Top
      BY <1>1, Shape
  <2>2. Base(k + 1)' = Base(k + 1)
      BY <1>2, <2>1 DEF Base
  <2> QED BY <1>0, <1>2, <2>1, <2>2 DEF ExactSegments, Same
<1>7. ExactBuffer'
    BY <1>2 DEF ExactBuffer
<1>8. ExactNext'
  <2>1. nextLSN = Base(t) + Size(t) + Len(buf)
      BY <1>0, <1>1, <1>2 DEF ExactNext
  <2>2. Base(t) + Valid(t)' <= nextLSN
      BY <1>3, <1>4, <2>1
  <2> QED BY <1>1, <1>2, <2>2 DEF ExactNext
<1> QED BY <1>5, <1>6, <1>7, <1>8

\* Open: the active segment is cut before its first torn entry, and the next
\* LSN is the one behind it.
Opens ==
    /\ TopStep /\ FilesInv'
    /\ ~up /\ up' /\ buf = <<>> /\ buf' = buf
    /\ lsnOf' = lsnOf /\ damaged' = damaged
    /\ nextLSN' = Base(Top) + Valid(Top)
    /\ \A k \in 1..Top : k = Top =>
         /\ Size(k)' = Valid(k) /\ Valid(k)' = Valid(k)
         /\ Synced(k)' = IF Valid(k) < Size(k) THEN Valid(k) ELSE Synced(k)
         /\ \A i \in 1..Valid(k) : Entry(k, i)' = Entry(k, i) /\ Entry(k, i) # Torn

\* Open keeps the valid records of the active segment.
LEMMA OpenOpens ==
    ASSUME DiskInv, LockInv, Open
    PROVE  Opens
<1> DEFINE s == Active.recs
<1> DEFINE v == ValidLen(s)
<1> DEFINE R == SubSeq(s, 1, v)
<1> DEFINE Y == IF v < Len(s) THEN v ELSE Active.synced
<1>1. /\ s \in Seq(0..MaxAppends) /\ s \in Seq(Nat) /\ Len(s) \in Nat
      /\ Active.synced \in Nat /\ Active.synced <= Len(s)
    BY ActiveFacts DEF Active
<1>2. v \in Nat /\ v <= Len(s) /\ \A i \in 1..v : s[i] # Torn
    BY <1>1, ValidLenFacts
<1>3. Became(R, Y)
    BY DEF Open, Became, Active
<1>4. nextLSN' = Active.base + v
    BY DEF Open
<1> HIDE DEF v
<1>5. R \in Seq(0..MaxAppends) /\ Len(R) = v /\ \A i \in 1..v : R[i] = s[i]
  <2>1. \A i \in 1..v : s[i] \in 0..MaxAppends
    <3>1. \A i \in 1..v : i \in 1..Len(s)
        BY <1>1, <1>2
    <3> QED BY <1>1, <3>1, ElementOfSeq
  <2> QED BY <1>1, <1>2, <2>1, SubSeqProperties
<1>6. Y \in Nat /\ Y <= v
    BY <1>1, <1>2
<1> HIDE DEF R, Y
<1>7. ValidLen(R) = v
  <2>1. R \in Seq(Nat)
      BY <1>5, Bounds
  <2>2. \A i \in 1..Len(R) : R[i] # Torn
      BY <1>2, <1>5
  <2> QED BY <1>5, <2>1, <2>2, ValidLenWhole
<1>8. /\ TopStep /\ FilesInv'
      /\ \A k \in 1..Top : k = Top =>
           /\ Size(k)' = Len(R) /\ Synced(k)' = Y /\ Valid(k)' = ValidLen(R)
           /\ \A i \in 1..Len(R) : Entry(k, i)' = R[i]
    BY <1>3, <1>5, <1>6, BecameTop
<1>9. \A k \in 1..Top : k = Top =>
        /\ Size(k) = Len(s) /\ Synced(k) = Active.synced /\ Valid(k) = v
        /\ \A i : Entry(k, i) = s[i]
    BY DEF Size, Synced, Entry, Valid, Top, Active, v
<1>10. Base(Top) = Active.base /\ Valid(Top) = v
    BY DEF Base, Valid, Top, Active, v
<1>11. ASSUME NEW k \in 1..Top, k = Top
       PROVE  /\ Size(k)' = Valid(k) /\ Valid(k)' = Valid(k)
              /\ Synced(k)' = IF Valid(k) < Size(k) THEN Valid(k) ELSE Synced(k)
              /\ \A i \in 1..Valid(k) : Entry(k, i)' = Entry(k, i) /\ Entry(k, i) # Torn
  <2>1. /\ Size(k)' = v /\ Synced(k)' = Y /\ Valid(k)' = v
        /\ \A i \in 1..v : Entry(k, i)' = R[i]
        /\ Size(k) = Len(s) /\ Synced(k) = Active.synced /\ Valid(k) = v
        /\ \A i : Entry(k, i) = s[i]
      BY <1>5, <1>7, <1>8, <1>9, <1>11
  <2>2. Synced(k)' = IF Valid(k) < Size(k) THEN Valid(k) ELSE Synced(k)
      BY <2>1 DEF Y
  <2> QED BY <1>2, <1>5, <2>1, <2>2
<1>12. /\ ~up /\ up' /\ buf' = buf /\ lsnOf' = lsnOf /\ damaged' = damaged
    BY DEF Open
<1>13. buf = <<>>
    BY <1>12 DEF LockInv
<1> QED BY <1>4, <1>8, <1>10, <1>11, <1>12, <1>13 DEF Opens


\* Open counts the next LSN behind every entry.
LEMMA PlaceOpens ==
    ASSUME DiskInv, PlaceInv, Opens
    PROVE  PlaceInv'
<1> PICK t : t = Top
    OBVIOUS
<1>0. BasesInv /\ EntriesInv
    BY DEF PlaceInv
<1>1. /\ t \in 1..Top /\ Top' = t /\ t = Top
      /\ Base(Top)' = Base(t) /\ Base(Top) = Base(t) /\ Base(t)' = Base(t)
      /\ Valid(Top) = Valid(t) /\ Size(Top)' = Size(t)'
    BY TopValues DEF Opens
<1>2. /\ lsnOf' = lsnOf /\ up' /\ buf' = <<>>
      /\ nextLSN' = Base(t) + Valid(t)
      /\ \A k \in 1..Top : Base(k)' = Base(k)
      /\ \A k \in 1..Top : k # Top => Same(k)
    BY <1>1 DEF Opens, TopStep
<1>3. /\ Size(t)' = Valid(t)
      /\ \A i \in 1..Valid(t) : Entry(t, i)' = Entry(t, i)
    BY <1>1 DEF Opens
<1>4. /\ Size(t) \in Nat /\ Base(t) \in Nat /\ Valid(t) \in Nat /\ Valid(t) <= Size(t)
      /\ \A k \in 1..Top : Base(k) \in Nat /\ Size(k) \in Nat
    BY <1>1, Shape
<1>5. BasesInv'
    BY <1>0, <1>1, <1>2 DEF BasesInv
<1>6. EntriesInv'
  <2> SUFFICES ASSUME NEW k \in 1..Top', NEW i \in 1..Size(k)', Entry(k, i)' # Torn
               PROVE  /\ Entry(k, i)' <= Len(lsnOf)
                      /\ lsnOf[Entry(k, i)'] <= Base(k) + i - 1
                      /\ \A l \in 1..Top : k < l => lsnOf[Entry(k, i)'] < Base(l)
                      /\ lsnOf[Entry(k, i)'] < nextLSN'
      BY <1>1, <1>2 DEF EntriesInv
  <2>1. k \in 1..Top /\ i \in 1..Size(k) /\ Entry(k, i)' = Entry(k, i) /\ (k = t => i <= Valid(t))
    <3>1. CASE k # t
        BY <1>1, <1>2, <3>1 DEF Same
    <3>2. CASE k = t
        BY <1>1, <1>3, <1>4, <3>2
    <3> QED BY <3>1, <3>2
  <2>2. /\ Entry(k, i) <= Len(lsnOf)
        /\ lsnOf[Entry(k, i)] <= Base(k) + i - 1
        /\ \A l \in 1..Top : k < l => lsnOf[Entry(k, i)] < Base(l)
        /\ lsnOf[Entry(k, i)] \in Nat
      BY <1>0, <2>1, EntryRecord DEF EntriesInv
  <2>3. lsnOf[Entry(k, i)] < nextLSN'
    <3>1. CASE k = t
        BY <1>2, <1>4, <2>1, <2>2, <3>1
    <3>2. CASE k # t
      <4>1. k < t
          BY <1>1, <2>1, <3>2, Shape
      <4>2. lsnOf[Entry(k, i)] < Base(t)
          BY <1>1, <2>2, <4>1
      <4> QED BY <1>2, <1>4, <2>2, <4>2
    <3> QED BY <3>1, <3>2
  <2> QED BY <2>1, <2>2, <2>3
<1>7. BufferInv'
    BY <1>2 DEF BufferInv
<1>8. NextInv'
  <2>1. Len(buf') = 0
      BY <1>2
  <2> QED BY <1>1, <1>2, <1>3, <1>4, <2>1 DEF NextInv
<1> QED BY <1>5, <1>6, <1>7, <1>8 DEF PlaceInv

\* Open gives an undamaged log its exact next LSN.
LEMMA ExactOpens ==
    ASSUME DiskInv, ExactInv, Opens
    PROVE  ExactInv'
<1> SUFFICES ASSUME ~damaged'
             PROVE  ExactEntries' /\ ExactSegments' /\ ExactBuffer' /\ ExactNext'
    BY DEF ExactInv
<1> PICK t : t = Top
    OBVIOUS
<1>0. ExactEntries /\ ExactSegments
    BY DEF ExactInv, Opens
<1>1. /\ t \in 1..Top /\ Top' = t /\ t = Top
      /\ Base(Top)' = Base(t) /\ Base(Top) = Base(t)
      /\ Valid(Top) = Valid(t) /\ Size(Top)' = Size(t)'
    BY TopValues DEF Opens
<1>2. /\ lsnOf' = lsnOf /\ up' /\ buf' = <<>>
      /\ nextLSN' = Base(t) + Valid(t)
      /\ \A k \in 1..Top : Base(k)' = Base(k)
      /\ \A k \in 1..Top : k # Top => Same(k)
    BY <1>1 DEF Opens, TopStep
<1>3. /\ Size(t)' = Valid(t)
      /\ \A i \in 1..Valid(t) : Entry(t, i)' = Entry(t, i) /\ Entry(t, i) # Torn
    BY <1>1 DEF Opens
<1>4. Size(t) \in Nat /\ Base(t) \in Nat /\ Valid(t) \in Nat /\ Valid(t) <= Size(t)
    BY <1>1, Shape
<1>5. ExactEntries'
  <2> SUFFICES ASSUME NEW k \in 1..Top', NEW i \in 1..Size(k)'
               PROVE  /\ Entry(k, i)' # Torn
                      /\ lsnOf[Entry(k, i)'] = Base(k) + i - 1
      BY <1>1, <1>2 DEF ExactEntries
  <2>1. k \in 1..Top /\ i \in 1..Size(k) /\ Entry(k, i)' = Entry(k, i) /\ Entry(k, i) # Torn
    <3>1. CASE k # t
        BY <1>0, <1>1, <1>2, <3>1 DEF Same, ExactEntries
    <3>2. CASE k = t
        BY <1>1, <1>3, <1>4, <3>2
    <3> QED BY <3>1, <3>2
  <2> QED BY <1>0, <2>1 DEF ExactEntries
<1>6. ExactSegments'
  <2> SUFFICES ASSUME NEW k \in 1..Top', k < Top'
               PROVE  Synced(k)' = Size(k)' /\ Base(k + 1)' = Base(k)' + Size(k)'
      BY DEF ExactSegments
  <2>1. k \in 1..Top /\ k + 1 \in 1..Top /\ k < Top /\ k # Top
      BY <1>1, Shape
  <2>2. Base(k + 1)' = Base(k + 1)
      BY <1>2, <2>1 DEF Base
  <2> QED BY <1>0, <1>2, <2>1, <2>2 DEF ExactSegments, Same
<1>7. ExactBuffer'
    BY <1>2 DEF ExactBuffer
<1>8. ExactNext'
  <2>1. Len(buf') = 0
      BY <1>2
  <2> QED BY <1>1, <1>2, <1>3, <1>4, <2>1 DEF ExactNext
<1> QED BY <1>5, <1>6, <1>7, <1>8

\* The files, the buffer and the numbers stay.
Stays ==
    /\ segs' = segs /\ buf' = buf /\ nextLSN' = nextLSN /\ lsnOf' = lsnOf
    /\ up' = up /\ damaged' = damaged

\* A step that leaves the files alone keeps places.
LEMMA PlaceStays ==
    ASSUME PlaceInv, Stays
    PROVE  PlaceInv'
BY SameFiles DEF Stays, PlaceInv, BasesInv, EntriesInv, BufferInv, NextInv

\* And keeps an undamaged log exact.
LEMMA ExactStays ==
    ASSUME ExactInv, Stays
    PROVE  ExactInv'
BY DEF Stays, ExactInv, ExactEntries, ExactSegments, ExactBuffer, ExactNext,
       Top, Base, Size, Synced, Valid, Entry


-----------------------------------------------------------------------------
(* Which kind of change each action makes *)

LEMMA WriteGrows ==
    ASSUME DiskInv, Write, nextLSN' = nextLSN, lsnOf' = lsnOf, up' = up, damaged' = damaged
    PROVE  Grows
<1>1. Became(Active.recs \o buf, Active.synced)
  <2>1. segs' = [segs EXCEPT ![Len(segs)].recs = Active.recs \o buf]
      BY DEF Write, Active
  <2> QED BY <2>1, SetRecs
<1>2. Active.synced \in Nat /\ buf' = <<>>
    BY NumberFacts DEF Write
<1>3. Extends(Active.recs \o buf, Active.synced)
    BY <1>1, <1>2, WriteExtends
<1> QED BY <1>3, ExtendsGrows

\* A failed write makes the files grow.
LEMMA FailedWriteGrows ==
    ASSUME DiskInv, NEW k \in Nat, NEW torn \in BOOLEAN, WriteFails(k, torn),
           lsnOf' = lsnOf, up' = up
    PROVE  Grows
BY WriteFailsExtends, ExtendsGrows

\* The flushed part of the active segment becomes Y.
LEMMA SyncGrows ==
    ASSUME DiskInv, NEW Y \in Nat, segs' = [segs EXCEPT ![Len(segs)].synced = Y],
           Y >= Active.synced, Y <= Len(Active.recs), buf' = buf,
           nextLSN' = nextLSN, lsnOf' = lsnOf, up' = up, damaged' = damaged
    PROVE  /\ Grows
           /\ \A k \in 1..Top : k = Top => Size(k)' = Size(k) /\ Synced(k)' = Y
<1>1. Became(Active.recs, Y)
    BY SetSynced
<1>2. Extends(Active.recs, Y)
    BY <1>1, SyncExtends
<1>3. Active.recs \in Seq(0..MaxAppends)
    BY ActiveFacts DEF Active
<1>4. \A k \in 1..Top : k = Top => Size(k)' = Len(Active.recs) /\ Synced(k)' = Y
    BY <1>1, <1>3, BecameTop
<1> QED BY <1>2, <1>4, ExtendsGrows DEF Size, Top, Active

\* A rotation fails before or after its flush, with an empty buffer.
LEMMA RotateFailsKind ==
    ASSUME DiskInv, LockInv, NEW p \in Procs, RotateFails(p)
    PROVE  /\ up /\ buf = <<>> /\ buf' = <<>>
           /\ \/ Stays /\ claimed' = claimed
              \/ /\ Grows /\ claimed' = Higher(claimed, nextLSN - 1) /\ damaged' = damaged
                 /\ \A k \in 1..Top : k = Top => Size(k)' = Size(k) /\ Synced(k)' = Size(k)
<1>1. up /\ buf = <<>> /\ buf' = <<>>
    BY Bounds DEF RotateFails, LockInv
<1>2. /\ buf' = buf /\ nextLSN' = nextLSN /\ lsnOf' = lsnOf /\ up' = up /\ damaged' = damaged
    BY DEF RotateFails
<1>3. CASE UNCHANGED <<segs, claimed>>
    BY <1>1, <1>2, <1>3 DEF Stays
<1>4. CASE /\ segs' = [segs EXCEPT ![Len(segs)].synced = Len(Active.recs)]
           /\ claimed' = Higher(claimed, nextLSN - 1)
  <2>1. Len(Active.recs) \in Nat /\ Len(Active.recs) >= Active.synced
      BY ActiveFacts DEF Active
  <2>2. Len(Active.recs) <= Len(Active.recs)
      BY <2>1
  <2>3. /\ Grows
        /\ \A k \in 1..Top : k = Top => Size(k)' = Size(k) /\ Synced(k)' = Len(Active.recs)
      BY <1>2, <1>4, <2>1, <2>2, SyncGrows
  <2> QED BY <1>1, <1>2, <1>4, <2>3 DEF Size, Top, Active
<1> QED BY <1>3, <1>4 DEF RotateFails

\* A number read at the start of the flush: the flush never lowers synced.
LEMMA FsyncEndKind ==
    ASSUME DiskInv, LockInv, FlushInv, NEW t \in Threads, FsyncEnd(t)
    PROVE  /\ Grows /\ buf' = buf /\ damaged' = damaged /\ up
           /\ mark[t] \in Nat
           /\ \A k \in 1..Top : k = Top => /\ Size(k)' = Size(k)
                                           /\ Synced(k)' = Higher(Synced(k), mark[t])
<1>1. mark[t] \in Nat /\ mark[t] <= Len(Active.recs)
  <2>1. mark[t] <= Size(Top)
      BY DEF FsyncEnd, FlushInv
  <2> QED BY <2>1 DEF LockInv, Size, Top, Active
<1>2. Active.synced \in Nat /\ Len(Active.recs) \in Nat /\ Active.synced <= Len(Active.recs)
    BY ActiveFacts DEF Active
<1> DEFINE Y == Higher(Active.synced, mark[t])
<1>3. Y \in Nat /\ Y >= Active.synced /\ Y <= Len(Active.recs)
    BY <1>1, <1>2 DEF Higher
<1>4. segs' = [segs EXCEPT ![Len(segs)].synced = Y]
    BY DEF FsyncEnd, Active
<1>5. /\ buf' = buf /\ nextLSN' = nextLSN /\ lsnOf' = lsnOf /\ up' = up /\ damaged' = damaged /\ up
    BY DEF FsyncEnd
<1> HIDE DEF Y
<1>6. /\ Grows
      /\ \A k \in 1..Top : k = Top => Size(k)' = Size(k) /\ Synced(k)' = Y
    BY <1>3, <1>4, <1>5, SyncGrows
<1> QED BY <1>1, <1>5, <1>6 DEF Y, Synced, Top, Active

\* Close writes and flushes everything.
LEMMA CloseKind ==
    ASSUME DiskInv, Close
    PROVE  /\ Grows /\ buf' = <<>> /\ damaged' = damaged /\ up
           /\ \A k \in 1..Top : k = Top => Synced(k)' = Size(k)'
<1> DEFINE Y == Len(Active.recs) + Len(buf)
<1> DEFINE R == Active.recs \o buf
<1>1. Y \in Nat
    BY NumberFacts
<1>2. Became(R, Y)
    BY DEF Close, Became, Active
<1>3. /\ buf' = <<>> /\ nextLSN' = nextLSN /\ lsnOf' = lsnOf /\ up' = up /\ damaged' = damaged /\ up
    BY DEF Close, MuFree
<1>4. Extends(R, Y)
    BY <1>1, <1>2, <1>3, WriteExtends
<1>5. R \in Seq(0..MaxAppends) /\ Len(R) = Y
    BY WrittenRecs
<1> HIDE DEF R, Y
<1>6. Y <= Len(R)
    BY <1>1, <1>5
<1>7. \A k \in 1..Top : k = Top => Size(k)' = Len(R) /\ Synced(k)' = Y
    BY <1>1, <1>2, <1>5, <1>6, BecameTop
<1> QED BY <1>3, <1>4, <1>5, <1>7, ExtendsGrows

\* Appending and the end of a rotation frame a record.
LEMMA FrameFrames ==
    ASSUME DiskInv, LockInv, NEW p \in Procs, NEW next,
           AppendRecord(p, next) \/ RotateEnd(p, next)
    PROVE  Frames
<1>1. CASE AppendRecord(p, next)
    BY <1>1 DEF AppendRecord, Frame, Frames, MuFree
<1>2. CASE RotateEnd(p, next)
  <2>1. Len(lsnOf) < MaxAppends
      BY <1>2, Bounds DEF RotateEnd, LockInv
  <2> QED BY <1>2, <2>1 DEF RotateEnd, Frame, Frames
<1> QED BY <1>1, <1>2


\* What a step does to the files.
FileStep ==
    \/ Stays
    \/ Grows /\ up
    \/ Frames
    \/ Rotates /\ NoFsync
    \/ \E d \in Nat : Truncates(d)
    \/ Cuts
    \/ Opens

\* Every step is of one of these kinds.
LEMMA NextFileStep ==
    ASSUME DiskInv, LockInv, FlushInv, [Next]_vars
    PROVE  FileStep
<1>1. CASE UNCHANGED vars
    BY <1>1 DEF vars, fileVars, histVars, FileStep, Stays
<1>2. ASSUME NEW p \in Procs, NEW next \in AfterAppend, AppendRecord(p, next)
      PROVE  FileStep
    BY <1>2, FrameFrames DEF FileStep
<1>3. ASSUME NEW p \in Procs, RotateBegin(p)
      PROVE  FileStep
    BY <1>3, WriteGrows DEF FileStep, RotateBegin, histVars, MuFree
<1>4. ASSUME NEW t \in Threads, Step(t)
      PROVE  FileStep
  <2>1. CASE t \in Procs /\ Rotate(t)
      BY <2>1, RotateRotates DEF FileStep, Rotate
  <2>2. CASE t \in Procs /\ RotateFails(t)
      BY <2>2, RotateFailsKind DEF FileStep
  <2>3. CASE Commit(t)
      BY <2>3 DEF FileStep, Stays, Commit, fileVars, histVars
  <2>4. ASSUME t \in Procs, NEW next \in AfterAppend, RotateEnd(t, next)
        PROVE  FileStep
      BY <2>4, FrameFrames DEF FileStep
  <2>5. CASE TakeBatch
      BY <2>5 DEF FileStep, Stays, TakeBatch, fileVars, histVars
  <2>6. CASE Drain(t)
      BY <2>6, WriteGrows DEF FileStep, Drain, histVars, MuFree
  <2>7. CASE SyncRefused(t)
      BY <2>7 DEF FileStep, Stays, SyncRefused, fileVars
  <2>8. CASE FsyncBegin(t)
      BY <2>8 DEF FileStep, Stays, FsyncBegin, fileVars, histVars
  <2>9. CASE FsyncEnd(t)
      BY <2>9, FsyncEndKind DEF FileStep
  <2> QED BY <1>4, <2>1, <2>2, <2>3, <2>4, <2>5, <2>6, <2>7, <2>8, <2>9 DEF Step
<1>5. ASSUME NEW t \in Threads, FsyncFails(t)
      PROVE  FileStep
    BY <1>5 DEF FileStep, Stays, FsyncFails, fileVars
<1>6. ASSUME NEW t \in Threads, NEW k \in 0..MaxAppends, NEW torn \in BOOLEAN,
             DrainFails(t, k, torn) \/ RotateWriteFails(t, k, torn)
      PROVE  FileStep
  <2>1. WriteFails(k, torn) /\ lsnOf' = lsnOf /\ up' = up /\ up
    <3>1. CASE DrainFails(t, k, torn)
        BY <3>1 DEF DrainFails, MuFree
    <3>2. CASE RotateWriteFails(t, k, torn)
        BY <3>2 DEF RotateWriteFails, MuFree
    <3> QED BY <1>6, <3>1, <3>2
  <2>2. k \in Nat
      BY Bounds
  <2> QED BY <2>1, <2>2, FailedWriteGrows DEF FileStep
<1>7. ASSUME NEW lsn, TruncateBefore(lsn)
      PROVE  FileStep
    BY <1>7, TruncateTruncates DEF FileStep
<1>8. CASE Replay
    BY <1>8, WriteGrows DEF FileStep, Replay, histVars, MuFree
<1>9. ASSUME NEW k \in 0..MaxAppends, NEW torn \in BOOLEAN,
             ReplayFails(k, torn) \/ CloseWriteFails(k, torn)
      PROVE  FileStep
  <2>1. k \in Nat /\ WriteFails(k, torn) /\ lsnOf' = lsnOf /\ up' = up /\ up
      BY <1>9, Bounds DEF ReplayFails, CloseWriteFails, MuFree
  <2> QED BY <2>1, FailedWriteGrows DEF FileStep
<1>10. CASE Close
    BY <1>10, CloseKind DEF FileStep
<1>11. CASE CloseFails
  <2>1. CASE broken /\ UNCHANGED <<segs, buf, faults>>
      BY <1>11, <2>1 DEF FileStep, Stays, CloseFails, histVars
  <2>2. CASE Write
      BY <1>11, <2>2, WriteGrows DEF FileStep, CloseFails, histVars, MuFree
  <2> QED BY <1>11, <2>1, <2>2 DEF CloseFails
<1>12. ASSUME NEW n \in 0..(2 * MaxAppends), NEW torn \in BOOLEAN, Crash(n, torn)
       PROVE  FileStep
  <2>1. n \in Nat
      BY Bounds
  <2> QED BY <1>12, <2>1, CrashCuts DEF FileStep
<1>13. CASE Open
    BY <1>13, OpenOpens DEF FileStep
<1> QED BY <1>1, <1>2, <1>3, <1>4, <1>5, <1>6, <1>7, <1>8, <1>9, <1>10, <1>11, <1>12, <1>13 DEF Next

\* Every kind keeps the types of the files, and the places of the records.
LEMMA FileStepPlace ==
    ASSUME DiskInv, PlaceInv, ExactInv, FileStep
    PROVE  PlaceInv' /\ ExactInv'
BY PlaceStays, PlaceGrows, PlaceFrames, PlaceRotates, PlaceTruncates, PlaceCuts, PlaceOpens,
   ExactStays, ExactGrows, ExactFrames, ExactRotates, ExactTruncates, ExactCuts, ExactOpens
   DEF FileStep

\* Each kind keeps the types of the files.
LEMMA FileStepTypes ==
    ASSUME DiskInv, FileStep
    PROVE  /\ FilesInv'
           /\ buf' \in Seq(1..MaxAppends)
           /\ nextLSN' \in Nat \ {0}
           /\ lsnOf' \in Seq(Nat \ {0})
           /\ Len(lsnOf') \in Nat /\ Len(lsnOf') <= MaxAppends
           /\ Len(lsnOf) <= Len(lsnOf')
           /\ \A r \in 1..Len(lsnOf) : lsnOf'[r] = lsnOf[r]
           /\ up' \in BOOLEAN /\ damaged' \in BOOLEAN
           /\ damaged => damaged'
<1>0. /\ buf \in Seq(1..MaxAppends) /\ nextLSN \in Nat \ {0} /\ lsnOf \in Seq(Nat \ {0})
      /\ Len(lsnOf) \in Nat /\ Len(lsnOf) <= MaxAppends
      /\ up \in BOOLEAN /\ damaged \in BOOLEAN /\ FilesInv
      /\ <<>> \in Seq(1..MaxAppends) /\ Len(lsnOf) <= Len(lsnOf)
    BY NumberFacts DEF DiskInv
<1>1. CASE Stays
    BY <1>0, <1>1 DEF Stays, FilesInv
<1>2. CASE Grows
  <2>1. /\ FilesInv' /\ nextLSN' = nextLSN /\ lsnOf' = lsnOf /\ up' = up /\ damaged' \in BOOLEAN
      BY <1>2 DEF Grows
  <2>2. (buf' = buf \/ buf' = <<>>) /\ (~damaged' => ~damaged)
      BY <1>2, Shape DEF Grows
  <2> QED BY <1>0, <2>1, <2>2
<1>3. CASE Frames
  <2>1. FilesInv' /\ up' = up /\ damaged' = damaged /\ nextLSN' \in Nat \ {0}
      BY <1>0, <1>3, SameFiles DEF Frames
  <2>2. /\ lsnOf' \in Seq(Nat \ {0}) /\ buf' \in Seq(1..MaxAppends)
        /\ Len(lsnOf') = Len(lsnOf) + 1
        /\ Len(lsnOf') \in Nat /\ Len(lsnOf') <= MaxAppends
        /\ \A r \in 1..Len(lsnOf) : lsnOf'[r] = lsnOf[r]
      BY <1>3, FrameFacts
  <2>3. Len(lsnOf) <= Len(lsnOf')
      BY <1>0, <2>2
  <2> QED BY <1>0, <2>1, <2>2, <2>3
<1>4. CASE Rotates
    BY <1>0, <1>4 DEF Rotates
<1>5. CASE \E d \in Nat : Truncates(d)
    BY <1>0, <1>5 DEF Truncates
<1>6. CASE Cuts
    BY <1>0, <1>6 DEF Cuts
<1>7. CASE Opens
  <2>1. Base(Top) + Valid(Top) \in Nat \ {0}
      BY Shape
  <2> QED BY <1>0, <1>7, <2>1 DEF Opens
<1> QED BY <1>1, <1>2, <1>3, <1>4, <1>5, <1>6, <1>7 DEF FileStep


-----------------------------------------------------------------------------
(* The types are kept *)

\* Those who are told wait for an answer.
LEMMA ToldExpect ==
    ASSUME LockInv, NEW t \in Threads, pc[t] \in {"drain", "rlock", "fsync"}
    PROVE  \A p \in Told(t) : p \in Procs /\ Expects(p)
<1> SUFFICES ASSUME NEW p \in Told(t) PROVE p \in Procs /\ Expects(p)
    OBVIOUS
<1>1. CASE t = Flusher
  <2>1. p \in batch /\ p \in Procs
      BY <1>1 DEF Told, LockInv
  <2>2. pc[p] = "wait"
      BY <2>1 DEF LockInv
  <2> QED BY <2>1, <2>2 DEF Expects
<1>2. CASE t # Flusher
    BY <1>2 DEF Told, Threads, Expects
<1> QED BY <1>1, <1>2

\* Whoever is answered has a record of the log.
LEMMA ToldRecords ==
    ASSUME LockInv, FlushInv, NEW t \in Threads, pc[t] \in {"drain", "rlock", "fsync"}
    PROVE  \A p \in Told(t) : rec[p] \in 1..Len(lsnOf)
BY ToldExpect DEF FlushInv

\* The greater of two numbers.
LEMMA HigherFacts ==
    ASSUME NEW a \in Nat, NEW b \in Nat
    PROVE  /\ Higher(a, b) \in Nat /\ Higher(a, b) >= a /\ Higher(a, b) >= b
           /\ Higher(a, b) = a \/ Higher(a, b) = b
BY DEF Higher

\* Every step keeps the types of the files and numbers.
LEMMA DiskStep ==
    ASSUME DiskInv, LockInv, FlushInv, [Next]_vars
    PROVE  DiskInv'
<1> DEFINE Rest == /\ activeSize' \in Nat /\ claimed' \in Nat
                   /\ closed' \in BOOLEAN /\ broken' \in BOOLEAN
                   /\ confirmed' \subseteq 1..Len(lsnOf)
<1>0. /\ activeSize \in Nat /\ claimed \in Nat /\ closed \in BOOLEAN /\ broken \in BOOLEAN
      /\ confirmed \subseteq 1..Len(lsnOf) /\ nextLSN \in Nat \ {0}
    BY DEF DiskInv
<1>a. nextLSN - 1 \in Nat /\ activeSize + 1 \in Nat
    BY <1>0
<1>b. Higher(claimed, nextLSN - 1) \in Nat
    BY <1>0, <1>a, HigherFacts
<1> SUFFICES Rest
  <2>1. /\ FilesInv'
        /\ buf' \in Seq(1..MaxAppends) /\ nextLSN' \in Nat \ {0} /\ lsnOf' \in Seq(Nat \ {0})
        /\ Len(lsnOf') \in Nat /\ Len(lsnOf') <= MaxAppends /\ Len(lsnOf) <= Len(lsnOf')
        /\ up' \in BOOLEAN /\ damaged' \in BOOLEAN
      BY NextFileStep, FileStepTypes
  <2>2. 1..Len(lsnOf) \subseteq 1..Len(lsnOf')
      BY <2>1, NumberFacts
  <2> QED BY <2>1, <2>2 DEF DiskInv
<1>1. CASE UNCHANGED <<activeSize, claimed, closed, broken, confirmed>>
    BY <1>0, <1>1
<1>2. ASSUME NEW p \in Procs, NEW next \in AfterAppend, AppendRecord(p, next)
      PROVE  Rest
    BY <1>0, <1>a, <1>2 DEF AppendRecord
<1>3. ASSUME NEW p \in Procs, RotateBegin(p)
      PROVE  Rest
    BY <1>1, <1>3 DEF RotateBegin, histVars
<1>4. ASSUME NEW t \in Threads, Step(t)
      PROVE  Rest
  <2>1. CASE Rotate(t)
      BY <1>0, <1>b, <2>1 DEF Rotate
  <2>2. CASE RotateFails(t)
    <3>1. /\ broken' \in BOOLEAN /\ (claimed' = claimed \/ claimed' = Higher(claimed, nextLSN - 1))
        BY <1>0, <2>2 DEF RotateFails
    <3>2. UNCHANGED <<activeSize, closed, confirmed>>
        BY <2>2 DEF RotateFails
    <3> QED BY <1>0, <1>b, <3>1, <3>2
  <2>3. CASE Commit(t)
      BY <1>1, <2>3 DEF Commit, fileVars, histVars
  <2>4. ASSUME NEW next \in AfterAppend, RotateEnd(t, next)
        PROVE  Rest
      BY <1>0, <1>a, <2>4 DEF RotateEnd
  <2>5. CASE TakeBatch
      BY <1>1, <2>5 DEF TakeBatch, fileVars, histVars
  <2>6. CASE Drain(t)
      BY <1>1, <2>6 DEF Drain, histVars
  <2>7. CASE SyncRefused(t)
      BY <1>1, <2>7 DEF SyncRefused, fileVars, Answer
  <2>8. CASE FsyncBegin(t)
      BY <1>1, <2>8 DEF FsyncBegin, fileVars, histVars
  <2>9. CASE FsyncEnd(t)
    <3>1. \A p \in Told(t) : rec[p] \in 1..Len(lsnOf)
        BY <2>9, ToldRecords DEF FsyncEnd
    <3>2. confirmed' = confirmed \cup {rec[p] : p \in Told(t)}
        BY <2>9 DEF FsyncEnd, Answer, Told
    <3>3. confirmed' \subseteq 1..Len(lsnOf)
        BY <1>0, <3>1, <3>2
    <3>4. claimed' \in Nat
        BY <1>0, <2>9, HigherFacts DEF FsyncEnd, LockInv
    <3>5. UNCHANGED <<activeSize, closed, broken>>
        BY <2>9 DEF FsyncEnd
    <3> QED BY <1>0, <3>3, <3>4, <3>5
  <2> QED BY <1>4, <2>1, <2>2, <2>3, <2>4, <2>5, <2>6, <2>7, <2>8, <2>9 DEF Step
<1>5. ASSUME NEW t \in Threads, FsyncFails(t)
      PROVE  Rest
    BY <1>1, <1>5 DEF FsyncFails, fileVars, Answer
<1>6. ASSUME NEW t \in Threads, NEW k \in 0..MaxAppends, NEW torn \in BOOLEAN,
             DrainFails(t, k, torn) \/ RotateWriteFails(t, k, torn)
      PROVE  Rest
  <2>1. CASE DrainFails(t, k, torn)
      BY <1>1, <2>1 DEF DrainFails, WriteFails, Answer
  <2>2. CASE RotateWriteFails(t, k, torn)
      BY <1>1, <2>2 DEF RotateWriteFails, WriteFails
  <2> QED BY <1>6, <2>1, <2>2
<1>7. ASSUME NEW lsn, TruncateBefore(lsn)
      PROVE  Rest
    BY <1>1, <1>7 DEF TruncateBefore, histVars
<1>8. CASE Replay
    BY <1>1, <1>8 DEF Replay, histVars
<1>9. ASSUME NEW k \in 0..MaxAppends, NEW torn \in BOOLEAN,
             ReplayFails(k, torn) \/ CloseWriteFails(k, torn)
      PROVE  Rest
  <2>1. UNCHANGED <<activeSize, claimed, broken, confirmed>> /\ closed' \in {closed, TRUE}
      BY <1>9 DEF ReplayFails, CloseWriteFails, WriteFails
  <2> QED BY <1>0, <2>1
<1>10. CASE Close
    BY <1>0, <1>b, <1>10 DEF Close
<1>11. CASE CloseFails
    BY <1>0, <1>11 DEF CloseFails, histVars
<1>12. ASSUME NEW n, NEW torn, Crash(n, torn)
       PROVE  Rest
    BY <1>1, <1>12 DEF Crash, histVars
<1>13. CASE Open
  <2>1. activeSize' \in Nat
    <3>1. activeSize' = Valid(Top)
        BY <1>13 DEF Open, Valid, Top, Active
    <3> QED BY <3>1, Shape
  <2> QED BY <1>0, <1>13, <2>1 DEF Open
<1>14. CASE UNCHANGED vars
    BY <1>1, <1>14 DEF vars, fileVars, histVars
<1> HIDE DEF Rest
<1> QED BY <1>2, <1>3, <1>4, <1>5, <1>6, <1>7, <1>8, <1>9, <1>10, <1>11, <1>12, <1>13, <1>14
        DEF Next


-----------------------------------------------------------------------------
(* Who holds the lock, who waits and who serves *)

\* The answer lets the callers of the flush go and sends the flushLoop back to
\* the queue.
Answered(t) ==
    /\ pc' = [u \in Threads |-> IF u = Flusher /\ t = Flusher THEN "take"
                                ELSE IF u \in Told(t) THEN "idle" ELSE pc[u]]
    /\ batch' = IF t = Flusher THEN {} ELSE batch
    /\ waiters' = waiters /\ running' = running

\* Answering keeps who holds and waits for what.
LEMMA AnswerLock ==
    ASSUME LockInv, NEW t \in Threads, pc[t] \in {"drain", "rlock", "fsync"},
           Answered(t), UNCHANGED <<rotator, rec, target, mark, up, lsnOf, buf>>
    PROVE  LockInv'
<1>1. /\ pc' = [u \in Threads |-> IF u = Flusher /\ t = Flusher THEN "take"
                                  ELSE IF u \in Told(t) THEN "idle" ELSE pc[u]]
      /\ batch' = IF t = Flusher THEN {} ELSE batch
      /\ waiters' = waiters /\ running' = running
    BY DEF Answered
<1>2. Flusher \in Threads /\ \A p \in Procs : p \in Threads /\ p # Flusher
    BY Bounds DEF Threads
<1>3. up /\ \A u \in Threads : u # Flusher => u \in Procs
    BY DEF LockInv, Threads
<1>4. CASE t = Flusher
  <2>1. /\ batch' = {} /\ pc'[Flusher] = "take" /\ running
        /\ \A p \in Procs : pc'[p] = IF p \in batch THEN "idle" ELSE pc[p]
      BY <1>1, <1>2, <1>4 DEF Told, LockInv
  <2>2. pc' \in [Threads -> PCs]
      BY <1>1 DEF LockInv, PCs
  <2> QED BY <1>1, <1>2, <1>3, <2>1, <2>2 DEF LockInv
<1>5. CASE t # Flusher
  <2>1. /\ batch' = batch /\ pc'[Flusher] = pc[Flusher] /\ t \in Procs
        /\ \A p \in Procs : pc'[p] = IF p = t THEN "idle" ELSE pc[p]
      BY <1>1, <1>2, <1>3, <1>5 DEF Told
  <2>2. pc' \in [Threads -> PCs]
      BY <1>1 DEF LockInv, PCs
  <2> QED BY <1>1, <1>2, <1>3, <2>1, <2>2 DEF LockInv
<1> QED BY <1>4, <1>5

\* A crash leaves nobody waiting.
LEMMA CrashLock ==
    ASSUME LockInv, NEW n, NEW torn, Crash(n, torn)
    PROVE  LockInv'
<1>1. Flusher \in Threads /\ \A p \in Procs : p \in Threads /\ p # Flusher
    BY Bounds DEF Threads
<1>2. /\ rotator' = None /\ waiters' = {} /\ batch' = {} /\ running' = FALSE
      /\ pc' = [t \in Threads |-> IF t = Flusher THEN "off" ELSE "idle"]
      /\ rec' = [t \in Threads |-> 0] /\ target' = [t \in Threads |-> 0]
      /\ mark' = [t \in Threads |-> 0]
      /\ up' = FALSE /\ buf' = <<>>
    BY DEF Crash
<1>3. pc' \in [Threads -> PCs] /\ pc'[Flusher] = "off" /\ \A p \in Procs : pc'[p] = "idle"
    BY <1>1, <1>2 DEF PCs
<1>4. rec' \in [Threads -> 0..MaxAppends] /\ target' \in [Threads -> Nat] /\ mark' \in [Threads -> Nat]
    BY <1>2, Bounds
<1>5. \A p \in Procs : p # None
    BY Bounds
<1>6. \A t \in Threads : pc'[t] \in {"idle", "off"}
    BY <1>2
<1> QED BY <1>2, <1>3, <1>4, <1>5, <1>6 DEF LockInv

\* The steps of a goroutine p outside the flush.
LEMMA FrameLock ==
    ASSUME DiskInv, LockInv, NEW p \in Procs, NEW next \in AfterAppend,
           AppendRecord(p, next) \/ RotateEnd(p, next)
    PROVE  LockInv'
<1>1. Flusher \in Threads /\ p \in Threads /\ p # Flusher /\ p # None /\ None \notin Procs
    BY Bounds DEF Threads
<1>2. next \in {"commit", "drain", "idle"} /\ next \in PCs
    BY DEF AfterAppend, PCs
<1>3. /\ pc' = [pc EXCEPT ![p] = next]
      /\ rec' = [rec EXCEPT ![p] = Len(lsnOf) + 1]
      /\ UNCHANGED <<waiters, batch, running, target, mark, up>>
      /\ up /\ rotator' = None /\ rotator \in {None, p}
      /\ pc[p] \in {"idle", "frame"}
    BY DEF AppendRecord, RotateEnd, Frame, MuFree, commVars, LockInv
<1>4. Len(lsnOf) + 1 \in 0..MaxAppends
    BY FrameFrames, NumberFacts, Bounds DEF Frames
<1>5. pc' \in [Threads -> PCs] /\ rec' \in [Threads -> 0..MaxAppends]
    BY <1>1, <1>2, <1>3, <1>4 DEF LockInv
<1>6. pc'[p] = next /\ \A u \in Threads : u # p => pc'[u] = pc[u]
    BY <1>1, <1>3 DEF LockInv
<1>7. \A q \in Procs : q \in Threads
    BY DEF Threads
<1> QED BY <1>1, <1>2, <1>3, <1>5, <1>6, <1>7 DEF LockInv

\* So does a rotation.
LEMMA RotateLock ==
    ASSUME LockInv, NEW p \in Procs, RotateBegin(p) \/ Rotate(p) \/ RotateFails(p)
    PROVE  LockInv'
<1>1. Flusher \in Threads /\ p \in Threads /\ p # Flusher /\ p # None /\ None \notin Procs
    BY Bounds DEF Threads
<1>2. \A q \in Procs : q \in Threads
    BY DEF Threads
<1>3. CASE RotateBegin(p)
  <2>1. /\ pc' = [pc EXCEPT ![p] = "rotate"] /\ rotator' = p /\ rotator = None /\ buf' = <<>>
        /\ UNCHANGED <<waiters, batch, running, rec, target, mark, up, lsnOf>>
        /\ up /\ pc[p] = "idle" /\ Len(lsnOf) < MaxAppends
      BY <1>3 DEF RotateBegin, Write, MuFree, commVars, histVars
  <2>2. pc' \in [Threads -> PCs] /\ pc'[p] = "rotate" /\ \A u \in Threads : u # p => pc'[u] = pc[u]
      BY <1>1, <2>1 DEF LockInv, PCs
  <2> QED BY <1>1, <1>2, <2>1, <2>2 DEF LockInv
<1>4. CASE Rotate(p)
  <2>1. /\ pc' = [pc EXCEPT ![p] = "frame"]
        /\ UNCHANGED <<waiters, batch, running, rec, target, mark, up, lsnOf, rotator, buf>>
        /\ up /\ pc[p] = "rotate"
      BY <1>4 DEF Rotate, commVars
  <2>2. pc' \in [Threads -> PCs] /\ pc'[p] = "frame" /\ \A u \in Threads : u # p => pc'[u] = pc[u]
      BY <1>1, <2>1 DEF LockInv, PCs
  <2> QED BY <1>1, <1>2, <2>1, <2>2 DEF LockInv
<1>5. CASE RotateFails(p)
  <2>1. /\ pc' = [pc EXCEPT ![p] = "idle"] /\ rotator' = None
        /\ UNCHANGED <<waiters, batch, running, rec, target, mark, up, lsnOf, buf>>
        /\ up /\ pc[p] = "rotate"
      BY <1>5 DEF RotateFails, commVars
  <2>2. pc' \in [Threads -> PCs] /\ pc'[p] = "idle" /\ \A u \in Threads : u # p => pc'[u] = pc[u]
      BY <1>1, <2>1 DEF LockInv, PCs
  <2>3. rotator = p
      BY <2>1 DEF LockInv
  <2> QED BY <1>1, <1>2, <2>1, <2>2, <2>3 DEF LockInv
<1> QED BY <1>3, <1>4, <1>5

\* So does joining the queue, which starts a flushLoop if none runs.
LEMMA CommitLock ==
    ASSUME LockInv, NEW p \in Procs, Commit(p)
    PROVE  LockInv'
<1>1. Flusher \in Threads /\ p \in Threads /\ p # Flusher
    BY Bounds DEF Threads
<1>2. \A q \in Procs : q \in Threads /\ q # Flusher
    BY Bounds DEF Threads
<1>3. /\ pc' = [pc EXCEPT ![p] = "wait", ![Flusher] = IF running THEN @ ELSE "take"]
      /\ waiters' = waiters \cup {p} /\ running' = TRUE
      /\ UNCHANGED <<batch, rotator, rec, target, mark, up, lsnOf, buf>>
      /\ up /\ pc[p] = "commit"
    BY DEF Commit, fileVars, histVars
<1>4. /\ pc' \in [Threads -> PCs] /\ pc'[p] = "wait"
      /\ pc'[Flusher] = IF running THEN pc[Flusher] ELSE "take"
      /\ \A q \in Procs : q # p => pc'[q] = pc[q]
    BY <1>1, <1>2, <1>3 DEF LockInv, PCs
<1>5. pc[Flusher] = "off" => batch = {}
    BY DEF LockInv
<1> QED BY <1>1, <1>2, <1>3, <1>4, <1>5 DEF LockInv

\* So does taking the queue as a batch, or ending on an empty one.
LEMMA TakeBatchLock ==
    ASSUME LockInv, TakeBatch
    PROVE  LockInv'
<1>1. Flusher \in Threads
    BY DEF Threads
<1>2. \A q \in Procs : q \in Threads /\ q # Flusher
    BY Bounds DEF Threads
<1>3. /\ pc' = [pc EXCEPT ![Flusher] = IF waiters = {} THEN "off" ELSE "drain"]
      /\ waiters' = {} /\ batch' = waiters /\ running' = (waiters # {})
      /\ UNCHANGED <<rotator, rec, target, mark, up, lsnOf, buf>>
      /\ up /\ pc[Flusher] = "take"
    BY DEF TakeBatch, fileVars, histVars
<1>4. /\ pc' \in [Threads -> PCs]
      /\ pc'[Flusher] = IF waiters = {} THEN "off" ELSE "drain"
      /\ \A q \in Procs : pc'[q] = pc[q]
    BY <1>1, <1>2, <1>3 DEF LockInv, PCs
<1>5. batch = {}
    BY <1>3 DEF LockInv
<1> QED BY <1>1, <1>2, <1>3, <1>4, <1>5 DEF LockInv

\* So does a step of Sync.
LEMMA SyncLock ==
    ASSUME DiskInv, LockInv, NEW t \in Threads, Drain(t) \/ FsyncBegin(t)
    PROVE  LockInv'
<1>1. Flusher \in Threads
    BY DEF Threads
<1>2. \A q \in Procs : q \in Threads /\ q # Flusher
    BY Bounds DEF Threads
<1>3. PICK to \in {"rlock", "fsync"} : pc' = [pc EXCEPT ![t] = to]
    BY DEF Drain, FsyncBegin
<1>4. /\ UNCHANGED <<waiters, batch, running, rotator, rec, up, lsnOf>>
      /\ up /\ pc[t] \in {"drain", "rlock"} /\ buf' \in {buf, <<>>}
    BY DEF Drain, FsyncBegin, Write, MuFree, fileVars, commVars, histVars
<1>5. /\ pc' \in [Threads -> PCs] /\ pc'[t] = to
      /\ \A u \in Threads : u # t => pc'[u] = pc[u]
    BY <1>3 DEF LockInv, PCs
<1>6. target' \in [Threads -> Nat] /\ mark' \in [Threads -> Nat]
  <2>1. nextLSN - 1 \in Nat /\ Len(Active.recs) \in Nat
      BY NumberFacts
  <2>2. CASE Drain(t)
      BY <2>1, <2>2 DEF Drain, LockInv
  <2>3. CASE FsyncBegin(t)
      BY <2>1, <2>3 DEF FsyncBegin, LockInv
  <2> QED BY <2>2, <2>3
<1> QED BY <1>1, <1>2, <1>3, <1>4, <1>5, <1>6 DEF LockInv


\* Every step keeps who holds, waits and serves.
LEMMA LockStep ==
    ASSUME DiskInv, LockInv, [Next]_vars
    PROVE  LockInv'
<1>0. CASE /\ UNCHANGED <<rotator, commVars, procVars, lsnOf>> /\ buf' \in {buf, <<>>}
           /\ up' = up \/ up' = TRUE
    BY <1>0 DEF LockInv, commVars, procVars
<1>1. CASE UNCHANGED vars
    BY <1>0, <1>1 DEF vars, fileVars, histVars
<1>2. ASSUME NEW p \in Procs, NEW next \in AfterAppend, AppendRecord(p, next)
      PROVE  LockInv'
    BY <1>2, FrameLock
<1>3. ASSUME NEW p \in Procs, RotateBegin(p)
      PROVE  LockInv'
    BY <1>3, RotateLock
<1>4. ASSUME NEW t \in Threads, Step(t)
      PROVE  LockInv'
  <2>1. CASE t \in Procs /\ (Rotate(t) \/ RotateFails(t) \/ Commit(t))
      BY <2>1, RotateLock, CommitLock
  <2>2. ASSUME t \in Procs, NEW next \in AfterAppend, RotateEnd(t, next)
        PROVE  LockInv'
      BY <2>2, FrameLock
  <2>3. CASE TakeBatch
      BY <2>3, TakeBatchLock
  <2>4. CASE Drain(t) \/ FsyncBegin(t)
      BY <2>4, SyncLock
  <2>5. CASE SyncRefused(t)
    <3>1. Answered(t) /\ UNCHANGED <<rotator, rec, target, mark, up, lsnOf, buf>>
        BY <2>5 DEF SyncRefused, fileVars, Answer, Answered, Told
    <3>2. pc[t] \in {"drain", "rlock", "fsync"}
        BY <2>5 DEF SyncRefused
    <3> QED BY <3>1, <3>2, AnswerLock
  <2>6. CASE FsyncEnd(t)
    <3>1. Answered(t) /\ UNCHANGED <<rotator, rec, target, mark, up, lsnOf, buf>>
        BY <2>6 DEF FsyncEnd, Answer, Answered, Told
    <3>2. pc[t] \in {"drain", "rlock", "fsync"}
        BY <2>6 DEF FsyncEnd
    <3> QED BY <3>1, <3>2, AnswerLock
  <2> QED BY <1>4, <2>1, <2>2, <2>3, <2>4, <2>5, <2>6 DEF Step
<1>5. ASSUME NEW t \in Threads, FsyncFails(t)
      PROVE  LockInv'
  <2>1. Answered(t) /\ UNCHANGED <<rotator, rec, target, mark, up, lsnOf, buf>>
      BY <1>5 DEF FsyncFails, fileVars, Answer, Answered, Told
  <2>2. pc[t] \in {"drain", "rlock", "fsync"}
      BY <1>5 DEF FsyncFails
  <2> QED BY <2>1, <2>2, AnswerLock
<1>6. ASSUME NEW t \in Threads, NEW k \in 0..MaxAppends, NEW torn \in BOOLEAN,
             DrainFails(t, k, torn) \/ RotateWriteFails(t, k, torn)
      PROVE  LockInv'
  <2>1. CASE DrainFails(t, k, torn)
    <3>1. Answered(t) /\ UNCHANGED <<rotator, rec, target, mark, up, lsnOf, buf>>
        BY <2>1 DEF DrainFails, WriteFails, Answer, Answered, Told
    <3>2. pc[t] \in {"drain", "rlock", "fsync"}
        BY <2>1 DEF DrainFails
    <3> QED BY <3>1, <3>2, AnswerLock
  <2>2. CASE RotateWriteFails(t, k, torn)
      BY <1>0, <2>2 DEF RotateWriteFails, WriteFails
  <2> QED BY <1>6, <2>1, <2>2
<1>7. ASSUME NEW lsn, TruncateBefore(lsn)
      PROVE  LockInv'
    BY <1>0, <1>7 DEF TruncateBefore, histVars
<1>8. CASE Replay
    BY <1>0, <1>8 DEF Replay, histVars, Write
<1>9. ASSUME NEW k \in 0..MaxAppends, NEW torn \in BOOLEAN,
             ReplayFails(k, torn) \/ CloseWriteFails(k, torn)
      PROVE  LockInv'
    BY <1>0, <1>9 DEF ReplayFails, CloseWriteFails, WriteFails
<1>10. CASE Close
    BY <1>0, <1>10 DEF Close
<1>11. CASE CloseFails
    BY <1>0, <1>11 DEF CloseFails, histVars, Write
<1>12. ASSUME NEW n, NEW torn, Crash(n, torn)
       PROVE  LockInv'
    BY <1>12, CrashLock
<1>13. CASE Open
    BY <1>0, <1>13 DEF Open
<1> QED BY <1>1, <1>2, <1>3, <1>4, <1>5, <1>6, <1>7, <1>8, <1>9, <1>10, <1>11, <1>12, <1>13 DEF Next


-----------------------------------------------------------------------------
(* What the flushes cover *)

\* Record r is in the log, or its segment was truncated.
Kept(r) == lsnOf[r] < Base(1) \/ Written(r) \/ Buffered(r)

\* The active segment is the same file and no shorter.
ActiveKept ==
    /\ Base(Top)' = Base(Top) /\ Size(Top)' >= Size(Top) /\ Synced(Top)' >= Synced(Top)
    /\ Size(Top)' \in Nat /\ Synced(Top)' \in Nat

\* While the process runs no record is lost.
LEMMA GrowsKeeps ==
    ASSUME DiskInv, Grows, NEW r \in 1..Len(lsnOf), Kept(r)
    PROVE  Kept(r)'
<1>1. /\ Top' = Top /\ \A k \in 1..Top : Base(k)' = Base(k)
      /\ \A k \in 1..Top : k # Top => Same(k)
      /\ lsnOf' = lsnOf /\ 1 \in 1..Top /\ Top \in 1..Top
    BY Shape DEF Grows, TopStep
<1> PICK t : t = Top
    OBVIOUS
<1>2. /\ t \in 1..Top /\ Size(t)' \in Nat /\ Size(t)' >= Size(t)
      /\ \A i \in 1..Size(t) : Entry(t, i)' = Entry(t, i)
      /\ \/ buf' = buf
         \/ /\ buf' = <<>>
            /\ Size(t)' = Size(t) + Len(buf)
            /\ \A i, j \in Nat : j \in 1..Len(buf) /\ i = Size(t) + j => Entry(t, i)' = buf[j]
    BY <1>1 DEF Grows
<1>3. \A k \in 1..Top : Size(k) \in Nat
    BY Shape
<1>4. CASE lsnOf[r] < Base(1)
    BY <1>1, <1>4 DEF Kept
<1>5. CASE Written(r)
  <2> PICK k \in 1..Top : \E i \in 1..Size(k) : Entry(k, i) = r
      BY <1>5 DEF Written
  <2> PICK i \in 1..Size(k) : Entry(k, i) = r
      OBVIOUS
  <2>1. i \in 1..Size(k)' /\ Entry(k, i)' = r
    <3>1. CASE k = t
        BY <1>2, <1>3, <3>1
    <3>2. CASE k # t
        BY <1>1, <3>2 DEF Same
    <3> QED BY <3>1, <3>2
  <2>2. Written(r)'
      BY <1>1, <2>1 DEF Written
  <2> QED BY <2>2 DEF Kept
<1>6. CASE Buffered(r)
  <2> PICK j \in 1..Len(buf) : buf[j] = r
      BY <1>6 DEF Buffered
  <2>1. CASE buf' = buf
      BY <2>1 DEF Kept, Buffered
  <2>2. CASE /\ Size(t)' = Size(t) + Len(buf)
             /\ \A i, l \in Nat : l \in 1..Len(buf) /\ i = Size(t) + l => Entry(t, i)' = buf[l]
    <3>1. PICK i \in Nat : i = Size(t) + j
        BY <1>2, <1>3
    <3>a. Size(t) \in Nat /\ Len(buf) \in Nat /\ Size(t)' = Size(t) + Len(buf)
        BY <1>2, <1>3, <2>2, NumberFacts
    <3>2. i \in 1..Size(t)' /\ j \in Nat
        BY <3>1, <3>a
    <3>3. Entry(t, i)' = r
        BY <2>2, <3>1, <3>2
    <3>4. Written(r)'
        BY <1>1, <1>2, <3>2, <3>3 DEF Written
    <3> QED BY <3>4 DEF Kept
  <2> QED BY <1>2, <2>1, <2>2
<1> QED BY <1>4, <1>5, <1>6 DEF Kept

\* Framing loses no record.
LEMMA FramesKeeps ==
    ASSUME DiskInv, Frames, NEW r \in 1..Len(lsnOf), Kept(r)
    PROVE  Kept(r)'
<1>1. /\ Top' = Top /\ \A k : /\ Base(k)' = Base(k) /\ Size(k)' = Size(k)
                              /\ \A i : Entry(k, i)' = Entry(k, i)
    BY SameFiles DEF Frames
<1>2. /\ lsnOf'[r] = lsnOf[r] /\ Len(buf') = Len(buf) + 1 /\ Len(buf) \in Nat
      /\ \A i \in 1..Len(buf) : buf'[i] = buf[i]
    BY FrameFacts, NumberFacts
<1>3. Buffered(r) => Buffered(r)'
    BY <1>2 DEF Buffered
<1>4. Written(r) => Written(r)'
    BY <1>1 DEF Written
<1> QED BY <1>1, <1>2, <1>3, <1>4 DEF Kept

\* A rotation loses no record.
LEMMA RotatesKeeps ==
    ASSUME DiskInv, Rotates, NEW r \in 1..Len(lsnOf), Kept(r)
    PROVE  Kept(r)'
<1>1. /\ Top' = Top + 1 /\ lsnOf' = lsnOf /\ buf' = buf
      /\ \A k \in 1..Top : /\ Base(k)' = Base(k) /\ Size(k)' = Size(k)
                           /\ \A i \in 1..Size(k) : Entry(k, i)' = Entry(k, i)
    BY DEF Rotates
<1>2. Top \in Nat /\ 1 \in 1..Top
    BY Shape
<1>3. \A k \in 1..Top : k \in 1..Top'
    BY <1>1, <1>2
<1>4. Written(r) => Written(r)'
    BY <1>1, <1>3 DEF Written
<1>5. Buffered(r) => Buffered(r)'
    BY <1>1 DEF Buffered
<1> QED BY <1>1, <1>2, <1>4, <1>5 DEF Kept

\* Truncation deletes only records below the new first base.
LEMMA TruncatesKeeps ==
    ASSUME DiskInv, PlaceInv, NEW d, Truncates(d), NEW r \in 1..Len(lsnOf), Kept(r)
    PROVE  Kept(r)'
<1>0. BasesInv /\ EntriesInv
    BY DEF PlaceInv
<1>1. /\ d \in Nat /\ d >= 1 /\ d < Top /\ Top' = Top - d /\ lsnOf' = lsnOf /\ buf' = buf
      /\ \A k, l \in 1..Top : l = k + d => /\ Base(k)' = Base(l) /\ Size(k)' = Size(l)
                                           /\ \A i : Entry(k, i)' = Entry(l, i)
    BY DEF Truncates
<1>2. Top \in Nat /\ 1 \in 1..Top /\ \A k \in 1..Top : Base(k) \in Nat
    BY Shape
<1>3. PICK u \in 1..Top : u = 1 + d
    BY <1>1, <1>2
<1>4. Base(1)' = Base(u) /\ 1 < u
    BY <1>1, <1>2, <1>3
<1>5. lsnOf[r] \in Nat
    BY NumberFacts
<1>6. CASE lsnOf[r] < Base(1)
  <2>1. Base(1) <= Base(u)
      BY <1>0, <1>2, <1>4 DEF BasesInv
  <2> QED BY <1>1, <1>2, <1>4, <1>5, <1>6, <2>1 DEF Kept
<1>7. CASE Written(r)
  <2> PICK k \in 1..Top : \E i \in 1..Size(k) : Entry(k, i) = r
      BY <1>7 DEF Written
  <2> PICK i \in 1..Size(k) : Entry(k, i) = r
      OBVIOUS
  <2>1. CASE k < u
    <3>1. lsnOf[r] < Base(u)
      <4>1. Entry(k, i) # Torn
          BY NumberFacts
      <4> QED BY <1>0, <2>1, <4>1 DEF EntriesInv
    <3> QED BY <1>1, <1>4, <3>1 DEF Kept
  <2>2. CASE ~(k < u)
    <3>1. PICK k2 \in 1..Top : k = k2 + d
      <4>1. k - d \in 1..Top /\ k = (k - d) + d
          BY <1>1, <1>2, <1>3, <2>2
      <4> QED BY <4>1
    <3>2. k2 \in 1..Top' /\ Size(k2)' = Size(k) /\ Entry(k2, i)' = r
      <4>1. k2 \in 1..Top'
          BY <1>1, <1>2, <3>1
      <4> QED BY <1>1, <3>1, <4>1
    <3>3. Written(r)'
        BY <3>2 DEF Written
    <3> QED BY <3>3 DEF Kept
  <2> QED BY <2>1, <2>2
<1>8. CASE Buffered(r)
    BY <1>1, <1>8 DEF Kept, Buffered
<1> QED BY <1>6, <1>7, <1>8 DEF Kept

\* Writing loses no record of the active segment.
LEMMA GrowsActive ==
    ASSUME DiskInv, Grows
    PROVE  ActiveKept
<1> PICK t : t = Top
    OBVIOUS
<1>1. /\ t \in 1..Top
      /\ Base(Top)' = Base(t) /\ Base(Top) = Base(t)
      /\ Size(Top)' = Size(t)' /\ Size(Top) = Size(t)
      /\ Synced(Top)' = Synced(t)' /\ Synced(Top) = Synced(t)
    BY TopValues DEF Grows
<1>2. /\ Size(t)' \in Nat /\ Size(t)' >= Size(t)
      /\ Synced(t)' \in Nat /\ Synced(t)' >= Synced(t)
    BY <1>1 DEF Grows
<1> QED BY <1>1, <1>2 DEF ActiveKept

\* No step of a running log loses a record.
LEMMA FileStepUp ==
    ASSUME DiskInv, PlaceInv, FileStep, up, up'
    PROVE  /\ nextLSN <= nextLSN'
           /\ \A r \in 1..Len(lsnOf) : Kept(r) => Kept(r)'
           /\ \/ ActiveKept
              \/ NoFsync /\ Base(Top)' = nextLSN /\ nextLSN' = nextLSN /\ Synced(Top)' = 0
<1>0. /\ nextLSN \in Nat /\ Size(Top) \in Nat /\ Synced(Top) \in Nat
    BY Shape, NumberFacts
<1>1. CASE Stays
  <2>1. /\ Top' = Top /\ ActiveKept
        /\ \A k : /\ Base(k)' = Base(k) /\ Size(k)' = Size(k) /\ \A i : Entry(k, i)' = Entry(k, i)
      BY <1>0, <1>1, SameFiles DEF Stays, ActiveKept
  <2>2. \A r \in 1..Len(lsnOf) : Kept(r) => Kept(r)'
      BY <1>1, <2>1 DEF Stays, Kept, Written, Buffered
  <2> QED BY <1>0, <1>1, <2>1, <2>2 DEF Stays
<1>2. CASE Grows
    BY <1>0, <1>2, GrowsKeeps, GrowsActive DEF Grows
<1>3. CASE Frames
  <2>1. ActiveKept
      BY <1>0, <1>3, SameFiles DEF ActiveKept, Frames
  <2> QED BY <1>0, <1>3, <2>1, FramesKeeps DEF Frames
<1>4. CASE Rotates /\ NoFsync
  <2>1. PICK t : t = Top
      OBVIOUS
  <2>2. Base(Top)' = nextLSN /\ Synced(Top)' = 0
      BY <1>4, <2>1, RotatesValues
  <2> QED BY <1>0, <1>4, <2>2, RotatesKeeps DEF Rotates
<1>5. ASSUME NEW d \in Nat, Truncates(d)
      PROVE  /\ nextLSN <= nextLSN'
             /\ \A r \in 1..Len(lsnOf) : Kept(r) => Kept(r)'
             /\ ActiveKept
  <2>1. ActiveKept
      BY <1>0, <1>5, TruncatesValues DEF ActiveKept
  <2>2. nextLSN <= nextLSN'
      BY <1>0, <1>5 DEF Truncates
  <2>3. \A r \in 1..Len(lsnOf) : Kept(r) => Kept(r)'
      BY <1>5, TruncatesKeeps
  <2> QED BY <2>1, <2>2, <2>3
<1>6. CASE Cuts
    BY <1>6 DEF Cuts
<1>7. CASE Opens
    BY <1>7 DEF Opens
<1> QED BY <1>1, <1>2, <1>3, <1>4, <1>5, <1>6, <1>7 DEF FileStep


\* How a step may change what the callers expect, what a flush covers and what
\* was claimed.
Callers ==
    \A p \in Procs : Expects(p)' =>
        \/ Expects(p) /\ rec'[p] = rec[p]
        \/ Frames /\ rec'[p] = Len(lsnOf) + 1

KeepsFlush(t) ==
    /\ pc'[t] = pc[t] /\ target'[t] = target[t] /\ mark'[t] = mark[t]
    /\ \A p \in Told(t)' : p \in Told(t) /\ rec'[p] = rec[p]

Drains(t) ==
    /\ pc'[t] = "rlock" /\ target'[t] = nextLSN - 1 /\ nextLSN' = nextLSN /\ buf' = <<>>
    /\ \A p \in Told(t)' : p \in Procs /\ Expects(p) /\ rec'[p] = rec[p]

Begins(t) ==
    /\ pc[t] = "rlock" /\ pc'[t] = "fsync" /\ target'[t] = target[t] /\ mark'[t] = Size(Top)
    /\ Stays
    /\ \A p \in Told(t)' : p \in Told(t) /\ rec'[p] = rec[p]

Flushes ==
    \A t \in Threads : pc'[t] \in {"rlock", "fsync"} => KeepsFlush(t) \/ Drains(t) \/ Begins(t)

Claims ==
    \/ claimed' = claimed
    \/ /\ claimed' = Higher(claimed, nextLSN - 1) /\ nextLSN' = nextLSN /\ buf' = <<>>
       /\ Synced(Top)' = Size(Top)'
    \/ \E t \in Threads : /\ pc[t] = "fsync"
                          /\ claimed' = Higher(claimed, target[t])
                          /\ ActiveKept /\ Synced(Top)' >= mark[t]

\* Callers keep the record they wait for.
LEMMA CallersKept ==
    ASSUME DiskInv, LockInv, PlaceInv, FlushInv, CoverInv, FileStep, up, up', Callers,
           NEW p \in Procs, Expects(p)'
    PROVE  \E r \in 1..Len(lsnOf') :
              r = rec'[p] /\ lsnOf'[r] < nextLSN' /\ (~damaged' => Kept(r)')
<1>1. /\ nextLSN \in Nat /\ nextLSN' \in Nat /\ nextLSN <= nextLSN'
      /\ \A r \in 1..Len(lsnOf) : Kept(r) => Kept(r)'
      /\ \A r \in 1..Len(lsnOf) : lsnOf'[r] = lsnOf[r] /\ lsnOf[r] \in Nat
      /\ Len(lsnOf) \in Nat /\ Len(lsnOf') \in Nat /\ Len(lsnOf) <= Len(lsnOf')
      /\ damaged => damaged'
    BY FileStepUp, FileStepTypes, NumberFacts
<1>2. CASE Expects(p) /\ rec'[p] = rec[p]
  <2>1. rec[p] \in 1..Len(lsnOf) /\ lsnOf[rec[p]] < nextLSN
      BY <1>2 DEF FlushInv
  <2>2. ~damaged' => Kept(rec[p])
      BY <1>1, <1>2 DEF CoverInv, Kept
  <2>3. PICK r \in 1..Len(lsnOf) : r = rec[p]
      BY <2>1
  <2>4. ~damaged' => Kept(r)'
      BY <1>1, <2>2, <2>3
  <2>5. lsnOf'[r] = lsnOf[r] /\ lsnOf[r] \in Nat /\ lsnOf[r] < nextLSN
      BY <1>1, <2>1, <2>3
  <2>6. r \in 1..Len(lsnOf') /\ lsnOf'[r] < nextLSN'
      BY <1>1, <2>5
  <2> QED BY <1>2, <2>3, <2>4, <2>6
<1>3. CASE Frames /\ rec'[p] = Len(lsnOf) + 1
  <2>1. /\ Len(lsnOf') = Len(lsnOf) + 1 /\ Len(buf') = Len(buf) + 1 /\ Len(buf) \in Nat
        /\ lsnOf'[Len(lsnOf) + 1] = nextLSN /\ buf'[Len(buf) + 1] = Len(lsnOf) + 1
        /\ nextLSN' = nextLSN + 1
      BY <1>3, FrameFacts, NumberFacts DEF Frames
  <2>2. PICK r : r = Len(lsnOf) + 1
      OBVIOUS
  <2>3. Buffered(r)'
    <3>1. Len(buf) + 1 \in 1..Len(buf') /\ buf'[Len(buf) + 1] = r
        BY <2>1, <2>2
    <3> QED BY <3>1 DEF Buffered
  <2>4. Kept(r)'
      BY <2>3 DEF Kept
  <2>5. r \in 1..Len(lsnOf') /\ lsnOf'[r] < nextLSN'
      BY <1>1, <2>1, <2>2
  <2> QED BY <1>3, <2>2, <2>4, <2>5
<1> QED BY <1>2, <1>3 DEF Callers


\* A flush under way keeps covering those it will answer.
LEMMA FlushesKept ==
    ASSUME DiskInv, LockInv, PlaceInv, FlushInv, CoverInv, FileStep, PlaceInv', ExactInv',
           DiskInv', up, up', Flushes, NEW t \in Threads, pc'[t] \in {"rlock", "fsync"}
    PROVE  /\ target'[t] < nextLSN'
           /\ \A p \in Told(t)' : lsnOf'[rec'[p]] <= target'[t]
           /\ pc'[t] = "fsync" => mark'[t] <= Size(Top)'
           /\ ~damaged' => /\ pc'[t] = "rlock" => target'[t] < Base(Top)' + Size(Top)'
                           /\ pc'[t] = "fsync" => target'[t] < Base(Top)' + mark'[t]
<1>1. /\ nextLSN \in Nat \ {0} /\ nextLSN' \in Nat /\ nextLSN <= nextLSN'
      /\ \A r \in 1..Len(lsnOf) : lsnOf'[r] = lsnOf[r] /\ lsnOf[r] \in Nat
      /\ damaged => damaged'
      /\ \/ ActiveKept
         \/ NoFsync /\ Base(Top)' = nextLSN /\ nextLSN' = nextLSN /\ Synced(Top)' = 0
    BY FileStepUp, FileStepTypes, NumberFacts
<1>2. /\ target[t] \in Nat /\ mark[t] \in Nat /\ Base(Top) \in Nat /\ Size(Top) \in Nat
    BY Shape DEF LockInv
<1>3. Size(Top)' \in Nat /\ Base(Top)' \in Nat
    BY ShapeNext DEF Shaped
<1>4. ASSUME pc[t] \in {"rlock", "fsync"}, target'[t] = target[t],
             \A p \in Told(t)' : p \in Told(t) /\ rec'[p] = rec[p]
      PROVE  /\ target[t] < nextLSN
             /\ target'[t] < nextLSN'
             /\ \A p \in Told(t)' : lsnOf'[rec'[p]] <= target'[t]
  <2>1. target[t] < nextLSN /\ \A p \in Told(t) : lsnOf[rec[p]] <= target[t]
      BY <1>4 DEF FlushInv
  <2>2. \A p \in Told(t) : rec[p] \in 1..Len(lsnOf)
      BY <1>4, ToldRecords
  <2>3. \A p \in Told(t)' : lsnOf'[rec'[p]] <= target'[t]
      BY <1>1, <1>4, <2>1, <2>2
  <2>4. target'[t] < nextLSN'
      BY <1>1, <1>2, <1>4, <2>1
  <2> QED BY <2>1, <2>3, <2>4
<1>5. CASE KeepsFlush(t)
  <2>1. /\ pc[t] \in {"rlock", "fsync"} /\ pc'[t] = pc[t] /\ target'[t] = target[t]
        /\ mark'[t] = mark[t]
        /\ \A p \in Told(t)' : p \in Told(t) /\ rec'[p] = rec[p]
      BY <1>5 DEF KeepsFlush
  <2>2. pc[t] = "fsync" => ActiveKept
      BY <1>1 DEF NoFsync
  <2>3. pc[t] = "fsync" => mark[t] <= Size(Top)
      BY DEF FlushInv
  <2>4. pc'[t] = "fsync" => mark'[t] <= Size(Top)'
      BY <1>2, <1>3, <2>1, <2>2, <2>3 DEF ActiveKept
  <2>5. ASSUME ~damaged', pc'[t] = "rlock" PROVE target'[t] < Base(Top)' + Size(Top)'
    <3>1. target[t] < Base(Top) + Size(Top)
        BY <1>1, <2>1, <2>5 DEF CoverInv
    <3>2. CASE ActiveKept
        BY <1>2, <1>3, <2>1, <3>1, <3>2 DEF ActiveKept
    <3>3. CASE Base(Top)' = nextLSN
      <4>1. target[t] < nextLSN
          BY <1>4, <2>1
      <4> QED BY <1>1, <1>2, <1>3, <2>1, <3>3, <4>1
    <3> QED BY <1>1, <3>2, <3>3
  <2>6. ASSUME ~damaged', pc'[t] = "fsync" PROVE target'[t] < Base(Top)' + mark'[t]
    <3>1. target[t] < Base(Top) + mark[t]
        BY <1>1, <2>1, <2>6 DEF CoverInv
    <3> QED BY <2>1, <2>2, <2>6, <3>1 DEF ActiveKept
  <2> QED BY <1>4, <2>1, <2>4, <2>5, <2>6
<1>6. CASE Drains(t)
  <2>1. /\ pc'[t] = "rlock" /\ target'[t] = nextLSN - 1 /\ nextLSN' = nextLSN /\ buf' = <<>>
        /\ \A p \in Told(t)' : p \in Procs /\ Expects(p) /\ rec'[p] = rec[p]
      BY <1>6 DEF Drains
  <2>2. target'[t] < nextLSN'
      BY <1>1, <2>1
  <2>3. ASSUME NEW p \in Told(t)' PROVE lsnOf'[rec'[p]] <= target'[t]
    <3>1. rec[p] \in 1..Len(lsnOf) /\ lsnOf[rec[p]] < nextLSN
        BY <2>1, <2>3 DEF FlushInv
    <3>2. lsnOf'[rec'[p]] = lsnOf[rec[p]] /\ lsnOf[rec[p]] \in Nat
        BY <1>1, <2>1, <2>3, <3>1
    <3> QED BY <1>1, <2>1, <3>1, <3>2
  <2>4. ASSUME ~damaged' PROVE target'[t] < Base(Top)' + Size(Top)'
    <3>1. nextLSN' = Base(Top)' + Size(Top)' + Len(buf')
        BY <2>4 DEF ExactInv, ExactNext
    <3>2. Len(buf') = 0
        BY <2>1
    <3> QED BY <1>1, <1>3, <2>1, <3>1, <3>2
  <2> QED BY <2>1, <2>2, <2>3, <2>4
<1>7. CASE Begins(t)
  <2>1. /\ pc[t] = "rlock" /\ pc'[t] = "fsync" /\ target'[t] = target[t] /\ mark'[t] = Size(Top)
        /\ Stays
        /\ \A p \in Told(t)' : p \in Told(t) /\ rec'[p] = rec[p]
      BY <1>7 DEF Begins
  <2>2. Base(Top)' = Base(Top) /\ Size(Top)' = Size(Top)
      BY <2>1, SameFiles DEF Stays
  <2>3. ~damaged' => target[t] < Base(Top) + Size(Top)
      BY <1>1, <2>1 DEF CoverInv
  <2> QED BY <1>2, <1>4, <2>1, <2>2, <2>3
<1> QED BY <1>5, <1>6, <1>7 DEF Flushes

\* What was reported flushed was given out and, in an undamaged log, is flushed.
LEMMA ClaimsKept ==
    ASSUME DiskInv, LockInv, PlaceInv, FlushInv, CoverInv, FileStep, ExactInv',
           DiskInv', up, up', Claims
    PROVE  /\ claimed' < nextLSN'
           /\ ~damaged' => claimed' < Base(Top)' + Synced(Top)'
<1>1. /\ nextLSN \in Nat \ {0} /\ nextLSN' \in Nat /\ nextLSN <= nextLSN'
      /\ damaged => damaged'
      /\ \/ ActiveKept
         \/ NoFsync /\ Base(Top)' = nextLSN /\ nextLSN' = nextLSN /\ Synced(Top)' = 0
    BY FileStepUp, FileStepTypes, NumberFacts
<1>2. /\ claimed \in Nat /\ claimed < nextLSN /\ Base(Top) \in Nat /\ Synced(Top) \in Nat
      /\ ~damaged => claimed < Base(Top) + Synced(Top)
    BY Shape, NumberFacts DEF FlushInv, CoverInv
<1>3. Size(Top)' \in Nat /\ Base(Top)' \in Nat
    BY ShapeNext DEF Shaped
<1>4. CASE claimed' = claimed
  <2>1. CASE ActiveKept
      BY <1>1, <1>2, <1>4, <2>1 DEF ActiveKept
  <2>2. CASE Base(Top)' = nextLSN /\ Synced(Top)' = 0
      BY <1>1, <1>2, <1>4, <2>2
  <2> QED BY <1>1, <2>1, <2>2
<1>5. CASE /\ claimed' = Higher(claimed, nextLSN - 1) /\ nextLSN' = nextLSN /\ buf' = <<>>
           /\ Synced(Top)' = Size(Top)'
  <2>1. claimed' \in Nat /\ claimed' < nextLSN
      BY <1>1, <1>2, <1>5 DEF Higher
  <2>2. Len(buf') = 0
      BY <1>5
  <2>3. ~damaged' => nextLSN' = Base(Top)' + Size(Top)' + Len(buf')
      BY DEF ExactInv, ExactNext
  <2> QED BY <1>1, <1>3, <1>5, <2>1, <2>2, <2>3
<1>6. ASSUME NEW t \in Threads, pc[t] = "fsync", claimed' = Higher(claimed, target[t]),
             ActiveKept, Synced(Top)' >= mark[t]
      PROVE  /\ claimed' < nextLSN'
             /\ ~damaged' => claimed' < Base(Top)' + Synced(Top)'
  <2>1. target[t] \in Nat /\ mark[t] \in Nat /\ target[t] < nextLSN
      BY <1>6 DEF LockInv, FlushInv
  <2>2. ~damaged => target[t] < Base(Top) + mark[t]
      BY <1>6 DEF CoverInv
  <2>3. claimed' \in Nat /\ (claimed' = claimed \/ claimed' = target[t])
      BY <1>2, <1>6, <2>1, HigherFacts
  <2>4. claimed' < nextLSN'
      BY <1>1, <1>2, <2>1, <2>3
  <2>5. ~damaged => claimed' < Base(Top)' + Synced(Top)'
      BY <1>2, <1>6, <2>1, <2>2, <2>3 DEF ActiveKept
  <2> QED BY <1>1, <2>4, <2>5
<1> QED BY <1>4, <1>5, <1>6 DEF Claims


\* A step that touches no caller and no flush is such a change.
LEMMA QuietControl ==
    ASSUME LockInv, UNCHANGED <<pc, rec, target, mark, batch>>
    PROVE  Callers /\ Flushes
BY DEF Callers, Flushes, Expects, KeepsFlush, Told

\* So is answering.
LEMMA AnswerControl ==
    ASSUME LockInv, NEW t \in Threads, Answered(t), UNCHANGED <<rec, target, mark>>
    PROVE  Callers /\ Flushes
<1>1. /\ \A u \in Threads : pc'[u] = IF u = Flusher /\ t = Flusher THEN "take"
                                     ELSE IF u \in Told(t) THEN "idle" ELSE pc[u]
      /\ batch' = IF t = Flusher THEN {} ELSE batch
    BY DEF Answered
<1>2. \A p \in Procs : p \in Threads /\ p # Flusher
    BY Bounds DEF Threads
<1>3. Callers
    BY <1>1, <1>2 DEF Callers, Expects
<1>4. ASSUME NEW u \in Threads, pc'[u] \in {"rlock", "fsync"} PROVE KeepsFlush(u)
  <2>1. pc'[u] = pc[u] /\ ~(u = Flusher /\ t = Flusher)
      BY <1>1, <1>4
  <2>2. \A p \in Told(u)' : p \in Told(u)
      BY <1>1, <2>1 DEF Told
  <2> QED BY <2>1, <2>2 DEF KeepsFlush
<1> QED BY <1>3, <1>4 DEF Flushes

\* So is framing a record.
LEMMA FrameControl ==
    ASSUME DiskInv, LockInv, NEW p \in Procs, NEW next \in AfterAppend,
           AppendRecord(p, next) \/ RotateEnd(p, next)
    PROVE  Callers /\ Flushes
<1>1. p \in Threads /\ p # Flusher /\ \A q \in Procs : q \in Threads
    BY Bounds DEF Threads
<1>2. /\ pc' = [pc EXCEPT ![p] = next]
      /\ rec' = [rec EXCEPT ![p] = Len(lsnOf) + 1]
      /\ UNCHANGED <<batch, target, mark>>
      /\ pc[p] \in {"idle", "frame"} /\ next \in {"commit", "drain", "idle"}
    BY DEF AppendRecord, RotateEnd, Frame, commVars, AfterAppend
<1>3. /\ pc'[p] = next /\ rec'[p] = Len(lsnOf) + 1
      /\ \A u \in Threads : u # p => pc'[u] = pc[u] /\ rec'[u] = rec[u]
    BY <1>1, <1>2 DEF LockInv
<1>4. Frames
    BY FrameFrames
<1>5. Callers
    BY <1>1, <1>3, <1>4 DEF Callers, Expects
<1>6. p \notin batch /\ batch \subseteq Procs
    BY <1>2 DEF LockInv
<1>7. ASSUME NEW t \in Threads, pc'[t] \in {"rlock", "fsync"} PROVE KeepsFlush(t)
  <2>1. t # p /\ pc'[t] = pc[t]
      BY <1>2, <1>3, <1>7
  <2>2. \A q \in Told(t)' : q \in Told(t) /\ q # p /\ q \in Threads
      BY <1>1, <1>2, <1>6, <2>1 DEF Told
  <2> QED BY <1>2, <1>3, <2>1, <2>2 DEF KeepsFlush
<1> QED BY <1>5, <1>7 DEF Flushes

\* A caller that is inside a rotation is not part of a flush.
LEMMA RotateControl ==
    ASSUME LockInv, NEW p \in Procs, NEW to \in {"rotate", "frame", "idle"},
           pc' = [pc EXCEPT ![p] = to], UNCHANGED <<batch, rec, target, mark>>
    PROVE  Callers /\ Flushes
<1>1. p \in Threads /\ \A q \in Procs : q \in Threads
    BY DEF Threads
<1>2. pc'[p] = to /\ \A u \in Threads : u # p => pc'[u] = pc[u]
    BY <1>1 DEF LockInv
<1>3. Callers
    BY <1>1, <1>2 DEF Callers, Expects
<1>4. ASSUME NEW t \in Threads, pc'[t] \in {"rlock", "fsync"} PROVE KeepsFlush(t)
    BY <1>2, <1>4 DEF KeepsFlush, Told
<1> QED BY <1>3, <1>4 DEF Flushes

\* So is joining the queue.
LEMMA CommitControl ==
    ASSUME LockInv, NEW p \in Procs, Commit(p)
    PROVE  Callers /\ Flushes
<1>1. Flusher \in Threads /\ p \in Threads /\ \A q \in Procs : q \in Threads /\ q # Flusher
    BY Bounds DEF Threads
<1>2. /\ pc' = [pc EXCEPT ![p] = "wait", ![Flusher] = IF running THEN @ ELSE "take"]
      /\ UNCHANGED <<batch, rec, target, mark>> /\ pc[p] = "commit"
    BY DEF Commit
<1>3. /\ pc'[p] = "wait" /\ pc'[Flusher] \in {pc[Flusher], "take"}
      /\ \A u \in Threads : u # p /\ u # Flusher => pc'[u] = pc[u]
    BY <1>1, <1>2 DEF LockInv
<1>4. Callers
    BY <1>1, <1>2, <1>3 DEF Callers, Expects
<1>5. ASSUME NEW t \in Threads, pc'[t] \in {"rlock", "fsync"} PROVE KeepsFlush(t)
    BY <1>2, <1>3, <1>5 DEF KeepsFlush, Told
<1> QED BY <1>4, <1>5 DEF Flushes

\* So is taking a batch: its flush has yet to begin.
LEMMA TakeBatchControl ==
    ASSUME LockInv, TakeBatch
    PROVE  Callers /\ Flushes
<1>1. Flusher \in Threads /\ \A q \in Procs : q \in Threads /\ q # Flusher
    BY Bounds DEF Threads
<1>2. /\ pc' = [pc EXCEPT ![Flusher] = IF waiters = {} THEN "off" ELSE "drain"]
      /\ UNCHANGED <<rec, target, mark>>
    BY DEF TakeBatch
<1>3. /\ pc'[Flusher] \in {"off", "drain"}
      /\ \A u \in Threads : u # Flusher => pc'[u] = pc[u]
    BY <1>1, <1>2 DEF LockInv
<1>4. Callers
    BY <1>1, <1>2, <1>3 DEF Callers, Expects
<1>5. ASSUME NEW t \in Threads, pc'[t] \in {"rlock", "fsync"} PROVE KeepsFlush(t)
    BY <1>2, <1>3, <1>5 DEF KeepsFlush, Told
<1> QED BY <1>4, <1>5 DEF Flushes

\* So is writing the buffer, which takes every LSN given out as its target.
LEMMA DrainControl ==
    ASSUME LockInv, NEW t \in Threads, Drain(t)
    PROVE  Callers /\ Flushes
<1>1. /\ pc' = [pc EXCEPT ![t] = "rlock"] /\ target' = [target EXCEPT ![t] = nextLSN - 1]
      /\ UNCHANGED <<batch, rec, mark, nextLSN>> /\ buf' = <<>> /\ pc[t] = "drain"
    BY DEF Drain, Write, commVars
<1>2. /\ pc'[t] = "rlock" /\ target'[t] = nextLSN - 1
      /\ \A u \in Threads : u # t => pc'[u] = pc[u] /\ target'[u] = target[u]
    BY <1>1 DEF LockInv
<1>3. Callers
  <2>1. \A p \in Procs : p \in Threads
      BY DEF Threads
  <2> QED BY <1>1, <1>2, <2>1 DEF Callers, Expects
<1>4. Drains(t)
  <2>1. \A p \in Told(t)' : p \in Told(t)
      BY <1>1 DEF Told
  <2>2. \A p \in Told(t) : p \in Procs /\ Expects(p)
      BY <1>1, ToldExpect
  <2> QED BY <1>1, <1>2, <2>1, <2>2 DEF Drains
<1>5. ASSUME NEW u \in Threads, u # t PROVE KeepsFlush(u)
    BY <1>1, <1>2, <1>5 DEF KeepsFlush, Told
<1> QED BY <1>3, <1>4, <1>5 DEF Flushes

\* So is beginning an fsync.
LEMMA FsyncBeginControl ==
    ASSUME LockInv, NEW t \in Threads, FsyncBegin(t)
    PROVE  Callers /\ Flushes
<1>1. /\ pc' = [pc EXCEPT ![t] = "fsync"] /\ mark' = [mark EXCEPT ![t] = Size(Top)]
      /\ UNCHANGED <<batch, rec, target>> /\ pc[t] = "rlock" /\ Stays
    BY DEF FsyncBegin, commVars, fileVars, histVars, Stays, Size, Top, Active
<1>2. /\ pc'[t] = "fsync" /\ mark'[t] = Size(Top)
      /\ \A u \in Threads : u # t => pc'[u] = pc[u] /\ mark'[u] = mark[u]
    BY <1>1 DEF LockInv
<1>3. Callers
  <2>1. \A p \in Procs : p \in Threads
      BY DEF Threads
  <2> QED BY <1>1, <1>2, <2>1 DEF Callers, Expects
<1>4. Begins(t)
    BY <1>1, <1>2 DEF Begins, Told
<1>5. ASSUME NEW u \in Threads, u # t PROVE KeepsFlush(u)
    BY <1>1, <1>2, <1>5 DEF KeepsFlush, Told
<1> QED BY <1>3, <1>4, <1>5 DEF Flushes


\* Every step of a running log changes them in one of these ways.
LEMMA ControlStep ==
    ASSUME DiskInv, LockInv, FlushInv, [Next]_vars, up, up'
    PROVE  Callers /\ Flushes /\ Claims
<1> DEFINE Goal == Callers /\ Flushes /\ Claims
<1>0. CASE UNCHANGED <<pc, rec, target, mark, batch, claimed>>
    BY <1>0, QuietControl DEF Claims
<1>1. CASE UNCHANGED vars
    BY <1>0, <1>1 DEF vars, fileVars, histVars, procVars, commVars
<1>2. ASSUME NEW p \in Procs, NEW next \in AfterAppend, AppendRecord(p, next)
      PROVE  Goal
    BY <1>2, FrameControl DEF AppendRecord, Claims
<1>3. ASSUME NEW p \in Procs, RotateBegin(p)
      PROVE  Goal
    BY <1>3, RotateControl DEF RotateBegin, Claims, commVars, histVars
<1>4. ASSUME NEW t \in Threads, Step(t)
      PROVE  Goal
  <2>1. CASE t \in Procs /\ Rotate(t)
    <3>1. Callers /\ Flushes
        BY <2>1, RotateControl DEF Rotate, commVars
    <3>2. PICK k : k = Top
        OBVIOUS
    <3>3. Synced(Top)' = Size(Top)' /\ buf' = <<>>
      <4>1. Rotates
          BY <2>1, RotateRotates
      <4>2. Synced(Top)' = 0 /\ Size(Top)' = 0
          BY <3>2, <4>1, RotatesValues
      <4> QED BY <4>1, <4>2 DEF Rotates
    <3> QED BY <2>1, <3>1, <3>3 DEF Rotate, Claims
  <2>2. CASE t \in Procs /\ RotateFails(t)
    <3>1. Callers /\ Flushes
        BY <2>2, RotateControl DEF RotateFails, commVars
    <3>2. /\ buf' = <<>> /\ nextLSN' = nextLSN
          /\ \/ claimed' = claimed
             \/ /\ Grows /\ claimed' = Higher(claimed, nextLSN - 1)
                /\ \A k \in 1..Top : k = Top => Size(k)' = Size(k) /\ Synced(k)' = Size(k)
        BY <2>2, RotateFailsKind DEF RotateFails
    <3>3. CASE claimed' = claimed
        BY <3>1, <3>3 DEF Claims
    <3>4. CASE /\ Grows /\ claimed' = Higher(claimed, nextLSN - 1)
               /\ \A k \in 1..Top : k = Top => Size(k)' = Size(k) /\ Synced(k)' = Size(k)
      <4>1. PICK k : k = Top
          OBVIOUS
      <4>2. /\ k \in 1..Top /\ Size(Top)' = Size(k)' /\ Synced(Top)' = Synced(k)'
          BY <3>4, <4>1, TopValues DEF Grows
      <4>3. Synced(Top)' = Size(Top)'
          BY <3>4, <4>1, <4>2
      <4> QED BY <3>1, <3>2, <3>4, <4>3 DEF Claims
    <3> QED BY <3>2, <3>3, <3>4
  <2>3. CASE t \in Procs /\ Commit(t)
      BY <2>3, CommitControl DEF Commit, Claims, histVars
  <2>4. ASSUME t \in Procs, NEW next \in AfterAppend, RotateEnd(t, next)
        PROVE  Goal
      BY <2>4, FrameControl DEF RotateEnd, Claims
  <2>5. CASE TakeBatch
      BY <2>5, TakeBatchControl DEF TakeBatch, Claims, histVars
  <2>6. CASE Drain(t)
      BY <2>6, DrainControl DEF Drain, Claims, histVars
  <2>7. CASE SyncRefused(t)
    <3>1. Answered(t) /\ UNCHANGED <<rec, target, mark, claimed>>
        BY <2>7 DEF SyncRefused, Answer, Answered, Told
    <3> QED BY <3>1, AnswerControl DEF Claims
  <2>8. CASE FsyncBegin(t)
      BY <2>8, FsyncBeginControl DEF FsyncBegin, Claims, histVars
  <2>9. CASE FsyncEnd(t)
    <3>1. Answered(t) /\ UNCHANGED <<rec, target, mark>>
        BY <2>9 DEF FsyncEnd, Answer, Answered, Told
    <3>2. Callers /\ Flushes
        BY <3>1, AnswerControl
    <3>3. Claims
      <4>1. PICK k : k = Top
          OBVIOUS
      <4>2. /\ Grows /\ mark[t] \in Nat
            /\ \A l \in 1..Top : l = Top => Synced(l)' = Higher(Synced(l), mark[t])
          BY <2>9, FsyncEndKind
      <4>3. k \in 1..Top /\ Synced(Top)' = Synced(k)' /\ Synced(k) \in Nat
          BY <4>1, <4>2, TopValues, Shape DEF Grows
      <4>4. Synced(Top)' >= mark[t]
        <5>1. Synced(Top)' = Higher(Synced(k), mark[t])
            BY <4>1, <4>2, <4>3
        <5> QED BY <4>2, <4>3, <5>1, HigherFacts
      <4>5. pc[t] = "fsync" /\ claimed' = Higher(claimed, target[t])
          BY <2>9 DEF FsyncEnd
      <4> QED BY <4>2, <4>4, <4>5, GrowsActive DEF Claims
    <3> QED BY <3>2, <3>3
  <2> QED BY <1>4, <2>1, <2>2, <2>3, <2>4, <2>5, <2>6, <2>7, <2>8, <2>9 DEF Step
<1>5. ASSUME NEW t \in Threads, FsyncFails(t)
      PROVE  Goal
  <2>1. Answered(t) /\ UNCHANGED <<rec, target, mark, claimed>>
      BY <1>5 DEF FsyncFails, Answer, Answered, Told
  <2> QED BY <2>1, AnswerControl DEF Claims
<1>6. ASSUME NEW t \in Threads, NEW k \in 0..MaxAppends, NEW torn \in BOOLEAN,
             DrainFails(t, k, torn) \/ RotateWriteFails(t, k, torn)
      PROVE  Goal
  <2>1. CASE DrainFails(t, k, torn)
    <3>1. Answered(t) /\ UNCHANGED <<rec, target, mark, claimed>>
        BY <2>1 DEF DrainFails, Answer, Answered, Told
    <3> QED BY <3>1, AnswerControl DEF Claims
  <2>2. CASE RotateWriteFails(t, k, torn)
      BY <1>0, <2>2 DEF RotateWriteFails, procVars, commVars
  <2> QED BY <1>6, <2>1, <2>2
<1>7. ASSUME NEW lsn, TruncateBefore(lsn)
      PROVE  Goal
    BY <1>0, <1>7 DEF TruncateBefore, histVars, procVars, commVars
<1>8. CASE Replay
    BY <1>0, <1>8 DEF Replay, histVars, procVars, commVars
<1>9. ASSUME NEW k \in 0..MaxAppends, NEW torn \in BOOLEAN,
             ReplayFails(k, torn) \/ CloseWriteFails(k, torn)
      PROVE  Goal
    BY <1>0, <1>9 DEF ReplayFails, CloseWriteFails, procVars, commVars
<1>10. CASE Close
  <2>1. Callers /\ Flushes
      BY <1>10, QuietControl DEF Close, procVars, commVars
  <2>2. PICK k : k = Top
      OBVIOUS
  <2>3. Grows /\ buf' = <<>> /\ \A l \in 1..Top : l = Top => Synced(l)' = Size(l)'
      BY <1>10, CloseKind
  <2>4. k \in 1..Top /\ Size(Top)' = Size(k)' /\ Synced(Top)' = Synced(k)'
      BY <2>2, <2>3, TopValues DEF Grows
  <2>5. Synced(Top)' = Size(Top)'
      BY <2>2, <2>3, <2>4
  <2> QED BY <1>10, <2>1, <2>3, <2>5 DEF Close, Claims
<1>11. CASE CloseFails
    BY <1>0, <1>11 DEF CloseFails, histVars, procVars, commVars
<1>12. ASSUME NEW n, NEW torn, Crash(n, torn)
       PROVE  Goal
    BY <1>12 DEF Crash
<1>13. CASE Open
    BY <1>13 DEF Open
<1> QED
    BY <1>1, <1>2, <1>3, <1>4, <1>5, <1>6, <1>7, <1>8, <1>9, <1>10, <1>11, <1>12, <1>13 DEF Next

\* A step that stops the process is a crash, and one that starts it is Open.
LEMMA DownStep ==
    ASSUME [Next]_vars, DiskInv, LockInv, ~up \/ ~up'
    PROVE  \/ UNCHANGED vars
           \/ Open
           \/ \E n \in Nat, torn \in BOOLEAN : Crash(n, torn)
<1>1. ASSUME NEW n \in 0..(2 * MaxAppends), NEW torn \in BOOLEAN, Crash(n, torn)
      PROVE  \E m \in Nat, tn \in BOOLEAN : Crash(m, tn)
  <2>1. n \in Nat
      BY Bounds
  <2> QED BY <1>1, <2>1
<1>2. ASSUME NEW t \in Threads, Step(t)
      PROVE  up /\ up' = up
    BY <1>2 DEF Step, Rotate, RotateFails, Commit, RotateEnd, TakeBatch, Drain, SyncRefused,
                FsyncBegin, FsyncEnd, MuFree
<1>3. ASSUME NEW t, NEW k, NEW torn, DrainFails(t, k, torn) \/ RotateWriteFails(t, k, torn)
      PROVE  up /\ up' = up
    BY <1>3 DEF DrainFails, RotateWriteFails, MuFree
<1>4. ASSUME NEW t, FsyncFails(t) \/ RotateBegin(t)
      PROVE  up /\ up' = up
    BY <1>4 DEF FsyncFails, RotateBegin, MuFree
<1>5. ASSUME NEW p, NEW next, AppendRecord(p, next)
      PROVE  up /\ up' = up
    BY <1>5 DEF AppendRecord, MuFree
<1>6. ASSUME NEW lsn, TruncateBefore(lsn)
      PROVE  up /\ up' = up
    BY <1>6 DEF TruncateBefore, MuFree
<1>7. ASSUME NEW k, NEW torn, ReplayFails(k, torn) \/ CloseWriteFails(k, torn)
      PROVE  up /\ up' = up
    BY <1>7 DEF ReplayFails, CloseWriteFails, MuFree
<1>8. Replay \/ Close \/ CloseFails => up /\ up' = up
    BY DEF Replay, Close, CloseFails, MuFree
<1> QED BY <1>1, <1>2, <1>3, <1>4, <1>5, <1>6, <1>7, <1>8 DEF Next

\* A flush covers those it answers, after every step.
LEMMA FlushStep ==
    ASSUME WalInv, [Next]_vars, DiskInv', PlaceInv', ExactInv'
    PROVE  FlushInv' /\ CoverInv'
<1>0. /\ DiskInv /\ LockInv /\ PlaceInv /\ ExactInv /\ FlushInv /\ CoverInv
    BY DEF WalInv
<1>1. FileStep
    BY <1>0, NextFileStep
<1>2. CASE up /\ up'
  <2>1. Callers /\ Flushes /\ Claims
      BY <1>0, <1>2, ControlStep
  <2>2. ASSUME NEW p \in Procs, Expects(p)'
        PROVE  \E r \in 1..Len(lsnOf') :
                  r = rec'[p] /\ lsnOf'[r] < nextLSN' /\ (~damaged' => Kept(r)')
      BY <1>0, <1>1, <1>2, <2>1, <2>2, CallersKept
  <2>3. ASSUME NEW t \in Threads, pc'[t] \in {"rlock", "fsync"}
        PROVE  /\ target'[t] < nextLSN'
               /\ \A p \in Told(t)' : lsnOf'[rec'[p]] <= target'[t]
               /\ pc'[t] = "fsync" => mark'[t] <= Size(Top)'
               /\ ~damaged' => /\ pc'[t] = "rlock" => target'[t] < Base(Top)' + Size(Top)'
                               /\ pc'[t] = "fsync" => target'[t] < Base(Top)' + mark'[t]
      BY <1>0, <1>1, <1>2, <2>1, <2>3, FlushesKept
  <2>4. claimed' < nextLSN' /\ (~damaged' => claimed' < Base(Top)' + Synced(Top)')
      BY <1>0, <1>1, <1>2, <2>1, ClaimsKept
  <2>5. FlushInv'
      BY <2>2, <2>3, <2>4 DEF FlushInv
  <2>6. ASSUME ~damaged', NEW p \in Procs, Expects(p)'
        PROVE  (lsnOf[rec[p]] < Base(1) \/ Written(rec[p]) \/ Buffered(rec[p]))'
    <3>1. PICK r \in 1..Len(lsnOf') : r = rec'[p] /\ Kept(r)'
        BY <2>2, <2>6
    <3> QED BY <3>1 DEF Kept, Written, Buffered
  <2>7. CoverInv'
      BY <2>3, <2>4, <2>6 DEF CoverInv
  <2> QED BY <2>5, <2>7
<1>3. CASE UNCHANGED vars
  <2>1. UNCHANGED <<segs, buf, nextLSN, lsnOf, up, damaged, claimed, pc, rec, target, mark, batch>>
      BY <1>3 DEF vars, fileVars, histVars, procVars, commVars
  <2> QED BY <1>0, <2>1 DEF FlushInv, CoverInv, Expects, Told, Written, Buffered,
                            Top, Base, Size, Synced, Entry
<1>4. ASSUME NEW n \in Nat, NEW torn \in BOOLEAN, Crash(n, torn)
      PROVE  FlushInv' /\ CoverInv'
  <2>1. /\ ~up' /\ claimed' = claimed /\ damaged' = damaged
        /\ \A t \in Threads : pc'[t] \in {"idle", "off"}
      BY <1>4 DEF Crash, histVars
  <2>2. \A p \in Procs : p \in Threads
      BY DEF Threads
  <2>3. FlushInv'
      BY <2>1, <2>2 DEF FlushInv, Expects
  <2>4. Base(Top)' = Base(Top) /\ Synced(Top)' = Synced(Top)
    <3>1. Cuts
        BY <1>0, <1>4, CrashCuts
    <3>2. PICK k : k = Top
        OBVIOUS
    <3>3. k \in 1..Top /\ Base(Top)' = Base(k) /\ Synced(Top)' = Synced(k)'
        BY <1>0, <3>1, <3>2, TopValues DEF Cuts
    <3> QED BY <3>1, <3>2, <3>3 DEF Cuts
  <2>5. CoverInv'
      BY <1>0, <2>1, <2>2, <2>4 DEF CoverInv, Expects
  <2> QED BY <2>3, <2>5
<1>5. CASE Open
  <2>1. /\ claimed' = 0 /\ pc' = pc /\ nextLSN' \in Nat \ {0}
        /\ \A t \in Threads : pc[t] \in {"idle", "off"}
      BY <1>0, <1>5 DEF Open, procVars, LockInv, DiskInv
  <2>2. \A p \in Procs : p \in Threads
      BY DEF Threads
  <2>3. FlushInv'
      BY <2>1, <2>2 DEF FlushInv, Expects
  <2>4. 0 < Base(Top)' + Synced(Top)'
      BY ShapeNext DEF Shaped
  <2>5. CoverInv'
      BY <2>1, <2>2, <2>4 DEF CoverInv, Expects
  <2> QED BY <2>3, <2>5
<1>6. ~(up /\ up') => UNCHANGED vars \/ Open \/ \E n \in Nat, torn \in BOOLEAN : Crash(n, torn)
    BY <1>0, DownStep
<1> QED BY <1>2, <1>3, <1>4, <1>5, <1>6

\* The invariant is inductive.
LEMMA WalStep == WalInv /\ [Next]_vars => WalInv'
<1> SUFFICES ASSUME WalInv, [Next]_vars PROVE WalInv'
    OBVIOUS
<1>1. DiskInv /\ LockInv /\ PlaceInv /\ ExactInv /\ FlushInv /\ CoverInv
    BY DEF WalInv
<1>2. DiskInv' /\ LockInv'
    BY <1>1, DiskStep, LockStep
<1>3. PlaceInv' /\ ExactInv'
    BY <1>1, NextFileStep, FileStepPlace
<1>4. FlushInv' /\ CoverInv'
    BY <1>2, <1>3, FlushStep
<1> QED BY <1>2, <1>3, <1>4 DEF WalInv


\* It holds of an empty log.
LEMMA WalStart == Init => WalInv
<1> SUFFICES ASSUME Init PROVE WalInv
    OBVIOUS
<1> DEFINE s == [base |-> 1, recs |-> <<>>, synced |-> 0]
<1>1. s \in Segment /\ s.base = 1 /\ s.recs = <<>> /\ s.synced = 0
    BY DEF Segment
<1>2. segs = <<s>>
    BY DEF Init
<1> HIDE DEF s
<1>3. segs \in Seq(Segment) /\ Len(segs) = 1 /\ segs[1] = s
    BY <1>1, <1>2
<1>4. /\ Top = 1 /\ Base(1) = 1 /\ Size(1) = 0 /\ Synced(1) = 0
      /\ Base(Top) = 1 /\ Size(Top) = 0 /\ Synced(Top) = 0
    BY <1>1, <1>3 DEF Top, Base, Size, Synced
<1>5. /\ buf = <<>> /\ activeSize = 0 /\ nextLSN = 1 /\ closed = FALSE /\ broken = FALSE
      /\ rotator = None /\ waiters = {} /\ batch = {} /\ running = FALSE
      /\ up = TRUE /\ lsnOf = <<>> /\ confirmed = {} /\ claimed = 0 /\ damaged = FALSE
      /\ pc = [t \in Threads |-> IF t = Flusher THEN "off" ELSE "idle"]
      /\ rec = [t \in Threads |-> 0] /\ target = [t \in Threads |-> 0]
      /\ mark = [t \in Threads |-> 0]
    BY DEF Init
<1>6. Len(buf) = 0 /\ Len(lsnOf) = 0 /\ buf \in Seq(1..MaxAppends) /\ lsnOf \in Seq(Nat \ {0})
    BY <1>5
<1>7. DiskInv
  <2>1. FilesInv
      BY <1>1, <1>3 DEF FilesInv
  <2>2. closed \in BOOLEAN /\ broken \in BOOLEAN /\ up \in BOOLEAN /\ damaged \in BOOLEAN
      BY <1>5
  <2>3. /\ activeSize \in Nat /\ nextLSN \in Nat \ {0} /\ claimed \in Nat
        /\ Len(lsnOf) <= MaxAppends /\ confirmed \subseteq 1..Len(lsnOf)
      BY <1>5, <1>6, Bounds
  <2> QED BY <1>6, <2>1, <2>2, <2>3 DEF DiskInv
<1>8. LockInv
  <2>1. Flusher \in Threads /\ \A p \in Procs : p \in Threads /\ p # Flusher /\ p # None
      BY Bounds DEF Threads
  <2>2. pc \in [Threads -> PCs] /\ pc[Flusher] = "off" /\ \A p \in Procs : pc[p] = "idle"
      BY <1>5, <2>1 DEF PCs
  <2>3. rec \in [Threads -> 0..MaxAppends] /\ target \in [Threads -> Nat] /\ mark \in [Threads -> Nat]
      BY <1>5, Bounds
  <2> QED BY <1>5, <2>1, <2>2, <2>3 DEF LockInv
<1>9. PlaceInv
    BY <1>4, <1>5, <1>6 DEF PlaceInv, BasesInv, EntriesInv, BufferInv, NextInv
<1>10. ExactInv
    BY <1>4, <1>5, <1>6 DEF ExactInv, ExactEntries, ExactSegments, ExactBuffer, ExactNext
<1>11. \A t \in Threads : pc[t] \in {"off", "idle"}
    BY <1>5
<1>12. \A p \in Procs : ~Expects(p)
    BY <1>11 DEF Expects, Threads
<1>13. FlushInv
    BY <1>5, <1>11, <1>12 DEF FlushInv
<1>14. CoverInv
    BY <1>4, <1>5, <1>11, <1>12 DEF CoverInv
<1> QED BY <1>7, <1>8, <1>9, <1>10, <1>13, <1>14 DEF WalInv

\* The invariant of the log and of the committer: where every record is, who
\* waits for what, and what a flush covers.
THEOREM LogKeepsItsInvariant == Spec => []WalInv
BY WalStart, WalStep, PTL DEF Spec

-----------------------------------------------------------------------------
(* What the invariant says *)

\* Every field keeps its type, through failed writes, crashes and Open.
THEOREM LogIsWellTyped == Spec => []WalTypeOK
<1>1. WalInv => WalTypeOK
  <2> SUFFICES ASSUME WalInv PROVE WalTypeOK
      OBVIOUS
  <2>1. DiskInv /\ LockInv
      BY DEF WalInv
  <2>2. /\ Len(segs) > 0
        /\ \A k \in 1..Len(segs) :
             /\ segs[k].base \in Nat \ {0}
             /\ segs[k].recs \in Seq(0..MaxAppends)
             /\ segs[k].synced \in 0..Len(segs[k].recs)
    <3>1. /\ Len(segs) \in Nat \ {0}
          /\ \A k \in 1..Len(segs) :
               /\ segs[k].base \in Nat \ {0}
               /\ segs[k].recs \in Seq(0..MaxAppends)
               /\ segs[k].synced \in Nat /\ Len(segs[k].recs) \in Nat
               /\ segs[k].synced <= Len(segs[k].recs)
        BY <2>1, ActiveFacts
    <3>2. \A a, b \in Nat : a <= b => a \in 0..b
        OBVIOUS
    <3> QED BY <3>1, <3>2
  <2>3. lsnOf \in Seq(Nat)
    <3>1. Nat \ {0} \subseteq Nat
        OBVIOUS
    <3> QED BY <2>1, <3>1, SeqMonotonic DEF DiskInv
  <2>4. {closed, broken, running, up, damaged} \subseteq BOOLEAN
      BY <2>1 DEF DiskInv, LockInv
  <2> QED BY <2>1, <2>2, <2>3, <2>4 DEF WalTypeOK, DiskInv, LockInv, PCs
<1> QED BY <1>1, LogKeepsItsInvariant, PTL

\* A caller of commit is in the queue or in the batch being flushed, and a
\* flushLoop is running: commit and flushLoop agree on the `running' flag under
\* every interleaving, so no wake-up is lost.
THEOREM NoCallerIsForgotten == Spec => []NoLostWaiter
<1>1. WalInv => NoLostWaiter
    BY DEF WalInv, LockInv, NoLostWaiter
<1> QED BY <1>1, LogKeepsItsInvariant, PTL

\* Replay reads every record of an undamaged log at the LSN it was appended
\* with, for segments of any size and any sequence of rotations, crashes and
\* truncations.
THEOREM ReplayKeepsLSNs == Spec => []ReplayInOrder
<1>1. WalInv => ReplayInOrder
  <2> SUFFICES ASSUME WalInv, ~damaged, NEW k \in 1..Len(segs)
               PROVE  /\ \A i \in 1..ValidLen(segs[k].recs) :
                            lsnOf[segs[k].recs[i]] = segs[k].base + i - 1
                      /\ k < Len(segs) =>
                           /\ ValidLen(segs[k].recs) = Len(segs[k].recs)
                           /\ segs[k].synced = Len(segs[k].recs)
                           /\ segs[k + 1].base = segs[k].base + Len(segs[k].recs)
      BY DEF ReplayInOrder
  <2>1. DiskInv /\ ExactEntries /\ ExactSegments
      BY DEF WalInv, ExactInv
  <2>2. /\ k \in 1..Top /\ Size(k) \in Nat /\ Valid(k) \in Nat /\ Valid(k) <= Size(k)
        /\ \A i \in 1..Size(k) : i <= Valid(k) <=> \A j \in 1..i : Entry(k, j) # Torn
        /\ (\A i \in 1..Size(k) : Entry(k, i) # Torn) => Valid(k) = Size(k)
      BY <2>1, Shape DEF Top
  <2>3. ASSUME NEW i \in 1..Valid(k) PROVE lsnOf[Entry(k, i)] = Base(k) + i - 1
    <3>1. i \in 1..Size(k) /\ i <= Valid(k) /\ i \in 1..i
        BY <2>2
    <3>2. Entry(k, i) # Torn
        BY <2>2, <3>1
    <3> QED BY <2>1, <2>2, <3>1, <3>2 DEF ExactEntries
  <2>4. ASSUME k < Top
        PROVE  Valid(k) = Size(k) /\ Synced(k) = Size(k) /\ Base(k + 1) = Base(k) + Size(k)
    <3>1. \A i \in 1..Size(k) : Entry(k, i) # Torn
      <4>1. k # Top
          BY <2>1, <2>4, Shape
      <4> QED BY <2>1, <2>2, <4>1 DEF ExactEntries
    <3> QED BY <2>1, <2>2, <2>4, <3>1 DEF ExactSegments
  <2> QED BY <2>3, <2>4 DEF Top, Base, Size, Synced, Valid, Entry
<1> QED BY <1>1, LogKeepsItsInvariant, PTL


-----------------------------------------------------------------------------
(* What was confirmed can be read *)

\* DurableAt by segment number: r is entry i of segment k, flushed, with no torn
\* entry before it.
Held(r, n) ==
    \E k \in 1..Top : \E i \in 1..Synced(k) :
        i <= Valid(k) /\ Entry(k, i) = r /\ n = Base(k) + i - 1

HeldIff == \A r : \A n \in Nat : DurableAt(r, n) <=> Held(r, n)

\* DurableAt in terms of segments and entries.
LEMMA HeldNow == DiskInv => HeldIff
<1> SUFFICES ASSUME DiskInv, NEW r, NEW n \in Nat PROVE DurableAt(r, n) <=> Held(r, n)
    BY DEF HeldIff
<1>0. Shaped
    BY ShapeNow
<1>1. ASSUME NEW k \in 1..Top, LET i == n - Base(k) + 1
                               IN  n >= Base(k) /\ i <= Synced(k) /\ i <= Valid(k) /\ Entry(k, i) = r
      PROVE  Held(r, n)
  <2>1. Base(k) \in Nat /\ Synced(k) \in Nat
      BY <1>0 DEF Shaped
  <2>2. PICK i \in Nat : i = n - Base(k) + 1
      BY <1>1, <2>1
  <2>3. i \in 1..Synced(k) /\ i <= Valid(k) /\ n = Base(k) + i - 1
      BY <1>1, <2>1, <2>2
  <2>4. Entry(k, i) = r
      BY <1>1, <2>2
  <2> QED BY <2>3, <2>4 DEF Held
<1>2. ASSUME NEW k \in 1..Top, NEW i \in 1..Synced(k), i <= Valid(k), Entry(k, i) = r,
             n = Base(k) + i - 1
      PROVE  /\ n >= Base(k) /\ i = n - Base(k) + 1
  <2>1. Base(k) \in Nat /\ Synced(k) \in Nat
      BY <1>0 DEF Shaped
  <2> QED BY <1>2, <2>1
<1>3. DurableAt(r, n) <=>
        \E k \in 1..Top : LET i == n - Base(k) + 1
                          IN  n >= Base(k) /\ i <= Synced(k) /\ i <= Valid(k) /\ Entry(k, i) = r
    BY DEF DurableAt, Top, Base, Synced, Valid, Entry
<1>4. Held(r, n) => \E k \in 1..Top :
                        LET i == n - Base(k) + 1
                        IN  n >= Base(k) /\ i <= Synced(k) /\ i <= Valid(k) /\ Entry(k, i) = r
  <2> SUFFICES ASSUME NEW k \in 1..Top, NEW i \in 1..Synced(k), i <= Valid(k), Entry(k, i) = r,
                      n = Base(k) + i - 1
               PROVE  LET j == n - Base(k) + 1
                      IN  n >= Base(k) /\ j <= Synced(k) /\ j <= Valid(k) /\ Entry(k, j) = r
      BY DEF Held
  <2>1. n >= Base(k) /\ i = n - Base(k) + 1
      BY <1>2
  <2>2. i <= Synced(k)
      OBVIOUS
  <2> QED BY <2>1, <2>2
<1> QED BY <1>1, <1>3, <1>4

\* The same after the step.
LEMMA HeldNext == DiskInv' => HeldIff'
BY HeldNow, PTL

\* An entry found again at the same LSN, with the same entries before it.
LEMMA HeldAt ==
    ASSUME DiskInv, DiskInv', NEW k \in 1..Top, NEW l \in 1..Top', NEW i \in 1..Size(k),
           i <= Valid(k), i <= Synced(l)', Base(l)' = Base(k),
           \A j \in 1..i : Entry(l, j)' = Entry(k, j),
           NEW r, NEW n, r = Entry(k, i), n = Base(k) + i - 1
    PROVE  Held(r, n)'
<1>1. \A j \in 1..i : Entry(k, j) # Torn
    BY Shape
<1>2. /\ Synced(l)' \in Nat /\ Synced(l)' <= Size(l)' /\ Size(l)' \in Nat
      /\ \A m \in 1..Size(l)' : m <= Valid(l)' <=> \A j \in 1..m : Entry(l, j)' # Torn
    BY ShapeNext DEF Shaped
<1>3. i \in 1..Size(l)' /\ i \in 1..Synced(l)' /\ i \in 1..i
    BY <1>2, Shape
<1>4. i <= Valid(l)'
    BY <1>1, <1>2, <1>3
<1>5. Entry(l, i)' = r /\ n = Base(l)' + i - 1
    BY <1>3
<1> QED BY <1>3, <1>4, <1>5 DEF Held

\* No step takes a flushed record away, but a truncation of its segment.
LEMMA HeldStays ==
    ASSUME DiskInv, PlaceInv, FileStep, DiskInv', NEW r \in 1..Len(lsnOf), NEW n, n = lsnOf[r],
           Held(r, n)
    PROVE  Held(r, n)' \/ n < Base(1)'
<1> PICK k \in 1..Top : \E i \in 1..Synced(k) :
            i <= Valid(k) /\ Entry(k, i) = r /\ n = Base(k) + i - 1
    BY DEF Held
<1> PICK i \in 1..Synced(k) : i <= Valid(k) /\ Entry(k, i) = r /\ n = Base(k) + i - 1
    OBVIOUS
<1>0. /\ Size(k) \in Nat /\ Synced(k) \in Nat /\ Synced(k) <= Size(k) /\ Valid(k) \in Nat
      /\ Valid(k) <= Size(k) /\ Top \in Nat
    BY Shape
<1>1. i \in 1..Size(k) /\ i \in Nat /\ i <= Synced(k) /\ r # Torn
    BY <1>0, NumberFacts
<1>2. \A j \in 1..i : j \in 1..Size(k) /\ j \in 1..Valid(k)
    BY <1>0, <1>1
<1>3. CASE Stays
  <2>1. /\ Top' = Top /\ Base(k)' = Base(k) /\ Synced(k)' = Synced(k)
        /\ \A j : Entry(k, j)' = Entry(k, j)
      BY <1>3, SameFiles DEF Stays
  <2> QED BY <1>1, <2>1, HeldAt
<1>4. CASE Frames
  <2>1. /\ Top' = Top /\ Base(k)' = Base(k) /\ Synced(k)' = Synced(k)
        /\ \A j : Entry(k, j)' = Entry(k, j)
      BY <1>4, SameFiles DEF Frames
  <2> QED BY <1>1, <2>1, HeldAt
<1>5. ASSUME TopStep, k # Top PROVE Held(r, n)'
  <2>1. /\ Top' = Top /\ Base(k)' = Base(k) /\ Synced(k)' = Synced(k)
        /\ \A j \in 1..Size(k) : Entry(k, j)' = Entry(k, j)
      BY <1>5 DEF TopStep, Same
  <2>2. \A j \in 1..i : Entry(k, j)' = Entry(k, j)
      BY <1>2, <2>1
  <2> QED BY <1>1, <2>1, <2>2, HeldAt
<1>6. ASSUME TopStep, k = Top, Synced(k)' \in Nat, i <= Synced(k)',
             \A j \in 1..i : Entry(k, j)' = Entry(k, j)
      PROVE  Held(r, n)'
  <2>1. k \in 1..Top' /\ Base(k)' = Base(k)
      BY <1>6 DEF TopStep
  <2> QED BY <1>1, <1>6, <2>1, HeldAt
<1>7. CASE Grows
  <2>1. CASE k = Top
    <3>1. TopStep /\ Synced(k)' \in Nat /\ Synced(k)' >= Synced(k)
          /\ \A j \in 1..Size(k) : Entry(k, j)' = Entry(k, j)
        BY <1>7, <2>1 DEF Grows
    <3>2. i <= Synced(k)' /\ \A j \in 1..i : Entry(k, j)' = Entry(k, j)
        BY <1>0, <1>1, <1>2, <3>1
    <3> QED BY <1>6, <2>1, <3>1, <3>2
  <2> QED BY <1>5, <1>7, <2>1 DEF Grows
<1>8. CASE Rotates
  <2>1. /\ Top' = Top + 1 /\ Base(k)' = Base(k)
        /\ Synced(k)' = IF k = Top THEN Size(k) ELSE Synced(k)
        /\ \A j \in 1..Size(k) : Entry(k, j)' = Entry(k, j)
      BY <1>8 DEF Rotates
  <2>2. k \in 1..Top' /\ i <= Synced(k)'
      BY <1>0, <1>1, <2>1
  <2>3. \A j \in 1..i : Entry(k, j)' = Entry(k, j)
      BY <1>2, <2>1
  <2> QED BY <1>1, <2>1, <2>2, <2>3, HeldAt
<1>9. CASE Cuts
  <2>1. CASE k = Top
    <3>1. PICK m \in 0..Size(k) : /\ Synced(k) <= m
                                  /\ \A j \in 1..m : Entry(k, j)' = Entry(k, j)
        BY <1>9, <2>1 DEF Cuts
    <3>2. TopStep /\ Synced(k)' = Synced(k)
        BY <1>9, <2>1 DEF Cuts
    <3>3. \A j \in 1..i : Entry(k, j)' = Entry(k, j)
        BY <1>0, <1>1, <3>1
    <3> QED BY <1>0, <1>1, <1>6, <2>1, <3>2, <3>3
  <2> QED BY <1>5, <1>9, <2>1 DEF Cuts
<1>10. CASE Opens
  <2>1. CASE k = Top
    <3>1. /\ TopStep
          /\ Synced(k)' = IF Valid(k) < Size(k) THEN Valid(k) ELSE Synced(k)
          /\ \A j \in 1..Valid(k) : Entry(k, j)' = Entry(k, j)
        BY <1>10, <2>1 DEF Opens
    <3>2. Synced(k)' \in Nat /\ i <= Synced(k)'
        BY <1>0, <1>1, <3>1
    <3>3. \A j \in 1..i : Entry(k, j)' = Entry(k, j)
        BY <1>2, <3>1
    <3> QED BY <1>6, <2>1, <3>1, <3>2, <3>3
  <2> QED BY <1>5, <1>10, <2>1 DEF Opens
<1>11. ASSUME NEW d \in Nat, Truncates(d) PROVE Held(r, n)' \/ n < Base(1)'
  <2>1. /\ d >= 1 /\ d < Top /\ Top' = Top - d
        /\ \A l, m \in 1..Top : m = l + d =>
             /\ Base(l)' = Base(m) /\ Synced(l)' = Synced(m) /\ \A j : Entry(l, j)' = Entry(m, j)
      BY <1>11 DEF Truncates
  <2>2. CASE k > d
    <3>1. PICK l \in 1..Top : k = l + d
      <4>1. k - d \in 1..Top /\ k = (k - d) + d
          BY <1>0, <2>1, <2>2
      <4> QED BY <4>1
    <3>2. l \in 1..Top'
        BY <1>0, <2>1, <3>1
    <3>3. Base(l)' = Base(k) /\ Synced(l)' = Synced(k) /\ \A j : Entry(l, j)' = Entry(k, j)
        BY <2>1, <3>1
    <3> QED BY <1>1, <3>2, <3>3, HeldAt
  <2>3. CASE ~(k > d)
    <3>1. PICK u \in 1..Top : u = 1 + d
        BY <1>0, <2>1
    <3>2. k < u /\ 1 \in 1..Top
        BY <1>0, <2>1, <2>3, <3>1
    <3>3. Base(1)' = Base(u)
        BY <2>1, <3>1, <3>2
    <3>4. lsnOf[Entry(k, i)] < Base(u)
        BY <1>1, <3>2 DEF PlaceInv, EntriesInv
    <3> QED BY <3>3, <3>4
  <2> QED BY <2>2, <2>3
<1> QED BY <1>3, <1>4, <1>7, <1>8, <1>9, <1>10, <1>11 DEF FileStep

\* Damage spreads only behind the place where it was done: a confirmed record
\* that can be read stays readable until its segment is truncated, whatever
\* writes fail.
THEOREM ReadableRecordsStay == Spec => ReadableStays
<1> DEFINE Stay == \A r \in confirmed : DurableAt(r, lsnOf[r]) =>
                      DurableAt(r, lsnOf[r])' \/ lsnOf[r] < segs'[1].base
<1>1. WalInv /\ WalInv' /\ [Next]_vars => [Stay]_vars
  <2> SUFFICES ASSUME WalInv, WalInv', [Next]_vars, NEW r \in confirmed, DurableAt(r, lsnOf[r])
               PROVE  DurableAt(r, lsnOf[r])' \/ lsnOf[r] < segs'[1].base
      OBVIOUS
  <2>1. DiskInv /\ PlaceInv /\ DiskInv' /\ FileStep
      BY NextFileStep DEF WalInv
  <2>2. /\ r \in 1..Len(lsnOf) /\ lsnOf[r] \in Nat /\ lsnOf'[r] = lsnOf[r]
      BY <2>1, NumberFacts, FileStepTypes DEF DiskInv
  <2>3. PICK n \in Nat : n = lsnOf[r]
      BY <2>2
  <2>4. Held(r, n)
      BY <2>1, <2>3, HeldNow DEF HeldIff
  <2>5. Held(r, n)' \/ n < Base(1)'
      BY <2>1, <2>2, <2>3, <2>4, HeldStays
  <2>6. Held(r, n)' => DurableAt(r, n)'
      BY <2>1, HeldNext DEF HeldIff
  <2>7. DurableAt(r, n)' => DurableAt(r, lsnOf[r])'
      BY <2>2, <2>3 DEF DurableAt
  <2> QED BY <2>3, <2>5, <2>6, <2>7 DEF Base
<1>2. Spec => [][WalInv /\ WalInv' /\ [Next]_vars]_vars
    BY LogKeepsItsInvariant, PTL DEF Spec
<1> QED BY <1>1, <1>2, PTL DEF ReadableStays

\* Truncation is the only step that moves the first LSN, and it moves it up.
LEMMA FirstGrows ==
    ASSUME DiskInv, DiskInv', PlaceInv, FileStep
    PROVE  Base(1) <= Base(1)' /\ Base(1) \in Nat \ {0} /\ Base(1)' \in Nat \ {0}
<1>1. Base(1) \in Nat \ {0} /\ Base(1)' \in Nat \ {0} /\ 1 \in 1..Top
    BY ShapeNow, ShapeNext DEF Shaped
<1>2. TopStep => Base(1)' = Base(1)
    BY <1>1 DEF TopStep
<1>3. CASE \E d \in Nat : Truncates(d)
  <2>1. PICK d \in Nat : Truncates(d)
      BY <1>3
  <2>2. /\ d >= 1 /\ d < Top
        /\ \A l, m \in 1..Top : m = l + d => Base(l)' = Base(m)
      BY <2>1 DEF Truncates
  <2>3. PICK u \in 1..Top : u = 1 + d
      BY <2>2, Shape
  <2>4. Base(1)' = Base(u) /\ 1 < u
      BY <1>1, <2>2, <2>3
  <2> QED BY <1>1, <2>4 DEF PlaceInv, BasesInv
<1>4. CASE Stays \/ Frames
    BY <1>1, <1>4, SameFiles DEF Stays, Frames
<1>5. CASE Grows \/ Cuts \/ Opens
    BY <1>1, <1>2, <1>5 DEF Grows, Cuts, Opens
<1>6. CASE Rotates
    BY <1>1, <1>6 DEF Rotates
<1> QED BY <1>1, <1>3, <1>4, <1>5, <1>6 DEF FileStep

\* In an undamaged log a confirmed record is flushed at its own LSN, or its
\* segment was truncated.
ConfirmInv == ~damaged => \A r \in confirmed : Held(r, lsnOf[r]) \/ lsnOf[r] < Base(1)

\* Only a flush that ends without error confirms anything.
LEMMA ConfirmedBy ==
    ASSUME [Next]_vars
    PROVE  confirmed' = confirmed \/ \E t \in Threads : FsyncEnd(t)
<1>1. ASSUME NEW t \in Threads, Step(t)
      PROVE  confirmed' = confirmed \/ FsyncEnd(t)
    BY <1>1 DEF Step, Rotate, RotateFails, Commit, RotateEnd, TakeBatch, Drain, SyncRefused,
                FsyncBegin, Answer, histVars
<1>2. ASSUME NEW t, NEW k, NEW torn, DrainFails(t, k, torn) \/ RotateWriteFails(t, k, torn)
      PROVE  confirmed' = confirmed
    BY <1>2 DEF DrainFails, RotateWriteFails, Answer
<1>3. ASSUME NEW t, FsyncFails(t) \/ RotateBegin(t)
      PROVE  confirmed' = confirmed
    BY <1>3 DEF FsyncFails, RotateBegin, Answer, histVars
<1>4. ASSUME NEW p, NEW next, AppendRecord(p, next)
      PROVE  confirmed' = confirmed
    BY <1>4 DEF AppendRecord
<1>5. ASSUME NEW lsn, TruncateBefore(lsn)
      PROVE  confirmed' = confirmed
    BY <1>5 DEF TruncateBefore, histVars
<1>6. ASSUME NEW k, NEW torn, ReplayFails(k, torn) \/ CloseWriteFails(k, torn)
      PROVE  confirmed' = confirmed
    BY <1>6 DEF ReplayFails, CloseWriteFails
<1>7. ASSUME NEW k, NEW torn, Crash(k, torn)
      PROVE  confirmed' = confirmed
    BY <1>7 DEF Crash, histVars
<1>8. Replay \/ Close \/ CloseFails \/ Open \/ UNCHANGED vars => confirmed' = confirmed
    BY DEF Replay, Close, CloseFails, Open, vars, histVars
<1> QED BY <1>1, <1>2, <1>3, <1>4, <1>5, <1>6, <1>7, <1>8 DEF Next

\* A flush that ends without error has its callers' records on disk: they were
\* in the files when it began, in a segment it flushed or one flushed before.
LEMMA FlushedRecords ==
    ASSUME WalInv, DiskInv', NEW t \in Threads, FsyncEnd(t), ~damaged,
           NEW p \in Told(t), NEW r, r = rec[p], NEW n, n = lsnOf[r]
    PROVE  Held(r, n)' \/ n < Base(1)
<1>0. DiskInv /\ LockInv /\ PlaceInv /\ FlushInv /\ CoverInv /\ pc[t] = "fsync"
    BY DEF WalInv, FsyncEnd
<1>1. ExactEntries /\ ExactSegments /\ ExactBuffer /\ up
    BY DEF WalInv, ExactInv, FsyncEnd
<1>2. p \in Procs /\ Expects(p) /\ r \in 1..Len(lsnOf)
    BY <1>0, ToldExpect, ToldRecords
<1>3. n < Base(1) \/ Written(r) \/ Buffered(r)
    BY <1>0, <1>2 DEF CoverInv
<1>4. /\ n <= target[t] /\ target[t] < Base(Top) + mark[t] /\ mark[t] <= Size(Top)
      /\ target[t] \in Nat /\ mark[t] \in Nat
    BY <1>0 DEF FlushInv, CoverInv, LockInv
<1>5. /\ Base(Top) \in Nat /\ Size(Top) \in Nat /\ n \in Nat /\ Top \in Nat
    BY <1>0, <1>2, Shape, NumberFacts
<1>6. ASSUME Buffered(r) PROVE FALSE
  <2> PICK j \in 1..Len(buf) : buf[j] = r
      BY <1>6 DEF Buffered
  <2>1. n = Base(Top) + Size(Top) + j - 1
      BY <1>1 DEF ExactBuffer
  <2>2. j \in Nat /\ j >= 1
      BY <1>0, NumberFacts
  <2> QED BY <1>4, <1>5, <2>1, <2>2
<1>7. ASSUME Written(r) PROVE Held(r, n)'
  <2> PICK k \in 1..Top : \E i \in 1..Size(k) : Entry(k, i) = r
      BY <1>7 DEF Written
  <2> PICK i \in 1..Size(k) : Entry(k, i) = r
      OBVIOUS
  <2>1. /\ Size(k) \in Nat /\ Base(k) \in Nat /\ Synced(k) \in Nat
        /\ (\A j \in 1..Size(k) : Entry(k, j) # Torn) => Valid(k) = Size(k)
      BY <1>0, Shape
  <2>2. \A j \in 1..Size(k) : Entry(k, j) # Torn
      BY <1>1 DEF ExactEntries
  <2>3. i <= Valid(k) /\ n = Base(k) + i - 1
      BY <1>1, <2>1, <2>2 DEF ExactEntries
  <2>4. /\ TopStep
        /\ k = Top => /\ Synced(k)' = Higher(Synced(k), mark[t])
                      /\ \A j \in 1..Size(k) : Entry(k, j)' = Entry(k, j)
      BY <1>0, FsyncEndKind DEF Grows
  <2>5. k \in 1..Top' /\ Base(k)' = Base(k)
      BY <2>4 DEF TopStep
  <2>6. \A j \in 1..i : j \in 1..Size(k)
      BY <2>1
  <2>7. CASE k = Top
    <3>1. i <= mark[t]
        BY <1>4, <1>5, <2>1, <2>3, <2>7
    <3>2. Higher(Synced(k), mark[t]) >= mark[t] /\ Higher(Synced(k), mark[t]) \in Nat
        BY <1>4, <2>1, HigherFacts
    <3>3. i <= Synced(k)'
        BY <1>4, <2>1, <2>4, <2>7, <3>1, <3>2
    <3>4. \A j \in 1..i : Entry(k, j)' = Entry(k, j)
        BY <2>4, <2>6, <2>7
    <3> QED BY <1>0, <2>3, <2>5, <3>3, <3>4, HeldAt
  <2>8. CASE k # Top
    <3>1. k < Top
        BY <1>5, <2>8
    <3>2. Synced(k)' = Size(k)
        BY <1>1, <2>4, <2>8, <3>1 DEF ExactSegments, TopStep, Same
    <3>3. \A j \in 1..i : Entry(k, j)' = Entry(k, j)
        BY <2>4, <2>6, <2>8 DEF TopStep, Same
    <3>4. i <= Synced(k)'
        BY <2>1, <3>2
    <3> QED BY <1>0, <2>3, <2>5, <3>3, <3>4, HeldAt
  <2> QED BY <2>7, <2>8
<1> QED BY <1>3, <1>6, <1>7

\* No step takes a confirmed record out of an undamaged log's valid part.
LEMMA ConfirmStep ==
    ASSUME WalInv, WalInv', ConfirmInv, [Next]_vars
    PROVE  ConfirmInv'
<1>0. DiskInv /\ LockInv /\ PlaceInv /\ FlushInv /\ DiskInv' /\ PlaceInv'
    BY DEF WalInv
<1>1. FileStep
    BY <1>0, NextFileStep
<1>2. /\ \A r \in 1..Len(lsnOf) : lsnOf'[r] = lsnOf[r] /\ lsnOf[r] \in Nat
      /\ damaged => damaged'
      /\ confirmed \subseteq 1..Len(lsnOf)
    BY <1>0, <1>1, FileStepTypes, NumberFacts DEF DiskInv
<1> SUFFICES ASSUME ~damaged', NEW r \in confirmed'
             PROVE  (Held(r, lsnOf[r]) \/ lsnOf[r] < Base(1))'
    BY DEF ConfirmInv
<1>3. ~damaged
    BY <1>2
<1>4. Base(1) <= Base(1)' /\ Base(1) \in Nat /\ Base(1)' \in Nat
    BY <1>0, <1>1, FirstGrows
<1>5. ASSUME NEW n, n = lsnOf[r], r \in 1..Len(lsnOf), Held(r, n)' \/ n < Base(1)'
      PROVE  (Held(r, lsnOf[r]) \/ lsnOf[r] < Base(1))'
  <2>1. lsnOf'[r] = n
      BY <1>2, <1>5
  <2> QED BY <1>5, <2>1 DEF Held
<1>6. CASE r \in confirmed
  <2>1. r \in 1..Len(lsnOf) /\ (Held(r, lsnOf[r]) \/ lsnOf[r] < Base(1))
      BY <1>2, <1>3, <1>6 DEF ConfirmInv
  <2>2. PICK n \in Nat : n = lsnOf[r]
      BY <1>2, <2>1
  <2>3. CASE n < Base(1)
    <3>1. n < Base(1)'
        BY <1>4, <2>2, <2>3
    <3> QED BY <1>5, <2>1, <2>2, <3>1
  <2>4. CASE Held(r, n)
      BY <1>0, <1>1, <1>5, <2>1, <2>2, <2>4, HeldStays
  <2> QED BY <2>1, <2>2, <2>3, <2>4
<1>7. CASE r \notin confirmed
  <2>1. PICK t \in Threads : FsyncEnd(t)
      BY <1>7, ConfirmedBy
  <2>2. confirmed' = confirmed \cup {rec[p] : p \in Told(t)}
      BY <2>1 DEF FsyncEnd, Answer, Told
  <2>3. PICK p \in Told(t) : r = rec[p]
      BY <1>7, <2>2
  <2>4. PICK n : n = lsnOf[r]
      OBVIOUS
  <2>5. Held(r, n)' \/ n < Base(1)
      BY <1>0, <1>3, <2>1, <2>3, <2>4, FlushedRecords
  <2>6. r \in 1..Len(lsnOf) /\ n \in Nat
      BY <1>0, <1>2, <2>1, <2>3, <2>4, ToldRecords DEF FsyncEnd
  <2>7. n < Base(1) => n < Base(1)'
      BY <1>4, <2>6
  <2> QED BY <1>5, <2>4, <2>5, <2>6, <2>7
<1> QED BY <1>6, <1>7

\* A record whose caller was told it is durable can be read at its own LSN
\* after any crash until its segment is truncated, unless a write failed
\* part-way: for any number of callers, records, failures and crashes.
THEOREM ConfirmedRecordsAreReadable == Spec => []ConfirmedReadable
<1>1. Init => ConfirmInv
    BY DEF Init, ConfirmInv
<1>2. WalInv /\ WalInv' /\ ConfirmInv /\ [Next]_vars => ConfirmInv'
    BY ConfirmStep
<1>3. WalInv /\ ConfirmInv => ConfirmedReadable
  <2> SUFFICES ASSUME WalInv, ConfirmInv, ~damaged, NEW r \in confirmed, lsnOf[r] >= segs[1].base
               PROVE  DurableAt(r, lsnOf[r])
      BY DEF ConfirmedReadable
  <2>1. DiskInv /\ (Held(r, lsnOf[r]) \/ lsnOf[r] < Base(1))
      BY DEF WalInv, ConfirmInv
  <2>2. lsnOf[r] \in Nat /\ Base(1) \in Nat
      BY <2>1, NumberFacts, Shape DEF DiskInv
  <2>3. ~(lsnOf[r] < Base(1))
      BY <2>2 DEF Base
  <2> QED BY <2>1, <2>2, <2>3, HeldNow DEF HeldIff
<1> QED BY <1>1, <1>2, <1>3, LogKeepsItsInvariant, PTL DEF Spec

-----------------------------------------------------------------------------
(* What a crash leaves *)

\* What the running log keeps and a crash leaves: the LSNs on disk and those
\* claimed were given out, and no torn entry is among the flushed ones.
LeftInv ==
    /\ \A k \in 1..Top : \A i \in 1..Size(k) :
          Entry(k, i) # Torn => lsnOf[Entry(k, i)] < nextLSN
    /\ Base(Top) <= nextLSN
    /\ claimed < nextLSN
    /\ ~damaged => Synced(Top) <= Valid(Top)

\* In a running log it follows from the invariant.
LEMMA LeftUp == WalInv /\ up => LeftInv
<1> SUFFICES ASSUME WalInv, up PROVE LeftInv
    OBVIOUS
<1>1. DiskInv /\ PlaceInv /\ ExactInv /\ FlushInv
    BY DEF WalInv
<1>2. \A k \in 1..Top : \A i \in 1..Size(k) :
          Entry(k, i) # Torn => lsnOf[Entry(k, i)] < nextLSN
    BY <1>1 DEF PlaceInv, EntriesInv
<1>3. Base(Top) <= nextLSN /\ claimed < nextLSN
    BY <1>1 DEF PlaceInv, NextInv, FlushInv
<1>4. ASSUME ~damaged PROVE Synced(Top) <= Valid(Top)
  <2>1. /\ Top \in 1..Top /\ Synced(Top) <= Size(Top)
        /\ (\A i \in 1..Size(Top) : Entry(Top, i) # Torn) => Valid(Top) = Size(Top)
      BY <1>1, Shape
  <2>2. \A i \in 1..Size(Top) : Entry(Top, i) # Torn
      BY <1>1, <1>4, <2>1 DEF ExactInv, ExactEntries
  <2> QED BY <2>1, <2>2
<1> QED BY <1>2, <1>3, <1>4 DEF LeftInv

\* The same after the step.
LEMMA LeftUpNext == WalInv' /\ up' => LeftInv'
BY LeftUp, PTL

\* A crash leaves it so.
LEMMA LeftCrash ==
    ASSUME WalInv, WalInv', LeftInv, NEW n \in Nat, NEW torn \in BOOLEAN, Crash(n, torn)
    PROVE  LeftInv'
<1> PICK t : t = Top
    OBVIOUS
<1>0. DiskInv /\ DiskInv' /\ ExactInv
    BY DEF WalInv
<1>1. Cuts /\ claimed' = claimed
    BY <1>0, CrashCuts DEF Crash, histVars
<1>2. /\ t \in 1..Top /\ Top' = t /\ Top' = Top
      /\ Base(Top)' = Base(t) /\ Base(Top) = Base(t)
      /\ Synced(Top)' = Synced(t)' /\ Valid(Top)' = Valid(t)'
    BY <1>0, <1>1, TopValues DEF Cuts
<1>3. /\ lsnOf' = lsnOf /\ nextLSN' = nextLSN /\ damaged' = damaged /\ up
      /\ \A k \in 1..Top : k # Top => Same(k)
      /\ Synced(t)' = Synced(t)
    BY <1>1, <1>2 DEF Cuts, TopStep
<1>4. PICK m \in 0..Size(t) :
        /\ Synced(t) <= m /\ m <= Size(t)' /\ Size(t)' \in Nat
        /\ \A i \in 1..m : Entry(t, i)' = Entry(t, i)
        /\ \A i \in 1..Size(t)' : i > m => Entry(t, i)' = Torn
    BY <1>1, <1>2 DEF Cuts
<1>5. Size(t) \in Nat /\ Synced(t) \in Nat
    BY <1>0, <1>2, Shape
<1>6. ASSUME NEW k \in 1..Top', NEW i \in 1..Size(k)', Entry(k, i)' # Torn
      PROVE  (lsnOf[Entry(k, i)])' < nextLSN'
  <2>1. k \in 1..Top /\ i \in 1..Size(k) /\ Entry(k, i)' = Entry(k, i)
    <3>1. CASE k # t
        BY <1>2, <1>3, <1>6, <3>1 DEF Same
    <3>2. CASE k = t
      <4>1. i \in 1..m
          BY <1>4, <1>5, <1>6, <3>2
      <4> QED BY <1>2, <1>4, <1>5, <3>2, <4>1
    <3> QED BY <3>1, <3>2
  <2> QED BY <1>3, <1>6, <2>1 DEF LeftInv
<1>7. Base(Top)' <= nextLSN' /\ claimed' < nextLSN'
    BY <1>1, <1>2, <1>3 DEF LeftInv
<1>8. ASSUME ~damaged' PROVE Synced(t)' <= Valid(t)'
  <2>1. \A i \in 1..Size(t) : Entry(t, i) # Torn
      BY <1>0, <1>2, <1>3, <1>8 DEF ExactInv, ExactEntries
  <2>2. /\ Valid(t)' \in Nat
        /\ \A i \in 1..Size(t)' : i <= Valid(t)' <=> \A j \in 1..i : Entry(t, j)' # Torn
      BY <1>0, <1>2, ShapeNext DEF Shaped
  <2>3. CASE Synced(t) = 0
      BY <1>3, <2>2, <2>3
  <2>4. CASE Synced(t) # 0
    <3>1. PICK y \in 1..Size(t)' : y = Synced(t)
        BY <1>4, <1>5, <2>4
    <3>2. \A j \in 1..y : j \in 1..m /\ j \in 1..Size(t)
        BY <1>4, <1>5, <3>1
    <3>3. \A j \in 1..y : Entry(t, j)' # Torn
        BY <1>4, <2>1, <3>2
    <3> QED BY <1>3, <2>2, <3>1, <3>3
  <2> QED BY <2>3, <2>4
<1> QED BY <1>2, <1>6, <1>7, <1>8 DEF LeftInv

\* Every step keeps it.
LEMMA LeftStep ==
    ASSUME WalInv, WalInv', LeftInv, [Next]_vars
    PROVE  LeftInv'
<1>1. CASE up'
    BY <1>1, LeftUpNext
<1>2. CASE ~up'
  <2>1. \/ UNCHANGED vars
        \/ Open
        \/ \E n \in Nat, torn \in BOOLEAN : Crash(n, torn)
      BY <1>2, DownStep DEF WalInv
  <2>2. CASE UNCHANGED vars
    <3>1. UNCHANGED <<segs, nextLSN, lsnOf, damaged, claimed>>
        BY <2>2 DEF vars, fileVars, histVars
    <3> QED BY <3>1 DEF LeftInv, Top, Base, Size, Synced, Valid, Entry
  <2>3. CASE Open
      BY <1>2, <2>3 DEF Open
  <2> QED BY <2>1, <2>2, <2>3, LeftCrash
<1> QED BY <1>1, <1>2

-----------------------------------------------------------------------------
(* How much of the log is stable *)

\* Some record is flushed at LSN n.
GoodAt(n) == \E r \in 1..Len(lsnOf) : lsnOf[r] = n /\ Held(r, n)

\* What StableLen chooses.
StableIs ==
    /\ StableLen \in Nat
    /\ Base(1) <= StableLen + 1
    /\ \A n \in Nat : /\ Base(1) <= n /\ n <= StableLen => GoodAt(n)
                      /\ n = StableLen + 1 => ~GoodAt(n)

\* There are more LSNs than records.
LEMMA SomeMissing ==
    ASSUME DiskInv, NEW f \in Nat
    PROVE  \E n \in f..(f + MaxAppends) : ~GoodAt(n)
<1> SUFFICES ASSUME \A n \in f..(f + MaxAppends) : GoodAt(n) PROVE FALSE
    OBVIOUS
<1> DEFINE L == 1..Len(lsnOf)
           I == {lsnOf[r] : r \in L}
<1>1. Len(lsnOf) \in Nat /\ Len(lsnOf) <= MaxAppends /\ MaxAppends \in Nat
    BY NumberFacts, Bounds DEF DiskInv
<1>2. f..(f + MaxAppends) \subseteq I
    BY DEF GoodAt
<1>3. IsFiniteSet(L) /\ Cardinality(L) = Len(lsnOf)
  <2>1. PICK b \in Nat : b = Len(lsnOf)
      BY <1>1
  <2>2. IsFiniteSet(1..b) /\ Cardinality(1..b) = IF 1 > b THEN 0 ELSE b - 1 + 1
      BY FS_Interval
  <2>3. Cardinality(1..b) = b
      BY <2>2
  <2> QED BY <2>1, <2>2, <2>3
<1>4. IsFiniteSet(I) /\ Cardinality(I) <= Cardinality(L)
  <2> DEFINE F == [r \in L |-> lsnOf[r]]
  <2>1. F \in Surjection(L, I)
      BY DEF Surjection
  <2> HIDE DEF L, I, F
  <2> QED BY <1>3, <2>1, FS_Surjection
<1> HIDE DEF L
<1> HIDE DEF I
<1>5. Cardinality(f..(f + MaxAppends)) <= Cardinality(I)
    BY <1>2, <1>4, FS_Subset
<1>6. Cardinality(f..(f + MaxAppends)) = MaxAppends + 1
    BY <1>1, FS_Interval
<1>7. Cardinality(I) \in Nat
    BY <1>4, FS_CardinalityType
<1> QED BY <1>1, <1>3, <1>4, <1>5, <1>6, <1>7

\* What the stable length is.
LEMMA StableNow == DiskInv => StableIs
<1> SUFFICES ASSUME DiskInv PROVE StableIs
    OBVIOUS
<1>1. PICK f \in Nat \ {0} : f = Base(1)
    BY Shape
<1>2. \A n \in Nat : (\E r \in 1..Len(lsnOf) : lsnOf[r] = n /\ DurableAt(r, n)) <=> GoodAt(n)
    BY HeldNow DEF HeldIff, GoodAt
<1> DEFINE P(n) == (\A i \in f..n : GoodAt(i)) /\ ~GoodAt(n + 1)
<1>3. \E n \in (f - 1)..(f + MaxAppends) : P(n)
  <2> DEFINE B == {n \in f..(f + MaxAppends) : ~GoodAt(n)}
  <2>1. B \subseteq Nat /\ B # {}
    <3>1. \E n \in f..(f + MaxAppends) : ~GoodAt(n)
        BY SomeMissing
    <3> QED BY <1>1, <3>1, Bounds
  <2>2. Min(B) \in B /\ \A x \in B : Min(B) <= x
      BY <2>1, NatMin
  <2>3. PICK m \in f..(f + MaxAppends) : ~GoodAt(m) /\ \A x \in B : m <= x
      BY <2>2
  <2>4. ASSUME NEW i \in f..(m - 1) PROVE GoodAt(i)
    <3>1. i \in f..(f + MaxAppends) /\ ~(m <= i)
        BY <1>1, <2>3, Bounds
    <3> QED BY <2>3, <3>1
  <2>5. m - 1 \in (f - 1)..(f + MaxAppends) /\ (m - 1) + 1 = m
      BY <1>1, <2>3, Bounds
  <2>6. P(m - 1)
      BY <2>3, <2>4, <2>5
  <2> HIDE DEF P
  <2> QED BY <2>5, <2>6
<1>4. StableLen = CHOOSE n \in (f - 1)..(f + MaxAppends) :
                     /\ \A i \in f..n : \E r \in 1..Len(lsnOf) : lsnOf[r] = i /\ DurableAt(r, i)
                     /\ ~\E r \in 1..Len(lsnOf) : lsnOf[r] = n + 1 /\ DurableAt(r, n + 1)
    BY <1>1 DEF StableLen, Base
<1>5. StableLen \in (f - 1)..(f + MaxAppends) /\ P(StableLen)
  <2> DEFINE Q(n) == /\ \A i \in f..n : \E r \in 1..Len(lsnOf) : lsnOf[r] = i /\ DurableAt(r, i)
                     /\ ~\E r \in 1..Len(lsnOf) : lsnOf[r] = n + 1 /\ DurableAt(r, n + 1)
  <2>1. ASSUME NEW n \in (f - 1)..(f + MaxAppends) PROVE P(n) <=> Q(n)
    <3>1. n + 1 \in Nat /\ \A i \in f..n : i \in Nat
        BY <1>1, Bounds
    <3> QED BY <1>2, <3>1
  <2>2. StableLen = CHOOSE n \in (f - 1)..(f + MaxAppends) : Q(n)
      BY <1>4
  <2> HIDE DEF P, Q
  <2>3. \E n \in (f - 1)..(f + MaxAppends) : Q(n)
      BY <1>3, <2>1
  <2>4. StableLen \in (f - 1)..(f + MaxAppends) /\ Q(StableLen)
      BY <2>2, <2>3
  <2> QED BY <2>1, <2>4
<1>6. StableLen \in Nat /\ f <= StableLen + 1
    BY <1>1, <1>5, Bounds
<1> QED BY <1>1, <1>5, <1>6 DEF StableIs

\* The same after the step.
LEMMA StableNext == DiskInv' => StableIs'
BY StableNow, PTL

\* What is stable at least.
LEMMA StableAtLeast ==
    ASSUME StableIs, NEW m \in Nat, \A n \in Nat : Base(1) <= n /\ n <= m => GoodAt(n)
    PROVE  m <= StableLen
<1> SUFFICES ASSUME ~(m <= StableLen) PROVE FALSE
    OBVIOUS
<1>1. PICK n \in Nat : n = StableLen + 1
    BY DEF StableIs
<1>2. Base(1) <= n /\ n <= m /\ ~GoodAt(n)
    BY <1>1 DEF StableIs
<1> QED BY <1>2

\* A log with a record at every LSN up to m is stable up to m.
LEMMA StableAtLeastNext ==
    ASSUME StableIs', NEW m \in Nat, \A n \in Nat : Base(1)' <= n /\ n <= m => GoodAt(n)'
    PROVE  m <= StableLen'
<1> PICK s : s = StableLen'
    OBVIOUS
<1>1. /\ s \in Nat /\ Base(1)' <= s + 1
      /\ \A n \in Nat : n = s + 1 => ~GoodAt(n)'
    BY DEF StableIs
<1> SUFFICES ASSUME ~(m <= s) PROVE FALSE
    OBVIOUS
<1>2. \A a \in Nat : \A b \in Nat : ~(b <= a) => a + 1 \in Nat /\ a + 1 <= b
    OBVIOUS
<1>3. s + 1 \in Nat /\ s + 1 <= m
    BY <1>1, <1>2, Zenon
<1>4. ASSUME NEW n, n = s + 1 PROVE FALSE
    BY <1>1, <1>3, <1>4, Zenon
<1> QED BY <1>4

\* What is stable stays so.
LEMMA StableGrows ==
    ASSUME DiskInv, PlaceInv, DiskInv', FileStep
    PROVE  StableLen <= StableLen'
<1> PICK s : s = StableLen
    OBVIOUS
<1>1. /\ s \in Nat
      /\ \A n \in Nat : Base(1) <= n /\ n <= s => GoodAt(n)
    BY StableNow DEF StableIs
<1>2. Base(1) <= Base(1)' /\ Base(1) \in Nat /\ Base(1)' \in Nat
    BY FirstGrows
<1>3. ASSUME NEW n \in Nat, Base(1)' <= n, n <= s PROVE GoodAt(n)'
  <2>1. GoodAt(n)
      BY <1>1, <1>2, <1>3
  <2>2. PICK r \in 1..Len(lsnOf) : lsnOf[r] = n /\ Held(r, n)
      BY <2>1 DEF GoodAt
  <2>3. Held(r, n)' \/ n < Base(1)'
      BY <2>2, HeldStays
  <2>4. lsnOf'[r] = n /\ r \in 1..Len(lsnOf')
    <3>1. /\ Len(lsnOf) <= Len(lsnOf') /\ Len(lsnOf') \in Nat /\ Len(lsnOf) \in Nat
          /\ \A x \in 1..Len(lsnOf) : lsnOf'[x] = lsnOf[x]
        BY FileStepTypes, NumberFacts
    <3> QED BY <2>2, <3>1
  <2> QED BY <1>2, <1>3, <2>3, <2>4 DEF GoodAt
<1>4. s <= StableLen'
    BY <1>1, <1>3, StableNext, StableAtLeastNext
<1> QED BY <1>4

\* Nothing that was flushed changes, and nothing more is flushed.
Unmoved ==
    /\ Top' = Top
    /\ \A k \in 1..Top : /\ Base(k)' = Base(k) /\ Synced(k)' = Synced(k)
                         /\ \A i \in 1..Synced(k) : Entry(k, i)' = Entry(k, i)

\* The stable length stays while nothing flushed changes.
LEMMA StableKept ==
    ASSUME DiskInv, PlaceInv, DiskInv', FileStep, Unmoved
    PROVE  StableLen' = StableLen
<1> PICK s : s = StableLen'
    OBVIOUS
<1>1. /\ s \in Nat
      /\ \A n \in Nat : Base(1)' <= n /\ n <= s => GoodAt(n)'
    BY StableNext DEF StableIs
<1>2. Base(1)' = Base(1) /\ StableLen \in Nat
    BY Shape, StableNow DEF Unmoved, StableIs
<1>3. ASSUME NEW n \in Nat, Base(1) <= n, n <= s PROVE GoodAt(n)
  <2>1. GoodAt(n)'
      BY <1>1, <1>2, <1>3
  <2>2. PICK r \in 1..Len(lsnOf') : lsnOf'[r] = n /\ Held(r, n)'
      BY <2>1 DEF GoodAt
  <2>3. PICK k \in 1..Top' : \E i \in 1..Synced(k)' :
            i <= Valid(k)' /\ Entry(k, i)' = r /\ n = Base(k)' + i - 1
      BY <2>2 DEF Held
  <2>4. PICK i \in 1..Synced(k)' : i <= Valid(k)' /\ Entry(k, i)' = r /\ n = Base(k)' + i - 1
      BY <2>3
  <2>5. /\ k \in 1..Top /\ i \in 1..Synced(k) /\ Entry(k, i) = r /\ n = Base(k) + i - 1
        /\ \A j \in 1..Synced(k) : Entry(k, j)' = Entry(k, j)
      BY <2>3, <2>4 DEF Unmoved
  <2>6. /\ Synced(k) \in Nat /\ Size(k) \in Nat /\ Synced(k) <= Size(k)
        /\ \A m \in 1..Size(k) : m <= Valid(k) <=> \A j \in 1..m : Entry(k, j) # Torn
      BY <2>5, Shape
  <2>7. /\ Synced(k)' \in Nat /\ Size(k)' \in Nat /\ Synced(k)' <= Size(k)'
        /\ \A m \in 1..Size(k)' : m <= Valid(k)' <=> \A j \in 1..m : Entry(k, j)' # Torn
      BY <2>3, ShapeNext DEF Shaped
  <2>8. \A j \in 1..i : Entry(k, j)' # Torn /\ j \in 1..Synced(k)
    <3>1. i \in 1..Size(k)'
        BY <2>4, <2>7
    <3>2. \A j \in 1..i : j \in 1..Synced(k)
        BY <2>5, <2>6
    <3> QED BY <2>4, <2>7, <3>1, <3>2
  <2>9. \A j \in 1..i : Entry(k, j) # Torn
      BY <2>5, <2>8
  <2>10. i <= Valid(k) /\ i \in 1..Size(k) /\ r # Torn
    <3>1. i \in 1..Size(k) /\ i \in 1..i
        BY <2>5, <2>6
    <3> QED BY <2>5, <2>6, <2>9, <3>1
  <2>11. Held(r, n)
      BY <2>5, <2>10 DEF Held
  <2>12. r \in 1..Len(lsnOf)
      BY <2>5, <2>10, EntryRecord DEF PlaceInv
  <2>13. lsnOf[r] = n
      BY <2>2, <2>12, FileStepTypes
  <2> QED BY <2>11, <2>12, <2>13 DEF GoodAt
<1>4. s <= StableLen
    BY <1>1, <1>3, StableNow, StableAtLeast
<1>5. StableLen <= s
    BY StableGrows
<1> QED BY <1>1, <1>2, <1>4, <1>5

\* What is stable was given out; in an undamaged log it reaches as far as the
\* flushed entries do.
StableBounds ==
    /\ StableLen < nextLSN
    /\ ~damaged => Base(Top) + Synced(Top) <= StableLen + 1

\* Every LSN up to the flushed end is in some segment.
LEMMA FlushedGood ==
    ASSUME WalInv, LeftInv, ~damaged, NEW n \in Nat, Base(1) <= n, n < Base(Top) + Synced(Top)
    PROVE  GoodAt(n)
<1>0. DiskInv /\ EntriesInv /\ ExactEntries /\ ExactSegments /\ Synced(Top) <= Valid(Top)
    BY DEF WalInv, PlaceInv, ExactInv, LeftInv
<1>1. /\ Top \in Nat \ {0} /\ 1 \in 1..Top /\ Top \in 1..Top
      /\ \A k \in 1..Top : Base(k) \in Nat /\ Size(k) \in Nat /\ Synced(k) \in Nat
      /\ \A k \in 1..Top : Valid(k) \in Nat /\ Valid(k) <= Size(k) /\ Synced(k) <= Size(k)
    BY <1>0, Shape
<1>2. \E k \in 1..Top : Base(k) <= n /\ n < Base(k) + Synced(k) /\ Synced(k) <= Valid(k)
  <2> DEFINE B == {k \in 1..Top : n < Base(k)}
  <2>1. CASE B = {}
      BY <1>0, <1>1, <2>1
  <2>2. CASE B # {}
    <3>1. B \subseteq Nat
        BY <1>1
    <3>2. Min(B) \in B /\ \A x \in B : Min(B) <= x
        BY <2>2, <3>1, NatMin
    <3>3. PICK m \in 1..Top : n < Base(m) /\ \A x \in B : m <= x
        BY <3>2
    <3>4. m # 1
        BY <1>1, <3>3
    <3>5. PICK k \in 1..Top : k = m - 1 /\ k + 1 = m /\ k < Top
        BY <1>1, <3>3, <3>4
    <3>6. ~(n < Base(k))
        BY <3>3, <3>5
    <3>7. Synced(k) = Size(k) /\ Base(m) = Base(k) + Size(k)
        BY <1>0, <3>5 DEF ExactSegments
    <3>8. Valid(k) = Size(k)
      <4>1. \A i \in 1..Size(k) : Entry(k, i) # Torn
          BY <1>0, <1>1, <3>5 DEF ExactEntries
      <4> QED BY <1>0, <4>1, Shape
    <3> HIDE DEF B
    <3> QED BY <1>1, <3>3, <3>6, <3>7, <3>8
  <2> QED BY <2>1, <2>2
<1>3. PICK k \in 1..Top : Base(k) <= n /\ n < Base(k) + Synced(k) /\ Synced(k) <= Valid(k)
    BY <1>2
<1>4. PICK i \in 1..Synced(k) : n = Base(k) + i - 1
  <2>1. n - Base(k) + 1 \in 1..Synced(k) /\ n = Base(k) + (n - Base(k) + 1) - 1
      BY <1>1, <1>3
  <2> QED BY <2>1
<1>5. i <= Valid(k) /\ i \in 1..Size(k)
    BY <1>1, <1>3, <1>4
<1>6. Entry(k, i) # Torn
  <2>1. i \in 1..i
      BY <1>1, <1>4
  <2> QED BY <1>0, <1>5, <2>1, Shape
<1>7. lsnOf[Entry(k, i)] = n /\ Entry(k, i) \in 1..Len(lsnOf)
    BY <1>0, <1>4, <1>5, <1>6, EntryRecord DEF ExactEntries
<1>8. Held(Entry(k, i), n)
    BY <1>4, <1>5 DEF Held
<1> QED BY <1>7, <1>8 DEF GoodAt

\* Where the stable length lies.
LEMMA BoundsNow == WalInv /\ LeftInv => StableBounds
<1> SUFFICES ASSUME WalInv, LeftInv PROVE StableBounds
    OBVIOUS
<1>0. DiskInv /\ PlaceInv /\ StableIs
    BY StableNow DEF WalInv
<1>1. /\ nextLSN \in Nat /\ StableLen \in Nat /\ Base(1) \in Nat \ {0} /\ Base(Top) \in Nat
      /\ 1 \in 1..Top /\ Top \in 1..Top /\ Base(Top) <= nextLSN /\ Synced(Top) \in Nat
    BY <1>0, Shape, NumberFacts DEF StableIs, LeftInv
<1>2. StableLen < nextLSN
  <2>1. CASE Base(1) <= StableLen
    <3>1. GoodAt(StableLen)
        BY <1>0, <1>1, <2>1 DEF StableIs
    <3>2. PICK r \in 1..Len(lsnOf) : lsnOf[r] = StableLen /\ Held(r, StableLen)
        BY <3>1 DEF GoodAt
    <3>3. PICK k \in 1..Top : \E i \in 1..Synced(k) : Entry(k, i) = r
        BY <3>2 DEF Held
    <3>4. PICK i \in 1..Synced(k) : Entry(k, i) = r
        BY <3>3
    <3>5. i \in 1..Size(k) /\ r # Torn
      <4>1. Synced(k) \in Nat /\ Size(k) \in Nat /\ Synced(k) <= Size(k) /\ Len(lsnOf) \in Nat
          BY <1>0, Shape, NumberFacts
      <4> QED BY <3>2, <3>4, <4>1
    <3> QED BY <3>2, <3>4, <3>5 DEF LeftInv
  <2>2. CASE ~(Base(1) <= StableLen)
    <3>1. Base(1) <= Base(Top)
        BY <1>0, <1>1, Shape DEF PlaceInv, BasesInv
    <3> QED BY <1>1, <2>2, <3>1
  <2> QED BY <2>1, <2>2
<1>3. ASSUME ~damaged PROVE Base(Top) + Synced(Top) <= StableLen + 1
  <2>1. Base(Top) # 0
      BY <1>0, Shape
  <2>2. PICK m \in Nat : m + 1 = Base(Top) + Synced(Top)
      BY <1>1, <2>1
  <2>3. \A n \in Nat : Base(1) <= n /\ n <= m => GoodAt(n)
      BY <1>1, <1>3, <2>2, FlushedGood
  <2>4. m <= StableLen
      BY <1>0, <2>3, StableAtLeast
  <2> QED BY <1>1, <2>2, <2>4
<1> QED BY <1>2, <1>3 DEF StableBounds

\* The same after the step.
LEMMA BoundsNext == WalInv' /\ LeftInv' => StableBounds'
BY BoundsNow, PTL

-----------------------------------------------------------------------------
(* The highest LSN that was confirmed *)

LastConfirmed == IF confirmed = {} THEN 0 ELSE Max({lsnOf[r] : r \in confirmed})

LastIs ==
    /\ LastConfirmed \in Nat
    /\ \A r \in confirmed : lsnOf[r] <= LastConfirmed
    /\ confirmed = {} => LastConfirmed = 0
    /\ confirmed # {} => \E r \in confirmed : lsnOf[r] = LastConfirmed

\* A bounded set of numbers that is not empty has a greatest element.
LEMMA NatMax ==
    ASSUME NEW S, S \subseteq Nat, S # {}, NEW b \in Nat, \A x \in S : x <= b
    PROVE  Max(S) \in S /\ \A x \in S : x <= Max(S)
<1> DEFINE U == {u \in Nat : \A x \in S : x <= u}
<1>1. U \subseteq Nat /\ U # {}
    OBVIOUS
<1>2. Min(U) \in U /\ \A u \in U : Min(U) <= u
    BY <1>1, NatMin
<1>3. PICK m \in Nat : (\A x \in S : x <= m) /\ \A u \in U : m <= u
    BY <1>2
<1>4. m \in S
  <2> SUFFICES ASSUME m \notin S PROVE FALSE
      OBVIOUS
  <2>1. PICK y \in S : y \in Nat
      OBVIOUS
  <2>2. m - 1 \in Nat
      BY <1>3, <2>1
  <2>3. \A x \in S : x <= m - 1
      BY <1>3, <2>2
  <2>4. m - 1 \in U
      BY <2>2, <2>3
  <2>5. m <= m - 1
      BY <1>3, <2>4
  <2> QED BY <2>5
<1>5. \E x \in S : \A y \in S : x >= y
    BY <1>3, <1>4
<1>6. Max(S) \in S /\ \A y \in S : Max(S) >= y
    BY <1>5 DEF Max
<1> QED BY <1>6

\* Finitely many LSNs were given out.
LEMMA LsnBound ==
    ASSUME DiskInv
    PROVE  \E b \in Nat : \A r \in 1..Len(lsnOf) : lsnOf[r] <= b
<1> DEFINE Bounded(n) == \E b \in Nat : \A r \in 1..n : lsnOf[r] <= b
           B == {n \in 0..Len(lsnOf) : ~Bounded(n)}
<1>1. Len(lsnOf) \in Nat /\ \A r \in 1..Len(lsnOf) : lsnOf[r] \in Nat
    BY NumberFacts
<1> SUFFICES ASSUME ~Bounded(Len(lsnOf)) PROVE FALSE
    OBVIOUS
<1> HIDE DEF Bounded
<1>2. B \subseteq Nat /\ B # {}
    BY <1>1
<1>3. Min(B) \in B /\ \A x \in B : Min(B) <= x
    BY <1>2, NatMin
<1>4. PICK m \in 0..Len(lsnOf) : ~Bounded(m) /\ \A x \in B : m <= x
    BY <1>3
<1>5. m # 0
  <2>1. 1..0 = {}
      OBVIOUS
  <2>2. \A r \in 1..0 : lsnOf[r] <= 0
      BY <2>1
  <2>3. Bounded(0)
      BY <2>2 DEF Bounded
  <2> QED BY <1>4, <2>3
<1>6. m - 1 \in 0..Len(lsnOf) /\ ~(m <= m - 1)
    BY <1>1, <1>4, <1>5
<1>7. Bounded(m - 1)
    BY <1>4, <1>6
<1>8. PICK b \in Nat : \A r \in 1..(m - 1) : lsnOf[r] <= b
    BY <1>7 DEF Bounded
<1>9. m \in 1..Len(lsnOf) /\ lsnOf[m] \in Nat
    BY <1>1, <1>4, <1>5
<1>10. PICK c \in Nat : c >= b /\ c >= lsnOf[m]
    BY <1>9, HigherFacts
<1>11. ASSUME NEW r \in 1..m PROVE lsnOf[r] <= c
  <2>1. CASE r = m
      BY <1>9, <1>10, <2>1
  <2>2. CASE r # m
    <3>1. r \in 1..(m - 1) /\ r \in 1..Len(lsnOf)
        BY <1>1, <1>9, <2>2
    <3> QED BY <1>1, <1>8, <1>10, <3>1
  <2> QED BY <2>1, <2>2
<1>12. Bounded(m)
    BY <1>11 DEF Bounded
<1> QED BY <1>4, <1>12

\* The highest confirmed LSN exists.
LEMMA LastNow == DiskInv => LastIs
<1> SUFFICES ASSUME DiskInv PROVE LastIs
    OBVIOUS
<1>1. confirmed \subseteq 1..Len(lsnOf) /\ \A r \in 1..Len(lsnOf) : lsnOf[r] \in Nat
    BY NumberFacts DEF DiskInv
<1>2. CASE confirmed = {}
    BY <1>2 DEF LastConfirmed, LastIs
<1>3. CASE confirmed # {}
  <2> DEFINE S == {lsnOf[r] : r \in confirmed}
  <2>1. S \subseteq Nat /\ S # {}
      BY <1>1, <1>3
  <2>2. PICK b \in Nat : \A r \in 1..Len(lsnOf) : lsnOf[r] <= b
      BY LsnBound
  <2>3. \A x \in S : x <= b
      BY <1>1, <2>2
  <2>4. Max(S) \in S /\ \A x \in S : x <= Max(S)
      BY <2>1, <2>3, NatMax
  <2>5. LastConfirmed = Max(S)
      BY <1>3 DEF LastConfirmed
  <2>6. LastConfirmed \in S /\ \A x \in S : x <= LastConfirmed
      BY <2>4, <2>5
  <2>7. \E r \in confirmed : lsnOf[r] = LastConfirmed
      BY <2>6
  <2>8. \A r \in confirmed : lsnOf[r] <= LastConfirmed
      BY <2>6
  <2>9. LastConfirmed \in Nat
      BY <2>1, <2>6
  <2> QED BY <1>3, <2>7, <2>8, <2>9 DEF LastIs
<1> QED BY <1>2, <1>3

\* The same after the step.
LEMMA LastNext == DiskInv' => LastIs'
BY LastNow, PTL

\* A step that confirms nothing leaves it alone.
LEMMA LastKept ==
    ASSUME DiskInv, DiskInv', FileStep, confirmed' = confirmed
    PROVE  LastConfirmed' = LastConfirmed
<1>1. \A r \in confirmed : lsnOf'[r] = lsnOf[r] /\ lsnOf[r] \in Nat
    BY FileStepTypes, NumberFacts DEF DiskInv
<1> PICK a : a = LastConfirmed
    OBVIOUS
<1> PICK b : b = LastConfirmed'
    OBVIOUS
<1>2. /\ a \in Nat /\ \A r \in confirmed : lsnOf[r] <= a
      /\ confirmed = {} => a = 0
      /\ confirmed # {} => \E r \in confirmed : lsnOf[r] = a
    BY LastNow DEF LastIs
<1>3. /\ b \in Nat /\ \A r \in confirmed : lsnOf[r] <= b
      /\ confirmed = {} => b = 0
      /\ confirmed # {} => \E r \in confirmed : lsnOf[r] = b
    BY <1>1, LastNext DEF LastIs
<1>4. a = b
    BY <1>2, <1>3
<1> QED BY <1>4

\* A flush that ends confirms no more than it covers.
LEMMA LastFlushed ==
    ASSUME WalInv, DiskInv', FileStep, NEW t \in Threads, FsyncEnd(t)
    PROVE  /\ LastConfirmed <= LastConfirmed'
           /\ LastConfirmed' = LastConfirmed \/ LastConfirmed' <= claimed'
<1>0. DiskInv /\ LockInv /\ FlushInv /\ pc[t] = "fsync"
    BY DEF WalInv, FsyncEnd
<1>1. /\ \A r \in 1..Len(lsnOf) : lsnOf'[r] = lsnOf[r] /\ lsnOf[r] \in Nat
      /\ confirmed \subseteq 1..Len(lsnOf)
    BY <1>0, FileStepTypes, NumberFacts DEF DiskInv
<1>2. confirmed' = confirmed \cup {rec[p] : p \in Told(t)}
    BY DEF FsyncEnd, Answer, Told
<1>3. /\ claimed' = Higher(claimed, target[t]) /\ target[t] \in Nat /\ claimed \in Nat
    BY <1>0, NumberFacts DEF FsyncEnd, LockInv
<1>4. claimed' \in Nat /\ claimed' >= target[t]
    BY <1>3, HigherFacts
<1> PICK a : a = LastConfirmed
    OBVIOUS
<1> PICK b : b = LastConfirmed'
    OBVIOUS
<1>5. /\ a \in Nat /\ \A r \in confirmed : lsnOf[r] <= a
      /\ confirmed = {} => a = 0
      /\ confirmed # {} => \E r \in confirmed : lsnOf[r] = a
    BY <1>0, LastNow DEF LastIs
<1>6. /\ b \in Nat /\ \A r \in confirmed' : lsnOf'[r] <= b
      /\ confirmed' = {} => b = 0
      /\ confirmed' # {} => \E r \in confirmed' : lsnOf'[r] = b
    BY LastNext DEF LastIs
<1>7. a <= b
  <2>1. CASE confirmed = {}
      BY <1>5, <1>6, <2>1
  <2>2. CASE confirmed # {}
    <3>1. PICK r \in confirmed : lsnOf[r] = a
        BY <1>5, <2>2
    <3>2. r \in confirmed' /\ lsnOf'[r] = a
        BY <1>1, <1>2, <3>1
    <3> QED BY <1>6, <3>2
  <2> QED BY <2>1, <2>2
<1>8. b = a \/ b <= claimed'
  <2>1. CASE confirmed' = {}
      BY <1>2, <1>5, <1>6, <2>1
  <2>2. CASE confirmed' # {}
    <3>1. PICK r \in confirmed' : lsnOf'[r] = b
        BY <1>6, <2>2
    <3>2. CASE r \in confirmed
      <4>1. lsnOf[r] = b
          BY <1>1, <3>1, <3>2
      <4> QED BY <1>5, <1>6, <1>7, <3>2, <4>1
    <3>3. CASE r \notin confirmed
      <4>1. PICK p \in Told(t) : r = rec[p]
          BY <1>2, <3>1, <3>3
      <4>2. lsnOf[r] <= target[t] /\ r \in 1..Len(lsnOf)
          BY <1>0, <4>1, ToldRecords DEF FlushInv
      <4>3. b <= target[t] /\ b \in Nat
          BY <1>1, <1>6, <3>1, <4>2
      <4> QED BY <1>3, <1>4, <4>3
    <3> QED BY <3>2, <3>3
  <2> QED BY <2>1, <2>2
<1> QED BY <1>7, <1>8

-----------------------------------------------------------------------------
(* The log keeps the contract *)

\* A write that failed; a step that gives out no LSN and does no damage.
FailedWrite ==
    /\ \E k \in Nat, torn \in BOOLEAN : WriteFails(k, torn)
    /\ lsnOf' = lsnOf /\ up' = up /\ claimed' = claimed /\ confirmed' = confirmed

Settled == nextLSN' = nextLSN /\ lsnOf' = lsnOf /\ damaged' = damaged

\* What a step is to the contract.
LEMMA ContractKinds ==
    ASSUME DiskInv, LockInv, [Next]_vars
    PROVE  \/ Open
           \/ Frames /\ claimed' = claimed /\ confirmed' = confirmed
           \/ FailedWrite
           \/ Settled
<1>1. ASSUME NEW p \in Procs, NEW next, AppendRecord(p, next) \/ RotateEnd(p, next)
      PROVE  Frames /\ claimed' = claimed /\ confirmed' = confirmed
  <2>1. Frames
      BY <1>1, FrameFrames
  <2>2. claimed' = claimed /\ confirmed' = confirmed
      BY <1>1 DEF AppendRecord, RotateEnd
  <2> QED BY <2>1, <2>2
<1>2. ASSUME NEW t \in Threads, Step(t)
      PROVE  Settled \/ \E next \in AfterAppend : t \in Procs /\ RotateEnd(t, next)
    BY <1>2 DEF Step, Rotate, RotateFails, Commit, TakeBatch, Drain, SyncRefused,
                FsyncBegin, FsyncEnd, fileVars, histVars, Settled
<1>3. ASSUME NEW t, NEW k \in 0..MaxAppends, NEW torn \in BOOLEAN,
             \/ DrainFails(t, k, torn)
             \/ RotateWriteFails(t, k, torn)
             \/ ReplayFails(k, torn)
             \/ CloseWriteFails(k, torn)
      PROVE  FailedWrite
  <2>1. k \in Nat
      BY Bounds
  <2>2. /\ WriteFails(k, torn)
        /\ lsnOf' = lsnOf /\ up' = up /\ claimed' = claimed /\ confirmed' = confirmed
      BY <1>3 DEF DrainFails, RotateWriteFails, ReplayFails, CloseWriteFails, Answer
  <2> QED BY <2>1, <2>2 DEF FailedWrite
<1>4. ASSUME NEW t, FsyncFails(t) \/ RotateBegin(t)
      PROVE  Settled
    BY <1>4 DEF FsyncFails, RotateBegin, histVars, fileVars, Settled
<1>5. ASSUME NEW lsn, TruncateBefore(lsn)
      PROVE  Settled
    BY <1>5 DEF TruncateBefore, histVars, Settled
<1>6. ASSUME NEW n, NEW torn, Crash(n, torn)
      PROVE  Settled
    BY <1>6 DEF Crash, histVars, Settled
<1>7. Replay \/ Close \/ CloseFails \/ UNCHANGED vars => Settled
    BY DEF Replay, Close, CloseFails, vars, fileVars, histVars, Settled
<1>8. ASSUME NEW k \in 0..MaxAppends, NEW torn \in BOOLEAN,
             ReplayFails(k, torn) \/ CloseWriteFails(k, torn)
      PROVE  FailedWrite
    BY <1>3, <1>8
<1> QED BY <1>1, <1>2, <1>3, <1>4, <1>5, <1>6, <1>7, <1>8 DEF Next

\* But for Open, what was claimed stays claimed.
LEMMA ClaimedGrows ==
    ASSUME WalInv, DiskInv', [Next]_vars
    PROVE  Open \/ (claimed <= claimed' /\ claimed \in Nat /\ claimed' \in Nat)
<1>0. DiskInv /\ LockInv /\ PlaceInv /\ ExactInv /\ FlushInv /\ CoverInv
    BY DEF WalInv
<1>1. claimed \in Nat /\ claimed' \in Nat /\ nextLSN \in Nat \ {0}
    BY <1>0, NumberFacts DEF DiskInv
<1>2. claimed' = claimed => claimed <= claimed'
    BY <1>1
<1>3. CASE up /\ up'
  <2>1. Claims
      BY <1>0, <1>3, ControlStep
  <2>2. nextLSN - 1 \in Nat
      BY <1>1
  <2>3. claimed' = Higher(claimed, nextLSN - 1) => claimed <= claimed'
      BY <1>1, <2>2, HigherFacts
  <2>4. ASSUME NEW t \in Threads, claimed' = Higher(claimed, target[t])
        PROVE  claimed <= claimed'
    <3>1. target[t] \in Nat
        BY <1>0 DEF LockInv
    <3>2. Higher(claimed, target[t]) >= claimed
        BY <1>1, <3>1, HigherFacts
    <3> QED BY <1>1, <2>4, <3>2
  <2> QED BY <1>1, <1>2, <2>1, <2>3, <2>4 DEF Claims
<1>4. CASE ~up \/ ~up'
  <2>1. \/ UNCHANGED vars
        \/ Open
        \/ \E n \in Nat, torn \in BOOLEAN : Crash(n, torn)
      BY <1>0, <1>4, DownStep
  <2>2. UNCHANGED vars => claimed' = claimed
      BY DEF vars, histVars
  <2>3. ASSUME NEW n \in Nat, NEW torn \in BOOLEAN, Crash(n, torn)
        PROVE  claimed' = claimed
      BY <2>3 DEF Crash, histVars
  <2> QED BY <1>1, <1>2, <2>1, <2>2, <2>3
<1> QED BY <1>3, <1>4

\* A failed write changes nothing that was flushed.
LEMMA FailedWriteUnmoved ==
    ASSUME DiskInv, FailedWrite
    PROVE  Unmoved
<1>1. PICK k \in Nat, torn \in BOOLEAN : WriteFails(k, torn)
    BY DEF FailedWrite
<1>2. PICK R : Extends(R, Active.synced)
    BY <1>1, WriteFailsExtends DEF FailedWrite
<1>3. /\ Became(R, Active.synced) /\ R \in Seq(0..MaxAppends)
      /\ Active.synced \in Nat /\ Active.synced <= Len(R)
      /\ Len(R) >= Len(Active.recs) /\ \A i \in 1..Len(Active.recs) : R[i] = Active.recs[i]
      /\ Len(R) \in Nat
    BY <1>2, LenProperties DEF Extends, From
<1>4. /\ TopStep
      /\ \A j \in 1..Top : j = Top =>
           /\ Synced(j)' = Active.synced
           /\ \A i \in 1..Len(R) : Entry(j, i)' = R[i]
    BY <1>3, BecameTop
<1>5. \A j \in 1..Top : j = Top => /\ Synced(j) = Active.synced /\ Size(j) = Len(Active.recs)
                                   /\ \A i : Entry(j, i) = Active.recs[i]
    BY DEF Synced, Size, Entry, Top, Active
<1>6. ASSUME NEW j \in 1..Top
      PROVE  /\ Base(j)' = Base(j) /\ Synced(j)' = Synced(j)
             /\ \A i \in 1..Synced(j) : Entry(j, i)' = Entry(j, i)
  <2>1. Synced(j) \in Nat /\ Size(j) \in Nat /\ Synced(j) <= Size(j)
      BY Shape
  <2>2. Base(j)' = Base(j)
      BY <1>4 DEF TopStep
  <2>3. CASE j # Top
    <3>1. Same(j)
        BY <1>4, <2>3 DEF TopStep
    <3>2. \A i \in 1..Synced(j) : i \in 1..Size(j)
        BY <2>1
    <3> QED BY <2>2, <3>1, <3>2 DEF Same
  <2>4. CASE j = Top
    <3>1. \A i \in 1..Synced(j) : i \in 1..Len(Active.recs) /\ i \in 1..Len(R)
        BY <1>3, <1>5, <2>1, <2>4
    <3> QED BY <1>3, <1>4, <1>5, <2>2, <2>4, <3>1
  <2> QED BY <2>3, <2>4
<1> QED BY <1>4, <1>6 DEF Unmoved, TopStep

\* Framing a record writes nothing.
LEMMA FramesUnmoved ==
    ASSUME Frames
    PROVE  Unmoved
BY SameFiles DEF Frames, Unmoved

\* A step to the contract, with the invariants it starts from and ends in.
LEMMA ContractStep ==
    ASSUME WalInv, LeftInv, WalInv', LeftInv', [Next]_vars
    PROVE  [Contract!LogNext]_(Contract!logVars)
<1>0. DiskInv /\ LockInv /\ PlaceInv /\ FlushInv /\ DiskInv' /\ PlaceInv' /\ ExactInv
    BY DEF WalInv
<1>1. FileStep
    BY <1>0, NextFileStep
<1> PICK s : s = StableLen
    OBVIOUS
<1> PICK z : z = StableLen'
    OBVIOUS
<1>2. /\ s \in Nat /\ z \in Nat /\ s <= z
      /\ nextLSN \in Nat \ {0} /\ nextLSN' \in Nat \ {0} /\ claimed \in Nat /\ claimed' \in Nat
      /\ damaged \in BOOLEAN /\ damaged' \in BOOLEAN
    BY <1>0, <1>1, StableNow, StableNext, StableGrows DEF StableIs, DiskInv
<1>3. /\ s < nextLSN /\ z < nextLSN' /\ claimed < nextLSN /\ claimed' < nextLSN'
    BY BoundsNow, BoundsNext DEF StableBounds, LeftInv
<1>4. ~damaged' => claimed' <= z
  <2>1. Base(Top)' \in Nat /\ Synced(Top)' \in Nat
      BY <1>0, ShapeNext DEF Shaped
  <2>2. ~damaged' => /\ claimed' < Base(Top)' + Synced(Top)'
                     /\ Base(Top)' + Synced(Top)' <= z + 1
      BY BoundsNext DEF StableBounds, WalInv, CoverInv
  <2> QED BY <1>2, <2>1, <2>2
<1> PICK h : h = Higher(claimed, StableLen)
    OBVIOUS
<1> PICK g : g = Higher(claimed, StableLen)'
    OBVIOUS
<1>5. /\ h = IF claimed > s THEN claimed ELSE s
      /\ g = IF claimed' > z THEN claimed' ELSE z
    BY DEF Higher
<1> PICK c : c = LastConfirmed
    OBVIOUS
<1> PICK d : d = LastConfirmed'
    OBVIOUS
<1>6. c \in Nat /\ d \in Nat
    BY <1>0, LastNow, LastNext DEF LastIs
<1>7. CASE Open
  <2>1. /\ claimed' = 0 /\ confirmed' = confirmed /\ damaged' = damaged
        /\ nextLSN' = Base(Top) + Valid(Top)
    <3>1. Opens
        BY <1>0, <1>7, OpenOpens
    <3> QED BY <1>7, <3>1 DEF Open, Opens
  <2>2. d = c
      BY <1>0, <1>1, <2>1, LastKept
  <2>3. ~damaged => nextLSN' <= nextLSN
      BY <1>0, <1>7, <2>1 DEF ExactInv, ExactNext, Open
  <2>4. g = z
      BY <1>2, <1>5, <2>1
  <2>5. Contract!Restart
    <3>0. PICK m \in Nat \ {0} : m = nextLSN'
        BY <1>2
    <3>1. nextLSN' - 1 \in Nat
      <4>1. m - 1 \in Nat
          OBVIOUS
      <4> QED BY <3>0, <4>1
    <3>2. ~damaged => nextLSN' - 1 <= nextLSN - 1
      <4>1. m <= nextLSN => m - 1 <= nextLSN - 1
          BY <1>2
      <4> QED BY <2>3, <3>0, <4>1
    <3>3. z \in s..(nextLSN' - 1)
      <4>1. z < m
          BY <1>3, <3>0
      <4>2. z \in s..(m - 1)
          BY <1>2, <4>1
      <4> QED BY <3>0, <4>2
    <3> QED BY <2>1, <2>2, <2>4, <3>1, <3>2, <3>3 DEF Contract!Restart, LastConfirmed
  <2> QED BY <2>5 DEF Contract!LogNext
<1>8. CASE Frames /\ claimed' = claimed /\ confirmed' = confirmed
  <2>1. z = s
      BY <1>0, <1>1, <1>8, FramesUnmoved, StableKept
  <2>2. d = c
      BY <1>0, <1>1, <1>8, LastKept
  <2>3. nextLSN' - 1 = (nextLSN - 1) + 1 /\ damaged' = damaged
      BY <1>2, <1>8 DEF Frames
  <2>4. g = h
      BY <1>5, <1>8, <2>1
  <2>5. Contract!AppendOne
      BY <2>1, <2>2, <2>3, <2>4 DEF Contract!AppendOne, LastConfirmed
  <2> QED BY <2>5 DEF Contract!LogNext
<1>9. CASE FailedWrite
  <2>1. z = s
      BY <1>0, <1>1, <1>9, FailedWriteUnmoved, StableKept
  <2>2. d = c
      BY <1>0, <1>1, <1>9, LastKept DEF FailedWrite
  <2>3. nextLSN' = nextLSN /\ claimed' = claimed
      BY <1>9 DEF FailedWrite, WriteFails
  <2>4. g = h
      BY <1>5, <2>1, <2>3
  <2>5. CASE damaged' = damaged
      BY <2>1, <2>2, <2>3, <2>4, <2>5 DEF Contract!logVars, LastConfirmed
  <2>6. CASE damaged' # damaged
    <3>1. damaged' = TRUE
        BY <1>1, <1>2, <2>6, <1>0, FileStepTypes
    <3>2. Contract!Damage
        BY <2>1, <2>2, <2>3, <2>4, <3>1 DEF Contract!Damage, LastConfirmed
    <3> QED BY <3>2 DEF Contract!LogNext
  <2> QED BY <2>5, <2>6
<1>10. CASE Settled /\ ~Open
  <2>1. nextLSN' = nextLSN /\ lsnOf' = lsnOf /\ damaged' = damaged
      BY <1>10 DEF Settled
  <2>2. claimed <= claimed'
      BY <1>0, <1>10, ClaimedGrows
  <2>3. /\ h \in Nat /\ g \in Nat /\ h <= g /\ g <= nextLSN - 1 /\ s <= z /\ z <= g
        /\ claimed' <= g
        /\ ~damaged => z = g
      BY <1>2, <1>3, <1>4, <1>5, <2>1, <2>2
  <2>4. d = c \/ (c <= d /\ d <= claimed')
    <3>1. CASE confirmed' = confirmed
        BY <1>0, <1>1, <3>1, LastKept
    <3>2. CASE \E t \in Threads : FsyncEnd(t)
        BY <1>0, <1>1, <3>2, LastFlushed
    <3> QED BY <3>1, <3>2, ConfirmedBy
  <2>5. Contract!Flush
    <3>1. g \in h..(nextLSN - 1)
        BY <1>2, <2>3
    <3>2. z \in s..g
        BY <1>2, <2>3
    <3>3. d = c \/ d \in c..g
        BY <1>2, <1>6, <2>3, <2>4
    <3> QED BY <2>1, <2>3, <3>1, <3>2, <3>3 DEF Contract!Flush, LastConfirmed
  <2> QED BY <2>5 DEF Contract!LogNext
<1> QED BY <1>0, <1>7, <1>8, <1>9, <1>10, ContractKinds

\* The log and the committer implement the contract the store relies on: every
\* step of wal.go and commit.go is an append, a flush, a damage or a restart of
\* DurableLog, or changes nothing it speaks of.
THEOREM LogImplementsContract == Spec => ImplementsDurableLog
<1>1. Init => Contract!LogInit
  <2> SUFFICES ASSUME Init PROVE Contract!LogInit
      OBVIOUS
  <2>1. /\ nextLSN = 1 /\ claimed = 0 /\ confirmed = {} /\ damaged = FALSE /\ lsnOf = <<>>
      BY DEF Init
  <2>2. WalInv /\ up
      BY WalStart DEF Init
  <2>3. StableLen = 0
    <3>1. StableLen \in Nat /\ StableLen < nextLSN
        BY <2>2, LeftUp, BoundsNow, StableNow DEF StableBounds, StableIs, WalInv
    <3> QED BY <2>1, <3>1
  <2>4. Higher(claimed, StableLen) = 0
      BY <2>1, <2>3 DEF Higher
  <2>5. nextLSN - 1 = 0
      BY <2>1
  <2> QED BY <2>1, <2>3, <2>4, <2>5 DEF Contract!LogInit
<1>2. Init => LeftInv
    BY WalStart, LeftUp DEF Init
<1>3. WalInv /\ WalInv' /\ LeftInv /\ [Next]_vars => LeftInv'
    BY LeftStep
<1>4. WalInv /\ WalInv' /\ LeftInv /\ LeftInv' /\ [Next]_vars
        => [Contract!LogNext]_(Contract!logVars)
    BY ContractStep
<1> QED BY <1>1, <1>2, <1>3, <1>4, LogKeepsItsInvariant, PTL
        DEF Spec, ImplementsDurableLog, Contract!LogSpec

=============================================================================
