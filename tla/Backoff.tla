------------------------------ MODULE Backoff -------------------------------
(***************************************************************************)
(* The retry delay (internal/job/backoff.go): exponential, capped, with    *)
(* half of it random.  A duration is a signed word of WordBits bits; the   *)
(* result is the set of delays the random half allows.                     *)
(***************************************************************************)
EXTENDS Integers

CONSTANTS
    WordBits,           \* of time.Duration; 64 in the code
    MaxBackoffShift,    \* 32 in the code
    DefaultBackoffBase,
    DefaultBackoffCap

ASSUME WordAssumption ==
    /\ WordBits \in Nat \ {0} /\ MaxBackoffShift \in Nat
    /\ {DefaultBackoffBase, DefaultBackoffCap} \subseteq 1..(2^(WordBits - 1) - 1)

\* Powers of two grow; stated because the prover knows no powers.
ASSUME PowerAssumption ==
    \A m, n \in 0..MaxBackoffShift : 2^m \in Nat \ {0} /\ (m <= n => 2^m <= 2^n)

Durations == -(2^(WordBits - 1))..(2^(WordBits - 1) - 1)

\* What is left of an integer in a signed word.
Wrap(x) == ((x + 2^(WordBits - 1)) % (2 * 2^(WordBits - 1))) - 2^(WordBits - 1)

Shift(attempt) ==
    LET a == IF attempt < 1 THEN 1 ELSE attempt
    IN IF a - 1 > MaxBackoffShift THEN MaxBackoffShift ELSE a - 1

Base(base) == IF base <= 0 THEN DefaultBackoffBase ELSE base

CapDelay(capDelay) == IF capDelay <= 0 THEN DefaultBackoffCap ELSE capDelay

\* Mutant: the product is compared with the cap only.
CeilingUnchecked(attempt, base, capDelay) ==
    LET d == Wrap(Base(base) * 2^Shift(attempt))
    IN IF d > CapDelay(capDelay) THEN CapDelay(capDelay) ELSE d

\* The delay before the jitter; a product that wrapped to a negative value is
\* caught, one that wrapped all the way to a positive value is not.
Ceiling(attempt, base, capDelay) ==
    LET d == Wrap(Base(base) * 2^Shift(attempt))
    IN IF d <= 0 \/ d > CapDelay(capDelay) THEN CapDelay(capDelay) ELSE d

Delays(attempt, base, capDelay) ==
    LET half == Ceiling(attempt, base, capDelay) \div 2
    IN IF half <= 0 THEN {Ceiling(attempt, base, capDelay)}
       ELSE half..(half + half - 1)

-----------------------------------------------------------------------------

Attempts == 1..(MaxBackoffShift + 3)

\* The delays after this attempt, for any configuration, are positive and within
\* the cap.  They are at least half of what the doubling promises on integers
\* without a limit, and not above it, as long as the product does not wrap past
\* zero; and if it never does, the next attempt has no smaller ones.
SoundFor(attempt) ==
    \A base, capDelay \in {d \in Durations : d >= -1} :
        LET product == Base(base) * 2^Shift(attempt)
            wanted  == IF product > CapDelay(capDelay) THEN CapDelay(capDelay) ELSE product
        IN \A d \in Delays(attempt, base, capDelay) :
             /\ 0 < d /\ d <= CapDelay(capDelay)
             /\ product < 2 * 2^(WordBits - 1) => wanted \div 2 <= d /\ d <= wanted
             /\ Base(base) * 2^MaxBackoffShift < 2 * 2^(WordBits - 1) =>
                  \E e \in Delays(attempt + 1, base, capDelay) : d <= e

SoundAttempts == {a \in Attempts : SoundFor(a)}

=============================================================================
