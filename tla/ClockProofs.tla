------------------------------ MODULE ClockProofs ------------------------------
(* Proofs about MCClock, that is about the clock and its two users, for every   *)
(* clock frequency and every width of a word, every set of periods that a timer *)
(* can wait for, and every length of a pass of the main loop.                   *)
EXTENDS MCClock, TLAPS

--------------------------------------------------------------------------------
(* Arithmetic.                                                                  *)

\* A word consists of its digits.
LEMMA Digits ==
    ASSUME NEW x \in Nat, NEW b \in Nat \ {0}
    PROVE  /\ x % b \in 0 .. b - 1
           /\ x \div b \in Nat
           /\ (x % b) + (x \div b) * b = x
  OBVIOUS

\* The high digit of a word is a digit.
LEMMA HighDigit ==
    ASSUME NEW b \in Nat \ {0}, NEW x \in 0 .. b * b - 1
    PROVE  x \div b \in 0 .. b - 1
  <1>1. x \in Nat /\ x \div b \in Nat /\ x % b \in Nat /\ (x % b) + (x \div b) * b = x
    BY Digits
  <1>2. SUFFICES ASSUME x \div b >= b PROVE FALSE
    BY <1>1
  <1>3. (x \div b) * b >= b * b
    BY <1>1, <1>2
  <1> QED  BY <1>1, <1>3

\* What is left after a division is what was taken away less a multiple.
LEMMA Quotient ==
    ASSUME NEW x \in Int, NEW m \in Nat \ {0}
    PROVE  \E q \in Int : x % m = x - q * m
  <1>1. x % m = x - (x \div m) * m /\ x \div m \in Int
    OBVIOUS
  <1> QED  BY <1>1

\* A multiple leaves nothing, and what leaves nothing is a multiple.
LEMMA Multiple ==
    ASSUME NEW x \in Int, NEW m \in Nat \ {0}
    PROVE  x % m = 0 <=> \E q \in Int : x = q * m
  <1>1. ASSUME NEW q \in Int PROVE (q * m) % m = 0
    OBVIOUS
  <1>2. PICK q \in Int : x % m = x - q * m
    BY Quotient
  <1>3. x % m = 0 => x = q * m
    BY <1>2
  <1> QED  BY <1>1, <1>3

\* The increments are what is left of an interrupt's microseconds.
LEMMA Increments ==
    /\ tc_int2usec \in Nat /\ MILLIS_INC \in Nat
    /\ FRACT_MAX = 125
    /\ FRACT_INC \in 0 .. FRACT_MAX - 1
  <1>1. tc_int2usec \in Nat
    BY F_CPUAssumption DEF tc_int2usec, Clocks
  <1>2. FRACT_MAX = 125
    BY DEF FRACT_MAX
  <1>3. MILLIS_INC \in Nat
    BY <1>1 DEF MILLIS_INC
  <1>4. FRACT_INC \in 0 .. 124
    BY <1>1 DEF FRACT_INC
  <1> QED  BY <1>1, <1>2, <1>3, <1>4

LEMMA WordsPositive == Base \in Nat \ {0} /\ Words \in Nat \ {0}
  <1>1. Base * Base \in Nat /\ Base * Base # 0
    BY BaseAssumption
  <1> QED  BY <1>1, BaseAssumption DEF Words

--------------------------------------------------------------------------------
(* The invariant.                                                               *)

\* The interrupts are off while millis() reads, which has read the digits of the clock.
ReadInv ==
    /\ pc # "idle" => cli
    /\ pc = "high" => r = tc_millis % Base
    /\ pc = "done" => r = tc_millis

IInv == TypeOK /\ ReadInv /\ NoTimeLost

LEMMA InitInv == Init => IInv
  <1> SUFFICES ASSUME Init PROVE IInv
    OBVIOUS
  <1>1. TypeOK
    <2>1. Words \in Nat \ {0} /\ Words * FRACT_MAX \in Nat \ {0}
      BY WordsPositive, Increments
    <2>2. 0 \in 0 .. Words - 1 /\ 0 \in 0 .. Words * FRACT_MAX - 1 /\ 0 \in 0 .. FRACT_MAX - 1
      BY <2>1, Increments
    <2> QED  BY <2>2 DEF Init, TypeOK
  <1>2. ReadInv
    BY DEF Init, ReadInv
  <1>3. NoTimeLost
    <2>1. MILLIS_INC * FRACT_MAX + FRACT_INC \in Int /\ Words * FRACT_MAX \in Nat \ {0}
      BY WordsPositive, Increments
    <2>2. 0 % (Words * FRACT_MAX) = 0
      BY <2>1
    <2>3. tc_millis * FRACT_MAX + tc_millis_fract - n * (MILLIS_INC * FRACT_MAX + FRACT_INC) = 0
      BY <2>1, Increments DEF Init
    <2> QED  BY <2>2, <2>3 DEF NoTimeLost
  <1> QED  BY <1>1, <1>2, <1>3 DEF IInv

\* The interrupt keeps the clock in its range, and adds an interrupt's time to it.
LEMMA InterruptInv == TypeOK /\ ReadInv /\ NoTimeLost /\ Interrupt => TypeOK' /\ ReadInv' /\ NoTimeLost'
  <1> SUFFICES ASSUME TypeOK, ReadInv, NoTimeLost, Interrupt PROVE TypeOK' /\ ReadInv' /\ NoTimeLost'
    OBVIOUS
  <1> DEFINE f == tc_millis_fract + FRACT_INC
             c == IF Full(f) THEN 1 ELSE 0
             k == MILLIS_INC * FRACT_MAX + FRACT_INC
             wf == Words * FRACT_MAX
  <1>1. /\ Words \in Nat \ {0} /\ wf \in Nat \ {0} /\ k \in Int
        /\ c \in {0, 1}
        /\ tc_millis \in 0 .. Words - 1 /\ n \in 0 .. wf - 1
        /\ tc_millis_fract \in 0 .. 124 /\ f \in 0 .. 248
    BY WordsPositive, Increments DEF TypeOK
  <1>2. /\ tc_millis' = (tc_millis + MILLIS_INC + c) % Words
        /\ tc_millis_fract' = f - c * FRACT_MAX
        /\ n' = (n + 1) % wf
    BY <1>1, Increments DEF Interrupt, Full, Carry
  <1>3. tc_millis_fract' \in 0 .. FRACT_MAX - 1
    BY <1>1, <1>2, Increments DEF Full
  <1>4. PICK b \in Int : tc_millis' = tc_millis + MILLIS_INC + c - b * Words
    <2> DEFINE v == tc_millis + MILLIS_INC + c
    <2>1. v \in Int /\ tc_millis' = v % Words
      BY <1>1, <1>2, Increments
    <2>2. PICK q \in Int : v % Words = v - q * Words
      <3> HIDE DEF v
      <3> QED  BY <2>1, <1>1, Quotient
    <2>3. tc_millis' = v - q * Words
      <3> HIDE DEF v
      <3> QED  BY <2>1, <2>2
    <2> WITNESS q \in Int
    <2> HIDE DEF c
    <2> QED  BY <1>1, <2>1, <2>3, Increments
  <1>5. PICK a \in Int : n' = n + 1 - a * wf
    <2> DEFINE v == n + 1
    <2>1. v \in Int /\ n' = v % wf
      BY <1>1, <1>2
    <2>2. PICK q \in Int : v % wf = v - q * wf
      <3> HIDE DEF v, wf
      <3> QED  BY <2>1, <1>1, Quotient
    <2>3. n' = v - q * wf
      <3> HIDE DEF v, wf
      <3> QED  BY <2>1, <2>2
    <2> WITNESS q \in Int
    <2> HIDE DEF wf
    <2> QED  BY <1>1, <2>1, <2>3
  <1>6. TypeOK'
    <2>1. tc_millis' \in 0 .. Words - 1
      <3> HIDE DEF c
      <3> QED  BY <1>1, <1>2, Increments
    <2>2. n' \in 0 .. wf - 1
      <3> HIDE DEF wf
      <3> QED  BY <1>1, <1>2
    <2> QED  BY <2>1, <2>2, <1>3 DEF Interrupt, TypeOK
  <1>7. ReadInv'
    BY DEF Interrupt, ReadInv
  <1>8. NoTimeLost'
    <2> DEFINE x == tc_millis * FRACT_MAX + tc_millis_fract - n * k
               y == tc_millis' * FRACT_MAX + tc_millis_fract' - n' * k
    <2>1. /\ FRACT_MAX \in Nat \ {0} /\ MILLIS_INC \in Int /\ FRACT_INC \in Int
          /\ tc_millis \in Int /\ tc_millis_fract \in Int /\ n \in Int /\ c \in Int
      BY <1>1, Increments
    <2>2. PICK q \in Int : x = q * wf
      <3>1. x \in Int /\ x % wf = 0
        BY <1>1, <2>1 DEF NoTimeLost
      <3> HIDE DEF x, wf
      <3> QED  BY <3>1, <1>1, Multiple
    <2>3. tc_millis' * FRACT_MAX
            = tc_millis * FRACT_MAX + MILLIS_INC * FRACT_MAX + c * FRACT_MAX - b * wf
      <3>1. tc_millis' * FRACT_MAX = (tc_millis + MILLIS_INC + c - b * Words) * FRACT_MAX
        BY <1>4
      <3> HIDE DEF c
      <3> QED  BY <3>1, <1>1, <2>1
    <2>4. n' * k = n * k + k - (a * k) * wf
      <3>1. n' * k = (n + 1 - a * wf) * k
        BY <1>5
      <3> HIDE DEF k, wf
      <3> QED  BY <3>1, <1>1, <2>1
    <2>5. tc_millis_fract' = tc_millis_fract + FRACT_INC - c * FRACT_MAX
      <3>1. tc_millis_fract' = f - c * FRACT_MAX
        BY <1>2
      <3> QED  BY <3>1, <1>1, <2>1
    <2>6. y = x - b * wf + (a * k) * wf
      <3>1. k = MILLIS_INC * FRACT_MAX + FRACT_INC
        OBVIOUS
      <3>2. c * FRACT_MAX \in Int /\ n * k \in Int /\ a * k \in Int /\ (a * k) * wf \in Int
            /\ b * wf \in Int
        BY <1>1, <2>1
      <3> HIDE DEF c, k, wf
      <3> QED  BY <2>1, <2>3, <2>4, <2>5, <3>1, <3>2
    <2>7. y = (q - b + a * k) * wf
      <3> HIDE DEF x, y, k, wf
      <3> QED  BY <1>1, <2>2, <2>6
    <2>8. q - b + a * k \in Int
      BY <1>1
    <2>9. y % wf = 0
      <3>1. y \in Int
        <4> HIDE DEF y, k, wf
        <4> QED  BY <1>1, <2>7, <2>8
      <3> HIDE DEF y, k, wf
      <3> QED  BY <1>1, <2>7, <2>8, <3>1, Multiple
    <2>10. /\ FRACT_MAX' = FRACT_MAX /\ MILLIS_INC' = MILLIS_INC
           /\ FRACT_INC' = FRACT_INC /\ Words' = Words
      BY DEF FRACT_MAX, MILLIS_INC, FRACT_INC, tc_int2usec, Clocks, Words
    <2> QED  BY <2>9, <2>10 DEF NoTimeLost
  <1> QED  BY <1>6, <1>7, <1>8

\* A step of millis() reads what the clock shows.
LEMMA MillisInv == TypeOK /\ ReadInv /\ Millis => TypeOK' /\ ReadInv'
  <1> SUFFICES ASSUME TypeOK, ReadInv, Millis PROVE TypeOK' /\ ReadInv'
    OBVIOUS
  <1>1. /\ Base \in Nat \ {0} /\ Words \in Nat \ {0}
        /\ tc_millis \in 0 .. Base * Base - 1
        /\ UNCHANGED <<tc_millis, tc_millis_fract, pending, n>>
    BY WordsPositive DEF TypeOK, Words, Millis
  <1>2. CASE pc = "idle" /\ Lock /\ pc' = "low" /\ r' = 0
    BY <1>1, <1>2 DEF TypeOK, ReadInv, Lock
  <1>3. CASE pc = "low"  /\ r' = tc_millis % Base /\ pc' = "high" /\ cli' = cli
    <2>1. tc_millis % Base \in 0 .. tc_millis
      BY <1>1
    <2> QED  BY <1>1, <1>3, <2>1 DEF TypeOK, ReadInv
  <1>4. CASE pc = "high" /\ r' = r + (tc_millis \div Base) * Base /\ pc' = "done" /\ cli' = cli
    <2>1. r' = tc_millis
      BY <1>1, <1>4, Digits DEF ReadInv
    <2> QED  BY <1>1, <1>4, <2>1 DEF TypeOK, ReadInv
  <1>5. CASE pc = "done" /\ cli' = FALSE /\ pc' = "idle" /\ r' = r
    BY <1>1, <1>5 DEF TypeOK, ReadInv
  <1> QED  BY <1>2, <1>3, <1>4, <1>5 DEF Millis

LEMMA StepInv == IInv /\ [Next]_vars => IInv'
  <1> SUFFICES ASSUME IInv, [Next]_vars PROVE IInv'
    OBVIOUS
  <1>1. CASE Underflow
    BY <1>1 DEF IInv, TypeOK, ReadInv, NoTimeLost, Underflow
  <1>2. CASE Interrupt
    BY <1>2, InterruptInv DEF IInv
  <1>3. CASE Millis
    BY <1>3, MillisInv DEF IInv, NoTimeLost, Millis
  <1>4. CASE UNCHANGED vars
    BY <1>4 DEF IInv, TypeOK, ReadInv, NoTimeLost, vars
  <1> QED  BY <1>1, <1>2, <1>3, <1>4 DEF Next


--------------------------------------------------------------------------------
(* Words of the two users of the clock.                                         *)

\* What leaves a word comes back at its other end.
LEMMA Wrap ==
    ASSUME NEW w \in Nat \ {0}, NEW x \in 0 .. 2 * w - 1
    PROVE  x % w = IF x < w THEN x ELSE x - w
  <1>1. x % w \in 0 .. w - 1 /\ x \div w \in Int /\ x % w = x - (x \div w) * w
    OBVIOUS
  <1>2. PICK q \in Int, m \in 0 .. w - 1 : m = x - q * w /\ m = x % w
    BY <1>1
  <1>3. CASE q = 0
    BY <1>2, <1>3
  <1>4. CASE q = 1
    BY <1>2, <1>4
  <1>5. CASE q >= 2
    <2>1. q * w >= 2 * w
      BY <1>5, <1>2
    <2> QED  BY <1>2, <2>1
  <1>6. CASE q <= -1
    <2>1. q * w <= -1 * w
      BY <1>6, <1>2
    <2> QED  BY <1>2, <2>1
  <1> QED  BY <1>2, <1>3, <1>4, <1>5, <1>6

LEMMA PlusMinus ==
    ASSUME NEW w \in Nat \ {0}, NEW a \in 0 .. w - 1, NEW b \in 0 .. w - 1
    PROVE  /\ (a + b) % w = IF a + b < w THEN a + b ELSE a + b - w
           /\ (w + a - b) % w = IF b <= a THEN a - b ELSE w + a - b
  <1> DEFINE x == a + b
             y == w + a - b
  <1>1. /\ x \in 0 .. 2 * w - 1 /\ y \in 0 .. 2 * w - 1
        /\ y - w = a - b /\ (y < w <=> ~(b <= a))
    OBVIOUS
  <1>2. x % w = IF x < w THEN x ELSE x - w
    <2> HIDE DEF x
    <2> QED  BY <1>1, Wrap
  <1>3. y % w = IF y < w THEN y ELSE y - w
    <2> HIDE DEF y
    <2> QED  BY <1>1, Wrap
  <1> QED  BY <1>1, <1>2, <1>3

Word == 0 .. Words - 1

LEMMA SameWords == Stat!Words = Words /\ Stat!Word = Word /\ Menu!Word = Word
  BY DEF Stat!Words, Words, Stat!Word, Menu!Word, Word

LEMMA WordFacts ==
    ASSUME NEW a \in Word, NEW b \in Word
    PROVE  /\ Stat!Plus(a, b) = IF a + b < Words THEN a + b ELSE a + b - Words
           /\ Stat!Minus(a, b) = IF b <= a THEN a - b ELSE Words + a - b
           /\ Menu!Plus(a, b) = IF a + b < Words THEN a + b ELSE a + b - Words
           /\ Menu!Minus(a, b) = IF b <= a THEN a - b ELSE Words + a - b
           /\ Stat!Plus(a, b) \in Word /\ Stat!Minus(a, b) \in Word
           /\ Menu!Plus(a, b) \in Word
  <1>1. /\ (a + b) % Words = IF a + b < Words THEN a + b ELSE a + b - Words
        /\ (Words + a - b) % Words = IF b <= a THEN a - b ELSE Words + a - b
    BY WordsPositive, PlusMinus DEF Word
  <1>2. Words \in Nat
    BY WordsPositive
  <1> QED
    BY <1>1, <1>2, SameWords DEF Word, Stat!Plus, Stat!Minus, Menu!Plus, Menu!Minus

\* A word of two digits.
LEMMA TwoDigits ==
    ASSUME NEW b \in Nat \ {0}, NEW h \in 0 .. b - 1, NEW l \in 0 .. b - 1
    PROVE  h * b + l \in 0 .. b * b - 1
  <1>1. h * b \in Nat /\ h * b <= (b - 1) * b
    OBVIOUS
  <1>2. (b - 1) * b = b * b - b
    OBVIOUS
  <1> QED  BY <1>1, <1>2

LEMMA DigitFacts ==
    ASSUME NEW w \in Word, NEW x \in Word
    PROVE  /\ Stat!Low(w, x) \in Word /\ Stat!High(w, x) \in Word
           /\ Stat!Low(0, x) = x % Base
           /\ w = x % Base => Stat!High(w, x) = x
           /\ Stat!Low(w, 0) % Base = 0
           /\ Stat!High(w, 0) = w % Base
           /\ x % Base \in Word
  <1>1. Base \in Nat \ {0} /\ w \in 0 .. Base * Base - 1 /\ x \in 0 .. Base * Base - 1
    BY WordsPositive DEF Word, Words
  <1>2. /\ w % Base \in 0 .. Base - 1 /\ x % Base \in 0 .. Base - 1
        /\ w \div Base \in 0 .. Base - 1 /\ x \div Base \in 0 .. Base - 1
        /\ (x % Base) + (x \div Base) * Base = x
    <2>1. ASSUME NEW y \in 0 .. Base * Base - 1
          PROVE  /\ y % Base \in 0 .. Base - 1 /\ y \div Base \in 0 .. Base - 1
                 /\ (y % Base) + (y \div Base) * Base = y
      <3>1. y \div Base \in 0 .. Base - 1
        BY <1>1, HighDigit
      <3>2. y \in Nat /\ Base \in Nat \ {0}
        BY <1>1
      <3> QED  BY <3>1, <3>2, Digits
    <2> QED  BY <1>1, <2>1
  <1>3. 0 % Base = 0 /\ 0 \div Base = 0 /\ 0 * Base = 0
    BY <1>1
  <1> DEFINE hw == w \div Base
             hx == x \div Base
             lw == w % Base
             lx == x % Base
  <1>4. /\ Stat!Low(w, x) = hw * Base + lx /\ Stat!High(w, x) = hx * Base + lw
        /\ Stat!Low(0, x) = 0 * Base + lx /\ Stat!Low(w, 0) = hw * Base + 0
        /\ Stat!High(w, 0) = 0 * Base + lw
    BY <1>3 DEF Stat!Low, Stat!High
  <1>5. /\ hw \in 0 .. Base - 1 /\ hx \in 0 .. Base - 1 /\ lw \in 0 .. Base - 1
        /\ lx \in 0 .. Base - 1 /\ lx + hx * Base = x
    BY <1>2
  <1>6. hw * Base \in Int /\ hx * Base \in Int /\ 0 \in 0 .. Base - 1
    BY <1>1, <1>5
  <1>7. lx = w => lw = w
    <2>1. w \in 0 .. Base - 1 => w % Base = w
      BY <1>1
    <2> QED  BY <1>5, <2>1
  <1> HIDE DEF hw, hx, lw, lx
  <1>8. Stat!Low(w, x) \in Word /\ Stat!High(w, x) \in Word
    BY <1>1, <1>4, <1>5, TwoDigits DEF Word, Words
  <1>9. lx \in Word
    BY <1>1, <1>3, <1>5, <1>6, TwoDigits DEF Word, Words
  <1>10. Stat!Low(w, 0) % Base = 0
    <2>1. (hw * Base) % Base = 0
      BY <1>1, <1>5, <1>6, Multiple
    <2> QED  BY <1>4, <1>6, <2>1
  <1>11. Stat!Low(0, x) = lx /\ Stat!High(w, 0) = lw
    BY <1>3, <1>4, <1>5
  <1>12. lx = w => Stat!High(w, x) = x
    BY <1>4, <1>5, <1>6, <1>7
  <1> QED  BY <1>8, <1>9, <1>10, <1>11, <1>12 DEF lx, lw

--------------------------------------------------------------------------------
(* The statistics: where the timer is whole, its time less what has passed is   *)
(* the time it was set for.                                                     *)

Periods == {d * PerSecond : d \in Seconds \ {0}}

\* The timer is set for a period, was set so long ago, and that less than b.
OnTime(b) ==
    at # 0 => /\ period \in Periods
              /\ Stat!Plus(at, since) = Stat!Plus(now, period)
              /\ since < b

\* Where the main loop has the time of its pass.
Timed == {"test", "test2", "clear", "period", "period2", "store", "store2"}

StatShape ==
    /\ Stat!TypeOK
    /\ ~tc_flag => late = 0
    /\ statpc \in Timed => now = Stat!Plus(t, late)

\* Between two passes and in the pass before the timer is looked at.
WholeInv ==
    /\ statpc \in {"sleep", "print", "dtr", "stop", "cancel"} => OnTime(period + late)
    /\ statpc \in {"test", "test2"} => OnTime(period + Lag + late) /\ (at # 0 => late <= since)

\* While it is looked at, set again and reset, a digit at a time.
DigitsInv ==
    /\ statpc = "test2" => statr = at % Base
    /\ statpc = "clear" => at # 0 /\ period \in Periods /\ since >= period
    /\ statpc \in {"period", "period2", "store"} => at = 0 /\ period \in Periods
    /\ statpc = "period2" => statr = period % Base
    /\ statpc \in {"store", "store2"} => statr = Stat!Plus(t, period)
    /\ statpc = "store2" => period \in Periods /\ at = statr % Base
    /\ statpc = "cancel2" => at % Base = 0
    /\ statpc \in {"zero", "zero2"} => at = 0
    /\ statpc = "zero2" => period % Base = 0

StatInv == StatShape /\ (~met => WholeInv /\ DigitsInv)

\* What the constants allow.
LEMMA StatConstants ==
    /\ Words \in Nat /\ Words >= 4 /\ Lag \in Nat /\ Cap \in Nat /\ Lag <= Cap
    /\ 2 * Lag < Words /\ Stat!max_delay \in Nat /\ Lag <= Stat!max_delay
    /\ 0 \in Word /\ 1 \in Word
    /\ \A p \in Periods : /\ p \in Nat /\ p > 0 /\ p \in Word
                          /\ p + 2 * Lag < Words /\ p + 2 * Lag <= Cap
                          /\ p + Stat!max_delay <= Words
  <1>1. Base >= 2 /\ Base \in Nat
    BY BaseAssumption
  <1>2. Base * Base \in Nat /\ Base * Base >= 2 * Base
    BY <1>1
  <1>3. Words \in Nat /\ Words >= 4
    BY <1>1, <1>2 DEF Words
  <1>4. /\ Lag \in Nat /\ Cap \in Nat /\ Lag <= Cap
        /\ Lag <= (Words - 1) \div 2 /\ Seconds \subseteq Nat /\ PerSecond \in Nat
        /\ \A d \in Seconds \ {0} : /\ d * PerSecond \in 1 .. Words \div 2
                                    /\ d * PerSecond + 2 * Lag < Words
                                    /\ d * PerSecond + 2 * Lag <= Cap
    BY StatAssumption, SameWords DEF Stat!ConstantsFit
  <1>5. Stat!max_delay = (Words - 1) \div 2
    BY SameWords DEF Stat!max_delay
  <1>6. \A p \in Periods : p \in 1 .. Words \div 2 /\ p + 2 * Lag < Words /\ p + 2 * Lag <= Cap
    BY <1>4 DEF Periods
  <1> QED  BY <1>3, <1>4, <1>5, <1>6 DEF Word

LEMMA PeriodOf ==
    ASSUME NEW d \in Seconds, d # 0
    PROVE  (d * PerSecond) % Stat!Words = d * PerSecond /\ d * PerSecond \in Periods
  <1> DEFINE p == d * PerSecond
  <1>1. p \in Periods
    BY DEF Periods
  <1>2. p \in Nat /\ p \in 0 .. Words - 1
    BY <1>1, StatConstants DEF Word
  <1> HIDE DEF p
  <1>3. p % Words = p
    BY <1>2, StatConstants
  <1> QED  BY <1>1, <1>3, SameWords DEF p

LEMMA InitStat == Stat!Init => StatInv
  <1> SUFFICES ASSUME Stat!Init PROVE StatInv
    OBVIOUS
  <1>1. 0 \in Stat!Word /\ 0 \in 0 .. Lag /\ 0 \in 0 .. Cap
    BY StatConstants, SameWords
  <1>2. StatShape
    BY <1>1 DEF Stat!Init, StatShape, Stat!TypeOK, Timed
  <1>3. WholeInv /\ DigitsInv
    BY DEF Stat!Init, WholeInv, DigitsInv, OnTime
  <1> QED  BY <1>2, <1>3 DEF StatInv

\* A word one millisecond later.
LEMMA Later ==
    ASSUME NEW a \in Word, NEW b \in Word, NEW c \in Word, NEW d \in Word,
           Stat!Plus(a, b) = Stat!Plus(c, d), b + 1 \in Word
    PROVE  Stat!Plus(a, b + 1) = Stat!Plus(Stat!Plus(c, 1), d)
  <1> DEFINE e == Stat!Plus(c, 1)
  <1>1. e = (IF c + 1 < Words THEN c + 1 ELSE c + 1 - Words) /\ e \in Word
    BY StatConstants, WordFacts
  <1> HIDE DEF e
  <1>2. /\ Stat!Plus(a, b + 1) = IF a + (b + 1) < Words THEN a + (b + 1) ELSE a + (b + 1) - Words
        /\ Stat!Plus(a, b) = IF a + b < Words THEN a + b ELSE a + b - Words
        /\ Stat!Plus(c, d) = IF c + d < Words THEN c + d ELSE c + d - Words
        /\ Stat!Plus(e, d) = IF e + d < Words THEN e + d ELSE e + d - Words
    BY <1>1, WordFacts
  <1>3. Stat!Plus(a, b + 1) = Stat!Plus(e, d)
    <2>1. /\ Words \in Nat /\ a \in 0 .. Words - 1 /\ b + 1 \in 0 .. Words - 1 /\ b \in 0 .. Words - 1
          /\ c \in 0 .. Words - 1 /\ d \in 0 .. Words - 1 /\ e \in 0 .. Words - 1
      BY <1>1, StatConstants DEF Word
    <2>2. ASSUME NEW w \in Nat, NEW i \in 0 .. w - 1, NEW j \in 0 .. w - 1, NEW k \in 0 .. w - 1,
                 NEW l \in 0 .. w - 1, NEW m \in 0 .. w - 1, j + 1 <= w - 1,
                 m = IF k + 1 < w THEN k + 1 ELSE k + 1 - w,
                 (IF i + j < w THEN i + j ELSE i + j - w) = (IF k + l < w THEN k + l ELSE k + l - w)
          PROVE  (IF i + (j + 1) < w THEN i + (j + 1) ELSE i + (j + 1) - w)
                 = (IF m + l < w THEN m + l ELSE m + l - w)
      BY <2>2
    <2>3. b + 1 <= Words - 1
      BY <2>1
    <2>4. (IF a + b < Words THEN a + b ELSE a + b - Words)
          = (IF c + d < Words THEN c + d ELSE c + d - Words)
      BY <1>2
    <2> QED  BY <1>1, <1>2, <2>1, <2>2, <2>3, <2>4
  <1> QED  BY <1>3 DEF e

LEMMA TickStat ==
    ASSUME StatInv, Stat!Tick
    PROVE  StatInv'
  <1>1. /\ now \in Word /\ at \in Word /\ period \in Word /\ t \in Word
        /\ late \in 0 .. Lag - 1 /\ since \in 0 .. Cap
    BY StatConstants, SameWords DEF StatInv, StatShape, Stat!TypeOK, Stat!Tick
  <1>2. /\ now' = Stat!Plus(now, 1) /\ late' = late + 1 /\ tc_flag'
        /\ since' = IF since < Cap THEN since + 1 ELSE Cap
        /\ UNCHANGED <<at, period, met, mon, dtr, last_dtr, statpc, t, statr>>
    BY DEF Stat!Tick, Stat!timerVars, Stat!mainVars
  <1>3. StatShape'
    <2>1. now' \in Word /\ late' \in 0 .. Lag /\ since' \in 0 .. Cap
      BY <1>1, <1>2, WordFacts, StatConstants
    <2>2. statpc \in Timed => now' = Stat!Plus(t, late')
      <3> SUFFICES ASSUME statpc \in Timed PROVE now' = Stat!Plus(t, late')
        OBVIOUS
      <3>1. now = Stat!Plus(t, late) /\ late \in Word /\ late + 1 \in Word /\ 0 \in Word
        BY <1>1, StatConstants DEF StatInv, StatShape, Word
      <3>2. Stat!Plus(now, 0) = now /\ now' = Stat!Plus(now', 0)
        BY <1>1, <2>1, <3>1, WordFacts, StatConstants DEF Word
      <3> QED  BY <1>1, <1>2, <3>1, <3>2, Later
    <2>3. tc_flag' = TRUE
      BY DEF Stat!Tick
    <2> QED  BY <1>2, <2>1, <2>2, <2>3, SameWords DEF StatInv, StatShape, Stat!TypeOK
  <1>4. ASSUME ~met, NEW b \in Nat, OnTime(b), at # 0, period \in Periods => b <= period + 2 * Lag - 1
        PROVE  /\ period \in Periods /\ since' = since + 1
               /\ Stat!Plus(at, since') = Stat!Plus(now', period)
               /\ since < b
    <2>1. period \in Periods /\ since < b /\ Stat!Plus(at, since) = Stat!Plus(now, period)
      BY <1>4 DEF OnTime
    <2>2. since + 1 \in Word /\ since \in Word /\ since < Cap
      BY <1>1, <1>4, <2>1, StatConstants DEF Word
    <2> QED  BY <1>1, <1>2, <2>1, <2>2, Later
  <1>5. ASSUME ~met PROVE WholeInv' /\ DigitsInv'
    <2>1. WholeInv /\ DigitsInv
      BY <1>5 DEF StatInv
    <2>2. ASSUME statpc \in {"sleep", "print", "dtr", "stop", "cancel"}
          PROVE  OnTime(period + late)'
      <3>1. OnTime(period + late) /\ period + late \in Nat
        BY <1>1, <2>1, <2>2, StatConstants DEF WholeInv, Word
      <3>2. period + late <= period + 2 * Lag - 1
        BY <1>1, StatConstants DEF Word
      <3>3. at # 0 => /\ period \in Periods /\ since' = since + 1
                      /\ Stat!Plus(at, since') = Stat!Plus(now', period)
                      /\ since < period + late
        BY <1>4, <1>5, <3>1, <3>2
      <3>4. since < period + late => since + 1 < period + (late + 1)
        BY <1>1 DEF Word
      <3> QED  BY <1>2, <3>3, <3>4 DEF OnTime
    <2>3. ASSUME statpc \in {"test", "test2"}
          PROVE  OnTime(period + Lag + late)' /\ (at # 0 => late <= since)'
      <3>1. OnTime(period + Lag + late) /\ period + Lag + late \in Nat /\ (at # 0 => late <= since)
        BY <1>1, <2>1, <2>3, StatConstants DEF WholeInv, Word
      <3>2. period + Lag + late <= period + 2 * Lag - 1
        BY <1>1, StatConstants DEF Word
      <3>3. at # 0 => /\ period \in Periods /\ since' = since + 1
                      /\ Stat!Plus(at, since') = Stat!Plus(now', period)
                      /\ since < period + Lag + late
        BY <1>4, <1>5, <3>1, <3>2
      <3>4. /\ since < period + Lag + late => since + 1 < period + Lag + (late + 1)
            /\ late <= since => late + 1 <= since + 1
        BY <1>1, StatConstants DEF Word
      <3> QED  BY <1>2, <3>1, <3>3, <3>4 DEF OnTime
    <2>4. WholeInv'
      BY <1>2, <2>2, <2>3 DEF WholeInv
    <2>5. DigitsInv'
      <3>1. since' >= since
        BY <1>1, <1>2, StatConstants
      <3>2. since >= period => since' >= period
        BY <1>1, <1>2, <3>1, StatConstants DEF Word
      <3> QED  BY <1>2, <2>1, <3>2 DEF DigitsInv
    <2> QED  BY <2>4, <2>5
  <1> QED  BY <1>2, <1>3, <1>5 DEF StatInv

LEMMA StatTypes ==
    ASSUME StatShape
    PROVE  /\ now \in Word /\ at \in Word /\ period \in Word /\ t \in Word /\ statr \in Word
           /\ late \in 0 .. Lag /\ since \in 0 .. Cap /\ late \in Word
           /\ tc_flag \in BOOLEAN /\ mon \in BOOLEAN /\ dtr \in BOOLEAN /\ last_dtr \in BOOLEAN
           /\ met \in BOOLEAN
  <1>1. late \in 0 .. Lag /\ 2 * Lag < Words /\ Lag \in Nat /\ Words \in Nat
    BY StatConstants DEF StatShape, Stat!TypeOK
  <1>2. late \in Word
    BY <1>1 DEF Word
  <1> QED  BY <1>1, <1>2, SameWords DEF StatShape, Stat!TypeOK

LEMMA PeriodCommandStat ==
    ASSUME StatInv, NEW d \in Seconds, Stat!PeriodCommand(d)
    PROVE  StatInv'
  <1>1. StatShape
    BY DEF StatInv
  <1>2. /\ period' \in Periods /\ at' = Stat!Plus(now, period') /\ since' = 0
        /\ met' = ~Stat!Away
        /\ UNCHANGED <<now, tc_flag, mon, dtr, last_dtr, statpc, t, statr, late>>
    BY PeriodOf DEF Stat!PeriodCommand, Stat!mainVars
  <1>3. now \in Word /\ late \in 0 .. Lag /\ period' \in Word /\ at' \in Word /\ period' > 0
        /\ period' \in Nat
    BY <1>1, <1>2, StatTypes, WordFacts, StatConstants
  <1>4. StatShape'
    <2>1. 0 \in 0 .. Cap /\ (~Stat!Away) \in BOOLEAN
      BY StatConstants DEF Stat!Away
    <2> QED  BY <1>1, <1>2, <1>3, <2>1, SameWords DEF StatShape, Stat!TypeOK
  <1>5. ASSUME ~met' PROVE WholeInv' /\ DigitsInv'
    <2>1. statpc' \in {"sleep", "print", "dtr"}
      BY <1>2, <1>5 DEF Stat!Away
    <2>2. Stat!Plus(at', 0) = at'
      BY <1>3, WordFacts, StatConstants DEF Word
    <2>3. 0 < period' + late'
      <3>1. late \in Nat
        BY <1>3, StatConstants
      <3>2. ASSUME NEW p \in Nat, p > 0, NEW l \in Nat PROVE 0 < p + l
        BY <3>2
      <3>3. 0 < period' + late
        BY <1>3, <3>1, <3>2
      <3> QED  BY <1>2, <3>3
    <2> QED  BY <1>2, <2>1, <2>2, <2>3 DEF WholeInv, DigitsInv, OnTime
  <1> QED  BY <1>4, <1>5 DEF StatInv

LEMMA StopStat ==
    ASSUME StatInv, Stat!Stop
    PROVE  StatInv'
  <1>1. /\ at' = 0 /\ period' = 0 /\ mon' = FALSE /\ met' = ~Stat!Away
        /\ UNCHANGED <<now, tc_flag, dtr, last_dtr, statpc, t, statr, late, since>>
    BY DEF Stat!Stop, Stat!mainVars
  <1>2. StatShape'
    <2>1. 0 \in Word /\ (~Stat!Away) \in BOOLEAN
      BY StatConstants DEF Stat!Away
    <2> QED  BY <1>1, <2>1, SameWords DEF StatInv, StatShape, Stat!TypeOK
  <1>3. ASSUME ~met' PROVE WholeInv' /\ DigitsInv'
    BY <1>1, <1>3 DEF Stat!Away, WholeInv, DigitsInv, OnTime
  <1> QED  BY <1>2, <1>3 DEF StatInv

LEMMA OtherCommandStat ==
    ASSUME StatInv, Stat!MonCommand \/ Stat!SetDtr \/ UNCHANGED statVars
    PROVE  StatInv'
  <1>1. /\ UNCHANGED <<now, tc_flag, at, period, met, last_dtr, statpc, t, statr, late, since>>
        /\ \/ mon' = TRUE /\ dtr' = dtr
           \/ dtr' = ~dtr /\ mon' = mon
           \/ dtr' = dtr /\ mon' = mon
    BY DEF Stat!MonCommand, Stat!SetDtr, Stat!timerVars, Stat!mainVars, statVars
  <1>2. StatShape'
    <2>1. StatShape /\ mon' \in BOOLEAN /\ dtr' \in BOOLEAN
      BY <1>1 DEF StatInv, StatShape, Stat!TypeOK
    <2> QED  BY <1>1, <2>1 DEF StatShape, Stat!TypeOK
  <1>3. ASSUME ~met' PROVE WholeInv' /\ DigitsInv'
    <2>1. WholeInv /\ DigitsInv
      BY <1>1, <1>3 DEF StatInv
    <2>2. WholeInv'
      BY <1>1, <2>1 DEF WholeInv, OnTime
    <2>3. DigitsInv'
      BY <1>1, <2>1 DEF DigitsInv
    <2> QED  BY <2>2, <2>3
  <1> QED  BY <1>2, <1>3 DEF StatInv

LEMMA WakeStat ==
    ASSUME StatInv, Stat!Wake
    PROVE  StatInv'
  <1>1. StatShape /\ statpc = "sleep"
    BY DEF StatInv, Stat!Wake
  <1>2. /\ tc_flag' = FALSE /\ late' = 0 /\ statr' = 0
        /\ UNCHANGED <<now, at, period, met, mon, dtr, last_dtr, since>>
        /\ \/ tc_flag /\ t' = now /\ statpc' = "test"
           \/ ~tc_flag /\ t' = t /\ statpc' = "dtr"
    BY DEF Stat!Wake, Stat!timerVars
  <1>3. /\ now \in Word /\ at \in Word /\ period \in Word /\ late \in 0 .. Lag /\ since \in 0 .. Cap
        /\ 0 \in Word /\ 0 \in 0 .. Lag /\ Lag \in Nat /\ Cap \in Nat
    BY <1>1, StatTypes, StatConstants
  <1>4. StatShape'
    <2>1. Stat!Plus(now, 0) = now
      BY <1>3, WordFacts, StatConstants DEF Word
    <2>2. statpc' \in Timed => now' = Stat!Plus(t', late')
      BY <1>2, <2>1 DEF Timed
    <2> QED  BY <1>1, <1>2, <1>3, <2>2, SameWords DEF StatShape, Stat!TypeOK
  <1>5. ASSUME ~met' PROVE WholeInv' /\ DigitsInv'
    <2>1. OnTime(period + late) /\ (~tc_flag => late = 0)
      BY <1>1, <1>2, <1>5 DEF StatInv, WholeInv, StatShape
    <2>2. since < period + late => since < period + Lag + 0
      BY <1>3 DEF Word
    <2>3. 0 <= since
      BY <1>3
    <2> QED  BY <1>2, <2>1, <2>2, <2>3 DEF WholeInv, DigitsInv, OnTime
  <1> QED  BY <1>4, <1>5 DEF StatInv

LEMMA TestStat ==
    ASSUME StatInv, Stat!Test, Stat!Reads
    PROVE  StatInv'
  <1>1. StatShape /\ statpc = "test"
    BY DEF StatInv, Stat!Test
  <1>2. /\ statr' = Stat!Low(0, at) /\ statpc' = "test2"
        /\ UNCHANGED <<now, tc_flag, at, period, met, mon, dtr, last_dtr, t, late, since>>
    BY DEF Stat!Test, Stat!Reads, Stat!timerVars
  <1>3. statr' = at % Base /\ statr' \in Word
    BY <1>1, <1>2, StatTypes, DigitFacts, StatConstants
  <1>4. StatShape'
    BY <1>1, <1>2, <1>3, SameWords DEF StatShape, Stat!TypeOK, Timed
  <1>5. ASSUME ~met' PROVE WholeInv' /\ DigitsInv'
    BY <1>1, <1>2, <1>3, <1>5 DEF StatInv, WholeInv, DigitsInv, OnTime
  <1> QED  BY <1>4, <1>5 DEF StatInv

\* The time of the pass is late milliseconds ago.
LEMMA Ago ==
    ASSUME NEW a \in Word, NEW s \in Word, NEW p \in Word, NEW y \in Word, NEW l \in Word,
           Stat!Plus(a, s) = Stat!Plus(Stat!Plus(y, l), p), l <= s, p + l < Words, s < Words
    PROVE  Stat!Minus(y, a) = IF p <= s - l THEN s - l - p ELSE Words + (s - l) - p
  <1> DEFINE e == Stat!Plus(y, l)
  <1>1. e = (IF y + l < Words THEN y + l ELSE y + l - Words) /\ e \in Word
    BY WordFacts
  <1> HIDE DEF e
  <1>2. /\ Stat!Plus(a, s) = IF a + s < Words THEN a + s ELSE a + s - Words
        /\ Stat!Plus(e, p) = IF e + p < Words THEN e + p ELSE e + p - Words
        /\ Stat!Minus(y, a) = IF a <= y THEN y - a ELSE Words + y - a
    BY <1>1, WordFacts
  <1>3. /\ Words \in Nat /\ a \in 0 .. Words - 1 /\ s \in 0 .. Words - 1 /\ p \in 0 .. Words - 1
        /\ y \in 0 .. Words - 1 /\ l \in 0 .. Words - 1 /\ e \in 0 .. Words - 1
    BY <1>1, StatConstants DEF Word
  <1>4. Stat!Plus(a, s) = Stat!Plus(e, p)
    BY DEF e
  <1> QED  BY <1>1, <1>2, <1>3, <1>4

\* The timer, when it is looked at, is whole.
LEMMA Test2Stat ==
    ASSUME StatInv, Stat!Test2, Stat!Reads
    PROVE  StatInv'
  <1>1. StatShape /\ statpc = "test2"
    BY DEF StatInv, Stat!Test2
  <1>2. /\ statr' = Stat!High(statr, at)
        /\ statpc' = IF Stat!Due(statr') THEN "clear" ELSE "dtr"
        /\ UNCHANGED <<now, tc_flag, at, period, met, mon, dtr, last_dtr, t, late, since>>
    BY <1>1 DEF Stat!Test2, Stat!Test, Stat!Period, Stat!Period2, Stat!Reads, Stat!timerVars
  <1>3. statr' \in Word /\ (statr = at % Base => statr' = at)
    BY <1>1, <1>2, StatTypes, DigitFacts
  <1>4. StatShape'
    BY <1>1, <1>2, <1>3, SameWords DEF StatShape, Stat!TypeOK, Timed
  <1>5. ASSUME ~met' PROVE WholeInv' /\ DigitsInv'
    <2>1. WholeInv /\ DigitsInv /\ statr' = at
      BY <1>1, <1>2, <1>3, <1>5 DEF StatInv, DigitsInv
    <2>2. now = Stat!Plus(t, late)
      BY <1>1 DEF StatShape, Timed
    <2>3. ASSUME at # 0
          PROVE  /\ period \in Periods /\ Stat!Plus(at, since) = Stat!Plus(now, period)
                 /\ Stat!Due(at) => since >= period
                 /\ ~Stat!Due(at) => since < period + late
      <3>1. /\ period \in Periods /\ Stat!Plus(at, since) = Stat!Plus(now, period)
            /\ since < period + Lag + late /\ late <= since
        BY <1>1, <2>1, <2>3 DEF WholeInv, OnTime
      <3>2. /\ Words \in Nat /\ Lag \in Nat /\ late \in 0 .. Lag /\ since \in Nat /\ period \in Nat
            /\ period + 2 * Lag < Words /\ Lag <= Stat!max_delay /\ Stat!max_delay \in Nat
            /\ period + Stat!max_delay <= Words
        BY <1>1, <3>1, StatTypes, StatConstants
      <3>3. since \in Word /\ period + late < Words /\ since < Words
        BY <3>1, <3>2 DEF Word
      <3>4. at \in Word /\ period \in Word /\ t \in Word /\ late \in Word
        BY <1>1, StatTypes
      <3> DEFINE gone == Stat!Minus(t, at)
      <3>5. gone = IF period <= since - late THEN since - late - period
                                             ELSE Words + (since - late) - period
        BY <2>2, <3>1, <3>3, <3>4, Ago
      <3>6. Stat!Due(at) <=> gone < Stat!max_delay
        BY <2>3 DEF Stat!Due
      <3> HIDE DEF gone
      <3>7. gone < Stat!max_delay => since >= period
        BY <3>1, <3>2, <3>5
      <3>8. ~(gone < Stat!max_delay) => since < period + late
        BY <3>1, <3>2, <3>5
      <3> QED  BY <3>1, <3>6, <3>7, <3>8
    <2>4. CASE Stat!Due(at)
      <3>1. statpc' = "clear" /\ at # 0
        BY <1>2, <2>1, <2>4 DEF Stat!Due
      <3> QED  BY <1>2, <2>3, <2>4, <3>1 DEF WholeInv, DigitsInv
    <2>5. CASE ~Stat!Due(at)
      <3>1. statpc' = "dtr"
        BY <1>2, <2>1, <2>5
      <3> QED  BY <1>2, <2>3, <2>5, <3>1 DEF WholeInv, DigitsInv, OnTime
    <2> QED  BY <2>4, <2>5
  <1> QED  BY <1>4, <1>5 DEF StatInv

LEMMA PeriodStat ==
    ASSUME StatInv, Stat!Period \/ Stat!Period2, Stat!Reads
    PROVE  StatInv'
  <1>1. StatShape /\ statpc \in {"period", "period2"}
    BY DEF StatInv, Stat!Period, Stat!Period2
  <1>2. UNCHANGED <<now, tc_flag, at, period, met, mon, dtr, last_dtr, t, late, since>>
    BY DEF Stat!Reads, Stat!timerVars
  <1>3. /\ now \in Word /\ period \in Word /\ t \in Word /\ statr \in Word /\ 0 \in Word
    BY <1>1, StatTypes, StatConstants
  <1>4. CASE Stat!Period
    <2>1. statpc = "period" /\ statpc' = "period2" /\ statr' = Stat!Low(0, period)
      BY <1>4 DEF Stat!Period
    <2>2. statr' = period % Base /\ statr' \in Word
      BY <1>3, <2>1, DigitFacts
    <2>3. StatShape'
      BY <1>1, <1>2, <2>1, <2>2, SameWords DEF StatShape, Stat!TypeOK, Timed
    <2>4. ASSUME ~met' PROVE WholeInv' /\ DigitsInv'
      BY <1>2, <2>1, <2>2, <2>4 DEF StatInv, WholeInv, DigitsInv
    <2> QED  BY <2>3, <2>4 DEF StatInv
  <1>5. CASE Stat!Period2
    <2>1. /\ statpc = "period2" /\ statpc' = "store"
          /\ statr' = Stat!Plus(t, Stat!High(statr, period))
      BY <1>5 DEF Stat!Period2
    <2>2. Stat!High(statr, period) \in Word
          /\ (statr = period % Base => Stat!High(statr, period) = period)
      BY <1>3, DigitFacts
    <2>3. statr' \in Word
      BY <1>3, <2>1, <2>2, WordFacts
    <2>4. StatShape'
      BY <1>1, <1>2, <2>1, <2>3, SameWords DEF StatShape, Stat!TypeOK, Timed
    <2>5. ASSUME ~met' PROVE WholeInv' /\ DigitsInv'
      BY <1>2, <2>1, <2>2, <2>5 DEF StatInv, WholeInv, DigitsInv
    <2> QED  BY <2>4, <2>5 DEF StatInv
  <1> QED  BY <1>4, <1>5

\* A period and the time of a pass, in either order.
LEMMA Swap ==
    ASSUME NEW y \in Word, NEW p \in Word, NEW l \in Word
    PROVE  /\ Stat!Plus(Stat!Plus(y, p), l) = Stat!Plus(Stat!Plus(y, l), p)
           /\ Stat!Minus(Stat!Plus(y, l), y) = l
  <1> DEFINE f == Stat!Plus(y, p)
             e == Stat!Plus(y, l)
  <1>1. /\ f = (IF y + p < Words THEN y + p ELSE y + p - Words) /\ f \in Word
        /\ e = (IF y + l < Words THEN y + l ELSE y + l - Words) /\ e \in Word
    BY WordFacts
  <1> HIDE DEF e, f
  <1>2. /\ Stat!Plus(f, l) = IF f + l < Words THEN f + l ELSE f + l - Words
        /\ Stat!Plus(e, p) = IF e + p < Words THEN e + p ELSE e + p - Words
        /\ Stat!Minus(e, y) = IF y <= e THEN e - y ELSE Words + e - y
    <2>1. e \in Word /\ f \in Word
      BY <1>1
    <2>2. Stat!Plus(f, l) = IF f + l < Words THEN f + l ELSE f + l - Words
      BY <2>1, WordFacts
    <2>3. Stat!Plus(e, p) = IF e + p < Words THEN e + p ELSE e + p - Words
      BY <2>1, WordFacts
    <2>4. Stat!Minus(e, y) = IF y <= e THEN e - y ELSE Words + e - y
      BY <2>1, WordFacts
    <2> QED  BY <2>2, <2>3, <2>4
  <1>3. /\ Words \in Nat /\ y \in 0 .. Words - 1 /\ p \in 0 .. Words - 1 /\ l \in 0 .. Words - 1
        /\ e \in 0 .. Words - 1 /\ f \in 0 .. Words - 1
    BY <1>1, StatConstants DEF Word
  <1>4. Stat!Plus(f, l) = Stat!Plus(e, p) /\ Stat!Minus(e, y) = l
    BY <1>1, <1>2, <1>3
  <1> QED  BY <1>4 DEF e, f

LEMMA ClearStat ==
    ASSUME StatInv, Stat!Clear, Stat!Writes
    PROVE  StatInv'
  <1>1. /\ StatShape /\ statpc = "clear" /\ statpc' = "period" /\ at' = 0 /\ since' = since
        /\ UNCHANGED <<now, tc_flag, period, met, mon, dtr, last_dtr, t, statr, late>>
    BY DEF StatInv, Stat!Clear, Stat!Writes
  <1>2. StatShape'
    BY <1>1, SameWords, StatConstants DEF StatShape, Stat!TypeOK, Timed
  <1>3. ASSUME ~met' PROVE WholeInv' /\ DigitsInv'
    BY <1>1, <1>3 DEF StatInv, WholeInv, DigitsInv
  <1> QED  BY <1>2, <1>3 DEF StatInv

LEMMA StoreStat ==
    ASSUME StatInv, Stat!Store, Stat!Writes
    PROVE  StatInv'
  <1>1. /\ StatShape /\ statpc = "store" /\ statpc' = "store2" /\ since' = since
        /\ at' = Stat!Low(at, statr)
        /\ UNCHANGED <<now, tc_flag, period, met, mon, dtr, last_dtr, t, statr, late>>
    BY DEF StatInv, Stat!Store, Stat!Writes
  <1>2. at' \in Word /\ (at = 0 => at' = statr % Base)
    BY <1>1, StatTypes, StatConstants, DigitFacts
  <1>3. StatShape'
    BY <1>1, <1>2, SameWords DEF StatShape, Stat!TypeOK, Timed
  <1>4. ASSUME ~met' PROVE WholeInv' /\ DigitsInv'
    BY <1>1, <1>2, <1>4 DEF StatInv, WholeInv, DigitsInv
  <1> QED  BY <1>3, <1>4 DEF StatInv

\* The timer is whole again, and was set as the pass began.
LEMMA Store2Stat ==
    ASSUME StatInv, Stat!Store2, Stat!Writes
    PROVE  StatInv'
  <1>1. /\ StatShape /\ statpc = "store2" /\ statpc' = "print"
        /\ at' = Stat!High(at, statr) /\ since' = Stat!Minus(now, t)
        /\ UNCHANGED <<now, tc_flag, period, met, mon, dtr, last_dtr, t, statr, late>>
    BY DEF StatInv, Stat!Store2, Stat!Writes, Stat!Clear, Stat!Store
  <1>2. /\ at \in Word /\ statr \in Word /\ now \in Word /\ t \in Word /\ late \in Word
        /\ period \in Word /\ late \in 0 .. Lag /\ Lag \in Nat /\ Cap \in Nat /\ Lag <= Cap
    BY <1>1, StatTypes, StatConstants
  <1>3. at' \in Word /\ (at = statr % Base => at' = statr)
    BY <1>1, <1>2, DigitFacts
  <1>4. now = Stat!Plus(t, late)
    BY <1>1 DEF StatShape, Timed
  <1>5. since' = late /\ since' \in 0 .. Cap
    <2>1. since' = late
      BY <1>1, <1>2, <1>4, Swap
    <2> QED  BY <1>2, <2>1
  <1>6. StatShape'
    BY <1>1, <1>3, <1>5, SameWords DEF StatShape, Stat!TypeOK, Timed
  <1>7. ASSUME ~met' PROVE WholeInv' /\ DigitsInv'
    <2>1. period \in Periods /\ at' = Stat!Plus(t, period)
      BY <1>1, <1>3, <1>7 DEF StatInv, DigitsInv
    <2>2. Stat!Plus(at', since') = Stat!Plus(now', period')
      BY <1>1, <1>2, <1>4, <1>5, <2>1, Swap
    <2>3. since' < period + late
      <3>1. period > 0 /\ period \in Nat /\ late \in Nat
        BY <1>2, <2>1, StatConstants
      <3> QED  BY <1>5, <3>1
    <2> QED  BY <1>1, <2>1, <2>2, <2>3 DEF WholeInv, DigitsInv, OnTime
  <1> QED  BY <1>6, <1>7 DEF StatInv

LEMMA ShowStat ==
    ASSUME StatInv, Stat!Show \/ Stat!Dtr
    PROVE  StatInv'
  <1>1. /\ statpc \in {"print", "dtr"} /\ statpc' \in {"dtr", "sleep", "stop"}
        /\ last_dtr' \in {last_dtr, dtr}
        /\ UNCHANGED <<now, tc_flag, at, period, met, mon, dtr, t, statr, late, since>>
    BY DEF Stat!Show, Stat!Dtr, Stat!timerVars
  <1>2. StatShape'
    BY <1>1 DEF StatInv, StatShape, Stat!TypeOK, Timed
  <1>3. ASSUME ~met' PROVE WholeInv' /\ DigitsInv'
    BY <1>1, <1>3 DEF StatInv, WholeInv, DigitsInv, OnTime
  <1> QED  BY <1>2, <1>3 DEF StatInv

\* The terminal closes: a digit at a time, down to zero.
LEMMA CloseStat ==
    ASSUME StatInv, Stat!Close
    PROVE  StatInv'
  <1>1. /\ UNCHANGED <<now, tc_flag, dtr, last_dtr, t, statr, late, since>>
        /\ met' = (met /\ statpc # "cancel")
    BY DEF Stat!Close
  <1>2. StatShape
    BY DEF StatInv
  <1>3. /\ at \in Word /\ period \in Word /\ 0 \in Word /\ met \in BOOLEAN /\ mon \in BOOLEAN
    BY <1>2, StatTypes, StatConstants
  <1>4. met' \in BOOLEAN
    BY <1>1, <1>3
  <1>5. CASE statpc = "stop"
    <2>1. statpc' = "cancel" /\ mon' = FALSE /\ UNCHANGED <<at, period>> /\ met' = met
      BY <1>1, <1>3, <1>5 DEF Stat!Close
    <2>2. StatShape'
      BY <1>1, <1>2, <1>3, <2>1 DEF StatShape, Stat!TypeOK, Timed
    <2>3. ASSUME ~met' PROVE WholeInv' /\ DigitsInv'
      BY <1>1, <1>5, <2>1, <2>3 DEF StatInv, WholeInv, DigitsInv, OnTime
    <2> QED  BY <2>2, <2>3 DEF StatInv
  <1>6. CASE statpc = "cancel"
    <2>1. statpc' = "cancel2" /\ at' = Stat!Low(at, 0) /\ UNCHANGED <<period, mon>>
      BY <1>6 DEF Stat!Close
    <2>2. at' \in Word /\ at' % Base = 0
      BY <1>3, <2>1, DigitFacts
    <2>3. StatShape'
      BY <1>1, <1>2, <1>4, <2>1, <2>2, SameWords DEF StatShape, Stat!TypeOK, Timed
    <2>4. WholeInv' /\ DigitsInv'
      BY <2>1, <2>2 DEF WholeInv, DigitsInv
    <2> QED  BY <2>3, <2>4 DEF StatInv
  <1>7. CASE statpc = "cancel2"
    <2>1. /\ statpc' = "zero" /\ at' = Stat!High(at, 0) /\ UNCHANGED <<period, mon>>
          /\ met' = met
      BY <1>1, <1>3, <1>7 DEF Stat!Close
    <2>2. at' \in Word /\ at' = at % Base
      BY <1>3, <2>1, DigitFacts
    <2>3. StatShape'
      BY <1>1, <1>2, <1>4, <2>1, <2>2, SameWords DEF StatShape, Stat!TypeOK, Timed
    <2>4. ASSUME ~met' PROVE WholeInv' /\ DigitsInv'
      BY <1>7, <2>1, <2>2, <2>4 DEF StatInv, WholeInv, DigitsInv
    <2> QED  BY <2>3, <2>4 DEF StatInv
  <1>8. CASE statpc = "zero"
    <2>1. /\ statpc' = "zero2" /\ period' = Stat!Low(period, 0) /\ UNCHANGED <<at, mon>>
          /\ met' = met
      BY <1>1, <1>3, <1>8 DEF Stat!Close
    <2>2. period' \in Word /\ period' % Base = 0
      BY <1>3, <2>1, DigitFacts
    <2>3. StatShape'
      BY <1>1, <1>2, <1>4, <2>1, <2>2, SameWords DEF StatShape, Stat!TypeOK, Timed
    <2>4. ASSUME ~met' PROVE WholeInv' /\ DigitsInv'
      BY <1>8, <2>1, <2>2, <2>4 DEF StatInv, WholeInv, DigitsInv
    <2> QED  BY <2>3, <2>4 DEF StatInv
  <1>9. CASE statpc = "zero2"
    <2>1. /\ statpc' = "sleep" /\ period' = Stat!High(period, 0) /\ UNCHANGED <<at, mon>>
          /\ met' = met
      BY <1>1, <1>3, <1>9 DEF Stat!Close
    <2>2. period' \in Word
      BY <1>3, <2>1, DigitFacts
    <2>3. StatShape'
      BY <1>1, <1>2, <1>4, <2>1, <2>2, SameWords DEF StatShape, Stat!TypeOK, Timed
    <2>4. ASSUME ~met' PROVE WholeInv' /\ DigitsInv'
      BY <1>9, <2>1, <2>4 DEF StatInv, WholeInv, DigitsInv, OnTime
    <2> QED  BY <2>3, <2>4 DEF StatInv
  <1> QED  BY <1>5, <1>6, <1>7, <1>8, <1>9 DEF Stat!Close

LEMMA StatStep == StatInv /\ [Stat!Next]_statVars => StatInv'
  <1> SUFFICES ASSUME StatInv, [Stat!Next]_statVars PROVE StatInv'
    OBVIOUS
  <1>1. CASE Stat!Reads
    BY <1>1, TestStat, Test2Stat, PeriodStat DEF Stat!Reads
  <1>2. CASE Stat!Writes
    BY <1>2, ClearStat, StoreStat, Store2Stat DEF Stat!Writes
  <1>3. CASE Stat!Main
    BY <1>1, <1>2, <1>3, WakeStat, ShowStat, CloseStat DEF Stat!Main
  <1>4. CASE \E d \in Seconds : Stat!PeriodCommand(d)
    BY <1>4, PeriodCommandStat
  <1> QED  BY <1>3, <1>4, TickStat, StopStat, OtherCommandStat DEF Stat!Next

LEMMA StatSafe ==
    ASSUME StatInv
    PROVE  Stat!TypeOK /\ Stat!StoppedIsStopped /\ Stat!KeepsPeriod
  <1>1. Stat!TypeOK
    BY DEF StatInv, StatShape
  <1>2. Stat!StoppedIsStopped
    BY StatConstants DEF StatInv, WholeInv, OnTime, Stat!StoppedIsStopped
  <1>3. Stat!KeepsPeriod
    <2>1. ~met /\ statpc = "clear" => since >= period
      BY DEF StatInv, DigitsInv
    <2>2. ASSUME ~met, Stat!Away, at # 0
          PROVE  since <= period + 2 * Lag
      <3>1. since < period + late /\ period \in Periods
        BY <2>2 DEF StatInv, WholeInv, OnTime, Stat!Away
      <3>2. since \in Nat /\ period \in Nat /\ late \in 0 .. Lag /\ Lag \in Nat
        BY <3>1, StatTypes, StatConstants DEF StatInv
      <3> QED  BY <3>1, <3>2
    <2> QED  BY <2>1, <2>2 DEF Stat!KeepsPeriod
  <1> QED  BY <1>1, <1>2, <1>3

--------------------------------------------------------------------------------
(* The menu: the timer is e milliseconds into the time to the next blink, and   *)
(* each blink before it came at most a pass late.                               *)

MenuAt(e) ==
    /\ Menu!Plus(due, e) = Menu!Plus(clock, Every)
    /\ held < Cap => /\ held >= count * Every + e
                     /\ held <= count * (Every + Lag - 1) + e

MenuInv ==
    /\ Menu!TypeOK
    /\ state = "runs" => count <= 4
    /\ due # 0 => down_debounced /\ \E e \in 0 .. Every - 1 + behind : MenuAt(e)

LEMMA MenuConstants ==
    /\ Words \in Nat /\ Words >= 4 /\ Every \in Nat /\ Every > 0 /\ Bounce \in Nat
    /\ Lag \in Nat /\ Lag > 0 /\ Cap \in Nat
    /\ Every \in Word /\ 0 \in Word /\ 1 \in Word
    /\ Every + Lag < Words /\ Menu!max_delay \in Nat /\ Lag <= Menu!max_delay
    /\ Every + Menu!max_delay <= Words
  <1>1. /\ Words \in Nat /\ Words >= 4 /\ 0 \in Word /\ 1 \in Word
    BY StatConstants
  <1>2. /\ Lag \in Nat /\ Lag > 0 /\ Cap \in Nat /\ Every \in Nat /\ Every > 0 /\ Bounce \in Nat
        /\ Every <= Words \div 2 /\ Lag <= (Words - 1) \div 2
    BY MenuAssumption DEF Menu!ConstantsFit
  <1>3. Menu!max_delay = (Words - 1) \div 2
    BY DEF Menu!max_delay
  <1> QED  BY <1>1, <1>2, <1>3 DEF Word

LEMMA SamePlus == \A a, b : Menu!Plus(a, b) = Stat!Plus(a, b)
  BY SameWords DEF Menu!Plus, Stat!Plus

LEMMA InitMenu == Menu!Init => MenuInv
  <1> SUFFICES ASSUME Menu!Init PROVE MenuInv
    OBVIOUS
  <1>1. /\ clock \in Word /\ changed \in Word /\ due \in Word
        /\ pressed \in BOOLEAN /\ down = FALSE /\ down_debounced = FALSE /\ bounce = FALSE
        /\ led = FALSE /\ test = FALSE
        /\ count = 0 /\ state = "runs" /\ behind \in 0 .. Lag /\ held \in 0 .. Cap
    BY MenuConstants DEF Menu!Init
  <1>2. Menu!TypeOK
    <2>1. {pressed, down, down_debounced, bounce, led, test} \subseteq BOOLEAN
      BY <1>1
    <2>2. count \in 0 .. 5 /\ state \in {"runs", "reset"}
      BY <1>1
    <2> QED  BY <1>1, <2>1, <2>2, SameWords DEF Menu!TypeOK
  <1> QED  BY <1>2 DEF Menu!Init, MenuInv

LEMMA PinMenu ==
    ASSUME MenuInv, Menu!Pin \/ UNCHANGED menuVars
    PROVE  MenuInv'
  <1>1. /\ pressed' \in {pressed, ~pressed}
        /\ UNCHANGED <<clock, down, down_debounced, bounce, changed, due, count, led, test,
                       state, behind, held>>
    BY DEF Menu!Pin, Menu!btnVars, Menu!modeVars, menuVars
  <1>2. Menu!TypeOK'
    <2>1. pressed' \in BOOLEAN
      BY <1>1 DEF MenuInv, Menu!TypeOK
    <2> QED  BY <1>1, <2>1 DEF MenuInv, Menu!TypeOK
  <1>3. ASSUME NEW e, MenuAt(e) PROVE MenuAt(e)'
    BY <1>1, <1>3 DEF MenuAt
  <1> QED  BY <1>1, <1>2, <1>3 DEF MenuInv

LEMMA TickMenu ==
    ASSUME MenuInv, Menu!Tick
    PROVE  MenuInv'
  <1>1. /\ clock \in Word /\ due \in Word /\ behind \in 0 .. Lag - 1 /\ held \in 0 .. Cap
        /\ count \in 0 .. 5
    BY MenuConstants, SameWords DEF MenuInv, Menu!TypeOK, Menu!Tick
  <1>2. /\ clock' = Menu!Plus(clock, 1) /\ behind' = behind + 1
        /\ held' = IF held < Cap THEN held + 1 ELSE Cap
        /\ UNCHANGED <<pressed, down, down_debounced, bounce, changed, due, count, led, test, state>>
    BY DEF Menu!Tick, Menu!btnVars, Menu!modeVars
  <1>3. Menu!TypeOK'
    <2>1. clock' \in Word /\ behind' \in 0 .. Lag /\ held' \in 0 .. Cap
      BY <1>1, <1>2, WordFacts, MenuConstants
    <2> QED  BY <1>2, <2>1, SameWords DEF MenuInv, Menu!TypeOK
  <1>4. ASSUME due # 0
        PROVE  down_debounced /\ \E e \in 0 .. Every - 1 + behind' : MenuAt(e)'
    <2>1. PICK e \in 0 .. Every - 1 + behind : MenuAt(e)
      BY <1>4 DEF MenuInv
    <2>2. e \in Nat /\ e + 1 \in 0 .. Every - 1 + behind'
      BY <1>1, <1>2, <2>1, MenuConstants
    <2>3. e \in Word /\ e + 1 \in Word
      BY <1>1, <2>1, MenuConstants DEF Word
    <2>4. Menu!Plus(due', e + 1) = Menu!Plus(clock', Every)
      <3>1. Stat!Plus(due, e) = Stat!Plus(clock, Every)
        BY <2>1, SamePlus DEF MenuAt
      <3>2. Stat!Plus(due, e + 1) = Stat!Plus(Stat!Plus(clock, 1), Every)
        BY <1>1, <2>3, <3>1, MenuConstants, Later
      <3> QED  BY <1>2, <3>2, SamePlus
    <2>5. ASSUME held' < Cap
          PROVE  held' >= count * Every + (e + 1) /\ held' <= count * (Every + Lag - 1) + (e + 1)
      <3> DEFINE lo == count * Every
                 hi == count * (Every + Lag - 1)
      <3>1. lo \in Int /\ hi \in Int
        BY <1>1, MenuConstants
      <3>2. held < Cap /\ held' = held + 1
        BY <1>1, <1>2, <2>5, MenuConstants
      <3>3. held >= lo + e /\ held <= hi + e
        BY <2>1, <3>2 DEF MenuAt
      <3> HIDE DEF lo, hi
      <3>4. held' >= lo + (e + 1) /\ held' <= hi + (e + 1)
        BY <1>1, <2>2, <3>1, <3>2, <3>3
      <3> QED  BY <3>4 DEF lo, hi
    <2>6. MenuAt(e + 1)'
      BY <1>2, <2>4, <2>5 DEF MenuAt
    <2> QED  BY <1>4, <2>2, <2>6 DEF MenuInv
  <1> QED  BY <1>2, <1>3, <1>4 DEF MenuInv

\* The blink comes once its time is over.
LEMMA DueMenu ==
    ASSUME MenuInv, due # 0, NEW e \in 0 .. Every - 1 + behind, MenuAt(e)
    PROVE  Menu!Due <=> e >= Every
  <1>1. /\ clock \in Word /\ due \in Word /\ behind \in 0 .. Lag
    BY SameWords DEF MenuInv, Menu!TypeOK
  <1>2. e \in Word /\ e \in 0 .. Every - 1 + Lag
    BY <1>1, MenuConstants DEF Word
  <1>3. /\ Menu!Plus(due, e) = IF due + e < Words THEN due + e ELSE due + e - Words
        /\ Menu!Plus(clock, Every) = IF clock + Every < Words THEN clock + Every
                                                             ELSE clock + Every - Words
        /\ Menu!Minus(clock, due) = IF due <= clock THEN clock - due ELSE Words + clock - due
    BY <1>1, <1>2, MenuConstants, WordFacts
  <1>4. Menu!Plus(due, e) = Menu!Plus(clock, Every)
    BY DEF MenuAt
  <1> DEFINE gone == Menu!Minus(clock, due)
  <1>5. gone = IF Every <= e THEN e - Every ELSE Words + e - Every
    <2>1. /\ Words \in Nat /\ clock \in 0 .. Words - 1 /\ due \in 0 .. Words - 1
          /\ e \in 0 .. Words - 1 /\ Every \in 0 .. Words - 1
      BY <1>1, <1>2, MenuConstants DEF Word
    <2> QED  BY <1>3, <1>4, <2>1
  <1>6. Menu!Due <=> gone < Menu!max_delay
    BY DEF Menu!Due
  <1> HIDE DEF gone
  <1>7. gone < Menu!max_delay <=> Every <= e
    BY <1>2, <1>5, MenuConstants
  <1> QED  BY <1>2, <1>6, <1>7, MenuConstants

LEMMA PassTypes ==
    ASSUME MenuInv, Menu!Pass
    PROVE  Menu!TypeOK' /\ (state' = "runs" => count' <= 4)
  <1>1. /\ clock \in Word /\ changed \in Word /\ due \in Word
        /\ pressed \in BOOLEAN /\ down \in BOOLEAN /\ down_debounced \in BOOLEAN
        /\ bounce \in BOOLEAN /\ led \in BOOLEAN /\ test \in BOOLEAN
        /\ count \in 0 .. 4 /\ state = "runs" /\ held \in 0 .. Cap
    BY SameWords DEF MenuInv, Menu!TypeOK, Menu!Pass
  <1>2. clock' = clock /\ pressed' = pressed /\ behind' = 0 /\ Menu!Button
    BY DEF Menu!Pass
  <1>3. /\ down' \in BOOLEAN /\ down_debounced' \in BOOLEAN /\ bounce' \in BOOLEAN
        /\ changed' \in Word
    <2>1. down' = pressed /\ down_debounced' \in {pressed, down_debounced}
          /\ changed' \in {clock, changed}
      BY <1>2 DEF Menu!Button, Menu!Change
    <2>2. bounce' = ((bounce \/ Menu!Changed) /\ ~Menu!Lasted)
      BY <1>2 DEF Menu!Button
    <2>3. bounce' \in BOOLEAN
      BY <2>2
    <2> QED  BY <1>1, <2>1, <2>3
  <1>4. /\ due' \in Word /\ held' \in 0 .. Cap /\ led' \in BOOLEAN /\ test' \in BOOLEAN
        /\ count' \in 0 .. 5 /\ state' \in {"runs", "reset"}
        /\ state' = "runs" => count' <= 4
    <2>1. Menu!Plus(clock, Every) \in Word /\ 0 \in Word /\ 0 \in 0 .. Cap
      BY <1>1, WordFacts, MenuConstants
    <2>2. CASE Menu!rst_blink_start
      BY <1>1, <2>1, <2>2 DEF Menu!rst_blink_start, Menu!modeVars
    <2>3. CASE Menu!Entry /\ Menu!rst_blink_stop /\ UNCHANGED <<count, held>>
      <3>1. led' \in BOOLEAN /\ test' \in BOOLEAN /\ state' \in {"runs", "reset"}
        BY <1>1, <2>3 DEF Menu!Entry, Menu!modeVars
      <3> QED  BY <1>1, <2>1, <2>3, <3>1 DEF Menu!rst_blink_stop
    <2>4. CASE Menu!rst_blink_update /\ UNCHANGED <<Menu!modeVars, held>>
      <3>1. due' \in Word /\ count' \in 0 .. 5
        BY <1>1, <2>1, <2>4 DEF Menu!rst_blink_update
      <3>2. state' = IF count' >= 5 THEN "reset" ELSE state
        BY <2>4 DEF Menu!rst_blink_update
      <3> QED  BY <1>1, <2>4, <3>1, <3>2 DEF Menu!modeVars
    <2> QED  BY <2>2, <2>3, <2>4 DEF Menu!Pass
  <1>5. behind' \in 0 .. Lag
    BY <1>2, MenuConstants
  <1> QED  BY <1>1, <1>2, <1>3, <1>4, <1>5, SameWords DEF Menu!TypeOK

LEMMA PassMenu ==
    ASSUME MenuInv, Menu!Pass
    PROVE  MenuInv'
  <1>1. /\ clock \in Word /\ due \in Word /\ count \in 0 .. 5 /\ held \in 0 .. Cap
        /\ behind \in 0 .. Lag /\ down_debounced \in BOOLEAN /\ pressed \in BOOLEAN
        /\ clock' = clock /\ behind' = 0 /\ state = "runs"
    BY SameWords DEF MenuInv, Menu!TypeOK, Menu!Pass
  <1>2. 0 \in 0 .. Every - 1 + 0
    BY MenuConstants
  <1>3. ASSUME due' # 0
        PROVE  down_debounced' /\ \E e \in 0 .. Every - 1 + behind' : MenuAt(e)'
    <2>1. CASE Menu!Reports /\ pressed /\ Menu!rst_blink_start
      <3>1. /\ due' = Menu!Plus(clock, Every) /\ count' = 0 /\ held' = 0
        BY <2>1 DEF Menu!rst_blink_start
      <3>2. down_debounced'
        BY <2>1 DEF Menu!Pass, Menu!Button, Menu!Reports
      <3>3. Menu!Plus(due', 0) = Menu!Plus(clock', Every)
        <4>1. due' \in Word
          BY <1>1, <3>1, WordFacts, MenuConstants
        <4>2. Menu!Plus(due', 0) = due'
          BY <4>1, WordFacts, MenuConstants DEF Word
        <4> QED  BY <1>1, <3>1, <4>2
      <3>4. 0 * Every = 0 /\ 0 * (Every + Lag - 1) = 0
        BY MenuConstants
      <3>5. MenuAt(0)'
        BY <3>1, <3>3, <3>4 DEF MenuAt
      <3> QED  BY <1>1, <1>2, <3>2, <3>5
    <2>2. CASE Menu!Entry /\ Menu!rst_blink_stop
      BY <1>3, <2>2 DEF Menu!rst_blink_stop
    <2>3. CASE ~Menu!Reports /\ Menu!rst_blink_update /\ held' = held
      <3>1. down_debounced' = down_debounced
        BY <2>3 DEF Menu!Pass, Menu!Button, Menu!Reports
      <3>2. CASE Menu!Due
        <4>1. due' = Menu!Plus(clock, Every) /\ count' = count + 1 /\ due # 0
          BY <2>3, <3>2 DEF Menu!rst_blink_update, Menu!Due
        <4>2. PICK e \in 0 .. Every - 1 + behind : MenuAt(e)
          BY <4>1 DEF MenuInv
        <4>3. e >= Every
          BY <3>2, <4>1, <4>2, DueMenu
        <4>4. Menu!Plus(due', 0) = Menu!Plus(clock', Every)
          <5>1. due' \in Word
            BY <1>1, <4>1, WordFacts, MenuConstants
          <5>2. Menu!Plus(due', 0) = due'
            BY <5>1, WordFacts, MenuConstants DEF Word
          <5> QED  BY <1>1, <4>1, <5>2
        <4>5. ASSUME held' < Cap
              PROVE  held' >= count' * Every + 0 /\ held' <= count' * (Every + Lag - 1) + 0
          <5> DEFINE lo == count * Every
                     hi == count * (Every + Lag - 1)
          <5>1. lo \in Int /\ hi \in Int
            BY <1>1, MenuConstants
          <5>2. held >= lo + e /\ held <= hi + e
            BY <2>3, <4>2, <4>5 DEF MenuAt
          <5>3. /\ (count + 1) * Every = lo + Every
                /\ (count + 1) * (Every + Lag - 1) = hi + (Every + Lag - 1)
            BY <1>1, MenuConstants
          <5> HIDE DEF lo, hi
          <5>4. held >= lo + Every /\ held <= hi + (Every + Lag - 1)
            BY <1>1, <4>2, <4>3, <5>1, <5>2, MenuConstants
          <5> QED  BY <1>1, <2>3, <4>1, <5>1, <5>3, <5>4, MenuConstants
        <4>6. MenuAt(0)'
          BY <4>4, <4>5 DEF MenuAt
        <4> QED  BY <1>1, <1>2, <3>1, <4>1, <4>6 DEF MenuInv
      <3>3. CASE ~Menu!Due
        <4>1. due' = due /\ count' = count
          BY <2>3, <3>3 DEF Menu!rst_blink_update
        <4>2. PICK e \in 0 .. Every - 1 + behind : MenuAt(e)
          BY <1>3, <4>1 DEF MenuInv
        <4>3. ~(e >= Every)
          BY <1>3, <3>3, <4>1, <4>2, DueMenu
        <4>4. e \in 0 .. Every - 1 + behind'
          BY <1>1, <4>2, <4>3, MenuConstants
        <4>5. MenuAt(e)'
          BY <1>1, <2>3, <4>1, <4>2 DEF MenuAt
        <4> QED  BY <1>3, <3>1, <4>1, <4>4, <4>5 DEF MenuInv
      <3> QED  BY <3>2, <3>3
    <2> QED  BY <2>1, <2>2, <2>3 DEF Menu!Pass
  <1> QED  BY <1>3, PassTypes DEF MenuInv

LEMMA ResetMenu ==
    ASSUME MenuInv, Menu!Reset
    PROVE  MenuInv'
  <1>1. /\ clock' \in Word /\ changed' \in Word /\ due' \in Word
        /\ pressed' \in BOOLEAN /\ down' = FALSE /\ down_debounced' = FALSE /\ bounce' = FALSE
        /\ led' = FALSE /\ test' = FALSE
        /\ count' = 0 /\ state' = "runs" /\ behind' \in 0 .. Lag /\ held' \in 0 .. Cap
    BY MenuConstants DEF MenuInv, Menu!TypeOK, Menu!Reset
  <1>2. Menu!TypeOK'
    <2>1. {pressed', down', down_debounced', bounce', led', test'} \subseteq BOOLEAN
      BY <1>1
    <2>2. count' \in 0 .. 5 /\ state' \in {"runs", "reset"}
      BY <1>1
    <2> QED  BY <1>1, <2>1, <2>2, SameWords DEF Menu!TypeOK
  <1> QED  BY <1>2 DEF Menu!Reset, MenuInv

LEMMA MenuStep == MenuInv /\ [Menu!Next]_menuVars => MenuInv'
  BY PinMenu, TickMenu, PassMenu, ResetMenu DEF Menu!Next

LEMMA MenuSafe ==
    ASSUME MenuInv
    PROVE  Menu!TypeOK /\ Menu!CountIsTime
  <1>1. Menu!TypeOK
    BY DEF MenuInv
  <1>2. ASSUME due # 0
        PROVE  /\ down_debounced
               /\ held < Cap => /\ held >= count * Every
                                /\ held < (count + 1) * (Every + Lag)
    <2>1. PICK e \in 0 .. Every - 1 + behind : MenuAt(e)
      BY <1>2 DEF MenuInv
    <2>2. count \in 0 .. 5 /\ behind \in 0 .. Lag /\ held \in 0 .. Cap
      BY <1>1 DEF Menu!TypeOK
    <2> DEFINE lo == count * Every
               hi == count * (Every + Lag)
               l  == count * (Every + Lag - 1)
    <2>3. lo \in Int /\ hi \in Int /\ l \in Int /\ l = hi - count
          /\ (count + 1) * (Every + Lag) = hi + Every + Lag
      BY <2>2, MenuConstants
    <2>4. held < Cap => held >= lo + e /\ held <= l + e
      BY <2>1 DEF MenuAt
    <2> HIDE DEF lo, hi, l
    <2>5. held < Cap => held >= lo /\ held < hi + Every + Lag
      BY <2>1, <2>2, <2>3, <2>4, MenuConstants
    <2>6. down_debounced
      BY <1>2 DEF MenuInv
    <2> QED  BY <2>3, <2>5, <2>6 DEF lo
  <1> QED  BY <1>1, <1>2 DEF Menu!CountIsTime

LEMMA Invariance == Spec => []IInv
  BY InitInv, StepInv, PTL DEF Spec

\* The parts do not touch one another's variables.
PartsInv == IInv /\ StatInv /\ MenuInv

LEMMA PartsInvariance == PartsSpec => []PartsInv
  <1>1. PartsInit => PartsInv
    BY InitInv, InitStat, InitMenu DEF PartsInit, PartsInv
  <1>2. PartsInv /\ [PartsNext]_<<part, vars, statVars, menuVars>> => PartsInv'
    BY StepInv, StatStep, MenuStep DEF PartsNext, PartsInv
  <1> QED  BY <1>1, <1>2, PTL DEF PartsSpec

--------------------------------------------------------------------------------
(* Theorems.                                                                    *)

\* Every variable of the clock keeps its type, the fraction below a millisecond and the
\* milliseconds within a word (timer.cpp:102-113).
THEOREM TypeCorrect == Spec => []TypeOK
  <1>1. IInv => TypeOK
    BY DEF IInv
  <1> QED  BY <1>1, Invariance, PTL

\* No part of a millisecond is lost or counted twice (timer.cpp:102-113): the clock is the
\* number of interrupts served times the time between two, modulo a word, for ever.
THEOREM NothingLost == Spec => []NoTimeLost
  <1>1. IInv => NoTimeLost
    BY DEF IInv
  <1> QED  BY <1>1, Invariance, PTL

\* millis() returns a time that the clock shows, though the interrupt may come at any step
\* of it (timer.cpp:130-137).
THEOREM NeverTorn == Spec => []ReadIsTime
  <1>1. IInv => ReadIsTime
    BY DEF IInv, ReadInv, ReadIsTime
  <1> QED  BY <1>1, Invariance, PTL

\* Every variable of the clock and of its two users keeps its type, in particular the
\* count of blinks never passes the fifth, which is the reset (rst_blink.h:26-33).
THEOREM PartsTypeCorrect == PartsSpec => []PartsTypeOK
  <1>1. PartsInv => PartsTypeOK
    BY StatSafe, MenuSafe DEF PartsInv, IInv, PartsTypeOK
  <1> QED  BY <1>1, PartsInvariance, PTL

\* What was stopped has stopped: when no period is set no timer is left to fire
\* (main.cpp:394-396, 201-202), for every width of a word and whichever digits the
\* interrupt comes between, unless the command came while the main loop was at the timer.
THEOREM StoppedStays == PartsSpec => []StoppedIsStopped
  <1>1. PartsInv => StoppedIsStopped
    BY StatSafe DEF PartsInv, StoppedIsStopped
  <1> QED  BY <1>1, PartsInvariance, PTL

\* Statistics come no earlier than their period after the command or the time before, and
\* no set timer is overlooked because the clock has wrapped (main.cpp:165-166, 358-360,
\* artl/timer.h:24).
THEOREM PeriodKept == PartsSpec => []KeepsPeriod
  <1>1. PartsInv => KeepsPeriod
    BY StatSafe DEF PartsInv, KeepsPeriod
  <1> QED  BY <1>1, PartsInvariance, PTL

\* The number of blinks that chooses the entry of the menu is the time the button was held,
\* however its contact bounces and wherever the clock wraps (rst_blink.h:26-33).
THEOREM CountRight == PartsSpec => []CountIsTime
  <1>1. PartsInv => CountIsTime
    BY MenuSafe DEF PartsInv, CountIsTime
  <1> QED  BY <1>1, PartsInvariance, PTL
================================================================================
