---------------------------- MODULE ClockProofs ----------------------------
(***************************************************************************)
(* What the clock and the delays of Clock compute, for every time and      *)
(* every offset.                                                           *)
(***************************************************************************)
EXTENDS Clock, TLAPS

\* The two sizes are kept as names where a range mentions them.
LEMMA Sizes ==
    /\ MILLION \in Int /\ MILLION > 0
    /\ TWO32 \in Int /\ TWO32 > 0
  BY SMT DEF MILLION, TWO32, TWO31

\* The fields of a time are integers, and microseconds are less than a second.
LEMMA Fields ==
    ASSUME NEW t \in TimeVal
    PROVE  /\ t.sec \in Int /\ t.usec \in Int
           /\ 0 =< t.usec /\ t.usec < MILLION
  BY Sizes, SMT DEF TimeVal

\* What remains of a time in microseconds after its whole seconds.
LEMMA DivMod ==
    ASSUME NEW n \in Int
    PROVE  /\ n \div MILLION \in Int
           /\ n % MILLION \in 0 .. MILLION - 1
           /\ (n \div MILLION) * MILLION + (n % MILLION) = n
<1>1. /\ n \div MILLION \in Int
      /\ n % MILLION \in Int /\ 0 =< n % MILLION /\ n % MILLION < MILLION
      /\ (n \div MILLION) * MILLION + (n % MILLION) = n
  BY SMT DEF MILLION
<1>2. QED
  BY <1>1, Sizes, SMT

\* The carry keeps the time and leaves less than a second of microseconds.
LEMMA NormaliseKeeps ==
    ASSUME NEW t \in Offset
    PROVE  /\ Normalise(t) \in TimeVal
           /\ Microseconds(Normalise(t)) = Microseconds(t)
<1>1. t.sec \in Int /\ t.usec \in Int
  BY DEF Offset
<1> DEFINE d == t.usec \div MILLION
           m == t.usec % MILLION
<1>2. d \in Int /\ m \in 0 .. MILLION - 1 /\ d * MILLION + m = t.usec
  BY <1>1, DivMod
<1>3. Normalise(t) = [sec |-> t.sec + d, usec |-> m]
  BY DEF Normalise
<1> HIDE DEF d, m
<1>4. Normalise(t) \in TimeVal
  BY <1>1, <1>2, <1>3 DEF TimeVal
<1>5. m \in Int /\ d \in Int
  BY <1>2, Sizes
<1>6. (t.sec + d) * MILLION + m = t.sec * MILLION + (d * MILLION + m)
  BY <1>1, <1>5, SMT DEF MILLION
<1>7. QED
  BY <1>2, <1>3, <1>4, <1>6 DEF Microseconds

\* getTime returns a well-formed time, and it is the local time plus the
\* offset: the two loops of ntp.h lose no microsecond, whatever the sign and
\* the size of the offset.
THEOREM GetTimeIsShifted ==
    ASSUME NEW timestamp \in TimeVal, NEW offset \in Offset
    PROVE  /\ getTime(timestamp, offset) \in TimeVal
           /\ Microseconds(getTime(timestamp, offset))
                = Microseconds(timestamp) + Microseconds(offset)
<1> DEFINE sum == [sec  |-> timestamp.sec + offset.sec,
                   usec |-> timestamp.usec + offset.usec]
<1>1. /\ timestamp.sec \in Int /\ timestamp.usec \in Int
      /\ offset.sec \in Int /\ offset.usec \in Int
  BY Fields DEF Offset
<1>2. sum \in Offset
  BY <1>1 DEF Offset
<1>3. /\ Normalise(sum) \in TimeVal
      /\ Microseconds(Normalise(sum)) = Microseconds(sum)
  BY <1>2, NormaliseKeeps
<1>4. Microseconds(sum) = Microseconds(timestamp) + Microseconds(offset)
  BY <1>1, SMT DEF Microseconds, MILLION
<1>5. QED
  BY <1>3, <1>4 DEF getTime

\* A time in microseconds is an integer.
LEMMA MicrosecondsType ==
    ASSUME NEW t \in TimeVal
    PROVE  Microseconds(t) \in Int
  BY Fields, Sizes, SMT DEF Microseconds

\* A delay is the difference of its two times in microseconds, taken modulo
\* 2^64.
LEMMA DelayIsDifference ==
    ASSUME NEW from \in TimeVal, NEW to \in TimeVal
    PROVE  delay(from, to)
             = (Microseconds(to) - Microseconds(from)) % UNSIGNED_LONG
<1>1. /\ from.sec \in Int /\ from.usec \in Int
      /\ to.sec \in Int /\ to.usec \in Int
  BY Fields
<1>2. (to.sec - from.sec) * MILLION + to.usec - from.usec
        = Microseconds(to) - Microseconds(from)
  BY <1>1, SMT DEF Microseconds, MILLION
<1>3. QED
  BY <1>2 DEF delay

\* On clocks with the same offset (the server's own processing time, or two
\* programs on one machine) the offset cancels: the delay of messageDeliver
\* and of the client's receiver is what the local clock counted.
THEOREM OffsetsCancel ==
    ASSUME NEW insert \in TimeVal, NEW exit \in TimeVal, NEW offset \in Offset,
           Microseconds(insert) =< Microseconds(exit),
           Microseconds(exit) - Microseconds(insert) < UNSIGNED_LONG
    PROVE  delay(getTime(insert, offset), getTime(exit, offset))
             = Microseconds(exit) - Microseconds(insert)
<1> DEFINE i == getTime(insert, offset)
           e == getTime(exit, offset)
<1>1. /\ i \in TimeVal /\ e \in TimeVal
      /\ Microseconds(i) = Microseconds(insert) + Microseconds(offset)
      /\ Microseconds(e) = Microseconds(exit) + Microseconds(offset)
  BY GetTimeIsShifted
<1>2. /\ Microseconds(insert) \in Int
      /\ Microseconds(exit) \in Int
  BY MicrosecondsType
<1>3. Microseconds(offset) \in Int
  BY Sizes, SMT DEF Microseconds, Offset
<1>4. delay(i, e) = (Microseconds(e) - Microseconds(i)) % UNSIGNED_LONG
  BY <1>1, DelayIsDifference
<1>5. Microseconds(e) - Microseconds(i)
        = Microseconds(exit) - Microseconds(insert)
  BY <1>1, <1>2, <1>3, SMT
<1>6. ASSUME NEW x \in Int, 0 =< x, x < UNSIGNED_LONG
      PROVE  x % UNSIGNED_LONG = x
  BY <1>6, SMT DEF UNSIGNED_LONG, TWO32, TWO31
<1>7. /\ Microseconds(exit) - Microseconds(insert) \in Int
      /\ 0 =< Microseconds(exit) - Microseconds(insert)
  BY <1>2, SMT
<1>8. QED
  BY <1>4, <1>5, <1>6, <1>7

\* A clock that is stepped back, so that the later reading is d microseconds
\* before the earlier one, makes the delay 2^64 - d.  No test of the server,
\* the client or the rig keeps such a value out of the averages.
THEOREM SteppedBackIsHuge ==
    ASSUME NEW from \in TimeVal, NEW to \in TimeVal,
           Microseconds(to) < Microseconds(from),
           Microseconds(from) - Microseconds(to) < UNSIGNED_LONG
    PROVE  delay(from, to)
             = UNSIGNED_LONG - (Microseconds(from) - Microseconds(to))
<1> DEFINE d == Microseconds(from) - Microseconds(to)
<1>1. Microseconds(to) \in Int /\ Microseconds(from) \in Int
  BY MicrosecondsType
<1>2. d \in Int /\ 0 < d /\ d < UNSIGNED_LONG
  BY <1>1, SMT
<1>3. Microseconds(to) - Microseconds(from) = 0 - d
  BY <1>1, SMT
<1> HIDE DEF d
<1>4. (0 - d) % UNSIGNED_LONG = UNSIGNED_LONG - d
  BY <1>2, SMT DEF UNSIGNED_LONG, TWO32, TWO31
<1>5. delay(from, to) = UNSIGNED_LONG - d
  BY <1>3, <1>4, DelayIsDifference
<1>6. QED
  BY <1>5 DEF d

\* Dividing by half as much gives twice as much, up to the rounding.
LEMMA HalfDivisor ==
    ASSUME NEW n \in Int
    PROVE  /\ n \div TWO32 \in Int
           /\ \/ n \div TWO31 = 2 * (n \div TWO32)
              \/ n \div TWO31 = 2 * (n \div TWO32) + 1
  BY SMT DEF TWO31, TWO32

\* Doubling: the fraction in microseconds is what a division by 2^32 would
\* give, twice over, up to the rounding.
LEMMA FractionDoubled ==
    ASSUME NEW frac \in 0 .. TWO32 - 1
    PROVE  /\ (frac * MILLION) \div TWO32 \in Int
           /\ FractionToMicroseconds(frac)
                \in {2 * ((frac * MILLION) \div TWO32),
                     2 * ((frac * MILLION) \div TWO32) + 1}
<1>1. frac * MILLION \in Int
  BY Sizes, SMT
<1>2. QED
  BY <1>1, HalfDivisor DEF FractionToMicroseconds

\* Right after runNTP the corrected clock is not the server's: it is ahead of
\* it by the fraction of the server's second, that is by anything from nothing
\* to a second, because ntp.h divides the fraction by 2^31 (ntp.h:194).
THEOREM NtpRunsAhead ==
    ASSUME NEW txTm \in NtpStamp, NEW tv \in TimeVal
    PROVE  LET real == (txTm.frac * MILLION) \div TWO32
               server == [sec  |-> txTm.sec - NTP_TIMESTAMP_DELTA, usec |-> real]
               corrected == getTime(tv, runNTP(txTm, tv))
           IN  Microseconds(corrected) - Microseconds(server)
                 \in {real, real + 1}
<1> DEFINE real == (txTm.frac * MILLION) \div TWO32
           f == FractionToMicroseconds(txTm.frac)
           s == txTm.sec - NTP_TIMESTAMP_DELTA
           server == [sec |-> s, usec |-> real]
           off == runNTP(txTm, tv)
<1>1. /\ txTm.sec \in Int /\ txTm.frac \in 0 .. TWO32 - 1
      /\ tv.sec \in Int /\ tv.usec \in Int
  BY Fields DEF NtpStamp
<1>2. /\ real \in Int
      /\ f = 2 * real \/ f = 2 * real + 1
  BY <1>1, FractionDoubled
<1>3. off = [sec |-> s - tv.sec, usec |-> f - tv.usec]
  BY DEF runNTP
<1>4. s \in Int
  BY <1>1, SMT DEF NTP_TIMESTAMP_DELTA
<1> HIDE DEF f, real, off, s
<1>5. f \in Int
  BY <1>2, SMT
<1>6. off \in Offset
  BY <1>1, <1>3, <1>4, <1>5, SMT DEF Offset
<1>7. Microseconds(getTime(tv, off)) = Microseconds(tv) + Microseconds(off)
  BY <1>6, GetTimeIsShifted
<1>8. Microseconds(tv) + Microseconds(off) = s * MILLION + f
  BY <1>1, <1>3, <1>4, <1>5, SMT DEF Microseconds, MILLION
<1>9. Microseconds(server) = s * MILLION + real
  BY DEF Microseconds
<1>10. (s * MILLION + f) - (s * MILLION + real) \in {real, real + 1}
  BY <1>2, <1>4, <1>5, SMT DEF MILLION
<1>11. Microseconds(getTime(tv, off)) - Microseconds(server) \in {real, real + 1}
  BY <1>7, <1>8, <1>9, <1>10
<1>12. QED
  BY <1>11 DEF off, real, s
=============================================================================
