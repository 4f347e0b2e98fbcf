------------------------------- MODULE Clock -------------------------------
(***************************************************************************)
(* The clock of include/ntp.h and the delays that server.c and client.c    *)
(* compute from it.  A struct timeval is a record of seconds and           *)
(* microseconds; `offset' stands for the globals secondOffset and          *)
(* usecondOffset, which runNTP sets.  A long is wide enough for every time *)
(* that occurs and is modelled by an integer; only the delay, an unsigned  *)
(* long, wraps around.                                                     *)
(***************************************************************************)
EXTENDS Integers

MILLION == 1000000
TWO31 == 2147483648                         \* (unsigned long)(1) << 31
TWO32 == 2 * TWO31
UNSIGNED_LONG == TWO32 * TWO32              \* 2^64
NTP_TIMESTAMP_DELTA == 2208988800           \* from 1900 to 1970, in seconds

\* What gettimeofday can give.
TimeVal == [sec : Int, usec : 0 .. MILLION - 1]

\* What secondOffset and usecondOffset can hold.
Offset == [sec : Int, usec : Int]

\* A time stamp as an NTP server sends it: seconds since 1900, and a fraction
\* in units of 2^-32 seconds.
NtpStamp == [sec : Nat, frac : 0 .. TWO32 - 1]

Microseconds(t) == t.sec * MILLION + t.usec

\* The two loops carry whole seconds out of the microseconds, in either
\* direction: what they add to the one they take from the other.
Normalise(t) == [sec  |-> t.sec + (t.usec \div MILLION),
                 usec |-> t.usec % MILLION]

getTime(timestamp, offset) ==
    Normalise([sec  |-> timestamp.sec + offset.sec,
               usec |-> timestamp.usec + offset.usec])

\* The difference of two signed times, assigned to an unsigned long.
delay(from, to) ==
    ((to.sec - from.sec) * MILLION + to.usec - from.usec) % UNSIGNED_LONG

\* The factor that turns the fraction into microseconds divides by 1 << 31,
\* where the unit is 2^-32 seconds.
FractionToMicroseconds(frac) == (frac * MILLION) \div TWO31

\* The offsets that runNTP leaves, from the server's stamp and the local time
\* tv read after it arrived.
runNTP(txTm, tv) ==
    [sec  |-> (txTm.sec - NTP_TIMESTAMP_DELTA) - tv.sec,
     usec |-> FractionToMicroseconds(txTm.frac) - tv.usec]
=============================================================================
