----------------------------- MODULE Temporals -----------------------------
(***************************************************************************)
(* Dates, times, timestamps and durations: the validators of validate/dfa, *)
(* the decoders of decode and the encoder's formatters (append...).        *)
(***************************************************************************)
EXTENDS Scalars

CONSTANT NanoDigits    \* 9, the fraction digits that are kept

ASSUME NanoAssumption == NanoDigits \in Nat \ {0}

\* In seconds.
Minute == 60
Hour == 60 * Minute

\* The number of two digits, or -1.
TwoDigits(t, i) == IF {At(t, i), At(t, i + 1)} \subseteq Digit
                   THEN 10 * DigitValue[t[i]] + DigitValue[t[i + 1]] ELSE -1

validMonth(t, i) == TwoDigits(t, i) \in 1..12
validDay(t, i) == TwoDigits(t, i) \in 1..31
\* Mutant: off by one.
HourTo24(t, i) == TwoDigits(t, i) \in 0..24
validHour(t, i) == TwoDigits(t, i) \in 0..23
validMinSec(t, i) == TwoDigits(t, i) \in 0..59
isDateSep == {"-", "/"}
isDateTimeSep == {"T", "sp"}
isTZSign == {"+", "-"}

daysInMonth == <<31, 28, 31, 30, 31, 30, 31, 31, 30, 31, 30, 31>>
\* Mutant: the centuries forgotten.
MaxDayJulian(year, month) == IF month = 2 /\ year % 4 = 0 THEN 29 ELSE daysInMonth[month]
MaxDay(year, month) ==
  IF month = 2 /\ year % 4 = 0 /\ (year % 100 # 0 \/ year % 400 = 0) THEN 29
  ELSE daysInMonth[month]

\* The fraction read as nanoseconds: digits past the kept ones are dropped, missing ones are 0.
Nanos(digits) ==
  IF Len(digits) >= NanoDigits THEN Number(SubSeq(digits, 1, NanoDigits))
  ELSE Number(digits) * TenTo[NanoDigits - Len(digits)]

-----------------------------------------------------------------------------
(***************************************************************************)
(* Validators.                                                             *)
(***************************************************************************)
\* The ten characters of a date at the start of t.
DateAtStart(t) ==
  /\ At(t, 5) \in isDateSep /\ At(t, 8) = t[5]
  /\ AllIn(SubSeq(t, 1, 4), Digit)
  /\ validMonth(t, 6) /\ validDay(t, 9)
  /\ TwoDigits(t, 9) <= MaxDay(Number(SubSeq(t, 1, 4)), TwoDigits(t, 6))

\* HH:MM:SS in the eight characters from i on.
ClockAt(t, i) ==
  /\ At(t, i + 2) = ":" /\ At(t, i + 5) = ":"
  /\ validHour(t, i) /\ validMinSec(t, i + 3) /\ validMinSec(t, i + 6)

ValidateDate(t) == Len(t) = 10 /\ DateAtStart(t)

\* Mutant: a fraction without digits.
ValidateTimeOpenEnded(t) ==
  /\ Len(t) \in 8..(9 + NanoDigits)
  /\ ClockAt(t, 1)
  /\ Len(t) > 8 => t[9] = "." /\ AllIn(From(t, 10), Digit)
ValidateTime(t) ==
  /\ Len(t) \in 8..(9 + NanoDigits)
  /\ ClockAt(t, 1)
  /\ Len(t) > 8 => t[9] = "." /\ Len(t) > 9 /\ AllIn(From(t, 10), Digit)

\* What follows the seconds: "none", "Z", "offset" or "bad".
Zone(z) ==
  CASE z = <<>> -> "none"
    [] z = <<"Z">> -> "Z"
    [] /\ Len(z) = 6 /\ z[1] \in isTZSign
       /\ validHour(z, 2) /\ z[4] = ":" /\ validMinSec(z, 5) -> "offset"
    [] OTHER -> "bad"

\* The three validators differ in their lengths and in the zones they take.
DateTimeText(t, shortest, longest, zones) ==
  /\ Len(t) \in shortest..longest
  /\ DateAtStart(t)
  /\ t[11] \in isDateTimeSep
  /\ ClockAt(t, 12)
  /\ LET end == IF At(t, 20) = "." THEN AfterDigits(t, 21) ELSE 20
     IN /\ At(t, 20) = "." => end > 21
        /\ Zone(From(t, end)) \in zones

ValidateTimestamp(t) == DateTimeText(t, 19, 26 + NanoDigits, {"none", "Z", "offset"})
ValidateDatetime(t) == DateTimeText(t, 19, 20 + NanoDigits, {"none"})
\* Mutant: Z forgotten.
ValidateDatetimeOffset(t) == DateTimeText(t, 20, 26 + NanoDigits, {"offset"})
ValidateDatetimeTZ(t) == DateTimeText(t, 20, 26 + NanoDigits, {"Z", "offset"})

\* P[nD][T...]: units H and M in any order and as often as one likes, S last, with at most
\* NanoDigits fraction digits. Digits that no D follows are skipped.
ValidateDuration(t) ==
  LET TimePart[i \in 1..(Len(t) + 1)] ==
        LET j == AfterDigits(t, i)
            k == AfterDigits(t, j + 1)
        IN /\ j > i
           /\ \/ At(t, j) \in {"H", "M"} /\ (j = Len(t) \/ TimePart[j + 1])
              \/ At(t, j) = "S" /\ j = Len(t)
              \/ /\ At(t, j) = "." /\ k - (j + 1) \in 1..NanoDigits
                 /\ At(t, k) = "S" /\ k = Len(t)
      days == AfterDigits(t, 2)
      hasDays == days > 2 /\ At(t, days) = "D"
      i == IF hasDays THEN days + 1 ELSE days
  IN /\ Len(t) >= 2 /\ t[1] = "P"
     /\ \/ hasDays /\ i > Len(t)
        \/ At(t, i) = "T" /\ i < Len(t) /\ TimePart[i + 1]

-----------------------------------------------------------------------------
(***************************************************************************)
(* Decoders.                                                               *)
(***************************************************************************)
DateOf(t) == [year |-> Number(SubSeq(t, 1, 4)), month |-> TwoDigits(t, 6), day |-> TwoDigits(t, 9)]
ClockOf(t, i, nanos) == [hour |-> TwoDigits(t, i), minute |-> TwoDigits(t, i + 3),
                         second |-> TwoDigits(t, i + 6), nanos |-> nanos]

decodeDate(t) ==
  IF \/ Len(t) # 10
     \/ t[5] \notin isDateSep \/ t[8] # t[5]
     \/ \E i \in 1..4 : t[i] \notin Digit
     \/ ~validMonth(t, 6) \/ ~validDay(t, 9)
     \/ DateOf(t).day > MaxDay(DateOf(t).year, DateOf(t).month)
  THEN Rejected
  ELSE Decoded(DateOf(t))

decodeTime(t) ==
  IF \/ Len(t) < 8 \/ Len(t) > 9 + NanoDigits
     \/ t[3] # ":" \/ t[6] # ":"
     \/ ~validHour(t, 1) \/ ~validMinSec(t, 4) \/ ~validMinSec(t, 7)
     \/ Len(t) > 8 /\ t[9] # "."
     \/ Len(t) = 9
     \/ \E i \in 10..Len(t) : t[i] \notin Digit
  THEN Rejected
  ELSE Decoded(ClockOf(t, 1, Nanos(From(t, 10))))

\* Seconds east of UTC; Z is 0.
OffsetOf(z) == IF z[1] = "Z" THEN 0
               ELSE (IF z[1] = "-" THEN -1 ELSE 1) * (TwoDigits(z, 2) * Hour + TwoDigits(z, 5) * Minute)

\* The three decoders differ as the validators do. A text without a zone and one in UTC
\* decode alike: the offset is 0.
decodeDateTime(t, shortest, longest, zoneRequired, zoneAllowed) ==
  LET BadOffset(zone) == \/ zone[1] \notin isTZSign \/ Len(zone) # 6
                         \/ ~validHour(zone, 2) \/ zone[4] # ":" \/ ~validMinSec(zone, 5)
      BadZone(zone) == IF zone = <<>> THEN zoneRequired
                       ELSE ~zoneAllowed \/ IF zone[1] = "Z" THEN Len(zone) > 1 ELSE BadOffset(zone)
      Value(fraction, zone) ==
        IF \/ Len(t) \notin shortest..longest
           \/ ~decodeDate(SubSeq(t, 1, 10)).ok
           \/ t[11] \notin isDateTimeSep
           \/ t[14] # ":" \/ t[17] # ":"
           \/ ~validHour(t, 12) \/ ~validMinSec(t, 15) \/ ~validMinSec(t, 18)
           \/ At(t, 20) = "." /\ fraction = 20
           \/ BadZone(zone)
        THEN Rejected
        ELSE Decoded([date |-> DateOf(t), clock |-> ClockOf(t, 12, Nanos(SubSeq(t, 21, fraction))),
                      offset |-> IF zone = <<>> THEN 0 ELSE OffsetOf(zone)])
      Zoned(fraction) == Value(fraction, From(t, fraction + 1))
  IN Zoned(IF At(t, 20) = "." THEN AfterDigits(t, 21) - 1 ELSE 19)

decodeTimestamp(t) == decodeDateTime(t, 19, 26 + NanoDigits, FALSE, TRUE)
decodeDatetime(t) == decodeDateTime(t, 19, 20 + NanoDigits, FALSE, FALSE)
decodeDatetimeTZ(t) == decodeDateTime(t, 20, 26 + NanoDigits, TRUE, TRUE)

\* An int is as wide as an int64 and wraps around: the digits of a duration are not counted.
Wrapped(n) == ((n + MaxInt + 1) % (2 * (MaxInt + 1))) - (MaxInt + 1)

Durations == [days : Int, hours : Int, minutes : Int, seconds : Int, nanos : Int]
NoDuration == [days |-> 0, hours |-> 0, minutes |-> 0, seconds |-> 0, nanos |-> 0]

\* A unit written twice keeps its last number; the fraction may have any length.
decodeDuration(t) ==
  LET TimePart[i \in 1..(Len(t) + 1)] ==
        LET j == AfterDigits(t, i)
            k == AfterDigits(t, j + 1)
            val == Wrapped(Number(SubSeq(t, i, j - 1)))
            Then(e) == IF j = Len(t) THEN Decoded(e) ELSE TimePart[j + 1][e]
        IN [d \in Durations |->
              IF j = i \/ j > Len(t) THEN Rejected
              ELSE IF t[j] = "H" THEN Then([d EXCEPT !.hours = val])
              ELSE IF t[j] = "M" THEN Then([d EXCEPT !.minutes = val])
              ELSE IF t[j] = "S" /\ j = Len(t) THEN Decoded([d EXCEPT !.seconds = val])
              ELSE IF t[j] = "." /\ k > j + 1 /\ k = Len(t) /\ t[k] = "S"
              THEN Decoded([d EXCEPT !.seconds = val, !.nanos = Nanos(SubSeq(t, j + 1, k - 1))])
              ELSE Rejected]
      days == AfterDigits(t, 2)
      hasDays == days > 2 /\ At(t, days) = "D"
      start == [NoDuration EXCEPT !.days = IF hasDays THEN Wrapped(Number(SubSeq(t, 2, days - 1))) ELSE 0]
      i == IF hasDays THEN days + 1 ELSE days
  IN IF Len(t) < 2 \/ t[1] # "P" THEN Rejected
     ELSE IF hasDays /\ i > Len(t) THEN Decoded(start)
     ELSE IF At(t, i) = "T" /\ i < Len(t) THEN TimePart[i + 1][start]
     ELSE Rejected

-----------------------------------------------------------------------------
(***************************************************************************)
(* The encoder's formatters.                                               *)
(***************************************************************************)
\* The last width digits of v.
appendPaddedInt(v, width) == [i \in 1..width |-> Digits[((v \div TenTo[width - i]) % 10) + 1]]

\* "." and the nanoseconds without the zeros at their end (one digit at least).
appendFractionalSeconds(nanos) ==
  LET digits == appendPaddedInt(nanos, NanoDigits)
      last == CHOOSE i \in 1..NanoDigits : /\ i = 1 \/ digits[i] # "0"
                                           /\ \A j \in (i + 1)..NanoDigits : digits[j] = "0"
  IN <<".">> \o SubSeq(digits, 1, last)

\* Mutant: the sign taken from the hours.
TZOffsetSignedByHours(seconds) ==
  LET size == IF seconds < 0 THEN -seconds ELSE seconds
  IN IF seconds = 0 THEN <<"Z">>
     ELSE <<IF seconds <= -Hour THEN "-" ELSE "+">> \o appendPaddedInt(size \div Hour, 2)
            \o <<":">> \o appendPaddedInt((size % Hour) \div Minute, 2)

appendTZOffset(seconds) ==
  LET size == IF seconds < 0 THEN -seconds ELSE seconds
  IN IF seconds = 0 THEN <<"Z">>
     ELSE <<IF seconds < 0 THEN "-" ELSE "+">> \o appendPaddedInt(size \div Hour, 2)
            \o <<":">> \o appendPaddedInt((size % Hour) \div Minute, 2)

appendDate(d) == appendPaddedInt(d.year, 4) \o <<"-">> \o appendPaddedInt(d.month, 2)
                   \o <<"-">> \o appendPaddedInt(d.day, 2)
appendTime(c) == appendPaddedInt(c.hour, 2) \o <<":">> \o appendPaddedInt(c.minute, 2)
                   \o <<":">> \o appendPaddedInt(c.second, 2)
                   \o (IF c.nanos > 0 THEN appendFractionalSeconds(c.nanos) ELSE <<>>)
appendDatetimeVal(v) == appendDate(v.date) \o <<"T">> \o appendTime(v.clock)
appendTimestamp(v) == appendDatetimeVal(v) \o (IF v.offset # 0 THEN appendTZOffset(v.offset) ELSE <<>>)
appendDatetimeTZ(v) == appendDatetimeVal(v) \o appendTZOffset(v.offset)

\* Only numbers above 0 are written, so a duration of zero is the text "P".
appendDuration(d) ==
  LET Unit(n, name) == IF n > 0 THEN AppendInt(n) \o <<name>> ELSE <<>>
      seconds == IF d.nanos > 0 THEN AppendInt(d.seconds) \o appendFractionalSeconds(d.nanos) \o <<"S">>
                 ELSE Unit(d.seconds, "S")
      clock == Unit(d.hours, "H") \o Unit(d.minutes, "M") \o seconds
  IN <<"P">> \o Unit(d.days, "D") \o (IF clock = <<>> THEN <<>> ELSE <<"T">> \o clock)

-----------------------------------------------------------------------------
(***************************************************************************)
(* The String methods of the values (headerdef/value_conversions.go).      *)
(***************************************************************************)
\* Mutant: the zeros in front forgotten.
FractionUnpadded(nanos) == IF nanos = 0 THEN <<>> ELSE <<".">> \o AppendInt(nanos)
formatFrac(nanos) ==
  IF nanos = 0 THEN <<>>
  ELSE LET digits == appendPaddedInt(nanos, NanoDigits)
           kept == CHOOSE k \in 1..NanoDigits : digits[k] # "0" /\ AllIn(From(digits, k + 1), {"0"})
       IN <<".">> \o SubSeq(digits, 1, kept)

formatOffset(seconds) ==
  LET off == IF seconds < 0 THEN -seconds ELSE seconds
  IN IF seconds = 0 THEN <<"Z">>
     ELSE (IF seconds < 0 THEN <<"-">> ELSE <<"+">>)
            \o appendPaddedInt(off \div Hour, 2) \o <<":">> \o appendPaddedInt((off % Hour) \div Minute, 2)

DateString(d) == appendPaddedInt(d.year, 4) \o <<"-">> \o appendPaddedInt(d.month, 2)
                   \o <<"-">> \o appendPaddedInt(d.day, 2)
TimeString(c) == appendPaddedInt(c.hour, 2) \o <<":">> \o appendPaddedInt(c.minute, 2)
                   \o <<":">> \o appendPaddedInt(c.second, 2) \o formatFrac(c.nanos)
DatetimeString(v) == DateString(v.date) \o <<"T">> \o TimeString(v.clock)
TimestampString(v) == DatetimeString(v) \o formatOffset(v.offset)

\* Unlike the encoder's text of a duration, zero is PT0S.
DurationString(d) ==
  LET Part(n, unit) == IF n > 0 THEN AppendInt(n) \o <<unit>> ELSE <<>>
      seconds == IF d.seconds > 0 \/ d.nanos > 0
                 THEN AppendInt(d.seconds) \o formatFrac(d.nanos) \o <<"S">> ELSE <<>>
      time == Part(d.hours, "H") \o Part(d.minutes, "M") \o seconds
  IN IF d = NoDuration THEN <<"P", "T", "0", "S">>
     ELSE <<"P">> \o Part(d.days, "D") \o (IF time = <<>> THEN <<>> ELSE <<"T">>) \o time
=============================================================================
