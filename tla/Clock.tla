-------------------------------- MODULE Clock --------------------------------
(***************************************************************************)
(* The clock of the device: TIME, advanced by the tick interrupt             *)
(* (system_time_increase), set by a master (OP_ModifyTime), read for time    *)
(* stamps (Now), kept over a power cut by the clock chip (set_rtc, get_rtc). *)
(* e2timewdg.c, eth_callee.c, base_task.c.                                   *)
(*                                                                         *)
(* The interrupt falls between any two accesses.  The build                  *)
(* (src/build/WGC_CMM.axf) copies the eight bytes of TIME as two words: year, *)
(* month, day and hour, then minute, second and msec; and set_rtc reads them  *)
(* once for the lower digit of a field and once more for the upper.  The link *)
(* tasks (priority 20) take turns by time slices; the task that calls set_rtc *)
(* (22) only runs while none of them does.                                   *)
(***************************************************************************)
EXTENDS Integers, Sequences

CONSTANTS
    Links,      \* tasks that serve a 104 link
    MSECS, SECONDS, MINUTES, HOURS,   \* 1000, 60, 60, 24
    MonthDays,  \* month_day_tab: month -> days, without the leap day
    YEARS,      \* 100
    BASE,       \* 10, of the digits of the clock chip
    BYTE,       \* 256, values of the parts of TIME
    Settings,   \* the times masters send, of the calendar or not
    Others,     \* times on a chip that was not given one time of the calendar last
    MAX_SLOW    \* bound on the ticks that fall into one pass of set_rtc

Months == 1..Len(MonthDays)

ASSUME ClockAssumption ==
    /\ MSECS \in Nat /\ MSECS > 1 /\ MSECS % 2 = 0 /\ SECONDS \in Nat \ {0} /\ MINUTES \in Nat \ {0}
    /\ HOURS \in Nat \ {0} /\ YEARS \in Nat \ {0} /\ MAX_SLOW \in Nat /\ BASE \in Nat \ {0}
    /\ MonthDays \in Seq(Nat \ {0}) /\ Len(MonthDays) > 1
    \* The calendar fits into bytes, with the leap day and one step beyond.
    /\ BYTE \in Nat /\ \A m \in Months : MonthDays[m] + 2 < BYTE
    /\ SECONDS + 1 < BYTE /\ MINUTES < BYTE /\ HOURS < BYTE /\ YEARS < BYTE
    /\ Len(MonthDays) + 1 < BYTE

\* Days of a month: every fourth year has a leap day (2000 has one).
DaysIn(year, month) ==
    IF year % 4 = 0 /\ month = 2 THEN MonthDays[month] + 1 ELSE MonthDays[month]

\* The two words of TIME, as the bytes may come: the masters' fields are masked,
\* never checked.
Bytes == 0..(BYTE - 1)
Highs == [year: Bytes, month: Bytes, day: Bytes, hour: Bytes]
Lows == [minute: Bytes, second: Bytes, msec: 0..(MSECS - 1)]
\* The dates and the times of the calendar.
IsDate(h) ==
    /\ h \in Highs /\ h.year < YEARS /\ h.month \in Months /\ h.hour < HOURS
    /\ 1 <= h.day /\ h.day <= DaysIn(h.year, h.month)
IsTime(t) ==
    /\ t \in [high: Highs, low: Lows]
    /\ IsDate(t.high) /\ t.low.minute < MINUTES /\ t.low.second < SECONDS
Times == {t \in [high: Highs, low: Lows] : IsTime(t)}

ASSUME SettingsAssumption ==
    /\ Settings \subseteq [high: Highs, low: Lows]
    /\ Others \subseteq [high: Highs, low: Lows] /\ \A t \in Others : t.low.msec = 0

VARIABLES
    TIME,            \* [high, low], the two words
    time_write_flg,  \* the clock chip has to be set
    rtc,             \* the clock chip, [is, ahead, at60]: "current", it runs with
                     \* TIME, ahead by so many milliseconds; "stale", with an
                     \* earlier time than the last setting; "mixed", with fields
                     \* of two; "slipped", with digits read before and after a
                     \* carry, or with a time that is none of the calendar;
                     \* it may still show the second 60 it was given
    setting,         \* link -> [at, to]: the point in OP_ModifyTime, the time
                     \* whose second word is still to be copied
    work,            \* set_rtc: [at, buf, slow, clean, torn]: the read that comes
                     \* next, what was read, the ticks since it began; ghosts:
                     \* no setting came between two reads; a tick changed what
                     \* was still to be read, or TIME is none of the calendar
    refused,         \* ghost: the last setting got no flag
    wild             \* ghost: the date last set, or read from the chip, is none
                     \* of the calendar

vars == <<TIME, time_write_flg, rtc, setting, work, refused, wild>>

NoTime == [high |-> [year |-> 0, month |-> 1, day |-> 1, hour |-> 0],
           low |-> [minute |-> 0, second |-> 0, msec |-> 0]]
IdleSet == [at |-> "idle", to |-> NoTime]
IdleWork == [at |-> 0, buf |-> <<>>, slow |-> 0, clean |-> TRUE, torn |-> FALSE]

\* The chip after get_rtc has filled TIME from it, without its milliseconds.
ReadOff(t) ==
    [is: {IF IsTime(t) THEN "current" ELSE "slipped"}, ahead: 0..(MSECS - 1), at60: {FALSE}]
Init ==
    /\ TIME \in Others /\ rtc \in ReadOff(TIME) /\ wild = ~IsDate(TIME.high)
    /\ time_write_flg = FALSE
    /\ setting = [l \in Links |-> IdleSet]
    /\ work = IdleWork
    /\ refused = FALSE

LinksIdle == \A l \in Links : setting[l].at = "idle"

-----------------------------------------------------------------------------
\* The time as a number of milliseconds since the beginning of the century.
DaysBefore[n \in Nat] ==   \* months since the beginning of the century
    IF n = 0 THEN 0
    ELSE DaysBefore[n - 1]
         + DaysIn((n - 1) \div Len(MonthDays), 1 + ((n - 1) % Len(MonthDays)))
CENTURY == DaysBefore[YEARS * Len(MonthDays)] * HOURS * MINUTES * SECONDS * MSECS
Stamp(t) ==
    ((((DaysBefore[t.high.year * Len(MonthDays) + t.high.month - 1] + t.high.day - 1)
        * HOURS + t.high.hour) * MINUTES + t.low.minute) * SECONDS + t.low.second)
        * MSECS + t.low.msec
\* The shorter way from n to m around the century.
Ahead(m, n) ==
    LET d == (m - n) % CENTURY IN IF 2 * d > CENTURY THEN d - CENTURY ELSE d

\* A century is longer than a pass of set_rtc and the seconds lost with it.
ASSUME PassAssumption ==
    /\ 2 * (MSECS + MSECS \div 2 + MAX_SLOW) < CENTURY
    /\ 4 * MSECS < CENTURY

Inc(byte) == (byte + 1) % BYTE
\* Fault: the leap day is forgotten.
LimitsShort(h) ==
    IF h.month \in Months THEN {MonthDays[h.month]} ELSE IF h.month = 0 THEN {0} ELSE Bytes
\* The last day of a month; month_day_tab has an entry 0 for month 0, and what
\* lies behind it for the months 13 to 15.
Limits(h) ==
    IF h.month \in Months THEN {DaysIn(h.year, h.month)} ELSE IF h.month = 0 THEN {0} ELSE Bytes
\* system_time_increase: hour and date, then minute, second and msec.
NextHigh(h, limit) ==
    LET day == Inc(h.hour) >= HOURS
        month == day /\ Inc(h.day) > limit
        year == month /\ Inc(h.month) > Len(MonthDays)
    IN  [hour  |-> IF day THEN 0 ELSE Inc(h.hour),
         day   |-> IF month THEN 1 ELSE IF day THEN Inc(h.day) ELSE h.day,
         month |-> IF year THEN 1 ELSE IF month THEN Inc(h.month) ELSE h.month,
         year  |-> IF ~year THEN h.year ELSE IF Inc(h.year) >= YEARS THEN 0 ELSE Inc(h.year)]
NewSecond(low) == low.msec + 1 >= MSECS
NewMinute(low) == NewSecond(low) /\ Inc(low.second) >= SECONDS
NewHour(low) == NewMinute(low) /\ Inc(low.minute) >= MINUTES
NextLow(low) ==
    [minute |-> IF NewHour(low) THEN 0
                ELSE IF NewMinute(low) THEN Inc(low.minute) ELSE low.minute,
     second |-> IF NewMinute(low) THEN 0
                ELSE IF NewSecond(low) THEN Inc(low.second) ELSE low.second,
     msec   |-> IF NewSecond(low) THEN 0 ELSE low.msec + 1]

\* Fault: day and month change places.
ReadsSwapped(t) ==
    LET half == t.low.msec \div (MSECS \div 2)
    IN  <<half, t.low.second, half, t.low.second, t.low.minute, t.low.minute,
          t.high.hour, t.high.hour, t.high.month, t.high.month,
          t.high.day, t.high.day, t.high.year, t.high.year>>
\* What set_rtc reads of t, in the order of the build: the lower digit of the
\* rounded seconds takes half and second, the upper both again, and so on.
Reads(t) ==
    LET half == t.low.msec \div (MSECS \div 2)
    IN  <<half, t.low.second, half, t.low.second, t.low.minute, t.low.minute,
          t.high.hour, t.high.hour, t.high.day, t.high.day,
          t.high.month, t.high.month, t.high.year, t.high.year>>
READS == 14

\* Where a chip is that is ahead of t by so many milliseconds.
ChipAt(t, ahead) == (Stamp(t) + ahead) % CENTURY
\* A second 60 that came from the chip makes the minute of TIME too long.
Lost(low) == IF NewMinute(low) THEN MSECS * (low.second + 1 - SECONDS) ELSE 0

\* A tick makes t of TIME, between the steps of set_rtc and of the copies.
TickTo(t) ==
    /\ TIME' = t
    /\ LET torn == work.torn \/ (work.at > 1 /\ \E k \in work.at..READS : Reads(t)[k] # Reads(TIME)[k])
       IN  work' = IF work.at = 0 THEN work
                   ELSE [at |-> work.at, buf |-> IF torn THEN <<>> ELSE work.buf,
                         slow |-> work.slow + 1, clean |-> work.clean, torn |-> torn]
    /\ LET ahead == rtc.ahead + Lost(TIME.low)
       IN  rtc' = IF rtc.is # "current" THEN rtc
                  ELSE [is |-> "current", ahead |-> ahead,
                        at60 |-> rtc.at60 /\ ChipAt(t, ahead) % MSECS # 0]
    /\ UNCHANGED <<time_write_flg, setting, refused, wild>>

\* Fault: a month is one day too long.
TickLong ==
    /\ work.at > 0 => work.slow < MAX_SLOW
    /\ \E limit \in Limits(TIME.high) :
           TickTo([high |-> IF NewHour(TIME.low) THEN NextHigh(TIME.high, limit + 1) ELSE TIME.high,
                   low |-> NextLow(TIME.low)])
Tick ==
    /\ work.at > 0 => work.slow < MAX_SLOW
    /\ \E limit \in Limits(TIME.high) :
           TickTo([high |-> IF NewHour(TIME.low) THEN NextHigh(TIME.high, limit) ELSE TIME.high,
                   low |-> NextLow(TIME.low)])

-----------------------------------------------------------------------------
\* A pass of set_rtc under way has part of its fields from before.
Disturbed == [at |-> work.at, buf |-> <<>>, slow |-> work.slow,
              clean |-> FALSE, torn |-> work.torn]

\* OP_ModifyTime: TIME = *tTime, the first word, the second.
SetHigh(l, t) ==
    /\ setting[l].at = "idle"
    /\ TIME' = [high |-> t.high, low |-> TIME.low]
    /\ setting' = [setting EXCEPT ![l] = [at |-> "low", to |-> t]]
    /\ work' = IF work.at > 1 THEN Disturbed ELSE work
    /\ rtc' = IF rtc.is = "mixed" THEN rtc
              ELSE [is |-> "stale", ahead |-> 0, at60 |-> FALSE]
    /\ wild' = ~IsDate(t.high)
    /\ UNCHANGED <<time_write_flg, refused>>

SetLow(l) ==
    /\ setting[l].at = "low"
    /\ TIME' = [high |-> TIME.high, low |-> setting[l].to.low]
    /\ setting' = [setting EXCEPT ![l] = [at |-> "flag", to |-> NoTime]]
    /\ UNCHANGED <<time_write_flg, rtc, work, refused, wild>>

\* An address that is unknown or off line ends it before the flag is set; the
\* master is told that all is well.
SetFlag(l) ==
    /\ setting[l].at = "flag"
    /\ \E known \in BOOLEAN :
           /\ time_write_flg' = (time_write_flg \/ known)
           /\ refused' = ~known
    /\ setting' = [setting EXCEPT ![l] = IdleSet]
    /\ UNCHANGED <<TIME, rtc, work, wild>>

\* set_rtc, called twice a second.
Begin ==
    /\ work.at = 0 /\ time_write_flg /\ LinksIdle
    /\ time_write_flg' = FALSE
    /\ work' = [at |-> 1, buf |-> <<>>, slow |-> 0, clean |-> TRUE, torn |-> FALSE]
    /\ UNCHANGED <<TIME, rtc, setting, refused, wild>>
ReadAs(torn) ==
    work' = [at |-> work.at + 1,
             buf |-> IF work.clean /\ ~torn THEN Append(work.buf, Reads(TIME)[work.at]) ELSE <<>>,
             slow |-> work.slow, clean |-> work.clean, torn |-> torn]
\* Fault: the index stays where the weekday has its place.
ReadFieldStuck ==
    /\ work.at \in 1..READS /\ work.at # 9 /\ LinksIdle
    /\ ReadAs(work.torn \/ (work.at = 1 /\ ~IsTime(TIME)))
    /\ UNCHANGED <<TIME, time_write_flg, rtc, setting, refused, wild>>
ReadField ==
    /\ work.at \in 1..READS /\ LinksIdle
    /\ ReadAs(work.torn \/ (work.at = 1 /\ ~IsTime(TIME)))
    /\ UNCHANGED <<TIME, time_write_flg, rtc, setting, refused, wild>>

\* The time the digits make, in whole seconds; set_rtc and get_rtc mask none of
\* the digits of a time of the calendar.
Written(b) ==
    LET Both(unit, ten) == BASE * (ten \div BASE) + (unit % BASE)
    IN  [high |-> [year |-> Both(b[13], b[14]), month |-> Both(b[11], b[12]),
                   day |-> Both(b[9], b[10]), hour |-> Both(b[7], b[8])],
         low |-> [minute |-> Both(b[5], b[6]),
                  second |-> Both(b[1] + b[2], b[3] + b[4]), msec |-> 0]]
Rewritten ==
    IF work.clean /\ ~work.torn
    THEN LET w == Written(work.buf)
         IN  [is |-> "current", ahead |-> Ahead(Stamp(w), Stamp(TIME)),
              at60 |-> w.low.second = SECONDS]
    ELSE [is |-> IF work.clean THEN "slipped" ELSE "mixed", ahead |-> 0, at60 |-> FALSE]
\* Fault: the flag is cleared when the chip has been written.
WriteChipClears ==
    /\ work.at = READS + 1 /\ LinksIdle
    /\ rtc' = Rewritten
    /\ time_write_flg' = FALSE
    /\ work' = IdleWork
    /\ UNCHANGED <<TIME, setting, refused, wild>>
WriteChip ==
    /\ work.at = READS + 1 /\ LinksIdle
    /\ rtc' = Rewritten
    /\ work' = IdleWork
    /\ UNCHANGED <<TIME, time_write_flg, setting, refused, wild>>
SetRtc == Begin \/ ReadField \/ WriteChip

\* A power cut; run_init lets get_rtc read the chip before any thread runs.  A
\* chip that was given second 60 may show it until that second is over.
TimeAt == [n \in 0..(CENTURY - 1) |-> CHOOSE t \in Times : Stamp(t) = n]
Chip == ChipAt(TIME, rtc.ahead)
Whole == Chip - (Chip % MSECS)
Shown ==
    LET u == TimeAt[(Whole - MSECS) % CENTURY] IN
        {TimeAt[Whole]}
        \cup (IF rtc.at60 /\ u.low.second = SECONDS - 1 /\ u.low.msec = 0
              THEN {[high |-> u.high,
                     low |-> [minute |-> u.low.minute, second |-> SECONDS, msec |-> 0]]}
              ELSE {})
Restart ==
    /\ \/ /\ rtc.is = "current" /\ TIME' \in Shown
          /\ rtc' = [is |-> "current", ahead |-> Chip % MSECS, at60 |-> rtc.at60]
       \/ /\ rtc.is # "current" /\ TIME' \in Others
          /\ rtc' \in ReadOff(TIME')
    /\ wild' = ~IsDate(TIME'.high)
    /\ time_write_flg' = FALSE
    /\ setting' = [l \in Links |-> IdleSet] /\ work' = IdleWork
    /\ refused' = FALSE

Modify(l) == (\E t \in Settings : SetHigh(l, t)) \/ SetLow(l) \/ SetFlag(l)
Next == Tick \/ SetRtc \/ Restart \/ (\E l \in Links : Modify(l))
\* The main loop runs whenever the link tasks wait for their masters.
Spec == Init /\ [][Next]_vars /\ WF_vars(SetRtc)

-----------------------------------------------------------------------------
\* The types: the parts of TIME are any bytes.
TypeOK ==
    /\ TIME \in [high: Highs, low: Lows]
    /\ time_write_flg \in BOOLEAN /\ refused \in BOOLEAN /\ wild \in BOOLEAN
    /\ rtc.is \in {"current", "stale", "mixed", "slipped"}
    /\ setting \in [Links -> [at: {"idle", "low", "flag"}, to: Settings \cup {NoTime}]]
    /\ \A l \in Links : setting[l].at = "low" => setting[l].to \in Settings
    /\ work.at \in 0..(READS + 1) /\ work.slow \in 0..MAX_SLOW
    /\ work.clean \in BOOLEAN /\ work.torn \in BOOLEAN

\* The device never makes a date that is none of the calendar of one that is: not
\* by a tick, nor by a tick or a setting of another link between the two words of
\* a setting, nor by what it writes to the chip and reads back.  A master or a
\* chip may give one: nothing checks it.
TimeValid == TypeOK /\ (~wild => IsDate(TIME.high))

\* A tick moves the time on by one millisecond, over the ends of months with
\* and without a leap day and over the end of the century.
TickAdds == [][IsTime(TIME) /\ Tick => Stamp(TIME') = (Stamp(TIME) + 1) % CENTURY]_vars

\* The chip never keeps an old time, or a mixture of two, without a pass of
\* set_rtc under way or to come: a setting that arrives while the fields of the
\* one before are read has the chip written once more.  A setting whose device
\* address is unknown is left out: the chip is not told of it.
RtcFollows ==
    ~refused /\ rtc.is \in {"stale", "mixed"}
    => time_write_flg \/ ~LinksIdle \/ (work.at > 0 /\ work.clean)

\* Only a setting disturbs a pass, and it leaves the chip behind the time.
RtcInv ==
    /\ RtcFollows
    /\ work.at > 0 /\ ~work.clean => rtc.is \in {"stale", "mixed"}

\* When the masters stop setting the time, the chip gets the last one for good.
RtcWritten ==
    <>[]LinksIdle => <>[](~refused => rtc.is \in {"current", "slipped"})

\* A power cut with the chip up to date moves the time by less than two
\* seconds and the length of a pass: half a second for the rounding of the
\* seconds, a second for the milliseconds the chip does not give, a second more
\* when the chip has shown second 60.  A chip that was given digits from before
\* and after a carry is not up to date: any digit of it may be wrong.
RestartKeeps ==
    [][rtc.is = "current" /\ Restart =>
       LET d == Ahead(Stamp(TIME'), Stamp(TIME)) IN
           -(MSECS + MSECS \div 2 + MAX_SLOW) <= d /\ d < 2 * MSECS]_vars

\* Behind RestartKeeps: what a pass has read, when nothing disturbed it, is of one
\* time t not longer ago than the pass, and what it will read is still the same.
ReadFrom(t) ==
    /\ \A k \in 1..READS : IF k < work.at THEN work.buf[k] = Reads(t)[k]
                           ELSE Reads(TIME)[k] = Reads(t)[k]
    /\ \E n \in 0..work.slow : Stamp(TIME) = (Stamp(t) + n) % CENTURY
PassInv ==
    /\ work.at = 1 => work.clean /\ ~work.torn /\ work.buf = <<>>
    /\ work.at > 1 /\ work.clean => LinksIdle
    /\ work.at > 1 /\ work.clean /\ ~work.torn =>
           /\ work.buf \in Seq(Nat) /\ Len(work.buf) = work.at - 1
           /\ IsTime(TIME) /\ \E t \in Times : ReadFrom(t)

\* A chip that runs with TIME is ahead by less than a second: the seconds were
\* rounded, and ticks came while they were read; or it gave no milliseconds.  The
\* minute that had a second 60 costs one second more.
AheadInv ==
    rtc.is = "current" =>
        /\ LinksIdle /\ IsDate(TIME.high) /\ TIME.low.minute < MINUTES
        /\ \/ /\ TIME.low.second < SECONDS
              /\ rtc.ahead \in -(MSECS \div 2 + MAX_SLOW)..(2 * MSECS - 1)
           \/ TIME.low.second = SECONDS /\ rtc.ahead \in 0..(MSECS - 1)

RestartInv == PassInv /\ AheadInv
=============================================================================
