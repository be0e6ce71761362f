--------------------------- MODULE Clock_proofs ---------------------------
(***************************************************************************)
(* Proofs about Clock: types, dates of the calendar, the clock chip that      *)
(* follows the settings, the arithmetic of a tick and what a restart keeps of *)
(* the time.  The calendar is any sequence of lengths of months that fits     *)
(* into bytes; settings are any bytes.                                       *)
(*                                                                          *)
(* A time is a number of milliseconds, Stamp, written in mixed radix.  That   *)
(* the days before a month add up (DaysBefore is recursive) is proved by the  *)
(* least month for which they do not.                                        *)
(***************************************************************************)
EXTENDS Clock, TLAPS, WellFoundedInduction

LEMMA Sizes ==
    /\ MSECS \in Nat /\ MSECS > 1
    /\ SECONDS \in Nat \ {0} /\ MINUTES \in Nat \ {0} /\ HOURS \in Nat \ {0}
    /\ YEARS \in Nat \ {0} /\ MAX_SLOW \in Nat /\ BASE \in Nat \ {0}
    /\ Len(MonthDays) \in Nat /\ Len(MonthDays) > 1
    /\ BYTE \in Nat /\ SECONDS + 1 < BYTE /\ MINUTES < BYTE /\ HOURS < BYTE
    /\ YEARS < BYTE /\ Len(MonthDays) + 1 < BYTE
BY ClockAssumption

LEMMA DaysInType ==
    ASSUME NEW y \in Nat, NEW m \in Months
    PROVE  DaysIn(y, m) \in Nat /\ DaysIn(y, m) >= 1 /\ DaysIn(y, m) + 1 < BYTE
<1>1. MonthDays[m] \in Nat /\ MonthDays[m] >= 1 /\ MonthDays[m] + 2 < BYTE /\ BYTE \in Nat
    BY ClockAssumption DEF Months
<1>2. DaysIn(y, m) = MonthDays[m] \/ DaysIn(y, m) = MonthDays[m] + 1 BY DEF DaysIn
<1> QED BY <1>1, <1>2

LEMMA IncByte ==
    /\ \A n \in Bytes : Inc(n) \in Bytes
    /\ \A n \in Nat : n + 1 < BYTE => Inc(n) = n + 1
<1>1. BYTE \in Nat \ {0} BY Sizes
<1>2. \A n \in Int : n % BYTE \in 0..(BYTE - 1) BY <1>1
<1>3. \A n \in Nat : n < BYTE => (n % BYTE) = n BY <1>1
<1> QED BY <1>1, <1>2, <1>3 DEF Inc, Bytes

LEMMA SmallBytes ==
    /\ 0 \in Bytes /\ 1 \in Bytes /\ SECONDS \in Bytes /\ Bytes \subseteq Nat
    /\ \A n \in 0..(SECONDS - 1) : n \in Bytes
    /\ \A n \in 0..(MINUTES - 1) : n \in Bytes
    /\ \A n \in 0..(HOURS - 1) : n \in Bytes
    /\ \A n \in 0..(YEARS - 1) : n \in Bytes
    /\ \A n \in Months : n \in Bytes
BY Sizes DEF Bytes, Months

\* The carry keeps bytes bytes.
LEMMA NextHighType ==
    ASSUME NEW h \in Highs, NEW limit
    PROVE  NextHigh(h, limit) \in Highs
<1>1. /\ h.year \in Bytes /\ h.month \in Bytes /\ h.day \in Bytes /\ h.hour \in Bytes
    BY DEF Highs
<1> DEFINE day == Inc(h.hour) >= HOURS
           month == day /\ Inc(h.day) > limit
           year == month /\ Inc(h.month) > Len(MonthDays)
<1>2. NextHigh(h, limit) =
        [hour  |-> IF day THEN 0 ELSE Inc(h.hour),
         day   |-> IF month THEN 1 ELSE IF day THEN Inc(h.day) ELSE h.day,
         month |-> IF year THEN 1 ELSE IF month THEN Inc(h.month) ELSE h.month,
         year  |-> IF ~year THEN h.year ELSE IF Inc(h.year) >= YEARS THEN 0 ELSE Inc(h.year)]
    BY DEF NextHigh
<1>3. /\ (IF day THEN 0 ELSE Inc(h.hour)) \in Bytes
      /\ (IF month THEN 1 ELSE IF day THEN Inc(h.day) ELSE h.day) \in Bytes
      /\ (IF year THEN 1 ELSE IF month THEN Inc(h.month) ELSE h.month) \in Bytes
      /\ (IF ~year THEN h.year ELSE IF Inc(h.year) >= YEARS THEN 0 ELSE Inc(h.year)) \in Bytes
    <2> HIDE DEF day, month, year
    <2> QED BY <1>1, IncByte, SmallBytes
<1> HIDE DEF day, month, year
<1> QED BY <1>2, <1>3 DEF Highs

LEMMA NextLowType ==
    ASSUME NEW low \in Lows
    PROVE  NextLow(low) \in Lows
<1>1. /\ low.minute \in Bytes /\ low.second \in Bytes
      /\ low.msec \in 0..(MSECS - 1)
    BY DEF Lows
<1>2. ~NewSecond(low) => low.msec + 1 \in 0..(MSECS - 1)
    BY <1>1, Sizes DEF NewSecond
<1>3. Inc(low.second) \in Bytes /\ Inc(low.minute) \in Bytes BY <1>1, IncByte
<1>4. 0 \in Bytes /\ 0 \in 0..(MSECS - 1) BY Sizes, SmallBytes
<1> QED BY <1>1, <1>2, <1>3, <1>4 DEF NextLow, Lows

\* The parts of a date of the calendar.
LEMMA DateParts ==
    ASSUME NEW h, IsDate(h)
    PROVE  /\ h \in Highs /\ h.year \in 0..(YEARS - 1) /\ h.month \in Months
           /\ h.day \in Nat /\ h.hour \in 0..(HOURS - 1)
           /\ 1 <= h.day /\ h.day <= DaysIn(h.year, h.month)
           /\ h.month \in Nat /\ h.month >= 1 /\ h.month <= Len(MonthDays)
<1>1. /\ h \in Highs /\ h.year < YEARS /\ h.month \in Months /\ h.hour < HOURS
      /\ 1 <= h.day /\ h.day <= DaysIn(h.year, h.month)
    BY DEF IsDate
<1>2. h.year \in Nat /\ h.day \in Nat /\ h.hour \in Nat BY <1>1, SmallBytes DEF Highs
<1> QED BY <1>1, <1>2, Sizes DEF Months

\* The next hour of a date: there is one limit, and no byte overflows.
NextDate(h) == NextHigh(h, DaysIn(h.year, h.month))

LEMMA NextDateIs ==
    ASSUME NEW h, IsDate(h)
    PROVE  NextDate(h) =
        IF h.hour + 1 < HOURS
        THEN [year |-> h.year, month |-> h.month, day |-> h.day, hour |-> h.hour + 1]
        ELSE IF h.day + 1 <= DaysIn(h.year, h.month)
        THEN [year |-> h.year, month |-> h.month, day |-> h.day + 1, hour |-> 0]
        ELSE IF h.month + 1 <= Len(MonthDays)
        THEN [year |-> h.year, month |-> h.month + 1, day |-> 1, hour |-> 0]
        ELSE [year |-> IF h.year + 1 < YEARS THEN h.year + 1 ELSE 0,
              month |-> 1, day |-> 1, hour |-> 0]
<1>1. /\ h.year \in 0..(YEARS - 1) /\ h.month \in Months
      /\ h.day \in Nat /\ h.hour \in 0..(HOURS - 1)
      /\ 1 <= h.day /\ h.day <= DaysIn(h.year, h.month)
      /\ h.month \in Nat /\ h.month <= Len(MonthDays)
    BY DateParts
<1> DEFINE days == DaysIn(h.year, h.month)
<1>2. days \in Nat /\ days + 1 < BYTE
    <2>1. h.year \in Nat BY <1>1, Sizes
    <2> QED BY <1>1, <2>1, DaysInType
<1> HIDE DEF days
<1>3. h.day <= days BY <1>1 DEF days
<1>4. /\ h.hour + 1 < BYTE /\ h.day + 1 < BYTE /\ h.month + 1 < BYTE /\ h.year + 1 < BYTE
      /\ h.hour \in Nat /\ h.year \in Nat
    BY <1>1, <1>2, <1>3, Sizes
<1>5. /\ Inc(h.hour) = h.hour + 1 /\ Inc(h.day) = h.day + 1
      /\ Inc(h.month) = h.month + 1 /\ Inc(h.year) = h.year + 1
    BY <1>1, <1>4, IncByte
<1>6. NextDate(h) =
        LET day == h.hour + 1 >= HOURS
            month == day /\ h.day + 1 > days
            year == month /\ h.month + 1 > Len(MonthDays)
        IN  [hour  |-> IF day THEN 0 ELSE h.hour + 1,
             day   |-> IF month THEN 1 ELSE IF day THEN h.day + 1 ELSE h.day,
             month |-> IF year THEN 1 ELSE IF month THEN h.month + 1 ELSE h.month,
             year  |-> IF ~year THEN h.year ELSE IF h.year + 1 >= YEARS THEN 0 ELSE h.year + 1]
    BY <1>5 DEF NextDate, NextHigh, days
<1>7. CASE h.hour + 1 < HOURS
    <2>1. ~(h.hour + 1 >= HOURS) BY <1>4, <1>7, Sizes
    <2> QED BY <1>6, <1>7, <2>1
<1>8. CASE ~(h.hour + 1 < HOURS) /\ h.day + 1 <= days
    <2>1. h.hour + 1 >= HOURS /\ ~(h.day + 1 > days) BY <1>1, <1>2, <1>4, <1>8, Sizes
    <2> QED BY <1>6, <1>8, <2>1 DEF days
<1>9. CASE ~(h.hour + 1 < HOURS) /\ ~(h.day + 1 <= days)
    <2>1. h.hour + 1 >= HOURS /\ h.day + 1 > days BY <1>1, <1>2, <1>4, <1>9, Sizes
    <2>2. CASE h.month + 1 <= Len(MonthDays)
        <3>1. ~(h.month + 1 > Len(MonthDays)) BY <1>1, <2>2, Sizes
        <3> QED BY <1>6, <1>9, <2>1, <2>2, <3>1 DEF days
    <2>3. CASE ~(h.month + 1 <= Len(MonthDays))
        <3>1. h.month + 1 > Len(MonthDays) BY <1>1, <2>3, Sizes
        <3>2. (h.year + 1 >= YEARS) <=> ~(h.year + 1 < YEARS) BY <1>4, Sizes
        <3> QED BY <1>6, <1>9, <2>1, <2>3, <3>1, <3>2 DEF days
    <2> QED BY <2>2, <2>3
<1> QED BY <1>7, <1>8, <1>9 DEF days

LEMMA NextDateDate ==
    ASSUME NEW h, IsDate(h)
    PROVE  IsDate(NextDate(h))
<1> DEFINE g == NextDate(h)
<1>1. /\ h \in Highs /\ 1 <= h.day /\ h.day <= DaysIn(h.year, h.month)
      /\ h.year \in 0..(YEARS - 1) /\ h.month \in Months /\ h.day \in Nat
      /\ h.hour \in 0..(HOURS - 1) /\ h.month \in Nat
    BY DateParts
<1>2. g \in Highs BY <1>1, NextHighType DEF NextDate
<1>3. /\ 1 \in Months /\ 0 < HOURS /\ 0 < YEARS /\ h.year < YEARS /\ h.hour < HOURS
      /\ HOURS \in Nat /\ YEARS \in Nat
    BY <1>1, Sizes DEF Months
<1>4. CASE h.hour + 1 < HOURS
    <2>1. g = [year |-> h.year, month |-> h.month, day |-> h.day, hour |-> h.hour + 1]
        BY <1>4, NextDateIs
    <2> HIDE DEF g
    <2> QED BY <1>1, <1>2, <1>3, <1>4, <2>1 DEF IsDate, g
<1>5. CASE ~(h.hour + 1 < HOURS) /\ h.day + 1 <= DaysIn(h.year, h.month)
    <2>1. g = [year |-> h.year, month |-> h.month, day |-> h.day + 1, hour |-> 0]
        BY <1>5, NextDateIs
    <2>2. 1 <= h.day + 1 BY <1>1
    <2> HIDE DEF g
    <2> QED BY <1>1, <1>2, <1>3, <1>5, <2>1, <2>2 DEF IsDate, g
<1>6. CASE ~(h.hour + 1 < HOURS) /\ ~(h.day + 1 <= DaysIn(h.year, h.month))
    <2>1. /\ g.day = 1 /\ g.hour = 0
          /\ \/ h.month + 1 <= Len(MonthDays) /\ g.month = h.month + 1 /\ g.year = h.year
             \/ g.month = 1 /\ (g.year = 0 \/ (g.year = h.year + 1 /\ h.year + 1 < YEARS))
        BY <1>6, NextDateIs
    <2> HIDE DEF g
    <2>2. g.month \in Months
        BY <1>1, <1>3, <2>1, Sizes DEF Months
    <2>3. g.year \in Nat /\ g.year < YEARS BY <1>1, <1>3, <2>1
    <2>4. DaysIn(g.year, g.month) >= 1 BY <2>2, <2>3, DaysInType
    <2> QED BY <1>2, <1>3, <2>1, <2>2, <2>3, <2>4 DEF IsDate, g
<1> QED BY <1>4, <1>5, <1>6

\* Minutes and seconds of the calendar, or second 60: no byte overflows.
LEMMA LowParts ==
    ASSUME NEW low \in Lows, low.minute < MINUTES, low.second <= SECONDS
    PROVE  /\ low.minute \in 0..(MINUTES - 1) /\ low.second \in 0..SECONDS
           /\ low.msec \in 0..(MSECS - 1)
           /\ Inc(low.minute) = low.minute + 1 /\ Inc(low.second) = low.second + 1
<1>1. low.minute \in Nat /\ low.second \in Nat /\ low.msec \in 0..(MSECS - 1)
    BY SmallBytes DEF Lows
<1>2. low.minute + 1 < BYTE /\ low.second + 1 < BYTE BY <1>1, Sizes
<1> QED BY <1>1, <1>2, IncByte, Sizes

LEMMA LimitIs ==
    ASSUME NEW h, IsDate(h)
    PROVE  Limits(h) = {DaysIn(h.year, h.month)}
BY DEF IsDate, Limits

\* The time after a tick, from a date of the calendar.
Ticked(t) == [high |-> IF NewHour(t.low) THEN NextDate(t.high) ELSE t.high,
              low |-> NextLow(t.low)]

LEMMA TickIs ==
    ASSUME Tick, IsDate(TIME.high)
    PROVE  TickTo(Ticked(TIME)) /\ TIME' = Ticked(TIME)
<1>1. PICK limit \in Limits(TIME.high) :
          TickTo([high |-> IF NewHour(TIME.low) THEN NextHigh(TIME.high, limit) ELSE TIME.high,
                  low |-> NextLow(TIME.low)])
    BY DEF Tick
<1>2. limit = DaysIn(TIME.high.year, TIME.high.month) BY LimitIs
<1>3. TickTo(Ticked(TIME)) BY <1>1, <1>2 DEF Ticked, NextDate
<1> QED BY <1>3 DEF TickTo

-----------------------------------------------------------------------------
\* The type of a setting, and of the times the constants give.
Sets == [at: {"idle", "low", "flag"}, to: Settings \cup {NoTime}]
PassAts == 0..(READS + 1)

LEMMA GivenTimes ==
    /\ \A t \in Settings \cup Others : t.high \in Highs /\ t.low \in Lows
                                       /\ t \in [high: Highs, low: Lows]
    /\ \A t \in Others : t.low.msec = 0
BY SettingsAssumption

LEMMA IdleType ==
    /\ IdleWork.at = 0 /\ IdleWork.slow \in 0..MAX_SLOW /\ IdleWork.at \in PassAts
    /\ IdleWork.clean \in BOOLEAN /\ IdleWork.torn \in BOOLEAN
BY Sizes DEF IdleWork, PassAts, READS

LEMMA ChipRead ==
    ASSUME NEW t, NEW r \in ReadOff(t)
    PROVE  /\ r.is = IF IsTime(t) THEN "current" ELSE "slipped"
           /\ r.ahead \in 0..(MSECS - 1) /\ r.at60 = FALSE
BY DEF ReadOff

LEMMA InitValid == Init => TimeValid
<1> SUFFICES ASSUME Init PROVE TimeValid
    OBVIOUS
<1>1. TIME \in [high: Highs, low: Lows] /\ (~wild => IsDate(TIME.high)) /\ wild \in BOOLEAN
    BY GivenTimes DEF Init
<1>2. setting \in [Links -> Sets] /\ \A l \in Links : setting[l].at = "idle"
    BY DEF Init, IdleSet, Sets
<1>3. work = IdleWork /\ rtc.is \in {"current", "slipped"} BY ChipRead DEF Init
<1>4. time_write_flg \in BOOLEAN /\ refused \in BOOLEAN BY DEF Init
<1> QED BY <1>1, <1>2, <1>3, <1>4, IdleType DEF TimeValid, TypeOK, Sets, PassAts

\* What the types say of a pass, and that a tick keeps it.
WorkOK == /\ work.at \in PassAts /\ work.slow \in 0..MAX_SLOW
          /\ work.clean \in BOOLEAN /\ work.torn \in BOOLEAN

LEMMA TickWork ==
    ASSUME WorkOK, NEW t, TickTo(t), work.at > 0 => work.slow < MAX_SLOW
    PROVE  /\ WorkOK' /\ work'.at = work.at /\ work'.clean = work.clean
           /\ work.at > 0 => work'.slow = work.slow + 1
           /\ work.at > 0 => (work'.torn <=>
                 work.torn \/ (work.at > 1 /\ \E k \in work.at..READS :
                                                 Reads(t)[k] # Reads(TIME)[k]))
           /\ work.at > 0 /\ ~work'.torn => work'.buf = work.buf
           /\ work.at = 0 => work' = work
<1> DEFINE torn == work.torn \/ (work.at > 1 /\ \E k \in work.at..READS :
                                                 Reads(t)[k] # Reads(TIME)[k])
<1>1. work' = IF work.at = 0 THEN work
              ELSE [at |-> work.at, buf |-> IF torn THEN <<>> ELSE work.buf,
                    slow |-> work.slow + 1, clean |-> work.clean, torn |-> torn]
    BY DEF TickTo
<1>2. torn \in BOOLEAN BY DEF WorkOK
<1>3. torn <=> (work.torn \/ (work.at > 1 /\ \E k \in work.at..READS :
                                                 Reads(t)[k] # Reads(TIME)[k]))
    OBVIOUS
<1> HIDE DEF torn
<1>4. work.at \in Nat /\ work.slow \in Nat BY Sizes DEF WorkOK, PassAts, READS
<1>5. CASE work.at = 0
    <2>1. work' = work /\ ~(work.at > 0) BY <1>1, <1>5
    <2> QED BY <1>5, <2>1 DEF WorkOK
<1>6. CASE work.at # 0
    <2>1. work.at > 0 BY <1>4, <1>6
    <2>2. /\ work'.at = work.at /\ work'.slow = work.slow + 1 /\ work'.clean = work.clean
          /\ work'.torn = torn /\ work'.buf = IF torn THEN <<>> ELSE work.buf
        BY <1>1, <1>6
    <2>3. work.slow + 1 \in 0..MAX_SLOW BY <1>4, <2>1, Sizes
    <2>4. WorkOK' BY <1>2, <2>2, <2>3 DEF WorkOK
    <2> QED BY <1>3, <1>6, <2>1, <2>2, <2>4
<1> QED BY <1>5, <1>6

LEMMA TickValid == TimeValid /\ Tick => TimeValid'
<1> SUFFICES ASSUME TimeValid, Tick PROVE TimeValid'
    OBVIOUS
<1>0. TIME \in [high: Highs, low: Lows] /\ WorkOK
    BY DEF TimeValid, TypeOK, WorkOK, PassAts
<1>1. PICK limit \in Limits(TIME.high) :
          TickTo([high |-> IF NewHour(TIME.low) THEN NextHigh(TIME.high, limit) ELSE TIME.high,
                  low |-> NextLow(TIME.low)])
    BY DEF Tick
<1>2. work.at > 0 => work.slow < MAX_SLOW BY DEF Tick
<1>3. TIME' \in [high: Highs, low: Lows]
    <2>1. NextHigh(TIME.high, limit) \in Highs /\ NextLow(TIME.low) \in Lows
        BY <1>0, NextHighType, NextLowType
    <2> QED BY <1>0, <1>1, <2>1 DEF TickTo
<1>4. UNCHANGED <<time_write_flg, setting, refused, wild>> /\ rtc'.is = rtc.is
    BY <1>1 DEF TickTo
<1>5. WorkOK' BY <1>0, <1>1, <1>2, TickWork
<1>6. ASSUME ~wild' PROVE IsDate(TIME'.high)
    <2>1. IsDate(TIME.high) BY <1>4, <1>6 DEF TimeValid
    <2>2. TIME' = Ticked(TIME) BY <2>1, TickIs
    <2> QED BY <2>1, <2>2, NextDateDate DEF Ticked
<1> QED BY <1>3, <1>4, <1>5, <1>6 DEF TimeValid, TypeOK, WorkOK, PassAts

LEMMA ModifyValid ==
    ASSUME TimeValid, NEW l \in Links, Modify(l)
    PROVE  TimeValid'
<1>0. /\ TIME.high \in Highs /\ TIME.low \in Lows /\ setting \in [Links -> Sets]
      /\ WorkOK
      /\ \A k \in Links : setting[k].at = "low" => setting[k].to \in Settings
    BY DEF TimeValid, TypeOK, Sets, WorkOK, PassAts
<1>1. ASSUME NEW t \in Settings, SetHigh(l, t) PROVE TimeValid'
    <2>1. /\ TIME' \in [high: Highs, low: Lows] /\ TIME'.high = t.high
          /\ wild' = ~IsDate(t.high)
        BY <1>0, <1>1, GivenTimes DEF SetHigh
    <2>2. setting' = [setting EXCEPT ![l] = [at |-> "low", to |-> t]]
        BY <1>1 DEF SetHigh
    <2>3. /\ setting' \in [Links -> Sets]
          /\ \A k \in Links : setting'[k].at = "low" => setting'[k].to \in Settings
        BY <1>0, <2>2 DEF Sets
    <2>4. WorkOK' BY <1>0, <1>1 DEF SetHigh, Disturbed, WorkOK
    <2>5. rtc'.is \in {"current", "stale", "mixed", "slipped"}
        BY <1>1 DEF SetHigh, TimeValid, TypeOK
    <2>6. UNCHANGED <<time_write_flg, refused>> BY <1>1 DEF SetHigh
    <2> QED BY <2>1, <2>3, <2>4, <2>5, <2>6 DEF TimeValid, TypeOK, Sets, WorkOK, PassAts
<1>2. CASE SetLow(l)
    <2>1. setting[l].to \in Settings BY <1>0, <1>2 DEF SetLow
    <2>2. TIME' \in [high: Highs, low: Lows] /\ TIME'.high = TIME.high
        BY <1>0, <1>2, <2>1, GivenTimes DEF SetLow
    <2>3. setting' = [setting EXCEPT ![l] = [at |-> "flag", to |-> NoTime]]
        BY <1>2 DEF SetLow
    <2>4. /\ setting' \in [Links -> Sets]
          /\ \A k \in Links : setting'[k].at = "low" => setting'[k].to \in Settings
        BY <1>0, <2>3 DEF Sets
    <2>5. UNCHANGED <<time_write_flg, rtc, work, refused, wild>> BY <1>2 DEF SetLow
    <2> QED BY <2>2, <2>4, <2>5 DEF TimeValid, TypeOK, Sets
<1>3. CASE SetFlag(l)
    <2>1. setting' = [setting EXCEPT ![l] = IdleSet] BY <1>3 DEF SetFlag
    <2>2. /\ setting' \in [Links -> Sets]
          /\ \A k \in Links : setting'[k].at = "low" => setting'[k].to \in Settings
        BY <1>0, <2>1 DEF Sets, IdleSet
    <2>3. time_write_flg' \in BOOLEAN /\ refused' \in BOOLEAN
        BY <1>3 DEF SetFlag, TimeValid, TypeOK
    <2>4. UNCHANGED <<TIME, rtc, work, wild>> BY <1>3 DEF SetFlag
    <2> QED BY <2>2, <2>3, <2>4 DEF TimeValid, TypeOK, Sets
<1> QED BY <1>1, <1>2, <1>3 DEF Modify

\* A read goes on by one; what was read counts as long as nothing disturbs it.
LEMMA ReadStep ==
    ASSUME WorkOK, ReadField
    PROVE  /\ work.at \in 1..READS /\ LinksIdle
           /\ WorkOK' /\ work'.at = work.at + 1 /\ work'.slow = work.slow
           /\ work'.clean = work.clean
           /\ work'.torn <=> work.torn \/ (work.at = 1 /\ ~IsTime(TIME))
           /\ work.clean /\ ~work'.torn
                => work'.buf = Append(work.buf, Reads(TIME)[work.at])
           /\ UNCHANGED <<TIME, time_write_flg, rtc, setting, refused, wild>>
<1> DEFINE torn == work.torn \/ (work.at = 1 /\ ~IsTime(TIME))
<1>1. work.at \in 1..READS /\ LinksIdle /\ ReadAs(torn)
      /\ UNCHANGED <<TIME, time_write_flg, rtc, setting, refused, wild>>
    BY DEF ReadField
<1>2. torn \in BOOLEAN BY DEF WorkOK
<1>3. torn <=> work.torn \/ (work.at = 1 /\ ~IsTime(TIME)) OBVIOUS
<1> HIDE DEF torn
<1>4. work' = [at |-> work.at + 1,
               buf |-> IF work.clean /\ ~torn THEN Append(work.buf, Reads(TIME)[work.at])
                       ELSE <<>>,
               slow |-> work.slow, clean |-> work.clean, torn |-> torn]
    BY <1>1 DEF ReadAs
<1>5. work.at + 1 \in PassAts BY <1>1 DEF PassAts, READS
<1>6. WorkOK' BY <1>2, <1>4, <1>5 DEF WorkOK
<1> QED BY <1>1, <1>3, <1>4, <1>6

LEMMA PassValid == TimeValid /\ SetRtc => TimeValid'
<1> SUFFICES ASSUME TimeValid, SetRtc PROVE TimeValid'
    OBVIOUS
<1>0. WorkOK BY DEF TimeValid, TypeOK, WorkOK, PassAts
<1>1. CASE Begin
    <2>1. /\ work'.at = 1 /\ work'.slow = 0 /\ work'.clean \in BOOLEAN
          /\ work'.torn \in BOOLEAN /\ time_write_flg' \in BOOLEAN
          /\ UNCHANGED <<TIME, rtc, setting, refused, wild>>
        BY <1>1 DEF Begin
    <2>2. 0 \in 0..MAX_SLOW /\ 1 \in 0..(READS + 1) BY Sizes DEF READS
    <2> QED BY <2>1, <2>2 DEF TimeValid, TypeOK
<1>2. CASE ReadField
    BY <1>0, <1>2, ReadStep DEF TimeValid, TypeOK, WorkOK, PassAts
<1>3. CASE WriteChip
    <2>1. rtc'.is \in {"current", "mixed", "slipped"} BY <1>3 DEF WriteChip, Rewritten
    <2>2. work' = IdleWork /\ UNCHANGED <<TIME, time_write_flg, setting, refused, wild>>
        BY <1>3 DEF WriteChip
    <2> QED BY <2>1, <2>2, IdleType DEF TimeValid, TypeOK, PassAts
<1> QED BY <1>1, <1>2, <1>3 DEF SetRtc
-----------------------------------------------------------------------------
\* A set of numbers that is not empty has a least one.
LEMMA LeastNumber ==
    ASSUME NEW S, S \subseteq Nat, S # {}
    PROVE  \E n \in S : \A m \in S : n <= m
<1> DEFINE less == {ss \in Nat \X Nat : ss[1] < ss[2]}
<1>1. IsWellFoundedOn(less, Nat) BY NatLessThanWellFounded DEF OpToRel
<1> HIDE DEF less
<1>2. PICK n \in S : \A m \in S : <<m, n>> \notin less BY <1>1, WFMin
<1>3. ASSUME NEW m \in S PROVE n <= m
    <2>1. m \in Nat /\ n \in Nat OBVIOUS
    <2>2. ~(m < n) BY <1>2, <2>1 DEF less
    <2> QED BY <2>1, <2>2
<1> QED BY <1>3

\* The days of the months, counted from the beginning of the century.
DaysOf(n) == DaysIn((n - 1) \div Len(MonthDays), 1 + ((n - 1) % Len(MonthDays)))

LEMMA DaysOfType == \A n \in Nat \ {0} : DaysOf(n) \in Nat /\ DaysOf(n) >= 1
<1> SUFFICES ASSUME NEW n \in Nat \ {0} PROVE DaysOf(n) \in Nat /\ DaysOf(n) >= 1
    OBVIOUS
<1> DEFINE L == Len(MonthDays)
<1>1. L \in Nat /\ L > 1 /\ n - 1 \in Nat BY Sizes
<1>3. DaysOf(n) = DaysIn((n - 1) \div L, 1 + ((n - 1) % L)) BY DEF DaysOf
<1>4. Months = 1..L BY DEF Months
<1> HIDE DEF L
<1>2. (n - 1) \div L \in Nat /\ (n - 1) % L \in 0..(L - 1) BY <1>1
<1>5. 1 + ((n - 1) % L) \in Months BY <1>1, <1>2, <1>4
<1> QED BY <1>2, <1>3, <1>5, DaysInType

\* g is DaysBefore as far as n.
Counts(g, n) ==
    /\ g \in [0..n -> Nat] /\ g[0] = 0
    /\ \A i \in 1..n : g[i] = g[i - 1] + DaysOf(i)

LEMMA CountsExist == \A n \in Nat : \E g : Counts(g, n)
<1> DEFINE S == {n \in Nat : ~ \E g : Counts(g, n)}
<1> SUFFICES ASSUME S # {} PROVE FALSE OBVIOUS
<1>1. PICK n \in S : \A m \in S : n <= m BY LeastNumber
<1>2. n \in Nat OBVIOUS
<1>3. CASE n = 0
    <2> DEFINE g == [i \in 0..0 |-> 0]
    <2>1. Counts(g, 0) BY DEF Counts
    <2> QED BY <1>3, <2>1
<1>4. CASE n # 0
    <2>1. n - 1 \in Nat /\ n - 1 \notin S BY <1>1, <1>2, <1>4
    <2>2. PICK g : Counts(g, n - 1) BY <2>1
    <2> DEFINE h == [i \in 0..n |-> IF i = n THEN g[n - 1] + DaysOf(n) ELSE g[i]]
    <2>3. g \in [0..(n - 1) -> Nat] /\ g[n - 1] \in Nat /\ DaysOf(n) \in Nat
        BY <1>2, <1>4, <2>1, <2>2, DaysOfType DEF Counts
    <2>4. h \in [0..n -> Nat] BY <1>2, <1>4, <2>3
    <2>5. h[0] = 0 BY <1>2, <1>4, <2>2 DEF Counts
    <2>6. ASSUME NEW i \in 1..n PROVE h[i] = h[i - 1] + DaysOf(i)
        <3>1. i - 1 \in 0..n /\ i - 1 # n /\ h[i - 1] = g[i - 1] BY <1>2
        <3>2. CASE i = n BY <1>2, <3>1, <3>2
        <3>3. CASE i # n
            <4>1. i \in 1..(n - 1) BY <1>2, <3>3
            <4>2. g[i] = g[i - 1] + DaysOf(i) BY <2>2, <4>1 DEF Counts
            <4> QED BY <1>2, <3>1, <3>3, <4>2
        <3> QED BY <3>2, <3>3
    <2> HIDE DEF h
    <2>7. Counts(h, n) BY <2>4, <2>5, <2>6 DEF Counts
    <2> QED BY <2>7
<1> QED BY <1>3, <1>4

LEMMA CountsAgree ==
    ASSUME NEW n \in Nat, NEW m \in Nat, NEW g, NEW h, Counts(g, n), Counts(h, m), m <= n
    PROVE  \A i \in 0..m : g[i] = h[i]
<1> DEFINE S == {i \in 0..m : g[i] # h[i]}
<1> SUFFICES ASSUME S # {} PROVE FALSE OBVIOUS
<1>1. PICK i \in S : \A j \in S : i <= j
    <2>1. S \subseteq Nat OBVIOUS
    <2> QED BY <2>1, LeastNumber
<1>2. i \in 0..m /\ g[i] # h[i] OBVIOUS
<1>3. i # 0 BY <1>2 DEF Counts
<1>4. i - 1 \in 0..m /\ i - 1 \notin S BY <1>1, <1>2, <1>3
<1>5. g[i - 1] = h[i - 1] BY <1>4
<1>6. i \in 1..m /\ i \in 1..n BY <1>2, <1>3
<1>7. g[i] = g[i - 1] + DaysOf(i) /\ h[i] = h[i - 1] + DaysOf(i)
    BY <1>6 DEF Counts
<1> QED BY <1>2, <1>5, <1>7

\* What DaysBefore is, and that there is such a function.
LEMMA DaysBeforeDef ==
    /\ DaysBefore \in [Nat -> Nat] /\ DaysBefore[0] = 0
    /\ \A n \in Nat \ {0} : DaysBefore[n] = DaysBefore[n - 1] + DaysOf(n)
<1> DEFINE G(n) == CHOOSE g : Counts(g, n)
           F == [n \in Nat |-> G(n)[n]]
<1>1. \A n \in Nat : Counts(G(n), n) BY CountsExist
<1> HIDE DEF G
<1>2. F \in [Nat -> Nat]
    <2>1. \A n \in Nat : G(n)[n] \in Nat BY <1>1 DEF Counts
    <2> QED BY <2>1
<1>3. F[0] = 0 BY <1>1 DEF Counts
<1>4. ASSUME NEW n \in Nat \ {0} PROVE F[n] = F[n - 1] + DaysOf(n)
    <2>1. n - 1 \in Nat /\ n - 1 \in 0..(n - 1) /\ n - 1 <= n /\ n \in 1..n OBVIOUS
    <2>2. G(n)[n] = G(n)[n - 1] + DaysOf(n) BY <1>1, <2>1 DEF Counts
    <2>3. G(n)[n - 1] = G(n - 1)[n - 1] BY <1>1, <2>1, CountsAgree
    <2> QED BY <2>1, <2>2, <2>3
<1> DEFINE E(f) == f = [n \in Nat |-> IF n = 0 THEN 0 ELSE f[n - 1]
                 + DaysIn((n - 1) \div Len(MonthDays), 1 + ((n - 1) % Len(MonthDays)))]
<1>5. E(F)
    <2> HIDE DEF F
    <2>1. F = [n \in Nat |-> F[n]] BY <1>2
    <2>2. \A n \in Nat : F[n] = IF n = 0 THEN 0 ELSE F[n - 1]
                 + DaysIn((n - 1) \div Len(MonthDays), 1 + ((n - 1) % Len(MonthDays)))
        BY <1>3, <1>4 DEF DaysOf
    <2> QED BY <2>1, <2>2
<1> HIDE DEF F
<1>6. DaysBefore = CHOOSE f : E(f) BY DEF DaysBefore
<1>7. E(DaysBefore)
    <2> HIDE DEF E
    <2> QED BY <1>5, <1>6, Zenon
<1>8. /\ DaysBefore[0] = 0
      /\ \A n \in Nat \ {0} : DaysBefore[n] = DaysBefore[n - 1] + DaysOf(n)
    <2> DEFINE D == DaysBefore
    <2> HIDE DEF D
    <2>1. D = [n \in Nat |-> IF n = 0 THEN 0 ELSE D[n - 1]
                 + DaysIn((n - 1) \div Len(MonthDays), 1 + ((n - 1) % Len(MonthDays)))]
        BY <1>7 DEF D
    <2>2. \A n \in Nat : D[n] = IF n = 0 THEN 0 ELSE D[n - 1]
                 + DaysIn((n - 1) \div Len(MonthDays), 1 + ((n - 1) % Len(MonthDays)))
        BY <2>1
    <2> QED BY <2>2 DEF D, DaysOf
<1>9. \A n \in Nat : DaysBefore[n] = F[n]
    <2> DEFINE S == {n \in Nat : DaysBefore[n] # F[n]}
    <2> SUFFICES ASSUME S # {} PROVE FALSE OBVIOUS
    <2>1. PICK n \in S : \A m \in S : n <= m BY LeastNumber
    <2>2. n # 0 BY <1>3, <1>8
    <2>3. n - 1 \in Nat /\ n - 1 \notin S BY <2>1, <2>2
    <2> QED BY <1>4, <1>8, <2>2, <2>3
<1>10. DaysBefore \in [Nat -> Nat]
    <2>1. \E X : DaysBefore = [n \in Nat |-> X[n]]
        <3> DEFINE X == [n \in Nat |-> IF n = 0 THEN 0 ELSE DaysBefore[n - 1]
                 + DaysIn((n - 1) \div Len(MonthDays), 1 + ((n - 1) % Len(MonthDays)))]
        <3>1. DaysBefore = X BY <1>7
        <3>2. X = [n \in Nat |-> X[n]] OBVIOUS
        <3> QED BY <3>1, <3>2
    <2> QED BY <1>2, <1>9, <2>1
<1> QED BY <1>8, <1>10

LEMMA DaysGrow ==
    \A m \in Nat : \A n \in 0..m : DaysBefore[n] <= DaysBefore[m]
<1> DEFINE S == {m \in Nat : \E n \in 0..m : DaysBefore[n] > DaysBefore[m]}
<1>0. \A n \in Nat : DaysBefore[n] \in Nat BY DaysBeforeDef
<1> SUFFICES ASSUME S # {} PROVE FALSE BY <1>0
<1>1. PICK m \in S : \A k \in S : m <= k BY LeastNumber
<1>2. PICK n \in 0..m : DaysBefore[n] > DaysBefore[m] BY <1>1
<1>3. m \in Nat /\ n \in Nat OBVIOUS
<1>4. n # m BY <1>0, <1>2, <1>3
<1>5. m - 1 \in Nat /\ m - 1 \notin S /\ n \in 0..(m - 1) BY <1>1, <1>4
<1>6. DaysBefore[n] <= DaysBefore[m - 1] BY <1>0, <1>3, <1>5
<1>7. DaysBefore[m] = DaysBefore[m - 1] + DaysOf(m) /\ DaysOf(m) \in Nat
    BY <1>3, <1>5, DaysBeforeDef, DaysOfType
<1> QED BY <1>0, <1>2, <1>3, <1>5, <1>6, <1>7

\* The months of a year follow one another.
LEMMA Quotient ==
    ASSUME NEW R \in Nat \ {0}, NEW q \in Int, NEW r \in 0..(R - 1)
    PROVE  (q * R + r) \div R = q /\ (q * R + r) % R = r
OBVIOUS

LEMMA DaysBeforeNext ==
    ASSUME NEW k \in Nat
    PROVE  DaysBefore[k + 1] = DaysBefore[k] + DaysIn(k \div Len(MonthDays),
                                                      1 + (k % Len(MonthDays)))
<1>1. k + 1 \in Nat \ {0} /\ (k + 1) - 1 = k OBVIOUS
<1>2. DaysBefore[k + 1] = DaysBefore[(k + 1) - 1] + DaysOf(k + 1)
    BY <1>1, DaysBeforeDef, Zenon
<1>3. DaysOf(k + 1) = DaysIn(k \div Len(MonthDays), 1 + (k % Len(MonthDays)))
    BY <1>1, Zenon DEF DaysOf
<1> QED BY <1>1, <1>2, <1>3, Zenon

MonthNumber(h) == h.year * Len(MonthDays) + (h.month - 1)

LEMMA MonthFollows ==
    ASSUME NEW h, IsDate(h)
    PROVE  /\ MonthNumber(h) \in 0..(YEARS * Len(MonthDays) - 1)
           /\ DaysBefore[MonthNumber(h) + 1] = DaysBefore[MonthNumber(h)]
                                               + DaysIn(h.year, h.month)
<1> DEFINE L == Len(MonthDays)
           k == MonthNumber(h)
<1>1. /\ L \in Nat \ {0} /\ h.year \in Nat /\ h.month \in 1..L
      /\ h.year <= YEARS - 1 /\ YEARS \in Nat
    BY Sizes, DateParts DEF Months
<1>2. k = h.year * L + (h.month - 1) BY DEF MonthNumber
<1>3. DaysBefore[k + 1] = DaysBefore[k] + DaysIn(k \div L, 1 + (k % L)) \/ k \notin Nat
    BY DaysBeforeNext
<1> HIDE DEF L, k
<1>4. k \in 0..(YEARS * L - 1)
    <2>1. h.year * L >= 0 /\ h.year * L \in Int /\ YEARS * L \in Int BY <1>1
    <2>2. h.year * L <= (YEARS - 1) * L BY <1>1
    <2>3. (YEARS - 1) * L = YEARS * L - L BY <1>1
    <2> QED BY <1>1, <1>2, <2>1, <2>2, <2>3
<1>5. h.month - 1 \in 0..(L - 1) /\ h.year \in Int /\ 1 + (h.month - 1) = h.month BY <1>1
<1>6. /\ (h.year * L + (h.month - 1)) \div L = h.year
      /\ (h.year * L + (h.month - 1)) % L = h.month - 1
    <2> DEFINE r == h.month - 1
    <2>1. r \in 0..(L - 1) BY <1>5
    <2> HIDE DEF r
    <2>2. (h.year * L + r) \div L = h.year /\ (h.year * L + r) % L = r
        BY <1>1, <1>5, <2>1, Quotient
    <2> QED BY <2>2 DEF r
<1>7. k \in Nat BY <1>1, <1>4
<1>8. DaysBefore[k + 1] = DaysBefore[k] + DaysIn(h.year, h.month)
    BY <1>2, <1>3, <1>5, <1>6, <1>7, Zenon
<1> QED BY <1>4, <1>8 DEF k, L

\* A digit below a number: where the next one is, and how far they go.
LEMMA Digits ==
    ASSUME NEW R \in Nat \ {0}, NEW N \in Nat \ {0}, NEW a \in 0..(N - 1), NEW b \in 0..(R - 1)
    PROVE  a * R + b \in 0..(N * R - 1) /\ N * R \in Nat \ {0}
<1>1. a * R \in Nat /\ N * R \in Int /\ (N - 1) * R = N * R - R BY SMT
<1>2. a * R <= (N - 1) * R BY SMT
<1>3. N * R > 0 BY SMT
<1> QED BY <1>1, <1>2, <1>3

LEMMA Carry ==
    ASSUME NEW R \in Nat \ {0}, NEW a \in Nat, NEW b \in Nat
    PROVE  /\ a * R + (b + 1) = (a * R + b) + 1
           /\ b = R - 1 => (a + 1) * R + 0 = (a * R + b) + 1
           /\ a * R + b \in Nat
<1>1. a * R \in Nat /\ (a + 1) * R = a * R + R BY SMT
<1> QED BY <1>1

\* The parts of Stamp, from the days down.
TotalDays == DaysBefore[YEARS * Len(MonthDays)]
DayNumber(h) == DaysBefore[MonthNumber(h)] + (h.day - 1)
HourNumber(h) == DayNumber(h) * HOURS + h.hour
MinuteNumber(t) == HourNumber(t.high) * MINUTES + t.low.minute
SecondNumber(t) == MinuteNumber(t) * SECONDS + t.low.second

LEMMA DayNumberRange ==
    ASSUME NEW h, IsDate(h)
    PROVE  DayNumber(h) \in 0..(TotalDays - 1) /\ TotalDays \in Nat \ {0}
<1> DEFINE k == MonthNumber(h)
           M == YEARS * Len(MonthDays)
<1>1. /\ h \in Highs /\ h.day \in Nat /\ h.day >= 1 /\ h.day <= DaysIn(h.year, h.month)
      /\ h.year \in Nat /\ h.month \in Months
    BY Sizes, DateParts
<1>2. k \in 0..(M - 1) /\ DaysBefore[k + 1] = DaysBefore[k] + DaysIn(h.year, h.month)
    BY <1>1, MonthFollows
<1>3. DaysIn(h.year, h.month) \in Nat BY <1>1, DaysInType
<1>4. M \in Nat BY Sizes
<1> HIDE DEF k, M
<1>5. k \in Nat /\ k + 1 \in 0..M BY <1>2, <1>4
<1>6. DaysBefore[k] \in Nat /\ DaysBefore[k + 1] \in Nat /\ DaysBefore[M] \in Nat
    BY <1>4, <1>5, DaysBeforeDef
<1>7. DaysBefore[k + 1] <= DaysBefore[M] BY <1>4, <1>5, DaysGrow
<1>8. DaysBefore[k] + (h.day - 1) \in 0..(DaysBefore[M] - 1) /\ DaysBefore[M] # 0
    BY <1>1, <1>2, <1>3, <1>6, <1>7
<1> QED BY <1>6, <1>8 DEF k, M, DayNumber, TotalDays

\* system_time_increase carries into the hour, and from there into the date.
LEMMA NextHour ==
    ASSUME NEW h, IsDate(h)
    PROVE  \/ HourNumber(NextDate(h)) = HourNumber(h) + 1
           \/ HourNumber(h) + 1 = TotalDays * HOURS /\ HourNumber(NextDate(h)) = 0
<1> DEFINE L == Len(MonthDays)
           k == MonthNumber(h)
           g == NextDate(h)
<1>1. /\ h \in Highs /\ h.day \in Nat /\ h.day >= 1 /\ h.day <= DaysIn(h.year, h.month)
      /\ h.year \in 0..(YEARS - 1) /\ h.month \in 1..L /\ h.hour \in 0..(HOURS - 1)
    BY DateParts DEF Months
<1>2. /\ HOURS \in Nat \ {0} /\ L \in Nat \ {0} /\ YEARS \in Nat \ {0} BY Sizes
<1>3. DayNumber(h) \in Nat /\ TotalDays \in Nat BY DayNumberRange
<1>4. CASE h.hour + 1 < HOURS
    <2>1. g = [year |-> h.year, month |-> h.month, day |-> h.day, hour |-> h.hour + 1]
        BY <1>4, NextDateIs
    <2>2. DayNumber(g) = DayNumber(h) /\ g.hour = h.hour + 1
        BY <2>1 DEF DayNumber, MonthNumber
    <2>3. DayNumber(h) * HOURS + (h.hour + 1) = (DayNumber(h) * HOURS + h.hour) + 1
        BY <1>1, <1>2, <1>3, Carry
    <2> QED BY <2>2, <2>3 DEF HourNumber
<1>5. CASE ~(h.hour + 1 < HOURS)
    <2>1. h.hour = HOURS - 1 BY <1>1, <1>2, <1>5
    <2>2. (DayNumber(h) + 1) * HOURS + 0 = (DayNumber(h) * HOURS + h.hour) + 1
        BY <1>1, <1>2, <1>3, <2>1, Carry
    <2>3. /\ k \in 0..(YEARS * L - 1)
          /\ DaysBefore[k + 1] = DaysBefore[k] + DaysIn(h.year, h.month)
        BY <1>1, MonthFollows
    <2>4. DaysIn(h.year, h.month) \in Nat
        <3>1. h.year \in Nat /\ h.month \in Months BY <1>1, <1>2 DEF Months
        <3> QED BY <3>1, DaysInType
    <2>5. k \in Nat /\ k + 1 \in Nat
        <3>1. YEARS * L \in Int BY <1>2
        <3> QED BY <2>3, <3>1
    <2>6. DaysBefore[k] \in Nat /\ DaysBefore[k + 1] \in Nat BY <2>5, DaysBeforeDef
    <2>7. g.hour = 0 BY <1>5, NextDateIs
    <2>8. ASSUME DayNumber(g) = DayNumber(h) + 1
          PROVE  HourNumber(g) = HourNumber(h) + 1
        BY <2>2, <2>7, <2>8 DEF HourNumber
    <2>9. CASE h.day + 1 <= DaysIn(h.year, h.month)
        <3>1. g = [year |-> h.year, month |-> h.month, day |-> h.day + 1, hour |-> 0]
            BY <1>5, <2>9, NextDateIs
        <3>2. MonthNumber(g) = k BY <3>1 DEF MonthNumber
        <3>3. DaysBefore[k] + ((h.day + 1) - 1) = DaysBefore[k] + (h.day - 1) + 1
            BY <1>1, <2>6
        <3> QED BY <2>8, <3>1, <3>2, <3>3 DEF DayNumber
    <2>10. CASE ~(h.day + 1 <= DaysIn(h.year, h.month))
        <3>1. h.day = DaysIn(h.year, h.month) BY <1>1, <2>4, <2>10
        <3>2. DayNumber(h) + 1 = DaysBefore[k + 1]
            BY <1>1, <2>3, <2>4, <2>6, <3>1 DEF DayNumber
        <3>3. ASSUME g.day = 1, MonthNumber(g) = k + 1
              PROVE  HourNumber(g) = HourNumber(h) + 1
            <4>1. DayNumber(g) = DaysBefore[k + 1] BY <2>6, <3>3 DEF DayNumber
            <4> QED BY <2>8, <3>2, <4>1
        <3>4. CASE h.month + 1 <= L
            <4>1. g = [year |-> h.year, month |-> h.month + 1, day |-> 1, hour |-> 0]
                BY <1>5, <2>10, <3>4, NextDateIs
            <4>2. MonthNumber(g) = k + 1
                <5>1. h.year * L \in Int BY <1>1, <1>2
                <5> QED BY <1>1, <4>1, <5>1 DEF MonthNumber
            <4> QED BY <3>3, <4>1, <4>2
        <3>5. CASE ~(h.month + 1 <= L)
            <4>1. g = [year |-> IF h.year + 1 < YEARS THEN h.year + 1 ELSE 0,
                       month |-> 1, day |-> 1, hour |-> 0]
                BY <1>5, <2>10, <3>5, NextDateIs
            <4>2. k + 1 = (h.year + 1) * L
                <5>1. h.month = L BY <1>1, <1>2, <3>5
                <5>2. k = h.year * L + (h.month - 1) BY DEF MonthNumber
                <5>3. h.year * L + (L - 1) = (h.year + 1) * L - 1 BY <1>1, <1>2
                <5>4. (h.year + 1) * L \in Int BY <1>1, <1>2
                <5> QED BY <5>1, <5>2, <5>3, <5>4
            <4>3. CASE h.year + 1 < YEARS
                <5>1. MonthNumber(g) = (h.year + 1) * L + (1 - 1)
                    BY <4>1, <4>3 DEF MonthNumber
                <5>2. MonthNumber(g) = k + 1
                    <6>1. (h.year + 1) * L \in Int BY <1>1, <1>2
                    <6> QED BY <4>2, <5>1, <6>1
                <5> QED BY <3>3, <4>1, <5>2
            <4>4. CASE ~(h.year + 1 < YEARS)
                <5>1. h.year + 1 = YEARS BY <1>1, <1>2, <4>4
                <5>2. DayNumber(h) + 1 = TotalDays BY <3>2, <4>2, <5>1 DEF TotalDays
                <5>3. g.year = 0 /\ g.month = 1 /\ g.day = 1 BY <4>1, <4>4
                <5>4. MonthNumber(g) = 0
                    <6>1. MonthNumber(g) = 0 * L + (1 - 1) BY <5>3 DEF MonthNumber
                    <6> QED BY <1>2, <6>1
                <5>5. DayNumber(g) = 0 BY <5>3, <5>4, DaysBeforeDef DEF DayNumber
                <5>6. HourNumber(g) = 0
                    <6>1. HourNumber(g) = 0 * HOURS + 0 BY <2>7, <5>5 DEF HourNumber
                    <6> QED BY <1>2, <6>1
                <5>7. HourNumber(h) + 1 = TotalDays * HOURS
                    <6>1. TotalDays * HOURS \in Int BY <1>2, <1>3
                    <6> QED BY <2>2, <5>2, <6>1 DEF HourNumber
                <5> QED BY <5>6, <5>7
            <4> QED BY <4>3, <4>4
        <3> QED BY <3>4, <3>5
    <2> QED BY <2>8, <2>9, <2>10
<1> QED BY <1>4, <1>5

LEMMA StampParts ==
    ASSUME NEW t, IsDate(t.high)
    PROVE  Stamp(t) = SecondNumber(t) * MSECS + t.low.msec
<1> DEFINE k == MonthNumber(t.high)
           y == t.high.year * Len(MonthDays)
<1>1. t.high.month \in Int /\ t.high.day \in Int /\ t.high.year \in Int /\ y \in Int
    BY Sizes, DateParts
<1>2. k = y + (t.high.month - 1) BY DEF MonthNumber
<1>3. k \in Nat
    <2>1. k \in 0..(YEARS * Len(MonthDays) - 1) BY MonthFollows
    <2>2. YEARS * Len(MonthDays) \in Int BY Sizes
    <2> QED BY <2>1, <2>2
<1> DEFINE D == DaysBefore[k]
<1>4. D \in Nat BY <1>3, DaysBeforeDef
<1>5. y + t.high.month - 1 = k BY <1>1, <1>2
<1>6. DaysBefore[t.high.year * Len(MonthDays) + t.high.month - 1] = D BY <1>5
<1> HIDE DEF D
<1>7. D + t.high.day - 1 = DayNumber(t.high)
    <2>1. DayNumber(t.high) = D + (t.high.day - 1) BY DEF DayNumber, D
    <2> QED BY <1>1, <1>4, <2>1
<1> QED BY <1>6, <1>7, Zenon DEF Stamp, SecondNumber, MinuteNumber, HourNumber

\* The parts of a time of the calendar.
LEMMA TimeParts ==
    ASSUME NEW t, IsTime(t)
    PROVE  /\ t \in [high: Highs, low: Lows] /\ IsDate(t.high) /\ t.low \in Lows
           /\ t.high.hour \in 0..(HOURS - 1)
           /\ t.low.minute \in 0..(MINUTES - 1) /\ t.low.second \in 0..(SECONDS - 1)
           /\ t.low.msec \in 0..(MSECS - 1)
           /\ Inc(t.low.minute) = t.low.minute + 1 /\ Inc(t.low.second) = t.low.second + 1
<1>1. /\ t \in [high: Highs, low: Lows] /\ IsDate(t.high) /\ t.low \in Lows
      /\ t.low.minute < MINUTES /\ t.low.second < SECONDS
    BY DEF IsTime
<1>2. t.low.second \in Nat BY <1>1, SmallBytes DEF Lows
<1>3. t.low.second <= SECONDS BY <1>1, <1>2, Sizes
<1>4. /\ t.low.minute \in 0..(MINUTES - 1) /\ t.low.second \in 0..SECONDS
      /\ t.low.msec \in 0..(MSECS - 1)
      /\ Inc(t.low.minute) = t.low.minute + 1 /\ Inc(t.low.second) = t.low.second + 1
    BY <1>1, <1>3, LowParts
<1>5. t.low.second \in 0..(SECONDS - 1) BY <1>1, <1>2, Sizes
<1> QED BY <1>1, <1>4, <1>5, DateParts

TotalHours == TotalDays * HOURS
TotalMinutes == TotalHours * MINUTES
TotalSeconds == TotalMinutes * SECONDS

LEMMA Century == CENTURY = TotalSeconds * MSECS
BY DEF CENTURY, TotalSeconds, TotalMinutes, TotalHours, TotalDays

LEMMA StampRange ==
    ASSUME NEW t, IsTime(t)
    PROVE  /\ HourNumber(t.high) \in 0..(TotalHours - 1) /\ TotalHours \in Nat \ {0}
           /\ MinuteNumber(t) \in 0..(TotalMinutes - 1) /\ TotalMinutes \in Nat \ {0}
           /\ SecondNumber(t) \in 0..(TotalSeconds - 1) /\ TotalSeconds \in Nat \ {0}
           /\ Stamp(t) \in 0..(CENTURY - 1) /\ CENTURY \in Nat \ {0}
<1>1. /\ IsDate(t.high) /\ t.high.hour \in 0..(HOURS - 1)
      /\ t.low.minute \in 0..(MINUTES - 1) /\ t.low.second \in 0..(SECONDS - 1)
      /\ t.low.msec \in 0..(MSECS - 1)
    BY TimeParts
<1>2. /\ HOURS \in Nat \ {0} /\ MINUTES \in Nat \ {0} /\ SECONDS \in Nat \ {0}
      /\ MSECS \in Nat \ {0}
    BY Sizes
<1>3. HourNumber(t.high) \in 0..(TotalHours - 1) /\ TotalHours \in Nat \ {0}
    BY <1>1, <1>2, DayNumberRange, Digits DEF HourNumber, TotalHours
<1>4. MinuteNumber(t) \in 0..(TotalMinutes - 1) /\ TotalMinutes \in Nat \ {0}
    BY <1>1, <1>2, <1>3, Digits DEF MinuteNumber, TotalMinutes
<1>5. SecondNumber(t) \in 0..(TotalSeconds - 1) /\ TotalSeconds \in Nat \ {0}
    BY <1>1, <1>2, <1>4, Digits DEF SecondNumber, TotalSeconds
<1>6. Stamp(t) \in 0..(CENTURY - 1) /\ CENTURY \in Nat \ {0}
    <2>1. /\ SecondNumber(t) * MSECS + t.low.msec \in 0..(TotalSeconds * MSECS - 1)
          /\ TotalSeconds * MSECS \in Nat \ {0}
        BY <1>1, <1>2, <1>5, Digits
    <2>2. Stamp(t) = SecondNumber(t) * MSECS + t.low.msec BY <1>1, StampParts
    <2> QED BY <2>1, <2>2, Century
<1> QED BY <1>3, <1>4, <1>5, <1>6

\* One digit of a counter that starts again after N * R.
LEMMA Digit ==
    ASSUME NEW N \in Nat \ {0}, NEW R \in Nat \ {0},
           NEW a \in 0..(N - 1), NEW b \in 0..(R - 1), NEW c, NEW d,
           \/ b + 1 < R /\ c = a /\ d = b + 1
           \/ b + 1 >= R /\ d = 0 /\ (c = a + 1 \/ (a + 1 = N /\ c = 0))
    PROVE  \/ c * R + d = (a * R + b) + 1
           \/ (a * R + b) + 1 = N * R /\ c * R + d = 0
<1>1. a \in Nat /\ b \in Nat /\ (b + 1 >= R => b = R - 1) OBVIOUS
<1>2. a * R \in Nat /\ (a + 1) * R = a * R + R /\ 0 * R = 0 BY <1>1, SMT
<1>3. CASE c = a /\ d = b + 1 BY <1>1, <1>2, <1>3
<1>4. CASE c = a + 1 /\ d = 0 /\ b = R - 1 BY <1>1, <1>2, <1>4
<1>5. CASE a + 1 = N /\ c = 0 /\ d = 0 /\ b = R - 1 BY <1>1, <1>2, <1>5
<1> QED BY <1>1, <1>3, <1>4, <1>5

LEMMA TickedIsTime == ASSUME NEW t, IsTime(t) PROVE IsTime(Ticked(t))
<1> DEFINE u == Ticked(t)
<1>1. /\ t.high \in Highs /\ IsDate(t.high) /\ t.low \in Lows
      /\ t.low.minute \in 0..(MINUTES - 1) /\ t.low.second \in 0..(SECONDS - 1)
      /\ Inc(t.low.minute) = t.low.minute + 1 /\ Inc(t.low.second) = t.low.second + 1
    BY TimeParts, DateParts
<1>2. IsDate(u.high) BY <1>1, NextDateDate DEF Ticked
<1>3. u.high \in Highs BY <1>2, DateParts
<1>4. NextLow(t.low) \in Lows BY <1>1, NextLowType
<1>5. u = [high |-> u.high, low |-> u.low] /\ u.low = NextLow(t.low) BY DEF Ticked
<1> HIDE DEF u
<1>6. u.low.minute < MINUTES /\ u.low.second < SECONDS
    <2>1. /\ u.low.minute = IF NewHour(t.low) THEN 0
                           ELSE IF NewMinute(t.low) THEN t.low.minute + 1 ELSE t.low.minute
          /\ u.low.second = IF NewMinute(t.low) THEN 0
                           ELSE IF NewSecond(t.low) THEN t.low.second + 1 ELSE t.low.second
        BY <1>1, <1>5 DEF NextLow
    <2>2. NewSecond(t.low) /\ ~NewMinute(t.low) => t.low.second + 1 < SECONDS
        BY <1>1, Sizes DEF NewMinute
    <2>3. NewMinute(t.low) /\ ~NewHour(t.low) => t.low.minute + 1 < MINUTES
        BY <1>1, Sizes DEF NewHour
    <2>4. 0 < SECONDS /\ 0 < MINUTES BY Sizes
    <2>5. t.low.minute < MINUTES /\ t.low.second < SECONDS BY <1>1, Sizes
    <2> QED BY <2>1, <2>2, <2>3, <2>4, <2>5
<1>7. u \in [high: Highs, low: Lows] BY <1>3, <1>4, <1>5
<1> QED BY <1>2, <1>6, <1>7 DEF IsTime, u

LEMMA TickedStamp ==
    ASSUME NEW t, IsTime(t)
    PROVE  \/ Stamp(Ticked(t)) = Stamp(t) + 1
           \/ Stamp(t) + 1 = CENTURY /\ Stamp(Ticked(t)) = 0
<1> DEFINE u == Ticked(t)
<1>0. /\ HOURS \in Nat \ {0} /\ MINUTES \in Nat \ {0} /\ SECONDS \in Nat \ {0}
      /\ MSECS \in Nat \ {0}
    BY Sizes
<1>1. /\ IsDate(t.high) /\ t.low.minute \in 0..(MINUTES - 1)
      /\ t.low.second \in 0..(SECONDS - 1) /\ t.low.msec \in 0..(MSECS - 1)
      /\ Inc(t.low.minute) = t.low.minute + 1 /\ Inc(t.low.second) = t.low.second + 1
    BY TimeParts
<1>2. IsDate(u.high) BY TickedIsTime, TimeParts
<1>3. /\ u.high = IF NewHour(t.low) THEN NextDate(t.high) ELSE t.high
      /\ u.low.minute = IF NewHour(t.low) THEN 0
                        ELSE IF NewMinute(t.low) THEN t.low.minute + 1 ELSE t.low.minute
      /\ u.low.second = IF NewMinute(t.low) THEN 0
                        ELSE IF NewSecond(t.low) THEN t.low.second + 1 ELSE t.low.second
      /\ u.low.msec = IF NewSecond(t.low) THEN 0 ELSE t.low.msec + 1
    BY <1>1 DEF Ticked, NextLow
<1> HIDE DEF u
<1>4. NewHour(t.low) =>
          \/ HourNumber(u.high) = HourNumber(t.high) + 1
          \/ HourNumber(t.high) + 1 = TotalHours /\ HourNumber(u.high) = 0
    BY <1>1, <1>3, NextHour DEF TotalHours
<1>5. NewMinute(t.low) =>
          \/ MinuteNumber(u) = MinuteNumber(t) + 1
          \/ MinuteNumber(t) + 1 = TotalMinutes /\ MinuteNumber(u) = 0
    <2>1. SUFFICES ASSUME NewMinute(t.low)
                   PROVE  \/ MinuteNumber(u) = MinuteNumber(t) + 1
                          \/ MinuteNumber(t) + 1 = TotalMinutes /\ MinuteNumber(u) = 0
        OBVIOUS
    <2>2. \/ /\ t.low.minute + 1 < MINUTES /\ HourNumber(u.high) = HourNumber(t.high)
             /\ u.low.minute = t.low.minute + 1
          \/ /\ t.low.minute + 1 >= MINUTES /\ u.low.minute = 0
             /\ \/ HourNumber(u.high) = HourNumber(t.high) + 1
                \/ HourNumber(t.high) + 1 = TotalHours /\ HourNumber(u.high) = 0
        <3>1. CASE NewHour(t.low) BY <1>0, <1>1, <1>3, <1>4, <3>1 DEF NewHour
        <3>2. CASE ~NewHour(t.low) BY <1>0, <1>1, <1>3, <2>1, <3>2 DEF NewHour
        <3> QED BY <3>1, <3>2
    <2>3. HourNumber(t.high) \in 0..(TotalHours - 1) /\ TotalHours \in Nat \ {0}
        BY StampRange
    <2>4. \/ HourNumber(u.high) * MINUTES + u.low.minute
                 = (HourNumber(t.high) * MINUTES + t.low.minute) + 1
          \/ /\ (HourNumber(t.high) * MINUTES + t.low.minute) + 1 = TotalHours * MINUTES
             /\ HourNumber(u.high) * MINUTES + u.low.minute = 0
        <3> DEFINE a == HourNumber(t.high)
                   b == t.low.minute
                   c == HourNumber(u.high)
                   d == u.low.minute
        <3>1. /\ a \in 0..(TotalHours - 1) /\ b \in 0..(MINUTES - 1)
              /\ TotalHours \in Nat \ {0} /\ MINUTES \in Nat \ {0}
            BY <1>0, <1>1, <2>3
        <3>2. \/ b + 1 < MINUTES /\ c = a /\ d = b + 1
              \/ b + 1 >= MINUTES /\ d = 0 /\ (c = a + 1 \/ (a + 1 = TotalHours /\ c = 0))
            BY <2>2
        <3> HIDE DEF a, b, c, d
        <3>3. \/ c * MINUTES + d = (a * MINUTES + b) + 1
              \/ (a * MINUTES + b) + 1 = TotalHours * MINUTES /\ c * MINUTES + d = 0
            BY <3>1, <3>2, Digit
        <3> QED BY <3>3 DEF a, b, c, d
    <2> QED BY <2>4, Zenon DEF MinuteNumber, TotalMinutes
<1>6. NewSecond(t.low) =>
          \/ SecondNumber(u) = SecondNumber(t) + 1
          \/ SecondNumber(t) + 1 = TotalSeconds /\ SecondNumber(u) = 0
    <2>1. SUFFICES ASSUME NewSecond(t.low)
                   PROVE  \/ SecondNumber(u) = SecondNumber(t) + 1
                          \/ SecondNumber(t) + 1 = TotalSeconds /\ SecondNumber(u) = 0
        OBVIOUS
    <2>2. \/ /\ t.low.second + 1 < SECONDS /\ MinuteNumber(u) = MinuteNumber(t)
             /\ u.low.second = t.low.second + 1
          \/ /\ t.low.second + 1 >= SECONDS /\ u.low.second = 0
             /\ \/ MinuteNumber(u) = MinuteNumber(t) + 1
                \/ MinuteNumber(t) + 1 = TotalMinutes /\ MinuteNumber(u) = 0
        <3>1. CASE NewMinute(t.low) BY <1>0, <1>1, <1>3, <1>5, <3>1 DEF NewMinute
        <3>2. CASE ~NewMinute(t.low)
            <4>1. t.low.second + 1 < SECONDS BY <1>0, <1>1, <2>1, <3>2 DEF NewMinute
            <4>2. ~NewHour(t.low) BY <3>2 DEF NewHour
            <4>3. MinuteNumber(u) = MinuteNumber(t)
                BY <1>3, <3>2, <4>2 DEF MinuteNumber
            <4> QED BY <1>3, <2>1, <3>2, <4>1, <4>3
        <3> QED BY <3>1, <3>2
    <2>3. MinuteNumber(t) \in 0..(TotalMinutes - 1) /\ TotalMinutes \in Nat \ {0}
        BY StampRange
    <2>4. \/ MinuteNumber(u) * SECONDS + u.low.second
                 = (MinuteNumber(t) * SECONDS + t.low.second) + 1
          \/ /\ (MinuteNumber(t) * SECONDS + t.low.second) + 1 = TotalMinutes * SECONDS
             /\ MinuteNumber(u) * SECONDS + u.low.second = 0
        <3> DEFINE a == MinuteNumber(t)
                   b == t.low.second
                   c == MinuteNumber(u)
                   d == u.low.second
        <3>1. /\ a \in 0..(TotalMinutes - 1) /\ b \in 0..(SECONDS - 1)
              /\ TotalMinutes \in Nat \ {0} /\ SECONDS \in Nat \ {0}
            BY <1>0, <1>1, <2>3
        <3>2. \/ b + 1 < SECONDS /\ c = a /\ d = b + 1
              \/ b + 1 >= SECONDS /\ d = 0 /\ (c = a + 1 \/ (a + 1 = TotalMinutes /\ c = 0))
            BY <2>2
        <3> HIDE DEF a, b, c, d
        <3>3. \/ c * SECONDS + d = (a * SECONDS + b) + 1
              \/ (a * SECONDS + b) + 1 = TotalMinutes * SECONDS /\ c * SECONDS + d = 0
            BY <3>1, <3>2, Digit
        <3> QED BY <3>3 DEF a, b, c, d
    <2> QED BY <2>4, Zenon DEF SecondNumber, TotalSeconds
<1>7. \/ /\ t.low.msec + 1 < MSECS /\ SecondNumber(u) = SecondNumber(t)
         /\ u.low.msec = t.low.msec + 1
      \/ /\ t.low.msec + 1 >= MSECS /\ u.low.msec = 0
         /\ \/ SecondNumber(u) = SecondNumber(t) + 1
            \/ SecondNumber(t) + 1 = TotalSeconds /\ SecondNumber(u) = 0
    <2>1. CASE NewSecond(t.low) BY <1>3, <1>6, <2>1 DEF NewSecond
    <2>2. CASE ~NewSecond(t.low)
        <3>1. t.low.msec + 1 < MSECS BY <1>0, <1>1, <2>2 DEF NewSecond
        <3>2. ~NewMinute(t.low) /\ ~NewHour(t.low) BY <2>2 DEF NewMinute, NewHour
        <3>3. SecondNumber(u) = SecondNumber(t)
            BY <1>3, <2>2, <3>2 DEF SecondNumber, MinuteNumber
        <3> QED BY <1>3, <2>2, <3>1, <3>3
    <2> QED BY <2>1, <2>2
<1>8. \/ SecondNumber(u) * MSECS + u.low.msec = (SecondNumber(t) * MSECS + t.low.msec) + 1
      \/ /\ (SecondNumber(t) * MSECS + t.low.msec) + 1 = TotalSeconds * MSECS
         /\ SecondNumber(u) * MSECS + u.low.msec = 0
    <2>1. SecondNumber(t) \in 0..(TotalSeconds - 1) /\ TotalSeconds \in Nat \ {0}
        BY StampRange
    <2>2. MSECS \in Nat \ {0} /\ t.low.msec \in 0..(MSECS - 1) BY <1>0, <1>1
    <2> DEFINE a == SecondNumber(t)
               b == t.low.msec
               c == SecondNumber(u)
               d == u.low.msec
    <2>3. \/ b + 1 < MSECS /\ c = a /\ d = b + 1
          \/ b + 1 >= MSECS /\ d = 0 /\ (c = a + 1 \/ (a + 1 = TotalSeconds /\ c = 0))
        BY <1>7
    <2>4. a \in 0..(TotalSeconds - 1) /\ b \in 0..(MSECS - 1) BY <2>1, <2>2
    <2> HIDE DEF a, b, c, d
    <2>5. \/ c * MSECS + d = (a * MSECS + b) + 1
          \/ (a * MSECS + b) + 1 = TotalSeconds * MSECS /\ c * MSECS + d = 0
        BY <2>1, <2>2, <2>3, <2>4, Digit
    <2> QED BY <2>5 DEF a, b, c, d
<1>9. Stamp(u) = SecondNumber(u) * MSECS + u.low.msec BY <1>2, StampParts
<1>10. Stamp(t) = SecondNumber(t) * MSECS + t.low.msec BY <1>1, StampParts
<1> QED BY <1>8, <1>9, <1>10, Century DEF u

\* The remainders of numbers less than a century apart.
LEMMA Remainder ==
    ASSUME NEW R \in Nat \ {0}, NEW n \in Int
    PROVE  /\ n % R \in 0..(R - 1)
           /\ \E j \in Int : n = (n % R) + j * R
<1>1. n = R * (n \div R) + (n % R) /\ n \div R \in Int /\ n % R \in 0..(R - 1)
    OBVIOUS
<1>2. n = (n % R) + (n \div R) * R BY <1>1
<1> QED BY <1>1, <1>2

LEMMA RemainderIs ==
    ASSUME NEW R \in Nat \ {0}, NEW j \in Int, NEW r \in 0..(R - 1)
    PROVE  (r + j * R) % R = r
OBVIOUS

LEMMA RemainderNext ==
    ASSUME NEW R \in Nat \ {0}, NEW n \in Int
    PROVE  ((n % R) + 1) % R = (n + 1) % R
<1>1. PICK j \in Int : n = (n % R) + j * R BY Remainder
<1>2. n % R \in 0..(R - 1) BY Remainder
<1> DEFINE r == n % R
<1> HIDE DEF r
<1>3. r \in 0..(R - 1) /\ n = r + j * R BY <1>1, <1>2 DEF r
<1>4. CASE r + 1 < R
    <2>1. PICK q \in 0..(R - 1) : q = r + 1 BY <1>3, <1>4
    <2>2. (q + j * R) % R = q BY RemainderIs
    <2>3. n + 1 = q + j * R BY <1>3, <2>1
    <2>4. q % R = q OBVIOUS
    <2> QED BY <2>1, <2>2, <2>3, <2>4 DEF r
<1>5. CASE r + 1 = R
    <2>1. 0 \in 0..(R - 1) /\ j + 1 \in Int BY <1>3
    <2>2. (0 + (j + 1) * R) % R = 0 /\ (0 + 1 * R) % R = 0
        BY <2>1, RemainderIs
    <2>3. n + 1 = 0 + (j + 1) * R /\ r + 1 = 0 + 1 * R
        <3>1. (j + 1) * R = j * R + R /\ j * R \in Int OBVIOUS
        <3> QED BY <1>3, <1>5, <3>1
    <2> QED BY <2>2, <2>3 DEF r
<1> QED BY <1>3, <1>4, <1>5

\* A tick adds one millisecond, over every carry.
LEMMA TickOne ==
    ASSUME NEW t, IsTime(t)
    PROVE  Stamp(Ticked(t)) = (Stamp(t) + 1) % CENTURY
<1>1. Stamp(t) \in 0..(CENTURY - 1) /\ CENTURY \in Nat \ {0} BY StampRange
<1>2. IsTime(Ticked(t)) BY TickedIsTime
<1>3. Stamp(Ticked(t)) \in 0..(CENTURY - 1) BY <1>2, StampRange
<1>4. CASE Stamp(Ticked(t)) = Stamp(t) + 1
    <2>1. (Stamp(Ticked(t)) + 0 * CENTURY) % CENTURY = Stamp(Ticked(t))
        BY <1>1, <1>3, RemainderIs
    <2> QED BY <1>1, <1>3, <1>4, <2>1
<1>5. CASE Stamp(t) + 1 = CENTURY /\ Stamp(Ticked(t)) = 0
    <2>1. 0 \in 0..(CENTURY - 1) BY <1>1
    <2>2. (0 + 1 * CENTURY) % CENTURY = 0 BY <1>1, <2>1, RemainderIs
    <2> QED BY <1>1, <1>5, <2>2
<1> QED BY <1>4, <1>5, TickedStamp

\* Every instant of the century is one of the calendar.
LEMMA FirstTime == IsTime(NoTime) /\ Stamp(NoTime) = 0
<1>1. /\ 0 \in Bytes /\ 1 \in Bytes /\ 1 \in Months /\ 0 \in 0..(MSECS - 1)
      /\ 0 < YEARS /\ 0 < HOURS /\ 0 < MINUTES /\ 0 < SECONDS
    BY Sizes, SmallBytes DEF Months
<1>2. NoTime.high \in Highs BY <1>1 DEF NoTime, Highs
<1>3. NoTime.low \in Lows BY <1>1 DEF NoTime, Lows
<1>4. DaysIn(0, 1) >= 1 BY <1>1, DaysInType
<1>5. IsDate(NoTime.high) BY <1>1, <1>2, <1>4 DEF NoTime, IsDate
<1>6. IsTime(NoTime)
    <2>1. NoTime \in [high: Highs, low: Lows] BY <1>2, <1>3 DEF NoTime
    <2> QED BY <1>1, <1>5, <2>1 DEF IsTime, NoTime
<1>7. MonthNumber(NoTime.high) = 0
    <2>1. MonthNumber(NoTime.high) = 0 * Len(MonthDays) + (1 - 1)
        BY DEF NoTime, MonthNumber
    <2> QED BY <2>1, Sizes
<1>8. DayNumber(NoTime.high) = 0 BY <1>7, DaysBeforeDef DEF NoTime, DayNumber
<1>9. HourNumber(NoTime.high) = 0 * HOURS + 0 BY <1>8, Zenon DEF NoTime, HourNumber
<1>10. HourNumber(NoTime.high) = 0 BY <1>9, Sizes
<1>11. MinuteNumber(NoTime) = 0 * MINUTES + 0 BY <1>10 DEF NoTime, MinuteNumber
<1>12. MinuteNumber(NoTime) = 0 BY <1>11, Sizes
<1>13. SecondNumber(NoTime) = 0 * SECONDS + 0 BY <1>12 DEF NoTime, SecondNumber
<1>14. SecondNumber(NoTime) = 0 BY <1>13, Sizes
<1>15. Stamp(NoTime) = 0 * MSECS + 0 BY <1>5, <1>14, StampParts DEF NoTime
<1> QED BY <1>6, <1>15, Sizes

LEMMA EveryInstant == \A n \in 0..(CENTURY - 1) : \E t : IsTime(t) /\ Stamp(t) = n
<1> DEFINE S == {n \in 0..(CENTURY - 1) : ~ \E t : IsTime(t) /\ Stamp(t) = n}
<1> SUFFICES ASSUME S # {} PROVE FALSE OBVIOUS
<1>0. CENTURY \in Nat \ {0} BY FirstTime, StampRange
<1>1. S \subseteq Nat BY <1>0
<1>2. PICK n \in S : \A m \in S : n <= m BY <1>1, LeastNumber
<1>3. n \in 0..(CENTURY - 1) /\ ~ \E t : IsTime(t) /\ Stamp(t) = n OBVIOUS
<1>4. n # 0 BY <1>3, FirstTime
<1>5. n - 1 \in 0..(CENTURY - 1) /\ n - 1 \notin S BY <1>0, <1>2, <1>3, <1>4
<1>6. PICK t : IsTime(t) /\ Stamp(t) = n - 1 BY <1>5
<1>7. Stamp(Ticked(t)) = n
    <2>1. Stamp(t) + 1 = n /\ n # CENTURY BY <1>0, <1>3, <1>6
    <2> QED BY <1>6, <2>1, TickedStamp
<1>8. IsTime(Ticked(t)) BY <1>6, TickedIsTime
<1> QED BY <1>3, <1>7, <1>8

LEMMA TimesAreTimes == \A t : t \in Times <=> IsTime(t)
BY DEF Times, IsTime

LEMMA TimeAtIs ==
    ASSUME NEW n \in 0..(CENTURY - 1)
    PROVE  IsTime(TimeAt[n]) /\ Stamp(TimeAt[n]) = n
<1>1. \E t \in Times : Stamp(t) = n BY EveryInstant, TimesAreTimes
<1>2. TimeAt[n] = CHOOSE t \in Times : Stamp(t) = n BY DEF TimeAt
<1>3. TimeAt[n] \in Times /\ Stamp(TimeAt[n]) = n
    <2> HIDE DEF Times
    <2> QED BY <1>1, <1>2
<1> QED BY <1>3, TimesAreTimes

\* The shorter way around the century is the way itself when it is short.
LEMMA AheadIs ==
    ASSUME NEW m \in Int, NEW n \in Int, NEW v \in Int, NEW j \in Int,
           CENTURY \in Nat \ {0}, m - n = v + j * CENTURY,
           -CENTURY < 2 * v, 2 * v < CENTURY
    PROVE  Ahead(m, n) = v
<1>1. CASE v >= 0
    <2>1. v \in 0..(CENTURY - 1) BY <1>1
    <2>2. (m - n) % CENTURY = v BY <2>1, RemainderIs
    <2> QED BY <2>2 DEF Ahead
<1>2. CASE v < 0
    <2>1. v + CENTURY \in 0..(CENTURY - 1) /\ j - 1 \in Int BY <1>2
    <2>2. ((v + CENTURY) + (j - 1) * CENTURY) % CENTURY = v + CENTURY
        BY <2>1, RemainderIs
    <2>3. (v + CENTURY) + (j - 1) * CENTURY = m - n
        <3>1. (j - 1) * CENTURY = j * CENTURY - CENTURY /\ j * CENTURY \in Int OBVIOUS
        <3> QED BY <3>1
    <2>4. (m - n) % CENTURY = v + CENTURY BY <2>2, <2>3
    <2>5. 2 * (v + CENTURY) > CENTURY /\ (v + CENTURY) - CENTURY = v OBVIOUS
    <2> QED BY <2>4, <2>5 DEF Ahead
<1> QED BY <1>1, <1>2
-----------------------------------------------------------------------------
LEMMA InitRestart == Init => RestartInv
<1> SUFFICES ASSUME Init PROVE PassInv /\ AheadInv BY DEF RestartInv
<1>1. PassInv BY IdleType DEF Init, PassInv
<1>2. LinksIdle BY DEF Init, LinksIdle, IdleSet
<1>3. ASSUME rtc.is = "current"
      PROVE  /\ IsDate(TIME.high) /\ TIME.low.minute < MINUTES /\ TIME.low.second < SECONDS
             /\ rtc.ahead \in -(MSECS \div 2 + MAX_SLOW)..(2 * MSECS - 1)
    <2>1. IsTime(TIME) /\ rtc.ahead \in 0..(MSECS - 1) BY <1>3, ChipRead DEF Init
    <2> DEFINE half == MSECS \div 2
    <2>2. half \in Nat BY Sizes
    <2> HIDE DEF half
    <2>3. rtc.ahead \in -(half + MAX_SLOW)..(2 * MSECS - 1) BY <2>1, <2>2, Sizes
    <2>4. IsDate(TIME.high) /\ TIME.low.minute < MINUTES /\ TIME.low.second < SECONDS
        BY <2>1 DEF IsTime
    <2> QED BY <2>3, <2>4 DEF half
<1>4. AheadInv BY <1>2, <1>3 DEF AheadInv
<1> QED BY <1>1, <1>4

\* What a tick does to how far the chip is ahead: nothing, but for a second 60.
LEMMA TickAhead ==
    ASSUME TypeOK, AheadInv, rtc.is = "current", Tick
    PROVE  AheadInv'
<1>0. TIME \in [high: Highs, low: Lows] /\ WorkOK BY DEF TypeOK, WorkOK, PassAts
<1>1. LinksIdle /\ IsDate(TIME.high) /\ TIME.low.minute < MINUTES BY DEF AheadInv
<1>2. TickTo(Ticked(TIME)) /\ TIME' = Ticked(TIME) BY <1>1, TickIs
<1>3. setting' = setting /\ rtc'.ahead = rtc.ahead + Lost(TIME.low)
    BY <1>2 DEF TickTo
<1>4. LinksIdle' BY <1>1, <1>3 DEF LinksIdle
<1>5. MSECS \in Nat /\ SECONDS \in Nat \ {0} /\ MINUTES \in Nat \ {0} BY Sizes
<1>6. CASE /\ TIME.low.second < SECONDS
           /\ rtc.ahead \in -(MSECS \div 2 + MAX_SLOW)..(2 * MSECS - 1)
    <2>1. IsTime(TIME) BY <1>0, <1>1, <1>6 DEF IsTime
    <2>2. IsTime(TIME') BY <1>2, <2>1, TickedIsTime
    <2>3. Inc(TIME.low.second) = TIME.low.second + 1 /\ TIME.low.second \in 0..(SECONDS - 1)
        BY <2>1, TimeParts
    <2>4. Lost(TIME.low) = 0
        <3>1. CASE NewMinute(TIME.low)
            <4>1. TIME.low.second + 1 - SECONDS = 0 BY <1>5, <2>3, <3>1 DEF NewMinute
            <4>2. MSECS * 0 = 0 BY <1>5
            <4> QED BY <3>1, <4>1, <4>2 DEF Lost
        <3>2. CASE ~NewMinute(TIME.low) BY <3>2 DEF Lost
        <3> QED BY <3>1, <3>2
    <2>5. rtc'.ahead = rtc.ahead
        <3>1. rtc.ahead \in Int
            <4> DEFINE half == MSECS \div 2
            <4>1. half \in Nat BY Sizes
            <4> HIDE DEF half
            <4>2. rtc.ahead \in -(half + MAX_SLOW)..(2 * MSECS - 1) BY <1>6 DEF half
            <4> QED BY <4>1, <4>2, Sizes
        <3> QED BY <1>3, <2>4, <3>1
    <2>6. IsDate(TIME'.high) /\ TIME'.low.minute < MINUTES /\ TIME'.low.second < SECONDS
        BY <2>2 DEF IsTime
    <2> QED BY <1>4, <1>6, <2>5, <2>6 DEF AheadInv
<1>7. CASE TIME.low.second = SECONDS /\ rtc.ahead \in 0..(MSECS - 1)
    <2>1. /\ TIME.low.minute \in 0..(MINUTES - 1) /\ TIME.low.msec \in 0..(MSECS - 1)
          /\ Inc(TIME.low.minute) = TIME.low.minute + 1 /\ Inc(TIME.low.second) = SECONDS + 1
        <3>1. TIME.low \in Lows /\ TIME.low.second <= SECONDS BY <1>0, <1>5, <1>7
        <3> QED BY <1>1, <1>7, <3>1, LowParts
    <2>2. /\ TIME'.high = IF NewHour(TIME.low) THEN NextDate(TIME.high) ELSE TIME.high
          /\ TIME'.low.minute = IF NewHour(TIME.low) THEN 0
                                ELSE IF NewMinute(TIME.low) THEN TIME.low.minute + 1
                                ELSE TIME.low.minute
          /\ TIME'.low.second = IF NewMinute(TIME.low) THEN 0
                                ELSE IF NewSecond(TIME.low) THEN SECONDS + 1 ELSE SECONDS
        BY <1>2, <1>7, <2>1 DEF Ticked, NextLow
    <2>3. IsDate(TIME'.high) BY <1>1, <2>2, NextDateDate
    <2>4. TIME'.low.minute < MINUTES
        <3>1. NewMinute(TIME.low) /\ ~NewHour(TIME.low) => TIME.low.minute + 1 < MINUTES
            BY <1>5, <2>1 DEF NewHour
        <3> QED BY <1>1, <1>5, <2>2, <3>1
    <2>5. CASE NewSecond(TIME.low)
        <3>1. NewMinute(TIME.low) BY <1>5, <2>1, <2>5 DEF NewMinute
        <3>2. TIME'.low.second < SECONDS BY <1>5, <2>2, <3>1
        <3>3. Lost(TIME.low) = MSECS
            <4>1. TIME.low.second + 1 - SECONDS = 1 /\ MSECS * 1 = MSECS BY <1>5, <1>7
            <4> QED BY <3>1, <4>1 DEF Lost
        <3> DEFINE half == MSECS \div 2
        <3>4. half \in Nat BY Sizes
        <3> HIDE DEF half
        <3>5. rtc'.ahead \in -(half + MAX_SLOW)..(2 * MSECS - 1)
            BY <1>3, <1>7, <3>3, <3>4, Sizes
        <3> QED BY <1>4, <2>3, <2>4, <3>2, <3>5 DEF AheadInv, half
    <2>6. CASE ~NewSecond(TIME.low)
        <3>1. ~NewMinute(TIME.low) BY <2>6 DEF NewMinute
        <3>2. TIME'.low.second = SECONDS BY <2>2, <2>6, <3>1
        <3>3. Lost(TIME.low) = 0 BY <3>1 DEF Lost
        <3>4. rtc'.ahead \in 0..(MSECS - 1) BY <1>3, <1>5, <1>7, <3>3
        <3> QED BY <1>4, <2>3, <2>4, <3>2, <3>4 DEF AheadInv
    <2> QED BY <2>5, <2>6
<1> QED BY <1>6, <1>7 DEF AheadInv

\* A tick that changes nothing a pass will read leaves it the time it reads.
LEMMA TickPass ==
    ASSUME TypeOK, PassInv, Tick
    PROVE  PassInv'
<1>0. WorkOK BY DEF TypeOK, WorkOK, PassAts
<1>1. TickTo(TIME') /\ (work.at > 0 => work.slow < MAX_SLOW) BY DEF Tick, TickTo
<1>2. LinksIdle' = LinksIdle BY <1>1 DEF TickTo, LinksIdle
<1>3. /\ work'.at = work.at /\ work'.clean = work.clean
      /\ work.at > 0 => work'.slow = work.slow + 1
      /\ work.at > 0 => (work'.torn <=>
             work.torn \/ (work.at > 1 /\ \E k \in work.at..READS :
                                             Reads(TIME')[k] # Reads(TIME)[k]))
      /\ work.at > 0 /\ ~work'.torn => work'.buf = work.buf
    BY <1>0, <1>1, TickWork
<1>4. work.at = 1 => work'.clean /\ ~work'.torn /\ work'.buf = <<>>
    <2>1. work.at = 1 => work.at > 0 /\ ~(work.at > 1) OBVIOUS
    <2> QED BY <1>3, <2>1 DEF PassInv
<1>5. work.at > 1 /\ work'.clean => LinksIdle' BY <1>2, <1>3 DEF PassInv
<1>6. ASSUME work.at > 1, work'.clean, ~work'.torn
      PROVE  /\ work'.buf \in Seq(Nat) /\ Len(work'.buf) = work.at - 1
             /\ IsTime(TIME') /\ \E t \in Times : ReadFrom(t)'
    <2>0. work.at > 0 BY <1>0, <1>6 DEF WorkOK, PassAts, READS
    <2>1. /\ ~work.torn /\ work.clean /\ work'.buf = work.buf
          /\ \A k \in work.at..READS : Reads(TIME')[k] = Reads(TIME)[k]
        BY <1>3, <1>6, <2>0
    <2>2. /\ work.buf \in Seq(Nat) /\ Len(work.buf) = work.at - 1
          /\ IsTime(TIME) /\ \E t \in Times : ReadFrom(t)
        BY <1>6, <2>1 DEF PassInv
    <2>3. TIME' = Ticked(TIME) BY <2>2, TimeParts, TickIs
    <2>4. IsTime(TIME') BY <2>2, <2>3, TickedIsTime
    <2>5. PICK t \in Times : ReadFrom(t) BY <2>2
    <2>6. \A k \in 1..READS : IF k < work.at THEN work.buf[k] = Reads(t)[k]
                              ELSE Reads(TIME')[k] = Reads(t)[k]
        <3>1. work.at \in Nat BY <1>0 DEF WorkOK, PassAts, READS
        <3>2. \A k \in 1..READS : ~(k < work.at) => k \in work.at..READS
            BY <3>1 DEF READS
        <3>3. \A k \in 1..READS : IF k < work.at THEN work.buf[k] = Reads(t)[k]
                                  ELSE Reads(TIME)[k] = Reads(t)[k]
            BY <2>5 DEF ReadFrom
        <3> QED BY <2>1, <3>2, <3>3
    <2>7. PICK n \in 0..work.slow : Stamp(TIME) = (Stamp(t) + n) % CENTURY
        BY <2>5 DEF ReadFrom
    <2>8. Stamp(TIME') = (Stamp(t) + (n + 1)) % CENTURY
        <3> DEFINE a == Stamp(t) + n
        <3>1. IsTime(t) BY <2>5, TimesAreTimes
        <3>2. Stamp(t) \in 0..(CENTURY - 1) /\ CENTURY \in Nat \ {0} BY <3>1, StampRange
        <3>3. a \in Int /\ Stamp(t) + (n + 1) = a + 1 BY <3>2
        <3>4. Stamp(TIME') = ((a % CENTURY) + 1) % CENTURY BY <2>2, <2>3, <2>7, TickOne
        <3> HIDE DEF a
        <3> QED BY <3>2, <3>3, <3>4, RemainderNext
    <2>9. n + 1 \in 0..work'.slow
        <3>1. work.slow \in Nat /\ work'.slow = work.slow + 1
            BY <1>0, <1>3, <2>0, Sizes DEF WorkOK
        <3> QED BY <3>1
    <2>10. ReadFrom(t)' BY <1>3, <2>1, <2>6, <2>8, <2>9 DEF ReadFrom
    <2> QED BY <2>1, <2>2, <2>4, <2>5, <2>10
<1> QED BY <1>3, <1>4, <1>5, <1>6 DEF PassInv

LEMMA TickRestart == TimeValid /\ RestartInv /\ Tick => RestartInv'
<1> SUFFICES ASSUME TypeOK, PassInv, AheadInv, Tick PROVE PassInv' /\ AheadInv'
    BY DEF RestartInv, TimeValid
<1>1. CASE rtc.is = "current" BY <1>1, TickPass, TickAhead
<1>2. CASE rtc.is # "current"
    <2>1. rtc'.is # "current" BY <1>2 DEF Tick, TickTo
    <2> QED BY <2>1, TickPass DEF AheadInv
<1> QED BY <1>1, <1>2

LEMMA ModifyRestart ==
    ASSUME TimeValid, RestartInv, NEW l \in Links, Modify(l)
    PROVE  RestartInv'
<1> SUFFICES PassInv' /\ AheadInv' BY DEF RestartInv
<1>0. PassInv /\ AheadInv BY DEF RestartInv
<1>1. ASSUME NEW t \in Settings, SetHigh(l, t) PROVE PassInv' /\ AheadInv'
    <2>1. rtc'.is # "current" BY <1>1 DEF SetHigh
    <2>2. CASE work.at > 1
        <3>1. work'.at = work.at /\ ~work'.clean BY <1>1, <2>2 DEF SetHigh, Disturbed
        <3>2. work'.at # 1 BY <2>2, <3>1
        <3> QED BY <2>1, <3>1, <3>2 DEF PassInv, AheadInv
    <2>3. CASE ~(work.at > 1)
        <3>1. work' = work BY <1>1, <2>3 DEF SetHigh
        <3> QED BY <1>0, <2>1, <2>3, <3>1 DEF PassInv, AheadInv
    <2> QED BY <2>2, <2>3
<1>2. CASE SetLow(l) \/ SetFlag(l)
    <2>1. ~LinksIdle BY <1>2 DEF SetLow, SetFlag, LinksIdle
    <2>2. UNCHANGED <<rtc, work>> BY <1>2 DEF SetLow, SetFlag
    <2>3. rtc'.is # "current" BY <1>0, <2>1, <2>2 DEF AheadInv
    <2>4. ~(work'.at > 1 /\ work'.clean) BY <1>0, <2>1, <2>2 DEF PassInv
    <2> QED BY <1>0, <2>2, <2>3, <2>4 DEF PassInv, AheadInv
<1> QED BY <1>1, <1>2 DEF Modify
\* A number is made of its two digits.
LEMMA TwoDigits ==
    ASSUME NEW n \in Nat
    PROVE  BASE * (n \div BASE) + (n % BASE) = n
BY Sizes

\* The stamp of what a pass has read of a time: the seconds are rounded.
LEMMA WrittenStamp ==
    ASSUME NEW t, IsTime(t), NEW b, \A k \in 1..READS : b[k] = Reads(t)[k]
    PROVE  \E v \in -(MSECS \div 2)..(MSECS \div 2) : Stamp(Written(b)) = Stamp(t) + v
<1> DEFINE half == MSECS \div 2
           w == Written(b)
           q == t.low.msec \div half
           s == SecondNumber(t)
           Both(unit, ten) == BASE * (ten \div BASE) + (unit % BASE)
<1>1. /\ MSECS \in Nat /\ half \in Nat \ {0} /\ MSECS = 2 * half
      /\ MINUTES \in Nat /\ SECONDS \in Nat
    <2>1. MSECS \in Nat /\ MSECS > 1 /\ MSECS % 2 = 0 BY ClockAssumption
    <2> QED BY <2>1, Sizes
<1>2. /\ IsDate(t.high) /\ t.high \in Highs /\ t.low.msec \in 0..(MSECS - 1)
      /\ t.low.second \in Nat /\ t.low.minute \in Nat
      /\ t.high.hour \in Nat /\ t.high.day \in Nat /\ t.high.month \in Nat
      /\ t.high.year \in Nat
    BY TimeParts, DateParts, Sizes
<1>3. t.high = [year |-> t.high.year, month |-> t.high.month, day |-> t.high.day,
                hour |-> t.high.hour]
    BY <1>2 DEF Highs
<1>4. /\ b[1] = q /\ b[2] = t.low.second /\ b[3] = q /\ b[4] = t.low.second
      /\ b[5] = t.low.minute /\ b[6] = t.low.minute
      /\ b[7] = t.high.hour /\ b[8] = t.high.hour /\ b[9] = t.high.day /\ b[10] = t.high.day
      /\ b[11] = t.high.month /\ b[12] = t.high.month
      /\ b[13] = t.high.year /\ b[14] = t.high.year
    <2>1. \A k \in 1..14 : b[k] = Reads(t)[k] BY DEF READS
    <2> HIDE DEF half
    <2>2. Reads(t) = <<q, t.low.second, q, t.low.second, t.low.minute, t.low.minute,
                       t.high.hour, t.high.hour, t.high.day, t.high.day,
                       t.high.month, t.high.month, t.high.year, t.high.year>>
        BY DEF Reads, half
    <2> HIDE DEF q
    <2> QED BY <2>1, <2>2
<1>5. q \in {0, 1} /\ (q = 0 => t.low.msec < half) /\ (q = 1 => t.low.msec >= half)
    <2> DEFINE x == t.low.msec
    <2>1. x \in Nat /\ x < 2 * half BY <1>1, <1>2
    <2> HIDE DEF x, half
    <2>2. x < half => x \div half = 0 BY <1>1, <2>1
    <2>3. x >= half => x \div half = 1
        <3>1. x >= half => x = 1 * half + (x - half) /\ x - half \in 0..(half - 1)
            BY <1>1, <2>1
        <3> QED BY <1>1, <2>1, <3>1, Quotient
    <2> QED BY <1>1, <2>1, <2>2, <2>3 DEF x
<1> HIDE DEF q
<1>6. \A n \in Nat : Both(n, n) = n BY TwoDigits
<1>7. w = [high |-> [year |-> Both(b[13], b[14]), month |-> Both(b[11], b[12]),
                     day |-> Both(b[9], b[10]), hour |-> Both(b[7], b[8])],
           low |-> [minute |-> Both(b[5], b[6]),
                    second |-> Both(b[1] + b[2], b[3] + b[4]), msec |-> 0]]
    BY DEF Written
<1> HIDE DEF w, Both
<1>8. /\ Both(b[13], b[14]) = t.high.year /\ Both(b[11], b[12]) = t.high.month
      /\ Both(b[9], b[10]) = t.high.day /\ Both(b[7], b[8]) = t.high.hour
      /\ Both(b[5], b[6]) = t.low.minute
      /\ Both(b[1] + b[2], b[3] + b[4]) = t.low.second + q
    <2>1. q + t.low.second = t.low.second + q /\ t.low.second + q \in Nat BY <1>2, <1>5
    <2> QED BY <1>2, <1>4, <1>6, <2>1
<1>9. /\ w.high = t.high /\ w.low.minute = t.low.minute
      /\ w.low.second = t.low.second + q /\ w.low.msec = 0
    BY <1>3, <1>7, <1>8
<1>10. MinuteNumber(w) = MinuteNumber(t) BY <1>9 DEF MinuteNumber
<1>11. /\ s \in Nat /\ MinuteNumber(t) \in Nat /\ Stamp(t) \in Nat
       /\ Stamp(t) = s * MSECS + t.low.msec
    BY <1>2, StampRange, StampParts
<1>12. SecondNumber(w) = MinuteNumber(t) * SECONDS + (t.low.second + q)
    BY <1>9, <1>10 DEF SecondNumber
<1>13. s = MinuteNumber(t) * SECONDS + t.low.second BY DEF SecondNumber
<1>14. Stamp(w) = SecondNumber(w) * MSECS + 0 BY <1>2, <1>9, StampParts
<1> HIDE DEF s, half
<1>15. SecondNumber(w) = s + q
    <2>1. MinuteNumber(t) * SECONDS \in Int BY <1>1, <1>11
    <2> QED BY <1>2, <1>5, <1>12, <1>13, <2>1
<1>16. (s + 0) * MSECS = s * MSECS /\ (s + 1) * MSECS = s * MSECS + MSECS
       /\ s * MSECS \in Int
    BY <1>1, <1>11
<1>17. CASE q = 0
    <2>1. Stamp(w) = Stamp(t) + (-t.low.msec)
        BY <1>1, <1>2, <1>11, <1>14, <1>15, <1>16, <1>17
    <2>2. -t.low.msec \in -half..half BY <1>1, <1>2, <1>5, <1>17
    <2> QED BY <2>1, <2>2 DEF w, half
<1>18. CASE q = 1
    <2>1. Stamp(w) = Stamp(t) + (MSECS - t.low.msec)
        BY <1>1, <1>2, <1>11, <1>14, <1>15, <1>16, <1>18
    <2>2. MSECS - t.low.msec \in -half..half BY <1>1, <1>2, <1>5, <1>18
    <2> QED BY <2>1, <2>2 DEF w, half
<1> QED BY <1>5, <1>17, <1>18

LEMMA ReadsType ==
    ASSUME NEW t, IsTime(t), NEW k \in 1..READS
    PROVE  Reads(t)[k] \in Nat
<1>1. /\ t.low.second \in Nat /\ t.low.minute \in Nat /\ t.low.msec \in Nat
      /\ t.high.hour \in Nat /\ t.high.day \in Nat /\ t.high.month \in Nat
      /\ t.high.year \in Nat
    BY TimeParts, DateParts, Sizes
<1> DEFINE half == MSECS \div 2
           q == t.low.msec \div half
<1>2. half \in Nat \ {0} BY Sizes
<1> HIDE DEF half
<1>3. q \in Nat BY <1>1, <1>2
<1>4. Reads(t) = <<q, t.low.second, q, t.low.second, t.low.minute, t.low.minute,
                   t.high.hour, t.high.hour, t.high.day, t.high.day,
                   t.high.month, t.high.month, t.high.year, t.high.year>>
    BY DEF Reads, half
<1> HIDE DEF q
<1>5. k \in 1..14 BY DEF READS
<1> QED BY <1>1, <1>3, <1>4, <1>5
\* Every pass starts with a time of its own, and a read adds to what it knows.
LEMMA ReadPass ==
    ASSUME TypeOK, PassInv, ReadField
    PROVE  PassInv'
<1>0. WorkOK BY DEF TypeOK, WorkOK, PassAts
<1>1. /\ work.at \in 1..READS /\ LinksIdle
      /\ work'.at = work.at + 1 /\ work'.slow = work.slow /\ work'.clean = work.clean
      /\ work'.torn <=> work.torn \/ (work.at = 1 /\ ~IsTime(TIME))
      /\ work.clean /\ ~work'.torn => work'.buf = Append(work.buf, Reads(TIME)[work.at])
      /\ UNCHANGED <<TIME, setting>>
    BY <1>0, ReadStep
<1>2. LinksIdle' /\ work'.at # 1 /\ work.at \in Nat BY <1>1 DEF LinksIdle, READS
<1>3. ASSUME work.clean, ~work'.torn
      PROVE  /\ work'.buf \in Seq(Nat) /\ Len(work'.buf) = work'.at - 1
             /\ IsTime(TIME) /\ \E t \in Times : ReadFrom(t)'
    <2>1. ~work.torn /\ (work.at = 1 => IsTime(TIME)) BY <1>1, <1>3
    <2>2. work.buf \in Seq(Nat) /\ Len(work.buf) = work.at - 1 /\ IsTime(TIME)
        <3>1. CASE work.at = 1
            <4>1. work.buf = <<>> BY <3>1 DEF PassInv
            <4>2. <<>> \in Seq(Nat) /\ Len(<<>>) = 0 OBVIOUS
            <4> QED BY <2>1, <3>1, <4>1, <4>2
        <3>2. CASE work.at > 1 BY <1>3, <2>1, <3>2 DEF PassInv
        <3> QED BY <1>1, <1>2, <3>1, <3>2
    <2>3. \E t \in Times : ReadFrom(t)
        <3>1. CASE work.at = 1
            <4>1. TIME \in Times BY <2>2, TimesAreTimes
            <4>2. Stamp(TIME) \in 0..(CENTURY - 1) /\ CENTURY \in Nat \ {0}
                BY <2>2, StampRange
            <4>3. Stamp(TIME) = (Stamp(TIME) + 0) % CENTURY BY <4>2
            <4>4. 0 \in 0..work.slow BY <1>0, Sizes DEF WorkOK
            <4>5. \A k \in 1..READS : ~(k < work.at) BY <3>1 DEF READS
            <4>6. ReadFrom(TIME) BY <4>3, <4>4, <4>5 DEF ReadFrom
            <4> QED BY <4>1, <4>6
        <3>2. CASE work.at > 1 BY <1>3, <2>1, <3>2 DEF PassInv
        <3> QED BY <1>1, <1>2, <3>1, <3>2
    <2>4. PICK t \in Times : ReadFrom(t) BY <2>3
    <2> DEFINE r == Reads(TIME)[work.at]
    <2>5. r \in Nat BY <1>1, <2>2, ReadsType
    <2>6. work'.buf = Append(work.buf, r) BY <1>1, <1>3
    <2>7. r = Reads(t)[work.at]
        <3>1. ~(work.at < work.at) BY <1>2
        <3> QED BY <1>1, <2>4, <3>1 DEF ReadFrom
    <2> HIDE DEF r
    <2>8. work'.buf \in Seq(Nat) /\ Len(work'.buf) = work'.at - 1
        BY <1>1, <1>2, <2>2, <2>5, <2>6
    <2>9. work'.buf[work.at] = r /\ \A k \in 1..(work.at - 1) : work'.buf[k] = work.buf[k]
        BY <1>1, <1>2, <2>2, <2>5, <2>6
    <2>10. ASSUME NEW k \in 1..READS
           PROVE  IF k < work'.at THEN work'.buf[k] = Reads(t)[k]
                  ELSE Reads(TIME')[k] = Reads(t)[k]
        <3>0. k \in Nat /\ k >= 1 BY DEF READS
        <3>1. IF k < work.at THEN work.buf[k] = Reads(t)[k]
              ELSE Reads(TIME)[k] = Reads(t)[k]
            BY <2>4 DEF ReadFrom
        <3>2. CASE k < work.at
            <4>1. k \in 1..(work.at - 1) /\ k < work'.at BY <1>1, <1>2, <3>0, <3>2
            <4> QED BY <2>9, <3>1, <3>2, <4>1
        <3>3. CASE k = work.at
            <4>1. k < work'.at BY <1>1, <1>2, <3>0, <3>3
            <4> QED BY <2>7, <2>9, <3>3, <4>1
        <3>4. CASE k > work.at
            <4>1. ~(k < work'.at) /\ ~(k < work.at) BY <1>1, <1>2, <3>0, <3>4
            <4> QED BY <1>1, <3>1, <4>1
        <3> QED BY <1>2, <3>0, <3>2, <3>3, <3>4
    <2>11. ReadFrom(t)' BY <1>1, <2>4, <2>10 DEF ReadFrom
    <2> QED BY <2>2, <2>4, <2>8, <2>11
<1> QED BY <1>1, <1>2, <1>3 DEF PassInv

\* What a chip that was just written is ahead of TIME by.
LEMMA WriteAhead ==
    ASSUME TypeOK, PassInv, WriteChip, rtc'.is = "current"
    PROVE  AheadInv'
<1>0. WorkOK BY DEF TypeOK, WorkOK, PassAts
<1>1. /\ work.at = READS + 1 /\ LinksIdle /\ rtc' = Rewritten
      /\ UNCHANGED <<TIME, setting>>
    BY DEF WriteChip
<1>2. work.clean /\ ~work.torn BY <1>1 DEF Rewritten
<1>3. rtc'.ahead = Ahead(Stamp(Written(work.buf)), Stamp(TIME))
    BY <1>1, <1>2 DEF Rewritten
<1>4. IsTime(TIME) /\ \E t \in Times : ReadFrom(t)
    <2>1. work.at > 1 BY <1>1 DEF READS
    <2> QED BY <1>2, <2>1 DEF PassInv
<1>5. PICK t \in Times : ReadFrom(t) BY <1>4
<1>6. IsTime(t) /\ \A k \in 1..READS : work.buf[k] = Reads(t)[k]
    <2>1. \A k \in 1..READS : k < work.at BY <1>1 DEF READS
    <2> QED BY <1>5, <2>1, TimesAreTimes DEF ReadFrom
<1>7. PICK v \in -(MSECS \div 2)..(MSECS \div 2) :
          Stamp(Written(work.buf)) = Stamp(t) + v
    BY <1>6, WrittenStamp
<1>8. PICK n \in 0..work.slow : Stamp(TIME) = (Stamp(t) + n) % CENTURY
    BY <1>5 DEF ReadFrom
<1>9. Stamp(t) \in Nat /\ CENTURY \in Nat \ {0} BY <1>6, StampRange
<1>10. n \in Nat /\ n <= MAX_SLOW /\ MAX_SLOW \in Nat
    BY <1>0, <1>8, Sizes DEF WorkOK
<1> DEFINE half == MSECS \div 2
           a == Stamp(t) + n
<1>11. half \in Nat /\ half < MSECS /\ v \in -half..half /\ MSECS \in Nat
       /\ 2 * (MSECS + half + MAX_SLOW) < CENTURY
    <2>1. MSECS \in Nat /\ MSECS \div 2 \in Nat /\ MSECS \div 2 < MSECS BY Sizes
    <2> QED BY <1>7, <2>1, PassAssumption
<1>12. a \in Int /\ Stamp(TIME) = a % CENTURY BY <1>8, <1>9, <1>10
<1> HIDE DEF a, half
<1>13. PICK j \in Int : a = (a % CENTURY) + j * CENTURY BY <1>9, <1>12, Remainder
<1>14. Stamp(t) + n = Stamp(TIME) + j * CENTURY BY <1>12, <1>13 DEF a
<1>15. Stamp(TIME) \in Int BY <1>9, <1>12
<1>16. (Stamp(t) + v) - Stamp(TIME) = (v - n) + j * CENTURY
    <2>1. j * CENTURY \in Int BY <1>9
    <2> QED BY <1>9, <1>10, <1>11, <1>14, <1>15, <2>1
<1>17. v - n \in Int /\ -CENTURY < 2 * (v - n) /\ 2 * (v - n) < CENTURY
       /\ Stamp(t) + v \in Int
    BY <1>9, <1>10, <1>11
<1>18. Ahead(Stamp(t) + v, Stamp(TIME)) = v - n
    BY <1>9, <1>15, <1>16, <1>17, AheadIs
<1>19. v - n \in -(half + MAX_SLOW)..(2 * MSECS - 1) BY <1>10, <1>11
<1>20. rtc'.ahead \in -(MSECS \div 2 + MAX_SLOW)..(2 * MSECS - 1)
    BY <1>3, <1>7, <1>18, <1>19 DEF half
<1>21. /\ LinksIdle' /\ IsDate(TIME'.high) /\ TIME'.low.minute < MINUTES
       /\ TIME'.low.second < SECONDS
    BY <1>1, <1>4 DEF IsTime, LinksIdle
<1> QED BY <1>20, <1>21 DEF AheadInv

LEMMA PassRestart == TimeValid /\ RestartInv /\ SetRtc => RestartInv'
<1> SUFFICES ASSUME TypeOK, PassInv, AheadInv, SetRtc PROVE PassInv' /\ AheadInv'
    BY DEF RestartInv, TimeValid
<1>1. CASE Begin
    <2>1. /\ work'.at = 1 /\ work'.clean /\ ~work'.torn /\ work'.buf = <<>>
          /\ UNCHANGED <<TIME, rtc, setting>>
        BY <1>1 DEF Begin
    <2> QED BY <2>1 DEF PassInv, AheadInv, LinksIdle
<1>2. CASE ReadField
    <2>1. UNCHANGED <<TIME, rtc, setting>> BY <1>2 DEF ReadField
    <2> QED BY <1>2, <2>1, ReadPass DEF AheadInv, LinksIdle
<1>3. CASE WriteChip
    <2>1. work' = IdleWork BY <1>3 DEF WriteChip
    <2>2. PassInv' BY <2>1, IdleType DEF PassInv
    <2>3. CASE rtc'.is = "current" BY <1>3, <2>2, <2>3, WriteAhead
    <2>4. CASE rtc'.is # "current" BY <2>2, <2>4 DEF AheadInv
    <2> QED BY <2>3, <2>4
<1> QED BY <1>1, <1>2, <1>3 DEF SetRtc
-----------------------------------------------------------------------------
\* A date of the calendar has a stamp, whatever minutes and seconds come with it.
LEMMA StampInt ==
    ASSUME NEW t, IsDate(t.high), t.low \in Lows
    PROVE  /\ Stamp(t) = SecondNumber(t) * MSECS + t.low.msec
           /\ MinuteNumber(t) \in Int /\ SecondNumber(t) \in Int /\ Stamp(t) \in Int
<1>1. /\ t.high.hour \in Int /\ t.low.minute \in Int /\ t.low.second \in Int
      /\ t.low.msec \in Int
    <2>1. t.high.hour \in 0..(HOURS - 1) BY DateParts
    <2>2. t.low.minute \in Bytes /\ t.low.second \in Bytes /\ t.low.msec \in 0..(MSECS - 1)
        BY DEF Lows
    <2>3. t.high.hour \in Int /\ t.low.msec \in Int BY <2>1, <2>2, Sizes
    <2>4. t.low.minute \in Nat /\ t.low.second \in Nat BY <2>2, SmallBytes, Zenon
    <2> QED BY <2>3, <2>4
<1>2. DayNumber(t.high) \in 0..(TotalDays - 1) /\ TotalDays \in Nat BY DayNumberRange
<1>3. DayNumber(t.high) \in Int BY <1>2
<1>4. HourNumber(t.high) \in Int BY <1>1, <1>3, Sizes DEF HourNumber
<1>5. MinuteNumber(t) \in Int BY <1>1, <1>4, Sizes DEF MinuteNumber
<1>6. SecondNumber(t) \in Int BY <1>1, <1>5, Sizes DEF SecondNumber
<1>7. SecondNumber(t) * MSECS + t.low.msec \in Int BY <1>1, <1>6, Sizes
<1> QED BY <1>5, <1>6, <1>7, StampParts

\* What the chip shows is a time of the calendar, or one with second 60, and
\* the whole seconds of it.
LEMMA ShownIs ==
    ASSUME NEW x \in 0..(CENTURY - 1), Whole = x, NEW t \in Shown
    PROVE  /\ t \in [high: Highs, low: Lows] /\ IsDate(t.high) /\ t.low.minute < MINUTES
           /\ t.low.second < SECONDS \/ t.low.second = SECONDS
           /\ \E j \in Int : Stamp(t) = x + j * CENTURY
<1>0. CENTURY \in Nat \ {0} /\ MSECS \in Nat /\ SECONDS \in Nat \ {0}
    BY FirstTime, StampRange, Sizes
<1> DEFINE y == (x - MSECS) % CENTURY
           u == TimeAt[y]
<1>1. y \in 0..(CENTURY - 1) /\ \E j \in Int : x - MSECS = y + j * CENTURY
    <2>1. x - MSECS \in Int BY <1>0
    <2> QED BY <1>0, <2>1, Remainder
<1>2. IsTime(u) /\ Stamp(u) = y
    <2> HIDE DEF y
    <2> QED BY <1>1, TimeAtIs
<1>3. CASE t = TimeAt[x]
    <2>1. IsTime(t) /\ Stamp(t) = x BY <1>3, TimeAtIs
    <2>2. Stamp(t) = x + 0 * CENTURY BY <1>0, <2>1
    <2>3. /\ t \in [high: Highs, low: Lows] /\ IsDate(t.high) /\ t.low.minute < MINUTES
          /\ t.low.second < SECONDS
        BY <2>1 DEF IsTime
    <2> QED BY <2>2, <2>3
<1>4. CASE /\ u.low.second = SECONDS - 1 /\ u.low.msec = 0
           /\ t = [high |-> u.high,
                   low |-> [minute |-> u.low.minute, second |-> SECONDS, msec |-> 0]]
    <2> HIDE DEF u
    <2>1. /\ IsDate(u.high) /\ u.low \in Lows /\ u.low.minute \in 0..(MINUTES - 1)
        BY <1>2, TimeParts
    <2>2. /\ t.high = u.high /\ t.low.minute = u.low.minute /\ t.low.second = SECONDS
          /\ t.low.msec = 0
        BY <1>4
    <2>3. t.low \in Lows
        <3>1. t.low = [minute |-> u.low.minute, second |-> SECONDS, msec |-> 0] BY <1>4
        <3>2. u.low.minute \in Bytes /\ SECONDS \in Bytes /\ 0 \in 0..(MSECS - 1)
            BY <2>1, SmallBytes, Sizes
        <3> QED BY <3>1, <3>2 DEF Lows
    <2>4. t \in [high: Highs, low: Lows]
        <3>1. u.high \in Highs BY <2>1, DateParts
        <3> QED BY <1>4, <2>2, <2>3, <3>1
    <2>5. t.low.minute < MINUTES BY <2>1, <2>2, Sizes
    <2>6. SecondNumber(t) = SecondNumber(u) + 1
        <3>1. MinuteNumber(t) = MinuteNumber(u) BY <2>2 DEF MinuteNumber
        <3>2. MinuteNumber(u) \in Int BY <2>1, StampInt
        <3>3. SecondNumber(t) = MinuteNumber(u) * SECONDS + SECONDS
            BY <2>2, <3>1 DEF SecondNumber
        <3>4. SecondNumber(u) = MinuteNumber(u) * SECONDS + (SECONDS - 1)
            BY <1>4 DEF SecondNumber
        <3>5. MinuteNumber(u) * SECONDS \in Int BY <1>0, <3>2
        <3> QED BY <1>0, <3>3, <3>4, <3>5
    <2>7. Stamp(t) = y + MSECS
        <3>1. Stamp(t) = SecondNumber(t) * MSECS + 0 BY <2>1, <2>2, StampParts
        <3>2. y = SecondNumber(u) * MSECS + 0 BY <1>2, <1>4, <2>1, StampParts
        <3>3. SecondNumber(u) \in Int BY <2>1, StampInt
        <3>4. (SecondNumber(u) + 1) * MSECS = SecondNumber(u) * MSECS + MSECS
              /\ SecondNumber(u) * MSECS \in Int
            BY <1>0, <3>3
        <3> HIDE DEF y
        <3> QED BY <1>0, <2>6, <3>1, <3>2, <3>4
    <2> HIDE DEF y
    <2>8. PICK j \in Int : x - MSECS = y + j * CENTURY BY <1>1
    <2>9. Stamp(t) = x + (-j) * CENTURY
        <3>1. PICK z \in Int : z = j * CENTURY /\ (-j) * CENTURY = -z BY <1>0
        <3> QED BY <1>0, <1>1, <2>7, <2>8, <3>1
    <2>10. -j \in Int OBVIOUS
    <2> QED BY <2>1, <2>2, <2>4, <2>5, <2>9, <2>10
<1>5. t = TimeAt[x] \/ /\ u.low.second = SECONDS - 1 /\ u.low.msec = 0
                       /\ t = [high |-> u.high, low |-> [minute |-> u.low.minute,
                                                         second |-> SECONDS, msec |-> 0]]
    BY Zenon DEF Shown
<1> QED BY <1>3, <1>4, <1>5

\* The time read from a chip with the last setting.
LEMMA RestartStamp ==
    ASSUME TypeOK, AheadInv, rtc.is = "current", Restart
    PROVE  /\ TIME' \in [high: Highs, low: Lows]
           /\ IsDate(TIME'.high) /\ TIME'.low.minute < MINUTES
           /\ TIME'.low.second < SECONDS \/ TIME'.low.second = SECONDS
           /\ rtc'.is = "current" /\ rtc'.ahead \in 0..(MSECS - 1)
           /\ LET d == Ahead(Stamp(TIME'), Stamp(TIME)) IN
                  -(MSECS + MSECS \div 2 + MAX_SLOW) <= d /\ d < 2 * MSECS
<1> DEFINE c == Chip % MSECS
           x == Chip - (Chip % MSECS)
           s == Stamp(TIME)
           half == MSECS \div 2
<1>1. /\ s \in Int /\ CENTURY \in Nat \ {0} /\ MSECS \in Nat \ {0} /\ half \in Nat
      /\ MAX_SLOW \in Nat
    <2>1. IsDate(TIME.high) /\ TIME.low \in Lows BY DEF AheadInv, TypeOK
    <2>2. s \in Int BY <2>1, StampInt
    <2>3. CENTURY \in Nat \ {0} BY FirstTime, StampRange
    <2>4. MSECS \in Nat \ {0} /\ half \in Nat /\ MAX_SLOW \in Nat BY Sizes
    <2> QED BY <2>2, <2>3, <2>4
<1>2. rtc.ahead \in Int /\ -(half + MAX_SLOW) <= rtc.ahead /\ rtc.ahead <= 2 * MSECS - 1
    <2>1. \/ rtc.ahead \in -(half + MAX_SLOW)..(2 * MSECS - 1)
          \/ rtc.ahead \in 0..(MSECS - 1)
        BY DEF AheadInv
    <2> HIDE DEF half
    <2> QED BY <1>1, <2>1
<1>3. Chip = (s + rtc.ahead) % CENTURY BY DEF Chip, ChipAt
<1> HIDE DEF s, half
<1>4. Chip \in 0..(CENTURY - 1) /\ \E j \in Int : s + rtc.ahead = Chip + j * CENTURY
    <2>1. s + rtc.ahead \in Int BY <1>1, <1>2
    <2> QED BY <1>1, <1>3, <2>1, Remainder
<1>5. PICK j \in Int : s + rtc.ahead = Chip + j * CENTURY BY <1>4
<1>6. Whole = x BY DEF Whole
<1>7. TIME' \in Shown /\ rtc'.is = "current" /\ rtc'.ahead = c BY DEF Restart
<1> HIDE DEF Chip
<1>8. c \in 0..(MSECS - 1) /\ c <= Chip
    <2>1. Chip \in Nat BY <1>1, <1>4
    <2>2. c \in 0..(MSECS - 1) /\ Chip = MSECS * (Chip \div MSECS) + c /\ Chip \div MSECS \in Nat
        BY <1>1, <2>1
    <2>3. MSECS * (Chip \div MSECS) >= 0 BY <1>1, <2>2
    <2> HIDE DEF c
    <2>4. MSECS * (Chip \div MSECS) \in Int BY <1>1, <2>2
    <2> QED BY <2>1, <2>2, <2>3, <2>4
<1>9. x = Chip - c OBVIOUS
<1> HIDE DEF c, x
<1>10. x \in 0..(CENTURY - 1) BY <1>1, <1>4, <1>8, <1>9
<1>11. /\ TIME' \in [high: Highs, low: Lows]
       /\ IsDate(TIME'.high) /\ TIME'.low.minute < MINUTES
       /\ TIME'.low.second < SECONDS \/ TIME'.low.second = SECONDS
       /\ \E i \in Int : Stamp(TIME') = x + i * CENTURY
    BY <1>6, <1>7, <1>10, ShownIs
<1>12. PICK i \in Int : Stamp(TIME') = x + i * CENTURY BY <1>11
<1>13. Stamp(TIME') \in Int BY <1>1, <1>10, <1>12
<1>14. Ahead(Stamp(TIME'), s) = rtc.ahead - c
    <2>1. Chip \in Int /\ c \in Int /\ x \in Int BY <1>1, <1>4, <1>8, <1>10
    <2>2. /\ 2 * (MSECS + half + MAX_SLOW) < CENTURY /\ 4 * MSECS < CENTURY
        BY PassAssumption DEF half
    <2>3. Stamp(TIME') - s = (rtc.ahead - c) + (i - j) * CENTURY
        <3>1. PICK y \in Int : y = j * CENTURY BY <1>1
        <3>2. PICK z \in Int : z = i * CENTURY BY <1>1
        <3>3. (i - j) * CENTURY = z - y BY <1>1, <3>1, <3>2
        <3>4. s + rtc.ahead = Chip + y /\ Stamp(TIME') = x + z BY <1>5, <1>12, <3>1, <3>2
        <3> QED BY <1>1, <1>2, <1>9, <2>1, <3>3, <3>4
    <2>4. rtc.ahead - c \in Int /\ -CENTURY < 2 * (rtc.ahead - c)
          /\ 2 * (rtc.ahead - c) < CENTURY /\ i - j \in Int
        BY <1>1, <1>2, <1>8, <2>1, <2>2
    <2> QED BY <1>1, <1>13, <2>3, <2>4, AheadIs
<1>15. -(MSECS + half + MAX_SLOW) <= rtc.ahead - c /\ rtc.ahead - c < 2 * MSECS
    BY <1>1, <1>2, <1>8
<1> QED BY <1>7, <1>8, <1>11, <1>14, <1>15 DEF s, half
LEMMA RestartRestart == TimeValid /\ RestartInv /\ Restart => RestartInv'
<1> SUFFICES ASSUME TypeOK, AheadInv, Restart PROVE PassInv' /\ AheadInv'
    BY DEF RestartInv, TimeValid
<1>1. work' = IdleWork /\ setting' = [l \in Links |-> IdleSet] BY DEF Restart
<1>2. PassInv' BY <1>1, IdleType DEF PassInv
<1>3. LinksIdle' BY <1>1 DEF LinksIdle, IdleSet
<1> DEFINE half == MSECS \div 2
<1>4. half \in Nat BY Sizes
<1>5. ASSUME rtc'.is = "current"
      PROVE  /\ IsDate(TIME'.high) /\ TIME'.low.minute < MINUTES
             /\ TIME'.low.second < SECONDS \/ TIME'.low.second = SECONDS
             /\ rtc'.ahead \in 0..(MSECS - 1)
    <2>1. CASE rtc.is = "current" BY <2>1, RestartStamp
    <2>2. CASE rtc.is # "current"
        <3>1. rtc' \in ReadOff(TIME') BY <2>2 DEF Restart
        <3>2. IsTime(TIME') /\ rtc'.ahead \in 0..(MSECS - 1) BY <1>5, <3>1, ChipRead
        <3> QED BY <3>2 DEF IsTime
    <2> QED BY <2>1, <2>2
<1> HIDE DEF half
<1>6. rtc'.ahead \in 0..(MSECS - 1) => rtc'.ahead \in -(half + MAX_SLOW)..(2 * MSECS - 1)
    BY <1>4, Sizes
<1>7. AheadInv' BY <1>3, <1>5, <1>6 DEF AheadInv, half
<1> QED BY <1>2, <1>7

LEMMA RestartValid == TimeValid /\ RestartInv /\ Restart => TimeValid'
<1> SUFFICES ASSUME TypeOK, AheadInv, Restart PROVE TimeValid'
    BY DEF RestartInv, TimeValid
<1>1. TIME' \in [high: Highs, low: Lows] /\ rtc'.is \in {"current", "slipped"}
    <2>1. CASE rtc.is = "current" BY <2>1, RestartStamp
    <2>2. CASE rtc.is # "current"
        <3>1. TIME' \in Others /\ rtc' \in ReadOff(TIME') BY <2>2 DEF Restart
        <3> QED BY <3>1, GivenTimes, ChipRead
    <2> QED BY <2>1, <2>2
<1>2. /\ wild' = ~IsDate(TIME'.high)
      /\ time_write_flg' = FALSE /\ refused' = FALSE /\ work' = IdleWork
      /\ setting' = [l \in Links |-> IdleSet]
    BY DEF Restart
<1>3. setting' \in [Links -> Sets] /\ \A l \in Links : setting'[l].at = "idle"
    BY <1>2 DEF IdleSet, Sets
<1> QED BY <1>1, <1>2, <1>3, IdleType DEF TimeValid, TypeOK, Sets, PassAts

\* Types, dates and what a restart needs hold together: what the chip shows is
\* of the calendar because the chip that runs with TIME was given a time of it.
ClockInv == TimeValid /\ RestartInv

LEMMA NextClock == ClockInv /\ [Next]_vars => ClockInv'
<1>1. ClockInv /\ UNCHANGED vars => ClockInv'
    <2>1. TimeValid /\ UNCHANGED vars => TimeValid' BY DEF vars, TimeValid, TypeOK
    <2>2. PassInv /\ UNCHANGED vars => PassInv'
        BY DEF vars, PassInv, ReadFrom, LinksIdle
    <2>3. AheadInv /\ UNCHANGED vars => AheadInv' BY DEF vars, AheadInv, LinksIdle
    <2> QED BY <2>1, <2>2, <2>3 DEF ClockInv, RestartInv
<1>2. ClockInv /\ Tick => ClockInv' BY TickValid, TickRestart DEF ClockInv
<1>3. ClockInv /\ SetRtc => ClockInv' BY PassValid, PassRestart DEF ClockInv
<1>4. ClockInv /\ Restart => ClockInv' BY RestartValid, RestartRestart DEF ClockInv
<1>5. ASSUME ClockInv, NEW l \in Links, Modify(l) PROVE ClockInv'
    BY <1>5, ModifyValid, ModifyRestart DEF ClockInv
<1> QED BY <1>1, <1>2, <1>3, <1>4, <1>5 DEF Next

LEMMA ClockInvariant == Spec => []ClockInv
<1>1. Init => ClockInv BY InitValid, InitRestart DEF ClockInv
<1> QED BY <1>1, NextClock, PTL DEF Spec

\* Time, settings, chip and passes keep their types, whatever bytes the masters
\* and the chip give.
THEOREM ClockTypes == Spec => []TypeOK
<1>1. ClockInv => TypeOK BY DEF ClockInv, TimeValid
<1> QED BY <1>1, ClockInvariant, PTL

\* TIME has a date of the calendar as long as the date last set, or read from
\* the chip, was one.
THEOREM DatesValid == Spec => []TimeValid
<1>1. ClockInv => TimeValid BY DEF ClockInv
<1> QED BY <1>1, ClockInvariant, PTL

\* A pass reads one time as long as neither a setting nor a carry disturbs it,
\* and a chip that runs with TIME is never far from it.
THEOREM RestartInvariant == Spec => []RestartInv
<1>1. ClockInv => RestartInv BY DEF ClockInv
<1> QED BY <1>1, ClockInvariant, PTL

\* system_time_increase adds one millisecond to a time of the calendar, over
\* every carry.
THEOREM TicksAdd == Spec => TickAdds
<1>1. [Next]_vars =>
          [IsTime(TIME) /\ Tick => Stamp(TIME') = (Stamp(TIME) + 1) % CENTURY]_vars
    <2>1. ASSUME IsTime(TIME), Tick PROVE Stamp(TIME') = (Stamp(TIME) + 1) % CENTURY
        <3>1. TIME' = Ticked(TIME) BY <2>1, TimeParts, TickIs
        <3> QED BY <2>1, <3>1, TickOne
    <2> QED BY <2>1
<1> QED BY <1>1, PTL DEF Spec, TickAdds

\* What set_rtc wrote and get_rtc reads back differs from TIME by no more than
\* the rounding of the seconds, the lost milliseconds, a second 60 and the
\* length of a pass.
THEOREM RestartIsClose == Spec => RestartKeeps
<1>1. ClockInv /\ [Next]_vars =>
          [rtc.is = "current" /\ Restart =>
           LET d == Ahead(Stamp(TIME'), Stamp(TIME)) IN
               -(MSECS + MSECS \div 2 + MAX_SLOW) <= d /\ d < 2 * MSECS]_vars
    BY RestartStamp DEF ClockInv, TimeValid, RestartInv
<1> QED BY <1>1, ClockInvariant, PTL DEF Spec, RestartKeeps

-----------------------------------------------------------------------------
LEMMA InitRtc == Init => RtcInv
<1>1. Init => rtc.is \in {"current", "slipped"} BY ChipRead DEF Init
<1>2. Init => work.at = 0 BY DEF Init, IdleWork
<1> QED BY <1>1, <1>2 DEF RtcInv, RtcFollows

LEMMA NextRtc == TypeOK /\ RtcInv /\ [Next]_vars => RtcInv'
<1> SUFFICES ASSUME TypeOK, RtcInv, [Next]_vars PROVE RtcInv'
    OBVIOUS
<1>0. WorkOK BY DEF TypeOK, WorkOK, PassAts
<1>1. CASE UNCHANGED vars
    BY <1>1 DEF vars, RtcInv, RtcFollows, LinksIdle
<1>2. CASE Tick
    <2>1. TickTo(TIME') /\ (work.at > 0 => work.slow < MAX_SLOW)
        BY <1>2 DEF Tick, TickTo
    <2>2. work'.at = work.at /\ work'.clean = work.clean BY <1>0, <2>1, TickWork
    <2>3. UNCHANGED <<time_write_flg, setting, refused>> /\ rtc'.is = rtc.is
        BY <2>1 DEF TickTo
    <2> QED BY <2>2, <2>3 DEF RtcInv, RtcFollows, LinksIdle
<1>3. CASE Begin
    <2>1. work'.at = 1 /\ work'.clean = TRUE BY <1>3 DEF Begin
    <2> QED BY <2>1 DEF RtcInv, RtcFollows
<1>4. CASE ReadField
    <2>1. /\ work'.at = work.at + 1 /\ work'.clean = work.clean /\ work.at \in 1..READS
          /\ UNCHANGED <<time_write_flg, rtc, setting, refused>>
        BY <1>0, <1>4, ReadStep
    <2>2. work.at > 0 /\ work'.at > 0 BY <2>1 DEF READS
    <2> QED BY <2>1, <2>2 DEF RtcInv, RtcFollows, LinksIdle
<1>5. CASE WriteChip
    <2>1. /\ work.at > 0 /\ LinksIdle /\ work'.at = 0
          /\ UNCHANGED <<time_write_flg, setting, refused>>
        BY <1>5 DEF WriteChip, IdleWork, READS
    <2>2. CASE work.clean
        <3>1. rtc'.is \in {"current", "slipped"} BY <1>5, <2>2 DEF WriteChip, Rewritten
        <3> QED BY <2>1, <3>1 DEF RtcInv, RtcFollows
    <2>3. CASE ~work.clean
        <3>1. ~refused => time_write_flg BY <2>1, <2>3 DEF RtcInv, RtcFollows
        <3> QED BY <2>1, <3>1 DEF RtcInv, RtcFollows
    <2> QED BY <2>2, <2>3
<1>6. CASE Restart
    <2>1. rtc'.is \in {"current", "slipped"}
        <3>1. CASE rtc.is = "current" BY <1>6, <3>1 DEF Restart
        <3>2. CASE rtc.is # "current" BY <1>6, <3>2, ChipRead DEF Restart
        <3> QED BY <3>1, <3>2
    <2>2. work'.at = 0 BY <1>6 DEF Restart, IdleWork
    <2> QED BY <2>1, <2>2 DEF RtcInv, RtcFollows
<1>7. ASSUME NEW l \in Links, Modify(l) PROVE RtcInv'
    <2>0. setting \in [Links -> Sets] BY DEF TypeOK, Sets
    <2>1. ASSUME NEW t \in Settings, SetHigh(l, t) PROVE RtcInv'
        <3>1. ~LinksIdle'
            BY <2>0, <2>1 DEF SetHigh, LinksIdle
        <3>2. rtc'.is \in {"stale", "mixed"} BY <2>1 DEF SetHigh
        <3> QED BY <3>1, <3>2 DEF RtcInv, RtcFollows
    <2>2. CASE SetLow(l)
        <3>1. ~LinksIdle'
            BY <2>0, <2>2 DEF SetLow, LinksIdle
        <3>2. UNCHANGED <<rtc, work>> BY <2>2 DEF SetLow
        <3> QED BY <3>1, <3>2 DEF RtcInv, RtcFollows
    <2>3. CASE SetFlag(l)
        <3>1. UNCHANGED <<rtc, work>> /\ (refused' \/ time_write_flg')
            BY <2>3 DEF SetFlag
        <3> QED BY <3>1 DEF RtcInv, RtcFollows
    <2> QED BY <1>7, <2>1, <2>2, <2>3 DEF Modify
<1> QED BY <1>1, <1>2, <1>3, <1>4, <1>5, <1>6, <1>7 DEF Next, SetRtc

\* The chip never keeps an old time or a mixture for good, unless the last
\* setting was refused.
THEOREM ChipFollows == Spec => []RtcFollows
<1>1. RtcInv => RtcFollows BY DEF RtcInv
<1> QED BY <1>1, InitRtc, NextRtc, ClockTypes, PTL DEF Spec
=============================================================================
