--------------------------------- MODULE Rtc ---------------------------------
(***************************************************************************)
(* The date of the real-time clock (kernel/rtc.c).  The clock (external)   *)
(* moves to the next day and raises its update-ended interrupt, on which   *)
(* rtc_handler reads and decodes the registers and computes the weekday.   *)
(***************************************************************************)
EXTENDS Integers

CONSTANTS FirstYear, LastYear,  \* bound: the years the clock goes through
          FirstWeekday,         \* weekday of the first day, Sunday is 1
          Bcds,                 \* whether the registers are in BCD
          Centuries             \* whether the clock has a century register

VARIABLES clock,        \* the date of the clock, [year, month, dom]
          weekday,      \* its day of the week
          bcd,          \* the static bcd of rtc.c, set by init_rtc
          hasCentury,   \* register 0x32 is not 0
          global_time   \* the static global_time of rtc.c

vars == <<clock, weekday, bcd, hasCentury, global_time>>

-----------------------------------------------------------------------------
(* The clock *)

LeapYear(y) == y % 4 = 0 /\ (y % 100 # 0 \/ y % 400 = 0)

DaysIn(y, m) ==
    IF m = 2 THEN (IF LeapYear(y) THEN 29 ELSE 28)
    ELSE IF m \in {4, 6, 9, 11} THEN 30 ELSE 31

Tomorrow(d) ==
    IF d.dom < DaysIn(d.year, d.month) THEN [d EXCEPT !.dom = @ + 1]
    ELSE IF d.month < 12 THEN [d EXCEPT !.month = @ + 1, !.dom = 1]
    ELSE [year |-> d.year + 1, month |-> 1, dom |-> 1]

\* The register that holds the number n.
Encoded(n, inBcd) == IF inBcd THEN (n \div 10) * 16 + (n % 10) ELSE n

Registers(d, inBcd, century) ==
    [century |-> IF century THEN Encoded(d.year \div 100, inBcd) ELSE 0,
     year |-> Encoded(d.year % 100, inBcd),
     month |-> Encoded(d.month, inBcd),
     dom |-> Encoded(d.dom, inBcd)]

-----------------------------------------------------------------------------
(* rtc.c *)

bcd2bin(bcd_num) == (bcd_num \div 16) * 10 + (bcd_num % 16)

\* The sum of day and year is kept in dom, a uint8_t.
get_dow(y0, m, dom0) ==
    LET dom == (dom0 + (IF m < 3 THEN y0 ELSE y0 - 2)) % 256
        y == IF m < 3 THEN y0 - 1 ELSE y0
    IN (((23 * m) \div 9 + dom + 4 + y \div 4 - y \div 100 + y \div 400) % 7) + 1

rtc_handler(regs, inBcd) ==
    LET Read(n) == IF inBcd THEN bcd2bin(n) ELSE n
        century == IF Read(regs.century) # 0 THEN Read(regs.century) ELSE 20
        year == Read(regs.year)
        month == Read(regs.month)
        dom == Read(regs.dom)
    IN [century |-> century, year |-> year, month |-> month, dom |-> dom,
        dow |-> get_dow(century * 100 + year, month, dom)]

-----------------------------------------------------------------------------

FirstDay == [year |-> FirstYear, month |-> 1, dom |-> 1]

Init ==
    /\ clock = FirstDay /\ weekday = FirstWeekday
    /\ bcd \in Bcds /\ hasCentury \in Centuries
    /\ global_time = rtc_handler(Registers(clock, bcd, hasCentury), bcd)

\* Midnight, and the interrupt.
Midnight ==
    /\ Tomorrow(clock).year <= LastYear
    /\ clock' = Tomorrow(clock)
    /\ weekday' = (weekday % 7) + 1
    /\ global_time' = rtc_handler(Registers(clock', bcd, hasCentury), bcd)
    /\ UNCHANGED <<bcd, hasCentury>>

Next == Midnight

Spec == Init /\ [][Next]_vars

-----------------------------------------------------------------------------
(* Properties *)

\* rtc.h says of dow "Sunday is 1, Saturday is 7": get_dow agrees with counting
\* the days.
DowRight == global_time.dow = weekday
=============================================================================
