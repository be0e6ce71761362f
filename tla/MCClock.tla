------------------------------ MODULE MCClock ------------------------------
(***************************************************************************)
(* A small calendar: two months of two and one days, the second with a leap *)
(* day in year 0; days of two hours of two minutes, and so on: 112 instants;*)
(* bytes of five values, digits below 2.  One setting is the last second of  *)
(* the leap day, the other has a month, a minute and a second that the       *)
(* calendar does not.  A chip may be at the end of the century or show a     *)
(* month 0.                                                                  *)
(***************************************************************************)
EXTENDS Clock

MCMonthDays == <<2, 1>>
MCAt(y, m, d, h, i, s) == [high |-> [year |-> y, month |-> m, day |-> d, hour |-> h],
                           low |-> [minute |-> i, second |-> s, msec |-> 0]]
MCSettings == {MCAt(0, 2, 2, 1, 1, 1), MCAt(3, 3, 1, 1, 3, 2)}
MCOthers == {MCAt(1, 2, 1, 1, 1, 0), MCAt(0, 0, 3, 1, 0, 1)}
=============================================================================
