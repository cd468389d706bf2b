------------------------------- MODULE Uptime -------------------------------
(***************************************************************************)
(* uptime.c: the days, hours and minutes of a time that /stats prints.     *)
(***************************************************************************)
EXTENDS Integers

(* The division of C, which goes towards zero. *)
Quotient(a, b) == IF a >= 0 THEN a \div b ELSE -((-a) \div b)

days(s) == Quotient(s, 86400)
hours(s) == Quotient(s, 3600) - days(s) * 24
mins(s) == Quotient(s, 60) - days(s) * 24 * 60 - hours(s) * 60

-----------------------------------------------------------------------------
(* The text of an uptime is a time of day behind a number of days, with no *)
(* hour 24 and no minute 60 at any border, and it is at most a minute      *)
(* behind the uptime.                                                      *)
Readable(s) ==
    /\ days(s) >= 0 /\ hours(s) \in 0 .. 23 /\ mins(s) \in 0 .. 59
    /\ LET told == days(s) * 86400 + hours(s) * 3600 + mins(s) * 60
       IN  told <= s /\ s < told + 60
=============================================================================
