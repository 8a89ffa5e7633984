-------------------------- MODULE MCCalendarCache --------------------------
(* One time in each of two weeks. *)
EXTENDS CalendarCache

TwoWeeks(s) == s
============================================================================
