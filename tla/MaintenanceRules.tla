--------------------------- MODULE MaintenanceRules ---------------------------
(***************************************************************************)
(* When a service is due, computed twice in src/maintenance: by the status *)
(* report (getCarMaintenanceStatus) and by the worker                      *)
(* (handleCheckMaintenance).  Pure operators over a rule, the car's        *)
(* records of the rule's service, its mileage and the time.                *)
(*                                                                         *)
(* A rule is [km, months]; 0 is a missing interval, null and 0 being both  *)
(* false to the code's tests.  A record is [km, date]; a date is [month,   *)
(* day, half], months counted from the January of a leap year, and half    *)
(* the half of the day.  Every fourth year is a leap year and every day    *)
(* has 24 hours.                                                           *)
(***************************************************************************)
EXTENDS Integers

CONSTANTS
  RuleKms,      \* intervalKm of the rules compared, 0 for none
  RuleMonths,   \* intervalMonths of the rules compared, 0 for none
  Dates         \* dates services are performed on

ASSUME RulesAssumption ==
  /\ RuleKms \in SUBSET Nat
  /\ RuleMonths \in SUBSET Nat
  /\ Dates \in SUBSET [month : Nat, day : 1..31, half : 0..1]

\* A rule may have both intervals, or none, and an interval of any size next to
\* the other one: each ValidateIf condition is joined with IsOptional, so a
\* field is checked only when it is there and the other is not.
Rules == [km : RuleKms, months : RuleMonths]

-----------------------------------------------------------------------------
(* Dates.                                                                  *)

DaysIn(month) ==
  LET m == month % 12 IN
  CASE m = 1 -> IF (month \div 12) % 4 = 0 THEN 29 ELSE 28
    [] m \in {3, 5, 8, 10} -> 30
    [] OTHER -> 31

\* Days before the first of a month.
DaysBefore[month \in Nat] ==
  IF month = 0 THEN 0 ELSE DaysBefore[month - 1] + DaysIn(month - 1)

\* The time of a date, in half days.
Instant(d) == 2 * (DaysBefore[d.month] + d.day - 1) + d.half

\* nextDue.setMonth(getMonth() + months): the day of the month is kept, and
\* days that the month does not have run over into the next.
NextDue(d, months) == Instant([d EXCEPT !.month = @ + months])

\* Math.ceil of the time left, in days.
DaysRemaining(due, now) == -((now - due) \div 2)

-----------------------------------------------------------------------------
(* The status report.                                                      *)

\* Mutant: only the very kilometre or day it is due counts as overdue.
BandAtPoint(remaining, soon) ==
  CASE remaining = 0    -> "OVERDUE"
    [] remaining \in 1..soon -> "DUE_SOON"
    [] OTHER            -> "OK"

\* `soon' is the largest remainder that is DUE_SOON.
Band(remaining, soon) ==
  CASE remaining <= 0    -> "OVERDUE"
    [] remaining \in 1..soon -> "DUE_SOON"
    [] OTHER             -> "OK"

\* Ordered by performedAt, latest first, and the first of each service kept;
\* which of two records of one instant comes first is up to the database.
LastRecords(records) ==
  {r \in records : \A s \in records : Instant(s.date) <= Instant(r.date)}

FirstService(rule, km) ==
  IF rule.km # 0 /\ km >= rule.km THEN "OVERDUE" ELSE "PENDING_FIRST_SERVICE"

\* A rule with both intervals is reported by its distance alone.
StatusSince(rule, last, km, now) ==
  IF rule.km # 0
    THEN Band(last.km + rule.km - km, 999)
    ELSE Band(DaysRemaining(NextDue(last.date, rule.months), now), 14)

\* The statuses getCarMaintenanceStatus may report for a rule; a rule without
\* an interval is left out of the report.
Report(rule, records, km, now) ==
  IF rule.km = 0 /\ rule.months = 0 THEN {}
  ELSE IF records = {} THEN {FirstService(rule, km)}
  ELSE {StatusSince(rule, last, km, now) : last \in LastRecords(records)}

-----------------------------------------------------------------------------
(* The worker's check.                                                     *)

\* Mutant: a car that has just reached its interval is not due.
ExceededLate(rule, last, km) == rule.km # 0 /\ km - last.km > rule.km

Exceeded(rule, last, km) == rule.km # 0 /\ km - last.km >= rule.km

\* The alerts handleCheckMaintenance may log for a rule.
Alerts(rule, records, km) ==
  IF records = {} THEN {"NEVER_PERFORMED"}
  ELSE {IF Exceeded(rule, last, km) THEN "INTERVAL_EXCEEDED" ELSE "NONE"
          : last \in LastRecords(records)}

-----------------------------------------------------------------------------
\* How bad a status is.
Severity(status) ==
  CASE status = "OVERDUE" -> 2 [] status = "DUE_SOON" -> 1 [] OTHER -> 0
==============================================================================
