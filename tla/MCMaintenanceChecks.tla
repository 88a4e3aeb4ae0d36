-------------------------- MODULE MCMaintenanceChecks --------------------------
(***************************************************************************)
(* MaintenanceChecks with two cars.  The dates are the end of a month      *)
(* before a February of 29 days and a day every month has.                 *)
(***************************************************************************)
EXTENDS MaintenanceChecks

MCDates == {[month |-> 0, day |-> 31, half |-> 1],
            [month |-> 2, day |-> 15, half |-> 0]}
==============================================================================
