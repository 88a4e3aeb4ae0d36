--------------------------- MODULE MCFleetReports ---------------------------
(***************************************************************************)
(* FleetReports on a small instance: an organization with two drivers, and *)
(* a user with cars of their own.                                          *)
(***************************************************************************)
EXTENDS FleetReports, TLC

CONSTANTS user, acme, d1, d2

MCLimit     == [o \in {user, acme} |-> 1]
MCDriverOrg == [d \in {d1, d2} |-> acme]
MCAsked     == {AllDays}

\* Barcodes share no state with logs, drivers and reports, and fuel is logged for no
\* car of a user's own: the instance does not multiply them.  Barcodes and such cars
\* are explored before any fuel is logged.
Unmixed ==
  \/ logs = <<>> /\ gone = {} /\ report = NoReport
  \/ /\ \A p \in Plates : barcode[p] = None /\ owner[p] # user
     /\ \A h \in Handlers : pc[h] # "barcode" /\ req[h].owner # user

MCSpec == ReportsInit /\ [][ReportsNext /\ Unmixed']_allVars

Symmetry == Permutations(Handlers) \cup Permutations(Plates) \cup Permutations(Drivers)
==============================================================================
