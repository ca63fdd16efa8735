--------------------------- MODULE MCDailyReports ---------------------------
(* Small instances of DailyReports for TLC. *)
EXTENDS DailyReports, TLC

CONSTANTS a, b

OneCompany == <<a>>
TwoCompanies == <<a, b>>

Symmetry == Permutations(Request)

=============================================================================
