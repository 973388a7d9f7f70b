-------------------------- MODULE MCAdministration --------------------------
(***************************************************************************)
(* One small instance of the three parts of Administration.                *)
(***************************************************************************)
EXTENDS Administration

CONSTANTS d1, d2, b1, x1, u1, f1, c1, ic, ia, v1, v2

MCFilters == {{}, {ia}}
MCReportFilters == {{ia}}
MCRuleSources == {{ia}, {ic, ia}}
MCSymmetry == Permutations(Districts) \cup Permutations(Rules)
=============================================================================
