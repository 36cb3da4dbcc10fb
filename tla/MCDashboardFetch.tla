--------------------------- MODULE MCDashboardFetch ---------------------------
(***************************************************************************)
(* DashboardFetch with the bodies that matter: dates of real matches, of    *)
(* none (the epoch and the year 1), without a count, and no date at all; in *)
(* an array or an object; and text that is no JSON.                         *)
(***************************************************************************)
EXTENDS DashboardFetch

Real == Date(1760)
Epoch == Date(0)
YearOne == Date(-62)

MCAnswers == {
    Body("array", 1, Times(2, YearOne), Times(NaN, Real)),
    Body("map", 2, Times(3, Epoch), Times(0, Real)),
    Body("text", 3, Times(0, Epoch), Times(0, NotText))}
=============================================================================
