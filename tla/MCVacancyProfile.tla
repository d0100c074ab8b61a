------------------------- MODULE MCVacancyProfile -------------------------
(* Instances of VacancyProfile for TLC: all pages show one vacancy. *)
EXTENDS VacancyProfile, TLC

CONSTANT Edited \* the vacancy that is edited

MCVacancyOf == [p \in Page |-> Edited]

(* Pages are interchangeable, and so are runs. *)
Interchangeable == Permutations(Page) \union Permutations(Run)

=============================================================================
