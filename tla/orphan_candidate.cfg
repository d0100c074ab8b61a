SPECIFICATION Spec
CONSTANTS
    Vacancy = {v1, v2}
    Page = {p1, p2}
    VacancyOf <- MCVacancyOf
    Edited = v1
    Run = {r1}
    None = None
    MaxVersion = 2
    MaxRevision = 1
SYMMETRY Interchangeable
INVARIANT CandidateHasVacancy
