SPECIFICATION Spec
CONSTANTS
    Requests = {"r1", "r2"}
    Answers <- MCAnswers
INVARIANTS
    RuleTimesTrue
    CacheServes
PROPERTIES
    FetchSettles
