\* Three databases of a dozen shapes in every combination; every request, with
\* and without MIME.
CONSTANTS
    d1 = d1
    d2 = d2
    d3 = d3
    t1 = t1
    t2 = t2
    t3 = t3
    none = none
    NoDb = none
    Dbs <- McDbs
    Texts <- McTexts
    Bad = "bad"
    Complaint = "complaint"
    NoWord = "-"
    InfoWord = "info"
    Depth = 4
    Confs <- McConfs
    Requests <- McRequests
SPECIFICATION Spec
INVARIANTS
    AnswersAsDocumented
    InfoAsDocumented
    LentAsLongAsNeeded
    WalkIsExact
PROPERTIES
    WalkAdvances
