\* Ten small index files, with and without the table of first characters, and
\* requests for every strategy.
CONSTANTS
    Space = {3}
    Punct = {4, 10}
    Digits = {5}
    Upper = {6, 7}
    Lower = {8, 9}
    High = {11}
    LowerOf <- McLowerOf
    Tab = 1
    NewLine = 2
    Threshold = 3
    Indexes <- McIndexes
    Queries <- McQueries
SPECIFICATION SearchSpec
INVARIANTS
    TypeOK
    FindsEveryLine
    EveryStrategyRight
PROPERTIES
    EverySearchEnds
