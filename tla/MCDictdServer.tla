--------------------------- MODULE MCDictdServer ---------------------------
(* Instances of DictdServer for TLC. *)
EXTENDS DictdServer

Plain(n)  == [limit |-> n, mark |-> FALSE, disable |-> FALSE, readable |-> TRUE]
Broken    == [Plain(1) EXCEPT !.readable = FALSE]
Disabling == [Plain(1) EXCEPT !.disable = TRUE]

\* What a reload meets: two slots with a timestamp interval, one slot with
\* neither timestamp nor disable_strategy, one with a global
\* disable_strategy, and a file that fails sanity().
MixedConfigs ==
    { [Plain(2) EXCEPT !.mark = TRUE], Plain(1), Disabling, Broken }

DisablingConfig == { Disabling }

OneConfig == { Plain(1) }
=============================================================================
