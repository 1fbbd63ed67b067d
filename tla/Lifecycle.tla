------------------------------ MODULE Lifecycle ------------------------------
(***************************************************************************)
(* The configuration of dictd from the first parse to the last unload:     *)
(* what the directives of the file do to the process (the table of         *)
(* strategies, the site file), the order in which dict_init_databases      *)
(* opens databases and plugins and joins virtual and MIME databases, and   *)
(* what dict_close_databases gives back before SIGHUP parses again.        *)
(*                                                                         *)
(* The parent does all of this between two calls of select(), so a step of *)
(* this module is one directive, one call for one database, or a signal.   *)
(* When signals are honoured is the subject of DictdServer; what a search  *)
(* does with the databases that are open, of Search.                       *)
(***************************************************************************)
EXTENDS Naturals, Sequences, FiniteSets, Functions

CONSTANTS
    Builtin,         \* strategyInfo: a sequence of [name, number]
    FirstNew,        \* NEW_STRAT_ID
    CompiledDefault, \* the number of the default strategy that is compiled in
    Options,         \* what the command line may say: sequences of directives
    Files,           \* the configuration files there may be: sequences of directives
    MaxSignals       \* SIGHUPs and SIGUSR1s; the bound on the runs of the process

Kinds == {"normal", "virtual", "plugin", "mime"}

\* What the specification of a database says.  That of a plugin has no list.
Databases ==
    {db \in [name: STRING, kind: Kinds, loads: BOOLEAN, listed: Seq(STRING), stored: STRING] :
        db.kind = "plugin" => db.listed = <<>>}

\* What a file may say: a setting, something about a strategy, or a database
Directives ==
    [is: {"site", "add", "disable", "default", "db disable", "db default"}, strategy: STRING]
    \cup [is: {"database"}, db: Databases]

ASSUME FilesAssumption == Options \subseteq Seq(Directives) /\ Files \subseteq Seq(Directives)

ASSUME BuiltinAssumption ==
    /\ Builtin \in Seq([name: STRING, number: Nat \ {0}])
    /\ FirstNew \in Nat \ {0}
    /\ \A i, j \in 1..Len(Builtin) :
          i # j => Builtin[i].number # Builtin[j].number
    /\ \A i \in 1..Len(Builtin) : Builtin[i].number < FirstNew
    /\ CompiledDefault \in Nat /\ MaxSignals \in Nat

VARIABLES
    phase,           \* what the parent is doing
    at,              \* the directive or the database it has come to
    text,            \* the directives this parse reads
    strategies,      \* the table of strategies: a sequence of [name, number]
    strategyId,      \* the number the next new strategy gets
    defaultStrategy, \* the global default
    site,            \* what site_info points to
    dbs,             \* DictConfig->dbl
    opened,          \* history: indexes and plugins opened and not closed
    next,            \* what follows when everything is closed
    signals

vars == <<phase, at, text, strategies, strategyId, defaultStrategy, site, dbs,
          opened, next, signals>>

table == <<strategies, strategyId, defaultStrategy>>

-----------------------------------------------------------------------------
(* The table of strategies *)

Numbers == {s.number : s \in Range(strategies)}

Named(name) == {i \in DOMAIN strategies : strategies[i].name = name}

\* lookup_strategy_index: the first strategy of that name
Index(name) == CHOOSE i \in Named(name) : \A j \in Named(name) : i <= j

Lookup(name) == strategies[Index(name)].number

Without(i) == [j \in 1..(Len(strategies) - 1) |->
                  strategies[IF j < i THEN j ELSE j + 1]]

\* get_max_strategy_num: the number of the last entry of the table
LastNumber == IF strategies = <<>> THEN 0
              ELSE strategies[Len(strategies)].number

-----------------------------------------------------------------------------
(* Databases *)

\* A database as its specification leaves it.  A directive has its name, its
\* kind, whether it comes with a plugin (the file is named in the
\* specification or in an entry of the index), the databases it is made of
\* and the default strategy an entry of its index names.
New(d) ==
    [name |-> d.name, kind |-> d.kind, loads |-> d.loads, listed |-> d.listed,
     stored |-> d.stored, state |-> "parsed", plugin |-> "none",
     members |-> <<>>, disabled |-> {}, room |-> 0, default |-> 0,
     told |-> {}]

HasIndex(db) == db.kind = "normal"

Known(name) == {i \in DOMAIN dbs : dbs[i].name = name}

\* dbname2database
Find(name) == CHOOSE i \in Known(name) : \A j \in Known(name) : i <= j

\* strategy_disabled [number], for a number within the array
Disabled(db, number) == db.room # 0 /\ number \in db.disabled

\* Is the number within strategy_disabled?  The array has room for the number
\* of the last strategy of the table, which need not be the greatest.
Within(db, number) == db.room = 0 \/ number < db.room

\* What plugin_initdata_set_stratnames may tell a plugin.  What is read behind
\* the end of the array is any value.
Told(db) ==
    LET sure == {s \in Range(strategies) :
                    Within(db, s.number) /\ ~Disabled(db, s.number)}
        unsure == {s \in Range(strategies) : ~Within(db, s.number)}
    IN  {sure \cup more : more \in SUBSET unsure}

-----------------------------------------------------------------------------
(* The parse *)

Exit ==
    /\ phase' = "exited"
    /\ UNCHANGED <<at, text, table, site, dbs, opened, next, signals>>

Parsing(kind) == phase = "parse" /\ at <= Len(text) /\ text[at].is = kind

\* The strategy a directive names
What == text[at].strategy

Parsed == at' = at + 1 /\ UNCHANGED <<phase, text, opened, next, signals>>

\* Freeing what is not on the heap: the process is aborted, or goes on.
Site ==
    /\ Parsing("site")
    /\ site' = "interned"
    /\ Parsed
    /\ UNCHANGED <<table, dbs>>

SiteAborts == Parsing("site") /\ site \in {"interned", "freed"} /\ Exit

\* Mutant: new strategies are numbered from 0
AddStrategyFromZero ==
    /\ Parsing("add")
    /\ strategies' = Append(strategies, [name |-> What, number |-> strategyId - FirstNew])
    /\ strategyId' = strategyId + 1
    /\ Parsed
    /\ UNCHANGED <<defaultStrategy, site, dbs>>

\* Mutant: a new strategy is numbered by its place in the table
AddStrategyByPlace ==
    /\ Parsing("add")
    /\ strategies' = Append(strategies, [name |-> What, number |-> FirstNew + Len(strategies)])
    /\ UNCHANGED strategyId
    /\ Parsed
    /\ UNCHANGED <<defaultStrategy, site, dbs>>

AddStrategy ==
    /\ Parsing("add")
    /\ strategies' = Append(strategies, [name |-> What, number |-> strategyId])
    /\ strategyId' = strategyId + 1
    /\ Parsed
    /\ UNCHANGED <<defaultStrategy, site, dbs>>

DisableStrategy ==
    /\ Parsing("disable")
    /\ Named(What) # {}
    /\ strategies' = Without(Index(What))
    /\ Parsed
    /\ UNCHANGED <<strategyId, defaultStrategy, site, dbs>>

(* A default given on the command line, with which the file's is skipped,  *)
(* is left out.                                                            *)
DefaultStrategy ==
    /\ Parsing("default")
    /\ Named(What) # {}
    /\ defaultStrategy' = Lookup(What)
    /\ Parsed
    /\ UNCHANGED <<strategies, strategyId, site, dbs>>

Database ==
    /\ Parsing("database")
    /\ dbs' = Append(dbs, New(text[at].db))
    /\ Parsed
    /\ UNCHANGED <<table, site>>

\* The array is made at the first directive.  A number behind its end is
\* written behind its end.
DbDisable ==
    /\ Parsing("db disable")
    /\ Named(What) # {}
    /\ LET db == dbs[Len(dbs)]
           size == IF db.room = 0 THEN LastNumber + 1 ELSE db.room
       IN  \E kept \in IF Lookup(What) < size THEN {TRUE} ELSE BOOLEAN :
              dbs' = [dbs EXCEPT ![Len(dbs)].room = size,
                                 ![Len(dbs)].disabled =
                                    IF kept THEN @ \cup {Lookup(What)} ELSE @]
    /\ Parsed
    /\ UNCHANGED <<table, site>>

DbDefault ==
    /\ Parsing("db default")
    /\ Named(What) # {}
    /\ dbs' = [dbs EXCEPT ![Len(dbs)].default = Lookup(What)]
    /\ Parsed
    /\ UNCHANGED <<table, site>>

\* lookup_strategy_ex and lookup_strat_ex end the process
StrategyUnknown ==
    /\ \E kind \in {"disable", "default", "db disable", "db default"} :
          Parsing(kind)
    /\ Named(What) = {}
    /\ Exit

\* postprocess_filenames copies what site_info points to to the heap,
\* whatever it is.
ParseEnds ==
    /\ phase = "parse" /\ at > Len(text)
    /\ phase' = "databases"
    /\ at' = 1
    /\ site' = IF site = "none" THEN "none" ELSE "heap"
    /\ UNCHANGED <<text, table, dbs, opened, next, signals>>

-----------------------------------------------------------------------------
(* dict_init_databases: one pass over the list for each of its calls *)

\* Mutant: short names are looked up before members are joined
AfterShortFirst ==
    [databases |-> "plugins", plugins |-> "short", short |-> "virtual",
     virtual |-> "mime", mime |-> "serving"]

After == [databases |-> "plugins", plugins |-> "virtual", virtual |-> "mime",
          mime |-> "short", short |-> "serving"]

Passing(pass) == phase = pass /\ at <= Len(dbs)

Passed == at' = at + 1 /\ UNCHANGED <<phase, text, table, site, next, signals>>

PassEnds ==
    /\ phase \in DOMAIN After
    /\ at > Len(dbs)
    /\ phase' = After[phase]
    /\ at' = 1
    /\ UNCHANGED <<text, table, site, dbs, opened, next, signals>>

\* A default strategy is that of the specification, that of the index if it is
\* in the table, or the global one.
DefaultOf(db) ==
    IF db.default # 0 THEN db.default
    ELSE IF HasIndex(db) /\ Named(db.stored) # {} THEN Lookup(db.stored)
    ELSE defaultStrategy

InitDatabase ==
    /\ Passing("databases")
    /\ dbs' = [dbs EXCEPT ![at].state = "open", ![at].default = DefaultOf(dbs[at])]
    /\ opened' = opened + (IF HasIndex(dbs[at]) THEN 1 ELSE 0)
    /\ Passed

InitPlugin ==
    /\ Passing("plugins")
    /\ \/ /\ dbs[at].loads
          /\ \E told \in Told(dbs[at]) :
                dbs' = [dbs EXCEPT ![at].plugin = "open", ![at].told = told]
          /\ opened' = opened + 1
       \/ ~dbs[at].loads /\ UNCHANGED <<dbs, opened>>
    /\ Passed

\* A file that cannot be opened, a plugin that cannot be loaded or refuses
InitFails ==
    /\ \/ Passing("databases") /\ HasIndex(dbs[at])
       \/ Passing("plugins") /\ dbs[at].loads
    /\ Exit

\* string2virtual_db_list, and the two names of a MIME database
Join(pass, kinds) ==
    /\ Passing(pass)
    /\ LET db == dbs[at]
       IN  \/ /\ db.kind \in kinds
              /\ \A i \in DOMAIN db.listed : Known(db.listed[i]) # {}
              /\ dbs' = [dbs EXCEPT ![at].members =
                            [i \in DOMAIN db.listed |-> Find(db.listed[i])]]
           \/ db.kind \notin kinds /\ UNCHANGED dbs
    /\ Passed
    /\ UNCHANGED opened

InitVirtual == Join("virtual", {"normal", "virtual"})

InitMime == Join("mime", {"mime"})

MemberUnknown ==
    /\ \/ Passing("virtual") /\ dbs[at].kind \in {"normal", "virtual"}
       \/ Passing("mime") /\ dbs[at].kind = "mime"
    /\ \E i \in DOMAIN dbs[at].listed : Known(dbs[at].listed[i]) = {}
    /\ Exit

\* init_database_short looks 00-database-short up with dict_search and gives
\* back what plugins lent.
InitShort ==
    /\ Passing("short")
    /\ Passed
    /\ UNCHANGED <<dbs, opened>>

-----------------------------------------------------------------------------
(* Signals and dict_close_databases *)

\* An unloaded server has nothing to close.
Hangup ==
    /\ phase \in {"serving", "unloaded"}
    /\ signals < MaxSignals /\ signals' = signals + 1
    /\ phase' = IF phase = "serving" THEN "closing" ELSE "parse"
    /\ next' = "parse"
    /\ at' = 1
    /\ text' \in Files
    /\ UNCHANGED <<table, site, dbs, opened>>

Unload ==
    /\ phase = "serving"
    /\ signals < MaxSignals /\ signals' = signals + 1
    /\ phase' = "closing"
    /\ next' = "unloaded"
    /\ at' = 1
    /\ UNCHANGED <<text, table, site, dbs, opened>>

\* Mutant: only plugins of databases without an index are closed
CloseDatabaseOnce ==
    /\ Passing("closing")
    /\ LET db == dbs[at]
       IN  /\ dbs' = [dbs EXCEPT ![at].state = "freed", ![at].plugin = "none"]
           /\ opened' = opened - (IF HasIndex(db) \/ db.plugin = "open" THEN 1 ELSE 0)
    /\ Passed

CloseDatabase ==
    /\ Passing("closing")
    /\ LET db == dbs[at]
       IN  /\ dbs' = [dbs EXCEPT ![at].state = "freed", ![at].plugin = "none"]
           /\ opened' = opened - (IF HasIndex(db) THEN 1 ELSE 0)
                               - (IF db.plugin = "open" THEN 1 ELSE 0)
    /\ Passed

\* dictdb_close complains
CloseFails == Passing("closing") /\ dbs[at].plugin = "open" /\ Exit

\* site_info is freed and keeps its value.
CloseEnds ==
    /\ phase = "closing" /\ at > Len(dbs)
    /\ phase' = next
    /\ at' = 1
    /\ dbs' = <<>>
    /\ site' = IF site = "none" THEN "none" ELSE "freed"
    /\ UNCHANGED <<text, table, opened, next, signals>>

-----------------------------------------------------------------------------
Init ==
    /\ phase = "parse" /\ at = 1
    /\ \E options \in Options, file \in Files : text = options \o file
    /\ strategies = Builtin /\ strategyId = FirstNew
    /\ defaultStrategy = CompiledDefault
    /\ site = "none" /\ dbs = <<>> /\ opened = 0
    /\ next = "parse" /\ signals = 0

Directive ==
    \/ Site \/ SiteAborts \/ AddStrategy \/ DisableStrategy \/ DefaultStrategy
    \/ Database \/ DbDisable \/ DbDefault \/ StrategyUnknown \/ ParseEnds

InitStep ==
    \/ InitDatabase \/ InitPlugin \/ InitVirtual \/ InitMime \/ InitShort
    \/ InitFails \/ MemberUnknown \/ PassEnds

CloseStep == CloseDatabase \/ CloseFails \/ CloseEnds

Next == Directive \/ InitStep \/ Hangup \/ Unload \/ CloseStep

Spec == Init /\ [][Next]_vars

-----------------------------------------------------------------------------
(* Properties *)

DbType ==
    [name: STRING, kind: Kinds, loads: BOOLEAN, listed: Seq(STRING),
     stored: STRING, state: {"parsed", "open", "freed"},
     plugin: {"none", "open"}, members: Seq(Nat), disabled: SUBSET Nat,
     room: Nat, default: Nat, told: SUBSET [name: STRING, number: Nat]]

\* Every variable keeps its type.
TypeOK ==
    /\ phase \in {"parse", "serving", "closing", "unloaded", "exited"}
                    \cup DOMAIN After
    /\ at \in Nat \ {0}
    /\ strategies \in Seq([name: STRING, number: Nat \ {0}])
    /\ strategyId \in Nat \ {0} /\ defaultStrategy \in Nat
    /\ site \in {"none", "interned", "heap", "freed"}
    /\ dbs \in Seq(DbType)
    /\ opened \in Nat
    /\ next \in {"parse", "unloaded"}
    /\ signals \in 0..MaxSignals

\* The databases dict_search comes to from database i
Reached(i) ==
    LET within[n \in Nat] ==
            IF n = 0 THEN {i}
            ELSE within[n - 1] \cup UNION {Range(dbs[j].members) : j \in within[n - 1]}
    IN  within[Len(dbs)]

Open(i) == dbs[i].state = "open" /\ (dbs[i].loads => dbs[i].plugin = "open")

Joined(i) == Len(dbs[i].members) = Len(dbs[i].listed)

\* The databases a search may start from now: the one at hand while short
\* names are looked up, every one while sessions are served.
Started == CASE phase = "short" -> {at} \cap DOMAIN dbs
             [] phase = "serving" -> DOMAIN dbs
             [] OTHER -> {}

\* A search made while databases are initialised or served, for the list of a
\* virtual database, for a short name or for a client, only comes to databases
\* of the present configuration that are open with their plugins and know
\* their members (the order of the calls of dict_init_databases).
SearchesReadOpen ==
    /\ phase = "virtual" /\ at <= Len(dbs) => Open(at)
    /\ \A i \in Started : \A j \in Reached(i) :
          j \in DOMAIN dbs /\ Open(j) /\ Joined(j)

\* Indexes and plugins are opened and closed in pairs: what is open is what
\* the present configuration holds open, whatever reloads and unloads went
\* before, and nothing is open when a new file is parsed.
EverythingClosed ==
    /\ opened =
          Cardinality({i \in DOMAIN dbs : dbs[i].state = "open" /\ HasIndex(dbs[i])})
          + Cardinality({i \in DOMAIN dbs : dbs[i].plugin = "open"})
    /\ phase \in {"parse", "unloaded"} => opened = 0

\* No two strategies have one number, whatever was disabled and added over the
\* reloads; and a plugin knows the table of now: every strategy it was told is
\* in it, and it was told the number MATCH finds for a name (unless the
\* database disables it, or the array of disabled strategies is too short).
NumbersSound ==
    /\ \A i, j \in DOMAIN strategies :
          i # j => strategies[i].number # strategies[j].number
    /\ \A i \in DOMAIN dbs : dbs[i].plugin = "open" =>
          /\ dbs[i].told \subseteq Range(strategies)
          /\ \A s \in Range(strategies) :
                LET number == Lookup(s.name)
                IN  Within(dbs[i], number) /\ ~Disabled(dbs[i], number)
                       => [name |-> s.name, number |-> number] \in dbs[i].told

\* "site is specified twice" (servparse.y): when a site directive finds
\* site_info set, there was one before it in the same file.
SiteTwice ==
    Parsing("site") /\ site # "none" =>
        \E i \in 1..(at - 1) : text[i].is = "site"
=============================================================================
