-------------------------- MODULE Lifecycle_proofs --------------------------
(***************************************************************************)
(* Theorems about Lifecycle, for every table of strategies, every set of   *)
(* configuration files and any number of reloads.                          *)
(***************************************************************************)
EXTENDS Lifecycle, RecursionTheorems, FiniteSetTheorems, TLAPS

Strategies == [name: STRING, number: Nat \ {0}]

(* New numbers are greater than all there were, so that no two strategies  *)
(* have one.                                                               *)
TableInv ==
    /\ \A i \in DOMAIN strategies : strategies[i].number < strategyId
    /\ \A i, j \in DOMAIN strategies :
          i # j => strategies[i].number # strategies[j].number

(* How far each database has come when the parent is at the one called at. *)
StatesInv ==
    /\ phase = "parse" => \A i \in DOMAIN dbs : dbs[i].state = "parsed" /\ dbs[i].plugin = "none"
    /\ phase = "databases" => \A i \in DOMAIN dbs :
          dbs[i].plugin = "none" /\ dbs[i].state = IF i < at THEN "open" ELSE "parsed"
    /\ phase = "plugins" => \A i \in DOMAIN dbs :
          dbs[i].state = "open" /\ (i >= at => dbs[i].plugin = "none")
    /\ phase \in {"virtual", "mime", "short", "serving"} =>
          \A i \in DOMAIN dbs : dbs[i].state = "open"
    /\ phase = "closing" => \A i \in DOMAIN dbs :
          IF i < at THEN dbs[i].state = "freed" /\ dbs[i].plugin = "none" ELSE dbs[i].state = "open"
    /\ phase = "unloaded" => dbs = <<>>

(* What the present configuration holds open.                              *)
Indexed == {i \in DOMAIN dbs : dbs[i].state = "open" /\ HasIndex(dbs[i])}
Plugged == {i \in DOMAIN dbs : dbs[i].plugin = "open"}

CountInv == opened = Cardinality(Indexed) + Cardinality(Plugged)

(* A plugin that is open was told the table of now.                        *)
Knows(db, told) ==
    /\ told \subseteq Range(strategies)
    /\ \A s \in Range(strategies) :
          LET number == Lookup(s.name)
          IN  Within(db, number) /\ ~Disabled(db, number)
                 => [name |-> s.name, number |-> number] \in told

ToldInv == \A i \in DOMAIN dbs : dbs[i].plugin = "open" => Knows(dbs[i], dbs[i].told)

(* The parent has made this call of dict_init_databases for a database.    *)
Later == [plugins |-> {"virtual", "mime", "short", "serving"},
          virtual |-> {"mime", "short", "serving"}, mime |-> {"short", "serving"}]

Past(i, pass) ==
    \/ phase = pass /\ i < at
    \/ phase \in Later[pass]

(* How far the plugin and the members of each database have come.          *)
Ready(i) ==
    /\ Range(dbs[i].members) \subseteq DOMAIN dbs
    /\ dbs[i].kind = "plugin" => dbs[i].listed = <<>> /\ dbs[i].members = <<>>
    /\ dbs[i].loads /\ Past(i, "plugins") => dbs[i].plugin = "open"
    /\ dbs[i].kind \in {"normal", "virtual"} /\ Past(i, "virtual") => Joined(i)
    /\ dbs[i].kind = "mime" /\ Past(i, "mime") => Joined(i)

ReadyInv == \A i \in DOMAIN dbs : Ready(i)

LifecycleInv == TypeOK /\ text \in Seq(Directives) /\ TableInv /\ StatesInv /\ CountInv /\ ToldInv
-----------------------------------------------------------------------------
LEMMA IndexFirst ==
    ASSUME strategies \in Seq(Strategies), NEW name, Named(name) # {}
    PROVE  Index(name) \in DOMAIN strategies /\ strategies[Index(name)].name = name
<1>1. Named(name) \in SUBSET Nat
  BY DEF Named
<1>2. Index(name) \in Named(name)
  BY <1>1, LeastNumber DEF Index
<1> QED
  BY <1>2 DEF Named

LEMMA LookupNumber ==
    ASSUME strategies \in Seq(Strategies), NEW name, Named(name) # {}
    PROVE  /\ Lookup(name) \in Nat \ {0}
           /\ \E s \in Range(strategies) : s = [name |-> name, number |-> Lookup(name)]
<1>1. Index(name) \in DOMAIN strategies /\ strategies[Index(name)].name = name
  BY IndexFirst
<1>2. strategies[Index(name)] \in Strategies
  BY <1>1
<1>3. strategies[Index(name)] = [name |-> name, number |-> Lookup(name)]
  BY <1>1, <1>2 DEF Lookup, Strategies
<1> QED
  BY <1>1, <1>2, <1>3 DEF Lookup, Strategies, Range

LEMMA FindKnown ==
    ASSUME dbs \in Seq(DbType), NEW name, Known(name) # {}
    PROVE  Find(name) \in DOMAIN dbs
<1>1. Known(name) \in SUBSET Nat
  BY DEF Known
<1>2. Find(name) \in Known(name)
  BY <1>1, LeastNumber DEF Find
<1> QED
  BY <1>2 DEF Known

(* disable_strategy leaves a table of the strategies there were.           *)
LEMMA WithoutOne ==
    ASSUME strategies \in Seq(Strategies), NEW i \in DOMAIN strategies, TableInv
    PROVE  /\ Without(i) \in Seq(Strategies)
           /\ \A j \in DOMAIN Without(i) : \E k \in DOMAIN strategies : Without(i)[j] = strategies[k]
           /\ \A j, k \in DOMAIN Without(i) : j # k => Without(i)[j].number # Without(i)[k].number
<1> DEFINE n == Len(strategies)
           from(j) == IF j < i THEN j ELSE j + 1
<1>1. n \in Nat /\ i \in 1 .. n /\ DOMAIN strategies = 1 .. n
  OBVIOUS
<1>2. \A j \in 1 .. n - 1 : from(j) \in 1 .. n
  BY <1>1
<1>3. \A j, k \in 1 .. n - 1 : j # k => from(j) # from(k)
  BY <1>1
<1>4. Without(i) = [j \in 1 .. n - 1 |-> strategies[from(j)]]
  BY DEF Without
<1>5. DOMAIN Without(i) = 1 .. n - 1 /\ \A j \in 1 .. n - 1 : Without(i)[j] = strategies[from(j)]
  BY <1>4
<1>6. \A j \in 1 .. n - 1 : strategies[from(j)] \in Strategies
  BY <1>1, <1>2
<1>7. Without(i) \in Seq(Strategies)
  <2>1. n - 1 \in Nat
    BY <1>1
  <2> HIDE DEF from
  <2> QED
    BY <1>4, <1>6, <2>1
<1>8. \A j \in DOMAIN Without(i) : \E k \in DOMAIN strategies : Without(i)[j] = strategies[k]
  BY <1>1, <1>2, <1>5
<1>9. \A j, k \in DOMAIN Without(i) : j # k => Without(i)[j].number # Without(i)[k].number
  <2> HIDE DEF from
  <2> QED
    BY <1>1, <1>2, <1>3, <1>5 DEF TableInv
<1> QED
  BY <1>7, <1>8, <1>9
-----------------------------------------------------------------------------
(* A step that changes one database.                                       *)
Only(k) ==
    /\ dbs' \in Seq(DbType)
    /\ DOMAIN dbs' = DOMAIN dbs
    /\ \A j \in DOMAIN dbs : j # k => dbs'[j] = dbs[j]

(* What ReadyInv says of a database but the state of its plugin.           *)
Kept(i) ==
    /\ dbs'[i].kind = dbs[i].kind /\ dbs'[i].loads = dbs[i].loads
    /\ dbs'[i].listed = dbs[i].listed /\ dbs'[i].members = dbs[i].members

LEMMA OneChanges ==
    ASSUME dbs \in Seq(DbType), NEW k \in DOMAIN dbs, NEW e \in DbType,
           dbs' = [dbs EXCEPT ![k] = e]
    PROVE  Only(k) /\ dbs'[k] = e
<1>1. dbs' \in Seq(DbType)
  OBVIOUS
<1>2. DOMAIN dbs' = DOMAIN dbs
  OBVIOUS
<1> QED
  BY <1>1, <1>2 DEF Only

LEMMA InitDatabaseDoes ==
    ASSUME TypeOK, InitDatabase
    PROVE  /\ at \in DOMAIN dbs /\ Only(at)
           /\ dbs'[at].state = "open" /\ dbs'[at].kind = dbs[at].kind
           /\ dbs'[at].plugin = dbs[at].plugin /\ Kept(at)
<1> DEFINE e == [dbs[at] EXCEPT !.state = "open", !.default = DefaultOf(dbs[at])]
<1>1. at \in DOMAIN dbs /\ dbs \in Seq(DbType) /\ dbs[at] \in DbType
  BY DEF TypeOK, InitDatabase, Passing
<1>2. DefaultOf(dbs[at]) \in Nat
  BY <1>1, LookupNumber DEF DefaultOf, TypeOK, DbType, Strategies
<1>3. /\ e \in DbType /\ e.state = "open" /\ e.kind = dbs[at].kind /\ e.plugin = dbs[at].plugin
      /\ e.loads = dbs[at].loads /\ e.listed = dbs[at].listed /\ e.members = dbs[at].members
  BY <1>1, <1>2 DEF DbType
<1>4. dbs' = [dbs EXCEPT ![at] = e]
  BY <1>1 DEF InitDatabase
<1> HIDE DEF e
<1> QED
  BY <1>1, <1>3, <1>4, OneChanges DEF Kept

LEMMA InitPluginDoes ==
    ASSUME TypeOK, InitPlugin, dbs[at].loads
    PROVE  /\ at \in DOMAIN dbs /\ Only(at)
           /\ dbs'[at].state = dbs[at].state /\ dbs'[at].kind = dbs[at].kind
           /\ dbs'[at].plugin = "open" /\ Kept(at)
           /\ dbs'[at].room = dbs[at].room /\ dbs'[at].disabled = dbs[at].disabled
           /\ dbs'[at].told \in Told(dbs[at])
<1>1. at \in DOMAIN dbs /\ dbs \in Seq(DbType) /\ dbs[at] \in DbType
  BY DEF TypeOK, InitPlugin, Passing
<1>2. PICK told \in Told(dbs[at]) :
          dbs' = [dbs EXCEPT ![at].plugin = "open", ![at].told = told]
  BY DEF InitPlugin
<1> DEFINE e == [dbs[at] EXCEPT !.plugin = "open", !.told = told]
<1>3. told \subseteq [name : STRING, number : Nat]
  <2>1. strategies \in Seq(Strategies)
    BY DEF TypeOK, Strategies
  <2>2. Range(strategies) \subseteq Strategies
    BY <2>1 DEF Range
  <2>3. told \subseteq Range(strategies)
    BY <1>2 DEF Told
  <2> QED
    BY <2>2, <2>3 DEF Strategies
<1>4. /\ e \in DbType /\ e.state = dbs[at].state /\ e.kind = dbs[at].kind /\ e.plugin = "open"
      /\ e.room = dbs[at].room /\ e.disabled = dbs[at].disabled /\ e.told = told
      /\ e.loads = dbs[at].loads /\ e.listed = dbs[at].listed /\ e.members = dbs[at].members
  BY <1>1, <1>3 DEF DbType
<1>5. dbs' = [dbs EXCEPT ![at] = e]
  BY <1>1, <1>2
<1> HIDE DEF e
<1> QED
  BY <1>1, <1>2, <1>4, <1>5, OneChanges DEF Kept

LEMMA CloseDatabaseDoes ==
    ASSUME TypeOK, CloseDatabase
    PROVE  /\ at \in DOMAIN dbs /\ Only(at)
           /\ dbs'[at].state = "freed" /\ dbs'[at].plugin = "none" /\ Kept(at)
<1> DEFINE e == [dbs[at] EXCEPT !.state = "freed", !.plugin = "none"]
<1>1. at \in DOMAIN dbs /\ dbs \in Seq(DbType) /\ dbs[at] \in DbType
  BY DEF TypeOK, CloseDatabase, Passing
<1>2. /\ e \in DbType /\ e.state = "freed" /\ e.plugin = "none" /\ e.kind = dbs[at].kind
      /\ e.loads = dbs[at].loads /\ e.listed = dbs[at].listed /\ e.members = dbs[at].members
  BY <1>1 DEF DbType
<1>3. dbs' = [dbs EXCEPT ![at] = e]
  BY <1>1 DEF CloseDatabase
<1> HIDE DEF e
<1> QED
  BY <1>1, <1>2, <1>3, OneChanges DEF Kept

(* All that a search or a closing looks at but the members.                *)
Same(i) ==
    /\ dbs'[i].state = dbs[i].state /\ dbs'[i].kind = dbs[i].kind
    /\ dbs'[i].plugin = dbs[i].plugin /\ dbs'[i].told = dbs[i].told
    /\ dbs'[i].room = dbs[i].room /\ dbs'[i].disabled = dbs[i].disabled

LEMMA JoinDoes ==
    ASSUME TypeOK, NEW pass, NEW kinds, Join(pass, kinds)
    PROVE  /\ dbs' \in Seq(DbType) /\ DOMAIN dbs' = DOMAIN dbs
           /\ \A i \in DOMAIN dbs : Same(i)
           /\ at \in DOMAIN dbs /\ \A i \in DOMAIN dbs : i # at => dbs'[i] = dbs[i]
           /\ dbs'[at].loads = dbs[at].loads /\ dbs'[at].listed = dbs[at].listed
           /\ IF dbs[at].kind \in kinds
              THEN Len(dbs'[at].members) = Len(dbs[at].listed) /\ Range(dbs'[at].members) \subseteq DOMAIN dbs
              ELSE dbs'[at].members = dbs[at].members
<1>1. at \in DOMAIN dbs /\ dbs \in Seq(DbType) /\ dbs[at] \in DbType
  BY DEF TypeOK, Join, Passing
<1> DEFINE m == [i \in DOMAIN dbs[at].listed |-> Find(dbs[at].listed[i])]
           e == [dbs[at] EXCEPT !.members = m]
<1>2. CASE dbs[at].kind \notin kinds /\ UNCHANGED dbs
  BY <1>1, <1>2 DEF Same
<1>3. CASE /\ dbs[at].kind \in kinds
           /\ \A i \in DOMAIN dbs[at].listed : Known(dbs[at].listed[i]) # {}
           /\ dbs' = [dbs EXCEPT ![at].members = m]
  <2>1. dbs[at].listed \in Seq(STRING)
    BY <1>1 DEF DbType
  <2>2. \A i \in DOMAIN dbs[at].listed : Find(dbs[at].listed[i]) \in DOMAIN dbs
    BY <1>1, <1>3, FindKnown
  <2>3. m \in Seq(Nat) /\ Len(m) = Len(dbs[at].listed)
    <3> DEFINE l == dbs[at].listed
    <3>1. l \in Seq(STRING) /\ Len(l) \in Nat /\ DOMAIN l = 1 .. Len(l)
      BY <2>1
    <3>2. DOMAIN dbs \subseteq Nat
      BY <1>1
    <3>3. \A i \in DOMAIN l : Find(l[i]) \in Nat
      BY <2>2, <3>2
    <3> HIDE DEF l
    <3>4. m \in [1 .. Len(l) -> Nat]
      BY <3>1, <3>3 DEF l
    <3> QED
      BY <3>1, <3>4, LenProperties DEF l
  <2>4. Range(m) \subseteq DOMAIN dbs
    BY <2>2 DEF Range
  <2> HIDE DEF m
  <2>5. /\ e \in DbType /\ e.state = dbs[at].state /\ e.kind = dbs[at].kind
        /\ e.plugin = dbs[at].plugin /\ e.told = dbs[at].told
        /\ e.room = dbs[at].room /\ e.disabled = dbs[at].disabled
        /\ e.loads = dbs[at].loads /\ e.listed = dbs[at].listed /\ e.members = m
    BY <1>1, <2>3 DEF DbType
  <2>6. dbs' = [dbs EXCEPT ![at] = e]
    BY <1>1, <1>3
  <2> HIDE DEF e
  <2>7. Only(at) /\ dbs'[at] = e
    BY <1>1, <2>5, <2>6, OneChanges
  <2> QED
    BY <1>1, <1>3, <2>3, <2>5, <2>7, <2>4 DEF Only, Same, Joined
<1> QED
  BY <1>2, <1>3 DEF Join

LEMMA DbDisableDoes ==
    ASSUME TypeOK, DbDisable
    PROVE  /\ dbs' \in Seq(DbType) /\ DOMAIN dbs' = DOMAIN dbs
           /\ \A i \in DOMAIN dbs :
                 dbs'[i].state = dbs[i].state /\ dbs'[i].plugin = dbs[i].plugin /\ Kept(i)
<1> DEFINE k == Len(dbs)
           size == IF dbs[k].room = 0 THEN LastNumber + 1 ELSE dbs[k].room
<1>1. dbs \in Seq(DbType) /\ strategies \in Seq(Strategies) /\ k \in Nat
  BY DEF TypeOK, Strategies
<1>2. PICK kept \in BOOLEAN :
         dbs' = [dbs EXCEPT ![k].room = size,
                            ![k].disabled = IF kept THEN @ \cup {Lookup(What)} ELSE @]
  BY DEF DbDisable
<1>3. CASE k = 0
  <2>1. DOMAIN dbs = {} /\ dbs = <<>>
    BY <1>1, <1>3
  <2>2. DOMAIN dbs' = {} /\ dbs' = <<>>
    BY <1>2, <2>1
  <2> QED
    BY <1>1, <2>1, <2>2
<1>4. CASE k # 0
  <2> DEFINE e == [dbs[k] EXCEPT !.room = size,
                                 !.disabled = IF kept THEN @ \cup {Lookup(What)} ELSE @]
  <2>1. k \in DOMAIN dbs /\ dbs[k] \in DbType
    BY <1>1, <1>4
  <2>2. LastNumber \in Nat
    <3>1. CASE strategies # <<>>
      <4>1. Len(strategies) \in DOMAIN strategies
        BY <1>1, <3>1
      <4>2. strategies[Len(strategies)] \in Strategies
        BY <1>1, <4>1
      <4> QED
        BY <3>1, <4>2 DEF LastNumber, Strategies
    <3> QED
      BY <3>1 DEF LastNumber
  <2>3. Lookup(What) \in Nat
    BY <1>1, LookupNumber DEF DbDisable
  <2>4. size \in Nat
    BY <2>1, <2>2 DEF DbType
  <2> HIDE DEF size
  <2>5. /\ e \in DbType /\ e.state = dbs[k].state /\ e.plugin = dbs[k].plugin
        /\ e.kind = dbs[k].kind /\ e.loads = dbs[k].loads
        /\ e.listed = dbs[k].listed /\ e.members = dbs[k].members
    BY <2>1, <2>3, <2>4 DEF DbType
  <2>6. dbs' = [dbs EXCEPT ![k] = e]
    BY <1>2, <2>1 DEF DbType
  <2> HIDE DEF e, k
  <2>7. Only(k) /\ dbs'[k] = e
    BY <1>1, <2>1, <2>5, <2>6, OneChanges
  <2> QED
    BY <2>1, <2>5, <2>7 DEF Only, Kept
<1> QED
  BY <1>3, <1>4

LEMMA DbDefaultDoes ==
    ASSUME TypeOK, DbDefault
    PROVE  /\ dbs' \in Seq(DbType) /\ DOMAIN dbs' = DOMAIN dbs
           /\ \A i \in DOMAIN dbs :
                 dbs'[i].state = dbs[i].state /\ dbs'[i].plugin = dbs[i].plugin /\ Kept(i)
<1> DEFINE k == Len(dbs)
           e == [dbs[k] EXCEPT !.default = Lookup(What)]
<1>1. dbs \in Seq(DbType) /\ strategies \in Seq(Strategies) /\ k \in Nat
  BY DEF TypeOK, Strategies
<1>2. dbs' = [dbs EXCEPT ![k].default = Lookup(What)]
  BY DEF DbDefault
<1>3. CASE k = 0
  <2>1. DOMAIN dbs = {} /\ dbs = <<>>
    BY <1>1, <1>3
  <2>2. DOMAIN dbs' = {} /\ dbs' = <<>>
    BY <1>2, <2>1
  <2> QED
    BY <1>1, <2>1, <2>2
<1>4. CASE k # 0
  <2>1. k \in DOMAIN dbs /\ dbs[k] \in DbType
    BY <1>1, <1>4
  <2>2. Lookup(What) \in Nat
    BY <1>1, LookupNumber DEF DbDefault
  <2>3. /\ e \in DbType /\ e.state = dbs[k].state /\ e.plugin = dbs[k].plugin
        /\ e.kind = dbs[k].kind /\ e.loads = dbs[k].loads
        /\ e.listed = dbs[k].listed /\ e.members = dbs[k].members
    BY <2>1, <2>2 DEF DbType
  <2>4. dbs' = [dbs EXCEPT ![k] = e]
    BY <1>2, <2>1
  <2> HIDE DEF e, k
  <2>5. Only(k) /\ dbs'[k] = e
    BY <1>1, <2>1, <2>3, <2>4, OneChanges
  <2> QED
    BY <2>1, <2>3, <2>5 DEF Only, Kept
<1> QED
  BY <1>3, <1>4

LEMMA DatabaseDoes ==
    ASSUME TypeOK, text \in Seq(Directives), Database
    PROVE  /\ dbs' \in Seq(DbType) /\ DOMAIN dbs' = DOMAIN dbs \cup {Len(dbs) + 1}
           /\ \A i \in DOMAIN dbs : dbs'[i] = dbs[i]
           /\ dbs'[Len(dbs) + 1].state = "parsed" /\ dbs'[Len(dbs) + 1].plugin = "none"
           /\ dbs'[Len(dbs) + 1].members = <<>>
           /\ dbs'[Len(dbs) + 1].kind = "plugin" => dbs'[Len(dbs) + 1].listed = <<>>
<1>1. dbs \in Seq(DbType) /\ dbs' = Append(dbs, New(text[at].db))
  BY DEF TypeOK, Database
<1>2. text[at] \in Directives /\ text[at].is = "database"
  BY DEF TypeOK, Database, Parsing
<1>3. text[at].db \in Databases
  BY <1>2 DEF Directives
<1>4. /\ New(text[at].db) \in DbType
      /\ New(text[at].db).state = "parsed" /\ New(text[at].db).plugin = "none"
      /\ New(text[at].db).members = <<>>
      /\ New(text[at].db).kind = "plugin" => New(text[at].db).listed = <<>>
  BY <1>3 DEF New, DbType, Databases
<1> QED
  BY <1>1, <1>4
-----------------------------------------------------------------------------
LEMMA OneMoves ==
    ASSUME NEW S, NEW T, NEW k, IsFiniteSet(S), \A j : j # k => (j \in S <=> j \in T)
    PROVE  /\ IsFiniteSet(T) /\ Cardinality(S) \in Nat
           /\ Cardinality(T) = Cardinality(S) + (IF k \in T THEN 1 ELSE 0)
                                              - (IF k \in S THEN 1 ELSE 0)
<1>1. Cardinality(S) \in Nat
  BY FS_CardinalityType
<1>2. CASE k \in S <=> k \in T
  <2>1. T = S
    BY <1>2
  <2> QED
    BY <1>1, <2>1
<1>3. CASE k \in T /\ k \notin S
  <2>1. T = S \cup {k}
    BY <1>3
  <2> QED
    BY <1>1, <1>3, <2>1, FS_AddElement
<1>4. CASE k \notin T /\ k \in S
  <2>1. T = S \ {k}
    BY <1>4
  <2> QED
    BY <1>1, <1>4, <2>1, FS_RemoveElement
<1> QED
  BY <1>2, <1>3, <1>4

LEMMA OpenFinite ==
    ASSUME dbs \in Seq(DbType)
    PROVE  IsFiniteSet(Indexed) /\ IsFiniteSet(Plugged)
<1>1. Len(dbs) \in Nat /\ DOMAIN dbs = 1 .. Len(dbs)
  OBVIOUS
<1>2. IsFiniteSet(DOMAIN dbs)
  BY <1>1, FS_Interval
<1>3. Indexed \subseteq DOMAIN dbs /\ Plugged \subseteq DOMAIN dbs
  BY DEF Indexed, Plugged
<1> QED
  BY <1>2, <1>3, FS_Subset

(* What opening or closing the database called at adds to the count.       *)
LEMMA CountOne ==
    ASSUME TypeOK, at \in DOMAIN dbs, Only(at), CountInv,
           opened' = opened + (IF at \in Indexed' THEN 1 ELSE 0) - (IF at \in Indexed THEN 1 ELSE 0)
                            + (IF at \in Plugged' THEN 1 ELSE 0) - (IF at \in Plugged THEN 1 ELSE 0)
    PROVE  CountInv' /\ opened' \in Nat
<1>1. IsFiniteSet(Indexed) /\ IsFiniteSet(Plugged)
  BY OpenFinite DEF TypeOK
<1>2. \A j : j # at => (j \in Indexed <=> j \in Indexed')
  BY DEF Only, Indexed, HasIndex
<1>3. \A j : j # at => (j \in Plugged <=> j \in Plugged')
  BY DEF Only, Plugged
<1>4. /\ IsFiniteSet(Indexed') /\ Cardinality(Indexed) \in Nat
      /\ Cardinality(Indexed') = Cardinality(Indexed) + (IF at \in Indexed' THEN 1 ELSE 0)
                                                      - (IF at \in Indexed THEN 1 ELSE 0)
  BY <1>1, <1>2, OneMoves
<1>5. /\ IsFiniteSet(Plugged') /\ Cardinality(Plugged) \in Nat
      /\ Cardinality(Plugged') = Cardinality(Plugged) + (IF at \in Plugged' THEN 1 ELSE 0)
                                                      - (IF at \in Plugged THEN 1 ELSE 0)
  BY <1>1, <1>3, OneMoves
<1>6. Cardinality(Indexed') \in Nat /\ Cardinality(Plugged') \in Nat
  BY <1>4, <1>5, FS_CardinalityType
<1>7. opened = Cardinality(Indexed) + Cardinality(Plugged)
  BY DEF CountInv
<1>8. opened' = Cardinality(Indexed') + Cardinality(Plugged')
  BY <1>4, <1>5, <1>7
<1> QED
  BY <1>6, <1>8 DEF CountInv

(* A step that opens and closes nothing.                                   *)
LEMMA CountSame ==
    ASSUME TypeOK, CountInv, UNCHANGED opened, Indexed' = Indexed, Plugged' = Plugged
    PROVE  CountInv' /\ opened' \in Nat
  BY DEF CountInv, TypeOK

(* A plugin that is told the table knows it.                               *)
LEMMA ToldKnows ==
    ASSUME strategies \in Seq(Strategies), NEW db, NEW told \in Told(db)
    PROVE  Knows(db, told)
<1>1. told \subseteq Range(strategies)
  BY DEF Told
<1>2. ASSUME NEW s \in Range(strategies),
             Within(db, Lookup(s.name)), ~Disabled(db, Lookup(s.name))
      PROVE  [name |-> s.name, number |-> Lookup(s.name)] \in told
  <2>1. Named(s.name) # {}
    BY DEF Range, Named
  <2>2. [name |-> s.name, number |-> Lookup(s.name)] \in Range(strategies)
    BY <2>1, LookupNumber
  <2>3. [name |-> s.name, number |-> Lookup(s.name)].number = Lookup(s.name)
    OBVIOUS
  <2> QED
    BY <1>2, <2>2, <2>3 DEF Told
<1> QED
  BY <1>1, <1>2 DEF Knows

LEMMA KnowsSame ==
    ASSUME UNCHANGED strategies, NEW i, NEW told, Knows(dbs[i], told), dbs'[i].told = told,
           dbs'[i].room = dbs[i].room, dbs'[i].disabled = dbs[i].disabled
    PROVE  Knows(dbs[i], dbs[i].told)'
<1>1. \A name : Named(name)' = Named(name)
  BY DEF Named
<1>2. \A name : Index(name)' = Index(name)
  BY <1>1, Zenon DEF Index
<1>3. \A name : Lookup(name)' = Lookup(name)
  BY <1>2 DEF Lookup
<1>4. Range(strategies)' = Range(strategies)
  BY DEF Range
<1>5. \A number : /\ Within(dbs[i], number)' <=> Within(dbs[i], number)
                  /\ Disabled(dbs[i], number)' <=> Disabled(dbs[i], number)
  BY DEF Within, Disabled
<1> QED
  BY <1>3, <1>4, <1>5 DEF Knows
-----------------------------------------------------------------------------
(* Steps that leave databases as open, and as informed, as they were.      *)
LEMMA SameKeeps ==
    ASSUME LifecycleInv, dbs' \in Seq(DbType), DOMAIN dbs' = DOMAIN dbs,
           \A i \in DOMAIN dbs : Same(i), UNCHANGED <<strategies, opened>>
    PROVE  CountInv' /\ ToldInv' /\ opened' \in Nat
<1>1. Indexed' = Indexed /\ Plugged' = Plugged
  BY DEF Indexed, Plugged, Same, HasIndex
<1>2. CountInv' /\ opened' \in Nat
  BY <1>1, CountSame DEF LifecycleInv
<1>3. ToldInv'
  <2> SUFFICES ASSUME NEW i \in DOMAIN dbs', dbs'[i].plugin = "open"
               PROVE  Knows(dbs[i], dbs[i].told)'
    BY DEF ToldInv
  <2>1. Same(i) /\ dbs[i].plugin = "open"
    BY DEF Same
  <2>2. Knows(dbs[i], dbs[i].told)
    BY <2>1 DEF LifecycleInv, ToldInv
  <2> QED
    BY <2>1, <2>2, KnowsSame DEF Same
<1> QED
  BY <1>2, <1>3

LEMMA NothingKeeps ==
    ASSUME LifecycleInv, UNCHANGED <<dbs, strategies, opened>>
    PROVE  CountInv' /\ ToldInv' /\ opened' \in Nat /\ dbs' \in Seq(DbType)
<1>1. dbs' \in Seq(DbType) /\ DOMAIN dbs' = DOMAIN dbs /\ \A i \in DOMAIN dbs : Same(i)
  BY DEF LifecycleInv, TypeOK, Same
<1> QED
  BY <1>1, SameKeeps

LEMMA ExitKeeps ==
    ASSUME LifecycleInv, Exit
    PROVE  LifecycleInv'
<1>1. TypeOK' /\ text' \in Seq(Directives)
  BY DEF LifecycleInv, TypeOK, Exit, table
<1>2. TableInv' /\ StatesInv'
  BY DEF LifecycleInv, TableInv, StatesInv, Exit, table
<1>3. CountInv' /\ ToldInv'
  BY NothingKeeps DEF Exit, table
<1> QED
  BY <1>1, <1>2, <1>3 DEF LifecycleInv

(* While a file is parsed nothing is open, and there is nobody to tell.    *)
LEMMA ParseKeeps ==
    ASSUME LifecycleInv, phase = "parse", Parsed,
           site' \in {"none", "interned", "heap", "freed"},
           strategies' \in Seq(Strategies), strategyId' \in Nat \ {0}, defaultStrategy' \in Nat,
           TableInv', dbs' \in Seq(DbType),
           \A i \in DOMAIN dbs' : dbs'[i].state = "parsed" /\ dbs'[i].plugin = "none"
    PROVE  LifecycleInv'
<1>1. TypeOK' /\ text' \in Seq(Directives)
  BY DEF LifecycleInv, TypeOK, Parsed, Strategies
<1>2. StatesInv'
  BY DEF StatesInv, Parsed
<1>3. \A i \in DOMAIN dbs : dbs[i].state = "parsed" /\ dbs[i].plugin = "none"
  BY DEF LifecycleInv, StatesInv
<1>4. Indexed' = {} /\ Plugged' = {} /\ Indexed = {} /\ Plugged = {}
  BY <1>3 DEF Indexed, Plugged
<1>5. CountInv'
  BY <1>4, CountSame DEF LifecycleInv, Parsed
<1>6. ToldInv'
  BY DEF ToldInv
<1> QED
  BY <1>1, <1>2, <1>5, <1>6 DEF LifecycleInv

LEMMA TableKeeps ==
    ASSUME TableInv, UNCHANGED <<strategies, strategyId>>
    PROVE  TableInv'
  BY DEF TableInv

LEMMA DirectiveKeeps ==
    ASSUME LifecycleInv, Directive
    PROVE  LifecycleInv'
<1> USE DEF Parsing, table
<1>1. /\ TypeOK /\ TableInv /\ dbs \in Seq(DbType) /\ strategies \in Seq(Strategies)
      /\ strategyId \in Nat \ {0} /\ defaultStrategy \in Nat
      /\ site \in {"none", "interned", "heap", "freed"} /\ at \in Nat \ {0}
      /\ text \in Seq(Directives)
  BY DEF LifecycleInv, TypeOK, Strategies
<1>2. phase = "parse" =>
         \A i \in DOMAIN dbs : dbs[i].state = "parsed" /\ dbs[i].plugin = "none"
  BY DEF LifecycleInv, StatesInv
<1>3. phase = "parse" /\ at <= Len(text) /\ text[at].is # "database" => What \in STRING
  <2>1. Len(text) \in Nat /\ DOMAIN text = 1 .. Len(text)
    BY <1>1
  <2>2. phase = "parse" /\ at <= Len(text) => text[at] \in Directives
    BY <1>1, <2>1
  <2> QED
    BY <2>2 DEF What, Directives
<1>4. CASE Site
  BY <1>1, <1>2, <1>4, ParseKeeps, TableKeeps DEF Site
<1>5. CASE SiteAborts
  BY <1>5, ExitKeeps DEF SiteAborts
<1>6. CASE AddStrategy
  <2> DEFINE new == [name |-> What, number |-> strategyId]
  <2>1. phase = "parse" /\ Parsed /\ UNCHANGED <<defaultStrategy, site, dbs>>
        /\ strategies' = Append(strategies, new) /\ strategyId' = strategyId + 1
    BY <1>6 DEF AddStrategy
  <2>2. new \in Strategies /\ new.number = strategyId
    BY <1>1, <1>3, <1>6 DEF AddStrategy, Strategies
  <2> HIDE DEF new
  <2>3. strategies' \in Seq(Strategies) /\ DOMAIN strategies' = 1 .. Len(strategies) + 1
    BY <1>1, <2>1, <2>2
  <2>4. \A i \in DOMAIN strategies' :
           strategies'[i] = IF i = Len(strategies) + 1 THEN new ELSE strategies[i]
    BY <1>1, <2>1, <2>3
  <2>5. /\ Len(strategies) \in Nat /\ DOMAIN strategies = 1 .. Len(strategies)
        /\ \A i \in DOMAIN strategies : strategies[i].number \in Nat /\ strategies[i].number < strategyId
    <3>1. \A i \in DOMAIN strategies : strategies[i] \in Strategies
      BY <1>1
    <3>2. \A i \in DOMAIN strategies : strategies[i].number \in Nat
      BY <3>1 DEF Strategies
    <3> QED
      BY <1>1, <3>2 DEF TableInv
  <2>6. \A i \in DOMAIN strategies' :
           strategies'[i].number = IF i = Len(strategies) + 1 THEN strategyId ELSE strategies[i].number
    BY <2>2, <2>4
  <2>7. \A i \in DOMAIN strategies' : i # Len(strategies) + 1 => i \in DOMAIN strategies
    BY <2>3, <2>5
  <2>8. TableInv'
    <3>1. \A i \in DOMAIN strategies' : strategies'[i].number < strategyId'
      BY <1>1, <2>1, <2>5, <2>6, <2>7
    <3>2. \A i, j \in DOMAIN strategies' : i # j => strategies'[i].number # strategies'[j].number
      BY <1>1, <2>5, <2>6, <2>7 DEF TableInv
    <3> QED
      BY <3>1, <3>2 DEF TableInv
  <2> QED
    BY <1>1, <1>2, <2>1, <2>3, <2>8, ParseKeeps
<1>7. CASE DisableStrategy
  <2>1. Index(What) \in DOMAIN strategies
    BY <1>1, <1>7, IndexFirst DEF DisableStrategy
  <2>2. strategies' = Without(Index(What)) /\ UNCHANGED strategyId
    BY <1>7 DEF DisableStrategy
  <2>3. /\ strategies' \in Seq(Strategies)
        /\ \A j \in DOMAIN strategies' : \E k \in DOMAIN strategies : strategies'[j] = strategies[k]
        /\ \A j, k \in DOMAIN strategies' : j # k => strategies'[j].number # strategies'[k].number
    BY <1>1, <2>1, <2>2, WithoutOne
  <2>4. TableInv'
    BY <1>1, <2>2, <2>3 DEF TableInv
  <2> QED
    BY <1>1, <1>2, <1>7, <2>3, <2>4, ParseKeeps DEF DisableStrategy
<1>8. CASE DefaultStrategy
  <2>1. Lookup(What) \in Nat
    BY <1>1, <1>8, LookupNumber DEF DefaultStrategy
  <2> QED
    BY <1>1, <1>2, <1>8, <2>1, ParseKeeps, TableKeeps DEF DefaultStrategy
<1>9. CASE Database
  <2>1. /\ dbs' \in Seq(DbType) /\ DOMAIN dbs' = DOMAIN dbs \cup {Len(dbs) + 1}
        /\ \A i \in DOMAIN dbs : dbs'[i] = dbs[i]
        /\ dbs'[Len(dbs) + 1].state = "parsed" /\ dbs'[Len(dbs) + 1].plugin = "none"
    BY <1>1, <1>9, DatabaseDoes
  <2>2. \A i \in DOMAIN dbs' : dbs'[i].state = "parsed" /\ dbs'[i].plugin = "none"
    BY <1>2, <1>9, <2>1 DEF Database
  <2> QED
    BY <1>1, <1>9, <2>1, <2>2, ParseKeeps, TableKeeps DEF Database
<1>10. CASE DbDisable
  <2>1. /\ dbs' \in Seq(DbType) /\ DOMAIN dbs' = DOMAIN dbs
        /\ \A i \in DOMAIN dbs : dbs'[i].state = dbs[i].state /\ dbs'[i].plugin = dbs[i].plugin
    BY <1>1, <1>10, DbDisableDoes
  <2>2. phase = "parse" /\ Parsed /\ UNCHANGED <<strategies, strategyId, defaultStrategy, site>>
    BY <1>10 DEF DbDisable
  <2> QED
    BY <1>1, <1>2, <2>1, <2>2, ParseKeeps, TableKeeps
<1>11. CASE DbDefault
  <2>1. /\ dbs' \in Seq(DbType) /\ DOMAIN dbs' = DOMAIN dbs
        /\ \A i \in DOMAIN dbs : dbs'[i].state = dbs[i].state /\ dbs'[i].plugin = dbs[i].plugin
    BY <1>1, <1>11, DbDefaultDoes
  <2>2. phase = "parse" /\ Parsed /\ UNCHANGED <<strategies, strategyId, defaultStrategy, site>>
    BY <1>11 DEF DbDefault
  <2> QED
    BY <1>1, <1>2, <2>1, <2>2, ParseKeeps, TableKeeps
<1>12. CASE StrategyUnknown
  BY <1>12, ExitKeeps DEF StrategyUnknown
<1>13. CASE ParseEnds
  <2>1. TypeOK' /\ text' \in Seq(Directives)
    BY <1>1, <1>13 DEF LifecycleInv, TypeOK, ParseEnds, After
  <2>2. StatesInv'
    BY <1>1, <1>2, <1>13 DEF StatesInv, ParseEnds
  <2>3. TableInv'
    BY <1>1, <1>13, TableKeeps DEF ParseEnds
  <2> QED
    BY <1>13, <2>1, <2>2, <2>3, NothingKeeps DEF ParseEnds, LifecycleInv
<1> QED
  BY <1>4, <1>5, <1>6, <1>7, <1>8, <1>9, <1>10, <1>11, <1>12, <1>13 DEF Directive
-----------------------------------------------------------------------------
LEMMA PassKeeps ==
    ASSUME LifecycleInv, Passed, dbs' \in Seq(DbType), opened' \in Nat
    PROVE  TypeOK' /\ text' \in Seq(Directives) /\ TableInv'
<1>1. TypeOK' /\ text' \in Seq(Directives)
  BY DEF LifecycleInv, TypeOK, Passed, table
<1> QED
  BY <1>1, TableKeeps DEF LifecycleInv, Passed, table

LEMMA InitDatabaseKeeps ==
    ASSUME LifecycleInv, InitDatabase
    PROVE  LifecycleInv'
<1>1. TypeOK /\ CountInv /\ phase = "databases" /\ Passed /\ at \in Nat
  BY DEF LifecycleInv, TypeOK, InitDatabase, Passing
<1>2. \A i \in DOMAIN dbs :
         dbs[i].plugin = "none" /\ dbs[i].state = IF i < at THEN "open" ELSE "parsed"
  BY <1>1 DEF LifecycleInv, StatesInv
<1>3. /\ at \in DOMAIN dbs /\ Only(at) /\ dbs'[at].state = "open"
      /\ dbs'[at].kind = dbs[at].kind /\ dbs'[at].plugin = dbs[at].plugin
  BY <1>1, InitDatabaseDoes
<1>4. /\ DOMAIN dbs' = DOMAIN dbs /\ dbs' \in Seq(DbType) /\ DOMAIN dbs \subseteq Nat
      /\ \A i \in DOMAIN dbs : i # at => dbs'[i] = dbs[i]
  BY <1>1, <1>3 DEF Only, TypeOK
<1>5. CountInv' /\ opened' \in Nat
  <2>1. at \notin Indexed /\ at \notin Plugged /\ at \notin Plugged'
    BY <1>1, <1>2, <1>3 DEF Indexed, Plugged
  <2>2. at \in Indexed' <=> HasIndex(dbs[at])
    BY <1>3, <1>4 DEF Indexed, HasIndex
  <2>3. opened' = opened + (IF HasIndex(dbs[at]) THEN 1 ELSE 0) /\ opened \in Nat
    BY <1>1 DEF InitDatabase, TypeOK
  <2> QED
    BY <1>1, <1>3, <2>1, <2>2, <2>3, CountOne
<1>6. \A i \in DOMAIN dbs' :
         dbs'[i].plugin = "none" /\ dbs'[i].state = IF i < at + 1 THEN "open" ELSE "parsed"
  <2> SUFFICES ASSUME NEW i \in DOMAIN dbs
               PROVE  dbs'[i].plugin = "none" /\ dbs'[i].state = IF i < at + 1 THEN "open" ELSE "parsed"
    BY <1>4
  <2>1. CASE i = at
    BY <1>1, <1>2, <1>3, <2>1
  <2>2. CASE i # at
    <3>1. i \in Nat /\ (i < at + 1 <=> i < at)
      BY <1>1, <1>4, <2>2
    <3> QED
      BY <1>2, <1>4, <2>2, <3>1
  <2> QED
    BY <2>1, <2>2
<1>7. phase' = "databases" /\ at' = at + 1
  BY <1>1 DEF Passed
<1>8. StatesInv'
  BY <1>6, <1>7 DEF StatesInv
<1>9. ToldInv'
  BY <1>6 DEF ToldInv
<1> QED
  BY <1>1, <1>4, <1>5, <1>8, <1>9, PassKeeps DEF LifecycleInv

LEMMA InitPluginKeeps ==
    ASSUME LifecycleInv, InitPlugin
    PROVE  LifecycleInv'
<1>1. /\ TypeOK /\ CountInv /\ phase = "plugins" /\ Passed /\ at \in Nat
      /\ phase' = "plugins" /\ at' = at + 1 /\ strategies \in Seq(Strategies)
      /\ UNCHANGED strategies
  BY DEF LifecycleInv, TypeOK, InitPlugin, Passing, Passed, table, Strategies
<1>2. \A i \in DOMAIN dbs : dbs[i].state = "open" /\ (i >= at => dbs[i].plugin = "none")
  BY <1>1 DEF LifecycleInv, StatesInv
<1>3. CASE ~dbs[at].loads
  <2>1. UNCHANGED <<dbs, opened>>
    BY <1>3 DEF InitPlugin
  <2>2. DOMAIN dbs \subseteq Nat
    BY <1>1 DEF TypeOK
  <2>3. StatesInv'
    BY <1>1, <1>2, <2>1, <2>2 DEF StatesInv
  <2> QED
    BY <1>1, <2>1, <2>3, NothingKeeps, PassKeeps DEF LifecycleInv
<1>4. CASE dbs[at].loads
  <2>1. /\ at \in DOMAIN dbs /\ Only(at)
        /\ dbs'[at].state = dbs[at].state /\ dbs'[at].kind = dbs[at].kind
        /\ dbs'[at].plugin = "open"
        /\ dbs'[at].room = dbs[at].room /\ dbs'[at].disabled = dbs[at].disabled
        /\ dbs'[at].told \in Told(dbs[at])
    BY <1>1, <1>4, InitPluginDoes
  <2>2. /\ DOMAIN dbs' = DOMAIN dbs /\ dbs' \in Seq(DbType) /\ DOMAIN dbs \subseteq Nat
        /\ \A i \in DOMAIN dbs : i # at => dbs'[i] = dbs[i]
    BY <1>1, <2>1 DEF Only, TypeOK
  <2>3. CountInv' /\ opened' \in Nat
    <3>1. at \notin Plugged /\ at \in Plugged'
      BY <1>1, <1>2, <2>1, <2>2 DEF Plugged
    <3>2. at \in Indexed' <=> at \in Indexed
      BY <2>1, <2>2 DEF Indexed, HasIndex
    <3>3. opened' = opened + 1 /\ opened \in Nat
      BY <1>1, <1>4 DEF InitPlugin, TypeOK
    <3> QED
      BY <1>1, <2>1, <3>1, <3>2, <3>3, CountOne
  <2>4. \A i \in DOMAIN dbs' : dbs'[i].state = "open" /\ (i >= at + 1 => dbs'[i].plugin = "none")
    <3> SUFFICES ASSUME NEW i \in DOMAIN dbs
                 PROVE  dbs'[i].state = "open" /\ (i >= at + 1 => dbs'[i].plugin = "none")
      BY <2>2
    <3>1. i \in Nat /\ at \in Nat
      BY <1>1, <2>2
    <3>2. CASE i = at
      BY <1>2, <2>1, <3>1, <3>2
    <3>3. CASE i # at
      BY <1>2, <2>2, <3>1, <3>3
    <3> QED
      BY <3>2, <3>3
  <2>5. StatesInv'
    BY <1>1, <2>4 DEF StatesInv
  <2>6. ToldInv'
    <3> SUFFICES ASSUME NEW i \in DOMAIN dbs, dbs'[i].plugin = "open"
                 PROVE  Knows(dbs[i], dbs[i].told)'
      BY <2>2 DEF ToldInv
    <3>1. CASE i = at
      <4>1. PICK told \in Told(dbs[at]) : dbs'[at].told = told
        BY <2>1
      <4>2. Knows(dbs[at], told)
        BY <1>1, ToldKnows
      <4> QED
        BY <1>1, <2>1, <3>1, <4>1, <4>2, KnowsSame
    <3>2. CASE i # at
      <4>1. dbs'[i] = dbs[i]
        BY <2>2, <3>2
      <4>2. Knows(dbs[i], dbs[i].told)
        BY <4>1 DEF LifecycleInv, ToldInv
      <4> QED
        BY <1>1, <4>1, <4>2, KnowsSame
    <3> QED
      BY <3>1, <3>2
  <2> QED
    BY <1>1, <2>2, <2>3, <2>5, <2>6, PassKeeps DEF LifecycleInv
<1> QED
  BY <1>3, <1>4

LEMMA JoinKeeps ==
    ASSUME LifecycleInv, NEW pass \in {"virtual", "mime"}, NEW kinds, Join(pass, kinds)
    PROVE  LifecycleInv'
<1>1. TypeOK /\ phase = pass /\ Passed /\ UNCHANGED <<phase, strategies, opened>>
  BY DEF LifecycleInv, Join, Passing, Passed, table
<1>2. /\ dbs' \in Seq(DbType) /\ DOMAIN dbs' = DOMAIN dbs
      /\ \A i \in DOMAIN dbs : Same(i)
  BY <1>1, JoinDoes
<1>3. CountInv' /\ ToldInv' /\ opened' \in Nat
  BY <1>1, <1>2, SameKeeps
<1>4. \A i \in DOMAIN dbs : dbs[i].state = "open"
  BY <1>1 DEF LifecycleInv, StatesInv
<1>5. StatesInv'
  BY <1>1, <1>2, <1>4 DEF StatesInv, Same
<1> QED
  BY <1>1, <1>2, <1>3, <1>5, PassKeeps DEF LifecycleInv

LEMMA InitShortKeeps ==
    ASSUME LifecycleInv, InitShort
    PROVE  LifecycleInv'
<1>1. phase = "short" /\ Passed /\ UNCHANGED <<phase, dbs, strategies, opened>>
  BY DEF InitShort, Passing, Passed, table
<1>2. StatesInv'
  BY <1>1 DEF LifecycleInv, StatesInv
<1> QED
  BY <1>1, <1>2, NothingKeeps, PassKeeps DEF LifecycleInv

LEMMA PassEndsKeeps ==
    ASSUME LifecycleInv, PassEnds
    PROVE  LifecycleInv'
<1>1. /\ UNCHANGED <<dbs, strategies, strategyId, opened>> /\ at' = 1 /\ at > Len(dbs)
      /\ phase \in DOMAIN After /\ phase' = After[phase]
  BY DEF PassEnds, table
<1>2. /\ phase \in {"databases", "plugins", "virtual", "mime", "short"}
      /\ phase = "databases" => phase' = "plugins"
      /\ phase # "databases" => phase' \in {"virtual", "mime", "short", "serving"}
  BY <1>1 DEF After
<1>3. TypeOK' /\ text' \in Seq(Directives)
  <2>1. phase' \in {"serving"} \cup DOMAIN After
    BY <1>2 DEF After
  <2> QED
    BY <1>1, <2>1 DEF LifecycleInv, TypeOK, PassEnds, table
<1>4. DOMAIN dbs = 1 .. Len(dbs) /\ Len(dbs) \in Nat /\ at \in Nat
  BY DEF LifecycleInv, TypeOK
<1>5. \A i \in DOMAIN dbs : i < at
  BY <1>1, <1>4
<1>6. StatesInv'
  BY <1>1, <1>2, <1>5 DEF LifecycleInv, StatesInv
<1> QED
  BY <1>1, <1>3, <1>6, NothingKeeps, TableKeeps DEF LifecycleInv
-----------------------------------------------------------------------------
LEMMA SignalKeeps ==
    ASSUME LifecycleInv, Hangup \/ Unload
    PROVE  LifecycleInv'
<1>1. /\ UNCHANGED <<dbs, strategies, strategyId, opened>> /\ at' = 1
      /\ \/ phase = "serving" /\ phase' = "closing"
         \/ phase = "unloaded" /\ phase' = "parse"
  BY DEF Hangup, Unload, table
<1>2. TypeOK' /\ text' \in Seq(Directives)
  BY FilesAssumption, BuiltinAssumption DEF LifecycleInv, TypeOK, Hangup, Unload, table
<1>3. DOMAIN dbs \subseteq Nat \ {0}
  BY DEF LifecycleInv, TypeOK
<1>4. CASE phase = "serving"
  <2>1. \A i \in DOMAIN dbs : dbs[i].state = "open" /\ ~(i < 1)
    BY <1>3, <1>4 DEF LifecycleInv, StatesInv
  <2> QED
    BY <1>1, <1>2, <1>4, <2>1, NothingKeeps, TableKeeps DEF LifecycleInv, StatesInv
<1>5. CASE phase = "unloaded"
  <2>1. DOMAIN dbs = {}
    BY <1>5 DEF LifecycleInv, StatesInv
  <2>2. StatesInv'
    BY <1>1, <1>5, <2>1 DEF StatesInv
  <2> QED
    BY <1>1, <1>2, <2>2, NothingKeeps, TableKeeps DEF LifecycleInv
<1> QED
  BY <1>1, <1>4, <1>5

LEMMA CloseDatabaseKeeps ==
    ASSUME LifecycleInv, CloseDatabase
    PROVE  LifecycleInv'
<1>1. /\ TypeOK /\ CountInv /\ phase = "closing" /\ Passed /\ at \in Nat
      /\ phase' = "closing" /\ at' = at + 1 /\ UNCHANGED strategies
  BY DEF LifecycleInv, TypeOK, CloseDatabase, Passing, Passed, table
<1>2. \A i \in DOMAIN dbs :
         IF i < at THEN dbs[i].state = "freed" /\ dbs[i].plugin = "none" ELSE dbs[i].state = "open"
  BY <1>1 DEF LifecycleInv, StatesInv
<1>3. /\ at \in DOMAIN dbs /\ Only(at)
      /\ dbs'[at].state = "freed" /\ dbs'[at].plugin = "none"
  BY <1>1, CloseDatabaseDoes
<1>4. /\ DOMAIN dbs' = DOMAIN dbs /\ dbs' \in Seq(DbType) /\ DOMAIN dbs \subseteq Nat
      /\ \A i \in DOMAIN dbs : i # at => dbs'[i] = dbs[i]
  BY <1>1, <1>3 DEF Only, TypeOK
<1>5. CountInv' /\ opened' \in Nat
  <2>1. at \notin Indexed' /\ at \notin Plugged'
    BY <1>3 DEF Indexed, Plugged
  <2>2. at \in Indexed <=> HasIndex(dbs[at])
    BY <1>1, <1>2, <1>3 DEF Indexed
  <2>3. at \in Plugged <=> dbs[at].plugin = "open"
    BY <1>3 DEF Plugged
  <2>4. opened' = opened - (IF HasIndex(dbs[at]) THEN 1 ELSE 0)
                         - (IF dbs[at].plugin = "open" THEN 1 ELSE 0)
    BY DEF CloseDatabase
  <2>5. opened \in Nat
    BY <1>1 DEF TypeOK
  <2> QED
    BY <1>1, <1>3, <2>1, <2>2, <2>3, <2>4, <2>5, CountOne
<1>6. \A i \in DOMAIN dbs' :
         IF i < at + 1 THEN dbs'[i].state = "freed" /\ dbs'[i].plugin = "none"
         ELSE dbs'[i].state = "open"
  <2> SUFFICES ASSUME NEW i \in DOMAIN dbs
               PROVE  IF i < at + 1 THEN dbs'[i].state = "freed" /\ dbs'[i].plugin = "none"
                      ELSE dbs'[i].state = "open"
    BY <1>4
  <2>1. CASE i = at
    BY <1>1, <1>3, <2>1
  <2>2. CASE i # at
    <3>1. i \in Nat /\ (i < at + 1 <=> i < at)
      BY <1>1, <1>4, <2>2
    <3> QED
      BY <1>2, <1>4, <2>2, <3>1
  <2> QED
    BY <2>1, <2>2
<1>7. StatesInv'
  BY <1>1, <1>6 DEF StatesInv
<1>8. ToldInv'
  <2> SUFFICES ASSUME NEW i \in DOMAIN dbs, dbs'[i].plugin = "open"
               PROVE  Knows(dbs[i], dbs[i].told)'
    BY <1>4 DEF ToldInv
  <2>1. dbs'[i] = dbs[i]
    BY <1>3, <1>4
  <2>2. Knows(dbs[i], dbs[i].told)
    BY <2>1 DEF LifecycleInv, ToldInv
  <2> QED
    BY <1>1, <2>1, <2>2, KnowsSame
<1> QED
  BY <1>1, <1>4, <1>5, <1>7, <1>8, PassKeeps DEF LifecycleInv

LEMMA CloseEndsKeeps ==
    ASSUME LifecycleInv, CloseEnds
    PROVE  LifecycleInv'
<1>1. /\ phase = "closing" /\ at > Len(dbs) /\ phase' = next /\ at' = 1 /\ dbs' = <<>>
      /\ UNCHANGED <<text, strategies, strategyId, defaultStrategy, opened, next, signals>>
      /\ site' \in {"none", "freed"}
  BY DEF CloseEnds, table
<1>2. DOMAIN dbs = 1 .. Len(dbs) /\ Len(dbs) \in Nat /\ at \in Nat
  BY DEF LifecycleInv, TypeOK
<1>3. \A i \in DOMAIN dbs : dbs[i].state = "freed" /\ dbs[i].plugin = "none"
  BY <1>1, <1>2 DEF LifecycleInv, StatesInv
<1>4. DOMAIN dbs' = {}
  BY <1>1
<1>5. Indexed = {} /\ Plugged = {} /\ Indexed' = {} /\ Plugged' = {}
  BY <1>3, <1>4 DEF Indexed, Plugged
<1>6. CountInv'
  BY <1>1, <1>5, CountSame DEF LifecycleInv
<1>7. TypeOK' /\ text' \in Seq(Directives)
  <2>1. dbs' \in Seq(DbType)
    BY <1>1
  <2> QED
    BY <1>1, <2>1 DEF LifecycleInv, TypeOK
<1>8. StatesInv' /\ ToldInv'
  BY <1>1, <1>4 DEF LifecycleInv, TypeOK, StatesInv, ToldInv
<1> QED
  BY <1>1, <1>6, <1>7, <1>8, TableKeeps DEF LifecycleInv
-----------------------------------------------------------------------------
(* A database stays ready as long as the parent makes no call for it.      *)
LEMMA KeptReady ==
    ASSUME NEW i, Ready(i), Kept(i), DOMAIN dbs \subseteq DOMAIN dbs',
           dbs[i].plugin = "open" => dbs'[i].plugin = "open",
           \A pass \in DOMAIN Later : Past(i, pass)' => Past(i, pass)
    PROVE  Ready(i)'
<1>1. DOMAIN Later = {"plugins", "virtual", "mime"}
  BY DEF Later
<1>2. Joined(i)' <=> Joined(i)
  BY DEF Joined, Kept
<1> QED
  BY <1>1, <1>2 DEF Ready, Kept

(* Outside the three calls there is nothing to be ready for.               *)
LEMMA OutsideReady ==
    ASSUME NEW i, Ready(i), Kept(i), DOMAIN dbs \subseteq DOMAIN dbs',
           phase' \in {"parse", "databases", "closing", "exited", "unloaded"}
    PROVE  Ready(i)'
<1>1. \A pass \in DOMAIN Later : ~Past(i, pass)'
  BY DEF Past, Later
<1>2. Joined(i)' <=> Joined(i)
  BY DEF Joined, Kept
<1>3. DOMAIN Later = {"plugins", "virtual", "mime"}
  BY DEF Later
<1> QED
  BY <1>1, <1>2, <1>3 DEF Ready, Kept

LEMMA UnchangedReady ==
    ASSUME ReadyInv, UNCHANGED dbs,
           phase' \in {"parse", "databases", "closing", "exited", "unloaded"}
    PROVE  ReadyInv'
<1>1. \A i \in DOMAIN dbs : Kept(i)
  BY DEF Kept
<1> QED
  BY <1>1, OutsideReady DEF ReadyInv

LEMMA DirectiveReady ==
    ASSUME LifecycleInv, ReadyInv, Directive
    PROVE  ReadyInv'
<1>1. TypeOK /\ text \in Seq(Directives) /\ Len(dbs) \in Nat /\ DOMAIN dbs = 1 .. Len(dbs)
  BY DEF LifecycleInv, TypeOK
<1>2. phase' \in {"parse", "databases", "exited"}
  BY DEF Directive, Parsing, Parsed, Exit, Site, SiteAborts, AddStrategy, DisableStrategy,
         DefaultStrategy, Database, DbDisable, DbDefault, StrategyUnknown, ParseEnds
<1>3. CASE Database
  <2> DEFINE n == Len(dbs) + 1
  <2>1. /\ DOMAIN dbs' = DOMAIN dbs \cup {n} /\ \A i \in DOMAIN dbs : dbs'[i] = dbs[i]
        /\ dbs'[n].members = <<>> /\ (dbs'[n].kind = "plugin" => dbs'[n].listed = <<>>)
    BY <1>1, <1>3, DatabaseDoes
  <2>2. ASSUME NEW i \in DOMAIN dbs' PROVE Ready(i)'
    <3>1. CASE i \in DOMAIN dbs
      <4>1. Ready(i) /\ Kept(i)
        BY <2>1, <3>1 DEF ReadyInv, Kept
      <4> QED
        BY <1>2, <2>1, <4>1, OutsideReady
    <3>2. CASE i = n
      <4>1. \A pass \in DOMAIN Later : ~Past(i, pass)'
        BY <1>2 DEF Past, Later
      <4>2. DOMAIN Later = {"plugins", "virtual", "mime"}
        BY DEF Later
      <4>3. Range(dbs'[i].members) = {}
        BY <2>1, <3>2 DEF Range
      <4> HIDE DEF n
      <4> QED
        BY <2>1, <3>2, <4>1, <4>2, <4>3 DEF Ready
    <3> QED
      BY <2>1, <3>1, <3>2
  <2> QED
    BY <2>2 DEF ReadyInv
<1>4. CASE DbDisable \/ DbDefault
  <2>1. DOMAIN dbs' = DOMAIN dbs /\ \A i \in DOMAIN dbs : Kept(i)
    BY <1>1, <1>4, DbDisableDoes, DbDefaultDoes
  <2> QED
    BY <1>2, <2>1, OutsideReady DEF ReadyInv
<1>5. CASE ~Database /\ ~DbDisable /\ ~DbDefault
  <2>1. UNCHANGED dbs
    BY <1>5 DEF Directive, Exit, Site, SiteAborts, AddStrategy, DisableStrategy,
                DefaultStrategy, StrategyUnknown, ParseEnds
  <2> QED
    BY <1>2, <2>1, UnchangedReady
<1> QED
  BY <1>3, <1>4, <1>5

LEMMA InitDatabaseReady ==
    ASSUME LifecycleInv, ReadyInv, InitDatabase
    PROVE  ReadyInv'
<1>1. phase' = "databases" /\ TypeOK
  BY DEF LifecycleInv, InitDatabase, Passing, Passed
<1>2. at \in DOMAIN dbs /\ Only(at) /\ Kept(at)
  BY <1>1, InitDatabaseDoes
<1>3. DOMAIN dbs' = DOMAIN dbs /\ \A i \in DOMAIN dbs : Kept(i)
  BY <1>2 DEF Only, Kept
<1> QED
  BY <1>1, <1>3, OutsideReady DEF ReadyInv

LEMMA InitPluginReady ==
    ASSUME LifecycleInv, ReadyInv, InitPlugin
    PROVE  ReadyInv'
<1>1. TypeOK /\ phase = "plugins" /\ phase' = "plugins" /\ at' = at + 1 /\ at \in Nat
  BY DEF LifecycleInv, TypeOK, InitPlugin, Passing, Passed
<1>2. /\ DOMAIN dbs' = DOMAIN dbs /\ at \in DOMAIN dbs /\ DOMAIN dbs \subseteq Nat
      /\ \A i \in DOMAIN dbs : i # at => dbs'[i] = dbs[i]
      /\ Kept(at) /\ (dbs[at].loads => dbs'[at].plugin = "open")
  <2>1. DOMAIN dbs \subseteq Nat /\ at \in DOMAIN dbs
    BY <1>1 DEF TypeOK, InitPlugin, Passing
  <2>2. CASE dbs[at].loads
    BY <1>1, <2>1, <2>2, InitPluginDoes DEF Only
  <2>3. CASE ~dbs[at].loads
    BY <2>1, <2>3 DEF InitPlugin, Kept
  <2> QED
    BY <2>2, <2>3
<1>3. \A i : \A pass \in {"virtual", "mime"} : ~Past(i, pass)'
  BY <1>1 DEF Past, Later
<1>4. ASSUME NEW i \in DOMAIN dbs PROVE Ready(i)'
  <2>1. Ready(i) /\ Kept(i) /\ (Joined(i)' <=> Joined(i))
    BY <1>2 DEF ReadyInv, Kept, Joined
  <2>2. CASE i = at
    BY <1>2, <1>3, <2>1, <2>2 DEF Ready, Kept
  <2>3. CASE i # at
    <3>1. Past(i, "plugins")' => Past(i, "plugins")
      BY <1>1, <1>2, <2>3 DEF Past, Later
    <3> QED
      BY <1>2, <1>3, <2>1, <2>3, <3>1 DEF Ready, Kept
  <2> QED
    BY <2>2, <2>3
<1> QED
  BY <1>2, <1>4 DEF ReadyInv

(* What a database has come to when it is past a call joins it for good.   *)
LEMMA JoinReady ==
    ASSUME LifecycleInv, ReadyInv, NEW pass, NEW kinds, Join(pass, kinds),
           \/ pass = "virtual" /\ kinds = {"normal", "virtual"}
           \/ pass = "mime" /\ kinds = {"mime"}
    PROVE  ReadyInv'
<1>1. TypeOK /\ phase = pass /\ phase' = pass /\ at' = at + 1 /\ at \in Nat
  BY DEF LifecycleInv, TypeOK, Join, Passing, Passed
<1>2. /\ DOMAIN dbs' = DOMAIN dbs /\ at \in DOMAIN dbs /\ DOMAIN dbs \subseteq Nat
      /\ \A i \in DOMAIN dbs : i # at => dbs'[i] = dbs[i]
      /\ Same(at) /\ dbs'[at].loads = dbs[at].loads /\ dbs'[at].listed = dbs[at].listed
      /\ IF dbs[at].kind \in kinds
         THEN Len(dbs'[at].members) = Len(dbs[at].listed) /\ Range(dbs'[at].members) \subseteq DOMAIN dbs
         ELSE dbs'[at].members = dbs[at].members
  BY <1>1, JoinDoes DEF TypeOK
<1>3. DOMAIN Later = {"plugins", "virtual", "mime"}
  BY DEF Later
<1>4. ASSUME NEW i \in DOMAIN dbs PROVE Ready(i)'
  <2>1. Ready(i)
    BY DEF ReadyInv
  <2>2. CASE i # at
    <3>1. Kept(i)
      BY <1>2, <2>2 DEF Kept
    <3>2. \A p \in DOMAIN Later : Past(i, p)' => Past(i, p)
      BY <1>1, <1>2, <2>2 DEF Past, Later
    <3> QED
      BY <1>2, <2>1, <2>2, <3>1, <3>2, KeptReady
  <2>3. CASE i = at
    <3>1. /\ Past(i, "plugins")' => Past(i, "plugins")
          /\ pass = "virtual" => ~Past(i, "mime")'
          /\ pass = "mime" => (Past(i, "virtual")' => Past(i, "virtual"))
      BY <1>1 DEF Past, Later
    <3>2. /\ dbs'[i].kind = dbs[i].kind /\ dbs'[i].plugin = dbs[i].plugin
          /\ dbs'[i].loads = dbs[i].loads /\ dbs'[i].listed = dbs[i].listed
      BY <1>2, <2>3 DEF Same
    <3>3. CASE dbs[i].kind \in kinds
      <4>1. Joined(i)' /\ Range(dbs'[i].members) \subseteq DOMAIN dbs'
        BY <1>2, <2>3, <3>3 DEF Joined
      <4>2. dbs[i].kind # "plugin"
        BY <3>3
      <4> QED
        BY <2>1, <3>1, <3>2, <4>1, <4>2 DEF Ready
    <3>4. CASE dbs[i].kind \notin kinds
      <4>1. dbs'[i].members = dbs[i].members /\ (Joined(i)' <=> Joined(i))
        BY <1>2, <2>3, <3>2, <3>4 DEF Joined
      <4> QED
        BY <1>2, <2>1, <3>1, <3>2, <3>4, <4>1 DEF Ready
    <3> QED
      BY <3>3, <3>4
  <2> QED
    BY <2>2, <2>3
<1> QED
  BY <1>2, <1>4 DEF ReadyInv

(* At the end of a call every database is past it.                         *)
LEMMA PassEndsReady ==
    ASSUME LifecycleInv, ReadyInv, PassEnds
    PROVE  ReadyInv'
<1>1. /\ UNCHANGED dbs /\ at' = 1 /\ at > Len(dbs) /\ at \in Nat
      /\ phase \in DOMAIN After /\ phase' = After[phase] /\ Len(dbs) \in Nat
      /\ DOMAIN dbs = 1 .. Len(dbs)
  BY DEF LifecycleInv, TypeOK, PassEnds, table
<1>2. \/ phase = "databases" /\ phase' = "plugins"
      \/ phase = "plugins" /\ phase' = "virtual"
      \/ phase = "virtual" /\ phase' = "mime"
      \/ phase = "mime" /\ phase' = "short"
      \/ phase = "short" /\ phase' = "serving"
  BY <1>1 DEF After
<1>3. \A i \in DOMAIN dbs : i \in Nat /\ i < at /\ ~(i < at')
  BY <1>1
<1>4. \A i \in DOMAIN dbs : \A pass \in DOMAIN Later : Past(i, pass)' => Past(i, pass)
  BY <1>2, <1>3 DEF Past, Later
<1>5. \A i \in DOMAIN dbs : Kept(i)
  BY <1>1 DEF Kept
<1> QED
  BY <1>1, <1>4, <1>5, KeptReady DEF ReadyInv

LEMMA CloseDatabaseReady ==
    ASSUME LifecycleInv, ReadyInv, CloseDatabase
    PROVE  ReadyInv'
<1>1. phase' = "closing" /\ TypeOK
  BY DEF LifecycleInv, CloseDatabase, Passing, Passed
<1>2. at \in DOMAIN dbs /\ Only(at) /\ Kept(at)
  BY <1>1, CloseDatabaseDoes
<1>3. DOMAIN dbs' = DOMAIN dbs /\ \A i \in DOMAIN dbs : Kept(i)
  BY <1>2 DEF Only, Kept
<1> QED
  BY <1>1, <1>3, OutsideReady DEF ReadyInv

LEMMA ReadySteps ==
    ASSUME LifecycleInv, ReadyInv, [Next]_vars
    PROVE  ReadyInv'
<1>1. CASE Directive
  BY <1>1, DirectiveReady
<1>2. CASE InitDatabase
  BY <1>2, InitDatabaseReady
<1>3. CASE InitPlugin
  BY <1>3, InitPluginReady
<1>4. CASE InitVirtual
  BY <1>4, JoinReady DEF InitVirtual
<1>5. CASE InitMime
  BY <1>5, JoinReady DEF InitMime
<1>6. CASE InitFails \/ MemberUnknown \/ CloseFails
  BY <1>6, UnchangedReady DEF InitFails, MemberUnknown, CloseFails, Exit
<1>7. CASE PassEnds
  BY <1>7, PassEndsReady
<1>8. CASE Hangup \/ Unload
  BY <1>8, UnchangedReady DEF Hangup, Unload
<1>9. CASE CloseDatabase
  BY <1>9, CloseDatabaseReady
<1>10. CASE CloseEnds
  <2>1. DOMAIN dbs' = {}
    BY <1>10 DEF CloseEnds
  <2> QED
    BY <2>1 DEF ReadyInv
<1>11. CASE InitShort
  <2>1. phase = "short" /\ phase' = "short" /\ UNCHANGED dbs
    BY <1>11 DEF InitShort, Passing, Passed
  <2>2. \A i \in DOMAIN dbs : \A pass \in DOMAIN Later : Past(i, pass)' => Past(i, pass)
    BY <2>1 DEF Past, Later
  <2>3. \A i \in DOMAIN dbs : Kept(i)
    BY <2>1 DEF Kept
  <2> QED
    BY <2>1, <2>2, <2>3, KeptReady DEF ReadyInv
<1>12. CASE UNCHANGED vars
  <2>1. UNCHANGED <<phase, at, dbs>>
    BY <1>12 DEF vars
  <2>2. \A i \in DOMAIN dbs : Kept(i) /\ \A pass \in DOMAIN Later : Past(i, pass)' => Past(i, pass)
    BY <2>1 DEF Kept, Past
  <2> QED
    BY <2>1, <2>2, KeptReady DEF ReadyInv
<1> QED
  BY <1>1, <1>2, <1>3, <1>4, <1>5, <1>6, <1>7, <1>8, <1>9, <1>10, <1>11, <1>12
     DEF Next, InitStep, CloseStep
-----------------------------------------------------------------------------
(* A search that starts at a database of the list stays in it, however     *)
(* deep the lists are nested: by induction on the depth.                   *)
LEMMA ReachedWithin ==
    ASSUME dbs \in Seq(DbType), ReadyInv, NEW i \in DOMAIN dbs
    PROVE  Reached(i) \subseteq DOMAIN dbs
<1> DEFINE S == SUBSET DOMAIN dbs
           more(T) == T \cup UNION {Range(dbs[j].members) : j \in T}
           first == {i}
           g == [n \in Nat |-> [T \in S |-> more(T)]]
           W == CHOOSE h : h = [n \in Nat |-> IF n = 0 THEN {i} ELSE more(h[n - 1])]
<1>1. \A T \in S : more(T) \in S
  BY DEF ReadyInv, Ready
<1>2. g \in [Nat -> [S -> S]]
  BY <1>1
<1>3. first \in S
  OBVIOUS
<1>4. \A n \in Nat, T \in S : g[n][T] = more(T)
  OBVIOUS
<1> HIDE DEF S, g, more, first
<1>5. PICK f : Solves(f, S, first, g)
  BY <1>2, <1>3, RecursionSolved
<1>6. f \in [Nat -> S] /\ f[0] = first /\ \A n \in Nat : f[n + 1] = g[n][f[n]]
  BY <1>5 DEF Solves
<1>7. f = [n \in Nat |-> IF n = 0 THEN {i} ELSE more(f[n - 1])]
  <2>1. ASSUME NEW n \in Nat, n # 0 PROVE f[n] = more(f[n - 1])
    <3>1. n - 1 \in Nat /\ (n - 1) + 1 = n
      BY <2>1
    <3> QED
      BY <1>4, <1>6, <3>1
  <2> QED
    BY <1>6, <2>1 DEF first
<1>8. W = [n \in Nat |-> IF n = 0 THEN {i} ELSE more(W[n - 1])]
  BY <1>7
<1> HIDE DEF W
<1> DEFINE T == {n \in Nat : W[n] \in S}
<1>9. 0 \in T
  BY <1>3, <1>8 DEF first
<1>10. ASSUME NEW n \in Nat, n \in T PROVE n + 1 \in T
  <2>1. n + 1 \in Nat /\ n + 1 # 0 /\ (n + 1) - 1 = n
    OBVIOUS
  <2>2. W[n + 1] = more(W[(n + 1) - 1])
    BY <1>8, <2>1, Zenon
  <2> QED
    BY <1>1, <1>10, <2>1, <2>2
<1>11. Nat \subseteq T
  <2> HIDE DEF T
  <2> QED
    BY <1>9, <1>10, AllNumbers
<1>12. W[Len(dbs)] \in S
  BY <1>11
<1>13. Reached(i) = W[Len(dbs)]
  BY DEF Reached, W, more
<1> QED
  BY <1>12, <1>13 DEF S

-----------------------------------------------------------------------------
LEMMA LifecycleStarts == Init => LifecycleInv
<1> SUFFICES ASSUME Init PROVE LifecycleInv
  OBVIOUS
<1>1. PICK options \in Options, file \in Files : text = options \o file
  BY DEF Init
<1>2. text \in Seq(Directives)
  BY <1>1, FilesAssumption
<1>3. dbs = <<>> /\ DOMAIN dbs = {} /\ phase = "parse" /\ opened = 0 /\ at = 1
  BY DEF Init
<1>4. /\ strategies \in Seq(Strategies)
      /\ \A i \in DOMAIN strategies : strategies[i].number < strategyId
      /\ \A i, j \in DOMAIN strategies : i # j => strategies[i].number # strategies[j].number
  <2>1. strategies = Builtin /\ strategyId = FirstNew
    BY DEF Init
  <2> QED
    BY <2>1, BuiltinAssumption DEF Strategies
<1>5. TypeOK
  BY <1>3, <1>4, BuiltinAssumption DEF Init, TypeOK, Strategies
<1>6. TableInv /\ StatesInv /\ ToldInv
  BY <1>3, <1>4 DEF TableInv, StatesInv, ToldInv
<1>7. Indexed = {} /\ Plugged = {}
  BY <1>3 DEF Indexed, Plugged
<1>8. CountInv
  BY <1>3, <1>7, FS_EmptySet DEF CountInv
<1> QED
  BY <1>2, <1>5, <1>6, <1>8 DEF LifecycleInv

LEMMA LifecycleSteps == LifecycleInv /\ [Next]_vars => LifecycleInv'
<1> SUFFICES ASSUME LifecycleInv, [Next]_vars PROVE LifecycleInv'
  OBVIOUS
<1>1. CASE Directive
  BY <1>1, DirectiveKeeps
<1>2. CASE InitDatabase
  BY <1>2, InitDatabaseKeeps
<1>3. CASE InitPlugin
  BY <1>3, InitPluginKeeps
<1>4. CASE InitVirtual \/ InitMime
  BY <1>4, JoinKeeps DEF InitVirtual, InitMime
<1>5. CASE InitShort
  BY <1>5, InitShortKeeps
<1>6. CASE InitFails \/ MemberUnknown \/ CloseFails
  BY <1>6, ExitKeeps DEF InitFails, MemberUnknown, CloseFails
<1>7. CASE PassEnds
  BY <1>7, PassEndsKeeps
<1>8. CASE Hangup \/ Unload
  BY <1>8, SignalKeeps
<1>9. CASE CloseDatabase
  BY <1>9, CloseDatabaseKeeps
<1>10. CASE CloseEnds
  BY <1>10, CloseEndsKeeps
<1>11. CASE UNCHANGED vars
  <2>1. TypeOK' /\ text' \in Seq(Directives) /\ TableInv' /\ StatesInv'
    BY <1>11 DEF vars, LifecycleInv, TypeOK, TableInv, StatesInv, table
  <2> QED
    BY <1>11, <2>1, NothingKeeps DEF LifecycleInv, vars, table
<1> QED
  BY <1>1, <1>2, <1>3, <1>4, <1>5, <1>6, <1>7, <1>8, <1>9, <1>10, <1>11
     DEF Next, InitStep, CloseStep

LEMMA LifecycleHolds == Spec => []LifecycleInv
  BY LifecycleStarts, LifecycleSteps, PTL DEF Spec

(* Every variable keeps its type, whatever the configuration files are.    *)
THEOREM LifecycleTypeCorrect == Spec => []TypeOK
<1>1. LifecycleInv => TypeOK
  BY DEF LifecycleInv
<1> QED
  BY <1>1, LifecycleHolds, PTL

(* dict_init_databases and dict_close_databases open and close in pairs:   *)
(* nothing is open when a file is parsed or the server is unloaded, and    *)
(* otherwise what the configuration of now holds open.                     *)
THEOREM OpenedAndClosed == Spec => []EverythingClosed
<1>1. LifecycleInv => EverythingClosed
  <2> SUFFICES ASSUME LifecycleInv PROVE EverythingClosed
    OBVIOUS
  <2>1. opened = Cardinality(Indexed) + Cardinality(Plugged)
    BY DEF LifecycleInv, CountInv
  <2>2. CASE phase \in {"parse", "unloaded"}
    <3>1. \A i \in DOMAIN dbs : dbs[i].state = "parsed" /\ dbs[i].plugin = "none"
      BY <2>2 DEF LifecycleInv, StatesInv
    <3>2. Indexed = {} /\ Plugged = {}
      BY <3>1 DEF Indexed, Plugged
    <3>3. opened = 0
      BY <2>1, <3>2, FS_EmptySet
    <3> QED
      BY <2>1, <3>3 DEF EverythingClosed, Indexed, Plugged
  <2> QED
    BY <2>1, <2>2 DEF EverythingClosed, Indexed, Plugged
<1> QED
  BY <1>1, LifecycleHolds, PTL

(* The numbers of strategies are unique over all reloads, though those of  *)
(* a file are added again each time, and plugins are told the numbers that *)
(* MATCH will send them.                                                   *)
THEOREM NumbersStaySound == Spec => []NumbersSound
<1>1. LifecycleInv => NumbersSound
  BY DEF LifecycleInv, TableInv, ToldInv, Knows, NumbersSound
<1> QED
  BY <1>1, LifecycleHolds, PTL

(* A search that is made while dict_init_databases runs, or for a client,  *)
(* only comes to databases of the present configuration that are open with *)
(* their plugins and know their members, however lists are nested and      *)
(* whatever reloads went before.                                           *)
THEOREM SearchesStayOpen == Spec => []SearchesReadOpen
<1>1. Init => ReadyInv
  <2>1. Init => DOMAIN dbs = {}
    BY DEF Init
  <2> QED
    BY <2>1 DEF ReadyInv
<1>2. LifecycleInv /\ ReadyInv /\ [Next]_vars => ReadyInv'
  BY ReadySteps
<1>3. Spec => []ReadyInv
  BY <1>1, <1>2, LifecycleHolds, PTL DEF Spec
<1>4. LifecycleInv /\ ReadyInv => SearchesReadOpen
  <2> SUFFICES ASSUME LifecycleInv, ReadyInv PROVE SearchesReadOpen
    OBVIOUS
  <2>1. dbs \in Seq(DbType) /\ at \in Nat \ {0}
    BY DEF LifecycleInv, TypeOK
  <2>2. ASSUME phase = "virtual", at <= Len(dbs) PROVE Open(at)
    <3>1. at \in DOMAIN dbs
      BY <2>1, <2>2
    <3>2. dbs[at].state = "open"
      BY <2>2, <3>1 DEF LifecycleInv, StatesInv
    <3>3. Past(at, "plugins")
      BY <2>2 DEF Past, Later
    <3> QED
      BY <3>1, <3>2, <3>3 DEF ReadyInv, Ready, Open
  <2>3. ASSUME NEW i \in Started, NEW j \in Reached(i)
        PROVE  j \in DOMAIN dbs /\ Open(j) /\ Joined(j)
    <3>1. phase \in {"short", "serving"} /\ i \in DOMAIN dbs
      BY DEF Started
    <3>2. j \in DOMAIN dbs
      BY <2>1, <3>1, ReachedWithin
    <3>3. Past(j, "plugins") /\ Past(j, "virtual") /\ Past(j, "mime")
      BY <3>1 DEF Past, Later
    <3>4. Ready(j) /\ dbs[j].state = "open"
      BY <3>1, <3>2 DEF ReadyInv, LifecycleInv, StatesInv
    <3>5. Joined(j)
      <4>1. dbs[j].kind \in Kinds
        <5>1. dbs[j] \in DbType
          BY <2>1, <3>2
        <5> QED
          BY <5>1 DEF DbType
      <4>2. dbs[j].kind = "plugin" => Joined(j)
        BY <3>4 DEF Ready, Joined
      <4> QED
        BY <3>3, <3>4, <4>1, <4>2 DEF Ready, Kinds
    <3> QED
      BY <3>2, <3>3, <3>4, <3>5 DEF Ready, Open
  <2> QED
    BY <2>2, <2>3 DEF SearchesReadOpen
<1> QED
  BY <1>3, <1>4, LifecycleHolds, PTL
=============================================================================
