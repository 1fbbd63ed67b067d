--------------------------- MODULE Search_proofs ---------------------------
(***************************************************************************)
(* Theorems about the walk of Search over the databases: it looks into no  *)
(* database it should not, passes over none, always comes to an end, and   *)
(* keeps what plugins lent until it is printed.                            *)
(***************************************************************************)
EXTENDS Search, RecursionTheorems

(* The part of the variables' types that the walk depends on.              *)
WalkType ==
    /\ conf \in Confs
    /\ pc \in Labels
    /\ pos \in Nat
    /\ at \in Nat

LEMMA OrderIsSeq ==
    ASSUME conf \in Confs
    PROVE  /\ conf.order \in Seq(Dbs)
           /\ Len(conf.order) \in Nat
           /\ \A i \in 1..Len(conf.order) : conf.order[i] \in Dbs
BY SearchAssumption

(* The walk keeps its types.                                               *)
LEMMA WalkTypeInductive ==
    ASSUME WalkType, [Next]_vars
    PROVE  WalkType'
<1>1. CASE UNCHANGED vars
  BY <1>1 DEF WalkType, vars, loopVars
<1>2. CASE Loop
  <2>1. CASE NextDatabase
    <3>1. PICK i \in Ahead : Walk(i)
      BY <2>1 DEF NextDatabase
    <3>2. i \in Nat
      BY OrderIsSeq DEF WalkType, Ahead
    <3> QED
      BY <3>1, <3>2 DEF WalkType, Walk, Labels
  <2>2. CASE SearchWord
    BY <2>2 DEF WalkType, SearchWord, Labels
  <2> QED
    BY <1>2, <2>1, <2>2 DEF Loop, WalkType, NoDatabase, SkipWord, WordsDone, Replace,
                           Collect, loopVars, Labels
<1>3. CASE Answering
  BY <1>3 DEF Answering, WalkType, Found, Free, NothingFound, loopVars, Labels
<1>4. CASE Info
  <2>1. CASE InfoLookup
    BY <2>1 DEF InfoLookup, WalkType, loopVars, Labels
  <2> QED
    BY <1>4, <2>1 DEF Info, WalkType, InfoUnknown, InfoText, InfoEntry, InfoDone, loopVars,
                     Labels
<1>5. CASE OptionMime
  BY <1>5 DEF OptionMime, WalkType, loopVars
<1>6. ASSUME NEW r \in Requests, Ask(r) PROVE WalkType'
  BY <1>6 DEF Ask, WalkType, Labels
<1> QED
  BY <1>1, <1>2, <1>3, <1>4, <1>5, <1>6 DEF Next, Step

LEMMA WalkTypeHolds == Spec => []WalkType
<1>1. Init => WalkType
  BY DEF Init, WalkType, Labels
<1> QED
  BY <1>1, WalkTypeInductive, PTL DEF Spec

-----------------------------------------------------------------------------
(* Every step that begins in a command advances it.                        *)

LEMMA StepAdvances ==
    ASSUME WalkType, Next, pc # "idle"
    PROVE  Advances
<1>1. CASE NextDatabase
  <2>1. PICK i \in Ahead : Walk(i)
    BY <1>1 DEF NextDatabase
  <2>2. i \in Int /\ pos <= i
    BY OrderIsSeq DEF WalkType, Ahead
  <2>3. pos' = i + 1
    BY <2>1 DEF Walk
  <2> QED
    BY <2>2, <2>3 DEF WalkType, Advances
<1>2. CASE SearchWord
  <2>1. pos' = pos /\ at' = at + 1 /\ pc = "words" /\ pc' \in {"aborted", "merge", "words"}
    BY <1>2 DEF SearchWord
  <2> QED
    BY <2>1 DEF WalkType, Advances, Rank
<1>3. CASE NoDatabase \/ SkipWord \/ WordsDone
  BY <1>3 DEF NoDatabase, SkipWord, WordsDone, WalkType, Advances, Rank, loopVars
<1>4. CASE Replace
  BY <1>4 DEF Replace, Advances, Rank
<1>5. CASE Collect
  <2>1. pos' = pos /\ pc = "merge" /\ pc' \in {"next", "reply"}
    BY <1>5 DEF Collect
  <2> QED
    BY <2>1 DEF Advances, Rank
<1>6. CASE Answering
  BY <1>6 DEF Answering, Found, Free, NothingFound, Advances, Rank, loopVars
<1>7. CASE InfoLookup
  <2>1. pos' = pos /\ pc = "info" /\ pc' \in {"idle", "entries", "aborted"}
    BY <1>7 DEF InfoLookup, loopVars
  <2> QED
    BY <2>1 DEF Advances, Rank
<1>8. CASE InfoUnknown \/ InfoText \/ InfoDone
  BY <1>8 DEF InfoUnknown, InfoText, InfoDone, Advances
<1>9. CASE InfoEntry
  BY <1>9 DEF InfoEntry, WalkType, Advances
<1>10. ~OptionMime /\ \A r \in Requests : ~Ask(r)
  BY DEF OptionMime, Ask
<1> QED
  BY <1>1, <1>2, <1>3, <1>4, <1>5, <1>6, <1>7, <1>8, <1>9, <1>10 DEF Next, Step, Loop, Info

(* Every command ends, whatever the databases hold and the plugins do to   *)
(* the words (daemon.c:1011-1041, 1073-1124): each step of the walk ends   *)
(* it or moves it forward.                                                 *)
THEOREM CommandsEnd == Spec => WalkAdvances
<1>1. WalkType /\ [Next]_vars => [pc # "idle" => Advances]_vars
  BY StepAdvances
<1> QED
  BY <1>1, WalkTypeHolds, PTL DEF Spec, WalkAdvances

-----------------------------------------------------------------------------
(* The walk looks where it may and where it must.                          *)

(* What a name reaches is open to the client, and of the open databases    *)
(* that are not exit markers "*" reaches every one.                        *)
LEMMA ReachedIsOpen ==
    ASSUME NEW arg, NEW d, Reaches(arg, d)
    PROVE  Db(d).available /\ ~Db(d).hidden
BY DEF Reaches, Invisible

LEMMA OpenIsReached ==
    ASSUME NEW d, Db(d).available, ~Db(d).hidden, ~Db(d).exit
    PROVE  Reaches("*", d)
BY DEF Reaches, Invisible

LEMMA WalkIsExactInductive ==
    ASSUME WalkType, WalkIsExact, [Next]_vars
    PROVE  WalkIsExact'
<1> USE DEF Db
<1>1. CASE NextDatabase
  <2>1. PICK i \in Ahead : Nearest(i) /\ Walk(i)
    BY <1>1 DEF NextDatabase
  <2>2. /\ i \in pos..Len(conf.order)
        /\ Reaches(req.arg, conf.order[i])
    BY <2>1 DEF Ahead
  <2>3. /\ conf' = conf /\ req' = req /\ pos' = i + 1
        /\ cur' = conf.order[i]
        /\ pc' # "reply" => seen' = seen \cup {conf.order[i]}
        /\ pc' = "reply" => seen' = seen
        /\ pc = "next" /\ pc' \in {"reply", "words"}
    BY <1>1, <2>1 DEF Walk, NextDatabase
  <2>4. \A d \in seen' : Db(d).available /\ ~Db(d).hidden
    BY <2>2, <2>3, ReachedIsOpen DEF WalkIsExact
  <2>5. ASSUME req.arg = "*", pc' = "words", NEW j \in 1..i,
               Db(conf.order[j]).available, ~Db(conf.order[j]).hidden,
               ~Db(conf.order[j]).exit
        PROVE  conf.order[j] \in seen'
    <3>1. CASE j <= pos - 1
      <4>1. j \in 1..(pos - 1)
        BY <3>1, <2>2 DEF WalkType
      <4> QED
        BY <4>1, <2>3, <2>5 DEF WalkIsExact
    <3>2. CASE j = i
      BY <3>2, <2>3, <2>5
    <3>3. CASE pos <= j /\ j < i
      <4>1. j \in Ahead
        BY <3>3, <2>2, <2>5, OpenIsReached, OrderIsSeq DEF WalkType, Ahead
      <4> QED
        BY <4>1, <3>3, <2>1, <2>2, OrderIsSeq DEF Nearest, WalkType
    <3> QED
      BY <3>1, <3>2, <3>3, <2>2, OrderIsSeq DEF WalkType
  <2>6. pos' - 1 = i
    BY <2>2, <2>3, OrderIsSeq DEF WalkType
  <2>7. (\A d \in seen : Db(d).available /\ ~Db(d).hidden)'
    BY <2>3, <2>4
  <2>8. ASSUME req'.arg = "*", pc' \in {"next", "words", "merge"}, NEW j \in 1..(pos' - 1),
               Db(conf.order[j])'.available, ~Db(conf.order[j])'.hidden
        PROVE  (conf.order[j] \in seen \/ Db(conf.order[j]).exit)'
    <3>1. pc' = "words" /\ j \in 1..i
      BY <2>3, <2>6, <2>8
    <3> QED
      BY <2>3, <2>5, <2>8, <3>1
  <2> QED
    BY <2>7, <2>8 DEF WalkIsExact
<1>2. CASE \E r \in Requests : Ask(r)
  BY <1>2 DEF Ask, WalkIsExact
<1>3. CASE UNCHANGED vars
  BY <1>3 DEF vars, loopVars, WalkIsExact
<1>4. CASE SearchWord \/ SkipWord \/ WordsDone \/ Replace \/ Collect
  <2>1. /\ conf' = conf /\ req' = req /\ pos' = pos /\ seen' = seen
        /\ pc \in {"words", "merge"}
    BY <1>4 DEF SearchWord, SkipWord, WordsDone, Replace, Collect, loopVars
  <2> QED
    BY <2>1 DEF WalkIsExact
<1>5. CASE NoDatabase \/ Answering \/ Info \/ OptionMime
  <2>1. /\ conf' = conf /\ req' = req /\ seen' = seen
        /\ pc' \notin {"next", "words", "merge"}
    BY <1>5 DEF NoDatabase, Answering, Found, Free, NothingFound, Info, InfoUnknown, InfoText,
                InfoLookup, InfoEntry, InfoDone, OptionMime, loopVars
  <2> QED
    BY <2>1 DEF WalkIsExact
<1> QED
  BY <1>1, <1>2, <1>3, <1>4, <1>5 DEF Next, Step, Loop

(* The walk looks into no database that is hidden or not available, and    *)
(* "*" leaves out no other one up to its position (daemon.c:924-963).      *)
THEOREM WalkExact == Spec => []WalkIsExact
<1>1. Init => WalkIsExact
  BY DEF Init, WalkIsExact
<1> QED
  BY <1>1, WalkTypeHolds, WalkIsExactInductive, PTL DEF Spec

-----------------------------------------------------------------------------
(* What plugins lent is given back.                                        *)

(* SHOW INFO has labels of its own, and only its commands come there.      *)
GivesBack ==
    /\ pc \in {"info", "entries"} => req.op = "info"
    /\ pc = "idle" /\ req.op # "info" => lent = AllFreed

(* Whenever DEFINE or MATCH has ended, no plugin has anything on loan      *)
(* (daemon.c:809-837, 889-916; plugin.c:634-648).                          *)
THEOREM SearchesGiveBack == Spec => []GivesBack
<1>1. Init => GivesBack
  BY DEF Init, GivesBack, AllFreed
<1>2. ASSUME GivesBack, [Next]_vars
      PROVE  GivesBack'
  <2>1. CASE UNCHANGED vars
    BY <1>2, <2>1 DEF vars, loopVars, GivesBack, AllFreed
  <2>2. CASE Info
    BY <1>2, <2>2 DEF Info, InfoUnknown, InfoText, InfoLookup, InfoEntry, InfoDone, GivesBack
  <2>3. CASE Loop
    <3>1. pc' \notin {"idle", "info", "entries"}
      BY <2>3 DEF Loop, NextDatabase, Walk, NoDatabase, SearchWord, SkipWord, WordsDone,
                  Replace, Collect
    <3> QED
      BY <3>1 DEF GivesBack
  <2>4. CASE Answering
    BY <2>4 DEF Answering, Found, Free, NothingFound, GivesBack, AllFreed
  <2>5. CASE OptionMime
    BY <1>2, <2>5 DEF OptionMime, GivesBack, AllFreed
  <2>6. CASE \E r \in Requests : Ask(r)
    BY <2>6 DEF Ask, GivesBack
  <2> QED
    BY <1>2, <2>1, <2>2, <2>3, <2>4, <2>5, <2>6 DEF Next, Step
<1> QED
  BY <1>1, <1>2, PTL DEF Spec

-----------------------------------------------------------------------------
(* What a search of one database, and of those it is made of, returns.     *)

Outcomes == [list : Seq(Entry), count : Int, ret : Results, asked : SUBSET Dbs, deep : BOOLEAN]

(* The databases that lent an entry of a list.                             *)
Lenders(l) == {l[i].db : i \in {j \in 1 .. Len(l) : l[j].lent}}

(* The list only grows, by at least as many entries as are counted, and    *)
(* only by what those lent that were asked.                                *)
Grown(l, o) ==
    /\ o \in Outcomes
    /\ Len(l) <= Len(o.list)
    /\ o.count <= Len(o.list) - Len(l) /\ Len(l) - Len(o.list) <= o.count
    /\ Lenders(o.list) \subseteq Lenders(l) \cup o.asked

Searches == {h \in [Calls -> Outcomes] : \A x \in Calls : Grown(x.list, h[x])}

LEMMA OutcomeGrown ==
    ASSUME NEW l \in Seq(Entry)
    PROVE  Grown(l, Outcome(l)) /\ Grown(l, [Outcome(l) EXCEPT !.deep = TRUE])
<1> DEFINE o == Outcome(l)
           u == [o EXCEPT !.deep = TRUE]
<1>1. o = [list |-> l, count |-> 0, ret |-> "notfound", asked |-> {}, deep |-> FALSE]
  BY DEF Outcome
<1> HIDE DEF o
<1>2. o \in Outcomes /\ o.list = l /\ o.count = 0 /\ Len(l) \in Nat
  BY <1>1 DEF Outcomes, Results
<1>3. u \in Outcomes /\ u.list = l /\ u.count = 0
  BY <1>2 DEF Outcomes
<1> HIDE DEF u
<1>4. Grown(l, o) /\ Grown(l, u)
  BY <1>2, <1>3 DEF Grown
<1> QED
  BY <1>4 DEF o, u

LEMMA LendersConcat ==
    ASSUME NEW l \in Seq(Entry), NEW m \in Seq(Entry)
    PROVE  Lenders(l \o m) = Lenders(l) \cup Lenders(m)
<1>1. /\ Len(l) \in Nat /\ Len(m) \in Nat /\ Len(l \o m) = Len(l) + Len(m)
      /\ \A i \in 1 .. Len(l) + Len(m) : (l \o m)[i] = IF i <= Len(l) THEN l[i] ELSE m[i - Len(l)]
  BY ConcatProperties
<1>2. ASSUME NEW d \in Lenders(l \o m) PROVE d \in Lenders(l) \cup Lenders(m)
  <2>1. PICK i \in 1 .. Len(l) + Len(m) : (l \o m)[i].lent /\ d = (l \o m)[i].db
    BY <1>1, <1>2 DEF Lenders
  <2>2. CASE i <= Len(l)
    BY <1>1, <2>1, <2>2 DEF Lenders
  <2>3. CASE ~(i <= Len(l))
    <3>1. i - Len(l) \in 1 .. Len(m) /\ (l \o m)[i] = m[i - Len(l)]
      BY <1>1, <2>3
    <3> QED
      BY <2>1, <3>1 DEF Lenders
  <2> QED
    BY <2>2, <2>3
<1>3. ASSUME NEW d \in Lenders(l) PROVE d \in Lenders(l \o m)
  <2>1. PICK i \in 1 .. Len(l) : l[i].lent /\ d = l[i].db
    BY <1>3 DEF Lenders
  <2>2. i \in 1 .. Len(l) + Len(m) /\ (l \o m)[i] = l[i]
    BY <1>1
  <2> QED
    BY <1>1, <2>1, <2>2 DEF Lenders
<1>4. ASSUME NEW d \in Lenders(m) PROVE d \in Lenders(l \o m)
  <2>1. PICK i \in 1 .. Len(m) : m[i].lent /\ d = m[i].db
    BY <1>4 DEF Lenders
  <2>2. Len(l) + i \in 1 .. Len(l) + Len(m) /\ (l \o m)[Len(l) + i] = m[i]
    <3>1. ~(Len(l) + i <= Len(l)) /\ (Len(l) + i) - Len(l) = i /\ Len(l) + i \in 1 .. Len(l) + Len(m)
      BY <1>1
    <3> QED
      BY <1>1, <3>1
  <2> QED
    BY <1>1, <2>1, <2>2 DEF Lenders
<1> QED
  BY <1>2, <1>3, <1>4

(* What one database adds to a list, in front or at the end.               *)
LEMMA AddedGrown ==
    ASSUME NEW l \in Seq(Entry), NEW m \in Seq(Entry), NEW o \in Outcomes,
           o.list = l \o m \/ o.list = m \o l,
           o.count \in {Len(m), -Len(m)}, Lenders(m) \subseteq o.asked
    PROVE  Grown(l, o)
<1>1. /\ Lenders(l \o m) = Lenders(l) \cup Lenders(m)
      /\ Lenders(m \o l) = Lenders(m) \cup Lenders(l)
  BY LendersConcat
<1>2. /\ Len(l \o m) = Len(l) + Len(m) /\ Len(m \o l) = Len(m) + Len(l)
      /\ Len(l) \in Nat /\ Len(m) \in Nat
  BY ConcatProperties
<1>3. /\ Lenders(o.list) = Lenders(l) \cup Lenders(m)
      /\ Len(o.list) = Len(l) + Len(m)
  <2>1. CASE o.list = l \o m
    BY <1>1, <1>2, <2>1
  <2>2. CASE o.list = m \o l
    BY <1>1, <1>2, <2>2
  <2> QED
    BY <2>1, <2>2
<1> QED
  BY <1>2, <1>3 DEF Grown

LEMMA Configured ==
    ASSUME conf \in Confs, NEW d \in Dbs
    PROVE  /\ DbType(Db(d))
           /\ Db(d).list \in Seq(Dbs)
           /\ {Db(d).mime, Db(d).plain} \subseteq Dbs \cup {NoDb}
BY SearchAssumption DEF DbType, Db

LEMMA SeqOfLength ==
    ASSUME NEW S, NEW n \in Nat, NEW s \in [1 .. n -> S]
    PROVE  s \in Seq(S) /\ Len(s) = n
OBVIOUS

LEMMA ResultType ==
    ASSUME NEW d \in Dbs, NEW t \in Texts, NEW own \in BOOLEAN
    PROVE  Result(d, t, own) \in Entry /\ Result(d, t, own).lent = ~own /\ Result(d, t, own).db = d
BY DEF Result, Entry

LEMMA InIndexGrown ==
    ASSUME conf \in Confs, NEW d \in Dbs, NEW w \in Texts, NEW l \in Seq(Entry)
    PROVE  Grown(l, InIndex(d, w, Outcome(l)))
<1> DEFINE o == InIndex(d, w, Outcome(l))
<1>1. CASE w \in {Bad, Complaint}
  <2> DEFINE e == Result(d, IF req.op = "match" THEN w ELSE Complaint, TRUE)
             m == <<e>>
  <2>1. e \in Entry /\ ~e.lent
    BY ResultType, SearchAssumption
  <2>2. o = [Outcome(l) EXCEPT !.list = Append(@, e), !.count = -1]
    BY <1>1 DEF InIndex
  <2> HIDE DEF e, o
  <2>3. o.list = l \o m /\ o.count = -1 /\ o.ret = "notfound" /\ o.asked = {} /\ o.deep = FALSE
        /\ o = [list |-> l \o m, count |-> -1, ret |-> "notfound", asked |-> {}, deep |-> FALSE]
    BY <2>1, <2>2, AppendIsConcat DEF Outcome
  <2>4. m \in Seq(Entry) /\ Len(m) = 1 /\ Lenders(m) = {}
    BY <2>1 DEF Lenders
  <2> HIDE DEF m
  <2>5. o \in Outcomes
    BY <2>3, <2>4, ConcatProperties DEF Outcomes, Results
  <2> QED
    BY <2>3, <2>4, <2>5, AddedGrown DEF o
<1>2. CASE w \notin {Bad, Complaint}
  <2> DEFINE hits == IF w \in DOMAIN Db(d).index THEN Db(d).index[w] ELSE <<>>
             m == [i \in DOMAIN hits |-> Result(d, hits[i], TRUE)]
  <2>1. hits \in Seq(Texts)
    BY Configured DEF DbType
  <2>2. o = [Outcome(l) EXCEPT !.list = @ \o m, !.count = Len(hits)]
    BY <1>2 DEF InIndex
  <2> HIDE DEF hits, o
  <2>3. /\ m \in Seq(Entry) /\ Len(m) = Len(hits)
        /\ \A i \in 1 .. Len(m) : ~m[i].lent
    <3>1. \A i \in 1 .. Len(hits) : hits[i] \in Texts
      BY <2>1
    <3>2. \A i \in 1 .. Len(hits) : Result(d, hits[i], TRUE) \in Entry /\ ~Result(d, hits[i], TRUE).lent
      BY <3>1, ResultType
    <3>3. DOMAIN hits = 1 .. Len(hits) /\ Len(hits) \in Nat
      BY <2>1
    <3>4. m \in [1 .. Len(hits) -> Entry]
      BY <3>2, <3>3, Zenon
    <3>5. m \in Seq(Entry) /\ Len(m) = Len(hits)
      <4> HIDE DEF m
      <4> QED
        BY <3>3, <3>4, SeqOfLength
    <3> QED
      BY <3>2, <3>3, <3>5
  <2> HIDE DEF m
  <2>4. Lenders(m) = {}
    BY <2>3 DEF Lenders
  <2>5. o.list = l \o m /\ o.count = Len(m) /\ o.asked = {}
        /\ o = [list |-> l \o m, count |-> Len(m), ret |-> "notfound", asked |-> {}, deep |-> FALSE]
    BY <2>2, <2>3 DEF Outcome
  <2>6. o \in Outcomes
    BY <2>3, <2>5, ConcatProperties DEF Outcomes, Results
  <2> QED
    BY <2>3, <2>4, <2>5, <2>6, AddedGrown DEF o
<1> QED
  BY <1>1, <1>2

LEMMA InPluginAdds ==
    ASSUME conf \in Confs, NEW d \in Dbs, NEW w \in Texts, NEW l \in Seq(Entry),
           NEW o \in Outcomes, o.list = l, o.count = 0
    PROVE  Grown(l, InPlugin(d, w, o)) /\ o.asked \subseteq InPlugin(d, w, o).asked
<1> DEFINE a == IF w \in DOMAIN Db(d).plugin THEN Db(d).plugin[w] ELSE NotFound
           hits == [i \in DOMAIN a.texts |-> Result(d, a.texts[i], req.op = "match" /\ a.ret = "found")]
           asked == [o EXCEPT !.ret = a.ret, !.asked = @ \cup {d}]
           m == IF a.ret = "found" THEN hits ELSE Reverse(hits)
           p == InPlugin(d, w, o)
<1>1. a \in Answer
  <2>1. NotFound \in Answer
    BY DEF NotFound, Answer, Results
  <2> QED
    BY <2>1, Configured DEF DbType
<1>2. a.ret \in Results /\ a.texts \in Seq(Texts) /\ DOMAIN a.texts = 1 .. Len(a.texts) /\ Len(a.texts) \in Nat
  BY <1>1 DEF Answer
<1>3. /\ asked \in Outcomes /\ asked.list = l /\ asked.count = 0
      /\ asked.asked = o.asked \cup {d}
  <2> HIDE DEF a
  <2> QED
    BY <1>2 DEF Outcomes
<1> HIDE DEF asked
<1>4. CASE a.failed \/ a.ret \in {"notfound", "exit"}
  <2>1. p = asked
    BY <1>4 DEF InPlugin, asked
  <2> HIDE DEF p
  <2>2. Grown(l, p) /\ o.asked \subseteq p.asked
    BY <1>3, <2>1 DEF Grown
  <2> QED
    BY <2>2 DEF p
<1>5. CASE ~(a.failed \/ a.ret \in {"notfound", "exit"})
  <2>1. p = [asked EXCEPT !.count = Len(hits),
                          !.list = IF a.ret = "found" THEN @ \o hits ELSE Reverse(hits) \o @]
    BY <1>5 DEF InPlugin, asked
  <2> HIDE DEF p, a
  <2>2. /\ hits \in Seq(Entry) /\ Len(hits) = Len(a.texts)
        /\ \A i \in 1 .. Len(hits) : hits[i].db = d
    <3>1. \A i \in 1 .. Len(a.texts) : a.texts[i] \in Texts
      BY <1>2
    <3> DEFINE own == req.op = "match" /\ a.ret = "found"
    <3>2. own \in BOOLEAN
      OBVIOUS
    <3> HIDE DEF own
    <3>3. \A i \in 1 .. Len(a.texts) : Result(d, a.texts[i], own) \in Entry /\ Result(d, a.texts[i], own).db = d
      BY <3>1, <3>2, ResultType
    <3>4. hits = [i \in 1 .. Len(a.texts) |-> Result(d, a.texts[i], own)]
      BY <1>2 DEF own
    <3> HIDE DEF hits
    <3>5. hits \in [1 .. Len(a.texts) -> Entry]
      BY <3>3, <3>4, Zenon
    <3>6. hits \in Seq(Entry) /\ Len(hits) = Len(a.texts)
      BY <1>2, <3>5, SeqOfLength
    <3> QED
      BY <3>3, <3>4, <3>6
  <2> HIDE DEF hits
  <2>3. /\ Reverse(hits) \in Seq(Entry) /\ Len(Reverse(hits)) = Len(hits)
        /\ \A i \in 1 .. Len(Reverse(hits)) : Reverse(hits)[i].db = d
    <3> DEFINE r == Reverse(hits)
               n == Len(hits)
    <3>1. r = [i \in 1 .. n |-> hits[(n - i) + 1]]
      BY DEF Reverse
    <3>2. n \in Nat /\ \A i \in 1 .. n : (n - i) + 1 \in 1 .. n
      BY <2>2
    <3>3. \A i \in 1 .. n : hits[(n - i) + 1] \in Entry /\ hits[(n - i) + 1].db = d
      BY <2>2, <3>2
    <3> HIDE DEF r, n
    <3>4. r \in [1 .. n -> Entry]
      BY <3>1, <3>3, Zenon
    <3>5. r \in Seq(Entry) /\ Len(r) = n
      BY <3>2, <3>4, SeqOfLength
    <3>6. \A i \in 1 .. Len(r) : r[i].db = d
      BY <3>1, <3>3, <3>5
    <3> QED
      BY <3>5, <3>6 DEF r, n
  <2>4. m \in Seq(Entry) /\ Len(m) = Len(hits) /\ \A i \in 1 .. Len(m) : m[i].db = d
    BY <2>2, <2>3
  <2> DEFINE both == IF a.ret = "found" THEN l \o m ELSE m \o l
  <2>5. p = [asked EXCEPT !.count = Len(m), !.list = both]
    BY <1>3, <2>1, <2>4
  <2> HIDE DEF m
  <2>6. Lenders(m) \subseteq {d}
    BY <2>4 DEF Lenders
  <2>7. both \in Seq(Entry) /\ (both = l \o m \/ both = m \o l) /\ Len(m) \in Nat
    BY <2>4, ConcatProperties
  <2> HIDE DEF both
  <2>8. p \in Outcomes
    <3>1. asked \in Outcomes /\ Len(m) \in Int
      BY <1>3, <2>7
    <3> QED
      BY <2>5, <2>7, <3>1 DEF Outcomes
  <2>9. p.list = both /\ p.count = Len(m) /\ Lenders(m) \subseteq p.asked /\ o.asked \subseteq p.asked
    BY <1>3, <2>5, <2>6 DEF Outcomes
  <2>10. Grown(l, p)
    BY <2>4, <2>7, <2>8, <2>9, AddedGrown
  <2> QED
    BY <2>9, <2>10 DEF p
<1> QED
  BY <1>4, <1>5

LEMMA SumsBetween ==
    ASSUME NEW a \in Nat, NEW b \in Nat, NEW c \in Nat, NEW m \in Int, NEW n \in Int,
           a <= b, b <= c, m <= b - a, a - b <= m, n <= c - b, b - c <= n
    PROVE  a <= c /\ m + n <= c - a /\ a - c <= m + n
OBVIOUS

LEMMA GrownMore ==
    ASSUME NEW l \in Seq(Entry), NEW o, Grown(l, o), o.count = 0,
           NEW p, Grown(o.list, p), o.asked \subseteq p.asked
    PROVE  Grown(l, p)
<1>1. Len(l) \in Nat /\ Len(o.list) \in Nat /\ Len(p.list) \in Nat /\ p.count \in Int
  BY DEF Grown, Outcomes
<1>2. /\ Len(l) <= Len(o.list) /\ Len(o.list) <= Len(p.list)
      /\ p.count <= Len(p.list) - Len(o.list) /\ Len(o.list) - Len(p.list) <= p.count
  BY DEF Grown
<1>3. /\ Len(l) <= Len(p.list)
      /\ p.count <= Len(p.list) - Len(l) /\ Len(l) - Len(p.list) <= p.count
  <2> DEFINE a == Len(l)
             b == Len(o.list)
             c == Len(p.list)
             n == p.count
  <2>1. a \in Nat /\ b \in Nat /\ c \in Nat /\ n \in Int
    BY <1>1
  <2>2. a <= b /\ b <= c /\ n <= c - b /\ b - c <= n
    BY <1>2
  <2> HIDE DEF a, b, c, n
  <2>3. a <= c /\ n <= c - a /\ a - c <= n
    BY <2>1, <2>2
  <2> QED
    BY <2>3 DEF a, b, c, n
<1> QED
  BY <1>3 DEF Grown

LEMMA InPluginGrown ==
    ASSUME conf \in Confs, NEW d \in Dbs, NEW w \in Texts, NEW l \in Seq(Entry),
           NEW o, Grown(l, o), o.count = 0
    PROVE  Grown(l, InPlugin(d, w, o))
<1>1. o \in Outcomes /\ o.list \in Seq(Entry)
  BY DEF Grown, Outcomes
<1>2. Grown(o.list, InPlugin(d, w, o)) /\ o.asked \subseteq InPlugin(d, w, o).asked
  BY <1>1, InPluginAdds
<1> QED
  BY <1>2, GrownMore

LEMMA RenamedGrown ==
    ASSUME NEW d \in Dbs, NEW n \in Nat, NEW l \in Seq(Entry), NEW o, Grown(l, o)
    PROVE  Grown(l, Renamed(d, n, o))
<1> DEFINE k == o.list
           m == [i \in DOMAIN k |-> IF i > n /\ Invisible(k[i].db) /\ k[i].shown = NoDb
                                    THEN [k[i] EXCEPT !.shown = d] ELSE k[i]]
           p == Renamed(d, n, o)
<1>1. CASE o.count <= n
  BY <1>1 DEF Renamed
<1>2. CASE ~(o.count <= n)
  <2>1. p = [o EXCEPT !.list = m]
    BY <1>2 DEF Renamed
  <2>2. o \in Outcomes /\ k \in Seq(Entry) /\ Len(k) \in Nat /\ DOMAIN k = 1 .. Len(k)
    BY DEF Grown, Outcomes
  <2> HIDE DEF p, k
  <2>3. \A i \in 1 .. Len(k) : m[i] \in Entry /\ m[i].db = k[i].db /\ m[i].lent = k[i].lent
    <3> SUFFICES ASSUME NEW i \in 1 .. Len(k)
                 PROVE  m[i] \in Entry /\ m[i].db = k[i].db /\ m[i].lent = k[i].lent
      OBVIOUS
    <3>1. k[i] \in Entry
      BY <2>2
    <3>2. m[i] = [k[i] EXCEPT !.shown = d] \/ m[i] = k[i]
      BY <2>2
    <3> HIDE DEF m
    <3> QED
      BY <3>1, <3>2 DEF Entry
  <2>4. m \in Seq(Entry) /\ Len(m) = Len(k)
    <3>1. m = [i \in 1 .. Len(k) |-> m[i]]
      BY <2>2
    <3> HIDE DEF m
    <3>2. m \in [1 .. Len(k) -> Entry]
      BY <2>3, <3>1, Zenon
    <3> QED
      BY <2>2, <3>2, SeqOfLength
  <2> HIDE DEF m
  <2>5. Lenders(m) = Lenders(k)
    BY <2>3, <2>4 DEF Lenders
  <2>6. p \in Outcomes /\ p.list = m /\ p.count = o.count /\ p.asked = o.asked
    BY <2>1, <2>2, <2>4 DEF Outcomes
  <2>7. Grown(l, p)
    BY <2>4, <2>5, <2>6 DEF Grown, k
  <2> QED
    BY <2>7 DEF p
<1> QED
  BY <1>1, <1>2

LEMMA BelowGrown ==
    ASSUME NEW h \in Searches, NEW x \in Calls, NEW d \in Dbs, NEW m \in BOOLEAN,
           NEW l \in Seq(Entry), NEW o, Grown(l, o)
    PROVE  Grown(l, Below(h, x, d, m, o))
<1> DEFINE c == Call(d, x.word, m, o.list)
           b == h[c]
           p == Below(h, x, d, m, o)
<1>1. o \in Outcomes /\ o.list \in Seq(Entry) /\ o.count \in Int /\ o.asked \subseteq Dbs /\ o.deep \in BOOLEAN
  BY DEF Grown, Outcomes
<1>2. c \in Calls /\ c.list = o.list
  BY <1>1 DEF Call, Calls
<1>3. p = [b EXCEPT !.count = o.count + @, !.asked = o.asked \cup @, !.deep = o.deep \/ @]
  BY DEF Below
<1> HIDE DEF c, p
<1>4. b \in Outcomes /\ Grown(o.list, b)
  BY <1>2 DEF Searches
<1> HIDE DEF b
<1>5. b.list \in Seq(Entry) /\ b.count \in Int /\ b.ret \in Results /\ b.asked \subseteq Dbs /\ b.deep \in BOOLEAN
  BY <1>4 DEF Outcomes
<1>6. p = [list |-> b.list, count |-> o.count + b.count, ret |-> b.ret,
           asked |-> o.asked \cup b.asked, deep |-> o.deep \/ b.deep]
  BY <1>3, <1>4 DEF Outcomes
<1>7. p \in Outcomes
  <2>1. (o.deep \/ b.deep) \in BOOLEAN
    BY <1>1, <1>5
  <2>2. o.count + b.count \in Int /\ (o.asked \cup b.asked) \in SUBSET Dbs
    BY <1>1, <1>5
  <2> QED
    BY <1>5, <1>6, <2>1, <2>2 DEF Outcomes
<1>8. p.list = b.list /\ p.count = o.count + b.count /\ p.asked = o.asked \cup b.asked
  BY <1>6
<1>9. Lenders(p.list) \subseteq Lenders(l) \cup p.asked
  BY <1>4, <1>8 DEF Grown
<1>10. Len(l) \in Nat /\ Len(o.list) \in Nat /\ Len(b.list) \in Nat
  BY <1>1, <1>5
<1>11. /\ Len(l) <= Len(p.list)
       /\ p.count <= Len(p.list) - Len(l) /\ Len(l) - Len(p.list) <= p.count
  <2>1. /\ Len(l) <= Len(o.list) /\ Len(o.list) <= Len(b.list)
        /\ o.count <= Len(o.list) - Len(l) /\ Len(l) - Len(o.list) <= o.count
        /\ b.count <= Len(b.list) - Len(o.list) /\ Len(o.list) - Len(b.list) <= b.count
    BY <1>4 DEF Grown
  <2>2. o.count \in Int /\ b.count \in Int
    BY <1>1, <1>5
  <2>3. Len(p.list) = Len(b.list) /\ p.count = o.count + b.count
    BY <1>8
  <2>4. /\ Len(l) <= Len(b.list)
        /\ o.count + b.count <= Len(b.list) - Len(l) /\ Len(l) - Len(b.list) <= o.count + b.count
    BY <1>10, <2>1, <2>2, SumsBetween
  <2> QED
    BY <2>3, <2>4, Zenon
<1>12. Grown(l, p)
  BY <1>7, <1>9, <1>11 DEF Grown
<1> QED
  BY <1>12 DEF p

(* What a virtual database is made of, one after the other.                *)
LEMMA MembersGrown ==
    ASSUME conf \in Confs, NEW h \in Searches, NEW x \in Calls,
           NEW l \in Seq(Entry), NEW o, Grown(l, o)
    PROVE  Grown(l, Members(h, x, o))
<1> DEFINE k == Db(x.db).list
           n == Len(k)
           R == {p \in Outcomes : Grown(l, p)}
           Add(i, p) == Below(h, x, k[i], x.mime, p)
           g == [i \in Nat |-> [p \in R |-> IF i + 1 \in 1 .. n THEN Add(i + 1, p) ELSE p]]
           IsSum(f) == f = [i \in 0 .. n |-> IF i = 0 THEN o ELSE Add(i, f[i - 1])]
           sum == CHOOSE f : IsSum(f)
<1>1. x.db \in Dbs /\ x.mime \in BOOLEAN
  BY DEF Calls
<1>2. n \in Nat /\ \A i \in 1 .. n : k[i] \in Dbs
  BY <1>1, Configured
<1>3. o \in R
  BY DEF Grown
<1>4. \A i \in 1 .. n, p \in R : Add(i, p) \in R
  <2> SUFFICES ASSUME NEW i \in 1 .. n, NEW p \in R PROVE Add(i, p) \in R
    OBVIOUS
  <2>1. k[i] \in Dbs /\ Grown(l, p)
    BY <1>2
  <2> HIDE DEF k
  <2>2. Grown(l, Add(i, p))
    BY <1>1, <2>1, BelowGrown
  <2> QED
    BY <2>2 DEF Grown
<1>5. Members(h, x, o) = sum[n]
  BY Zenon DEF Members
<1> HIDE DEF k, n, R, Add
<1>6. g \in [Nat -> [R -> R]]
  BY <1>2, <1>4
<1>7. \A i \in Nat, p \in R : i + 1 \in 1 .. n => g[i][p] = Add(i + 1, p)
  OBVIOUS
<1> HIDE DEF g
<1>8. PICK f : Solves(f, R, o, g)
  BY <1>3, <1>6, RecursionSolved
<1>9. f \in [Nat -> R] /\ f[0] = o /\ \A i \in Nat : f[i + 1] = g[i][f[i]]
  BY <1>8 DEF Solves
<1> DEFINE e == [i \in 0 .. n |-> f[i]]
<1>10. IsSum(e)
  <2>1. ASSUME NEW i \in 0 .. n PROVE f[i] = IF i = 0 THEN o ELSE Add(i, e[i - 1])
    <3>1. CASE i = 0
      BY <1>9, <3>1
    <3>2. CASE i # 0
      <4>1. i - 1 \in Nat /\ (i - 1) + 1 = i /\ i - 1 \in 0 .. n /\ i \in 1 .. n
        BY <1>2, <3>2
      <4>2. f[(i - 1) + 1] = Add((i - 1) + 1, f[i - 1])
        BY <1>7, <1>9, <4>1
      <4> QED
        BY <3>2, <4>1, <4>2
    <3> QED
      BY <3>1, <3>2
  <2> QED
    BY <2>1
<1> HIDE DEF e
<1>11. IsSum(sum)
  BY <1>10
<1> HIDE DEF sum
<1>12. \A i \in 0 .. n : sum[i] = IF i = 0 THEN o ELSE Add(i, sum[i - 1])
  BY <1>11
<1> DEFINE N == {i \in Nat : i <= n => sum[i] \in R}
<1>13. 0 \in N
  BY <1>2, <1>3, <1>12
<1>14. ASSUME NEW i \in Nat, i \in N PROVE i + 1 \in N
  <2> SUFFICES ASSUME i + 1 <= n PROVE sum[i + 1] \in R
    OBVIOUS
  <2>1. i + 1 \in 1 .. n /\ i + 1 \in 0 .. n /\ i + 1 # 0 /\ (i + 1) - 1 = i /\ i <= n
    BY <1>2
  <2>2. sum[i + 1] = Add(i + 1, sum[i])
    BY <1>12, <2>1
  <2> QED
    BY <1>4, <1>14, <2>1, <2>2
<1>15. Nat \subseteq N
  <2> HIDE DEF N
  <2> QED
    BY <1>13, <1>14, AllNumbers
<1>16. sum[n] \in R
  BY <1>2, <1>15
<1> QED
  BY <1>5, <1>16 DEF R

LEMMA DictSearchGrown ==
    ASSUME conf \in Confs, NEW h \in Searches, NEW x \in Calls
    PROVE  Grown(x.list, DictSearch(h, x))
<1> DEFINE d       == x.db
           l       == x.list
           own     == IF Db(d).hasIndex THEN InIndex(d, x.word, Outcome(l)) ELSE Outcome(l)
           plugin  == IF own.count = 0 /\ Db(d).hasPlugin THEN InPlugin(d, x.word, own) ELSE own
           virtual == IF plugin.count = 0 /\ Db(d).list # <<>>
                      THEN Renamed(d, Len(plugin.list), Members(h, x, plugin))
                      ELSE plugin
           either  == IF x.mime THEN Db(d).mime ELSE Db(d).plain
           all     == IF virtual.count = 0 /\ either # NoDb
                      THEN Renamed(d, Len(virtual.list), Below(h, x, either, FALSE, virtual))
                      ELSE virtual
           o       == DictSearch(h, x)
<1>1. d \in Dbs /\ x.word \in Texts /\ x.mime \in BOOLEAN /\ l \in Seq(Entry)
  BY DEF Calls
<1>2. o = IF req.strat \in Db(d).off THEN Outcome(l)
          ELSE IF own.count = 0 /\ plugin.count # 0 THEN plugin
          ELSE IF all.count > 0 THEN [all EXCEPT !.ret = "found"]
          ELSE all
  BY Zenon DEF DictSearch
<1>3. either \in Dbs \cup {NoDb}
  BY <1>1, Configured
<1> HIDE DEF d, l, either, o
<1>4. Grown(l, own)
  BY <1>1, InIndexGrown, OutcomeGrown
<1> HIDE DEF own
<1>5. Grown(l, plugin)
  BY <1>1, <1>4, InPluginGrown
<1>6. plugin.list \in Seq(Entry) /\ Len(plugin.list) \in Nat
  BY <1>5 DEF Grown, Outcomes
<1> HIDE DEF plugin
<1>7. Grown(l, virtual)
  <2>1. Grown(l, Members(h, x, plugin))
    BY <1>1, <1>5, MembersGrown
  <2>2. Grown(l, Renamed(d, Len(plugin.list), Members(h, x, plugin)))
    BY <1>1, <1>6, <2>1, RenamedGrown
  <2> QED
    BY <1>5, <2>2
<1>8. virtual.list \in Seq(Entry) /\ Len(virtual.list) \in Nat
  BY <1>7 DEF Grown, Outcomes
<1> HIDE DEF virtual
<1>9. Grown(l, all)
  <2>1. ASSUME either \in Dbs
        PROVE  Grown(l, Renamed(d, Len(virtual.list), Below(h, x, either, FALSE, virtual)))
    <3>1. Grown(l, Below(h, x, either, FALSE, virtual))
      BY <1>1, <1>7, <2>1, BelowGrown
    <3> QED
      BY <1>1, <1>8, <3>1, RenamedGrown
  <2> QED
    BY <1>3, <1>7, <2>1
<1> HIDE DEF all
<1>10. Grown(l, [all EXCEPT !.ret = "found"])
  BY <1>9 DEF Grown, Outcomes, Results
<1>11. Grown(l, o)
  BY <1>1, <1>2, <1>5, <1>9, <1>10, OutcomeGrown
<1> QED
  BY <1>11 DEF l, o

(* Whatever databases are made of, themselves included.                    *)
LEMMA LookGrown ==
    ASSUME conf \in Confs
    PROVE  \A n \in Nat : Look[n] \in Searches
<1> DEFINE S == Searches
           Deep == [x \in Calls |-> [Outcome(x.list) EXCEPT !.deep = TRUE]]
           Deeper(h) == [x \in Calls |-> DictSearch(h, x)]
           g == [n \in Nat |-> [h \in S |-> Deeper(h)]]
           IsLook(f) == f = [n \in Nat |-> [x \in Calls |->
                                IF n = 0 THEN [Outcome(x.list) EXCEPT !.deep = TRUE]
                                ELSE DictSearch(f[n - 1], x)]]
           look == CHOOSE f : IsLook(f)
<1>1. Look = look
  BY Zenon DEF Look
<1>2. Deep \in S
  <2>1. \A x \in Calls : Grown(x.list, [Outcome(x.list) EXCEPT !.deep = TRUE])
    <3>1. \A x \in Calls : x.list \in Seq(Entry)
      BY DEF Calls
    <3> QED
      BY <3>1, OutcomeGrown
  <2>2. \A x \in Calls : Deep[x] \in Outcomes /\ Grown(x.list, Deep[x])
    BY <2>1 DEF Grown
  <2>3. Deep = [x \in Calls |-> Deep[x]]
    OBVIOUS
  <2> HIDE DEF Deep
  <2>4. Deep \in [Calls -> Outcomes]
    BY <2>2, <2>3, Zenon
  <2> QED
    BY <2>2, <2>4 DEF Searches
<1>3. \A h \in S : Deeper(h) \in S
  <2> SUFFICES ASSUME NEW h \in S PROVE Deeper(h) \in S
    OBVIOUS
  <2> DEFINE e == Deeper(h)
  <2>1. \A x \in Calls : e[x] \in Outcomes /\ Grown(x.list, e[x])
    BY DictSearchGrown DEF Grown
  <2>2. e = [x \in Calls |-> e[x]]
    OBVIOUS
  <2> HIDE DEF e
  <2>3. e \in [Calls -> Outcomes]
    BY <2>1, <2>2, Zenon
  <2>4. e \in Searches
    BY <2>1, <2>3 DEF Searches
  <2> QED
    BY <2>4 DEF e
<1>4. \A f : IsLook(f) <=> f = [n \in Nat |-> IF n = 0 THEN Deep ELSE Deeper(f[n - 1])]
  <2> SUFFICES ASSUME NEW f
               PROVE  [n \in Nat |-> [x \in Calls |->
                                IF n = 0 THEN [Outcome(x.list) EXCEPT !.deep = TRUE]
                                ELSE DictSearch(f[n - 1], x)]]
                      = [n \in Nat |-> IF n = 0 THEN Deep ELSE Deeper(f[n - 1])]
    BY Zenon
  <2>1. \A n \in Nat : [x \in Calls |-> IF n = 0 THEN [Outcome(x.list) EXCEPT !.deep = TRUE]
                                        ELSE DictSearch(f[n - 1], x)]
                       = IF n = 0 THEN Deep ELSE Deeper(f[n - 1])
    <3>1. \A n \in Nat : n = 0 => [x \in Calls |-> IF n = 0 THEN [Outcome(x.list) EXCEPT !.deep = TRUE]
                                        ELSE DictSearch(f[n - 1], x)] = Deep
      BY Zenon
    <3>2. \A n \in Nat : n # 0 => [x \in Calls |-> IF n = 0 THEN [Outcome(x.list) EXCEPT !.deep = TRUE]
                                        ELSE DictSearch(f[n - 1], x)] = Deeper(f[n - 1])
      BY Zenon
    <3> HIDE DEF Deep, Deeper
    <3> QED
      BY <3>1, <3>2, Zenon
  <2> HIDE DEF Deep, Deeper
  <2> QED
    BY <2>1, Zenon
<1> HIDE DEF S, Deep, Deeper
<1>5. g \in [Nat -> [S -> S]]
  BY <1>3
<1>6. PICK f : Solves(f, S, Deep, g)
  BY <1>2, <1>5, RecursionSolved
<1>7. f \in [Nat -> S] /\ f[0] = Deep /\ \A n \in Nat : f[n + 1] = Deeper(f[n])
  BY <1>6 DEF Solves
<1>8. f = [n \in Nat |-> IF n = 0 THEN Deep ELSE Deeper(f[n - 1])]
  <2>1. ASSUME NEW n \in Nat PROVE f[n] = IF n = 0 THEN Deep ELSE Deeper(f[n - 1])
    <3>1. CASE n = 0
      BY <1>7, <3>1
    <3>2. CASE n # 0
      <4>1. n - 1 \in Nat /\ (n - 1) + 1 = n
        BY <3>2
      <4>2. f[(n - 1) + 1] = Deeper(f[n - 1])
        BY <1>7, <4>1
      <4> QED
        BY <3>2, <4>1, <4>2
    <3> QED
      BY <3>1, <3>2
  <2> QED
    BY <1>7, <2>1
<1>9. look = [n \in Nat |-> IF n = 0 THEN Deep ELSE Deeper(look[n - 1])]
  <2> HIDE DEF IsLook
  <2> QED
    BY <1>4, <1>8
<1> HIDE DEF look
<1>10. look[0] = Deep /\ \A n \in Nat : look[n + 1] = Deeper(look[n])
  <2>1. \A n \in Nat : look[n] = IF n = 0 THEN Deep ELSE Deeper(look[n - 1])
    BY <1>9
  <2>2. ASSUME NEW n \in Nat PROVE look[n + 1] = Deeper(look[n])
    <3>1. n + 1 \in Nat /\ n + 1 # 0 /\ (n + 1) - 1 = n
      OBVIOUS
    <3> QED
      BY <2>1, <3>1
  <2> QED
    BY <2>1, <2>2
<1> DEFINE N == {n \in Nat : look[n] \in S}
<1>11. Nat \subseteq N
  <2>1. 0 \in N /\ \A n \in Nat : n \in N => n + 1 \in N
    BY <1>2, <1>3, <1>10
  <2> HIDE DEF N
  <2> QED
    BY <2>1, AllNumbers
<1> QED
  BY <1>1, <1>11 DEF S

LEMMA LookedGrown ==
    ASSUME conf \in Confs, NEW d \in Dbs, NEW w \in Texts, NEW m \in BOOLEAN, NEW l \in Seq(Entry)
    PROVE  Grown(l, Looked(d, w, m, l))
<1>1. Call(d, w, m, l) \in Calls /\ Call(d, w, m, l).list = l
  BY DEF Call, Calls
<1>2. Depth \in Nat /\ Look[Depth] \in Searches
  BY LookGrown, SearchAssumption
<1> QED
  BY <1>1, <1>2 DEF Looked, Searches

-----------------------------------------------------------------------------
(* What plugins lent is there until it is printed.                         *)

Lent == {d \in Dbs : lent[d]}

(* Words put in front of the list are still on it when they are taken, and *)
(* SHOW INFO prints at least one entry before it forgets them.             *)
SearchInv ==
    /\ conf \in Confs
    /\ TypeOK
    /\ at >= 1
    /\ pc \in {"words", "merge"} => cur \in Dbs /\ count \in 0 .. Len(list)
    /\ pc \in {"next", "words", "merge", "reply", "free"} => Lenders(list) \subseteq Lent
    /\ pc \in {"idle", "info"} => Lent = {}
    /\ pc = "info" => at = 1
    /\ pc = "entries" => list # <<>> /\ (at > 1 => Lent = {})

LEMMA DumpType ==
    ASSUME TypeOK
    PROVE  Dump \in Seq(Line)
<1> DEFINE piece(i) == IF Repeats(i) THEN <<>> ELSE <<Shown(list[i])>>
           ss == [i \in DOMAIN list |-> piece(i)]
<1>1. list \in Seq(Entry) /\ DOMAIN list = 1 .. Len(list) /\ Len(list) \in Nat
  BY DEF TypeOK
<1>2. \A i \in 1 .. Len(list) : piece(i) \in Seq(Line)
  <2> SUFFICES ASSUME NEW i \in 1 .. Len(list) PROVE piece(i) \in Seq(Line)
    OBVIOUS
  <2> DEFINE e == list[i]
  <2>1. e \in Entry
    BY <1>1
  <2> HIDE DEF e
  <2>2. Shown(e) \in Line
    BY <2>1 DEF Shown, Name, Line, Entry
  <2>3. <<Shown(e)>> \in Seq(Line) /\ <<>> \in Seq(Line)
    BY <2>2
  <2> QED
    BY <2>3 DEF e
<1>3. ss = [i \in 1 .. Len(list) |-> piece(i)]
  BY <1>1
<1>4. Dump = FlattenSeq(ss)
  BY Zenon DEF Dump
<1> HIDE DEF piece, ss
<1>5. ss \in [1 .. Len(list) -> Seq(Line)]
  BY <1>2, <1>3, Zenon
<1>6. ss \in Seq(Seq(Line))
  BY <1>1, <1>5, SeqOfLength
<1> QED
  BY <1>4, <1>6, FlattenType

LEMMA SearchInvInit == Init => SearchInv
<1> SUFFICES ASSUME Init PROVE SearchInv
  OBVIOUS
<1>1. req \in Requests
  BY SearchAssumption DEF Init
<1>2. /\ conf \in Confs /\ mime = FALSE /\ pc = "idle" /\ pos = 1 /\ cur = NoDb /\ words = <<>>
      /\ at = 1 /\ list = <<>> /\ result = "notfound" /\ count = 0 /\ matches = -1
      /\ error = FALSE /\ dbFound = FALSE /\ lent = [d \in Dbs |-> FALSE]
      /\ reply = [code |-> 220, shown |-> <<>>] /\ seen = {}
  BY DEF Init, Just
<1>3. pos \in 1 .. (Len(conf.order) + 1)
  BY <1>2, OrderIsSeq
<1>4. reply \in [code : Codes, shown : Seq(Line)]
  BY <1>2 DEF Codes
<1>5. TypeOK
  <2>1. mime \in BOOLEAN /\ pc \in Labels /\ cur \in Dbs \cup {NoDb} /\ at \in Nat /\ result \in Results
    BY <1>2 DEF Labels, Results
  <2>2. {count, matches} \subseteq Int /\ {error, dbFound} \subseteq BOOLEAN
    <3>1. count \in Int /\ matches \in Int
      BY <1>2
    <3>2. error \in BOOLEAN /\ dbFound \in BOOLEAN
      BY <1>2, Zenon
    <3> QED
      BY <3>1, <3>2, Zenon
  <2>3. lent \in [Dbs -> BOOLEAN] /\ seen \subseteq Dbs
    BY <1>2
  <2>4. words \in Seq(Texts \cup {NoWord}) /\ list \in Seq(Entry)
    BY <1>2
  <2> QED
    BY <1>1, <1>3, <1>4, <2>1, <2>2, <2>3, <2>4 DEF TypeOK
<1> QED
  BY <1>2, <1>5 DEF SearchInv, Lent

(* Steps that change neither the list nor what is lent.                    *)
LEMMA JustType ==
    ASSUME NEW c \in Codes
    PROVE  Just(c) \in [code : Codes, shown : Seq(Line)]
BY DEF Just

LEMMA AskKeeps ==
    ASSUME SearchInv, NEW r \in Requests, Ask(r)
    PROVE  SearchInv'
<1>1. TypeOK /\ conf \in Confs /\ Lent = {}
  BY DEF SearchInv, Ask
<1>2. Len(conf.order) \in Nat /\ r.word \in Texts
  BY <1>1, OrderIsSeq, SearchAssumption
<1>3. /\ req' = r /\ pos' = 1 /\ cur' = NoDb /\ words' = <<r.word>> /\ at' = 1 /\ list' = <<>>
      /\ result' = "notfound" /\ count' = 0 /\ matches' = -1 /\ error' = FALSE /\ dbFound' = FALSE
      /\ seen' = {} /\ pc' \in {"info", "next"}
      /\ conf' = conf /\ mime' = mime /\ lent' = lent /\ reply' = reply
  BY DEF Ask
<1>4. TypeOK'
  <2>1. pc' \in Labels /\ cur' \in Dbs \cup {NoDb} /\ at' \in Nat /\ result' \in Results
    BY <1>3 DEF Labels, Results
  <2>2. {count', matches'} \subseteq Int /\ {error', dbFound'} \subseteq BOOLEAN
    <3>1. count' \in Int /\ matches' \in Int
      BY <1>3
    <3>2. error' \in BOOLEAN /\ dbFound' \in BOOLEAN
      BY <1>3, Zenon
    <3> QED
      BY <3>1, <3>2, Zenon
  <2>3. words' \in Seq(Texts \cup {NoWord}) /\ list' \in Seq(Entry)
    BY <1>2, <1>3
  <2>4. pos' \in 1 .. (Len(conf'.order) + 1) /\ seen' \subseteq Dbs
    BY <1>2, <1>3
  <2> QED
    BY <1>1, <1>3, <2>1, <2>2, <2>3, <2>4 DEF TypeOK
<1>5. Lenders(list') = {} /\ Lent' = {}
  BY <1>1, <1>3 DEF Lenders, Lent
<1> QED
  BY <1>1, <1>3, <1>4, <1>5 DEF SearchInv

LEMMA NextDatabaseKeeps ==
    ASSUME SearchInv, NextDatabase
    PROVE  SearchInv'
<1>1. PICK i \in Ahead : Walk(i)
  BY DEF NextDatabase
<1>2. TypeOK /\ conf \in Confs /\ at >= 1 /\ pc = "next" /\ Lenders(list) \subseteq Lent
  BY DEF SearchInv, NextDatabase
<1>3. Len(conf.order) \in Nat /\ i \in 1 .. Len(conf.order) /\ conf.order[i] \in Dbs
  BY <1>2, OrderIsSeq DEF TypeOK, Ahead
<1>4. /\ pos' = i + 1 /\ cur' = conf.order[i] /\ cur' \in Dbs
      /\ conf' = conf /\ mime' = mime /\ req' = req /\ words' = words /\ list' = list
      /\ matches' = matches /\ error' = error /\ lent' = lent /\ reply' = reply
  BY <1>1, <1>3 DEF Walk
<1>5. \/ /\ pc' = "reply" /\ dbFound' = dbFound /\ result' = result /\ count' = count
         /\ at' = at /\ seen' = seen
      \/ /\ pc' = "words" /\ dbFound' = TRUE /\ result' = "notfound" /\ count' = 0 /\ at' = 1
         /\ seen' = seen \cup {cur'}
  BY <1>1 DEF Walk
<1>6. TypeOK'
  <2>1. pos' \in 1 .. (Len(conf'.order) + 1)
    BY <1>3, <1>4
  <2>2. pc' \in Labels /\ at' \in Nat /\ result' \in Results /\ seen' \subseteq Dbs
    BY <1>2, <1>4, <1>5 DEF TypeOK, Labels, Results
  <2>3. {count', matches'} \subseteq Int /\ {error', dbFound'} \subseteq BOOLEAN
    <3>1. {count, matches} \subseteq Int /\ {error, dbFound} \subseteq BOOLEAN
      BY <1>2 DEF TypeOK
    <3>2. count' \in Int /\ matches' \in Int
      <4>1. count \in Int /\ matches \in Int
        BY <3>1, Zenon
      <4>2. (count' = count \/ count' = 0) /\ matches' = matches
        BY <1>4, <1>5
      <4> QED
        BY <4>1, <4>2
    <3>3. error' \in BOOLEAN /\ dbFound' \in BOOLEAN
      BY <1>4, <1>5, <3>1, Zenon
    <3> QED
      BY <3>2, <3>3, Zenon
  <2> QED
    BY <1>2, <1>4, <2>1, <2>2, <2>3 DEF TypeOK
<1>7. Lenders(list') \subseteq Lent'
  BY <1>2, <1>4 DEF Lent
<1>8. pc' = "words" => count' \in 0 .. Len(list')
  <2>1. Len(list') \in Nat
    BY <1>6 DEF TypeOK
  <2> QED
    BY <1>5, <2>1
<1> QED
  BY <1>2, <1>4, <1>5, <1>6, <1>7, <1>8 DEF SearchInv

LEMMA SearchWordKeeps ==
    ASSUME SearchInv, SearchWord
    PROVE  SearchInv'
<1> DEFINE o == Looked(cur, words[at], mime, list)
<1>1. /\ TypeOK /\ conf \in Confs /\ at \in 1 .. Len(words) /\ pc = "words"
      /\ Lenders(list) \subseteq Lent /\ cur \in Dbs /\ count \in 0 .. Len(list)
  BY DEF SearchInv, SearchWord, TypeOK
<1>2. words \in Seq(Texts \cup {NoWord}) /\ words[at] \in Texts
  BY <1>1 DEF SearchWord, TypeOK
<1>3. Grown(list, o)
  BY <1>1, <1>2, LookedGrown DEF TypeOK
<1>4. /\ list' = o.list /\ result' = o.ret
      /\ lent' = [d \in Dbs |-> lent[d] \/ d \in o.asked]
      /\ words' = words \/ words' = [words EXCEPT ![at] = NoWord]
      /\ error' = (o.count < 0)
      /\ count' = IF o.count < 0 THEN count - o.count ELSE count + o.count
      /\ at' = at + 1
      /\ pc' \in {"aborted", "merge", "words"}
      /\ conf' = conf /\ mime' = mime /\ req' = req /\ pos' = pos /\ cur' = cur /\ matches' = matches
      /\ dbFound' = dbFound /\ seen' = seen /\ reply' = reply
  BY DEF SearchWord
<1> HIDE DEF o
<1>5. o \in Outcomes /\ o.list \in Seq(Entry) /\ o.count \in Int /\ o.ret \in Results
  BY <1>3 DEF Grown, Outcomes
<1>6. words' \in Seq(Texts \cup {NoWord})
  BY <1>1, <1>2, <1>4, ExceptSeq
<1>7. count' \in 0 .. Len(list')
  <2>1. Len(list) \in Nat /\ Len(o.list) \in Nat
    BY <1>1, <1>5 DEF TypeOK
  <2>2. o.count <= Len(o.list) - Len(list) /\ Len(list) - Len(o.list) <= o.count
    BY <1>3 DEF Grown
  <2> DEFINE m == Len(list)
             n == Len(o.list)
             c == o.count
  <2>3. m \in Nat /\ n \in Nat /\ c \in Int /\ c <= n - m /\ m - n <= c /\ count \in 0 .. m
    BY <1>1, <1>5, <2>1, <2>2
  <2>4. count' = IF c < 0 THEN count - c ELSE count + c
    BY <1>4
  <2> HIDE DEF m, n, c
  <2>5. count' \in 0 .. n
    BY <2>3, <2>4
  <2> QED
    BY <1>4, <2>5 DEF n
<1>8. lent' \in [Dbs -> BOOLEAN]
  BY <1>4, Zenon
<1>9. TypeOK'
  <2>1. error' \in BOOLEAN /\ at' \in Nat /\ count' \in Int
    BY <1>1, <1>4, <1>5, <1>7 DEF TypeOK
  <2> QED
    BY <1>1, <1>4, <1>5, <1>6, <1>8, <2>1 DEF TypeOK, Labels
<1>10. Lenders(list') \subseteq Lent'
  <2>1. Lenders(o.list) \subseteq Lenders(list) \cup o.asked /\ o.asked \subseteq Dbs
    BY <1>3, <1>5 DEF Grown, Outcomes
  <2>2. \A d \in Dbs : lent'[d] <=> (lent[d] \/ d \in o.asked)
    BY <1>4, Zenon
  <2> QED
    BY <1>1, <1>4, <2>1, <2>2, Zenon DEF Lent
<1>11. at' >= 1 /\ cur' \in Dbs /\ conf' \in Confs /\ pc' \notin {"idle", "info", "entries"}
  BY <1>1, <1>4
<1> QED
  BY <1>7, <1>9, <1>10, <1>11 DEF SearchInv

LEMMA ReplaceKeeps ==
    ASSUME SearchInv, Replace
    PROVE  SearchInv'
<1> DEFINE taken == [i \in 1 .. count |-> list[i].text]
           rest == SubSeq(list, count + 1, Len(list))
<1>1. /\ TypeOK /\ conf \in Confs /\ at >= 1 /\ pc = "merge" /\ Lenders(list) \subseteq Lent
      /\ count \in 0 .. Len(list) /\ list \in Seq(Entry) /\ Len(list) \in Nat
  BY DEF SearchInv, Replace, TypeOK
<1>2. /\ words' = words \o taken /\ list' = rest /\ matches' = Known /\ pc' = "next"
      /\ conf' = conf /\ mime' = mime /\ req' = req /\ pos' = pos /\ cur' = cur /\ at' = at
      /\ result' = result /\ count' = count /\ error' = error /\ dbFound' = dbFound
      /\ lent' = lent /\ reply' = reply /\ seen' = seen
  BY DEF Replace
<1>3. taken \in Seq(Texts)
  <2>1. count \in Nat /\ \A i \in 1 .. count : list[i] \in Entry
    BY <1>1
  <2>2. \A i \in 1 .. count : list[i].text \in Texts
    BY <2>1 DEF Entry
  <2>3. taken \in [1 .. count -> Texts]
    BY <2>2, Zenon
  <2> HIDE DEF taken
  <2> QED
    BY <2>1, <2>3, SeqOfLength
<1> HIDE DEF taken
<1>4. words' \in Seq(Texts \cup {NoWord})
  <2>1. taken \in Seq(Texts \cup {NoWord})
    BY <1>3, SeqMonotonic
  <2>2. words \in Seq(Texts \cup {NoWord})
    BY <1>1 DEF TypeOK
  <2> QED
    BY <1>2, <2>1, <2>2, ConcatProperties
<1>5. rest \in Seq(Entry) /\ \A i \in 1 .. Len(rest) : count + i \in 1 .. Len(list) /\ rest[i] = list[count + i]
  BY <1>1
<1> HIDE DEF rest
<1>6. Lenders(rest) \subseteq Lenders(list)
  BY <1>5 DEF Lenders
<1>7. TypeOK'
  <2>1. Known \in Int
    BY <1>1 DEF TypeOK, Known
  <2> QED
    BY <1>1, <1>2, <1>4, <1>5, <2>1 DEF TypeOK, Labels
<1>8. Lenders(list') \subseteq Lent'
  BY <1>1, <1>2, <1>6 DEF Lent
<1> QED
  BY <1>1, <1>2, <1>7, <1>8 DEF SearchInv

(* The other steps of the walk leave the list alone.                       *)
LEMMA WalkKeeps ==
    ASSUME SearchInv, NoDatabase \/ SkipWord \/ WordsDone \/ Collect
    PROVE  SearchInv'
<1>1. /\ TypeOK /\ conf \in Confs /\ at >= 1
      /\ pc \in {"words", "merge"} => cur \in Dbs /\ count \in 0 .. Len(list)
      /\ pc \in {"next", "words", "merge"} => Lenders(list) \subseteq Lent
  BY DEF SearchInv
<1>2. /\ conf' = conf /\ mime' = mime /\ req' = req /\ pos' = pos /\ cur' = cur /\ words' = words
      /\ list' = list /\ result' = result /\ count' = count /\ error' = error /\ dbFound' = dbFound
      /\ lent' = lent /\ reply' = reply /\ seen' = seen
      /\ at' \in {at, at + 1} /\ matches' \in {matches, Known + count}
      /\ pc \in {"next", "words", "merge"} /\ pc' \in {"next", "words", "merge", "reply"}
      /\ pc' \in {"words", "merge"} => pc \in {"words", "merge"}
  BY DEF NoDatabase, SkipWord, WordsDone, Collect, loopVars
<1>3. TypeOK'
  <2>1. at' \in Nat /\ matches' \in Int
    BY <1>1, <1>2 DEF TypeOK, Known
  <2> QED
    BY <1>1, <1>2, <2>1 DEF TypeOK, Labels
<1>4. Lenders(list') \subseteq Lent'
  BY <1>1, <1>2 DEF Lent
<1>5. at' >= 1
  BY <1>1, <1>2 DEF TypeOK
<1> QED
  BY <1>1, <1>2, <1>3, <1>4, <1>5 DEF SearchInv

LEMMA AnsweringKeeps ==
    ASSUME SearchInv, Answering
    PROVE  SearchInv'
<1>1. TypeOK /\ conf \in Confs /\ at >= 1
  BY DEF SearchInv
<1>2. /\ conf' = conf /\ mime' = mime /\ req' = req /\ pos' = pos /\ cur' = cur /\ words' = words
      /\ at' = at /\ result' = result /\ count' = count /\ matches' = matches /\ error' = error
      /\ dbFound' = dbFound /\ seen' = seen
  BY DEF Answering, Found, Free, NothingFound, loopVars
<1>3. AllFreed \in [Dbs -> BOOLEAN] /\ \A d \in Dbs : ~AllFreed[d]
  BY DEF AllFreed
<1>4. CASE Found
  <2>1. /\ lent' = lent /\ list' = list /\ pc' = "free" /\ pc = "reply"
        /\ reply' = [code |-> IF req.op = "define" THEN 150 ELSE 152, shown |-> Dump]
    BY <1>4 DEF Found
  <2>2. reply' \in [code : Codes, shown : Seq(Line)]
    BY <1>1, <2>1, DumpType DEF Codes
  <2>3. TypeOK'
    BY <1>1, <1>2, <2>1, <2>2 DEF TypeOK, Labels
  <2>4. Lenders(list') \subseteq Lent'
    BY <2>1 DEF SearchInv, Lent
  <2> QED
    BY <1>1, <1>2, <2>1, <2>3, <2>4 DEF SearchInv
<1>5. CASE Free \/ NothingFound
  <2>1. lent' = AllFreed /\ list' = <<>> /\ pc' = "idle" /\ reply' \in {reply, Just(552), Just(550)}
    BY <1>5 DEF Free, NothingFound
  <2>2. reply' \in [code : Codes, shown : Seq(Line)]
    BY <1>1, <2>1, JustType DEF TypeOK, Codes
  <2>3. list' \in Seq(Entry)
    BY <2>1
  <2>4. TypeOK'
    BY <1>1, <1>2, <1>3, <2>1, <2>2, <2>3 DEF TypeOK, Labels
  <2>5. Lent' = {}
    BY <1>3, <2>1 DEF Lent
  <2> QED
    BY <1>1, <1>2, <2>1, <2>4, <2>5 DEF SearchInv
<1> QED
  BY <1>4, <1>5 DEF Answering

LEMMA InfoKeeps ==
    ASSUME SearchInv, Info
    PROVE  SearchInv'
<1>1. TypeOK /\ conf \in Confs /\ at >= 1 /\ at \in Nat /\ list \in Seq(Entry)
  BY DEF SearchInv, TypeOK
<1>2. /\ conf' = conf /\ mime' = mime /\ req' = req /\ pos' = pos /\ cur' = cur /\ words' = words
      /\ result' = result /\ count' = count /\ matches' = matches /\ error' = error
      /\ dbFound' = dbFound /\ seen' = seen
  BY DEF Info, InfoUnknown, InfoText, InfoLookup, InfoEntry, InfoDone, loopVars
<1>3. AllFreed \in [Dbs -> BOOLEAN] /\ \A d \in Dbs : ~AllFreed[d]
  BY DEF AllFreed
<1>4. ASSUME ByName PROVE req.arg \in Dbs
  <2>1. PICK i \in Ahead : TRUE
    BY <1>4 DEF ByName
  <2>2. i \in 1 .. Len(conf.order) /\ req.arg = conf.order[i]
    BY <1>1, <1>4, <2>1, OrderIsSeq DEF ByName, Ahead, Reaches, TypeOK
  <2> QED
    BY <1>1, <2>2, OrderIsSeq
<1>5. CASE InfoUnknown \/ InfoText
  <2>1. at' = at /\ list' = list /\ lent' = lent /\ pc' = "idle" /\ pc = "info"
    BY <1>5 DEF InfoUnknown, InfoText, loopVars
  <2>2. reply' \in [code : Codes, shown : Seq(Line)]
    <3>1. CASE InfoUnknown
      BY <3>1, JustType DEF InfoUnknown, Codes
    <3>2. CASE InfoText
      <4> DEFINE e == [name |-> req.arg, db |-> req.arg, text |-> InfoWord]
      <4>1. e \in Line
        BY <1>4, <3>2, SearchAssumption DEF InfoText, Line
      <4>2. reply' = [code |-> 112, shown |-> <<e>>]
        BY <3>2 DEF InfoText
      <4> HIDE DEF e
      <4> QED
        BY <4>1, <4>2 DEF Codes
    <3> QED
      BY <1>5, <3>1, <3>2
  <2>3. TypeOK'
    BY <1>1, <1>2, <2>1, <2>2 DEF TypeOK, Labels
  <2>4. Lent' = {}
    BY <2>1 DEF SearchInv, Lent
  <2> QED
    BY <1>1, <1>2, <2>1, <2>3, <2>4 DEF SearchInv
<1>6. CASE InfoLookup
  <2> DEFINE o == Looked(req.arg, InfoWord, FALSE, <<>>)
             e == <<>>
  <2>1. e \in Seq(Entry) /\ Len(e) = 0 /\ InfoWord \in Texts
    BY SearchAssumption
  <2>2. Grown(e, o)
    BY <1>1, <1>4, <1>6, <2>1, LookedGrown DEF InfoLookup
  <2>3. /\ at' = at /\ pc = "info" /\ reply' = Just(112)
        /\ \/ pc' = "aborted" /\ lent' = lent /\ list' = list
           \/ pc' = "idle" /\ lent' = AllFreed /\ list' = list
           \/ /\ pc' = "entries" /\ lent' = [d \in Dbs |-> d \in o.asked] /\ list' = o.list
              /\ o.count # 0
    BY <1>6 DEF InfoLookup, loopVars
  <2> HIDE DEF o, e
  <2>4. o \in Outcomes /\ o.count <= Len(o.list) - Len(e) /\ Len(e) - Len(o.list) <= o.count
    BY <2>2 DEF Grown
  <2>5. o.list \in Seq(Entry) /\ o.count \in Int /\ Len(o.list) \in Nat
    BY <2>4 DEF Outcomes
  <2>6. o.count # 0 => o.list # <<>>
    BY <2>1, <2>4, <2>5
  <2>7. lent' \in [Dbs -> BOOLEAN]
    <3>1. [d \in Dbs |-> d \in o.asked] \in [Dbs -> BOOLEAN]
      OBVIOUS
    <3>2. lent \in [Dbs -> BOOLEAN]
      BY <1>1 DEF TypeOK
    <3> QED
      BY <1>3, <2>3, <3>1, <3>2, Zenon
  <2>8. reply' \in [code : Codes, shown : Seq(Line)]
    BY <2>3, JustType DEF Codes
  <2>9. list' \in Seq(Entry) /\ pc' \in Labels
    BY <1>1, <2>5, <2>3 DEF Labels
  <2>10. TypeOK'
    BY <1>1, <1>2, <2>3, <2>7, <2>8, <2>9 DEF TypeOK
  <2>11. pc' = "idle" => Lent' = {}
    BY <1>3, <2>3 DEF Lent
  <2>12. at = 1
    BY <2>3 DEF SearchInv
  <2>13. pc' = "entries" => list' # <<>>
    BY <2>6, <2>3
  <2> QED
    BY <1>1, <1>2, <2>3, <2>10, <2>11, <2>12, <2>13 DEF SearchInv
<1>7. CASE InfoEntry
  <2> DEFINE e == [name |-> list[at].db, db |-> list[at].db, text |-> list[at].text]
  <2>1. /\ at <= Len(list) /\ at' = at + 1 /\ list' = list /\ lent' = AllFreed /\ pc = "entries" /\ pc' = pc
        /\ reply' = [reply EXCEPT !.shown = Append(@, e)]
    BY <1>7 DEF InfoEntry
  <2>2. list[at] \in Entry
    BY <1>1, <2>1
  <2>3. e \in Line
    BY <2>2 DEF Entry, Line
  <2> HIDE DEF e
  <2>4. reply' \in [code : Codes, shown : Seq(Line)]
    <3>1. reply \in [code : Codes, shown : Seq(Line)]
      BY <1>1 DEF TypeOK
    <3>2. Append(reply.shown, e) \in Seq(Line)
      BY <2>3, <3>1
    <3> QED
      BY <2>1, <3>1, <3>2
  <2>5. at' \in Nat /\ at' >= 1
    BY <1>1, <2>1
  <2>6. TypeOK'
    BY <1>1, <1>2, <1>3, <2>1, <2>4, <2>5 DEF TypeOK
  <2>7. Lent' = {}
    BY <1>3, <2>1 DEF Lent
  <2>8. list # <<>>
    BY <2>1 DEF SearchInv
  <2> QED
    BY <1>1, <1>2, <2>1, <2>5, <2>6, <2>7, <2>8 DEF SearchInv
<1>8. CASE InfoDone
  <2>1. /\ pc = "entries" /\ at > Len(list) /\ list' = <<>> /\ pc' = "idle"
        /\ at' = at /\ lent' = lent /\ reply' = reply
    BY <1>8 DEF InfoDone, loopVars
  <2>2. list # <<>> /\ (at > 1 => Lent = {})
    BY <2>1 DEF SearchInv
  <2>3. at > 1
    BY <1>1, <2>1, <2>2
  <2>4. Lent' = {}
    BY <2>1, <2>2, <2>3 DEF Lent
  <2>5. list' \in Seq(Entry)
    BY <2>1
  <2>6. TypeOK'
    BY <1>1, <1>2, <2>1, <2>5 DEF TypeOK, Labels
  <2> QED
    BY <1>1, <1>2, <2>1, <2>4, <2>6 DEF SearchInv
<1> QED
  BY <1>5, <1>6, <1>7, <1>8 DEF Info

LEMMA SearchInvInductive ==
    ASSUME SearchInv, [Next]_vars
    PROVE  SearchInv'
<1>1. CASE UNCHANGED vars \/ OptionMime
  <2>1. /\ conf' = conf /\ pc' = pc /\ req' = req /\ pos' = pos /\ cur' = cur /\ words' = words
        /\ at' = at /\ list' = list /\ result' = result /\ count' = count /\ matches' = matches
        /\ error' = error /\ dbFound' = dbFound /\ lent' = lent /\ seen' = seen
        /\ mime' \in {mime, TRUE} /\ reply' \in {reply, Just(250)}
    BY <1>1 DEF vars, loopVars, OptionMime
  <2>2. reply' \in [code : Codes, shown : Seq(Line)]
    BY <2>1, JustType DEF SearchInv, TypeOK, Codes
  <2>3. mime' \in BOOLEAN
    <3>1. mime \in BOOLEAN
      BY DEF SearchInv, TypeOK
    <3> QED
      BY <2>1, <3>1, Zenon
  <2>4. TypeOK'
    BY <2>1, <2>2, <2>3 DEF SearchInv, TypeOK
  <2>5. Lent' = Lent
    BY <2>1 DEF Lent
  <2> QED
    BY <2>1, <2>4, <2>5 DEF SearchInv
<1> QED
  BY <1>1, AskKeeps, NextDatabaseKeeps, SearchWordKeeps, ReplaceKeeps, WalkKeeps, AnsweringKeeps,
     InfoKeeps DEF Next, Step, Loop

(* The type invariant, and what DEFINE or MATCH is about to print is still *)
(* lent, however databases are nested, whatever plugins answer and however *)
(* often they replace the words; between commands nothing is on loan       *)
(* (plugin.c:77, 634-648; daemon.c:809-837, 889-916).                      *)
THEOREM LentUntilPrinted == Spec => []LentAsLongAsNeeded
<1>1. SearchInv => LentAsLongAsNeeded
  <2> SUFFICES ASSUME SearchInv PROVE LentAsLongAsNeeded
    OBVIOUS
  <2>1. TypeOK
    BY DEF SearchInv
  <2>2. ASSUME pc = "reply", NEW i \in DOMAIN list, list[i].lent PROVE lent[list[i].db]
    <3>1. list[i].db \in Lenders(list)
      BY <2>1, <2>2 DEF Lenders, TypeOK
    <3> QED
      BY <2>2, <3>1 DEF SearchInv, Lent
  <2>3. pc = "idle" => \A d \in Dbs : ~lent[d]
    BY DEF SearchInv, Lent
  <2> QED
    BY <2>1, <2>2, <2>3 DEF LentAsLongAsNeeded
<1> QED
  BY <1>1, SearchInvInit, SearchInvInductive, PTL DEF Spec
=============================================================================
