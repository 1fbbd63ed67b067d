------------------------------- MODULE Search -------------------------------
(***************************************************************************)
(* How a daemon carries out DEFINE, MATCH and SHOW INFO                    *)
(* (dictd/daemon.c, dict_search_databases and its callers; libdictd/       *)
(* index.c, dict_search; dictd/plugin.c): the walk over the databases a    *)
(* name reaches, the descent through virtual and MIME databases, plugins   *)
(* that find, stop the walk or replace the word, the list of results with  *)
(* its two ends, duplicates left out when it is printed, and the freeing   *)
(* of what plugins lent.                                                   *)
(*                                                                         *)
(* What an index or a plugin holds is part of the configuration: the texts *)
(* found for a word.  A text is what distinguishes two results: the place  *)
(* of a definition, the headword of a match, a word to look up instead.    *)
(***************************************************************************)
EXTENDS Integers, SequencesExt

CONSTANTS
    Dbs,            \* the databases; a database is its name
    NoDb,           \* no database: a NULL pointer
    Texts,          \* words and definitions
    Bad,            \* a word that is not valid UTF-8
    Complaint,      \* utf8_err_msg, which is no word to look up either
    NoWord,         \* a word that was replaced
    InfoWord,       \* the entry SHOW INFO looks up
    Depth,          \* the calls of dict_search() the stack has room for
    Confs,          \* the configurations
    Requests        \* what clients ask for

Results == {"found", "notfound", "exit", "preprocess"}

(* What a plugin says to a word; its texts are lent until dictdb_free().   *)
Answer == [failed : BOOLEAN, ret : Results, texts : Seq(Texts)]

NotFound == [failed |-> FALSE, ret |-> "notfound", texts |-> <<>>]

(* One database: whether it is available to the client and hidden by       *)
(* "invisible", the exit marker (which has no options), the strategies     *)
(* disabled for it, its index (texts by word), its plugin (answers by      *)
(* word), its virtual list, the two databases of a MIME one, and whether   *)
(* it has an info text.  A word that has no entry is not found.            *)
DbType(c) ==
    /\ {c.available, c.hidden, c.exit, c.hasIndex, c.hasPlugin, c.info} \subseteq BOOLEAN
    /\ DOMAIN c.index \subseteq Texts
    /\ \A w \in DOMAIN c.index : c.index[w] \in Seq(Texts)
    /\ DOMAIN c.plugin \subseteq Texts
    /\ \A w \in DOMAIN c.plugin : c.plugin[w] \in Answer
    /\ c.list \in Seq(Dbs)
    /\ {c.mime, c.plain} \subseteq Dbs \cup {NoDb}
    /\ c.exit => ~c.hidden

ASSUME SearchAssumption ==
    /\ NoDb \notin Dbs
    /\ {"*", "!"} \cap Dbs = {}
    /\ {Bad, Complaint, InfoWord} \subseteq Texts
    /\ NoWord \notin Texts
    /\ Depth \in Nat
    /\ Requests # {}
    /\ \A g \in Confs : /\ g.order \in Seq(Dbs)
                        /\ \A d \in Dbs : DbType(g.db[d])
                        /\ \A d \in Dbs : \E i \in DOMAIN g.order : g.order[i] = d
    /\ \A r \in Requests : r.op \in {"define", "match", "info"} /\ r.word \in Texts

VARIABLES
    conf,           \* DictConfig's databases
    mime,           \* daemonMime
    pc,             \* where the daemon is
    req,            \* the request
    pos,            \* databasePosition
    cur,            \* db
    words,          \* preprocessed_words
    at,             \* word_list_pos, or the entry SHOW INFO is at
    list,           \* l
    result,         \* *extra_result
    count,          \* matches_count
    matches,        \* matches
    error,          \* error
    dbFound,        \* db_found
    lent,           \* dictdb_free_called of each database's plugin
    reply,          \* what the client was last told
    seen            \* history: the databases searched for this request

loopVars  == <<pos, cur, words, at, result, count, matches, error, dbFound, seen>>
vars == <<conf, mime, pc, req, loopVars, list, lent, reply>>

Labels == {"idle", "next", "words", "merge", "reply", "free", "info", "entries",
           "aborted"}

Entry == [db : Dbs, shown : Dbs \cup {NoDb}, text : Texts, lent : BOOLEAN]

Line == [name : Dbs \cup {"*"}, db : Dbs, text : Texts]

Codes == {220, 250, 112, 150, 152, 550, 552}

TypeOK ==
    /\ mime \in BOOLEAN
    /\ pc \in Labels
    /\ req \in Requests
    /\ pos \in 1..(Len(conf.order) + 1)
    /\ cur \in Dbs \cup {NoDb}
    /\ words \in Seq(Texts \cup {NoWord})
    /\ at \in Nat
    /\ list \in Seq(Entry)
    /\ result \in Results
    /\ {count, matches} \subseteq Int
    /\ {error, dbFound} \subseteq BOOLEAN
    /\ lent \in [Dbs -> BOOLEAN]
    /\ reply \in [code : Codes, shown : Seq(Line)]
    /\ seen \subseteq Dbs

Db(d) == conf.db[d]

Just(c) == [code |-> c, shown |-> <<>>]

-----------------------------------------------------------------------------
(* dict_search(): one database and what it is composed of.  Each stage     *)
(* takes the outcome so far: the list, the number of matches, the extra    *)
(* result, the plugins that were asked, and whether the stack was used up. *)

Result(d, text, own) == [db |-> d, shown |-> NoDb, text |-> text, lent |-> ~own]

Outcome(l) == [list |-> l, count |-> 0, ret |-> "notfound", asked |-> {}, deep |-> FALSE]

(* The arguments: the database, the word, whether MIME is asked for, and   *)
(* the list so far.                                                        *)
Calls == [db : Dbs, word : Texts, mime : BOOLEAN, list : Seq(Entry)]

Call(d, w, m, l) == [db |-> d, word |-> w, mime |-> m, list |-> l]

(* dict_search_database_(): a word that is not valid UTF-8 gets one result *)
(* that complains, and counts as minus one.                                *)
InIndex(d, w, o) ==
    IF w \in {Bad, Complaint}
    THEN [o EXCEPT !.list = Append(@, Result(d, IF req.op = "match" THEN w ELSE Complaint, TRUE)),
                   !.count = -1]
    ELSE LET hits == IF w \in DOMAIN Db(d).index THEN Db(d).index[w] ELSE <<>>
         IN  [o EXCEPT !.list = @ \o [i \in DOMAIN hits |-> Result(d, hits[i], TRUE)],
                       !.count = Len(hits)]

(* dict_search_plugin(): words that replace the request are put in front   *)
(* of the list, one by one; a match is copied, a definition only lent.     *)
InPlugin(d, w, o) ==
    LET a     == IF w \in DOMAIN Db(d).plugin THEN Db(d).plugin[w] ELSE NotFound
        hits  == [i \in DOMAIN a.texts |-> Result(d, a.texts[i], req.op = "match" /\ a.ret = "found")]
        asked == [o EXCEPT !.ret = a.ret, !.asked = @ \cup {d}]
    IN  IF a.failed \/ a.ret \in {"notfound", "exit"} THEN asked
        ELSE [asked EXCEPT
                 !.count = Len(hits),
                 !.list = IF a.ret = "found" THEN @ \o hits ELSE Reverse(hits) \o @]

(* replace_invisible_databases(), as far as it is called: the number of    *)
(* matches is compared with the length the list had.                       *)
Invisible(d) ==
    \/ Db(d).hidden
    \/ /\ Db(d).exit
       /\ \E i \in DOMAIN conf.order :
            /\ conf.order[i] = d
            /\ \A j \in (i + 1)..Len(conf.order) : Db(conf.order[j]).hidden

Renamed(d, n, o) ==
    IF o.count <= n THEN o
    ELSE [o EXCEPT !.list = [i \in DOMAIN @ |->
            IF i > n /\ Invisible(@[i].db) /\ @[i].shown = NoDb
            THEN [@[i] EXCEPT !.shown = d] ELSE @[i]]]

(* What is found in d, which x's database is made of, is added to o; h is  *)
(* the search one call deeper.                                             *)
Below(h, x, d, m, o) ==
    LET b == h[Call(d, x.word, m, o.list)]
    IN  [b EXCEPT !.count = o.count + @, !.asked = o.asked \cup @, !.deep = o.deep \/ @]

Members(h, x, o) ==
    LET l == Db(x.db).list
        sum[i \in 0..Len(l)] == IF i = 0 THEN o ELSE Below(h, x, l[i], x.mime, sum[i - 1])
    IN  sum[Len(l)]

DictSearch(h, x) ==
    LET d       == x.db
        own     == IF Db(d).hasIndex THEN InIndex(d, x.word, Outcome(x.list)) ELSE Outcome(x.list)
        plugin  == IF own.count = 0 /\ Db(d).hasPlugin THEN InPlugin(d, x.word, own) ELSE own
        virtual == IF plugin.count = 0 /\ Db(d).list # <<>>
                   THEN Renamed(d, Len(plugin.list), Members(h, x, plugin))
                   ELSE plugin
        either  == IF x.mime THEN Db(d).mime ELSE Db(d).plain
        all     == IF virtual.count = 0 /\ either # NoDb
                   THEN Renamed(d, Len(virtual.list), Below(h, x, either, FALSE, virtual))
                   ELSE virtual
    IN  IF req.strat \in Db(d).off THEN Outcome(x.list)
        ELSE IF own.count = 0 /\ plugin.count # 0 THEN plugin
        ELSE IF all.count > 0 THEN [all EXCEPT !.ret = "found"]
        ELSE all

(* Nothing keeps a database from being made of itself: such a search goes  *)
(* deeper until the stack is used up.                                      *)
Look[n \in Nat] ==
    [x \in Calls |-> IF n = 0 THEN [Outcome(x.list) EXCEPT !.deep = TRUE]
                     ELSE DictSearch(Look[n - 1], x)]

Looked(d, w, m, l) == Look[Depth][Call(d, w, m, l)]

-----------------------------------------------------------------------------
Init ==
    /\ conf \in Confs
    /\ mime = FALSE
    /\ pc = "idle"
    /\ req = CHOOSE r \in Requests : TRUE
    /\ pos = 1 /\ cur = NoDb
    /\ words = <<>> /\ at = 1 /\ list = <<>>
    /\ result = "notfound" /\ count = 0 /\ matches = -1
    /\ error = FALSE /\ dbFound = FALSE
    /\ lent = [d \in Dbs |-> FALSE]
    /\ reply = Just(220)
    /\ seen = {}

(* The next request. *)
Ask(r) ==
    /\ pc = "idle"
    /\ req' = r
    /\ pos' = 1 /\ cur' = NoDb
    /\ words' = <<r.word>> /\ at' = 1 /\ list' = <<>>
    /\ result' = "notfound" /\ count' = 0 /\ matches' = -1
    /\ error' = FALSE /\ dbFound' = FALSE
    /\ seen' = {}
    /\ pc' = IF r.op = "info" THEN "info" ELSE "next"
    /\ UNCHANGED <<conf, mime, lent, reply>>

OptionMime ==
    /\ pc = "idle"
    /\ ~mime
    /\ mime' = TRUE
    /\ reply' = Just(250)
    /\ UNCHANGED <<conf, pc, req, loopVars, list, lent>>

(* next_database(): the places from which a name is reached. *)
\* Mutant of Reaches: "*" does not look whether a database is hidden.
ReachesHidden(arg, d) ==
    Db(d).available /\ (arg \in {"*", "!"} \/ (arg = d /\ ~Invisible(d)))

Reaches(arg, d) ==
    /\ Db(d).available /\ ~Invisible(d)
    /\ arg \in {"*", "!"} \/ arg = d

Ahead == {i \in pos..Len(conf.order) : Reaches(req.arg, conf.order[i])}

Nearest(i) == \A j \in Ahead : i <= j

\* Mutant of Walk: the position does not move.
WalkStays(i) ==
    /\ pos' = i
    /\ cur' = conf.order[i]
    /\ IF Db(cur').exit
       THEN pc' = "reply" /\ UNCHANGED <<dbFound, result, count, at, seen>>
       ELSE /\ pc' = "words"
            /\ dbFound' = TRUE
            /\ result' = "notfound"
            /\ count' = 0
            /\ at' = 1
            /\ seen' = seen \cup {cur'}
    /\ UNCHANGED <<conf, mime, req, words, list, matches, error, lent, reply>>

(* The outer loop's guard: no database, an error or the exit marker end it.*)
Walk(i) ==
    /\ pos' = i + 1
    /\ cur' = conf.order[i]
    /\ IF Db(cur').exit
       THEN pc' = "reply" /\ UNCHANGED <<dbFound, result, count, at, seen>>
       ELSE /\ pc' = "words"
            /\ dbFound' = TRUE
            /\ result' = "notfound"
            /\ count' = 0
            /\ at' = 1
            /\ seen' = seen \cup {cur'}
    /\ UNCHANGED <<conf, mime, req, words, list, matches, error, lent, reply>>

NextDatabase ==
    /\ pc = "next"
    /\ ~error
    /\ \E i \in Ahead : Nearest(i) /\ Walk(i)

NoDatabase ==
    /\ pc = "next"
    /\ error \/ Ahead = {}
    /\ pc' = "reply"
    /\ UNCHANGED <<conf, mime, req, loopVars, list, lent, reply>>

\* Mutant of SearchWord: a plugin that is not asked for this word is forgotten.
SearchWordForgets ==
    /\ pc = "words"
    /\ at <= Len(words) /\ words[at] # NoWord
    /\ LET o == Looked(cur, words[at], mime, list)
           replaced == o.ret = "preprocess"
       IN  /\ list' = o.list
           /\ result' = o.ret
           /\ lent' = [d \in Dbs |-> d \in o.asked]
           /\ words' = IF replaced THEN [words EXCEPT ![at] = NoWord] ELSE words
           /\ error' = (o.count < 0)
           /\ count' = IF o.count < 0 THEN count - o.count ELSE count + o.count
           /\ at' = at + 1
           /\ pc' = IF o.deep \/ (replaced /\ o.count <= 0) THEN "aborted"
                    ELSE IF o.count < 0 THEN "merge" ELSE "words"
    /\ UNCHANGED <<conf, mime, req, pos, cur, matches, dbFound, seen, reply>>

(* dict_search_words(): each word that is left; one that a plugin replaced *)
(* is crossed out.  That a replaced word was replaced by something is      *)
(* asserted.                                                               *)
SearchWord ==
    /\ pc = "words"
    /\ at <= Len(words) /\ words[at] # NoWord
    /\ LET o == Looked(cur, words[at], mime, list)
           replaced == o.ret = "preprocess"
       IN  /\ list' = o.list
           /\ result' = o.ret
           /\ lent' = [d \in Dbs |-> lent[d] \/ d \in o.asked]
           /\ words' = IF replaced THEN [words EXCEPT ![at] = NoWord] ELSE words
           /\ error' = (o.count < 0)
           /\ count' = IF o.count < 0 THEN count - o.count ELSE count + o.count
           /\ at' = at + 1
           /\ pc' = IF o.deep \/ (replaced /\ o.count <= 0) THEN "aborted"
                    ELSE IF o.count < 0 THEN "merge" ELSE "words"
    /\ UNCHANGED <<conf, mime, req, pos, cur, matches, dbFound, seen, reply>>

SkipWord ==
    /\ pc = "words"
    /\ at <= Len(words) /\ words[at] = NoWord
    /\ at' = at + 1
    /\ UNCHANGED <<conf, mime, pc, req, pos, cur, words, list, result, count, matches,
                   error, dbFound, lent, seen, reply>>

WordsDone ==
    /\ pc = "words"
    /\ at > Len(words)
    /\ pc' = "merge"
    /\ UNCHANGED <<conf, mime, req, loopVars, list, lent, reply>>

Known == IF matches < 0 THEN 0 ELSE matches

(* The last answer of the plugin decides what the results are: words to    *)
(* look up in the databases that follow, taken from the front of the list; *)
(* or matches.                                                             *)
Replace ==
    /\ pc = "merge" /\ result = "preprocess"
    /\ words' = words \o [i \in 1..count |-> list[i].text]
    /\ list' = SubSeq(list, count + 1, Len(list))
    /\ matches' = Known
    /\ pc' = "next"
    /\ UNCHANGED <<conf, mime, req, pos, cur, at, result, count, error, dbFound, lent,
                   seen, reply>>

\* Mutant of Collect: "!" goes on as "*" does.
CollectAll ==
    /\ pc = "merge" /\ result # "preprocess"
    /\ matches' = Known + count
    /\ pc' = IF result # "exit" /\ req.arg \in {"*", "!"} THEN "next" ELSE "reply"
    /\ UNCHANGED <<conf, mime, req, pos, cur, words, at, result, count, error, dbFound,
                   list, lent, seen, reply>>

Collect ==
    /\ pc = "merge" /\ result # "preprocess"
    /\ matches' = Known + count
    /\ pc' = IF /\ result # "exit"
                /\ req.arg = "*" \/ (req.arg = "!" /\ matches' = 0)
             THEN "next" ELSE "reply"
    /\ UNCHANGED <<conf, mime, req, pos, cur, words, at, result, count, error, dbFound,
                   list, lent, seen, reply>>

-----------------------------------------------------------------------------
(* The reply. *)

(* daemon_dump_defs() and daemon_dump_matches() leave out a result that is *)
(* like the one before it: a definition in the same place, a match of the  *)
(* same database.                                                          *)
Repeats(i) ==
    /\ i > 1
    /\ list[i].text = list[i - 1].text
    /\ req.op = "define" \/ list[i].db = list[i - 1].db

Name(e) ==
    LET d == IF e.shown = NoDb THEN e.db ELSE e.shown
    IN  IF Invisible(d) THEN "*" ELSE d

Shown(e) == [name |-> Name(e), db |-> e.db, text |-> e.text]

Dump == FlattenSeq([i \in DOMAIN list |-> IF Repeats(i) THEN <<>> ELSE <<Shown(list[i])>>])

AllFreed == [d \in Dbs |-> FALSE]

Found ==
    /\ pc = "reply"
    /\ dbFound /\ matches > 0
    /\ reply' = [code |-> IF req.op = "define" THEN 150 ELSE 152, shown |-> Dump]
    /\ pc' = "free"
    /\ UNCHANGED <<conf, mime, req, loopVars, list, lent>>

(* call_dictdb_free(), and the list is destroyed. *)
Free ==
    /\ pc = "free"
    /\ lent' = AllFreed
    /\ list' = <<>>
    /\ pc' = "idle"
    /\ UNCHANGED <<conf, mime, req, loopVars, reply>>

NothingFound ==
    /\ pc = "reply"
    /\ ~dbFound \/ matches <= 0
    /\ lent' = AllFreed
    /\ list' = <<>>
    /\ reply' = IF dbFound THEN Just(552) ELSE Just(550)
    /\ pc' = "idle"
    /\ UNCHANGED <<conf, mime, req, loopVars>>

-----------------------------------------------------------------------------
(* SHOW INFO. *)

ByName == req.arg \notin {"*", "!"} /\ Ahead # {}

InfoUnknown ==
    /\ pc = "info"
    /\ ~ByName
    /\ reply' = Just(550)
    /\ pc' = "idle"
    /\ UNCHANGED <<conf, mime, req, loopVars, list, lent>>

(* The database has an info text of its own. *)
InfoText ==
    /\ pc = "info"
    /\ ByName
    /\ Db(req.arg).info
    /\ reply' = [code |-> 112,
                 shown |-> <<[name |-> req.arg, db |-> req.arg, text |-> InfoWord]>>]
    /\ pc' = "idle"
    /\ UNCHANGED <<conf, mime, req, loopVars, list, lent>>

\* Mutant of InfoLookup: the client's MIME option counts.
InfoLookupMime ==
    /\ pc = "info"
    /\ ByName
    /\ ~Db(req.arg).info
    /\ reply' = Just(112)
    /\ LET o == Looked(req.arg, InfoWord, mime, <<>>)
       IN  IF o.deep
           THEN pc' = "aborted" /\ UNCHANGED <<lent, list>>
           ELSE IF o.count = 0
           THEN /\ lent' = AllFreed
                /\ pc' = "idle"
                /\ UNCHANGED list
           ELSE /\ lent' = [d \in Dbs |-> d \in o.asked]
                /\ list' = o.list
                /\ pc' = "entries"
    /\ UNCHANGED <<conf, mime, req, loopVars>>

(* Otherwise an entry of it is looked up, without MIME and without a place *)
(* for the plugin's result.                                                *)
InfoLookup ==
    /\ pc = "info"
    /\ ByName
    /\ ~Db(req.arg).info
    /\ reply' = Just(112)
    /\ LET o == Looked(req.arg, InfoWord, FALSE, <<>>)
       IN  IF o.deep
           THEN pc' = "aborted" /\ UNCHANGED <<lent, list>>
           ELSE IF o.count = 0
           THEN /\ lent' = AllFreed
                /\ pc' = "idle"
                /\ UNCHANGED list
           ELSE /\ lent' = [d \in Dbs |-> d \in o.asked]
                /\ list' = o.list
                /\ pc' = "entries"
    /\ UNCHANGED <<conf, mime, req, loopVars>>

(* Each entry is printed under the name of its database, hidden or not;    *)
(* after each, every plugin is told to free what it lent.                  *)
InfoEntry ==
    /\ pc = "entries"
    /\ at <= Len(list)
    /\ reply' = [reply EXCEPT !.shown =
                    Append(@, [name |-> list[at].db, db |-> list[at].db, text |-> list[at].text])]
    /\ lent' = AllFreed
    /\ at' = at + 1
    /\ UNCHANGED <<conf, mime, pc, req, pos, cur, words, list, result, count, matches,
                   error, dbFound, seen>>

InfoDone ==
    /\ pc = "entries"
    /\ at > Len(list)
    /\ list' = <<>>
    /\ pc' = "idle"
    /\ UNCHANGED <<conf, mime, req, loopVars, lent, reply>>

-----------------------------------------------------------------------------
Loop == NextDatabase \/ NoDatabase \/ SearchWord \/ SkipWord \/ WordsDone \/ Replace \/ Collect

Answering == Found \/ Free \/ NothingFound

Info == InfoUnknown \/ InfoText \/ InfoLookup \/ InfoEntry \/ InfoDone

Step == Loop \/ Answering \/ Info

Next == Step \/ OptionMime \/ \E r \in Requests : Ask(r)

Spec == Init /\ [][Next]_vars

-----------------------------------------------------------------------------
(* What a request is answered, said without the walk: as dictd.8 and       *)
(* dictdplugin.h describe databases, virtual databases and plugins.        *)

Enabled(d) == req.strat \notin Db(d).off

Says(d, w) == IF w \in DOMAIN Db(d).plugin THEN Db(d).plugin[w] ELSE NotFound

Indexed(d, w) == IF w \in DOMAIN Db(d).index THEN Db(d).index[w] ELSE <<>>

\* The places of texts that database x[1] holds for the word x[2].
Held[x \in Dbs \X Texts \X BOOLEAN] ==
    LET d == x[1]
        w == x[2]
        Own(texts) == [i \in DOMAIN texts |-> <<d, texts[i]>>]
        below  == FlattenSeq([i \in DOMAIN Db(d).list |-> Held[<<Db(d).list[i], w, x[3]>>]])
        either == IF x[3] THEN Db(d).mime ELSE Db(d).plain
    IN  IF ~Enabled(d) THEN <<>>
        ELSE IF Indexed(d, w) # <<>> THEN Own(Indexed(d, w))
        ELSE IF ~Says(d, w).failed /\ Says(d, w).ret = "found" THEN Own(Says(d, w).texts)
        ELSE IF below # <<>> THEN below
        ELSE IF either # NoDb THEN Held[<<either, w, FALSE>>]
        ELSE <<>>

Tells(d, w, ret) ==
    /\ Enabled(d)
    /\ Indexed(d, w) = <<>>
    /\ ~Says(d, w).failed /\ Says(d, w).ret = ret

\* The databases the request is for, in order, up to an exit marker.
Served ==
    LET reached == SelectSeq(conf.order, LAMBDA d : Reaches(req.arg, d))
        marks   == {i \in DOMAIN reached : Db(reached[i]).exit}
    IN  SubSeq(reached, 1, IF marks = {} THEN Len(reached) ELSE Min(marks) - 1)

\* The words that are looked up in the i-th of them; of several replacements
\* the last one comes first.
Sought[i \in 1..(Cardinality(Dbs) + 1)] ==
    IF i = 1 THEN <<req.word>>
    ELSE LET d == Served[i - 1]
             Rewritten(w) == IF Tells(d, w, "preprocess") THEN Reverse(Says(d, w).texts) ELSE <<w>>
             before == Sought[i - 1]
         IN  FlattenSeq([k \in DOMAIN before |-> Rewritten(before[k])])

HeldBy(i) ==
    LET sought == Sought[i]
    IN  FlattenSeq([k \in DOMAIN sought |-> Held[<<Served[i], sought[k], mime>>]])

Stops(i) ==
    \/ req.arg = "!" /\ HeldBy(i) # <<>>
    \/ \E k \in DOMAIN Sought[i] : Tells(Served[i], Sought[i][k], "exit")

\* What is held twice in a row, by a database that is reached in two ways, is
\* one answer.
Once(s) == FoldLeft(LAMBDA t, e : IF t # <<>> /\ Last(t) = e THEN t ELSE Append(t, e), <<>>, s)

Answers ==
    LET stops == {i \in DOMAIN Served : Stops(i)}
    IN  Once(FlattenSeq([i \in 1..(IF stops = {} THEN Len(Served) ELSE Min(stops)) |-> HeldBy(i)]))

Plain == req.word # Bad

Told == [i \in DOMAIN reply.shown |-> <<reply.shown[i].db, reply.shown[i].text>>]

Answered == pc = "free" \/ (pc = "idle" /\ reply.code \notin {220, 250})

-----------------------------------------------------------------------------
(* Properties. *)

\* DEFINE and MATCH show exactly what the databases the request is for hold,
\* in the order of the databases: virtual and MIME databases pass on what
\* their members hold, a plugin that replaces the word does so for the
\* databases that follow, "!" stops at the first database that holds
\* something, and neither an exit marker nor an exit plugin is passed.  550
\* means that no database is reached, 552 that none holds the word
\* (daemon.c:1043-1129, index.c:1743-1845).
AnswersAsDocumented ==
    (Answered /\ Plain /\ req.op # "info") =>
        /\ Told = Answers
        /\ reply.code = IF Served = <<>> THEN 550
                        ELSE IF Answers = <<>> THEN 552
                        ELSE IF req.op = "define" THEN 150 ELSE 152

\* SHOW INFO is answered for a database the client may see, and with its info
\* text or else with every entry under the info headword that it or what it is
\* made of holds, never the MIME one (daemon.c:1216-1294).
InfoAsDocumented ==
    (Answered /\ req.op = "info") =>
        LET d == req.arg
        IN  IF d \in Dbs /\ Db(d).available /\ ~Invisible(d)
            THEN /\ reply.code = 112
                 /\ Told = IF Db(d).info THEN <<<<d, InfoWord>>>> ELSE Held[<<d, InfoWord, FALSE>>]
            ELSE reply.code = 550

\* What a plugin lends is freed neither before it is printed nor later than
\* the command: whatever DEFINE or MATCH is about to print is still lent, and
\* a daemon that waits for the next command has given everything back
\* (plugin.c:77, 634-648; daemon.c:809-837, 889-916).  The type invariant is
\* part of it.
LentAsLongAsNeeded ==
    /\ TypeOK
    /\ pc = "reply" => \A i \in DOMAIN list : list[i].lent => lent[list[i].db]
    /\ pc = "idle" => \A d \in Dbs : ~lent[d]

\* The walk looks into no database that is hidden or not available to the
\* client, and for "*" into every other one before its position
\* (daemon.c:924-963, 1073-1080).
WalkIsExact ==
    /\ \A d \in seen : Db(d).available /\ ~Db(d).hidden
    /\ (req.arg = "*" /\ pc \in {"next", "words", "merge"}) =>
          \A i \in 1..(pos - 1) :
             Db(conf.order[i]).available /\ ~Db(conf.order[i]).hidden
                => conf.order[i] \in seen \/ Db(conf.order[i]).exit

\* Every command ends: whatever plugins do to the words, a step of the walk ends
\* the command, moves on to another database, or comes closer to the end of the
\* one it is at.  The position is at most one past the last database and the
\* words are all there when a database is begun (TypeOK, Replace), and only the
\* assertion on the number of replacements stops the daemon (daemon.c:1011-1041,
\* 1073-1124).
Rank == [words |-> 1, merge |-> 2, next |-> 3, info |-> 3, entries |-> 4, reply |-> 5,
         free |-> 6, aborted |-> 7]

Advances ==
    \/ pc' = "idle"
    \/ pos' > pos
    \/ pos' = pos /\ pc' # pc /\ Rank[pc'] > Rank[pc]
    \/ pos' = pos /\ pc' = pc /\ at' > at

WalkAdvances == [][pc # "idle" => Advances]_vars

\* The manual on hidden databases (dictd.8.in:989-991): "If some definitions
\* or matches are found in invisible dictionary, the name of the upper visible
\* virtual dictionary is returned."
HiddenResultsNamed == \A i \in DOMAIN reply.shown : reply.shown[i].name # "*"

\* RFC 2229, 3.2.1, on "*" (doc/rfc2229.txt:480-481): "all of the matches in
\* all available databases will be displayed."
AllMatchesDisplayed ==
    (Answered /\ Plain /\ req.op = "define" /\ req.arg = "*") =>
        ToSet(Answers) \subseteq ToSet(Told)
=============================================================================
