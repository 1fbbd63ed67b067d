------------------------------ MODULE MCSearch ------------------------------
(* Instances of Search for TLC: three databases of a dozen shapes. *)
EXTENDS Search, TLC

CONSTANTS d1, d2, d3, t1, t2, t3, none

McDbs == {d1, d2, d3}

Second(d) == CASE d = d1 -> t1 [] d = d2 -> t2 [] d = d3 -> t3

\* Two words, the entry with the information, and two texts of each database.
McTexts == {"w", "x", "bad", "complaint", "info"} \cup McDbs \cup {t1, t2, t3}

Nothing == <<>>

Base == [available |-> TRUE, hidden |-> FALSE, exit |-> FALSE, off |-> {},
         hasIndex |-> FALSE, index |-> Nothing, hasPlugin |-> FALSE, plugin |-> Nothing,
         list |-> <<>>, mime |-> none, plain |-> none, info |-> FALSE]

Index(f)    == [Base EXCEPT !.hasIndex = TRUE, !.index = f]
Plugin(f)   == [Base EXCEPT !.hasPlugin = TRUE, !.plugin = f]
Hide(s)     == [s EXCEPT !.hidden = TRUE]

Says1(ret, texts) == [failed |-> FALSE, ret |-> ret, texts |-> texts]

Two(d) == Index("w" :> <<d, Second(d)>> @@ "info" :> <<d>>)
OnlyW(d) == Index("w" :> <<d>>)
OnlyX(d) == Index("x" :> <<d>>)
Holds(d) == Plugin("w" :> Says1("found", <<d>>) @@ "info" :> Says1("found", <<d>>))
Fails == Plugin("w" :> [failed |-> TRUE, ret |-> "found", texts |-> <<>>])
Ends == Plugin("w" :> Says1("exit", <<>>))
Rewrites == Plugin("w" :> Says1("preprocess", <<"x", "w">>))
Exit == [Base EXCEPT !.exit = TRUE]

Gone(s)     == [s EXCEPT !.available = FALSE]
Off(s)      == [s EXCEPT !.off = {"exact"}, !.info = TRUE]
Virtual(l)  == [Base EXCEPT !.list = l]
Mime(d, e)  == [Base EXCEPT !.mime = d, !.plain = e]

\* Databases that hold something, databases that only control the walk, and
\* databases made of later ones.
Controls == {Ends, Rewrites, Exit}

Shapes == [d1 |-> {Two(d1), Hide(Two(d1)), Off(Two(d1)), OnlyX(d1), Holds(d1), Ends, Rewrites,
                  Virtual(<<d2, d3>>), Mime(d2, d3)},
           d2 |-> {Two(d2), Hide(Two(d2)), Gone(Two(d2)), Holds(d2), Fails,
                  Virtual(<<d3>>), Hide(Virtual(<<d3>>))} \cup Controls,
           d3 |-> {Two(d3), Holds(d3), Hide(Holds(d3)), OnlyX(d3), Exit}]

Conf(x, y, z) == [order |-> <<d1, d2, d3>>,
                  db |-> [d \in McDbs |-> CASE d = d1 -> x [] d = d2 -> y [] d = d3 -> z]]

Made(s) == s.list # <<>> \/ s.mime # none

\* Words are replaced once, no plugin ends the walk at one of several words, and
\* what other databases are made of answers for itself.
McConfs == {g \in {Conf(x, y, z) : x \in Shapes.d1, y \in Shapes.d2, z \in Shapes.d3} :
              /\ ~(g.db[d1] = Rewrites /\ g.db[d2] \in {Rewrites, Ends})
              /\ Made(g.db[d1]) => g.db[d2] \notin Controls /\ g.db[d3] # Exit
              /\ Made(g.db[d2]) => g.db[d3] # Exit}

Request(o, d, w) == [op |-> o, arg |-> d, word |-> w, strat |-> "exact"]

McRequests == {Request("define", d, "w") : d \in {"*", "!", d1, d2}}
              \cup {Request("match", "*", "w"), Request("match", d1, "bad"),
                    Request("define", "*", "bad"), Request("info", d1, "info"),
                    Request("info", "*", "info")}

\* Two databases whose definitions of the word lie in the same place.
SamePlace == {Conf(OnlyW(d1), Index("w" :> <<d1>>), Two(d3))}
=============================================================================
