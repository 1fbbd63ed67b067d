--------------------------- MODULE MCIndexSearch ---------------------------
(* Instances of IndexSearch for TLC: small index files, some with equal    *)
(* lines, four columns, punctuation, capitals or nothing in them, and      *)
(* requests for every strategy.                                            *)
EXTENDS IndexSearch, TLC

\* Space, hyphen, digit, two capitals, two letters, a brace and a byte of UTF-8.
McLowerOf == 6 :> 8 @@ 7 :> 9

Letter(x) == CASE x = "_" -> 3 [] x = "-" -> 4 [] x = "0" -> 5 [] x = "A" -> 6
               [] x = "B" -> 7 [] x = "a" -> 8 [] x = "b" -> 9 [] x = "h" -> 11

Spell(x) == [n \in 1 .. Len(x) |-> Letter(x[n])]

Line(x)          == [head |-> Spell(x), third |-> Spell(<<"a">>), fourth |-> NoColumn]
Renamed(x, t, y) == [head |-> Spell(x), third |-> Spell(t), fourth |-> Spell(y)]

Bytes(e) == e.head \o <<1, 9, 1>> \o e.third
            \o (IF e.fourth = NoColumn THEN <<>> ELSE <<1>> \o e.fourth) \o <<2>>

RECURSIVE Sizes(_), Joined(_)
Sizes(es)  == IF es = <<>> THEN 0 ELSE Len(Bytes(Head(es))) + Sizes(Tail(es))
Joined(es) == IF es = <<>> THEN <<>> ELSE Bytes(Head(es)) \o Joined(Tail(es))

File(es) ==
    LET begin == [n \in 1 .. Len(es) |-> Sizes(SubSeq(es, 1, n - 1))]
        lines == {begin[n] : n \in 1 .. Len(es)}
        nth(l) == CHOOSE n \in 1 .. Len(es) : begin[n] = l
        bytes == Joined(es)
    IN  [size   |-> Sizes(es),
         head   |-> [l \in lines |-> es[nth(l)].head],
         third  |-> [l \in lines |-> es[nth(l)].third],
         fourth |-> [l \in lines |-> es[nth(l)].fourth],
         text   |-> [p \in 0 .. Sizes(es) - 1 |-> bytes[p + 1]],
         allchars |-> FALSE, utf8 |-> FALSE, casesensitive |-> FALSE]

ListOf(ws) == [n \in 1 .. Len(ws) |-> Line(ws[n])]

Ascii == File(ListOf(<<<<"0">>, <<"a">>, <<"A">>, <<"a", "_", "b">>, <<"a", "-", "b">>,
                       <<"a", "b">>, <<"a", "b", "-", "a">>, <<"a", "b", "a">>,
                       <<"b", "a", "b">>, <<"b", "b">>>>))

Long  == File(ListOf(<<<<"0">>, <<"a", "a", "b", "a", "b", "b">>, <<"a", "b", "a", "b", "a", "b">>,
                       <<"b">>, <<"b", "_", "a", "b", "a">>, <<"b", "a", "a", "b">>>>))
Equal == File(ListOf(<<<<"a", "b">>, <<"a", "b">>, <<"a", "b">>, <<"a", "b", "b">>>>))
One   == File(ListOf(<<<<"a", "b", "a">>>>))
Empty == File(<<>>)

Utf8  == [File(ListOf(<<<<"0">>, <<"a", "b">>, <<"a", "h">>, <<"b", "a", "a", "b">>,
                        <<"h">>, <<"h", "a", "b">>>>)) EXCEPT !.utf8 = TRUE]
All   == [File(ListOf(<<<<"-", "a">>, <<"0">>, <<"a">>, <<"a", "-", "b">>, <<"a", "b">>,
                        <<"b", "-", "a", "b">>>>)) EXCEPT !.allchars = TRUE]
Cased == [File(ListOf(<<<<"0">>, <<"A", "b">>, <<"B">>, <<"a", "b">>, <<"b">>>>))
          EXCEPT !.utf8 = TRUE, !.casesensitive = TRUE]

Four  == File(<<Renamed(<<"a">>, <<"a">>, <<"B">>), Renamed(<<"a", "b">>, <<"a">>, <<"B">>),
                Renamed(<<"a", "b">>, <<"a">>, <<"A", "B">>), Line(<<"b">>),
                Renamed(<<"b">>, <<"b">>, <<"A">>)>>)

\* A brace, for which the table has no entry, follows the only first character:
\* the range of that is empty, and the linear search finds what there is.
Late  == File(ListOf(<<<<"b">>, <<"b", "a">>, <<"b", "a", "b">>>>))

McIndexes == {Ascii, Long, Equal, One, Empty, Utf8, All, Cased, Four, Late}

RequestFor(op, w) == [op |-> op, word |-> Spell(w), uniq |-> TRUE, skip |-> 0, item |-> 99,
                      limit |-> 0, had |-> 0, first |-> 0, hits |-> {}]

McWords == {<<"0">>, <<"a">>, <<"b">>, <<"a", "b">>, <<"b", "a">>, <<"a", "b", "a">>,
            <<"b", "a", "b">>, <<"a", "a", "b">>, <<"a", "b", "a", "b">>, <<"a", "_", "b">>,
            <<"h">>, <<"a", "-", "b">>, <<"B">>}

LookUps == UNION {{RequestFor(op, w) : op \in Ops} : w \in McWords \cup {<<>>}}
           \cup {[RequestFor("exact", w) EXCEPT !.uniq = FALSE, !.limit = 2, !.had = n] :
                    w \in {<<"a">>, <<"a", "b">>}, n \in 0 .. 2}
           \cup {[RequestFor("prefix", w) EXCEPT !.skip = m, !.item = n] :
                    w \in {<<>>, <<"a">>, <<"b">>}, m \in 0 .. 2, n \in 0 .. 2}
           \cup {[RequestFor("prefix", w) EXCEPT !.limit = 2] : w \in {<<>>, <<"a">>}}

Scans == UNION {{RequestFor(op, w) : op \in ScanOps} : w \in McWords}
         \cup {[RequestFor("substring", w) EXCEPT !.limit = 1] : w \in {<<"a">>, <<"b", "a", "b">>}}

\* "^a", "^b", "^A", "^-", "b$" and soundex codes.
HeadsOf == UNION {{i.head[l] : l \in Lines(i)} : i \in McIndexes}
FirstIs(c) == {x \in HeadsOf : x # <<>> /\ x[1] \in {c} \cup {d \in Upper : Fold(d) = c}}
Ranges == {[RequestFor(op, <<>>) EXCEPT !.first = c, !.hits = FirstIs(Fold(c))] :
              op \in RangeOps, c \in {4, 8, 9, 6, 11}}
          \cup {[RequestFor("re", <<>>) EXCEPT !.hits = {x \in HeadsOf : x # <<>> /\ x[Len(x)] = 9}]}

Levs == {[RequestFor("lev", w) EXCEPT !.hits = {8, 9}, !.limit = m] :
            w \in {<<"a">>, <<"a", "b">>, <<"b", "a">>, <<"a", "b", "a">>, <<"a", "b", "b">>},
            m \in {0, 2}}

McQueries == LookUps \cup Scans \cup Ranges \cup Levs
=============================================================================
