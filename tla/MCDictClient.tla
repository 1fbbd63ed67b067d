---------------------------- MODULE MCDictClient ----------------------------
(* Instances of DictClient for TLC: a word with definitions and matches,   *)
(* one with matches only, one with neither, and a dozen command lines.     *)
EXTENDS DictClient, TLC

McDefs == "ant" :> 2 @@ "bat" :> 0 @@ "cow" :> 0
McNear == "ant" :> <<"ant">> @@ "bat" :> <<"ant", "cow">> @@ "cow" :> <<>>

NoOptions == [hosts |-> <<"one">>, auth |-> TRUE, mime |-> FALSE, info |-> FALSE, dbs |-> FALSE,
              kind |-> "none", words |-> <<>>, correct |-> TRUE]

\* Several servers and options, nothing to look up; one word; two or three.
McJobs ==
    {[NoOptions EXCEPT !.hosts = hs, !.auth = au, !.info = TRUE, !.dbs = TRUE] :
        hs \in {<<"one", "two">>, <<"two", "one">>}, au \in BOOLEAN}
    \cup {[NoOptions EXCEPT !.hosts = <<"two", "one">>, !.dbs = TRUE, !.mime = TRUE,
                            !.kind = k, !.words = <<"bat">>] : k \in {"match", "define", "wind"}}
    \cup {[NoOptions EXCEPT !.mime = m, !.kind = k, !.words = ws] :
        m \in BOOLEAN, k \in {"match", "wind"}, ws \in {<<"ant">>, <<"bat", "cow">>}}
    \cup {[NoOptions EXCEPT !.hosts = <<"one", "two">>, !.kind = "define", !.correct = c, !.words = ws] :
        c \in BOOLEAN, ws \in {<<"bat", "ant">>, <<"cow", "bat", "ant">>}}
=============================================================================
