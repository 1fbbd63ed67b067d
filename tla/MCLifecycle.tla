----------------------------- MODULE MCLifecycle -----------------------------
(* Small instances of Lifecycle. *)
EXTENDS Lifecycle

\* Four of the twelve strategies, in the order of the table: nprefix has a
\* greater number than those after it.
McBuiltin ==
    <<[name |-> "exact", number |-> 1], [name |-> "nprefix", number |-> 4],
      [name |-> "lev", number |-> 3], [name |-> "last", number |-> 5]>>

Does(kind, name) == [is |-> kind, strategy |-> name]

Db(name, kind, loads, listed, stored) ==
    [is |-> "database", db |-> [name |-> name, kind |-> kind, loads |-> loads,
                                listed |-> listed, stored |-> stored]]

\* A dictionary, a plugin, and a virtual and a MIME database over them
Four == <<Db("all", "virtual", FALSE, <<"mix", "dict">>, "-"),
          Db("mix", "mime", FALSE, <<"plug", "dict">>, "-"),
          Db("dict", "normal", FALSE, <<>>, "nprefix"),
          Db("plug", "plugin", TRUE, <<>>, "-")>>

McFiles ==
    {Four,
     <<Does("site", "-")>> \o Four,
     <<Does("add", "mine"), Does("default", "mine")>> \o Four
        \o <<Does("db disable", "lev"), Does("db default", "exact")>>,
     <<Does("add", "mine"), Does("disable", "mine")>> \o Four
        \o <<Does("db disable", "mine")>>,
     \* strategy_disabled is too short for nprefix
     <<Does("disable", "last"), Db("plug", "plugin", TRUE, <<>>, "-"),
       Does("db disable", "nprefix"), Does("db disable", "exact")>>,
     \* an index with a plugin and a list of its own
     <<Db("both", "normal", TRUE, <<"both2">>, "last"),
       Db("both2", "normal", TRUE, <<>>, "gone")>>,
     \* a name that is unknown
     <<Db("all", "virtual", FALSE, <<"dict", "none">>, "-"),
       Db("dict", "normal", FALSE, <<>>, "-")>>}

McOptions == {<<>>, <<Does("add", "opt")>>, <<Does("disable", "lev")>>}
=============================================================================
