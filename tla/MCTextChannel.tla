--------------------------- MODULE MCTextChannel ---------------------------
(* Instances of TextChannel for TLC.                                       *)
EXTENDS TextChannel

Want(c, t, i) == [command |-> c, text |-> t, info |-> i]
One == <<"a">>
Two == <<"a", "a">>

(* Commands of one character and of as many as the daemon reads at once;   *)
(* texts that are empty, that end without a line end, also in a dot, with  *)
(* lines of one and two dots, and with a dot at the beginning of a line    *)
(* that is longer than the client's buffer.                                *)
McRequests == {
    Want(One, <<>>, FALSE),
    Want(Two, <<"a", NL, NL>>, FALSE),
    Want(One, <<Dot, NL, "a">>, FALSE),
    Want(Two, <<Dot, "a", "a", NL>>, FALSE),
    Want(One, <<"a", NL, Dot>>, FALSE),
    Want(One, <<Dot, Dot, NL, Dot, NL>>, FALSE),
    Want(One, <<"a", NL>>, TRUE),
    Want(Two, <<"a">>, TRUE)}

(* An entry shown by SHOW INFO that has a line of one dot.                 *)
DotInfo == {Want(One, <<"a", NL, Dot, NL, "a", NL>>, TRUE)}
=============================================================================
