----------------------------- MODULE MCSession -----------------------------
(* Instances of Session for TLC. *)
EXTENDS Session

CONSTANTS ann, bob, both, inner, part

Allow(m)  == [kind |-> "allow", match |-> m, user |-> Nobody]
Deny(m)   == [kind |-> "deny", match |-> m, user |-> Nobody]
AuthOnly  == [kind |-> "authonly", match |-> "yes", user |-> Nobody]
OnlyUser(u) == [kind |-> "user", match |-> "no", user |-> u]

\* A virtual database for everyone, made of a hidden one and of one that is
\* restricted by itself.
McMembers == [d \in Dbs |-> IF d = both THEN {part, inner} ELSE {}]

Lists(restricted) ==
    [d \in Dbs |-> IF d = part THEN restricted ELSE <<>>]

\* No list at all; a site that must authenticate; a site that is denied, once
\* by its rule and once by a rule that cannot be read.
McPolicies ==
    { [global |-> <<>>, db |-> Lists(<<OnlyUser(ann), Deny("yes"), Allow("yes")>>)],
      [global |-> <<Allow("no"), AuthOnly, Deny("yes")>>,
       db |-> Lists(<<Deny("no"), OnlyUser(ann)>>)],
      [global |-> <<Deny("yes"), Allow("yes")>>, db |-> Lists(<<>>)],
      [global |-> <<Deny("bad"), Allow("yes")>>, db |-> Lists(<<>>)] }

Cmd(o, a) == [op |-> o, arg |-> a, right |-> TRUE, argc |-> 3]

\* An AUTH with another number of words, and one with a wrong digest.
Words(c, n) == [c EXCEPT !.argc = n]
Wrong(c)    == [c EXCEPT !.right = FALSE]

Auths ==
    { Cmd("auth", ann), Cmd("auth", bob), Wrong(Cmd("auth", ann)),
      Words(Cmd("auth", ann), 2), Words(Cmd("auth", ann), 4),
      Words(Wrong(Cmd("auth", ann)), 4) }

\* A search everywhere, what there is to know of a restricted database and of
\* none, and every way to authenticate.
McCommands ==
    Auths \cup
    { Cmd("search", "*"), Cmd("showinfo", part), Cmd("showinfo", Nobody),
      Cmd("quit", Nobody), Cmd("empty", Nobody) }

\* What the question about the idle timer needs.
EmptyLine == {Cmd("empty", Nobody)}
=============================================================================
