------------------------------ MODULE Session ------------------------------
(***************************************************************************)
(* One client session, as the daemon process runs it (dictd/daemon.c,      *)
(* _handleconn): the access check and the banner, the loop that reads a    *)
(* line, counts it against limit_queries, disarms the timer, carries out   *)
(* the command and arms the timer again, and everything that may end the   *)
(* session between two of those steps: the timer, a signal, a client that  *)
(* went away.                                                              *)
(*                                                                         *)
(* Two timers share the process's one alarm(): with limit_time, a time     *)
(* limit set once, before the session begins; with delay, an idle timer    *)
(* set whenever the daemon waits for the client.  A reply is its code and  *)
(* the databases its entries are taken from; a text reply is written in    *)
(* two steps, its head and its rest.  A virtual database, and a MIME one,  *)
(* is searched by searching what it is made of; under which name an entry  *)
(* of a hidden member is shown is Search's subject.                        *)
(***************************************************************************)
EXTENDS Integers, Sequences

CONSTANTS
    Users,          \* the users with a secret in the configuration
    Nobody,         \* the user argument NULL: not authenticated
    Dbs,            \* the databases
    Invisible,      \* those only reached through a virtual database
    Members,        \* what a virtual database, or a MIME one, is made of
    Policies,       \* the access lists a session may meet
    Timings,        \* the timers a session may run under
    LimitQueries,   \* limit_queries (0: none)
    Commands,       \* the lines clients send
    MaxLines,       \* bound: how many lines a client sends
    MaxAhead        \* bound: how many of them it sends ahead of the daemon

(* An access rule: its kind, whether its notation matches the client's     *)
(* address ("bad": it cannot be read), and the user it names.              *)
Rule == [kind : {"allow", "deny", "authonly", "user", "group"},
         match : {"yes", "no", "bad"}, user : Users \cup {Nobody}]

Policy == [global : Seq(Rule), db : [Dbs -> Seq(Rule)]]

Ops == {"search", "showdb", "showinfo", "showserver", "text", "line", "auth",
        "quit", "empty"}

(* arg is a database, a pattern or a user.  "text" and "line" stand for    *)
(* the commands whose reply does not depend on the databases, unknown ones *)
(* included.  Of an AUTH, argc is the number of its words (4: or more) and *)
(* right says that the third of them is the digest awaited.                *)
CommandType == [op : Ops, arg : Dbs \cup Users \cup {Nobody, "*", "!"},
                right : BOOLEAN, argc : 1..4]

ASSUME SessionAssumption ==
    /\ Nobody \notin Users
    /\ Invisible \subseteq Dbs
    /\ Members \in [Dbs -> SUBSET Dbs]
    /\ Policies \subseteq Policy
    /\ Timings \subseteq {"limit_time", "delay", "none"}
    /\ LimitQueries \in Nat
    /\ Commands \subseteq CommandType
    /\ {MaxLines, MaxAhead} \subseteq Nat

VARIABLES
    pc,             \* where the daemon is
    policy,         \* DictConfig's access lists
    timing,         \* which timer is configured
    timer,          \* the alarm(): "off", "idle" or "total"
    inbox,          \* the lines sent and not read yet
    sent,           \* how many lines there have been (the bound)
    eof,            \* the client has closed its side
    stalled,        \* the client does not read what it is sent
    cmd,            \* the line being carried out
    queries,        \* query_count
    avail,          \* the databases with db->available set
    reply,          \* the reply being written, or the last one
    replies,        \* history: how many replies to commands were begun
    user,           \* history: who has authenticated
    why             \* why the session ended ("no": it has not)

clientVars == <<inbox, sent, eof, stalled>>
configVars == <<policy, timing>>
accessVars == <<avail, user>>
vars == <<pc, configVars, timer, clientVars, cmd, queries, accessVars,
          reply, replies, why>>

Labels  == {"start", "read", "got", "work", "auth", "rest", "done", "closed"}
Reasons == {"no", "unavailable", "denied", "queries", "quit", "close",
            "alarm", "signal", "write", "fault"}
Codes   == {0, 110, 112, 113, 114, 150, 200, 220, 221, 230, 420, 501, 530, 531,
            550, 552, 554}
TextCodes == {110, 112, 113, 114, 150}

NoReply   == [code |-> 0, from |-> {}]
NoCommand == [op |-> "empty", arg |-> Nobody, right |-> FALSE, argc |-> 1]

TypeOK ==
    /\ pc \in Labels
    /\ policy \in Policies
    /\ timing \in Timings
    /\ timer \in {"off", "idle", "total"}
    /\ inbox \in Seq(Commands)
    /\ sent \in 0..MaxLines
    /\ {eof, stalled} \subseteq BOOLEAN
    /\ cmd \in Commands \cup {NoCommand}
    /\ queries \in Nat
    /\ avail \in SUBSET Dbs
    /\ reply \in [code : Codes, from : SUBSET Dbs]
    /\ replies \in Nat
    /\ user \in Users \cup {Nobody}
    /\ why \in Reasons

-----------------------------------------------------------------------------
(* daemon_check_list() and daemon_check_auth(). *)

(* What one rule says, or "next" when it leaves the decision to the next:  *)
(* an unreadable notation denies; groups are not implemented.              *)
Verdict(u, r) ==
    IF r.kind \in {"allow", "deny", "authonly"}
    THEN IF r.match = "bad" THEN "deny"
         ELSE IF r.match = "yes" THEN r.kind ELSE "next"
    ELSE IF r.kind = "user" /\ u # Nobody /\ u = r.user THEN "allow" ELSE "next"

Deciding(u, acl) == {i \in DOMAIN acl : Verdict(u, acl[i]) # "next"}

(* No list allows everybody; a list none of whose rules decides denies.    *)
CheckList(u, acl) ==
    IF acl = <<>> THEN "allow"
    ELSE IF Deciding(u, acl) = {} THEN "deny"
    ELSE Verdict(u, acl[CHOOSE i \in Deciding(u, acl) :
                            \A j \in Deciding(u, acl) : i <= j])

(* The databases daemon_check_auth(u) leaves available, from those that    *)
(* were: a client that must authenticate first keeps what it had.          *)
CheckAuth(u, old) ==
    LET g == CheckList(u, policy.global)
    IN  IF g = "deny" \/ (g = "authonly" /\ u = Nobody) THEN old
        ELSE {d \in Dbs : CheckList(u, policy.db[d]) = "allow"}

-----------------------------------------------------------------------------
(* Which databases a name reaches (next_database), and the replies a       *)
(* command may get from them.                                              *)

\* Mutant of Reach: the available flag is only looked at for patterns.
ReachByName(arg) ==
    IF arg \in {"*", "!"} THEN avail \ Invisible ELSE ({arg} \cap Dbs) \ Invisible

Reach(arg) ==
    LET visible == avail \ Invisible
    IN  IF arg \in {"*", "!"} THEN visible ELSE {arg} \cap visible

Just(code) == {[code |-> code, from |-> {}]}

Found(code, sets) == {[code |-> code, from |-> F] : F \in sets}

(* The databases a search of d may come to: d, what it is made of, and so  *)
(* on.  dict_search() asks for the available flag of none of them.         *)
Inside ==
    [d \in Dbs |-> {e \in Dbs :
        \A S \in SUBSET Dbs :
            (d \in S /\ \A m \in S : Members[m] \subseteq S) => e \in S}]

InsideOf(D) == UNION {Inside[d] : d \in D}

(* DEFINE and MATCH (150 stands for both): any database they come to may   *)
(* hold the word; "!" stops at the first database reached that yields it.  *)
SearchReplies(c) ==
    LET places == IF c.arg = "!" THEN {Inside[d] : d \in Reach(c.arg)}
                  ELSE {InsideOf(Reach(c.arg))}
    IN  IF Reach(c.arg) = {} THEN Just(550)
        ELSE Just(552) \cup Found(150, UNION {SUBSET P \ {{}} : P \in places})

ShowDbReplies ==
    IF Reach("*") = {} THEN Just(554)
    ELSE Found(110, {Reach("*")})

\* Mutant of ShowInfoReplies: the name is not looked up.
ShowInfoUnknown(c) == Found(112, {{c.arg}})

(* A text from the configuration, or the entries found for it, each under  *)
(* the name of the database it is from, or that there are none.            *)
ShowInfoReplies(c) ==
    IF c.arg \in {"*", "!"} \/ Reach(c.arg) = {} THEN Just(550)
    ELSE Found(112, SUBSET InsideOf(Reach(c.arg)))

(* The table of databases is a matter of the configuration. *)
ShowServerReplies == Found(114, {{}, Reach("*")})

Replies(c) ==
    CASE c.op = "search"     -> SearchReplies(c)
      [] c.op = "showdb"     -> ShowDbReplies
      [] c.op = "showinfo"   -> ShowInfoReplies(c)
      [] c.op = "showserver" -> ShowServerReplies
      [] c.op = "text"       -> Just(113)
      [] c.op = "quit"       -> Just(221)
      [] c.op = "line"       -> Just(200)

-----------------------------------------------------------------------------
Init ==
    /\ pc = "start"
    /\ policy \in Policies
    /\ timing \in Timings
    /\ timer = IF timing = "limit_time" THEN "total" ELSE "off"
    /\ inbox = <<>> /\ sent = 0
    /\ eof = FALSE /\ stalled = FALSE
    /\ cmd = NoCommand
    /\ queries = 0
    /\ avail = {}
    /\ reply = NoReply
    /\ replies = 0
    /\ user = Nobody
    /\ why = "no"

(* daemon_terminate(): the alarm is cancelled and the socket closed. *)
Terminate(reason) ==
    /\ pc' = "closed"
    /\ timer' = "off"
    /\ why' = reason

(* The daemon writes r; it does not get past a client that reads nothing.  *)
Write(r) == ~stalled /\ reply' = r

Greeting(code) == Write([code |-> code, from |-> {}])

\* alarm(client_delay), unless limit_time has the alarm.
Armed == IF timing = "delay" THEN "idle" ELSE timer

-----------------------------------------------------------------------------
(* The session begins.  Whether the server is unavailable was decided      *)
(* before: by the parent, when it forked.                                  *)

TurnedAway ==
    /\ pc = "start"
    /\ Greeting(420)
    /\ Terminate("unavailable")
    /\ UNCHANGED <<configVars, clientVars, cmd, queries, accessVars, replies>>

AccessDenied ==
    /\ pc = "start"
    /\ CheckList(Nobody, policy.global) = "deny"
    /\ Greeting(530)
    /\ Terminate("denied")
    /\ UNCHANGED <<configVars, clientVars, cmd, queries, accessVars, replies>>

Banner ==
    /\ pc = "start"
    /\ CheckList(Nobody, policy.global) # "deny"
    /\ Greeting(220)
    /\ avail' = CheckAuth(Nobody, avail)
    /\ timer' = Armed
    /\ pc' = "read"
    /\ UNCHANGED <<configVars, clientVars, cmd, queries, user, replies, why>>

-----------------------------------------------------------------------------
(* The loop: a line is read and counted ... *)

AtQueryLimit == LimitQueries # 0 /\ queries + 1 >= LimitQueries

ReadLine ==
    /\ pc = "read"
    /\ inbox # <<>>
    /\ inbox' = Tail(inbox)
    /\ queries' = queries + 1
    /\ IF AtQueryLimit
       THEN Terminate("queries") /\ UNCHANGED cmd
       ELSE pc' = "got" /\ cmd' = Head(inbox) /\ UNCHANGED <<timer, why>>
    /\ UNCHANGED <<configVars, sent, eof, stalled, accessVars, reply, replies>>

ReadEof ==
    /\ pc = "read"
    /\ inbox = <<>> /\ eof
    /\ Terminate("close")
    /\ UNCHANGED <<configVars, clientVars, cmd, queries, accessVars, reply, replies>>

(* SIGHUP and SIGUSR1 are inherited from the parent without SA_RESTART:    *)
(* they only set flags, but a read() they interrupt fails.                 *)
ReadInterrupted ==
    /\ pc = "read"
    /\ inbox = <<>>
    /\ Terminate("close")
    /\ UNCHANGED <<configVars, clientVars, cmd, queries, accessVars, reply, replies>>

\* Mutants of Disarm: alarm(0) is forgotten, or cancels the time limit too, or
\* an empty line is not left behind.
DisarmForgotten ==
    /\ pc = "got"
    /\ pc' = IF cmd.op = "empty" THEN "read" ELSE "work"
    /\ UNCHANGED <<configVars, timer, clientVars, cmd, queries, accessVars, reply,
                   replies, why>>

DisarmAlways ==
    /\ pc = "got"
    /\ timer' = "off"
    /\ pc' = IF cmd.op = "empty" THEN "read" ELSE "work"
    /\ UNCHANGED <<configVars, clientVars, cmd, queries, accessVars, reply,
                   replies, why>>

DisarmSpins ==
    /\ pc = "got"
    /\ timer' = IF timing = "limit_time" THEN timer ELSE "off"
    /\ pc' = IF cmd.op = "empty" THEN "got" ELSE "work"
    /\ UNCHANGED <<configVars, clientVars, cmd, queries, accessVars, reply,
                   replies, why>>

(* ... then the idle timer is cancelled; an empty line goes straight back  *)
(* to reading.                                                             *)
Disarm ==
    /\ pc = "got"
    /\ timer' = IF timing = "limit_time" THEN timer ELSE "off"
    /\ pc' = IF cmd.op = "empty" THEN "read" ELSE "work"
    /\ UNCHANGED <<configVars, clientVars, cmd, queries, accessVars, reply,
                   replies, why>>

(* The command writes its reply, or the head of a text. *)
Carry ==
    /\ pc = "work"
    /\ cmd.op \in {"search", "showdb", "showinfo", "showserver", "text", "line"}
    /\ \E r \in Replies(cmd) :
         /\ Write(r)
         /\ pc' = IF r.code \in TextCodes THEN "rest" ELSE "done"
    /\ replies' = replies + 1
    /\ UNCHANGED <<configVars, timer, clientVars, cmd, queries, accessVars, why>>

WriteRest ==
    /\ pc = "rest"
    /\ ~stalled
    /\ pc' = "done"
    /\ UNCHANGED <<configVars, timer, clientVars, cmd, queries, accessVars,
                   reply, replies, why>>

(* daemon_auth(): a wrong number of arguments is answered, and the command *)
(* goes on as if it had been right.                                        *)
AuthSyntax ==
    /\ pc = "work"
    /\ cmd.op = "auth" /\ cmd.argc # 3
    /\ Write([code |-> 501, from |-> {}])
    /\ replies' = replies + 1
    /\ pc' = "auth"
    /\ UNCHANGED <<configVars, timer, clientVars, cmd, queries, accessVars, why>>

\* Where the user is looked up: after the 501, or at once.
AtLookup  == pc = "auth" \/ (pc = "work" /\ cmd.op = "auth" /\ cmd.argc = 3)
UserKnown == cmd.argc >= 2 /\ cmd.arg \in Users

\* A missing user is looked up, a missing digest compared: both are NULL.
ArgumentMissing == (cmd.argc = 1 /\ Users # {}) \/ (cmd.argc = 2 /\ UserKnown)

\* Mutant of AuthOk: what the last user could read stays available.
AuthOkKeeps ==
    /\ AtLookup
    /\ cmd.argc >= 3 /\ UserKnown /\ cmd.right
    /\ Write([code |-> 230, from |-> {}])
    /\ user' = cmd.arg
    /\ avail' = avail \cup CheckAuth(cmd.arg, avail)
    /\ replies' = replies + 1
    /\ pc' = "done"
    /\ UNCHANGED <<configVars, timer, clientVars, cmd, queries, why>>

(* The reply is written before the databases change. *)
AuthOk ==
    /\ AtLookup
    /\ cmd.argc >= 3 /\ UserKnown /\ cmd.right
    /\ Write([code |-> 230, from |-> {}])
    /\ user' = cmd.arg
    /\ avail' = CheckAuth(cmd.arg, avail)
    /\ replies' = replies + 1
    /\ pc' = "done"
    /\ UNCHANGED <<configVars, timer, clientVars, cmd, queries, why>>

AuthDenied ==
    /\ AtLookup
    /\ ~ArgumentMissing /\ ~(UserKnown /\ cmd.right)
    /\ Write([code |-> 531, from |-> {}])
    /\ replies' = replies + 1
    /\ pc' = "done"
    /\ UNCHANGED <<configVars, timer, clientVars, cmd, queries, accessVars, why>>

AuthFault ==
    /\ AtLookup
    /\ ArgumentMissing
    /\ Terminate("fault")
    /\ UNCHANGED <<configVars, clientVars, cmd, queries, accessVars, reply, replies>>

Quit ==
    /\ pc = "work"
    /\ cmd.op = "quit"
    /\ \E r \in Replies(cmd) : Write(r)
    /\ replies' = replies + 1
    /\ Terminate("quit")
    /\ UNCHANGED <<configVars, clientVars, cmd, queries, accessVars>>

(* The end of the loop's body. *)
Rearm ==
    /\ pc = "done"
    /\ timer' = Armed
    /\ pc' = "read"
    /\ UNCHANGED <<configVars, clientVars, cmd, queries, accessVars, reply,
                   replies, why>>

-----------------------------------------------------------------------------
(* What may end the session at any point. *)

(* handler(SIGALRM) in a daemon: daemon_terminate(). *)
TimerFires ==
    /\ pc # "closed"
    /\ timer # "off"
    /\ Terminate("alarm")
    /\ UNCHANGED <<configVars, clientVars, cmd, queries, accessVars, reply, replies>>

Killed ==
    /\ pc # "closed"
    /\ Terminate("signal")
    /\ UNCHANGED <<configVars, clientVars, cmd, queries, accessVars, reply, replies>>

(* The client is gone: the write fails, or raises SIGPIPE. *)
WriteFails ==
    /\ pc \in {"start", "work", "auth", "rest"}
    /\ Terminate("write")
    /\ UNCHANGED <<configVars, clientVars, cmd, queries, accessVars, reply, replies>>

-----------------------------------------------------------------------------
(* The client. *)

Send(c) ==
    /\ pc # "closed" /\ ~eof
    /\ sent < MaxLines /\ Len(inbox) < MaxAhead
    /\ inbox' = Append(inbox, c)
    /\ sent' = sent + 1
    /\ UNCHANGED <<pc, configVars, timer, eof, stalled, cmd, queries, accessVars,
                   reply, replies, why>>

CloseInput ==
    /\ pc # "closed" /\ ~eof
    /\ eof' = TRUE
    /\ UNCHANGED <<pc, configVars, timer, inbox, sent, stalled, cmd, queries,
                   accessVars, reply, replies, why>>

(* The client stops reading, or goes on. *)
Stall ==
    /\ pc # "closed"
    /\ stalled' = ~stalled
    /\ UNCHANGED <<pc, configVars, timer, inbox, sent, eof, cmd, queries,
                   accessVars, reply, replies, why>>

-----------------------------------------------------------------------------
Greet == TurnedAway \/ AccessDenied \/ Banner
Auth  == AuthSyntax \/ AuthOk \/ AuthDenied \/ AuthFault
Work  == Carry \/ WriteRest \/ Auth \/ Quit
Step  == Greet \/ ReadLine \/ ReadEof \/ Disarm \/ Work \/ Rearm

Next ==
    \/ Step
    \/ ReadInterrupted \/ TimerFires \/ Killed \/ WriteFails
    \/ (\E c \in Commands : Send(c)) \/ CloseInput \/ Stall

Spec == Init /\ [][Next]_vars

(* The daemon runs and its timer expires; the client owes nothing. *)
Fairness == WF_vars(Step) /\ WF_vars(TimerFires)

FairSpec == Spec /\ Fairness

-----------------------------------------------------------------------------
(* Properties. *)

\* The manual's rule (dictd.8.in:1142-1186), said without the code's loop: the
\* first rule that matches decides, and no list at all allows.
FirstSays(u, acl, verdict) ==
    \E i \in DOMAIN acl :
        /\ Verdict(u, acl[i]) = verdict
        /\ \A j \in 1..(i - 1) : Verdict(u, acl[j]) = "next"

Allowed(u, acl) == acl = <<>> \/ FirstSays(u, acl, "allow")

\* The databases user u may read.
Granted(u) ==
    IF Allowed(u, policy.global)
       \/ (u # Nobody /\ FirstSays(u, policy.global, "authonly"))
    THEN {d \in Dbs : Allowed(u, policy.db[d])}
    ELSE {}

\* At every command, the databases available are those granted to the user
\* who authenticated last, whatever was tried or failed before.
AccessAsGranted == pc \notin {"start", "closed"} => avail = Granted(user)

\* The idle timer never runs while the daemon works: a search or a reply, how
\* long it may take, is not cut short because the client is silent.
NoIdleTimerWhileWorking == pc \in {"work", "auth", "rest", "done"} => timer # "idle"

\* Under limit_time the time limit stands until the session ends: no command
\* cancels it or starts it anew.
TimeLimitStands == (timing = "limit_time" /\ pc # "closed") => timer = "total"

\* Under limit_queries no line is carried out once that many have been read,
\* empty ones included, however many the client has sent ahead.
QueryBudget ==
    (LimitQueries # 0 /\ pc # "closed" /\ queries > 0) => queries < LimitQueries

\* The session implements the protocol: replies in order, one per command but
\* for an AUTH with a wrong number of arguments, and only from databases the
\* user is granted or that one of those is made of.
Pending ==
    IF pc = "closed" THEN <<>>
    ELSE IF pc \in {"got", "work"} THEN <<cmd>> \o inbox
    ELSE inbox

Protocol == INSTANCE DictProtocol WITH
    Users <- Users \cup {Nobody},
    Anonymous <- Nobody,
    Blank <- {c \in Commands : c.op = "empty"},
    Malformed <- {c \in Commands : c.op = "auth" /\ c.argc # 3},
    Brings <- Inside,
    owed <- (pc = "auth"),
    open <- (pc # "closed"),
    grants <- [u \in Users \cup {Nobody} |-> Granted(u)],
    pending <- Pending,
    named <- reply.from

ImplementsProtocol == Protocol!ProtocolSpec

\* With limit_time, every session ends, whatever its client does or omits.
LimitedSessionsEnd == timing = "limit_time" ~> pc = "closed"

\* While the client reads its replies, every line it sent is dealt with.
LinesDealtWith ==
    inbox # <<>> ~> ((inbox = <<>> /\ pc = "read") \/ stalled \/ pc = "closed")

\* The manual: delay is "the number of seconds a client may be idle before the
\* server will close the connection" (dictd.8.in:554-556).
IdleClientsDropped == (timing = "delay" /\ pc = "read") ~> pc # "read"

\* RFC 2229 of databases that may not be read before authentication: "Until
\* that time, the client will interact with the server as if the additional
\* databases did not exist" (doc/rfc2229.txt:703-708): no reply is taken from
\* one.
RestrictedUnseen == reply.from \subseteq Granted(user)

\* RFC 2229: "Status responses indicate the server's response to the last
\* command received" (doc/rfc2229.txt:243-244): one per command.
OneReplyPerCommand == replies <= queries
=============================================================================
