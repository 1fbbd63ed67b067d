----------------------------- MODULE DictClient -----------------------------
(***************************************************************************)
(* The dict client (dict/dict.c) and the connection it talks over: the     *)
(* list of commands main() builds, request(), which sends as many of them  *)
(* ahead as fit in the pipe, and process(), which takes them off the list  *)
(* one by one and reads the reply of each, adding commands for spelling    *)
(* corrections and for the matches of a strategy on the way.  The server   *)
(* is one that answers the commands it reads in order, with any reply the  *)
(* protocol allows, and may close at any time (see DictProtocol).          *)
(*                                                                         *)
(* A connection holds a bounded number of commands in one direction and of *)
(* lines in the other; the one who writes waits when it is full.           *)
(***************************************************************************)
EXTENDS Integers, SequencesExt

CONSTANTS
    Hosts,          \* servers in the configuration
    HasKey,         \* those it has a user and a secret for
    Words,          \* words
    Defs, Near,     \* how many definitions a word has; what it is like
    Jobs,           \* command lines
    Pipe,           \* client_pipesize, in commands
    Room, RoomBack  \* what the connection holds for the server and the client

Blank   == "blank"      \* the empty line after a MIME header
NoHost  == "no host"
NoText  == <<"null">>   \* a null pointer
Running == -1
Fatal   == 1            \* err_fatal
Killed  == 141          \* SIGPIPE

(* Reply codes (dictP.h), and what unexpected_status_code exits with.      *)
Refusals == {420, 421, 500, 501, 502, 503, 530, 531, 550, 551, 552, 554, 555}
ExitOf(code) ==
    CASE code = 420 -> 31 [] code = 421 -> 32 [] code = 500 -> 33 [] code = 501 -> 34
      [] code = 502 -> 35 [] code = 503 -> 36 [] code = 530 -> 37 [] code = 531 -> 38
      [] code = 550 -> 39 [] code = 551 -> 40 [] code = 552 -> 20 [] code = 554 -> 22
      [] code = 555 -> 23 [] OTHER -> 30

(* CMD_*; info stands for SHOW SERVER and HELP too, dbs for SHOW STRAT.    *)
Ops == {"connect", "client", "auth", "mime", "info", "dbs", "print", "define", "spell",
        "defprint", "match", "wind", "close"}

(* make_command; word is the host of CMD_CONNECT, and for CMD_PRINT, which *)
(* has none, the word of the command it follows.                           *)
Command == [op : Ops, word : Words \cup Hosts \cup {""}, sent : BOOLEAN]
Make(op, w) == [op |-> op, word |-> w, sent |-> FALSE]

(* Names are not one of the marks that stand for the lack of a name.       *)
ASSUME ClientAssumption ==
    /\ NoHost \notin Hosts
    /\ Words \cap {"", "null", Blank, "info", "dbs"} = {}
    /\ HasKey \subseteq Hosts
    /\ Defs \in [Words -> Nat]
    /\ Near \in [Words -> Seq(Words)]
    /\ Pipe \in Nat /\ Room \in Nat \ {0} /\ RoomBack \in Nat \ {0}
    /\ \A j \in Jobs : /\ j.hosts \in Seq(Hosts) /\ j.hosts # <<>>
                       /\ j.words \in Seq(Words)
                       /\ j.kind \in {"none", "match", "define", "wind"}
                       /\ {j.auth, j.mime, j.info, j.dbs, j.correct} \subseteq BOOLEAN

(* The end of main(): the list of commands.                                *)
If(b, s) == IF b THEN s ELSE <<>>

ForWord(j, w) ==
    CASE j.kind = "match"  -> <<Make("match", w), Make("print", w)>>
      [] j.kind = "wind"   -> <<Make("match", w), Make("wind", w)>>
      [] j.kind = "define" -> <<Make("define", w)>> \o If(j.correct, <<Make("spell", w)>>)
                              \o <<Make("defprint", w)>>
      [] OTHER -> <<>>

CommandsOf(j) ==
    [n \in 1 .. Len(j.hosts) |-> Make("connect", j.hosts[n])]
    \o <<Make("client", "")>>
    \o If(j.auth, <<Make("auth", "")>>)
    \o If(j.mime, <<Make("mime", ""), Make("print", "")>>)
    \o If(j.info, <<Make("info", ""), Make("print", "")>>)
    \o If(j.dbs, <<Make("dbs", ""), Make("print", "")>>)
    \o FlattenSeq([n \in 1 .. Len(j.words) |-> ForWord(j, j.words[n])])
    \o <<Make("close", "")>>

VARIABLES
    job,            \* the command line
    cmds,           \* cmd_list
    pc,             \* what the client is doing
    cur,            \* the command process() is at
    batch,          \* the buffer of request()
    host,           \* the server connected to (cmd_reply.s, host)
    key, msgid,     \* cmd_reply.key and msgid are there
    named,          \* cmd_reply.word
    retcode, matches, match, listed, count,     \* cmd_reply, and
    data, live,     \* its text, and whether the text is still allocated
    defs,           \* the definitions read so far
    status,         \* ex_status
    exit,           \* how the client ended
    shown, lacking, \* words with a definition or matches printed; and said to have none
    open,           \* the server has the connection open
    toServer,       \* commands on their way
    got,            \* commands the server has read
    answer,         \* what it has still to write of a reply
    toClient        \* lines on their way back

listVars   == <<job, cmds, cur>>
hostVars   == <<host, key, msgid>>
replyVars  == <<retcode, matches, match, listed, count, data, live, defs>>
outVars    == <<status, shown, lacking>>
netVars    == <<open, toServer, got, answer, toClient>>
vars == <<listVars, pc, batch, hostVars, named, replyVars, exit, outVars, netVars>>
----------------------------------------------------------------------------
Init ==
    /\ job \in Jobs
    /\ cmds = CommandsOf(job)
    /\ pc = "request"
    /\ cur = Make("print", "")
    /\ batch = <<>>
    /\ host = NoHost /\ key = FALSE /\ msgid = FALSE
    /\ named = ""
    /\ retcode = 0 /\ matches = 0 /\ match = FALSE /\ listed = FALSE /\ count = 0
    /\ data = NoText /\ live = FALSE /\ defs = 0
    /\ status = 0 /\ exit = Running /\ shown = {} /\ lacking = {}
    /\ open = FALSE /\ toServer = <<>> /\ got = <<>> /\ answer = <<>> /\ toClient = <<>>

(* exit() with a status, or without one for err_fatal and signals.         *)
End(how) ==
    /\ exit' = how
    /\ pc' = "ended"

(* The first server's key is looked at before there is a connection.       *)
KeyNow == IF cmds[1].op = "connect" THEN cmds[1].word \in HasKey ELSE key

(* What request() writes into the buffer for a command.                    *)
OnWire(c) ==
    \/ c.op \in {"client", "mime", "info", "dbs", "match", "define", "close"}
    \/ c.op = "auth" /\ KeyNow

(* Mutant for RepliesMatch: what comes after a correction is sent ahead.   *)
StopsPipeLess(c) ==
    \/ c.op = "wind"
    \/ c.op = "auth" /\ KeyNow /\ ~msgid

(* Commands it does not send anything beyond.                              *)
StopsPipe(c) ==
    \/ c.op \in {"spell", "wind"}
    \/ c.op = "auth" /\ KeyNow /\ ~msgid

(* What it writes for the first n commands.                                *)
Wire(n) ==
    LET wire[k \in Nat] ==
            IF k = 0 THEN <<>>
            ELSE IF OnWire(cmds[k]) THEN Append(wire[k - 1], cmds[k])
            ELSE wire[k - 1]
    IN  wire[n]

(* Mutant for NeverBlocked: one command too many.                          *)
PipeFullLate(k) == k > 1 /\ Len(Wire(k)) > Pipe + 1

(* A single command is sent however small the pipe is.                     *)
PipeFull(k) == k > 1 /\ Len(Wire(k)) > Pipe

StopsAt(k) == k > Len(cmds) \/ cmds[k].sent \/ StopsPipe(cmds[k]) \/ PipeFull(k)

(* How many commands are marked as sent now.                               *)
Ahead == CHOOSE n \in 0 .. Len(cmds) : StopsAt(n + 1) /\ \A k \in 1 .. n : ~StopsAt(k)

(* Mutant for CommandsDelivered: the last command of a batch is not marked.*)
MarkedShort == [k \in 1 .. Len(cmds) |-> IF k < Ahead THEN [cmds[k] EXCEPT !.sent = TRUE] ELSE cmds[k]]

Marked == [k \in 1 .. Len(cmds) |-> IF k <= Ahead THEN [cmds[k] EXCEPT !.sent = TRUE] ELSE cmds[k]]

(* cmd_reply.word is written as a command is looked at.                    *)
LookedAt == IF Ahead < Len(cmds) /\ PipeFull(Ahead + 1) THEN Ahead + 1 ELSE Ahead
LastNamed ==
    LET S == {k \in 1 .. LookedAt : cmds[k].op \in {"match", "define"}}
    IN  IF S = {} THEN named ELSE cmds[CHOOSE k \in S : \A m \in S : m <= k].word

(* At a command sent before, request() returns and sends nothing.          *)
AtSent == Ahead < Len(cmds) /\ cmds[Ahead + 1].sent

Request ==
    /\ pc = "request"
    /\ cmds # <<>>
    /\ key' = KeyNow
    /\ cmds' = Marked
    /\ named' = LastNamed
    /\ batch' = IF AtSent THEN <<>> ELSE Wire(Ahead)
    /\ pc' = IF AtSent THEN "process" ELSE IF host = NoHost THEN "connect" ELSE "write"
    /\ UNCHANGED <<job, cur, host, msgid, replyVars, exit, outVars, netVars>>

(* net_connect_tcp: connected, or on to the next server, if there is one.  *)
Connect ==
    /\ pc = "connect"
    /\ host' = cmds[1].word
    /\ open' = TRUE
    /\ key' = (cmds[1].word \in HasKey)
    /\ pc' = "write"
    /\ UNCHANGED <<listVars, batch, msgid, named, replyVars, exit, outVars,
                   toServer, got, answer, toClient>>

Unsent == [k \in 1 .. Len(cmds) |-> [cmds[k] EXCEPT !.sent = FALSE]]

ConnectFails ==
    /\ pc = "connect"
    /\ IF Len(cmds) > 1 /\ cmds[2].op = "connect"
       THEN cmds' = Unsent /\ pc' = "process" /\ UNCHANGED exit
       ELSE End(41) /\ UNCHANGED cmds
    /\ batch' = <<>>
    /\ UNCHANGED <<job, cur, hostVars, named, replyVars, outVars, netVars>>

(* net_write.  A server that is gone reads nothing of it.                  *)
Write ==
    /\ pc = "write"
    /\ open => Len(toServer) + Len(batch) <= Room
    /\ toServer' = IF open THEN toServer \o batch ELSE toServer
    /\ batch' = <<>>
    /\ pc' = "process"
    /\ UNCHANGED <<listVars, hostVars, named, replyVars, exit, outVars, open, got, answer, toClient>>

(* SIGPIPE.                                                                *)
WriteFails ==
    /\ pc = "write"
    /\ ~open
    /\ batch # <<>>
    /\ End(Killed)
    /\ UNCHANGED <<listVars, batch, hostVars, named, replyVars, outVars, netVars>>

Finish ==
    /\ pc = "request"
    /\ cmds = <<>>
    /\ End(status)
    /\ UNCHANGED <<listVars, batch, hostVars, named, replyVars, outVars, netVars>>
----------------------------------------------------------------------------
(* process(): the next command.  Those that have a reply wait for it.      *)
HasReply(c) ==
    \/ c.op \in {"connect", "client", "mime", "info", "dbs", "match", "define", "close"}
         /\ host # NoHost
    \/ c.op = "auth" /\ key /\ msgid

Top == Head(cmds)

Pop ==
    /\ pc = "process"
    /\ cur' = Top

Await ==
    /\ Pop
    /\ HasReply(Top)
    /\ cmds' = Tail(cmds)
    /\ pc' = "status"
    /\ match' = (match \/ Top.op = "match")
    /\ UNCHANGED <<job, batch, hostVars, named, retcode, matches, listed, count, data, live, defs,
                   exit, outVars, netVars>>

(* CMD_CONNECT to a server that failed, and CMD_AUTH without a message id. *)
PassOver ==
    /\ Pop
    /\ Top.op \in {"connect", "auth"}
    /\ ~HasReply(Top)
    /\ cmds' = Tail(cmds)
    /\ pc' = "request"
    /\ UNCHANGED <<job, batch, hostVars, named, replyVars, exit, outVars, netVars>>

SetStatus(n) == status' = IF status = 0 THEN n ELSE status

Forget ==
    /\ data' = NoText
    /\ live' = FALSE

(* CMD_PRINT: matches, a list or a text; cmd_reply.word is the word.       *)
PrintReply ==
    /\ Pop
    /\ Top.op = "print"
    /\ cmds' = Tail(cmds)
    /\ IF match /\ data = NoText
       THEN lacking' = lacking \cup {<<Top.word, named>>} /\ SetStatus(20) /\ UNCHANGED shown
       ELSE /\ shown' = IF match THEN shown \cup {Top.word} ELSE shown
            /\ UNCHANGED <<lacking, status>>
    /\ Forget
    /\ matches' = 0 /\ match' = FALSE /\ listed' = FALSE
    /\ pc' = "request"
    /\ UNCHANGED <<job, batch, hostVars, named, retcode, count, defs, exit, netVars>>

(* CMD_DEFPRINT: definitions, or matches instead, or none.                 *)
PrintDefinitions ==
    /\ Pop
    /\ Top.op = "defprint"
    /\ cmds' = Tail(cmds)
    /\ IF count > 0
       THEN /\ shown' = shown \cup {Top.word}
            /\ count' = 0 /\ defs' = 0
            /\ UNCHANGED <<matches, data, live, lacking, status>>
       ELSE IF matches > 0
       THEN /\ Forget
            /\ matches' = 0
            /\ lacking' = lacking \cup {<<Top.word, Top.word>>}
            /\ SetStatus(21)
            /\ UNCHANGED <<shown, count, defs>>
       ELSE /\ lacking' = lacking \cup {<<Top.word, Top.word>>}
            /\ SetStatus(20)
            /\ UNCHANGED <<shown, count, defs, matches, data, live>>
    /\ pc' = "request"
    /\ UNCHANGED <<job, batch, hostVars, named, retcode, match, listed, exit, netVars>>

(* CMD_SPELL asks for matches when there is no definition.                 *)
Spell ==
    /\ Pop
    /\ Top.op = "spell"
    /\ cmds' = If(retcode = 552, <<Make("match", Top.word)>>) \o Tail(cmds)
    /\ pc' = "request"
    /\ UNCHANGED <<job, batch, hostVars, named, replyVars, exit, outVars, netVars>>

(* Mutant for ExitAsDocumented: the last match is left out.               *)
WoundShort == SubSeq(data, 1, matches - 1)

(* CMD_WIND: a DEFINE and a DEFPRINT for every match, down from the line   *)
(* whose number is the count of matches to the first or to a blank one.    *)
Wound ==
    LET from == IF \E i \in 1 .. matches : data[i] = Blank
                THEN (CHOOSE i \in 1 .. matches : /\ data[i] = Blank
                                                  /\ \A k \in i + 1 .. matches : data[k] # Blank) + 1
                ELSE 1
    IN  SubSeq(data, from, matches)

(* Mutant for NoFreedText: the count of matches stays.                     *)
WindKeepsCount ==
    /\ Pop
    /\ Top.op = "wind"
    /\ IF matches > 0
       THEN /\ cmds' = FlattenSeq([n \in 1 .. Len(Wound) |-> <<Make("define", Wound[n]),
                                                           Make("defprint", Wound[n])>>])
                       \o Tail(cmds)
            /\ live' = FALSE
            /\ UNCHANGED <<lacking, status, matches>>
       ELSE /\ cmds' = Tail(cmds)
            /\ lacking' = lacking \cup {<<Top.word, Top.word>>}
            /\ SetStatus(20)
            /\ UNCHANGED <<live, matches>>
    /\ pc' = "request"
    /\ UNCHANGED <<job, batch, hostVars, named, retcode, match, listed, count, data, defs,
                   exit, shown, netVars>>

Wind ==
    /\ Pop
    /\ Top.op = "wind"
    /\ IF matches > 0
       THEN /\ cmds' = FlattenSeq([n \in 1 .. Len(Wound) |-> <<Make("define", Wound[n]),
                                                           Make("defprint", Wound[n])>>])
                       \o Tail(cmds)
            /\ live' = FALSE
            /\ matches' = 0
            /\ UNCHANGED <<lacking, status>>
       ELSE /\ cmds' = Tail(cmds)
            /\ lacking' = lacking \cup {<<Top.word, Top.word>>}
            /\ SetStatus(20)
            /\ UNCHANGED <<live, matches>>
    /\ pc' = "request"
    /\ UNCHANGED <<job, batch, hostVars, named, retcode, match, listed, count, data, defs,
                   exit, shown, netVars>>
----------------------------------------------------------------------------
(* client_read_status and client_read_text: one line, or the end.          *)
Reading == pc \in {"status", "text", "final", "definition", "deftext"}

Take == toClient # <<>> /\ toClient' = Tail(toClient)
Line == Head(toClient)

(* The end of the switch: a code that was not expected ends the client.    *)
Check(expected, code) ==
    IF code = expected THEN pc' = "request" /\ UNCHANGED exit ELSE End(ExitOf(code))

(* What each command expects; CMD_CLIENT and CMD_OPTION_MIME accept what   *)
(* they get, and some refusals are not the end of the list.                *)
Tolerated(c, code) ==
    \/ c.op \in {"client", "mime"}
    \/ c.op = "connect" /\ code = 220
    \/ c.op = "auth" /\ code \in {230, 531}
    \/ c.op = "define" /\ code \in {550, 552, 554}
    \/ c.op \in {"define", "match"} /\ code = 250
    \/ c.op = "match" /\ code \in {420, 550, 551, 552, 554, 555}
    \/ c.op = "close" /\ code = 221

(* What is remembered of it for the exit status.                           *)
Remembered(c, code) ==
    \/ c.op = "define" /\ code \in {550, 554}
    \/ c.op = "match" /\ code # 250

Follows(c, code) ==
    CASE c.op = "info" /\ code = 112 -> "text"
      [] c.op = "dbs" /\ code = 110 -> "text"
      [] c.op = "match" /\ code = 152 -> "text"
      [] c.op = "define" /\ code = 150 -> "definition"
      [] OTHER -> "nothing"

(* The servers not needed are taken off the list.                          *)
Connected ==
    LET k == CHOOSE n \in 1 .. Len(cmds) : /\ cmds[n].op # "connect"
                                           /\ \A m \in 1 .. n - 1 : cmds[m].op = "connect"
    IN  SubSeq(cmds, k, Len(cmds))

ReadStatus ==
    /\ pc = "status"
    /\ Take
    /\ retcode' = Line.code
    /\ count' = IF cur.op = "define" THEN Line.count ELSE count
    /\ matches' = IF cur.op = "match" THEN Line.count ELSE matches
    /\ listed' = IF cur.op = "dbs" THEN Line.count > 0 ELSE listed
    /\ msgid' = IF cur.op = "connect" THEN Line.count > 0 ELSE msgid
    /\ defs' = IF cur.op = "define" THEN 0 ELSE defs
    /\ cmds' = IF cur.op = "connect" /\ Line.code # 530 THEN Connected ELSE cmds
    /\ IF Follows(cur, Line.code) # "nothing"
       THEN pc' = Follows(cur, Line.code) /\ UNCHANGED <<exit, status>>
       ELSE /\ IF Tolerated(cur, Line.code) THEN pc' = "request" /\ UNCHANGED exit
               ELSE End(IF cur.op = "connect" /\ Line.code = 530 THEN Fatal ELSE ExitOf(Line.code))
            /\ IF Tolerated(cur, Line.code) /\ Remembered(cur, Line.code)
               THEN SetStatus(ExitOf(Line.code)) ELSE UNCHANGED status
    /\ UNCHANGED <<job, cur, batch, host, key, named, match, data, live, shown, lacking,
                   open, toServer, got, answer>>

ReadText ==
    /\ pc = "text"
    /\ Take
    /\ data' = Line.text
    /\ live' = TRUE
    /\ pc' = "final"
    /\ UNCHANGED <<listVars, batch, hostVars, named, retcode, matches, match, listed, count, defs,
                   exit, outVars, open, toServer, got, answer>>

ReadFinal ==
    /\ pc = "final"
    /\ Take
    /\ retcode' = Line.code
    /\ Check(250, Line.code)
    /\ UNCHANGED <<listVars, batch, hostVars, named, matches, match, listed, count, data, live, defs,
                   outVars, open, toServer, got, answer>>

ReadDefinition ==
    /\ pc = "definition"
    /\ Take
    /\ retcode' = Line.code
    /\ IF Line.code = 151 THEN pc' = "deftext" /\ UNCHANGED exit ELSE End(ExitOf(Line.code))
    /\ UNCHANGED <<listVars, batch, hostVars, named, matches, match, listed, count, data, live, defs,
                   outVars, open, toServer, got, answer>>

ReadDefText ==
    /\ pc = "deftext"
    /\ Take
    /\ defs' = defs + 1
    /\ pc' = IF defs + 1 = count THEN "final" ELSE "definition"
    /\ UNCHANGED <<listVars, batch, hostVars, named, retcode, matches, match, listed, count, data, live,
                   exit, outVars, open, toServer, got, answer>>

(* Mutant for ClientEnds: the end of a text is not noticed.                *)
ReadEndOfStatus ==
    /\ pc = "status"
    /\ ~open
    /\ toClient = <<>>
    /\ End(Fatal)
    /\ UNCHANGED <<listVars, batch, hostVars, named, replyVars, outVars, netVars>>

(* "Error reading from socket": the server has closed.                     *)
ReadEnd ==
    /\ Reading
    /\ ~open
    /\ toClient = <<>>
    /\ End(Fatal)
    /\ UNCHANGED <<listVars, batch, hostVars, named, replyVars, outVars, netVars>>
----------------------------------------------------------------------------
(* The server: a greeting, then one command after the other.  Every line   *)
(* it writes is marked with the command it answers.                        *)
Reply(c, code, n, t) == [op |-> c.op, word |-> c.word, code |-> code, count |-> n, text |-> t]
Single(c, codes) == {<<Reply(c, code, 0, <<>>)>> : code \in codes}

MimeOn == \E n \in 1 .. Len(got) : got[n].op = "mime"

WithText(c, code, n, t) ==
    {<<Reply(c, code, n, <<>>), Reply(c, 0, 0, If(MimeOn, <<Blank>>) \o t), Reply(c, 250, 0, <<>>)>>}

Definitions(c) ==
    {<<Reply(c, 150, Defs[c.word], <<>>)>>
     \o [k \in 1 .. 2 * Defs[c.word] |-> Reply(c, IF k % 2 = 1 THEN 151 ELSE 0, 0, <<>>)]
     \o <<Reply(c, 250, 0, <<>>)>>}

(* What a command may be answered.                                         *)
Answers(c) ==
    CASE c.op = "connect" -> {<<Reply(c, 220, n, <<>>)>> : n \in {0, 1}} \cup Single(c, {420, 530})
      [] c.op \in {"client", "mime"} -> Single(c, {250, 500})
      [] c.op = "auth"   -> Single(c, {230, 531})
      [] c.op = "info"   -> WithText(c, 112, 0, <<"info">>) \cup Single(c, {550})
      [] c.op = "dbs"    -> WithText(c, 110, 1, <<"dbs">>) \cup Single(c, {554})
      [] c.op = "match"  -> (IF Near[c.word] = <<>> THEN Single(c, {552})
                             ELSE WithText(c, 152, Len(Near[c.word]), Near[c.word]))
                            \cup Single(c, {420, 551})
      [] c.op = "define" -> (IF Defs[c.word] = 0 THEN Single(c, {552}) ELSE Definitions(c))
                            \cup Single(c, {550})
      [] OTHER -> Single(c, {221})

Greet ==
    /\ open
    /\ got = <<>> /\ answer = <<>>
    /\ answer' \in Answers(Make("connect", host))
    /\ got' = <<Make("connect", host)>>
    /\ UNCHANGED <<listVars, pc, batch, hostVars, named, replyVars, exit, outVars,
                   open, toServer, toClient>>

Serve ==
    /\ open
    /\ got # <<>> /\ answer = <<>>
    /\ toServer # <<>>
    /\ toServer' = Tail(toServer)
    /\ got' = Append(got, Head(toServer))
    /\ answer' \in Answers(Head(toServer))
    /\ UNCHANGED <<listVars, pc, batch, hostVars, named, replyVars, exit, outVars, open, toClient>>

Deliver ==
    /\ open
    /\ answer # <<>>
    /\ Len(toClient) < RoomBack
    /\ toClient' = Append(toClient, Head(answer))
    /\ answer' = Tail(answer)
    /\ UNCHANGED <<listVars, pc, batch, hostVars, named, replyVars, exit, outVars, open, toServer, got>>

(* It closes after "quit", at a limit, or because it was told to end.      *)
Close ==
    /\ open
    /\ open' = FALSE
    /\ answer' = <<>>
    /\ toServer' = <<>>
    /\ UNCHANGED <<listVars, pc, batch, hostVars, named, replyVars, exit, outVars, got, toClient>>

ClientNext ==
    \/ Request \/ Connect \/ ConnectFails \/ Write \/ WriteFails \/ Finish
    \/ Await \/ PassOver \/ PrintReply \/ PrintDefinitions \/ Spell \/ Wind
    \/ ReadStatus \/ ReadText \/ ReadFinal \/ ReadDefinition \/ ReadDefText \/ ReadEnd

ServerNext == Greet \/ Serve \/ Deliver

(* The process has ended.                                                  *)
Ended == pc = "ended" /\ UNCHANGED vars

Next == ClientNext \/ ServerNext \/ Close \/ Ended

(* The client runs, and the server answers or closes.                      *)
Spec == Init /\ [][Next]_vars /\ WF_vars(ClientNext) /\ WF_vars(ServerNext)
----------------------------------------------------------------------------
Lines == [op : Ops, word : Words \cup Hosts \cup {""}, code : Nat, count : Nat,
          text : Seq(Words \cup {Blank, "info", "dbs"})]

TypeOK ==
    /\ job \in Jobs
    /\ cmds \in Seq(Command)
    /\ pc \in {"request", "connect", "write", "process", "status", "text", "final",
               "definition", "deftext", "ended"}
    /\ cur \in Command
    /\ batch \in Seq(Command)
    /\ host \in Hosts \cup {NoHost}
    /\ {key, msgid, match, listed, live, open} \subseteq BOOLEAN
    /\ named \in Words \cup Hosts \cup {""}
    /\ {retcode, matches, count, defs, status} \subseteq Nat
    /\ data \in Seq(Words \cup {Blank, "info", "dbs", "null"})
    /\ exit \in Nat \cup {Running}
    /\ shown \subseteq Words
    /\ lacking \subseteq Words \X (Words \cup {""})
    /\ toServer \in Seq(Command)
    /\ got \in Seq(Command)
    /\ answer \in Seq(Lines)
    /\ toClient \in Seq(Lines)

(* The client reads every reply for the command that it answers, however   *)
(* many were sent ahead and whatever corrections and matches put in front  *)
(* of the list while replies were on their way.                            *)
RepliesMatch ==
    Reading /\ toClient # <<>> => Line.op = cur.op /\ Line.word = cur.word

(* At any time the server has been sent a beginning of the list main()     *)
(* built, every command once and in order, whichever servers did not       *)
(* answer before it and however small the pipe; and all of it when the     *)
(* session ends with "quit".  Only what corrections and matches add comes  *)
(* between, and AUTH only for a server the client has a key for and that   *)
(* greeted with a message id.                                              *)
Asked == IF job.kind = "define" THEN "define" ELSE "match"
OfList == {"client", "mime", "info", "dbs", "close", "auth", Asked}
Due == IF host \in HasKey /\ msgid THEN OfList ELSE OfList \ {"auth"}

Bare(s, ops) ==
    FlattenSeq([n \in 1 .. Len(s) |->
        IF s[n].op \in ops THEN <<Make(s[n].op, s[n].word)>> ELSE <<>>])

CommandsDelivered ==
    LET due  == Bare(CommandsOf(job), Due)
        sent == Bare(got \o toServer, OfList)
    IN  /\ IsPrefix(sent, due)
        /\ pc = "ended" /\ cur.op = "close" /\ retcode = 221 => sent = due

(* Whoever reads the text of a reply finds one that is there and has not   *)
(* been freed, and as many definitions as were counted.  The type          *)
(* invariant is part of it.                                                *)
ReadsText ==
    \/ Top.op = "print"
    \/ Top.op = "defprint" /\ count = 0 /\ matches > 0
    \/ Top.op = "wind" /\ matches > 0

NoFreedText ==
    /\ TypeOK
    /\ pc = "process" =>
        /\ ReadsText => data = NoText \/ live
        /\ Top.op \in {"defprint", "wind"} /\ ReadsText => data # NoText
        /\ Top.op = "defprint" => defs = count

(* When a buffer is written, the server has read everything before it: the *)
(* client never waits for a server that waits for it to read.              *)
NeverBlocked == pc = "write" /\ open => Len(toServer) + Len(batch) <= Room

(* dict.1: "Exit status is 0 if operation succeeded, or non-zero           *)
(* otherwise."  With 0, every word has its definitions or its matches      *)
(* printed, and with a strategy, every match has its definitions printed.  *)
ExitZeroMeansAnswered ==
    pc = "ended" /\ exit = 0 =>
        \A n \in 1 .. Len(job.words) :
            LET w == job.words[n] IN
            IF job.kind = "wind" THEN \A k \in 1 .. Len(Near[w]) : Near[w][k] \in shown
            ELSE job.kind # "none" => w \in shown

(* The same without OPTION MIME.                                           *)
ExitAsDocumented == ~job.mime => ExitZeroMeansAnswered

(* "No matches found for ..." names the word that was asked for.           *)
RightWordNamed == \A x \in lacking : x[1] = x[2]

(* The client always comes to an end when the server answers or closes.    *)
ClientEnds == <>(pc = "ended")
=============================================================================
