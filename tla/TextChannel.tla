---------------------------- MODULE TextChannel ----------------------------
(***************************************************************************)
(* What one session and its client write to each other, character by       *)
(* character: how the daemon turns a text into lines (daemon_crlf), writes *)
(* it (daemon_write) and finds commands in what it reads (net_read), and   *)
(* how dict finds replies and texts in what comes back.  DictClient and    *)
(* Session take this for granted.                                          *)
(*                                                                         *)
(* A status line is one character.  The connection keeps what is written   *)
(* in order; it may be cut off at any point when one end dies.             *)
(***************************************************************************)
EXTENDS Integers, SequencesExt, FiniteSets

CONSTANTS
    Requests,       \* what the client asks for: a command line, the text that
                    \* is the answer, and whether it is that of SHOW INFO
    LineLimit,      \* what dict reads of a line: BUFFERSIZE - 1
    CommandLimit,   \* what the daemon reads of one
    MaxRequests,    \* bound: requests of a session
    MaxSignals      \* bound: signals that interrupt write()

NL == "\n"
CR == "\r"
Dot == "."
Follows == "150"    \* a text follows
Ok == "250"
Eof == <<"EOF">>    \* what net_read returns instead of a line

Chars == {Dot, "a", NL, CR, Follows, Ok}

ASSUME ChannelAssumption ==
    /\ LineLimit \in Nat /\ LineLimit > 2 /\ CommandLimit \in Nat \ {0}
    /\ MaxRequests \in Nat /\ MaxSignals \in Nat
    /\ \A r \in Requests : /\ r.command \in Seq({"a"}) /\ Len(r.command) \in 1 .. CommandLimit
                           /\ r.text \in Seq({Dot, "a", NL})
                           /\ r.info \in BOOLEAN

(* The lines of a text.                                                    *)
Breaks(s) == {k \in 1 .. Len(s) : s[k] = NL}
StartsLine(s, k) == k = 1 \/ s[k - 1] = NL
LineFrom(s, k) ==
    LET ends == {m \in Breaks(s) : m >= k}
    IN  SubSeq(s, k, IF ends = {} THEN Len(s) ELSE (CHOOSE m \in ends : \A n \in ends : m <= n) - 1)
LinesOf(s) ==
    FlattenSeq([k \in 1 .. Len(s) |-> IF StartsLine(s, k) THEN <<LineFrom(s, k)>> ELSE <<>>])

VARIABLES
    asked,          \* the requests of the client, history
    dict,           \* what the client is doing: waiting for a status, reading
                    \* a text, waiting for its 250; at its end; out of step
    lines,          \* the lines of the text it reads
    received,       \* history: the texts read to their 250
    up, upOpen,     \* from the client to the daemon
    daemon,         \* reading, writing or gone
    out, left,      \* the buffers it has still to write; what is left of the first
    heard,          \* history: the commands it read
    signals, cut,   \* signals so far; history: one cut a write short
    down            \* from the daemon to the client

channelVars == <<asked, dict, lines, received, up, upOpen, daemon, out, left, heard, signals, cut, down>>

ChannelInit ==
    /\ asked = <<>> /\ dict = "status" /\ lines = <<>> /\ received = <<>>
    /\ up = <<>> /\ upOpen = TRUE
    /\ daemon = "read" /\ out = <<>> /\ left = 0 /\ heard = <<>>
    /\ signals = 0 /\ cut = FALSE
    /\ down = <<>>
----------------------------------------------------------------------------
(* net_read: up to the end of the line, or to the limit, which leaves the  *)
(* end of the line to the next call; at the end of file, what there is.    *)
Bare(s) == FlattenSeq([k \in 1 .. Len(s) |-> IF s[k] \in {CR, NL} THEN <<>> ELSE <<s[k]>>])
Counted(s, k) == Cardinality({j \in 1 .. k : s[j] \notin {CR, NL}})

(* Mutant for CommandsArrive: the limit is one too low.                    *)
LineEndsEarly(s, k, limit) == s[k] = NL \/ Counted(s, k) = limit - 1

LineEnds(s, k, limit) == s[k] = NL \/ Counted(s, k) = limit

ReadLength(s, limit) ==
    LET ends == {k \in 1 .. Len(s) : LineEnds(s, k, limit)}
    IN  IF ends = {} THEN Len(s) ELSE CHOOSE k \in ends : \A m \in ends : k <= m

Readable(s, limit, open) ==
    \/ ~open
    \/ \E k \in 1 .. Len(s) : LineEnds(s, k, limit)

LineRead(s, limit) ==
    LET line == Bare(SubSeq(s, 1, ReadLength(s, limit)))
    IN  IF line = <<>> /\ ~(\E k \in 1 .. Len(s) : s[k] = NL) THEN Eof ELSE line

Rest(s, limit) == SubSeq(s, ReadLength(s, limit) + 1, Len(s))

(* client_crlf.                                                            *)
Ask(r) ==
    /\ dict # "ended" /\ dict # "lost"
    /\ Len(asked) < MaxRequests
    /\ asked' = Append(asked, r)
    /\ up' = IF daemon = "gone" THEN up ELSE up \o r.command \o <<CR, NL>>
    /\ UNCHANGED <<dict, lines, received, upOpen, daemon, out, left, heard, signals, cut, down>>

(* Nothing more to ask, or the client is killed, maybe inside a write.     *)
ClientEnds ==
    /\ upOpen
    /\ upOpen' = FALSE
    /\ dict' = "ended"
    /\ \E k \in 0 .. Len(up) : up' = SubSeq(up, 1, k)
    /\ UNCHANGED <<asked, lines, received, daemon, out, left, heard, signals, cut, down>>
----------------------------------------------------------------------------
(* Mutant for InSync: a line that is a dot is not doubled.                 *)
DoubledNever(s, k) == FALSE

(* daemon_crlf: a dot that is a line of its own is doubled.                *)
Doubled(s, k) == s[k] = Dot /\ StartsLine(s, k) /\ k < Len(s) /\ s[k + 1] = NL

LastBreak(s) == IF s # <<>> /\ Last(s) # NL THEN <<CR, NL>> ELSE <<>>

Lined(s, dot) ==
    FlattenSeq([k \in 1 .. Len(s) |->
        IF s[k] = NL THEN <<CR, NL>>
        ELSE IF dot /\ Doubled(s, k) THEN <<Dot, Dot>>
        ELSE <<s[k]>>])

Crlf(s, dot) == Lined(s, dot) \o IF dot THEN LastBreak(s) \o <<Dot, CR, NL>> ELSE <<>>

(* The buffers that answer a request: a status line, the text, and "ok".   *)
(* SHOW INFO writes an entry as it is, and an empty line and the dot after *)
(* it.                                                                     *)
AnswerTo(r) ==
    <<Crlf(<<Follows, NL>>, FALSE)>>
    \o (IF r.info THEN <<Crlf(r.text, FALSE), Crlf(<<NL>>, TRUE)>> ELSE <<Crlf(r.text, TRUE)>>)
    \o <<Crlf(<<Ok, NL>>, FALSE)>>

(* The daemon knows the command; an empty line is not one.                 *)
ReadCommand ==
    /\ daemon = "read"
    /\ Readable(up, CommandLimit, upOpen)
    /\ LineRead(up, CommandLimit) # Eof
    /\ up' = Rest(up, CommandLimit)
    /\ IF LineRead(up, CommandLimit) = <<>>
       THEN UNCHANGED <<daemon, out, left, heard>>
       ELSE /\ heard' = Append(heard, LineRead(up, CommandLimit))
            /\ daemon' = "write"
            /\ out' = IF Len(heard) < Len(asked) THEN AnswerTo(asked[Len(heard) + 1])
                      ELSE <<Crlf(<<Ok, NL>>, FALSE)>>
            /\ left' = Len(Head(out'))
    /\ UNCHANGED <<asked, dict, lines, received, upOpen, signals, cut, down>>

HangUp ==
    /\ daemon = "read"
    /\ Readable(up, CommandLimit, upOpen)
    /\ LineRead(up, CommandLimit) = Eof
    /\ daemon' = "gone"
    /\ UNCHANGED <<asked, dict, lines, received, up, upOpen, out, left, heard, signals, cut, down>>

(* Mutant for ChannelTypes: the count of the buffer before is kept.        *)
NextBufferKeepsLeft ==
    /\ out' = Tail(out)
    /\ left' = left
    /\ daemon' = IF Len(out) > 1 THEN "write" ELSE "read"

(* daemon_write: write() takes all that is left, or, when a signal comes,  *)
(* a part.  What is left is written from the beginning of the buffer.      *)
NextBuffer ==
    /\ out' = Tail(out)
    /\ left' = IF Len(out) > 1 THEN Len(out[2]) ELSE 0
    /\ daemon' = IF Len(out) > 1 THEN "write" ELSE "read"

WriteOut ==
    /\ daemon = "write"
    /\ down' = down \o SubSeq(Head(out), 1, left)
    /\ NextBuffer
    /\ UNCHANGED <<asked, dict, lines, received, up, upOpen, heard, signals, cut>>

WritePart ==
    /\ daemon = "write"
    /\ signals < MaxSignals
    /\ signals' = signals + 1
    /\ cut' = TRUE
    /\ \E count \in 1 .. left - 1 :
        /\ down' = down \o SubSeq(Head(out), 1, count)
        /\ left' = left - count
    /\ UNCHANGED <<asked, dict, lines, received, up, upOpen, daemon, out, heard>>

(* The session is closed, maybe inside a write.                            *)
DaemonEnds ==
    /\ daemon # "gone"
    /\ daemon' = "gone"
    /\ \E k \in 0 .. left : down' = down \o SubSeq(IF out = <<>> THEN <<>> ELSE Head(out), 1, k)
    /\ out' = <<>> /\ left' = 0
    /\ UNCHANGED <<asked, dict, lines, received, up, upOpen, heard, signals, cut>>
----------------------------------------------------------------------------
(* The client reads one reply per request, in order.                       *)
Waiting == dict \in {"status", "text", "final"} /\ Len(received) < Len(asked)
Arrived == Waiting /\ Readable(down, LineLimit, daemon # "gone")
Got == LineRead(down, LineLimit)

(* "Error reading from socket".                                            *)
ReadFails ==
    /\ Arrived
    /\ Got = Eof
    /\ dict' = "ended"
    /\ upOpen' = FALSE
    /\ UNCHANGED <<asked, lines, received, up, daemon, out, left, heard, signals, cut, down>>

(* client_read_status before and after a text; another code ends dict.     *)
ReadStatus ==
    /\ Arrived
    /\ dict \in {"status", "final"}
    /\ Got # Eof
    /\ down' = Rest(down, LineLimit)
    /\ IF dict = "status" /\ Got = <<Follows>>
       THEN dict' = "text" /\ lines' = <<>> /\ UNCHANGED <<received, upOpen>>
       ELSE IF dict = "final" /\ Got = <<Ok>>
       THEN dict' = "status" /\ received' = Append(received, lines) /\ UNCHANGED <<lines, upOpen>>
       ELSE dict' = "lost" /\ upOpen' = FALSE /\ UNCHANGED <<lines, received>>
    /\ UNCHANGED <<asked, up, daemon, out, left, heard, signals, cut>>

(* Mutant for TextsArrive: the second dot is not taken away.               *)
UndottedNever(line) == line

(* client_read_text.  When the limit ends a line, net_read returns 1, the  *)
(* value of the last read(), and the line is cut there.                    *)
Undotted(line) == IF IsPrefix(<<Dot, Dot>>, line) THEN Tail(line) ELSE line
Cut(line) == IF Len(line) = LineLimit THEN <<Head(line)>> ELSE line

ReadText ==
    /\ Arrived
    /\ dict = "text"
    /\ Got # Eof
    /\ down' = Rest(down, LineLimit)
    /\ IF Cut(Got) = <<Dot>>
       THEN dict' = "final" /\ UNCHANGED lines
       ELSE lines' = Append(lines, Undotted(Cut(Got))) /\ UNCHANGED dict
    /\ UNCHANGED <<asked, received, up, upOpen, daemon, out, left, heard, signals, cut>>

ChannelNext ==
    \/ \E r \in Requests : Ask(r)
    \/ ClientEnds
    \/ ReadCommand \/ HangUp \/ WriteOut \/ WritePart \/ DaemonEnds
    \/ ReadFails \/ ReadStatus \/ ReadText

ChannelSpec == ChannelInit /\ [][ChannelNext]_channelVars
----------------------------------------------------------------------------
ChannelTypes ==
    /\ asked \in Seq(Requests)
    /\ dict \in {"status", "text", "final", "ended", "lost"}
    /\ lines \in Seq(Seq(Chars))
    /\ received \in Seq(Seq(Seq(Chars)))
    /\ up \in Seq({"a", CR, NL})
    /\ {upOpen, cut} \subseteq BOOLEAN
    /\ daemon \in {"read", "write", "gone"}
    /\ out \in Seq(Seq(Chars))
    /\ left \in 0 .. (IF out = <<>> THEN 0 ELSE Len(Head(out)))
    /\ heard \in Seq(Seq({"a"}))
    /\ signals \in 0 .. MaxSignals
    /\ down \in Seq(Chars)

(* The daemon carries out the commands the client sent, whole and in       *)
(* order, also those as long as its buffer; but the last, if the client    *)
(* died inside it: the end of file ends a command too.                     *)
CommandsArrive ==
    /\ Len(heard) <= Len(asked)
    /\ \A n \in 1 .. Len(heard) :
        \/ heard[n] = asked[n].command
        \/ ~upOpen /\ n = Len(heard) /\ IsPrefix(heard[n], asked[n].command)

(* Texts for which daemon_crlf and client_read_text agree: lines that fit  *)
(* into the client's buffer, and no line that begins with two dots, which  *)
(* the client alone takes for a doubled one.                               *)
Body(r) == LinesOf(r.text \o (IF r.info THEN <<NL>> ELSE <<>>))

Fits(r) == \A n \in 1 .. Len(Body(r)) : Len(Body(r)[n]) < LineLimit
Dotless(r) ==
    \A n \in 1 .. Len(Body(r)) : ~IsPrefix(IF r.info THEN <<Dot>> ELSE <<Dot, Dot>>, Body(r)[n])

(* A text that was read to its 250 is the text of its request, line by     *)
(* line, unless a signal cut a write short.                                *)
TextsArrive ==
    ~cut => \A n \in 1 .. Len(received) :
                Fits(asked[n]) /\ Dotless(asked[n]) => received[n] = Body(asked[n])

(* The client never takes a line of a text for its end or for a status     *)
(* line, nor the other way round, whatever the lines of a definition begin *)
(* with and wherever the session is cut off.  Not so for a line of one dot *)
(* that SHOW INFO writes, nor at the end of a definition if no line end    *)
(* follows: neither is doubled.                                            *)
BareDot(r, n) ==
    /\ Body(r)[n] = <<Dot>>
    /\ r.info \/ (n = Len(Body(r)) /\ Last(r.text) # NL)

Parted(r) == Fits(r) /\ \A n \in 1 .. Len(Body(r)) : ~BareDot(r, n)

InSync ==
    ~cut /\ (\A n \in 1 .. Len(asked) : Parted(asked[n])) =>
        /\ dict = "lost" => daemon = "gone"
        /\ dict = "status" /\ Len(received) = Len(heard) /\ daemon = "read" => down = <<>>

(* RFC 2229 (doc/rfc2229.txt:323-325): "A single line containing only a    *)
(* period (decimal code 46, ".") is sent to indicate the end of the text". *)
(* Whatever a text holds, the client finds its end, and after it the       *)
(* status line.                                                            *)
EveryTextEnds == ~cut /\ dict = "lost" => daemon = "gone"
=============================================================================
