-------------------------- MODULE DictClient_proofs --------------------------
(***************************************************************************)
(* Theorems about DictClient, for every configuration, every command line, *)
(* every size of the pipe and of the connection, and every server that     *)
(* answers the commands it reads in order.                                 *)
(***************************************************************************)
EXTENDS DictClient, RecursionTheorems

(* Commands with the word that belongs to them.                            *)
Shape(c) ==
    /\ c.op = "connect" => c.word \in Hosts
    /\ c.op \in {"match", "define", "spell", "wind", "defprint"} => c.word \in Words
    /\ c.op = "print" => c.word \in Words \cup {""}
    /\ c.op \in {"client", "auth", "mime", "info", "dbs", "close"} => c.word = ""

Shaped == {c \in Command : Shape(c)}

-----------------------------------------------------------------------------
(* Where a reader of replies is: in the reply to which of the commands he  *)
(* waits for, at which of its lines, and how many matches or definitions   *)
(* it still has.                                                           *)
ReplyStates == [at : Nat \ {0}, pc : {"status", "text", "final", "definition", "deftext"}, left : Nat]
State(a, where, n) == [at |-> a, pc |-> where, left |-> n]
Beginning == State(1, "status", 0)

After(l, s) ==
    CASE s.pc = "status" /\ Follows(l, l.code) = "nothing" -> State(s.at + 1, "status", 0)
      [] s.pc = "status" /\ Follows(l, l.code) # "nothing" ->
           State(s.at, Follows(l, l.code), IF l.op \in {"match", "define"} THEN l.count ELSE 0)
      [] s.pc = "text" -> State(s.at, "final", 0)
      [] s.pc = "final" -> State(s.at + 1, "status", 0)
      [] s.pc = "definition" -> State(s.at, "deftext", s.left)
      [] s.pc = "deftext" /\ s.left = 1 -> State(s.at, "final", 0)
      [] s.pc = "deftext" /\ s.left # 1 -> State(s.at, "definition", s.left - 1)

Alike(c, d) == c.op = d.op /\ c.word = d.word

(* What the line says is what the reader makes of it.                      *)
Fits(l, s) ==
    /\ s.pc = "status" /\ l.op = "match" => (l.count > 0 <=> l.code = 152)
    /\ s.pc = "status" /\ l.op = "define" => (l.count > 0 <=> l.code = 150)
    /\ s.pc = "text" /\ l.op = "match" => l.text \in Seq(Words \cup {Blank}) /\ Len(l.text) >= s.left
    /\ s.pc \in {"definition", "deftext"} => s.left > 0

(* The lines L are the replies to the first of the commands E, from the    *)
(* state s on, and if nothing was lost, the commands to come are the rest. *)
Reads(E, L, s, p) ==
    /\ p \in [1 .. Len(L) + 1 -> ReplyStates]
    /\ p[1] = s
    /\ \A j, k \in 1 .. Len(L) + 1 : j <= k => p[j].at <= p[k].at
    /\ \A k \in 1 .. Len(L) : /\ p[k].at <= Len(E)
                              /\ Alike(L[k], E[p[k].at])
                              /\ Fits(L[k], p[k])
                              /\ p[k + 1] = After(L[k], p[k])

Meets(E, s, P) ==
    /\ s.pc = "status" /\ s.left = 0
    /\ s.at + Len(P) = Len(E) + 1
    /\ \A j \in 1 .. Len(P) : Alike(P[j], E[s.at + j - 1])

Stream(E, L, s, P, o) ==
    \E p : Reads(E, L, s, p) /\ (o => Meets(E, p[Len(L) + 1], P))
-----------------------------------------------------------------------------
(* What the client waits for, what is on its way to it, and what is still  *)
(* to be answered.                                                         *)
Greeting == pc \in {"write", "process"} /\ host # NoHost /\ cmds # <<>> /\ Top.op = "connect"

Sends(c) ==
    \/ c.op \in {"client", "mime", "info", "dbs", "match", "define", "close"}
    \/ c.op = "auth" /\ key

Wired == {c \in Command : c.sent /\ Sends(c)}

First == IF Reading THEN <<cur>> ELSE IF Greeting THEN <<Top>> ELSE <<>>
Expected == First \o Sift(cmds, Wired)
Arriving == toClient \o answer
Pending == (IF open /\ got = <<>> THEN <<Make("connect", host)>> ELSE <<>>) \o toServer \o batch

Where ==
    State(1, IF Reading THEN pc ELSE "status",
          IF pc = "text" /\ cur.op = "match" THEN matches
          ELSE IF pc \in {"definition", "deftext"} THEN count - defs ELSE 0)

StreamInv == Stream(Expected, Arriving, Where, Pending, open \/ pc = "connect")

(* The order of the list, and what of it has been sent.                    *)
Early(c) ==
    \/ c.op \in {"client", "auth", "mime", "info", "dbs"}
    \/ c.op = "print" /\ c.word = ""

Before(c, d) ==
    /\ d.op = "connect" => c.op = "connect"
    /\ Early(d) => Early(c) \/ c.op = "connect"
    /\ c.op = "wind" => d.op # "print"
    /\ d.sent => c.sent

Ordered(s) == \A i, j \in 1 .. Len(s) : i < j => Before(s[i], s[j])

Unstopped(c) == c.op \notin {"spell", "wind"} /\ (c.op = "auth" /\ key => msgid)

ListInv ==
    /\ Ordered(cmds)
    /\ \A k \in 1 .. Len(cmds) : cmds[k].sent => Unstopped(cmds[k])

(* The connection.                                                         *)
Connecting == host = NoHost \/ Greeting \/ (pc = "status" /\ cur.op = "connect")

HostInv ==
    /\ host = NoHost =>
        /\ pc \in {"request", "connect", "process"}
        /\ ~open /\ got = <<>> /\ toServer = <<>> /\ answer = <<>> /\ toClient = <<>>
        /\ cmds # <<>> /\ Top.op = "connect"
        /\ pc # "connect" => \A k \in 1 .. Len(cmds) : ~cmds[k].sent
        /\ pc = "process" => Len(cmds) > 1 /\ cmds[2].op = "connect"
    /\ ~open => toServer = <<>>
    /\ IF Connecting THEN ~msgid /\ \E k \in 1 .. Len(cmds) : cmds[k].op # "connect"
       ELSE \A k \in 1 .. Len(cmds) : cmds[k].op # "connect"
    /\ Greeting => Top.word = host
    /\ pc = "connect" => host = NoHost /\ key = KeyNow
    /\ batch # <<>> => pc \in {"connect", "write"}
    /\ pc \in {"connect", "write"} =>
        /\ toServer = <<>>
        /\ Len(batch) <= 1 \/ Len(batch) <= Pipe
    /\ pc \in {"connect", "write", "process"} =>
        /\ cmds # <<>>
        /\ Top.sent \/ ~Unstopped(Top) \/ (host = NoHost /\ pc = "process")

(* The texts and the definitions read.                                     *)
TextInv ==
    /\ matches > 0 \/ (Reading /\ cur.op = "match") => match
    /\ match =>
        /\ \A k \in 1 .. Len(cmds) : ~Early(cmds[k])
        /\ Reading => ~Early(cur)
    /\ matches > 0 /\ ~(pc = "text" /\ cur.op = "match") =>
        live /\ data \in Seq(Words \cup {Blank}) /\ Len(data) >= matches
    /\ ~live /\ data # NoText => \A k \in 1 .. Len(cmds) : cmds[k].op # "print"
    /\ IF pc \in {"definition", "deftext"} THEN defs < count ELSE defs = count
    /\ pc = "text" => cur.op \in {"info", "dbs", "match"}

ShapeInv ==
    /\ cmds \in Seq(Shaped) /\ cur \in Shaped
    /\ batch \in Seq(Shaped) /\ toServer \in Seq(Shaped)
    /\ \A k \in 1 .. Len(toServer) : toServer[k].op # "connect"
    /\ \A k \in 1 .. Len(batch) : batch[k].op # "connect"
    /\ named \in Words \cup {""}
    /\ open => host \in Hosts

ClientInv ==
    /\ TypeOK /\ ShapeInv
    /\ pc # "ended" => ListInv /\ HostInv /\ TextInv /\ StreamInv
-----------------------------------------------------------------------------
(* One line.                                                               *)
LEMMA AfterType ==
    ASSUME NEW l \in Lines, NEW s \in ReplyStates, Fits(l, s)
    PROVE  /\ After(l, s) \in ReplyStates
           /\ After(l, s).at = s.at \/ After(l, s).at = s.at + 1
<1>1. Follows(l, l.code) \in {"text", "definition", "nothing"}
  BY DEF Follows
<1>2. l.count \in Nat /\ s.at \in Nat \ {0} /\ s.left \in Nat
  BY DEF Lines, ReplyStates
<1>3. CASE s.pc = "status" /\ Follows(l, l.code) = "nothing"
  BY <1>2, <1>3 DEF After, State, ReplyStates
<1>4. CASE s.pc = "status" /\ Follows(l, l.code) # "nothing"
  <2> DEFINE n == IF l.op \in {"match", "define"} THEN l.count ELSE 0
             f == Follows(l, l.code)
  <2>1. n \in Nat /\ f \in {"text", "definition"}
    BY <1>1, <1>2, <1>4
  <2>2. After(l, s) = State(s.at, f, n)
    BY <1>4 DEF After
  <2> HIDE DEF n, f
  <2> QED
    BY <1>2, <2>1, <2>2 DEF State, ReplyStates
<1>5. CASE s.pc \in {"text", "final"}
  BY <1>2, <1>5 DEF After, State, ReplyStates
<1>6. CASE s.pc \in {"definition", "deftext"}
  BY <1>2, <1>6 DEF After, State, ReplyStates, Fits
<1> QED
  BY <1>3, <1>4, <1>5, <1>6 DEF ReplyStates

(* Counted from another command.                                           *)
LEMMA AfterShift ==
    ASSUME NEW l, NEW s \in ReplyStates, NEW t, t = State(s.at - 1, s.pc, s.left)
    PROVE  After(l, t) = State(After(l, s).at - 1, After(l, s).pc, After(l, s).left)
<1>1. t.at = s.at - 1 /\ t.pc = s.pc /\ t.left = s.left /\ s.at \in Nat /\ s.left \in Nat
  BY DEF State, ReplyStates
<1>2. CASE s.pc = "status" /\ Follows(l, l.code) = "nothing"
  <2>1. After(l, s) = State(s.at + 1, "status", 0) /\ After(l, t) = State(t.at + 1, "status", 0)
    BY <1>1, <1>2 DEF After
  <2> QED
    BY <1>1, <2>1 DEF State
<1>3. CASE s.pc = "status" /\ Follows(l, l.code) # "nothing"
  <2> DEFINE n == IF l.op \in {"match", "define"} THEN l.count ELSE 0
             f == Follows(l, l.code)
  <2>1. After(l, s) = State(s.at, f, n) /\ After(l, t) = State(t.at, f, n)
    BY <1>1, <1>3 DEF After
  <2> HIDE DEF n, f
  <2> QED
    BY <1>1, <2>1 DEF State
<1>4. CASE s.pc \in {"text", "final", "definition", "deftext"}
  BY <1>1, <1>4 DEF After, State
<1> QED
  BY <1>2, <1>3, <1>4 DEF ReplyStates

(* The reader takes a line.                                                *)
LEMMA StreamTake ==
    ASSUME NEW E \in Seq(Command), NEW L \in Seq(Lines), L # <<>>, NEW s \in ReplyStates,
           NEW P, NEW o, Stream(E, L, s, P, o)
    PROVE  /\ s.at \in 1 .. Len(E)
           /\ Alike(Head(L), E[s.at]) /\ Fits(Head(L), s)
           /\ Stream(E, Tail(L), After(Head(L), s), P, o)
<1>1. PICK p : Reads(E, L, s, p) /\ (o => Meets(E, p[Len(L) + 1], P))
  BY DEF Stream
<1> DEFINE M == Tail(L)
           n == Len(M)
           q == [k \in 1 .. n + 1 |-> p[k + 1]]
<1>2. /\ Head(L) = L[1] /\ Len(L) \in Nat /\ n \in Nat /\ n + 1 = Len(L)
      /\ \A k \in 1 .. n : M[k] = L[k + 1]
  OBVIOUS
<1>3. s.at \in 1 .. Len(E) /\ Alike(L[1], E[s.at]) /\ Fits(L[1], s) /\ p[2] = After(L[1], s)
  BY <1>1, <1>2 DEF Reads, ReplyStates
<1> HIDE DEF M, n
<1>4. Reads(E, M, p[2], q) /\ q[n + 1] = p[Len(L) + 1]
  <2>1. p \in [1 .. n + 2 -> ReplyStates] /\ \A j, k \in 1 .. n + 2 : j <= k => p[j].at <= p[k].at
    <3>1. Len(L) + 1 = n + 2
      BY <1>2
    <3> QED
      BY <1>1, <3>1 DEF Reads
  <2>2. q \in [1 .. n + 1 -> ReplyStates] /\ q[1] = p[2] /\ q[n + 1] = p[Len(L) + 1]
    BY <1>2, <2>1
  <2>3. ASSUME NEW j \in 1 .. n + 1, NEW k \in 1 .. n + 1, j <= k PROVE q[j].at <= q[k].at
    <3>1. j + 1 \in 1 .. n + 2 /\ k + 1 \in 1 .. n + 2 /\ j + 1 <= k + 1
      BY <1>2, <2>3
    <3> QED
      BY <2>1, <3>1
  <2>4. ASSUME NEW k \in 1 .. n
        PROVE  q[k].at <= Len(E) /\ Alike(M[k], E[q[k].at]) /\ Fits(M[k], q[k]) /\ q[k + 1] = After(M[k], q[k])
    <3>1. k + 1 \in 1 .. Len(L) /\ q[k] = p[k + 1] /\ q[k + 1] = p[(k + 1) + 1] /\ M[k] = L[k + 1]
      BY <1>2
    <3> QED
      BY <1>1, <3>1, Zenon DEF Reads
  <2>5. n = Len(M)
    BY DEF n
  <2> QED
    BY <2>2, <2>3, <2>4, <2>5 DEF Reads
<1>5. Stream(E, M, p[2], P, o)
  BY <1>1, <1>4 DEF Stream, n
<1> QED
  BY <1>2, <1>3, <1>5 DEF M

(* The reply to the first command has been read to its end.                *)
LEMMA StreamShift ==
    ASSUME NEW E \in Seq(Command), E # <<>>, NEW L \in Seq(Lines), NEW P \in Seq(Command), NEW o,
           Stream(E, L, State(2, "status", 0), P, o)
    PROVE  Stream(Tail(E), L, Beginning, P, o)
<1> DEFINE s == State(2, "status", 0)
           F == Tail(E)
           n == Len(L)
<1>1. PICK p : Reads(E, L, s, p) /\ (o => Meets(E, p[n + 1], P))
  BY DEF Stream
<1> DEFINE q == [k \in 1 .. n + 1 |-> State(p[k].at - 1, p[k].pc, p[k].left)]
<1>2. /\ n \in Nat /\ Len(E) \in Nat /\ Len(E) = Len(F) + 1 /\ Len(F) \in Nat /\ Len(P) \in Nat
      /\ \A k \in 1 .. Len(F) : F[k] = E[k + 1]
      /\ s \in ReplyStates /\ s.at = 2
  BY DEF State, ReplyStates
<1> HIDE DEF n, F
<1>3. /\ p \in [1 .. n + 1 -> ReplyStates] /\ p[1] = s
      /\ \A j, k \in 1 .. n + 1 : j <= k => p[j].at <= p[k].at
  BY <1>1 DEF Reads, n
<1>4. \A k \in 1 .. n + 1 : /\ p[k] \in ReplyStates /\ p[k].at \in Nat /\ p[k].at >= 2
                            /\ q[k].at = p[k].at - 1 /\ q[k].pc = p[k].pc /\ q[k].left = p[k].left
                            /\ q[k] \in ReplyStates
  <2> SUFFICES ASSUME NEW k \in 1 .. n + 1
               PROVE  /\ p[k] \in ReplyStates /\ p[k].at \in Nat /\ p[k].at >= 2
                      /\ q[k].at = p[k].at - 1 /\ q[k].pc = p[k].pc /\ q[k].left = p[k].left
                      /\ q[k] \in ReplyStates
    OBVIOUS
  <2>1. 1 \in 1 .. n + 1 /\ 1 <= k
    BY <1>2
  <2>2. p[1].at <= p[k].at /\ p[k] \in ReplyStates
    BY <1>3, <2>1
  <2>3. p[k].at \in Nat /\ p[k].at >= 2
    BY <1>2, <1>3, <2>2 DEF ReplyStates
  <2>4. q[k] = State(p[k].at - 1, p[k].pc, p[k].left)
    OBVIOUS
  <2> QED
    BY <2>2, <2>3, <2>4 DEF State, ReplyStates
<1>5. q[1] = Beginning
  BY <1>2, <1>3 DEF State, Beginning
<1>6. q \in [1 .. n + 1 -> ReplyStates]
  BY <1>4
<1>7. \A j, k \in 1 .. n + 1 : j <= k => q[j].at <= q[k].at
  <2> HIDE DEF q
  <2> SUFFICES ASSUME NEW j \in 1 .. n + 1, NEW k \in 1 .. n + 1, j <= k PROVE q[j].at <= q[k].at
    OBVIOUS
  <2>1. p[j].at <= p[k].at
    BY <1>3
  <2> QED
    BY <1>4, <2>1
<1>8. ASSUME NEW k \in 1 .. n
      PROVE  /\ q[k].at <= Len(F) /\ Alike(L[k], F[q[k].at]) /\ Fits(L[k], q[k])
             /\ q[k + 1] = After(L[k], q[k])
  <2>1. p[k].at <= Len(E) /\ Alike(L[k], E[p[k].at]) /\ Fits(L[k], p[k]) /\ p[k + 1] = After(L[k], p[k])
    BY <1>1, Zenon DEF Reads, n
  <2>2. k \in 1 .. n + 1 /\ k + 1 \in 1 .. n + 1
    BY <1>2
  <2>3. q[k + 1] = State(p[k + 1].at - 1, p[k + 1].pc, p[k + 1].left)
    BY <2>2
  <2>4. /\ p[k].at \in Nat /\ p[k].at >= 2 /\ p[k].left \in Nat
        /\ q[k].at = p[k].at - 1 /\ q[k].pc = p[k].pc /\ q[k].left = p[k].left
    BY <1>4, <2>2 DEF ReplyStates
  <2> HIDE DEF q
  <2>5. q[k].at \in 1 .. Len(F) /\ q[k].at + 1 = p[k].at
    BY <1>2, <2>1, <2>4
  <2>6. F[q[k].at] = E[p[k].at]
    BY <1>2, <2>5
  <2>7. Fits(L[k], q[k])
    BY <2>1, <2>4 DEF Fits
  <2>8. q[k + 1] = After(L[k], q[k])
    <3>1. p[k] \in ReplyStates /\ q[k] \in ReplyStates
      BY <1>4, <2>2
    <3>2. q[k] = State(p[k].at - 1, p[k].pc, p[k].left)
      BY <2>4, <3>1 DEF State, ReplyStates
    <3> QED
      BY <2>1, <2>3, <3>1, <3>2, AfterShift
  <2> QED
    BY <2>1, <2>5, <2>6, <2>7, <2>8
<1>9. Reads(F, L, Beginning, q)
  <2> HIDE DEF q
  <2> QED
    BY <1>5, <1>6, <1>7, <1>8 DEF Reads, n
<1>10. o => Meets(F, q[n + 1], P)
  <2> SUFFICES ASSUME o PROVE Meets(F, q[n + 1], P)
    OBVIOUS
  <2>1. Meets(E, p[n + 1], P)
    BY <1>1
  <2>2. n + 1 \in 1 .. n + 1
    BY <1>2
  <2>3. /\ p[n + 1].at \in Nat /\ p[n + 1].at >= 2
        /\ q[n + 1].at = p[n + 1].at - 1 /\ q[n + 1].pc = p[n + 1].pc /\ q[n + 1].left = p[n + 1].left
    BY <1>4, <2>2
  <2> HIDE DEF q
  <2>4. q[n + 1].at + Len(P) = Len(F) + 1
    <3>1. p[n + 1].at + Len(P) = Len(E) + 1 /\ Len(P) \in Nat
      BY <2>1 DEF Meets
    <3>2. Len(E) = Len(F) + 1 /\ Len(F) \in Nat
      BY <1>2
    <3> DEFINE b == p[n + 1].at
    <3>3. b \in Nat /\ q[n + 1].at = b - 1 /\ b + Len(P) = Len(E) + 1
      BY <2>3, <3>1
    <3> HIDE DEF b
    <3> QED
      BY <3>1, <3>2, <3>3
  <2>5. ASSUME NEW j \in 1 .. Len(P) PROVE Alike(P[j], F[q[n + 1].at + j - 1])
    <3>1. Alike(P[j], E[p[n + 1].at + j - 1])
      BY <2>1 DEF Meets
    <3>2. q[n + 1].at + j - 1 \in 1 .. Len(F) /\ p[n + 1].at + j - 1 = (q[n + 1].at + j - 1) + 1
      <4> DEFINE x == q[n + 1].at
                 y == p[n + 1].at
                 l == Len(F)
                 m == Len(P)
      <4>1. x \in Nat /\ y \in Nat /\ y = x + 1 /\ x >= 1 /\ l \in Nat /\ m \in Nat /\ x + m = l + 1 /\ j \in 1 .. m
        BY <1>2, <2>3, <2>4
      <4> HIDE DEF x, y, l, m
      <4>2. x + j - 1 \in 1 .. l /\ y + j - 1 = (x + j - 1) + 1
        BY <4>1
      <4> QED
        BY <4>2 DEF x, y, l, m
    <3> QED
      BY <1>2, <3>1, <3>2
  <2> QED
    BY <2>1, <2>3, <2>4, <2>5 DEF Meets
<1> QED
  BY <1>9, <1>10 DEF Stream, n, F

(* What has not been delivered is lost.                                    *)
LEMMA StreamCut ==
    ASSUME NEW E \in Seq(Command), NEW a \in Seq(Lines), NEW b \in Seq(Lines), NEW s, NEW P, NEW o, NEW Q,
           Stream(E, a \o b, s, P, o)
    PROVE  Stream(E, a, s, Q, FALSE)
<1> DEFINE L == a \o b
           n == Len(a)
<1>1. PICK p : Reads(E, L, s, p)
  BY DEF Stream
<1>2. /\ n \in Nat /\ Len(L) \in Nat /\ n <= Len(L)
      /\ \A k \in 1 .. n : L[k] = a[k]
  BY ConcatProperties
<1> DEFINE q == [k \in 1 .. n + 1 |-> p[k]]
<1> HIDE DEF L, n
<1>3. /\ p \in [1 .. Len(L) + 1 -> ReplyStates] /\ p[1] = s
      /\ \A j, k \in 1 .. Len(L) + 1 : j <= k => p[j].at <= p[k].at
  BY <1>1 DEF Reads
<1>4. \A k \in 1 .. n + 1 : k \in 1 .. Len(L) + 1 /\ q[k] = p[k]
  BY <1>2
<1>5. q \in [1 .. n + 1 -> ReplyStates] /\ q[1] = s
  BY <1>2, <1>3
<1>6. \A j, k \in 1 .. n + 1 : j <= k => q[j].at <= q[k].at
  BY <1>3, <1>4
<1>7. ASSUME NEW k \in 1 .. n
      PROVE  q[k].at <= Len(E) /\ Alike(a[k], E[q[k].at]) /\ Fits(a[k], q[k]) /\ q[k + 1] = After(a[k], q[k])
  <2>1. k \in 1 .. Len(L) /\ L[k] = a[k] /\ q[k] = p[k] /\ q[k + 1] = p[k + 1]
    BY <1>2
  <2> QED
    BY <1>1, <2>1, Zenon DEF Reads
<1> HIDE DEF q
<1>8. Reads(E, a, s, q)
  BY <1>5, <1>6, <1>7 DEF Reads, n
<1> QED
  BY <1>8 DEF Stream

(* The commands are the same, whether marked as sent or not.               *)
LEMMA StreamAlike ==
    ASSUME NEW E \in Seq(Command), NEW F \in Seq(Command), Len(E) = Len(F),
           \A k \in 1 .. Len(E) : Alike(E[k], F[k]),
           NEW L \in Seq(Lines), NEW s, NEW P \in Seq(Command), NEW o, Stream(E, L, s, P, o)
    PROVE  Stream(F, L, s, P, o)
<1>1. PICK p : Reads(E, L, s, p) /\ (o => Meets(E, p[Len(L) + 1], P))
  BY DEF Stream
<1>2. \A k \in 1 .. Len(L) + 1 : p[k].at \in Nat \ {0}
  BY <1>1 DEF Reads, ReplyStates
<1>3. Len(L) \in Nat /\ Len(E) \in Nat /\ Len(P) \in Nat
  OBVIOUS
<1>4. Reads(F, L, s, p)
  <2>1. ASSUME NEW k \in 1 .. Len(L) PROVE Alike(L[k], F[p[k].at])
    <3>1. p[k].at \in 1 .. Len(E) /\ Alike(L[k], E[p[k].at])
      BY <1>1, <1>2, <1>3 DEF Reads
    <3> QED
      BY <3>1 DEF Alike
  <2> QED
    BY <1>1, <2>1 DEF Reads
<1>5. o => Meets(F, p[Len(L) + 1], P)
  <2> SUFFICES ASSUME o PROVE Meets(F, p[Len(L) + 1], P)
    OBVIOUS
  <2> DEFINE t == p[Len(L) + 1]
  <2>1. t.at \in Nat \ {0}
    BY <1>2, <1>3
  <2>2. Meets(E, t, P)
    BY <1>1
  <2> HIDE DEF t
  <2>3. ASSUME NEW j \in 1 .. Len(P) PROVE Alike(P[j], F[t.at + j - 1])
    <3>1. Alike(P[j], E[t.at + j - 1]) /\ t.at + Len(P) = Len(E) + 1
      BY <2>2 DEF Meets
    <3>2. t.at + j - 1 \in 1 .. Len(E)
      BY <1>3, <2>1, <3>1
    <3> QED
      BY <3>1, <3>2 DEF Alike
  <2>4. Meets(F, t, P)
    BY <2>2, <2>3 DEF Meets
  <2> QED
    BY <2>4 DEF t
<1> QED
  BY <1>4, <1>5 DEF Stream

(* When no reply is expected, none comes, and nothing is to be answered.   *)
LEMMA StreamNothing ==
    ASSUME NEW L \in Seq(Lines), NEW P \in Seq(Command), NEW o, Stream(<<>>, L, Beginning, P, o)
    PROVE  L = <<>> /\ (o => P = <<>>)
<1>1. PICK p : Reads(<<>>, L, Beginning, p) /\ (o => Meets(<<>>, p[Len(L) + 1], P))
  BY DEF Stream
<1>2. p[1] = Beginning /\ Beginning.at = 1 /\ Len(<<>>) = 0 /\ Len(L) \in Nat /\ Len(P) \in Nat
  BY <1>1 DEF Reads, Beginning, State
<1>3. Len(L) = 0
  <2>1. ~(1 \in 1 .. Len(L))
    BY <1>1, <1>2 DEF Reads
  <2> QED
    BY <1>2, <2>1
<1>4. o => Len(P) = 0
  BY <1>1, <1>2, <1>3 DEF Meets
<1> QED
  BY <1>3, <1>4

(* The commands that are written are those that are expected.              *)
LEMMA StreamStart ==
    ASSUME NEW E \in Seq(Command), NEW P \in Seq(Command), NEW o, o => Len(E) = Len(P),
           o => \A k \in 1 .. Len(P) : Alike(P[k], E[k])
    PROVE  Stream(E, <<>>, Beginning, P, o)
<1> DEFINE p == [k \in 1 .. 1 |-> Beginning]
<1>1. Len(<<>>) = 0 /\ Len(P) \in Nat /\ Len(E) \in Nat
  OBVIOUS
<1>2. Beginning \in ReplyStates /\ Beginning.at = 1 /\ Beginning.pc = "status" /\ Beginning.left = 0
  BY DEF Beginning, State, ReplyStates
<1>3. Reads(E, <<>>, Beginning, p)
  BY <1>1, <1>2 DEF Reads
<1>4. o => Meets(E, Beginning, P)
  BY <1>1, <1>2 DEF Meets
<1> QED
  BY <1>1, <1>3, <1>4 DEF Stream

(* A reply to a command is read from its first line to its last.           *)
Path(c, a, R, r) ==
    /\ r \in [1 .. Len(R) + 1 -> ReplyStates]
    /\ r[1] = State(a, "status", 0) /\ r[Len(R) + 1] = State(a + 1, "status", 0)
    /\ \A k \in 1 .. Len(R) : /\ r[k].at = a
                              /\ Alike(R[k], c)
                              /\ Fits(R[k], r[k])
                              /\ r[k + 1] = After(R[k], r[k])

Answered(c, R) ==
    /\ R \in Seq(Lines)
    /\ \A a \in Nat \ {0} : \E r : Path(c, a, R, r)

(* The server writes a reply to the next of the commands to come.          *)
LEMMA StreamJoin ==
    ASSUME NEW E \in Seq(Command), NEW L \in Seq(Lines), NEW s, NEW P \in Seq(Command), P # <<>>,
           NEW R, Answered(Head(P), R), Stream(E, L, s, P, TRUE)
    PROVE  Stream(E, L \o R, s, Tail(P), TRUE)
<1> DEFINE n == Len(L)
           m == Len(R)
           M == L \o R
           c == Head(P)
           Q == Tail(P)
<1>1. PICK p : Reads(E, L, s, p) /\ Meets(E, p[n + 1], P)
  BY DEF Stream
<1>2. R \in Seq(Lines)
  BY DEF Answered
<1>3. /\ n \in Nat /\ m \in Nat /\ M \in Seq(Lines) /\ Len(M) = n + m
      /\ \A k \in 1 .. n : M[k] = L[k]
      /\ \A k \in 1 .. m : M[n + k] = R[k]
  BY <1>2, ConcatProperties
<1>4. /\ c = P[1] /\ Len(P) \in Nat /\ Len(P) = Len(Q) + 1 /\ Len(Q) \in Nat
      /\ \A j \in 1 .. Len(Q) : Q[j] = P[j + 1]
  OBVIOUS
<1> DEFINE a == p[n + 1].at
<1> HIDE DEF n, m, M, c, Q
<1>5. /\ p \in [1 .. n + 1 -> ReplyStates] /\ p[1] = s
      /\ \A j, k \in 1 .. n + 1 : j <= k => p[j].at <= p[k].at
      /\ \A k \in 1 .. n : /\ p[k].at <= Len(E) /\ Alike(L[k], E[p[k].at])
                           /\ Fits(L[k], p[k]) /\ p[k + 1] = After(L[k], p[k])
  BY <1>1 DEF Reads, n
<1>6. /\ p[n + 1].pc = "status" /\ p[n + 1].left = 0 /\ a + Len(P) = Len(E) + 1
      /\ \A j \in 1 .. Len(P) : Alike(P[j], E[a + j - 1])
  BY <1>1 DEF Meets
<1>7. a \in Nat \ {0} /\ p[n + 1] = State(a, "status", 0)
  <2>1. p[n + 1] \in ReplyStates
    BY <1>3, <1>5
  <2> QED
    BY <1>6, <2>1 DEF ReplyStates, State
<1> HIDE DEF a
<1>8. PICK r : Path(c, a, R, r)
  BY <1>7 DEF Answered, c
<1>9. /\ r \in [1 .. m + 1 -> ReplyStates]
      /\ r[1] = State(a, "status", 0) /\ r[m + 1] = State(a + 1, "status", 0)
      /\ \A k \in 1 .. m : r[k].at = a /\ Alike(R[k], c) /\ Fits(R[k], r[k]) /\ r[k + 1] = After(R[k], r[k])
  BY <1>8 DEF Path, m
<1>10. a <= Len(E) /\ Alike(c, E[a]) /\ Len(E) \in Nat
  <2>1. a <= Len(E) /\ 1 \in 1 .. Len(P) /\ a + 1 - 1 = a /\ Len(E) \in Nat
    BY <1>4, <1>6, <1>7
  <2> QED
    BY <1>4, <1>6, <2>1
<1> DEFINE q == [k \in 1 .. (n + m) + 1 |-> IF k <= n THEN p[k] ELSE r[k - n]]
<1>11. \A k \in 1 .. n + 1 : q[k] = p[k]
  <2> SUFFICES ASSUME NEW k \in 1 .. n + 1 PROVE q[k] = p[k]
    OBVIOUS
  <2>1. k \in 1 .. (n + m) + 1
    BY <1>3
  <2>2. CASE k <= n
    BY <2>1, <2>2
  <2>3. CASE ~(k <= n)
    <3>1. k = n + 1 /\ k - n = 1
      BY <1>3, <2>3
    <3> QED
      BY <1>7, <1>9, <2>1, <2>3, <3>1
  <2> QED
    BY <2>2, <2>3
<1>12. \A k \in 1 .. m + 1 : q[n + k] = r[k]
  BY <1>3
<1>13. ASSUME NEW k \in 1 .. (n + m) + 1
       PROVE  k \in 1 .. n \/ (k - n \in 1 .. m + 1 /\ k = n + (k - n))
  BY <1>3
<1>14. q \in [1 .. (n + m) + 1 -> ReplyStates]
  <2> SUFFICES ASSUME NEW k \in 1 .. (n + m) + 1 PROVE (IF k <= n THEN p[k] ELSE r[k - n]) \in ReplyStates
    OBVIOUS
  <2>1. CASE k <= n
    <3>1. k \in 1 .. n + 1
      BY <1>3, <2>1
    <3> QED
      BY <1>5, <2>1, <3>1
  <2>2. CASE ~(k <= n)
    BY <1>3, <1>9, <2>2
  <2> QED
    BY <2>1, <2>2
<1> HIDE DEF q
<1>15. q[1] = s
  BY <1>3, <1>5, <1>11
<1>16. \A k \in 1 .. n + 1 : q[k].at <= a /\ q[k].at \in Nat
  <2> SUFFICES ASSUME NEW k \in 1 .. n + 1 PROVE q[k].at <= a /\ q[k].at \in Nat
    OBVIOUS
  <2>1. q[k] = p[k] /\ p[k] \in ReplyStates
    BY <1>5, <1>11
  <2>2. p[k].at \in Nat
    BY <2>1 DEF ReplyStates
  <2>3. n + 1 \in 1 .. n + 1 /\ k <= n + 1
    BY <1>3
  <2>4. p[k].at <= p[n + 1].at
    BY <1>5, <2>3
  <2> QED
    BY <2>1, <2>2, <2>4 DEF a
<1>17. \A k \in 1 .. m : q[n + k].at = a
  <2>1. \A k \in 1 .. m : k \in 1 .. m + 1
    BY <1>3
  <2> QED
    BY <1>9, <1>12, <2>1
<1>18. q[(n + m) + 1].at = a + 1
  <2>1. m + 1 \in 1 .. m + 1 /\ (n + m) + 1 = n + (m + 1)
    BY <1>3
  <2> QED
    BY <1>9, <1>12, <2>1 DEF State
<1>19. \A j, k \in 1 .. (n + m) + 1 : j <= k => q[j].at <= q[k].at
  <2> SUFFICES ASSUME NEW j \in 1 .. (n + m) + 1, NEW k \in 1 .. (n + m) + 1, j <= k
               PROVE  q[j].at <= q[k].at
    OBVIOUS
  <2>1. \A i \in 1 .. (n + m) + 1 : q[i].at \in Nat /\ q[i].at <= a + 1
    <3> SUFFICES ASSUME NEW i \in 1 .. (n + m) + 1 PROVE q[i].at \in Nat /\ q[i].at <= a + 1
      OBVIOUS
    <3>1. i \in 1 .. n \/ i - n \in 1 .. m \/ i = (n + m) + 1
      BY <1>3
    <3>2. CASE i \in 1 .. n
      <4>1. i \in 1 .. n + 1
        BY <1>3, <3>2
      <4> QED
        BY <1>7, <1>16, <4>1
    <3>3. CASE i - n \in 1 .. m
      <4>1. i = n + (i - n)
        BY <1>3
      <4> QED
        BY <1>7, <1>17, <3>3, <4>1
    <3>4. CASE i = (n + m) + 1
      BY <1>7, <1>18, <3>4
    <3> QED
      BY <3>1, <3>2, <3>3, <3>4
  <2>2. CASE k = (n + m) + 1
    BY <1>18, <2>1, <2>2
  <2>3. CASE k \in 1 .. n + 1
    <3>1. j \in 1 .. n + 1
      BY <1>3, <2>3
    <3> QED
      BY <1>5, <1>11, <2>3, <3>1
  <2>4. CASE k - n \in 1 .. m
    <3>1. q[k].at = a
      <4>1. k = n + (k - n)
        BY <1>3
      <4> QED
        BY <1>17, <2>4, <4>1
    <3>2. q[j].at <= a
      <4>1. CASE j \in 1 .. n + 1
        BY <1>16, <4>1
      <4>2. CASE j - n \in 1 .. m
        <5>1. j = n + (j - n)
          BY <1>3
        <5> QED
          BY <1>7, <1>17, <4>2, <5>1
      <4> QED
        BY <1>3, <2>4, <4>1, <4>2
    <3> QED
      BY <3>1, <3>2
  <2>5. k = (n + m) + 1 \/ k \in 1 .. n + 1 \/ k - n \in 1 .. m
    BY <1>3
  <2> QED
    BY <2>2, <2>3, <2>4, <2>5
<1>20. ASSUME NEW k \in 1 .. n + m
       PROVE  q[k].at <= Len(E) /\ Alike(M[k], E[q[k].at]) /\ Fits(M[k], q[k]) /\ q[k + 1] = After(M[k], q[k])
  <2>1. CASE k \in 1 .. n
    <3>1. k \in 1 .. n + 1 /\ k + 1 \in 1 .. n + 1
      BY <1>3, <2>1
    <3>2. q[k] = p[k] /\ q[k + 1] = p[k + 1] /\ M[k] = L[k]
      BY <1>3, <1>11, <2>1, <3>1
    <3> QED
      BY <1>5, <2>1, <3>2
  <2>2. CASE k - n \in 1 .. m
    <3> DEFINE i == k - n
    <3>1. i \in 1 .. m + 1 /\ i + 1 \in 1 .. m + 1 /\ k = n + i /\ k + 1 = n + (i + 1)
      BY <1>3, <2>2
    <3>2. q[k] = r[i] /\ q[k + 1] = r[i + 1] /\ M[k] = R[i]
      <4> HIDE DEF i
      <4>1. i \in 1 .. m
        BY <2>2 DEF i
      <4> QED
        BY <1>3, <1>12, <3>1, <4>1
    <3>3. r[i].at = a /\ Alike(R[i], c) /\ Fits(R[i], r[i]) /\ r[i + 1] = After(R[i], r[i])
      BY <1>9, <2>2
    <3> HIDE DEF i
    <3> QED
      BY <1>10, <3>2, <3>3 DEF Alike
  <2> QED
    BY <1>3, <2>1, <2>2
<1>21. Reads(E, M, s, q)
  BY <1>3, <1>14, <1>15, <1>19, <1>20 DEF Reads
<1>22. Meets(E, q[(n + m) + 1], Q)
  <2>1. m + 1 \in 1 .. m + 1 /\ (n + m) + 1 = n + (m + 1)
    BY <1>3
  <2>2. q[(n + m) + 1] = State(a + 1, "status", 0)
    BY <1>9, <1>12, <2>1
  <2>3. ASSUME NEW j \in 1 .. Len(Q) PROVE Alike(Q[j], E[(a + 1) + j - 1])
    <3>1. j + 1 \in 1 .. Len(P) /\ a + (j + 1) - 1 = (a + 1) + j - 1
      BY <1>4, <1>7
    <3> QED
      BY <1>4, <1>6, <3>1
  <2>4. (a + 1) + Len(Q) = Len(E) + 1
    BY <1>4, <1>6, <1>7, <1>10
  <2> QED
    BY <2>2, <2>3, <2>4 DEF Meets, State
<1> QED
  BY <1>3, <1>21, <1>22 DEF Stream, M, Q

(* What the server writes is such a reply: a line, a text, or definitions. *)
LEMMA ReplyLine ==
    ASSUME NEW c \in Command, NEW code \in Nat, NEW n \in Nat, NEW t \in Seq(Words \cup {Blank, "info", "dbs"})
    PROVE  /\ Reply(c, code, n, t) \in Lines
           /\ Alike(Reply(c, code, n, t), c)
           /\ Reply(c, code, n, t).code = code /\ Reply(c, code, n, t).count = n
           /\ Reply(c, code, n, t).text = t
  BY DEF Reply, Lines, Command, Alike

LEMMA EmptyLine ==
    ASSUME NEW c \in Command, NEW code \in Nat, NEW n \in Nat
    PROVE  /\ Reply(c, code, n, <<>>) \in Lines
           /\ Alike(Reply(c, code, n, <<>>), c)
           /\ Reply(c, code, n, <<>>).code = code /\ Reply(c, code, n, <<>>).count = n
<1> DEFINE e == <<>>
<1>1. e \in Seq(Words \cup {Blank, "info", "dbs"})
  OBVIOUS
<1> HIDE DEF e
<1>2. /\ Reply(c, code, n, e) \in Lines
      /\ Alike(Reply(c, code, n, e), c)
      /\ Reply(c, code, n, e).code = code /\ Reply(c, code, n, e).count = n
  BY <1>1, ReplyLine
<1> QED
  BY <1>2 DEF e

LEMMA OneLine ==
    ASSUME NEW c \in Command, NEW code \in Nat, NEW n \in Nat, n # 0 => c.op = "connect",
           Follows(c, code) = "nothing"
    PROVE  Answered(c, <<Reply(c, code, n, <<>>)>>)
<1> DEFINE l == Reply(c, code, n, <<>>)
           R == <<l>>
<1>1. l \in Lines /\ Alike(l, c) /\ l.code = code /\ l.count = n
  BY EmptyLine
<1> HIDE DEF l
<1>2. R \in Seq(Lines) /\ Len(R) = 1 /\ R[1] = l
  BY <1>1
<1> HIDE DEF R
<1>3. Follows(l, l.code) = "nothing"
  BY <1>1 DEF Follows, Alike
<1>4. ASSUME NEW a \in Nat \ {0} PROVE \E r : Path(c, a, R, r)
  <2> DEFINE s == State(a, "status", 0)
             e == State(a + 1, "status", 0)
             r == [k \in 1 .. 2 |-> IF k = 1 THEN s ELSE e]
  <2>1. r[1] = s /\ r[2] = e /\ s \in ReplyStates /\ e \in ReplyStates /\ s.at = a /\ s.pc = "status"
    BY DEF State, ReplyStates
  <2>2. r \in [1 .. 2 -> ReplyStates]
    BY <2>1
  <2>3. e = After(l, s)
    BY <1>3, <2>1 DEF After
  <2>4. Fits(l, s)
    <3>1. l.op = c.op
      BY <1>1 DEF Alike
    <3>2. l.op = "match" => l.count = 0 /\ l.code # 152
      BY <1>1, <1>3, <3>1 DEF Follows
    <3>3. l.op = "define" => l.count = 0 /\ l.code # 150
      BY <1>1, <1>3, <3>1 DEF Follows
    <3> QED
      BY <2>1, <3>2, <3>3 DEF Fits
  <2> HIDE DEF r, s, e
  <2>5. Path(c, a, R, r)
    BY <1>1, <1>2, <2>1, <2>2, <2>3, <2>4 DEF Path, s, e
  <2> QED
    BY <2>5
<1> QED
  BY <1>2, <1>4 DEF Answered, R, l

LEMMA TextReply ==
    ASSUME NEW c \in Command, NEW code \in Nat, NEW n \in Nat, NEW t \in Seq(Words \cup {Blank, "info", "dbs"}),
           Follows(c, code) = "text",
           c.op = "match" => n > 0 /\ t \in Seq(Words \cup {Blank}) /\ Len(t) >= n
    PROVE  Answered(c, <<Reply(c, code, n, <<>>), Reply(c, 0, 0, t), Reply(c, 250, 0, <<>>)>>)
<1> DEFINE l == Reply(c, code, n, <<>>)
           u == Reply(c, 0, 0, t)
           v == Reply(c, 250, 0, <<>>)
           R == <<l, u, v>>
<1>1. /\ l \in Lines /\ Alike(l, c) /\ l.code = code /\ l.count = n
      /\ u \in Lines /\ Alike(u, c) /\ u.text = t
      /\ v \in Lines /\ Alike(v, c)
  <2>1. l \in Lines /\ Alike(l, c) /\ l.code = code /\ l.count = n
    BY EmptyLine
  <2>2. u \in Lines /\ Alike(u, c) /\ u.text = t
    BY ReplyLine
  <2>3. v \in Lines /\ Alike(v, c)
    BY EmptyLine
  <2> QED
    BY <2>1, <2>2, <2>3
<1> HIDE DEF l, u, v
<1>2. R \in Seq(Lines) /\ Len(R) = 3 /\ R[1] = l /\ R[2] = u /\ R[3] = v
  BY <1>1
<1> HIDE DEF R
<1>3. Follows(l, l.code) = "text" /\ c.op \in {"info", "dbs", "match"} /\ (c.op = "match" => code = 152)
  BY <1>1 DEF Follows, Alike
<1>4. ASSUME NEW a \in Nat \ {0} PROVE \E r : Path(c, a, R, r)
  <2> DEFINE m == IF l.op \in {"match", "define"} THEN l.count ELSE 0
             s == State(a, "status", 0)
             w == State(a, "text", m)
             x == State(a, "final", 0)
             e == State(a + 1, "status", 0)
             r == [k \in 1 .. 4 |-> CASE k = 1 -> s [] k = 2 -> w [] k = 3 -> x [] k = 4 -> e]
  <2>1. m \in Nat
    BY <1>1
  <2>2. /\ s \in ReplyStates /\ w \in ReplyStates /\ x \in ReplyStates /\ e \in ReplyStates
        /\ s.at = a /\ w.at = a /\ x.at = a
        /\ s.pc = "status" /\ w.pc = "text" /\ w.left = m /\ x.pc = "final"
    BY <2>1 DEF State, ReplyStates
  <2>3. r[1] = s /\ r[2] = w /\ r[3] = x /\ r[4] = e
    OBVIOUS
  <2>4. r \in [1 .. 4 -> ReplyStates]
    <3> HIDE DEF s, w, x, e
    <3> SUFFICES ASSUME NEW k \in 1 .. 4 PROVE r[k] \in ReplyStates
      BY Zenon
    <3>1. k = 1 \/ k = 2 \/ k = 3 \/ k = 4
      OBVIOUS
    <3> QED
      BY <2>2, <2>3, <3>1
  <2>5. w = After(l, s)
    BY <1>3, <2>2 DEF After
  <2>6. x = After(u, w) /\ e = After(v, x)
    BY <2>2 DEF After
  <2>7. Fits(l, s) /\ Fits(u, w) /\ Fits(v, x)
    <3>1. l.op = c.op /\ u.op = c.op /\ v.op = c.op
      BY <1>1 DEF Alike
    <3>2. l.op = "match" => l.count > 0 /\ l.code = 152
      BY <1>1, <1>3, <3>1
    <3>3. l.op # "define"
      BY <1>3, <3>1
    <3>4. u.op = "match" => u.text \in Seq(Words \cup {Blank}) /\ Len(u.text) >= w.left
      BY <1>1, <2>2, <3>1
    <3> HIDE DEF m, s, w, x, e
    <3> QED
      BY <2>2, <3>2, <3>3, <3>4 DEF Fits
  <2> HIDE DEF r, s, w, x, e
  <2>8. ASSUME NEW k \in 1 .. 3
        PROVE  r[k].at = a /\ Alike(R[k], c) /\ Fits(R[k], r[k]) /\ r[k + 1] = After(R[k], r[k])
    <3>1. k = 1 \/ k = 2 \/ k = 3
      OBVIOUS
    <3> QED
      BY <1>1, <1>2, <2>2, <2>3, <2>5, <2>6, <2>7, <3>1
  <2>9. Path(c, a, R, r)
    BY <1>2, <2>3, <2>4, <2>8 DEF Path, s, e
  <2> QED
    BY <2>9
<1> QED
  BY <1>2, <1>4 DEF Answered, R, l, u, v

LEMMA DefinitionsReply ==
    ASSUME NEW c \in Command, c.op = "define", NEW n \in Nat, n > 0, NEW R,
           R = <<Reply(c, 150, n, <<>>)>>
               \o [k \in 1 .. 2 * n |-> Reply(c, IF k % 2 = 1 THEN 151 ELSE 0, 0, <<>>)]
               \o <<Reply(c, 250, 0, <<>>)>>
    PROVE  Answered(c, R)
<1> DEFINE l == Reply(c, 150, n, <<>>)
           d(k) == Reply(c, IF k % 2 = 1 THEN 151 ELSE 0, 0, <<>>)
           D == [k \in 1 .. 2 * n |-> d(k)]
           v == Reply(c, 250, 0, <<>>)
           one == <<l>>
           last == <<v>>
           m == 2 * n + 2
<1>1. l \in Lines /\ Alike(l, c) /\ l.code = 150 /\ l.count = n
  BY EmptyLine
<1>2. v \in Lines /\ Alike(v, c)
  BY EmptyLine
<1>3. \A k \in 1 .. 2 * n : d(k) \in Lines /\ Alike(d(k), c)
  <2> SUFFICES ASSUME NEW k \in 1 .. 2 * n PROVE d(k) \in Lines /\ Alike(d(k), c)
    OBVIOUS
  <2> DEFINE code == IF k % 2 = 1 THEN 151 ELSE 0
  <2>1. code \in Nat
    OBVIOUS
  <2> HIDE DEF code
  <2>2. Reply(c, code, 0, <<>>) \in Lines /\ Alike(Reply(c, code, 0, <<>>), c)
    BY <2>1, EmptyLine
  <2> QED
    BY <2>2 DEF code
<1> HIDE DEF l, v, d
<1>4. one \in Seq(Lines) /\ D \in Seq(Lines) /\ last \in Seq(Lines) /\ Len(one) = 1 /\ Len(last) = 1
      /\ Len(D) = 2 * n /\ one[1] = l /\ last[1] = v /\ \A k \in 1 .. 2 * n : D[k] = d(k)
  BY <1>1, <1>2, <1>3
<1>5. R = (one \o D) \o last
  BY DEF l, v, d
<1> HIDE DEF one, last, D
<1>6. /\ R \in Seq(Lines) /\ Len(R) = m /\ R[1] = l /\ R[m] = v
      /\ \A k \in 2 .. 2 * n + 1 : R[k] \in Lines /\ Alike(R[k], c)
  <2> DEFINE A == one \o D
  <2>1. /\ A \in Seq(Lines) /\ Len(A) = 2 * n + 1 /\ A[1] = l
        /\ \A k \in 2 .. 2 * n + 1 : A[k] = D[k - 1]
    <3>1. /\ A \in Seq(Lines)
          /\ Len(A) = Len(one) + Len(D)
          /\ \A i \in 1 .. Len(one) + Len(D) : A[i] = IF i <= Len(one) THEN one[i] ELSE D[i - Len(one)]
      BY <1>4, ConcatProperties
    <3> HIDE DEF A
    <3>2. Len(one) = 1 /\ Len(D) = 2 * n /\ one[1] = l
      BY <1>4
    <3>3. Len(A) = 2 * n + 1 /\ \A i \in 1 .. 2 * n + 1 : A[i] = IF i <= 1 THEN one[i] ELSE D[i - 1]
      BY <3>1, <3>2
    <3>4. ASSUME NEW k \in 2 .. 2 * n + 1 PROVE A[k] = D[k - 1]
      <4>1. k \in 1 .. 2 * n + 1 /\ ~(k <= 1)
        OBVIOUS
      <4> QED
        BY <3>3, <4>1
    <3>5. A[1] = l
      BY <3>2, <3>3
    <3> QED
      BY <3>1, <3>3, <3>4, <3>5
  <2> HIDE DEF A
  <2>2. /\ A \o last \in Seq(Lines) /\ Len(A \o last) = 2 * n + 2
        /\ \A k \in 1 .. 2 * n + 1 : (A \o last)[k] = A[k]
        /\ (A \o last)[2 * n + 2] = last[1]
    <3> DEFINE C == A \o last
    <3>1. /\ C \in Seq(Lines)
          /\ Len(C) = Len(A) + Len(last)
          /\ \A i \in 1 .. Len(A) + Len(last) : C[i] = IF i <= Len(A) THEN A[i] ELSE last[i - Len(A)]
      BY <1>4, <2>1, ConcatProperties
    <3> HIDE DEF C
    <3>2. C \in Seq(Lines) /\ Len(C) = 2 * n + 2 /\ (\A k \in 1 .. 2 * n + 1 : C[k] = A[k]) /\ C[2 * n + 2] = last[1]
      BY <1>4, <2>1, <3>1
    <3> QED
      BY <3>2 DEF C
  <2>3. \A k \in 2 .. 2 * n + 1 : k - 1 \in 1 .. 2 * n /\ k \in 1 .. 2 * n + 1
    OBVIOUS
  <2>4. R \in Seq(Lines) /\ Len(R) = 2 * n + 2 /\ (\A k \in 1 .. 2 * n + 1 : R[k] = A[k]) /\ R[2 * n + 2] = last[1]
    BY <1>5, <2>2 DEF A
  <2>5. R[1] = l
    BY <2>1, <2>4
  <2>6. ASSUME NEW k \in 2 .. 2 * n + 1 PROVE R[k] \in Lines /\ Alike(R[k], c)
    <3>1. k - 1 \in 1 .. 2 * n /\ k \in 1 .. 2 * n + 1
      BY <2>3
    <3>2. R[k] = A[k] /\ A[k] = D[k - 1] /\ D[k - 1] = d(k - 1)
      <4>1. R[k] = A[k]
        BY <2>4, <3>1
      <4>2. A[k] = D[k - 1]
        BY <2>1
      <4>3. D[k - 1] = d(k - 1)
        BY <1>4, <3>1
      <4> QED
        BY <4>1, <4>2, <4>3
    <3>3. d(k - 1) \in Lines /\ Alike(d(k - 1), c)
      BY <1>3, <3>1
    <3> QED
      BY <3>2, <3>3
  <2> QED
    BY <1>4, <2>4, <2>5, <2>6
<1> HIDE DEF m
<1>7. m = 2 * n + 2 /\ m \in Nat
  BY DEF m
<1>8. ASSUME NEW a \in Nat \ {0} PROVE \E r : Path(c, a, R, r)
  <2> DEFINE s == State(a, "status", 0)
             x(k) == State(a, IF k % 2 = 0 THEN "definition" ELSE "deftext", n - (k \div 2) + 1)
             f == State(a, "final", 0)
             e == State(a + 1, "status", 0)
             r == [k \in 1 .. m + 1 |-> IF k = 1 THEN s ELSE IF k = m THEN f ELSE IF k = m + 1 THEN e ELSE x(k)]
  <2>1. /\ s \in ReplyStates /\ f \in ReplyStates /\ e \in ReplyStates
        /\ s.at = a /\ f.at = a /\ s.pc = "status" /\ f.pc = "final"
    BY DEF State, ReplyStates
  <2>2. \A k \in 2 .. 2 * n + 1 : /\ x(k) \in ReplyStates /\ x(k).at = a
                                  /\ x(k).pc \in {"definition", "deftext"} /\ x(k).left > 0
    <3> SUFFICES ASSUME NEW k \in 2 .. 2 * n + 1
                 PROVE  /\ x(k) \in ReplyStates /\ x(k).at = a
                        /\ x(k).pc \in {"definition", "deftext"} /\ x(k).left > 0
      OBVIOUS
    <3>1. n - (k \div 2) + 1 \in Nat /\ n - (k \div 2) + 1 > 0
      OBVIOUS
    <3> QED
      BY <3>1 DEF State, ReplyStates
  <2>3. r[1] = s /\ r[m] = f /\ r[m + 1] = e /\ \A k \in 2 .. 2 * n + 1 : r[k] = x(k)
    BY <1>7
  <2> HIDE DEF s, x, f, e
  <2>4. r \in [1 .. m + 1 -> ReplyStates]
    BY <1>7, <2>1, <2>2
  <2> HIDE DEF r
  <2>5. x(2) = After(l, s)
    <3>1. Follows(l, l.code) = "definition" /\ l.op = "define"
      BY <1>1 DEF Follows, Alike
    <3>2. n - (2 \div 2) + 1 = n /\ 2 % 2 = 0
      OBVIOUS
    <3> QED
      BY <1>1, <2>1, <3>1, <3>2 DEF After, x, State
  <2>6. ASSUME NEW k \in 2 .. 2 * n PROVE x(k + 1) = After(R[k], x(k))
    <3>1. CASE k % 2 = 0
      <4>1. (k + 1) % 2 = 1 /\ (k + 1) \div 2 = k \div 2
        BY <3>1
      <4>2. x(k) = State(a, "definition", n - (k \div 2) + 1)
        BY <3>1 DEF x
      <4>3. x(k + 1) = State(a, "deftext", n - (k \div 2) + 1)
        BY <4>1 DEF x
      <4> QED
        BY <4>2, <4>3 DEF After, State
    <3>2. CASE k % 2 = 1
      <4>1. (k + 1) % 2 = 0 /\ (k + 1) \div 2 = (k \div 2) + 1 /\ k \div 2 \in Nat /\ k \div 2 # n
        BY <3>2
      <4>2. x(k) = State(a, "deftext", n - (k \div 2) + 1)
        BY <3>2 DEF x
      <4>3. x(k + 1) = State(a, "definition", (n - (k \div 2) + 1) - 1)
        BY <4>1 DEF x
      <4>4. n - (k \div 2) + 1 # 1
        BY <4>1
      <4> QED
        BY <4>2, <4>3, <4>4 DEF After, State
    <3> QED
      BY <3>1, <3>2
  <2>7. f = After(R[2 * n + 1], x(2 * n + 1))
    <3> DEFINE k == 2 * n + 1
    <3>1. k % 2 = 1 /\ n - (k \div 2) + 1 = 1
      OBVIOUS
    <3> HIDE DEF k
    <3>2. x(k) = State(a, "deftext", 1)
      <4>1. x(k) = State(a, "deftext", n - (k \div 2) + 1)
        BY <3>1 DEF x
      <4> QED
        BY <3>1, <4>1
    <3> QED
      BY <3>2 DEF After, State, f, k
  <2>8. e = After(v, f)
    BY <2>1 DEF After, e
  <2>9. Fits(l, s) /\ Fits(v, f)
    <3>1. l.op = "define" /\ l.count > 0 /\ l.code = 150
      BY <1>1 DEF Alike
    <3> QED
      BY <2>1, <3>1 DEF Fits
  <2>10. \A k \in 2 .. 2 * n + 1 : Fits(R[k], x(k))
    BY <2>2 DEF Fits
  <2>11. ASSUME NEW k \in 1 .. m
         PROVE  r[k].at = a /\ Alike(R[k], c) /\ Fits(R[k], r[k]) /\ r[k + 1] = After(R[k], r[k])
    <3>1. CASE k = 1
      <4>1. r[k] = s /\ R[k] = l /\ r[k + 1] = x(2)
        BY <1>6, <2>3, <3>1
      <4>2. s.at = a /\ Alike(l, c)
        BY <1>1, <2>1
      <4> QED
        BY <2>5, <2>9, <4>1, <4>2, Zenon
    <3>2. CASE k \in 2 .. 2 * n
      <4>1. r[k] = x(k) /\ r[k + 1] = x(k + 1) /\ k \in 2 .. 2 * n + 1
        BY <2>3, <3>2
      <4> QED
        BY <1>6, <2>2, <2>6, <2>10, <3>2, <4>1
    <3>3. CASE k = 2 * n + 1
      <4>1. r[k] = x(k) /\ k + 1 = m /\ k \in 2 .. 2 * n + 1
        BY <1>7, <2>3, <3>3
      <4>2. r[k + 1] = f
        BY <2>3, <4>1
      <4> QED
        BY <1>6, <2>2, <2>7, <2>10, <3>3, <4>1, <4>2
    <3>4. CASE k = m
      BY <1>2, <1>6, <2>1, <2>3, <2>8, <2>9, <3>4
    <3>5. k = 1 \/ k \in 2 .. 2 * n \/ k = 2 * n + 1 \/ k = m
      BY <1>7
    <3> QED
      BY <3>1, <3>2, <3>3, <3>4, <3>5
  <2>12. Path(c, a, R, r)
    <3>1. Len(R) = m
      BY <1>6
    <3>2. r[1] = State(a, "status", 0) /\ r[Len(R) + 1] = State(a + 1, "status", 0)
      BY <2>3, <3>1 DEF s, e
    <3>3. r \in [1 .. Len(R) + 1 -> ReplyStates]
      BY <2>4, <3>1
    <3>4. \A k \in 1 .. Len(R) : r[k].at = a /\ Alike(R[k], c) /\ Fits(R[k], r[k]) /\ r[k + 1] = After(R[k], r[k])
      BY <2>11, <3>1
    <3> QED
      BY <3>2, <3>3, <3>4 DEF Path
  <2> QED
    BY <2>12
<1> QED
  BY <1>6, <1>8 DEF Answered

LEMMA AnswersFit ==
    ASSUME NEW c \in Shaped, NEW R \in Answers(c)
    PROVE  Answered(c, R)
<1>1. c \in Command
  BY DEF Shaped
<1>2. ASSUME NEW codes \in SUBSET Nat, \A code \in codes : Follows(c, code) = "nothing", R \in Single(c, codes)
      PROVE  Answered(c, R)
  <2>1. PICK code \in codes : R = <<Reply(c, code, 0, <<>>)>>
    BY <1>2 DEF Single
  <2>2. Follows(c, code) = "nothing" /\ code \in Nat /\ 0 \in Nat
    BY <1>2
  <2> QED
    BY <1>1, <2>1, <2>2, OneLine
<1>3. ASSUME NEW code \in Nat, NEW n \in Nat, NEW t \in Seq(Words \cup {"info", "dbs"}),
             Follows(c, code) = "text",
             c.op = "match" => n > 0 /\ t \in Seq(Words) /\ Len(t) >= n,
             R \in WithText(c, code, n, t)
      PROVE  Answered(c, R)
  <2> DEFINE u == If(MimeOn, <<Blank>>) \o t
  <2>1. /\ u \in Seq(Words \cup {Blank, "info", "dbs"})
        /\ c.op = "match" => n > 0 /\ u \in Seq(Words \cup {Blank}) /\ Len(u) >= n
    <3>1. CASE MimeOn
      <4> DEFINE b == <<Blank>>
      <4>1. b \in Seq(Words \cup {Blank, "info", "dbs"}) /\ b \in Seq(Words \cup {Blank}) /\ Len(b) = 1
        OBVIOUS
      <4>2. u = b \o t
        BY <3>1 DEF If
      <4>3. t \in Seq(Words \cup {Blank, "info", "dbs"})
        BY SeqMonotonic, Words \cup {"info", "dbs"} \subseteq Words \cup {Blank, "info", "dbs"}
      <4>4. c.op = "match" => t \in Seq(Words \cup {Blank})
        BY <1>3, SeqMonotonic, Words \subseteq Words \cup {Blank}
      <4> HIDE DEF b, u
      <4>5. u \in Seq(Words \cup {Blank, "info", "dbs"}) /\ Len(u) = 1 + Len(t) /\ Len(t) \in Nat
        <5>1. b \o t \in Seq(Words \cup {Blank, "info", "dbs"}) /\ Len(b \o t) = Len(b) + Len(t)
          BY <4>1, <4>3, ConcatProperties
        <5> QED
          BY <4>1, <4>2, <5>1
      <4>6. c.op = "match" => u \in Seq(Words \cup {Blank})
        BY <4>1, <4>2, <4>4, ConcatProperties
      <4> QED
        BY <1>3, <4>5, <4>6
    <3>2. CASE ~MimeOn
      <4>1. u = <<>> \o t
        BY <3>2 DEF If
      <4>2. <<>> \o t = t
        BY ConcatEmptySeq
      <4>3. t \in Seq(Words \cup {Blank, "info", "dbs"})
        BY SeqMonotonic, Words \cup {"info", "dbs"} \subseteq Words \cup {Blank, "info", "dbs"}
      <4>4. c.op = "match" => t \in Seq(Words \cup {Blank})
        BY <1>3, SeqMonotonic, Words \subseteq Words \cup {Blank}
      <4> QED
        BY <1>3, <4>1, <4>2, <4>3, <4>4
    <3> QED
      BY <3>1, <3>2
  <2>2. R = <<Reply(c, code, n, <<>>), Reply(c, 0, 0, u), Reply(c, 250, 0, <<>>)>>
    BY <1>3 DEF WithText
  <2> HIDE DEF u
  <2> QED
    BY <1>1, <1>3, <2>1, <2>2, TextReply
<1>4. CASE c.op = "connect"
  <2>1. CASE R \in Single(c, {420, 530})
    BY <1>2, <1>4, <2>1 DEF Follows
  <2>2. CASE R \in {<<Reply(c, 220, n, <<>>)>> : n \in {0, 1}}
    <3>1. PICK n \in {0, 1} : R = <<Reply(c, 220, n, <<>>)>>
      BY <2>2
    <3>2. n \in Nat /\ Follows(c, 220) = "nothing"
      BY <1>4 DEF Follows
    <3> QED
      BY <1>1, <1>4, <3>1, <3>2, OneLine
  <2> QED
    BY <1>4, <2>1, <2>2 DEF Answers
<1>5. CASE c.op \in {"client", "mime"}
  <2>1. R \in Single(c, {250, 500})
    BY <1>5 DEF Answers
  <2> QED
    BY <1>2, <1>5, <2>1 DEF Follows
<1>6. CASE c.op = "auth"
  <2>1. R \in Single(c, {230, 531})
    BY <1>6 DEF Answers
  <2> QED
    BY <1>2, <1>6, <2>1 DEF Follows
<1>7. CASE c.op = "info"
  <2>1. CASE R \in Single(c, {550})
    BY <1>2, <1>7, <2>1 DEF Follows
  <2>2. CASE R \in WithText(c, 112, 0, <<"info">>)
    <3>1. <<"info">> \in Seq(Words \cup {"info", "dbs"}) /\ Follows(c, 112) = "text" /\ c.op # "match"
      BY <1>7 DEF Follows
    <3> QED
      BY <1>3, <2>2, <3>1
  <2> QED
    BY <1>7, <2>1, <2>2 DEF Answers
<1>8. CASE c.op = "dbs"
  <2>1. CASE R \in Single(c, {554})
    BY <1>2, <1>8, <2>1 DEF Follows
  <2>2. CASE R \in WithText(c, 110, 1, <<"dbs">>)
    <3>1. <<"dbs">> \in Seq(Words \cup {"info", "dbs"}) /\ Follows(c, 110) = "text" /\ c.op # "match"
      BY <1>8 DEF Follows
    <3> QED
      BY <1>3, <2>2, <3>1
  <2> QED
    BY <1>8, <2>1, <2>2 DEF Answers
<1>9. CASE c.op = "match"
  <2>1. c.word \in Words
    BY <1>9 DEF Shaped, Shape
  <2>2. Near[c.word] \in Seq(Words)
    BY <2>1, ClientAssumption
  <2>3. CASE R \in Single(c, {420, 551}) \/ R \in Single(c, {552})
    BY <1>2, <1>9, <2>3 DEF Follows
  <2>4. CASE Near[c.word] # <<>> /\ R \in WithText(c, 152, Len(Near[c.word]), Near[c.word])
    <3> DEFINE t == Near[c.word]
    <3>1. t \in Seq(Words) /\ Len(t) \in Nat /\ Len(t) > 0 /\ Len(t) >= Len(t)
      BY <2>2, <2>4
    <3>2. t \in Seq(Words \cup {"info", "dbs"})
      BY <3>1, SeqMonotonic, Words \subseteq Words \cup {"info", "dbs"}
    <3>3. Follows(c, 152) = "text"
      BY <1>9 DEF Follows
    <3> HIDE DEF t
    <3>4. R \in WithText(c, 152, Len(t), t)
      BY <2>4 DEF t
    <3> QED
      BY <1>3, <3>1, <3>2, <3>3, <3>4
  <2> QED
    BY <1>9, <2>3, <2>4 DEF Answers
<1>10. CASE c.op = "define"
  <2>1. c.word \in Words
    BY <1>10 DEF Shaped, Shape
  <2>2. Defs[c.word] \in Nat
    BY <2>1, ClientAssumption
  <2>3. CASE R \in Single(c, {550}) \/ R \in Single(c, {552})
    BY <1>2, <1>10, <2>3 DEF Follows
  <2>4. CASE Defs[c.word] # 0 /\ R \in Definitions(c)
    <3> DEFINE n == Defs[c.word]
    <3>1. R = <<Reply(c, 150, n, <<>>)>>
              \o [k \in 1 .. 2 * n |-> Reply(c, IF k % 2 = 1 THEN 151 ELSE 0, 0, <<>>)]
              \o <<Reply(c, 250, 0, <<>>)>>
      BY <2>4 DEF Definitions
    <3>2. n \in Nat /\ n > 0
      BY <2>2, <2>4
    <3> HIDE DEF n
    <3> QED
      BY <1>1, <1>10, <3>1, <3>2, DefinitionsReply
  <2> QED
    BY <1>10, <2>3, <2>4 DEF Answers
<1>11. CASE c.op \in {"print", "spell", "defprint", "wind", "close"}
  <2>1. R \in Single(c, {221})
    BY <1>11 DEF Answers
  <2> QED
    BY <1>2, <1>11, <2>1 DEF Follows
<1> QED
  BY <1>1, <1>4, <1>5, <1>6, <1>7, <1>8, <1>9, <1>10, <1>11 DEF Command, Ops

-----------------------------------------------------------------------------
(* Lists in order.                                                         *)
LEMMA OrderedTail ==
    ASSUME NEW S, NEW s \in Seq(S), s # <<>>, Ordered(s)
    PROVE  Ordered(Tail(s)) /\ \A k \in 1 .. Len(Tail(s)) : Before(Head(s), Tail(s)[k])
<1> DEFINE t == Tail(s)
<1>1. /\ Len(s) \in Nat /\ Len(s) = Len(t) + 1 /\ Len(t) \in Nat /\ Head(s) = s[1]
      /\ \A k \in 1 .. Len(t) : t[k] = s[k + 1]
  OBVIOUS
<1> HIDE DEF t
<1>2. \A i, j \in 1 .. Len(s) : i < j => Before(s[i], s[j])
  BY DEF Ordered
<1>3. ASSUME NEW i \in 1 .. Len(t), NEW j \in 1 .. Len(t), i < j PROVE Before(t[i], t[j])
  <2>1. i + 1 \in 1 .. Len(s) /\ j + 1 \in 1 .. Len(s) /\ i + 1 < j + 1
    BY <1>1, <1>3
  <2> QED
    BY <1>1, <1>2, <2>1
<1>4. ASSUME NEW k \in 1 .. Len(t) PROVE Before(Head(s), t[k])
  <2>1. 1 \in 1 .. Len(s) /\ k + 1 \in 1 .. Len(s) /\ 1 < k + 1
    BY <1>1
  <2> QED
    BY <1>1, <1>2, <2>1
<1> QED
  BY <1>3, <1>4 DEF Ordered, t

LEMMA OrderedJoin ==
    ASSUME NEW S, NEW a \in Seq(S), NEW b \in Seq(S), Ordered(a), Ordered(b),
           \A i \in 1 .. Len(a), j \in 1 .. Len(b) : Before(a[i], b[j])
    PROVE  Ordered(a \o b)
<1> DEFINE c == a \o b
           m == Len(a)
           n == Len(b)
<1>1. /\ Len(c) = m + n /\ m \in Nat /\ n \in Nat
      /\ \A i \in 1 .. m : c[i] = a[i]
      /\ \A i \in 1 .. n : c[m + i] = b[i]
  BY ConcatProperties
<1>2. /\ \A i, j \in 1 .. m : i < j => Before(a[i], a[j])
      /\ \A i, j \in 1 .. n : i < j => Before(b[i], b[j])
      /\ \A i \in 1 .. m, j \in 1 .. n : Before(a[i], b[j])
  BY DEF Ordered
<1> HIDE DEF c, m, n
<1>3. ASSUME NEW i \in 1 .. m + n, NEW j \in 1 .. m + n, i < j PROVE Before(c[i], c[j])
  <2>1. CASE j \in 1 .. m
    <3>1. i \in 1 .. m
      BY <1>1, <1>3, <2>1
    <3> QED
      BY <1>1, <1>2, <1>3, <2>1, <3>1
  <2>2. CASE i \in 1 .. m /\ j - m \in 1 .. n
    <3>1. j = m + (j - m)
      BY <1>1
    <3>2. c[j] = b[j - m] /\ c[i] = a[i]
      BY <1>1, <2>2, <3>1
    <3> QED
      BY <1>2, <2>2, <3>2
  <2>3. CASE i - m \in 1 .. n /\ j - m \in 1 .. n
    <3>1. j = m + (j - m) /\ i = m + (i - m) /\ i - m < j - m
      BY <1>1, <1>3
    <3>2. c[j] = b[j - m] /\ c[i] = b[i - m]
      BY <1>1, <2>3, <3>1
    <3> QED
      BY <1>2, <2>3, <3>1, <3>2
  <2>4. j \in 1 .. m \/ (i \in 1 .. m /\ j - m \in 1 .. n) \/ (i - m \in 1 .. n /\ j - m \in 1 .. n)
    BY <1>1, <1>3
  <2> QED
    BY <2>1, <2>2, <2>3, <2>4
<1> QED
  BY <1>1, <1>3 DEF Ordered, c

LEMMA OrderedRest ==
    ASSUME NEW S, NEW s \in Seq(S), NEW m \in 1 .. Len(s), Ordered(s)
    PROVE  Ordered(SubSeq(s, m, Len(s)))
<1> DEFINE t == SubSeq(s, m, Len(s))
<1>1. /\ Len(s) \in Nat /\ Len(t) = Len(s) - m + 1 /\ Len(t) \in Nat
      /\ \A k \in 1 .. Len(t) : t[k] = s[(m - 1) + k]
  OBVIOUS
<1> HIDE DEF t
<1>2. ASSUME NEW i \in 1 .. Len(t), NEW j \in 1 .. Len(t), i < j PROVE Before(t[i], t[j])
  <2>1. (m - 1) + i \in 1 .. Len(s) /\ (m - 1) + j \in 1 .. Len(s) /\ (m - 1) + i < (m - 1) + j
    BY <1>1, <1>2
  <2> QED
    BY <1>1, <2>1 DEF Ordered
<1> QED
  BY <1>2 DEF Ordered, t

(* The list that main() builds.                                            *)
Fresh == {c \in Shaped : ~c.sent}
Heads == {c \in Fresh : c.op = "connect"}
Earlies == {c \in Fresh : Early(c)}
Tasks(j) == {c \in Fresh : /\ c.op \in {"match", "define", "spell", "wind", "defprint", "print"}
                           /\ c.word \in Words
                           /\ IF j.kind = "wind" THEN c.op # "print" ELSE c.op # "wind"
                           /\ c.op = "spell" => j.kind = "define"}

Built(j, s) == \E m \in Seq((Heads \cup Earlies) \cup Tasks(j)) : s = m \o <<Make("close", "")>>

(* A list of some commands is in order if any of them may come before any. *)
LEMMA OrderedFree ==
    ASSUME NEW T, NEW s \in Seq(T), \A c, d \in T : Before(c, d)
    PROVE  Ordered(s)
  BY DEF Ordered

LEMMA OrderedAdd ==
    ASSUME NEW S, NEW T, NEW s \in Seq(S), NEW t \in Seq(T), Ordered(s),
           \A c, d \in T : Before(c, d), \A c \in S, d \in T : Before(c, d)
    PROVE  s \o t \in Seq(S \cup T) /\ Ordered(s \o t)
<1>1. s \in Seq(S \cup T) /\ t \in Seq(S \cup T)
  BY SeqMonotonic, S \subseteq S \cup T, T \subseteq S \cup T
<1>2. Ordered(t)
  BY OrderedFree
<1>3. \A i \in 1 .. Len(s), j \in 1 .. Len(t) : Before(s[i], t[j])
  BY ElementOfSeq
<1> QED
  BY <1>1, <1>2, <1>3, OrderedJoin, ConcatProperties

LEMMA MakeFresh ==
    ASSUME NEW op \in Ops, NEW w \in Words \cup Hosts \cup {""}
    PROVE  /\ Make(op, w).op = op /\ Make(op, w).word = w /\ Make(op, w).sent = FALSE
           /\ Shape(Make(op, w)) => Make(op, w) \in Fresh
  BY DEF Make, Fresh, Shaped, Command

LEMMA MakeEarly ==
    ASSUME NEW op \in {"client", "auth", "mime", "info", "dbs", "print"}
    PROVE  Make(op, "") \in Earlies
<1>1. op \in Ops /\ "" \in Words \cup Hosts \cup {""}
  BY DEF Ops
<1>2. Make(op, "").op = op /\ Make(op, "").word = ""
  BY <1>1, MakeFresh
<1>3. Shape(Make(op, ""))
  BY <1>2 DEF Shape
<1> QED
  BY <1>1, <1>2, <1>3, MakeFresh DEF Earlies, Early

LEMMA TasksFree ==
    ASSUME NEW j
    PROVE  \A c, d \in Tasks(j) : Before(c, d)
<1>1. "" \notin Words
  BY ClientAssumption
<1> QED
  BY <1>1 DEF Tasks, Before, Early, Fresh

LEMMA TasksOfWord ==
    ASSUME NEW j \in Jobs, NEW w \in Words
    PROVE  ForWord(j, w) \in Seq(Tasks(j))
<1>1. w \in Words \cup Hosts \cup {""} /\ j.kind \in {"none", "match", "define", "wind"}
  BY ClientAssumption
<1>2. ASSUME NEW op \in {"match", "define", "spell", "wind", "defprint", "print"},
             IF j.kind = "wind" THEN op # "print" ELSE op # "wind",
             op = "spell" => j.kind = "define"
      PROVE  Make(op, w) \in Tasks(j)
  <2>1. op \in Ops
    BY DEF Ops
  <2>2. Make(op, w).op = op /\ Make(op, w).word = w
    BY <1>1, <2>1, MakeFresh
  <2>3. Shape(Make(op, w))
    BY <2>2 DEF Shape
  <2> QED
    BY <1>1, <1>2, <2>1, <2>2, <2>3, MakeFresh DEF Tasks
<1>3. CASE j.kind = "match"
  <2>1. Make("match", w) \in Tasks(j) /\ Make("print", w) \in Tasks(j)
    BY <1>2, <1>3
  <2> QED
    BY <1>3, <2>1 DEF ForWord
<1>4. CASE j.kind = "wind"
  <2>1. Make("match", w) \in Tasks(j) /\ Make("wind", w) \in Tasks(j)
    BY <1>2, <1>4
  <2> QED
    BY <1>4, <2>1 DEF ForWord
<1>5. CASE j.kind = "define"
  <2> DEFINE a == <<Make("define", w)>>
             b == If(j.correct, <<Make("spell", w)>>)
             c == <<Make("defprint", w)>>
  <2>1. Make("define", w) \in Tasks(j) /\ Make("spell", w) \in Tasks(j) /\ Make("defprint", w) \in Tasks(j)
    BY <1>2, <1>5
  <2>2. a \in Seq(Tasks(j)) /\ b \in Seq(Tasks(j)) /\ c \in Seq(Tasks(j))
    BY <2>1 DEF If
  <2>3. ForWord(j, w) = (a \o b) \o c
    BY <1>5 DEF ForWord
  <2> HIDE DEF a, b, c
  <2>4. a \o b \in Seq(Tasks(j))
    BY <2>2, ConcatProperties
  <2> QED
    BY <2>2, <2>3, <2>4, ConcatProperties
<1>6. CASE j.kind = "none"
  BY <1>6 DEF ForWord
<1> QED
  BY <1>1, <1>3, <1>4, <1>5, <1>6

LEMMA ListAtFirst ==
    ASSUME NEW j \in Jobs
    PROVE  /\ CommandsOf(j) \in Seq(Fresh) /\ Ordered(CommandsOf(j))
           /\ CommandsOf(j) # <<>> /\ Head(CommandsOf(j)).op = "connect"
           /\ \E k \in 1 .. Len(CommandsOf(j)) : CommandsOf(j)[k].op # "connect"
           /\ Built(j, CommandsOf(j))
<1> DEFINE a == [n \in 1 .. Len(j.hosts) |-> Make("connect", j.hosts[n])]
           b == <<Make("client", "")>>
           c == If(j.auth, <<Make("auth", "")>>)
           d == If(j.mime, <<Make("mime", ""), Make("print", "")>>)
           e == If(j.info, <<Make("info", ""), Make("print", "")>>)
           f == If(j.dbs, <<Make("dbs", ""), Make("print", "")>>)
           g == FlattenSeq([n \in 1 .. Len(j.words) |-> ForWord(j, j.words[n])])
           h == <<Make("close", "")>>
           s == CommandsOf(j)
           X == Heads \cup Earlies
           last == {Make("close", "")}
<1>1. s = ((((((a \o b) \o c) \o d) \o e) \o f) \o g) \o h
  BY DEF CommandsOf
<1>2. j.hosts \in Seq(Hosts) /\ j.hosts # <<>> /\ j.words \in Seq(Words)
  BY ClientAssumption
<1>3. a \in Seq(Heads) /\ Len(a) \in Nat /\ Len(a) > 0 /\ a[1].op = "connect"
  <2>1. ASSUME NEW w \in Hosts PROVE Make("connect", w) \in Heads
    <3>1. "connect" \in Ops /\ w \in Words \cup Hosts \cup {""}
      BY DEF Ops
    <3>2. Make("connect", w).op = "connect" /\ Make("connect", w).word = w
      BY <3>1, MakeFresh
    <3>3. Shape(Make("connect", w))
      BY <3>2 DEF Shape
    <3> QED
      BY <3>1, <3>2, <3>3, MakeFresh DEF Heads
  <2>2. Len(j.hosts) \in Nat /\ Len(j.hosts) > 0 /\ \A n \in 1 .. Len(j.hosts) : j.hosts[n] \in Hosts
    BY <1>2
  <2>3. \A n \in 1 .. Len(j.hosts) : Make("connect", j.hosts[n]) \in Heads
    BY <2>1, <2>2
  <2>4. a \in Seq(Heads) /\ Len(a) = Len(j.hosts) /\ a[1] = Make("connect", j.hosts[1])
    BY <2>2, <2>3
  <2>5. a[1] \in Heads
    BY <2>2, <2>3, <2>4
  <2> QED
    BY <2>2, <2>4, <2>5 DEF Heads
<1>4. /\ b \in Seq(Earlies) /\ c \in Seq(Earlies) /\ d \in Seq(Earlies) /\ e \in Seq(Earlies)
      /\ f \in Seq(Earlies)
  <2>1. /\ Make("client", "") \in Earlies /\ Make("auth", "") \in Earlies /\ Make("mime", "") \in Earlies
        /\ Make("info", "") \in Earlies /\ Make("dbs", "") \in Earlies /\ Make("print", "") \in Earlies
    BY MakeEarly
  <2>2. ASSUME NEW B, NEW x \in Earlies, NEW y \in Earlies
        PROVE  <<x>> \in Seq(Earlies) /\ If(B, <<x>>) \in Seq(Earlies) /\ If(B, <<x, y>>) \in Seq(Earlies)
    BY DEF If
  <2>3. b \in Seq(Earlies) /\ c \in Seq(Earlies)
    BY <2>1, <2>2
  <2>4. d \in Seq(Earlies) /\ e \in Seq(Earlies) /\ f \in Seq(Earlies)
    BY <2>1, <2>2
  <2> QED
    BY <2>3, <2>4
<1>5. g \in Seq(Tasks(j))
  <2> DEFINE ss == [n \in 1 .. Len(j.words) |-> ForWord(j, j.words[n])]
  <2>1. Len(j.words) \in Nat /\ \A n \in 1 .. Len(j.words) : j.words[n] \in Words
    BY <1>2
  <2>2. \A n \in 1 .. Len(j.words) : ForWord(j, j.words[n]) \in Seq(Tasks(j))
    BY <2>1, TasksOfWord
  <2>3. ss \in Seq(Seq(Tasks(j)))
    BY <2>1, <2>2
  <2> HIDE DEF ss
  <2>4. FlattenSeq(ss) \in Seq(Tasks(j))
    BY <2>3, FlattenType
  <2> QED
    BY <2>4 DEF ss
<1>6. Make("close", "") \in Fresh /\ Make("close", "").op = "close"
  <2>1. "close" \in Ops /\ "" \in Words \cup Hosts \cup {""}
    BY DEF Ops
  <2>2. Make("close", "").op = "close" /\ Make("close", "").word = ""
    BY <2>1, MakeFresh
  <2>3. Shape(Make("close", ""))
    BY <2>2 DEF Shape
  <2> QED
    BY <2>1, <2>2, <2>3, MakeFresh
<1>7. h \in Seq(last) /\ Len(h) = 1 /\ h[1].op = "close"
  <2> DEFINE z == Make("close", "")
  <2>1. z.op = "close" /\ h = <<z>> /\ last = {z}
    BY <1>6
  <2> HIDE DEF z, h, last
  <2>2. h \in Seq(last) /\ Len(h) = 1 /\ h[1] = z
    BY <2>1
  <2> QED
    BY <2>1, <2>2
<1> HIDE DEF a, b, c, d, e, f, g, h, s
<1>8. /\ \A x, y \in Heads : Before(x, y)
      /\ \A x, y \in Earlies : Before(x, y)
      /\ \A x \in X, y \in Earlies : Before(x, y)
      /\ \A x \in X, y \in Tasks(j) : Before(x, y)
      /\ \A x, y \in Tasks(j) : Before(x, y)
      /\ \A x \in X \cup Tasks(j), y \in last : Before(x, y)
      /\ \A x, y \in last : Before(x, y)
  <2>1. /\ \A x \in Heads : x.op = "connect" /\ ~x.sent
        /\ \A x \in Earlies : Early(x) /\ x.op \notin {"connect", "wind"} /\ ~x.sent
        /\ \A x \in Tasks(j) : ~Early(x) /\ x.op # "connect" /\ ~x.sent
        /\ \A x \in last : x.op = "close" /\ ~x.sent /\ ~Early(x)
    <3>1. "" \notin Words
      BY ClientAssumption
    <3> QED
      BY <1>6, <3>1 DEF Heads, Earlies, Tasks, Fresh, Early
  <2> QED
    BY <2>1, TasksFree DEF Before
<1>9. X \cup Earlies = X /\ Heads \cup Earlies = X
  OBVIOUS
<1>10. X \subseteq Fresh /\ Tasks(j) \subseteq Fresh /\ last \subseteq Fresh
  BY <1>6 DEF Heads, Earlies, Tasks
<1> HIDE DEF X, last
<1>11. a \o b \in Seq(X) /\ Ordered(a \o b)
  <2>1. Ordered(a)
    BY <1>3, <1>8, OrderedFree
  <2>2. \A x \in Heads, y \in Earlies : Before(x, y)
    BY <1>8 DEF X
  <2> QED
    BY <1>3, <1>4, <1>8, <1>9, <2>1, <2>2, OrderedAdd
<1>12. ASSUME NEW t \in Seq(X), Ordered(t), NEW u \in Seq(Earlies) PROVE t \o u \in Seq(X) /\ Ordered(t \o u)
  BY <1>8, <1>9, <1>12, OrderedAdd
<1> DEFINE k == (((a \o b) \o c) \o d) \o e
           l == k \o f
           m == l \o g
<1>13. k \in Seq(X) /\ Ordered(k)
  <2>1. (a \o b) \o c \in Seq(X) /\ Ordered((a \o b) \o c)
    BY <1>4, <1>11, <1>12
  <2>2. ((a \o b) \o c) \o d \in Seq(X) /\ Ordered(((a \o b) \o c) \o d)
    BY <1>4, <2>1, <1>12
  <2> QED
    BY <1>4, <2>2, <1>12
<1> HIDE DEF k
<1>14. l \in Seq(X) /\ Ordered(l)
  BY <1>4, <1>12, <1>13
<1> HIDE DEF l
<1>15. m \in Seq(X \cup Tasks(j)) /\ Ordered(m)
  BY <1>5, <1>8, <1>14, OrderedAdd
<1> HIDE DEF m
<1>16. m \o h \in Seq((X \cup Tasks(j)) \cup last) /\ Ordered(m \o h)
  BY <1>7, <1>8, <1>15, OrderedAdd
<1>17. s = m \o h
  BY <1>1 DEF k, l, m
<1>18. s \in Seq(Fresh) /\ Ordered(s)
  BY <1>10, <1>16, <1>17, SeqMonotonic, (X \cup Tasks(j)) \cup last \subseteq Fresh
<1>19. Len(s) \in Nat /\ Len(s) >= 1 /\ s[Len(s)].op = "close"
  <2>1. m \in Seq(Fresh) /\ h \in Seq(Fresh)
    BY <1>7, <1>10, <1>15, SeqMonotonic, X \cup Tasks(j) \subseteq Fresh
  <2>2. Len(m \o h) = Len(m) + Len(h) /\ (m \o h)[Len(m) + Len(h)] = h[1] /\ Len(m) \in Nat
    <3>1. /\ Len(m \o h) = Len(m) + Len(h)
          /\ \A i \in 1 .. Len(m) + Len(h) : (m \o h)[i] = IF i <= Len(m) THEN m[i] ELSE h[i - Len(m)]
      BY <2>1, ConcatProperties
    <3>2. Len(m) \in Nat /\ Len(h) = 1
      BY <1>7, <2>1
    <3> QED
      BY <3>1, <3>2
  <2> QED
    BY <1>7, <1>17, <2>2
<1>20. s[1].op = "connect"
  <2>1. ASSUME NEW t \in Seq(Fresh), NEW u \in Seq(Fresh), Len(t) > 0
        PROVE  Len(t \o u) > 0 /\ (t \o u)[1] = t[1]
    BY <2>1
  <2>2. /\ a \in Seq(Fresh) /\ b \in Seq(Fresh) /\ c \in Seq(Fresh) /\ d \in Seq(Fresh) /\ e \in Seq(Fresh)
        /\ f \in Seq(Fresh) /\ g \in Seq(Fresh) /\ h \in Seq(Fresh)
    BY <1>3, <1>4, <1>5, <1>7, <1>10, SeqMonotonic, Heads \subseteq Fresh, Earlies \subseteq Fresh
       DEF Heads, Earlies
  <2> DEFINE p == a \o b
             q == p \o c
             r == q \o d
             v == r \o e
             w == v \o f
             x == w \o g
  <2>3. p \in Seq(Fresh) /\ Len(p) > 0 /\ p[1] = a[1]
    BY <1>3, <2>1, <2>2, ConcatProperties
  <2> HIDE DEF p
  <2>4. q \in Seq(Fresh) /\ Len(q) > 0 /\ q[1] = a[1]
    BY <2>1, <2>2, <2>3, ConcatProperties
  <2> HIDE DEF q
  <2>5. r \in Seq(Fresh) /\ Len(r) > 0 /\ r[1] = a[1]
    BY <2>1, <2>2, <2>4, ConcatProperties
  <2> HIDE DEF r
  <2>6. v \in Seq(Fresh) /\ Len(v) > 0 /\ v[1] = a[1]
    BY <2>1, <2>2, <2>5, ConcatProperties
  <2> HIDE DEF v
  <2>7. w \in Seq(Fresh) /\ Len(w) > 0 /\ w[1] = a[1]
    BY <2>1, <2>2, <2>6, ConcatProperties
  <2> HIDE DEF w
  <2>8. x \in Seq(Fresh) /\ Len(x) > 0 /\ x[1] = a[1]
    BY <2>1, <2>2, <2>7, ConcatProperties
  <2> HIDE DEF x
  <2>9. (x \o h)[1] = a[1]
    BY <2>1, <2>2, <2>8
  <2>10. s = x \o h
    BY <1>1 DEF p, q, r, v, w, x
  <2> QED
    BY <1>3, <2>9, <2>10
<1>21. s # <<>> /\ Head(s) = s[1] /\ Len(s) \in 1 .. Len(s) /\ s[Len(s)].op # "connect"
  BY <1>18, <1>19
<1>22. Built(j, s)
  BY <1>15, <1>17, Zenon DEF Built, X, h
<1> QED
  BY <1>18, <1>20, <1>21, <1>22 DEF s

-----------------------------------------------------------------------------
(* What is sent ahead.                                                     *)
OnWires == {c \in Command : OnWire(c)}

LEMMA WireStep ==
    /\ Wire(0) = <<>>
    /\ \A n \in Nat : OnWire(cmds[n + 1]) => Wire(n + 1) = Append(Wire(n), cmds[n + 1])
    /\ \A n \in Nat : ~OnWire(cmds[n + 1]) => Wire(n + 1) = Wire(n)
<1> DEFINE S == {cmds[k] : k \in Nat}
           R == Seq(S)
           e == <<>>
           g == [k \in Nat |-> [r \in R |-> IF OnWire(cmds[k + 1]) THEN Append(r, cmds[k + 1]) ELSE r]]
           Is(f) == f = [k \in Nat |-> IF k = 0 THEN <<>>
                                       ELSE IF OnWire(cmds[k]) THEN Append(f[k - 1], cmds[k])
                                       ELSE f[k - 1]]
           w == CHOOSE f : Is(f)
<1>1. \A k \in Nat : cmds[k + 1] \in S
  OBVIOUS
<1> HIDE DEF S
<1>2. g \in [Nat -> [R -> R]]
  BY <1>1
<1>3. e \in R
  OBVIOUS
<1>4. \A k \in Nat, r \in R : g[k][r] = IF OnWire(cmds[k + 1]) THEN Append(r, cmds[k + 1]) ELSE r
  OBVIOUS
<1>5. e = <<>>
  OBVIOUS
<1> HIDE DEF g, R, e
<1>6. PICK h : Solves(h, R, e, g)
  BY <1>2, <1>3, RecursionSolved
<1>7. h \in [Nat -> R] /\ h[0] = e /\ \A k \in Nat : h[k + 1] = g[k][h[k]]
  BY <1>6 DEF Solves
<1>8. Is(h)
  <2>1. ASSUME NEW k \in Nat
        PROVE  h[k] = IF k = 0 THEN <<>> ELSE IF OnWire(cmds[k]) THEN Append(h[k - 1], cmds[k]) ELSE h[k - 1]
    <3>1. CASE k = 0
      BY <1>5, <1>7, <3>1
    <3>2. CASE k # 0
      <4>1. k - 1 \in Nat /\ (k - 1) + 1 = k
        BY <3>2
      <4>2. h[k] = g[k - 1][h[k - 1]] /\ h[k - 1] \in R
        BY <1>7, <4>1
      <4> QED
        BY <1>4, <3>2, <4>1, <4>2
    <3> QED
      BY <3>1, <3>2
  <2> QED
    BY <1>7, <2>1
<1>9. Is(w)
  BY <1>8
<1>10. \A n \in Nat : Wire(n) = w[n]
  BY Zenon DEF Wire
<1> HIDE DEF w
<1>11. \A k \in Nat : w[k] = IF k = 0 THEN <<>> ELSE IF OnWire(cmds[k]) THEN Append(w[k - 1], cmds[k]) ELSE w[k - 1]
  BY <1>9
<1>12. ASSUME NEW n \in Nat
       PROVE  w[n + 1] = IF OnWire(cmds[n + 1]) THEN Append(w[n], cmds[n + 1]) ELSE w[n]
  <2>1. n + 1 \in Nat /\ n + 1 # 0 /\ (n + 1) - 1 = n
    OBVIOUS
  <2> QED
    BY <1>11, <2>1
<1>13. Wire(0) = <<>>
  BY <1>10, <1>11
<1>14. ASSUME NEW n \in Nat
       PROVE  /\ OnWire(cmds[n + 1]) => Wire(n + 1) = Append(Wire(n), cmds[n + 1])
              /\ ~OnWire(cmds[n + 1]) => Wire(n + 1) = Wire(n)
  <2>1. n + 1 \in Nat
    OBVIOUS
  <2>2. Wire(n) = w[n] /\ Wire(n + 1) = w[n + 1]
    BY <1>10, <2>1
  <2> QED
    BY <1>12, <2>2
<1> QED
  BY <1>13, <1>14

LEMMA WireSifted ==
    ASSUME cmds \in Seq(Shaped)
    PROVE  \A n \in Nat : n <= Len(cmds) => Wire(n) = Sifted(cmds, OnWires)[n]
<1> DEFINE N == {n \in Nat : n <= Len(cmds) => Wire(n) = Sifted(cmds, OnWires)[n]}
<1>1. 0 \in N
  <2>1. Sifted(cmds, OnWires)[0] = <<>>
    BY SiftedNothing
  <2> QED
    BY <2>1, WireStep
<1>2. ASSUME NEW n \in Nat, n \in N, n + 1 <= Len(cmds)
      PROVE  Wire(n + 1) = Sifted(cmds, OnWires)[n + 1]
  <2>1. Wire(n) = Sifted(cmds, OnWires)[n]
    BY <1>2
  <2>2. n + 1 \in 1 .. Len(cmds)
    BY <1>2
  <2>3. cmds[n + 1] \in Command
    BY <2>2 DEF Shaped
  <2>4. cmds[n + 1] \in OnWires <=> OnWire(cmds[n + 1])
    BY <2>3 DEF OnWires
  <2>5. /\ cmds[n + 1] \in OnWires => Sifted(cmds, OnWires)[n + 1] = Append(Sifted(cmds, OnWires)[n], cmds[n + 1])
        /\ cmds[n + 1] \notin OnWires => Sifted(cmds, OnWires)[n + 1] = Sifted(cmds, OnWires)[n]
    BY <2>2, SiftedNext
  <2> QED
    BY <2>1, <2>4, <2>5, WireStep
<1>3. Nat \subseteq N
  <2>1. ASSUME NEW n \in Nat, n \in N PROVE n + 1 \in N
    <3>1. n + 1 <= Len(cmds) => Wire(n + 1) = Sifted(cmds, OnWires)[n + 1]
      BY <1>2, <2>1
    <3>2. n + 1 \in Nat
      OBVIOUS
    <3> QED
      BY <3>1, <3>2, Zenon
  <2> HIDE DEF N
  <2> QED
    BY <1>1, <2>1, AllNumbers
<1> QED
  BY <1>3, Zenon

LEMMA WireType ==
    ASSUME cmds \in Seq(Shaped), NEW n \in 0 .. Len(cmds)
    PROVE  /\ Wire(n) \in Seq(Shaped) /\ Len(Wire(n)) \in Nat
           /\ \A k \in 1 .. Len(Wire(n)) : Wire(n)[k].op # "connect"
<1>1. Wire(n) \in Seq(Shaped \cap OnWires)
  <2>1. n \in Nat /\ n <= Len(cmds)
    OBVIOUS
  <2>2. Wire(n) = Sifted(cmds, OnWires)[n]
    BY <2>1, WireSifted
  <2>3. \A m \in Nat : Sifted(cmds, OnWires)[m] \in Seq(Shaped \cap OnWires)
    BY SiftedIn
  <2> QED
    BY <2>1, <2>2, <2>3
<1>2. \A c \in OnWires : c.op # "connect"
  BY DEF OnWires, OnWire
<1>3. Wire(n) \in Seq(Shaped)
  BY <1>1, SeqMonotonic, Shaped \cap OnWires \subseteq Shaped
<1>4. \A k \in 1 .. Len(Wire(n)) : Wire(n)[k] \in Shaped \cap OnWires
  BY <1>1, ElementOfSeq
<1> QED
  BY <1>2, <1>3, <1>4

LEMMA AheadIs ==
    ASSUME cmds \in Seq(Shaped)
    PROVE  Ahead \in 0 .. Len(cmds) /\ StopsAt(Ahead + 1) /\ \A k \in 1 .. Ahead : ~StopsAt(k)
<1> DEFINE S == {n \in Nat : StopsAt(n + 1)}
           IsAhead(n) == StopsAt(n + 1) /\ \A k \in 1 .. n : ~StopsAt(k)
<1>1. Len(cmds) \in Nat /\ StopsAt(Len(cmds) + 1)
  BY DEF StopsAt
<1>2. S # {} /\ S \in SUBSET Nat
  BY <1>1
<1>3. PICK n \in S : \A m \in S : n <= m
  <2> HIDE DEF S
  <2> QED
    BY <1>2, LeastNumber
<1>4. n \in 0 .. Len(cmds)
  BY <1>1, <1>3
<1>5. ASSUME NEW k \in 1 .. n PROVE ~StopsAt(k)
  <2>1. k - 1 \in Nat /\ (k - 1) + 1 = k /\ ~(n <= k - 1)
    BY <1>4
  <2>2. k - 1 \notin S
    BY <1>3, <2>1
  <2> QED
    BY <2>1, <2>2
<1>6. \E m \in 0 .. Len(cmds) : IsAhead(m)
  BY <1>3, <1>4, <1>5
<1>7. Ahead = CHOOSE m \in 0 .. Len(cmds) : IsAhead(m)
  BY Zenon DEF Ahead
<1> HIDE DEF IsAhead
<1>8. Ahead \in 0 .. Len(cmds) /\ IsAhead(Ahead)
  BY <1>6, <1>7
<1> QED
  BY <1>8 DEF IsAhead

LEMMA ShapedType ==
    ASSUME NEW s \in Seq(Shaped)
    PROVE  s \in Seq(Command)
<1>1. Shaped \subseteq Command
  BY DEF Shaped
<1> QED
  BY <1>1, SeqMonotonic

LEMMA HeadsAndTails ==
    ASSUME NEW S, NEW s \in Seq(S), s # <<>>
    PROVE  /\ Head(s) \in S /\ Head(s) = s[1] /\ Tail(s) \in Seq(S)
           /\ Len(s) \in Nat /\ Len(Tail(s)) \in Nat /\ Len(s) = Len(Tail(s)) + 1
           /\ 1 \in 1 .. Len(s)
           /\ \A k \in 1 .. Len(Tail(s)) : k + 1 \in 1 .. Len(s) /\ Tail(s)[k] = s[k + 1]
  OBVIOUS

(* What request() does to the list.                                        *)
LEMMA RequestMarks ==
    ASSUME ClientInv, Request
    PROVE  /\ Len(cmds) \in Nat /\ Ahead \in 0 .. Len(cmds) /\ 1 \in 1 .. Len(cmds)
           /\ cmds' \in Seq(Shaped) /\ Len(cmds') = Len(cmds)
           /\ \A k \in 1 .. Len(cmds) : Alike(cmds'[k], cmds[k]) /\ cmds'[k].sent = (cmds[k].sent \/ k <= Ahead)
           /\ cmds[1].sent => AtSent /\ Ahead = 0 /\ cmds' = cmds /\ host # NoHost
           /\ ~cmds[1].sent => ~AtSent /\ \A k \in 1 .. Len(cmds) : ~cmds[k].sent
           /\ KeyNow # key => host = NoHost
           /\ KeyNow \in BOOLEAN
<1>1. /\ cmds \in Seq(Shaped) /\ cmds # <<>> /\ pc = "request" /\ cmds' = Marked
      /\ ListInv /\ HostInv /\ key \in BOOLEAN
  BY DEF ClientInv, Request, ShapeInv, TypeOK
<1>2. Len(cmds) \in Nat /\ Len(cmds) > 0 /\ 1 \in 1 .. Len(cmds) /\ \A k \in 1 .. Len(cmds) : cmds[k] \in Shaped
  BY <1>1
<1>3. Ahead \in 0 .. Len(cmds) /\ StopsAt(Ahead + 1) /\ \A k \in 1 .. Ahead : ~StopsAt(k)
  BY <1>1, AheadIs
<1>4. \A i, j \in 1 .. Len(cmds) : i < j => Before(cmds[i], cmds[j])
  BY <1>1 DEF ListInv, Ordered
<1> DEFINE M == [k \in 1 .. Len(cmds) |-> IF k <= Ahead THEN [cmds[k] EXCEPT !.sent = TRUE] ELSE cmds[k]]
<1>5. cmds' = M
  BY <1>1 DEF Marked
<1>6. ASSUME NEW k \in 1 .. Len(cmds)
      PROVE  M[k] \in Shaped /\ Alike(M[k], cmds[k]) /\ M[k].sent = (cmds[k].sent \/ k <= Ahead)
  <2>1. cmds[k] \in Shaped /\ cmds[k].sent \in BOOLEAN
    BY <1>2 DEF Shaped, Command
  <2>2. CASE k <= Ahead
    <3>1. M[k] = [cmds[k] EXCEPT !.sent = TRUE]
      BY <2>2
    <3> QED
      BY <2>1, <2>2, <3>1 DEF Shaped, Command, Alike, Shape
  <2>3. CASE ~(k <= Ahead)
    <3>1. M[k] = cmds[k]
      BY <2>3
    <3> QED
      BY <2>1, <2>3, <3>1 DEF Alike
  <2> QED
    BY <2>2, <2>3
<1>7. M \in Seq(Shaped) /\ Len(M) = Len(cmds)
  <2>1. \A k \in 1 .. Len(cmds) : M[k] \in Shaped
    BY <1>6
  <2>2. M = [k \in 1 .. Len(cmds) |-> M[k]]
    OBVIOUS
  <2> HIDE DEF M
  <2> QED
    BY <1>2, <2>1, <2>2
<1>8. ASSUME cmds[1].sent PROVE AtSent /\ Ahead = 0 /\ M = cmds /\ host # NoHost
  <2>1. StopsAt(1)
    BY <1>8 DEF StopsAt
  <2>2. Ahead = 0
    <3>1. 1 \notin 1 .. Ahead
      BY <1>3, <2>1
    <3> QED
      BY <1>3, <3>1
  <2>3. M = cmds
    BY <1>1, <1>2, <2>2
  <2>4. host # NoHost
    BY <1>1, <1>2, <1>8 DEF HostInv
  <2> QED
    BY <1>2, <1>8, <2>2, <2>3, <2>4 DEF AtSent
<1>9. ASSUME ~cmds[1].sent PROVE ~AtSent /\ \A k \in 1 .. Len(cmds) : ~cmds[k].sent
  <2>1. ASSUME NEW k \in 1 .. Len(cmds) PROVE ~cmds[k].sent
    <3>1. CASE k = 1
      BY <1>9, <3>1
    <3>2. CASE k # 1
      <4>1. Before(cmds[1], cmds[k])
        BY <1>2, <1>4, <3>2
      <4> QED
        BY <1>9, <4>1 DEF Before
    <3> QED
      BY <3>1, <3>2
  <2>2. ~AtSent
    BY <1>2, <1>3, <2>1 DEF AtSent
  <2> QED
    BY <2>1, <2>2
<1>10. KeyNow # key => host = NoHost
  <2> SUFFICES ASSUME KeyNow # key, host # NoHost PROVE FALSE
    OBVIOUS
  <2>1. cmds[1].op = "connect"
    BY DEF KeyNow
  <2>2. ~Connecting
    BY <1>1 DEF Connecting, Greeting, Reading
  <2> QED
    BY <1>1, <1>2, <2>1, <2>2 DEF HostInv
<1>11. KeyNow \in BOOLEAN
  <2>1. CASE cmds[1].op = "connect"
    <3>1. KeyNow = (cmds[1].word \in HasKey)
      BY <2>1 DEF KeyNow
    <3> QED
      BY <3>1
  <2>2. CASE cmds[1].op # "connect"
    BY <1>1, <2>2 DEF KeyNow
  <2> QED
    BY <2>1, <2>2
<1> HIDE DEF M
<1> QED
  BY <1>2, <1>3, <1>5, <1>6, <1>7, <1>8, <1>9, <1>10, <1>11

(* The last command of a set of positions.                                 *)
LEMMA LastNumber ==
    ASSUME NEW n \in Nat, NEW S \in SUBSET (1 .. n), S # {}
    PROVE  \E k \in S : \A m \in S : m <= k
<1> DEFINE T == {n - k : k \in S}
<1>1. T # {} /\ T \in SUBSET Nat
  <2>1. \A k \in S : n - k \in Nat
    OBVIOUS
  <2> QED
    BY <2>1
<1> HIDE DEF T
<1>2. PICK i \in T : \A j \in T : i <= j
  BY <1>1, LeastNumber
<1>3. PICK k \in S : i = n - k
  BY DEF T
<1>4. \A m \in S : n - m \in T
  BY DEF T
<1> QED
  BY <1>2, <1>3, <1>4

LEMMA NamedType ==
    ASSUME ClientInv, pc = "request", cmds # <<>>
    PROVE  LastNamed \in Words \cup {""}
<1>1. cmds \in Seq(Shaped) /\ named \in Words \cup {""}
  BY DEF ClientInv, ShapeInv
<1>2. Len(cmds) \in Nat /\ Ahead \in 0 .. Len(cmds)
  <2>1. Len(cmds) \in Nat
    BY <1>1, LenProperties
  <2>2. Ahead \in 0 .. Len(cmds)
    BY <1>1, AheadIs
  <2> QED
    BY <2>1, <2>2
<1>3. LookedAt \in 0 .. Len(cmds)
  BY <1>2 DEF LookedAt
<1> DEFINE S == {k \in 1 .. LookedAt : cmds[k].op \in {"match", "define"}}
           k == CHOOSE k \in S : \A m \in S : m <= k
<1>4. LastNamed = IF S = {} THEN named ELSE cmds[k].word
  BY DEF LastNamed
<1>5. CASE S # {}
  <2>1. S \in SUBSET (1 .. Len(cmds))
    BY <1>3
  <2> HIDE DEF S
  <2>2. \E i \in S : \A m \in S : m <= i
    BY <1>2, <1>5, <2>1, LastNumber
  <2>3. k \in S
    BY <2>2
  <2> HIDE DEF k
  <2>4. k \in 1 .. Len(cmds) /\ cmds[k].op \in {"match", "define"}
    BY <2>1, <2>3 DEF S
  <2>5. cmds[k] \in Shaped
    BY <1>1, <2>4, ElementOfSeq
  <2>6. cmds[k].word \in Words
    BY <2>4, <2>5 DEF Shaped, Shape
  <2> QED
    BY <1>4, <1>5, <2>6
<1> QED
  BY <1>1, <1>4, <1>5

-----------------------------------------------------------------------------
(* Types.                                                                  *)
Typed == TypeOK /\ ShapeInv

LEMMA Numbers ==
    ASSUME TypeOK
    PROVE  /\ retcode \in Nat /\ matches \in Nat /\ count \in Nat /\ defs \in Nat /\ status \in Nat
           /\ key \in BOOLEAN /\ msgid \in BOOLEAN /\ match \in BOOLEAN /\ listed \in BOOLEAN
           /\ live \in BOOLEAN /\ open \in BOOLEAN
  BY DEF TypeOK

LEMMA NoCommands ==
    /\ <<>> \in Seq(Shaped) /\ <<>> \in Seq(Command) /\ <<>> \in Seq(Lines)
    /\ Len(<<>>) = 0 /\ NoText \in Seq(Words \cup {Blank, "info", "dbs", "null"})
  BY DEF NoText

LEMMA NoElements ==
    ASSUME NEW s, s = <<>>
    PROVE  s \in Seq(Shaped) /\ \A k \in 1 .. Len(s) : s[k].op # "connect"
<1>1. Len(s) = 0 /\ s \in Seq(Shaped)
  OBVIOUS
<1>2. \A k \in 1 .. 0 : FALSE
  OBVIOUS
<1> QED
  BY <1>1, <1>2

LEMMA TypedInit == Init => Typed
<1> SUFFICES ASSUME Init PROVE Typed
  OBVIOUS
<1>1. cmds \in Seq(Fresh)
  BY ListAtFirst DEF Init
<1>2. cmds \in Seq(Shaped)
  BY <1>1, SeqMonotonic, Fresh \subseteq Shaped DEF Fresh
<1>3. cmds \in Seq(Command)
  BY <1>2, ShapedType
<1>4. cur \in Shaped /\ cur \in Command
  <2>1. "print" \in Ops /\ "" \in Words \cup Hosts \cup {""}
    BY DEF Ops
  <2> QED
    BY <2>1 DEF Init, Make, Shaped, Shape, Command
<1>5. data \in Seq(Words \cup {Blank, "info", "dbs", "null"})
  BY NoCommands DEF Init
<1>6. TypeOK
  <2>1. batch \in Seq(Command) /\ toServer \in Seq(Command) /\ got \in Seq(Command)
    BY NoCommands DEF Init
  <2>2. answer \in Seq(Lines) /\ toClient \in Seq(Lines)
    BY NoCommands DEF Init
  <2>3. {key, msgid, match, listed, live, open} \subseteq BOOLEAN /\ {retcode, matches, count, defs, status} \subseteq Nat
    <3>1. /\ key = FALSE /\ msgid = FALSE /\ match = FALSE /\ listed = FALSE /\ live = FALSE /\ open = FALSE
          /\ retcode = 0 /\ matches = 0 /\ count = 0 /\ defs = 0 /\ status = 0
      BY DEF Init
    <3>2. /\ key \in BOOLEAN /\ msgid \in BOOLEAN /\ match \in BOOLEAN /\ listed \in BOOLEAN
          /\ live \in BOOLEAN /\ open \in BOOLEAN
      BY <3>1, Zenon
    <3>3. {key, msgid, match, listed, live, open} \subseteq BOOLEAN
      BY <3>2, Zenon
    <3>4. {retcode, matches, count, defs, status} \subseteq Nat
      BY <3>1
    <3> QED
      BY <3>3, <3>4
  <2>4. exit \in Nat \cup {Running} /\ shown \subseteq Words /\ lacking \subseteq Words \X (Words \cup {""})
    BY DEF Init
  <2>5. host \in Hosts \cup {NoHost} /\ named \in Words \cup Hosts \cup {""} /\ job \in Jobs /\ pc = "request"
    BY DEF Init
  <2> QED
    BY <1>3, <1>4, <1>5, <2>1, <2>2, <2>3, <2>4, <2>5 DEF TypeOK
<1>7. ShapeInv
  <2>1. batch = <<>> /\ toServer = <<>> /\ named = "" /\ open = FALSE
    BY DEF Init
  <2>2. batch \in Seq(Shaped) /\ \A k \in 1 .. Len(batch) : batch[k].op # "connect"
    BY <2>1, NoElements
  <2>3. toServer \in Seq(Shaped) /\ \A k \in 1 .. Len(toServer) : toServer[k].op # "connect"
    BY <2>1, NoElements
  <2> QED
    BY <1>2, <1>4, <2>1, <2>2, <2>3 DEF ShapeInv
<1> QED
  BY <1>6, <1>7 DEF Typed

LEMMA RequestTyped == ASSUME ClientInv, Request PROVE Typed'
<1>1. /\ cmds \in Seq(Shaped) /\ cmds' \in Seq(Shaped) /\ cmds' \in Seq(Command)
      /\ Ahead \in 0 .. Len(cmds)
  BY RequestMarks, ShapedType DEF ClientInv, ShapeInv
<1>2. key' \in BOOLEAN
  BY RequestMarks DEF Request
<1>3. named' \in Words \cup {""}
  BY NamedType DEF Request
<1>4. batch' \in Seq(Shaped) /\ \A k \in 1 .. Len(batch') : batch'[k].op # "connect"
  <2>1. /\ Wire(Ahead) \in Seq(Shaped) /\ \A k \in 1 .. Len(Wire(Ahead)) : Wire(Ahead)[k].op # "connect"
    BY <1>1, WireType
  <2>2. CASE AtSent
    BY <2>2 DEF Request
  <2>3. CASE ~AtSent
    BY <2>1, <2>3 DEF Request
  <2> QED
    BY <2>2, <2>3
<1>5. batch' \in Seq(Command)
  BY <1>4, ShapedType
<1>6. pc' \in {"process", "connect", "write"}
  BY DEF Request
<1>7. /\ UNCHANGED <<job, cur, host, msgid, replyVars, exit, outVars, netVars>>
      /\ TypeOK /\ ShapeInv
  BY DEF Request, ClientInv
<1>8. TypeOK'
  BY <1>1, <1>2, <1>3, <1>5, <1>6, <1>7 DEF TypeOK, replyVars, outVars, netVars
<1>9. ShapeInv'
  BY <1>1, <1>3, <1>4, <1>7 DEF ShapeInv, netVars
<1> QED
  BY <1>8, <1>9 DEF Typed

LEMMA ConnectTyped == ASSUME ClientInv, Connect PROVE Typed'
<1>1. TypeOK /\ ShapeInv /\ HostInv /\ pc = "connect" /\ host' = cmds[1].word
  BY DEF Connect, ClientInv
<1>2. cmds[1].word \in Hosts
  <2>1. host = NoHost /\ cmds # <<>> /\ Top.op = "connect"
    BY <1>1 DEF HostInv
  <2>2. Top = cmds[1] /\ Top \in Shaped
    BY <1>1, <2>1, HeadsAndTails DEF ShapeInv, Top
  <2> QED
    BY <2>1, <2>2 DEF Shaped, Shape
<1>3. key' \in BOOLEAN /\ open' = TRUE /\ pc' = "write"
  BY DEF Connect
<1>4. UNCHANGED <<listVars, batch, msgid, named, replyVars, exit, outVars, toServer, got, answer, toClient>>
  BY DEF Connect
<1>5. TypeOK'
  BY <1>1, <1>2, <1>3, <1>4 DEF TypeOK, listVars, replyVars, outVars
<1>6. ShapeInv'
  BY <1>1, <1>2, <1>3, <1>4 DEF ShapeInv, listVars
<1> QED
  BY <1>5, <1>6 DEF Typed

LEMMA UnsentShape ==
    ASSUME cmds \in Seq(Shaped)
    PROVE  /\ Unsent \in Seq(Shaped) /\ Len(Unsent) = Len(cmds) /\ Len(cmds) \in Nat
           /\ \A k \in 1 .. Len(cmds) : Alike(Unsent[k], cmds[k]) /\ Unsent[k].sent = FALSE
<1> DEFINE u(k) == [cmds[k] EXCEPT !.sent = FALSE]
<1>1. Len(cmds) \in Nat /\ \A k \in 1 .. Len(cmds) : cmds[k] \in Shaped
  BY LenProperties, ElementOfSeq
<1>2. \A k \in 1 .. Len(cmds) : u(k) \in Shaped /\ Alike(u(k), cmds[k]) /\ u(k).sent = FALSE
  BY <1>1 DEF Shaped, Command, Alike, Shape
<1>3. Unsent = [k \in 1 .. Len(cmds) |-> u(k)]
  BY DEF Unsent
<1> HIDE DEF u
<1> QED
  BY <1>1, <1>2, <1>3

LEMMA ConnectFailsTyped == ASSUME ClientInv, ConnectFails PROVE Typed'
<1>1. TypeOK /\ ShapeInv
  BY DEF ClientInv
<1>2. cmds' \in Seq(Shaped) /\ cmds' \in Seq(Command)
  <2>1. cmds \in Seq(Shaped) /\ Unsent \in Seq(Shaped)
    BY <1>1, UnsentShape DEF ShapeInv
  <2>2. cmds' = Unsent \/ cmds' = cmds
    BY DEF ConnectFails
  <2> QED
    BY <2>1, <2>2, ShapedType
<1>3. pc' \in {"process", "ended"} /\ exit' \in Nat \cup {Running} /\ batch' = <<>>
  <2>1. exit \in Nat \cup {Running} /\ 41 \in Nat
    BY <1>1 DEF TypeOK
  <2> QED
    BY <2>1 DEF ConnectFails, End
<1>4. UNCHANGED <<job, cur, hostVars, named, replyVars, outVars, netVars>>
  BY DEF ConnectFails
<1>5. TypeOK'
  BY <1>1, <1>2, <1>3, <1>4, NoCommands DEF TypeOK, hostVars, replyVars, outVars, netVars
<1>6. ShapeInv'
  <2>1. batch' \in Seq(Shaped) /\ \A k \in 1 .. Len(batch') : batch'[k].op # "connect"
    BY <1>3, NoCommands
  <2> QED
    BY <1>1, <1>2, <1>4, <2>1 DEF ShapeInv, hostVars, netVars
<1> QED
  BY <1>5, <1>6 DEF Typed

LEMMA WriteTyped == ASSUME ClientInv, Write PROVE Typed'
<1>1. TypeOK /\ ShapeInv
  BY DEF ClientInv
<1>2. /\ toServer' \in Seq(Shaped) /\ toServer' \in Seq(Command)
      /\ \A k \in 1 .. Len(toServer') : toServer'[k].op # "connect"
  <2>1. CASE open
    <3>1. toServer' = toServer \o batch /\ toServer \in Seq(Shaped) /\ batch \in Seq(Shaped)
      BY <1>1, <2>1 DEF Write, ShapeInv
    <3>2. /\ \A k \in 1 .. Len(toServer) : toServer[k].op # "connect"
          /\ \A k \in 1 .. Len(batch) : batch[k].op # "connect"
      BY <1>1 DEF ShapeInv
    <3>3. /\ toServer \o batch \in Seq(Shaped)
          /\ \A k \in 1 .. Len(toServer \o batch) : (toServer \o batch)[k].op # "connect"
      <4>1. /\ toServer \o batch \in Seq(Shaped)
            /\ Len(toServer \o batch) = Len(toServer) + Len(batch)
            /\ \A i \in 1 .. Len(toServer) + Len(batch) : (toServer \o batch)[i] =
                 IF i <= Len(toServer) THEN toServer[i] ELSE batch[i - Len(toServer)]
        BY <3>1, ConcatProperties
      <4>2. Len(toServer) \in Nat /\ Len(batch) \in Nat
        BY <3>1, LenProperties
      <4>3. ASSUME NEW i \in 1 .. Len(toServer) + Len(batch) PROVE (toServer \o batch)[i].op # "connect"
        <5>1. i \in 1 .. Len(toServer) \/ (~(i <= Len(toServer)) /\ i - Len(toServer) \in 1 .. Len(batch))
          BY <4>2
        <5> QED
          BY <3>2, <4>1, <4>2, <5>1
      <4> QED
        BY <4>1, <4>3
    <3> QED
      BY <3>1, <3>3, ShapedType
  <2>2. CASE ~open
    BY <1>1, <2>2 DEF Write, ShapeInv, TypeOK
  <2> QED
    BY <2>1, <2>2
<1>3. pc' = "process" /\ batch' = <<>>
  BY DEF Write
<1>4. UNCHANGED <<listVars, hostVars, named, replyVars, exit, outVars, open, got, answer, toClient>>
  BY DEF Write
<1>5. TypeOK'
  BY <1>1, <1>2, <1>3, <1>4, NoCommands DEF TypeOK, listVars, hostVars, replyVars, outVars
<1>6. ShapeInv'
  <2>1. batch' \in Seq(Shaped) /\ \A k \in 1 .. Len(batch') : batch'[k].op # "connect"
    BY <1>3, NoCommands
  <2> QED
    BY <1>1, <1>2, <1>4, <2>1 DEF ShapeInv, listVars, hostVars
<1> QED
  BY <1>5, <1>6 DEF Typed

LEMMA EndTyped == ASSUME ClientInv, WriteFails \/ Finish \/ ReadEnd PROVE Typed'
<1>1. TypeOK /\ ShapeInv
  BY DEF ClientInv
<1>2. pc' = "ended" /\ exit' \in Nat \cup {Running}
  <2>1. status \in Nat
    BY <1>1, Numbers
  <2> QED
    BY <2>1 DEF WriteFails, Finish, ReadEnd, End, Killed, Fatal
<1>3. UNCHANGED <<listVars, batch, hostVars, named, replyVars, outVars, netVars>>
  BY DEF WriteFails, Finish, ReadEnd
<1>4. TypeOK'
  BY <1>1, <1>2, <1>3 DEF TypeOK, listVars, hostVars, replyVars, outVars, netVars
<1>5. ShapeInv'
  BY <1>1, <1>2, <1>3 DEF ShapeInv, listVars, hostVars, netVars
<1> QED
  BY <1>4, <1>5 DEF Typed

(* What the first command of the list is.                                  *)
LEMMA TopShape ==
    ASSUME cmds \in Seq(Shaped), cmds # <<>>
    PROVE  /\ Top \in Shaped /\ Top = cmds[1] /\ Tail(cmds) \in Seq(Shaped)
           /\ Top \in Command /\ Tail(cmds) \in Seq(Command)
           /\ Top.op \in {"match", "define", "spell", "wind", "defprint"} => Top.word \in Words
           /\ Top.op = "print" => Top.word \in Words \cup {""}
<1>1. Top \in Shaped /\ Top = cmds[1] /\ Tail(cmds) \in Seq(Shaped)
  BY HeadsAndTails DEF Top
<1>2. Tail(cmds) \in Seq(Command)
  BY <1>1, ShapedType
<1> QED
  BY <1>1, <1>2 DEF Shaped, Shape

LEMMA PassTyped ==
    ASSUME ClientInv, Await \/ PassOver \/ PrintReply \/ PrintDefinitions, cmds # <<>>
    PROVE  Typed'
<1>1. TypeOK /\ ShapeInv /\ pc = "process" /\ TextInv
  BY DEF ClientInv, Await, PassOver, PrintReply, PrintDefinitions, Pop
<1>2. /\ cmds' = Tail(cmds) /\ cur' = Top /\ pc' \in {"status", "request"}
      /\ UNCHANGED <<job, batch, hostVars, named, retcode, listed, exit, netVars>>
      \/ /\ cmds' = Tail(cmds) /\ cur' = Top /\ pc' = "request"
         /\ UNCHANGED <<job, batch, hostVars, named, retcode, count, defs, exit, netVars>> /\ listed' = FALSE
  BY DEF Await, PassOver, PrintReply, PrintDefinitions, Pop, replyVars
<1>3. /\ cmds' \in Seq(Shaped) /\ cmds' \in Seq(Command) /\ cur' \in Shaped /\ cur' \in Command
      /\ pc' \in {"status", "request"} /\ listed' \in BOOLEAN
      /\ UNCHANGED <<job, batch, hostVars, named, retcode, exit, netVars>>
  <2>1. listed \in BOOLEAN
    BY <1>1, Numbers
  <2>2. Tail(cmds) \in Seq(Shaped) /\ Tail(cmds) \in Seq(Command) /\ Top \in Shaped /\ Top \in Command
    BY <1>1, TopShape DEF ShapeInv
  <2> QED
    BY <1>2, <2>1, <2>2
<1>4. /\ matches' \in Nat /\ count' \in Nat /\ defs' \in Nat /\ status' \in Nat
      /\ match' \in BOOLEAN /\ live' \in BOOLEAN
      /\ data' \in Seq(Words \cup {Blank, "info", "dbs", "null"})
  <2>1. /\ matches \in Nat /\ count \in Nat /\ defs \in Nat /\ status \in Nat
        /\ match \in BOOLEAN /\ live \in BOOLEAN
        /\ data \in Seq(Words \cup {Blank, "info", "dbs", "null"})
    BY <1>1, Numbers DEF TypeOK
  <2>2. CASE Await
    BY <2>1, <2>2 DEF Await, outVars
  <2>3. CASE PassOver
    BY <2>1, <2>3 DEF PassOver, outVars, replyVars
  <2>4. CASE PrintReply
    <3>1. status' \in Nat
      BY <2>1, <2>4 DEF PrintReply, SetStatus
    <3>2. /\ matches' = 0 /\ match' = FALSE /\ count' = count /\ defs' = defs
          /\ data' = NoText /\ live' = FALSE
      BY <2>4 DEF PrintReply, Forget
    <3> QED
      BY <2>1, <3>1, <3>2, NoCommands
  <2>5. CASE PrintDefinitions
    <3>1. status' \in Nat
      BY <2>1, <2>5 DEF PrintDefinitions, SetStatus
    <3>2. /\ matches' \in {matches, 0} /\ match' = match /\ count' \in {count, 0} /\ defs' \in {defs, 0}
      BY <2>5 DEF PrintDefinitions
    <3>3. data' \in {data, NoText} /\ live' \in {live, FALSE}
      BY <2>5 DEF PrintDefinitions, Forget
    <3>4. matches' \in Nat /\ count' \in Nat /\ defs' \in Nat
      BY <2>1, <3>2
    <3>5. data' \in Seq(Words \cup {Blank, "info", "dbs", "null"})
      BY <2>1, <3>3, NoCommands, Zenon
    <3>6. match' \in BOOLEAN
      BY <2>1, <3>2, Zenon
    <3>7. live' \in BOOLEAN
      <4>1. FALSE \in BOOLEAN
        OBVIOUS
      <4> QED
        BY <2>1, <3>3, <4>1, Zenon
    <3> QED
      BY <3>1, <3>4, <3>5, <3>6, <3>7
  <2> QED
    BY <2>2, <2>3, <2>4, <2>5
<1>5. shown' \subseteq Words /\ lacking' \subseteq Words \X (Words \cup {""})
  <2>1. shown \subseteq Words /\ lacking \subseteq Words \X (Words \cup {""}) /\ named \in Words \cup {""}
    BY <1>1 DEF TypeOK, ShapeInv
  <2>2. CASE Await \/ PassOver
    BY <2>1, <2>2 DEF Await, PassOver, outVars
  <2>3. CASE PrintReply
    <3>1. match => Top.word \in Words
      <4>1. match => ~Early(cmds[1])
        BY <1>1, HeadsAndTails DEF TextInv, ShapeInv
      <4>2. Top = cmds[1] /\ Top.op = "print" /\ Top.word \in Words \cup {""}
        BY <1>1, <2>3, TopShape DEF ShapeInv, PrintReply
      <4> QED
        BY <4>1, <4>2 DEF Early
    <3>2. CASE match /\ data = NoText
      <4>1. lacking' = lacking \cup {<<Top.word, named>>} /\ shown' = shown
        BY <2>3, <3>2 DEF PrintReply
      <4>2. <<Top.word, named>> \in Words \X (Words \cup {""})
        BY <2>1, <3>1, <3>2
      <4> QED
        BY <2>1, <4>1, <4>2
    <3>3. CASE ~(match /\ data = NoText)
      <4>1. lacking' = lacking /\ shown' = IF match THEN shown \cup {Top.word} ELSE shown
        BY <2>3, <3>3 DEF PrintReply
      <4> QED
        BY <2>1, <3>1, <4>1
    <3> QED
      BY <3>2, <3>3
  <2>4. CASE PrintDefinitions
    <3>1. Top.word \in Words
      BY <1>1, <2>4, TopShape DEF ShapeInv, PrintDefinitions
    <3>2. shown' \in {shown, shown \cup {Top.word}} /\ lacking' \in {lacking, lacking \cup {<<Top.word, Top.word>>}}
      <4>1. CASE count > 0
        BY <2>4, <4>1 DEF PrintDefinitions
      <4>2. CASE ~(count > 0) /\ matches > 0
        BY <2>4, <4>2 DEF PrintDefinitions
      <4>3. CASE ~(count > 0) /\ ~(matches > 0)
        BY <2>4, <4>3 DEF PrintDefinitions
      <4> QED
        BY <4>1, <4>2, <4>3
    <3>3. <<Top.word, Top.word>> \in Words \X (Words \cup {""})
      BY <3>1
    <3> QED
      BY <2>1, <3>1, <3>2, <3>3
  <2> QED
    BY <2>2, <2>3, <2>4
<1>6. TypeOK'
  BY <1>1, <1>3, <1>4, <1>5 DEF TypeOK, hostVars, netVars
<1>7. ShapeInv'
  BY <1>1, <1>3 DEF ShapeInv, hostVars, netVars
<1> QED
  BY <1>6, <1>7 DEF Typed

(* What CMD_SPELL and CMD_WIND put in front of the rest of the list.       *)
Added == {c \in Fresh : c.op \in {"match", "define", "defprint"}}

LEMMA MakeAdded ==
    ASSUME NEW op \in {"match", "define", "defprint"}, NEW w \in Words
    PROVE  Make(op, w) \in Added
<1>1. op \in Ops /\ w \in Words \cup Hosts \cup {""}
  BY DEF Ops
<1>2. Make(op, w).op = op /\ Make(op, w).word = w
  BY <1>1, MakeFresh
<1>3. Shape(Make(op, w))
  BY <1>2 DEF Shape
<1> QED
  BY <1>1, <1>2, <1>3, MakeFresh DEF Added

LEMMA WoundWords ==
    ASSUME matches \in Nat, data \in Seq(Words \cup {Blank}), Len(data) >= matches
    PROVE  Wound \in Seq(Words)
<1> DEFINE S == {i \in 1 .. matches : data[i] = Blank}
           IsLast(i) == data[i] = Blank /\ \A k \in i + 1 .. matches : data[k] # Blank
           from == IF \E i \in 1 .. matches : data[i] = Blank THEN (CHOOSE i \in 1 .. matches : IsLast(i)) + 1 ELSE 1
<1>1. Len(data) \in Nat /\ \A k \in 1 .. matches : data[k] \in Words \cup {Blank}
  <2>1. Len(data) \in Nat /\ \A k \in 1 .. Len(data) : data[k] \in Words \cup {Blank}
    BY LenProperties, ElementOfSeq
  <2> QED
    BY <2>1
<1>2. from \in 1 .. matches + 1 /\ \A k \in from .. matches : data[k] # Blank
  <2>1. CASE S = {}
    <3>1. from = 1 /\ \A k \in 1 .. matches : data[k] # Blank
      BY <2>1
    <3> QED
      BY <3>1
  <2>2. CASE S # {}
    <3>1. S \in SUBSET (1 .. matches)
      OBVIOUS
    <3> HIDE DEF S
    <3>2. PICK i \in S : \A m \in S : m <= i
      BY <2>2, <3>1, LastNumber
    <3>3. i \in 1 .. matches /\ IsLast(i)
      BY <3>1, <3>2 DEF S
    <3> DEFINE c == CHOOSE j \in 1 .. matches : IsLast(j)
    <3>4. c \in 1 .. matches /\ IsLast(c)
      <4> HIDE DEF IsLast
      <4> QED
        BY <3>3
    <3>5. from = c + 1
      BY <3>3
    <3> HIDE DEF c, from
    <3> QED
      BY <3>4, <3>5
  <2> QED
    BY <2>1, <2>2
<1>3. Wound = SubSeq(data, from, matches)
  BY DEF Wound
<1> HIDE DEF from
<1>4. \A i \in from .. matches : data[i] \in Words
  BY <1>1, <1>2
<1>5. from \in Int /\ matches \in Int
  BY <1>2
<1> QED
  BY <1>3, <1>4, <1>5, SubSeqProperties

AddedBy(op) == {c \in Added : c.op \in IF op = "spell" THEN {"match"} ELSE {"define", "defprint"}}

LEMMA ListGrowsBy ==
    ASSUME ClientInv, Spell \/ Wind
    PROVE  \E new \in Seq(AddedBy(Top.op)) : cmds' = new \o Tail(cmds)
<1>1. TypeOK /\ ShapeInv /\ TextInv /\ HostInv /\ pc = "process" /\ cmds # <<>>
  BY DEF ClientInv, Spell, Wind, Pop, HostInv
<1>2. Top.op \in {"spell", "wind"} /\ Top.word \in Words
  BY <1>1, TopShape DEF Spell, Wind, ShapeInv
<1> DEFINE B == AddedBy(Top.op)
<1>3. ASSUME NEW op \in {"match", "define", "defprint"}, NEW w \in Words, (op = "match") <=> (Top.op = "spell")
      PROVE  Make(op, w) \in B
  <2>1. Make(op, w) \in Added
    BY MakeAdded
  <2>2. Make(op, w).op = op
    BY DEF Make
  <2> QED
    BY <1>2, <1>3, <2>1, <2>2 DEF AddedBy
<1>4. Tail(cmds) = <<>> \o Tail(cmds) /\ <<>> \in Seq(B)
  <2>1. Tail(cmds) \in Seq(Shaped)
    BY <1>1, TopShape DEF ShapeInv
  <2> QED
    BY <2>1, ConcatEmptySeq
<1>5. CASE Spell
  <2>1. Make("match", Top.word) \in B
    BY <1>2, <1>3, <1>5 DEF Spell
  <2> HIDE DEF B
  <2>2. <<Make("match", Top.word)>> \in Seq(B)
    BY <2>1
  <2>3. cmds' = If(retcode = 552, <<Make("match", Top.word)>>) \o Tail(cmds)
    BY <1>5 DEF Spell
  <2>4. If(retcode = 552, <<Make("match", Top.word)>>) \in Seq(B)
    BY <1>4, <2>2 DEF If
  <2> QED
    BY <2>3, <2>4 DEF B
<1>6. CASE Wind /\ matches > 0
  <2> DEFINE f == [n \in 1 .. Len(Wound) |-> <<Make("define", Wound[n]), Make("defprint", Wound[n])>>]
  <2>1. matches \in Nat /\ data \in Seq(Words \cup {Blank}) /\ Len(data) >= matches
    BY <1>1, <1>6, Numbers DEF TextInv
  <2>2. Wound \in Seq(Words)
    BY <2>1, WoundWords
  <2>3. Len(Wound) \in Nat /\ \A n \in 1 .. Len(Wound) : Wound[n] \in Words
    BY <2>2, LenProperties, ElementOfSeq
  <2>4. \A n \in 1 .. Len(Wound) : Make("define", Wound[n]) \in B /\ Make("defprint", Wound[n]) \in B
    BY <1>3, <1>6, <2>3 DEF Wind
  <2> HIDE DEF B
  <2>5. \A n \in 1 .. Len(Wound) : <<Make("define", Wound[n]), Make("defprint", Wound[n])>> \in Seq(B)
    BY <2>4
  <2>6. f \in Seq(Seq(B))
    BY <2>3, <2>5
  <2>7. cmds' = FlattenSeq(f) \o Tail(cmds)
    BY <1>6 DEF Wind
  <2> HIDE DEF f
  <2>8. FlattenSeq(f) \in Seq(B)
    BY <2>6, FlattenType
  <2> QED
    BY <2>7, <2>8 DEF B
<1>7. CASE Wind /\ ~(matches > 0)
  <2>1. cmds' = Tail(cmds)
    BY <1>7 DEF Wind
  <2> QED
    BY <1>4, <2>1
<1> QED
  BY <1>5, <1>6, <1>7

LEMMA ListGrows ==
    ASSUME ClientInv, Spell \/ Wind
    PROVE  \E new \in Seq(Added) : cmds' = new \o Tail(cmds)
<1>1. PICK new \in Seq(AddedBy(Top.op)) : cmds' = new \o Tail(cmds)
  BY ListGrowsBy
<1>2. new \in Seq(Added)
  BY SeqMonotonic, AddedBy(Top.op) \subseteq Added DEF AddedBy
<1> QED
  BY <1>1, <1>2

LEMMA GrowTyped == ASSUME ClientInv, Spell \/ Wind PROVE Typed'
<1>1. TypeOK /\ ShapeInv /\ HostInv /\ cmds # <<>>
  BY DEF ClientInv, Spell, Wind, Pop, HostInv
<1>2. PICK new \in Seq(Added) : cmds' = new \o Tail(cmds)
  BY ListGrows
<1>3. Top \in Shaped /\ Tail(cmds) \in Seq(Shaped) /\ Top \in Command /\ Top.word \in Words
  BY <1>1, TopShape DEF ShapeInv, Spell, Wind
<1>4. cmds' \in Seq(Shaped) /\ cmds' \in Seq(Command)
  <2>1. new \in Seq(Shaped)
    BY SeqMonotonic, Added \subseteq Shaped DEF Added, Fresh
  <2>2. cmds' \in Seq(Shaped)
    BY <1>2, <1>3, <2>1, ConcatProperties
  <2> QED
    BY <2>2, ShapedType
<1>5. /\ cur' = Top /\ pc' = "request"
      /\ UNCHANGED <<job, batch, hostVars, named, retcode, match, listed, count, data, defs, exit, shown, netVars>>
      /\ live' \in {live, FALSE} /\ matches' \in {matches, 0} /\ status' \in {status, 20}
      /\ lacking' \in {lacking, lacking \cup {<<Top.word, Top.word>>}}
  <2>1. CASE Spell
    BY <2>1 DEF Spell, Pop, replyVars, outVars
  <2>2. CASE Wind
    <3>1. /\ cur' = Top /\ pc' = "request"
          /\ UNCHANGED <<job, batch, hostVars, named, retcode, match, listed, count, data, defs, exit, shown, netVars>>
      BY <2>2 DEF Wind, Pop
    <3>2. CASE matches > 0
      BY <2>2, <3>1, <3>2 DEF Wind
    <3>3. CASE ~(matches > 0)
      BY <2>2, <3>1, <3>3 DEF Wind, SetStatus
    <3> QED
      BY <3>2, <3>3
  <2> QED
    BY <2>1, <2>2
<1>6. live' \in BOOLEAN
  <2>1. live \in BOOLEAN
    BY <1>1, Numbers
  <2>2. FALSE \in BOOLEAN
    OBVIOUS
  <2> QED
    BY <1>5, <2>1, <2>2, Zenon
<1>7. matches' \in Nat /\ status' \in Nat
  BY <1>1, <1>5, Numbers
<1>8. lacking' \subseteq Words \X (Words \cup {""})
  <2>1. lacking \subseteq Words \X (Words \cup {""})
    BY <1>1 DEF TypeOK
  <2>2. <<Top.word, Top.word>> \in Words \X (Words \cup {""})
    BY <1>3
  <2> QED
    BY <1>5, <2>1, <2>2
<1>9. TypeOK'
  BY <1>1, <1>3, <1>4, <1>5, <1>6, <1>7, <1>8 DEF TypeOK, hostVars, netVars
<1>10. ShapeInv'
  BY <1>1, <1>3, <1>4, <1>5 DEF ShapeInv, netVars, hostVars
<1> QED
  BY <1>9, <1>10 DEF Typed

(* What is left of the list by a server that greets.                       *)
LEMMA ConnectedIs ==
    ASSUME cmds \in Seq(Shaped), \E k \in 1 .. Len(cmds) : cmds[k].op # "connect"
    PROVE  \E k \in 1 .. Len(cmds) : /\ Connected = SubSeq(cmds, k, Len(cmds))
                                     /\ cmds[k].op # "connect"
                                     /\ \A m \in 1 .. k - 1 : cmds[m].op = "connect"
<1> DEFINE Is(n) == cmds[n].op # "connect" /\ \A m \in 1 .. n - 1 : cmds[m].op = "connect"
           S == {n \in 1 .. Len(cmds) : cmds[n].op # "connect"}
           c == CHOOSE n \in 1 .. Len(cmds) : Is(n)
<1>1. Len(cmds) \in Nat
  BY LenProperties
<1>2. S # {} /\ S \in SUBSET Nat
  BY <1>1
<1>3. PICK n \in S : \A m \in S : n <= m
  BY <1>2, LeastNumber
<1>4. n \in 1 .. Len(cmds) /\ Is(n)
  <2>1. ASSUME NEW m \in 1 .. n - 1, cmds[m].op # "connect" PROVE FALSE
    <3>1. m \in S
      BY <1>1, <1>3, <2>1
    <3> QED
      BY <1>1, <1>3, <3>1
  <2> QED
    BY <1>3, <2>1
<1>5. c \in 1 .. Len(cmds) /\ Is(c)
  <2> HIDE DEF Is
  <2> QED
    BY <1>4
<1>6. Connected = SubSeq(cmds, c, Len(cmds))
  BY DEF Connected
<1> HIDE DEF c
<1> QED
  BY <1>5, <1>6

LEMMA ConnectedParts ==
    ASSUME cmds \in Seq(Shaped), \E k \in 1 .. Len(cmds) : cmds[k].op # "connect"
    PROVE  /\ Connected \in Seq(Shaped) /\ Connected # <<>>
           /\ \E a \in Seq(Shaped) : cmds = a \o Connected /\ \A k \in 1 .. Len(a) : a[k].op = "connect"
           /\ Ordered(cmds) => Ordered(Connected)
<1>1. PICK k \in 1 .. Len(cmds) : /\ Connected = SubSeq(cmds, k, Len(cmds))
                                  /\ cmds[k].op # "connect"
                                  /\ \A m \in 1 .. k - 1 : cmds[m].op = "connect"
  BY ConnectedIs
<1> DEFINE a == SubSeq(cmds, 1, k - 1)
           b == SubSeq(cmds, k, Len(cmds))
           n == Len(cmds)
<1>2. n \in Nat /\ \A m \in 1 .. n : cmds[m] \in Shaped
  BY LenProperties, ElementOfSeq
<1>3. k \in 1 .. n
  OBVIOUS
<1> HIDE DEF n
<1>4. a \in Seq(Shaped) /\ Len(a) = k - 1 /\ \A i \in 1 .. k - 1 : a[i] = cmds[i]
  <2>1. \A i \in 1 .. k - 1 : cmds[i] \in Shaped
    BY <1>2, <1>3
  <2>2. /\ a \in Seq(Shaped) /\ Len(a) = IF 1 <= k - 1 THEN (k - 1) - 1 + 1 ELSE 0
        /\ \A i \in 1 .. (k - 1) - 1 + 1 : a[i] = cmds[1 + i - 1]
    BY <1>2, <1>3, <2>1, SubSeqProperties
  <2> HIDE DEF a
  <2> QED
    BY <1>2, <1>3, <2>2
<1>5. b \in Seq(Shaped) /\ Len(b) = n - k + 1 /\ \A i \in 1 .. n - k + 1 : b[i] = cmds[k + i - 1]
  <2>1. \A i \in k .. n : cmds[i] \in Shaped
    BY <1>2, <1>3
  <2>2. /\ SubSeq(cmds, k, n) \in Seq(Shaped) /\ Len(SubSeq(cmds, k, n)) = IF k <= n THEN n - k + 1 ELSE 0
        /\ \A i \in 1 .. n - k + 1 : SubSeq(cmds, k, n)[i] = cmds[k + i - 1]
    BY <1>2, <1>3, <2>1, SubSeqProperties
  <2>3. b = SubSeq(cmds, k, n)
    BY DEF n
  <2> HIDE DEF b
  <2> QED
    BY <1>3, <2>2, <2>3
<1> HIDE DEF a, b
<1>6. cmds = a \o b
  <2>1. /\ a \o b \in Seq(Shaped) /\ Len(a \o b) = Len(a) + Len(b)
        /\ \A i \in 1 .. Len(a) + Len(b) : (a \o b)[i] = IF i <= Len(a) THEN a[i] ELSE b[i - Len(a)]
    BY <1>4, <1>5, ConcatProperties
  <2>2. Len(a \o b) = n
    BY <1>2, <1>3, <1>4, <1>5, <2>1
  <2>3. ASSUME NEW i \in 1 .. n PROVE (a \o b)[i] = cmds[i]
    <3>1. CASE i <= k - 1
      BY <1>2, <1>3, <1>4, <1>5, <2>1, <3>1
    <3>2. CASE ~(i <= k - 1)
      <4>1. i - Len(a) \in 1 .. n - k + 1 /\ k + (i - Len(a)) - 1 = i /\ ~(i <= Len(a))
        BY <1>2, <1>3, <1>4, <3>2
      <4>2. (a \o b)[i] = b[i - Len(a)]
        BY <1>2, <1>3, <1>4, <1>5, <2>1, <4>1
      <4> QED
        BY <1>5, <4>1, <4>2
    <3> QED
      BY <3>1, <3>2
  <2> QED
    BY <2>1, <2>2, <2>3, SeqEqual DEF n
<1>7. b # <<>>
  BY <1>2, <1>3, <1>5
<1>8. Ordered(cmds) => Ordered(b)
  BY <1>1, OrderedRest DEF b
<1>9. Connected = b
  BY <1>1 DEF b
<1>10. \E d \in Seq(Shaped) : cmds = d \o Connected /\ \A i \in 1 .. Len(d) : d[i].op = "connect"
  <2>1. cmds = a \o Connected /\ \A i \in 1 .. Len(a) : a[i].op = "connect"
    BY <1>1, <1>4, <1>6, <1>9
  <2> QED
    BY <1>4, <2>1
<1> QED
  BY <1>5, <1>7, <1>8, <1>9, <1>10

(* The line that is read.                                                  *)
LEMMA LineType ==
    ASSUME ClientInv, Take
    PROVE  /\ Line \in Lines /\ Line.code \in Nat /\ Line.count \in Nat
           /\ Line.text \in Seq(Words \cup {Blank, "info", "dbs"})
           /\ toClient' \in Seq(Lines)
<1>1. toClient \in Seq(Lines) /\ toClient # <<>> /\ toClient' = Tail(toClient)
  BY DEF ClientInv, TypeOK, Take
<1>2. Line \in Lines /\ Tail(toClient) \in Seq(Lines)
  BY <1>1, HeadsAndTails DEF Line
<1> QED
  BY <1>1, <1>2 DEF Lines

LEMMA ExitType ==
    ASSUME NEW code \in Nat
    PROVE  ExitOf(code) \in Nat
  BY DEF ExitOf

LEMMA StatusTyped == ASSUME ClientInv, ReadStatus PROVE Typed'
<1>1. TypeOK /\ ShapeInv /\ HostInv /\ Take /\ pc = "status"
  BY DEF ClientInv, ReadStatus
<1>2. Line.code \in Nat /\ Line.count \in Nat /\ toClient' \in Seq(Lines)
  BY <1>1, LineType
<1>3. cmds' \in Seq(Shaped) /\ cmds' \in Seq(Command)
  <2>1. CASE cur.op = "connect" /\ Line.code # 530
    <3>1. \E k \in 1 .. Len(cmds) : cmds[k].op # "connect"
      BY <1>1, <2>1 DEF HostInv, Connecting
    <3>2. cmds' = Connected
      BY <2>1 DEF ReadStatus
    <3> QED
      BY <1>1, <3>1, <3>2, ConnectedParts, ShapedType DEF ShapeInv
  <2>2. CASE ~(cur.op = "connect" /\ Line.code # 530)
    <3>1. cmds' = cmds
      BY <2>2 DEF ReadStatus
    <3> QED
      BY <1>1, <3>1, ShapedType DEF ShapeInv
  <2> QED
    BY <2>1, <2>2
<1>4. retcode' \in Nat /\ matches' \in Nat /\ count' \in Nat /\ defs' \in Nat
  <2>1. retcode \in Nat /\ matches \in Nat /\ count \in Nat /\ defs \in Nat
    BY <1>1, Numbers
  <2>2. retcode' = Line.code /\ matches' \in {Line.count, matches} /\ count' \in {Line.count, count} /\ defs' \in {0, defs}
    BY DEF ReadStatus
  <2> QED
    BY <1>2, <2>1, <2>2
<1>5. listed' \in BOOLEAN /\ msgid' \in BOOLEAN
  <2>1. listed \in BOOLEAN /\ msgid \in BOOLEAN
    BY <1>1, Numbers
  <2>2. (Line.count > 0) \in BOOLEAN
    BY <1>2
  <2>3. listed' \in {Line.count > 0, listed} /\ msgid' \in {Line.count > 0, msgid}
    BY Zenon DEF ReadStatus
  <2> QED
    BY <2>1, <2>2, <2>3, Zenon
<1>6. pc' \in {"text", "definition", "request", "ended"} /\ exit' \in Nat \cup {Running} /\ status' \in Nat
  <2>1. exit \in Nat \cup {Running} /\ status \in Nat /\ ExitOf(Line.code) \in Nat /\ Fatal \in Nat
    BY <1>1, <1>2, Numbers, ExitType DEF TypeOK, Fatal
  <2>2. CASE Follows(cur, Line.code) # "nothing"
    <3>1. pc' = Follows(cur, Line.code) /\ exit' = exit /\ status' = status
      BY <2>2 DEF ReadStatus
    <3>2. Follows(cur, Line.code) \in {"text", "definition"}
      BY <2>2 DEF Follows
    <3> QED
      BY <2>1, <3>1, <3>2
  <2>3. CASE ~(Follows(cur, Line.code) # "nothing")
    <3>1. (pc' = "request" /\ exit' = exit) \/ (pc' = "ended" /\ exit' \in {Fatal, ExitOf(Line.code)})
      <4>1. CASE Tolerated(cur, Line.code)
        <5>1. pc' = "request" /\ UNCHANGED exit
          BY <2>3, <4>1, Zenon DEF ReadStatus
        <5> QED
          BY <5>1
      <4>2. CASE ~Tolerated(cur, Line.code)
        BY <2>3, <4>2 DEF ReadStatus, End
      <4> QED
        BY <4>1, <4>2
    <3>2. status' \in {status, ExitOf(Line.code)}
      <4>1. CASE Tolerated(cur, Line.code) /\ Remembered(cur, Line.code)
        BY <2>3, <4>1 DEF ReadStatus, SetStatus
      <4>2. CASE ~(Tolerated(cur, Line.code) /\ Remembered(cur, Line.code))
        BY <2>3, <4>2 DEF ReadStatus
      <4> QED
        BY <4>1, <4>2
    <3> QED
      BY <2>1, <3>1, <3>2
  <2> QED
    BY <2>2, <2>3
<1>7. UNCHANGED <<job, cur, batch, host, key, named, match, data, live, shown, lacking, open, toServer, got, answer>>
  BY DEF ReadStatus
<1>8. TypeOK'
  BY <1>1, <1>2, <1>3, <1>4, <1>5, <1>6, <1>7 DEF TypeOK
<1>9. ShapeInv'
  BY <1>1, <1>3, <1>7 DEF ShapeInv
<1> QED
  BY <1>8, <1>9 DEF Typed

LEMMA ReadTyped ==
    ASSUME ClientInv, ReadText \/ ReadFinal \/ ReadDefinition \/ ReadDefText
    PROVE  Typed'
<1>1. TypeOK /\ ShapeInv /\ Take
  BY DEF ClientInv, ReadText, ReadFinal, ReadDefinition, ReadDefText
<1>2. /\ Line.code \in Nat /\ toClient' \in Seq(Lines) /\ ExitOf(Line.code) \in Nat
      /\ Line.text \in Seq(Words \cup {Blank, "info", "dbs"})
  BY <1>1, LineType, ExitType
<1>3. UNCHANGED <<listVars, batch, hostVars, named, matches, match, listed, count, outVars, open, toServer, got, answer>>
  BY DEF ReadText, ReadFinal, ReadDefinition, ReadDefText
<1>4. pc' \in {"request", "final", "definition", "deftext", "ended"} /\ exit' \in {exit, ExitOf(Line.code)}
  <2>1. CASE ReadText
    BY <2>1 DEF ReadText
  <2>2. CASE ReadFinal
    BY <2>2 DEF ReadFinal, Check, End
  <2>3. CASE ReadDefinition
    BY <2>3 DEF ReadDefinition, End
  <2>4. CASE ReadDefText
    BY <2>4 DEF ReadDefText
  <2> QED
    BY <2>1, <2>2, <2>3, <2>4
<1>5. retcode' \in Nat /\ defs' \in Nat
  <2>1. retcode \in Nat /\ defs \in Nat
    BY <1>1, Numbers
  <2>2. retcode' \in {retcode, Line.code}
    BY DEF ReadText, ReadFinal, ReadDefinition, ReadDefText
  <2>3. defs' = defs \/ defs' = defs + 1
    BY DEF ReadText, ReadFinal, ReadDefinition, ReadDefText
  <2> QED
    BY <1>2, <2>1, <2>2, <2>3
<1>6. data' \in Seq(Words \cup {Blank, "info", "dbs", "null"}) /\ live' \in BOOLEAN
  <2>1. data \in Seq(Words \cup {Blank, "info", "dbs", "null"}) /\ live \in BOOLEAN
    BY <1>1, Numbers DEF TypeOK
  <2>2. Line.text \in Seq(Words \cup {Blank, "info", "dbs", "null"})
    BY <1>2, SeqMonotonic, Words \cup {Blank, "info", "dbs"} \subseteq Words \cup {Blank, "info", "dbs", "null"}
  <2>3. (data' = data /\ live' = live) \/ (data' = Line.text /\ live' = TRUE)
    BY DEF ReadText, ReadFinal, ReadDefinition, ReadDefText
  <2> QED
    BY <2>1, <2>2, <2>3
<1>7. exit' \in Nat \cup {Running}
  BY <1>1, <1>2, <1>4 DEF TypeOK
<1>8. TypeOK'
  BY <1>1, <1>2, <1>3, <1>4, <1>5, <1>6, <1>7 DEF TypeOK, listVars, hostVars, outVars
<1>9. ShapeInv'
  BY <1>1, <1>3 DEF ShapeInv, listVars, hostVars
<1> QED
  BY <1>8, <1>9 DEF Typed

(* What the server answers.                                                *)
LEMMA GreetingShape ==
    ASSUME ClientInv, open
    PROVE  Make("connect", host) \in Shaped /\ Make("connect", host) \in Command
<1>1. host \in Hosts
  BY DEF ClientInv, ShapeInv
<1>2. "connect" \in Ops /\ host \in Words \cup Hosts \cup {""}
  BY <1>1 DEF Ops
<1> QED
  BY <1>1, <1>2 DEF Make, Shaped, Shape, Command

LEMMA ServerTyped ==
    ASSUME ClientInv, ServerNext \/ Close
    PROVE  Typed'
<1>1. TypeOK /\ ShapeInv /\ open
  BY DEF ClientInv, ServerNext, Close, Greet, Serve, Deliver
<1>2. UNCHANGED <<listVars, pc, batch, hostVars, named, replyVars, exit, outVars>>
  BY DEF ServerNext, Close, Greet, Serve, Deliver
<1>3. /\ toServer' \in Seq(Shaped) /\ toServer' \in Seq(Command)
      /\ \A k \in 1 .. Len(toServer') : toServer'[k].op # "connect"
  <2>1. toServer \in Seq(Shaped) /\ \A k \in 1 .. Len(toServer) : toServer[k].op # "connect"
    BY <1>1 DEF ShapeInv
  <2>2. CASE toServer' = toServer
    BY <2>1, <2>2, ShapedType
  <2>3. CASE Serve
    <3>1. toServer # <<>> /\ toServer' = Tail(toServer)
      BY <2>3 DEF Serve
    <3>2. Tail(toServer) \in Seq(Shaped) /\ \A k \in 1 .. Len(Tail(toServer)) : Tail(toServer)[k].op # "connect"
      BY <2>1, <3>1, HeadsAndTails
    <3> QED
      BY <3>1, <3>2, ShapedType
  <2>4. CASE Close
    <3>1. toServer' = <<>>
      BY <2>4 DEF Close
    <3> QED
      BY <3>1, NoElements, ShapedType
  <2> QED
    BY <2>2, <2>3, <2>4 DEF ServerNext, Greet, Deliver
<1>4. /\ got' \in Seq(Command) /\ answer' \in Seq(Lines) /\ toClient' \in Seq(Lines) /\ open' \in BOOLEAN
  <2>1. /\ got \in Seq(Command) /\ answer \in Seq(Lines) /\ toClient \in Seq(Lines) /\ open \in BOOLEAN
        /\ toServer \in Seq(Shaped)
    BY <1>1, Numbers DEF TypeOK, ShapeInv
  <2>2. CASE Greet
    <3>1. /\ got' = <<Make("connect", host)>> /\ answer' \in Answers(Make("connect", host))
          /\ toClient' = toClient /\ open' = open
      BY <2>2 DEF Greet
    <3>2. Make("connect", host) \in Shaped /\ Make("connect", host) \in Command
      BY <1>1, GreetingShape
    <3>3. answer' \in Seq(Lines)
      BY <3>1, <3>2, AnswersFit DEF Answered
    <3>4. got' \in Seq(Command)
      BY <3>1, <3>2
    <3> QED
      BY <2>1, <3>1, <3>3, <3>4
  <2>3. CASE Serve
    <3>1. /\ got' = Append(got, Head(toServer)) /\ answer' \in Answers(Head(toServer))
          /\ toClient' = toClient /\ open' = open /\ toServer # <<>>
      BY <2>3 DEF Serve
    <3>2. Head(toServer) \in Shaped
      BY <2>1, <3>1, HeadsAndTails
    <3>3. answer' \in Seq(Lines)
      BY <3>1, <3>2, AnswersFit DEF Answered
    <3>4. Head(toServer) \in Command
      BY <3>2 DEF Shaped
    <3>5. got' \in Seq(Command)
      BY <2>1, <3>1, <3>4, AppendProperties
    <3> QED
      BY <2>1, <3>1, <3>3, <3>5
  <2>4. CASE Deliver
    <3>1. /\ got' = got /\ open' = open /\ answer # <<>> /\ answer' = Tail(answer)
          /\ toClient' = Append(toClient, Head(answer))
      BY <2>4 DEF Deliver
    <3>2. Head(answer) \in Lines /\ Tail(answer) \in Seq(Lines)
      BY <2>1, <3>1, HeadsAndTails
    <3>3. Append(toClient, Head(answer)) \in Seq(Lines)
      BY <2>1, <3>2, AppendProperties
    <3> QED
      BY <2>1, <3>1, <3>2, <3>3
  <2>5. CASE Close
    <3>1. got' = got /\ open' = FALSE /\ answer' = <<>> /\ toClient' = toClient
      BY <2>5 DEF Close
    <3>2. answer' \in Seq(Lines)
      BY <3>1, NoCommands
    <3>3. open' \in BOOLEAN
      BY <3>1, Zenon
    <3> QED
      BY <2>1, <3>1, <3>2, <3>3
  <2> QED
    BY <2>2, <2>3, <2>4, <2>5 DEF ServerNext
<1>5. TypeOK'
  BY <1>1, <1>2, <1>3, <1>4 DEF TypeOK, listVars, hostVars, replyVars, outVars
<1>6. ShapeInv'
  <2>1. open' => host' \in Hosts
    BY <1>1, <1>2 DEF ShapeInv, hostVars
  <2> QED
    BY <1>1, <1>2, <1>3, <2>1 DEF ShapeInv, listVars
<1> QED
  BY <1>5, <1>6 DEF Typed

(* Every step keeps the types.                                             *)
LEMMA TypesKept == ASSUME ClientInv, [Next]_vars PROVE Typed'
<1>1. TypeOK /\ ShapeInv
  BY DEF ClientInv
<1>2. CASE Await \/ PassOver \/ PrintReply \/ PrintDefinitions
  <2>1. pc = "process" /\ HostInv
    BY <1>2 DEF Await, PassOver, PrintReply, PrintDefinitions, Pop, ClientInv
  <2>2. cmds # <<>>
    BY <2>1 DEF HostInv
  <2> QED
    BY <1>2, <2>2, PassTyped
<1>3. CASE UNCHANGED vars
  <2>1. TypeOK'
    BY <1>1, <1>3 DEF TypeOK, vars, listVars, hostVars, replyVars, outVars, netVars
  <2>2. ShapeInv'
    BY <1>1, <1>3 DEF ShapeInv, vars, listVars, hostVars, replyVars, outVars, netVars
  <2> QED
    BY <2>1, <2>2 DEF Typed
<1>4. CASE Ended
  <2>1. UNCHANGED vars
    BY <1>4 DEF Ended
  <2> QED
    BY <1>3, <2>1
<1>5. CASE ClientNext
  BY <1>2, <1>5, RequestTyped, ConnectTyped, ConnectFailsTyped, WriteTyped, EndTyped, GrowTyped, StatusTyped,
     ReadTyped DEF ClientNext
<1>6. CASE ServerNext \/ Close
  BY <1>6, ServerTyped
<1> QED
  BY <1>3, <1>4, <1>5, <1>6 DEF Next

-----------------------------------------------------------------------------
(* The order of the list.                                                  *)
LEMMA ListRequest == ASSUME ClientInv, Request PROVE ListInv'
<1>1. /\ Len(cmds) \in Nat /\ Ahead \in 0 .. Len(cmds) /\ Len(cmds') = Len(cmds)
      /\ \A k \in 1 .. Len(cmds) : Alike(cmds'[k], cmds[k]) /\ cmds'[k].sent = (cmds[k].sent \/ k <= Ahead)
      /\ cmds[1].sent => Ahead = 0 /\ cmds' = cmds /\ host # NoHost
      /\ ~cmds[1].sent => \A k \in 1 .. Len(cmds) : ~cmds[k].sent
      /\ KeyNow # key => host = NoHost
  BY RequestMarks
<1>2. /\ key' = KeyNow /\ msgid' = msgid /\ cmds \in Seq(Shaped)
      /\ Ordered(cmds) /\ \A k \in 1 .. Len(cmds) : cmds[k].sent => Unstopped(cmds[k])
  BY DEF Request, hostVars, ClientInv, ShapeInv, ListInv
<1>3. CASE cmds[1].sent
  <2>1. cmds' = cmds /\ key' = key
    BY <1>1, <1>2, <1>3
  <2> QED
    BY <1>2, <2>1 DEF ListInv, Ordered, Unstopped
<1>4. CASE ~cmds[1].sent
  <2>1. \A k \in 1 .. Len(cmds) : cmds'[k].sent <=> k <= Ahead
    BY <1>1, <1>4, Zenon
  <2>2. ASSUME NEW i \in 1 .. Len(cmds), NEW j \in 1 .. Len(cmds), i < j PROVE Before(cmds'[i], cmds'[j])
    <3>1. Before(cmds[i], cmds[j])
      BY <1>2, <2>2 DEF Ordered
    <3>2. cmds'[j].sent => cmds'[i].sent
      BY <1>1, <2>2, <2>1
    <3>3. Alike(cmds'[i], cmds[i]) /\ Alike(cmds'[j], cmds[j])
      BY <1>1
    <3> QED
      BY <3>1, <3>2, <3>3 DEF Before, Alike, Early
  <2>3. Ordered(cmds')
    BY <1>1, <2>2 DEF Ordered
  <2>4. ASSUME NEW k \in 1 .. Len(cmds), cmds'[k].sent
        PROVE  cmds'[k].op \notin {"spell", "wind"} /\ (cmds'[k].op = "auth" /\ key' => msgid')
    <3>1. k \in 1 .. Ahead /\ cmds'[k].op = cmds[k].op
      BY <1>1, <2>4, <2>1 DEF Alike
    <3>2. ~StopsAt(k)
      BY <1>2, <3>1, AheadIs
    <3> QED
      BY <1>2, <3>1, <3>2 DEF StopsAt, StopsPipe
  <2> QED
    BY <1>1, <2>3, <2>4 DEF ListInv, Unstopped
<1> QED
  BY <1>3, <1>4

LEMMA ListConnectFails == ASSUME ClientInv, ConnectFails, pc' # "ended" PROVE ListInv'
<1>1. cmds' = Unsent
  BY DEF ConnectFails, End
<1>2. /\ Len(Unsent) = Len(cmds) /\ Len(cmds) \in Nat
      /\ \A k \in 1 .. Len(cmds) : Alike(Unsent[k], cmds[k]) /\ Unsent[k].sent = FALSE
  BY UnsentShape DEF ClientInv, ShapeInv
<1>3. Ordered(cmds)
  BY DEF ClientInv, ListInv, ConnectFails
<1>4. Ordered(Unsent)
  <2>1. ASSUME NEW i \in 1 .. Len(cmds), NEW j \in 1 .. Len(cmds), i < j PROVE Before(Unsent[i], Unsent[j])
    <3>1. Before(cmds[i], cmds[j])
      BY <1>3, <2>1 DEF Ordered
    <3>2. Alike(Unsent[i], cmds[i]) /\ Alike(Unsent[j], cmds[j]) /\ ~Unsent[j].sent
      BY <1>2
    <3> QED
      BY <3>1, <3>2 DEF Before, Alike, Early
  <2> QED
    BY <1>2, <2>1 DEF Ordered
<1> QED
  BY <1>1, <1>2, <1>4 DEF ListInv

LEMMA ListPass ==
    ASSUME ClientInv, pc = "process", cmds # <<>>, cmds' = Tail(cmds), key' = key, msgid' = msgid
    PROVE  ListInv'
<1>1. /\ cmds \in Seq(Shaped) /\ Ordered(cmds)
      /\ \A k \in 1 .. Len(cmds) : cmds[k].sent => Unstopped(cmds[k])
  BY DEF ClientInv, ShapeInv, ListInv
<1>2. Ordered(Tail(cmds))
  BY <1>1, OrderedTail
<1>3. ASSUME NEW k \in 1 .. Len(Tail(cmds)), Tail(cmds)[k].sent PROVE Unstopped(Tail(cmds)[k])
  <2>1. k + 1 \in 1 .. Len(cmds) /\ Tail(cmds)[k] = cmds[k + 1]
    BY <1>1, HeadsAndTails
  <2> QED
    BY <1>1, <1>3, <2>1
<1> QED
  BY <1>2, <1>3 DEF ListInv, Unstopped

(* Commands that are put in front of the list come before those that are   *)
(* left, of which none has been sent.                                      *)
LEMMA ListGrown ==
    ASSUME ClientInv, Spell \/ Wind, NEW new \in Seq(Added), cmds' = new \o Tail(cmds)
    PROVE  /\ ListInv' /\ \A k \in 1 .. Len(cmds') : ~cmds'[k].sent
           /\ \A k \in 1 .. Len(cmds') : cmds'[k].op # "connect" /\ ~Early(cmds'[k])
<1>1. /\ cmds \in Seq(Shaped) /\ Ordered(cmds) /\ cmds # <<>>
      /\ \A k \in 1 .. Len(cmds) : cmds[k].sent => Unstopped(cmds[k])
  BY DEF ClientInv, ShapeInv, ListInv, HostInv, Spell, Wind, Pop
<1>2. Top = cmds[1] /\ Top.op \in {"spell", "wind"} /\ 1 \in 1 .. Len(cmds)
  BY <1>1, TopShape, HeadsAndTails DEF Spell, Wind
<1>3. ~Top.sent /\ ~Early(Top)
  BY <1>1, <1>2 DEF Unstopped, Early
<1> DEFINE t == Tail(cmds)
<1>4. /\ t \in Seq(Shaped) /\ Ordered(t)
      /\ \A k \in 1 .. Len(t) : Before(Top, t[k])
  BY <1>1, HeadsAndTails, OrderedTail DEF Top
<1> HIDE DEF t
<1>5. \A k \in 1 .. Len(t) : ~t[k].sent /\ t[k].op # "connect" /\ ~Early(t[k])
  BY <1>2, <1>3, <1>4 DEF Before
<1>6. \A c, d \in Added : Before(c, d)
  BY DEF Added, Fresh, Before, Early
<1>7. \A k \in 1 .. Len(new) : ~new[k].sent /\ new[k].op # "connect" /\ ~Early(new[k]) /\ new[k].op # "wind"
  <2>1. \A k \in 1 .. Len(new) : new[k] \in Added
    BY ElementOfSeq
  <2> QED
    BY <2>1 DEF Added, Fresh, Early
<1>8. new \in Seq(Shaped) /\ Ordered(new)
  BY <1>6, OrderedFree, SeqMonotonic, Added \subseteq Shaped DEF Added, Fresh
<1>9. \A i \in 1 .. Len(new), j \in 1 .. Len(t) : Before(new[i], t[j])
  BY <1>5, <1>7 DEF Before
<1>10. Ordered(new \o t)
  BY <1>4, <1>8, <1>9, OrderedJoin
<1>11. \A k \in 1 .. Len(new \o t) : ~(new \o t)[k].sent /\ (new \o t)[k].op # "connect" /\ ~Early((new \o t)[k])
  <2>1. /\ Len(new \o t) = Len(new) + Len(t)
        /\ \A i \in 1 .. Len(new) + Len(t) : (new \o t)[i] = IF i <= Len(new) THEN new[i] ELSE t[i - Len(new)]
    BY <1>4, <1>8, ConcatProperties
  <2>2. Len(new) \in Nat /\ Len(t) \in Nat
    BY <1>4, <1>8, LenProperties
  <2> SUFFICES ASSUME NEW i \in 1 .. Len(new) + Len(t)
               PROVE  ~(new \o t)[i].sent /\ (new \o t)[i].op # "connect" /\ ~Early((new \o t)[i])
    BY <2>1
  <2>3. CASE i <= Len(new)
    BY <1>7, <2>1, <2>2, <2>3
  <2>4. CASE ~(i <= Len(new))
    <3>1. i - Len(new) \in 1 .. Len(t)
      BY <2>2, <2>4
    <3>2. (new \o t)[i] = t[i - Len(new)]
      BY <2>1, <2>4
    <3> QED
      BY <1>5, <3>1, <3>2
  <2> QED
    BY <2>3, <2>4
<1> QED
  BY <1>10, <1>11 DEF ListInv, t

LEMMA ListStatus == ASSUME ClientInv, ReadStatus PROVE ListInv'
<1>1. /\ cmds \in Seq(Shaped) /\ Ordered(cmds) /\ HostInv /\ pc = "status"
      /\ \A k \in 1 .. Len(cmds) : cmds[k].sent => Unstopped(cmds[k])
  BY DEF ClientInv, ShapeInv, ListInv, ReadStatus
<1>2. key' = key
  BY DEF ReadStatus
<1>3. CASE cur.op = "connect"
  <2>1. ~msgid /\ \E k \in 1 .. Len(cmds) : cmds[k].op # "connect"
    BY <1>1, <1>3 DEF HostInv, Connecting
  <2>2. \A k \in 1 .. Len(cmds) : cmds[k].sent => cmds[k].op \notin {"spell", "wind"} /\ ~(cmds[k].op = "auth" /\ key)
    BY <1>1, <2>1 DEF Unstopped
  <2>3. CASE cmds' = Connected
    <3>1. PICK k \in 1 .. Len(cmds) : Connected = SubSeq(cmds, k, Len(cmds))
      BY <1>1, <2>1, ConnectedIs
    <3>2. Ordered(Connected)
      BY <1>1, <2>1, ConnectedParts
    <3>3. ASSUME NEW i \in 1 .. Len(Connected)
          PROVE  \E m \in 1 .. Len(cmds) : Connected[i] = cmds[m]
      <4>1. Len(cmds) \in Nat /\ \A m \in 1 .. Len(cmds) : cmds[m] \in Shaped
        BY <1>1, LenProperties, ElementOfSeq
      <4>2. \A m \in k .. Len(cmds) : cmds[m] \in Shaped
        BY <4>1
      <4>3. Len(Connected) = Len(cmds) - k + 1 /\ \A m \in 1 .. Len(cmds) - k + 1 : Connected[m] = cmds[k + m - 1]
        BY <3>1, <4>1, <4>2, SubSeqProperties
      <4>4. k + i - 1 \in 1 .. Len(cmds)
        BY <4>1, <4>3
      <4> QED
        BY <4>3, <4>4
    <3> QED
      BY <1>2, <2>2, <2>3, <3>2, <3>3 DEF ListInv, Unstopped
  <2>4. CASE cmds' = cmds
    BY <1>1, <1>2, <2>2, <2>4 DEF ListInv, Unstopped
  <2> QED
    BY <2>3, <2>4 DEF ReadStatus
<1>4. CASE cur.op # "connect"
  <2>1. cmds' = cmds /\ msgid' = msgid
    BY <1>4 DEF ReadStatus
  <2> QED
    BY <1>1, <1>2, <2>1 DEF ListInv, Ordered, Unstopped
<1> QED
  BY <1>3, <1>4

(* A client that has ended does nothing any more.                          *)
LEMMA StillRunning == ASSUME Next, pc' # "ended" PROVE pc # "ended"
<1>1. ASSUME pc = "ended" PROVE FALSE
  <2>1. CASE ClientNext
    BY <1>1, <2>1 DEF ClientNext, Request, Connect, ConnectFails, Write, WriteFails, Finish, Await, PassOver,
       PrintReply, PrintDefinitions, Spell, Wind, Pop, ReadStatus, ReadText, ReadFinal, ReadDefinition,
       ReadDefText, ReadEnd, Reading
  <2>2. CASE ServerNext \/ Close
    BY <1>1, <2>2 DEF ServerNext, Close, Greet, Serve, Deliver
  <2>3. CASE Ended
    BY <1>1, <2>3 DEF Ended, vars
  <2> QED
    BY <2>1, <2>2, <2>3 DEF Next
<1> QED
  BY <1>1

LEMMA ListKept == ASSUME ClientInv, Next, pc' # "ended" PROVE ListInv'
<1>1. pc # "ended"
  BY StillRunning
<1>2. ListInv /\ HostInv
  BY <1>1 DEF ClientInv
<1>3. CASE cmds' = cmds /\ key' = key /\ msgid' = msgid
  BY <1>2, <1>3 DEF ListInv, Ordered, Unstopped
<1>4. CASE Connect
  <2>1. cmds' = cmds /\ msgid' = msgid /\ key' = (cmds[1].word \in HasKey)
    BY <1>4 DEF Connect, listVars
  <2>2. key = KeyNow /\ cmds # <<>> /\ Top.op = "connect"
    BY <1>2, <1>4 DEF HostInv, Connect
  <2>3. Top = cmds[1]
    BY <2>2, TopShape DEF ClientInv, ShapeInv
  <2>4. key = (cmds[1].word \in HasKey)
    BY <2>2, <2>3 DEF KeyNow
  <2> QED
    BY <1>3, <2>1, <2>4
<1>5. CASE Await \/ PassOver \/ PrintReply \/ PrintDefinitions
  <2>1. pc = "process" /\ cmds' = Tail(cmds) /\ key' = key /\ msgid' = msgid
    BY <1>5 DEF Await, PassOver, PrintReply, PrintDefinitions, Pop, hostVars
  <2> QED
    BY <1>2, <2>1, ListPass DEF HostInv
<1>6. CASE Spell \/ Wind
  BY <1>6, ListGrows, ListGrown
<1>7. CASE Write \/ WriteFails \/ Finish \/ ReadText \/ ReadFinal \/ ReadDefinition \/ ReadDefText \/ ReadEnd
  BY <1>3, <1>7 DEF Write, WriteFails, Finish, ReadText, ReadFinal, ReadDefinition, ReadDefText, ReadEnd,
     listVars, hostVars
<1>8. CASE ServerNext \/ Close
  BY <1>3, <1>8 DEF ServerNext, Close, Greet, Serve, Deliver, listVars, hostVars
<1>9. CASE Ended
  BY <1>1, <1>9 DEF Ended
<1>10. CASE ClientNext
  BY <1>4, <1>5, <1>6, <1>7, <1>10, ListRequest, ListConnectFails, ListStatus DEF ClientNext
<1> QED
  BY <1>8, <1>9, <1>10 DEF Next

-----------------------------------------------------------------------------
(* The connection.                                                         *)

(* While nothing sent is unanswered, nothing is on its way.                *)
LEMMA NothingOnItsWay ==
    ASSUME ClientInv, pc = "request", \A k \in 1 .. Len(cmds) : ~cmds[k].sent
    PROVE  /\ Expected = <<>> /\ toClient = <<>> /\ answer = <<>> /\ toServer = <<>> /\ batch = <<>>
           /\ open => got # <<>>
<1>1. /\ TypeOK /\ HostInv /\ StreamInv /\ cmds \in Seq(Shaped)
      /\ toClient \in Seq(Lines) /\ answer \in Seq(Lines) /\ toServer \in Seq(Command) /\ batch \in Seq(Command)
  BY DEF ClientInv, TypeOK, ShapeInv
<1>2. Sift(cmds, Wired) = <<>>
  <2>1. \A k \in 1 .. Len(cmds) : cmds[k] \notin Wired
    BY DEF Wired
  <2> QED
    BY <1>1, <2>1, SiftNone
<1>3. ~Reading /\ ~Greeting
  BY DEF Reading, Greeting
<1>4. Expected = <<>>
  <2>1. First = <<>>
    BY <1>3 DEF First
  <2>2. <<>> \o <<>> = <<>>
    OBVIOUS
  <2> QED
    BY <1>2, <2>1, <2>2 DEF Expected
<1>5. Where = Beginning
  BY <1>3 DEF Where, Beginning
<1> DEFINE g == IF open /\ got = <<>> THEN <<Make("connect", host)>> ELSE <<>>
<1>6. g \in Seq(Command) /\ (open /\ got = <<>> => Len(g) = 1)
  <2>1. CASE open /\ got = <<>>
    BY <2>1, GreetingShape
  <2>2. CASE ~(open /\ got = <<>>)
    BY <2>2, NoCommands
  <2> QED
    BY <2>1, <2>2
<1>7. Pending = g \o toServer \o batch
  BY DEF Pending
<1> HIDE DEF g
<1>8. g \o toServer \in Seq(Command) /\ Len(g \o toServer) = Len(g) + Len(toServer)
  BY <1>1, <1>6, ConcatProperties
<1>9. Pending \in Seq(Command) /\ Len(Pending) = Len(g) + Len(toServer) + Len(batch)
  BY <1>1, <1>7, <1>8, ConcatProperties
<1>10. Arriving \in Seq(Lines) /\ Len(Arriving) = Len(toClient) + Len(answer)
  BY <1>1, ConcatProperties DEF Arriving
<1>11. Stream(<<>>, Arriving, Beginning, Pending, open \/ pc = "connect")
  BY <1>1, <1>4, <1>5 DEF StreamInv
<1>12. Arriving = <<>> /\ (open => Pending = <<>>)
  BY <1>9, <1>10, <1>11, StreamNothing
<1>13. /\ Len(g) \in Nat /\ Len(toServer) \in Nat /\ Len(batch) \in Nat /\ Len(toClient) \in Nat /\ Len(answer) \in Nat
       /\ batch = <<>>
  BY <1>1, <1>6, LenProperties DEF HostInv
<1>14. toClient = <<>> /\ answer = <<>>
  <2>1. Len(toClient) = 0 /\ Len(answer) = 0
    BY <1>10, <1>12, <1>13, NoCommands
  <2> QED
    BY <1>1, <2>1, EmptySeq
<1>15. CASE open
  <2>1. Len(toServer) = 0 /\ Len(g) = 0
    <3>1. Pending = <<>>
      BY <1>12, <1>15
    <3>2. Len(Pending) = 0
      BY <3>1
    <3>3. Len(g) \in Nat /\ Len(toServer) \in Nat /\ Len(batch) \in Nat
      BY <1>13
    <3>4. Len(g) + Len(toServer) + Len(batch) = 0
      BY <1>9, <3>2
    <3> QED
      BY <3>3, <3>4
  <2>2. toServer = <<>>
    BY <1>1, <2>1, EmptySeq
  <2>3. got # <<>>
    BY <1>6, <1>15, <2>1
  <2> QED
    BY <1>4, <1>13, <1>14, <2>2, <2>3
<1>16. CASE ~open
  BY <1>1, <1>4, <1>13, <1>14, <1>16 DEF HostInv
<1> QED
  BY <1>15, <1>16

(* What is written is one command, or fits in the pipe.                    *)
LEMMA BatchFits ==
    ASSUME ClientInv, pc = "request"
    PROVE  Len(Wire(Ahead)) <= 1 \/ Len(Wire(Ahead)) <= Pipe
<1>1. cmds \in Seq(Shaped)
  BY DEF ClientInv, ShapeInv
<1>2. Len(cmds) \in Nat /\ Ahead \in 0 .. Len(cmds) /\ \A k \in 1 .. Ahead : ~StopsAt(k)
  BY <1>1, AheadIs, LenProperties
<1>3. Wire(Ahead) \in Seq(Shaped) /\ Len(Wire(Ahead)) \in Nat
  BY <1>1, <1>2, WireType
<1>4. CASE Ahead > 1
  <2>1. ~PipeFull(Ahead)
    BY <1>2, <1>4 DEF StopsAt
  <2>2. ~(Len(Wire(Ahead)) > Pipe) /\ Pipe \in Nat
    BY <1>4, <2>1, ClientAssumption DEF PipeFull
  <2> QED
    BY <1>3, <2>2
<1>5. CASE Ahead = 1
  <2>1. Wire(1) = Sifted(cmds, OnWires)[1]
    BY <1>1, <1>2, <1>5, WireSifted
  <2>2. Len(Sifted(cmds, OnWires)[1]) <= 1
    BY <1>1, SiftedFirst
  <2> QED
    BY <1>5, <2>1, <2>2
<1>6. CASE Ahead = 0
  BY <1>6, WireStep, NoCommands
<1> QED
  BY <1>2, <1>4, <1>5, <1>6

LEMMA HostIdle ==
    ASSUME HostInv, host # NoHost, host' = host, open' = open, toServer' = toServer, batch = <<>>, batch' = batch,
           pc' \in {"request", "status", "text", "final", "definition", "deftext"},
           pc' = "status" => cur'.op # "connect",
           \A k \in 1 .. Len(cmds') : cmds'[k].op # "connect"
    PROVE  HostInv'
<1>1. ~Greeting' /\ ~Connecting'
  BY DEF Greeting, Connecting
<1>2. ~open' => toServer' = <<>>
  BY DEF HostInv
<1> QED
  BY <1>1, <1>2 DEF HostInv

LEMMA HostRequest == ASSUME ClientInv, Request PROVE HostInv'
<1>1. HostInv /\ pc = "request" /\ cmds # <<>> /\ cmds \in Seq(Shaped)
  BY DEF ClientInv, Request, ShapeInv
<1>2. /\ Len(cmds) \in Nat /\ Ahead \in 0 .. Len(cmds) /\ 1 \in 1 .. Len(cmds)
      /\ cmds' \in Seq(Shaped) /\ Len(cmds') = Len(cmds)
      /\ \A k \in 1 .. Len(cmds) : Alike(cmds'[k], cmds[k]) /\ cmds'[k].sent = (cmds[k].sent \/ k <= Ahead)
      /\ cmds[1].sent => AtSent /\ Ahead = 0 /\ cmds' = cmds /\ host # NoHost
      /\ ~cmds[1].sent => ~AtSent /\ \A k \in 1 .. Len(cmds) : ~cmds[k].sent
      /\ KeyNow # key => host = NoHost
  BY RequestMarks
<1>3. /\ key' = KeyNow /\ UNCHANGED <<job, cur, host, msgid, replyVars, exit, outVars, netVars>>
      /\ batch' = IF AtSent THEN <<>> ELSE Wire(Ahead)
      /\ pc' = IF AtSent THEN "process" ELSE IF host = NoHost THEN "connect" ELSE "write"
  BY DEF Request
<1>4. cmds' # <<>> /\ Top = cmds[1] /\ Head(cmds') = cmds'[1]
  BY <1>1, <1>2, HeadsAndTails DEF Top
<1>5. UNCHANGED <<open, toServer, got, answer, toClient, host, msgid>>
  BY <1>3 DEF netVars
<1>6. CASE cmds[1].sent
  <2>1. AtSent /\ cmds' = cmds /\ host # NoHost /\ pc' = "process" /\ batch' = <<>>
    BY <1>2, <1>3, <1>6
  <2>2. \A k \in 1 .. Len(cmds) : cmds[k].op # "connect"
    BY <1>1, <2>1 DEF HostInv, Connecting, Greeting
  <2>3. Top'.op # "connect" /\ Top'.sent
    BY <1>2, <1>4, <1>6, <2>1, <2>2 DEF Top
  <2>4. ~Greeting' /\ ~Connecting'
    BY <1>5, <2>1, <2>3 DEF Greeting, Connecting
  <2> QED
    BY <1>1, <1>4, <1>5, <2>1, <2>2, <2>3, <2>4 DEF HostInv
<1>7. CASE ~cmds[1].sent
  <2>1. /\ ~AtSent /\ batch' = Wire(Ahead) /\ pc' = IF host = NoHost THEN "connect" ELSE "write"
        /\ \A k \in 1 .. Len(cmds) : ~cmds[k].sent
    BY <1>2, <1>3, <1>7
  <2>2. toServer' = <<>> /\ (Len(batch') <= 1 \/ Len(batch') <= Pipe)
    BY <1>1, <1>5, <2>1, NothingOnItsWay, BatchFits
  <2>3. Top' = cmds'[1] /\ Alike(Top', Top)
    BY <1>2, <1>4 DEF Top
  <2>4. Top'.sent \/ ~Unstopped(Top)'
    <3>1. CASE Ahead = 0
      <4>1. StopsAt(1)
        BY <1>1, <3>1, AheadIs
      <4>2. StopsPipe(cmds[1])
        BY <1>2, <1>7, <4>1 DEF StopsAt, PipeFull
      <4> QED
        BY <1>3, <1>4, <1>5, <2>3, <4>2 DEF StopsPipe, Unstopped, Alike
    <3>2. CASE Ahead # 0
      <4>1. 1 <= Ahead
        BY <1>2, <3>2
      <4>2. cmds'[1].sent
        BY <1>2, <4>1, Zenon
      <4> QED
        BY <2>3, <4>2
    <3> QED
      BY <3>1, <3>2
  <2>5. CASE host = NoHost
    <3>1. pc' = "connect" /\ host' = NoHost /\ ~Greeting'
      BY <1>5, <2>1, <2>5 DEF Greeting
    <3>2. Top.op = "connect" /\ ~msgid /\ \E k \in 1 .. Len(cmds) : cmds[k].op # "connect"
      BY <1>1, <2>5 DEF HostInv, Connecting
    <3>3. \E k \in 1 .. Len(cmds') : cmds'[k].op # "connect"
      BY <1>2, <3>2 DEF Alike
    <3>4. Top'.op = "connect" /\ Top'.word = Top.word
      BY <2>3, <3>2 DEF Alike
    <3>5. key' = (cmds[1].word \in HasKey)
      BY <1>3, <1>4, <3>2 DEF KeyNow
    <3>6. KeyNow' = (cmds'[1].word \in HasKey)
      BY <2>3, <3>4 DEF KeyNow
    <3>7. key' = KeyNow'
      BY <1>4, <2>3, <3>4, <3>5, <3>6
    <3>8. ~open /\ got = <<>> /\ toServer = <<>> /\ answer = <<>> /\ toClient = <<>>
      BY <1>1, <2>5 DEF HostInv
    <3>9. Connecting'
      BY <3>1 DEF Connecting
    <3> QED
      BY <1>4, <1>5, <2>2, <2>4, <3>1, <3>2, <3>3, <3>4, <3>7, <3>8, <3>9 DEF HostInv
  <2>6. CASE host # NoHost
    <3>1. pc' = "write" /\ host' # NoHost
      BY <1>5, <2>1, <2>6
    <3>2. \A k \in 1 .. Len(cmds) : cmds[k].op # "connect"
      BY <1>1, <2>6 DEF HostInv, Connecting, Greeting
    <3>3. \A k \in 1 .. Len(cmds') : cmds'[k].op # "connect"
      BY <1>2, <3>2 DEF Alike
    <3>4. Top'.op # "connect"
      BY <1>2, <2>3, <3>3
    <3>5. ~Greeting' /\ ~Connecting'
      BY <3>1, <3>4 DEF Greeting, Connecting
    <3> QED
      BY <1>4, <1>5, <2>2, <2>4, <3>1, <3>3, <3>5 DEF HostInv
  <2> QED
    BY <2>5, <2>6
<1> QED
  BY <1>6, <1>7

LEMMA HostConnect == ASSUME ClientInv, Connect PROVE HostInv'
<1>1. HostInv /\ pc = "connect" /\ cmds \in Seq(Shaped)
  BY DEF ClientInv, Connect, ShapeInv
<1>2. /\ host = NoHost /\ cmds # <<>> /\ Top.op = "connect" /\ ~msgid
      /\ \E k \in 1 .. Len(cmds) : cmds[k].op # "connect"
      /\ toServer = <<>> /\ (Len(batch) <= 1 \/ Len(batch) <= Pipe)
      /\ Top.sent \/ ~Unstopped(Top)
  BY <1>1 DEF HostInv, Connecting
<1>3. Top = cmds[1] /\ Top.word \in Hosts
  <2>1. Top = cmds[1] /\ Top \in Shaped
    BY <1>1, <1>2, TopShape
  <2> QED
    BY <1>2, <2>1 DEF Shaped, Shape
<1>4. host' = Top.word /\ open' = TRUE /\ pc' = "write" /\ host' # NoHost
  BY <1>3, ClientAssumption DEF Connect
<1>5. UNCHANGED <<cmds, batch, msgid, toServer>>
  BY DEF Connect, listVars
<1>6. Top' = Top /\ Greeting' /\ Connecting'
  BY <1>2, <1>4, <1>5 DEF Top, Greeting, Connecting
<1>7. Top.sent
  BY <1>2 DEF Unstopped
<1> QED
  BY <1>2, <1>4, <1>5, <1>6, <1>7 DEF HostInv

LEMMA HostConnectFails == ASSUME ClientInv, ConnectFails, pc' # "ended" PROVE HostInv'
<1>1. HostInv /\ pc = "connect" /\ cmds \in Seq(Shaped)
  BY DEF ClientInv, ConnectFails, ShapeInv
<1>2. /\ host = NoHost /\ cmds # <<>> /\ Top.op = "connect" /\ ~msgid
      /\ \E k \in 1 .. Len(cmds) : cmds[k].op # "connect"
      /\ ~open /\ got = <<>> /\ toServer = <<>> /\ answer = <<>> /\ toClient = <<>>
  BY <1>1 DEF HostInv, Connecting
<1>3. /\ cmds' = Unsent /\ pc' = "process" /\ Len(cmds) > 1 /\ cmds[2].op = "connect" /\ batch' = <<>>
      /\ UNCHANGED <<host, msgid, open, toServer, got, answer, toClient>>
  BY DEF ConnectFails, End, hostVars, netVars
<1>4. /\ Unsent \in Seq(Shaped) /\ Len(Unsent) = Len(cmds) /\ Len(cmds) \in Nat
      /\ \A k \in 1 .. Len(cmds) : Alike(Unsent[k], cmds[k]) /\ Unsent[k].sent = FALSE
  BY <1>1, UnsentShape
<1>5. cmds' # <<>> /\ Top' = cmds'[1] /\ Top = cmds[1] /\ 1 \in 1 .. Len(cmds) /\ 2 \in 1 .. Len(cmds)
  BY <1>1, <1>2, <1>3, <1>4, HeadsAndTails DEF Top
<1>6. Top'.op = "connect" /\ cmds'[2].op = "connect"
  BY <1>2, <1>3, <1>4, <1>5 DEF Alike
<1>7. \E k \in 1 .. Len(cmds') : cmds'[k].op # "connect"
  BY <1>2, <1>3, <1>4 DEF Alike
<1>8. ~Greeting' /\ Connecting'
  BY <1>2, <1>3 DEF Greeting, Connecting
<1>9. \A k \in 1 .. Len(cmds') : ~cmds'[k].sent
  BY <1>3, <1>4
<1> QED
  BY <1>2, <1>3, <1>4, <1>5, <1>6, <1>7, <1>8, <1>9 DEF HostInv

LEMMA HostWrite == ASSUME ClientInv, Write PROVE HostInv'
<1>1. HostInv /\ pc = "write" /\ host # NoHost
  BY DEF ClientInv, Write, HostInv
<1>2. /\ pc' = "process" /\ batch' = <<>> /\ UNCHANGED <<cmds, cur, host, key, msgid, open, got, answer, toClient>>
      /\ ~open => toServer' = toServer
  BY DEF Write, listVars, hostVars
<1>3. Top' = Top /\ Greeting' = Greeting /\ Connecting' = Connecting
  BY <1>1, <1>2 DEF Top, Greeting, Connecting
<1>4. cmds # <<>> /\ (Top.sent \/ ~Unstopped(Top)) /\ (~open => toServer = <<>>) /\ (Greeting => Top.word = host)
  BY <1>1 DEF HostInv
<1>5. IF Connecting THEN ~msgid /\ \E k \in 1 .. Len(cmds) : cmds[k].op # "connect"
      ELSE \A k \in 1 .. Len(cmds) : cmds[k].op # "connect"
  BY <1>1 DEF HostInv
<1>6. Unstopped(Top)' = Unstopped(Top)
  BY <1>2, <1>3 DEF Unstopped
<1> QED
  BY <1>1, <1>2, <1>3, <1>4, <1>5, <1>6 DEF HostInv

(* The next command is taken off the list.                                 *)
LEMMA HostAwait == ASSUME ClientInv, Await PROVE HostInv'
<1>1. HostInv /\ pc = "process" /\ cmds \in Seq(Shaped)
  BY DEF ClientInv, Await, Pop, ShapeInv
<1>2. cmds # <<>> /\ batch = <<>>
  BY <1>1 DEF HostInv
<1>3. /\ cmds' = Tail(cmds) /\ cur' = Top /\ pc' = "status"
      /\ UNCHANGED <<batch, host, msgid, open, toServer>>
  BY DEF Await, Pop, hostVars, netVars
<1>4. host # NoHost
  BY <1>1 DEF Await, HasReply, HostInv
<1>5. /\ Top = cmds[1] /\ Tail(cmds) \in Seq(Shaped)
      /\ Len(cmds) \in Nat /\ Len(cmds) = Len(Tail(cmds)) + 1
      /\ \A k \in 1 .. Len(Tail(cmds)) : k + 1 \in 1 .. Len(cmds) /\ Tail(cmds)[k] = cmds[k + 1]
  BY <1>1, <1>2, HeadsAndTails DEF Top
<1>6. CASE Top.op = "connect"
  <2>1. ~msgid /\ \E k \in 1 .. Len(cmds) : cmds[k].op # "connect"
    BY <1>1, <1>2, <1>4, <1>6 DEF HostInv, Connecting, Greeting
  <2>2. PICK k \in 1 .. Len(cmds) : cmds[k].op # "connect"
    BY <2>1
  <2>3. k # 1 /\ k - 1 \in 1 .. Len(Tail(cmds)) /\ (k - 1) + 1 = k
    BY <1>5, <1>6, <2>2
  <2>4. \E i \in 1 .. Len(Tail(cmds)) : Tail(cmds)[i].op # "connect"
    BY <1>5, <2>2, <2>3
  <2>5. Connecting' /\ ~Greeting'
    BY <1>3, <1>6 DEF Connecting, Greeting
  <2>6. ~open => toServer = <<>>
    BY <1>1 DEF HostInv
  <2> QED
    BY <1>2, <1>3, <1>4, <2>1, <2>4, <2>5, <2>6 DEF HostInv
<1>7. CASE Top.op # "connect"
  <2>1. \A k \in 1 .. Len(cmds) : cmds[k].op # "connect"
    BY <1>1, <1>4, <1>7 DEF HostInv, Connecting, Greeting
  <2>2. \A k \in 1 .. Len(cmds') : cmds'[k].op # "connect"
    BY <1>3, <1>5, <2>1
  <2> QED
    BY <1>1, <1>2, <1>3, <1>4, <1>7, <2>2, HostIdle
<1> QED
  BY <1>6, <1>7

LEMMA HostPass ==
    ASSUME ClientInv, PassOver \/ PrintReply \/ PrintDefinitions
    PROVE  HostInv'
<1>1. HostInv /\ pc = "process" /\ cmds \in Seq(Shaped)
  BY DEF ClientInv, PassOver, PrintReply, PrintDefinitions, Pop, ShapeInv
<1>2. cmds # <<>> /\ batch = <<>>
  BY <1>1 DEF HostInv
<1>3. /\ cmds' = Tail(cmds) /\ cur' = Top /\ pc' = "request"
      /\ UNCHANGED <<batch, host, msgid, open, toServer, got, answer, toClient>>
  BY DEF PassOver, PrintReply, PrintDefinitions, Pop, hostVars, netVars
<1>4. /\ Top = cmds[1] /\ Tail(cmds) \in Seq(Shaped)
      /\ Len(cmds) \in Nat /\ Len(cmds) = Len(Tail(cmds)) + 1 /\ Len(Tail(cmds)) \in Nat
      /\ \A k \in 1 .. Len(Tail(cmds)) : k + 1 \in 1 .. Len(cmds) /\ Tail(cmds)[k] = cmds[k + 1]
  BY <1>1, <1>2, HeadsAndTails DEF Top
<1>5. CASE host = NoHost
  <2>1. /\ Top.op = "connect" /\ Len(cmds) > 1 /\ cmds[2].op = "connect" /\ ~msgid
        /\ \A k \in 1 .. Len(cmds) : ~cmds[k].sent
        /\ \E k \in 1 .. Len(cmds) : cmds[k].op # "connect"
        /\ ~open /\ got = <<>> /\ toServer = <<>> /\ answer = <<>> /\ toClient = <<>>
    BY <1>1, <1>5 DEF HostInv, Connecting
  <2>2. PICK k \in 1 .. Len(cmds) : cmds[k].op # "connect"
    BY <2>1
  <2>3. k # 1 /\ k - 1 \in 1 .. Len(Tail(cmds)) /\ (k - 1) + 1 = k
    BY <1>4, <2>1, <2>2
  <2>4. \E i \in 1 .. Len(Tail(cmds)) : Tail(cmds)[i].op # "connect"
    BY <1>4, <2>2, <2>3
  <2>5. Tail(cmds) # <<>> /\ Head(Tail(cmds)) = cmds[2]
    <3>1. Len(Tail(cmds)) # 0 /\ 1 \in 1 .. Len(Tail(cmds)) /\ 1 + 1 = 2
      BY <1>4, <2>1
    <3>2. Tail(cmds) # <<>>
      BY <3>1
    <3> QED
      BY <1>4, <3>1, <3>2, HeadsAndTails
  <2>6. Top' = cmds[2]
    BY <1>3, <2>5 DEF Top
  <2>7. \A i \in 1 .. Len(Tail(cmds)) : ~Tail(cmds)[i].sent
    BY <1>4, <2>1
  <2>8. Connecting' /\ ~Greeting'
    BY <1>3, <1>5 DEF Connecting, Greeting
  <2> QED
    BY <1>2, <1>3, <1>5, <2>1, <2>4, <2>5, <2>6, <2>7, <2>8 DEF HostInv
<1>6. CASE host # NoHost
  <2>1. Top.op # "connect"
    BY <1>6 DEF PassOver, PrintReply, PrintDefinitions, HasReply
  <2>2. \A k \in 1 .. Len(cmds) : cmds[k].op # "connect"
    BY <1>1, <1>6, <2>1 DEF HostInv, Connecting, Greeting
  <2>3. \A k \in 1 .. Len(cmds') : cmds'[k].op # "connect"
    BY <1>3, <1>4, <2>2
  <2> QED
    BY <1>1, <1>2, <1>3, <1>6, <2>3, HostIdle
<1> QED
  BY <1>5, <1>6

LEMMA HostGrow == ASSUME ClientInv, Spell \/ Wind PROVE HostInv'
<1>1. HostInv /\ pc = "process" /\ Top.op \in {"spell", "wind"}
  BY DEF ClientInv, Spell, Wind, Pop
<1>2. batch = <<>> /\ host # NoHost
  BY <1>1 DEF HostInv
<1>3. pc' = "request" /\ UNCHANGED <<batch, host, open, toServer>>
  BY DEF Spell, Wind, hostVars, netVars
<1>4. \A k \in 1 .. Len(cmds') : cmds'[k].op # "connect"
  BY ListGrows, ListGrown
<1> QED
  BY <1>1, <1>2, <1>3, <1>4, HostIdle

(* The reply to CMD_CONNECT is the end of the connecting.                  *)
LEMMA HostStatus == ASSUME ClientInv, ReadStatus, pc' # "ended" PROVE HostInv'
<1>1. HostInv /\ pc = "status" /\ cmds \in Seq(Shaped) /\ Ordered(cmds)
  BY DEF ClientInv, ReadStatus, ShapeInv, ListInv
<1>2. batch = <<>> /\ host # NoHost
  BY <1>1 DEF HostInv
<1>3. UNCHANGED <<batch, host, open, toServer, cur>>
  BY DEF ReadStatus
<1>4. pc' \in {"request", "text", "definition"}
  <2>1. Follows(cur, Line.code) \in {"nothing", "text", "definition"}
    BY DEF Follows
  <2> QED
    BY <2>1 DEF ReadStatus, End
<1>5. \A k \in 1 .. Len(cmds') : cmds'[k].op # "connect"
  <2>1. CASE cur.op = "connect"
    <3>1. \E k \in 1 .. Len(cmds) : cmds[k].op # "connect"
      BY <1>1, <2>1 DEF HostInv, Connecting
    <3>2. Line.code # 530
      BY <2>1 DEF ReadStatus, End, Follows, Tolerated
    <3>3. cmds' = Connected
      BY <2>1, <3>2 DEF ReadStatus
    <3>4. PICK n \in 1 .. Len(cmds) : Connected = SubSeq(cmds, n, Len(cmds)) /\ cmds[n].op # "connect"
      BY <1>1, <3>1, ConnectedIs
    <3>5. Len(cmds) \in Nat /\ \A m \in 1 .. Len(cmds) : cmds[m] \in Shaped
      BY <1>1, LenProperties, ElementOfSeq
    <3>6. \A m \in n .. Len(cmds) : cmds[m] \in Shaped
      BY <3>5
    <3>7. /\ Len(Connected) = Len(cmds) - n + 1
          /\ \A i \in 1 .. Len(cmds) - n + 1 : Connected[i] = cmds[n + i - 1]
      BY <3>4, <3>5, <3>6, SubSeqProperties
    <3>8. ASSUME NEW i \in 1 .. Len(Connected) PROVE Connected[i].op # "connect"
      <4>1. n + i - 1 \in 1 .. Len(cmds) /\ (n = n + i - 1 \/ n < n + i - 1) /\ Connected[i] = cmds[n + i - 1]
        BY <3>5, <3>7
      <4> QED
        BY <1>1, <3>4, <4>1 DEF Ordered, Before
    <3> QED
      BY <3>3, <3>8
  <2>2. CASE cur.op # "connect"
    <3>1. cmds' = cmds
      BY <2>2 DEF ReadStatus
    <3>2. ~Connecting
      BY <1>1, <1>2, <2>2 DEF Connecting, Greeting
    <3> QED
      BY <1>1, <3>1, <3>2 DEF HostInv
  <2> QED
    BY <2>1, <2>2
<1>6. pc' # "status"
  BY <1>4
<1> QED
  BY <1>1, <1>2, <1>3, <1>4, <1>5, <1>6, HostIdle

LEMMA HostRead ==
    ASSUME ClientInv, ReadText \/ ReadFinal \/ ReadDefinition \/ ReadDefText, pc' # "ended"
    PROVE  HostInv'
<1>1. HostInv /\ pc \in {"text", "final", "definition", "deftext"}
  BY DEF ClientInv, ReadText, ReadFinal, ReadDefinition, ReadDefText
<1>2. batch = <<>> /\ host # NoHost /\ ~Connecting
  BY <1>1 DEF HostInv, Connecting, Greeting
<1>3. UNCHANGED <<cmds, batch, host, open, toServer>>
  BY DEF ReadText, ReadFinal, ReadDefinition, ReadDefText, listVars, hostVars
<1>4. pc' \in {"request", "final", "definition", "deftext"}
  BY DEF ReadText, ReadFinal, ReadDefinition, ReadDefText, Check, End
<1>5. \A k \in 1 .. Len(cmds') : cmds'[k].op # "connect"
  BY <1>1, <1>2, <1>3 DEF HostInv
<1> QED
  BY <1>1, <1>2, <1>3, <1>4, <1>5, HostIdle

LEMMA HostServer == ASSUME ClientInv, ServerNext \/ Close, pc # "ended" PROVE HostInv'
<1>1. HostInv /\ open /\ host # NoHost
  BY DEF ClientInv, HostInv, ServerNext, Close, Greet, Serve, Deliver
<1>2. UNCHANGED <<cmds, cur, pc, batch, host, key, msgid>>
  BY DEF ServerNext, Close, Greet, Serve, Deliver, listVars, hostVars
<1>3. Top' = Top /\ Greeting' = Greeting /\ Connecting' = Connecting /\ KeyNow' = KeyNow
  BY <1>2 DEF Top, Greeting, Connecting, KeyNow
<1>4. Unstopped(Top)' = Unstopped(Top)
  BY <1>2, <1>3 DEF Unstopped
<1>5. ~open' => toServer' = <<>>
  BY <1>1 DEF ServerNext, Close, Greet, Serve, Deliver
<1>6. toServer = <<>> => toServer' = <<>>
  BY DEF ServerNext, Close, Greet, Serve, Deliver
<1> QED
  BY <1>1, <1>2, <1>3, <1>4, <1>5, <1>6 DEF HostInv

LEMMA HostKept == ASSUME ClientInv, Next, pc' # "ended" PROVE HostInv'
<1>1. pc # "ended"
  BY StillRunning
<1>2. CASE ServerNext \/ Close
  BY <1>1, <1>2, HostServer
<1>3. CASE WriteFails \/ Finish \/ ReadEnd
  BY <1>3 DEF WriteFails, Finish, ReadEnd, End
<1>4. CASE ClientNext
  BY <1>3, <1>4, HostRequest, HostConnect, HostConnectFails, HostWrite, HostAwait, HostPass, HostGrow, HostStatus,
     HostRead DEF ClientNext
<1>5. CASE Ended
  BY <1>1, <1>5 DEF Ended
<1> QED
  BY <1>2, <1>4, <1>5 DEF Next

-----------------------------------------------------------------------------
(* What the client is waiting for, and the line it reads.                  *)
LEMMA ExpectedType ==
    ASSUME ClientInv
    PROVE  /\ Sift(cmds, Wired) \in Seq(Command) /\ Expected \in Seq(Command) /\ First \in Seq(Command)
           /\ Arriving \in Seq(Lines) /\ Pending \in Seq(Command)
           /\ Reading => Expected = <<cur>> \o Sift(cmds, Wired) /\ Expected # <<>> /\ Expected[1] = cur
                         /\ Head(Expected) = cur /\ Tail(Expected) = Sift(cmds, Wired)
<1>1. /\ cmds \in Seq(Command) /\ cur \in Command /\ toClient \in Seq(Lines) /\ answer \in Seq(Lines)
      /\ toServer \in Seq(Command) /\ batch \in Seq(Command)
  BY DEF ClientInv, TypeOK
<1> DEFINE S == Sift(cmds, Wired)
<1>2. S \in Seq(Command)
  BY <1>1, SiftType
<1> HIDE DEF S
<1>3. First \in Seq(Command)
  <2>1. CASE Reading
    BY <1>1, <2>1 DEF First
  <2>2. CASE ~Reading /\ Greeting
    <3>1. cmds # <<>>
      BY <2>2 DEF Greeting
    <3>2. Top \in Command
      BY <1>1, <3>1, HeadsAndTails DEF Top
    <3> QED
      BY <2>2, <3>2 DEF First
  <2>3. CASE ~Reading /\ ~Greeting
    BY <2>3, NoCommands DEF First
  <2> QED
    BY <2>1, <2>2, <2>3
<1>4. Expected \in Seq(Command)
  BY <1>2, <1>3, ConcatProperties DEF Expected, S
<1>5. Arriving \in Seq(Lines)
  BY <1>1, ConcatProperties DEF Arriving
<1>6. Pending \in Seq(Command)
  <2> DEFINE g == IF open /\ got = <<>> THEN <<Make("connect", host)>> ELSE <<>>
  <2>1. g \in Seq(Command)
    <3>1. CASE open /\ got = <<>>
      BY <3>1, GreetingShape
    <3>2. CASE ~(open /\ got = <<>>)
      BY <3>2, NoCommands
    <3> QED
      BY <3>1, <3>2
  <2>2. Pending = g \o toServer \o batch
    BY DEF Pending
  <2> HIDE DEF g
  <2> QED
    BY <1>1, <2>1, <2>2, ConcatProperties
<1>7. Reading => Expected = <<cur>> \o S
  BY DEF First, Expected, S
<1>8. <<cur>> \o S # <<>> /\ (<<cur>> \o S)[1] = cur /\ Head(<<cur>> \o S) = cur /\ Tail(<<cur>> \o S) = S
  BY <1>1, <1>2
<1> QED
  BY <1>2, <1>3, <1>4, <1>5, <1>6, <1>7, <1>8 DEF S

LEMMA WhereType ==
    ASSUME ClientInv, pc # "ended"
    PROVE  /\ Where \in ReplyStates /\ Where.at = 1
           /\ Reading => Where.pc = pc
           /\ Where.left = IF pc = "text" /\ cur.op = "match" THEN matches
                           ELSE IF pc \in {"definition", "deftext"} THEN count - defs ELSE 0
<1>1. TypeOK /\ TextInv
  BY DEF ClientInv
<1>2. matches \in Nat /\ count \in Nat /\ defs \in Nat
  BY <1>1, Numbers
<1> DEFINE p == IF Reading THEN pc ELSE "status"
           n == IF pc = "text" /\ cur.op = "match" THEN matches
                ELSE IF pc \in {"definition", "deftext"} THEN count - defs ELSE 0
<1>3. n \in Nat
  <2>1. pc \in {"definition", "deftext"} => count - defs \in Nat
    BY <1>1, <1>2 DEF TextInv
  <2> QED
    BY <1>2, <2>1
<1>4. p \in {"status", "text", "final", "definition", "deftext"}
  BY DEF Reading
<1>5. Where = State(1, p, n)
  BY DEF Where
<1>6. Reading => p = pc
  OBVIOUS
<1>7. Where.left = n
  BY <1>5 DEF State
<1>8. Where \in ReplyStates /\ Where.at = 1 /\ Where.pc = p
  <2> HIDE DEF n, p
  <2> QED
    BY <1>3, <1>4, <1>5 DEF State, ReplyStates
<1> QED
  BY <1>6, <1>7, <1>8

LEMMA LineFits ==
    ASSUME ClientInv, pc # "ended", Reading, toClient # <<>>
    PROVE  /\ Line \in Lines /\ Alike(Line, cur) /\ Fits(Line, Where)
           /\ Stream(Expected, Tail(toClient) \o answer, After(Line, Where), Pending, open \/ pc = "connect")
<1>1. toClient \in Seq(Lines) /\ answer \in Seq(Lines) /\ StreamInv
  BY DEF ClientInv, TypeOK
<1>2. /\ Expected \in Seq(Command) /\ Expected[1] = cur /\ Arriving \in Seq(Lines)
  BY ExpectedType
<1>3. Where \in ReplyStates /\ Where.at = 1
  BY WhereType
<1>4. Head(toClient) \in Lines
  BY <1>1, HeadsAndTails
<1>5. Arriving # <<>> /\ Head(Arriving) = Head(toClient) /\ Tail(Arriving) = Tail(toClient) \o answer
  BY <1>1 DEF Arriving
<1>6. Stream(Expected, Arriving, Where, Pending, open \/ pc = "connect")
  BY <1>1 DEF StreamInv
<1>7. /\ Alike(Head(Arriving), Expected[1]) /\ Fits(Head(Arriving), Where)
      /\ Stream(Expected, Tail(Arriving), After(Head(Arriving), Where), Pending, open \/ pc = "connect")
  BY <1>2, <1>3, <1>5, <1>6, StreamTake
<1> QED
  BY <1>2, <1>4, <1>5, <1>7 DEF Line

-----------------------------------------------------------------------------
(* The texts.                                                              *)
LEMMA TextSame ==
    ASSUME TextInv, UNCHANGED replyVars, ~Reading, pc' \in {"request", "connect", "write", "process"},
           \A k \in 1 .. Len(cmds') : \E m \in 1 .. Len(cmds) : Alike(cmds'[k], cmds[m])
    PROVE  TextInv'
<1>1. pc \notin {"status", "text", "final", "definition", "deftext"}
  BY DEF Reading
<1>2. ~Reading'
  BY DEF Reading
<1>3. /\ (\A k \in 1 .. Len(cmds) : ~Early(cmds[k])) => \A k \in 1 .. Len(cmds') : ~Early(cmds'[k])
      /\ (\A k \in 1 .. Len(cmds) : cmds[k].op # "print") => \A k \in 1 .. Len(cmds') : cmds'[k].op # "print"
  BY DEF Alike, Early
<1>4. /\ matches' = matches /\ match' = match /\ live' = live /\ data' = data /\ defs' = defs /\ count' = count
  BY DEF replyVars
<1>5. /\ matches > 0 => match
      /\ match => \A k \in 1 .. Len(cmds) : ~Early(cmds[k])
      /\ matches > 0 => live /\ data \in Seq(Words \cup {Blank}) /\ Len(data) >= matches
      /\ ~live /\ data # NoText => \A k \in 1 .. Len(cmds) : cmds[k].op # "print"
      /\ defs = count
  BY <1>1 DEF TextInv
<1> QED
  BY <1>2, <1>3, <1>4, <1>5 DEF TextInv

LEMMA TextServer == ASSUME TextInv, UNCHANGED <<listVars, pc, replyVars>> PROVE TextInv'
  BY DEF TextInv, listVars, replyVars, Reading

LEMMA TextRequest ==
    ASSUME ClientInv, Request \/ Connect \/ ConnectFails \/ Write, pc' # "ended"
    PROVE  TextInv'
<1>1. TextInv /\ ~Reading /\ pc' \in {"request", "connect", "write", "process"} /\ UNCHANGED replyVars
  BY DEF ClientInv, Request, Connect, ConnectFails, Write, End, Reading
<1>2. \A k \in 1 .. Len(cmds') : \E m \in 1 .. Len(cmds) : Alike(cmds'[k], cmds[m])
  <2>1. CASE Request
    <3>1. Len(cmds') = Len(cmds) /\ \A k \in 1 .. Len(cmds) : Alike(cmds'[k], cmds[k])
      BY <2>1, RequestMarks
    <3> QED
      BY <3>1
  <2>2. CASE cmds' = Unsent
    <3>1. Len(Unsent) = Len(cmds) /\ \A k \in 1 .. Len(cmds) : Alike(Unsent[k], cmds[k])
      BY UnsentShape DEF ClientInv, ShapeInv
    <3> QED
      BY <2>2, <3>1
  <2>3. CASE cmds' = cmds
    BY <2>3 DEF Alike
  <2> QED
    BY <2>1, <2>2, <2>3 DEF Connect, ConnectFails, Write, listVars
<1> QED
  BY <1>1, <1>2, TextSame

LEMMA TailAlike ==
    ASSUME cmds \in Seq(Shaped), cmds # <<>>
    PROVE  /\ \A k \in 1 .. Len(Tail(cmds)) : \E m \in 1 .. Len(cmds) : Alike(Tail(cmds)[k], cmds[m])
           /\ \E m \in 1 .. Len(cmds) : Top = cmds[m]
<1>1. /\ Top = cmds[1] /\ 1 \in 1 .. Len(cmds)
      /\ \A k \in 1 .. Len(Tail(cmds)) : k + 1 \in 1 .. Len(cmds) /\ Tail(cmds)[k] = cmds[k + 1]
  BY HeadsAndTails DEF Top
<1> QED
  BY <1>1 DEF Alike

LEMMA TextPass == ASSUME ClientInv, Await \/ PassOver \/ PrintReply \/ PrintDefinitions PROVE TextInv'
<1>1. TextInv /\ HostInv /\ pc = "process" /\ cmds \in Seq(Shaped) /\ Ordered(cmds) /\ TypeOK
  BY DEF ClientInv, Await, PassOver, PrintReply, PrintDefinitions, Pop, ShapeInv, ListInv
<1>2. cmds # <<>> /\ ~Reading /\ matches \in Nat /\ count \in Nat
  BY <1>1, Numbers DEF HostInv, Reading
<1>3. cmds' = Tail(cmds) /\ cur' = Top
  BY DEF Await, PassOver, PrintReply, PrintDefinitions, Pop
<1>4. \A k \in 1 .. Len(cmds') : \E m \in 1 .. Len(cmds) : Alike(cmds'[k], cmds[m])
  BY <1>1, <1>2, <1>3, TailAlike
<1>5. /\ matches > 0 => match
      /\ match => (\A k \in 1 .. Len(cmds) : ~Early(cmds[k]))
      /\ matches > 0 => live /\ data \in Seq(Words \cup {Blank}) /\ Len(data) >= matches
      /\ ~live /\ data # NoText => \A k \in 1 .. Len(cmds) : cmds[k].op # "print"
      /\ defs = count
  BY <1>1, <1>2 DEF TextInv
<1>6. match => (\A k \in 1 .. Len(cmds') : ~Early(cmds'[k])) /\ ~Early(Top)
  <2>1. Top = cmds[1] /\ 1 \in 1 .. Len(cmds)
    BY <1>1, <1>2, HeadsAndTails DEF Top
  <2> QED
    BY <1>4, <1>5, <2>1 DEF Alike, Early
<1>7. (~live /\ data # NoText) => \A k \in 1 .. Len(cmds') : cmds'[k].op # "print"
  BY <1>4, <1>5 DEF Alike
<1>8. CASE Await
  <2>1. /\ pc' = "status" /\ match' = (match \/ Top.op = "match")
        /\ matches' = matches /\ live' = live /\ data' = data /\ defs' = defs /\ count' = count
    BY <1>8 DEF Await
  <2>2. Top.op = "match" => (\A k \in 1 .. Len(cmds') : ~Early(cmds'[k])) /\ ~Early(Top)
    <3>1. \A k \in 1 .. Len(Tail(cmds)) : Before(Top, Tail(cmds)[k])
      BY <1>1, <1>2, OrderedTail DEF Top
    <3> QED
      BY <1>3, <3>1 DEF Before, Early
  <2>3. match' => (\A k \in 1 .. Len(cmds') : ~Early(cmds'[k])) /\ ~Early(cur')
    BY <1>3, <1>6, <2>1, <2>2
  <2>4. (matches' > 0 \/ cur'.op = "match") => match'
    BY <1>3, <1>5, <2>1
  <2>5. /\ matches' > 0 => live' /\ data' \in Seq(Words \cup {Blank}) /\ Len(data') >= matches'
        /\ (~live' /\ data' # NoText) => \A k \in 1 .. Len(cmds') : cmds'[k].op # "print"
        /\ defs' = count'
    BY <1>5, <1>7, <2>1
  <2> QED
    BY <2>1, <2>3, <2>4, <2>5 DEF TextInv
<1>9. CASE PassOver
  BY <1>1, <1>2, <1>4, <1>9, TextSame DEF PassOver
<1>10. CASE PrintReply
  <2>1. pc' = "request" /\ matches' = 0 /\ match' = FALSE /\ data' = NoText /\ defs' = count'
    BY <1>5, <1>10 DEF PrintReply, Forget
  <2>2. ~Reading'
    BY <2>1 DEF Reading
  <2> QED
    BY <2>1, <2>2 DEF TextInv
<1>11. CASE PrintDefinitions
  <2>1. pc' = "request" /\ match' = match /\ defs' = count' /\ ~Reading'
    BY <1>5, <1>11 DEF PrintDefinitions, Reading
  <2>2. (matches' = matches /\ data' = data /\ live' = live) \/ (matches' = 0 /\ data' = NoText /\ live' = FALSE)
    BY <1>11 DEF PrintDefinitions, Forget
  <2>3. CASE matches' = matches /\ data' = data /\ live' = live
    BY <1>5, <1>6, <1>7, <2>1, <2>3 DEF TextInv
  <2>4. CASE matches' = 0 /\ data' = NoText /\ live' = FALSE
    BY <1>5, <1>6, <2>1, <2>4 DEF TextInv
  <2> QED
    BY <2>2, <2>3, <2>4
<1> QED
  BY <1>8, <1>9, <1>10, <1>11

LEMMA TextGrow == ASSUME ClientInv, Spell \/ Wind PROVE TextInv'
<1>1. TextInv /\ HostInv /\ pc = "process" /\ cmds \in Seq(Shaped) /\ Ordered(cmds) /\ TypeOK
  BY DEF ClientInv, Spell, Wind, Pop, ShapeInv, ListInv
<1>2. cmds # <<>> /\ ~Reading /\ matches \in Nat
  BY <1>1, Numbers DEF HostInv, Reading
<1>3. /\ matches > 0 => match
      /\ matches > 0 => live /\ data \in Seq(Words \cup {Blank}) /\ Len(data) >= matches
      /\ ~live /\ data # NoText => \A k \in 1 .. Len(cmds) : cmds[k].op # "print"
      /\ defs = count
  BY <1>1, <1>2 DEF TextInv
<1>4. PICK new \in Seq(Added) : cmds' = new \o Tail(cmds)
  BY ListGrows
<1>5. \A k \in 1 .. Len(cmds') : ~Early(cmds'[k])
  BY <1>4, ListGrown
<1>6. (~live' /\ data' # NoText) => \A k \in 1 .. Len(cmds') : cmds'[k].op # "print"
  <2> SUFFICES ASSUME ~live', data' # NoText PROVE \A k \in 1 .. Len(cmds') : cmds'[k].op # "print"
    OBVIOUS
  <2>1. \A k \in 1 .. Len(Tail(cmds)) : Tail(cmds)[k].op # "print"
    <3>1. CASE Top.op = "wind"
      <4>1. \A k \in 1 .. Len(Tail(cmds)) : Before(Top, Tail(cmds)[k])
        BY <1>1, <1>2, OrderedTail DEF Top
      <4> QED
        BY <3>1, <4>1 DEF Before
    <3>2. CASE Top.op # "wind"
      <4>1. live' = live /\ data' = data
        BY <3>2 DEF Spell, Wind, replyVars
      <4>2. \A k \in 1 .. Len(cmds) : cmds[k].op # "print"
        BY <1>3, <4>1
      <4> QED
        BY <1>1, <1>2, <4>2, TailAlike DEF Alike
    <3> QED
      BY <3>1, <3>2
  <2>2. \A k \in 1 .. Len(new) : new[k].op # "print"
    <3>1. \A k \in 1 .. Len(new) : new[k] \in Added
      BY ElementOfSeq
    <3> QED
      BY <3>1 DEF Added
  <2>3. Tail(cmds) \in Seq(Shaped) /\ new \in Seq(Shaped)
    BY <1>1, <1>2, HeadsAndTails, SeqMonotonic, Added \subseteq Shaped DEF Added, Fresh
  <2>4. /\ Len(cmds') = Len(new) + Len(Tail(cmds)) /\ Len(new) \in Nat /\ Len(Tail(cmds)) \in Nat
        /\ \A i \in 1 .. Len(new) + Len(Tail(cmds)) :
             cmds'[i] = IF i <= Len(new) THEN new[i] ELSE Tail(cmds)[i - Len(new)]
    BY <1>4, <2>3, ConcatProperties, LenProperties
  <2>5. ASSUME NEW i \in 1 .. Len(cmds') PROVE cmds'[i].op # "print"
    <3>1. CASE i <= Len(new)
      BY <2>2, <2>4, <2>5, <3>1
    <3>2. CASE ~(i <= Len(new))
      <4>1. i - Len(new) \in 1 .. Len(Tail(cmds))
        BY <2>4, <2>5, <3>2
      <4>2. cmds'[i] = Tail(cmds)[i - Len(new)]
        BY <2>4, <2>5, <3>2
      <4> QED
        BY <2>1, <4>1, <4>2
    <3> QED
      BY <3>1, <3>2
  <2> QED
    BY <2>5
<1>7. pc' = "request" /\ match' = match /\ data' = data /\ defs' = defs /\ count' = count
  BY DEF Spell, Wind, replyVars
<1>8. (matches' = matches /\ live' = live) \/ matches' = 0
  BY DEF Spell, Wind, replyVars
<1>9. ~Reading'
  BY <1>7 DEF Reading
<1>10. matches' > 0 => matches > 0 /\ matches' = matches /\ live' = live
  BY <1>2, <1>8
<1>11. defs' = count' /\ (matches' > 0 => match' /\ live' /\ data' \in Seq(Words \cup {Blank}) /\ Len(data') >= matches')
  BY <1>3, <1>7, <1>10
<1> QED
  BY <1>5, <1>6, <1>7, <1>9, <1>11 DEF TextInv

LEMMA TextStatus == ASSUME ClientInv, ReadStatus, pc' # "ended" PROVE TextInv'
<1>1. TextInv /\ pc = "status" /\ Reading /\ TypeOK /\ cmds \in Seq(Shaped)
  BY DEF ClientInv, ReadStatus, Reading, ShapeInv
<1>2. matches \in Nat /\ count \in Nat /\ defs \in Nat /\ defs = count
  BY <1>1, Numbers DEF TextInv
<1>3. Line \in Lines /\ Line.op = cur.op /\ Fits(Line, Where) /\ Where.pc = "status"
  BY <1>1, LineFits, WhereType DEF ReadStatus, Take, Alike
<1>4. Line.count \in Nat
  BY <1>3 DEF Lines
<1>5. /\ cur.op = "match" => (Line.count > 0 <=> Line.code = 152)
      /\ cur.op = "define" => (Line.count > 0 <=> Line.code = 150)
  BY <1>3 DEF Fits
<1>6. /\ matches' = IF cur.op = "match" THEN Line.count ELSE matches
      /\ count' = IF cur.op = "define" THEN Line.count ELSE count
      /\ defs' = IF cur.op = "define" THEN 0 ELSE defs
      /\ match' = match /\ data' = data /\ live' = live /\ cur' = cur
  BY DEF ReadStatus
<1>7. pc' = IF Follows(cur, Line.code) # "nothing" THEN Follows(cur, Line.code) ELSE "request"
  BY DEF ReadStatus, End
<1>8. \A k \in 1 .. Len(cmds') : \E m \in 1 .. Len(cmds) : cmds'[k] = cmds[m]
  <2>1. CASE cmds' = cmds
    BY <2>1
  <2>2. CASE cur.op = "connect" /\ cmds' = Connected
    <3>1. \E k \in 1 .. Len(cmds) : cmds[k].op # "connect"
      BY <1>1, <2>2 DEF ClientInv, HostInv, Connecting
    <3>2. PICK n \in 1 .. Len(cmds) : Connected = SubSeq(cmds, n, Len(cmds))
      BY <1>1, <3>1, ConnectedIs
    <3>3. Len(cmds) \in Nat /\ \A m \in 1 .. Len(cmds) : cmds[m] \in Shaped
      BY <1>1, LenProperties, ElementOfSeq
    <3>4. \A m \in n .. Len(cmds) : cmds[m] \in Shaped
      BY <3>3
    <3>5. /\ Len(Connected) = Len(cmds) - n + 1
          /\ \A i \in 1 .. Len(cmds) - n + 1 : Connected[i] = cmds[n + i - 1]
      BY <3>2, <3>3, <3>4, SubSeqProperties
    <3>6. \A i \in 1 .. Len(Connected) : n + i - 1 \in 1 .. Len(cmds)
      BY <3>3, <3>5
    <3> QED
      BY <2>2, <3>5, <3>6
  <2> QED
    BY <2>1, <2>2 DEF ReadStatus
<1>9. match => (\A k \in 1 .. Len(cmds') : ~Early(cmds'[k])) /\ ~Early(cur)
  BY <1>1, <1>8 DEF TextInv
<1>10. (~live /\ data # NoText) => \A k \in 1 .. Len(cmds') : cmds'[k].op # "print"
  BY <1>1, <1>8 DEF TextInv
<1>11. CASE cur.op = "match"
  <2>1. match
    BY <1>1, <1>11 DEF TextInv
  <2>2. count' = count /\ defs' = defs /\ matches' = Line.count
    BY <1>6, <1>11
  <2>3. pc' = IF Line.code = 152 THEN "text" ELSE "request"
    BY <1>7, <1>11 DEF Follows
  <2>4. matches' > 0 => pc' = "text"
    BY <1>5, <1>11, <2>2, <2>3
  <2>5. pc' \notin {"definition", "deftext"}
    BY <2>3
  <2> QED
    BY <1>2, <1>6, <1>9, <1>10, <1>11, <2>1, <2>2, <2>4, <2>5 DEF TextInv
<1>12. CASE cur.op # "match"
  <2>1. matches' = matches
    BY <1>6, <1>12
  <2>2. matches > 0 => match /\ live /\ data \in Seq(Words \cup {Blank}) /\ Len(data) >= matches
    BY <1>1, <1>12 DEF TextInv
  <2>3. pc' = "text" => cur.op \in {"info", "dbs"}
    BY <1>7, <1>12 DEF Follows
  <2>4. IF pc' \in {"definition", "deftext"} THEN defs' < count' ELSE defs' = count'
    <3>1. CASE cur.op = "define"
      <4>1. pc' = IF Line.code = 150 THEN "definition" ELSE "request"
        BY <1>7, <3>1 DEF Follows
      <4>2. defs' = 0 /\ count' = Line.count
        BY <1>6, <3>1
      <4>3. CASE Line.code = 150
        BY <1>4, <1>5, <3>1, <4>1, <4>2, <4>3
      <4>4. CASE Line.code # 150
        <5>1. Line.count = 0
          BY <1>4, <1>5, <3>1, <4>4
        <5> QED
          BY <4>1, <4>2, <4>4, <5>1
      <4> QED
        BY <4>3, <4>4
    <3>2. CASE cur.op # "define"
      <4>1. pc' \notin {"definition", "deftext"}
        BY <1>7, <3>2 DEF Follows
      <4> QED
        BY <1>2, <1>6, <3>2, <4>1
    <3> QED
      BY <3>1, <3>2
  <2> QED
    BY <1>6, <1>9, <1>10, <1>12, <2>1, <2>2, <2>4, <2>3 DEF TextInv
<1> QED
  BY <1>11, <1>12

LEMMA TextRead ==
    ASSUME ClientInv, ReadText \/ ReadFinal \/ ReadDefinition \/ ReadDefText, pc' # "ended"
    PROVE  TextInv'
<1>1. TextInv /\ Reading /\ TypeOK /\ pc # "ended" /\ toClient # <<>>
  BY DEF ClientInv, ReadText, ReadFinal, ReadDefinition, ReadDefText, Reading, Take
<1>2. matches \in Nat /\ count \in Nat /\ defs \in Nat
  BY <1>1, Numbers
<1>3. UNCHANGED <<cmds, cur, matches, match, count>>
  BY DEF ReadText, ReadFinal, ReadDefinition, ReadDefText, listVars
<1>4. match => (\A k \in 1 .. Len(cmds') : ~Early(cmds'[k])) /\ ~Early(cur')
  BY <1>1, <1>3 DEF TextInv
<1>5. (matches' > 0 \/ cur'.op = "match") => match'
  BY <1>1, <1>3 DEF TextInv
<1>6. CASE ReadText
  <2>1. pc = "text" /\ pc' = "final" /\ data' = Line.text /\ live' = TRUE /\ defs' = defs
    BY <1>6 DEF ReadText
  <2>2. Line.op = cur.op /\ Fits(Line, Where) /\ Where.pc = "text" /\ (cur.op = "match" => Where.left = matches)
    BY <1>1, <2>1, LineFits, WhereType DEF Alike
  <2>3. matches > 0 => data' \in Seq(Words \cup {Blank}) /\ Len(data') >= matches
    <3>1. CASE cur.op = "match"
      BY <2>1, <2>2, <3>1 DEF Fits
    <3>2. CASE cur.op # "match"
      <4>1. cur.op \in {"info", "dbs"}
        BY <1>1, <2>1, <3>2 DEF TextInv
      <4>2. ~(matches > 0)
        BY <1>1, <4>1 DEF TextInv, Early
      <4> QED
        BY <4>2
    <3> QED
      BY <3>1, <3>2
  <2>4. defs' = count'
    BY <1>1, <1>3, <2>1 DEF TextInv
  <2> QED
    BY <1>3, <1>4, <1>5, <2>1, <2>3, <2>4 DEF TextInv
<1>7. CASE ReadFinal \/ ReadDefinition \/ ReadDefText
  <2>1. data' = data /\ live' = live /\ pc # "text" /\ pc' # "text"
    BY <1>7 DEF ReadFinal, ReadDefinition, ReadDefText, Check, End
  <2>2. /\ matches > 0 => live /\ data \in Seq(Words \cup {Blank}) /\ Len(data) >= matches
        /\ (~live /\ data # NoText) => \A k \in 1 .. Len(cmds) : cmds[k].op # "print"
    BY <1>1, <2>1 DEF TextInv
  <2>3. IF pc' \in {"definition", "deftext"} THEN defs' < count' ELSE defs' = count'
    <3>1. CASE ReadFinal
      BY <1>1, <1>3, <3>1 DEF ReadFinal, Check, End, TextInv
    <3>2. CASE ReadDefinition
      BY <1>1, <1>3, <3>2 DEF ReadDefinition, End, TextInv
    <3>3. CASE ReadDefText
      <4>1. defs < count /\ defs' = defs + 1 /\ count' = count /\ pc' = IF defs + 1 = count THEN "final" ELSE "definition"
        BY <1>1, <1>3, <3>3 DEF ReadDefText, TextInv
      <4> QED
        BY <1>2, <4>1
    <3> QED
      BY <1>7, <3>1, <3>2, <3>3
  <2> QED
    BY <1>3, <1>4, <1>5, <2>1, <2>2, <2>3 DEF TextInv
<1> QED
  BY <1>6, <1>7

LEMMA TextKept == ASSUME ClientInv, Next, pc' # "ended" PROVE TextInv'
<1>1. pc # "ended"
  BY StillRunning
<1>2. CASE ServerNext \/ Close
  <2>1. TextInv /\ UNCHANGED <<listVars, pc, replyVars>>
    BY <1>1, <1>2 DEF ClientInv, ServerNext, Close, Greet, Serve, Deliver
  <2> QED
    BY <2>1, TextServer
<1>3. CASE WriteFails \/ Finish \/ ReadEnd
  BY <1>3 DEF WriteFails, Finish, ReadEnd, End
<1>4. CASE ClientNext
  BY <1>3, <1>4, TextRequest, TextPass, TextGrow, TextStatus, TextRead DEF ClientNext
<1>5. CASE Ended
  BY <1>1, <1>5 DEF Ended
<1> QED
  BY <1>2, <1>4, <1>5 DEF Next

-----------------------------------------------------------------------------
(* What is on its way.                                                     *)
LEMMA StreamSame ==
    ASSUME StreamInv, Expected' = Expected, Arriving' = Arriving, Where' = Where, Pending' = Pending,
           (open' \/ pc' = "connect") <=> (open \/ pc = "connect")
    PROVE  StreamInv'
<1>1. PICK p : Reads(Expected, Arriving, Where, p)
               /\ (open \/ pc = "connect" => Meets(Expected, p[Len(Arriving) + 1], Pending))
  BY DEF StreamInv, Stream
<1>2. Stream(Expected, Arriving, Where, Pending, open' \/ pc' = "connect")
  BY <1>1 DEF Stream
<1> QED
  BY <1>2 DEF StreamInv

(* A closed connection has nothing to come.                                *)
LEMMA StreamClosed ==
    ASSUME NEW E, NEW L, NEW s, NEW P, NEW o, NEW Q, Stream(E, L, s, P, o)
    PROVE  Stream(E, L, s, Q, FALSE)
  BY DEF Stream

LEMMA StreamAtStart ==
    ASSUME NEW E \in Seq(Command), NEW P \in Seq(Command), Stream(E, <<>>, Beginning, P, TRUE)
    PROVE  Len(P) = Len(E) /\ \A k \in 1 .. Len(P) : Alike(P[k], E[k])
<1>1. PICK p : Reads(E, <<>>, Beginning, p) /\ Meets(E, p[Len(<<>>) + 1], P)
  BY DEF Stream
<1>2. Len(<<>>) = 0 /\ 0 + 1 = 1 /\ Len(P) \in Nat /\ Len(E) \in Nat
  OBVIOUS
<1>3. p[Len(<<>>) + 1] = Beginning
  BY <1>1, <1>2 DEF Reads
<1>4. Meets(E, Beginning, P) /\ Beginning.at = 1
  BY <1>1, <1>3 DEF Beginning, State
<1>5. Len(P) = Len(E)
  BY <1>2, <1>4 DEF Meets
<1>6. ASSUME NEW k \in 1 .. Len(P) PROVE Alike(P[k], E[k])
  <2>1. Alike(P[k], E[Beginning.at + k - 1]) /\ Beginning.at + k - 1 = k
    BY <1>4 DEF Meets
  <2> QED
    BY <2>1
<1> QED
  BY <1>5, <1>6

(* What is to be answered, when the server has greeted, or is still to.    *)
LEMMA PendingIs ==
    ASSUME toServer \in Seq(Command), batch \in Seq(Command)
    PROVE  /\ ~(open /\ got = <<>>) => Pending = toServer \o batch
           /\ open /\ got = <<>> => Pending = <<Make("connect", host)>> \o toServer \o batch
<1>1. <<>> \o toServer = toServer
  BY ConcatEmptySeq
<1> QED
  BY <1>1 DEF Pending

(* When a server is being connected to, a reply is read, or nothing else.  *)
LEMMA FirstNone ==
    ASSUME HostInv, pc \in {"request", "connect", "write", "process"}, pc = "process" => Top.op # "connect" \/ host = NoHost,
           pc = "write" => Top.op # "connect", cmds \in Seq(Command)
    PROVE  First = <<>> /\ Expected = Sift(cmds, Wired) /\ Where = Beginning
<1>1. ~Reading /\ ~Greeting
  BY DEF Reading, Greeting
<1>2. Sift(cmds, Wired) \in Seq(Command)
  BY SiftType
<1>3. <<>> \o Sift(cmds, Wired) = Sift(cmds, Wired)
  BY <1>2, ConcatEmptySeq
<1> QED
  BY <1>1, <1>3 DEF First, Expected, Where, Beginning

(* request() writes what it marks.                                         *)
LEMMA StreamRequest == ASSUME ClientInv, Request, HostInv', ~cmds[1].sent PROVE StreamInv'
<1>1. HostInv /\ pc = "request" /\ cmds # <<>> /\ cmds \in Seq(Shaped) /\ toClient \in Seq(Lines)
  BY DEF ClientInv, Request, ShapeInv, TypeOK
<1>2. /\ Len(cmds) \in Nat /\ Ahead \in 0 .. Len(cmds) /\ 1 \in 1 .. Len(cmds)
      /\ cmds' \in Seq(Shaped) /\ Len(cmds') = Len(cmds)
      /\ \A k \in 1 .. Len(cmds) : Alike(cmds'[k], cmds[k]) /\ cmds'[k].sent = (cmds[k].sent \/ k <= Ahead)
      /\ ~AtSent /\ \A k \in 1 .. Len(cmds) : ~cmds[k].sent
      /\ KeyNow # key => host = NoHost
  BY RequestMarks
<1>3. /\ key' = KeyNow /\ batch' = Wire(Ahead) /\ UNCHANGED <<host, msgid, open, toServer, got, answer, toClient>>
      /\ pc' = IF host = NoHost THEN "connect" ELSE "write"
  BY <1>2 DEF Request, netVars
<1>4. toClient = <<>> /\ answer = <<>> /\ toServer = <<>> /\ (open => got # <<>>)
  BY <1>1, <1>2, NothingOnItsWay
<1>5. cmds \in Seq(Command) /\ cmds' \in Seq(Command) /\ Wire(Ahead) \in Seq(Command)
  BY <1>1, <1>2, ShapedType, WireType
<1>6. Expected' = Sift(cmds', Wired') /\ Where' = Beginning
  <2>1. pc' \in {"connect", "write"} /\ Top = cmds[1] /\ Top' = cmds'[1]
    <3>1. cmds' # <<>>
      BY <1>2
    <3> QED
      BY <1>1, <1>2, <1>3, <3>1, HeadsAndTails DEF Top
  <2>2. pc' = "write" => Top'.op # "connect"
    <3>1. ASSUME pc' = "write" PROVE Top.op # "connect"
      <4>1. host # NoHost
        BY <1>3, <3>1
      <4>2. ~Connecting
        BY <1>1, <4>1 DEF Connecting, Greeting
      <4> QED
        BY <1>1, <1>2, <2>1, <4>2 DEF HostInv
    <3>2. Top'.op = Top.op
      BY <1>2, <2>1 DEF Alike
    <3> QED
      BY <3>1, <3>2
  <2>3. ~Reading' /\ ~Greeting'
    BY <2>1, <2>2 DEF Reading, Greeting
  <2>4. Sift(cmds', Wired') \in Seq(Command)
    BY <1>5, SiftType
  <2>5. <<>> \o Sift(cmds', Wired') = Sift(cmds', Wired')
    BY <2>4, ConcatEmptySeq
  <2>6. Where' = Beginning
    BY <2>1, <2>3 DEF Where, Beginning
  <2>7. First' = <<>>
    BY <2>3 DEF First
  <2> QED
    BY <2>5, <2>6, <2>7 DEF Expected
<1>7. Pending' = Wire(Ahead)
  <2>1. ~(open' /\ got' = <<>>)
    BY <1>3, <1>4
  <2>2. (<<>> \o <<>>) \o Wire(Ahead) = Wire(Ahead)
    <3>1. <<>> \o <<>> = <<>>
      OBVIOUS
    <3>2. <<>> \o Wire(Ahead) = Wire(Ahead)
      BY <1>5, ConcatEmptySeq
    <3> QED
      BY <3>1, <3>2
  <2> QED
    BY <1>3, <1>4, <2>1, <2>2 DEF Pending
<1>8. Arriving' = <<>>
  <2>1. <<>> \o <<>> = <<>>
    OBVIOUS
  <2> QED
    BY <1>3, <1>4, <2>1 DEF Arriving
<1> DEFINE R == {x \in Shaped \X Shaped : Alike(x[1], x[2])}
           U == Wired'
<1>9. \A k \in 1 .. Len(cmds) : cmds'[k].sent <=> k <= Ahead
  BY <1>2, Zenon
<1>10. \A k \in 1 .. Len(cmds) : cmds[k] \in Shaped /\ cmds'[k] \in Shaped /\ cmds[k] \in Command /\ cmds'[k] \in Command
  <2>1. \A k \in 1 .. Len(cmds) : cmds[k] \in Shaped
    BY <1>1, ElementOfSeq
  <2>2. \A k \in 1 .. Len(cmds') : cmds'[k] \in Shaped
    BY <1>2, ElementOfSeq
  <2> QED
    BY <1>2, <2>1, <2>2 DEF Shaped
<1>11. U = {c \in Command : c.sent /\ (\/ c.op \in {"client", "mime", "info", "dbs", "match", "define", "close"}
                                       \/ c.op = "auth" /\ KeyNow)}
  BY <1>3 DEF Wired, Sends
<1>12. Sift(cmds', U) = Sifted(cmds', U)[Ahead]
  <2>1. \A k \in 1 .. Len(cmds') : k > Ahead => cmds'[k] \notin U
    <3> SUFFICES ASSUME NEW k \in 1 .. Len(cmds), k > Ahead PROVE cmds'[k] \notin U
      BY <1>2
    <3>1. ~(k <= Ahead)
      BY <1>2
    <3>2. ~cmds'[k].sent
      BY <1>9, <3>1
    <3> QED
      BY <1>11, <3>2
  <2> HIDE DEF U
  <2> QED
    BY <1>2, <2>1, SiftedRest
<1>13. \A k \in 1 .. Ahead : /\ cmds[k] \in OnWires <=> cmds'[k] \in U
                             /\ cmds[k] \in OnWires => <<cmds[k], cmds'[k]>> \in R
  <2> SUFFICES ASSUME NEW k \in 1 .. Ahead
               PROVE  /\ cmds[k] \in OnWires <=> cmds'[k] \in U
                      /\ <<cmds[k], cmds'[k]>> \in R
    OBVIOUS
  <2>1. k \in 1 .. Len(cmds) /\ k <= Ahead
    BY <1>2
  <2>2. cmds[k] \in Shaped /\ cmds'[k] \in Shaped /\ cmds[k] \in Command /\ cmds'[k] \in Command
    BY <1>10, <2>1
  <2>3. cmds'[k].sent /\ cmds'[k].op = cmds[k].op /\ cmds'[k].word = cmds[k].word
    BY <1>2, <1>9, <2>1 DEF Alike
  <2>4. cmds[k] \in OnWires <=> cmds'[k] \in U
    <3> HIDE DEF U
    <3> QED
      BY <1>11, <2>2, <2>3 DEF OnWires, OnWire
  <2> QED
    BY <2>2, <2>3, <2>4 DEF Alike
<1> HIDE DEF U, R
<1>14. /\ Len(Sifted(cmds, OnWires)[Ahead]) = Len(Sifted(cmds', U)[Ahead])
       /\ \A k \in 1 .. Len(Sifted(cmds, OnWires)[Ahead]) :
            <<Sifted(cmds, OnWires)[Ahead][k], Sifted(cmds', U)[Ahead][k]>> \in R
  <2>1. Ahead \in Nat /\ Ahead <= Len(cmds) /\ Ahead <= Len(cmds')
    BY <1>2
  <2>2. \A n \in Nat : n <= Ahead =>
               /\ Len(Sifted(cmds, OnWires)[n]) = Len(Sifted(cmds', U)[n])
               /\ \A k \in 1 .. Len(Sifted(cmds, OnWires)[n]) :
                    <<Sifted(cmds, OnWires)[n][k], Sifted(cmds', U)[n][k]>> \in R
    BY <1>1, <1>2, <1>13, <2>1, SiftedSame
  <2> QED
    BY <2>1, <2>2
<1>15. Wire(Ahead) = Sifted(cmds, OnWires)[Ahead]
  <2>1. Ahead \in Nat /\ Ahead <= Len(cmds)
    BY <1>2
  <2> QED
    BY <1>1, <2>1, WireSifted
<1>16. Expected' = Sifted(cmds', U)[Ahead]
  BY <1>6, <1>12 DEF U
<1>17. /\ Len(Expected') = Len(Pending')
       /\ \A k \in 1 .. Len(Pending') : Alike(Pending'[k], Expected'[k])
  <2>1. \A x : x \in R => Alike(x[1], x[2])
    BY DEF R
  <2>2. \A k \in 1 .. Len(Pending') : <<Pending'[k], Expected'[k]>> \in R
    BY <1>7, <1>14, <1>15, <1>16
  <2>3. ASSUME NEW k \in 1 .. Len(Pending') PROVE Alike(Pending'[k], Expected'[k])
    <3>1. Alike(<<Pending'[k], Expected'[k]>>[1], <<Pending'[k], Expected'[k]>>[2])
      BY <2>1, <2>2
    <3> QED
      BY <3>1
  <2> QED
    BY <1>7, <1>14, <1>15, <1>16, <2>3
<1>18. Expected' \in Seq(Command) /\ Pending' \in Seq(Command)
  <2>1. Sift(cmds', Wired') \in Seq(Command)
    BY <1>5, SiftType
  <2> QED
    BY <1>5, <1>6, <1>7, <2>1
<1>19. Stream(Expected', <<>>, Beginning, Pending', open' \/ pc' = "connect")
  BY <1>17, <1>18, StreamStart
<1> QED
  BY <1>6, <1>8, <1>19 DEF StreamInv

LEMMA StreamRequestSent == ASSUME ClientInv, Request, HostInv', cmds[1].sent PROVE StreamInv'
<1>1. HostInv /\ pc = "request" /\ cmds # <<>> /\ cmds \in Seq(Command) /\ StreamInv
  BY ShapedType DEF ClientInv, Request, ShapeInv
<1>2. AtSent /\ cmds' = cmds /\ host # NoHost /\ (KeyNow # key => host = NoHost)
  BY RequestMarks
<1>3. /\ key' = key /\ batch' = <<>> /\ pc' = "process"
      /\ UNCHANGED <<cmds, host, open, toServer, got, answer, toClient>>
  BY <1>2 DEF Request, netVars
<1>4. batch = <<>>
  BY <1>1 DEF HostInv
<1>5. ~Reading /\ ~Greeting /\ ~Reading'
  BY <1>1, <1>3 DEF Reading, Greeting
<1>6. Top.op # "connect" /\ Top' = Top
  <2>1. ~Connecting
    BY <1>1, <1>2 DEF Connecting, Greeting
  <2>2. Top = cmds[1] /\ 1 \in 1 .. Len(cmds)
    BY <1>1, HeadsAndTails DEF Top
  <2> QED
    BY <1>1, <1>2, <2>1, <2>2 DEF HostInv, Top
<1>7. ~Greeting'
  BY <1>6 DEF Greeting
<1>8. Wired' = Wired
  BY <1>3 DEF Wired, Sends
<1>9. Expected' = Expected
  BY <1>2, <1>5, <1>7, <1>8 DEF Expected, First
<1>10. Where' = Where
  BY <1>1, <1>3, <1>5 DEF Where
<1>11. Arriving' = Arriving /\ Pending' = Pending
  BY <1>3, <1>4 DEF Arriving, Pending
<1> QED
  BY <1>1, <1>3, <1>9, <1>10, <1>11, StreamSame

LEMMA StreamConnect == ASSUME ClientInv, Connect, Typed' PROVE StreamInv'
<1>1. HostInv /\ pc = "connect" /\ cmds \in Seq(Command) /\ StreamInv /\ cmds \in Seq(Shaped) /\ batch \in Seq(Command)
  BY ShapedType DEF ClientInv, Connect, ShapeInv
<1>2. /\ host = NoHost /\ cmds # <<>> /\ Top.op = "connect" /\ key = KeyNow
      /\ ~open /\ got = <<>> /\ toServer = <<>> /\ answer = <<>> /\ toClient = <<>>
  BY <1>1 DEF HostInv
<1>3. Top = cmds[1] /\ Top.word \in Hosts /\ Top \in Command
  <2>1. Top = cmds[1] /\ Top \in Shaped
    BY <1>1, <1>2, TopShape
  <2> QED
    BY <1>2, <2>1 DEF Shaped, Shape
<1>4. /\ host' = Top.word /\ open' = TRUE /\ key' = (cmds[1].word \in HasKey) /\ pc' = "write"
      /\ UNCHANGED <<cmds, batch, toServer, got, answer, toClient>> /\ host' # NoHost
  BY <1>3, ClientAssumption DEF Connect, listVars
<1>5. Wired' = Wired
  <2>1. key = (cmds[1].word \in HasKey)
    BY <1>2, <1>3 DEF KeyNow
  <2>2. key' = key
    BY <1>4, <2>1
  <2> QED
    BY <2>2 DEF Wired, Sends
<1> DEFINE S == Sift(cmds, Wired)
           m == Make("connect", host')
<1>6. S \in Seq(Command)
  BY <1>1, SiftType
<1>7. Expected = S /\ Where = Beginning
  BY <1>1, <1>2, FirstNone
<1>8. Expected' = <<Top>> \o S /\ Where' = Beginning
  <2>1. Greeting' /\ ~Reading' /\ Top' = Top
    BY <1>2, <1>4 DEF Greeting, Reading, Top
  <2>2. First' = <<Top>>
    BY <2>1 DEF First
  <2>3. Where' = Beginning
    BY <1>4, <2>1 DEF Where, Beginning
  <2> QED
    BY <1>4, <1>5, <2>2, <2>3 DEF Expected
<1>9. Pending = batch
  <2>1. Pending = <<>> \o batch
    BY <1>1, <1>2, PendingIs, NoCommands
  <2> QED
    BY <1>1, <2>1, ConcatEmptySeq
<1>10. m \in Command /\ Alike(m, Top)
  BY <1>2, <1>3, <1>4 DEF Make, Alike, Command
<1>11. Pending' = <<m>> \o batch
  <2>1. (<<m>> \o <<>>) \o batch = <<m>> \o batch
    <3>1. <<m>> \o <<>> = <<m>>
      BY <1>10, ConcatEmptySeq
    <3> QED
      BY <3>1
  <2> QED
    BY <1>2, <1>4, <2>1 DEF Pending
<1>12. Arriving' = <<>> /\ Arriving = <<>>
  <2>1. <<>> \o <<>> = <<>>
    OBVIOUS
  <2> QED
    BY <1>2, <1>4, <2>1 DEF Arriving
<1> HIDE DEF S, m
<1>13. Stream(S, <<>>, Beginning, batch, TRUE)
  <2>1. Stream(S, <<>>, Beginning, batch, open \/ pc = "connect")
    BY <1>1, <1>7, <1>9, <1>12 DEF StreamInv
  <2>2. PICK p : Reads(S, <<>>, Beginning, p) /\ Meets(S, p[Len(<<>>) + 1], batch)
    BY <1>1, <2>1 DEF Stream
  <2> QED
    BY <2>2 DEF Stream
<1>14. Len(batch) = Len(S) /\ \A k \in 1 .. Len(batch) : Alike(batch[k], S[k])
  BY <1>1, <1>6, <1>13, StreamAtStart
<1> DEFINE E == <<Top>> \o S
           P == <<m>> \o batch
<1>15. /\ E \in Seq(Command) /\ Len(E) = Len(S) + 1 /\ E[1] = Top /\ \A k \in 1 .. Len(S) : E[k + 1] = S[k]
       /\ P \in Seq(Command) /\ Len(P) = Len(batch) + 1 /\ P[1] = m /\ \A k \in 1 .. Len(batch) : P[k + 1] = batch[k]
  <2>1. <<Top>> \in Seq(Command) /\ <<m>> \in Seq(Command) /\ Len(<<Top>>) = 1 /\ Len(<<m>>) = 1 /\ <<Top>>[1] = Top /\ <<m>>[1] = m
    BY <1>3, <1>10
  <2>2. Len(S) \in Nat /\ Len(batch) \in Nat
    BY <1>1, <1>6, LenProperties
  <2>3. /\ E \in Seq(Command) /\ Len(E) = Len(<<Top>>) + Len(S)
        /\ \A i \in 1 .. Len(<<Top>>) + Len(S) : E[i] = IF i <= Len(<<Top>>) THEN <<Top>>[i] ELSE S[i - Len(<<Top>>)]
    BY <1>6, <2>1, ConcatProperties
  <2>4. /\ P \in Seq(Command) /\ Len(P) = Len(<<m>>) + Len(batch)
        /\ \A i \in 1 .. Len(<<m>>) + Len(batch) : P[i] = IF i <= Len(<<m>>) THEN <<m>>[i] ELSE batch[i - Len(<<m>>)]
    BY <1>1, <2>1, ConcatProperties
  <2> HIDE DEF E, P
  <2>5. Len(E) = Len(S) + 1 /\ E[1] = Top /\ \A k \in 1 .. Len(S) : E[k + 1] = S[k]
    BY <2>1, <2>2, <2>3
  <2>6. Len(P) = Len(batch) + 1 /\ P[1] = m /\ \A k \in 1 .. Len(batch) : P[k + 1] = batch[k]
    BY <2>1, <2>2, <2>4
  <2> QED
    BY <2>3, <2>4, <2>5, <2>6
<1> HIDE DEF E, P
<1>16. Len(E) = Len(P) /\ \A k \in 1 .. Len(P) : Alike(P[k], E[k])
  <2>1. Len(batch) \in Nat
    BY <1>1, LenProperties
  <2>2. ASSUME NEW k \in 1 .. Len(P) PROVE Alike(P[k], E[k])
    <3>1. CASE k = 1
      BY <1>10, <1>15, <3>1
    <3>2. CASE k # 1
      <4>1. k - 1 \in 1 .. Len(batch) /\ k - 1 \in 1 .. Len(S) /\ (k - 1) + 1 = k
        BY <1>14, <1>15, <2>1, <3>2
      <4>2. P[k] = batch[k - 1] /\ E[k] = S[k - 1]
        BY <1>15, <4>1
      <4> QED
        BY <1>14, <4>1, <4>2
    <3> QED
      BY <3>1, <3>2
  <2> QED
    BY <1>14, <1>15, <2>2
<1>17. Stream(E, <<>>, Beginning, P, open' \/ pc' = "connect")
  BY <1>15, <1>16, StreamStart
<1> QED
  BY <1>8, <1>11, <1>12, <1>17 DEF StreamInv, E, P

LEMMA StreamConnectFails == ASSUME ClientInv, ConnectFails, pc' # "ended", HostInv' PROVE StreamInv'
<1>1. HostInv /\ pc = "connect" /\ cmds \in Seq(Shaped)
  BY DEF ClientInv, ConnectFails, ShapeInv
<1>2. host = NoHost /\ ~open /\ got = <<>> /\ toServer = <<>> /\ answer = <<>> /\ toClient = <<>>
  BY <1>1 DEF HostInv
<1>3. /\ cmds' = Unsent /\ pc' = "process" /\ batch' = <<>>
      /\ UNCHANGED <<host, open, toServer, got, answer, toClient>>
  BY DEF ConnectFails, End, hostVars, netVars
<1>4. /\ Unsent \in Seq(Shaped) /\ Len(Unsent) = Len(cmds)
      /\ \A k \in 1 .. Len(cmds) : Unsent[k].sent = FALSE
  BY <1>1, UnsentShape
<1>5. ~Reading' /\ ~Greeting'
  BY <1>2, <1>3 DEF Reading, Greeting
<1>6. Sift(cmds', Wired') = <<>>
  <2>1. \A k \in 1 .. Len(cmds') : cmds'[k] \notin Wired'
    BY <1>3, <1>4 DEF Wired
  <2> QED
    BY <1>3, <1>4, <2>1, SiftNone
<1>7. <<>> \o <<>> = <<>>
  OBVIOUS
<1>8. Expected' = <<>> /\ Arriving' = <<>>
  BY <1>2, <1>3, <1>5, <1>6, <1>7 DEF Expected, First, Arriving
<1>9. Where' = Beginning
  BY <1>3, <1>5 DEF Where, Beginning
<1>10. Pending' = <<>>
  BY <1>2, <1>3, <1>7 DEF Pending
<1>11. ~(open' \/ pc' = "connect")
  BY <1>2, <1>3
<1>12. Stream(<<>>, <<>>, Beginning, <<>>, open' \/ pc' = "connect")
  BY <1>11, NoCommands, StreamStart
<1> QED
  BY <1>8, <1>9, <1>10, <1>12 DEF StreamInv

LEMMA StreamWrite == ASSUME ClientInv, Write PROVE StreamInv'
<1>1. /\ HostInv /\ StreamInv /\ pc = "write" /\ toServer \in Seq(Command) /\ batch \in Seq(Command)
  BY DEF ClientInv, Write, TypeOK
<1>2. /\ pc' = "process" /\ batch' = <<>> /\ UNCHANGED <<cmds, cur, host, key, open, got, answer, toClient, matches, count, defs>>
      /\ toServer' = IF open THEN toServer \o batch ELSE toServer
  BY DEF Write, listVars, hostVars, replyVars
<1>3. Greeting' = Greeting /\ ~Reading /\ ~Reading' /\ Top' = Top /\ Wired' = Wired
  BY <1>1, <1>2 DEF Greeting, Reading, Top, Wired, Sends
<1>4. Expected' = Expected /\ Arriving' = Arriving
  BY <1>2, <1>3 DEF Expected, First, Arriving
<1>5. Where' = Where
  BY <1>1, <1>2, <1>3 DEF Where
<1>6. CASE open
  <2>1. toServer \o batch \in Seq(Command)
    BY <1>1, ConcatProperties
  <2>2. (toServer \o batch) \o <<>> = toServer \o batch
    BY <2>1, ConcatEmptySeq
  <2> DEFINE g == IF open /\ got = <<>> THEN <<Make("connect", host)>> ELSE <<>>
  <2>3. g \in Seq(Command)
    <3>1. CASE got = <<>>
      BY <1>6, <3>1, GreetingShape
    <3>2. CASE got # <<>>
      BY <3>2, NoCommands
    <3> QED
      BY <3>1, <3>2
  <2>4. g' = g /\ Pending = (g \o toServer) \o batch /\ Pending' = (g' \o toServer') \o batch'
    BY <1>2 DEF Pending
  <2> HIDE DEF g
  <2>5. (g \o (toServer \o batch)) \o <<>> = g \o (toServer \o batch)
    BY <2>1, <2>3, ConcatEmptySeq, ConcatProperties
  <2>6. (g \o toServer) \o batch = g \o (toServer \o batch)
    BY <1>1, <2>3, ConcatAssociative
  <2>7. Pending' = Pending
    BY <1>2, <1>6, <2>4, <2>5, <2>6
  <2> QED
    BY <1>1, <1>2, <1>4, <1>5, <2>7, StreamSame
<1>7. CASE ~open
  <2>1. Stream(Expected, Arriving, Where, Pending', FALSE)
    BY <1>1, StreamClosed DEF StreamInv
  <2>2. Stream(Expected, Arriving, Where, Pending', open' \/ pc' = "connect")
    BY <1>2, <1>7, <2>1 DEF Stream
  <2> QED
    BY <1>4, <1>5, <2>2 DEF StreamInv
<1> QED
  BY <1>6, <1>7

(* What is expected is the same when the next command is taken off.        *)
LEMMA StreamAwait == ASSUME ClientInv, Await PROVE StreamInv'
<1>1. HostInv /\ StreamInv /\ pc = "process" /\ cmds \in Seq(Command) /\ cmds # <<>> /\ ListInv
  BY DEF ClientInv, Await, Pop, TypeOK, HostInv
<1>2. /\ cmds' = Tail(cmds) /\ cur' = Top /\ pc' = "status" /\ HasReply(Top)
      /\ UNCHANGED <<batch, host, key, open, toServer, got, answer, toClient>>
  BY DEF Await, Pop, hostVars, netVars
<1>3. host # NoHost
  BY <1>1, <1>2 DEF HasReply, HostInv
<1>4. Wired' = Wired /\ Reading' /\ ~Reading
  BY <1>1, <1>2 DEF Wired, Sends, Reading
<1>5. Top \in Command /\ Top = Head(cmds) /\ Tail(cmds) \in Seq(Command)
  BY <1>1, HeadsAndTails DEF Top
<1>6. Expected' = <<Top>> \o Sift(Tail(cmds), Wired)
  BY <1>2, <1>4 DEF Expected, First
<1>7. Expected = <<Top>> \o Sift(Tail(cmds), Wired)
  <2>1. CASE Top.op = "connect"
    <3>1. Greeting
      BY <1>1, <1>3, <2>1 DEF Greeting
    <3>2. Top \notin Wired
      BY <2>1 DEF Wired, Sends
    <3>3. Sift(cmds, Wired) = Sift(Tail(cmds), Wired)
      BY <1>1, <1>5, <3>2, SiftHead
    <3> QED
      BY <1>4, <3>1, <3>3 DEF Expected, First
  <2>2. CASE Top.op # "connect"
    <3>1. ~Greeting
      BY <2>2 DEF Greeting
    <3>2. Unstopped(Top) /\ Sends(Top)
      BY <1>2, <2>2 DEF HasReply, Unstopped, Sends
    <3>3. Top \in Wired
      BY <1>1, <1>3, <1>5, <3>2 DEF HostInv, Wired
    <3>4. Sift(cmds, Wired) = <<Top>> \o Sift(Tail(cmds), Wired)
      BY <1>1, <1>5, <3>3, SiftHead
    <3>5. Sift(cmds, Wired) \in Seq(Command)
      BY <1>1, SiftType
    <3>6. <<>> \o Sift(cmds, Wired) = Sift(cmds, Wired)
      BY <3>5, ConcatEmptySeq
    <3> QED
      BY <1>4, <3>1, <3>4, <3>6 DEF Expected, First
  <2> QED
    BY <2>1, <2>2
<1>8. Where' = Where
  BY <1>1, <1>2, <1>4 DEF Where
<1>9. Arriving' = Arriving /\ Pending' = Pending
  BY <1>2 DEF Arriving, Pending
<1> QED
  BY <1>1, <1>2, <1>6, <1>7, <1>8, <1>9, StreamSame

LEMMA StreamPass == ASSUME ClientInv, PassOver \/ PrintReply \/ PrintDefinitions PROVE StreamInv'
<1>1. HostInv /\ StreamInv /\ pc = "process" /\ cmds \in Seq(Command) /\ cmds # <<>> /\ ListInv
  BY DEF ClientInv, PassOver, PrintReply, PrintDefinitions, Pop, TypeOK, HostInv
<1>2. /\ cmds' = Tail(cmds) /\ pc' = "request"
      /\ UNCHANGED <<batch, host, key, open, toServer, got, answer, toClient>>
  BY DEF PassOver, PrintReply, PrintDefinitions, Pop, hostVars, netVars
<1>3. Wired' = Wired /\ ~Reading' /\ ~Reading /\ ~Greeting'
  BY <1>1, <1>2 DEF Wired, Sends, Reading, Greeting
<1>4. Top \in Command /\ Top = Head(cmds) /\ Top = cmds[1] /\ 1 \in 1 .. Len(cmds) /\ Tail(cmds) \in Seq(Command)
  BY <1>1, HeadsAndTails DEF Top
<1>5. ~Greeting
  BY DEF Greeting, PassOver, PrintReply, PrintDefinitions, HasReply
<1>6. Top \notin Wired
  <2>1. CASE PrintReply \/ PrintDefinitions
    BY <2>1 DEF PrintReply, PrintDefinitions, Wired, Sends
  <2>2. CASE PassOver /\ Top.op = "connect"
    BY <2>2 DEF Wired, Sends
  <2>3. CASE PassOver /\ Top.op = "auth"
    <3>1. ~(key /\ msgid)
      BY <2>3 DEF PassOver, HasReply
    <3>2. Top.sent => (key => msgid)
      BY <1>1, <1>4, <2>3 DEF ListInv, Unstopped
    <3> QED
      BY <2>3, <3>1, <3>2 DEF Wired, Sends
  <2> QED
    BY <2>1, <2>2, <2>3 DEF PassOver
<1>7. Sift(cmds, Wired) = Sift(Tail(cmds), Wired)
  BY <1>1, <1>4, <1>6, SiftHead
<1>8. Expected' = Expected
  BY <1>2, <1>3, <1>5, <1>7 DEF Expected, First
<1>9. Where' = Where
  BY <1>1, <1>2, <1>3 DEF Where
<1>10. Arriving' = Arriving /\ Pending' = Pending
  BY <1>2 DEF Arriving, Pending
<1> QED
  BY <1>1, <1>2, <1>8, <1>9, <1>10, StreamSame

LEMMA StreamGrow == ASSUME ClientInv, Spell \/ Wind, Typed' PROVE StreamInv'
<1>1. /\ HostInv /\ StreamInv /\ pc = "process" /\ cmds \in Seq(Command) /\ cmds # <<>> /\ ListInv
      /\ Top.op \in {"spell", "wind"}
  BY DEF ClientInv, Spell, Wind, Pop, TypeOK, HostInv
<1>2. /\ pc' = "request"
      /\ UNCHANGED <<batch, host, key, open, toServer, got, answer, toClient>>
  BY DEF Spell, Wind, hostVars, netVars
<1>3. ~Reading' /\ ~Reading /\ ~Greeting' /\ ~Greeting
  BY <1>1, <1>2 DEF Reading, Greeting
<1>4. Len(cmds) \in Nat /\ Top = cmds[1] /\ 1 \in 1 .. Len(cmds)
  BY <1>1, HeadsAndTails DEF Top
<1>5. \A k \in 1 .. Len(cmds) : ~cmds[k].sent
  <2>1. ~Top.sent
    BY <1>1, <1>4 DEF ListInv, Unstopped
  <2> SUFFICES ASSUME NEW k \in 1 .. Len(cmds), cmds[k].sent PROVE FALSE
    OBVIOUS
  <2>2. 1 < k
    BY <1>4, <2>1
  <2>3. Before(cmds[1], cmds[k])
    BY <1>1, <1>4, <2>2 DEF ListInv, Ordered
  <2> QED
    BY <1>4, <2>1, <2>3 DEF Before
<1>6. \A k \in 1 .. Len(cmds') : ~cmds'[k].sent
  BY ListGrows, ListGrown
<1>7. Sift(cmds, Wired) = <<>>
  <2>1. \A k \in 1 .. Len(cmds) : cmds[k] \notin Wired
    BY <1>5 DEF Wired
  <2> QED
    BY <1>1, <2>1, SiftNone
<1>8. Sift(cmds', Wired') = <<>>
  <2>1. \A k \in 1 .. Len(cmds') : cmds'[k] \notin Wired'
    BY <1>6 DEF Wired
  <2>2. cmds' \in Seq(Command)
    BY DEF Typed, TypeOK
  <2> QED
    BY <2>1, <2>2, SiftNone
<1>9. Expected' = Expected
  BY <1>3, <1>7, <1>8 DEF Expected, First
<1>10. Where' = Where
  BY <1>1, <1>2, <1>3 DEF Where
<1>11. Arriving' = Arriving /\ Pending' = Pending
  BY <1>2 DEF Arriving, Pending
<1> QED
  BY <1>1, <1>2, <1>9, <1>10, <1>11, StreamSame

(* A line is taken: the rest of the reply, or the replies to the rest.     *)
LEMMA StreamReadOn ==
    ASSUME ClientInv, Reading, Take, Reading', cmds' = cmds, cur' = cur, key' = key,
           UNCHANGED <<batch, host, open, toServer, got, answer>>, Where' = After(Line, Where)
    PROVE  StreamInv'
<1>1. pc # "ended" /\ pc # "connect" /\ pc' # "connect" /\ toClient # <<>> /\ toClient' = Tail(toClient)
  BY DEF Reading, Take
<1>2. Stream(Expected, Tail(toClient) \o answer, After(Line, Where), Pending, open \/ pc = "connect")
  BY <1>1, LineFits
<1>3. Expected' = Expected
  BY DEF Expected, First, Wired, Sends
<1>4. Arriving' = Tail(toClient) \o answer /\ Pending' = Pending
  BY <1>1 DEF Arriving, Pending
<1>5. Stream(Expected, Tail(toClient) \o answer, After(Line, Where), Pending, open' \/ pc' = "connect")
  BY <1>1, <1>2 DEF Stream
<1> QED
  BY <1>3, <1>4, <1>5 DEF StreamInv

LEMMA StreamReadEnd ==
    ASSUME ClientInv, Reading, Take, pc' = "request", key' = key, Sift(cmds', Wired') = Sift(cmds, Wired),
           UNCHANGED <<batch, host, open, toServer, got, answer>>, After(Line, Where) = State(2, "status", 0)
    PROVE  StreamInv'
<1>1. pc # "ended" /\ pc # "connect" /\ pc' # "connect" /\ toClient # <<>> /\ toClient' = Tail(toClient)
  BY DEF Reading, Take
<1>2. Stream(Expected, Tail(toClient) \o answer, State(2, "status", 0), Pending, open \/ pc = "connect")
  BY <1>1, LineFits
<1>3. /\ Expected \in Seq(Command) /\ Expected # <<>> /\ Tail(Expected) = Sift(cmds, Wired)
      /\ Pending \in Seq(Command) /\ Sift(cmds, Wired) \in Seq(Command)
  BY ExpectedType
<1>4. Tail(toClient) \o answer \in Seq(Lines)
  <2>1. toClient \in Seq(Lines) /\ answer \in Seq(Lines)
    BY DEF ClientInv, TypeOK
  <2>2. Tail(toClient) \in Seq(Lines)
    BY <1>1, <2>1, HeadsAndTails
  <2> QED
    BY <2>1, <2>2, ConcatProperties
<1>5. Stream(Tail(Expected), Tail(toClient) \o answer, Beginning, Pending, open \/ pc = "connect")
  BY <1>2, <1>3, <1>4, StreamShift
<1>6. ~Reading' /\ ~Greeting'
  BY DEF Reading, Greeting
<1>7. Expected' = Tail(Expected)
  <2>1. <<>> \o Sift(cmds, Wired) = Sift(cmds, Wired)
    BY <1>3, ConcatEmptySeq
  <2> QED
    BY <1>3, <1>6, <2>1 DEF Expected, First
<1>8. Where' = Beginning
  BY <1>6 DEF Where, Beginning
<1>9. Arriving' = Tail(toClient) \o answer /\ Pending' = Pending
  BY <1>1 DEF Arriving, Pending
<1>10. Stream(Tail(Expected), Tail(toClient) \o answer, Beginning, Pending, open' \/ pc' = "connect")
  BY <1>1, <1>5 DEF Stream
<1> QED
  BY <1>7, <1>8, <1>9, <1>10 DEF StreamInv

LEMMA StreamStatus == ASSUME ClientInv, ReadStatus, pc' # "ended" PROVE StreamInv'
<1>1. /\ pc = "status" /\ Reading /\ Take /\ toClient # <<>> /\ cmds \in Seq(Shaped)
      /\ UNCHANGED <<batch, host, key, cur, open, toServer, got, answer>>
  BY DEF ReadStatus, Reading, Take, ClientInv, ShapeInv
<1>2. Line \in Lines /\ Line.op = cur.op /\ Where.at = 1 /\ Where.pc = "status"
  BY <1>1, LineFits, WhereType DEF Alike
<1>3. Follows(Line, Line.code) = Follows(cur, Line.code)
  BY <1>2 DEF Follows
<1>4. CASE Follows(cur, Line.code) = "nothing"
  <2>1. pc' = "request"
    BY <1>4 DEF ReadStatus, End
  <2>2. After(Line, Where) = State(2, "status", 0)
    <3>1. After(Line, Where) = State(Where.at + 1, "status", 0)
      BY <1>2, <1>3, <1>4 DEF After
    <3> QED
      BY <1>2, <3>1
  <2>3. Sift(cmds', Wired') = Sift(cmds, Wired)
    <3>1. Wired' = Wired
      BY <1>1 DEF Wired, Sends
    <3>2. CASE cmds' = cmds
      BY <3>1, <3>2
    <3>3. CASE cur.op = "connect" /\ cmds' = Connected
      <4>1. \E k \in 1 .. Len(cmds) : cmds[k].op # "connect"
        BY <1>1, <3>3 DEF ClientInv, HostInv, Connecting
      <4>2. Connected \in Seq(Shaped)
        BY <1>1, <4>1, ConnectedParts
      <4>3. PICK a \in Seq(Shaped) : cmds = a \o Connected /\ \A k \in 1 .. Len(a) : a[k].op = "connect"
        BY <1>1, <4>1, ConnectedParts
      <4>4. \A k \in 1 .. Len(a) : a[k] \notin Wired
        BY <4>3 DEF Wired, Sends
      <4>5. Sift(a, Wired) = <<>>
        BY <4>4, SiftNone
      <4>6. Sift(a \o Connected, Wired) = Sift(a, Wired) \o Sift(Connected, Wired)
        BY <4>2, SiftConcat
      <4>7. Sift(Connected, Wired) \in Seq(Shaped)
        BY <4>2, SiftType
      <4>8. <<>> \o Sift(Connected, Wired) = Sift(Connected, Wired)
        BY <4>7, ConcatEmptySeq
      <4>9. Sift(cmds, Wired) = Sift(Connected, Wired)
        BY <4>3, <4>5, <4>6, <4>8
      <4> QED
        BY <3>1, <3>3, <4>9
    <3> QED
      BY <3>2, <3>3 DEF ReadStatus
  <2> QED
    BY <1>1, <2>1, <2>2, <2>3, StreamReadEnd
<1>5. CASE Follows(cur, Line.code) # "nothing"
  <2>1. pc' = Follows(cur, Line.code)
    BY <1>5 DEF ReadStatus
  <2>2. (pc' = "text" /\ cur.op \in {"info", "dbs", "match"}) \/ (pc' = "definition" /\ cur.op = "define")
    BY <1>5, <2>1 DEF Follows
  <2>3. cmds' = cmds
    BY <2>2 DEF ReadStatus
  <2>4. /\ cur.op = "match" => matches' = Line.count
        /\ cur.op = "define" => count' = Line.count /\ defs' = 0
    BY DEF ReadStatus
  <2>5. Line.count \in Nat
    BY <1>2 DEF Lines
  <2>6. After(Line, Where) = State(1, pc', IF cur.op \in {"match", "define"} THEN Line.count ELSE 0)
    <3>1. After(Line, Where) = State(Where.at, Follows(Line, Line.code), IF Line.op \in {"match", "define"} THEN Line.count ELSE 0)
      BY <1>2, <1>3, <1>5 DEF After
    <3> QED
      BY <1>2, <1>3, <2>1, <3>1
  <2>7. Reading'
    BY <2>2 DEF Reading
  <2>8. Where' = State(1, pc', IF cur.op \in {"match", "define"} THEN Line.count ELSE 0)
    <3>1. Where' = State(1, pc', IF pc' = "text" /\ cur'.op = "match" THEN matches'
                                 ELSE IF pc' \in {"definition", "deftext"} THEN count' - defs' ELSE 0)
      BY <2>7 DEF Where
    <3>2. CASE cur.op = "match"
      BY <1>1, <2>2, <2>4, <3>1, <3>2
    <3>3. CASE cur.op = "define"
      <4>1. Line.count - 0 = Line.count
        BY <2>5
      <4> QED
        BY <1>1, <2>2, <2>4, <3>1, <3>3, <4>1
    <3>4. CASE cur.op \in {"info", "dbs"}
      BY <1>1, <2>2, <3>1, <3>4
    <3> QED
      BY <2>2, <3>2, <3>3, <3>4
  <2> QED
    BY <1>1, <2>3, <2>6, <2>7, <2>8, StreamReadOn
<1> QED
  BY <1>4, <1>5

LEMMA StreamRead ==
    ASSUME ClientInv, ReadText \/ ReadFinal \/ ReadDefinition \/ ReadDefText, pc' # "ended"
    PROVE  StreamInv'
<1>1. /\ pc # "ended" /\ Reading /\ Take /\ TextInv /\ TypeOK
      /\ UNCHANGED <<cmds, cur, batch, host, key, open, toServer, got, answer, matches, count>>
  BY DEF ClientInv, ReadText, ReadFinal, ReadDefinition, ReadDefText, Reading, listVars, hostVars
<1>2. /\ Where.at = 1 /\ Where.pc = pc
      /\ Where.left = IF pc = "text" /\ cur.op = "match" THEN matches
                      ELSE IF pc \in {"definition", "deftext"} THEN count - defs ELSE 0
  BY <1>1, WhereType
<1>3. count \in Nat /\ defs \in Nat
  BY <1>1, Numbers
<1>4. CASE ReadText
  <2>1. pc = "text" /\ pc' = "final"
    BY <1>4 DEF ReadText
  <2>2. After(Line, Where) = State(1, "final", 0)
    BY <1>2, <2>1 DEF After
  <2>3. Reading' /\ Where' = State(1, "final", 0)
    BY <2>1 DEF Reading, Where
  <2> QED
    BY <1>1, <2>2, <2>3, StreamReadOn
<1>5. CASE ReadFinal
  <2>1. pc = "final" /\ pc' = "request"
    BY <1>5 DEF ReadFinal, Check, End
  <2>2. After(Line, Where) = State(2, "status", 0)
    <3>1. After(Line, Where) = State(Where.at + 1, "status", 0)
      BY <1>2, <2>1 DEF After
    <3> QED
      BY <1>2, <3>1
  <2>3. Wired' = Wired
    BY <1>1 DEF Wired, Sends
  <2> QED
    BY <1>1, <2>1, <2>2, <2>3, StreamReadEnd
<1>6. CASE ReadDefinition
  <2>1. pc = "definition" /\ pc' = "deftext" /\ defs' = defs
    BY <1>6 DEF ReadDefinition, End
  <2>2. After(Line, Where) = State(1, "deftext", count - defs)
    BY <1>2, <2>1 DEF After
  <2>3. Reading' /\ Where' = State(1, "deftext", count - defs)
    BY <1>1, <2>1 DEF Reading, Where
  <2> QED
    BY <1>1, <2>2, <2>3, StreamReadOn
<1>7. CASE ReadDefText
  <2>1. /\ pc = "deftext" /\ defs' = defs + 1
        /\ pc' = IF defs + 1 = count THEN "final" ELSE "definition"
    BY <1>7 DEF ReadDefText
  <2>2. Where.left = count - defs
    BY <1>2, <2>1
  <2>3. CASE defs + 1 = count
    <3>1. pc' = "final" /\ Where.left = 1
      BY <1>3, <2>1, <2>2, <2>3
    <3>2. After(Line, Where) = State(1, "final", 0)
      BY <1>2, <2>1, <3>1 DEF After
    <3>3. Reading' /\ Where' = State(1, "final", 0)
      BY <3>1 DEF Reading, Where
    <3> QED
      BY <1>1, <3>2, <3>3, StreamReadOn
  <2>4. CASE defs + 1 # count
    <3>1. pc' = "definition" /\ Where.left # 1
      BY <1>3, <2>1, <2>2, <2>4
    <3>2. After(Line, Where) = State(1, "definition", Where.left - 1)
      BY <1>2, <2>1, <3>1 DEF After
    <3>3. Reading' /\ Where' = State(1, "definition", count' - defs')
      BY <3>1 DEF Reading, Where
    <3>4. Where.left - 1 = count' - defs'
      BY <1>1, <1>3, <2>1, <2>2
    <3> QED
      BY <1>1, <3>2, <3>3, <3>4, StreamReadOn
  <2> QED
    BY <2>3, <2>4
<1> QED
  BY <1>4, <1>5, <1>6, <1>7

(* The server answers the next of the commands to come, and what it has    *)
(* not delivered when it closes is lost.                                   *)
LEMMA StreamAnswer ==
    ASSUME ClientInv, open, pc # "ended", answer = <<>>, Pending # <<>>, answer' \in Answers(Head(Pending)),
           Head(Pending) \in Shaped, Pending' = Tail(Pending), toClient' = toClient, open' = open,
           UNCHANGED <<listVars, pc, hostVars, replyVars>>
    PROVE  StreamInv'
<1>1. StreamInv /\ toClient \in Seq(Lines)
  BY DEF ClientInv, TypeOK
<1>2. Expected \in Seq(Command) /\ Pending \in Seq(Command) /\ Arriving \in Seq(Lines)
  BY ExpectedType
<1>3. Answered(Head(Pending), answer')
  BY AnswersFit
<1>4. Stream(Expected, Arriving, Where, Pending, TRUE)
  BY <1>1 DEF StreamInv, Stream
<1>5. Stream(Expected, Arriving \o answer', Where, Tail(Pending), TRUE)
  BY <1>2, <1>3, <1>4, StreamJoin
<1>6. Arriving' = Arriving \o answer'
  BY <1>1, ConcatEmptySeq DEF Arriving
<1>7. Expected' = Expected /\ Where' = Where
  <2>1. Wired' = Wired /\ First' = First
    BY DEF Wired, Sends, First, Reading, Greeting, Top, listVars, hostVars
  <2>2. Where' = Where
    BY DEF Where, Reading, listVars, replyVars
  <2> QED
    BY <2>1, <2>2 DEF Expected, listVars
<1>8. Stream(Expected', Arriving', Where', Pending', open' \/ pc' = "connect")
  BY <1>5, <1>6, <1>7 DEF Stream
<1> QED
  BY <1>8 DEF StreamInv

LEMMA StreamGreet == ASSUME ClientInv, Greet, pc # "ended" PROVE StreamInv'
<1>1. /\ open /\ got = <<>> /\ answer = <<>> /\ answer' \in Answers(Make("connect", host))
      /\ got' = <<Make("connect", host)>>
      /\ UNCHANGED <<listVars, pc, batch, hostVars, replyVars, open, toServer, toClient>>
  BY DEF Greet
<1>2. toServer \in Seq(Command) /\ batch \in Seq(Command)
  BY DEF ClientInv, TypeOK
<1> DEFINE m == Make("connect", host)
           r == toServer \o batch
<1>3. m \in Shaped /\ m \in Command
  BY <1>1, GreetingShape
<1>4. got' # <<>>
  BY <1>1
<1>5. Pending = (<<m>> \o toServer) \o batch
  BY <1>1 DEF Pending
<1>6. Pending' = r
  <2>1. <<>> \o toServer = toServer
    BY <1>2, ConcatEmptySeq
  <2> QED
    BY <1>1, <1>4, <2>1 DEF Pending
<1> HIDE DEF m
<1>7. r \in Seq(Command)
  BY <1>2, ConcatProperties
<1>8. <<m>> \in Seq(Command)
  BY <1>3
<1>9. Pending = <<m>> \o r
  BY <1>2, <1>5, <1>8, ConcatAssociative
<1> HIDE DEF r
<1>10. Pending # <<>> /\ Head(Pending) = m /\ Tail(Pending) = r
  BY <1>3, <1>7, <1>9
<1> QED
  BY <1>1, <1>3, <1>6, <1>10, StreamAnswer DEF m

LEMMA StreamServe == ASSUME ClientInv, Serve, pc # "ended" PROVE StreamInv'
<1>1. /\ open /\ got # <<>> /\ answer = <<>> /\ toServer # <<>> /\ answer' \in Answers(Head(toServer))
      /\ got' = Append(got, Head(toServer)) /\ toServer' = Tail(toServer)
      /\ UNCHANGED <<listVars, pc, batch, hostVars, replyVars, open, toClient>>
  BY DEF Serve
<1>2. toServer \in Seq(Command) /\ batch \in Seq(Command) /\ toServer \in Seq(Shaped) /\ got \in Seq(Command)
  BY DEF ClientInv, TypeOK, ShapeInv
<1>3. Head(toServer) \in Shaped /\ Head(toServer) \in Command /\ Tail(toServer) \in Seq(Command)
  BY <1>1, <1>2, HeadsAndTails
<1>4. got' # <<>>
  BY <1>1, <1>2, <1>3
<1>5. Pending = toServer \o batch
  BY <1>1, <1>2, PendingIs
<1>6. Pending' = Tail(toServer) \o batch
  <2>1. <<>> \o Tail(toServer) = Tail(toServer)
    BY <1>3, ConcatEmptySeq
  <2> QED
    BY <1>1, <1>4, <2>1 DEF Pending
<1>7. toServer \o batch # <<>> /\ Head(toServer \o batch) = Head(toServer) /\ Tail(toServer \o batch) = Tail(toServer) \o batch
  BY <1>1, <1>2
<1> QED
  BY <1>1, <1>3, <1>5, <1>6, <1>7, StreamAnswer

LEMMA StreamServer == ASSUME ClientInv, Deliver \/ Close, pc # "ended" PROVE StreamInv'
<1>1. /\ StreamInv /\ HostInv /\ open /\ toClient \in Seq(Lines) /\ answer \in Seq(Lines)
      /\ UNCHANGED <<listVars, pc, batch, hostVars, replyVars, got>>
  BY DEF ClientInv, TypeOK, Deliver, Close
<1>2. Expected' = Expected /\ Where' = Where
  <2>1. Wired' = Wired /\ First' = First
    BY <1>1 DEF Wired, Sends, First, Reading, Greeting, Top, listVars, hostVars
  <2>2. Where' = Where
    BY <1>1 DEF Where, Reading, listVars, replyVars
  <2> QED
    BY <1>1, <2>1, <2>2 DEF Expected, listVars
<1>3. CASE Deliver
  <2>1. /\ answer # <<>> /\ toClient' = Append(toClient, Head(answer)) /\ answer' = Tail(answer)
        /\ open' = open /\ toServer' = toServer
    BY <1>3 DEF Deliver
  <2>2. Append(toClient, Head(answer)) \o Tail(answer) = toClient \o answer
    BY <1>1, <2>1
  <2>3. Arriving' = Arriving /\ Pending' = Pending
    BY <1>1, <2>1, <2>2 DEF Arriving, Pending, hostVars
  <2> QED
    BY <1>1, <1>2, <2>1, <2>3, StreamSame
<1>4. CASE Close
  <2>1. open' = FALSE /\ answer' = <<>> /\ toClient' = toClient
    BY <1>4 DEF Close
  <2>2. pc' # "connect"
    BY <1>1 DEF HostInv
  <2>3. Arriving' = toClient
    BY <1>1, <2>1, ConcatEmptySeq DEF Arriving
  <2>4. Stream(Expected, toClient, Where, Pending', FALSE)
    <3>1. Expected \in Seq(Command)
      BY ExpectedType
    <3>2. Stream(Expected, toClient \o answer, Where, Pending, open \/ pc = "connect")
      BY <1>1 DEF StreamInv, Arriving
    <3> QED
      BY <1>1, <3>1, <3>2, StreamCut
  <2>5. Stream(Expected', Arriving', Where', Pending', open' \/ pc' = "connect")
    BY <1>2, <2>1, <2>2, <2>3, <2>4 DEF Stream
  <2> QED
    BY <2>5 DEF StreamInv
<1> QED
  BY <1>3, <1>4

LEMMA StreamKept == ASSUME ClientInv, Next, pc' # "ended", Typed', HostInv' PROVE StreamInv'
<1>1. pc # "ended"
  BY StillRunning
<1>2. CASE ServerNext \/ Close
  BY <1>1, <1>2, StreamGreet, StreamServe, StreamServer DEF ServerNext
<1>3. CASE WriteFails \/ Finish \/ ReadEnd
  BY <1>3 DEF WriteFails, Finish, ReadEnd, End
<1>4. CASE ClientNext
  BY <1>3, <1>4, StreamRequest, StreamRequestSent, StreamConnect, StreamConnectFails, StreamWrite, StreamAwait,
     StreamPass, StreamGrow, StreamStatus, StreamRead DEF ClientNext
<1>5. CASE Ended
  BY <1>1, <1>5 DEF Ended
<1> QED
  BY <1>2, <1>4, <1>5 DEF Next

-----------------------------------------------------------------------------
(* The invariant holds at the beginning and is kept.                       *)
LEMMA ClientInvInit == Init => ClientInv
<1> SUFFICES ASSUME Init PROVE ClientInv
  OBVIOUS
<1>1. TypeOK /\ ShapeInv
  BY TypedInit DEF Typed
<1>2. /\ cmds \in Seq(Fresh) /\ Ordered(cmds) /\ cmds # <<>> /\ Head(cmds).op = "connect"
      /\ \E k \in 1 .. Len(cmds) : cmds[k].op # "connect"
  BY ListAtFirst DEF Init
<1>3. \A k \in 1 .. Len(cmds) : ~cmds[k].sent
  BY <1>2, ElementOfSeq DEF Fresh
<1>4. /\ pc = "request" /\ host = NoHost /\ ~msgid /\ ~open /\ got = <<>> /\ toServer = <<>> /\ answer = <<>>
      /\ toClient = <<>> /\ batch = <<>> /\ matches = 0 /\ ~match /\ data = NoText /\ defs = 0 /\ count = 0
  BY DEF Init
<1>5. ~Reading /\ ~Greeting /\ Connecting
  BY <1>4 DEF Reading, Greeting, Connecting
<1>6. ListInv
  BY <1>2, <1>3 DEF ListInv
<1>7. HostInv
  BY <1>2, <1>3, <1>4, <1>5 DEF HostInv, Top
<1>8. TextInv
  BY <1>4, <1>5 DEF TextInv
<1>9. StreamInv
  <2>1. cmds \in Seq(Command) /\ toServer \in Seq(Command) /\ batch \in Seq(Command)
    BY <1>1 DEF TypeOK
  <2>2. Sift(cmds, Wired) = <<>>
    BY <1>3, <2>1, SiftNone DEF Wired
  <2>3. Expected = <<>> /\ Where = Beginning
    <3>1. <<>> \o <<>> = <<>>
      BY ConcatEmptySeq, NoCommands
    <3> QED
      BY <1>4, <1>5, <2>2, <3>1 DEF Expected, First, Where, Beginning
  <2>4. Arriving = <<>>
    BY <1>4 DEF Arriving
  <2>5. Pending \in Seq(Command) /\ ~(open \/ pc = "connect")
    BY <1>4, <2>1, PendingIs
  <2>6. Stream(<<>>, <<>>, Beginning, Pending, open \/ pc = "connect")
    BY <2>5, NoCommands, StreamStart
  <2> QED
    BY <2>3, <2>4, <2>6 DEF StreamInv
<1> QED
  BY <1>1, <1>6, <1>7, <1>8, <1>9 DEF ClientInv

LEMMA ClientInvUnchanged == ASSUME ClientInv, UNCHANGED vars PROVE ClientInv'
<1>1. TypeOK' /\ ShapeInv'
  BY TypesKept DEF Typed
<1>2. CASE pc = "ended"
  BY <1>1, <1>2 DEF ClientInv, vars
<1>3. CASE pc # "ended"
  <2>1. ListInv /\ HostInv /\ TextInv /\ StreamInv
    BY <1>3 DEF ClientInv
  <2>2. /\ UNCHANGED <<job, cmds, cur, pc, batch, host, key, msgid, open, toServer, got, answer, toClient>>
        /\ UNCHANGED <<listVars, pc, replyVars>>
        /\ UNCHANGED <<matches, count, defs>>
    BY DEF vars, listVars, hostVars, netVars, replyVars
  <2>3. ListInv'
    BY <2>1, <2>2 DEF ListInv, Ordered, Unstopped
  <2>4. HostInv'
    BY <2>1, <2>2 DEF HostInv, Connecting, Greeting, Top, KeyNow, Unstopped
  <2>5. TextInv'
    BY <2>1, <2>2, TextServer
  <2>6. StreamInv'
    <3>1. Wired' = Wired /\ First' = First /\ Where' = Where
      BY <2>2 DEF Wired, Sends, First, Reading, Greeting, Top, Where
    <3>2. Expected' = Expected /\ Arriving' = Arriving /\ Pending' = Pending
      BY <2>2, <3>1 DEF Expected, Arriving, Pending
    <3> QED
      BY <2>1, <2>2, <3>1, <3>2, StreamSame
  <2> QED
    BY <1>1, <2>3, <2>4, <2>5, <2>6 DEF ClientInv
<1> QED
  BY <1>2, <1>3

LEMMA ClientInvStep == ClientInv /\ [Next]_vars => ClientInv'
<1> SUFFICES ASSUME ClientInv, [Next]_vars PROVE ClientInv'
  OBVIOUS
<1>1. CASE UNCHANGED vars
  BY <1>1, ClientInvUnchanged
<1>2. CASE Next
  <2>1. Typed'
    BY TypesKept
  <2>2. CASE pc' = "ended"
    BY <2>1, <2>2 DEF ClientInv, Typed
  <2>3. CASE pc' # "ended"
    <3>1. ListInv' /\ HostInv' /\ TextInv'
      BY <1>2, <2>3, ListKept, HostKept, TextKept
    <3>2. StreamInv'
      BY <1>2, <2>1, <2>3, <3>1, StreamKept
    <3> QED
      BY <2>1, <3>1, <3>2 DEF ClientInv, Typed
  <2> QED
    BY <2>2, <2>3
<1> QED
  BY <1>1, <1>2

LEMMA ClientInvAlways == Spec => []ClientInv
<1> QED
  BY ClientInvInit, ClientInvStep, PTL DEF Spec

-----------------------------------------------------------------------------
(* The client, the connection and the server never leave their types: the  *)
(* list keeps the words of its commands whatever corrections and matches   *)
(* are put in front of it.                                                 *)
THEOREM ClientTypeCorrect == Spec => []TypeOK
<1>1. ClientInv => TypeOK
  BY DEF ClientInv
<1> QED
  BY <1>1, ClientInvAlways, PTL

(* Every line of a reply is read for the command that it answers, for      *)
(* every size of the pipe and of the connection: request() sends nothing   *)
(* beyond a command that may add others to the list, so no reply is on its *)
(* way when process() adds commands in front (dict.c:667-738, 1096-1165).  *)
THEOREM RepliesStayMatched == Spec => []RepliesMatch
<1>1. ASSUME ClientInv PROVE RepliesMatch
  <2> SUFFICES ASSUME Reading, toClient # <<>> PROVE Line.op = cur.op /\ Line.word = cur.word
    BY DEF RepliesMatch
  <2>1. pc # "ended"
    BY DEF Reading
  <2>2. Alike(Line, cur)
    BY <1>1, <2>1, LineFits
  <2> QED
    BY <2>2 DEF Alike
<1> QED
  BY <1>1, ClientInvAlways, PTL

(* A text that is printed or wound is there and has not been freed, and a  *)
(* DEFPRINT finds the definitions that were counted: what CMD_PRINT,       *)
(* CMD_DEFPRINT and CMD_WIND free is never looked at by a later command    *)
(* (dict.c:815-885, 1103-1165).                                            *)
THEOREM TextsStay == Spec => []NoFreedText
<1>1. ASSUME ClientInv PROVE NoFreedText
  <2>1. TypeOK
    BY <1>1 DEF ClientInv
  <2>2. ASSUME pc = "process"
        PROVE  /\ ReadsText => data = NoText \/ live
               /\ Top.op \in {"defprint", "wind"} /\ ReadsText => data # NoText
               /\ Top.op = "defprint" => defs = count
    <3>1. HostInv /\ TextInv /\ cmds \in Seq(Shaped)
      BY <1>1, <2>2 DEF ClientInv, ShapeInv
    <3>2. cmds # <<>> /\ Top = cmds[1] /\ 1 \in 1 .. Len(cmds)
      <4>1. cmds # <<>>
        BY <2>2, <3>1 DEF HostInv
      <4> QED
        BY <3>1, <4>1, HeadsAndTails DEF Top
    <3>3. defs = count
      BY <2>2, <3>1 DEF TextInv
    <3>4. matches > 0 => live /\ data # NoText
      <4>1. SUFFICES ASSUME matches > 0 PROVE live /\ data # NoText
        OBVIOUS
      <4>2. live /\ data \in Seq(Words \cup {Blank}) /\ Len(data) >= matches /\ matches \in Nat
        BY <2>1, <2>2, <3>1, <4>1, Numbers DEF TextInv
      <4>3. Len(data) \in Nat /\ Len(data) > 0
        BY <4>1, <4>2, LenProperties
      <4>4. data[1] \in Words \cup {Blank}
        BY <4>2, <4>3, ElementOfSeq
      <4>5. "null" \notin Words \cup {Blank} /\ NoText[1] = "null"
        BY ClientAssumption DEF Blank, NoText
      <4> QED
        BY <4>2, <4>4, <4>5
    <3>5. Top.op = "print" => data = NoText \/ live
      BY <3>1, <3>2 DEF TextInv
    <3> QED
      BY <3>3, <3>4, <3>5 DEF ReadsText
  <2> QED
    BY <2>1, <2>2 DEF NoFreedText
<1> QED
  BY <1>1, ClientInvAlways, PTL

(* When the commands a connection can hold are no fewer than those of a    *)
(* pipe, the client never waits for a server that waits for it to read:    *)
(* everything written before has been read when a buffer is written        *)
(* (dict.c:667-732, 784-799).                                              *)
THEOREM ClientNeverBlocked ==
    ASSUME Pipe <= Room
    PROVE  Spec => []NeverBlocked
<1>1. ASSUME ClientInv PROVE NeverBlocked
  <2> SUFFICES ASSUME pc = "write" PROVE Len(toServer) + Len(batch) <= Room
    BY DEF NeverBlocked
  <2>1. toServer = <<>> /\ (Len(batch) <= 1 \/ Len(batch) <= Pipe) /\ batch \in Seq(Command)
    BY <1>1 DEF ClientInv, HostInv, TypeOK
  <2>2. Len(toServer) = 0 /\ Len(batch) \in Nat
    BY <2>1
  <2>3. Pipe \in Nat /\ Room \in Nat \ {0}
    BY ClientAssumption
  <2> QED
    BY <2>1, <2>2, <2>3
<1> QED
  BY <1>1, ClientInvAlways, PTL

-----------------------------------------------------------------------------
(* The commands of s that are in T, as make_command makes them.            *)
Pieces(s, T) == [n \in 1 .. Len(s) |-> IF s[n] \in T THEN <<Make(s[n].op, s[n].word)>> ELSE <<>>]
Listed(s, T) == FlattenSeq(Pieces(s, T))

LEMMA MakeCommand ==
    ASSUME NEW c \in Command
    PROVE  /\ Make(c.op, c.word) \in Command
           /\ Make(c.op, c.word).op = c.op /\ Make(c.op, c.word).word = c.word
           /\ ~Make(c.op, c.word).sent
           /\ ~c.sent => Make(c.op, c.word) = c
  BY DEF Make, Command

LEMMA PiecesType ==
    ASSUME NEW s \in Seq(Command), NEW T
    PROVE  /\ Pieces(s, T) \in Seq(Seq(Command)) /\ Len(Pieces(s, T)) = Len(s)
           /\ \A n \in 1 .. Len(s) : Pieces(s, T)[n] = IF s[n] \in T THEN <<Make(s[n].op, s[n].word)>> ELSE <<>>
<1> DEFINE p(n) == IF s[n] \in T THEN <<Make(s[n].op, s[n].word)>> ELSE <<>>
<1>1. Len(s) \in Nat /\ \A n \in 1 .. Len(s) : s[n] \in Command
  BY LenProperties, ElementOfSeq
<1>2. ASSUME NEW n \in 1 .. Len(s) PROVE p(n) \in Seq(Command)
  <2>1. Make(s[n].op, s[n].word) \in Command
    BY <1>1, MakeCommand
  <2> QED
    BY <2>1
<1>3. Pieces(s, T) = [n \in 1 .. Len(s) |-> p(n)]
  BY DEF Pieces
<1>4. \A n \in 1 .. Len(s) : p(n) = IF s[n] \in T THEN <<Make(s[n].op, s[n].word)>> ELSE <<>>
  OBVIOUS
<1> HIDE DEF p
<1> QED
  BY <1>1, <1>2, <1>3, <1>4

LEMMA ListedType ==
    ASSUME NEW s \in Seq(Command), NEW T
    PROVE  Listed(s, T) \in Seq(Command)
  BY PiecesType, FlattenType DEF Listed

LEMMA ListedNone ==
    ASSUME NEW T
    PROVE  Listed(<<>>, T) = <<>>
<1>1. Pieces(<<>>, T) = <<>>
  BY DEF Pieces
<1> QED
  BY <1>1, FlattenNone DEF Listed

LEMMA ListedJoin ==
    ASSUME NEW s \in Seq(Command), NEW t \in Seq(Command), NEW T
    PROVE  Listed(s \o t, T) = Listed(s, T) \o Listed(t, T)
<1> DEFINE u == s \o t
<1>1. /\ u \in Seq(Command) /\ Len(u) = Len(s) + Len(t) /\ Len(s) \in Nat /\ Len(t) \in Nat
      /\ \A k \in 1 .. Len(s) + Len(t) : u[k] = IF k <= Len(s) THEN s[k] ELSE t[k - Len(s)]
  BY ConcatProperties, LenProperties
<1> HIDE DEF u
<1>2. /\ Pieces(u, T) \in Seq(Seq(Command)) /\ Pieces(s, T) \in Seq(Seq(Command)) /\ Pieces(t, T) \in Seq(Seq(Command))
      /\ Len(Pieces(u, T)) = Len(u) /\ Len(Pieces(s, T)) = Len(s) /\ Len(Pieces(t, T)) = Len(t)
  BY <1>1, PiecesType
<1>3. ASSUME NEW k \in 1 .. Len(s) PROVE Pieces(u, T)[k] = Pieces(s, T)[k]
  <2>1. k \in 1 .. Len(u) /\ u[k] = s[k]
    BY <1>1
  <2> QED
    BY <2>1 DEF Pieces
<1>4. ASSUME NEW k \in 1 .. Len(t) PROVE Pieces(u, T)[Len(s) + k] = Pieces(t, T)[k]
  <2> DEFINE i == Len(s) + k
  <2>1. i \in 1 .. Len(s) + Len(t) /\ ~(i <= Len(s)) /\ i - Len(s) = k
    BY <1>1
  <2> HIDE DEF i
  <2>2. i \in 1 .. Len(u) /\ u[i] = t[k]
    BY <1>1, <2>1
  <2>3. Pieces(u, T)[i] = Pieces(t, T)[k]
    BY <2>2 DEF Pieces
  <2> QED
    BY <2>3 DEF i
<1>5. Len(Pieces(u, T)) = Len(Pieces(s, T)) + Len(Pieces(t, T))
  BY <1>1, <1>2
<1> DEFINE ps == Pieces(s, T)
           pt == Pieces(t, T)
           pu == Pieces(u, T)
<1>6. /\ \A k \in 1 .. Len(ps) : pu[k] = ps[k]
      /\ \A k \in 1 .. Len(pt) : pu[Len(ps) + k] = pt[k]
  BY <1>2, <1>3, <1>4
<1> HIDE DEF ps, pt, pu
<1>7. FlattenSeq(pu) = FlattenSeq(ps) \o FlattenSeq(pt)
  BY <1>2, <1>5, <1>6, FlattenJoin DEF ps, pt, pu
<1> QED
  BY <1>7 DEF Listed, u, ps, pt, pu

LEMMA ListedOne ==
    ASSUME NEW c \in Command, NEW T
    PROVE  /\ c \in T => Listed(<<c>>, T) = <<Make(c.op, c.word)>>
           /\ c \notin T => Listed(<<c>>, T) = <<>>
<1> DEFINE x == IF c \in T THEN <<Make(c.op, c.word)>> ELSE <<>>
<1>1. x \in Seq(Command)
  BY MakeCommand
<1>2. Pieces(<<c>>, T) = <<x>>
  BY DEF Pieces
<1>3. (c \in T => x = <<Make(c.op, c.word)>>) /\ (c \notin T => x = <<>>)
  OBVIOUS
<1> HIDE DEF x
<1> QED
  BY <1>1, <1>2, <1>3, FlattenOne DEF Listed

LEMMA ListedAppend ==
    ASSUME NEW s \in Seq(Command), NEW c \in Command, NEW T
    PROVE  Listed(Append(s, c), T) = Listed(s, T) \o Listed(<<c>>, T)
<1> DEFINE t == <<c>>
<1>1. Append(s, c) = s \o t /\ t \in Seq(Command)
  BY AppendIsConcat
<1> HIDE DEF t
<1>2. Listed(s \o t, T) = Listed(s, T) \o Listed(t, T)
  BY <1>1, ListedJoin
<1> QED
  BY <1>1, <1>2 DEF t

LEMMA ListedHead ==
    ASSUME NEW s \in Seq(Command), s # <<>>, NEW T
    PROVE  Listed(s, T) = Listed(<<Head(s)>>, T) \o Listed(Tail(s), T)
<1> DEFINE h == <<Head(s)>>
           t == Tail(s)
<1>1. h \in Seq(Command) /\ t \in Seq(Command) /\ s = h \o t
  OBVIOUS
<1> HIDE DEF h, t
<1>2. Listed(h \o t, T) = Listed(h, T) \o Listed(t, T)
  BY <1>1, ListedJoin
<1> QED
  BY <1>1, <1>2 DEF h, t

LEMMA ListedNever ==
    ASSUME NEW s \in Seq(Command), NEW T, \A n \in 1 .. Len(s) : s[n] \notin T
    PROVE  Listed(s, T) = <<>>
<1>1. Pieces(s, T) = [n \in 1 .. Len(s) |-> <<>>] /\ Len(s) \in Nat
  BY DEF Pieces
<1> QED
  BY <1>1, FlattenEmpties DEF Listed

(* Two sequences whose elements are alike.                                 *)
LEMMA ListedSame ==
    ASSUME NEW s \in Seq(Command), NEW t \in Seq(Command), NEW T, NEW U, Len(s) = Len(t),
           \A n \in 1 .. Len(s) : (s[n] \in T <=> t[n] \in U) /\ Alike(s[n], t[n])
    PROVE  Listed(s, T) = Listed(t, U)
<1>1. ASSUME NEW n \in 1 .. Len(s)
      PROVE  (IF s[n] \in T THEN <<Make(s[n].op, s[n].word)>> ELSE <<>>)
             = (IF t[n] \in U THEN <<Make(t[n].op, t[n].word)>> ELSE <<>>)
  BY DEF Alike
<1>2. Pieces(s, T) = Pieces(t, U)
  BY <1>1 DEF Pieces
<1> QED
  BY <1>2 DEF Listed

LEMMA ListedTwice ==
    ASSUME NEW T, NEW U, NEW V,
           \A c \in Command : c \in V <=> c \in T /\ Make(c.op, c.word) \in U
    PROVE  \A s \in Seq(Command) : Listed(Listed(s, T), U) = Listed(s, V)
<1> DEFINE P == {s \in Seq(Command) : Listed(Listed(s, T), U) = Listed(s, V)}
<1>1. <<>> \in P
  BY ListedNone
<1>2. ASSUME NEW s \in Seq(Command), NEW c \in Command, s \in P PROVE Append(s, c) \in P
  <2> DEFINE m == Make(c.op, c.word)
  <2>1. m \in Command /\ Make(m.op, m.word) = m
    BY MakeCommand
  <2>2. Listed(Listed(<<c>>, T), U) = Listed(<<c>>, V)
    <3>1. CASE c \in V
      <4>1. Listed(<<c>>, V) = <<m>> /\ Listed(<<c>>, T) = <<m>> /\ Listed(<<m>>, U) = <<m>>
        <5> HIDE DEF m
        <5>1. c \in T /\ m \in U
          BY <3>1 DEF m
        <5> QED
          BY <2>1, <3>1, <5>1, ListedOne DEF m
      <4> QED
        BY <4>1
    <3>2. CASE c \notin V /\ c \in T
      <4>1. Listed(<<c>>, V) = <<>> /\ Listed(<<c>>, T) = <<m>> /\ Listed(<<m>>, U) = <<>>
        <5>1. m \notin U
          BY <3>2
        <5> QED
          BY <2>1, <3>2, <5>1, ListedOne
      <4> QED
        BY <4>1
    <3>3. CASE c \notin T
      <4>1. Listed(<<c>>, V) = <<>> /\ Listed(<<c>>, T) = <<>> /\ Listed(<<>>, U) = <<>>
        <5>1. c \notin V
          BY <3>3
        <5> QED
          BY <3>3, <5>1, ListedOne, ListedNone
      <4> QED
        BY <4>1
    <3> QED
      BY <3>1, <3>2, <3>3
  <2>3. /\ Listed(s, T) \in Seq(Command) /\ Listed(<<c>>, T) \in Seq(Command)
        /\ Append(s, c) \in Seq(Command)
    <3>1. <<c>> \in Seq(Command)
      OBVIOUS
    <3>2. Listed(<<c>>, T) \in Seq(Command)
      BY <3>1, ListedType, Zenon
    <3> QED
      BY <3>2, ListedType
  <2>4. Listed(Append(s, c), T) = Listed(s, T) \o Listed(<<c>>, T)
    BY ListedAppend
  <2>5. Listed(Append(s, c), V) = Listed(s, V) \o Listed(<<c>>, V)
    BY ListedAppend
  <2>6. Listed(Listed(s, T) \o Listed(<<c>>, T), U) = Listed(Listed(s, T), U) \o Listed(Listed(<<c>>, T), U)
    <3> DEFINE x == Listed(s, T)
               y == Listed(<<c>>, T)
    <3>1. x \in Seq(Command) /\ y \in Seq(Command)
      BY <2>3
    <3> HIDE DEF x, y
    <3>2. Listed(x \o y, U) = Listed(x, U) \o Listed(y, U)
      BY <3>1, ListedJoin
    <3> QED
      BY <3>2 DEF x, y
  <2>7. Listed(Listed(s, T), U) = Listed(s, V)
    BY <1>2
  <2> QED
    BY <2>2, <2>3, <2>4, <2>5, <2>6, <2>7
<1> HIDE DEF P
<1>3. \A s \in Seq(Command) : s \in P
  BY <1>1, <1>2, EverySequence
<1> QED
  BY <1>3 DEF P

(* Of a part of a sequence of commands of the set D.                       *)
LEMMA ListedSifted ==
    ASSUME NEW D, D \subseteq Command, NEW T, NEW U, NEW V,
           \A c \in D : c \in V <=> c \in T /\ c \in U
    PROVE  \A s \in Seq(D) : Listed(Sift(s, T), U) = Listed(s, V)
<1> DEFINE P == {s \in Seq(D) : Listed(Sift(s, T), U) = Listed(s, V)}
<1>1. <<>> \in P
  <2>1. <<>> \in Seq(D) /\ Len(<<>>) = 0
    OBVIOUS
  <2>2. \A k \in 1 .. Len(<<>>) : <<>>[k] \notin T
    BY <2>1
  <2>3. Sift(<<>>, T) = <<>>
    BY <2>1, <2>2, SiftNone, Zenon
  <2> QED
    BY <2>1, <2>3, ListedNone
<1>2. ASSUME NEW s \in Seq(D), NEW c \in D, s \in P PROVE Append(s, c) \in P
  <2>1. /\ Append(s, c) = s \o <<c>> /\ Append(s, c) \in Seq(D) /\ <<c>> \in Seq(D) /\ c \in Command
        /\ <<c>> \in Seq(Command)
    BY AppendIsConcat
  <2>2. s \in Seq(Command)
    BY SeqMonotonic
  <2>3. Sift(s \o <<c>>, T) = Sift(s, T) \o Sift(<<c>>, T)
    <3> DEFINE t == <<c>>
    <3>1. t \in Seq(D)
      BY <2>1
    <3> HIDE DEF t
    <3>2. Sift(s \o t, T) = Sift(s, T) \o Sift(t, T)
      BY <3>1, SiftConcat
    <3> QED
      BY <3>2 DEF t
  <2>4. Sift(s, T) \in Seq(Command) /\ Sift(<<c>>, T) \in Seq(Command)
    BY <2>1, <2>2, SiftType
  <2>5. Listed(Sift(s, T) \o Sift(<<c>>, T), U) = Listed(Sift(s, T), U) \o Listed(Sift(<<c>>, T), U)
    BY <2>4, ListedJoin
  <2>6. Listed(Sift(<<c>>, T), U) = Listed(<<c>>, V)
    <3>1. CASE c \in T
      <4>1. Sift(<<c>>, T) = <<c>> /\ (c \in V <=> c \in U)
        BY <2>1, <3>1, SiftOne
      <4> QED
        BY <2>1, <4>1, ListedOne
    <3>2. CASE c \notin T
      <4>1. Sift(<<c>>, T) = <<>> /\ c \notin V
        BY <2>1, <3>2, SiftOne
      <4> QED
        BY <2>1, <4>1, ListedOne, ListedNone
    <3> QED
      BY <3>1, <3>2
  <2>7. Listed(s \o <<c>>, V) = Listed(s, V) \o Listed(<<c>>, V)
    BY <2>1, <2>2, ListedJoin
  <2>8. Listed(Sift(s, T), U) = Listed(s, V)
    BY <1>2
  <2> QED
    BY <2>1, <2>3, <2>5, <2>6, <2>7, <2>8
<1> HIDE DEF P
<1>3. \A s \in Seq(D) : s \in P
  BY <1>1, <1>2, EverySequence
<1> QED
  BY <1>3 DEF P

(* What CommandsDelivered speaks of, and what of it is still on the list.  *)
Of(ops) == {c \in Command : c.op \in ops}
TheList == Listed(CommandsOf(job), Of(OfList))
Sent == Listed(got \o toServer, Of(OfList))
Left == {c \in Command : ~c.sent /\ c.op \in OfList}
Rem == Listed(cmds, Left)

LEMMA BareListed ==
    ASSUME NEW s \in Seq(Command), NEW ops
    PROVE  Bare(s, ops) = Listed(s, Of(ops))
<1>1. \A n \in 1 .. Len(s) : s[n] \in Command
  BY ElementOfSeq
<1>2. \A n \in 1 .. Len(s) : s[n].op \in ops <=> s[n] \in Of(ops)
  BY <1>1 DEF Of
<1>3. [n \in 1 .. Len(s) |-> IF s[n].op \in ops THEN <<Make(s[n].op, s[n].word)>> ELSE <<>>] = Pieces(s, Of(ops))
  BY <1>2 DEF Pieces
<1> QED
  BY <1>3 DEF Bare, Listed

(* Of two lists of operations, one in the other.                           *)
LEMMA ListedOf ==
    ASSUME NEW some, NEW all, some \subseteq all, NEW s \in Seq(Command)
    PROVE  Listed(Listed(s, Of(all)), Of(some)) = Listed(s, Of(some))
<1>1. ASSUME NEW c \in Command
      PROVE  c \in Of(some) <=> c \in Of(all) /\ Make(c.op, c.word) \in Of(some)
  BY MakeCommand DEF Of
<1> QED
  BY <1>1, ListedTwice

(* What is not listed of a sequence is not in it, and what is in it is.    *)
LEMMA ListedHas ==
    ASSUME NEW T
    PROVE  \A s \in Seq(Command) :
             \A n \in 1 .. Len(s) : s[n] \in T =>
               \E m \in 1 .. Len(Listed(s, T)) : Listed(s, T)[m] = Make(s[n].op, s[n].word)
<1> DEFINE In(c, l) == \E m \in 1 .. Len(l) : l[m] = Make(c.op, c.word)
           All(s) == \A n \in 1 .. Len(s) : s[n] \in T => In(s[n], Listed(s, T))
           P == {s \in Seq(Command) : All(s)}
<1>1. <<>> \in P
  BY Len(<<>>) = 0
<1>2. ASSUME NEW s \in Seq(Command), NEW c \in Command, s \in P PROVE Append(s, c) \in P
  <2> DEFINE t == Append(s, c)
             k == Listed(s, T)
             l == Listed(<<c>>, T)
             j == Listed(t, T)
  <2>1. /\ t \in Seq(Command) /\ Len(t) = Len(s) + 1 /\ Len(s) \in Nat /\ t[Len(s) + 1] = c
        /\ \A n \in 1 .. Len(s) : t[n] = s[n]
    OBVIOUS
  <2>2. k \in Seq(Command) /\ l \in Seq(Command) /\ j = k \o l
    <3>1. <<c>> \in Seq(Command)
      OBVIOUS
    <3>2. l \in Seq(Command)
      BY <3>1, ListedType, Zenon
    <3> QED
      BY <3>2, ListedType, ListedAppend
  <2>3. c \in T => l = <<Make(c.op, c.word)>>
    BY ListedOne
  <2>4. All(s)
    BY <1>2
  <2> HIDE DEF t, k, l, j
  <2>5. /\ Len(j) = Len(k) + Len(l) /\ Len(k) \in Nat /\ Len(l) \in Nat
        /\ \A m \in 1 .. Len(k) : j[m] = k[m]
        /\ \A m \in 1 .. Len(l) : j[Len(k) + m] = l[m]
    BY <2>2, ConcatProperties
  <2>6. ASSUME NEW n \in 1 .. Len(t), t[n] \in T PROVE In(t[n], j)
    <3>1. CASE n \in 1 .. Len(s)
      <4>1. t[n] = s[n] /\ \E m \in 1 .. Len(k) : k[m] = Make(s[n].op, s[n].word)
        BY <2>1, <2>4, <2>6, <3>1 DEF k
      <4> QED
        BY <2>5, <4>1
    <3>2. CASE n = Len(s) + 1
      <4>1. t[n] = c /\ l = <<Make(c.op, c.word)>>
        BY <2>1, <2>3, <2>6, <3>2
      <4>2. Len(l) = 1 /\ l[1] = Make(c.op, c.word)
        BY <4>1
      <4> QED
        BY <2>5, <4>1, <4>2
    <3> QED
      BY <2>1, <3>1, <3>2
  <2> QED
    BY <2>1, <2>6 DEF t, j
<1> HIDE DEF P
<1>3. \A s \in Seq(Command) : s \in P
  BY <1>1, <1>2, EverySequence
<1> QED
  BY <1>3 DEF P

LEMMA ListedEmpty ==
    ASSUME NEW s \in Seq(Command), NEW T, Listed(s, T) = <<>>
    PROVE  \A n \in 1 .. Len(s) : s[n] \notin T
  BY ListedHas, Len(<<>>) = 0

(* Every element of what is listed is one of those looked for.             *)
LEMMA ListedOnly ==
    ASSUME NEW ops, NEW s \in Seq(Command), \A n \in 1 .. Len(s) : s[n].op \notin ops, NEW T
    PROVE  \A m \in 1 .. Len(Listed(s, T)) : Listed(s, T)[m].op \notin ops
<1> DEFINE D == {c \in Command : c.op \notin ops}
<1>1. s \in Seq(D)
  <2>1. Len(s) \in Nat /\ s = [n \in 1 .. Len(s) |-> s[n]] /\ \A n \in 1 .. Len(s) : s[n] \in D
    BY ElementOfSeq
  <2> QED
    BY <2>1
<1>2. Pieces(s, T) \in Seq(Seq(D))
  <2>1. ASSUME NEW n \in 1 .. Len(s) PROVE (IF s[n] \in T THEN <<Make(s[n].op, s[n].word)>> ELSE <<>>) \in Seq(D)
    <3>1. s[n] \in Command /\ s[n].op \notin ops
      BY ElementOfSeq
    <3>2. Make(s[n].op, s[n].word) \in D
      BY <3>1, MakeCommand
    <3> HIDE DEF D
    <3> QED
      BY <3>2
  <2>2. Len(s) \in Nat
    OBVIOUS
  <2> HIDE DEF D
  <2> QED
    BY <2>1, <2>2 DEF Pieces
<1>3. Listed(s, T) \in Seq(D)
  <2> HIDE DEF D
  <2> QED
    BY <1>2, FlattenType DEF Listed
<1> QED
  BY <1>3, ElementOfSeq

(* P has been taken off the list main() built, Q is still on it, and R of  *)
(* P is still in the buffer, or was lost.                                  *)
Splits(P, Q, R) ==
    /\ P \in Seq(Command) /\ Q \in Seq(Command) /\ R \in Seq(Command)
    /\ TheList = P \o Q
    /\ Sent \o R = Listed(P, Of(Due))

KeyInv(P) ==
    /\ Connecting /\ key => Listed(P, Of({"auth"})) = <<>>
    /\ host = NoHost => TheList = Listed(cmds, Of(OfList))
    /\ host = NoHost /\ pc # "connect" => P = <<>>
    /\ host # NoHost => key = (host \in HasKey)

Delivered(P, Q, R) ==
    /\ Splits(P, Q, R)
    /\ pc # "ended" =>
        /\ Q = Rem
        /\ open \/ host = NoHost => R = Listed(batch, Of(OfList))
        /\ KeyInv(P)

DeliverInv == \E P, Q, R : Delivered(P, Q, R)

(* Corrections and matches are added to the lists that ask for them.       *)
KindInv == \A k \in 1 .. Len(cmds) :
    /\ cmds[k].op = "spell" => job.kind = "define"
    /\ cmds[k].op = "wind" => job.kind = "wind"

LEMMA OnList ==
    /\ "auth" \in OfList /\ OfList \subseteq Ops
    /\ {"connect", "print", "spell", "wind", "defprint"} \cap OfList = {}
    /\ job.kind = "define" => "match" \notin OfList
    /\ job.kind # "define" => "define" \notin OfList
    /\ Due \subseteq OfList /\ OfList \ {"auth"} \subseteq Due
    /\ "auth" \in Due <=> host \in HasKey /\ msgid
  BY DEF OfList, Asked, Due, Ops

LEMMA ListTypes ==
    ASSUME TypeOK
    PROVE  /\ CommandsOf(job) \in Seq(Command) /\ TheList \in Seq(Command)
           /\ got \o toServer \in Seq(Command) /\ Sent \in Seq(Command)
           /\ cmds \in Seq(Command) /\ Rem \in Seq(Command)
           /\ got \in Seq(Command) /\ toServer \in Seq(Command) /\ batch \in Seq(Command)
<1>1. job \in Jobs /\ cmds \in Seq(Command) /\ got \in Seq(Command) /\ toServer \in Seq(Command) /\ batch \in Seq(Command)
  BY DEF TypeOK
<1>2. CommandsOf(job) \in Seq(Command)
  <2>1. Fresh \subseteq Command
    BY DEF Fresh, Shaped
  <2> QED
    BY <1>1, <2>1, ListAtFirst, SeqMonotonic
<1>3. got \o toServer \in Seq(Command)
  BY <1>1, ConcatProperties
<1> QED
  BY <1>1, <1>2, <1>3, ListedType DEF TheList, Sent, Rem

(* What is on its way is what was sent; it is lost with the connection.    *)
LEMMA SentParts ==
    ASSUME TypeOK
    PROVE  Sent = Listed(got, Of(OfList)) \o Listed(toServer, Of(OfList))
<1> DEFINE o == Of(OfList)
<1>1. got \in Seq(Command) /\ toServer \in Seq(Command)
  BY ListTypes
<1> HIDE DEF o
<1>2. Listed(got \o toServer, o) = Listed(got, o) \o Listed(toServer, o)
  BY <1>1, ListedJoin
<1> QED
  BY <1>2 DEF Sent, o

LEMMA DeliveredSame ==
    ASSUME NEW P, NEW Q, NEW R, Delivered(P, Q, R),
           job' = job, Sent' = Sent, Due' = Due,
           pc' # "ended" =>
             /\ pc # "ended" /\ Rem' = Rem
             /\ open' \/ host' = NoHost => (open \/ host = NoHost) /\ batch' = batch
             /\ Connecting' => Connecting
             /\ key' = key /\ host' = host
             /\ host = NoHost => Listed(cmds', Of(OfList)) = Listed(cmds, Of(OfList)) /\ pc # "connect"
    PROVE  Delivered(P, Q, R)'
<1>1. OfList' = OfList /\ TheList' = TheList
  BY DEF OfList, Asked, TheList
<1>2. Splits(P, Q, R)'
  BY <1>1 DEF Splits, Delivered
<1>3. ASSUME pc' # "ended"
      PROVE  (Q = Rem)' /\ (open \/ host = NoHost => R = Listed(batch, Of(OfList)))' /\ KeyInv(P)'
  BY <1>1, <1>3 DEF Delivered, KeyInv
<1> QED
  BY <1>2, <1>3 DEF Delivered

(* The first command is taken off the list; it has been sent, or is not    *)
(* one of those that are looked at.                                        *)
LEMMA RemTail ==
    ASSUME cmds \in Seq(Command), cmds # <<>>, Top \notin Left, cmds' = Tail(cmds), job' = job
    PROVE  Rem' = Rem /\ (Top.op \notin OfList => Listed(cmds', Of(OfList)) = Listed(cmds, Of(OfList)))
<1>1. Top \in Command /\ Tail(cmds) \in Seq(Command)
  BY DEF Top
<1>2. Left' = Left
  BY DEF Left, OfList, Asked
<1>3. Listed(<<Top>>, Left) = <<>>
  BY <1>1, ListedOne
<1>4. Rem = <<>> \o Listed(Tail(cmds), Left)
  BY <1>3, ListedHead DEF Rem, Top
<1>5. Listed(Tail(cmds), Left) \in Seq(Command) /\ Listed(Tail(cmds), Of(OfList)) \in Seq(Command)
  BY <1>1, ListedType
<1>6. Rem' = Rem
  BY <1>2, <1>4, <1>5, ConcatEmptySeq DEF Rem
<1>7. ASSUME Top.op \notin OfList PROVE Listed(cmds', Of(OfList)) = Listed(cmds, Of(OfList))
  <2>1. Top \notin Of(OfList)
    BY <1>7 DEF Of
  <2>2. Listed(<<Top>>, Of(OfList)) = <<>>
    BY <1>1, <2>1, ListedOne
  <2>3. Listed(cmds, Of(OfList)) = <<>> \o Listed(Tail(cmds), Of(OfList))
    BY <2>2, ListedHead DEF Top
  <2> QED
    BY <1>5, <2>3, ConcatEmptySeq
<1> QED
  BY <1>6, <1>7

LEMMA DeliveredPopped ==
    ASSUME ClientInv, Await \/ PassOver \/ PrintReply \/ PrintDefinitions, NEW P, NEW Q, NEW R,
           Delivered(P, Q, R), ~(Top.op = "auth" /\ ~Top.sent /\ PassOver)
    PROVE  Delivered(P, Q, R)'
<1>1. /\ pc = "process" /\ TypeOK /\ HostInv /\ cmds # <<>> /\ cmds \in Seq(Command)
      /\ cmds' = Tail(cmds) /\ pc' \in {"request", "status"} /\ cur' = Top
      /\ Top.sent \/ ~Unstopped(Top) \/ host = NoHost
  BY DEF ClientInv, HostInv, TypeOK, Await, PassOver, PrintReply, PrintDefinitions, Pop
<1>2. UNCHANGED <<job, batch, host, key, msgid, open, toServer, got>>
  BY DEF Await, PassOver, PrintReply, PrintDefinitions, Pop, hostVars, netVars
<1>3. host = NoHost => PassOver /\ Top.op = "connect"
  <2>1. ASSUME host = NoHost PROVE Top.op = "connect" /\ ~msgid
    BY <1>1, <2>1 DEF HostInv, Connecting
  <2> QED
    BY <2>1 DEF Await, PrintReply, PrintDefinitions, HasReply
<1>4. Top \in Command
  BY <1>1 DEF Top
<1>5. Top \notin Left
  <2>1. CASE Await
    <3>1. host # NoHost /\ Unstopped(Top)
      BY <1>3, <2>1 DEF Await, HasReply, Unstopped, PassOver
    <3> QED
      BY <1>1, <3>1 DEF Left
  <2>2. CASE PassOver
    <3>1. Top.op \in {"connect", "auth"}
      BY <2>2 DEF PassOver
    <3>2. Top.op = "connect" \/ Top.sent
      BY <2>2, <3>1
    <3> QED
      BY <3>2, OnList DEF Left
  <2>3. CASE PrintReply \/ PrintDefinitions
    BY <2>3, OnList DEF Left, PrintReply, PrintDefinitions
  <2> QED
    BY <2>1, <2>2, <2>3
<1>6. /\ Rem' = Rem
      /\ host = NoHost => Listed(cmds', Of(OfList)) = Listed(cmds, Of(OfList))
  BY <1>1, <1>2, <1>3, <1>5, RemTail, OnList
<1>7. Sent' = Sent /\ Due' = Due
  BY <1>2 DEF Sent, Due, OfList, Asked
<1>8. Connecting' => Connecting
  <2>1. SUFFICES ASSUME host # NoHost, Connecting' PROVE Connecting
    BY DEF Connecting
  <2>2. ~Greeting'
    BY <1>1 DEF Greeting
  <2>3. pc' = "status" /\ Top.op = "connect"
    BY <1>1, <1>2, <2>1, <2>2 DEF Connecting
  <2> QED
    BY <1>1, <2>1, <2>3 DEF Connecting, Greeting
<1> QED
  BY <1>1, <1>2, <1>6, <1>7, <1>8, DeliveredSame

LEMMA Regroup ==
    ASSUME NEW s \in Seq(Command), NEW t \in Seq(Command), NEW u \in Seq(Command)
    PROVE  (s \o t) \o u = s \o (t \o u) /\ s \o t \in Seq(Command)
  BY ConcatAssociative, ConcatProperties

(* AUTH without a message id is taken off the list, and is not due.        *)
LEMMA DeliveredAuth ==
    ASSUME ClientInv, PassOver, Top.op = "auth", ~Top.sent, NEW P, NEW Q, NEW R, Delivered(P, Q, R)
    PROVE  DeliverInv'
<1>1. /\ pc = "process" /\ TypeOK /\ HostInv /\ cmds # <<>> /\ cmds \in Seq(Command)
      /\ cmds' = Tail(cmds) /\ pc' = "request"
      /\ Top.sent \/ ~Unstopped(Top) \/ host = NoHost
  BY DEF ClientInv, HostInv, TypeOK, PassOver, Pop
<1>2. UNCHANGED <<job, batch, host, key, msgid, open, toServer, got>>
  BY DEF PassOver, hostVars, netVars
<1>3. host # NoHost /\ ~Connecting /\ key /\ ~msgid
  BY <1>1 DEF HostInv, Connecting, Greeting, Unstopped
<1>4. Top \in Command /\ Tail(cmds) \in Seq(Command)
  BY <1>1 DEF Top
<1>5. ~Connecting'
  BY <1>1, <1>2, <1>3 DEF Connecting, Greeting
<1>6. PICK m : m = Make(Top.op, Top.word)
  OBVIOUS
<1> DEFINE one == <<m>>
<1>7. m \in Command /\ m.op = "auth" /\ one \in Seq(Command)
  BY <1>4, <1>6, MakeCommand
<1>8. /\ OfList' = OfList /\ Left' = Left /\ Due' = Due /\ Sent' = Sent /\ TheList' = TheList
      /\ Of(OfList)' = Of(OfList)
  BY <1>2 DEF OfList, Asked, Left, Due, Sent, TheList, Of
<1>9. PICK q : q = Rem'
  OBVIOUS
<1>10. Rem = one \o q
  <2>1. Top \in Left
    BY <1>4, OnList DEF Left
  <2>2. Listed(<<Top>>, Left) = one
    BY <1>4, <1>6, <2>1, ListedOne
  <2> QED
    BY <1>1, <1>8, <1>9, <2>2, ListedHead DEF Rem, Top
<1>11. q \in Seq(Command)
  BY <1>1, <1>4, <1>8, <1>9, ListedType DEF Rem
<1>12. Listed(one, Of(Due)) = <<>>
  <2>1. m \notin Of(Due)
    BY <1>3, <1>7, OnList DEF Of
  <2> QED
    BY <1>7, <2>1, ListedOne
<1> HIDE DEF one
<1>13. P \in Seq(Command) /\ R \in Seq(Command) /\ TheList = P \o Rem /\ Sent \o R = Listed(P, Of(Due))
  BY <1>1 DEF Delivered, Splits
<1>14. P \o one \in Seq(Command) /\ (P \o one) \o q = P \o (one \o q)
  <2>1. P \in Seq(Command) /\ one \in Seq(Command) /\ q \in Seq(Command)
    BY <1>7, <1>11, <1>13
  <2> QED
    BY <2>1, Regroup, Zenon
<1>15. Listed(P \o one, Of(Due)) = Listed(P, Of(Due))
  <2>1. Listed(P \o one, Of(Due)) = Listed(P, Of(Due)) \o Listed(one, Of(Due))
    BY <1>7, <1>13, ListedJoin
  <2>2. Listed(P, Of(Due)) \in Seq(Command)
    BY <1>13, ListedType
  <2> QED
    BY <1>12, <2>1, <2>2, ConcatEmptySeq
<1>16. Delivered(P \o one, q, R)'
  <2> DEFINE p == P \o one
  <2>1. p' = p
    BY DEF one
  <2>2. p \in Seq(Command) /\ TheList = p \o q /\ Listed(p, Of(Due)) = Listed(P, Of(Due))
    BY <1>10, <1>13, <1>14, <1>15
  <2> HIDE DEF p
  <2>3. Splits(p, q, R)'
    <3>1. Of(Due)' = Of(Due)
      BY <1>8 DEF Of
    <3>2. Sent \o R = Listed(p, Of(Due))
      BY <1>13, <2>2
    <3> QED
      BY <1>8, <1>11, <1>13, <2>2, <3>1, <3>2 DEF Splits
  <2>4. KeyInv(p)'
    BY <1>1, <1>2, <1>3, <1>5 DEF KeyInv, Delivered
  <2>5. (open \/ host = NoHost => R = Listed(batch, Of(OfList)))'
    BY <1>1, <1>2, <1>8 DEF Delivered
  <2> QED
    BY <1>9, <2>3, <2>4, <2>5 DEF Delivered, p
<1> QED
  BY <1>16 DEF DeliverInv

LEMMA ShapedList ==
    ASSUME ClientInv
    PROVE  cmds \in Seq(Shaped) /\ cmds \in Seq(Command) /\ TypeOK /\ batch \in Seq(Shaped) /\ batch \in Seq(Command)
  BY DEF ClientInv, ShapeInv, TypeOK

(* A request at a command that was sent before sends nothing.              *)
LEMMA DeliveredIdle ==
    ASSUME ClientInv, Request, cmds[1].sent, NEW P, NEW Q, NEW R, Delivered(P, Q, R)
    PROVE  Delivered(P, Q, R)'
<1>1. cmds' = cmds /\ AtSent /\ host # NoHost /\ KeyNow = key
  BY RequestMarks
<1>2. pc = "request" /\ pc' = "process" /\ batch' = <<>> /\ key' = key
  BY <1>1 DEF Request
<1>3. UNCHANGED <<job, host, msgid, open, toServer, got>>
  BY DEF Request, netVars
<1>4. HostInv /\ batch = <<>> /\ cmds \in Seq(Shaped) /\ cmds # <<>>
  BY <1>2, ShapedList DEF ClientInv, HostInv, Request
<1>5. ~Connecting
  BY <1>1, <1>2 DEF Connecting, Greeting
<1>6. Top.op # "connect"
  <2>1. \A k \in 1 .. Len(cmds) : cmds[k].op # "connect"
    BY <1>4, <1>5 DEF HostInv
  <2>2. Top = cmds[1] /\ 1 \in 1 .. Len(cmds)
    BY <1>4, HeadsAndTails DEF Top
  <2> QED
    BY <2>1, <2>2
<1>7. ~Connecting'
  BY <1>1, <1>2, <1>3, <1>6 DEF Connecting, Greeting, Top
<1>8. Sent' = Sent /\ Due' = Due /\ Rem' = Rem
  BY <1>1, <1>3 DEF Sent, Due, OfList, Asked, Rem, Left
<1> QED
  BY <1>1, <1>2, <1>3, <1>4, <1>7, <1>8, DeliveredSame

(* What request() writes of the commands it marks is what is due of them.  *)
Sendable == {c \in Command : ~c.sent /\ ~StopsPipe(c)}

LEMMA WireDue ==
    ASSUME ClientInv, Request, ~cmds[1].sent, NEW P, NEW Q, NEW R, Delivered(P, Q, R)
    PROVE  \A c \in Sendable : c \in Left /\ c.op \in Due <=> c \in OnWires /\ c.op \in OfList
<1>1. /\ pc = "request" /\ HostInv /\ cmds \in Seq(Shaped) /\ cmds # <<>> /\ KeyNow \in BOOLEAN
      /\ KeyNow # key => host = NoHost
      /\ host # NoHost => key = (host \in HasKey)
  BY RequestMarks DEF ClientInv, ShapeInv, Request, Delivered, KeyInv
<1>2. Asked \in {"define", "match"}
  BY DEF Asked
<1>3. ASSUME NEW c \in Sendable, c.op # "auth"
      PROVE  c \in Left /\ c.op \in Due <=> c \in OnWires /\ c.op \in OfList
  <2>1. c \in Command /\ ~c.sent
    BY DEF Sendable
  <2>2. c.op \in Due <=> c.op \in OfList
    BY <1>3, OnList
  <2>3. c.op \in OfList => OnWire(c)
    BY <1>2, <1>3 DEF OfList, OnWire
  <2> QED
    BY <2>1, <2>2, <2>3 DEF Left, OnWires
<1>4. ASSUME NEW c \in Sendable, c.op = "auth"
      PROVE  c \in Left /\ c.op \in Due <=> c \in OnWires /\ c.op \in OfList
  <2>1. c \in Command /\ ~c.sent /\ ~(KeyNow /\ ~msgid)
    BY <1>4 DEF Sendable, StopsPipe
  <2>2. OnWire(c) <=> KeyNow
    BY <1>4 DEF OnWire
  <2>3. msgid => host # NoHost /\ KeyNow = (host \in HasKey)
    <3>1. msgid => host # NoHost
      BY <1>1 DEF HostInv, Connecting
    <3> QED
      BY <1>1, <3>1
  <2>4. "auth" \in OfList /\ ("auth" \in Due <=> host \in HasKey /\ msgid)
    BY OnList
  <2>5. KeyNow <=> host \in HasKey /\ msgid
    BY <1>1, <2>1, <2>3
  <2> QED
    BY <1>4, <2>1, <2>2, <2>4, <2>5 DEF Left, OnWires
<1> QED
  BY <1>3, <1>4

(* The commands marked and the others.                                     *)
LEMMA RequestParts ==
    ASSUME ClientInv, Request, ~cmds[1].sent
    PROVE  \E m \in Seq(Sendable), n \in Seq(Command) :
             /\ cmds = m \o n /\ Wire(Ahead) = Sift(m, OnWires)
             /\ Listed(cmds', Left) = Listed(n, Left)
<1>1. /\ Len(cmds) \in Nat /\ Ahead \in 0 .. Len(cmds)
      /\ cmds' \in Seq(Shaped) /\ Len(cmds') = Len(cmds)
      /\ \A k \in 1 .. Len(cmds) : Alike(cmds'[k], cmds[k]) /\ cmds'[k].sent = (cmds[k].sent \/ k <= Ahead)
      /\ \A k \in 1 .. Len(cmds) : ~cmds[k].sent
  BY RequestMarks
<1>2. cmds \in Seq(Shaped) /\ cmds \in Seq(Command) /\ cmds' \in Seq(Command) /\ \A k \in 1 .. Len(cmds) : cmds[k] \in Command
  BY <1>1, ShapedList, ShapedType, ElementOfSeq
<1> DEFINE a == Ahead
           m == SubSeq(cmds, 1, a)
           n == SubSeq(cmds, a + 1, Len(cmds))
           u == SubSeq(cmds', 1, a)
           v == SubSeq(cmds', a + 1, Len(cmds))
<1>3. \A k \in 1 .. a : cmds[k] \in Sendable
  <2>1. \A k \in 1 .. a : ~StopsAt(k)
    BY <1>2, AheadIs
  <2> QED
    BY <1>1, <1>2, <2>1 DEF StopsAt, Sendable
<1> HIDE DEF a
<1>4. a \in 0 .. Len(cmds) /\ a \in Nat
  BY <1>1 DEF a
<1>5. /\ m \in Seq(Sendable) /\ Len(m) = a /\ \A k \in 1 .. a : m[k] = cmds[k]
  BY <1>1, <1>3, <1>4
<1>6. /\ n \in Seq(Command) /\ Len(n) = Len(cmds) - a /\ \A k \in 1 .. Len(cmds) - a : n[k] = cmds[a + k]
  BY <1>1, <1>2, <1>4
<1>7. /\ u \in Seq(Command) /\ Len(u) = a /\ \A k \in 1 .. a : u[k] = cmds'[k]
  BY <1>1, <1>2, <1>4
<1>8. /\ v \in Seq(Command) /\ Len(v) = Len(cmds) - a /\ \A k \in 1 .. Len(cmds) - a : v[k] = cmds'[a + k]
  BY <1>1, <1>2, <1>4
<1>9. cmds = m \o n /\ cmds' = u \o v
  <2>1. /\ 1 \in 1 .. Len(cmds) + 1 /\ a \in 1 - 1 .. Len(cmds) /\ Len(cmds) \in a .. Len(cmds)
        /\ Len(cmds') = Len(cmds)
    BY <1>1, <1>4
  <2>2. m \o n = SubSeq(cmds, 1, Len(cmds)) /\ u \o v = SubSeq(cmds', 1, Len(cmds))
    BY <1>2, <2>1, ConcatAdjacentSubSeq
  <2> QED
    BY <1>1, <1>2, <2>2, SubSeqFull
<1> HIDE DEF m, n, u, v
<1>10. Listed(cmds', Left) = Listed(n, Left)
  <2>1. ASSUME NEW k \in 1 .. Len(u) PROVE u[k] \notin Left
    <3>1. k \in 1 .. Len(cmds) /\ k <= Ahead /\ u[k] = cmds'[k]
      BY <1>1, <1>4, <1>7 DEF a
    <3>2. cmds'[k].sent
      BY <1>1, <3>1, Zenon
    <3> QED
      BY <3>1, <3>2 DEF Left
  <2>2. Listed(u, Left) = <<>>
    BY <1>7, <2>1, ListedNever
  <2>3. ASSUME NEW k \in 1 .. Len(v) PROVE (v[k] \in Left <=> n[k] \in Left) /\ Alike(v[k], n[k])
    <3>1. a + k \in 1 .. Len(cmds) /\ ~(a + k <= a) /\ v[k] = cmds'[a + k] /\ n[k] = cmds[a + k]
      BY <1>1, <1>4, <1>6, <1>8
    <3>2. v[k] \in Command /\ n[k] \in Command
      BY <1>6, <1>8, ElementOfSeq
    <3>3. Alike(v[k], n[k])
      BY <1>1, <3>1
    <3>4. ~v[k].sent /\ ~n[k].sent
      <4>1. ~(a + k <= Ahead)
        BY <3>1 DEF a
      <4> QED
        BY <1>1, <3>1, <4>1, Zenon
    <3> QED
      BY <3>2, <3>3, <3>4 DEF Left, Alike
  <2>4. Len(v) = Len(n)
    BY <1>6, <1>8
  <2>5. Listed(v, Left) = Listed(n, Left)
    BY <1>6, <1>8, <2>3, <2>4, ListedSame
  <2>6. Listed(u \o v, Left) = Listed(u, Left) \o Listed(v, Left)
    BY <1>7, <1>8, ListedJoin
  <2>7. Listed(n, Left) \in Seq(Command)
    BY <1>6, ListedType
  <2> QED
    BY <1>9, <2>2, <2>5, <2>6, <2>7, ConcatEmptySeq
<1>11. Wire(Ahead) = Sift(m, OnWires)
  <2>1. Wire(Ahead) = Sifted(cmds, OnWires)[Ahead]
    <3>1. \A i \in Nat : i <= Len(cmds) => Wire(i) = Sifted(cmds, OnWires)[i]
      BY <1>2, WireSifted
    <3> QED
      BY <1>1, <3>1
  <2>2. m \in Seq(Command)
    BY <1>5, SeqMonotonic, Sendable \subseteq Command DEF Sendable
  <2>3. \A i \in Nat : i <= a => Sifted(cmds, OnWires)[i] = Sifted(m, OnWires)[i]
    <3>1. a <= Len(cmds) /\ a <= Len(m) /\ \A k \in 1 .. a : cmds[k] = m[k]
      BY <1>1, <1>4, <1>5
    <3> QED
      BY <1>2, <1>4, <2>2, <3>1, SiftedAgree
  <2> QED
    BY <1>4, <1>5, <2>1, <2>3 DEF Sift, a
<1> QED
  BY <1>5, <1>6, <1>9, <1>10, <1>11

LEMMA ListedAgain ==
    ASSUME NEW s \in Seq(Command), NEW t \in Seq(Command), Len(s) = Len(t),
           \A k \in 1 .. Len(s) : Alike(s[k], t[k]), NEW ops
    PROVE  Listed(s, Of(ops)) = Listed(t, Of(ops))
<1>1. \A k \in 1 .. Len(s) : (s[k] \in Of(ops) <=> t[k] \in Of(ops)) /\ Alike(s[k], t[k])
  BY ElementOfSeq DEF Of, Alike
<1> QED
  BY <1>1, ListedSame

Carries(p, a, s, r, T) == s \o r = Listed(p, T) => s \o (r \o Listed(a, T)) = Listed(p \o a, T)

LEMMA ListedMore ==
    ASSUME NEW p \in Seq(Command), NEW a \in Seq(Command), NEW s \in Seq(Command), NEW r \in Seq(Command), NEW T
    PROVE  Carries(p, a, s, r, T)
<1>1. PICK l : l = Listed(a, T)
  OBVIOUS
<1>2. l \in Seq(Command)
  BY <1>1, ListedType
<1>3. Listed(p \o a, T) = Listed(p, T) \o Listed(a, T)
  BY ListedJoin, SMTT(30)
<1>4. (s \o r) \o l = s \o (r \o l)
  BY <1>2, Regroup, SMTT(30)
<1> QED
  BY <1>1, <1>3, <1>4 DEF Carries

LEMMA DeliveredRequest ==
    ASSUME ClientInv, Request, ~cmds[1].sent, NEW P, NEW Q, NEW R, Delivered(P, Q, R)
    PROVE  DeliverInv'
<1>1. PICK m \in Seq(Sendable), n \in Seq(Command) :
             /\ cmds = m \o n /\ Wire(Ahead) = Sift(m, OnWires)
             /\ Listed(cmds', Left) = Listed(n, Left)
  BY RequestParts
<1>2. PICK a : a = Listed(m, Left)
  OBVIOUS
<1>3. PICK q : q = Listed(n, Left)
  OBVIOUS
<1>4. PICK r : r = Listed(Sift(m, OnWires), Of(OfList))
  OBVIOUS
<1>5. /\ pc = "request" /\ HostInv /\ cmds \in Seq(Command) /\ TypeOK /\ batch = <<>>
  BY ShapedList DEF Request, ClientInv, HostInv
<1>6. UNCHANGED <<job, host, msgid, open, toServer, got>> /\ key' = KeyNow
  BY DEF Request, netVars
<1>7. /\ ~AtSent
      /\ KeyNow # key => host = NoHost
      /\ Len(cmds') = Len(cmds) /\ cmds' \in Seq(Command)
      /\ \A k \in 1 .. Len(cmds) : Alike(cmds'[k], cmds[k])
  BY RequestMarks, ShapedType
<1>8. batch' = Wire(Ahead) /\ pc' = IF host = NoHost THEN "connect" ELSE "write"
  BY <1>7 DEF Request
<1>9. m \in Seq(Command)
  BY SeqMonotonic, Sendable \subseteq Command DEF Sendable
<1>10. a \in Seq(Command) /\ q \in Seq(Command)
  BY <1>2, <1>3, <1>9, ListedType
<1>11. r \in Seq(Command)
  BY <1>4, <1>9, SiftType, ListedType
<1>12. /\ P \in Seq(Command) /\ R \in Seq(Command) /\ TheList = P \o Rem /\ Sent \o R = Listed(P, Of(Due))
       /\ Sent \in Seq(Command)
  BY <1>5, ListTypes DEF Delivered, Splits
<1>13. P \in Seq(Command) /\ R \in Seq(Command) /\ Sent \in Seq(Command)
  BY <1>12
<1>14. Rem = a \o q
  BY <1>1, <1>2, <1>3, <1>9, ListedJoin DEF Rem
<1>15. /\ OfList' = OfList /\ Left' = Left /\ Due' = Due /\ Sent' = Sent /\ TheList' = TheList
       /\ Of(OfList)' = Of(OfList) /\ Of(Due)' = Of(Due)
  BY <1>6 DEF OfList, Asked, Left, Due, Sent, TheList, Of
<1>16. TheList = (P \o a) \o q /\ P \o a \in Seq(Command)
  <2>1. (P \o a) \o q = P \o (a \o q) /\ P \o a \in Seq(Command)
    BY <1>10, <1>13, Regroup, SMTT(30)
  <2> QED
    BY <1>12, <1>14, <2>1
<1>17. Listed(a, Of(Due)) = r
  <2> DEFINE V == {c \in Command : c \in Left /\ c.op \in Due}
  <2>1. ASSUME NEW c \in Command PROVE c \in V <=> c \in Left /\ Make(c.op, c.word) \in Of(Due)
    BY MakeCommand DEF Of
  <2>2. ASSUME NEW c \in Sendable PROVE c \in V <=> c \in OnWires /\ c \in Of(OfList)
    <3>1. c \in Command
      BY DEF Sendable
    <3>2. c \in Left /\ c.op \in Due <=> c \in OnWires /\ c.op \in OfList
      BY WireDue
    <3> QED
      BY <3>1, <3>2 DEF Of
  <2> HIDE DEF V
  <2>3. Listed(Listed(m, Left), Of(Due)) = Listed(m, V)
    BY <1>9, <2>1, ListedTwice
  <2>4. Listed(Sift(m, OnWires), Of(OfList)) = Listed(m, V)
    BY <2>2, ListedSifted, Sendable \subseteq Command DEF Sendable
  <2> QED
    BY <1>2, <1>4, <2>3, <2>4
<1>18. Sent \o (R \o r) = Listed(P \o a, Of(Due)) /\ R \o r \in Seq(Command)
  <2> DEFINE o == Of(Due)
             k == Sent
  <2>1. k \in Seq(Command)
    BY <1>13
  <2>2. k \o R = Listed(P, o) /\ Listed(a, o) = r
    BY <1>12, <1>17
  <2> HIDE DEF o, k
  <2>3. Carries(P, a, k, R, o)
    BY <1>10, <1>13, <2>1, ListedMore
  <2>4. R \o r \in Seq(Command)
    BY <1>11, <1>13, ConcatProperties
  <2> QED
    BY <2>2, <2>3, <2>4 DEF Carries, o, k
<1>19. (open \/ host = NoHost => R \o r = Listed(batch, Of(OfList)))'
  <2>1. SUFFICES ASSUME open \/ host = NoHost PROVE R \o r = Listed(batch', Of(OfList))
    BY <1>6, <1>15
  <2>2. R = <<>>
    BY <1>5, <2>1, ListedNone DEF Delivered
  <2>3. R \o r = r
    BY <1>11, <2>2, ConcatEmptySeq
  <2> QED
    BY <1>1, <1>4, <1>8, <2>3
<1>20. KeyInv(P \o a)'
  <2>1. ASSUME Connecting', key' PROVE Listed(P \o a, Of({"auth"})) = <<>>
    <3>1. host = NoHost
      <4>1. SUFFICES ASSUME host # NoHost PROVE FALSE
        OBVIOUS
      <4>2. \A k \in 1 .. Len(cmds) : cmds[k].op # "connect"
        BY <1>5, <4>1 DEF HostInv, Connecting, Greeting
      <4>3. cmds' # <<>> /\ Top' = cmds'[1] /\ 1 \in 1 .. Len(cmds)
        <5>1. cmds # <<>>
          BY DEF Request
        <5> QED
          BY <1>5, <1>7, <5>1 DEF Top
      <4>4. (Top.op)' # "connect"
        BY <1>7, <4>2, <4>3 DEF Alike
      <4> QED
        BY <1>6, <1>8, <2>1, <4>1, <4>4 DEF Connecting, Greeting
    <3>2. P = <<>> /\ ~msgid
      BY <1>5, <3>1 DEF Delivered, KeyInv, HostInv, Connecting
    <3>3. P \o a = a
      BY <1>10, <3>2, ConcatEmptySeq
    <3>4. ASSUME NEW k \in 1 .. Len(m) PROVE m[k].op \notin {"auth"}
      <4>1. m[k] \in Sendable
        BY ElementOfSeq
      <4> QED
        BY <1>6, <2>1, <3>2, <4>1 DEF Sendable, StopsPipe
    <3>5. \A k \in 1 .. Len(a) : a[k].op \notin {"auth"}
      BY <1>2, <1>9, <3>4, ListedOnly
    <3>6. \A k \in 1 .. Len(a) : a[k] \notin Of({"auth"})
      BY <3>5 DEF Of
    <3> QED
      BY <1>10, <3>3, <3>6, ListedNever
  <2>2. ASSUME host' = NoHost PROVE TheList = Listed(cmds', Of(OfList))
    <3>1. TheList = Listed(cmds, Of(OfList))
      BY <1>5, <1>6, <2>2 DEF Delivered, KeyInv
    <3> QED
      BY <1>5, <1>7, <3>1, ListedAgain
  <2>3. host' = NoHost => pc' = "connect"
    BY <1>6, <1>8
  <2>4. host' # NoHost => key' = (host' \in HasKey)
    BY <1>5, <1>6, <1>7 DEF Delivered, KeyInv
  <2> QED
    BY <1>15, <2>1, <2>2, <2>3, <2>4 DEF KeyInv
<1>21. (q = Rem)'
  BY <1>1, <1>3, <1>15 DEF Rem
<1>22. Delivered(P \o a, q, R \o r)'
  <2> DEFINE p == P \o a
             s == R \o r
  <2>1. /\ p \in Seq(Command) /\ s \in Seq(Command) /\ TheList = p \o q /\ Sent \o s = Listed(p, Of(Due))
        /\ (open \/ host = NoHost => s = Listed(batch, Of(OfList)))' /\ KeyInv(p)'
    BY <1>16, <1>18, <1>19, <1>20
  <2> HIDE DEF p, s
  <2>2. Splits(p, q, s)'
    BY <1>10, <1>15, <2>1 DEF Splits
  <2>3. Delivered(p, q, s)'
    BY <1>21, <2>1, <2>2 DEF Delivered
  <2> QED
    BY <2>3 DEF p, s
<1> QED
  BY <1>22 DEF DeliverInv

LEMMA DeliveredConnect ==
    ASSUME ClientInv, Connect, NEW P, NEW Q, NEW R, Delivered(P, Q, R)
    PROVE  Delivered(P, Q, R)'
<1>1. /\ pc = "connect" /\ HostInv /\ host = NoHost /\ TypeOK /\ ~msgid /\ Connecting /\ key = KeyNow
      /\ cmds # <<>> /\ Top.op = "connect"
  BY DEF Connect, ClientInv, HostInv, Connecting
<1>2. /\ UNCHANGED <<job, cmds, batch, msgid, toServer, got>> /\ pc' = "write"
      /\ host' = cmds[1].word /\ key' = (cmds[1].word \in HasKey)
  BY DEF Connect, listVars
<1>3. key' = key /\ host' \in Hosts /\ host' # NoHost
  <2>1. Top = cmds[1] /\ Top \in Shaped
    BY <1>1, ShapedList, HeadsAndTails DEF Top
  <2>2. cmds[1].word \in Hosts
    BY <1>1, <2>1 DEF Shaped, Shape
  <2> QED
    BY <1>1, <1>2, <2>1, <2>2, ClientAssumption DEF KeyNow
<1>4. Sent' = Sent /\ Rem' = Rem /\ TheList' = TheList /\ Of(OfList)' = Of(OfList)
  BY <1>2 DEF Sent, OfList, Asked, Rem, Left, TheList, Of
<1>5. Due' = Due
  BY <1>1, <1>2 DEF Due, OfList, Asked
<1>6. Splits(P, Q, R)'
  BY <1>4, <1>5 DEF Splits, Delivered
<1>7. KeyInv(P)'
  BY <1>1, <1>2, <1>3 DEF KeyInv, Delivered
<1> QED
  BY <1>1, <1>2, <1>4, <1>6, <1>7 DEF Delivered

LEMMA DeliveredConnectFails ==
    ASSUME ClientInv, ConnectFails, pc' # "ended", DeliverInv
    PROVE  DeliverInv'
<1>1. PICK P, Q, R : Delivered(P, Q, R)
  BY DEF DeliverInv
<1>2. /\ pc = "connect" /\ HostInv /\ host = NoHost /\ TypeOK /\ got = <<>> /\ toServer = <<>>
  BY DEF ConnectFails, ClientInv, HostInv
<1>3. /\ UNCHANGED <<job, host, key, msgid, open, toServer, got>> /\ pc' = "process" /\ cmds' = Unsent /\ batch' = <<>>
  BY DEF ConnectFails, End, hostVars, netVars
<1>4. PICK q : q = TheList
  OBVIOUS
<1>5. q \in Seq(Command) /\ <<>> \in Seq(Command) /\ <<>> \o q = q
  BY <1>2, <1>4, ListTypes, ConcatEmptySeq
<1>6. /\ Sent' = <<>> /\ TheList' = q /\ OfList' = OfList /\ Of(OfList)' = Of(OfList) /\ Left' = Left
  <2>1. <<>> \o <<>> = <<>>
    BY <1>5, ConcatEmptySeq
  <2>2. Sent' = Listed(<<>>, Of(OfList)')
    BY <1>2, <1>3, <2>1 DEF Sent
  <2> QED
    BY <1>3, <1>4, <2>2, ListedNone DEF TheList, OfList, Asked, Of, Left
<1>7. /\ cmds \in Seq(Command) /\ Unsent \in Seq(Command) /\ Len(Unsent) = Len(cmds)
      /\ \A k \in 1 .. Len(cmds) : Alike(Unsent[k], cmds[k]) /\ Unsent[k].sent = FALSE
  BY UnsentShape, ShapedList, ShapedType
<1>8. q = Listed(Unsent, Of(OfList))
  BY <1>1, <1>2, <1>4, <1>7, ListedAgain DEF Delivered, KeyInv
<1>9. Rem' = q
  <2> DEFINE u == Unsent
  <2>1. u \in Seq(Command) /\ \A k \in 1 .. Len(u) : u[k] \in Command /\ ~u[k].sent
    BY <1>7, ElementOfSeq
  <2> HIDE DEF u
  <2>2. \A k \in 1 .. Len(u) : (u[k] \in Left <=> u[k] \in Of(OfList)) /\ Alike(u[k], u[k])
    BY <2>1 DEF Left, Of, Alike
  <2>3. Listed(u, Left) = Listed(u, Of(OfList))
    BY <2>1, <2>2, ListedSame
  <2> QED
    BY <1>3, <1>6, <1>8, <2>3 DEF Rem, u
<1>10. Delivered(<<>>, q, <<>>)'
  <2>1. Splits(<<>>, q, <<>>)'
    <3>1. <<>> \o <<>> = <<>> /\ Listed(<<>>, Of(Due)') = <<>>
      BY <1>5, ConcatEmptySeq, ListedNone
    <3> QED
      BY <1>5, <1>6, <3>1 DEF Splits
  <2>2. KeyInv(<<>>)'
    BY <1>2, <1>3, <1>6, <1>8, ListedNone DEF KeyInv
  <2> QED
    BY <1>3, <1>9, <2>1, <2>2, ListedNone DEF Delivered
<1> QED
  BY <1>10 DEF DeliverInv

LEMMA DeliveredWrite ==
    ASSUME ClientInv, Write, NEW P, NEW Q, NEW R, Delivered(P, Q, R)
    PROVE  DeliverInv'
<1>1. /\ pc = "write" /\ HostInv /\ host # NoHost /\ TypeOK /\ pc' = "process" /\ batch' = <<>>
      /\ UNCHANGED <<job, cmds, cur, host, key, msgid, open, got>>
  BY DEF Write, ClientInv, HostInv, listVars, hostVars
<1>2. Connecting' => Connecting
  BY <1>1 DEF Connecting, Greeting, Top
<1>3. CASE ~open
  <2>1. toServer' = toServer
    BY <1>3 DEF Write
  <2>2. Sent' = Sent /\ Due' = Due /\ Rem' = Rem
    BY <1>1, <2>1 DEF Sent, Due, OfList, Asked, Rem, Left
  <2>3. Delivered(P, Q, R)'
    BY <1>1, <1>2, <1>3, <2>2, DeliveredSame
  <2> QED
    BY <2>3 DEF DeliverInv
<1>4. CASE open
  <2>1. toServer' = toServer \o batch
    BY <1>4 DEF Write
  <2>2. /\ OfList' = OfList /\ Left' = Left /\ Due' = Due /\ TheList' = TheList /\ Rem' = Rem
        /\ Of(OfList)' = Of(OfList) /\ Of(Due)' = Of(Due)
    BY <1>1 DEF OfList, Asked, Left, Due, TheList, Of, Rem
  <2>3. R = Listed(batch, Of(OfList))
    BY <1>1, <1>4 DEF Delivered
  <2>4. got \in Seq(Command) /\ toServer \in Seq(Command) /\ batch \in Seq(Command)
    BY <1>1 DEF TypeOK
  <2>5. Sent' = Sent \o R
    <3> DEFINE s == got \o toServer
    <3>1. got \o (toServer \o batch) = s \o batch
      BY <2>4, Regroup
    <3>2. s \in Seq(Command)
      BY <2>4, Regroup
    <3> HIDE DEF s
    <3>3. Listed(s \o batch, Of(OfList)) = Listed(s, Of(OfList)) \o Listed(batch, Of(OfList))
      BY <2>4, <3>2, ListedJoin
    <3> QED
      BY <1>1, <2>1, <2>2, <2>3, <3>1, <3>3 DEF Sent, s
  <2>6. Sent \in Seq(Command) /\ R \in Seq(Command)
    BY <1>1, ListTypes DEF Delivered, Splits
  <2>7. Sent \o R \in Seq(Command)
    BY <2>6, ConcatProperties
  <2>8. (Sent \o R) \o <<>> = Sent \o R /\ <<>> \in Seq(Command)
    BY <2>7, ConcatEmptySeq
  <2>9. Splits(P, Q, <<>>)'
    BY <2>2, <2>5, <2>8 DEF Splits, Delivered
  <2>10. KeyInv(P)'
    BY <1>1, <1>2, <2>2 DEF KeyInv, Delivered
  <2>11. Delivered(P, Q, <<>>)'
    BY <1>1, <2>2, <2>9, <2>10, ListedNone DEF Delivered
  <2> QED
    BY <2>11 DEF DeliverInv
<1> QED
  BY <1>3, <1>4

-----------------------------------------------------------------------------
LEMMA DeliveredGrow ==
    ASSUME ClientInv, KindInv, Spell \/ Wind, NEW P, NEW Q, NEW R, Delivered(P, Q, R)
    PROVE  Delivered(P, Q, R)'
<1>1. /\ pc = "process" /\ pc' = "request" /\ HostInv /\ cmds # <<>> /\ Top.op \in {"spell", "wind"}
      /\ UNCHANGED <<job, batch, host, key, msgid, open, got, toServer>>
  BY DEF ClientInv, Spell, Wind, Pop, HostInv, hostVars, netVars
<1>2. cmds \in Seq(Command) /\ Top \in Command /\ Tail(cmds) \in Seq(Command) /\ Top = cmds[1] /\ 1 \in 1 .. Len(cmds)
  BY <1>1, ShapedList, TopShape, HeadsAndTails
<1>3. PICK new \in Seq(AddedBy(Top.op)) : cmds' = new \o Tail(cmds)
  BY ListGrowsBy
<1>4. new \in Seq(Command)
  <2>1. AddedBy(Top.op) \subseteq Command
    BY DEF AddedBy, Added, Fresh, Shaped
  <2> QED
    BY <2>1, SeqMonotonic
<1>5. \A k \in 1 .. Len(new) : new[k].op \notin OfList
  <2> SUFFICES ASSUME NEW k \in 1 .. Len(new) PROVE new[k].op \notin OfList
    OBVIOUS
  <2>1. new[k] \in AddedBy(Top.op)
    BY ElementOfSeq
  <2>2. CASE Top.op = "spell"
    <3>1. job.kind = "define"
      BY <1>2, <2>2 DEF KindInv
    <3> QED
      BY <2>1, <2>2, <3>1, OnList DEF AddedBy
  <2>3. CASE Top.op = "wind"
    <3>1. job.kind = "wind"
      BY <1>2, <2>3 DEF KindInv
    <3> QED
      BY <2>1, <2>3, <3>1, OnList DEF AddedBy
  <2> QED
    BY <1>1, <2>2, <2>3
<1>6. Sent' = Sent /\ Due' = Due /\ Left' = Left
  BY <1>1 DEF Sent, Due, OfList, Asked, Left
<1>7. Rem' = Rem
  <2> DEFINE t == Tail(cmds)
  <2>1. \A k \in 1 .. Len(new) : new[k] \notin Left
    BY <1>5 DEF Left
  <2>2. Listed(new, Left) = <<>>
    BY <1>4, <2>1, ListedNever
  <2>3. t \in Seq(Command) /\ cmds' = new \o t
    BY <1>2, <1>3
  <2>4. Listed(<<Top>>, Left) = <<>>
    <3>1. Top \notin Left
      BY <1>1, OnList DEF Left
    <3> QED
      BY <1>2, <3>1, ListedOne
  <2>5. Rem = <<>> \o Listed(t, Left)
    BY <1>1, <1>2, <2>4, ListedHead DEF Rem, Top
  <2> HIDE DEF t
  <2>6. Listed(new \o t, Left) = Listed(new, Left) \o Listed(t, Left)
    BY <1>4, <2>3, ListedJoin
  <2> QED
    BY <1>6, <2>2, <2>3, <2>5, <2>6 DEF Rem
<1>8. host # NoHost
  BY <1>1 DEF HostInv
<1>9. ~Connecting'
  BY <1>1, <1>8 DEF Connecting, Greeting
<1> QED
  BY <1>1, <1>6, <1>7, <1>8, <1>9, DeliveredSame

-----------------------------------------------------------------------------
(* A greeting with a message id makes AUTH due; none has been passed over. *)
LEMMA DueAfterGreeting ==
    ASSUME ClientInv, ReadStatus, NEW P, NEW Q, NEW R, Delivered(P, Q, R)
    PROVE  Listed(P, Of(Due)') = Listed(P, Of(Due))
<1>1. /\ pc = "status" /\ HostInv /\ UNCHANGED <<job, host, key>> /\ P \in Seq(Command) /\ KeyInv(P)
      /\ msgid' = IF cur.op = "connect" THEN Line.count > 0 ELSE msgid
  BY DEF ReadStatus, ClientInv, Delivered, Splits
<1>2. OfList' = OfList
  BY <1>1 DEF OfList, Asked
<1>3. host # NoHost
  BY <1>1 DEF HostInv
<1>4. CASE cur.op # "connect"
  BY <1>1, <1>2, <1>4 DEF Due, Of
<1>5. CASE cur.op = "connect" /\ key
  <2>1. Connecting
    BY <1>1, <1>5 DEF Connecting
  <2>2. Listed(P, Of({"auth"})) = <<>>
    BY <1>1, <1>5, <2>1 DEF KeyInv
  <2>3. \A n \in 1 .. Len(P) : P[n] \notin Of({"auth"})
    BY <1>1, <2>2, ListedEmpty
  <2>4. /\ \A n \in 1 .. Len(P) : P[n] \in Command /\ P[n].op # "auth"
    BY <1>1, <2>3, ElementOfSeq DEF Of
  <2>5. \A op : op # "auth" => (op \in Due' <=> op \in Due)
    BY <1>2 DEF Due
  <2>6. \A n \in 1 .. Len(P) : (P[n] \in Of(Due)' <=> P[n] \in Of(Due)) /\ Alike(P[n], P[n])
    BY <2>4, <2>5 DEF Of, Alike
  <2> QED
    BY <1>1, <2>6, ListedSame
<1>6. CASE cur.op = "connect" /\ ~key
  <2>1. host \notin HasKey
    BY <1>1, <1>3, <1>6 DEF KeyInv
  <2>2. Due' = Due
    BY <1>1, <1>2, <2>1 DEF Due
  <2> QED
    BY <2>2 DEF Of
<1> QED
  BY <1>4, <1>5, <1>6

LEMMA DeliveredStatus ==
    ASSUME ClientInv, ReadStatus, NEW P, NEW Q, NEW R, Delivered(P, Q, R)
    PROVE  Delivered(P, Q, R)'
<1>1. /\ pc = "status" /\ HostInv /\ UNCHANGED <<job, host, key, batch, open, got, toServer>>
      /\ cmds' = IF cur.op = "connect" /\ Line.code # 530 THEN Connected ELSE cmds
  BY DEF ReadStatus, ClientInv
<1>2. pc' \in {"request", "text", "definition", "ended"}
  BY DEF ReadStatus, Follows, End
<1>3. host # NoHost
  BY <1>1 DEF HostInv
<1>4. /\ Sent' = Sent /\ TheList' = TheList /\ OfList' = OfList /\ Of(OfList)' = Of(OfList) /\ Left' = Left
  BY <1>1 DEF Sent, TheList, OfList, Asked, Of, Left
<1>5. Listed(P, Of(Due)') = Listed(P, Of(Due))
  BY DueAfterGreeting
<1>6. Splits(P, Q, R)'
  BY <1>4, <1>5 DEF Splits, Delivered
<1>7. ~Connecting'
  BY <1>1, <1>2, <1>3 DEF Connecting, Greeting
<1>8. KeyInv(P)'
  BY <1>1, <1>3, <1>7 DEF KeyInv, Delivered
<1>9. Rem' = Rem
  <2>1. CASE cmds' = cmds
    BY <1>4, <2>1 DEF Rem
  <2>2. CASE cur.op = "connect" /\ cmds' = Connected
    <3>1. Connecting
      BY <1>1, <2>2 DEF Connecting
    <3>2. \E k \in 1 .. Len(cmds) : cmds[k].op # "connect"
      BY <1>1, <3>1 DEF HostInv
    <3>3. PICK a \in Seq(Shaped) : cmds = a \o Connected /\ \A k \in 1 .. Len(a) : a[k].op = "connect"
      BY <3>2, ShapedList, ConnectedParts
    <3> DEFINE c == Connected
    <3>4. a \in Seq(Command) /\ c \in Seq(Command)
      BY <3>2, ShapedList, ConnectedParts, ShapedType
    <3>5. \A k \in 1 .. Len(a) : a[k] \notin Left
      BY <3>3, OnList DEF Left
    <3>6. Listed(a, Left) = <<>>
      BY <3>4, <3>5, ListedNever
    <3> HIDE DEF c
    <3>7. Listed(a \o c, Left) = Listed(a, Left) \o Listed(c, Left)
      BY <3>4, ListedJoin
    <3>8. Listed(c, Left) \in Seq(Command)
      BY <3>4, ListedType
    <3>9. Rem = Listed(c, Left)
      BY <3>3, <3>6, <3>7, <3>8, ConcatEmptySeq DEF Rem, c
    <3> QED
      BY <1>4, <2>2, <3>9 DEF Rem, c
  <2> QED
    BY <1>1, <2>1, <2>2
<1> QED
  BY <1>1, <1>3, <1>4, <1>6, <1>8, <1>9 DEF Delivered

LEMMA DeliveredRead ==
    ASSUME ClientInv, ReadText \/ ReadFinal \/ ReadDefinition \/ ReadDefText, NEW P, NEW Q, NEW R, Delivered(P, Q, R)
    PROVE  Delivered(P, Q, R)'
<1>1. /\ pc \in {"text", "final", "definition", "deftext"} /\ HostInv
      /\ pc' \in {"request", "final", "definition", "deftext", "ended"}
      /\ UNCHANGED <<job, cmds, host, key, msgid, batch, open, got, toServer>>
  BY DEF ClientInv, ReadText, ReadFinal, ReadDefinition, ReadDefText, Check, End, listVars, hostVars
<1>2. host # NoHost
  BY <1>1 DEF HostInv
<1>3. ~Connecting'
  BY <1>1, <1>2 DEF Connecting, Greeting
<1>4. Sent' = Sent /\ Due' = Due /\ Rem' = Rem
  BY <1>1 DEF Sent, Due, OfList, Asked, Rem, Left
<1> QED
  BY <1>1, <1>2, <1>3, <1>4, DeliveredSame

LEMMA DeliveredEnd ==
    ASSUME pc' = "ended", UNCHANGED <<job, host, msgid, got, toServer>>, NEW P, NEW Q, NEW R, Delivered(P, Q, R)
    PROVE  Delivered(P, Q, R)'
<1>1. Sent' = Sent /\ Due' = Due
  BY DEF Sent, Due, OfList, Asked
<1> QED
  BY <1>1, DeliveredSame

LEMMA DeliveredServer ==
    ASSUME ClientInv, ServerNext, NEW P, NEW Q, NEW R, Delivered(P, Q, R)
    PROVE  Delivered(P, Q, R)'
<1>1. /\ TypeOK /\ open /\ host # NoHost
      /\ UNCHANGED <<job, cmds, cur, pc, host, key, msgid, batch, open>>
  <2>1. TypeOK /\ open /\ UNCHANGED <<job, cmds, cur, pc, host, key, msgid, batch, open>>
    BY DEF ServerNext, Greet, Serve, Deliver, listVars, hostVars, ClientInv
  <2>2. host \in Hosts
    BY <2>1 DEF ClientInv, ShapeInv
  <2> QED
    BY <2>1, <2>2, ClientAssumption
<1>2. got \in Seq(Command) /\ toServer \in Seq(Command)
  BY <1>1 DEF TypeOK
<1>3. OfList' = OfList /\ Of(OfList)' = Of(OfList)
  BY <1>1 DEF OfList, Asked, Of
<1>4. Sent' = Sent
  <2>1. CASE Greet
    <3> DEFINE c == Make("connect", host)
               g == <<c>>
    <3>1. got = <<>> /\ got' = g /\ toServer' = toServer
      BY <2>1 DEF Greet
    <3>2. c \in Command /\ c \notin Of(OfList)
      <4>1. c.op = "connect"
        BY DEF Make
      <4>2. c \in Command
        BY <1>1 DEF Make, Command, Ops, TypeOK
      <4> QED
        BY <4>1, <4>2, OnList DEF Of
    <3>3. g \in Seq(Command) /\ <<>> \in Seq(Command) /\ Listed(g, Of(OfList)) = <<>>
      BY <3>2, ListedOne
    <3> HIDE DEF g
    <3>4. Listed(g \o toServer, Of(OfList)) = Listed(g, Of(OfList)) \o Listed(toServer, Of(OfList))
      <4>1. g \in Seq(Command) /\ toServer \in Seq(Command)
        BY <1>2, <3>3
      <4> QED
        BY <4>1, ListedJoin, SMTT(30)
    <3>5. PICK e : e = <<>>
      OBVIOUS
    <3>6. Listed(e \o toServer, Of(OfList)) = Listed(e, Of(OfList)) \o Listed(toServer, Of(OfList))
      BY <1>2, <3>3, <3>5, ListedJoin
    <3>7. Listed(e, Of(OfList)) = e
      BY <3>5, ListedNone
    <3> QED
      BY <1>3, <3>1, <3>3, <3>4, <3>5, <3>6, <3>7 DEF Sent
  <2>2. CASE Serve
    <3> DEFINE h == <<Head(toServer)>>
               t == Tail(toServer)
    <3>1. toServer # <<>> /\ toServer' = t /\ got' = Append(got, Head(toServer))
      BY <2>2 DEF Serve
    <3>2. h \in Seq(Command) /\ t \in Seq(Command) /\ Head(toServer) \in Command /\ toServer = h \o t
      BY <1>2, <3>1
    <3>3. got' = got \o h
      BY <1>2, <3>1, <3>2, AppendIsConcat
    <3> HIDE DEF h, t
    <3>4. (got \o h) \o t = got \o (h \o t)
      BY <1>2, <3>2, Regroup
    <3> QED
      BY <1>3, <3>1, <3>2, <3>3, <3>4 DEF Sent
  <2>3. CASE Deliver
    BY <1>3, <2>3 DEF Deliver, Sent
  <2> QED
    BY <2>1, <2>2, <2>3 DEF ServerNext
<1>5. Due' = Due /\ Rem' = Rem
  BY <1>1 DEF Due, OfList, Asked, Rem, Left
<1>6. Connecting' => Connecting
  BY <1>1 DEF Connecting, Greeting, Top
<1> QED
  BY <1>1, <1>4, <1>5, <1>6, DeliveredSame

(* What the server has not read when it closes is lost.                    *)
LEMMA DeliveredClose ==
    ASSUME ClientInv, Close, NEW P, NEW Q, NEW R, Delivered(P, Q, R)
    PROVE  DeliverInv'
<1>1. /\ TypeOK /\ open' = FALSE /\ host # NoHost /\ toServer' = <<>>
      /\ UNCHANGED <<job, cmds, cur, pc, host, key, msgid, batch, got>>
  <2>1. TypeOK /\ open /\ open' = FALSE /\ toServer' = <<>> /\ UNCHANGED <<job, cmds, cur, pc, host, key, msgid, batch, got>>
    BY DEF Close, listVars, hostVars, ClientInv
  <2>2. host \in Hosts
    BY <2>1 DEF ClientInv, ShapeInv
  <2> QED
    BY <2>1, <2>2, ClientAssumption
<1>2. PICK l : l = Listed(toServer, Of(OfList))
  OBVIOUS
<1>3. PICK g : g = Listed(got, Of(OfList))
  OBVIOUS
<1>4. got \in Seq(Command) /\ toServer \in Seq(Command)
  BY <1>1 DEF TypeOK
<1>5. l \in Seq(Command) /\ g \in Seq(Command) /\ R \in Seq(Command)
  BY <1>2, <1>3, <1>4, ListedType DEF Delivered, Splits
<1>6. /\ OfList' = OfList /\ Of(OfList)' = Of(OfList) /\ Due' = Due /\ Of(Due)' = Of(Due) /\ Rem' = Rem
      /\ TheList' = TheList
  BY <1>1 DEF OfList, Asked, Of, Due, Rem, Left, TheList
<1>7. Sent = g \o l
  BY <1>1, <1>2, <1>3, SentParts
<1>8. Sent' = g
  <2>1. got \o <<>> = got
    BY <1>4, ConcatEmptySeq
  <2> QED
    BY <1>1, <1>3, <1>6, <2>1 DEF Sent
<1>9. (g \o l) \o R = g \o (l \o R) /\ l \o R \in Seq(Command)
  BY <1>5, Regroup
<1>10. Delivered(P, Q, l \o R)'
  <2> DEFINE r == l \o R
  <2>1. r \in Seq(Command) /\ g \o r = Listed(P, Of(Due)) /\ TheList = P \o Q
    BY <1>7, <1>9 DEF Delivered, Splits
  <2> HIDE DEF r
  <2>2. Splits(P, Q, r)'
    BY <1>6, <1>8, <2>1 DEF Splits, Delivered
  <2>3. Connecting' => Connecting
    BY <1>1 DEF Connecting, Greeting, Top
  <2>4. ASSUME pc' # "ended" PROVE Q = Rem' /\ KeyInv(P)'
    BY <1>1, <1>6, <2>3, <2>4 DEF Delivered, KeyInv
  <2>5. Delivered(P, Q, r)'
    BY <1>1, <2>2, <2>4 DEF Delivered
  <2> QED
    BY <2>5 DEF r
<1> QED
  BY <1>10 DEF DeliverInv

LEMMA DeliverInit == Init => DeliverInv
<1> SUFFICES ASSUME Init PROVE DeliverInv
  OBVIOUS
<1>1. job \in Jobs /\ cmds = CommandsOf(job) /\ pc = "request" /\ host = NoHost /\ batch = <<>> /\ ~key
      /\ got = <<>> /\ toServer = <<>>
  BY DEF Init
<1>2. cmds \in Seq(Fresh)
  BY <1>1, ListAtFirst
<1>3. cmds \in Seq(Command) /\ \A k \in 1 .. Len(cmds) : cmds[k] \in Command /\ ~cmds[k].sent
  <2>1. Fresh \subseteq Command /\ \A c \in Fresh : ~c.sent
    BY DEF Fresh, Shaped
  <2> QED
    BY <1>2, <2>1, SeqMonotonic, ElementOfSeq
<1>4. Rem = TheList
  <2>1. \A k \in 1 .. Len(cmds) : (cmds[k] \in Left <=> cmds[k] \in Of(OfList)) /\ Alike(cmds[k], cmds[k])
    BY <1>3 DEF Left, Of, Alike
  <2>2. Listed(cmds, Left) = Listed(cmds, Of(OfList))
    BY <1>3, <2>1, ListedSame
  <2> QED
    BY <1>1, <2>2 DEF Rem, TheList
<1>5. PICK q : q = TheList
  OBVIOUS
<1>6. q \in Seq(Command) /\ <<>> \in Seq(Command) /\ <<>> \o q = q /\ <<>> \o <<>> = <<>>
  <2>1. q \in Seq(Command)
    BY <1>1, <1>3, <1>5, ListedType DEF TheList
  <2> QED
    BY <2>1, ConcatEmptySeq
<1>7. Sent = <<>>
  BY <1>1, <1>6, ListedNone DEF Sent
<1>8. Splits(<<>>, q, <<>>)
  BY <1>5, <1>6, <1>7, ListedNone DEF Splits
<1>9. KeyInv(<<>>)
  BY <1>1 DEF KeyInv, TheList
<1>10. Delivered(<<>>, q, <<>>)
  BY <1>1, <1>4, <1>5, <1>8, <1>9, ListedNone DEF Delivered
<1> QED
  BY <1>10 DEF DeliverInv

LEMMA KindInit == Init => KindInv
<1> SUFFICES ASSUME Init PROVE KindInv
  OBVIOUS
<1>1. job \in Jobs /\ cmds = CommandsOf(job)
  BY DEF Init
<1> DEFINE S == (Heads \cup Earlies) \cup Tasks(job)
           l == <<Make("close", "")>>
<1>2. PICK m \in Seq(S) : cmds = m \o l
  BY <1>1, ListAtFirst DEF Built
<1>3. \A c \in S : /\ c.op = "spell" => job.kind = "define"
                   /\ c.op = "wind" => job.kind = "wind"
  <2>1. job.kind \in {"none", "match", "define", "wind"}
    BY <1>1, ClientAssumption
  <2>2. \A c \in Heads \cup Earlies : c.op \notin {"spell", "wind"}
    BY DEF Heads, Earlies, Early
  <2>3. \A c \in Tasks(job) : /\ c.op = "spell" => job.kind = "define"
                              /\ c.op = "wind" => job.kind = "wind"
    BY <2>1 DEF Tasks
  <2> QED
    BY <2>2, <2>3
<1>4. PICK e : e = Make("close", "")
  OBVIOUS
<1>5. l \in Seq({e}) /\ Len(l) = 1 /\ l[1] = e /\ e.op = "close"
  <2>1. e.op = "close"
    BY <1>4 DEF Make
  <2>2. l = <<e>>
    BY <1>4
  <2> HIDE DEF l
  <2> QED
    BY <2>1, <2>2
<1> HIDE DEF S, l
<1>6. /\ Len(cmds) = Len(m) + 1 /\ Len(m) \in Nat
      /\ \A k \in 1 .. Len(m) : m[k] \in S /\ cmds[k] = m[k]
      /\ cmds[Len(m) + 1] = e
  <2>1. m \in Seq(S \cup {e}) /\ l \in Seq(S \cup {e})
    BY <1>5, SeqMonotonic, S \subseteq S \cup {e}, {e} \subseteq S \cup {e}
  <2>2. /\ Len(cmds) = Len(m) + Len(l)
        /\ \A k \in 1 .. Len(m) + Len(l) : cmds[k] = IF k <= Len(m) THEN m[k] ELSE l[k - Len(m)]
    BY <1>2, <2>1, ConcatProperties
  <2>3. Len(m) \in Nat /\ \A k \in 1 .. Len(m) : m[k] \in S
    BY LenProperties, ElementOfSeq
  <2> QED
    BY <1>5, <2>2, <2>3
<1>7. ASSUME NEW k \in 1 .. Len(cmds)
      PROVE  /\ cmds[k].op = "spell" => job.kind = "define"
             /\ cmds[k].op = "wind" => job.kind = "wind"
  <2>1. k \in 1 .. Len(m) \/ k = Len(m) + 1
    BY <1>6
  <2> QED
    BY <1>3, <1>5, <1>6, <2>1
<1> QED
  BY <1>7 DEF KindInv

(* Every command of the list was on it before, or was added.               *)
LEMMA CommandsStay ==
    ASSUME ClientInv, Next
    PROVE  \A k \in 1 .. Len(cmds') :
             \/ \E m \in 1 .. Len(cmds) : Alike(cmds'[k], cmds[m])
             \/ cmds'[k].op \in {"match", "define", "defprint"}
<1>1. cmds \in Seq(Shaped)
  BY ShapedList
<1>2. CASE cmds' = cmds
  BY <1>2 DEF Alike
<1>3. CASE Request
  <2>1. Len(cmds') = Len(cmds) /\ \A k \in 1 .. Len(cmds) : Alike(cmds'[k], cmds[k])
    BY <1>3, RequestMarks
  <2> QED
    BY <2>1
<1>4. CASE ConnectFails
  <2>1. cmds' = cmds \/ cmds' = Unsent
    BY <1>4 DEF ConnectFails
  <2>2. Len(Unsent) = Len(cmds) /\ \A k \in 1 .. Len(cmds) : Alike(Unsent[k], cmds[k])
    BY <1>1, UnsentShape
  <2> QED
    BY <1>2, <2>1, <2>2
<1>5. CASE Await \/ PassOver \/ PrintReply \/ PrintDefinitions
  <2>1. pc = "process" /\ cmds' = Tail(cmds)
    BY <1>5 DEF Await, PassOver, PrintReply, PrintDefinitions, Pop
  <2>2. cmds # <<>>
    BY <2>1 DEF ClientInv, HostInv
  <2> QED
    BY <1>1, <2>1, <2>2, TailAlike
<1>6. CASE Spell \/ Wind
  <2>1. PICK new \in Seq(AddedBy(Top.op)) : cmds' = new \o Tail(cmds)
    BY <1>6, ListGrowsBy
  <2>2. pc = "process" /\ cmds # <<>>
    BY <1>6 DEF Spell, Wind, Pop, ClientInv, HostInv
  <2>3. PICK t : t = Tail(cmds)
    OBVIOUS
  <2>4. /\ t \in Seq(Shaped)
        /\ \A k \in 1 .. Len(t) : \E m \in 1 .. Len(cmds) : Alike(t[k], cmds[m])
    BY <1>1, <2>2, <2>3, TailAlike, TopShape
  <2>5. Len(new) \in Nat /\ Len(t) \in Nat /\ \A k \in 1 .. Len(new) : new[k].op \in {"match", "define", "defprint"}
    BY <2>4, LenProperties, ElementOfSeq DEF AddedBy
  <2>6. /\ Len(cmds') = Len(new) + Len(t)
        /\ \A k \in 1 .. Len(new) + Len(t) : cmds'[k] = IF k <= Len(new) THEN new[k] ELSE t[k - Len(new)]
    BY <2>1, <2>3, <2>4
  <2> SUFFICES ASSUME NEW k \in 1 .. Len(cmds')
               PROVE  \/ \E m \in 1 .. Len(cmds) : Alike(cmds'[k], cmds[m])
                      \/ cmds'[k].op \in {"match", "define", "defprint"}
    OBVIOUS
  <2>7. CASE k <= Len(new)
    BY <2>5, <2>6, <2>7
  <2>8. CASE ~(k <= Len(new))
    <3>1. k - Len(new) \in 1 .. Len(t) /\ cmds'[k] = t[k - Len(new)]
      BY <2>5, <2>6, <2>8
    <3> QED
      BY <2>4, <3>1
  <2> QED
    BY <2>7, <2>8
<1>7. CASE ReadStatus
  <2>1. CASE cur.op = "connect" /\ cmds' = Connected
    <3>1. Connecting /\ HostInv
      BY <1>7, <2>1 DEF Connecting, ReadStatus, ClientInv
    <3>2. \E k \in 1 .. Len(cmds) : cmds[k].op # "connect"
      BY <3>1 DEF HostInv
    <3>3. PICK a \in Seq(Shaped) : cmds = a \o Connected
      BY <1>1, <3>2, ConnectedParts
    <3>4. PICK c : c = Connected
      OBVIOUS
    <3>5. c \in Seq(Shaped)
      BY <1>1, <3>2, <3>4, ConnectedParts
    <3>6. Len(a) \in Nat /\ Len(c) \in Nat
      BY <3>5
    <3>7. \A k \in 1 .. Len(c) : Len(a) + k \in 1 .. Len(cmds) /\ cmds[Len(a) + k] = c[k]
      BY <3>3, <3>4, <3>5, <3>6
    <3> QED
      BY <2>1, <3>4, <3>7 DEF Alike
  <2> QED
    BY <1>2, <1>7, <2>1 DEF ReadStatus
<1>8. CASE Connect \/ Write \/ WriteFails \/ Finish
  BY <1>2, <1>8 DEF Connect, Write, WriteFails, Finish, listVars
<1>9. CASE ReadText \/ ReadFinal \/ ReadDefinition \/ ReadDefText \/ ReadEnd
  BY <1>2, <1>9 DEF ReadText, ReadFinal, ReadDefinition, ReadDefText, ReadEnd, listVars
<1>10. CASE ServerNext \/ Close \/ Ended
  BY <1>2, <1>10 DEF ServerNext, Greet, Serve, Deliver, Close, Ended, vars, listVars
<1> QED
  BY <1>3, <1>4, <1>5, <1>6, <1>7, <1>8, <1>9, <1>10 DEF Next, ClientNext

LEMMA JobStays == ASSUME Next PROVE job' = job
<1>1. CASE ClientNext
  BY <1>1 DEF ClientNext, Request, Connect, ConnectFails, Write, WriteFails, Finish, Await, PassOver,
     PrintReply, PrintDefinitions, Spell, Wind, ReadStatus, ReadText, ReadFinal, ReadDefinition,
     ReadDefText, ReadEnd, listVars
<1>2. CASE ServerNext \/ Close \/ Ended
  BY <1>2 DEF ServerNext, Greet, Serve, Deliver, Close, Ended, vars, listVars
<1> QED
  BY <1>1, <1>2 DEF Next

LEMMA KindKept == ASSUME ClientInv, KindInv, Next PROVE KindInv'
<1>1. job' = job
  BY JobStays
<1>2. ASSUME NEW k \in 1 .. Len(cmds')
      PROVE  /\ cmds'[k].op = "spell" => job.kind = "define"
             /\ cmds'[k].op = "wind" => job.kind = "wind"
  <2>1. CASE \E m \in 1 .. Len(cmds) : Alike(cmds'[k], cmds[m])
    BY <2>1 DEF KindInv, Alike
  <2>2. CASE cmds'[k].op \in {"match", "define", "defprint"}
    BY <2>2
  <2> QED
    BY <2>1, <2>2, CommandsStay
<1> QED
  BY <1>1, <1>2 DEF KindInv

-----------------------------------------------------------------------------
LEMMA DeliverKept == ASSUME ClientInv, KindInv, DeliverInv, Next PROVE DeliverInv'
<1>1. PICK P, Q, R : Delivered(P, Q, R)
  BY DEF DeliverInv
<1>2. Delivered(P, Q, R)' => DeliverInv'
  BY DEF DeliverInv
<1>3. CASE Request
  BY <1>1, <1>2, <1>3, DeliveredIdle, DeliveredRequest
<1>4. CASE Connect
  BY <1>1, <1>2, <1>4, DeliveredConnect
<1>5. CASE ConnectFails /\ pc' # "ended"
  BY <1>5, DeliveredConnectFails
<1>6. CASE Write
  BY <1>1, <1>6, DeliveredWrite
<1>7. CASE WriteFails \/ Finish \/ ReadEnd \/ (ConnectFails /\ pc' = "ended")
  <2>1. pc' = "ended" /\ UNCHANGED <<job, host, msgid, got, toServer>>
    BY <1>7 DEF WriteFails, Finish, ReadEnd, ConnectFails, End, listVars, hostVars, netVars
  <2> QED
    BY <1>1, <1>2, <2>1, DeliveredEnd
<1>8. CASE Await \/ PassOver \/ PrintReply \/ PrintDefinitions
  BY <1>1, <1>2, <1>8, DeliveredPopped, DeliveredAuth
<1>9. CASE Spell \/ Wind
  BY <1>1, <1>2, <1>9, DeliveredGrow
<1>10. CASE ReadStatus
  BY <1>1, <1>2, <1>10, DeliveredStatus
<1>11. CASE ReadText \/ ReadFinal \/ ReadDefinition \/ ReadDefText
  BY <1>1, <1>2, <1>11, DeliveredRead
<1>12. CASE ServerNext
  BY <1>1, <1>2, <1>12, DeliveredServer
<1>13. CASE Close
  BY <1>1, <1>13, DeliveredClose
<1>14. CASE Ended
  <2>1. pc' = "ended" /\ UNCHANGED <<job, host, msgid, got, toServer>>
    BY <1>14 DEF Ended, vars, listVars, hostVars, netVars
  <2> QED
    BY <1>1, <1>2, <2>1, DeliveredEnd
<1> QED
  BY <1>3, <1>4, <1>5, <1>6, <1>7, <1>8, <1>9, <1>10, <1>11, <1>12, <1>13, <1>14 DEF Next, ClientNext

-----------------------------------------------------------------------------
(* The server says 221 only when it has read "quit".                       *)
WireOps == {"client", "auth", "mime", "info", "dbs", "match", "define", "close"}

WiresInv ==
    /\ \A k \in 1 .. Len(toServer) : toServer[k].op \in WireOps
    /\ \A k \in 1 .. Len(batch) : batch[k].op \in WireOps

Quit == \E n \in 1 .. Len(got) : got[n].op = "close"

CloseInv ==
    /\ retcode = 221 => Quit
    /\ \A k \in 1 .. Len(toClient) : toClient[k].code = 221 => Quit
    /\ \A k \in 1 .. Len(answer) : answer[k].code = 221 => Quit

LEMMA AnswersCodes ==
    ASSUME NEW c \in Shaped, c.op \in WireOps \cup {"connect"}, c.op # "close", NEW s \in Answers(c)
    PROVE  \A k \in 1 .. Len(s) : s[k].code # 221
<1>1. ASSUME NEW codes, 221 \notin codes, s \in Single(c, codes)
      PROVE  \A k \in 1 .. Len(s) : s[k].code # 221
  <2>1. PICK code \in codes : s = <<Reply(c, code, 0, <<>>)>>
    BY <1>1 DEF Single
  <2>2. Len(s) = 1 /\ s[1].code = code
    BY <2>1 DEF Reply
  <2> QED
    BY <1>1, <2>2
<1>2. ASSUME NEW code, code # 221, NEW n, NEW t, s \in WithText(c, code, n, t)
      PROVE  \A k \in 1 .. Len(s) : s[k].code # 221
  <2> DEFINE x == Reply(c, code, n, <<>>)
             y == Reply(c, 0, 0, If(MimeOn, <<Blank>>) \o t)
             z == Reply(c, 250, 0, <<>>)
  <2>1. x.code = code /\ y.code = 0 /\ z.code = 250
    BY DEF Reply
  <2>2. s = <<x, y, z>>
    BY <1>2 DEF WithText
  <2> HIDE DEF x, y, z
  <2>3. Len(s) = 3 /\ s[1] = x /\ s[2] = y /\ s[3] = z
    BY <2>2
  <2> QED
    BY <1>2, <2>1, <2>3
<1>3. ASSUME c.op = "define", s \in Definitions(c)
      PROVE  \A k \in 1 .. Len(s) : s[k].code # 221
  <2> DEFINE n == Defs[c.word]
             x == Reply(c, 150, n, <<>>)
             d(k) == Reply(c, IF k % 2 = 1 THEN 151 ELSE 0, 0, <<>>)
             z == Reply(c, 250, 0, <<>>)
             D == {l \in {x, z} \cup {d(k) : k \in 1 .. 2 * n} : l.code # 221}
             a == <<x>>
             b == [k \in 1 .. 2 * n |-> d(k)]
             e == <<z>>
  <2>1. x.code = 150 /\ z.code = 250 /\ \A k : d(k).code \in {151, 0}
    BY DEF Reply
  <2>2. s = (a \o b) \o e
    BY <1>3 DEF Definitions
  <2>3. n \in Nat
    <3>1. c.word \in Words
      BY <1>3 DEF Shaped, Shape
    <3> QED
      BY <3>1, ClientAssumption
  <2> HIDE DEF x, z, d, n
  <2>4. x \in D /\ z \in D /\ \A k \in 1 .. 2 * n : d(k) \in D
    BY <2>1
  <2> HIDE DEF D
  <2>5. a \in Seq(D) /\ b \in Seq(D) /\ e \in Seq(D)
    BY <2>3, <2>4
  <2> HIDE DEF a, b, e
  <2>6. a \o b \in Seq(D)
    BY <2>5, ConcatProperties
  <2>7. s \in Seq(D)
    BY <2>2, <2>5, <2>6, ConcatProperties
  <2> QED
    BY <2>7, ElementOfSeq DEF D
<1>4. CASE c.op = "connect"
  <2>1. CASE s \in Single(c, {420, 530})
    BY <1>1, <2>1
  <2>2. CASE s \in {<<Reply(c, 220, n, <<>>)>> : n \in {0, 1}}
    <3>1. PICK n \in {0, 1} : s = <<Reply(c, 220, n, <<>>)>>
      BY <2>2
    <3>2. Len(s) = 1 /\ s[1].code = 220
      BY <3>1 DEF Reply
    <3> QED
      BY <3>2
  <2> QED
    BY <1>4, <2>1, <2>2 DEF Answers
<1>5. CASE c.op \in {"client", "mime", "auth"}
  <2>1. s \in Single(c, {250, 500}) \/ s \in Single(c, {230, 531})
    BY <1>5 DEF Answers
  <2> QED
    BY <1>1, <2>1
<1>6. CASE c.op = "info"
  <2>1. s \in Single(c, {550}) \/ s \in WithText(c, 112, 0, <<"info">>)
    BY <1>6 DEF Answers
  <2> QED
    BY <1>1, <1>2, <2>1
<1>7. CASE c.op = "dbs"
  <2>1. s \in Single(c, {554}) \/ s \in WithText(c, 110, 1, <<"dbs">>)
    BY <1>7 DEF Answers
  <2> QED
    BY <1>1, <1>2, <2>1
<1>8. CASE c.op = "match"
  <2>1. \/ s \in Single(c, {552}) \/ s \in Single(c, {420, 551})
        \/ s \in WithText(c, 152, Len(Near[c.word]), Near[c.word])
    BY <1>8 DEF Answers
  <2> QED
    BY <1>1, <1>2, <2>1
<1>9. CASE c.op = "define"
  <2>1. s \in Single(c, {552}) \/ s \in Single(c, {550}) \/ s \in Definitions(c)
    BY <1>9 DEF Answers
  <2> QED
    BY <1>1, <1>3, <1>9, <2>1
<1> QED
  BY <1>4, <1>5, <1>6, <1>7, <1>8, <1>9 DEF WireOps

LEMMA WiresCloseInit == Init => WiresInv /\ CloseInv
<1>1. ASSUME NEW s, s = <<>> PROVE \A k \in 1 .. Len(s) : FALSE
  BY <1>1
<1>2. Init => toServer = <<>> /\ batch = <<>> /\ toClient = <<>> /\ answer = <<>> /\ retcode = 0
  BY DEF Init
<1> QED
  BY <1>1, <1>2 DEF WiresInv, CloseInv

LEMMA WiresKept == ASSUME ClientInv, WiresInv, Next PROVE WiresInv'
<1>1. TypeOK /\ toServer \in Seq(Command) /\ batch \in Seq(Command)
  BY DEF ClientInv, TypeOK
<1>2. CASE UNCHANGED <<toServer, batch>>
  BY <1>2 DEF WiresInv
<1>3. CASE Request
  <2>1. toServer' = toServer /\ (batch' = <<>> \/ batch' = Wire(Ahead))
    BY <1>3 DEF Request, netVars
  <2>2. \A k \in 1 .. Len(Wire(Ahead)) : Wire(Ahead)[k].op \in WireOps
    <3>1. Ahead \in Nat /\ Ahead <= Len(cmds) /\ cmds \in Seq(Command) /\ cmds \in Seq(Shaped)
      BY <1>3, RequestMarks, ShapedList
    <3>2. Wire(Ahead) = Sifted(cmds, OnWires)[Ahead]
      <4>1. \A i \in Nat : i <= Len(cmds) => Wire(i) = Sifted(cmds, OnWires)[i]
        BY <3>1, WireSifted
      <4> QED
        BY <3>1, <4>1
    <3>3. Wire(Ahead) \in Seq(Command \cap OnWires)
      BY <3>1, <3>2, SiftedIn
    <3>4. \A c \in OnWires : c.op \in WireOps
      BY DEF OnWires, OnWire, WireOps
    <3> QED
      BY <3>3, <3>4, ElementOfSeq
  <2> QED
    BY <2>1, <2>2, NoElements DEF WiresInv
<1>4. CASE ConnectFails
  BY <1>4, NoElements DEF ConnectFails, netVars, WiresInv
<1>5. CASE Write
  <2>1. batch' = <<>> /\ (toServer' = toServer \/ toServer' = toServer \o batch)
    BY <1>5 DEF Write
  <2>2. \A k \in 1 .. Len(toServer \o batch) : (toServer \o batch)[k].op \in WireOps
    <3> DEFINE t == toServer \o batch
    <3>1. /\ Len(t) = Len(toServer) + Len(batch) /\ Len(toServer) \in Nat /\ Len(batch) \in Nat
          /\ \A k \in 1 .. Len(toServer) + Len(batch) :
               t[k] = IF k <= Len(toServer) THEN toServer[k] ELSE batch[k - Len(toServer)]
      BY <1>1, ConcatProperties, LenProperties
    <3> HIDE DEF t
    <3> SUFFICES ASSUME NEW k \in 1 .. Len(t) PROVE t[k].op \in WireOps
      BY DEF t
    <3>2. CASE k <= Len(toServer)
      BY <3>1, <3>2 DEF WiresInv
    <3>3. CASE ~(k <= Len(toServer))
      <4>1. k - Len(toServer) \in 1 .. Len(batch) /\ t[k] = batch[k - Len(toServer)]
        BY <3>1, <3>3
      <4> QED
        BY <4>1 DEF WiresInv
    <3> QED
      BY <3>2, <3>3
  <2>3. \A k \in 1 .. Len(<<>>) : FALSE
    OBVIOUS
  <2>4. \A k \in 1 .. Len(toServer') : toServer'[k].op \in WireOps
    BY <2>1, <2>2 DEF WiresInv
  <2> QED
    BY <2>1, <2>3, <2>4 DEF WiresInv
<1>6. CASE Serve
  <2>1. toServer # <<>> /\ toServer' = Tail(toServer) /\ batch' = batch
    BY <1>6 DEF Serve
  <2>2. \A k \in 1 .. Len(Tail(toServer)) : k + 1 \in 1 .. Len(toServer) /\ Tail(toServer)[k] = toServer[k + 1]
    BY <1>1, <2>1, HeadsAndTails
  <2> QED
    BY <2>1, <2>2 DEF WiresInv
<1>7. CASE Close
  BY <1>7, NoElements DEF Close, WiresInv
<1>8. CASE ClientNext /\ ~Request /\ ~ConnectFails /\ ~Write
  <2>1. UNCHANGED <<toServer, batch>>
    BY <1>8 DEF ClientNext, Connect, WriteFails, Finish, Await, PassOver, PrintReply, PrintDefinitions, Spell, Wind,
       ReadStatus, ReadText, ReadFinal, ReadDefinition, ReadDefText, ReadEnd, netVars
  <2> QED
    BY <1>2, <2>1
<1>9. CASE Greet \/ Deliver \/ Ended
  BY <1>2, <1>9 DEF Greet, Deliver, Ended, vars, netVars
<1> QED
  BY <1>3, <1>4, <1>5, <1>6, <1>7, <1>8, <1>9 DEF Next, ServerNext

LEMMA CloseKept == ASSUME ClientInv, WiresInv, CloseInv, Next PROVE CloseInv'
<1>1. /\ TypeOK /\ toServer \in Seq(Shaped) /\ toServer \in Seq(Command) /\ got \in Seq(Command)
      /\ toClient \in Seq(Lines) /\ answer \in Seq(Lines)
  BY DEF ClientInv, ShapeInv, TypeOK
<1>2. ASSUME UNCHANGED got PROVE Quit' = Quit
  BY <1>2 DEF Quit
<1>3. CASE Reading /\ toClient # <<>> /\ toClient' = Tail(toClient) /\ retcode' \in {retcode, Line.code} /\ UNCHANGED <<got, answer>>
  <2>1. \A k \in 1 .. Len(Tail(toClient)) : k + 1 \in 1 .. Len(toClient) /\ Tail(toClient)[k] = toClient[k + 1]
    BY <1>1, <1>3, HeadsAndTails
  <2>2. Line = toClient[1] /\ 1 \in 1 .. Len(toClient)
    BY <1>1, <1>3, HeadsAndTails DEF Line
  <2> QED
    BY <1>2, <1>3, <2>1, <2>2 DEF CloseInv
<1>4. CASE ReadStatus \/ ReadText \/ ReadFinal \/ ReadDefinition \/ ReadDefText
  <2>1. Reading /\ toClient # <<>> /\ toClient' = Tail(toClient) /\ retcode' \in {retcode, Line.code} /\ UNCHANGED <<got, answer>>
    BY <1>4 DEF ReadStatus, ReadText, ReadFinal, ReadDefinition, ReadDefText, Take, Reading
  <2> QED
    BY <1>3, <2>1
<1>5. CASE UNCHANGED <<got, toClient, answer, retcode>>
  BY <1>2, <1>5 DEF CloseInv
<1>6. CASE ClientNext /\ ~(ReadStatus \/ ReadText \/ ReadFinal \/ ReadDefinition \/ ReadDefText)
  <2>1. UNCHANGED <<got, toClient, answer, retcode>>
    BY <1>6 DEF ClientNext, Request, Connect, ConnectFails, Write, WriteFails, Finish, Await, PassOver, PrintReply,
       PrintDefinitions, Spell, Wind, ReadEnd, netVars, replyVars
  <2> QED
    BY <1>5, <2>1
<1>7. ASSUME NEW c \in Shaped, c.op \in WireOps \cup {"connect"}, answer' \in Answers(c),
             got' = Append(got, c), UNCHANGED <<toClient, retcode>>
      PROVE  CloseInv'
  <2>1. c \in Command /\ Len(got) \in Nat
    BY <1>1 DEF Shaped
  <2>2. Len(got') = Len(got) + 1 /\ got'[Len(got) + 1] = c /\ \A k \in 1 .. Len(got) : got'[k] = got[k]
    BY <1>1, <1>7, <2>1
  <2>3. Quit \/ c.op = "close" => Quit'
    BY <2>1, <2>2 DEF Quit
  <2>4. c.op # "close" => \A k \in 1 .. Len(answer') : answer'[k].code # 221
    BY <1>7, AnswersCodes
  <2> QED
    BY <1>7, <2>3, <2>4 DEF CloseInv
<1>8. CASE Greet
  <2> DEFINE c == Make("connect", host)
  <2>1. c \in Shaped /\ c.op = "connect"
    <3>1. open
      BY <1>8 DEF Greet
    <3>2. c.op = "connect"
      BY DEF Make
    <3> QED
      BY <3>1, <3>2, GreetingShape
  <2>2. got' = Append(got, c) /\ answer' \in Answers(c) /\ UNCHANGED <<toClient, retcode>>
    BY <1>8 DEF Greet, replyVars
  <2> HIDE DEF c
  <2> QED
    BY <1>7, <2>1, <2>2
<1>9. CASE Serve
  <2> DEFINE c == Head(toServer)
  <2>1. toServer # <<>> /\ got' = Append(got, c) /\ answer' \in Answers(c) /\ UNCHANGED <<toClient, retcode>>
    BY <1>9 DEF Serve, replyVars
  <2>2. c = toServer[1] /\ 1 \in 1 .. Len(toServer) /\ c \in Shaped
    BY <1>1, <2>1, HeadsAndTails
  <2>3. c.op \in WireOps
    BY <2>2 DEF WiresInv
  <2> HIDE DEF c
  <2> QED
    BY <1>7, <2>1, <2>2, <2>3
<1>10. CASE Deliver
  <2> DEFINE h == Head(answer)
  <2>1. /\ answer # <<>> /\ toClient' = Append(toClient, h) /\ answer' = Tail(answer)
        /\ UNCHANGED <<got, retcode>>
    BY <1>10 DEF Deliver, replyVars
  <2>2. /\ h = answer[1] /\ 1 \in 1 .. Len(answer) /\ h \in Lines
        /\ \A k \in 1 .. Len(Tail(answer)) : k + 1 \in 1 .. Len(answer) /\ Tail(answer)[k] = answer[k + 1]
    BY <1>1, <2>1, HeadsAndTails
  <2> HIDE DEF h
  <2>3. /\ Len(toClient') = Len(toClient) + 1 /\ Len(toClient) \in Nat /\ toClient'[Len(toClient) + 1] = h
        /\ \A k \in 1 .. Len(toClient) : toClient'[k] = toClient[k]
    BY <1>1, <2>1, <2>2
  <2>4. \A k \in 1 .. Len(toClient') : toClient'[k].code = 221 => Quit
    <3> SUFFICES ASSUME NEW k \in 1 .. Len(toClient'), toClient'[k].code = 221 PROVE Quit
      OBVIOUS
    <3>1. k \in 1 .. Len(toClient) \/ k = Len(toClient) + 1
      BY <2>3
    <3> QED
      BY <2>2, <2>3, <3>1 DEF CloseInv
  <2> QED
    BY <1>2, <2>1, <2>2, <2>4 DEF CloseInv
<1>11. CASE Close
  BY <1>2, <1>11, NoElements DEF Close, CloseInv, replyVars
<1>12. CASE Ended
  BY <1>5, <1>12 DEF Ended, vars, netVars, replyVars
<1> QED
  BY <1>4, <1>6, <1>8, <1>9, <1>10, <1>11, <1>12 DEF Next, ServerNext

(* What is due ends with "quit", and has it nowhere else.                  *)
LEMMA DueLast ==
    ASSUME TypeOK, NEW d, d = Listed(CommandsOf(job), Of(Due))
    PROVE  d \in Seq(Command) /\ Len(d) \in Nat /\ \A n \in 1 .. Len(d) : d[n].op = "close" => n = Len(d)
<1>1. job \in Jobs
  BY DEF TypeOK
<1> DEFINE S == (Heads \cup Earlies) \cup Tasks(job)
<1>2. PICK c : c = Make("close", "")
  OBVIOUS
<1> DEFINE l == <<c>>
<1>3. PICK m \in Seq(S) : CommandsOf(job) = m \o l
  BY <1>1, <1>2, ListAtFirst DEF Built
<1>4. c \in Command /\ c.op = "close" /\ c.word = ""
  BY <1>2 DEF Make, Command, Ops
<1>5. l \in Seq(Command)
  <2>1. c \in Command
    BY <1>4
  <2> HIDE DEF S
  <2> QED
    BY <2>1
<1>6. \A x \in S : x \in Command /\ x.op \notin {"close"}
  <2>1. Heads \cup Earlies \subseteq Fresh /\ Tasks(job) \subseteq Fresh /\ Fresh \subseteq Command
    BY DEF Heads, Earlies, Tasks, Fresh, Shaped
  <2> QED
    BY <2>1 DEF Heads, Earlies, Tasks, Early
<1> HIDE DEF S
<1>7. m \in Seq(Command) /\ \A n \in 1 .. Len(m) : m[n].op \notin {"close"}
  BY <1>6, SeqMonotonic, S \subseteq Command, ElementOfSeq
<1> DEFINE o == Of(Due)
<1>8. c \in o
  BY <1>4, OnList DEF Of, OfList
<1>9. PICK e : e = Make(c.op, c.word)
  OBVIOUS
<1>10. e.op = "close" /\ e \in Command /\ Listed(l, o) = <<e>>
  <2>1. c \in Command
    BY <1>4
  <2> HIDE DEF o
  <2>2. Listed(l, o) = <<Make(c.op, c.word)>>
    BY <1>8, <2>1, ListedOne
  <2>3. e.op = c.op /\ e \in Command
    BY <1>9, <2>1, MakeCommand
  <2> QED
    BY <1>4, <1>9, <2>2, <2>3
<1> HIDE DEF o, l
<1>11. Listed(m \o l, o) = Listed(m, o) \o Listed(l, o)
  BY <1>5, <1>7, ListedJoin
<1>12. PICK k : k = Listed(m, o)
  OBVIOUS
<1>13. k \in Seq(Command) /\ \A n \in 1 .. Len(k) : k[n].op \notin {"close"}
  BY <1>7, <1>12, ListedType, ListedOnly
<1>14. d = k \o <<e>>
  BY <1>3, <1>10, <1>11, <1>12 DEF o
<1>15. d \in Seq(Command) /\ Len(d) = Len(k) + 1 /\ Len(k) \in Nat /\ \A n \in 1 .. Len(k) : d[n] = k[n]
  BY <1>10, <1>13, <1>14
<1>16. ASSUME NEW n \in 1 .. Len(d), d[n].op = "close" PROVE n = Len(d)
  <2>1. n \notin 1 .. Len(k)
    BY <1>13, <1>15, <1>16
  <2> QED
    BY <1>15, <2>1
<1> QED
  BY <1>15, <1>16

LEMMA DeliveredRight ==
    ASSUME TypeOK, DeliverInv, CloseInv
    PROVE  CommandsDelivered
<1>1. PICK P, Q, R : Splits(P, Q, R)
  BY DEF DeliverInv, Delivered
<1>2. PICK d : d = Listed(CommandsOf(job), Of(Due))
  OBVIOUS
<1>3. PICK s : s = Sent
  OBVIOUS
<1>4. P \in Seq(Command) /\ Q \in Seq(Command) /\ R \in Seq(Command) /\ s \in Seq(Command)
  BY <1>1, <1>3, ListTypes DEF Splits
<1>5. PICK x : x = Listed(Q, Of(Due))
  OBVIOUS
<1>6. PICK y : y = R \o x
  OBVIOUS
<1>7. x \in Seq(Command)
  BY <1>4, <1>5, ListedType
<1>8. y \in Seq(Command)
  BY <1>4, <1>6, <1>7, ConcatProperties
<1>9. d = s \o y
  <2>1. d = Listed(TheList, Of(Due))
    <3>1. Listed(Listed(CommandsOf(job), Of(OfList)), Of(Due)) = Listed(CommandsOf(job), Of(Due))
      BY ListTypes, OnList, ListedOf
    <3> QED
      BY <1>2, <3>1 DEF TheList
  <2>2. Listed(P \o Q, Of(Due)) = Listed(P, Of(Due)) \o Listed(Q, Of(Due))
    BY <1>4, ListedJoin, SMTT(30)
  <2>3. (s \o R) \o x = s \o (R \o x)
    BY <1>4, <1>7, Regroup, SMTT(30)
  <2> QED
    BY <1>1, <1>3, <1>5, <1>6, <2>1, <2>2, <2>3 DEF Splits
<1>10. /\ Len(d) = Len(s) + Len(y) /\ Len(s) \in Nat /\ Len(y) \in Nat
       /\ \A n \in 1 .. Len(s) : d[n] = s[n]
  BY <1>4, <1>8, <1>9
<1>11. IsPrefix(s, d)
  BY <1>4, <1>10 DEF IsPrefix
<1>12. ASSUME Quit PROVE s = d
  <2>1. PICK g : g = got \o toServer
    OBVIOUS
  <2>2. got \in Seq(Command) /\ toServer \in Seq(Command) /\ g \in Seq(Command)
    BY <2>1, ListTypes
  <2>3. PICK n \in 1 .. Len(g) : g[n].op = "close"
    BY <1>12, <2>1, <2>2 DEF Quit
  <2>4. g[n] \in Of(OfList)
    <3>1. "close" \in OfList
      BY DEF OfList
    <3>2. g[n] \in Command
      BY <2>2, ElementOfSeq
    <3> QED
      BY <2>3, <3>1, <3>2 DEF Of
  <2>5. s = Listed(g, Of(OfList))
    BY <1>3, <2>1 DEF Sent
  <2>6. PICK m \in 1 .. Len(s) : s[m] = Make(g[n].op, g[n].word)
    BY <2>2, <2>4, <2>5, ListedHas
  <2>7. s[m].op = "close"
    BY <2>3, <2>6 DEF Make
  <2>8. m \in 1 .. Len(d) /\ d[m].op = "close"
    BY <1>10, <2>7
  <2>9. m = Len(d)
    BY <1>2, <2>8, DueLast
  <2>10. Len(s) = Len(d)
    BY <1>10, <2>9
  <2>11. d \in Seq(Command)
    BY <1>2, DueLast
  <2> QED
    BY <1>4, <1>10, <2>10, <2>11, SeqEqual
<1>13. Bare(CommandsOf(job), Due) = d /\ Bare(got \o toServer, OfList) = s
  <2>1. CommandsOf(job) \in Seq(Command) /\ got \o toServer \in Seq(Command)
    BY ListTypes
  <2>2. \A t \in Seq(Command) : Bare(t, Due) = Listed(t, Of(Due)) /\ Bare(t, OfList) = Listed(t, Of(OfList))
    BY BareListed
  <2> QED
    BY <1>2, <1>3, <2>1, <2>2 DEF Sent
<1>14. retcode = 221 => Quit
  BY DEF CloseInv
<1> QED
  BY <1>11, <1>12, <1>13, <1>14 DEF CommandsDelivered

OrderInv == ClientInv /\ KindInv /\ DeliverInv /\ WiresInv /\ CloseInv

LEMMA OrderInvStep == OrderInv /\ [Next]_vars => OrderInv'
<1> SUFFICES ASSUME OrderInv, [Next]_vars PROVE OrderInv'
  OBVIOUS
<1>1. ClientInv'
  BY ClientInvStep DEF OrderInv
<1>2. CASE Next
  BY <1>1, <1>2, KindKept, DeliverKept, WiresKept, CloseKept DEF OrderInv
<1>3. CASE UNCHANGED vars
  <2>1. KindInv' /\ WiresInv' /\ CloseInv'
    BY <1>3 DEF OrderInv, KindInv, WiresInv, CloseInv, Quit, vars, listVars, replyVars, netVars
  <2>2. DeliverInv'
    <3>1. PICK P, Q, R : Delivered(P, Q, R)
      BY DEF OrderInv, DeliverInv
    <3>2. UNCHANGED <<job, cmds, cur, pc, batch, host, key, msgid, open, got, toServer>>
      BY <1>3 DEF vars, listVars, hostVars, netVars
    <3>3. /\ OfList' = OfList /\ Due' = Due /\ Sent' = Sent /\ TheList' = TheList /\ Left' = Left
          /\ Rem' = Rem /\ Of(OfList)' = Of(OfList) /\ Of(Due)' = Of(Due) /\ Connecting' = Connecting
      BY <3>2 DEF OfList, Asked, Due, Sent, TheList, Left, Rem, Of, Connecting, Greeting, Top
    <3>4. Delivered(P, Q, R)'
      BY <3>1, <3>2, <3>3 DEF Delivered, Splits, KeyInv
    <3> QED
      BY <3>4 DEF DeliverInv
  <2> QED
    BY <1>1, <2>1, <2>2 DEF OrderInv
<1> QED
  BY <1>2, <1>3

(* The server is sent a beginning of the list main() built, every command  *)
(* once and in order, and all of it when the session ends with "quit":     *)
(* for every list of servers and of words, every size of the pipe, however *)
(* many servers refused the connection before, and with whatever           *)
(* corrections and matches put in front of the list (dict.c:640-743,       *)
(* 1040-1165).                                                             *)
THEOREM CommandsAreDelivered == Spec => []CommandsDelivered
<1>1. Init => OrderInv
  BY ClientInvInit, KindInit, DeliverInit, WiresCloseInit DEF OrderInv
<1>2. OrderInv => CommandsDelivered
  BY DeliveredRight DEF OrderInv, ClientInv
<1> QED
  BY <1>1, <1>2, OrderInvStep, PTL DEF Spec

-----------------------------------------------------------------------------
(* What prints or winds the matches of a word comes right after the        *)
(* command that asks for them.                                             *)
Closes(c) == c.op \in {"print", "wind"} /\ c.word # ""
Opens(c, d) == c.op = "match" /\ c.word = d.word
Paired(s) == \A k \in 1 .. Len(s) : Closes(s[k]) => k > 1 /\ Opens(s[k - 1], s[k])
Pairs == {s \in Seq(Command) : Paired(s)}

(* Lists in which every such command has its MATCH before it: joined, and  *)
(* put together from parts, they are such lists again.                     *)
LEMMA PairedJoin ==
    ASSUME NEW s \in Pairs, NEW t \in Pairs
    PROVE  s \o t \in Pairs
<1> DEFINE u == s \o t
<1>1. s \in Seq(Command) /\ t \in Seq(Command) /\ Paired(s) /\ Paired(t)
  BY DEF Pairs
<1>2. /\ u \in Seq(Command) /\ Len(u) = Len(s) + Len(t) /\ Len(s) \in Nat /\ Len(t) \in Nat
      /\ \A k \in 1 .. Len(s) + Len(t) : u[k] = IF k <= Len(s) THEN s[k] ELSE t[k - Len(s)]
  BY <1>1, ConcatProperties, LenProperties
<1> HIDE DEF u
<1>3. ASSUME NEW k \in 1 .. Len(u), Closes(u[k]) PROVE k > 1 /\ Opens(u[k - 1], u[k])
  <2>1. CASE k <= Len(s)
    <3>1. k \in 1 .. Len(s) /\ u[k] = s[k] /\ (k > 1 => u[k - 1] = s[k - 1])
      BY <1>2, <2>1
    <3> QED
      BY <1>1, <1>3, <3>1 DEF Paired
  <2>2. CASE ~(k <= Len(s))
    <3>1. PICK i : i = k - Len(s)
      OBVIOUS
    <3>2. i \in 1 .. Len(t) /\ u[k] = t[i]
      BY <1>2, <2>2, <3>1
    <3>3. i > 1 /\ Opens(t[i - 1], t[i])
      BY <1>1, <1>3, <3>2 DEF Paired
    <3>4. k - 1 \in 1 .. Len(s) + Len(t) /\ ~(k - 1 <= Len(s)) /\ (k - 1) - Len(s) = i - 1 /\ k > 1
      BY <1>2, <3>1, <3>3
    <3>5. u[k - 1] = t[i - 1]
      BY <1>2, <3>4
    <3> QED
      BY <3>2, <3>3, <3>4, <3>5
  <2> QED
    BY <2>1, <2>2
<1> QED
  BY <1>2, <1>3 DEF Pairs, Paired, u

LEMMA PairedNone ==
    ASSUME NEW s \in Seq(Command), \A k \in 1 .. Len(s) : ~Closes(s[k])
    PROVE  s \in Pairs
  BY DEF Pairs, Paired

LEMMA PairedFlat ==
    ASSUME NEW ss \in Seq(Pairs)
    PROVE  FlattenSeq(ss) \in Pairs
<1> DEFINE P == {tt \in Seq(Pairs) : FlattenSeq(tt) \in Pairs}
<1>1. <<>> \in P
  <2>1. PICK e : e = <<>>
    OBVIOUS
  <2>2. e \in Seq(Command) /\ Len(e) = 0
    BY <2>1, NoCommands
  <2>3. \A k \in 1 .. Len(e) : ~Closes(e[k])
    BY <2>2
  <2>4. e \in Pairs
    BY <2>2, <2>3, PairedNone
  <2> QED
    BY <2>1, <2>4, FlattenNone
<1>2. ASSUME NEW tt \in Seq(Pairs), NEW x \in Pairs, tt \in P PROVE Append(tt, x) \in P
  <2>1. Append(tt, x) \in Seq(Pairs)
    OBVIOUS
  <2>2. tt \in Seq(Seq(Command)) /\ x \in Seq(Command)
    BY SeqMonotonic, Pairs \subseteq Seq(Command) DEF Pairs
  <2>3. FlattenSeq(Append(tt, x)) = FlattenSeq(tt) \o x
    BY <2>2, FlattenAppend
  <2>4. FlattenSeq(tt) \in Pairs
    BY <1>2
  <2> QED
    BY <2>1, <2>3, <2>4, PairedJoin
<1> HIDE DEF P
<1>3. \A tt \in Seq(Pairs) : tt \in P
  BY <1>1, <1>2, EverySequence
<1> QED
  BY <1>3 DEF P

(* The parts of the list that main() builds: what comes before the words,  *)
(* the commands for each word, and "quit".                                 *)
Firsts(j) == {c \in Heads \cup Earlies : c.op = "mime" => j.mime}
ForWords(j) == [n \in 1 .. Len(j.words) |-> ForWord(j, j.words[n])]

(* The list of init() and main() is these parts, one after the other.      *)
LEMMA ListParts ==
    ASSUME NEW j \in Jobs
    PROVE  /\ \E a \in Seq(Firsts(j)) :
                CommandsOf(j) = (a \o FlattenSeq(ForWords(j))) \o <<Make("close", "")>>
           /\ j.words \in Seq(Words)
<1> DEFINE F == Firsts(j)
           a == [n \in 1 .. Len(j.hosts) |-> Make("connect", j.hosts[n])]
           b == <<Make("client", "")>>
           c == If(j.auth, <<Make("auth", "")>>)
           d == If(j.mime, <<Make("mime", ""), Make("print", "")>>)
           e == If(j.info, <<Make("info", ""), Make("print", "")>>)
           f == If(j.dbs, <<Make("dbs", ""), Make("print", "")>>)
           g == FlattenSeq(ForWords(j))
           h == <<Make("close", "")>>
<1>1. CommandsOf(j) = ((((((a \o b) \o c) \o d) \o e) \o f) \o g) \o h
  BY DEF CommandsOf, ForWords
<1>2. j.hosts \in Seq(Hosts) /\ j.words \in Seq(Words)
  BY ClientAssumption
<1>3. a \in Seq(F)
  <2>1. ASSUME NEW w \in Hosts PROVE Make("connect", w) \in F
    <3>1. "connect" \in Ops /\ w \in Words \cup Hosts \cup {""}
      BY DEF Ops
    <3>2. Make("connect", w).op = "connect" /\ Make("connect", w).word = w
      BY <3>1, MakeFresh
    <3>3. Shape(Make("connect", w))
      BY <3>2 DEF Shape
    <3> QED
      BY <3>1, <3>2, <3>3, MakeFresh DEF Heads, Firsts
  <2>2. Len(j.hosts) \in Nat /\ \A n \in 1 .. Len(j.hosts) : j.hosts[n] \in Hosts
    BY <1>2
  <2> HIDE DEF F
  <2> QED
    BY <2>1, <2>2
<1>4. ASSUME NEW op \in {"client", "auth", "mime", "info", "dbs", "print"}, op = "mime" => j.mime
      PROVE  Make(op, "") \in F
  <2>1. Make(op, "") \in Earlies
    BY MakeEarly
  <2>2. Make(op, "").op = op
    BY DEF Make
  <2> QED
    BY <1>4, <2>1, <2>2 DEF Firsts
<1> HIDE DEF F
<1>5. ASSUME NEW B, NEW x, NEW y, B => x \in F /\ y \in F
      PROVE  If(B, <<x>>) \in Seq(F) /\ If(B, <<x, y>>) \in Seq(F)
  BY <1>5 DEF If
<1>6. b \in Seq(F) /\ c \in Seq(F)
  <2>1. Make("client", "") \in F /\ Make("auth", "") \in F
    BY <1>4
  <2>2. \A x \in F : <<x>> \in Seq(F)
    OBVIOUS
  <2>3. If(j.auth, <<Make("auth", "")>>) \in Seq(F)
    BY <1>5, <2>1
  <2> QED
    BY <2>1, <2>2, <2>3
<1>7. d \in Seq(F) /\ e \in Seq(F) /\ f \in Seq(F)
  <2>1. Make("print", "") \in F /\ Make("info", "") \in F /\ Make("dbs", "") \in F
    BY <1>4
  <2>2. j.mime => Make("mime", "") \in F
    BY <1>4
  <2> QED
    BY <1>5, <2>1, <2>2
<1> HIDE DEF a, b, c, d, e, f, g, h
<1>8. (a \o b) \o c \in Seq(F)
  BY <1>3, <1>6, ConcatProperties
<1>9. ((a \o b) \o c) \o d \in Seq(F)
  BY <1>7, <1>8, ConcatProperties
<1>10. ((((a \o b) \o c) \o d) \o e) \o f \in Seq(F)
  BY <1>7, <1>9, ConcatProperties
<1> QED
  BY <1>1, <1>2, <1>10 DEF F, g, h

(* The list has the command op for the word.                               *)
Has(s, op, w) == \E k \in 1 .. Len(s) : s[k].op = op /\ s[k].word = w

(* What prints or winds comes after what it prints or winds.               *)
PairInv == \A k \in 1 .. Len(cmds) : Closes(cmds[k]) => Opens(IF k = 1 THEN cur ELSE cmds[k - 1], cmds[k])

(* The matches of a word are those the server has for it.                  *)
NearLine(l) == l.op = "match" =>
    /\ l.count > 0 => l.count = Len(Near[l.word])
    /\ l.text # <<>> => l.text = Near[l.word]

(* So is every line the server is about to send or has sent (dictd's       *)
(* daemon_match() answers 152 with its matches, or 552).                   *)
LinesInv == ~job.mime =>
    /\ \A k \in 1 .. Len(toClient) : NearLine(toClient[k])
    /\ \A k \in 1 .. Len(answer) : NearLine(answer[k])

(* The reply to MATCH for the word at hand leaves it found, its matches    *)
(* counted and, once read, their text.                                     *)
FoundInv == ~job.mime /\ pc # "ended" /\ cur.op = "match" =>
    /\ match
    /\ pc # "status" /\ matches > 0 =>
        /\ matches = Len(Near[cur.word])
        /\ pc # "text" => data = Near[cur.word]

(* As long as nothing has failed, a word has been printed or will be.      *)
Promised(w) ==
    CASE job.kind = "match"  -> w \in shown \/ Has(cmds, "print", w)
      [] job.kind = "define" -> w \in shown \/ Has(cmds, "defprint", w)
      [] job.kind = "wind"   -> \/ Has(cmds, "wind", w)
                                \/ \A k \in 1 .. Len(Near[w]) :
                                     Near[w][k] \in shown \/ Has(cmds, "defprint", Near[w][k])
      [] OTHER -> TRUE

PromiseInv == ~job.mime /\ status = 0 => \A n \in 1 .. Len(job.words) : Promised(job.words[n])

(* The client ends with 0 only when the list is done and nothing failed.   *)
ZeroInv == exit = 0 => pc = "ended" /\ cmds = <<>> /\ status = 0

(* What joined lists have, and what the first list has for each word.      *)
LEMMA HasJoin ==
    ASSUME NEW s \in Seq(Command), NEW t \in Seq(Command), NEW op, NEW w
    PROVE  Has(s \o t, op, w) <=> Has(s, op, w) \/ Has(t, op, w)
<1> DEFINE u == s \o t
<1>1. /\ Len(u) = Len(s) + Len(t) /\ Len(s) \in Nat /\ Len(t) \in Nat
      /\ \A k \in 1 .. Len(s) + Len(t) : u[k] = IF k <= Len(s) THEN s[k] ELSE t[k - Len(s)]
  BY ConcatProperties, LenProperties
<1> HIDE DEF u
<1>2. ASSUME NEW k \in 1 .. Len(s) PROVE k \in 1 .. Len(u) /\ u[k] = s[k]
  BY <1>1
<1>3. ASSUME NEW k \in 1 .. Len(t) PROVE Len(s) + k \in 1 .. Len(u) /\ u[Len(s) + k] = t[k]
  <2>1. Len(s) + k \in 1 .. Len(s) + Len(t) /\ ~(Len(s) + k <= Len(s)) /\ (Len(s) + k) - Len(s) = k
    BY <1>1
  <2> QED
    BY <1>1, <2>1
<1>4. ASSUME NEW k \in 1 .. Len(u)
      PROVE  \/ k \in 1 .. Len(s) /\ u[k] = s[k]
             \/ k - Len(s) \in 1 .. Len(t) /\ u[k] = t[k - Len(s)]
  BY <1>1
<1> QED
  BY <1>2, <1>3, <1>4 DEF Has, u

LEMMA WordParts ==
    ASSUME NEW j \in Jobs, NEW w \in Words
    PROVE  /\ ForWord(j, w) \in Pairs
           /\ j.kind = "match" => Has(ForWord(j, w), "print", w)
           /\ j.kind = "define" => Has(ForWord(j, w), "defprint", w)
           /\ j.kind = "wind" => Has(ForWord(j, w), "wind", w)
<1>1. ASSUME NEW op \in Ops
      PROVE  Make(op, w) \in Command /\ Make(op, w).op = op /\ Make(op, w).word = w
  BY DEF Make, Command
<1>2. {"match", "print", "wind", "define", "spell", "defprint"} \subseteq Ops
  BY DEF Ops
<1>3. ASSUME NEW op \in {"print", "wind"}
      PROVE  /\ <<Make("match", w), Make(op, w)>> \in Pairs
             /\ Has(<<Make("match", w), Make(op, w)>>, op, w)
  <2>1. PICK c : c = Make("match", w)
    OBVIOUS
  <2>2. PICK d : d = Make(op, w)
    OBVIOUS
  <2>3. PICK s : s = <<c, d>>
    OBVIOUS
  <2>4. c \in Command /\ c.op = "match" /\ c.word = w /\ d \in Command /\ d.op = op /\ d.word = w
    BY <1>1, <1>2, <2>1, <2>2
  <2>5. s \in Seq(Command) /\ Len(s) = 2 /\ s[1] = c /\ s[2] = d
    BY <2>3, <2>4
  <2>6. \A k \in 1 .. Len(s) : Closes(s[k]) => k > 1 /\ Opens(s[k - 1], s[k])
    <3>1. Opens(c, d)
      BY <2>4 DEF Opens
    <3>2. ~Closes(c)
      BY <2>4 DEF Closes
    <3>3. \A k \in 1 .. Len(s) : k = 1 \/ (k = 2 /\ k - 1 = 1)
      BY <2>5
    <3> QED
      BY <2>5, <3>1, <3>2, <3>3
  <2>7. Has(s, op, w)
    BY <2>4, <2>5 DEF Has
  <2>8. s = <<Make("match", w), Make(op, w)>>
    BY <2>1, <2>2, <2>3
  <2> QED
    BY <2>5, <2>6, <2>7, <2>8 DEF Pairs, Paired
<1>4. ASSUME NEW op \in {"define", "spell", "defprint"}
      PROVE  /\ <<Make(op, w)>> \in Pairs
             /\ Has(<<Make(op, w)>>, op, w)
  <2>1. PICK c : c = Make(op, w)
    OBVIOUS
  <2>2. PICK s : s = <<c>>
    OBVIOUS
  <2>3. c \in Command /\ c.op = op /\ c.word = w
    BY <1>1, <1>2, <2>1
  <2>4. s \in Seq(Command) /\ Len(s) = 1 /\ s[1] = c
    BY <2>2, <2>3
  <2>5. \A k \in 1 .. Len(s) : ~Closes(s[k])
    <3>1. ~Closes(c)
      BY <2>3 DEF Closes
    <3>2. \A k \in 1 .. Len(s) : k = 1
      BY <2>4
    <3> QED
      BY <2>4, <3>1, <3>2
  <2>6. s \in Pairs /\ Has(s, op, w)
    BY <2>3, <2>4, <2>5, PairedNone DEF Has
  <2> QED
    BY <2>1, <2>2, <2>6
<1>5. <<>> \in Pairs
  <2>1. PICK e : e = <<>>
    OBVIOUS
  <2>2. e \in Seq(Command) /\ Len(e) = 0
    BY <2>1, NoCommands
  <2>3. \A k \in 1 .. Len(e) : ~Closes(e[k])
    BY <2>2
  <2> QED
    BY <2>1, <2>2, <2>3, PairedNone
<1>6. CASE j.kind = "match"
  BY <1>3, <1>6 DEF ForWord
<1>7. CASE j.kind = "wind"
  BY <1>3, <1>7 DEF ForWord
<1>8. CASE j.kind = "define"
  <2> DEFINE a == <<Make("define", w)>>
             b == If(j.correct, <<Make("spell", w)>>)
             c == <<Make("defprint", w)>>
  <2>1. a \in Pairs /\ b \in Pairs /\ c \in Pairs /\ Has(c, "defprint", w)
    BY <1>4, <1>5 DEF If
  <2>2. ForWord(j, w) = (a \o b) \o c
    BY <1>8 DEF ForWord
  <2> HIDE DEF a, b, c
  <2>3. a \o b \in Pairs
    BY <2>1, PairedJoin
  <2>4. (a \o b) \o c \in Pairs
    BY <2>1, <2>3, PairedJoin
  <2>5. Has((a \o b) \o c, "defprint", w)
    BY <2>1, <2>3, HasJoin DEF Pairs
  <2> QED
    BY <1>8, <2>2, <2>4, <2>5
<1>9. CASE j.kind = "none"
  BY <1>5, <1>9 DEF ForWord
<1>10. j.kind \in {"none", "match", "define", "wind"}
  BY ClientAssumption
<1> QED
  BY <1>6, <1>7, <1>8, <1>9, <1>10

LEMMA ListKeeps ==
    ASSUME NEW j \in Jobs
    PROVE  /\ CommandsOf(j) \in Pairs
           /\ \A n \in 1 .. Len(j.words) : \A op :
                Has(ForWord(j, j.words[n]), op, j.words[n]) => Has(CommandsOf(j), op, j.words[n])
           /\ ~j.mime => \A k \in 1 .. Len(CommandsOf(j)) : CommandsOf(j)[k].op # "mime"
<1> DEFINE g == FlattenSeq(ForWords(j))
           h == <<Make("close", "")>>
<1>1. PICK a \in Seq(Firsts(j)) : CommandsOf(j) = (a \o g) \o h
  BY ListParts
<1>2. j.words \in Seq(Words) /\ Len(j.words) \in Nat /\ \A n \in 1 .. Len(j.words) : j.words[n] \in Words
  BY ListParts, LenProperties, ElementOfSeq
<1>3. /\ ForWords(j) \in Seq(Pairs) /\ Len(ForWords(j)) = Len(j.words)
      /\ \A n \in 1 .. Len(j.words) : ForWords(j)[n] = ForWord(j, j.words[n])
  <2>1. \A n \in 1 .. Len(j.words) : ForWord(j, j.words[n]) \in Pairs
    BY <1>2, WordParts
  <2> QED
    BY <1>2, <2>1 DEF ForWords
<1>4. ForWords(j) \in Seq(Seq(Command))
  BY <1>3, SeqMonotonic, Pairs \subseteq Seq(Command) DEF Pairs
<1>5. g \in Pairs /\ g \in Seq(Command)
  BY <1>3, PairedFlat DEF Pairs
<1>6. \A c \in Firsts(j) : c \in Command /\ ~Closes(c) /\ (c.op = "mime" => j.mime)
  BY DEF Firsts, Heads, Earlies, Fresh, Shaped, Early, Closes
<1>7. a \in Pairs /\ a \in Seq(Command) /\ \A k \in 1 .. Len(a) : a[k].op = "mime" => j.mime
  <2>1. a \in Seq(Command)
    BY <1>6, SeqMonotonic, Firsts(j) \subseteq Command
  <2>2. \A k \in 1 .. Len(a) : a[k] \in Firsts(j)
    BY ElementOfSeq
  <2> QED
    BY <1>6, <2>1, <2>2, PairedNone
<1>8. h \in Pairs /\ h \in Seq(Command) /\ Len(h) = 1 /\ h[1].op = "close"
  <2>1. PICK c : c = Make("close", "")
    OBVIOUS
  <2>2. c \in Command /\ c.op = "close"
    BY <2>1 DEF Make, Command, Ops
  <2>3. PICK s : s = <<c>>
    OBVIOUS
  <2>4. s \in Seq(Command) /\ Len(s) = 1 /\ s[1] = c
    BY <2>2, <2>3
  <2>5. \A k \in 1 .. Len(s) : ~Closes(s[k])
    <3>1. ~Closes(c)
      BY <2>2 DEF Closes
    <3>2. \A k \in 1 .. Len(s) : k = 1
      BY <2>4
    <3> QED
      BY <2>4, <3>1, <3>2
  <2> QED
    BY <2>1, <2>2, <2>3, <2>4, <2>5, PairedNone
<1> HIDE DEF g, h
<1>9. a \o g \in Pairs /\ a \o g \in Seq(Command)
  BY <1>5, <1>7, PairedJoin DEF Pairs
<1>10. CommandsOf(j) \in Pairs
  BY <1>1, <1>8, <1>9, PairedJoin
<1>11. ASSUME NEW op, NEW w PROVE Has(CommandsOf(j), op, w) <=> Has(a, op, w) \/ Has(g, op, w) \/ Has(h, op, w)
  <2>1. Has(a \o g, op, w) <=> Has(a, op, w) \/ Has(g, op, w)
    BY <1>5, <1>7, HasJoin
  <2>2. Has((a \o g) \o h, op, w) <=> Has(a \o g, op, w) \/ Has(h, op, w)
    BY <1>8, <1>9, HasJoin
  <2> QED
    BY <1>1, <2>1, <2>2
<1>12. ASSUME NEW n \in 1 .. Len(j.words), NEW op, NEW w, Has(ForWord(j, j.words[n]), op, w)
       PROVE  Has(g, op, w)
  <2>1. PICK m \in 1 .. Len(ForWords(j)[n]) : ForWords(j)[n][m].op = op /\ ForWords(j)[n][m].word = w
    BY <1>3, <1>12 DEF Has
  <2>2. \E i \in 1 .. Len(g) : g[i] = ForWords(j)[n][m]
    BY <1>3, <1>4, FlattenHas DEF g
  <2> QED
    BY <2>1, <2>2 DEF Has
<1>13. ASSUME NEW k \in 1 .. Len(g) PROVE g[k].op # "mime"
  <2> DEFINE D == {c \in Command : c.op # "mime"}
  <2>1. ASSUME NEW w \in Words PROVE ForWord(j, w) \in Seq(D)
    <3>1. ForWord(j, w) \in Seq(Tasks(j))
      BY TasksOfWord
    <3>2. Tasks(j) \subseteq D
      BY DEF Tasks, Fresh, Shaped
    <3> QED
      BY <3>1, <3>2, SeqMonotonic
  <2> HIDE DEF D
  <2>2. ForWords(j) \in Seq(Seq(D))
    BY <1>2, <2>1 DEF ForWords
  <2>3. g \in Seq(D)
    BY <2>2, FlattenType DEF g
  <2> QED
    BY <2>3, ElementOfSeq DEF D
<1>14. ASSUME ~j.mime, NEW k \in 1 .. Len(CommandsOf(j)), CommandsOf(j)[k].op = "mime" PROVE FALSE
  <2>1. PICK w : w = CommandsOf(j)[k].word
    OBVIOUS
  <2>2. Has(CommandsOf(j), "mime", w)
    BY <1>14, <2>1 DEF Has
  <2>3. Has(a, "mime", w) \/ Has(g, "mime", w) \/ Has(h, "mime", w)
    BY <1>11, <2>2
  <2> QED
    BY <1>7, <1>8, <1>13, <1>14, <2>3 DEF Has
<1> QED
  BY <1>10, <1>11, <1>12, <1>14

(* Every step keeps PairInv: what is put on the list is in pairs.          *)
LEMMA PairKept == ASSUME ClientInv, PairInv, Next PROVE PairInv'
<1>1. cmds \in Seq(Shaped) /\ Len(cmds) \in Nat
  BY ShapedList, LenProperties
<1>2. CASE cmds' = cmds /\ cur' = cur
  BY <1>2 DEF PairInv
<1>3. ASSUME NEW s, Len(s) = Len(cmds), \A k \in 1 .. Len(cmds) : Alike(s[k], cmds[k]), cmds' = s, cur' = cur
      PROVE  PairInv'
  <2> SUFFICES ASSUME NEW k \in 1 .. Len(cmds), Closes(s[k])
               PROVE  Opens(IF k = 1 THEN cur ELSE s[k - 1], s[k])
    BY <1>3 DEF PairInv
  <2>1. Closes(cmds[k])
    BY <1>3 DEF Closes, Alike
  <2>2. Opens(IF k = 1 THEN cur ELSE cmds[k - 1], cmds[k])
    BY <2>1 DEF PairInv
  <2>3. k # 1 => k - 1 \in 1 .. Len(cmds)
    BY <1>1
  <2> QED
    BY <1>3, <2>2, <2>3 DEF Opens, Alike
<1>4. CASE Request
  <2>1. Len(cmds') = Len(cmds) /\ \A k \in 1 .. Len(cmds) : Alike(cmds'[k], cmds[k])
    BY <1>4, RequestMarks
  <2> QED
    BY <1>3, <1>4, <2>1 DEF Request
<1>5. CASE ConnectFails
  <2>1. (cmds' = cmds \/ cmds' = Unsent) /\ cur' = cur
    BY <1>5 DEF ConnectFails
  <2>2. Len(Unsent) = Len(cmds) /\ \A k \in 1 .. Len(cmds) : Alike(Unsent[k], cmds[k])
    BY <1>1, UnsentShape
  <2> QED
    BY <1>2, <1>3, <2>1, <2>2
<1>6. ASSUME pc = "process"
      PROVE  /\ cmds # <<>> /\ Top = cmds[1] /\ Tail(cmds) \in Seq(Shaped) /\ Len(Tail(cmds)) = Len(cmds) - 1
             /\ \A k \in 1 .. Len(Tail(cmds)) : k + 1 \in 1 .. Len(cmds) /\ Tail(cmds)[k] = cmds[k + 1]
  <2>1. cmds # <<>>
    BY <1>6 DEF ClientInv, HostInv
  <2> QED
    BY <1>1, <2>1 DEF Top
<1>7. CASE Await \/ PassOver \/ PrintReply \/ PrintDefinitions
  <2>1. pc = "process" /\ cmds' = Tail(cmds) /\ cur' = Top
    BY <1>7 DEF Await, PassOver, PrintReply, PrintDefinitions, Pop
  <2>2. ASSUME NEW k \in 1 .. Len(cmds'), Closes(cmds'[k])
        PROVE  Opens(IF k = 1 THEN cur' ELSE cmds'[k - 1], cmds'[k])
    <3>1. k + 1 \in 1 .. Len(cmds) /\ cmds'[k] = cmds[k + 1] /\ k + 1 # 1 /\ (k + 1) - 1 = k
      BY <1>6, <2>1
    <3>2. Opens(cmds[k], cmds[k + 1])
      BY <2>2, <3>1 DEF PairInv
    <3>3. k # 1 => k - 1 \in 1 .. Len(Tail(cmds)) /\ (k - 1) + 1 = k
      BY <2>1
    <3> QED
      BY <1>6, <2>1, <3>1, <3>2, <3>3
  <2> QED
    BY <2>2 DEF PairInv
<1>8. CASE Spell \/ Wind
  <2>1. PICK new \in Seq(AddedBy(Top.op)) : cmds' = new \o Tail(cmds)
    BY <1>8, ListGrowsBy
  <2>2. pc = "process" /\ cur' = Top /\ Top.op # "match"
    BY <1>8 DEF Spell, Wind, Pop
  <2>3. PICK t : t = Tail(cmds)
    OBVIOUS
  <2>4. /\ t \in Seq(Shaped) /\ Len(t) = Len(cmds) - 1 /\ Top = cmds[1]
        /\ \A k \in 1 .. Len(t) : k + 1 \in 1 .. Len(cmds) /\ t[k] = cmds[k + 1]
    BY <1>6, <2>2, <2>3
  <2>5. Len(new) \in Nat /\ Len(t) \in Nat /\ \A k \in 1 .. Len(new) : ~Closes(new[k])
    <3>1. Len(new) \in Nat /\ Len(t) \in Nat /\ \A k \in 1 .. Len(new) : new[k].op \in {"match", "define", "defprint"}
      BY <2>4, LenProperties, ElementOfSeq DEF AddedBy
    <3> QED
      BY <3>1 DEF Closes
  <2>6. /\ Len(cmds') = Len(new) + Len(t)
        /\ \A k \in 1 .. Len(new) + Len(t) : cmds'[k] = IF k <= Len(new) THEN new[k] ELSE t[k - Len(new)]
    BY <2>1, <2>3, <2>4
  <2>7. ASSUME NEW k \in 1 .. Len(cmds'), Closes(cmds'[k])
        PROVE  Opens(IF k = 1 THEN cur' ELSE cmds'[k - 1], cmds'[k])
    <3>1. PICK i : i = k - Len(new)
      OBVIOUS
    <3>2. i \in 1 .. Len(t) /\ cmds'[k] = t[i]
      BY <2>5, <2>6, <2>7, <3>1
    <3>3. i + 1 \in 1 .. Len(cmds) /\ t[i] = cmds[i + 1] /\ i + 1 # 1 /\ (i + 1) - 1 = i
      BY <2>4, <3>2
    <3>4. Opens(cmds[i], cmds[i + 1])
      BY <2>7, <3>2, <3>3 DEF PairInv
    <3>5. i # 1
      BY <2>2, <2>4, <3>4 DEF Opens
    <3>6. i - 1 \in 1 .. Len(t) /\ (i - 1) + 1 = i /\ k - 1 \in 1 .. Len(new) + Len(t) /\ ~(k - 1 <= Len(new))
          /\ (k - 1) - Len(new) = i - 1 /\ k # 1
      BY <2>5, <2>6, <3>1, <3>2, <3>5
    <3>7. cmds'[k - 1] = cmds[i]
      BY <2>4, <2>6, <3>6
    <3> QED
      BY <3>2, <3>3, <3>4, <3>6, <3>7
  <2> QED
    BY <2>7 DEF PairInv
<1>9. CASE ReadStatus
  <2>1. CASE cur.op = "connect" /\ cmds' = Connected
    <3>1. Connecting /\ HostInv
      BY <1>9, <2>1 DEF Connecting, ReadStatus, ClientInv
    <3>2. \E k \in 1 .. Len(cmds) : cmds[k].op # "connect"
      BY <3>1 DEF HostInv
    <3>3. PICK a \in Seq(Shaped) : cmds = a \o Connected /\ \A k \in 1 .. Len(a) : a[k].op = "connect"
      BY <1>1, <3>2, ConnectedParts
    <3>4. PICK c : c = Connected
      OBVIOUS
    <3>5. c \in Seq(Shaped)
      BY <1>1, <3>2, <3>4, ConnectedParts
    <3>6. Len(a) \in Nat /\ Len(c) \in Nat
      BY <3>5
    <3>7. /\ \A k \in 1 .. Len(c) : Len(a) + k \in 1 .. Len(cmds) /\ cmds[Len(a) + k] = c[k]
          /\ \A k \in 1 .. Len(a) : cmds[k] = a[k]
      BY <3>3, <3>4, <3>5, <3>6
    <3>8. ASSUME NEW k \in 1 .. Len(c), Closes(c[k])
          PROVE  Opens(IF k = 1 THEN cur ELSE c[k - 1], c[k])
      <4>1. PICK i : i = Len(a) + k
        OBVIOUS
      <4>2. i \in 1 .. Len(cmds) /\ cmds[i] = c[k]
        BY <3>7, <4>1
      <4>3. Opens(IF i = 1 THEN cur ELSE cmds[i - 1], cmds[i])
        BY <3>8, <4>2 DEF PairInv
      <4>4. CASE k = 1
        <5>1. i - 1 = Len(a) /\ (i # 1 => Len(a) \in 1 .. Len(a))
          BY <3>6, <4>1, <4>4
        <5>2. i # 1 => cmds[i - 1].op = "connect"
          BY <3>3, <3>7, <5>1
        <5> QED
          BY <2>1, <4>3, <5>2 DEF Opens
      <4>5. CASE k # 1
        <5>1. k - 1 \in 1 .. Len(c) /\ Len(a) + (k - 1) = i - 1 /\ i # 1
          BY <3>6, <4>1, <4>5
        <5>2. cmds[i - 1] = c[k - 1]
          BY <3>7, <5>1
        <5> QED
          BY <4>2, <4>3, <4>5, <5>1, <5>2
      <4> QED
        BY <4>4, <4>5
    <3>9. cmds' = c /\ cur' = cur
      BY <1>9, <2>1, <3>4 DEF ReadStatus
    <3> QED
      BY <3>8, <3>9 DEF PairInv
  <2> QED
    BY <1>2, <1>9, <2>1 DEF ReadStatus
<1>10. CASE Connect \/ Write \/ WriteFails \/ Finish
  BY <1>2, <1>10 DEF Connect, Write, WriteFails, Finish, listVars
<1>11. CASE ReadText \/ ReadFinal \/ ReadDefinition \/ ReadDefText \/ ReadEnd
  BY <1>2, <1>11 DEF ReadText, ReadFinal, ReadDefinition, ReadDefText, ReadEnd, listVars
<1>12. CASE ServerNext \/ Close \/ Ended
  BY <1>2, <1>12 DEF ServerNext, Greet, Serve, Deliver, Close, Ended, vars, listVars
<1> QED
  BY <1>4, <1>5, <1>7, <1>8, <1>9, <1>10, <1>11, <1>12 DEF Next, ClientNext

LEMMA PairInit == Init => PairInv
<1> SUFFICES ASSUME Init PROVE PairInv
  OBVIOUS
<1>1. job \in Jobs /\ cmds = CommandsOf(job)
  BY DEF Init
<1>2. Paired(cmds)
  BY <1>1, ListKeeps DEF Pairs
<1> QED
  BY <1>2 DEF Paired, PairInv

(* Without OPTION MIME the server is never sent it.                        *)
LEMMA NoMime ==
    ASSUME TypeOK, DeliverInv, ~job.mime
    PROVE  ~MimeOn
<1>1. PICK P, Q, R : Splits(P, Q, R)
  BY DEF DeliverInv, Delivered
<1>2. job \in Jobs
  BY DEF TypeOK
<1> DEFINE u == got \o toServer
           m == {"mime"}
<1>3. u \in Seq(Command) /\ got \in Seq(Command) /\ toServer \in Seq(Command) /\ CommandsOf(job) \in Seq(Command)
  BY ListTypes
<1>4. \A k \in 1 .. Len(CommandsOf(job)) : CommandsOf(job)[k].op \notin m
  BY <1>2, ListKeeps
<1>5. \A k \in 1 .. Len(TheList) : TheList[k].op \notin m
  <2> HIDE DEF m
  <2> QED
    BY <1>3, <1>4, ListedOnly DEF TheList
<1>6. \A k \in 1 .. Len(P) : P[k].op \notin m
  <2>1. P \in Seq(Command) /\ Q \in Seq(Command) /\ TheList = P \o Q
    BY <1>1 DEF Splits
  <2>2. Len(P) \in Nat /\ Len(P \o Q) = Len(P) + Len(Q) /\ Len(Q) \in Nat /\ \A k \in 1 .. Len(P) : (P \o Q)[k] = P[k]
    BY <2>1, ConcatProperties
  <2> HIDE DEF m
  <2> QED
    BY <1>5, <2>1, <2>2
<1>7. \A k \in 1 .. Len(Listed(P, Of(Due))) : Listed(P, Of(Due))[k].op \notin m
  <2>1. P \in Seq(Command)
    BY <1>1 DEF Splits
  <2> HIDE DEF m
  <2> QED
    BY <1>6, <2>1, ListedOnly
<1>8. \A k \in 1 .. Len(Sent) : Sent[k].op \notin m
  <2>1. Sent \in Seq(Command) /\ R \in Seq(Command) /\ Sent \o R = Listed(P, Of(Due))
    BY <1>1, ListTypes DEF Splits
  <2>2. Len(Sent) \in Nat /\ Len(R) \in Nat /\ Len(Sent \o R) = Len(Sent) + Len(R) /\ \A k \in 1 .. Len(Sent) : (Sent \o R)[k] = Sent[k]
    BY <2>1, ConcatProperties
  <2> HIDE DEF m
  <2> QED
    BY <1>7, <2>1, <2>2
<1>9. ASSUME NEW n \in 1 .. Len(got), got[n].op = "mime" PROVE FALSE
  <2>1. n \in 1 .. Len(u) /\ u[n] = got[n]
    BY <1>3, ConcatProperties
  <2> HIDE DEF u
  <2>2. u[n] \in Command /\ u[n].op = "mime"
    BY <1>3, <1>9, <2>1, ElementOfSeq
  <2>3. u[n] \in Of(OfList)
    BY <2>2 DEF Of, OfList
  <2>4. PICK k \in 1 .. Len(Listed(u, Of(OfList))) : Listed(u, Of(OfList))[k] = Make(u[n].op, u[n].word)
    BY <1>3, <2>1, <2>3, ListedHas
  <2>5. Sent = Listed(u, Of(OfList))
    BY DEF Sent, u
  <2>6. Make(u[n].op, u[n].word).op = "mime"
    BY <2>2 DEF Make
  <2> QED
    BY <1>8, <2>4, <2>5, <2>6
<1> QED
  BY <1>9 DEF MimeOn

(* The server answers a MATCH with what it has for the word.               *)
LEMMA AnswersNear ==
    ASSUME NEW c \in Shaped, c.op = "match" => ~MimeOn, NEW s \in Answers(c)
    PROVE  \A k \in 1 .. Len(s) : NearLine(s[k])
<1>1. CASE c.op # "match"
  <2>1. PICK r : Path(c, 1, s, r)
    BY AnswersFit DEF Answered
  <2>2. \A k \in 1 .. Len(s) : s[k].op = c.op
    BY <2>1 DEF Path, Alike
  <2> QED
    BY <1>1, <2>2 DEF NearLine
<1>2. CASE c.op = "match"
  <2> DEFINE t == Near[c.word]
  <2>1. c.word \in Words /\ t \in Seq(Words)
    BY <1>2, ClientAssumption DEF Shaped, Shape
  <2>2. ASSUME NEW codes, s \in Single(c, codes) PROVE \A k \in 1 .. Len(s) : NearLine(s[k])
    <3>1. PICK code \in codes : s = <<Reply(c, code, 0, <<>>)>>
      BY <2>2 DEF Single
    <3>2. Len(s) = 1 /\ s[1].count = 0 /\ s[1].text = <<>>
      BY <3>1 DEF Reply
    <3> QED
      BY <3>2 DEF NearLine
  <2>3. ASSUME s \in WithText(c, 152, Len(t), t) PROVE \A k \in 1 .. Len(s) : NearLine(s[k])
    <3> DEFINE x == Reply(c, 152, Len(t), <<>>)
               y == Reply(c, 0, 0, If(MimeOn, <<Blank>>) \o t)
               z == Reply(c, 250, 0, <<>>)
    <3>1. If(MimeOn, <<Blank>>) \o t = t
      BY <1>2, <2>1, ConcatEmptySeq DEF If
    <3>2. NearLine(x) /\ NearLine(y) /\ NearLine(z)
      <4>1. x.count = Len(t) /\ x.text = <<>> /\ x.word = c.word
        BY DEF Reply
      <4>2. y.count = 0 /\ y.text = t /\ y.word = c.word
        BY <3>1 DEF Reply
      <4>3. z.count = 0 /\ z.text = <<>> /\ z.word = c.word
        BY DEF Reply
      <4> HIDE DEF x, y, z
      <4> QED
        BY <4>1, <4>2, <4>3 DEF NearLine
    <3>3. s = <<x, y, z>>
      BY <2>3 DEF WithText
    <3> HIDE DEF x, y, z
    <3>4. Len(s) = 3 /\ s[1] = x /\ s[2] = y /\ s[3] = z
      BY <3>3
    <3> QED
      BY <3>2, <3>4
  <2>4. \/ s \in Single(c, {552}) \/ s \in Single(c, {420, 551})
        \/ s \in WithText(c, 152, Len(t), t)
    BY <1>2 DEF Answers
  <2> QED
    BY <2>2, <2>3, <2>4
<1> QED
  BY <1>1, <1>2

(* Every step keeps LinesInv.                                              *)
LEMMA LinesKept == ASSUME ClientInv, DeliverInv, LinesInv, Next PROVE LinesInv'
<1>1. /\ TypeOK /\ toServer \in Seq(Shaped) /\ toClient \in Seq(Lines) /\ answer \in Seq(Lines) /\ job' = job
  BY JobStays DEF ClientInv, ShapeInv, TypeOK
<1>2. CASE UNCHANGED <<toClient, answer>>
  BY <1>1, <1>2 DEF LinesInv
<1>3. CASE ReadStatus \/ ReadText \/ ReadFinal \/ ReadDefinition \/ ReadDefText
  <2>1. toClient # <<>> /\ toClient' = Tail(toClient) /\ answer' = answer
    BY <1>3 DEF ReadStatus, ReadText, ReadFinal, ReadDefinition, ReadDefText, Take
  <2>2. \A k \in 1 .. Len(Tail(toClient)) : k + 1 \in 1 .. Len(toClient) /\ Tail(toClient)[k] = toClient[k + 1]
    BY <1>1, <2>1, HeadsAndTails
  <2> QED
    BY <1>1, <2>1, <2>2 DEF LinesInv
<1>4. CASE ClientNext /\ ~(ReadStatus \/ ReadText \/ ReadFinal \/ ReadDefinition \/ ReadDefText)
  <2>1. UNCHANGED <<toClient, answer>>
    BY <1>4 DEF ClientNext, Request, Connect, ConnectFails, Write, WriteFails, Finish, Await, PassOver, PrintReply,
       PrintDefinitions, Spell, Wind, ReadEnd, netVars
  <2> QED
    BY <1>2, <2>1
<1>5. ASSUME NEW c \in Shaped, ~job.mime => ~MimeOn, answer' \in Answers(c), toClient' = toClient
      PROVE  LinesInv'
  <2>1. ~job.mime => \A k \in 1 .. Len(answer') : NearLine(answer'[k])
    BY <1>5, AnswersNear
  <2> QED
    BY <1>1, <1>5, <2>1 DEF LinesInv
<1>6. CASE Greet
  <2> DEFINE c == Make("connect", host)
  <2>1. open /\ answer' \in Answers(c) /\ toClient' = toClient
    BY <1>6 DEF Greet
  <2>2. c \in Shaped
    BY <2>1, GreetingShape
  <2> HIDE DEF c
  <2> QED
    BY <1>1, <1>5, <2>1, <2>2, NoMime
<1>7. CASE Serve
  <2> DEFINE c == Head(toServer)
  <2>1. toServer # <<>> /\ answer' \in Answers(c) /\ toClient' = toClient
    BY <1>7 DEF Serve
  <2>2. c \in Shaped
    BY <1>1, <2>1, HeadsAndTails
  <2> HIDE DEF c
  <2> QED
    BY <1>1, <1>5, <2>1, <2>2, NoMime
<1>8. CASE Deliver
  <2> DEFINE h == Head(answer)
  <2>1. answer # <<>> /\ toClient' = Append(toClient, h) /\ answer' = Tail(answer)
    BY <1>8 DEF Deliver
  <2>2. /\ h = answer[1] /\ 1 \in 1 .. Len(answer) /\ h \in Lines
        /\ \A k \in 1 .. Len(Tail(answer)) : k + 1 \in 1 .. Len(answer) /\ Tail(answer)[k] = answer[k + 1]
    BY <1>1, <2>1, HeadsAndTails
  <2> HIDE DEF h
  <2>3. /\ Len(toClient') = Len(toClient) + 1 /\ Len(toClient) \in Nat /\ toClient'[Len(toClient) + 1] = h
        /\ \A k \in 1 .. Len(toClient) : toClient'[k] = toClient[k]
    BY <1>1, <2>1, <2>2
  <2>4. \A k \in 1 .. Len(toClient') : k \in 1 .. Len(toClient) \/ k = Len(toClient) + 1
    BY <2>3
  <2> QED
    BY <1>1, <2>1, <2>2, <2>3, <2>4 DEF LinesInv
<1>9. CASE Close
  <2>1. toClient' = toClient /\ \A k \in 1 .. Len(answer') : FALSE
    BY <1>9 DEF Close
  <2> QED
    BY <1>1, <2>1 DEF LinesInv
<1>10. CASE Ended
  BY <1>2, <1>10 DEF Ended, vars, netVars
<1> QED
  BY <1>3, <1>4, <1>6, <1>7, <1>8, <1>9, <1>10 DEF Next, ServerNext

LEMMA LinesInit == Init => LinesInv
<1>1. \A s : s = <<>> => \A k \in 1 .. Len(s) : FALSE
  OBVIOUS
<1> QED
  BY <1>1 DEF Init, LinesInv

(* Every step keeps FoundInv: its reply is the one to the command at hand. *)
LEMMA FoundKept == ASSUME ClientInv, LinesInv, FoundInv, Next PROVE FoundInv'
<1> SUFFICES ASSUME ~job.mime, pc' # "ended", cur'.op = "match"
             PROVE  /\ match'
                    /\ pc' # "status" /\ matches' > 0 =>
                         /\ matches' = Len(Near[cur'.word])
                         /\ pc' # "text" => data' = Near[cur'.word]
  BY JobStays DEF FoundInv
<1>1. pc # "ended" /\ TypeOK /\ TextInv
  BY StillRunning DEF ClientInv
<1>2. CASE UNCHANGED <<cur, match, matches, data>> /\ (pc' = pc \/ pc \notin {"status", "text"})
  BY <1>1, <1>2 DEF FoundInv
<1>3. CASE Request \/ Connect \/ ConnectFails \/ Write
  <2>1. UNCHANGED <<cur, match, matches, data>> /\ pc \notin {"status", "text"}
    BY <1>3 DEF Request, Connect, ConnectFails, Write, listVars, replyVars
  <2> QED
    BY <1>2, <2>1
<1>4. CASE Await
  BY <1>4 DEF Await, Pop
<1>5. CASE PassOver \/ PrintReply \/ PrintDefinitions \/ Spell \/ Wind
  BY <1>5 DEF PassOver, PrintReply, PrintDefinitions, Spell, Wind, Pop
<1>6. CASE ReadStatus
  <2>1. cur' = cur /\ match' = match /\ pc = "status" /\ Reading /\ toClient # <<>> /\ cur.op = "match"
    BY <1>6 DEF ReadStatus, Reading, Take
  <2>2. Line.op = "match" /\ Line.word = cur.word /\ Fits(Line, Where) /\ Where.pc = "status"
    BY <1>1, <2>1, LineFits, WhereType DEF Alike
  <2>3. Line.count > 0 <=> Line.code = 152
    BY <2>2 DEF Fits
  <2>4. NearLine(Line)
    <3>1. Line = toClient[1] /\ 1 \in 1 .. Len(toClient)
      BY <1>1, <2>1, HeadsAndTails DEF Line, TypeOK
    <3> QED
      BY <3>1 DEF LinesInv
  <2>5. matches' = Line.count
    BY <1>6, <2>1 DEF ReadStatus
  <2>6. Line.code = 152 => pc' = "text"
    <3>1. Line.code = 152 => Follows(cur, Line.code) = "text"
      BY <2>1 DEF Follows
    <3> QED
      BY <1>6, <3>1 DEF ReadStatus
  <2>7. matches' > 0 => pc' = "text" /\ matches' = Len(Near[cur.word])
    BY <2>2, <2>3, <2>4, <2>5, <2>6 DEF NearLine
  <2> QED
    BY <1>1, <2>1, <2>7 DEF FoundInv
<1>7. CASE ReadText
  <2>1. /\ UNCHANGED <<cur, match, matches>> /\ pc = "text" /\ pc' = "final" /\ data' = Line.text
        /\ Reading /\ toClient # <<>> /\ cur.op = "match"
    BY <1>7 DEF ReadText, Reading, Take, listVars
  <2>2. Line.op = "match" /\ Line.word = cur.word /\ Fits(Line, Where) /\ Where.pc = "text" /\ Where.left = matches
    BY <1>1, <2>1, LineFits, WhereType DEF Alike
  <2>3. Line.text \in Seq(Words \cup {Blank}) /\ Len(Line.text) >= matches
    BY <2>2 DEF Fits
  <2>4. NearLine(Line)
    <3>1. Line = toClient[1] /\ 1 \in 1 .. Len(toClient)
      BY <1>1, <2>1, HeadsAndTails DEF Line, TypeOK
    <3> QED
      BY <3>1 DEF LinesInv
  <2>5. matches > 0 => Line.text # <<>>
    BY <1>1, <2>3, Numbers, Len(<<>>) = 0
  <2>6. matches > 0 => Line.text = Near[cur.word]
    BY <2>2, <2>4, <2>5 DEF NearLine
  <2>7. match /\ (matches > 0 => matches = Len(Near[cur.word]))
    BY <1>1, <2>1 DEF FoundInv
  <2> QED
    BY <2>1, <2>6, <2>7
<1>8. CASE ReadFinal \/ ReadDefinition \/ ReadDefText
  <2>1. UNCHANGED <<cur, match, matches, data>> /\ pc \notin {"status", "text"}
    BY <1>8 DEF ReadFinal, ReadDefinition, ReadDefText, listVars
  <2> QED
    BY <1>2, <2>1
<1>9. CASE WriteFails \/ Finish \/ ReadEnd
  BY <1>9 DEF WriteFails, Finish, ReadEnd, End
<1>10. CASE ServerNext \/ Close \/ Ended
  <2>1. UNCHANGED <<cur, match, matches, data>> /\ pc' = pc
    BY <1>10 DEF ServerNext, Greet, Serve, Deliver, Close, Ended, vars, listVars, replyVars
  <2> QED
    BY <1>2, <2>1
<1> QED
  BY <1>3, <1>4, <1>5, <1>6, <1>7, <1>8, <1>9, <1>10 DEF Next, ClientNext

-----------------------------------------------------------------------------
(* No reply is reported with 0; a failed status stays; so does the output. *)
LEMMA ExitNotZero ==
    ASSUME NEW code
    PROVE  ExitOf(code) # 0
  BY DEF ExitOf

LEMMA StatusStays ==
    ASSUME Next, status' = 0
    PROVE  status = 0
<1>1. CASE ReadStatus
  BY <1>1, ExitNotZero DEF ReadStatus, SetStatus
<1>2. CASE PrintReply
  BY <1>2 DEF PrintReply, SetStatus
<1>3. CASE PrintDefinitions
  BY <1>3 DEF PrintDefinitions, SetStatus
<1>4. CASE Wind
  BY <1>4 DEF Wind, SetStatus
<1>5. CASE ClientNext /\ ~(ReadStatus \/ PrintReply \/ PrintDefinitions \/ Wind)
  BY <1>5 DEF ClientNext, Request, Connect, ConnectFails, Write, WriteFails, Finish, Await, PassOver,
     Spell, ReadText, ReadFinal, ReadDefinition, ReadDefText, ReadEnd, outVars
<1>6. CASE ServerNext \/ Close \/ Ended
  BY <1>6 DEF ServerNext, Greet, Serve, Deliver, Close, Ended, vars, outVars
<1> QED
  BY <1>1, <1>2, <1>3, <1>4, <1>5, <1>6 DEF Next

LEMMA ShownStays == ASSUME Next PROVE shown \subseteq shown'
<1>1. CASE PrintReply
  BY <1>1 DEF PrintReply
<1>2. CASE PrintDefinitions
  BY <1>2 DEF PrintDefinitions
<1>3. CASE ClientNext /\ ~(PrintReply \/ PrintDefinitions)
  BY <1>3 DEF ClientNext, Request, Connect, ConnectFails, Write, WriteFails, Finish, Await, PassOver,
     Spell, Wind, ReadStatus, ReadText, ReadFinal, ReadDefinition, ReadDefText, ReadEnd, outVars
<1>4. CASE ServerNext \/ Close \/ Ended
  BY <1>4 DEF ServerNext, Greet, Serve, Deliver, Close, Ended, vars, outVars
<1> QED
  BY <1>1, <1>2, <1>3, <1>4 DEF Next

(* What is printed stays on the list until it is printed.                  *)
LEMMA HasKept ==
    ASSUME ClientInv, Next, NEW op \in {"print", "wind", "defprint"}, NEW w, Has(cmds, op, w)
    PROVE  \/ Has(cmds', op, w)
           \/ (PrintReply \/ PrintDefinitions \/ Wind) /\ Top.op = op /\ Top.word = w
<1>1. cmds \in Seq(Shaped) /\ Len(cmds) \in Nat
  BY ShapedList, LenProperties
<1>2. CASE cmds' = cmds
  BY <1>2
<1>3. ASSUME NEW s, Len(s) = Len(cmds), \A k \in 1 .. Len(cmds) : Alike(s[k], cmds[k]) PROVE Has(s, op, w)
  BY <1>3 DEF Has, Alike
<1>4. CASE Request
  <2>1. Len(cmds') = Len(cmds) /\ \A k \in 1 .. Len(cmds) : Alike(cmds'[k], cmds[k])
    BY <1>4, RequestMarks
  <2> QED
    BY <1>3, <2>1
<1>5. CASE ConnectFails
  <2>1. cmds' = cmds \/ cmds' = Unsent
    BY <1>5 DEF ConnectFails
  <2>2. Len(Unsent) = Len(cmds) /\ \A k \in 1 .. Len(cmds) : Alike(Unsent[k], cmds[k])
    BY <1>1, UnsentShape
  <2> QED
    BY <1>2, <1>3, <2>1, <2>2
<1>6. ASSUME pc = "process", ~(Top.op = op /\ Top.word = w)
      PROVE  Tail(cmds) \in Seq(Shaped) /\ Has(Tail(cmds), op, w)
  <2>1. cmds # <<>>
    BY <1>6 DEF ClientInv, HostInv
  <2>2. /\ Top = cmds[1] /\ Tail(cmds) \in Seq(Shaped)
        /\ \A k \in 1 .. Len(cmds) : k = 1 \/ (k - 1 \in 1 .. Len(Tail(cmds)) /\ Tail(cmds)[k - 1] = cmds[k])
    BY <1>1, <2>1 DEF Top
  <2>3. PICK k \in 1 .. Len(cmds) : cmds[k].op = op /\ cmds[k].word = w
    BY DEF Has
  <2> QED
    BY <1>6, <2>2, <2>3 DEF Has
<1>7. CASE (Await \/ PassOver \/ PrintReply \/ PrintDefinitions) /\ ~(Top.op = op /\ Top.word = w)
  <2>1. pc = "process" /\ cmds' = Tail(cmds)
    BY <1>7 DEF Await, PassOver, PrintReply, PrintDefinitions, Pop
  <2> QED
    BY <1>6, <1>7, <2>1
<1>8. CASE (Spell \/ Wind) /\ ~(Top.op = op /\ Top.word = w)
  <2>1. PICK new \in Seq(AddedBy(Top.op)) : cmds' = new \o Tail(cmds)
    BY <1>8, ListGrowsBy
  <2>2. Tail(cmds) \in Seq(Shaped) /\ Has(Tail(cmds), op, w)
    BY <1>6, <1>8 DEF Spell, Wind, Pop
  <2>3. new \in Seq(Command) /\ Tail(cmds) \in Seq(Command)
    <3>1. AddedBy(Top.op) \subseteq Command /\ Shaped \subseteq Command
      BY DEF AddedBy, Added, Fresh, Shaped
    <3> QED
      BY <2>2, <3>1, SeqMonotonic
  <2> QED
    BY <2>1, <2>2, <2>3, HasJoin
<1>9. Await \/ PassOver \/ Spell => Top.op # op
  BY DEF Await, PassOver, Spell, HasReply
<1>10. CASE ReadStatus
  <2>1. CASE cur.op = "connect" /\ cmds' = Connected
    <3>1. Connecting /\ HostInv
      BY <1>10, <2>1 DEF Connecting, ReadStatus, ClientInv
    <3>2. \E k \in 1 .. Len(cmds) : cmds[k].op # "connect"
      BY <3>1 DEF HostInv
    <3>3. PICK a \in Seq(Shaped) : cmds = a \o Connected /\ \A k \in 1 .. Len(a) : a[k].op = "connect"
      BY <1>1, <3>2, ConnectedParts
    <3>4. Connected \in Seq(Shaped)
      BY <1>1, <3>2, ConnectedParts
    <3>5. a \in Seq(Command) /\ Connected \in Seq(Command)
      BY <3>4, SeqMonotonic, Shaped \subseteq Command DEF Shaped
    <3>6. Has(a, op, w) \/ Has(Connected, op, w)
      BY <3>3, <3>5, HasJoin
    <3>7. ~Has(a, op, w)
      BY <3>3 DEF Has
    <3> QED
      BY <2>1, <3>6, <3>7
  <2> QED
    BY <1>2, <1>10, <2>1 DEF ReadStatus
<1>11. CASE Connect \/ Write \/ WriteFails \/ Finish
  BY <1>2, <1>11 DEF Connect, Write, WriteFails, Finish, listVars
<1>12. CASE ReadText \/ ReadFinal \/ ReadDefinition \/ ReadDefText \/ ReadEnd
  BY <1>2, <1>12 DEF ReadText, ReadFinal, ReadDefinition, ReadDefText, ReadEnd, listVars
<1>13. CASE ServerNext \/ Close \/ Ended
  BY <1>2, <1>13 DEF ServerNext, Greet, Serve, Deliver, Close, Ended, vars, listVars
<1> QED
  BY <1>4, <1>5, <1>7, <1>8, <1>9, <1>10, <1>11, <1>12, <1>13 DEF Next, ClientNext

(* What CMD_PRINT, CMD_DEFPRINT and CMD_WIND do for their word, as long as *)
(* the exit status is still 0.                                             *)
LEMMA ClosedBy ==
    ASSUME ClientInv, PairInv, pc = "process", Top.op \in {"print", "wind"}, Top.word # ""
    PROVE  cur.op = "match" /\ cur.word = Top.word
<1>1. cmds # <<>> /\ cmds \in Seq(Shaped)
  BY ShapedList DEF ClientInv, HostInv
<1>2. Top = cmds[1] /\ 1 \in 1 .. Len(cmds)
  BY <1>1, HeadsAndTails DEF Top
<1>3. Closes(cmds[1])
  BY <1>2 DEF Closes
<1> QED
  BY <1>2, <1>3 DEF PairInv, Opens

LEMMA Failed ==
    ASSUME status' = 0
    PROVE  ~SetStatus(20)
  BY DEF SetStatus

LEMMA Printed ==
    ASSUME ClientInv, PairInv, FoundInv, ~job.mime, PrintReply, Top.word # "", status' = 0
    PROVE  Top.word \in shown'
<1>1. pc = "process" /\ Top.op = "print"
  BY DEF PrintReply, Pop
<1>2. match
  BY <1>1, ClosedBy DEF FoundInv
<1>3. data = NoText => SetStatus(20)
  BY <1>2 DEF PrintReply
<1>4. ~SetStatus(20)
  BY Failed
<1>5. data # NoText
  BY <1>3, <1>4
<1> QED
  BY <1>2, <1>5 DEF PrintReply

LEMMA DefinitionsPrinted ==
    ASSUME PrintDefinitions, status' = 0
    PROVE  Top.word \in shown'
  BY DEF PrintDefinitions, SetStatus

LEMMA MatchesWound ==
    ASSUME ClientInv, PairInv, FoundInv, ~job.mime, Wind, Top.word \in Words, status' = 0
    PROVE  \A k \in 1 .. Len(Near[Top.word]) : Has(cmds', "defprint", Near[Top.word][k])
<1> DEFINE s == Near[Top.word]
           f == [n \in 1 .. Len(s) |-> <<Make("define", s[n]), Make("defprint", s[n])>>]
<1>1. pc = "process" /\ Top.op = "wind" /\ Top.word # ""
  BY ClientAssumption DEF Wind, Pop
<1>2. cur.op = "match" /\ cur.word = Top.word
  BY <1>1, ClosedBy
<1>3. matches > 0
  <2>1. ~(matches > 0) => SetStatus(20)
    BY DEF Wind
  <2> QED
    BY <2>1 DEF SetStatus
<1>4. cmds' = FlattenSeq([n \in 1 .. Len(Wound) |-> <<Make("define", Wound[n]), Make("defprint", Wound[n])>>])
               \o Tail(cmds)
  BY <1>3 DEF Wind
<1>5. matches = Len(s) /\ data = s
  BY <1>1, <1>2, <1>3 DEF FoundInv
<1>6. s \in Seq(Words) /\ Len(s) \in Nat /\ \A k \in 1 .. Len(s) : s[k] \in Words
  <2>1. s \in Seq(Words)
    BY ClientAssumption
  <2> QED
    BY <2>1, LenProperties, ElementOfSeq
<1>7. ~\E i \in 1 .. matches : data[i] = Blank
  BY <1>5, <1>6, ClientAssumption
<1>8. Wound = SubSeq(s, 1, Len(s))
  BY <1>5, <1>7 DEF Wound
<1>9. Wound = s
  BY <1>6, <1>8, SubSeqFull
<1> DEFINE g == FlattenSeq(f)
<1>10. cmds' = g \o Tail(cmds)
  BY <1>4, <1>9
<1>11. ASSUME NEW op \in {"define", "defprint"}, NEW w \in Words
       PROVE  Make(op, w) \in Command /\ Make(op, w).op = op /\ Make(op, w).word = w
  BY DEF Make, Command, Ops
<1>12. f \in Seq(Seq(Command))
  <2>1. \A n \in 1 .. Len(s) : Make("define", s[n]) \in Command /\ Make("defprint", s[n]) \in Command
    BY <1>6, <1>11
  <2>2. \A n \in 1 .. Len(s) : <<Make("define", s[n]), Make("defprint", s[n])>> \in Seq(Command)
    BY <2>1
  <2> HIDE DEF s
  <2> QED
    BY <1>6, <2>2
<1>13. ASSUME NEW k \in 1 .. Len(s) PROVE Has(g, "defprint", s[k])
  <2> DEFINE c == Make("define", s[k])
             d == Make("defprint", s[k])
  <2>1. k \in 1 .. Len(f) /\ f[k] = <<c, d>>
    BY <1>6
  <2>2. d.op = "defprint" /\ d.word = s[k]
    BY <1>6, <1>11
  <2> HIDE DEF c, d, f
  <2>3. 2 \in 1 .. Len(f[k]) /\ f[k][2] = d
    BY <2>1
  <2>4. \A n \in 1 .. Len(f) : \A m \in 1 .. Len(f[n]) : \E i \in 1 .. Len(g) : g[i] = f[n][m]
    BY <1>12, FlattenHas
  <2> HIDE DEF g
  <2>5. \E i \in 1 .. Len(g) : g[i] = d
    BY <2>1, <2>3, <2>4
  <2> QED
    BY <2>2, <2>5 DEF Has
<1>14. g \in Seq(Command) /\ Tail(cmds) \in Seq(Command)
  <2>1. cmds # <<>> /\ cmds \in Seq(Shaped)
    BY <1>1, ShapedList DEF ClientInv, HostInv
  <2> HIDE DEF f
  <2> QED
    BY <1>12, <2>1, FlattenType, TopShape
<1> HIDE DEF g, s
<1>15. \A k \in 1 .. Len(s) : Has(g \o Tail(cmds), "defprint", s[k])
  BY <1>13, <1>14, HasJoin
<1> QED
  BY <1>10, <1>15 DEF s

(* Every step keeps PromiseInv: what leaves the list without having been   *)
(* printed sets the exit status.                                           *)
LEMMA PromiseKept ==
    ASSUME ClientInv, PairInv, FoundInv, PromiseInv, Next
    PROVE  PromiseInv'
<1> SUFFICES ASSUME ~job.mime, status' = 0, NEW n \in 1 .. Len(job.words)
             PROVE  Promised(job.words[n])'
  BY JobStays DEF PromiseInv
<1> DEFINE w == job.words[n]
<1>1. job \in Jobs /\ job' = job
  BY JobStays DEF ClientInv, TypeOK
<1>2. w \in Words /\ "" \notin Words /\ Near[w] \in Seq(Words) /\ job.kind \in {"none", "match", "define", "wind"}
  <2>1. job.words \in Seq(Words)
    BY <1>1, ClientAssumption
  <2>2. w \in Words
    BY <2>1, ElementOfSeq
  <2> QED
    BY <1>1, <2>2, ClientAssumption
<1>3. Promised(w)
  BY StatusStays DEF PromiseInv
<1> HIDE DEF w
<1>4. shown \subseteq shown'
  BY ShownStays
<1>5. ASSUME Has(cmds, "print", w) PROVE w \in shown' \/ Has(cmds', "print", w)
  <2>1. PrintDefinitions => Top.op = "defprint"
    BY DEF PrintDefinitions
  <2>2. Wind => Top.op = "wind"
    BY DEF Wind
  <2> QED
    BY <1>2, <1>5, <2>1, <2>2, HasKept, Printed
<1>6. ASSUME NEW v, Has(cmds, "defprint", v) PROVE v \in shown' \/ Has(cmds', "defprint", v)
  <2>1. PrintReply => Top.op = "print"
    BY DEF PrintReply
  <2>2. Wind => Top.op = "wind"
    BY DEF Wind
  <2> QED
    BY <1>6, <2>1, <2>2, HasKept, DefinitionsPrinted
<1>7. ASSUME Has(cmds, "wind", w)
      PROVE  Has(cmds', "wind", w) \/ \A k \in 1 .. Len(Near[w]) : Has(cmds', "defprint", Near[w][k])
  <2>1. PrintReply => Top.op = "print"
    BY DEF PrintReply
  <2>2. PrintDefinitions => Top.op = "defprint"
    BY DEF PrintDefinitions
  <2> QED
    BY <1>2, <1>7, <2>1, <2>2, HasKept, MatchesWound
<1>8. CASE job.kind = "match"
  <2>1. w \in shown \/ Has(cmds, "print", w)
    BY <1>3, <1>8 DEF Promised
  <2>2. w \in shown' \/ Has(cmds', "print", w)
    BY <1>4, <1>5, <2>1
  <2> QED
    BY <1>1, <1>8, <2>2 DEF Promised, w
<1>9. CASE job.kind = "define"
  <2>1. w \in shown \/ Has(cmds, "defprint", w)
    BY <1>3, <1>9 DEF Promised
  <2>2. w \in shown' \/ Has(cmds', "defprint", w)
    BY <1>4, <1>6, <2>1
  <2> QED
    BY <1>1, <1>9, <2>2 DEF Promised, w
<1>10. CASE job.kind = "wind"
  <2>1. \/ Has(cmds, "wind", w)
        \/ \A k \in 1 .. Len(Near[w]) : Near[w][k] \in shown \/ Has(cmds, "defprint", Near[w][k])
    BY <1>3, <1>10 DEF Promised
  <2>2. \/ Has(cmds', "wind", w)
        \/ \A k \in 1 .. Len(Near[w]) : Near[w][k] \in shown' \/ Has(cmds', "defprint", Near[w][k])
    BY <1>4, <1>6, <1>7, <2>1
  <2> QED
    BY <1>1, <1>10, <2>2 DEF Promised, w
<1>11. CASE job.kind = "none"
  BY <1>1, <1>11 DEF Promised
<1> QED
  BY <1>2, <1>8, <1>9, <1>10, <1>11

LEMMA PromiseInit == Init => PromiseInv
<1> SUFFICES ASSUME Init, NEW n \in 1 .. Len(job.words) PROVE Promised(job.words[n])
  BY DEF PromiseInv
<1> DEFINE w == job.words[n]
<1>1. job \in Jobs /\ cmds = CommandsOf(job)
  BY DEF Init
<1>2. w \in Words /\ job.kind \in {"none", "match", "define", "wind"}
  BY <1>1, ClientAssumption, ElementOfSeq
<1>3. \A op : Has(ForWord(job, w), op, w) => Has(cmds, op, w)
  BY <1>1, ListKeeps
<1> HIDE DEF w
<1>4. /\ job.kind = "match" => Has(cmds, "print", w)
      /\ job.kind = "define" => Has(cmds, "defprint", w)
      /\ job.kind = "wind" => Has(cmds, "wind", w)
  BY <1>1, <1>2, <1>3, WordParts
<1> QED
  BY <1>2, <1>4 DEF Promised, w

(* The client only ends with 0 when the list is done and nothing failed.   *)
LEMMA ZeroKept == ASSUME ClientInv, ZeroInv, Next PROVE ZeroInv'
<1> SUFFICES ASSUME exit' = 0 PROVE pc' = "ended" /\ cmds' = <<>> /\ status' = 0
  BY DEF ZeroInv
<1>1. CASE exit # 0
  <2>1. CASE Finish
    BY <2>1 DEF Finish, End, listVars, outVars
  <2>2. CASE ReadStatus
    BY <1>1, <2>2, ExitNotZero DEF ReadStatus, End, Fatal
  <2>3. CASE ReadFinal \/ ReadDefinition
    BY <1>1, <2>3, ExitNotZero DEF ReadFinal, ReadDefinition, Check, End
  <2>4. CASE ConnectFails \/ WriteFails \/ ReadEnd
    BY <1>1, <2>4 DEF ConnectFails, WriteFails, ReadEnd, End, Killed, Fatal
  <2>5. CASE Request \/ Connect \/ Write \/ Await \/ PassOver \/ PrintReply \/ PrintDefinitions \/ Spell \/ Wind
             \/ ReadText \/ ReadDefText
    BY <1>1, <2>5 DEF Request, Connect, Write, Await, PassOver, PrintReply, PrintDefinitions, Spell, Wind,
       ReadText, ReadDefText
  <2>6. CASE ServerNext \/ Close \/ Ended
    BY <1>1, <2>6 DEF ServerNext, Greet, Serve, Deliver, Close, Ended, vars
  <2> QED
    BY <2>1, <2>2, <2>3, <2>4, <2>5, <2>6 DEF Next, ClientNext
<1>2. CASE exit = 0
  <2>1. pc = "ended" /\ cmds = <<>> /\ status = 0
    BY <1>2 DEF ZeroInv
  <2>2. ~ClientNext
    BY <2>1 DEF ClientNext, Request, Connect, ConnectFails, Write, WriteFails, Finish, Await, PassOver, PrintReply,
       PrintDefinitions, Spell, Wind, Pop, ReadStatus, ReadText, ReadFinal, ReadDefinition, ReadDefText, ReadEnd, Reading
  <2>3. UNCHANGED <<pc, cmds, status>>
    BY <2>2 DEF Next, ServerNext, Greet, Serve, Deliver, Close, Ended, vars, listVars, outVars
  <2> QED
    BY <2>1, <2>3
<1> QED
  BY <1>1, <1>2

(* The inductive invariant of ExitAsDocumented.                            *)
AnswerInv == OrderInv /\ PairInv /\ LinesInv /\ FoundInv /\ PromiseInv /\ ZeroInv

LEMMA AnswerInvInit == Init => AnswerInv
<1> SUFFICES ASSUME Init PROVE AnswerInv
  OBVIOUS
<1>1. OrderInv
  BY ClientInvInit, KindInit, DeliverInit, WiresCloseInit DEF OrderInv
<1>2. FoundInv /\ ZeroInv
  <2>1. cur.op = "print" /\ exit = Running
    BY DEF Init, Make
  <2> QED
    BY <2>1 DEF FoundInv, ZeroInv, Running
<1> QED
  BY <1>1, <1>2, PairInit, LinesInit, PromiseInit DEF AnswerInv

LEMMA AnswerInvStep == AnswerInv /\ [Next]_vars => AnswerInv'
<1> SUFFICES ASSUME AnswerInv, [Next]_vars PROVE AnswerInv'
  OBVIOUS
<1>1. OrderInv' /\ ClientInv /\ DeliverInv
  BY OrderInvStep DEF AnswerInv, OrderInv
<1>2. CASE Next
  BY <1>1, <1>2, PairKept, LinesKept, FoundKept, PromiseKept, ZeroKept DEF AnswerInv
<1>3. CASE UNCHANGED vars
  <2>1. UNCHANGED <<job, cmds, cur, pc, match, matches, data, status, shown, exit, answer, toClient>>
    BY <1>3 DEF vars, listVars, replyVars, outVars, netVars
  <2>2. PairInv' /\ LinesInv' /\ FoundInv' /\ ZeroInv'
    BY <2>1 DEF AnswerInv, PairInv, LinesInv, FoundInv, ZeroInv
  <2>3. PromiseInv'
    BY <2>1 DEF AnswerInv, PromiseInv, Promised
  <2> QED
    BY <1>1, <2>2, <2>3 DEF AnswerInv
<1> QED
  BY <1>2, <1>3

(* With exit status 0, and without OPTION MIME, every word has its         *)
(* definitions or its matches printed, and with a strategy every match of  *)
(* every word has its definitions printed (dict.c:1017-1281): for every    *)
(* list of words, whatever the server finds or refuses.                    *)
THEOREM ExitStatusRight == Spec => []ExitAsDocumented
<1>1. AnswerInv => ExitAsDocumented
  <2> SUFFICES ASSUME AnswerInv, ~job.mime, exit = 0, NEW n \in 1 .. Len(job.words)
               PROVE  IF job.kind = "wind"
                      THEN \A k \in 1 .. Len(Near[job.words[n]]) : Near[job.words[n]][k] \in shown
                      ELSE job.kind # "none" => job.words[n] \in shown
    BY DEF ExitAsDocumented, ExitZeroMeansAnswered
  <2>1. cmds = <<>> /\ status = 0
    BY DEF AnswerInv, ZeroInv
  <2>2. \A op, w : ~Has(cmds, op, w)
    BY <2>1, Len(<<>>) = 0 DEF Has
  <2>3. Promised(job.words[n])
    BY <2>1 DEF AnswerInv, PromiseInv
  <2>4. job.kind \in {"none", "match", "define", "wind"}
    BY ClientAssumption DEF AnswerInv, OrderInv, ClientInv, TypeOK
  <2> QED
    BY <2>2, <2>3, <2>4 DEF Promised
<1> QED
  BY <1>1, AnswerInvInit, AnswerInvStep, PTL DEF Spec
=============================================================================
