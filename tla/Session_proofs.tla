--------------------------- MODULE Session_proofs ---------------------------
(***************************************************************************)
(* Proofs about Session: what the access lists grant, the discipline of    *)
(* the two timers, the query limit, and that the session implements        *)
(* DictProtocol, for every set of users, databases, access lists and       *)
(* commands.  And about TextChannel, what carries the commands and the     *)
(* replies of a session: that commands and texts arrive, and that the      *)
(* client knows where a text ends, for every set of requests.              *)
(***************************************************************************)
EXTENDS Session, TextChannel, RecursionTheorems, FiniteSetTheorems

-----------------------------------------------------------------------------
(* The access lists. *)

\* A set of natural numbers that is not empty has a smallest member.
LEMMA SmallestMember ==
    ASSUME NEW S \in SUBSET Nat, S # {}
    PROVE  \E i \in S : \A j \in S : i <= j
<1> DEFINE R == {p \in Nat \X Nat : p[1] < p[2]}
<1>1. IsWellFoundedOn(R, Nat)
    BY NatLessThanWellFounded DEF OpToRel
<1>2. PICK x \in S : \A y \in S : <<y, x>> \notin R
    <2> HIDE DEF R
    <2> QED
        BY <1>1, WFMin
<1>3. ASSUME NEW y \in S
      PROVE  x <= y
    <2>1. x \in Nat /\ y \in Nat
        OBVIOUS
    <2>2. <<y, x>> \in Nat \X Nat /\ <<y, x>> \notin R
        BY <1>2, <2>1
    <2>3. ~(y < x)
        BY <2>2
    <2> QED
        BY <2>1, <2>3
<1> QED
    BY <1>3

\* CheckList returns what the first rule that decides says.
LEMMA FirstRuleDecides ==
    ASSUME NEW u, NEW acl \in Seq(Rule), Deciding(u, acl) # {}
    PROVE  \E i \in DOMAIN acl :
               /\ Verdict(u, acl[i]) # "next"
               /\ \A j \in 1..(i - 1) : Verdict(u, acl[j]) = "next"
               /\ CheckList(u, acl) = Verdict(u, acl[i])
<1> DEFINE First(i) == i \in Deciding(u, acl) /\ \A j \in Deciding(u, acl) : i <= j
           least == CHOOSE i \in Deciding(u, acl) : \A j \in Deciding(u, acl) : i <= j
<1>1. Len(acl) \in Nat /\ DOMAIN acl = 1..Len(acl)
    OBVIOUS
<1>2. Deciding(u, acl) \in SUBSET Nat
    BY <1>1 DEF Deciding
<1>3. First(least)
    BY <1>2, SmallestMember
<1>4. least \in DOMAIN acl /\ Verdict(u, acl[least]) # "next"
    BY <1>3 DEF Deciding
<1>5. ASSUME NEW j \in 1..(least - 1)
      PROVE  Verdict(u, acl[j]) = "next"
    <2>1. j \in DOMAIN acl /\ ~(least <= j)
        BY <1>1, <1>4
    <2> QED
        BY <1>3, <2>1 DEF Deciding
<1>6. acl # <<>>
    BY <1>1, <1>4
<1>7. CheckList(u, acl) = Verdict(u, acl[least])
    BY <1>6 DEF CheckList
<1> HIDE DEF least
<1> QED
    BY <1>4, <1>5, <1>7

\* CheckList is the manual's rule: the first rule that matches decides, no
\* list allows everybody, and a list without a matching rule denies.
LEMMA CheckListSays ==
    ASSUME NEW u, NEW acl \in Seq(Rule)
    PROVE  /\ CheckList(u, acl) = "allow" <=> Allowed(u, acl)
           /\ CheckList(u, acl) = "authonly" <=> FirstSays(u, acl, "authonly")
<1>1. Len(acl) \in Nat /\ DOMAIN acl = 1..Len(acl)
    OBVIOUS
<1>2. CASE Deciding(u, acl) = {}
    <2>1. \A i \in DOMAIN acl : Verdict(u, acl[i]) = "next"
        BY <1>2 DEF Deciding
    <2>2. ~FirstSays(u, acl, "allow") /\ ~FirstSays(u, acl, "authonly")
        BY <2>1 DEF FirstSays
    <2> QED
        BY <1>2, <2>2 DEF CheckList, Allowed
<1>3. CASE Deciding(u, acl) # {}
    <2>1. PICK i \in DOMAIN acl :
              /\ Verdict(u, acl[i]) # "next"
              /\ \A j \in 1..(i - 1) : Verdict(u, acl[j]) = "next"
              /\ CheckList(u, acl) = Verdict(u, acl[i])
        BY <1>3, FirstRuleDecides
    <2>2. ASSUME NEW k \in DOMAIN acl, Verdict(u, acl[k]) # "next",
                 \A j \in 1..(k - 1) : Verdict(u, acl[j]) = "next"
          PROVE  k = i
        <3>1. ~(k \in 1..(i - 1)) /\ ~(i \in 1..(k - 1))
            BY <2>1, <2>2
        <3> QED
            BY <1>1, <3>1
    <2>3. \A v : v # "next" => (FirstSays(u, acl, v) <=> Verdict(u, acl[i]) = v)
        BY <2>1, <2>2 DEF FirstSays
    <2>4. acl # <<>>
        BY <1>1, <2>1
    <2> QED
        BY <2>1, <2>3, <2>4 DEF Allowed
<1> QED
    BY <1>2, <1>3

\* To authenticate is never to lose the connection: a list that lets an
\* anonymous client in denies no user.
LEMMA UsersAreLetIn ==
    ASSUME NEW u \in Users, NEW acl \in Seq(Rule), CheckList(Nobody, acl) # "deny"
    PROVE  CheckList(u, acl) # "deny"
<1>1. CASE acl = <<>>
    BY <1>1 DEF CheckList
<1>2. CASE acl # <<>>
    <2>1. Deciding(Nobody, acl) # {}
        BY <1>2 DEF CheckList
    <2>2. \A i \in DOMAIN acl : Verdict(Nobody, acl[i]) # "next" =>
              Verdict(u, acl[i]) = Verdict(Nobody, acl[i])
        BY DEF Verdict
    <2>3. \A i \in DOMAIN acl : Verdict(Nobody, acl[i]) = "next" =>
              Verdict(u, acl[i]) \in {"next", "allow"}
        BY DEF Verdict
    <2>4. Deciding(u, acl) # {}
        BY <2>1, <2>2 DEF Deciding
    <2>5. PICK i \in DOMAIN acl :
              /\ Verdict(u, acl[i]) # "next"
              /\ \A j \in 1..(i - 1) : Verdict(u, acl[j]) = "next"
              /\ CheckList(u, acl) = Verdict(u, acl[i])
        BY <2>4, FirstRuleDecides
    <2>6. PICK k \in DOMAIN acl :
              /\ Verdict(Nobody, acl[k]) # "next"
              /\ \A j \in 1..(k - 1) : Verdict(Nobody, acl[j]) = "next"
              /\ CheckList(Nobody, acl) = Verdict(Nobody, acl[k])
        BY <2>1, FirstRuleDecides
    <2>7. CASE Verdict(Nobody, acl[i]) = "next"
        BY <2>3, <2>5, <2>7
    <2>8. CASE Verdict(Nobody, acl[i]) # "next"
        <3>1. Verdict(u, acl[k]) # "next"
            BY <2>2, <2>6
        <3>2. ~(i \in 1..(k - 1)) /\ ~(k \in 1..(i - 1))
            BY <2>5, <2>6, <2>8, <3>1
        <3>3. i = k
            BY <3>2
        <3> QED
            BY <2>2, <2>5, <2>6, <2>8, <3>3
    <2> QED
        BY <2>7, <2>8
<1> QED
    BY <1>1, <1>2

\* What daemon_check_auth() leaves available is what the user is granted.
LEMMA CheckAuthGrants ==
    ASSUME NEW u \in Users \cup {Nobody}, policy \in Policies,
           CheckList(Nobody, policy.global) # "deny", u = Nobody => avail = {}
    PROVE  CheckAuth(u, avail) = Granted(u)
<1>1. policy.global \in Seq(Rule) /\ \A d \in Dbs : policy.db[d] \in Seq(Rule)
    BY SessionAssumption DEF Policy
<1>2. {d \in Dbs : CheckList(u, policy.db[d]) = "allow"}
          = {d \in Dbs : Allowed(u, policy.db[d])}
    BY <1>1, CheckListSays
<1>3. CheckList(u, policy.global) # "deny"
    BY <1>1, UsersAreLetIn
<1>4. CheckList(u, policy.global) \in {"allow", "deny", "authonly", "next"}
    <2>1. \A r : Verdict(u, r) \in {"allow", "deny", "authonly", "next"}
        BY DEF Verdict
    <2> QED
        BY <2>1 DEF CheckList
<1>5. CheckList(u, policy.global) # "next"
    BY <1>1, FirstRuleDecides DEF CheckList
<1>6. CASE CheckList(u, policy.global) = "allow"
    BY <1>1, <1>2, <1>6, CheckListSays DEF CheckAuth, Granted
<1>7. CASE CheckList(u, policy.global) = "authonly"
    BY <1>1, <1>2, <1>7, CheckListSays, SessionAssumption DEF CheckAuth, Granted
<1> QED
    BY <1>3, <1>4, <1>5, <1>6, <1>7

-----------------------------------------------------------------------------
(* The inductive invariant. *)

\* The alarm is the time limit from beginning to end, or the idle timer and
\* then only where the daemon waits or has just read a line.
TimersOK ==
    /\ timing = "limit_time" => timer # "idle"
    /\ timing # "limit_time" => timer # "total"
    /\ timer = "idle" => pc \in {"read", "got"}
    /\ TimeLimitStands

\* Nothing is granted before the access check, and who passed it is let in.
AccessOK ==
    /\ pc = "start" => user = Nobody /\ avail = {} /\ reply.from = {}
    /\ pc \notin {"start", "closed"} => CheckList(Nobody, policy.global) # "deny"
    /\ AccessAsGranted

\* A line being carried out is one the client sent.
CommandOK == pc \in {"got", "work", "auth"} => cmd \in Commands

SessionInv == TypeOK /\ TimersOK /\ AccessOK /\ CommandOK /\ QueryBudget

\* A search of a database comes to databases, itself among them.
LEMMA InsideDatabases ==
    ASSUME NEW D \in SUBSET Dbs
    PROVE  InsideOf(D) \subseteq Dbs /\ D \subseteq InsideOf(D)
<1>1. \A d \in Dbs : Inside[d] \subseteq Dbs /\ d \in Inside[d]
    BY DEF Inside
<1> QED
    BY <1>1 DEF InsideOf

\* What is reached is available, and a reply is taken from what that brings.
LEMMA RepliesType ==
    ASSUME TypeOK, NEW c \in Commands,
           c.op \in {"search", "showdb", "showinfo", "showserver", "text", "line", "quit"},
           NEW r \in Replies(c)
    PROVE  r \in [code : Codes, from : SUBSET Dbs] /\ r.from \subseteq InsideOf(avail)
<1>1. avail \in SUBSET Dbs
    BY DEF TypeOK
<1>2. \A arg : Reach(arg) \subseteq avail
    BY DEF Reach
<1>3. InsideOf(avail) \subseteq Dbs /\ avail \subseteq InsideOf(avail)
    BY <1>1, InsideDatabases
<1>4. /\ InsideOf(Reach(c.arg)) \subseteq InsideOf(avail)
      /\ \A d \in Reach(c.arg) : Inside[d] \subseteq InsideOf(avail)
    BY <1>2 DEF InsideOf
<1>5. ASSUME NEW code \in Codes, NEW sets, r \in Found(code, sets),
             \A F \in sets : F \subseteq InsideOf(avail)
      PROVE  r \in [code : Codes, from : SUBSET Dbs] /\ r.from \subseteq InsideOf(avail)
    BY <1>3, <1>5 DEF Found
<1>6. ASSUME NEW code \in Codes, r \in Just(code)
      PROVE  r \in [code : Codes, from : SUBSET Dbs] /\ r.from \subseteq InsideOf(avail)
    BY <1>6 DEF Just
<1>7. {110, 112, 113, 114, 150, 200, 221, 550, 552, 554} \subseteq Codes
    BY DEF Codes
<1>8. CASE c.op = "search"
    <2> DEFINE places == IF c.arg = "!" THEN {Inside[d] : d \in Reach(c.arg)}
                         ELSE {InsideOf(Reach(c.arg))}
               sets   == UNION {SUBSET P \ {{}} : P \in places}
    <2>1. \A P \in places : P \subseteq InsideOf(avail)
        BY <1>4
    <2>2. \A F \in sets : F \subseteq InsideOf(avail)
        BY <2>1
    <2>3. r \in Just(550) \cup Just(552) \cup Found(150, sets)
        BY <1>8 DEF Replies, SearchReplies
    <2> HIDE DEF sets
    <2> QED
        BY <1>5, <1>6, <1>7, <2>2, <2>3
<1>9. CASE c.op = "showdb"
    <2>1. r \in Just(554) \cup Found(110, {Reach("*")})
        BY <1>9 DEF Replies, ShowDbReplies
    <2> QED
        BY <1>2, <1>3, <1>5, <1>6, <1>7, <2>1
<1>10. CASE c.op = "showinfo"
    <2>1. r \in Just(550) \cup Found(112, SUBSET InsideOf(Reach(c.arg)))
        BY <1>10 DEF Replies, ShowInfoReplies
    <2> QED
        BY <1>4, <1>5, <1>6, <1>7, <2>1
<1>11. CASE c.op = "showserver"
    <2>1. r \in Found(114, {{}, Reach("*")})
        BY <1>11 DEF Replies, ShowServerReplies
    <2> QED
        BY <1>2, <1>3, <1>5, <1>7, <2>1
<1>12. CASE c.op \in {"text", "line", "quit"}
    <2>1. r \in Just(113) \cup Just(200) \cup Just(221)
        BY <1>12 DEF Replies
    <2> QED
        BY <1>6, <1>7, <2>1
<1> QED
    BY <1>8, <1>9, <1>10, <1>11, <1>12

LEMMA SessionInvInit == Init => SessionInv
<1> SUFFICES ASSUME Init PROVE SessionInv
    OBVIOUS
<1>1. TypeOK
    <2>1. inbox \in Seq(Commands) /\ queries \in Nat /\ replies \in Nat
        BY EmptySeq DEF Init
    <2>2. reply \in [code : Codes, from : SUBSET Dbs] /\ avail \in SUBSET Dbs
        BY DEF Init, NoReply, Codes
    <2>3. sent \in 0..MaxLines
        BY SessionAssumption DEF Init
    <2>4. {eof, stalled} \subseteq BOOLEAN
        BY Zenon DEF Init
    <2>5. timer \in {"off", "idle", "total"} /\ timing \in Timings /\ policy \in Policies
        BY DEF Init
    <2>6. /\ pc \in Labels /\ why \in Reasons /\ user \in Users \cup {Nobody}
          /\ cmd \in Commands \cup {NoCommand}
        BY DEF Init, Labels, Reasons
    <2> QED
        BY <2>1, <2>2, <2>3, <2>4, <2>5, <2>6 DEF TypeOK
<1>2. TimersOK /\ AccessOK /\ CommandOK /\ QueryBudget
    BY DEF Init, CommandOK, TimersOK, TimeLimitStands, AccessOK, AccessAsGranted,
       QueryBudget, NoReply
<1> QED
    BY <1>1, <1>2 DEF SessionInv

\* What the daemon, its client and the signals do keeps the types.
LEMMA TypeStep ==
    ASSUME TypeOK, [Next]_vars
    PROVE  TypeOK'
<1> USE SessionAssumption
    DEF TypeOK, Labels, Reasons, configVars, clientVars, accessVars
<1>1. ASSUME NEW r \in Reasons, Terminate(r) PROVE /\ pc' \in Labels
                                                  /\ timer' \in {"off", "idle", "total"}
                                                  /\ why' \in Reasons
    BY <1>1 DEF Terminate
<1>2. CASE TurnedAway
    BY <1>2 DEF TurnedAway, Greeting, Write, Terminate, Codes
<1>3. CASE AccessDenied
    BY <1>3 DEF AccessDenied, Greeting, Write, Terminate, Codes
<1>4. CheckAuth(Nobody, avail) \in SUBSET Dbs
      /\ \A u \in Users : CheckAuth(u, avail) \in SUBSET Dbs
    BY DEF CheckAuth
<1>5. CASE Banner
    BY <1>4, <1>5 DEF Banner, Greeting, Write, Armed, Codes
<1>6. CASE ReadLine
    <2>1. Head(inbox) \in Commands /\ Tail(inbox) \in Seq(Commands)
        BY <1>6, HeadTailProperties DEF ReadLine
    <2> QED
        BY <1>6, <2>1 DEF ReadLine, Terminate
<1>7. CASE ReadEof \/ ReadInterrupted \/ TimerFires \/ Killed \/ WriteFails
    BY <1>7 DEF ReadEof, ReadInterrupted, TimerFires, Killed, WriteFails, Terminate
<1>8. CASE Disarm \/ Rearm \/ WriteRest
    BY <1>8 DEF Disarm, Rearm, WriteRest, Armed
<1>9. CASE Carry
    <2>1. PICK r \in Replies(cmd) :
              Write(r) /\ pc' = IF r.code \in TextCodes THEN "rest" ELSE "done"
        BY <1>9 DEF Carry
    <2>2. cmd \in Commands
        BY <1>9 DEF Carry, NoCommand
    <2>3. r \in [code : Codes, from : SUBSET Dbs]
        BY <1>9, <2>2, RepliesType DEF Carry
    <2> QED
        BY <1>9, <2>1, <2>3 DEF Carry, Write
<1>10. CASE AuthOk
    BY <1>4, <1>10 DEF AuthOk, UserKnown, Write, Codes
<1>11. CASE AuthDenied \/ AuthSyntax
    BY <1>11 DEF AuthDenied, AuthSyntax, Write, Codes
<1>12. CASE AuthFault
    BY <1>12 DEF AuthFault, Terminate
<1>13. CASE Quit
    <2>1. cmd \in Commands
        BY <1>13 DEF Quit, NoCommand
    <2> QED
        BY <1>13, <2>1, RepliesType DEF Quit, Write, Terminate
<1>14. ASSUME NEW c \in Commands, Send(c) PROVE TypeOK'
    <2>1. Append(inbox, c) \in Seq(Commands)
        BY AppendProperties
    <2> QED
        BY <1>14, <2>1 DEF Send
<1>15. CASE CloseInput \/ Stall
    <2>1. UNCHANGED <<pc, configVars, timer, inbox, sent, cmd, queries, accessVars,
                      reply, replies, why>>
        BY <1>15 DEF CloseInput, Stall
    <2>2. eof' \in BOOLEAN /\ stalled' \in BOOLEAN
        BY <1>15, Zenon DEF CloseInput, Stall
    <2>3. {eof', stalled'} \subseteq BOOLEAN
        BY <2>2
    <2> QED
        BY <2>1, <2>3
<1>16. CASE UNCHANGED vars
    BY <1>16 DEF vars
<1> HIDE DEF TypeOK, Labels, Reasons, configVars, clientVars, accessVars
<1> QED
    BY <1>2, <1>3, <1>5, <1>6, <1>7, <1>8, <1>9, <1>10, <1>11, <1>12, <1>13,
       <1>14, <1>15, <1>16
    DEF Next, Step, Greet, Work, Auth

\* No step starts, keeps or cancels a timer where it must not.
LEMMA TimerStep ==
    ASSUME TypeOK, TimersOK, QueryBudget, [Next]_vars
    PROVE  TimersOK' /\ QueryBudget'
<1> USE SessionAssumption
    DEF TypeOK, TimersOK, TimeLimitStands, QueryBudget, configVars
<1>1. CASE TurnedAway \/ AccessDenied \/ Banner
    BY <1>1 DEF TurnedAway, AccessDenied, Banner, Terminate, Armed
<1>2. CASE ReadLine
    BY <1>2 DEF ReadLine, AtQueryLimit, Terminate
<1>3. CASE ReadEof \/ ReadInterrupted \/ TimerFires \/ Killed \/ WriteFails
    BY <1>3 DEF ReadEof, ReadInterrupted, TimerFires, Killed, WriteFails, Terminate
<1>4. CASE Disarm
    BY <1>4 DEF Disarm
<1>5. CASE Rearm
    BY <1>5 DEF Rearm, Armed
<1>6. CASE WriteRest
    BY <1>6 DEF WriteRest
<1>7. CASE Carry
    BY <1>7 DEF Carry
<1>8. CASE AuthSyntax \/ AuthOk \/ AuthDenied
    BY <1>8 DEF AuthSyntax, AuthOk, AuthDenied, AtLookup
<1>9. CASE AuthFault
    BY <1>9 DEF AuthFault, AtLookup, Terminate
<1>10. CASE Quit
    BY <1>10 DEF Quit, Terminate
<1>11. CASE (\E c \in Commands : Send(c)) \/ CloseInput \/ Stall
    BY <1>11 DEF Send, CloseInput, Stall
<1>12. CASE UNCHANGED vars
    BY <1>12 DEF vars
<1> HIDE DEF TypeOK, TimersOK, TimeLimitStands, QueryBudget, configVars
<1> QED
    BY <1>1, <1>2, <1>3, <1>4, <1>5, <1>6, <1>7, <1>8, <1>9, <1>10, <1>11, <1>12
    DEF Next, Step, Greet, Work, Auth

\* What is available is only changed by the access check and by AUTH.
LEMMA AccessStep ==
    ASSUME TypeOK, AccessOK, [Next]_vars
    PROVE  AccessOK'
<1> USE DEF AccessOK, AccessAsGranted, configVars, accessVars, clientVars
<1>1. CASE TurnedAway \/ AccessDenied
    BY <1>1 DEF TurnedAway, AccessDenied, Terminate
<1>2. CASE Banner
    <2>1. avail' = Granted(Nobody)
        BY <1>2, CheckAuthGrants DEF Banner, TypeOK
    <2> QED
        BY <1>2, <2>1 DEF Banner, Granted
<1>3. CASE AuthOk
    <2>1. cmd.arg \in Users /\ cmd.arg # Nobody
        BY <1>3, SessionAssumption DEF AuthOk, UserKnown
    <2>2. avail' = Granted(cmd.arg)
        BY <1>3, <2>1, CheckAuthGrants DEF AuthOk, AtLookup, TypeOK
    <2> QED
        BY <1>3, <2>2 DEF AuthOk, AtLookup, Granted
<1>4. ASSUME UNCHANGED <<policy, avail, user>>, pc # "start", pc # "closed", pc' # "start"
      PROVE  AccessOK'
    BY <1>4 DEF Granted
<1>5. ASSUME UNCHANGED <<policy, avail, user, pc, reply>>
      PROVE  AccessOK'
    BY <1>5 DEF Granted
<1>6. ASSUME NEW r, Terminate(r)
      PROVE  AccessOK'
    BY <1>6 DEF Terminate
<1>7. CASE ReadLine
    BY <1>4, <1>7 DEF ReadLine, Terminate
<1>8. CASE ReadEof \/ ReadInterrupted \/ TimerFires \/ Killed \/ WriteFails \/ Quit
    BY <1>6, <1>8 DEF ReadEof, ReadInterrupted, TimerFires, Killed, WriteFails, Quit
<1>9. CASE Disarm \/ Rearm \/ WriteRest \/ Carry \/ AuthSyntax \/ AuthDenied
    BY <1>4, <1>9 DEF Disarm, Rearm, WriteRest, Carry, AuthSyntax, AuthDenied, AtLookup
<1>10. CASE AuthFault
    BY <1>6, <1>10 DEF AuthFault
<1>11. CASE (\E c \in Commands : Send(c)) \/ CloseInput \/ Stall
    BY <1>5, <1>11 DEF Send, CloseInput, Stall
<1>12. CASE UNCHANGED vars
    BY <1>5, <1>12 DEF vars
<1> QED
    BY <1>1, <1>2, <1>3, <1>7, <1>8, <1>9, <1>10, <1>11, <1>12
    DEF Next, Step, Greet, Work, Auth

\* Only ReadLine gives the daemon a line, the first in the inbox.
LEMMA CommandStep ==
    ASSUME TypeOK, CommandOK, [Next]_vars
    PROVE  CommandOK'
<1> USE DEF CommandOK
<1>1. CASE TurnedAway \/ AccessDenied \/ Banner \/ ReadEof \/ ReadInterrupted
           \/ TimerFires \/ Killed \/ WriteFails
    BY <1>1 DEF TurnedAway, AccessDenied, Banner, ReadEof, ReadInterrupted,
        TimerFires, Killed, WriteFails, Terminate
<1>2. CASE ReadLine
    BY <1>2, HeadTailProperties DEF ReadLine, Terminate, TypeOK
<1>3. CASE Disarm \/ Rearm \/ WriteRest \/ Carry \/ AuthSyntax \/ AuthOk \/ AuthDenied
    BY <1>3 DEF Disarm, Rearm, WriteRest, Carry, AuthSyntax, AuthOk, AuthDenied
<1>4. CASE AuthFault \/ Quit
    BY <1>4 DEF AuthFault, Quit, Terminate
<1>5. CASE (\E c \in Commands : Send(c)) \/ CloseInput \/ Stall \/ UNCHANGED vars
    BY <1>5 DEF Send, CloseInput, Stall, vars
<1> QED
    BY <1>1, <1>2, <1>3, <1>4, <1>5 DEF Next, Step, Greet, Work, Auth

LEMMA SessionInvariance == Spec => []SessionInv
<1>1. SessionInv /\ [Next]_vars => SessionInv'
    BY TypeStep, TimerStep, AccessStep, CommandStep DEF SessionInv
<1> QED
    BY <1>1, SessionInvInit, PTL DEF Spec

-----------------------------------------------------------------------------
(* The theorems. *)

\* Every variable of a session keeps its type.
THEOREM SessionTypeCorrect == Spec => []TypeOK
<1>1. SessionInv => TypeOK
    BY DEF SessionInv
<1> QED
    BY <1>1, SessionInvariance, PTL

\* At every command, what is available is what the manual's reading of the
\* access lists grants the user who authenticated last.
THEOREM AvailableAsGranted == Spec => []AccessAsGranted
<1>1. SessionInv => AccessAsGranted
    BY DEF SessionInv, AccessOK
<1> QED
    BY <1>1, SessionInvariance, PTL

\* The idle timer never runs while the daemon works, and the time limit is
\* never cancelled.
THEOREM TimersInOrder == Spec => [](NoIdleTimerWhileWorking /\ TimeLimitStands)
<1>1. SessionInv => NoIdleTimerWhileWorking /\ TimeLimitStands
    BY DEF SessionInv, TimersOK, NoIdleTimerWhileWorking
<1> QED
    BY <1>1, SessionInvariance, PTL

\* No line is carried out once limit_queries lines have been read.
THEOREM QueriesLimited == Spec => []QueryBudget
<1>1. SessionInv => QueryBudget
    BY DEF SessionInv
<1> QED
    BY <1>1, SessionInvariance, PTL

-----------------------------------------------------------------------------
(* The refinement. *)

\* A line put before the others is the first, and the others are the rest.
LEMMA PutFirst ==
    ASSUME NEW S, NEW c \in S, NEW q \in Seq(S)
    PROVE  /\ <<c>> \o q # <<>>
           /\ Head(<<c>> \o q) = c
           /\ Tail(<<c>> \o q) = q
           /\ \A d \in S : Append(<<c>> \o q, d) = <<c>> \o Append(q, d)
<1>1. <<c>> \in Seq(S) /\ Len(<<c>>) = 1
    OBVIOUS
<1>2. /\ <<c>> \o q \in Seq(S)
      /\ Len(<<c>> \o q) = 1 + Len(q)
      /\ (<<c>> \o q)[1] = c
      /\ \A i \in 1..Len(q) : (<<c>> \o q)[i + 1] = q[i]
    BY <1>1, ConcatProperties
<1>3. <<c>> \o q # <<>>
    BY <1>2
<1>4. Head(<<c>> \o q) = c
    BY <1>2, <1>3
<1>5. Tail(<<c>> \o q) = q
    <2>1. /\ Tail(<<c>> \o q) \in Seq(S)
          /\ Len(Tail(<<c>> \o q)) = Len(q)
          /\ \A i \in 1..Len(q) : Tail(<<c>> \o q)[i] = q[i]
        BY <1>2, <1>3, HeadTailProperties
    <2> QED
        BY <2>1, SeqEqual
<1>6. ASSUME NEW d \in S
      PROVE  Append(<<c>> \o q, d) = <<c>> \o Append(q, d)
    <2>1. /\ Append(<<c>> \o q, d) = (<<c>> \o q) \o <<d>>
          /\ Append(q, d) = q \o <<d>>
        BY <1>2, AppendIsConcat
    <2>2. <<d>> \in Seq(S)
        OBVIOUS
    <2> QED
        BY <1>1, <2>1, <2>2, ConcatAssociative
<1> QED
    BY <1>3, <1>4, <1>5, <1>6

\* The line read goes from the head of the inbox to the daemon.
LEMMA TakeFirst ==
    ASSUME NEW S, NEW q \in Seq(S), q # <<>>
    PROVE  <<Head(q)>> \o Tail(q) = q
<1>1. /\ Head(q) \in S /\ Tail(q) \in Seq(S)
      /\ Len(Tail(q)) = Len(q) - 1
      /\ \A i \in 1..Len(Tail(q)) : Tail(q)[i] = q[i + 1]
    BY HeadTailProperties
<1>2. <<Head(q)>> \in Seq(S) /\ Len(<<Head(q)>>) = 1 /\ <<Head(q)>>[1] = Head(q)
    BY <1>1
<1>3. /\ <<Head(q)>> \o Tail(q) \in Seq(S)
      /\ Len(<<Head(q)>> \o Tail(q)) = 1 + Len(Tail(q))
      /\ \A i \in 1..(1 + Len(Tail(q))) : (<<Head(q)>> \o Tail(q))[i] =
            IF i <= 1 THEN <<Head(q)>>[i] ELSE Tail(q)[i - 1]
    BY <1>1, <1>2, ConcatProperties
<1>4. Len(q) \in Nat /\ Head(q) = q[1]
    OBVIOUS
<1>5. \A i \in 1..Len(q) : (<<Head(q)>> \o Tail(q))[i] = q[i]
    BY <1>1, <1>2, <1>3, <1>4
<1> QED
    BY <1>1, <1>3, <1>4, <1>5, SeqEqual

Blanks  == {c \in Commands : c.op = "empty"}
Halves  == {c \in Commands : c.op = "auth" /\ c.argc # 3}
GrantsV == [u \in Users \cup {Nobody} |-> Granted(u)]

\* While a command is carried out it heads the commands not answered.
LEMMA PendingAtWork ==
    ASSUME TypeOK, pc \in {"got", "work"}, cmd \in Commands
    PROVE  Pending # <<>> /\ Head(Pending) = cmd /\ Tail(Pending) = inbox
BY PutFirst DEF Pending, TypeOK

\* Every step of the session is a step of the protocol, or changes nothing the
\* client can see.
LEMMA ProtocolStep ==
    ASSUME SessionInv, SessionInv', [Next]_vars
    PROVE  [Protocol!ProtocolNext]_(Protocol!protocolVars)
<1>1. TypeOK /\ TypeOK' /\ AccessOK /\ CommandOK
    BY DEF SessionInv
<1>2. ASSUME UNCHANGED <<policy, user, replies>>, reply'.from = reply.from,
             Pending' = Pending, (pc # "closed") = (pc' # "closed"),
             (pc = "auth") = (pc' = "auth")
      PROVE  UNCHANGED Protocol!protocolVars
    BY <1>2 DEF Protocol!protocolVars, Granted
<1>3. ASSUME NEW r, Terminate(r), pc # "closed", UNCHANGED <<policy, user>>,
             reply'.from \in {reply.from, {}},
             \/ replies' = replies
             \/ replies' = replies + 1 /\ Pending # <<>> /\ pc # "auth"
      PROVE  Protocol!ProtocolNext
    <2>1. GrantsV' = GrantsV /\ Pending' = <<>>
        BY <1>3 DEF GrantsV, Granted, Terminate, Pending
    <2> QED
        BY <1>3, <2>1 DEF Protocol!ProtocolNext, Protocol!Shut, Terminate, GrantsV
<1>4. CASE TurnedAway \/ AccessDenied
    BY <1>1, <1>3, <1>4
    DEF TurnedAway, AccessDenied, Greeting, Write, configVars, accessVars
<1>5. CASE Banner
    <2>1. reply'.from = reply.from /\ Pending' = Pending
        BY <1>1, <1>5 DEF Banner, Greeting, Write, AccessOK, Pending, clientVars
    <2> QED
        BY <1>2, <1>5, <2>1 DEF Banner, configVars
<1>6. CASE ReadLine
    <2>1. CASE AtQueryLimit
        BY <1>3, <1>6, <2>1 DEF ReadLine, configVars, accessVars
    <2>2. CASE ~AtQueryLimit
        <3>1. Pending' = Pending
            BY <1>1, <1>6, <2>2, TakeFirst DEF ReadLine, Pending, TypeOK
        <3> QED
            BY <1>2, <1>6, <2>2, <3>1 DEF ReadLine, configVars, accessVars
    <2> QED
        BY <2>1, <2>2
<1>7. CASE ReadEof \/ ReadInterrupted \/ TimerFires \/ Killed \/ WriteFails
    BY <1>3, <1>7
    DEF ReadEof, ReadInterrupted, TimerFires, Killed, WriteFails, configVars, accessVars
<1>8. CASE Disarm
    <2>1. CASE cmd.op = "empty"
        <3>1. Pending # <<>> /\ Head(Pending) = cmd /\ Pending' = Tail(Pending)
            <4>1. Pending' = inbox
                BY <1>8, <2>1 DEF Disarm, Pending, clientVars
            <4> QED
                BY <1>1, <1>8, <4>1, PendingAtWork DEF Disarm, CommandOK
        <3>2. GrantsV' = GrantsV
            BY <1>8 DEF Disarm, configVars, GrantsV, Granted
        <3>3. cmd \in Blanks
            BY <1>1, <1>8, <2>1 DEF Disarm, Blanks, CommandOK
        <3>4. Protocol!Skip
            BY <1>8, <2>1, <3>1, <3>2, <3>3
            DEF Disarm, configVars, accessVars, GrantsV, Blanks, Protocol!Skip, Protocol!Take
        <3> QED
            BY <3>4 DEF Protocol!ProtocolNext
    <2>2. CASE cmd.op # "empty"
        <3>1. Pending' = Pending
            BY <1>8, <2>2 DEF Disarm, Pending, clientVars
        <3> QED
            BY <1>2, <1>8, <2>2, <3>1 DEF Disarm, configVars, accessVars
    <2> QED
        BY <2>1, <2>2
<1>9. ASSUME pc = "work", pc' \in {"auth", "rest", "done"}, UNCHANGED <<policy, clientVars>>
      PROVE  /\ cmd \in Commands
             /\ Pending # <<>> /\ Head(Pending) = cmd /\ Pending' = Tail(Pending)
             /\ GrantsV' = GrantsV
    <2>1. cmd \in Commands
        BY <1>1, <1>9 DEF CommandOK
    <2>2. Pending' = inbox
        BY <1>9 DEF Pending, clientVars
    <2>3. GrantsV' = GrantsV
        BY <1>9 DEF GrantsV, Granted
    <2> QED
        BY <1>1, <1>9, <2>1, <2>2, <2>3, PendingAtWork
<1>10. ASSUME pc = "work", pc' \in {"rest", "done"}, UNCHANGED <<policy, clientVars, user>>,
             cmd.op # "empty", cmd.op = "auth" => cmd.argc = 3,
             reply'.from \subseteq InsideOf(avail), replies' = replies + 1
      PROVE  Protocol!Answer
    <2>1. avail = GrantsV[user]
        BY <1>1, <1>10 DEF AccessOK, AccessAsGranted, GrantsV, TypeOK
    <2>2. cmd \in Protocol!Plain
        BY <1>9, <1>10 DEF Protocol!Plain
    <2>3. Protocol!Take(Protocol!Plain)
        BY <1>9, <1>10, <2>2 DEF Protocol!Take, GrantsV
    <2>4. reply'.from \in SUBSET UNION {Inside[d] : d \in GrantsV[user]}
        BY <1>10, <2>1 DEF InsideOf
    <2> QED
        BY <1>10, <2>3, <2>4 DEF Protocol!Answer, GrantsV
<1> DEFINE AtAuth == pc = "auth" /\ pc' = "done" /\ replies' = replies + 1
                     /\ reply'.from = {} /\ UNCHANGED <<policy, clientVars>>
<1>11. ASSUME AtAuth
       PROVE  Protocol!Settle
    <2>1. Pending' = Pending
        BY <1>11 DEF Pending, clientVars
    <2>2. GrantsV' = GrantsV
        BY <1>11 DEF GrantsV, Granted
    <2> QED
        BY <1>11, <2>1, <2>2 DEF Protocol!Settle, GrantsV
<1>12. CASE Carry
    <2>1. PICK r \in Replies(cmd) :
              Write(r) /\ pc' = IF r.code \in TextCodes THEN "rest" ELSE "done"
        BY <1>12 DEF Carry
    <2>2. /\ pc = "work" /\ pc' \in {"rest", "done"} /\ replies' = replies + 1
          /\ UNCHANGED <<policy, clientVars, user>>
        BY <1>12, <2>1 DEF Carry, configVars, accessVars
    <2>3. /\ cmd \in Commands
          /\ cmd.op \in {"search", "showdb", "showinfo", "showserver", "text", "line"}
        BY <1>1, <1>12 DEF Carry, CommandOK
    <2>4. r.from \subseteq InsideOf(avail)
        BY <1>1, <2>1, <2>3, RepliesType
    <2>5. Protocol!Answer
        BY <1>10, <2>1, <2>2, <2>3, <2>4 DEF Write
    <2> QED
        BY <2>5 DEF Protocol!ProtocolNext
<1>13. CASE AuthDenied
    <2>1. CASE pc = "work"
        <3>1. Protocol!Answer
            BY <1>10, <1>13, <2>1 DEF AuthDenied, AtLookup, Write, configVars, accessVars
        <3> QED
            BY <3>1 DEF Protocol!ProtocolNext
    <2>2. CASE pc = "auth"
        <3>1. AtAuth /\ user' = user
            BY <1>13, <2>2 DEF AuthDenied, Write, configVars, accessVars
        <3>2. Protocol!Refuse
            BY <1>11, <3>1 DEF Protocol!Refuse
        <3> QED
            BY <3>2 DEF Protocol!ProtocolNext
    <2> QED
        BY <1>13, <2>1, <2>2 DEF AuthDenied, AtLookup
<1>14. CASE AuthOk
    <2>1. CASE pc = "work"
        <3>1. cmd.op = "auth" /\ cmd.argc = 3
            BY <1>14, <2>1 DEF AuthOk, AtLookup
        <3>2. pc' = "done" /\ reply'.from = {} /\ replies' = replies + 1
            BY <1>14 DEF AuthOk, Write
        <3>3. UNCHANGED <<policy, clientVars>>
            BY <1>14 DEF AuthOk, configVars
        <3>4. cmd \in Protocol!Plain
            BY <1>9, <2>1, <3>1, <3>2, <3>3 DEF Protocol!Plain
        <3>5. Protocol!Take(Protocol!Plain)
            BY <1>9, <2>1, <3>2, <3>3, <3>4 DEF Protocol!Take, GrantsV
        <3>6. Protocol!Authenticate(cmd.arg)
            BY <1>14, <2>1, <3>2, <3>5 DEF AuthOk, Protocol!Authenticate
        <3> QED
            BY <1>14, <3>6 DEF AuthOk, UserKnown, Protocol!ProtocolNext
    <2>2. CASE pc = "auth"
        <3>1. AtAuth
            BY <1>14, <2>2 DEF AuthOk, Write, configVars
        <3>2. Protocol!Authenticate(cmd.arg)
            BY <1>14, <1>11, <3>1 DEF AuthOk, Protocol!Authenticate
        <3> QED
            BY <1>14, <3>2 DEF AuthOk, UserKnown, Protocol!ProtocolNext
    <2> QED
        BY <1>14, <2>1, <2>2 DEF AuthOk, AtLookup
<1>15. CASE AuthSyntax
    <2>1. UNCHANGED <<policy, clientVars, user>> /\ pc = "work" /\ pc' = "auth"
        BY <1>15 DEF AuthSyntax, configVars, accessVars
    <2>2. cmd \in Halves
        BY <1>9, <1>15, <2>1 DEF AuthSyntax, Halves
    <2>3. Protocol!Take(Halves)
        BY <1>9, <2>1, <2>2 DEF Protocol!Take, GrantsV
    <2>4. Protocol!Complain
        BY <1>15, <2>1, <2>3 DEF AuthSyntax, Write, Halves, Protocol!Complain
    <2> QED
        BY <2>4 DEF Protocol!ProtocolNext
<1>16. CASE AuthFault
    BY <1>3, <1>16 DEF AuthFault, AtLookup, configVars, accessVars
<1>17. CASE Quit
    <2>1. Pending # <<>>
        BY <1>1, <1>17, PendingAtWork DEF Quit, CommandOK
    <2>2. reply'.from = {}
        BY <1>17 DEF Quit, Replies, Just, Write
    <2> QED
        BY <1>3, <1>17, <2>1, <2>2 DEF Quit, configVars, accessVars
<1>18. ASSUME NEW c \in Commands, Send(c)
       PROVE  Protocol!ProtocolNext
    <2>1. Pending' = Append(Pending, c)
        <3>1. CASE pc \in {"got", "work"}
            BY <1>1, <1>18, <3>1, PutFirst DEF Send, Pending, TypeOK, CommandOK
        <3>2. CASE pc \notin {"got", "work"}
            BY <1>18, <3>2 DEF Send, Pending
        <3> QED
            BY <3>1, <3>2
    <2>2. GrantsV' = GrantsV
        BY <1>18 DEF Send, configVars, GrantsV, Granted
    <2>3. Protocol!Send(c)
        BY <1>18, <2>1, <2>2 DEF Send, accessVars, GrantsV, Protocol!Send
    <2> QED
        BY <2>3 DEF Protocol!ProtocolNext
<1>19. CASE CloseInput \/ Stall \/ WriteRest \/ Rearm \/ UNCHANGED vars
    <2>1. Pending' = Pending
        BY <1>19 DEF CloseInput, Stall, WriteRest, Rearm, vars, Pending, clientVars
    <2> QED
        BY <1>2, <1>19, <2>1
        DEF CloseInput, Stall, WriteRest, Rearm, vars, configVars, accessVars
<1> QED
    BY <1>4, <1>5, <1>6, <1>7, <1>8, <1>12, <1>13, <1>14, <1>15, <1>17, <1>18, <1>19, <1>16
    DEF Next, Step, Greet, Work, Auth

\* A session that begins is a connection that begins.
LEMMA ProtocolStart == Init => Protocol!ProtocolInit
<1> SUFFICES ASSUME Init PROVE Protocol!ProtocolInit
    OBVIOUS
<1>1. /\ Pending = <<>> /\ pc # "closed" /\ pc # "auth"
      /\ reply.from = {} /\ user = Nobody /\ replies = 0
    BY DEF Init, Pending, NoReply
<1>2. GrantsV \in [Users \cup {Nobody} -> SUBSET Dbs]
    BY DEF GrantsV, Granted
<1> QED
    BY <1>1, <1>2 DEF Protocol!ProtocolInit, GrantsV

\* Timers, access lists and partly written replies implement the protocol: the
\* client is answered in order, an AUTH with a wrong number of arguments again
\* after its 501, and only from databases it is granted or that a search of
\* those comes to.
THEOREM SessionImplementsProtocol == Spec => ImplementsProtocol
<1>1. SessionInv /\ SessionInv' /\ [Next]_vars => [Protocol!ProtocolNext]_(Protocol!protocolVars)
    BY ProtocolStep
<1> QED
    BY <1>1, ProtocolStart, SessionInvariance, PTL
    DEF Spec, ImplementsProtocol, Protocol!ProtocolSpec

-----------------------------------------------------------------------------
(* The connection (TextChannel): commands and texts between dict and the   *)
(* daemon.  First its characters.                                          *)
End == <<CR, NL>>
Plain == Chars \ {CR, NL}

LEMMA CharsApart ==
    /\ CR # NL /\ Dot # CR /\ Dot # NL /\ "a" # CR /\ "a" # NL /\ "a" # Dot
    /\ Follows # CR /\ Follows # NL /\ Follows # Dot /\ Follows # "a" /\ Follows # Ok
    /\ Ok # CR /\ Ok # NL /\ Ok # Dot /\ Ok # "a"
    /\ "EOF" \notin Chars
BY DEF CR, NL, Dot, Follows, Ok, Chars

LEMMA PlainChars ==
    /\ Plain = {Dot, "a", Follows, Ok} /\ Plain \subseteq Chars
    /\ CR \in Chars /\ NL \in Chars /\ CR \notin Plain /\ NL \notin Plain
BY CharsApart DEF Plain, Chars

LEMMA EndType == End \in Seq(Chars) /\ Len(End) = 2 /\ End[1] = CR /\ End[2] = NL
BY PlainChars DEF End
-----------------------------------------------------------------------------
(* Where two ways to divide a sequence meet: s is u and v, w is v and z.   *)
Meets(S, s, z, u, w) == \E v \in Seq(S) : s = u \o v /\ v \o z = w

LEMMA Overlap ==
    ASSUME NEW S, NEW s \in Seq(S), NEW z \in Seq(S), NEW u \in Seq(S), NEW w \in Seq(S),
           s \o z = u \o w, Len(u) <= Len(s)
    PROVE  Meets(S, s, z, u, w)
<1> DEFINE l == Len(s)
           m == Len(u)
           n == Len(w)
           k == Len(z)
           v == SubSeq(s, m + 1, l)
           x == s \o z
<1>1. l \in Nat /\ m \in Nat /\ n \in Nat /\ k \in Nat /\ m <= l
  OBVIOUS
<1>2. /\ x \in Seq(S) /\ Len(x) = l + k
      /\ \A i \in 1 .. l : x[i] = s[i]
      /\ \A i \in 1 .. k : x[l + i] = z[i]
  <2>1. /\ x \in Seq(S) /\ Len(x) = l + k
        /\ \A i \in 1 .. l + k : x[i] = IF i <= l THEN s[i] ELSE z[i - l]
    BY ConcatProperties
  <2>2. ASSUME NEW i \in 1 .. l PROVE x[i] = s[i]
    <3>1. i \in 1 .. l + k /\ i <= l
      BY <1>1
    <3> QED
      BY <2>1, <3>1
  <2>3. ASSUME NEW i \in 1 .. k PROVE x[l + i] = z[i]
    <3>1. l + i \in 1 .. l + k /\ ~(l + i <= l) /\ (l + i) - l = i
      BY <1>1
    <3> QED
      BY <2>1, <3>1
  <2> QED
    BY <2>1, <2>2, <2>3
<1>3. /\ Len(x) = m + n
      /\ \A i \in 1 .. m : x[i] = u[i]
      /\ \A i \in 1 .. n : x[m + i] = w[i]
  BY ConcatProperties
<1>4. v \in Seq(S) /\ Len(v) = l - m /\ \A i \in 1 .. l - m : v[i] = s[m + i]
  BY <1>1, SubSeqProperties
<1> HIDE DEF v, x
<1>5. s = u \o v
  <2>1. u \o v \in Seq(S) /\ Len(u \o v) = l
        /\ (\A i \in 1 .. m : (u \o v)[i] = u[i]) /\ \A i \in 1 .. l - m : (u \o v)[m + i] = v[i]
    BY <1>1, <1>4, ConcatProperties
  <2> HIDE DEF l, m
  <2>2. ASSUME NEW i \in 1 .. l PROVE s[i] = (u \o v)[i]
    <3> DEFINE si == s[i]
               ti == (u \o v)[i]
    <3> HIDE DEF si, ti
    <3> SUFFICES si = ti
      BY DEF si, ti
    <3>1. CASE i <= m
      <4>1. i \in 1 .. m
        BY <1>1, <3>1
      <4> QED
        BY <1>2, <1>3, <2>1, <4>1 DEF si, ti
    <3>2. CASE i > m
      <4>1. i - m \in 1 .. l - m /\ m + (i - m) = i
        BY <1>1, <3>2
      <4> QED
        BY <1>4, <2>1, <4>1 DEF si, ti
    <3>3. i <= m \/ i > m
      BY <1>1
    <3> QED
      BY <3>1, <3>2, <3>3
  <2> QED
    BY <2>1, <2>2, SeqEqual DEF l
<1>6. v \o z = w
  <2>1. v \o z \in Seq(S) /\ Len(v \o z) = (l - m) + k
        /\ (\A i \in 1 .. l - m : (v \o z)[i] = v[i]) /\ \A i \in 1 .. k : (v \o z)[(l - m) + i] = z[i]
    <3>1. /\ v \o z \in Seq(S) /\ Len(v \o z) = Len(v) + Len(z)
          /\ \A i \in 1 .. Len(v) + Len(z) : (v \o z)[i] = IF i <= Len(v) THEN v[i] ELSE z[i - Len(v)]
      BY <1>4, ConcatProperties
    <3>2. k = Len(z)
      OBVIOUS
    <3> HIDE DEF k, l, m
    <3>3. Len(v \o z) = (l - m) + k
      BY <1>4, <3>1, <3>2
    <3>4. \A i \in 1 .. l - m : (v \o z)[i] = v[i]
      BY <1>1, <1>4, <3>1, <3>2
    <3>5. ASSUME NEW i \in 1 .. k PROVE (v \o z)[(l - m) + i] = z[i]
      <4>1. (l - m) + i \in 1 .. Len(v) + Len(z) /\ ~((l - m) + i <= Len(v)) /\ ((l - m) + i) - Len(v) = i
        BY <1>1, <1>4, <3>2
      <4> QED
        BY <3>1, <4>1
    <3> QED
      BY <3>1, <3>3, <3>4, <3>5
  <2>2. n = (l - m) + k
    BY <1>1, <1>2, <1>3
  <2> HIDE DEF l, m, n, k
  <2>3. ASSUME NEW i \in 1 .. n PROVE (v \o z)[i] = w[i]
    <3>1. w[i] = x[m + i]
      BY <1>3
    <3>2. CASE i <= l - m
      <4>1. i \in 1 .. l - m /\ m + i \in 1 .. l
        BY <1>1, <3>2
      <4> QED
        BY <1>2, <1>4, <2>1, <3>1, <4>1
    <3>3. CASE i > l - m
      <4>1. i - (l - m) \in 1 .. k /\ (l - m) + (i - (l - m)) = i /\ l + (i - (l - m)) = m + i
        BY <1>1, <2>2, <3>3
      <4> QED
        BY <1>2, <2>1, <3>1, <4>1
    <3>4. i <= l - m \/ i > l - m
      BY <1>1
    <3> QED
      BY <3>2, <3>3, <3>4
  <2> QED
    BY <2>1, <2>2, <2>3, SeqEqual DEF n
<1> QED
  BY <1>4, <1>5, <1>6 DEF Meets

LEMMA ConcatParts ==
    ASSUME NEW S, NEW u \in Seq(S), NEW v \in Seq(S)
    PROVE  SubSeq(u \o v, 1, Len(u)) = u /\ SubSeq(u \o v, Len(u) + 1, Len(u \o v)) = v
<1> DEFINE x == u \o v
           m == Len(u)
           n == Len(v)
<1>1. /\ x \in Seq(S) /\ Len(x) = m + n
      /\ \A k \in 1 .. m + n : x[k] = IF k <= m THEN u[k] ELSE v[k - m]
  BY ConcatProperties
<1>2. m \in Nat /\ n \in Nat /\ m = Len(u) /\ n = Len(v)
  OBVIOUS
<1> HIDE DEF x, m, n
<1>3. SubSeq(x, 1, m) = u
  <2> DEFINE y == SubSeq(x, 1, m)
  <2>1. y \in Seq(S) /\ Len(y) = m /\ \A k \in 1 .. m : y[k] = x[k]
    BY <1>1, <1>2
  <2> HIDE DEF y
  <2>2. \A k \in 1 .. m : x[k] = u[k]
    BY <1>1, <1>2
  <2>3. y = u
    BY <1>2, <2>1, <2>2, SeqEqual
  <2> QED
    BY <2>3 DEF y
<1>4. SubSeq(x, m + 1, m + n) = v
  <2> DEFINE y == SubSeq(x, m + 1, m + n)
  <2>1. y \in Seq(S) /\ Len(y) = n /\ \A k \in 1 .. n : y[k] = x[m + k]
    <3> DEFINE a == m + 1
               b == m + n
    <3>1. a \in Int /\ b \in Int /\ \A i \in a .. b : x[i] \in S
      BY <1>1, <1>2
    <3> HIDE DEF a, b
    <3>2. /\ SubSeq(x, a, b) \in Seq(S)
          /\ Len(SubSeq(x, a, b)) = IF a <= b THEN b - a + 1 ELSE 0
          /\ \A i \in 1 .. b - a + 1 : SubSeq(x, a, b)[i] = x[a + i - 1]
      BY <3>1, SubSeqProperties
    <3>3. y \in Seq(S) /\ Len(y) = (IF a <= b THEN b - a + 1 ELSE 0) /\ \A i \in 1 .. b - a + 1 : y[i] = x[a + i - 1]
      BY <3>2 DEF a, b
    <3>4. a = m + 1 /\ b = m + n
      BY DEF a, b
    <3> HIDE DEF y
    <3>5. Len(y) = n
      BY <1>2, <3>4, <3>3
    <3>6. ASSUME NEW k \in 1 .. n PROVE y[k] = x[m + k]
      <4>1. k \in 1 .. b - a + 1 /\ a + k - 1 = m + k
        BY <1>2, <3>4
      <4> QED
        BY <3>3, <4>1
    <3> QED
      BY <3>3, <3>5, <3>6
  <2> HIDE DEF y
  <2>2. ASSUME NEW k \in 1 .. n PROVE x[m + k] = v[k]
    <3>1. m + k \in 1 .. m + n /\ ~(m + k <= m) /\ (m + k) - m = k
      BY <1>2
    <3> QED
      BY <1>1, <3>1
  <2>3. y = v
    BY <1>2, <2>1, <2>2, SeqEqual
  <2> QED
    BY <2>3 DEF y
<1> QED
  BY <1>1, <1>2, <1>3, <1>4 DEF x

LEMMA Beginning ==
    ASSUME NEW S, NEW s \in Seq(S), NEW z \in Seq(S), NEW u \in Seq(S), NEW w \in Seq(S),
           s \o z = u \o w, Len(s) <= Len(u)
    PROVE  s = SubSeq(u, 1, Len(s))
<1>1. u \o w = s \o z /\ Len(s) <= Len(u)
  OBVIOUS
<1>2. Meets(S, u, w, s, z)
  BY <1>1, Overlap
<1>3. PICK v \in Seq(S) : u = s \o v /\ v \o w = z
  BY <1>2 DEF Meets
<1>4. SubSeq(s \o v, 1, Len(s)) = s
  BY <1>3, ConcatParts
<1> QED
  BY <1>3, <1>4
-----------------------------------------------------------------------------
(* Without its carriage returns and line ends.                             *)
LEMMA BareJoin ==
    ASSUME NEW s \in Seq(Chars), NEW t \in Seq(Chars)
    PROVE  Bare(s \o t) = Bare(s) \o Bare(t)
<1> DEFINE b(c) == IF c \in {CR, NL} THEN <<>> ELSE <<c>>
           ss == [k \in 1 .. Len(s) |-> b(s[k])]
           tt == [k \in 1 .. Len(t) |-> b(t[k])]
           u == s \o t
           uu == [k \in 1 .. Len(u) |-> b(u[k])]
           m == Len(s)
           n == Len(t)
<1>1. /\ u \in Seq(Chars) /\ Len(u) = m + n
      /\ \A k \in 1 .. m + n : u[k] = IF k <= m THEN s[k] ELSE t[k - m]
  BY ConcatProperties
<1>2. m \in Nat /\ n \in Nat /\ (\A k \in 1 .. m : s[k] \in Chars) /\ \A k \in 1 .. n : t[k] \in Chars
  OBVIOUS
<1>3. \A c \in Chars : b(c) \in Seq(Chars)
  OBVIOUS
<1>4. Bare(s) = FlattenSeq(ss) /\ Bare(t) = FlattenSeq(tt) /\ Bare(u) = FlattenSeq(uu)
  BY DEF Bare
<1> HIDE DEF b, u, m, n
<1>5. ss \in Seq(Seq(Chars)) /\ Len(ss) = m /\ \A k \in 1 .. m : ss[k] = b(s[k])
  BY <1>2, <1>3 DEF m
<1>6. tt \in Seq(Seq(Chars)) /\ Len(tt) = n /\ \A k \in 1 .. n : tt[k] = b(t[k])
  BY <1>2, <1>3 DEF n
<1>7. uu \in Seq(Seq(Chars)) /\ Len(uu) = m + n /\ \A k \in 1 .. m + n : uu[k] = b(u[k])
  <2>1. Len(u) \in Nat /\ \A k \in 1 .. Len(u) : b(u[k]) \in Seq(Chars)
    BY <1>1, <1>3
  <2>2. uu \in Seq(Seq(Chars)) /\ Len(uu) = Len(u) /\ \A k \in 1 .. Len(u) : uu[k] = b(u[k])
    BY <2>1
  <2> HIDE DEF uu
  <2> QED
    BY <1>1, <2>2
<1> HIDE DEF ss, tt, uu
<1>8. \A k \in 1 .. m : uu[k] = ss[k]
  <2>1. ASSUME NEW k \in 1 .. m PROVE uu[k] = ss[k]
    <3>1. k \in 1 .. m + n /\ k <= m
      BY <1>2
    <3> QED
      BY <1>1, <1>5, <1>7, <3>1
  <2> QED
    BY <2>1
<1>9. \A k \in 1 .. n : uu[m + k] = tt[k]
  <2>1. ASSUME NEW k \in 1 .. n PROVE uu[m + k] = tt[k]
    <3>1. m + k \in 1 .. m + n /\ ~(m + k <= m) /\ (m + k) - m = k
      BY <1>2
    <3>2. u[m + k] = t[k]
      BY <1>1, <3>1
    <3> QED
      BY <1>6, <1>7, <3>1, <3>2
  <2> QED
    BY <2>1
<1>10. FlattenSeq(uu) = FlattenSeq(ss) \o FlattenSeq(tt)
  <2>1. /\ Len(uu) = Len(ss) + Len(tt)
        /\ \A k \in 1 .. Len(ss) : uu[k] = ss[k]
        /\ \A k \in 1 .. Len(tt) : uu[Len(ss) + k] = tt[k]
    BY <1>5, <1>6, <1>7, <1>8, <1>9
  <2> QED
    BY <1>5, <1>6, <1>7, <2>1, FlattenJoin
<1> QED
  BY <1>4, <1>10 DEF u

LEMMA BarePlain ==
    ASSUME NEW s \in Seq(Plain)
    PROVE  Bare(s) = s
<1>1. \A k \in 1 .. Len(s) : s[k] \notin {CR, NL}
  BY DEF Plain
<1>2. [k \in 1 .. Len(s) |-> IF s[k] \in {CR, NL} THEN <<>> ELSE <<s[k]>>] = [k \in 1 .. Len(s) |-> <<s[k]>>]
  BY <1>1
<1>3. FlattenSeq([k \in 1 .. Len(s) |-> <<s[k]>>]) = s
  BY FlattenSingles
<1> QED
  BY <1>2, <1>3 DEF Bare

LEMMA BareEnds ==
    ASSUME NEW s \in Seq({CR, NL})
    PROVE  Bare(s) = <<>>
<1>1. \A k \in 1 .. Len(s) : s[k] \in {CR, NL}
  OBVIOUS
<1>2. [k \in 1 .. Len(s) |-> IF s[k] \in {CR, NL} THEN <<>> ELSE <<s[k]>>] = [k \in 1 .. Len(s) |-> <<>>]
  BY <1>1
<1>3. Len(s) \in Nat
  OBVIOUS
<1>4. FlattenSeq([k \in 1 .. Len(s) |-> <<>>]) = <<>>
  BY <1>3, FlattenEmpties
<1> QED
  BY <1>2, <1>4 DEF Bare

LEMMA BareLine ==
    ASSUME NEW t \in Seq(Plain), NEW e \in Seq({CR, NL})
    PROVE  Bare(t \o e) = t
<1>1. t \in Seq(Chars) /\ e \in Seq(Chars)
  BY PlainChars, SeqMonotonic
<1>2. Bare(t \o e) = Bare(t) \o Bare(e)
  BY <1>1, BareJoin
<1>3. Bare(t) = t /\ Bare(e) = <<>>
  BY BarePlain, BareEnds
<1>4. t \o <<>> = t
  BY ConcatEmptySeq
<1> QED
  BY <1>2, <1>3, <1>4
-----------------------------------------------------------------------------
(* Where a line ends.                                                      *)
LEMMA LineEndsAgree ==
    ASSUME NEW s, NEW h, NEW k \in Nat \ {0}, NEW limit, \A j \in 1 .. k : s[j] = h[j]
    PROVE  LineEnds(s, k, limit) = LineEnds(h, k, limit)
<1>1. {j \in 1 .. k : s[j] \notin {CR, NL}} = {j \in 1 .. k : h[j] \notin {CR, NL}}
  OBVIOUS
<1>2. k \in 1 .. k /\ s[k] = h[k]
  OBVIOUS
<1> QED
  BY <1>1, <1>2, Zenon DEF LineEnds, Counted

LEMMA CountedAll ==
    ASSUME NEW s, NEW k \in Nat, \A j \in 1 .. k : s[j] \notin {CR, NL}
    PROVE  Counted(s, k) = k
<1>1. {j \in 1 .. k : s[j] \notin {CR, NL}} = 1 .. k
  OBVIOUS
<1>2. 1 \in Int /\ k \in Int
  OBVIOUS
<1> DEFINE c == Cardinality(1 .. k)
<1>3. c = IF 1 > k THEN 0 ELSE k - 1 + 1
  BY <1>2, FS_Interval
<1>4. Counted(s, k) = c
  BY <1>1 DEF Counted
<1> HIDE DEF c
<1> QED
  BY <1>3, <1>4

LEMMA CountedMost ==
    ASSUME NEW s, NEW k \in Nat, NEW m \in Nat, \A j \in 1 .. k : j > m => s[j] \in {CR, NL}
    PROVE  Counted(s, k) \in Nat /\ Counted(s, k) <= m
<1> DEFINE T == {j \in 1 .. k : s[j] \notin {CR, NL}}
<1>1. T \in SUBSET (1 .. m)
  OBVIOUS
<1>2. 1 \in Int /\ m \in Int
  OBVIOUS
<1>3. IsFiniteSet(1 .. m) /\ Cardinality(1 .. m) = IF 1 > m THEN 0 ELSE m - 1 + 1
  BY <1>2, FS_Interval
<1>4. IsFiniteSet(T) /\ Cardinality(T) <= Cardinality(1 .. m)
  <2> HIDE DEF T
  <2> QED
    BY <1>1, <1>3, FS_Subset
<1>5. Cardinality(T) \in Nat
  <2> HIDE DEF T
  <2> QED
    BY <1>4, FS_CardinalityType
<1>6. Counted(s, k) = Cardinality(T)
  BY DEF Counted
<1> HIDE DEF T
<1> QED
  BY <1>3, <1>4, <1>5, <1>6

(* The place of the first line end.                                        *)
LEMMA LineFound ==
    ASSUME NEW s \in Seq(Chars), NEW limit, NEW l \in 1 .. Len(s), LineEnds(s, l, limit),
           \A k \in 1 .. Len(s) : k < l => ~LineEnds(s, k, limit)
    PROVE  ReadLength(s, limit) = l
<1> DEFINE ends == {k \in 1 .. Len(s) : LineEnds(s, k, limit)}
<1>1. l \in ends /\ ends \subseteq Nat
  OBVIOUS
<1>2. \A m \in ends : l <= m
  OBVIOUS
<1>3. ReadLength(s, limit) = IF ends = {} THEN Len(s) ELSE CHOOSE k \in ends : \A m \in ends : k <= m
  BY DEF ReadLength
<1> HIDE DEF ends
<1>4. \A k \in ends : (\A m \in ends : k <= m) => k = l
  BY <1>1, <1>2
<1>5. (CHOOSE k \in ends : \A m \in ends : k <= m) = l
  BY <1>1, <1>2, <1>4
<1> QED
  BY <1>1, <1>3, <1>5

LEMMA LineMissing ==
    ASSUME NEW s \in Seq(Chars), NEW limit, \A k \in 1 .. Len(s) : ~LineEnds(s, k, limit)
    PROVE  /\ ReadLength(s, limit) = Len(s) /\ Rest(s, limit) = <<>>
           /\ SubSeq(s, 1, ReadLength(s, limit)) = s
           /\ LineRead(s, limit) = IF Bare(s) = <<>> THEN Eof ELSE Bare(s)
<1>1. ReadLength(s, limit) = Len(s)
  BY DEF ReadLength
<1>2. Len(s) \in Nat /\ SubSeq(s, Len(s) + 1, Len(s)) = <<>>
  OBVIOUS
<1>3. SubSeq(s, 1, Len(s)) = s
  BY SubSeqFull
<1>4. \A k \in 1 .. Len(s) : s[k] # NL
  BY DEF LineEnds
<1> QED
  BY <1>1, <1>2, <1>3, <1>4 DEF Rest, LineRead

(* The beginning h of what is written up to the first line end.            *)
IsHead(h, limit) ==
    /\ h \in Seq(Chars) /\ Len(h) # 0 /\ LineEnds(h, Len(h), limit)
    /\ \A k \in 1 .. Len(h) : k < Len(h) => ~LineEnds(h, k, limit)
    /\ Bare(h) = <<>> => \E k \in 1 .. Len(h) : h[k] = NL

(* Of what is written the reader has s: h and more, or not yet all of h.   *)
Taken(s, z, limit, h, w) ==
    /\ \E k \in 1 .. Len(s) : LineEnds(s, k, limit)
    /\ LineRead(s, limit) = Bare(h)
    /\ Rest(s, limit) \in Seq(Chars) /\ Rest(s, limit) \o z = w

Missing(s, limit, h) ==
    /\ \A k \in 1 .. Len(s) : ~LineEnds(s, k, limit)
    /\ Rest(s, limit) = <<>>
    /\ LineRead(s, limit) = IF Bare(s) = <<>> THEN Eof ELSE Bare(s)
    /\ Len(s) < Len(h) /\ s = SubSeq(h, 1, Len(s))

LEMMA HeadTaken ==
    ASSUME NEW s \in Seq(Chars), NEW z \in Seq(Chars), NEW w \in Seq(Chars), NEW limit,
           NEW h, IsHead(h, limit), s \o z = h \o w, Len(h) <= Len(s)
    PROVE  Taken(s, z, limit, h, w)
<1> DEFINE l == Len(h)
<1>1. h \in Seq(Chars) /\ l \in Nat /\ l # 0 /\ LineEnds(h, l, limit)
      /\ (\A k \in 1 .. l : k < l => ~LineEnds(h, k, limit))
      /\ (Bare(h) = <<>> => \E k \in 1 .. l : h[k] = NL)
  BY DEF IsHead
<1>2. Meets(Chars, s, z, h, w)
  BY <1>1, Overlap
<1>3. PICK v \in Seq(Chars) : s = h \o v /\ v \o z = w
  BY <1>2 DEF Meets
<1>4. /\ Len(s) = l + Len(v) /\ \A k \in 1 .. l + Len(v) : s[k] = IF k <= l THEN h[k] ELSE v[k - l]
  BY <1>1, <1>3, ConcatProperties
<1>5. Len(v) \in Nat
  OBVIOUS
<1> HIDE DEF l
<1> DEFINE n == Len(v)
<1> HIDE DEF n
<1>6. l \in 1 .. Len(s) /\ \A k \in 1 .. l : k \in 1 .. Len(s) /\ s[k] = h[k]
  <2>1. Len(s) = l + n /\ n \in Nat /\ \A k \in 1 .. l + n : s[k] = IF k <= l THEN h[k] ELSE v[k - l]
    BY <1>4, <1>5 DEF n
  <2>2. ASSUME NEW k \in 1 .. l PROVE k \in 1 .. l + n /\ s[k] = h[k]
    <3>1. k \in 1 .. l + n /\ k <= l
      BY <1>1, <2>1
    <3> QED
      BY <2>1, <3>1
  <2> QED
    BY <1>1, <2>1, <2>2
<1>7. \A k \in 1 .. l : LineEnds(s, k, limit) = LineEnds(h, k, limit)
  <2>1. ASSUME NEW k \in 1 .. l PROVE LineEnds(s, k, limit) = LineEnds(h, k, limit)
    <3>1. k \in Nat \ {0} /\ \A j \in 1 .. k : s[j] = h[j]
      BY <1>1, <1>6
    <3> QED
      BY <3>1, LineEndsAgree
  <2> QED
    BY <2>1
<1>8. LineEnds(s, l, limit) /\ \A k \in 1 .. Len(s) : k < l => ~LineEnds(s, k, limit)
  BY <1>1, <1>6, <1>7
<1>9. ReadLength(s, limit) = l
  BY <1>6, <1>8, LineFound
<1>10. SubSeq(s, 1, l) = h /\ SubSeq(s, l + 1, Len(s)) = v
  <2>1. SubSeq(h \o v, 1, Len(h)) = h /\ SubSeq(h \o v, Len(h) + 1, Len(h \o v)) = v
    BY <1>1, ConcatParts
  <2> QED
    BY <1>3, <2>1 DEF l
<1>11. (\E k \in 1 .. l : h[k] = NL) => \E k \in 1 .. Len(s) : s[k] = NL
  BY <1>6
<1>12. LineRead(s, limit) = Bare(h)
  BY <1>1, <1>9, <1>10, <1>11 DEF LineRead
<1>13. Rest(s, limit) = v
  BY <1>9, <1>10 DEF Rest
<1> QED
  BY <1>3, <1>6, <1>8, <1>12, <1>13 DEF Taken

LEMMA HeadMissing ==
    ASSUME NEW s \in Seq(Chars), NEW z \in Seq(Chars), NEW w \in Seq(Chars), NEW limit,
           NEW h, IsHead(h, limit), s \o z = h \o w, Len(s) < Len(h)
    PROVE  Missing(s, limit, h)
<1> DEFINE l == Len(h)
           m == Len(s)
<1>1. h \in Seq(Chars) /\ l \in Nat /\ m \in Nat /\ m < l
      /\ (\A k \in 1 .. l : k < l => ~LineEnds(h, k, limit))
  BY DEF IsHead
<1>2. s = SubSeq(h, 1, m)
  <2>1. m <= l
    BY <1>1
  <2> QED
    BY <1>1, <2>1, Beginning
<1>3. \A k \in 1 .. m : s[k] = h[k]
  <2>1. \A k \in 1 .. m : SubSeq(h, 1, m)[k] = h[k]
    BY <1>1
  <2> QED
    BY <1>2, <2>1, Zenon
<1> HIDE DEF l, m
<1>4. ASSUME NEW k \in 1 .. m PROVE ~LineEnds(s, k, limit)
  <2>1. k \in Nat \ {0} /\ k \in 1 .. l /\ k < l /\ \A j \in 1 .. k : s[j] = h[j]
    BY <1>1, <1>3
  <2>2. LineEnds(s, k, limit) = LineEnds(h, k, limit)
    BY <2>1, LineEndsAgree
  <2> QED
    BY <1>1, <2>1, <2>2
<1>5. /\ Rest(s, limit) = <<>>
      /\ LineRead(s, limit) = IF Bare(s) = <<>> THEN Eof ELSE Bare(s)
  BY <1>4, LineMissing DEF m
<1> QED
  BY <1>1, <1>2, <1>4, <1>5 DEF Missing, m, l

(* A line that fits, with its end; the beginning of one that does not.     *)
LEMMA LineWithEnd ==
    ASSUME NEW t \in Seq(Plain)
    PROVE  /\ t \in Seq(Chars) /\ t \o End \in Seq(Chars) /\ Len(t \o End) = Len(t) + 2
           /\ \A k \in 1 .. Len(t) : (t \o End)[k] = t[k] /\ t[k] \notin {CR, NL}
           /\ (t \o End)[Len(t) + 1] = CR /\ (t \o End)[Len(t) + 2] = NL
<1> DEFINE h == t \o End
           l == Len(t)
<1>1. t \in Seq(Chars) /\ l \in Nat /\ \A k \in 1 .. l : t[k] \notin {CR, NL}
  BY PlainChars, SeqMonotonic DEF Plain
<1>2. h \in Seq(Chars) /\ Len(h) = l + 2 /\ \A k \in 1 .. l + 2 : h[k] = IF k <= l THEN t[k] ELSE End[k - l]
  <2>1. End \in Seq(Chars)
    BY EndType
  <2>2. /\ h \in Seq(Chars) /\ Len(h) = l + Len(End)
        /\ \A k \in 1 .. l + Len(End) : h[k] = IF k <= l THEN t[k] ELSE End[k - l]
    BY <1>1, <2>1, ConcatProperties
  <2> HIDE DEF h, l
  <2> QED
    BY <2>2, EndType
<1> HIDE DEF h, l
<1>3. \A k \in 1 .. l : h[k] = t[k]
  BY <1>1, <1>2
<1>4. h[l + 1] = CR
  <2>1. l + 1 \in 1 .. l + 2 /\ ~(l + 1 <= l) /\ (l + 1) - l = 1
    BY <1>1
  <2> QED
    BY <1>2, <2>1, EndType
<1>5. h[l + 2] = NL
  <2>1. l + 2 \in 1 .. l + 2 /\ ~(l + 2 <= l) /\ (l + 2) - l = 2
    BY <1>1
  <2> QED
    BY <1>2, <2>1, EndType
<1> QED
  BY <1>1, <1>2, <1>3, <1>4, <1>5 DEF h, l

LEMMA WholeHead ==
    ASSUME NEW t \in Seq(Plain), NEW limit \in Nat, Len(t) < limit
    PROVE  IsHead(t \o End, limit) /\ Bare(t \o End) = t
<1> DEFINE h == t \o End
           l == Len(t)
<1>1. /\ h \in Seq(Chars) /\ Len(h) = l + 2 /\ l \in Nat /\ l < limit
      /\ \A k \in 1 .. l : h[k] = t[k] /\ t[k] \notin {CR, NL}
      /\ h[l + 1] = CR /\ h[l + 2] = NL
  BY LineWithEnd
<1>2. Bare(h) = t
  <2>1. End \in Seq({CR, NL})
    BY DEF End
  <2> QED
    BY <2>1, BareLine
<1> HIDE DEF h, l
<1>3. LineEnds(h, l + 2, limit) /\ l + 2 \in 1 .. l + 2
  BY <1>1 DEF LineEnds
<1>4. ASSUME NEW k \in 1 .. l + 2, k < l + 2 PROVE ~LineEnds(h, k, limit)
  <2>1. h[k] # NL
    <3>1. CASE k \in 1 .. l
      BY <1>1, <3>1
    <3>2. CASE k = l + 1
      BY <1>1, <3>2, CharsApart
    <3> QED
      BY <1>1, <1>4, <3>1, <3>2
  <2>2. k \in Nat /\ \A j \in 1 .. k : j > l => h[j] \in {CR, NL}
    <3>1. ASSUME NEW j \in 1 .. k, j > l PROVE h[j] = CR
      <4>1. j = l + 1
        BY <1>1, <1>4, <3>1
      <4> QED
        BY <1>1, <4>1
    <3> QED
      BY <1>1, <3>1
  <2>3. Counted(h, k) \in Nat /\ Counted(h, k) <= l
    BY <1>1, <2>2, CountedMost
  <2> QED
    BY <1>1, <2>1, <2>3 DEF LineEnds
<1> QED
  BY <1>1, <1>2, <1>3, <1>4 DEF IsHead, h

LEMMA LongHead ==
    ASSUME NEW t \in Seq(Plain), NEW limit \in Nat \ {0}, limit <= Len(t)
    PROVE  LET h == SubSeq(t, 1, limit)
           IN  IsHead(h, limit) /\ Bare(h) = h /\ Len(h) = limit /\ h \in Seq(Plain)
<1> DEFINE h == SubSeq(t, 1, limit)
<1>1. h \in Seq(Plain) /\ Len(h) = limit /\ \A k \in 1 .. limit : h[k] \in Plain
  OBVIOUS
<1>2. Bare(h) = h
  BY <1>1, BarePlain
<1>3. h \in Seq(Chars)
  BY <1>1, PlainChars, SeqMonotonic
<1> HIDE DEF h
<1>4. ASSUME NEW k \in 1 .. limit PROVE h[k] # NL /\ Counted(h, k) = k
  <2>1. h[k] # NL /\ k \in Nat /\ \A j \in 1 .. k : h[j] \notin {CR, NL}
    BY <1>1, PlainChars
  <2> QED
    BY <2>1, CountedAll
<1>5. limit \in 1 .. limit /\ limit # 0 /\ h # <<>>
  BY <1>1
<1>6. LineEnds(h, limit, limit) /\ \A k \in 1 .. limit : k < limit => ~LineEnds(h, k, limit)
  BY <1>4, <1>5 DEF LineEnds
<1>7. IsHead(h, limit)
  BY <1>1, <1>2, <1>3, <1>5, <1>6 DEF IsHead
<1> QED
  BY <1>1, <1>2, <1>7 DEF h
-----------------------------------------------------------------------------
(* What a reader gets: a line, which leaves w to be read, or, when the end *)
(* of line t has not come, what there is of it.                            *)
Reads(s, z, limit, line, w) ==
    /\ \E k \in 1 .. Len(s) : LineEnds(s, k, limit)
    /\ LineRead(s, limit) = line
    /\ Rest(s, limit) \in Seq(Chars) /\ Rest(s, limit) \o z = w

Waits(s, limit, t) ==
    /\ \A k \in 1 .. Len(s) : ~LineEnds(s, k, limit)
    /\ Rest(s, limit) = <<>>
    /\ LineRead(s, limit) = Eof \/ \E j \in 1 .. Len(t) : LineRead(s, limit) = SubSeq(t, 1, j)

LEMMA ReadShort ==
    ASSUME NEW s \in Seq(Chars), NEW z \in Seq(Chars), NEW w \in Seq(Chars), NEW limit \in Nat,
           NEW t \in Seq(Plain), Len(t) < limit, s \o z = (t \o End) \o w
    PROVE  Reads(s, z, limit, t, w) \/ Waits(s, limit, t)
<1> DEFINE h == t \o End
           l == Len(t)
           m == Len(s)
<1>1. IsHead(h, limit) /\ Bare(h) = t /\ s \o z = h \o w
  BY WholeHead
<1>2. /\ h \in Seq(Chars) /\ Len(h) = l + 2 /\ l \in Nat /\ m \in Nat
      /\ \A k \in 1 .. l : h[k] = t[k]
      /\ h[l + 1] = CR
  BY LineWithEnd
<1> HIDE DEF h
<1>3. CASE Len(h) <= Len(s)
  <2>1. Taken(s, z, limit, h, w)
    BY <1>1, <1>3, HeadTaken
  <2> QED
    BY <1>1, <2>1 DEF Taken, Reads
<1>4. CASE Len(s) < Len(h)
  <2>1. Missing(s, limit, h)
    BY <1>1, <1>4, HeadMissing
  <2>2. m < l + 2 /\ s = SubSeq(h, 1, m) /\ Rest(s, limit) = <<>>
        /\ (\A k \in 1 .. m : ~LineEnds(s, k, limit))
        /\ LineRead(s, limit) = IF Bare(s) = <<>> THEN Eof ELSE Bare(s)
    BY <1>2, <2>1 DEF Missing
  <2>3. CASE m <= l
    <3> DEFINE q == SubSeq(t, 1, m)
    <3>1. q \in Seq(Plain) /\ Len(q) = m /\ \A k \in 1 .. m : q[k] = t[k]
      BY <1>2, <2>3
    <3>2. \A k \in 1 .. m : SubSeq(h, 1, m)[k] = h[k]
      BY <1>2, <2>2
    <3> HIDE DEF q
    <3>3. \A k \in 1 .. m : s[k] = q[k]
      <4>1. \A k \in 1 .. m : s[k] = h[k]
        BY <2>2, <3>2, Zenon
      <4> HIDE DEF m, l
      <4>2. ASSUME NEW k \in 1 .. m PROVE k \in 1 .. l
        BY <1>2, <2>3
      <4>3. ASSUME NEW k \in 1 .. m PROVE s[k] = q[k]
        <5>1. s[k] = h[k] /\ q[k] = t[k] /\ h[k] = t[k]
          BY <1>2, <3>1, <4>1, <4>2
        <5> QED
          BY <5>1
      <4> QED
        BY <4>3
    <3>4. s = q
      <4>1. q \in Seq(Chars)
        BY <3>1, PlainChars, SeqMonotonic
      <4> QED
        BY <3>1, <3>3, <4>1, SeqEqual
    <3>5. Bare(q) = q
      BY <3>1, BarePlain
    <3>6. m # 0 => m \in 1 .. l
      BY <1>2, <2>3
    <3>7. m = 0 => q = <<>>
      BY <3>1
    <3>8. m = 0 => LineRead(s, limit) = Eof
      BY <2>2, <3>4, <3>5, <3>7, Zenon
    <3>9. m # 0 => LineRead(s, limit) = Eof \/ LineRead(s, limit) = SubSeq(t, 1, m)
      BY <2>2, <3>4, <3>5, Zenon DEF q
    <3> HIDE DEF m, l
    <3>10. LineRead(s, limit) = Eof \/ \E j \in 1 .. l : LineRead(s, limit) = SubSeq(t, 1, j)
      BY <3>6, <3>8, <3>9
    <3> QED
      BY <2>2, <3>10 DEF Waits, m, l
  <2>4. CASE m = l + 1
    <3>1. \A k \in 1 .. l : s[k] = t[k]
      <4>1. \A k \in 1 .. m : SubSeq(h, 1, m)[k] = h[k]
        BY <1>2, <2>2
      <4>2. \A k \in 1 .. m : s[k] = h[k]
        BY <2>2, <4>1, Zenon
      <4> HIDE DEF m, l
      <4> QED
        BY <1>2, <2>4, <4>2
    <3>2. s[l + 1] = CR
      <4>1. \A k \in 1 .. m : SubSeq(h, 1, m)[k] = h[k]
        BY <1>2, <2>2
      <4>2. \A k \in 1 .. m : s[k] = h[k]
        BY <2>2, <4>1, Zenon
      <4> HIDE DEF m, l
      <4> QED
        BY <1>2, <2>4, <4>2
    <3> DEFINE e == <<CR>>
               q == t \o e
    <3>3. e \in Seq({CR, NL}) /\ e \in Seq(Chars) /\ Len(e) = 1 /\ e[1] = CR /\ t \in Seq(Chars)
      <4>1. t \in Seq(Chars)
        BY PlainChars, SeqMonotonic
      <4> QED
        BY <4>1, PlainChars
    <3>4. q \in Seq(Chars) /\ Len(q) = l + 1 /\ \A k \in 1 .. l + 1 : q[k] = IF k <= l THEN t[k] ELSE e[k - l]
      <4> HIDE DEF e
      <4>1. /\ q \in Seq(Chars) /\ Len(q) = Len(t) + Len(e)
            /\ \A k \in 1 .. Len(t) + Len(e) : q[k] = IF k <= Len(t) THEN t[k] ELSE e[k - Len(t)]
        BY <3>3, ConcatProperties
      <4> HIDE DEF q
      <4> QED
        BY <3>3, <4>1
    <3>5. Bare(q) = t
      BY <3>3, BareLine
    <3> HIDE DEF q, e
    <3>6. \A k \in 1 .. l + 1 : s[k] = q[k]
      <4>1. \A k \in 1 .. l : s[k] = q[k]
        <5> HIDE DEF l
        <5> QED
          BY <1>2, <3>1, <3>4, SMTT(30)
      <4>2. s[l + 1] = q[l + 1]
        <5>1. l + 1 \in 1 .. l + 1 /\ ~(l + 1 <= l) /\ (l + 1) - l = 1
          BY <1>2
        <5> HIDE DEF l
        <5> QED
          BY <3>2, <3>3, <3>4, <5>1
      <4>3. ASSUME NEW k \in 1 .. l + 1 PROVE k \in 1 .. l \/ k = l + 1
        <5> HIDE DEF l
        <5> QED
          BY <1>2
      <4> QED
        BY <4>1, <4>2, <4>3
    <3>7. s = q
      <4>1. Len(s) = Len(q) /\ \A k \in 1 .. Len(s) : s[k] = q[k]
        BY <2>4, <3>4, <3>6
      <4> QED
        BY <3>4, <4>1, SeqEqual
    <3>8. SubSeq(t, 1, l) = t
      BY SubSeqFull
    <3>9. l # 0 => l \in 1 .. l
      BY <1>2
    <3>10. l = 0 => t = <<>>
      OBVIOUS
    <3>11. LineRead(s, limit) = IF t = <<>> THEN Eof ELSE t
      BY <2>2, <3>5, <3>7, Zenon
    <3>12. LineRead(s, limit) = Eof \/ \E j \in 1 .. l : LineRead(s, limit) = SubSeq(t, 1, j)
      <4> HIDE DEF l
      <4> QED
        BY <3>8, <3>9, <3>10, <3>11
    <3> QED
      BY <2>2, <3>12 DEF Waits
  <2>5. m <= l \/ m = l + 1
    <3> HIDE DEF m, l
    <3> QED
      BY <1>2, <2>2
  <2> QED
    BY <2>3, <2>4, <2>5
<1> QED
  BY <1>2, <1>3, <1>4

(* Three sequences one after the other, and four.                          *)
Associated(S, a, b, c) == (a \o b) \o c = a \o (b \o c) /\ (a \o b) \o c \in Seq(S)

LEMMA Associate ==
    ASSUME NEW S, NEW a \in Seq(S), NEW b \in Seq(S), NEW c \in Seq(S)
    PROVE  Associated(S, a, b, c)
<1>1. a \o b \in Seq(S)
  BY ConcatProperties
<1> DEFINE u == a \o b
<1> HIDE DEF u
<1>2. u \o c \in Seq(S)
  BY <1>1, ConcatProperties DEF u
<1>3. (a \o b) \o c = a \o (b \o c)
  BY ConcatAssociative
<1> QED
  BY <1>2, <1>3 DEF u, Associated

Regrouped(S, a, b, c, d) ==
    ((a \o b) \o c) \o d = a \o ((b \o c) \o d) /\ (b \o c) \o d \in Seq(S)

LEMMA Regroup ==
    ASSUME NEW S, NEW a \in Seq(S), NEW b \in Seq(S), NEW c \in Seq(S), NEW d \in Seq(S)
    PROVE  Regrouped(S, a, b, c, d)
<1> DEFINE u == b \o c
<1>1. u \in Seq(S)
  BY ConcatProperties
<1>2. (a \o b) \o c = a \o u
  BY ConcatAssociative, SMTT(30)
<1> HIDE DEF u
<1>3. (a \o u) \o d = a \o (u \o d)
  BY <1>1, ConcatAssociative, SMTT(30)
<1>4. u \o d \in Seq(S)
  BY <1>1, ConcatProperties
<1> QED
  BY <1>2, <1>3, <1>4, Zenon DEF u, Regrouped

LEMMA ReadLong ==
    ASSUME NEW s \in Seq(Chars), NEW z \in Seq(Chars), NEW w \in Seq(Chars), NEW limit \in Nat \ {0},
           NEW t \in Seq(Plain), limit <= Len(t), s \o z = (t \o End) \o w
    PROVE  \/ Reads(s, z, limit, SubSeq(t, 1, limit), (SubSeq(t, limit + 1, Len(t)) \o End) \o w)
           \/ Waits(s, limit, t)
<1> DEFINE h == SubSeq(t, 1, limit)
           g == SubSeq(t, limit + 1, Len(t))
           y == (g \o End) \o w
           l == Len(t)
           m == Len(s)
<1>1. IsHead(h, limit) /\ Bare(h) = h /\ Len(h) = limit /\ h \in Seq(Plain)
  BY LongHead
<1>2. g \in Seq(Plain) /\ h \o g = t
  <2>1. 1 \in 1 .. l + 1 /\ limit \in 1 - 1 .. l /\ l \in limit .. l /\ l \in Nat /\ limit \in Nat
    OBVIOUS
  <2>2. SubSeq(t, 1, limit) \o SubSeq(t, limit + 1, l) = SubSeq(t, 1, l)
    BY <2>1, ConcatAdjacentSubSeq
  <2>3. SubSeq(t, 1, l) = t
    BY SubSeqFull
  <2>4. g \in Seq(Plain)
    <3>1. \A i \in limit + 1 .. l : t[i] \in Plain
      BY <2>1
    <3>2. limit + 1 \in Int /\ l \in Int
      BY <2>1
    <3> HIDE DEF l
    <3>3. SubSeq(t, limit + 1, l) \in Seq(Plain)
      BY <3>1, <3>2, SubSeqProperties
    <3> QED
      BY <3>3 DEF l
  <2> QED
    BY <2>2, <2>3, <2>4
<1>3. h \in Seq(Chars) /\ g \in Seq(Chars) /\ t \in Seq(Chars) /\ End \in Seq(Chars)
  BY <1>1, <1>2, PlainChars, SeqMonotonic, EndType
<1> HIDE DEF h, g
<1>4. s \o z = h \o y /\ y \in Seq(Chars)
  <2>1. ((h \o g) \o End) \o w = h \o ((g \o End) \o w) /\ (g \o End) \o w \in Seq(Chars)
    <3>1. Regrouped(Chars, h, g, End, w)
      BY <1>3, Regroup
    <3> QED
      BY <3>1 DEF Regrouped
  <2>2. s \o z = (t \o End) \o w
    OBVIOUS
  <2> QED
    BY <1>2, <2>1, <2>2, Zenon
<1> HIDE DEF y
<1>5. CASE Len(h) <= Len(s)
  <2>1. Taken(s, z, limit, h, y)
    BY <1>1, <1>4, <1>5, HeadTaken
  <2>2. Reads(s, z, limit, h, y)
    BY <1>1, <2>1 DEF Taken, Reads
  <2> QED
    BY <2>2 DEF h, g, y
<1>6. CASE Len(s) < Len(h)
  <2>1. Missing(s, limit, h)
    BY <1>1, <1>4, <1>6, HeadMissing
  <2>2. m < limit /\ m \in Nat /\ s = SubSeq(h, 1, m) /\ Rest(s, limit) = <<>>
        /\ (\A k \in 1 .. m : ~LineEnds(s, k, limit))
        /\ LineRead(s, limit) = IF Bare(s) = <<>> THEN Eof ELSE Bare(s)
    BY <1>1, <2>1 DEF Missing
  <2>3. l \in Nat /\ limit <= l
    OBVIOUS
  <2> DEFINE q == SubSeq(t, 1, m)
  <2>4. q \in Seq(Plain) /\ Len(q) = m /\ \A k \in 1 .. m : q[k] = t[k]
    BY <2>2, <2>3
  <2>5. \A k \in 1 .. m : SubSeq(h, 1, m)[k] = h[k]
    BY <1>1, <2>2
  <2>6. \A k \in 1 .. limit : h[k] = t[k]
    BY DEF h
  <2> HIDE DEF q
  <2>7. \A k \in 1 .. m : s[k] = q[k]
    <3>1. \A k \in 1 .. m : s[k] = h[k]
      BY <2>2, <2>5, Zenon
    <3> HIDE DEF m
    <3>2. ASSUME NEW k \in 1 .. m PROVE k \in 1 .. limit
      BY <2>2
    <3>3. ASSUME NEW k \in 1 .. m PROVE s[k] = q[k]
      <4>1. s[k] = h[k] /\ q[k] = t[k] /\ h[k] = t[k]
        BY <2>4, <2>6, <3>1, <3>2
      <4> QED
        BY <4>1
    <3> QED
      BY <3>3
  <2>8. s = q
    <3>1. q \in Seq(Chars)
      BY <2>4, PlainChars, SeqMonotonic
    <3> QED
      BY <2>4, <2>7, <3>1, SeqEqual
  <2>9. Bare(q) = q
    BY <2>4, BarePlain
  <2>10. m # 0 => m \in 1 .. l
    BY <2>2, <2>3
  <2>11. m = 0 => q = <<>>
    BY <2>4
  <2>12. m = 0 => LineRead(s, limit) = Eof
    BY <2>2, <2>8, <2>9, <2>11, Zenon
  <2>13. m # 0 => LineRead(s, limit) = Eof \/ LineRead(s, limit) = SubSeq(t, 1, m)
    BY <2>2, <2>8, <2>9, Zenon DEF q
  <2>14. LineRead(s, limit) = Eof \/ \E j \in 1 .. l : LineRead(s, limit) = SubSeq(t, 1, j)
    <3> HIDE DEF m, l
    <3> QED
      BY <2>10, <2>12, <2>13
  <2> QED
    BY <2>2, <2>14 DEF Waits, m, l
<1>7. Len(h) <= Len(s) \/ Len(s) < Len(h)
  BY <1>1
<1> QED
  BY <1>5, <1>6, <1>7

LEMMA ReadNothing ==
    ASSUME NEW limit
    PROVE  /\ \A k \in 1 .. Len(<<>>) : ~LineEnds(<<>>, k, limit)
           /\ Rest(<<>>, limit) = <<>> /\ LineRead(<<>>, limit) = Eof
<1> DEFINE s == <<>>
<1>1. s \in Seq(Chars) /\ s \in Seq({CR, NL}) /\ 1 .. Len(s) = {}
  OBVIOUS
<1> HIDE DEF s
<1>2. Bare(s) = <<>>
  BY <1>1, BareEnds
<1>3. Rest(s, limit) = <<>> /\ LineRead(s, limit) = IF Bare(s) = <<>> THEN Eof ELSE Bare(s)
  BY <1>1, LineMissing
<1> QED
  BY <1>1, <1>2, <1>3 DEF s
-----------------------------------------------------------------------------
(* Lines as they are written.                                              *)
Wire(ls) == FlattenSeq([n \in 1 .. Len(ls) |-> ls[n] \o End])

LEMMA WirePieces ==
    ASSUME NEW ls \in Seq(Seq(Plain))
    PROVE  /\ \A n \in 1 .. Len(ls) : ls[n] \o End \in Seq(Chars)
           /\ [n \in 1 .. Len(ls) |-> ls[n] \o End] \in Seq(Seq(Chars))
           /\ Len([n \in 1 .. Len(ls) |-> ls[n] \o End]) = Len(ls)
<1>1. ASSUME NEW n \in 1 .. Len(ls) PROVE ls[n] \o End \in Seq(Chars)
  <2>1. ls[n] \in Seq(Plain)
    OBVIOUS
  <2> QED
    BY <2>1, LineWithEnd
<1>2. Len(ls) \in Nat
  OBVIOUS
<1> QED
  BY <1>1, <1>2

LEMMA WireType ==
    ASSUME NEW ls \in Seq(Seq(Plain))
    PROVE  Wire(ls) \in Seq(Chars)
<1> DEFINE ss == [n \in 1 .. Len(ls) |-> ls[n] \o End]
<1>1. ss \in Seq(Seq(Chars)) /\ Wire(ls) = FlattenSeq(ss)
  BY WirePieces DEF Wire
<1> HIDE DEF ss
<1> QED
  BY <1>1, FlattenType

LEMMA WireConcat ==
    ASSUME NEW a \in Seq(Seq(Plain)), NEW b \in Seq(Seq(Plain))
    PROVE  Wire(a \o b) = Wire(a) \o Wire(b)
<1> DEFINE c == a \o b
           ss == [n \in 1 .. Len(a) |-> a[n] \o End]
           tt == [n \in 1 .. Len(b) |-> b[n] \o End]
           uu == [n \in 1 .. Len(c) |-> c[n] \o End]
           m == Len(a)
           k == Len(b)
<1>1. /\ c \in Seq(Seq(Plain)) /\ Len(c) = m + k
      /\ \A n \in 1 .. m + k : c[n] = IF n <= m THEN a[n] ELSE b[n - m]
  BY ConcatProperties
<1> HIDE DEF c
<1>2. ss \in Seq(Seq(Chars)) /\ tt \in Seq(Seq(Chars)) /\ uu \in Seq(Seq(Chars))
      /\ Len(ss) = m /\ Len(tt) = k /\ Len(uu) = m + k /\ m \in Nat /\ k \in Nat
  BY <1>1, WirePieces, SMTT(30)
<1>3. /\ \A n \in 1 .. m : ss[n] = a[n] \o End
      /\ \A n \in 1 .. k : tt[n] = b[n] \o End
      /\ \A n \in 1 .. Len(c) : uu[n] = c[n] \o End
  OBVIOUS
<1>4. Wire(a) = FlattenSeq(ss) /\ Wire(b) = FlattenSeq(tt) /\ Wire(c) = FlattenSeq(uu)
  BY DEF Wire
<1> HIDE DEF ss, tt, uu, m, k
<1>5. ASSUME NEW n \in 1 .. m PROVE uu[n] = ss[n]
  <2>1. n \in 1 .. m + k /\ n <= m
    BY <1>2
  <2> QED
    BY <1>1, <1>3, <2>1
<1>6. ASSUME NEW n \in 1 .. k PROVE uu[m + n] = tt[n]
  <2>1. m + n \in 1 .. m + k /\ ~(m + n <= m) /\ (m + n) - m = n
    BY <1>2
  <2>2. c[m + n] = b[n]
    BY <1>1, <2>1
  <2> QED
    BY <1>1, <1>3, <2>1, <2>2
<1>7. Len(uu) = Len(ss) + Len(tt) /\ (\A n \in 1 .. Len(ss) : uu[n] = ss[n])
      /\ \A n \in 1 .. Len(tt) : uu[Len(ss) + n] = tt[n]
  BY <1>2, <1>5, <1>6
<1>8. FlattenSeq(uu) = FlattenSeq(ss) \o FlattenSeq(tt)
  BY <1>2, <1>7, FlattenJoin, ZenonT(40)
<1> QED
  BY <1>4, <1>8 DEF c

LEMMA WireNone == Wire(<<>>) = <<>>
<1>1. [n \in 1 .. Len(<<>>) |-> <<>>[n] \o End] = <<>>
  OBVIOUS
<1> QED
  BY <1>1, FlattenNone DEF Wire

LEMMA WireOne ==
    ASSUME NEW t \in Seq(Plain)
    PROVE  Wire(<<t>>) = t \o End
<1>1. t \o End \in Seq(Chars)
  BY LineWithEnd
<1>2. [n \in 1 .. Len(<<t>>) |-> <<t>>[n] \o End] = <<t \o End>>
  OBVIOUS
<1> QED
  BY <1>1, <1>2, FlattenOne DEF Wire

LEMMA WireFirst ==
    ASSUME NEW t \in Seq(Plain), NEW rest \in Seq(Seq(Plain))
    PROVE  Wire(<<t>> \o rest) = (t \o End) \o Wire(rest)
<1>1. <<t>> \in Seq(Seq(Plain))
  OBVIOUS
<1>2. Wire(<<t>> \o rest) = Wire(<<t>>) \o Wire(rest)
  BY <1>1, WireConcat
<1> QED
  BY <1>2, WireOne

(* Reading what is written line by line.                                   *)
LEMMA ReadOneLine ==
    ASSUME NEW s \in Seq(Chars), NEW z \in Seq(Chars), NEW limit \in Nat \ {0},
           NEW t \in Seq(Plain), NEW rest \in Seq(Seq(Plain)), s \o z = Wire(<<t>> \o rest)
    PROVE  \/ Waits(s, limit, t)
           \/ Len(t) < limit /\ Reads(s, z, limit, t, Wire(rest))
           \/ /\ limit <= Len(t) /\ SubSeq(t, limit + 1, Len(t)) \in Seq(Plain)
              /\ Reads(s, z, limit, SubSeq(t, 1, limit), Wire(<<SubSeq(t, limit + 1, Len(t))>> \o rest))
<1> DEFINE w == Wire(rest)
<1>1. w \in Seq(Chars) /\ s \o z = (t \o End) \o w
  BY WireType, WireFirst
<1>2. CASE Len(t) < limit
  <2>1. Reads(s, z, limit, t, w) \/ Waits(s, limit, t)
    <3> HIDE DEF w
    <3> QED
      BY <1>1, <1>2, ReadShort
  <2> QED
    BY <1>2, <2>1
<1>3. CASE limit <= Len(t)
  <2> DEFINE g == SubSeq(t, limit + 1, Len(t))
  <2>1. Reads(s, z, limit, SubSeq(t, 1, limit), (g \o End) \o w) \/ Waits(s, limit, t)
    <3> HIDE DEF w
    <3> QED
      BY <1>1, <1>3, ReadLong
  <2>2. g \in Seq(Plain)
    <3>1. \A i \in limit + 1 .. Len(t) : t[i] \in Plain
      OBVIOUS
    <3>2. limit + 1 \in Int /\ Len(t) \in Int
      OBVIOUS
    <3> QED
      BY <3>1, <3>2, SubSeqProperties
  <2> HIDE DEF g
  <2>3. (g \o End) \o w = Wire(<<g>> \o rest)
    BY <2>2, WireFirst
  <2> QED
    BY <1>3, <2>1, <2>2, <2>3 DEF g
<1>4. Len(t) < limit \/ limit <= Len(t)
  OBVIOUS
<1> QED
  BY <1>2, <1>3, <1>4
-----------------------------------------------------------------------------
(* Types.                                                                  *)
LEMMA BareType ==
    ASSUME NEW T, NEW s \in Seq(T)
    PROVE  Bare(s) \in Seq(T \ {CR, NL})
<1> DEFINE U == T \ {CR, NL}
           ss == [k \in 1 .. Len(s) |-> IF s[k] \in {CR, NL} THEN <<>> ELSE <<s[k]>>]
<1>1. ASSUME NEW k \in 1 .. Len(s) PROVE (IF s[k] \in {CR, NL} THEN <<>> ELSE <<s[k]>>) \in Seq(U)
  <2>1. s[k] \in T
    OBVIOUS
  <2>2. CASE s[k] \in {CR, NL}
    BY <2>2
  <2>3. CASE s[k] \notin {CR, NL}
    <3>1. s[k] \in U
      BY <2>1, <2>3
    <3> HIDE DEF U
    <3> QED
      BY <2>3, <3>1
  <2> QED
    BY <2>2, <2>3
<1>2. ss \in Seq(Seq(U))
  <2>1. Len(s) \in Nat
    OBVIOUS
  <2> HIDE DEF U
  <2> QED
    BY <1>1, <2>1
<1>3. FlattenSeq(ss) \in Seq(U)
  <2> HIDE DEF ss, U
  <2> QED
    BY <1>2, FlattenType
<1> QED
  BY <1>3 DEF Bare

LEMMA ReadLengthType ==
    ASSUME NEW T, NEW s \in Seq(T), NEW limit
    PROVE  ReadLength(s, limit) \in 0 .. Len(s)
<1> DEFINE ends == {k \in 1 .. Len(s) : LineEnds(s, k, limit)}
<1>1. ends \in SUBSET Nat /\ ends \subseteq 1 .. Len(s) /\ Len(s) \in Nat
  OBVIOUS
<1>2. ReadLength(s, limit) = IF ends = {} THEN Len(s) ELSE CHOOSE k \in ends : \A m \in ends : k <= m
  BY DEF ReadLength
<1> HIDE DEF ends
<1>3. CASE ends # {}
  <2>1. \E k \in ends : \A m \in ends : k <= m
    BY <1>1, <1>3, LeastNumber
  <2>2. (CHOOSE k \in ends : \A m \in ends : k <= m) \in ends
    BY <2>1
  <2>3. ReadLength(s, limit) \in ends
    BY <1>2, <1>3, <2>2
  <2> DEFINE l == Len(s)
             r == ReadLength(s, limit)
  <2>4. l \in Nat /\ r \in 1 .. l
    BY <1>1, <2>3
  <2> HIDE DEF l, r
  <2>5. r \in 0 .. l
    BY <2>4
  <2> QED
    BY <2>5 DEF r, l
<1>4. CASE ends = {}
  BY <1>1, <1>2, <1>4
<1> QED
  BY <1>3, <1>4

LEMMA RestType ==
    ASSUME NEW T, NEW s \in Seq(T), NEW limit
    PROVE  Rest(s, limit) \in Seq(T)
<1> DEFINE r == ReadLength(s, limit)
           l == Len(s)
<1>1. r \in 0 .. l /\ l \in Nat /\ \A k \in 1 .. l : s[k] \in T
  BY ReadLengthType
<1>2. Rest(s, limit) = SubSeq(s, r + 1, l)
  BY DEF Rest
<1> HIDE DEF r, l
<1>3. r + 1 \in Int /\ l \in Int /\ \A k \in r + 1 .. l : s[k] \in T
  BY <1>1
<1> DEFINE a == r + 1
<1> HIDE DEF a
<1>4. SubSeq(s, a, l) \in Seq(T)
  BY <1>3, SubSeqProperties DEF a
<1> QED
  BY <1>2, <1>4 DEF a

LEMMA LineReadType ==
    ASSUME NEW T, NEW s \in Seq(T), NEW limit
    PROVE  LineRead(s, limit) = Eof \/ LineRead(s, limit) \in Seq(T \ {CR, NL})
<1> DEFINE r == ReadLength(s, limit)
           q == SubSeq(s, 1, r)
<1>1. r \in 0 .. Len(s)
  BY ReadLengthType
<1>2. q \in Seq(T)
  <2> HIDE DEF r
  <2>1. 1 \in Int /\ r \in Int /\ \A k \in 1 .. r : s[k] \in T
    BY <1>1
  <2> QED
    BY <2>1, SubSeqProperties
<1> HIDE DEF q
<1>3. Bare(q) \in Seq(T \ {CR, NL})
  BY <1>2, BareType
<1>4. LineRead(s, limit) = Eof \/ LineRead(s, limit) = Bare(q)
  BY DEF LineRead, q
<1> QED
  BY <1>3, <1>4

LEMMA LinedType ==
    ASSUME NEW s \in Seq(Chars), NEW dot
    PROVE  Lined(s, dot) \in Seq(Chars)
<1> DEFINE e(k) == IF s[k] = NL THEN <<CR, NL>> ELSE IF dot /\ Doubled(s, k) THEN <<Dot, Dot>> ELSE <<s[k]>>
           ss == [k \in 1 .. Len(s) |-> e(k)]
<1>1. \A k \in 1 .. Len(s) : e(k) \in Seq(Chars)
  <2>1. CR \in Chars /\ NL \in Chars /\ Dot \in Chars
    BY DEF Chars
  <2>2. <<CR, NL>> \in Seq(Chars) /\ <<Dot, Dot>> \in Seq(Chars) /\ \A k \in 1 .. Len(s) : <<s[k]>> \in Seq(Chars)
    BY <2>1
  <2> QED
    BY <2>2
<1>2. ss \in Seq(Seq(Chars))
  <2>1. Len(s) \in Nat
    OBVIOUS
  <2> HIDE DEF e
  <2> QED
    BY <1>1, <2>1
<1>3. FlattenSeq(ss) \in Seq(Chars)
  <2> HIDE DEF ss
  <2> QED
    BY <1>2, FlattenType
<1> QED
  BY <1>3 DEF Lined

LEMMA LastBreakType ==
    ASSUME NEW s
    PROVE  LastBreak(s) \in Seq(Chars) /\ LastBreak(s) \in {<<>>, End}
BY EndType DEF LastBreak, End

DotLine == <<Dot, CR, NL>>

LEMMA CrlfType ==
    ASSUME NEW s \in Seq(Chars), NEW dot \in BOOLEAN
    PROVE  Crlf(s, dot) \in Seq(Chars)
<1>1. Lined(s, dot) \in Seq(Chars) /\ LastBreak(s) \in Seq(Chars)
  BY LinedType, LastBreakType
<1>2. DotLine \in Seq(Chars)
  BY DEF DotLine, Chars
<1>3. LastBreak(s) \o DotLine \in Seq(Chars)
  BY <1>1, <1>2, ConcatProperties
<1>4. <<>> \in Seq(Chars)
  OBVIOUS
<1> DEFINE a == LastBreak(s) \o DotLine
           b == IF dot THEN a ELSE <<>>
<1>5. b \in Seq(Chars)
  BY <1>3, <1>4
<1>6. Crlf(s, dot) = Lined(s, dot) \o b
  BY DEF Crlf, DotLine
<1> HIDE DEF b
<1> QED
  BY <1>1, <1>5, <1>6, ConcatProperties

LEMMA RequestType ==
    ASSUME NEW r \in Requests
    PROVE  /\ r.command \in Seq({"a"}) /\ Len(r.command) \in 1 .. CommandLimit
           /\ r.text \in Seq({Dot, "a", NL}) /\ r.text \in Seq(Chars)
           /\ r.info \in BOOLEAN
<1>1. /\ r.command \in Seq({"a"}) /\ Len(r.command) \in 1 .. CommandLimit
      /\ r.text \in Seq({Dot, "a", NL}) /\ r.info \in BOOLEAN
  BY ChannelAssumption
<1>2. {Dot, "a", NL} \subseteq Chars
  BY DEF Chars
<1>3. r.text \in Seq(Chars)
  BY <1>1, <1>2, SeqMonotonic
<1> QED
  BY <1>1, <1>3

LEMMA AnswerType ==
    ASSUME NEW r \in Requests
    PROVE  AnswerTo(r) \in Seq(Seq(Chars)) /\ AnswerTo(r) # <<>>
<1>1. <<Follows, NL>> \in Seq(Chars) /\ <<Ok, NL>> \in Seq(Chars) /\ <<NL>> \in Seq(Chars)
  BY DEF Chars
<1> DEFINE a == Crlf(<<Follows, NL>>, FALSE)
           b == Crlf(<<Ok, NL>>, FALSE)
           c == Crlf(r.text, FALSE)
           d == Crlf(<<NL>>, TRUE)
           e == Crlf(r.text, TRUE)
<1>2. a \in Seq(Chars) /\ b \in Seq(Chars) /\ d \in Seq(Chars) /\ c \in Seq(Chars) /\ e \in Seq(Chars)
  BY <1>1, RequestType, CrlfType
<1>3. AnswerTo(r) = <<a>> \o (IF r.info THEN <<c, d>> ELSE <<e>>) \o <<b>>
  BY DEF AnswerTo
<1> HIDE DEF a, b, c, d, e
<1> DEFINE x == <<a>>
           y == IF r.info THEN <<c, d>> ELSE <<e>>
           w == <<b>>
<1>4. x \in Seq(Seq(Chars)) /\ y \in Seq(Seq(Chars)) /\ w \in Seq(Seq(Chars)) /\ Len(w) = 1
  BY <1>2
<1> HIDE DEF x, y, w
<1>5. x \o y \in Seq(Seq(Chars))
  BY <1>4, ConcatProperties
<1> DEFINE v == x \o y
<1> HIDE DEF v
<1>6. v \o w \in Seq(Seq(Chars)) /\ Len(v \o w) = Len(v) + Len(w)
  BY <1>4, <1>5, ConcatProperties DEF v
<1>7. Len(v) \in Nat
  BY <1>5 DEF v
<1>8. AnswerTo(r) = v \o w
  BY <1>3 DEF v, x, y, w
<1>9. Len(v \o w) # 0
  BY <1>4, <1>6, <1>7
<1>10. v \o w # <<>>
  BY <1>9
<1> QED
  BY <1>6, <1>8, <1>10
-----------------------------------------------------------------------------
(* Who writes has something to write.                                      *)
Writing == daemon = "write" <=> out # <<>>

LEMMA ChannelTypesInit == ChannelInit => ChannelTypes /\ Writing
<1> SUFFICES ASSUME ChannelInit PROVE ChannelTypes /\ Writing
  OBVIOUS
<1>1. /\ <<>> \in Seq(Requests) /\ <<>> \in Seq(Seq(Chars)) /\ <<>> \in Seq(Seq(Seq(Chars)))
      /\ <<>> \in Seq({"a", CR, NL}) /\ <<>> \in Seq(Seq({"a"})) /\ <<>> \in Seq(Chars)
  OBVIOUS
<1>2. 0 \in 0 .. MaxSignals
  BY ChannelAssumption
<1>3. out = <<>> /\ left = 0
  BY DEF ChannelInit
<1>4. left \in 0 .. (IF out = <<>> THEN 0 ELSE Len(Head(out)))
  BY <1>3
<1> QED
  BY <1>1, <1>2, <1>3, <1>4 DEF ChannelInit, ChannelTypes, Writing

LEMMA AskTypes ==
    ASSUME NEW r \in Requests, ChannelTypes, Writing, Ask(r)
    PROVE  ChannelTypes' /\ Writing'
<1>1. asked \in Seq(Requests) /\ up \in Seq({"a", CR, NL})
  BY DEF ChannelTypes
<1>2. asked' \in Seq(Requests)
  BY <1>1 DEF Ask
<1>3. up' \in Seq({"a", CR, NL})
  <2> DEFINE C == {"a", CR, NL}
             c == r.command
             e == <<CR, NL>>
  <2>1. r.command \in Seq({"a"})
    BY RequestType
  <2>2. c \in Seq(C)
    BY <2>1, SeqMonotonic
  <2>3. e \in Seq(C) /\ up \in Seq(C)
    BY <1>1
  <2>4. up' = IF daemon = "gone" THEN up ELSE (up \o c) \o e
    BY DEF Ask
  <2> HIDE DEF C, c, e
  <2>5. up \o c \in Seq(C)
    BY <2>2, <2>3, ConcatProperties
  <2>6. (up \o c) \o e \in Seq(C)
    BY <2>3, <2>5, ConcatProperties
  <2> QED
    BY <2>3, <2>4, <2>6 DEF C
<1> QED
  BY <1>2, <1>3, Zenon DEF Ask, ChannelTypes, Writing

LEMMA ClientEndsTypes ==
    ASSUME ChannelTypes, Writing, ClientEnds
    PROVE  ChannelTypes' /\ Writing'
<1>1. up \in Seq({"a", CR, NL})
  BY DEF ChannelTypes
<1>2. up' \in Seq({"a", CR, NL})
  <2>1. PICK k \in 0 .. Len(up) : up' = SubSeq(up, 1, k)
    BY DEF ClientEnds
  <2>2. SubSeq(up, 1, k) \in Seq({"a", CR, NL})
    <3>1. 1 \in Int /\ k \in Int /\ \A i \in 1 .. k : up[i] \in {"a", CR, NL}
      BY <1>1
    <3> QED
      BY <3>1, SubSeqProperties
  <2> QED
    BY <2>1, <2>2
<1>3. dict' = "ended" /\ upOpen' = FALSE
  BY DEF ClientEnds
<1> QED
  BY <1>2, <1>3 DEF ClientEnds, ChannelTypes, Writing

LEMMA ReadCommandTypes ==
    ASSUME ChannelTypes, Writing, ReadCommand
    PROVE  ChannelTypes' /\ Writing'
<1>1. up \in Seq({"a", CR, NL}) /\ asked \in Seq(Requests) /\ heard \in Seq(Seq({"a"})) /\ upOpen \in BOOLEAN
  BY DEF ChannelTypes
<1> DEFINE line == LineRead(up, CommandLimit)
<1>2. line \in Seq({"a"})
  <2>1. line = Eof \/ line \in Seq({"a", CR, NL} \ {CR, NL})
    BY <1>1, LineReadType
  <2>2. {"a", CR, NL} \ {CR, NL} = {"a"}
    BY CharsApart
  <2> QED
    BY <2>1, <2>2 DEF ReadCommand
<1>3. up' \in Seq({"a", CR, NL})
  <2>1. up' = Rest(up, CommandLimit)
    BY DEF ReadCommand
  <2> QED
    BY <1>1, <2>1, RestType
<1>4. out = <<>> /\ left \in 0 .. 0
  BY DEF ReadCommand, Writing, ChannelTypes
<1>5. CASE line = <<>>
  <2>1. UNCHANGED <<daemon, out, left, heard>>
    BY <1>5 DEF ReadCommand
  <2> QED
    BY <1>3, <2>1 DEF ReadCommand, ChannelTypes, Writing
<1>6. CASE line # <<>>
  <2>1. /\ heard' = Append(heard, line) /\ daemon' = "write" /\ left' = Len(Head(out'))
        /\ out' = IF Len(heard) < Len(asked) THEN AnswerTo(asked[Len(heard) + 1])
                  ELSE <<Crlf(<<Ok, NL>>, FALSE)>>
    BY <1>6 DEF ReadCommand
  <2> HIDE DEF line
  <2>2. heard' \in Seq(Seq({"a"}))
    BY <1>1, <1>2, <2>1
  <2>3. out' \in Seq(Seq(Chars)) /\ out' # <<>>
    <3>1. CASE Len(heard) < Len(asked)
      <4>1. asked[Len(heard) + 1] \in Requests
        BY <1>1, <3>1
      <4> QED
        BY <2>1, <3>1, <4>1, AnswerType
    <3>2. CASE ~(Len(heard) < Len(asked))
      <4> DEFINE c == Crlf(<<Ok, NL>>, FALSE)
      <4>1. <<Ok, NL>> \in Seq(Chars)
        BY DEF Chars
      <4>2. c \in Seq(Chars)
        BY <4>1, CrlfType
      <4>3. out' = <<c>>
        BY <2>1, <3>2
      <4> HIDE DEF c
      <4> QED
        BY <4>2, <4>3
    <3> QED
      BY <3>1, <3>2
  <2>4. left' \in 0 .. (IF out' = <<>> THEN 0 ELSE Len(Head(out')))
    <3> DEFINE n == Len(Head(out'))
    <3>1. Head(out') \in Seq(Chars)
      BY <2>3
    <3>2. n \in Nat
      BY <3>1
    <3>3. left' = n
      BY <2>1
    <3> HIDE DEF n
    <3>4. left' \in 0 .. (IF out' = <<>> THEN 0 ELSE n)
      BY <2>3, <3>2, <3>3
    <3> QED
      BY <3>4 DEF n
  <2> QED
    BY <1>3, <2>1, <2>2, <2>3, <2>4 DEF ReadCommand, ChannelTypes, Writing
<1> QED
  BY <1>5, <1>6

LEMMA HangUpTypes ==
    ASSUME ChannelTypes, Writing, HangUp
    PROVE  ChannelTypes' /\ Writing'
BY DEF ChannelTypes, Writing, HangUp

(* The beginning of the first buffer.                                      *)
LEMMA WrittenType ==
    ASSUME ChannelTypes, NEW k \in 0 .. left
    PROVE  LET s == SubSeq(IF out = <<>> THEN <<>> ELSE Head(out), 1, k)
           IN  s \in Seq(Chars) /\ Len(s) = k /\ down \o s \in Seq(Chars)
<1> DEFINE b == IF out = <<>> THEN <<>> ELSE Head(out)
           s == SubSeq(b, 1, k)
<1>1. b \in Seq(Chars) /\ k \in 0 .. Len(b) /\ down \in Seq(Chars)
  <2>1. CASE out = <<>>
    BY <2>1 DEF ChannelTypes
  <2>2. CASE out # <<>>
    <3>1. Head(out) \in Seq(Chars) /\ left \in 0 .. Len(Head(out)) /\ down \in Seq(Chars)
      BY <2>2 DEF ChannelTypes
    <3>2. Len(Head(out)) \in Nat
      BY <3>1
    <3> QED
      BY <2>2, <3>1, <3>2
  <2> QED
    BY <2>1, <2>2
<1> HIDE DEF b
<1>2. s \in Seq(Chars) /\ Len(s) = k
  BY <1>1
<1> HIDE DEF s
<1>3. down \o s \in Seq(Chars)
  BY <1>1, <1>2, ConcatProperties
<1> QED
  BY <1>2, <1>3 DEF s, b

LEMMA WriteRestTypes ==
    ASSUME ChannelTypes, Writing, WriteOut
    PROVE  ChannelTypes' /\ Writing'
<1>1. out \in Seq(Seq(Chars)) /\ out # <<>> /\ left \in Nat
  BY DEF ChannelTypes, Writing, WriteOut
<1>2. down' \in Seq(Chars)
  <2>1. left \in 0 .. left
    BY <1>1
  <2>2. down' = down \o SubSeq(IF out = <<>> THEN <<>> ELSE Head(out), 1, left)
    BY <1>1 DEF WriteOut
  <2> QED
    BY <2>1, <2>2, WrittenType
<1>3. out' = Tail(out) /\ left' = (IF Len(out) > 1 THEN Len(out[2]) ELSE 0)
      /\ daemon' = IF Len(out) > 1 THEN "write" ELSE "read"
  BY DEF WriteOut, NextBuffer
<1>4. out' \in Seq(Seq(Chars)) /\ Len(out') = Len(out) - 1 /\ Len(out) \in Nat
  BY <1>1, <1>3
<1>5. CASE Len(out) > 1
  <2>1. out' # <<>> /\ Head(out') = out[2] /\ out[2] \in Seq(Chars)
    <3>1. Len(out) \in Nat /\ 2 \in 1 .. Len(out) /\ 1 \in 1 .. Len(Tail(out))
      BY <1>1, <1>5
    <3>2. Tail(out) # <<>> /\ Tail(out)[1] = out[2]
      <4>1. \A i \in 1 .. Len(Tail(out)) : Tail(out)[i] = out[i + 1]
        BY <1>1, HeadTailProperties
      <4>2. Tail(out)[1] = out[1 + 1]
        BY <3>1, <4>1
      <4>3. Tail(out) # <<>>
        <5> DEFINE x == Tail(out)
        <5>1. 1 \in 1 .. Len(x)
          BY <3>1
        <5> HIDE DEF x
        <5>2. x # <<>>
          BY <5>1
        <5> QED
          BY <5>2 DEF x
      <4> QED
        BY <4>2, <4>3
    <3>3. Head(Tail(out)) = Tail(out)[1]
      BY <3>2
    <3>4. out[2] \in Seq(Chars)
      BY <1>1, <3>1
    <3> QED
      BY <1>3, <3>2, <3>3, <3>4
  <2>2. Len(out[2]) \in Nat
    BY <2>1
  <2>3. left' \in 0 .. (IF out' = <<>> THEN 0 ELSE Len(Head(out'))) /\ daemon' = "write"
    BY <1>3, <1>5, <2>1, <2>2
  <2> QED
    BY <1>2, <1>4, <2>1, <2>3 DEF WriteOut, ChannelTypes, Writing
<1>6. CASE ~(Len(out) > 1)
  <2>1. out' = <<>> /\ left' = 0 /\ daemon' = "read"
    BY <1>1, <1>3, <1>4, <1>6
  <2>2. left' \in 0 .. (IF out' = <<>> THEN 0 ELSE Len(Head(out')))
    BY <2>1
  <2> QED
    BY <1>2, <1>4, <2>1, <2>2 DEF WriteOut, ChannelTypes, Writing
<1> QED
  BY <1>5, <1>6

LEMMA WritePartTypes ==
    ASSUME ChannelTypes, Writing, WritePart
    PROVE  ChannelTypes' /\ Writing'
<1>1. out \in Seq(Seq(Chars)) /\ out # <<>> /\ left \in 0 .. Len(Head(out)) /\ signals \in 0 .. MaxSignals
  BY DEF ChannelTypes, Writing, WritePart
<1>2. PICK count \in 1 .. left - 1 : down' = down \o SubSeq(Head(out), 1, count) /\ left' = left - count
  BY DEF WritePart
<1>3. Head(out) \in Seq(Chars) /\ Len(Head(out)) \in Nat
  BY <1>1
<1>4. down' \in Seq(Chars)
  <2>1. count \in 0 .. left
    BY <1>1, <1>3
  <2>2. down' = down \o SubSeq(IF out = <<>> THEN <<>> ELSE Head(out), 1, count)
    BY <1>1, <1>2
  <2> QED
    BY <2>1, <2>2, WrittenType
<1>5. left' \in 0 .. Len(Head(out))
  <2> DEFINE l == Len(Head(out))
  <2>1. l \in Nat /\ left \in 0 .. l
    BY <1>1, <1>3
  <2> HIDE DEF l
  <2>2. left' \in 0 .. l
    BY <1>2, <2>1
  <2> QED
    BY <2>2 DEF l
<1>6. signals' \in 0 .. MaxSignals /\ out' = out /\ cut' \in BOOLEAN
  BY <1>1, ChannelAssumption DEF WritePart
<1> QED
  BY <1>1, <1>4, <1>5, <1>6 DEF WritePart, ChannelTypes, Writing

LEMMA DaemonEndsTypes ==
    ASSUME ChannelTypes, Writing, DaemonEnds
    PROVE  ChannelTypes' /\ Writing'
<1>1. PICK k \in 0 .. left : down' = down \o SubSeq(IF out = <<>> THEN <<>> ELSE Head(out), 1, k)
  BY DEF DaemonEnds
<1>2. down' \in Seq(Chars)
  BY <1>1, WrittenType
<1>3. out' = <<>> /\ left' = 0 /\ daemon' = "gone"
  BY DEF DaemonEnds
<1>4. out' \in Seq(Seq(Chars)) /\ left' \in 0 .. (IF out' = <<>> THEN 0 ELSE Len(Head(out')))
  BY <1>3
<1> QED
  BY <1>2, <1>3, <1>4 DEF DaemonEnds, ChannelTypes, Writing

LEMMA ReadFailsTypes ==
    ASSUME ChannelTypes, Writing, ReadFails
    PROVE  ChannelTypes' /\ Writing'
BY DEF ChannelTypes, Writing, ReadFails

LEMMA ReadStatusTypes ==
    ASSUME ChannelTypes, Writing, ReadStatus
    PROVE  ChannelTypes' /\ Writing'
<1>1. down \in Seq(Chars) /\ lines \in Seq(Seq(Chars)) /\ received \in Seq(Seq(Seq(Chars)))
  BY DEF ChannelTypes
<1>2. down' \in Seq(Chars)
  <2>1. down' = Rest(down, LineLimit)
    BY DEF ReadStatus
  <2> QED
    BY <1>1, <2>1, RestType
<1>3. dict' \in {"status", "text", "final", "ended", "lost"} /\ lines' \in Seq(Seq(Chars))
      /\ received' \in Seq(Seq(Seq(Chars))) /\ upOpen' \in BOOLEAN
  <2>1. CASE dict = "status" /\ Got = <<Follows>>
    <3>1. dict' = "text" /\ lines' = <<>> /\ UNCHANGED <<received, upOpen>>
      BY <2>1, Zenon DEF ReadStatus
    <3> QED
      BY <1>1, <3>1 DEF ChannelTypes
  <2>2. CASE ~(dict = "status" /\ Got = <<Follows>>) /\ dict = "final" /\ Got = <<Ok>>
    <3>1. dict' = "status" /\ received' = Append(received, lines) /\ UNCHANGED <<lines, upOpen>>
      BY <2>2, Zenon DEF ReadStatus
    <3> QED
      BY <1>1, <3>1 DEF ChannelTypes
  <2>3. CASE ~(dict = "status" /\ Got = <<Follows>>) /\ ~(dict = "final" /\ Got = <<Ok>>)
    <3>1. dict' = "lost" /\ upOpen' = FALSE /\ UNCHANGED <<lines, received>>
      BY <2>3, Zenon DEF ReadStatus
    <3> QED
      BY <1>1, <3>1
  <2> QED
    BY <2>1, <2>2, <2>3, Zenon
<1> QED
  BY <1>2, <1>3 DEF ReadStatus, ChannelTypes, Writing

LEMMA UndottedType ==
    ASSUME NEW t \in Seq(Chars)
    PROVE  Cut(t) \in Seq(Chars) /\ Undotted(t) \in Seq(Chars)
<1>1. CASE t = <<>>
  <2>1. Len(t) # LineLimit /\ ~IsPrefix(<<Dot, Dot>>, t)
    BY <1>1, ChannelAssumption DEF IsPrefix
  <2> QED
    BY <2>1 DEF Cut, Undotted
<1>2. CASE t # <<>>
  <2>1. Head(t) \in Chars /\ Tail(t) \in Seq(Chars)
    BY <1>2
  <2>2. <<Head(t)>> \in Seq(Chars)
    BY <2>1
  <2> QED
    BY <2>1, <2>2 DEF Cut, Undotted
<1> QED
  BY <1>1, <1>2

LEMMA ReadTextTypes ==
    ASSUME ChannelTypes, Writing, ReadText
    PROVE  ChannelTypes' /\ Writing'
<1>1. down \in Seq(Chars) /\ lines \in Seq(Seq(Chars))
  BY DEF ChannelTypes
<1>2. down' \in Seq(Chars)
  <2>1. down' = Rest(down, LineLimit)
    BY DEF ReadText
  <2> QED
    BY <1>1, <2>1, RestType
<1>3. Got \in Seq(Chars)
  <2>1. Got = Eof \/ Got \in Seq(Chars \ {CR, NL})
    BY <1>1, LineReadType DEF Got
  <2>2. Got \in Seq(Chars \ {CR, NL})
    BY <2>1 DEF ReadText
  <2> QED
    BY <2>2, SeqMonotonic
<1> DEFINE x == Undotted(Cut(Got))
<1>4. x \in Seq(Chars)
  BY <1>3, UndottedType
<1>5. dict' \in {"text", "final"} /\ lines' \in Seq(Seq(Chars))
  <2>1. dict = "text"
    BY DEF ReadText
  <2>2. CASE Cut(Got) = <<Dot>>
    <3>1. dict' = "final" /\ UNCHANGED lines
      BY <2>2, Zenon DEF ReadText
    <3> QED
      BY <1>1, <3>1
  <2>3. CASE Cut(Got) # <<Dot>>
    <3>1. lines' = Append(lines, x) /\ UNCHANGED dict
      BY <2>3, Zenon DEF ReadText
    <3> HIDE DEF x
    <3> QED
      BY <1>1, <1>4, <2>1, <3>1
  <2> QED
    BY <2>2, <2>3
<1> QED
  BY <1>2, <1>5 DEF ReadText, ChannelTypes, Writing

LEMMA ChannelTypesStep ==
    ASSUME ChannelTypes, Writing, [ChannelNext]_channelVars
    PROVE  ChannelTypes' /\ Writing'
<1>1. CASE UNCHANGED channelVars
  BY <1>1 DEF channelVars, ChannelTypes, Writing
<1>2. CASE \E r \in Requests : Ask(r)
  BY <1>2, AskTypes
<1> QED
  BY <1>1, <1>2, ClientEndsTypes, ReadCommandTypes, HangUpTypes, WriteRestTypes, WritePartTypes,
     DaemonEndsTypes, ReadFailsTypes, ReadStatusTypes, ReadTextTypes DEF ChannelNext

(* What the two ends and the connection hold.                              *)
THEOREM ChannelTypesHold == ChannelSpec => []ChannelTypes
<1>1. ChannelInit => ChannelTypes /\ Writing
  BY ChannelTypesInit
<1>2. (ChannelTypes /\ Writing) /\ [ChannelNext]_channelVars => (ChannelTypes /\ Writing)'
  BY ChannelTypesStep
<1> QED
  BY <1>1, <1>2, PTL DEF ChannelSpec
-----------------------------------------------------------------------------
(* From the client to the daemon: the commands of the requests after the   *)
(* first n.                                                                *)
Unheard(a, n) == [i \in 1 .. Len(a) - n |-> a[n + i].command]

LEMMA UnheardType ==
    ASSUME NEW a \in Seq(Requests), NEW n \in 0 .. Len(a)
    PROVE  /\ Unheard(a, n) \in Seq(Seq(Plain)) /\ Len(Unheard(a, n)) = Len(a) - n
           /\ \A i \in 1 .. Len(a) - n : Unheard(a, n)[i] = a[n + i].command
<1> DEFINE l == Len(a)
           k == l - n
<1>1. l \in Nat /\ n \in 0 .. l /\ \A i \in 1 .. l : a[i] \in Requests
  OBVIOUS
<1> HIDE DEF l
<1>2. k \in Nat /\ \A i \in 1 .. k : n + i \in 1 .. l
  BY <1>1
<1>3. ASSUME NEW i \in 1 .. k PROVE a[n + i].command \in Seq(Plain)
  <2>1. a[n + i] \in Requests
    BY <1>1, <1>2
  <2>2. a[n + i].command \in Seq({"a"}) /\ {"a"} \subseteq Plain
    BY <2>1, RequestType, PlainChars
  <2> QED
    BY <2>2, SeqMonotonic
<1> HIDE DEF k
<1>4. Unheard(a, n) = [i \in 1 .. k |-> a[n + i].command]
  BY DEF Unheard, k, l
<1> QED
  BY <1>2, <1>3, <1>4 DEF k, l

LEMMA UnheardFirst ==
    ASSUME NEW a \in Seq(Requests), NEW n \in 0 .. Len(a)
    PROVE  /\ n = Len(a) => Unheard(a, n) = <<>>
           /\ n < Len(a) => /\ n + 1 \in 0 .. Len(a) /\ a[n + 1] \in Requests
                            /\ a[n + 1].command \in Seq(Plain)
                            /\ Unheard(a, n) = <<a[n + 1].command>> \o Unheard(a, n + 1)
<1> DEFINE l == Len(a)
           c == a[n + 1].command
           x == Unheard(a, n)
           y == Unheard(a, n + 1)
           w == <<c>> \o y
<1>1. l \in Nat /\ n \in 0 .. l
  OBVIOUS
<1>2. x \in Seq(Seq(Plain)) /\ Len(x) = l - n /\ \A i \in 1 .. l - n : x[i] = a[n + i].command
  BY UnheardType
<1>3. ASSUME n = l PROVE x = <<>>
  <2>1. Len(x) = 0
    BY <1>1, <1>2, <1>3
  <2> HIDE DEF x
  <2> QED
    BY <1>2, <2>1
<1>4. ASSUME n < l
      PROVE  n + 1 \in 0 .. l /\ a[n + 1] \in Requests /\ c \in Seq(Plain) /\ x = w
  <2>1. n + 1 \in 0 .. l /\ n + 1 \in 1 .. l
    BY <1>1, <1>4
  <2>2. a[n + 1] \in Requests
    BY <2>1
  <2>3. c \in Seq(Plain)
    <3>1. c \in Seq({"a"}) /\ {"a"} \subseteq Plain
      BY <2>2, RequestType, PlainChars
    <3> QED
      BY <3>1, SeqMonotonic
  <2>4. y \in Seq(Seq(Plain)) /\ Len(y) = l - (n + 1) /\ \A i \in 1 .. l - (n + 1) : y[i] = a[(n + 1) + i].command
    BY <2>1, UnheardType
  <2> HIDE DEF c, y, x, l
  <2>5. <<c>> \in Seq(Seq(Plain)) /\ Len(<<c>>) = 1 /\ <<c>>[1] = c
    BY <2>3
  <2>6. /\ w \in Seq(Seq(Plain)) /\ Len(w) = 1 + Len(y)
        /\ \A i \in 1 .. 1 + Len(y) : w[i] = IF i <= 1 THEN <<c>>[i] ELSE y[i - 1]
    <3>1. /\ w \in Seq(Seq(Plain)) /\ Len(w) = Len(<<c>>) + Len(y)
          /\ \A i \in 1 .. Len(<<c>>) + Len(y) : w[i] = IF i <= Len(<<c>>) THEN <<c>>[i] ELSE y[i - Len(<<c>>)]
      BY <2>4, <2>5, ConcatProperties
    <3> HIDE DEF w
    <3> QED
      BY <2>5, <3>1
  <2>7. Len(w) = Len(x)
    BY <1>1, <1>2, <2>4, <2>6
  <2> HIDE DEF w
  <2>8. ASSUME NEW i \in 1 .. l - n PROVE x[i] = w[i]
    <3>1. CASE i = 1
      <4>1. x[1] = c
        BY <1>1, <1>2, <1>4 DEF c
      <4>2. w[1] = c
        BY <1>1, <1>4, <2>4, <2>5, <2>6
      <4> QED
        BY <3>1, <4>1, <4>2
    <3>2. CASE i # 1
      <4>1. i - 1 \in 1 .. l - (n + 1) /\ (n + 1) + (i - 1) = n + i /\ i \in 1 .. 1 + Len(y) /\ ~(i <= 1)
        BY <1>1, <1>4, <2>4, <3>2
      <4>2. w[i] = y[i - 1]
        BY <2>6, <4>1
      <4>3. y[i - 1] = a[(n + 1) + (i - 1)].command
        BY <2>4, <4>1
      <4> QED
        BY <1>2, <4>1, <4>2, <4>3
    <3> QED
      BY <3>1, <3>2
  <2>9. x = w
    <3>1. \A i \in 1 .. Len(x) : x[i] = w[i]
      BY <1>2, <2>8
    <3> QED
      BY <1>2, <2>6, <2>7, <3>1, SeqEqual
  <2> QED
    BY <2>1, <2>2, <2>3, <2>9
<1> QED
  BY <1>3, <1>4

LEMMA UnheardAppend ==
    ASSUME NEW a \in Seq(Requests), NEW n \in 0 .. Len(a), NEW r \in Requests
    PROVE  /\ n \in 0 .. Len(Append(a, r)) /\ r.command \in Seq(Plain)
           /\ Unheard(Append(a, r), n) = Unheard(a, n) \o <<r.command>>
<1> DEFINE b == Append(a, r)
           l == Len(a)
           c == r.command
           x == Unheard(b, n)
           y == Unheard(a, n)
           w == y \o <<c>>
<1>1. /\ b \in Seq(Requests) /\ Len(b) = l + 1 /\ l \in Nat /\ n \in 0 .. l /\ n \in 0 .. Len(b)
      /\ (\A i \in 1 .. l : b[i] = a[i]) /\ b[l + 1] = r
  OBVIOUS
<1>2. c \in Seq(Plain)
  <2>1. c \in Seq({"a"}) /\ {"a"} \subseteq Plain
    BY RequestType, PlainChars
  <2> QED
    BY <2>1, SeqMonotonic
<1> HIDE DEF b
<1>3. x \in Seq(Seq(Plain)) /\ Len(x) = Len(b) - n /\ \A i \in 1 .. Len(b) - n : x[i] = b[n + i].command
  BY <1>1, UnheardType
<1>4. y \in Seq(Seq(Plain)) /\ Len(y) = l - n /\ \A i \in 1 .. l - n : y[i] = a[n + i].command
  BY UnheardType
<1> HIDE DEF x, y, l
<1>5. <<c>> \in Seq(Seq(Plain)) /\ Len(<<c>>) = 1 /\ <<c>>[1] = c
  BY <1>2
<1>6. /\ w \in Seq(Seq(Plain)) /\ Len(w) = Len(y) + 1
      /\ \A i \in 1 .. Len(y) + 1 : w[i] = IF i <= Len(y) THEN y[i] ELSE <<c>>[i - Len(y)]
  <2> HIDE DEF c
  <2>1. /\ w \in Seq(Seq(Plain)) /\ Len(w) = Len(y) + Len(<<c>>)
        /\ \A i \in 1 .. Len(y) + Len(<<c>>) : w[i] = IF i <= Len(y) THEN y[i] ELSE <<c>>[i - Len(y)]
    BY <1>4, <1>5, ConcatProperties
  <2> HIDE DEF w
  <2> QED
    BY <1>5, <2>1
<1> HIDE DEF w
<1>7. Len(w) = Len(x) /\ Len(x) = (l - n) + 1
  BY <1>1, <1>3, <1>4, <1>6
<1>8. ASSUME NEW i \in 1 .. Len(x) PROVE x[i] = w[i]
  <2>1. CASE i = (l - n) + 1
    <3>1. n + i = l + 1 /\ i \in 1 .. Len(b) - n /\ i \in 1 .. Len(y) + 1 /\ ~(i <= Len(y)) /\ i - Len(y) = 1
      BY <1>1, <1>4, <2>1
    <3>2. x[i] = c
      BY <1>1, <1>3, <3>1
    <3>3. w[i] = c
      BY <1>5, <1>6, <3>1
    <3> QED
      BY <3>2, <3>3
  <2>2. CASE i # (l - n) + 1
    <3>1. i \in 1 .. l - n /\ n + i \in 1 .. l /\ i \in 1 .. Len(b) - n /\ i \in 1 .. Len(y) + 1 /\ i <= Len(y)
      BY <1>1, <1>4, <1>7, <2>2
    <3>2. x[i] = a[n + i].command
      BY <1>1, <1>3, <3>1
    <3>3. w[i] = a[n + i].command
      BY <1>4, <1>6, <3>1
    <3> QED
      BY <3>2, <3>3
  <2> QED
    BY <2>1, <2>2
<1>9. x = w
  BY <1>3, <1>6, <1>7, <1>8, SeqEqual
<1> QED
  BY <1>1, <1>2, <1>9 DEF x, y, w, b
-----------------------------------------------------------------------------
(* The daemon has read whole commands, and what it will read are those of  *)
(* the next requests; what is left of a line that filled its buffer may    *)
(* come first.                                                             *)
Whole == \A n \in 1 .. Len(heard) : heard[n] = asked[n].command

Coming(z) ==
    /\ Whole
    /\ upOpen => z = <<>>
    /\ \/ up \o z = Wire(Unheard(asked, Len(heard)))
       \/ up \o z = Wire(<< <<>> >> \o Unheard(asked, Len(heard)))

(* Nothing will come any more.                                             *)
Silent == ~upOpen /\ up = <<>>

UpInv ==
    /\ upOpen <=> dict \notin {"ended", "lost"}
    /\ CommandsArrive
    /\ daemon = "gone" \/ Silent \/ \E z \in Seq(Chars) : Coming(z)

LEMMA HeardLength ==
    ASSUME ChannelTypes, UpInv
    PROVE  /\ asked \in Seq(Requests) /\ Len(asked) \in Nat /\ Len(heard) \in 0 .. Len(asked)
           /\ heard \in Seq(Seq({"a"})) /\ up \in Seq(Chars) /\ up \in Seq({"a", CR, NL})
<1>1. asked \in Seq(Requests) /\ heard \in Seq(Seq({"a"})) /\ up \in Seq({"a", CR, NL}) /\ Len(heard) <= Len(asked)
  BY DEF ChannelTypes, UpInv, CommandsArrive
<1>2. {"a", CR, NL} \subseteq Chars
  BY DEF Chars
<1>3. up \in Seq(Chars)
  BY <1>1, <1>2, SeqMonotonic
<1>4. Len(asked) \in Nat /\ Len(heard) \in Nat
  BY <1>1
<1> QED
  BY <1>1, <1>3, <1>4

LEMMA UpInvInit == ChannelInit => UpInv
<1> SUFFICES ASSUME ChannelInit PROVE UpInv
  OBVIOUS
<1>1. asked = <<>> /\ heard = <<>> /\ up = <<>> /\ upOpen = TRUE /\ dict = "status"
  BY DEF ChannelInit
<1>2. Len(heard) = 0 /\ Len(asked) = 0
  BY <1>1
<1>3. CommandsArrive /\ Whole
  BY <1>2 DEF CommandsArrive, Whole
<1> DEFINE z == <<>>
<1>4. z \in Seq(Chars)
  OBVIOUS
<1>5. up \o z = Wire(Unheard(asked, Len(heard)))
  <2>1. Unheard(asked, 0) = <<>>
    <3>1. asked \in Seq(Requests) /\ 0 \in 0 .. Len(asked) /\ 0 = Len(asked)
      BY <1>1, <1>2
    <3> QED
      BY <3>1, UnheardFirst
  <2>2. <<>> \o <<>> = <<>>
    OBVIOUS
  <2> QED
    BY <1>1, <1>2, <2>1, <2>2, WireNone
<1>6. Coming(z)
  BY <1>3, <1>5 DEF Coming
<1> QED
  BY <1>1, <1>3, <1>4, <1>6 DEF UpInv

(* A step that leaves the way to the daemon alone, or closes it.           *)
LEMMA UpAlone ==
    ASSUME UpInv, UNCHANGED <<asked, up, heard>>, upOpen' => upOpen,
           upOpen' <=> dict' \notin {"ended", "lost"}, daemon = "gone" => daemon' = "gone"
    PROVE  UpInv'
<1>1. CommandsArrive'
  BY DEF UpInv, CommandsArrive
<1>2. CASE daemon' = "gone"
  BY <1>1, <1>2 DEF UpInv
<1>3. CASE Silent
  <2>1. Silent'
    BY <1>3 DEF Silent
  <2> QED
    BY <1>1, <2>1 DEF UpInv
<1>4. CASE \E z \in Seq(Chars) : Coming(z)
  <2>1. PICK z \in Seq(Chars) : Coming(z)
    BY <1>4
  <2>2. Coming(z)'
    BY <2>1 DEF Coming, Whole
  <2> QED
    BY <1>1, <2>1, <2>2 DEF UpInv
<1> QED
  BY <1>2, <1>3, <1>4 DEF UpInv

LEMMA CommandsKept ==
    ASSUME ChannelTypes, UpInv, heard' = heard, upOpen' => upOpen,
           asked' = asked \/ \E r \in Requests : asked' = Append(asked, r)
    PROVE  CommandsArrive' /\ (Whole => Whole')
<1>1. asked \in Seq(Requests) /\ Len(asked) \in Nat /\ Len(heard) \in 0 .. Len(asked)
  BY HeardLength
<1>2. Len(asked) <= Len(asked') /\ Len(asked') \in Nat /\ \A n \in 1 .. Len(asked) : asked'[n] = asked[n]
  <2>1. CASE asked' = asked
    BY <1>1, <2>1
  <2>2. CASE \E r \in Requests : asked' = Append(asked, r)
    <3>1. PICK r \in Requests : asked' = Append(asked, r)
      BY <2>2
    <3> QED
      BY <1>1, <3>1
  <2> QED
    BY <2>1, <2>2
<1>3. \A n \in 1 .. Len(heard) : n \in 1 .. Len(asked) /\ asked'[n] = asked[n]
  BY <1>1, <1>2
<1>4. Len(heard) <= Len(asked')
  BY <1>1, <1>2
<1>5. \A n \in 1 .. Len(heard) :
        heard[n] = asked[n].command \/ (~upOpen /\ n = Len(heard) /\ IsPrefix(heard[n], asked[n].command))
  BY DEF UpInv, CommandsArrive
<1>6. \A n \in 1 .. Len(heard) :
        heard[n] = asked'[n].command \/ (~upOpen' /\ n = Len(heard) /\ IsPrefix(heard[n], asked'[n].command))
  BY <1>3, <1>5
<1> QED
  BY <1>3, <1>4, <1>6 DEF CommandsArrive, Whole

LEMMA AskUp ==
    ASSUME ChannelTypes, UpInv, NEW r \in Requests, Ask(r)
    PROVE  UpInv'
<1>1. dict \notin {"ended", "lost"} /\ upOpen /\ UNCHANGED <<dict, upOpen, daemon, heard>>
  BY DEF Ask, UpInv
<1>2. asked' = Append(asked, r) /\ up' = IF daemon = "gone" THEN up ELSE (up \o r.command) \o End
  BY DEF Ask, End
<1>3. CommandsArrive' /\ (Whole => Whole')
  BY <1>1, <1>2, CommandsKept
<1>4. CASE daemon = "gone"
  BY <1>1, <1>3, <1>4 DEF UpInv
<1>5. CASE daemon # "gone"
  <2>1. PICK z \in Seq(Chars) : Coming(z)
    BY <1>1, <1>5 DEF UpInv, Silent
  <2> DEFINE n == Len(heard)
             p == Unheard(asked, n)
             q == Unheard(Append(asked, r), n)
             c == r.command
             b == <<<<>>>>
  <2>2. z = <<>> /\ Whole /\ (up \o z = Wire(p) \/ up \o z = Wire(b \o p))
    BY <1>1, <2>1 DEF Coming
  <2>3. asked \in Seq(Requests) /\ n \in 0 .. Len(asked) /\ up \in Seq(Chars)
    BY HeardLength
  <2>4. p \in Seq(Seq(Plain))
    BY <2>3, UnheardType
  <2>5. c \in Seq(Plain) /\ q = p \o <<c>>
    BY <2>3, UnheardAppend
  <2>6. b \in Seq(Seq(Plain))
    OBVIOUS
  <2>7. <<c>> \in Seq(Seq(Plain))
    BY <2>5
  <2>8. up \o z = up /\ End \in Seq(Chars) /\ c \in Seq(Chars)
    BY <2>2, <2>3, <2>5, ConcatEmptySeq, EndType, LineWithEnd
  <2> HIDE DEF n, p, q, c, b
  <2>9. (up \o c) \o End = up \o (c \o End) /\ (up \o c) \o End \in Seq(Chars)
    <3>1. Associated(Chars, up, c, End)
      BY <2>3, <2>8, Associate
    <3> QED
      BY <3>1 DEF Associated
  <2>10. up' = up \o (c \o End)
    BY <1>2, <1>5, <2>9 DEF c
  <2>11. \A s \in Seq(Seq(Plain)) : up = Wire(s) => up' = Wire(s \o <<c>>)
    <3>1. ASSUME NEW s \in Seq(Seq(Plain)), up = Wire(s) PROVE up' = Wire(s \o <<c>>)
      <4>1. Wire(s \o <<c>>) = Wire(s) \o Wire(<<c>>)
        BY <2>7, WireConcat
      <4>2. Wire(<<c>>) = c \o End
        BY <2>5, WireOne
      <4> QED
        BY <2>10, <3>1, <4>1, <4>2, Zenon
    <3> QED
      BY <3>1
  <2>12. b \o p \in Seq(Seq(Plain)) /\ (b \o p) \o <<c>> = b \o (p \o <<c>>)
    <3>1. b \o p \in Seq(Seq(Plain))
      BY <2>4, <2>6, ConcatProperties
    <3>2. (b \o p) \o <<c>> = b \o (p \o <<c>>)
      BY <2>4, <2>6, <2>7, ConcatAssociative, SMTT(30)
    <3> QED
      BY <3>1, <3>2
  <2>13. up' = Wire(q) \/ up' = Wire(b \o q)
    <3>1. CASE up \o z = Wire(p)
      <4>1. up' = Wire(p \o <<c>>)
        BY <2>4, <2>8, <2>11, <3>1
      <4> QED
        BY <2>5, <4>1
    <3>2. CASE up \o z = Wire(b \o p)
      <4>1. up' = Wire((b \o p) \o <<c>>)
        BY <2>8, <2>11, <2>12, <3>2
      <4> QED
        BY <2>5, <2>12, <4>1
    <3> QED
      BY <2>2, <3>1, <3>2
  <2>14. up' \o z = up'
    <3>1. up' \in Seq(Chars)
      BY <2>9, <2>10
    <3> QED
      BY <2>2, <3>1, ConcatEmptySeq
  <2>15. Unheard(asked', Len(heard')) = q
    BY <1>1, <1>2 DEF q, n
  <2>16. up' \o z = Wire(Unheard(asked', Len(heard'))) \/ up' \o z = Wire(<<<<>>>> \o Unheard(asked', Len(heard')))
    BY <2>13, <2>14, <2>15 DEF b
  <2>17. Coming(z)'
    BY <1>3, <2>2, <2>16 DEF Coming
  <2> QED
    BY <1>1, <1>3, <2>17 DEF UpInv
<1> QED
  BY <1>4, <1>5

(* A sequence is its first k elements and the others.                      *)
LEMMA SplitAt ==
    ASSUME NEW S, NEW s \in Seq(S), NEW k \in 0 .. Len(s)
    PROVE  /\ SubSeq(s, 1, k) \in Seq(S) /\ SubSeq(s, k + 1, Len(s)) \in Seq(S)
           /\ SubSeq(s, 1, k) \o SubSeq(s, k + 1, Len(s)) = s
<1> DEFINE l == Len(s)
<1>1. l \in Nat /\ k \in 0 .. l /\ \A i \in 1 .. l : s[i] \in S
  OBVIOUS
<1>2. SubSeq(s, 1, k) \o SubSeq(s, k + 1, l) = SubSeq(s, 1, l)
  <2>1. 1 \in 1 .. l + 1 /\ k \in 1 - 1 .. l /\ l \in k .. l
    BY <1>1
  <2> QED
    BY <2>1, ConcatAdjacentSubSeq
<1>3. SubSeq(s, 1, l) = s
  BY SubSeqFull
<1> HIDE DEF l
<1>4. SubSeq(s, 1, k) \in Seq(S)
  <2>1. 1 \in Int /\ k \in Int /\ \A i \in 1 .. k : s[i] \in S
    BY <1>1
  <2> QED
    BY <2>1, SubSeqProperties
<1>5. SubSeq(s, k + 1, l) \in Seq(S)
  <2> DEFINE a == k + 1
  <2>1. a \in Int /\ l \in Int /\ \A i \in a .. l : s[i] \in S
    BY <1>1
  <2> HIDE DEF a
  <2>2. SubSeq(s, a, l) \in Seq(S)
    BY <2>1, SubSeqProperties
  <2> QED
    BY <2>2 DEF a
<1> QED
  BY <1>2, <1>3, <1>4, <1>5 DEF l

LEMMA ClientEndsUp ==
    ASSUME ChannelTypes, UpInv, ClientEnds
    PROVE  UpInv'
<1>1. upOpen /\ upOpen' = FALSE /\ dict' = "ended" /\ UNCHANGED <<asked, daemon, heard>>
  BY DEF ClientEnds
<1>2. CommandsArrive' /\ (Whole => Whole')
  BY <1>1, CommandsKept
<1>3. CASE daemon = "gone"
  BY <1>1, <1>2, <1>3 DEF UpInv
<1>4. CASE daemon # "gone"
  <2>1. PICK z \in Seq(Chars) : Coming(z)
    BY <1>1, <1>4 DEF UpInv, Silent
  <2>2. up \in Seq(Chars)
    BY HeardLength
  <2>3. PICK k \in 0 .. Len(up) : up' = SubSeq(up, 1, k)
    BY DEF ClientEnds
  <2> DEFINE a == SubSeq(up, 1, k)
             b == SubSeq(up, k + 1, Len(up))
  <2>4. a \in Seq(Chars) /\ b \in Seq(Chars) /\ a \o b = up
    BY <2>2, SplitAt
  <2>5. up' = a
    BY <2>3
  <2> HIDE DEF a, b
  <2>6. b \o z \in Seq(Chars)
    BY <2>4, ConcatProperties
  <2>7. PICK y \in Seq(Chars) : y = b \o z
    BY <2>6
  <2>8. up' \o y = up \o z
    <3>1. Associated(Chars, a, b, z)
      BY <2>4, Associate
    <3>2. (a \o b) \o z = a \o (b \o z)
      BY <3>1 DEF Associated
    <3> QED
      BY <2>4, <2>5, <2>7, <3>2, Zenon
  <2>9. Coming(y)'
    BY <1>1, <1>2, <2>1, <2>8 DEF Coming
  <2> QED
    BY <1>1, <1>2, <2>9 DEF UpInv
<1> QED
  BY <1>3, <1>4

(* One more command is heard.                                              *)
LEMMA HeardOne ==
    ASSUME ChannelTypes, UpInv, Whole, NEW line \in Seq({"a"}), Len(heard) < Len(asked),
           heard' = Append(heard, line), asked' = asked,
           \/ line = asked[Len(heard) + 1].command
           \/ ~upOpen' /\ IsPrefix(line, asked[Len(heard) + 1].command)
    PROVE  /\ CommandsArrive' /\ Len(heard') = Len(heard) + 1
           /\ line = asked[Len(heard) + 1].command => Whole'
<1> DEFINE n == Len(heard)
<1>1. heard \in Seq(Seq({"a"})) /\ Len(asked) \in Nat /\ n \in Nat /\ n < Len(asked)
  BY HeardLength
<1>2. Len(heard') = n + 1 /\ heard'[n + 1] = line /\ \A k \in 1 .. n : heard'[k] = heard[k]
  BY <1>1
<1>3. \A k \in 1 .. n : heard[k] = asked[k].command
  BY DEF Whole
<1> HIDE DEF n
<1>4. \A k \in 1 .. n : heard'[k] = asked'[k].command
  BY <1>2, <1>3
<1>5. \A k \in 1 .. n + 1 : k \in 1 .. n \/ k = n + 1
  BY <1>1
<1>6. heard'[n + 1] = asked'[n + 1].command \/ (~upOpen' /\ IsPrefix(heard'[n + 1], asked'[n + 1].command))
  BY <1>2 DEF n
<1>7. Len(heard') <= Len(asked')
  BY <1>1, <1>2
<1>8. CommandsArrive'
  BY <1>2, <1>4, <1>5, <1>6, <1>7 DEF CommandsArrive
<1>9. line = asked[n + 1].command => Whole'
  BY <1>2, <1>4, <1>5 DEF Whole
<1> QED
  BY <1>2, <1>8, <1>9 DEF n

LEMMA ReadCommandUp ==
    ASSUME ChannelTypes, UpInv, ReadCommand
    PROVE  UpInv'
<1> DEFINE limit == CommandLimit
           n == Len(heard)
           p == Unheard(asked, n)
           line == LineRead(up, limit)
           none == <<>>
<1>1. /\ daemon = "read" /\ Readable(up, limit, upOpen) /\ line # Eof /\ up' = Rest(up, limit)
      /\ UNCHANGED <<asked, dict, upOpen>>
      /\ line = <<>> => UNCHANGED heard
      /\ line # <<>> => heard' = Append(heard, line)
  BY DEF ReadCommand
<1>2. limit \in Nat \ {0}
  BY ChannelAssumption
<1>3. asked \in Seq(Requests) /\ Len(asked) \in Nat /\ n \in 0 .. Len(asked) /\ up \in Seq(Chars)
  BY HeardLength
<1>4. line \in Seq({"a"})
  <2>1. up \in Seq({"a", CR, NL})
    BY HeardLength
  <2>2. line = Eof \/ line \in Seq({"a", CR, NL} \ {CR, NL})
    BY <2>1, LineReadType
  <2>3. {"a", CR, NL} \ {CR, NL} = {"a"}
    BY CharsApart
  <2> QED
    BY <1>1, <2>2, <2>3
<1>5. up # <<>>
  BY <1>1, ReadNothing
<1>6. PICK z \in Seq(Chars) : Coming(z)
  BY <1>1, <1>5 DEF UpInv, Silent
<1>7. Whole /\ (upOpen => z = <<>>) /\ (up \o z = Wire(p) \/ up \o z = Wire(<<none>> \o p))
  BY <1>6 DEF Coming
<1>8. p \in Seq(Seq(Plain))
  BY <1>3, UnheardType
<1>9. upOpen' <=> dict' \notin {"ended", "lost"}
  BY <1>1 DEF UpInv
<1> HIDE DEF limit, p, line
<1>10. CASE up \o z = Wire(<<none>> \o p)
  <2>1. none \in Seq(Plain) /\ Len(none) = 0
    OBVIOUS
  <2> HIDE DEF none
  <2>2. \/ Waits(up, limit, none)
        \/ Len(none) < limit /\ Reads(up, z, limit, none, Wire(p))
        \/ limit <= Len(none)
    BY <1>2, <1>3, <1>8, <1>10, <2>1, ReadOneLine
  <2>3. ~Waits(up, limit, none)
    BY <1>1, <2>1 DEF Waits, line
  <2>4. ~(limit <= Len(none))
    BY <1>2, <2>1
  <2>5. Reads(up, z, limit, none, Wire(p))
    BY <2>2, <2>3, <2>4
  <2>6. line = none /\ up' \o z = Wire(p)
    BY <1>1, <2>5 DEF Reads, line
  <2>7. UNCHANGED <<asked, heard, upOpen>>
    BY <1>1, <2>6 DEF none
  <2>8. up' \o z = Wire(Unheard(asked', Len(heard')))
    BY <2>6, <2>7 DEF p
  <2>9. CommandsArrive' /\ Whole'
    BY <1>7, <2>7, CommandsKept
  <2>10. Coming(z)'
    BY <1>7, <2>7, <2>8, <2>9 DEF Coming
  <2> QED
    BY <1>9, <2>9, <2>10 DEF UpInv
<1>11. CASE up \o z = Wire(p)
  <2>1. n < Len(asked)
    <3> SUFFICES ASSUME n = Len(asked) PROVE FALSE
      BY <1>3
    <3>1. p = <<>>
      BY <1>3, UnheardFirst DEF p
    <3>2. up \o z = <<>>
      BY <1>11, <3>1, WireNone
    <3>3. up = <<>>
      BY <1>3, <3>2, ConcatEqualIffEmpty
    <3> QED
      BY <1>5, <3>3
  <2> DEFINE t == asked[n + 1].command
             rest == Unheard(asked, n + 1)
  <2>2. /\ n + 1 \in 0 .. Len(asked) /\ asked[n + 1] \in Requests
        /\ t \in Seq(Plain) /\ p = <<t>> \o rest
    BY <1>3, <2>1, UnheardFirst DEF p
  <2>3. rest \in Seq(Seq(Plain))
    BY <1>3, <2>2, UnheardType
  <2>4. t \in Seq({"a"}) /\ Len(t) \in 1 .. limit
    BY <2>2, RequestType DEF limit
  <2> HIDE DEF t, rest
  <2>5. \/ Waits(up, limit, t)
        \/ Len(t) < limit /\ Reads(up, z, limit, t, Wire(rest))
        \/ /\ limit <= Len(t)
           /\ Reads(up, z, limit, SubSeq(t, 1, limit), Wire(<<SubSeq(t, limit + 1, Len(t))>> \o rest))
    <3>1. up \o z = Wire(<<t>> \o rest)
      BY <1>11, <2>2
    <3> QED
      BY <1>2, <1>3, <2>2, <2>3, <3>1, ReadOneLine
  <2>6. t # <<>> /\ t = asked[n + 1].command
    BY <2>4 DEF t
  <2>7. CASE Waits(up, limit, t)
    <3>1. ~upOpen /\ up' = <<>>
      BY <1>1, <2>7 DEF Waits, Readable
    <3>2. PICK j \in 1 .. Len(t) : line = SubSeq(t, 1, j)
      BY <1>1, <2>7 DEF Waits, line
    <3>3. Len(line) = j /\ j \in Nat /\ j # 0 /\ j <= Len(t)
      BY <2>4, <3>2
    <3>4. line # <<>>
      BY <3>3
    <3>5. IsPrefix(line, t)
      <4>1. SubSeq(line, 1, Len(line)) = line
        BY <1>4, SubSeqFull
      <4>2. SubSeq(line, 1, Len(line)) = SubSeq(t, 1, Len(line))
        BY <3>2, <3>3, <4>1, Zenon
      <4> QED
        BY <3>3, <4>2 DEF IsPrefix
    <3>6. heard' = Append(heard, line) /\ ~upOpen'
      BY <1>1, <3>1, <3>4
    <3>7. CommandsArrive'
      BY <1>1, <1>4, <1>7, <2>1, <2>6, <3>5, <3>6, HeardOne
    <3> QED
      BY <1>1, <1>9, <3>1, <3>7 DEF UpInv, Silent
  <2>8. CASE Len(t) < limit /\ Reads(up, z, limit, t, Wire(rest))
    <3>1. line = t /\ up' \o z = Wire(rest)
      BY <1>1, <2>8 DEF Reads, line
    <3>2. heard' = Append(heard, line) /\ line # <<>>
      BY <1>1, <2>6, <3>1
    <3>3. CommandsArrive' /\ Whole' /\ Len(heard') = n + 1
      BY <1>1, <1>4, <1>7, <2>1, <2>6, <3>1, <3>2, HeardOne
    <3>4. up' \o z = Wire(Unheard(asked', Len(heard')))
      BY <1>1, <3>1, <3>3 DEF rest
    <3>5. Coming(z)'
      BY <1>1, <1>7, <3>3, <3>4 DEF Coming
    <3> QED
      BY <1>9, <3>3, <3>5 DEF UpInv
  <2>9. CASE /\ limit <= Len(t)
             /\ Reads(up, z, limit, SubSeq(t, 1, limit), Wire(<<SubSeq(t, limit + 1, Len(t))>> \o rest))
    <3>1. limit = Len(t)
      BY <1>2, <2>4, <2>9
    <3>2. SubSeq(t, 1, limit) = t
      BY <2>4, <3>1, SubSeqFull
    <3>3. SubSeq(t, limit + 1, Len(t)) = <<>>
      BY <1>2, <3>1
    <3>4. Reads(up, z, limit, t, Wire(<<none>> \o rest))
      BY <2>9, <3>2, <3>3
    <3> HIDE DEF none
    <3>5. line = t /\ up' \o z = Wire(<<none>> \o rest)
      BY <1>1, <3>4 DEF Reads, line
    <3>6. heard' = Append(heard, line) /\ line # <<>>
      BY <1>1, <2>6, <3>5
    <3>7. CommandsArrive' /\ Whole' /\ Len(heard') = n + 1
      BY <1>1, <1>4, <1>7, <2>1, <2>6, <3>5, <3>6, HeardOne
    <3>8. up' \o z = Wire(<<<<>>>> \o Unheard(asked', Len(heard')))
      BY <1>1, <3>5, <3>7 DEF rest, none
    <3>9. Coming(z)'
      BY <1>1, <1>7, <3>7, <3>8 DEF Coming
    <3> QED
      BY <1>9, <3>7, <3>9 DEF UpInv
  <2> QED
    BY <2>5, <2>7, <2>8, <2>9
<1> QED
  BY <1>7, <1>10, <1>11

LEMMA UpInvStep ==
    ASSUME ChannelTypes, Writing, UpInv, [ChannelNext]_channelVars
    PROVE  UpInv'
<1>1. CASE UNCHANGED channelVars
  BY <1>1, UpAlone DEF channelVars, UpInv
<1>2. CASE \E r \in Requests : Ask(r)
  BY <1>2, AskUp
<1>3. CASE HangUp
  BY <1>3, UpAlone DEF HangUp, UpInv
<1>4. CASE WriteOut
  BY <1>4, UpAlone DEF WriteOut, UpInv
<1>5. CASE WritePart
  BY <1>5, UpAlone DEF WritePart, UpInv
<1>6. CASE DaemonEnds
  BY <1>6, UpAlone DEF DaemonEnds, UpInv
<1>7. CASE ReadFails
  BY <1>7, UpAlone DEF ReadFails
<1>8. CASE ReadStatus
  <2>1. UNCHANGED <<asked, up, heard, daemon>> /\ dict \in {"status", "final"}
    BY <1>8 DEF ReadStatus
  <2>2. (dict' \in {"text", "status"} /\ upOpen' = upOpen) \/ (dict' = "lost" /\ upOpen' = FALSE)
    BY <1>8, Zenon DEF ReadStatus
  <2>3. upOpen' => upOpen
    BY <2>2
  <2>4. upOpen' <=> dict' \notin {"ended", "lost"}
    BY <2>1, <2>2 DEF UpInv
  <2> QED
    BY <2>1, <2>3, <2>4, UpAlone
<1>9. CASE ReadText
  <2>1. UNCHANGED <<asked, up, heard, daemon, upOpen>> /\ dict = "text" /\ dict' \in {"text", "final"}
    BY <1>9, Zenon DEF ReadText
  <2>2. upOpen' <=> dict' \notin {"ended", "lost"}
    BY <2>1 DEF UpInv
  <2> QED
    BY <2>1, <2>2, UpAlone
<1> QED
  BY <1>1, <1>2, <1>3, <1>4, <1>5, <1>6, <1>7, <1>8, <1>9, ClientEndsUp, ReadCommandUp DEF ChannelNext

(* The daemon carries out the commands that the client sent, whole and in  *)
(* their order.                                                            *)
THEOREM CommandsArriveHolds == ChannelSpec => []CommandsArrive
<1> DEFINE Inv == (ChannelTypes /\ Writing) /\ UpInv
<1>1. ChannelInit => Inv
  BY ChannelTypesInit, UpInvInit
<1>2. Inv /\ [ChannelNext]_channelVars => Inv'
  BY ChannelTypesStep, UpInvStep
<1>3. Inv => CommandsArrive
  BY DEF UpInv
<1> HIDE DEF Inv
<1> QED
  BY <1>1, <1>2, <1>3, PTL DEF ChannelSpec
-----------------------------------------------------------------------------
(* The lines of a text.                                                    *)
Letters == {Dot, "a"}
TextChars == {Dot, "a", NL}

LEMMA LetterChars ==
    /\ Letters \subseteq Plain /\ Letters \subseteq TextChars /\ Letters \subseteq Chars
    /\ TextChars \subseteq Chars /\ NL \in TextChars /\ NL \notin Letters
    /\ TextChars \ {NL} = Letters /\ Dot \in Letters /\ "a" \in Letters
BY CharsApart, PlainChars DEF Letters, TextChars, Chars

LEMMA LineFound1 ==
    ASSUME NEW s \in Seq(TextChars), NEW k \in Nat, NEW m \in 1 .. Len(s), s[m] = NL, k <= m,
           \A n \in 1 .. Len(s) : k <= n /\ s[n] = NL => m <= n
    PROVE  LineFrom(s, k) = SubSeq(s, k, m - 1)
<1> DEFINE ends == {e \in Breaks(s) : e >= k}
<1>1. m \in ends /\ ends \subseteq Nat /\ \A n \in ends : m <= n
  BY DEF Breaks
<1>2. LineFrom(s, k) = SubSeq(s, k, IF ends = {} THEN Len(s) ELSE (CHOOSE e \in ends : \A n \in ends : e <= n) - 1)
  BY DEF LineFrom
<1> HIDE DEF ends
<1>3. \A e \in ends : (\A n \in ends : e <= n) => e = m
  BY <1>1
<1>4. (CHOOSE e \in ends : \A n \in ends : e <= n) = m
  BY <1>1, <1>3
<1>5. ends # {}
  BY <1>1
<1> QED
  BY <1>2, <1>4, <1>5, Zenon

LEMMA LineLast1 ==
    ASSUME NEW s \in Seq(TextChars), NEW k \in Nat, \A n \in 1 .. Len(s) : k <= n => s[n] # NL
    PROVE  LineFrom(s, k) = SubSeq(s, k, Len(s))
<1> DEFINE ends == {e \in Breaks(s) : e >= k}
<1>1. ends = {}
  BY DEF Breaks
<1>2. LineFrom(s, k) = SubSeq(s, k, IF ends = {} THEN Len(s) ELSE (CHOOSE e \in ends : \A n \in ends : e <= n) - 1)
  BY DEF LineFrom
<1> QED
  BY <1>1, <1>2

(* Equal parts of two sequences.                                           *)
AgreesOn(S, s, k, h, w, i) == \A j \in k .. h : s[j] \in S /\ s[j] = w[i + (j - k)]
SameWindow(s, k, h, w, i, c) == SubSeq(s, k, h) = SubSeq(w, i, c)

LEMMA WindowsAgree ==
    ASSUME NEW S, NEW s, NEW w, NEW k \in Int, NEW h \in Int, NEW i \in Int, NEW c \in Int,
           h - k = c - i, AgreesOn(S, s, k, h, w, i)
    PROVE  SameWindow(s, k, h, w, i, c)
<1> USE DEF AgreesOn
<1> DEFINE a == SubSeq(s, k, h)
           b == SubSeq(w, i, c)
<1>1. /\ a \in Seq(S)
      /\ Len(a) = (IF k <= h THEN h - k + 1 ELSE 0)
      /\ \A j \in 1 .. h - k + 1 : a[j] = s[k + j - 1]
  BY SubSeqProperties
<1>2. ASSUME NEW j \in i .. c PROVE w[j] \in S
  <2>1. k + (j - i) \in k .. h /\ i + ((k + (j - i)) - k) = j
    OBVIOUS
  <2> QED
    BY <2>1
<1>3. /\ b \in Seq(S)
      /\ Len(b) = (IF i <= c THEN c - i + 1 ELSE 0)
      /\ \A j \in 1 .. c - i + 1 : b[j] = w[i + j - 1]
  BY <1>2, SubSeqProperties
<1> HIDE DEF a, b
<1>4. Len(a) = Len(b)
  BY <1>1, <1>3
<1>5. ASSUME NEW j \in 1 .. Len(a) PROVE a[j] = b[j]
  <2>1. j \in 1 .. h - k + 1 /\ j \in 1 .. c - i + 1
    BY <1>1, <1>5
  <2>2. k + j - 1 \in k .. h /\ i + ((k + j - 1) - k) = i + j - 1
    BY <2>1
  <2>3. s[k + j - 1] = w[i + j - 1]
    BY <2>2
  <2> QED
    BY <1>1, <1>3, <2>1, <2>3
<1>6. a = b
  BY <1>1, <1>3, <1>4, <1>5, SeqEqual
<1> QED
  BY <1>6 DEF a, b, SameWindow

(* The text s is q, which ends a line, and w.                              *)
After(s, q, w) ==
    /\ s \in Seq(TextChars) /\ q \in Seq(TextChars) /\ w \in Seq(TextChars)
    /\ Len(q) # 0 /\ Len(s) = Len(q) + Len(w)
    /\ q[Len(q)] = NL
    /\ \A k \in 1 .. Len(q) : s[k] = q[k]
    /\ \A k \in 1 .. Len(w) : s[Len(q) + k] = w[k]

LEMMA AfterBreak ==
    ASSUME NEW s, NEW q, NEW w, After(s, q, w), NEW i \in 1 .. Len(w)
    PROVE  /\ s[Len(q) + i] = w[i]
           /\ StartsLine(s, Len(q) + i) <=> StartsLine(w, i)
           /\ Doubled(s, Len(q) + i) <=> Doubled(w, i)
           /\ LineFrom(s, Len(q) + i) = LineFrom(w, i)
<1> DEFINE m == Len(q)
           n == Len(w)
           l == Len(s)
           k == m + i
<1>1. /\ s \in Seq(TextChars) /\ w \in Seq(TextChars)
      /\ m \in Nat /\ m # 0 /\ n \in Nat /\ l = m + n /\ i \in 1 .. n /\ q[m] = NL
      /\ (\A j \in 1 .. m : s[j] = q[j]) /\ \A j \in 1 .. n : s[m + j] = w[j]
  BY DEF After
<1> HIDE DEF m, n, l
<1>2. m \in Nat /\ m # 0 /\ n \in Nat /\ l = m + n /\ i \in 1 .. n
  BY <1>1
<1>3. \A j \in 1 .. n : s[m + j] = w[j]
  BY <1>1
<1>4. s[m + i] = w[i]
  BY <1>2, <1>3
<1>5. StartsLine(s, k) <=> StartsLine(w, i)
  <2>1. CASE i = 1
    <3>1. k - 1 = m /\ m \in 1 .. m
      BY <1>2, <2>1
    <3>2. s[k - 1] = NL
      BY <1>1, <3>1
    <3> QED
      BY <2>1, <3>2 DEF StartsLine
  <2>2. CASE i # 1
    <3>1. k # 1 /\ i - 1 \in 1 .. n /\ k - 1 = m + (i - 1)
      BY <1>1, <2>2
    <3>2. s[k - 1] = w[i - 1]
      BY <1>1, <3>1
    <3> QED
      BY <2>2, <3>1, <3>2 DEF StartsLine
  <2> QED
    BY <2>1, <2>2
<1>6. Doubled(s, k) <=> Doubled(w, i)
  <2>1. k < l <=> i < n
    BY <1>2
  <2>2. CASE i < n
    <3>1. i + 1 \in 1 .. n /\ k + 1 = m + (i + 1)
      BY <1>1, <2>2
    <3>2. s[k + 1] = w[i + 1]
      BY <1>1, <3>1
    <3> QED
      BY <1>4, <1>5, <2>1, <2>2, <3>2 DEF Doubled, n, l
  <2>3. CASE ~(i < n)
    BY <2>1, <2>3 DEF Doubled, n, l
  <2> QED
    BY <2>2, <2>3
<1>7. LineFrom(s, k) = LineFrom(w, i)
  <2>1. k \in Nat /\ i \in Nat
    BY <1>2
  <2>2. CASE \E e \in 1 .. n : i <= e /\ w[e] = NL
    <3> DEFINE E == {e \in 1 .. n : i <= e /\ w[e] = NL}
    <3>1. E # {} /\ E \in SUBSET Nat
      BY <2>2
    <3>2. PICK e \in E : \A f \in E : e <= f
      <4> HIDE DEF E
      <4> QED
        BY <3>1, LeastNumber
    <3>3. e \in 1 .. n /\ i <= e /\ w[e] = NL /\ \A f \in 1 .. n : i <= f /\ w[f] = NL => e <= f
      BY <3>2
    <3>4. LineFrom(w, i) = SubSeq(w, i, e - 1)
      BY <1>1, <2>1, <3>3, LineFound1 DEF n
    <3> DEFINE g == m + e
    <3>5. g \in 1 .. l /\ k <= g /\ s[g] = NL
      <4>1. e \in 1 .. n /\ i <= e /\ w[e] = NL
        BY <3>3
      <4>2. s[g] = NL
        BY <1>3, <4>1
      <4>3. g \in 1 .. l /\ k <= g
        BY <1>2, <4>1
      <4> QED
        BY <4>2, <4>3
    <3>6. ASSUME NEW f \in 1 .. l, k <= f, s[f] = NL PROVE g <= f
      <4>1. f - m \in 1 .. n /\ i <= f - m /\ m + (f - m) = f
        BY <1>2, <3>6
      <4>2. w[f - m] = NL
        BY <1>3, <3>6, <4>1
      <4>3. e <= f - m
        BY <3>3, <4>1, <4>2
      <4>4. e \in Int /\ f \in Int
        BY <3>3
      <4> QED
        BY <1>2, <4>3, <4>4
    <3> HIDE DEF k, g
    <3>7. LineFrom(s, k) = SubSeq(s, k, g - 1)
      BY <1>1, <2>1, <3>5, <3>6, LineFound1 DEF l
    <3>8. SubSeq(s, k, g - 1) = SubSeq(w, i, e - 1)
      <4> DEFINE h == g - 1
                 c == e - 1
      <4>1. h \in Int /\ c \in Int /\ k \in Int /\ i \in Int /\ h - k = c - i
        BY <1>2, <2>1, <3>3 DEF k, g
      <4>2. ASSUME NEW j \in k .. h PROVE s[j] \in TextChars /\ s[j] = w[i + (j - k)]
        <5>1. i + (j - k) \in 1 .. n /\ j = m + (i + (j - k)) /\ j \in 1 .. l
          BY <1>1, <3>3 DEF k, g
        <5>2. s[j] \in TextChars
          BY <1>1, <5>1 DEF l
        <5> QED
          BY <1>1, <5>1, <5>2
      <4> HIDE DEF h, c
      <4>3. AgreesOn(TextChars, s, k, h, w, i)
        BY <4>2 DEF AgreesOn
      <4>4. SameWindow(s, k, h, w, i, c)
        BY <4>1, <4>3, WindowsAgree
      <4> QED
        BY <4>4 DEF SameWindow, h, c
    <3> QED
      BY <3>4, <3>7, <3>8
  <2>3. CASE ~\E e \in 1 .. n : i <= e /\ w[e] = NL
    <3>1. LineFrom(w, i) = SubSeq(w, i, n)
      BY <1>1, <2>1, <2>3, LineLast1 DEF n
    <3>2. ASSUME NEW f \in 1 .. l, k <= f PROVE s[f] # NL
      <4>1. f - m \in 1 .. n /\ i <= f - m /\ m + (f - m) = f
        BY <1>1, <3>2
      <4> QED
        BY <1>1, <2>3, <4>1
    <3>3. LineFrom(s, k) = SubSeq(s, k, l)
      <4> HIDE DEF k
      <4> QED
        BY <1>1, <2>1, <3>2, LineLast1 DEF l
    <3>4. SubSeq(s, k, l) = SubSeq(w, i, n)
      <4>1. l \in Int /\ n \in Int /\ k \in Int /\ i \in Int /\ l - k = n - i
        BY <1>1
      <4>2. ASSUME NEW j \in k .. l PROVE s[j] \in TextChars /\ s[j] = w[i + (j - k)]
        <5>1. i + (j - k) \in 1 .. n /\ j = m + (i + (j - k)) /\ j \in 1 .. l
          BY <1>1
        <5>2. s[j] \in TextChars
          BY <1>1, <5>1 DEF l
        <5> QED
          BY <1>1, <5>1, <5>2
      <4> HIDE DEF k
      <4>3. AgreesOn(TextChars, s, k, l, w, i)
        BY <4>2 DEF AgreesOn
      <4>4. SameWindow(s, k, l, w, i, n)
        BY <4>1, <4>3, WindowsAgree
      <4> QED
        BY <4>4 DEF SameWindow
    <3> QED
      BY <3>1, <3>3, <3>4
  <2> QED
    BY <2>2, <2>3
<1> QED
  BY <1>4, <1>5, <1>6, <1>7 DEF m

(* What is made of a text piece by piece: of a line and its end, and of    *)
(* what comes after.                                                       *)
LEMMA LineAndBreak ==
    ASSUME NEW x \in Seq(Letters)
    PROVE  /\ x \in Seq(TextChars) /\ x \o <<NL>> \in Seq(TextChars)
           /\ Len(x \o <<NL>>) = Len(x) + 1 /\ (x \o <<NL>>)[Len(x) + 1] = NL
           /\ \A k \in 1 .. Len(x) : (x \o <<NL>>)[k] = x[k] /\ x[k] # NL
<1> DEFINE e == <<NL>>
           q == x \o e
           l == Len(x)
<1>1. x \in Seq(TextChars) /\ e \in Seq(TextChars) /\ Len(e) = 1 /\ e[1] = NL
      /\ l \in Nat /\ \A k \in 1 .. l : x[k] # NL
  <2>1. x \in Seq(TextChars)
    BY LetterChars, SeqMonotonic
  <2>2. \A k \in 1 .. l : x[k] # NL
    BY LetterChars
  <2> QED
    BY <2>1, <2>2, LetterChars
<1> HIDE DEF e
<1>2. q \in Seq(TextChars) /\ Len(q) = l + Len(e)
      /\ \A k \in 1 .. l + Len(e) : q[k] = IF k <= l THEN x[k] ELSE e[k - l]
  BY <1>1, ConcatProperties
<1> HIDE DEF q, l
<1>3. Len(q) = l + 1 /\ q[l + 1] = NL /\ \A k \in 1 .. l : q[k] = x[k]
  <2>1. l + 1 \in 1 .. l + Len(e) /\ ~(l + 1 <= l) /\ (l + 1) - l = 1
    BY <1>1
  <2>2. q[l + 1] = NL
    BY <1>1, <1>2, <2>1
  <2> QED
    BY <1>1, <1>2, <2>2
<1> QED
  BY <1>1, <1>2, <1>3 DEF q, e, l

LEMMA LineBefore ==
    ASSUME NEW x \in Seq(Letters), NEW s, NEW w, After(s, x \o <<NL>>, w)
    PROVE  /\ LineFrom(s, 1) = x /\ StartsLine(s, 1) /\ s[Len(x) + 1] = NL
           /\ \A k \in 1 .. Len(x) + 1 : k # 1 => ~StartsLine(s, k)
           /\ \A k \in 1 .. Len(x) : s[k] = x[k] /\ s[k] # NL
           /\ \A k \in 1 .. Len(x) : Doubled(s, k) <=> x = <<Dot>>
<1> DEFINE q == x \o <<NL>>
           l == Len(x)
<1>1. /\ l \in Nat /\ Len(q) = l + 1 /\ \A k \in 1 .. l : q[k] = x[k] /\ x[k] # NL
  BY LineAndBreak
<1>2. /\ s \in Seq(TextChars) /\ Len(s) = Len(q) + Len(w) /\ Len(w) \in Nat /\ q[Len(q)] = NL
      /\ \A k \in 1 .. Len(q) : s[k] = q[k]
  BY DEF After
<1> HIDE DEF q
<1>3. s[l + 1] = NL /\ \A k \in 1 .. l : s[k] = x[k] /\ s[k] # NL
  <2>1. l + 1 \in 1 .. Len(q)
    BY <1>1
  <2>2. \A k \in 1 .. l : k \in 1 .. Len(q)
    BY <1>1
  <2> HIDE DEF l
  <2> QED
    BY <1>1, <1>2, <2>1, <2>2
<1>4. LineFrom(s, 1) = SubSeq(s, 1, l)
  <2> DEFINE m == l + 1
  <2>1. m \in 1 .. Len(s) /\ 1 <= m
    BY <1>1, <1>2
  <2>2. \A n \in 1 .. Len(s) : 1 <= n /\ s[n] = NL => m <= n
    <3>1. ASSUME NEW n \in 1 .. Len(s), s[n] = NL PROVE m <= n
      <4>1. n \notin 1 .. l
        BY <1>3, <3>1
      <4> HIDE DEF l
      <4> QED
        BY <1>1, <4>1
    <3> QED
      BY <3>1
  <2>3. m - 1 = l /\ 1 \in Nat /\ s[m] = NL
    BY <1>1, <1>3
  <2> HIDE DEF m
  <2>4. LineFrom(s, 1) = SubSeq(s, 1, m - 1)
    BY <1>2, <2>1, <2>2, <2>3, LineFound1
  <2> QED
    BY <2>3, <2>4
<1>5. SubSeq(s, 1, l) = x
  <2>1. SubSeq(s, 1, l) = SubSeq(x, 1, l)
    <3>1. 1 \in Int /\ l \in Int /\ l - 1 = l - 1
      BY <1>1
    <3>2. ASSUME NEW j \in 1 .. l PROVE s[j] \in Letters /\ s[j] = x[1 + (j - 1)]
      <4>1. 1 + (j - 1) = j /\ x[j] \in Letters
        OBVIOUS
      <4> QED
        BY <1>3, <4>1
    <3> HIDE DEF l
    <3>3. AgreesOn(Letters, s, 1, l, x, 1)
      BY <3>2 DEF AgreesOn
    <3>4. SameWindow(s, 1, l, x, 1, l)
      BY <3>1, <3>3, WindowsAgree
    <3> QED
      BY <3>4 DEF SameWindow
  <2> QED
    BY <2>1, SubSeqFull
<1>6. StartsLine(s, 1)
  BY DEF StartsLine
<1>7. ASSUME NEW k \in 1 .. l + 1, k # 1 PROVE ~StartsLine(s, k)
  <2>1. k - 1 \in 1 .. l
    BY <1>1, <1>7
  <2> QED
    BY <1>3, <1>7, <2>1 DEF StartsLine
<1>8. ASSUME NEW k \in 1 .. l PROVE Doubled(s, k) <=> x = <<Dot>>
  <2>1. k \in 1 .. l + 1 /\ k + 1 \in 1 .. l + 1 /\ k < Len(s)
    BY <1>1, <1>2
  <2>2. ASSUME Doubled(s, k) PROVE x = <<Dot>>
    <3>1. k = 1
      BY <1>7, <2>1, <2>2 DEF Doubled
    <3>2. s[k + 1] = NL
      BY <2>2 DEF Doubled
    <3>3. l = 1
      <4> SUFFICES ASSUME l # 1 PROVE FALSE
        OBVIOUS
      <4>1. k + 1 \in 1 .. l
        BY <1>1, <3>1
      <4> QED
        BY <1>3, <3>2, <4>1
    <3>4. x[1] = Dot
      BY <1>3, <2>2, <3>1 DEF Doubled
    <3>5. <<Dot>> \in Seq(Letters) /\ Len(<<Dot>>) = 1 /\ <<Dot>>[1] = Dot
      BY LetterChars
    <3> DEFINE y == <<Dot>>
    <3> HIDE DEF y
    <3>6. \A j \in 1 .. Len(x) : x[j] = y[j]
      BY <3>3, <3>4, <3>5 DEF y
    <3>7. x = y
      BY <3>3, <3>5, <3>6, SeqEqual DEF y
    <3> QED
      BY <3>7 DEF y
  <2>3. ASSUME x = <<Dot>> PROVE Doubled(s, k)
    <3>1. l = 1 /\ x[1] = Dot
      BY <2>3
    <3>2. k = 1 /\ s[1] = Dot /\ s[2] = NL /\ 1 + 1 = 2
      BY <1>3, <3>1
    <3> QED
      BY <1>6, <2>1, <3>2 DEF Doubled
  <2> QED
    BY <2>2, <2>3
<1> QED
  BY <1>3, <1>4, <1>5, <1>6, <1>7, <1>8

LEMMA LineFromType ==
    ASSUME NEW s \in Seq(TextChars), NEW k \in 1 .. Len(s)
    PROVE  LineFrom(s, k) \in Seq(TextChars)
<1> DEFINE l == Len(s)
           E == {e \in 1 .. l : k <= e /\ s[e] = NL}
<1>1. l \in Nat /\ k \in Nat /\ k # 0 /\ k \in Int /\ \A j \in 1 .. l : s[j] \in TextChars
  OBVIOUS
<1>2. ASSUME NEW m \in Int, m <= l PROVE SubSeq(s, k, m) \in Seq(TextChars)
  <2>1. \A j \in k .. m : s[j] \in TextChars
    BY <1>1, <1>2
  <2> QED
    BY <1>1, <2>1, SubSeqProperties
<1>3. CASE E = {}
  <2>1. LineFrom(s, k) = SubSeq(s, k, l)
    BY <1>1, <1>3, LineLast1
  <2> HIDE DEF l
  <2> QED
    BY <1>1, <1>2, <2>1
<1>4. CASE E # {}
  <2>1. E \in SUBSET Nat
    OBVIOUS
  <2>2. PICK e \in E : \A f \in E : e <= f
    <3> HIDE DEF E
    <3> QED
      BY <1>4, <2>1, LeastNumber
  <2>3. e \in 1 .. l /\ k <= e /\ s[e] = NL /\ \A f \in 1 .. l : k <= f /\ s[f] = NL => e <= f
    BY <2>2
  <2>4. LineFrom(s, k) = SubSeq(s, k, e - 1)
    BY <1>1, <2>3, LineFound1
  <2> DEFINE m == e - 1
  <2>5. m \in Int /\ m <= l
    BY <2>3
  <2> HIDE DEF m, l
  <2>6. SubSeq(s, k, m) \in Seq(TextChars)
    BY <1>2, <2>5
  <2> QED
    BY <2>4, <2>6 DEF m
<1> QED
  BY <1>3, <1>4

(* The first piece, and nothing else.                                      *)
LEMMA FirstOnly ==
    ASSUME NEW S, NEW y \in Seq(S), NEW n \in Nat, NEW uu,
           uu = [k \in 1 .. n + 1 |-> IF k = 1 THEN y ELSE <<>>]
    PROVE  uu \in Seq(Seq(S)) /\ Len(uu) = n + 1 /\ FlattenSeq(uu) = y
<1> DEFINE ss == <<y>>
           tt == [k \in 1 .. n |-> <<>>]
<1>1. <<>> \in Seq(S)
  OBVIOUS
<1>2. ss \in Seq(Seq(S)) /\ Len(ss) = 1 /\ ss[1] = y
  OBVIOUS
<1>3. tt \in Seq(Seq(S)) /\ Len(tt) = n /\ \A k \in 1 .. n : tt[k] = <<>>
  BY <1>1
<1>4. uu \in Seq(Seq(S)) /\ Len(uu) = n + 1 /\ \A k \in 1 .. n + 1 : uu[k] = IF k = 1 THEN y ELSE <<>>
  BY <1>1
<1>5. FlattenSeq(ss) = y /\ FlattenSeq(tt) = <<>>
  BY FlattenOne, FlattenEmpties
<1> HIDE DEF ss, tt
<1>6. /\ Len(uu) = Len(ss) + Len(tt)
      /\ \A k \in 1 .. Len(ss) : uu[k] = ss[k]
      /\ \A k \in 1 .. Len(tt) : uu[Len(ss) + k] = tt[k]
  <2>1. \A k \in 1 .. n : uu[1 + k] = <<>>
    <3>1. ASSUME NEW k \in 1 .. n PROVE 1 + k \in 1 .. n + 1 /\ 1 + k # 1
      OBVIOUS
    <3> QED
      BY <1>4, <3>1
  <2>2. uu[1] = y
    BY <1>4
  <2>3. \A k \in 1 .. 1 : k = 1
    OBVIOUS
  <2> QED
    BY <1>2, <1>3, <1>4, <2>1, <2>2, <2>3
<1>7. FlattenSeq(uu) = FlattenSeq(ss) \o FlattenSeq(tt)
  BY <1>2, <1>3, <1>4, <1>6, FlattenJoin, ZenonT(40)
<1>8. y \o <<>> = y
  BY ConcatEmptySeq
<1> QED
  BY <1>4, <1>5, <1>7, <1>8

Pieces(s) == [k \in 1 .. Len(s) |-> IF StartsLine(s, k) THEN <<LineFrom(s, k)>> ELSE <<>>]

LEMMA PiecesType ==
    ASSUME NEW s \in Seq(TextChars)
    PROVE  /\ Pieces(s) \in Seq(Seq(Seq(TextChars))) /\ Len(Pieces(s)) = Len(s)
           /\ \A k \in 1 .. Len(s) : Pieces(s)[k] = IF StartsLine(s, k) THEN <<LineFrom(s, k)>> ELSE <<>>
           /\ LinesOf(s) = FlattenSeq(Pieces(s))
<1>1. ASSUME NEW k \in 1 .. Len(s)
      PROVE (IF StartsLine(s, k) THEN <<LineFrom(s, k)>> ELSE <<>>) \in Seq(Seq(TextChars))
  <2>1. LineFrom(s, k) \in Seq(TextChars)
    BY LineFromType
  <2>2. <<LineFrom(s, k)>> \in Seq(Seq(TextChars)) /\ <<>> \in Seq(Seq(TextChars))
    BY <2>1
  <2> QED
    BY <2>2
<1>2. Len(s) \in Nat
  OBVIOUS
<1>3. LinesOf(s) = FlattenSeq(Pieces(s))
  BY DEF LinesOf, Pieces
<1> QED
  BY <1>1, <1>2, <1>3 DEF Pieces

LEMMA LinesFirst ==
    ASSUME NEW x \in Seq(Letters), NEW s, NEW w, After(s, x \o <<NL>>, w)
    PROVE  LinesOf(s) = <<x>> \o LinesOf(w)
<1> DEFINE l == Len(x)
           n == Len(w)
           q == x \o <<NL>>
           gg == [k \in 1 .. l + 1 |-> IF k = 1 THEN <<x>> ELSE <<>>]
           uu == Pieces(s)
           tt == Pieces(w)
<1>1. l \in Nat /\ n \in Nat /\ Len(q) = l + 1 /\ s \in Seq(TextChars) /\ w \in Seq(TextChars)
      /\ Len(s) = (l + 1) + n
  <2>1. l \in Nat /\ Len(q) = l + 1
    BY LineAndBreak
  <2>2. s \in Seq(TextChars) /\ w \in Seq(TextChars) /\ Len(s) = Len(q) + Len(w) /\ n \in Nat
    BY DEF After
  <2> HIDE DEF q
  <2> QED
    BY <2>1, <2>2
<1>2. x \in Seq(TextChars)
  BY LineAndBreak
<1>3. gg \in Seq(Seq(Seq(TextChars))) /\ Len(gg) = l + 1 /\ FlattenSeq(gg) = <<x>>
  <2> DEFINE y == <<x>>
  <2>1. y \in Seq(Seq(TextChars))
    BY <1>2
  <2>2. gg = [k \in 1 .. l + 1 |-> IF k = 1 THEN y ELSE <<>>]
    OBVIOUS
  <2>3. l \in Nat
    OBVIOUS
  <2> HIDE DEF y, gg, l
  <2>4. gg \in Seq(Seq(Seq(TextChars))) /\ Len(gg) = l + 1 /\ FlattenSeq(gg) = y
    BY <2>1, <2>2, <2>3, FirstOnly
  <2> QED
    BY <2>4 DEF y
<1>4. /\ uu \in Seq(Seq(Seq(TextChars))) /\ Len(uu) = (l + 1) + n /\ LinesOf(s) = FlattenSeq(uu)
      /\ \A k \in 1 .. Len(s) : uu[k] = IF StartsLine(s, k) THEN <<LineFrom(s, k)>> ELSE <<>>
  BY <1>1, PiecesType
<1>5. /\ tt \in Seq(Seq(Seq(TextChars))) /\ Len(tt) = n /\ LinesOf(w) = FlattenSeq(tt)
      /\ \A k \in 1 .. n : tt[k] = IF StartsLine(w, k) THEN <<LineFrom(w, k)>> ELSE <<>>
  BY <1>1, PiecesType
<1> HIDE DEF uu, tt, n
<1>6. ASSUME NEW k \in 1 .. l + 1 PROVE uu[k] = gg[k]
  <2>1. /\ LineFrom(s, 1) = x /\ StartsLine(s, 1)
        /\ \A j \in 1 .. l + 1 : j # 1 => ~StartsLine(s, j)
    BY LineBefore
  <2>2. k \in 1 .. Len(s)
    <3> HIDE DEF l
    <3> QED
      BY <1>1
  <2>3. gg[k] = IF k = 1 THEN <<x>> ELSE <<>>
    OBVIOUS
  <2> HIDE DEF gg, l
  <2> QED
    BY <1>4, <2>1, <2>2, <2>3
<1>7. ASSUME NEW k \in 1 .. n PROVE uu[(l + 1) + k] = tt[k]
  <2>1. k \in 1 .. Len(w)
    BY DEF n
  <2>2. After(s, q, w)
    OBVIOUS
  <2> HIDE DEF q, l
  <2>3. /\ StartsLine(s, Len(q) + k) <=> StartsLine(w, k)
        /\ LineFrom(s, Len(q) + k) = LineFrom(w, k)
    BY <2>1, <2>2, AfterBreak
  <2>4. (l + 1) + k \in 1 .. Len(s) /\ Len(q) + k = (l + 1) + k
    BY <1>1
  <2> DEFINE j == (l + 1) + k
  <2>5. j \in 1 .. Len(s) /\ (StartsLine(s, j) <=> StartsLine(w, k)) /\ LineFrom(s, j) = LineFrom(w, k)
    BY <2>3, <2>4
  <2> HIDE DEF j
  <2>6. uu[j] = tt[k]
    BY <1>4, <1>5, <2>5
  <2> QED
    BY <2>6 DEF j
<1> HIDE DEF gg
<1>8. Len(uu) = Len(gg) + Len(tt) /\ (\A k \in 1 .. Len(gg) : uu[k] = gg[k])
      /\ \A k \in 1 .. Len(tt) : uu[Len(gg) + k] = tt[k]
  BY <1>3, <1>4, <1>5, <1>6, <1>7, SMTT(30)
<1>9. FlattenSeq(uu) = FlattenSeq(gg) \o FlattenSeq(tt)
  BY <1>3, <1>4, <1>5, <1>8, FlattenJoin
<1> QED
  BY <1>3, <1>4, <1>5, <1>9

LEMMA LinesLast ==
    ASSUME NEW x \in Seq(Letters)
    PROVE  LinesOf(x) = IF x = <<>> THEN <<>> ELSE <<x>>
<1> DEFINE l == Len(x)
           uu == Pieces(x)
<1>1. x \in Seq(TextChars) /\ l \in Nat /\ \A k \in 1 .. l : x[k] # NL
  BY LineAndBreak
<1>2. /\ uu \in Seq(Seq(Seq(TextChars))) /\ Len(uu) = l /\ LinesOf(x) = FlattenSeq(uu)
      /\ \A k \in 1 .. l : uu[k] = IF StartsLine(x, k) THEN <<LineFrom(x, k)>> ELSE <<>>
  BY <1>1, PiecesType
<1>3. CASE x = <<>>
  <2>1. l = 0
    BY <1>3
  <2>2. uu = <<>>
    <3> HIDE DEF uu, l
    <3> QED
      BY <1>2, <2>1
  <2> QED
    BY <1>2, <1>3, <2>2, FlattenNone
<1>4. CASE x # <<>>
  <2> DEFINE n == l - 1
             y == <<x>>
             gg == [k \in 1 .. n + 1 |-> IF k = 1 THEN y ELSE <<>>]
  <2>1. n \in Nat /\ l = n + 1
    BY <1>4
  <2>2. y \in Seq(Seq(TextChars))
    BY <1>1
  <2>3. LineFrom(x, 1) = x
    <3>1. 1 \in Nat /\ \A k \in 1 .. Len(x) : 1 <= k => x[k] # NL
      BY <1>1
    <3>2. LineFrom(x, 1) = SubSeq(x, 1, Len(x))
      BY <1>1, <3>1, LineLast1
    <3> QED
      BY <3>2, SubSeqFull
  <2>4. ASSUME NEW k \in 1 .. l PROVE uu[k] = IF k = 1 THEN y ELSE <<>>
    <3>1. CASE k = 1
      <4>1. StartsLine(x, k)
        BY <3>1 DEF StartsLine
      <4> HIDE DEF uu, l
      <4> QED
        BY <1>2, <2>3, <3>1, <4>1
    <3>2. CASE k # 1
      <4>1. k - 1 \in 1 .. l
        BY <3>2
      <4>2. ~StartsLine(x, k)
        BY <1>1, <3>2, <4>1 DEF StartsLine
      <4> HIDE DEF uu, l
      <4> QED
        BY <1>2, <3>2, <4>2
    <3> QED
      BY <3>1, <3>2
  <2>5. gg \in Seq(Seq(Seq(TextChars))) /\ Len(gg) = n + 1 /\ FlattenSeq(gg) = y
    <3>1. gg = [k \in 1 .. n + 1 |-> IF k = 1 THEN y ELSE <<>>]
      OBVIOUS
    <3> HIDE DEF gg, n, y
    <3> QED
      BY <2>1, <2>2, <3>1, FirstOnly
  <2>6. \A k \in 1 .. l : gg[k] = IF k = 1 THEN y ELSE <<>>
    BY <2>1
  <2> HIDE DEF gg, n, y, uu, l
  <2>7. uu = gg
    <3>1. Len(uu) = Len(gg) /\ \A k \in 1 .. Len(uu) : uu[k] = gg[k]
      BY <1>2, <2>1, <2>4, <2>5, <2>6
    <3> QED
      BY <1>2, <2>5, <3>1, SeqEqual
  <2> QED
    BY <1>2, <1>4, <2>5, <2>7 DEF y
<1> QED
  BY <1>3, <1>4

(* daemon_crlf, a line at a time.                                          *)
DoubledLine(x, dot) == IF dot /\ x = <<Dot>> THEN <<Dot, Dot>> ELSE x

Spread(s, dot) ==
    [k \in 1 .. Len(s) |->
        IF s[k] = NL THEN <<CR, NL>>
        ELSE IF dot /\ Doubled(s, k) THEN <<Dot, Dot>>
        ELSE <<s[k]>>]

LEMMA SpreadType ==
    ASSUME NEW s \in Seq(Chars), NEW dot
    PROVE  /\ Spread(s, dot) \in Seq(Seq(Chars)) /\ Len(Spread(s, dot)) = Len(s)
           /\ \A k \in 1 .. Len(s) :
                Spread(s, dot)[k] = IF s[k] = NL THEN End
                                    ELSE IF dot /\ Doubled(s, k) THEN <<Dot, Dot>>
                                    ELSE <<s[k]>>
           /\ Lined(s, dot) = FlattenSeq(Spread(s, dot))
<1> DEFINE e(k) == IF s[k] = NL THEN End ELSE IF dot /\ Doubled(s, k) THEN <<Dot, Dot>> ELSE <<s[k]>>
<1>1. \A k \in 1 .. Len(s) : e(k) \in Seq(Chars)
  <2>1. End \in Seq(Chars) /\ Dot \in Chars
    BY EndType DEF Chars
  <2>2. <<Dot, Dot>> \in Seq(Chars) /\ \A k \in 1 .. Len(s) : <<s[k]>> \in Seq(Chars)
    BY <2>1
  <2> QED
    BY <2>1, <2>2
<1>2. Spread(s, dot) = [k \in 1 .. Len(s) |-> e(k)]
  BY DEF Spread, End
<1>3. Len(s) \in Nat
  OBVIOUS
<1>4. Lined(s, dot) = FlattenSeq(Spread(s, dot))
  BY DEF Lined, Spread
<1>5. \A k \in 1 .. Len(s) : Spread(s, dot)[k] = e(k)
  <2> HIDE DEF e
  <2> QED
    BY <1>2
<1>6. Spread(s, dot) \in Seq(Seq(Chars)) /\ Len(Spread(s, dot)) = Len(s)
  <2> HIDE DEF e
  <2> QED
    BY <1>1, <1>2, <1>3
<1> QED
  BY <1>4, <1>5, <1>6

SpreadLine(x, dot) ==
    [k \in 1 .. Len(x) |-> IF dot /\ x = <<Dot>> THEN <<Dot, Dot>> ELSE <<x[k]>>]

LEMMA LinePieces ==
    ASSUME NEW x \in Seq(Letters), NEW dot
    PROVE  /\ SpreadLine(x, dot) \in Seq(Seq(Chars)) /\ Len(SpreadLine(x, dot)) = Len(x)
           /\ FlattenSeq(SpreadLine(x, dot)) = DoubledLine(x, dot)
           /\ DoubledLine(x, dot) \in Seq(Letters)
<1> DEFINE uu == SpreadLine(x, dot)
<1>1. x \in Seq(Chars) /\ <<Dot, Dot>> \in Seq(Chars) /\ <<Dot, Dot>> \in Seq(Letters)
  <2>1. Dot \in Chars /\ Dot \in Letters
    BY DEF Chars, Letters
  <2>2. x \in Seq(Chars)
    BY LetterChars, SeqMonotonic
  <2> QED
    BY <2>1, <2>2
<1>2. CASE dot /\ x = <<Dot>>
  <2>1. uu = <<<<Dot, Dot>>>> /\ Len(x) = 1
    BY <1>2 DEF SpreadLine
  <2>2. uu \in Seq(Seq(Chars)) /\ Len(uu) = 1
    BY <1>1, <2>1
  <2>3. DoubledLine(x, dot) = <<Dot, Dot>>
    BY <1>2 DEF DoubledLine
  <2>4. FlattenSeq(uu) = <<Dot, Dot>>
    BY <1>1, <2>1, FlattenOne
  <2> QED
    BY <1>1, <2>1, <2>2, <2>3, <2>4
<1>3. CASE ~(dot /\ x = <<Dot>>)
  <2>1. uu = [k \in 1 .. Len(x) |-> <<x[k]>>]
    BY <1>3 DEF SpreadLine
  <2>2. FlattenSeq(uu) = x
    BY <1>1, <2>1, FlattenSingles
  <2>3. DoubledLine(x, dot) = x
    BY <1>3 DEF DoubledLine
  <2>4. uu \in Seq(Seq(Chars)) /\ Len(uu) = Len(x)
    <3>1. \A k \in 1 .. Len(x) : <<x[k]>> \in Seq(Chars)
      BY <1>1
    <3> QED
      BY <2>1, <3>1
  <2> QED
    BY <2>2, <2>3, <2>4
<1> QED
  BY <1>2, <1>3

LEMMA LinedLast ==
    ASSUME NEW x \in Seq(Letters), NEW dot
    PROVE  Lined(x, dot) = x
<1> DEFINE uu == [k \in 1 .. Len(x) |-> <<x[k]>>]
<1>1. x \in Seq(Chars) /\ \A k \in 1 .. Len(x) : x[k] # NL
  <2>1. x \in Seq(Chars)
    BY LetterChars, SeqMonotonic
  <2> QED
    BY <2>1, LineAndBreak
<1>2. ASSUME NEW k \in 1 .. Len(x) PROVE ~Doubled(x, k)
  <2> SUFFICES ASSUME Doubled(x, k) PROVE FALSE
    OBVIOUS
  <2>1. k + 1 \in 1 .. Len(x)
    BY DEF Doubled
  <2>2. x[k + 1] = NL
    BY DEF Doubled
  <2> QED
    BY <1>1, <2>1, <2>2
<1>3. Spread(x, dot) = uu
  BY <1>1, <1>2 DEF Spread
<1>4. FlattenSeq(uu) = x
  BY FlattenSingles
<1> QED
  BY <1>1, <1>3, <1>4, SpreadType

LEMMA LinedFirst ==
    ASSUME NEW x \in Seq(Letters), NEW s, NEW w, After(s, x \o <<NL>>, w), NEW dot
    PROVE  Lined(s, dot) = (DoubledLine(x, dot) \o End) \o Lined(w, dot)
<1> DEFINE l == Len(x)
           n == Len(w)
           q == x \o <<NL>>
           gg == SpreadLine(x, dot)
           uu == Spread(s, dot)
           tt == Spread(w, dot)
<1>1. l \in Nat /\ n \in Nat /\ Len(q) = l + 1 /\ s \in Seq(Chars) /\ w \in Seq(Chars)
      /\ Len(s) = (l + 1) + n
  <2>1. l \in Nat /\ Len(q) = l + 1
    BY LineAndBreak
  <2>2. s \in Seq(TextChars) /\ w \in Seq(TextChars) /\ Len(s) = Len(q) + Len(w) /\ n \in Nat
    BY DEF After
  <2>3. s \in Seq(Chars) /\ w \in Seq(Chars)
    BY <2>2, LetterChars, SeqMonotonic
  <2> HIDE DEF q
  <2> QED
    BY <2>1, <2>2, <2>3
<1>2. After(s, q, w)
  OBVIOUS
<1>3. /\ gg \in Seq(Seq(Chars)) /\ Len(gg) = l /\ FlattenSeq(gg) = DoubledLine(x, dot)
  BY LinePieces
<1>4. /\ uu \in Seq(Seq(Chars)) /\ Len(uu) = (l + 1) + n /\ Lined(s, dot) = FlattenSeq(uu)
      /\ \A k \in 1 .. Len(s) : uu[k] = IF s[k] = NL THEN End
                                        ELSE IF dot /\ Doubled(s, k) THEN <<Dot, Dot>> ELSE <<s[k]>>
  BY <1>1, SpreadType
<1>5. /\ tt \in Seq(Seq(Chars)) /\ Len(tt) = n /\ Lined(w, dot) = FlattenSeq(tt)
      /\ \A k \in 1 .. n : tt[k] = IF w[k] = NL THEN End
                                   ELSE IF dot /\ Doubled(w, k) THEN <<Dot, Dot>> ELSE <<w[k]>>
  BY <1>1, SpreadType
<1> DEFINE hh == Append(gg, End)
<1>6. \A k \in 1 .. l : gg[k] = IF dot /\ x = <<Dot>> THEN <<Dot, Dot>> ELSE <<x[k]>>
  BY DEF SpreadLine
<1>7. /\ s[l + 1] = NL
      /\ \A k \in 1 .. l : s[k] = x[k] /\ s[k] # NL /\ (Doubled(s, k) <=> x = <<Dot>>)
  BY LineBefore
<1>8. ASSUME NEW k \in 1 .. n
      PROVE  s[(l + 1) + k] = w[k] /\ (Doubled(s, (l + 1) + k) <=> Doubled(w, k))
  <2>1. k \in 1 .. Len(w)
    OBVIOUS
  <2> HIDE DEF q, l, n
  <2>2. s[Len(q) + k] = w[k] /\ (Doubled(s, Len(q) + k) <=> Doubled(w, k))
    BY <1>2, <2>1, AfterBreak
  <2>3. Len(q) + k = (l + 1) + k
    BY <1>1
  <2> QED
    BY <2>2, <2>3
<1> HIDE DEF q, uu, tt, n, gg, l
<1>9. /\ hh \in Seq(Seq(Chars)) /\ Len(hh) = l + 1 /\ hh[l + 1] = End
      /\ \A k \in 1 .. l : hh[k] = gg[k]
      /\ FlattenSeq(hh) = DoubledLine(x, dot) \o End
  <2>1. End \in Seq(Chars)
    BY EndType
  <2>2. FlattenSeq(hh) = FlattenSeq(gg) \o End
    BY <1>3, <2>1, FlattenAppend
  <2> QED
    BY <1>1, <1>3, <2>1, <2>2
<1> HIDE DEF hh
<1>10. ASSUME NEW k \in 1 .. l + 1 PROVE uu[k] = hh[k]
  <2>1. k \in 1 .. Len(s)
    BY <1>1
  <2>2. CASE k = l + 1
    BY <1>4, <1>7, <1>9, <2>1, <2>2
  <2>3. CASE k # l + 1
    <3>1. k \in 1 .. l
      BY <1>1, <2>3
    <3>2. hh[k] = IF dot /\ x = <<Dot>> THEN <<Dot, Dot>> ELSE <<x[k]>>
      BY <1>6, <1>9, <3>1
    <3>3. s[k] = x[k] /\ s[k] # NL /\ (Doubled(s, k) <=> x = <<Dot>>)
      BY <1>7, <3>1
    <3>4. uu[k] = IF dot /\ Doubled(s, k) THEN <<Dot, Dot>> ELSE <<s[k]>>
      BY <1>4, <2>1, <3>3
    <3> QED
      BY <3>2, <3>3, <3>4
  <2> QED
    BY <2>2, <2>3
<1>11. ASSUME NEW k \in 1 .. n PROVE uu[(l + 1) + k] = tt[k]
  <2> DEFINE j == (l + 1) + k
  <2>1. j \in 1 .. Len(s)
    BY <1>1
  <2>2. s[j] = w[k] /\ (Doubled(s, j) <=> Doubled(w, k))
    BY <1>8
  <2> HIDE DEF j
  <2>3. uu[j] = tt[k]
    BY <1>4, <1>5, <2>1, <2>2
  <2> QED
    BY <2>3 DEF j
<1>12. Len(uu) = Len(hh) + Len(tt) /\ (\A k \in 1 .. Len(hh) : uu[k] = hh[k])
      /\ \A k \in 1 .. Len(tt) : uu[Len(hh) + k] = tt[k]
  BY <1>4, <1>5, <1>9, <1>10, <1>11
<1>13. FlattenSeq(uu) = FlattenSeq(hh) \o FlattenSeq(tt)
  BY <1>4, <1>5, <1>9, <1>12, FlattenJoin
<1> QED
  BY <1>4, <1>5, <1>9, <1>13

(* A text is one line without an end, or a line, its end, and the rest.    *)
BeginsWithLine(v) ==
    \E x \in Seq(Letters), w \in Seq(TextChars) : After(v, x \o <<NL>>, w) /\ Len(w) < Len(v)

LEMMA OneLineOrMore ==
    ASSUME NEW v \in Seq(TextChars)
    PROVE  v \in Seq(Letters) \/ BeginsWithLine(v)
<1> DEFINE l == Len(v)
           E == {e \in 1 .. l : v[e] = NL}
<1>1. l \in Nat /\ \A i \in 1 .. l : v[i] \in TextChars
  OBVIOUS
<1>2. CASE E = {}
  <2>1. \A i \in 1 .. l : v[i] \in Letters
    BY <1>1, <1>2, LetterChars
  <2> QED
    BY <2>1
<1>3. CASE E # {}
  <2>1. E \in SUBSET Nat
    OBVIOUS
  <2>2. PICK e \in E : \A f \in E : e <= f
    <3> HIDE DEF E
    <3> QED
      BY <1>3, <2>1, LeastNumber
  <2> DEFINE x == SubSeq(v, 1, e - 1)
             w == SubSeq(v, e + 1, l)
             q == x \o <<NL>>
             a == e - 1
             b == e + 1
  <2>3. e \in 1 .. l /\ v[e] = NL /\ a \in Nat /\ a + 1 = e /\ b \in Nat /\ b = e + 1
    BY <2>2
  <2>4. \A i \in 1 .. a : v[i] \in Letters
    <3>1. ASSUME NEW i \in 1 .. a PROVE v[i] \in Letters
      <4>1. i \in 1 .. l /\ i \notin E
        BY <2>2, <2>3
      <4> QED
        BY <1>1, <4>1, LetterChars
    <3> QED
      BY <3>1
  <2>5. x \in Seq(Letters) /\ Len(x) = a /\ \A i \in 1 .. a : x[i] = v[i]
    <3> HIDE DEF a, E, l
    <3> DEFINE y == SubSeq(v, 1, a)
    <3>1. /\ y \in Seq(Letters)
          /\ Len(y) = (IF 1 <= a THEN a - 1 + 1 ELSE 0)
          /\ \A i \in 1 .. a - 1 + 1 : y[i] = v[1 + i - 1]
      <4>1. 1 \in Int /\ a \in Int
        BY <2>3
      <4> QED
        BY <2>4, <4>1, SubSeqProperties
    <3> HIDE DEF y
    <3>2. y \in Seq(Letters) /\ Len(y) = a /\ \A i \in 1 .. a : y[i] = v[i]
      BY <2>3, <3>1
    <3> QED
      BY <3>2 DEF y, a
  <2>6. w \in Seq(TextChars) /\ Len(w) = l - e /\ \A i \in 1 .. l - e : w[i] = v[e + i]
    <3> DEFINE y == SubSeq(v, b, l)
    <3> HIDE DEF b, E, a
    <3>1. \A i \in b .. l : v[i] \in TextChars
      BY <1>1, <2>3
    <3> HIDE DEF l
    <3>2. /\ y \in Seq(TextChars)
          /\ Len(y) = (IF b <= l THEN l - b + 1 ELSE 0)
          /\ \A i \in 1 .. l - b + 1 : y[i] = v[b + i - 1]
      <4>1. b \in Int /\ l \in Int
        BY <1>1, <2>3
      <4> QED
        BY <3>1, <4>1, SubSeqProperties
    <3> HIDE DEF y
    <3>3. y \in Seq(TextChars) /\ Len(y) = l - e /\ \A i \in 1 .. l - e : y[i] = v[e + i]
      <4>1. l - b + 1 = l - e /\ Len(y) = l - e
        BY <1>1, <2>3, <3>2
      <4>2. ASSUME NEW i \in 1 .. l - e PROVE y[i] = v[e + i]
        <5>1. i \in 1 .. l - b + 1
          BY <4>1
        <5>2. b + i - 1 = e + i
          BY <1>1, <2>3
        <5> QED
          BY <3>2, <5>1, <5>2
      <4> QED
        BY <3>2, <4>1, <4>2
    <3> QED
      BY <3>3 DEF y, b
  <2> HIDE DEF x, w
  <2>7. q \in Seq(TextChars) /\ Len(q) = e /\ q[e] = NL /\ \A k \in 1 .. a : q[k] = x[k]
    <3>1. q \in Seq(TextChars) /\ Len(q) = Len(x) + 1 /\ q[Len(x) + 1] = NL
          /\ \A k \in 1 .. Len(x) : q[k] = x[k]
      BY <2>5, LineAndBreak
    <3> HIDE DEF q, a
    <3> QED
      BY <2>3, <2>5, <3>1
  <2> HIDE DEF q, a, b, E
  <2>8. \A k \in 1 .. e : v[k] = q[k]
    <3>1. ASSUME NEW k \in 1 .. e PROVE v[k] = q[k]
      <4>1. k = e \/ k \in 1 .. a
        BY <2>3
      <4> QED
        BY <2>3, <2>5, <2>7, <4>1
    <3> QED
      BY <3>1
  <2>9. After(v, q, w)
    BY <1>1, <2>3, <2>6, <2>7, <2>8 DEF After
  <2>10. Len(w) < Len(v)
    BY <2>3, <2>6
  <2> QED
    BY <2>5, <2>6, <2>9, <2>10 DEF BeginsWithLine, q
<1> QED
  BY <1>2, <1>3

(* The lines ls of the text v as they are written.                         *)
Sheeted(v, dot, ls) ==
    /\ ls \in Seq(Seq(Letters)) /\ LinesOf(v) \in Seq(Seq(Letters)) /\ Len(ls) = Len(LinesOf(v))
    /\ Lined(v, dot) \o LastBreak(v) = Wire(ls)
    /\ \A n \in 1 .. Len(ls) :
        /\ ls[n] = LinesOf(v)[n] \/ (dot /\ LinesOf(v)[n] = <<Dot>> /\ ls[n] = <<Dot, Dot>>)
        /\ ls[n] = <<Dot>> => ~dot \/ (n = Len(ls) /\ Last(v) # NL)

LEMMA SheetLast ==
    ASSUME NEW x \in Seq(Letters), NEW dot \in BOOLEAN
    PROVE  Sheeted(x, dot, IF x = <<>> THEN <<>> ELSE <<x>>)
<1>1. Lined(x, dot) = x
  BY LinedLast
<1>2. LinesOf(x) = IF x = <<>> THEN <<>> ELSE <<x>>
  BY LinesLast
<1>3. CASE x = <<>>
  <2>1. LastBreak(x) = <<>>
    BY <1>3 DEF LastBreak
  <2>2. Lined(x, dot) \o LastBreak(x) = Wire(<<>>)
    BY <1>1, <1>3, <2>1, WireNone
  <2> QED
    BY <1>2, <1>3, <2>2 DEF Sheeted
<1>4. CASE x # <<>>
  <2> DEFINE ls == <<x>>
  <2>1. Last(x) # NL
    <3>1. Len(x) \in 1 .. Len(x)
      BY <1>4
    <3>2. x[Len(x)] # NL
      BY <3>1, LetterChars
    <3> QED
      BY <3>2 DEF Last
  <2>2. LastBreak(x) = End
    BY <1>4, <2>1 DEF LastBreak, End
  <2>3. x \in Seq(Plain)
    BY LetterChars, SeqMonotonic
  <2>4. Lined(x, dot) \o LastBreak(x) = Wire(ls)
    BY <1>1, <2>2, <2>3, WireOne
  <2>5. ls \in Seq(Seq(Letters)) /\ Len(ls) = 1 /\ LinesOf(x) = ls
    BY <1>2, <1>4
  <2> HIDE DEF ls
  <2>6. Sheeted(x, dot, ls)
    BY <2>1, <2>4, <2>5 DEF Sheeted
  <2> QED
    BY <1>4, <2>6 DEF ls
<1> QED
  BY <1>3, <1>4

LEMMA SheetFirst ==
    ASSUME NEW x \in Seq(Letters), NEW v, NEW w, After(v, x \o <<NL>>, w), NEW dot \in BOOLEAN,
           NEW lw, Sheeted(w, dot, lw)
    PROVE  Sheeted(v, dot, <<DoubledLine(x, dot)>> \o lw)
<1> DEFINE q == x \o <<NL>>
           d == DoubledLine(x, dot)
           dd == <<d>>
           xx == <<x>>
           ls == dd \o lw
           lv == LinesOf(v)
           m == Len(lw)
           y == LinesOf(w)
<1>1. /\ lw \in Seq(Seq(Letters)) /\ y \in Seq(Seq(Letters)) /\ m = Len(y)
      /\ Lined(w, dot) \o LastBreak(w) = Wire(lw)
      /\ \A n \in 1 .. m :
            /\ lw[n] = y[n] \/ (dot /\ y[n] = <<Dot>> /\ lw[n] = <<Dot, Dot>>)
            /\ lw[n] = <<Dot>> => ~dot \/ (n = m /\ Last(w) # NL)
  BY DEF Sheeted
<1>2. After(v, q, w)
  OBVIOUS
<1>3. /\ v \in Seq(TextChars) /\ w \in Seq(TextChars) /\ Len(q) # 0 /\ Len(q) \in Nat
      /\ Len(v) = Len(q) + Len(w) /\ q[Len(q)] = NL
      /\ \A k \in 1 .. Len(q) : v[k] = q[k]
      /\ \A k \in 1 .. Len(w) : v[Len(q) + k] = w[k]
  BY <1>2 DEF After
<1>4. lv = xx \o y
  BY LinesFirst
<1>5. Lined(v, dot) = (d \o End) \o Lined(w, dot)
  BY LinedFirst
<1>6. d \in Seq(Letters) /\ d \in Seq(Plain)
  <2>1. d \in Seq(Letters)
    BY LinePieces
  <2> QED
    BY <2>1, LetterChars, SeqMonotonic
<1> HIDE DEF q, y, lv
<1>7. /\ v # <<>>
      /\ w = <<>> => Last(v) = NL
      /\ w # <<>> => Last(v) = Last(w)
  <2>1. v # <<>>
    BY <1>3
  <2>2. ASSUME w = <<>> PROVE Last(v) = NL
    <3>1. Len(v) = Len(q) /\ Len(q) \in 1 .. Len(q)
      BY <1>3, <2>2
    <3> QED
      BY <1>3, <3>1 DEF Last
  <2>3. ASSUME w # <<>> PROVE Last(v) = Last(w)
    <3>1. Len(w) \in 1 .. Len(w)
      BY <1>3, <2>3
    <3> QED
      BY <1>3, <3>1 DEF Last
  <2> QED
    BY <2>1, <2>2, <2>3
<1>8. LastBreak(v) = LastBreak(w)
  BY <1>7 DEF LastBreak
<1>9. Lined(v, dot) \o LastBreak(v) = Wire(ls)
  <2> DEFINE a == d \o End
             b == Lined(w, dot)
             c == LastBreak(w)
  <2>1. a \in Seq(Chars) /\ b \in Seq(Chars) /\ c \in Seq(Chars)
    <3>1. a \in Seq(Chars)
      BY <1>6, LineWithEnd
    <3>2. w \in Seq(Chars)
      BY <1>3, LetterChars, SeqMonotonic
    <3> QED
      BY <3>1, <3>2, LinedType, LastBreakType
  <2>2. lw \in Seq(Seq(Plain))
    <3>1. Seq(Letters) \subseteq Seq(Plain)
      BY LetterChars, SeqMonotonic
    <3> QED
      BY <1>1, <3>1, SeqMonotonic
  <2>3. Wire(ls) = a \o Wire(lw)
    <3> HIDE DEF d
    <3> QED
      BY <1>6, <2>2, WireFirst
  <2>4. Wire(ls) = a \o (b \o c)
    BY <1>1, <2>3
  <2>5. Lined(v, dot) \o LastBreak(v) = (a \o b) \o c
    BY <1>5, <1>8
  <2> HIDE DEF a, b, c
  <2>6. (a \o b) \o c = a \o (b \o c)
    BY <2>1, Associate, SMTT(30) DEF Associated
  <2> QED
    BY <2>4, <2>5, <2>6
<1>10. dd \in Seq(Seq(Letters)) /\ Len(dd) = 1 /\ dd[1] = d /\ xx \in Seq(Seq(Letters)) /\ Len(xx) = 1 /\ xx[1] = x
  <2> HIDE DEF d
  <2> QED
    BY <1>6
<1> HIDE DEF dd, xx
<1>11. /\ ls \in Seq(Seq(Letters)) /\ Len(ls) = 1 + m
       /\ \A n \in 1 .. 1 + m : ls[n] = IF n <= 1 THEN dd[n] ELSE lw[n - 1]
  <2>1. /\ ls \in Seq(Seq(Letters)) /\ Len(ls) = Len(dd) + Len(lw)
        /\ \A n \in 1 .. Len(dd) + Len(lw) : ls[n] = IF n <= Len(dd) THEN dd[n] ELSE lw[n - Len(dd)]
    <3>1. dd \in Seq(Seq(Letters)) /\ lw \in Seq(Seq(Letters))
      BY <1>1, <1>10
    <3> QED
      BY <3>1, ConcatProperties
  <2> HIDE DEF ls
  <2> QED
    BY <1>10, <2>1
<1>12. /\ lv \in Seq(Seq(Letters)) /\ Len(lv) = 1 + m
       /\ \A n \in 1 .. 1 + m : lv[n] = IF n <= 1 THEN xx[n] ELSE y[n - 1]
  <2>1. /\ xx \o y \in Seq(Seq(Letters)) /\ Len(xx \o y) = Len(xx) + Len(y)
        /\ \A n \in 1 .. Len(xx) + Len(y) : (xx \o y)[n] = IF n <= Len(xx) THEN xx[n] ELSE y[n - Len(xx)]
    BY <1>1, <1>10, ConcatProperties
  <2> HIDE DEF m
  <2> QED
    BY <1>1, <1>4, <1>10, <2>1
<1>13. m \in Nat
  BY <1>1
<1> HIDE DEF ls, m
<1>14. ASSUME NEW n \in 1 .. 1 + m
       PROVE  /\ ls[n] = lv[n] \/ (dot /\ lv[n] = <<Dot>> /\ ls[n] = <<Dot, Dot>>)
              /\ ls[n] = <<Dot>> => ~dot \/ (n = 1 + m /\ Last(v) # NL)
  <2>1. CASE n = 1
    <3>1. ls[n] = d /\ lv[n] = x
      <4>1. 1 \in 1 .. 1 + m /\ 1 <= 1
        BY <1>13
      <4>2. ls[1] = dd[1] /\ lv[1] = xx[1]
        BY <1>11, <1>12, <4>1
      <4> QED
        BY <1>10, <2>1, <4>2
    <3>2. <<Dot, Dot>> # <<Dot>>
      OBVIOUS
    <3> QED
      BY <3>1, <3>2, Zenon DEF DoubledLine
  <2>2. CASE n # 1
    <3> DEFINE k == n - 1
    <3>1. k \in 1 .. m /\ n = k + 1 /\ ~(n <= 1)
      BY <1>13, <2>2
    <3>2. ls[n] = lw[k] /\ lv[n] = y[k]
      BY <1>11, <1>12, <3>1
    <3> HIDE DEF k
    <3>3. w # <<>>
      <4> SUFFICES ASSUME w = <<>> PROVE FALSE
        OBVIOUS
      <4>1. y = <<>>
        <5>1. <<>> \in Seq(Letters)
          OBVIOUS
        <5> QED
          BY <5>1, LinesLast DEF y
      <4> QED
        BY <1>1, <3>1, <4>1
    <3>4. k = m => n = 1 + m
      BY <1>13, <3>1
    <3> QED
      BY <1>1, <1>7, <3>1, <3>2, <3>3, <3>4
  <2> QED
    BY <2>1, <2>2
<1>15. Sheeted(v, dot, ls)
  BY <1>9, <1>11, <1>12, <1>14 DEF Sheeted, lv
<1> QED
  BY <1>15 DEF ls, dd, d

(* What the daemon writes of a text is its lines, but that dots are        *)
(* doubled.                                                                *)
Sheetable(v, dot) == \E ls : Sheeted(v, dot, ls)

LEMMA TextLines ==
    ASSUME NEW v \in Seq(TextChars), NEW dot \in BOOLEAN
    PROVE  Sheetable(v, dot)
<1> DEFINE N == {n \in Nat : \A s \in Seq(TextChars) : Len(s) <= n => Sheetable(s, dot)}
<1>1. ASSUME NEW s \in Seq(Letters) PROVE Sheetable(s, dot)
  BY SheetLast DEF Sheetable
<1>2. 0 \in N
  <2>1. ASSUME NEW s \in Seq(TextChars), Len(s) <= 0 PROVE Sheetable(s, dot)
    <3>1. s = <<>>
      BY <2>1
    <3>2. s \in Seq(Letters)
      BY <3>1
    <3> QED
      BY <1>1, <3>2
  <2> QED
    BY <2>1
<1>3. ASSUME NEW n \in Nat, n \in N PROVE n + 1 \in N
  <2>1. ASSUME NEW s \in Seq(TextChars), Len(s) <= n + 1 PROVE Sheetable(s, dot)
    <3>1. CASE s \in Seq(Letters)
      BY <1>1, <3>1
    <3>2. CASE BeginsWithLine(s)
      <4>1. PICK x \in Seq(Letters), w \in Seq(TextChars) : After(s, x \o <<NL>>, w) /\ Len(w) < Len(s)
        BY <3>2 DEF BeginsWithLine
      <4>2. Len(w) <= n
        BY <2>1, <4>1
      <4>3. Sheetable(w, dot)
        BY <1>3, <4>2
      <4>4. PICK lw : Sheeted(w, dot, lw)
        BY <4>3 DEF Sheetable
      <4>5. Sheeted(s, dot, <<DoubledLine(x, dot)>> \o lw)
        BY <4>1, <4>4, SheetFirst
      <4> QED
        BY <4>5 DEF Sheetable
    <3> QED
      BY <3>1, <3>2, OneLineOrMore
  <2> QED
    BY <2>1
<1>4. Nat \subseteq N
  <2> HIDE DEF N
  <2> QED
    BY <1>2, <1>3, AllNumbers
<1>5. Len(v) \in N
  BY <1>4
<1> QED
  BY <1>5

(* The lines of an answer.                                                 *)
Given(r) == r.text \o (IF r.info THEN <<NL>> ELSE <<>>)

Written(r) == CHOOSE ls : Sheeted(Given(r), ~r.info, ls)

TextEnd == << <<Dot>>, <<Ok>> >>
Sheet(r) == (<< <<Follows>> >> \o Written(r)) \o TextEnd

LEMMA GivenType ==
    ASSUME NEW r \in Requests
    PROVE  /\ Given(r) \in Seq(TextChars) /\ Body(r) = LinesOf(Given(r))
           /\ Sheeted(Given(r), ~r.info, Written(r))
           /\ ~r.info => Given(r) = r.text
<1>1. r.text \in Seq(TextChars) /\ r.info \in BOOLEAN
  BY RequestType DEF TextChars
<1> DEFINE e == IF r.info THEN <<NL>> ELSE <<>>
<1>2. e \in Seq(TextChars)
  BY LetterChars
<1>3. Given(r) = r.text \o e
  BY DEF Given
<1>4. Body(r) = LinesOf(Given(r))
  BY DEF Body, Given
<1>5. ~r.info => Given(r) = r.text
  <2>1. ~r.info => e = <<>>
    OBVIOUS
  <2> QED
    BY <1>1, <1>3, <2>1, ConcatEmptySeq
<1> HIDE DEF e
<1>6. Given(r) \in Seq(TextChars)
  BY <1>1, <1>2, <1>3, ConcatProperties
<1>7. Sheetable(Given(r), ~r.info)
  <2>1. (~r.info) \in BOOLEAN
    BY <1>1
  <2> QED
    BY <1>6, <2>1, TextLines
<1>8. Sheeted(Given(r), ~r.info, Written(r))
  BY <1>7, Zenon DEF Sheetable, Written
<1> QED
  BY <1>4, <1>5, <1>6, <1>8

LEMMA SheetType ==
    ASSUME NEW r \in Requests
    PROVE  /\ Written(r) \in Seq(Seq(Letters)) /\ Written(r) \in Seq(Seq(Plain))
           /\ TextEnd \in Seq(Seq(Plain)) /\ <<Follows>> \in Seq(Plain) /\ << <<Follows>> >> \in Seq(Seq(Plain))
           /\ <<Dot>> \in Seq(Letters) /\ <<Dot>> \in Seq(Plain) /\ <<Ok>> \in Seq(Plain)
           /\ Sheet(r) \in Seq(Seq(Plain))
<1>1. Written(r) \in Seq(Seq(Letters))
  BY GivenType DEF Sheeted
<1>2. Written(r) \in Seq(Seq(Plain))
  <2>1. Seq(Letters) \subseteq Seq(Plain)
    BY LetterChars, SeqMonotonic
  <2> QED
    BY <1>1, <2>1, SeqMonotonic
<1>3. Dot \in Letters /\ Dot \in Plain /\ Ok \in Plain /\ Follows \in Plain
  BY CharsApart, PlainChars DEF Letters
<1>4. /\ TextEnd \in Seq(Seq(Plain)) /\ <<Follows>> \in Seq(Plain) /\ << <<Follows>> >> \in Seq(Seq(Plain))
      /\ <<Dot>> \in Seq(Letters) /\ <<Dot>> \in Seq(Plain) /\ <<Ok>> \in Seq(Plain)
  BY <1>3 DEF TextEnd
<1> DEFINE a == << <<Follows>> >>
           b == Written(r)
<1> HIDE DEF a, b
<1>5. (a \o b) \o TextEnd \in Seq(Seq(Plain))
  BY <1>2, <1>4, Associate DEF a, b, Associated
<1> QED
  BY <1>1, <1>2, <1>4, <1>5 DEF Sheet, a, b

LEMMA FlattenTwo ==
    ASSUME NEW S, NEW a \in Seq(S), NEW b \in Seq(S)
    PROVE  FlattenSeq(<<a, b>>) = a \o b /\ <<a, b>> \in Seq(Seq(S))
<1> DEFINE uu == <<a, b>>
           ss == <<a>>
           tt == <<b>>
<1>1. /\ uu \in Seq(Seq(S)) /\ Len(uu) = 2 /\ uu[1] = a /\ uu[2] = b
      /\ ss \in Seq(Seq(S)) /\ Len(ss) = 1 /\ ss[1] = a /\ FlattenSeq(ss) = a
      /\ tt \in Seq(Seq(S)) /\ Len(tt) = 1 /\ tt[1] = b /\ FlattenSeq(tt) = b
  <2>1. FlattenSeq(ss) = a /\ FlattenSeq(tt) = b
    BY FlattenOne
  <2> QED
    BY <2>1
<1> HIDE DEF uu, ss, tt
<1>2. /\ Len(uu) = Len(ss) + Len(tt)
      /\ \A k \in 1 .. Len(ss) : uu[k] = ss[k]
      /\ \A k \in 1 .. Len(tt) : uu[Len(ss) + k] = tt[k]
  <2>1. \A k \in 1 .. 1 : k = 1
    OBVIOUS
  <2> QED
    BY <1>1, <2>1
<1>3. FlattenSeq(uu) = FlattenSeq(ss) \o FlattenSeq(tt)
  BY <1>1, <1>2, FlattenJoin
<1> QED
  BY <1>1, <1>3 DEF uu

LEMMA StatusLine ==
    ASSUME NEW c \in Plain
    PROVE  Crlf(<<c, NL>>, FALSE) = <<c>> \o End
<1> DEFINE s == <<c, NL>>
<1>1. c \in Chars /\ c # NL /\ NL \in Chars
  BY DEF Plain, Chars
<1>2. s \in Seq(Chars) /\ Len(s) = 2 /\ s[1] = c /\ s[2] = NL
  BY <1>1
<1> HIDE DEF s
<1>3. Spread(s, FALSE) = << <<c>>, End >>
  <2>1. /\ Spread(s, FALSE) \in Seq(Seq(Chars)) /\ Len(Spread(s, FALSE)) = Len(s)
        /\ \A k \in 1 .. Len(s) : Spread(s, FALSE)[k] = IF s[k] = NL THEN End ELSE <<s[k]>>
    BY <1>2, SpreadType
  <2>2. 1 \in 1 .. Len(s) /\ 2 \in 1 .. Len(s)
    BY <1>2
  <2>3. Spread(s, FALSE)[1] = <<c>> /\ Spread(s, FALSE)[2] = End
    BY <1>1, <1>2, <2>1, <2>2
  <2> DEFINE a == <<c>>
             b == << a, End >>
             d == Spread(s, FALSE)
  <2>4. a \in Seq(Chars) /\ End \in Seq(Chars)
    BY <1>1, EndType
  <2>5. d[1] = a /\ d[2] = End
    BY <2>3
  <2> HIDE DEF a
  <2>6. b \in Seq(Seq(Chars)) /\ Len(b) = 2 /\ b[1] = a /\ b[2] = End
    BY <2>4
  <2>7. d \in Seq(Seq(Chars)) /\ Len(d) = 2
    BY <1>2, <2>1
  <2> HIDE DEF b, d
  <2>8. Len(d) = Len(b) /\ \A k \in 1 .. Len(d) : d[k] = b[k]
    <3>1. \A k \in 1 .. 2 : k = 1 \/ k = 2
      OBVIOUS
    <3> QED
      BY <2>5, <2>6, <2>7, <3>1
  <2>9. d = b
    BY <2>6, <2>7, <2>8, SeqEqual
  <2> QED
    BY <2>9 DEF a, b, d
<1>4. <<c>> \in Seq(Chars) /\ << <<c>> >> \in Seq(Seq(Chars)) /\ End \in Seq(Chars)
  BY <1>1, EndType
<1>5. FlattenSeq(<< <<c>>, End >>) = <<c>> \o End
  BY <1>4, FlattenTwo
<1>6. Lined(s, FALSE) = <<c>> \o End
  BY <1>2, <1>3, <1>5, SpreadType, ZenonT(40)
<1>7. Crlf(s, FALSE) = Lined(s, FALSE) \o <<>>
  BY DEF Crlf
<1>8. <<c>> \o End \in Seq(Chars)
  BY <1>4, ConcatProperties
<1> DEFINE u == <<c>> \o End
<1> HIDE DEF u
<1>9. u \o <<>> = u
  BY <1>8, ConcatEmptySeq DEF u
<1>10. Crlf(s, FALSE) = u
  BY <1>6, <1>7, <1>9 DEF u
<1> QED
  BY <1>10 DEF u, s

(* The entry of SHOW INFO and the empty line after it.                     *)
LEMMA LinedAppend ==
    ASSUME NEW s \in Seq(TextChars)
    PROVE  /\ Lined(s \o <<NL>>, FALSE) = Lined(s, FALSE) \o End
           /\ LastBreak(s \o <<NL>>) = <<>>
<1> DEFINE e == <<NL>>
           v == s \o e
           l == Len(s)
<1>1. e \in Seq(TextChars) /\ Len(e) = 1 /\ e[1] = NL
  BY LetterChars
<1> HIDE DEF e
<1>2. v \in Seq(TextChars) /\ Len(v) = l + 1 /\ l \in Nat /\ v[l + 1] = NL /\ \A k \in 1 .. l : v[k] = s[k]
  <2>1. v \in Seq(TextChars) /\ Len(v) = l + Len(e)
        /\ \A k \in 1 .. l + Len(e) : v[k] = IF k <= l THEN s[k] ELSE e[k - l]
    BY <1>1, ConcatProperties
  <2>2. l \in Nat
    OBVIOUS
  <2> HIDE DEF v, l
  <2>3. l + 1 \in 1 .. l + Len(e) /\ ~(l + 1 <= l) /\ (l + 1) - l = 1
    BY <1>1, <2>2
  <2>4. v[l + 1] = e[1]
    BY <2>1, <2>3
  <2> QED
    BY <1>1, <2>1, <2>2, <2>4
<1> HIDE DEF v
<1>3. v \in Seq(Chars) /\ s \in Seq(Chars) /\ End \in Seq(Chars)
  BY <1>2, LetterChars, SeqMonotonic, EndType
<1> DEFINE ss == Spread(s, FALSE)
           vv == Spread(v, FALSE)
           uu == Append(ss, End)
<1>4. /\ ss \in Seq(Seq(Chars)) /\ Len(ss) = l
      /\ \A k \in 1 .. l : ss[k] = IF s[k] = NL THEN End ELSE <<s[k]>>
      /\ Lined(s, FALSE) = FlattenSeq(ss)
  BY <1>3, SpreadType
<1>5. /\ vv \in Seq(Seq(Chars)) /\ Len(vv) = l + 1
      /\ \A k \in 1 .. l + 1 : vv[k] = IF v[k] = NL THEN End ELSE <<v[k]>>
      /\ Lined(v, FALSE) = FlattenSeq(vv)
  <2>1. /\ vv \in Seq(Seq(Chars)) /\ Len(vv) = Len(v)
        /\ \A k \in 1 .. Len(v) : vv[k] = IF v[k] = NL THEN End ELSE <<v[k]>>
        /\ Lined(v, FALSE) = FlattenSeq(vv)
    BY <1>3, SpreadType
  <2> HIDE DEF vv, l
  <2> QED
    BY <1>2, <2>1
<1> HIDE DEF ss, vv
<1>6. uu \in Seq(Seq(Chars)) /\ Len(uu) = l + 1 /\ uu[l + 1] = End /\ \A k \in 1 .. l : uu[k] = ss[k]
  BY <1>3, <1>4
<1>7. FlattenSeq(uu) = FlattenSeq(ss) \o End
  BY <1>3, <1>4, FlattenAppend
<1> HIDE DEF uu, l
<1>8. ASSUME NEW k \in 1 .. l + 1 PROVE vv[k] = uu[k]
  <2>1. CASE k = l + 1
    BY <1>2, <1>5, <1>6, <2>1
  <2>2. CASE k # l + 1
    <3>1. k \in 1 .. l
      BY <1>2, <2>2
    <3> QED
      BY <1>2, <1>4, <1>5, <1>6, <3>1, SMTT(30)
  <2> QED
    BY <2>1, <2>2
<1>9. vv = uu
  <2>1. Len(vv) = Len(uu) /\ \A k \in 1 .. Len(vv) : vv[k] = uu[k]
    BY <1>5, <1>6, <1>8
  <2> QED
    BY <1>5, <1>6, <2>1, SeqEqual
<1>10. LastBreak(v) = <<>>
  BY <1>2 DEF LastBreak, Last
<1> QED
  BY <1>4, <1>5, <1>7, <1>9, <1>10 DEF v, e

LEMMA EmptyLineAndDot == Crlf(<<NL>>, TRUE) = End \o DotLine
<1> DEFINE e == <<NL>>
           a == Spread(e, TRUE)
           b == <<End>>
<1>1. e \in Seq(Chars) /\ Len(e) = 1 /\ e[1] = NL /\ e # <<>> /\ Last(e) = NL
  BY DEF Last, Chars
<1> HIDE DEF e
<1>2. b \in Seq(Seq(Chars)) /\ Len(b) = 1 /\ b[1] = End /\ FlattenSeq(b) = End
  BY EndType, FlattenOne
<1>3. a \in Seq(Seq(Chars)) /\ Len(a) = 1 /\ a[1] = End /\ Lined(e, TRUE) = FlattenSeq(a)
  <2>1. /\ a \in Seq(Seq(Chars)) /\ Len(a) = Len(e)
        /\ \A k \in 1 .. Len(e) : a[k] = IF e[k] = NL THEN End
                                         ELSE IF TRUE /\ Doubled(e, k) THEN <<Dot, Dot>> ELSE <<e[k]>>
        /\ Lined(e, TRUE) = FlattenSeq(a)
    BY <1>1, SpreadType
  <2>2. 1 \in 1 .. Len(e)
    BY <1>1
  <2> HIDE DEF a
  <2> QED
    BY <1>1, <2>1, <2>2
<1> HIDE DEF a, b
<1>4. a = b
  <2>1. \A k \in 1 .. 1 : k = 1
    OBVIOUS
  <2>2. Len(a) = Len(b) /\ \A k \in 1 .. Len(a) : a[k] = b[k]
    BY <1>2, <1>3, <2>1
  <2> QED
    BY <1>2, <1>3, <2>2, SeqEqual
<1>5. Lined(e, TRUE) = End
  BY <1>2, <1>3, <1>4
<1>6. LastBreak(e) = <<>>
  BY <1>1 DEF LastBreak
<1>7. <<>> \o DotLine = DotLine
  <2>1. DotLine \in Seq(Chars)
    BY DEF DotLine, Chars
  <2> QED
    BY <2>1, ConcatEmptySeq
<1>8. Crlf(e, TRUE) = End \o DotLine
  BY <1>5, <1>6, <1>7 DEF Crlf, DotLine
<1> QED
  BY <1>8 DEF e

LEMMA TextAndDot ==
    ASSUME NEW r \in Requests
    PROVE  /\ r.info => Crlf(r.text, FALSE) \o Crlf(<<NL>>, TRUE) = Wire(Written(r)) \o DotLine
           /\ ~r.info => Crlf(r.text, TRUE) = Wire(Written(r)) \o DotLine
<1> DEFINE v == r.text
           w == Wire(Written(r))
<1>1. v \in Seq(TextChars) /\ v \in Seq(Chars) /\ r.info \in BOOLEAN
  BY RequestType DEF TextChars
<1>2. Lined(Given(r), ~r.info) \o LastBreak(Given(r)) = w
  BY GivenType DEF Sheeted
<1>3. DotLine \in Seq(Chars) /\ End \in Seq(Chars)
  BY EndType DEF DotLine, Chars
<1> HIDE DEF v, w
<1>4. CASE r.info
  <2>1. Given(r) = v \o <<NL>>
    BY <1>4 DEF Given, v
  <2>2. (~r.info) = FALSE
    BY <1>4
  <2> DEFINE a == Lined(v, FALSE)
  <2>3. a \in Seq(Chars)
    BY <1>1, LinedType
  <2>4. Lined(Given(r), ~r.info) = a \o End /\ LastBreak(Given(r)) = <<>>
    BY <1>1, <2>1, <2>2, LinedAppend
  <2>5. Crlf(v, FALSE) = a \o <<>>
    BY DEF Crlf
  <2> HIDE DEF a
  <2>6. a \o End \in Seq(Chars) /\ a \o <<>> = a
    BY <1>3, <2>3, ConcatProperties, ConcatEmptySeq
  <2> DEFINE u == a \o End
  <2> HIDE DEF u
  <2>7. u \o <<>> = u
    BY <2>6, ConcatEmptySeq DEF u
  <2>8. u = w
    BY <1>2, <2>4, <2>7 DEF u
  <2>9. (a \o End) \o DotLine = a \o (End \o DotLine)
    BY <1>3, <2>3, Associate, SMTT(30) DEF Associated
  <2>10. Crlf(v, FALSE) \o Crlf(<<NL>>, TRUE) = w \o DotLine
    BY <2>5, <2>6, <2>8, <2>9, EmptyLineAndDot DEF u
  <2> QED
    BY <1>4, <2>10 DEF v, w
<1>5. CASE ~r.info
  <2>1. Given(r) = v
    BY <1>5, GivenType DEF v
  <2>2. (~r.info) = TRUE
    BY <1>5
  <2> DEFINE a == Lined(v, TRUE)
             b == LastBreak(v)
  <2>3. a \in Seq(Chars) /\ b \in Seq(Chars)
    BY <1>1, LinedType, LastBreakType
  <2>4. a \o b = w
    BY <1>2, <2>1, <2>2
  <2>5. Crlf(v, TRUE) = a \o (b \o DotLine)
    BY DEF Crlf, DotLine
  <2> HIDE DEF a, b
  <2>6. (a \o b) \o DotLine = a \o (b \o DotLine)
    BY <1>3, <2>3, Associate DEF Associated
  <2>7. Crlf(v, TRUE) = w \o DotLine
    BY <2>4, <2>5, <2>6
  <2> QED
    BY <1>5, <2>7 DEF v, w
<1> QED
  BY <1>1, <1>4, <1>5

LEMMA AnswerWire ==
    ASSUME NEW r \in Requests
    PROVE  FlattenSeq(AnswerTo(r)) = Wire(Sheet(r))
<1> DEFINE a == Crlf(<<Follows, NL>>, FALSE)
           b == Crlf(<<Ok, NL>>, FALSE)
           c == Crlf(r.text, FALSE)
           d == Crlf(<<NL>>, TRUE)
           e == Crlf(r.text, TRUE)
           w == Wire(Written(r))
           f == << <<Follows>> >>
<1>1. <<Follows, NL>> \in Seq(Chars) /\ <<Ok, NL>> \in Seq(Chars) /\ <<NL>> \in Seq(Chars)
  BY DEF Chars
<1>2. a \in Seq(Chars) /\ b \in Seq(Chars) /\ d \in Seq(Chars) /\ c \in Seq(Chars) /\ e \in Seq(Chars)
  BY <1>1, RequestType, CrlfType
<1>3. AnswerTo(r) = (<<a>> \o (IF r.info THEN <<c, d>> ELSE <<e>>)) \o <<b>>
  BY DEF AnswerTo
<1>4. r.info \in BOOLEAN /\ (r.info => c \o d = w \o DotLine) /\ (~r.info => e = w \o DotLine)
  BY TextAndDot, RequestType
<1>5. Follows \in Plain /\ Ok \in Plain
  BY PlainChars
<1>6. a = <<Follows>> \o End /\ b = <<Ok>> \o End
  BY <1>5, StatusLine
<1>7. a = Wire(f) /\ b = Wire(<< <<Ok>> >>)
  BY <1>6, WireOne, SheetType
<1>8. w \in Seq(Chars) /\ DotLine \in Seq(Chars)
  BY SheetType, WireType DEF DotLine, Chars
<1>9. Wire(TextEnd) = DotLine \o b
  <2> DEFINE x == <<Dot>>
             y == << <<Ok>> >>
  <2>1. x \in Seq(Plain) /\ y \in Seq(Seq(Plain))
    BY SheetType
  <2>2. TextEnd = <<x>> \o y
    BY DEF TextEnd
  <2>3. x \o End = DotLine
    <3> DEFINE q == x \o End
               h == DotLine
    <3>1. x \in Seq(Chars) /\ Len(x) = 1 /\ x[1] = Dot /\ End \in Seq(Chars)
      BY EndType DEF Chars
    <3>2. h \in Seq(Chars) /\ Len(h) = 3 /\ h[1] = Dot /\ h[2] = CR /\ h[3] = NL
      BY DEF DotLine, Chars
    <3> HIDE DEF x, h
    <3>3. q \in Seq(Chars) /\ Len(q) = Len(x) + Len(End)
          /\ \A k \in 1 .. Len(x) + Len(End) : q[k] = IF k <= Len(x) THEN x[k] ELSE End[k - Len(x)]
      BY <3>1, ConcatProperties
    <3> HIDE DEF q
    <3>4. q \in Seq(Chars) /\ Len(q) = 3 /\ q[1] = Dot /\ q[2] = CR /\ q[3] = NL
      BY <3>1, <3>3, EndType
    <3>5. Len(q) = Len(h) /\ \A k \in 1 .. Len(q) : q[k] = h[k]
      <4>1. \A k \in 1 .. 3 : k = 1 \/ k = 2 \/ k = 3
        OBVIOUS
      <4> QED
        BY <3>2, <3>4, <4>1
    <3>6. q = h
      BY <3>2, <3>4, <3>5, SeqEqual
    <3> QED
      BY <3>6 DEF q, h
  <2> HIDE DEF x
  <2>4. Wire(<<x>> \o y) = (x \o End) \o Wire(y)
    <3> HIDE DEF y
    <3> QED
      BY <2>1, WireFirst
  <2> QED
    BY <1>7, <2>2, <2>3, <2>4
<1>10. Wire(Sheet(r)) = (a \o w) \o (DotLine \o b)
  <2> DEFINE g == Written(r)
             h == f \o g
  <2>1. f \in Seq(Seq(Plain)) /\ g \in Seq(Seq(Plain)) /\ TextEnd \in Seq(Seq(Plain))
    BY SheetType
  <2> HIDE DEF f, g
  <2>2. h \in Seq(Seq(Plain)) /\ Wire(h) = Wire(f) \o Wire(g)
    BY <2>1, ConcatProperties, WireConcat
  <2> HIDE DEF h
  <2>3. Wire(h \o TextEnd) = Wire(h) \o Wire(TextEnd)
    BY <2>1, <2>2, WireConcat
  <2>4. Sheet(r) = h \o TextEnd
    BY DEF Sheet, h, f, g
  <2> QED
    BY <1>7, <1>9, <2>2, <2>3, <2>4 DEF g
<1> DEFINE M == IF r.info THEN <<c, d>> ELSE <<e>>
<1> HIDE DEF a, b, c, d, e, w
<1>11. M \in Seq(Seq(Chars)) /\ FlattenSeq(M) = w \o DotLine
  <2>1. CASE r.info
    <3>1. M = <<c, d>>
      BY <2>1
    <3>2. <<c, d>> \in Seq(Seq(Chars)) /\ FlattenSeq(<<c, d>>) = c \o d
      BY <1>2, FlattenTwo
    <3> HIDE DEF M
    <3> QED
      BY <1>4, <2>1, <3>1, <3>2
  <2>2. CASE ~r.info
    <3>1. M = <<e>>
      BY <2>2
    <3>2. <<e>> \in Seq(Seq(Chars)) /\ FlattenSeq(<<e>>) = e
      BY <1>2, FlattenOne
    <3> HIDE DEF M
    <3> QED
      BY <1>4, <2>2, <3>1, <3>2
  <2> QED
    BY <1>4, <2>1, <2>2
<1>12. AnswerTo(r) = (<<a>> \o M) \o <<b>>
  BY <1>3
<1> HIDE DEF M
<1>13. FlattenSeq((<<a>> \o M) \o <<b>>) = (a \o (w \o DotLine)) \o b
  <2> DEFINE aa == <<a>>
             bb == <<b>>
             x == aa \o M
  <2>1. aa \in Seq(Seq(Chars)) /\ bb \in Seq(Seq(Chars)) /\ FlattenSeq(aa) = a /\ FlattenSeq(bb) = b
    BY <1>2, FlattenOne
  <2> HIDE DEF aa, bb
  <2>2. x \in Seq(Seq(Chars)) /\ FlattenSeq(x) = FlattenSeq(aa) \o FlattenSeq(M)
    BY <1>11, <2>1, ConcatProperties, FlattenConcat
  <2> HIDE DEF x
  <2>3. FlattenSeq(x \o bb) = FlattenSeq(x) \o FlattenSeq(bb)
    BY <2>1, <2>2, FlattenConcat
  <2> QED
    BY <1>11, <2>1, <2>2, <2>3 DEF x, aa, bb
<1>14. (a \o (w \o DotLine)) \o b = (a \o w) \o (DotLine \o b)
  <2> DEFINE x == a \o w
  <2>1. Associated(Chars, a, w, DotLine)
    BY <1>2, <1>8, Associate
  <2>2. x \in Seq(Chars)
    BY <1>2, <1>8, ConcatProperties
  <2> HIDE DEF x
  <2>3. Associated(Chars, x, DotLine, b)
    BY <1>2, <1>8, <2>2, Associate
  <2>4. (x \o DotLine) \o b = x \o (DotLine \o b)
    BY <2>3 DEF Associated
  <2>5. x \o DotLine = a \o (w \o DotLine)
    BY <2>1 DEF Associated, x
  <2> QED
    BY <2>4, <2>5 DEF x
<1> QED
  BY <1>10, <1>12, <1>13, <1>14
-----------------------------------------------------------------------------
(* What the daemon has written, or will write, for the requests after the  *)
(* first n of a, up to the h-th.                                           *)
DuePieces(a, n, h) == [i \in 1 .. h - n |-> Sheet(a[n + i])]
Due(a, n, h) == FlattenSeq(DuePieces(a, n, h))

LEMMA DueType ==
    ASSUME NEW a \in Seq(Requests), NEW h \in 0 .. Len(a), NEW n \in 0 .. h
    PROVE  /\ DuePieces(a, n, h) \in Seq(Seq(Seq(Plain))) /\ Len(DuePieces(a, n, h)) = h - n
           /\ \A i \in 1 .. h - n : DuePieces(a, n, h)[i] = Sheet(a[n + i])
           /\ Due(a, n, h) \in Seq(Seq(Plain))
<1> DEFINE uu == DuePieces(a, n, h)
           k == h - n
<1>1. k \in Nat /\ h \in Nat /\ n \in Nat /\ \A i \in 1 .. k : a[n + i] \in Requests
  OBVIOUS
<1>2. \A i \in 1 .. k : Sheet(a[n + i]) \in Seq(Seq(Plain))
  BY <1>1, SheetType
<1>3. uu = [i \in 1 .. k |-> Sheet(a[n + i])]
  BY DEF DuePieces
<1> HIDE DEF uu, k
<1>4. uu \in Seq(Seq(Seq(Plain))) /\ Len(uu) = k /\ \A i \in 1 .. k : uu[i] = Sheet(a[n + i])
  BY <1>1, <1>2, <1>3
<1>5. FlattenSeq(uu) \in Seq(Seq(Plain))
  BY <1>4, FlattenType
<1> QED
  BY <1>4, <1>5 DEF uu, k, Due

LEMMA DueNone ==
    ASSUME NEW a, NEW n \in Nat
    PROVE  Due(a, n, n) = <<>>
<1>1. DuePieces(a, n, n) = <<>>
  BY DEF DuePieces
<1> QED
  BY <1>1, FlattenNone DEF Due

LEMMA DueFirst ==
    ASSUME NEW a \in Seq(Requests), NEW h \in 0 .. Len(a), NEW n \in Nat, n < h
    PROVE  /\ a[n + 1] \in Requests /\ n \in 0 .. h /\ n + 1 \in 0 .. h
           /\ Due(a, n, h) = Sheet(a[n + 1]) \o Due(a, n + 1, h)
<1> DEFINE m == n + 1
           c == Sheet(a[m])
           uu == DuePieces(a, n, h)
           ss == <<c>>
           tt == DuePieces(a, m, h)
<1>1. h \in Nat /\ m \in Nat /\ m \in 0 .. h /\ n \in 0 .. h /\ a[m] \in Requests /\ m = n + 1
  OBVIOUS
<1>2. c \in Seq(Seq(Plain))
  BY <1>1, SheetType
<1> HIDE DEF m, c
<1>3. ss \in Seq(Seq(Seq(Plain))) /\ Len(ss) = 1 /\ ss[1] = c /\ FlattenSeq(ss) = c
  BY <1>2, FlattenOne
<1>4. /\ uu \in Seq(Seq(Seq(Plain))) /\ Len(uu) = h - n
      /\ \A i \in 1 .. h - n : uu[i] = Sheet(a[n + i])
  BY <1>1, DueType
<1>5. /\ tt \in Seq(Seq(Seq(Plain))) /\ Len(tt) = h - m
      /\ \A i \in 1 .. h - m : tt[i] = Sheet(a[m + i])
  BY <1>1, DueType
<1> HIDE DEF uu, ss, tt
<1>6. uu[1] = c
  <2>1. 1 \in 1 .. h - n /\ n + 1 = m
    BY <1>1
  <2> QED
    BY <1>4, <2>1 DEF c
<1>7. ASSUME NEW i \in 1 .. h - m PROVE uu[1 + i] = tt[i]
  <2>1. 1 + i \in 1 .. h - n /\ n + (1 + i) = m + i
    BY <1>1
  <2> QED
    BY <1>4, <1>5, <2>1
<1>8. /\ Len(uu) = Len(ss) + Len(tt)
      /\ \A i \in 1 .. Len(ss) : uu[i] = ss[i]
      /\ \A i \in 1 .. Len(tt) : uu[Len(ss) + i] = tt[i]
  <2>1. \A i \in 1 .. 1 : i = 1
    OBVIOUS
  <2> QED
    BY <1>1, <1>3, <1>4, <1>5, <1>6, <1>7, <2>1
<1>9. FlattenSeq(uu) = FlattenSeq(ss) \o FlattenSeq(tt)
  BY <1>3, <1>4, <1>5, <1>8, FlattenJoin
<1> QED
  BY <1>1, <1>3, <1>9 DEF Due, uu, tt, c, m

LEMMA DueLast ==
    ASSUME NEW a \in Seq(Requests), NEW h \in Nat, h < Len(a), NEW n \in 0 .. h
    PROVE  /\ h + 1 \in 0 .. Len(a) /\ a[h + 1] \in Requests
           /\ Due(a, n, h + 1) = Due(a, n, h) \o Sheet(a[h + 1])
<1> DEFINE m == h + 1
           c == Sheet(a[m])
           uu == DuePieces(a, n, m)
           ss == DuePieces(a, n, h)
           tt == <<c>>
<1>1. h \in 0 .. Len(a) /\ n \in Nat /\ m \in 0 .. Len(a) /\ n \in 0 .. m /\ a[m] \in Requests
      /\ m = h + 1 /\ n <= h
  OBVIOUS
<1>2. c \in Seq(Seq(Plain))
  BY <1>1, SheetType
<1> HIDE DEF m, c
<1>3. tt \in Seq(Seq(Seq(Plain))) /\ Len(tt) = 1 /\ tt[1] = c /\ FlattenSeq(tt) = c
  BY <1>2, FlattenOne
<1>4. /\ uu \in Seq(Seq(Seq(Plain))) /\ Len(uu) = m - n
      /\ \A i \in 1 .. m - n : uu[i] = Sheet(a[n + i])
  BY <1>1, DueType
<1>5. /\ ss \in Seq(Seq(Seq(Plain))) /\ Len(ss) = h - n
      /\ \A i \in 1 .. h - n : ss[i] = Sheet(a[n + i])
  BY <1>1, DueType
<1> HIDE DEF uu, ss, tt
<1>6. uu[(h - n) + 1] = c
  <2>1. (h - n) + 1 \in 1 .. m - n /\ n + ((h - n) + 1) = m
    BY <1>1
  <2> QED
    BY <1>4, <2>1 DEF c
<1>7. ASSUME NEW i \in 1 .. h - n PROVE uu[i] = ss[i]
  <2>1. i \in 1 .. m - n
    BY <1>1
  <2> QED
    BY <1>4, <1>5, <2>1
<1>8. /\ Len(uu) = Len(ss) + Len(tt)
      /\ \A i \in 1 .. Len(ss) : uu[i] = ss[i]
      /\ \A i \in 1 .. Len(tt) : uu[Len(ss) + i] = tt[i]
  <2>1. \A i \in 1 .. 1 : i = 1
    OBVIOUS
  <2> QED
    BY <1>1, <1>3, <1>4, <1>5, <1>6, <1>7, <2>1
<1>9. FlattenSeq(uu) = FlattenSeq(ss) \o FlattenSeq(tt)
  BY <1>3, <1>4, <1>5, <1>8, FlattenJoin
<1> QED
  BY <1>1, <1>3, <1>9 DEF Due, uu, ss, c, m

LEMMA DueAsked ==
    ASSUME NEW a \in Seq(Requests), NEW h \in 0 .. Len(a), NEW n \in 0 .. h, NEW r
    PROVE  Due(Append(a, r), n, h) = Due(a, n, h)
<1>1. ASSUME NEW i \in 1 .. h - n PROVE Append(a, r)[n + i] = a[n + i]
  OBVIOUS
<1>2. DuePieces(Append(a, r), n, h) = DuePieces(a, n, h)
  BY <1>1 DEF DuePieces
<1> QED
  BY <1>2 DEF Due
-----------------------------------------------------------------------------
(* Where the client is in what comes to it, the lines due.                 *)
(*                                                                         *)
(* The lines rem are left of the text of r, after those that it has.       *)
Remains(rem, r) ==
    /\ rem \in Seq(Seq(Letters))
    /\ Fits(r) =>
        \E j \in 0 .. Len(Body(r)) :
            /\ Len(rem) = Len(Body(r)) - j
            /\ \A i \in 1 .. Len(rem) : rem[i] = Written(r)[j + i]
            /\ Dotless(r) => Len(lines) = j /\ \A i \in 1 .. j : lines[i] = Body(r)[i]

AtStatus(due) ==
    dict = "status" /\ due = Due(asked, Len(received), Len(heard))

AtText(due) ==
    /\ dict = "text" /\ Len(received) < Len(heard)
    /\ \E rem : /\ Remains(rem, asked[Len(received) + 1])
                /\ due = rem \o (TextEnd \o Due(asked, Len(received) + 1, Len(heard)))

(* A line of the text may have been taken for its end.                     *)
TooEarly(due) ==
    \E l \in Seq(Letters), rest \in Seq(Seq(Plain)) : due = <<l>> \o rest

AtEnd(due) ==
    /\ dict = "final" /\ Len(received) < Len(heard)
    /\ \/ /\ due = << <<Ok>> >> \o Due(asked, Len(received) + 1, Len(heard))
          /\ Fits(asked[Len(received) + 1]) /\ Dotless(asked[Len(received) + 1])
                => lines = Body(asked[Len(received) + 1])
       \/ ~Parted(asked[Len(received) + 1]) /\ TooEarly(due)

Stage(due) == AtStatus(due) \/ AtText(due) \/ AtEnd(due)

OnWire(due) ==
    /\ due \in Seq(Seq(Plain))
    /\ \E z \in Seq(Chars) : down \o z = Wire(due) /\ (daemon = "gone" \/ z = FlattenSeq(out))

Full == left = IF out = <<>> THEN 0 ELSE Len(Head(out))

TextsRead ==
    /\ Len(received) <= Len(heard)
    /\ \A n \in 1 .. Len(received) :
        Fits(asked[n]) /\ Dotless(asked[n]) => received[n] = Body(asked[n])

Unparted == \E n \in 1 .. Len(asked) : ~Parted(asked[n])

Located ==
    \/ dict = "ended"
    \/ dict = "lost" /\ (daemon = "gone" \/ Unparted)
    \/ daemon = "gone" /\ down = <<>>
    \/ \E due : OnWire(due) /\ Stage(due)

DownInv == Full /\ TextsRead /\ Located

LEMMA DownTypes ==
    ASSUME ChannelTypes, UpInv, TextsRead
    PROVE  /\ asked \in Seq(Requests) /\ Len(asked) \in Nat /\ Len(heard) \in 0 .. Len(asked)
           /\ Len(received) \in 0 .. Len(heard) /\ received \in Seq(Seq(Seq(Chars)))
           /\ down \in Seq(Chars) /\ out \in Seq(Seq(Chars)) /\ lines \in Seq(Seq(Chars))
<1>1. received \in Seq(Seq(Seq(Chars))) /\ Len(received) \in Nat /\ Len(received) <= Len(heard)
  BY DEF ChannelTypes, TextsRead
<1>2. down \in Seq(Chars) /\ out \in Seq(Seq(Chars)) /\ lines \in Seq(Seq(Chars))
  BY DEF ChannelTypes
<1>3. asked \in Seq(Requests) /\ Len(asked) \in Nat /\ Len(heard) \in 0 .. Len(asked)
  BY HeardLength
<1> QED
  BY <1>1, <1>2, <1>3

LEMMA DownInvInit == ChannelInit => DownInv
<1> SUFFICES ASSUME ChannelInit PROVE DownInv
  OBVIOUS
<1>1. /\ asked = <<>> /\ dict = "status" /\ received = <<>> /\ heard = <<>> /\ down = <<>>
      /\ out = <<>> /\ left = 0
  BY DEF ChannelInit
<1>2. Full
  BY <1>1 DEF Full
<1>3. Len(received) = 0 /\ Len(heard) = 0
  BY <1>1
<1>4. TextsRead
  BY <1>3 DEF TextsRead
<1> DEFINE due == Due(asked, 0, 0)
<1>5. due = <<>>
  BY DueNone
<1>6. AtStatus(due)
  BY <1>1, <1>3 DEF AtStatus
<1>7. OnWire(due)
  <2> DEFINE z == <<>>
  <2>1. z \in Seq(Chars) /\ down \o z = <<>> /\ z = FlattenSeq(out)
    BY <1>1, FlattenNone, ConcatEmptySeq
  <2>2. due \in Seq(Seq(Plain)) /\ Wire(due) = <<>>
    <3>1. <<>> \in Seq(Seq(Plain))
      OBVIOUS
    <3> HIDE DEF due
    <3> QED
      BY <1>5, <3>1, WireNone, Zenon
  <2> HIDE DEF z
  <2> QED
    BY <2>1, <2>2 DEF OnWire
<1> QED
  BY <1>2, <1>4, <1>6, <1>7 DEF DownInv, Located, Stage

(* Steps that do not concern the answers: of the client, and of the daemon *)
(* at the end of file.                                                     *)
LEMMA TextsKept ==
    ASSUME ChannelTypes, UpInv, TextsRead, UNCHANGED received,
           heard' = heard \/ \E x : heard' = Append(heard, x),
           asked' = asked \/ \E r \in Requests : asked' = Append(asked, r)
    PROVE  TextsRead' /\ (Unparted => Unparted')
<1>1. /\ asked \in Seq(Requests) /\ Len(asked) \in Nat /\ Len(heard) \in 0 .. Len(asked)
      /\ Len(received) \in 0 .. Len(heard) /\ heard \in Seq(Seq({"a"}))
  BY DownTypes, HeardLength
<1>2. Len(asked) <= Len(asked') /\ Len(asked') \in Nat /\ \A n \in 1 .. Len(asked) : asked'[n] = asked[n]
  <2>1. CASE asked' = asked
    BY <1>1, <2>1
  <2>2. CASE \E r \in Requests : asked' = Append(asked, r)
    <3>1. PICK r \in Requests : asked' = Append(asked, r)
      BY <2>2
    <3> QED
      BY <1>1, <3>1
  <2> QED
    BY <2>1, <2>2
<1>3. Len(heard) <= Len(heard') /\ Len(heard') \in Nat
  <2>1. CASE heard' = heard
    BY <1>1, <2>1
  <2>2. CASE \E x : heard' = Append(heard, x)
    <3>1. PICK x : heard' = Append(heard, x)
      BY <2>2
    <3> QED
      BY <1>1, <3>1
  <2> QED
    BY <2>1, <2>2
<1>4. Len(received') <= Len(heard')
  BY <1>1, <1>3
<1>5. ASSUME NEW n \in 1 .. Len(received'), Fits(asked'[n]), Dotless(asked'[n])
      PROVE  received'[n] = Body(asked'[n])
  <2>1. n \in 1 .. Len(received) /\ n \in 1 .. Len(asked)
    BY <1>1, <1>5
  <2>2. asked'[n] = asked[n]
    BY <1>2, <2>1
  <2> QED
    BY <1>5, <2>1, <2>2 DEF TextsRead
<1>6. ASSUME Unparted PROVE Unparted'
  <2>1. PICK n \in 1 .. Len(asked) : ~Parted(asked[n])
    BY <1>6 DEF Unparted
  <2>2. n \in 1 .. Len(asked') /\ asked'[n] = asked[n]
    BY <1>2, <2>1
  <2> QED
    BY <2>1, <2>2 DEF Unparted
<1> QED
  BY <1>4, <1>5, <1>6 DEF TextsRead

LEMMA StageKept ==
    ASSUME ChannelTypes, UpInv, TextsRead, UNCHANGED <<dict, lines, received, heard>>,
           asked' = asked \/ \E r \in Requests : asked' = Append(asked, r),
           NEW due, Stage(due)
    PROVE  Stage(due)'
<1> DEFINE n == Len(received)
           h == Len(heard)
<1>1. asked \in Seq(Requests) /\ Len(asked) \in Nat /\ h \in 0 .. Len(asked) /\ n \in 0 .. h
  BY DownTypes
<1>2. ASSUME NEW k \in 0 .. h PROVE Due(asked', k, h) = Due(asked, k, h)
  <2>1. CASE asked' = asked
    BY <2>1
  <2>2. CASE \E r \in Requests : asked' = Append(asked, r)
    <3>1. PICK r \in Requests : asked' = Append(asked, r)
      BY <2>2
    <3> HIDE DEF h
    <3> QED
      BY <1>1, <3>1, DueAsked
  <2> QED
    BY <2>1, <2>2
<1>3. n < h => asked'[n + 1] = asked[n + 1] /\ n + 1 \in 0 .. h
  <2>1. CASE asked' = asked
    BY <1>1, <2>1
  <2>2. CASE \E r \in Requests : asked' = Append(asked, r)
    <3>1. PICK r \in Requests : asked' = Append(asked, r)
      BY <2>2
    <3> HIDE DEF n, h
    <3> QED
      BY <1>1, <3>1
  <2> QED
    BY <2>1, <2>2
<1>4. Len(received') = n /\ Len(heard') = h /\ dict' = dict /\ lines' = lines
  OBVIOUS
<1>5. CASE AtStatus(due)
  <2>1. dict = "status" /\ due = Due(asked, n, h)
    BY <1>5 DEF AtStatus
  <2>2. dict' = "status" /\ due = Due(asked', n, h)
    BY <1>1, <1>2, <1>4, <2>1
  <2>3. AtStatus(due)'
    BY <1>4, <2>2, Zenon DEF AtStatus
  <2> QED
    BY <2>3 DEF Stage
<1>6. CASE AtText(due)
  <2>1. PICK rem : /\ Remains(rem, asked[n + 1])
                   /\ due = rem \o (TextEnd \o Due(asked, n + 1, h))
    BY <1>6 DEF AtText
  <2>2. dict = "text" /\ n < h
    BY <1>6 DEF AtText
  <2>3. Remains(rem, asked[n + 1])'
    BY <1>3, <1>4, <2>1, <2>2 DEF Remains
  <2>4. due = rem \o (TextEnd \o Due(asked', n + 1, h))
    BY <1>2, <1>3, <2>1, <2>2
  <2> HIDE DEF n, h
  <2>5. Remains(rem, asked[Len(received) + 1])'
    BY <1>4, <2>3, Zenon DEF n
  <2>6. AtText(due)'
    BY <1>4, <2>2, <2>4, <2>5, Zenon DEF AtText
  <2> QED
    BY <2>6 DEF Stage
<1>7. CASE AtEnd(due)
  <2>1. dict = "final" /\ n < h
    BY <1>7 DEF AtEnd
  <2>2. asked'[n + 1] = asked[n + 1] /\ Due(asked', n + 1, h) = Due(asked, n + 1, h)
    BY <1>2, <1>3, <2>1
  <2>3. AtEnd(due)'
    BY <1>4, <1>7, <2>1, <2>2, Zenon DEF AtEnd, TooEarly
  <2> QED
    BY <2>3 DEF Stage
<1> QED
  BY <1>5, <1>6, <1>7 DEF Stage

LEMMA DownAlone ==
    ASSUME ChannelTypes, UpInv, DownInv, UNCHANGED <<lines, received, heard, out, left, down>>,
           dict' = dict \/ dict' = "ended", daemon' = daemon \/ daemon' = "gone",
           asked' = asked \/ \E r \in Requests : asked' = Append(asked, r)
    PROVE  DownInv'
<1>1. Full /\ TextsRead /\ Located
  BY DEF DownInv
<1>2. Full'
  BY <1>1 DEF Full
<1>3. TextsRead' /\ (Unparted => Unparted')
  BY <1>1, TextsKept
<1>4. Located'
  <2>1. CASE dict' = "ended"
    BY <2>1 DEF Located
  <2>2. CASE dict' = dict /\ dict = "lost" /\ (daemon = "gone" \/ Unparted)
    BY <1>3, <2>2 DEF Located
  <2>3. CASE daemon = "gone" /\ down = <<>>
    BY <2>3 DEF Located
  <2>4. CASE dict' = dict /\ \E due : OnWire(due) /\ Stage(due)
    <3>1. PICK due : OnWire(due) /\ Stage(due)
      BY <2>4
    <3>2. Stage(due)'
      BY <1>1, <2>4, <3>1, StageKept
    <3>3. OnWire(due)'
      BY <3>1 DEF OnWire
    <3> QED
      BY <3>2, <3>3 DEF Located
  <2>5. dict = "ended" /\ dict' = dict => dict' = "ended"
    OBVIOUS
  <2> QED
    BY <1>1, <2>1, <2>2, <2>3, <2>4, <2>5 DEF Located
<1> QED
  BY <1>2, <1>3, <1>4 DEF DownInv

(* The daemon begins an answer.                                            *)
LEMMA StageGrows ==
    ASSUME ChannelTypes, UpInv, TextsRead, UNCHANGED <<asked, dict, lines, received>>,
           Len(heard) < Len(asked), Len(heard') = Len(heard) + 1,
           NEW due \in Seq(Seq(Plain)), Stage(due), NEW r, r = asked[Len(heard) + 1]
    PROVE  Stage(due \o Sheet(r))'
<1> DEFINE n == Len(received)
           h == Len(heard)
           m == h + 1
           sheet == Sheet(r)
           new == due \o sheet
           d == Due(asked, n + 1, h)
           e == Due(asked, n + 1, m)
<1>1. asked \in Seq(Requests) /\ h \in Nat /\ h < Len(asked) /\ n \in 0 .. h /\ m = h + 1 /\ m \in Nat
  BY DownTypes
<1>2. /\ h + 1 \in 0 .. Len(asked) /\ r \in Requests
      /\ \A k \in 0 .. h : Due(asked, k, h + 1) = Due(asked, k, h) \o sheet
  <2>1. r = asked[h + 1]
    OBVIOUS
  <2> HIDE DEF h, n
  <2>2. ASSUME NEW k \in 0 .. h
        PROVE  /\ h + 1 \in 0 .. Len(asked) /\ r \in Requests
               /\ Due(asked, k, h + 1) = Due(asked, k, h) \o sheet
    BY <1>1, <2>2, <2>1, DueLast
  <2>3. 0 \in 0 .. h
    BY <1>1
  <2> QED
    BY <2>2, <2>3
<1>3. sheet \in Seq(Seq(Plain)) /\ TextEnd \in Seq(Seq(Plain))
  BY <1>2, SheetType
<1>4. Len(received') = n /\ Len(heard') = m /\ dict' = dict /\ lines' = lines /\ asked' = asked
  OBVIOUS
<1>5. ASSUME n < h
      PROVE  d \in Seq(Seq(Plain)) /\ e = d \o sheet /\ asked[n + 1] \in Requests
  <2> DEFINE k == n + 1
  <2>1. k \in 0 .. h /\ h \in 0 .. Len(asked) /\ asked[k] \in Requests
    BY <1>1, <1>5
  <2>2. e = d \o sheet
    BY <1>2, <2>1
  <2>3. d \in Seq(Seq(Plain))
    <3> HIDE DEF k, h, n
    <3>1. Due(asked, k, h) \in Seq(Seq(Plain))
      BY <1>1, <2>1, DueType
    <3> QED
      BY <3>1 DEF k
  <2> QED
    BY <2>1, <2>2, <2>3
<1>6. n < h => n < m
  BY <1>1
<1>7. CASE AtStatus(due)
  <2>1. dict = "status" /\ due = Due(asked, n, h)
    BY <1>7 DEF AtStatus
  <2>2. new = Due(asked, n, m)
    BY <1>1, <1>2, <2>1
  <2> HIDE DEF new
  <2>3. AtStatus(new)'
    BY <1>4, <2>1, <2>2, Zenon DEF AtStatus
  <2> QED
    BY <2>3 DEF Stage, new
<1> HIDE DEF sheet, d, e, m, h
<1>8. CASE AtText(due)
  <2>1. PICK rem : Remains(rem, asked[n + 1]) /\ due = rem \o (TextEnd \o d)
    BY <1>8 DEF AtText, h, d
  <2>2. dict = "text" /\ n < h
    BY <1>8 DEF AtText, h
  <2>3. d \in Seq(Seq(Plain)) /\ e = d \o sheet
    BY <1>5, <2>2
  <2>4. rem \in Seq(Seq(Plain))
    <3>1. Seq(Letters) \subseteq Seq(Plain)
      BY LetterChars, SeqMonotonic
    <3>2. rem \in Seq(Seq(Letters))
      BY <2>1 DEF Remains
    <3> QED
      BY <3>1, <3>2, SeqMonotonic
  <2>5. new = rem \o (TextEnd \o e)
    <3> DEFINE x == TextEnd \o d
    <3>1. x \in Seq(Seq(Plain))
      BY <1>3, <2>3, ConcatProperties
    <3>2. Associated(Seq(Plain), TextEnd, d, sheet)
      BY <1>3, <2>3, Associate
    <3>3. x \o sheet = TextEnd \o (d \o sheet)
      BY <3>2 DEF Associated
    <3> HIDE DEF x
    <3>4. Associated(Seq(Plain), rem, x, sheet)
      BY <1>3, <2>4, <3>1, Associate
    <3>5. (rem \o x) \o sheet = rem \o (x \o sheet)
      BY <3>4 DEF Associated
    <3>6. due = rem \o x
      BY <2>1 DEF x
    <3> QED
      BY <2>3, <3>3, <3>5, <3>6
  <2>6. Remains(rem, asked[n + 1])'
    BY <1>4, <2>1 DEF Remains
  <2>7. Remains(rem, asked[Len(received) + 1])'
    BY <1>4, <2>6, Zenon DEF n
  <2>8. new = (rem \o (TextEnd \o Due(asked, Len(received) + 1, Len(heard))))'
    BY <1>4, <2>5, Zenon DEF e, n, m
  <2>9. (dict = "text" /\ Len(received) < Len(heard))'
    BY <1>4, <1>6, <2>2
  <2> HIDE DEF new
  <2>10. AtText(new)'
    BY <2>7, <2>8, <2>9, Zenon DEF AtText
  <2> QED
    BY <2>10 DEF Stage, new, sheet, h
<1>9. CASE AtEnd(due)
  <2>1. dict = "final" /\ n < h
    BY <1>9 DEF AtEnd, h
  <2>2. d \in Seq(Seq(Plain)) /\ e = d \o sheet
    BY <1>5, <2>1
  <2>3. (dict = "final" /\ Len(received) < Len(heard))'
    BY <1>4, <1>6, <2>1
  <2>4. CASE /\ due = << <<Ok>> >> \o d
             /\ Fits(asked[n + 1]) /\ Dotless(asked[n + 1]) => lines = Body(asked[n + 1])
    <3> DEFINE o == << <<Ok>> >>
    <3>1. o \in Seq(Seq(Plain))
      BY <1>2, SheetType
    <3> HIDE DEF o
    <3>2. Associated(Seq(Plain), o, d, sheet)
      BY <1>3, <2>2, <3>1, Associate
    <3>3. new = o \o e
      BY <2>2, <2>4, <3>2 DEF o, Associated
    <3>4. new = (<< <<Ok>> >> \o Due(asked, Len(received) + 1, Len(heard)))'
      BY <1>4, <3>3, Zenon DEF e, n, m, o
    <3>5. (Fits(asked[n + 1]) /\ Dotless(asked[n + 1]) => lines = Body(asked[n + 1]))'
      BY <1>4, <2>4, Zenon
    <3> HIDE DEF new
    <3>6. AtEnd(new)'
      BY <2>3, <3>4, <3>5, Zenon DEF AtEnd, n
    <3> QED
      BY <3>6 DEF Stage, new, sheet, h
  <2>5. CASE ~Parted(asked[n + 1]) /\ TooEarly(due)
    <3>1. PICK l \in Seq(Letters), rest \in Seq(Seq(Plain)) : due = <<l>> \o rest
      BY <2>5 DEF TooEarly
    <3> DEFINE o == <<l>>
               more == rest \o sheet
    <3>2. o \in Seq(Seq(Plain))
      <4>1. l \in Seq(Plain)
        BY LetterChars, SeqMonotonic
      <4> QED
        BY <4>1
    <3> HIDE DEF o
    <3>3. Associated(Seq(Plain), o, rest, sheet)
      BY <1>3, <3>2, Associate
    <3>4. more \in Seq(Seq(Plain))
      BY <1>3, ConcatProperties
    <3>5. new = <<l>> \o more
      BY <3>1, <3>3 DEF o, Associated
    <3> HIDE DEF more, new
    <3>6. TooEarly(new)
      BY <3>4, <3>5 DEF TooEarly
    <3>7. (~Parted(asked[Len(received) + 1]))'
      BY <1>4, <2>5 DEF n
    <3>8. AtEnd(new)'
      BY <2>3, <3>6, <3>7, Zenon DEF AtEnd, TooEarly
    <3> QED
      BY <3>8 DEF Stage, new, sheet, h
  <2> QED
    BY <1>9, <2>4, <2>5 DEF AtEnd, d, h
<1> QED
  BY <1>7, <1>8, <1>9 DEF Stage, sheet, h

LEMMA ReadCommandDown ==
    ASSUME ChannelTypes, Writing, UpInv, DownInv, ReadCommand, CommandsArrive'
    PROVE  DownInv'
<1>1. Full /\ TextsRead /\ Located
  BY DEF DownInv
<1> DEFINE line == LineRead(up, CommandLimit)
           h == Len(heard)
<1>2. UNCHANGED <<asked, dict, lines, received, down>> /\ daemon = "read"
      /\ (\/ line = <<>> /\ UNCHANGED <<daemon, out, left, heard>>
          \/ /\ heard' = Append(heard, line) /\ daemon' = "write"
             /\ out' = (IF h < Len(asked) THEN AnswerTo(asked[h + 1]) ELSE <<Crlf(<<Ok, NL>>, FALSE)>>)
             /\ left' = Len(Head(out')))
  BY DEF ReadCommand
<1>3. CASE line = <<>> /\ UNCHANGED <<daemon, out, left, heard>>
  BY <1>2, <1>3, DownAlone
<1> HIDE DEF line
<1>4. CASE /\ heard' = Append(heard, line) /\ daemon' = "write"
           /\ out' = (IF h < Len(asked) THEN AnswerTo(asked[h + 1]) ELSE <<Crlf(<<Ok, NL>>, FALSE)>>)
           /\ left' = Len(Head(out'))
  <2>1. h \in Nat /\ Len(heard') = h + 1 /\ asked \in Seq(Requests) /\ Len(asked) \in Nat
    <3>1. heard \in Seq(Seq({"a"})) /\ asked \in Seq(Requests)
      BY HeardLength
    <3> QED
      BY <1>4, <3>1
  <2>2. h < Len(asked)
    <3>1. Len(heard') <= Len(asked')
      BY DEF CommandsArrive
    <3> HIDE DEF h
    <3> QED
      BY <1>2, <2>1, <3>1
  <2>3. PICK r \in Requests : r = asked[h + 1]
    BY <2>1, <2>2
  <2> DEFINE sheet == Sheet(r)
  <2>4. out' = AnswerTo(r) /\ out' # <<>> /\ left' = Len(Head(out'))
    BY <1>4, <2>2, <2>3, AnswerType
  <2>5. Full'
    BY <2>4, Zenon DEF Full
  <2>6. TextsRead' /\ (Unparted => Unparted')
    BY <1>1, <1>2, <1>4, TextsKept
  <2>7. out = <<>>
    BY <1>2 DEF Writing
  <2>8. Located'
    <3>1. CASE dict = "ended"
      BY <1>2, <3>1 DEF Located
    <3>2. CASE dict = "lost" /\ (daemon = "gone" \/ Unparted)
      BY <1>2, <2>6, <3>2 DEF Located
    <3>3. CASE \E due : OnWire(due) /\ Stage(due)
      <4>1. PICK due : OnWire(due) /\ Stage(due)
        BY <3>3
      <4>2. PICK z \in Seq(Chars) : down \o z = Wire(due) /\ (daemon = "gone" \/ z = FlattenSeq(out))
        BY <4>1 DEF OnWire
      <4>3. due \in Seq(Seq(Plain)) /\ sheet \in Seq(Seq(Plain)) /\ down \in Seq(Chars)
        BY <1>1, <2>3, <4>1, SheetType, DownTypes DEF OnWire
      <4>4. z = <<>>
        BY <1>2, <2>7, <4>2, FlattenNone
      <4>5. down = Wire(due)
        BY <4>2, <4>3, <4>4, ConcatEmptySeq
      <4> DEFINE new == due \o sheet
                 w == Wire(sheet)
      <4>6. w \in Seq(Chars) /\ w = FlattenSeq(out')
        BY <2>3, <2>4, <4>3, WireType, AnswerWire
      <4> HIDE DEF sheet
      <4>7. new \in Seq(Seq(Plain)) /\ Wire(new) = Wire(due) \o w
        BY <4>3, ConcatProperties, WireConcat
      <4>8. Stage(new)'
        BY <1>1, <1>2, <2>1, <2>2, <2>3, <4>1, <4>3, StageGrows DEF sheet
      <4> HIDE DEF new, w
      <4>9. down' \o w = Wire(new)
        BY <1>2, <4>5, <4>7
      <4>10. OnWire(new)'
        BY <4>6, <4>7, <4>9 DEF OnWire
      <4> QED
        BY <4>8, <4>10 DEF Located
    <3> QED
      BY <1>1, <1>2, <3>1, <3>2, <3>3 DEF Located
  <2> QED
    BY <2>5, <2>6, <2>8 DEF DownInv
<1> QED
  BY <1>2, <1>3, <1>4

(* The buffer that the daemon is writing, and those after it.              *)
Buffer == IF out = <<>> THEN <<>> ELSE Head(out)
Buffers == IF out = <<>> THEN <<>> ELSE FlattenSeq(Tail(out))

LEMMA FlattenHead ==
    ASSUME NEW S, NEW uu \in Seq(Seq(S)), uu # <<>>
    PROVE  /\ Head(uu) \in Seq(S) /\ Tail(uu) \in Seq(Seq(S))
           /\ FlattenSeq(uu) = Head(uu) \o FlattenSeq(Tail(uu))
<1> DEFINE x == Head(uu)
           ss == <<x>>
           tt == Tail(uu)
<1>1. /\ x \in Seq(S) /\ x = uu[1] /\ tt \in Seq(Seq(S)) /\ Len(tt) = Len(uu) - 1 /\ Len(uu) \in Nat
      /\ Len(uu) # 0 /\ \A i \in 1 .. Len(tt) : tt[i] = uu[i + 1]
  <2>1. \A i \in 1 .. Len(tt) : tt[i] = uu[i + 1]
    BY HeadTailProperties
  <2>2. x \in Seq(S) /\ x = uu[1] /\ tt \in Seq(Seq(S)) /\ Len(tt) = Len(uu) - 1 /\ Len(uu) \in Nat /\ Len(uu) # 0
    OBVIOUS
  <2> QED
    BY <2>1, <2>2
<1> HIDE DEF x, tt
<1>2. ss \in Seq(Seq(S)) /\ Len(ss) = 1 /\ ss[1] = x /\ FlattenSeq(ss) = x
  BY <1>1, FlattenOne
<1> HIDE DEF ss
<1>3. /\ Len(uu) = Len(ss) + Len(tt)
      /\ \A k \in 1 .. Len(ss) : uu[k] = ss[k]
      /\ \A k \in 1 .. Len(tt) : uu[Len(ss) + k] = tt[k]
  <2>1. \A k \in 1 .. 1 : k = 1
    OBVIOUS
  <2>2. \A k \in 1 .. Len(tt) : uu[1 + k] = tt[k]
    <3>1. ASSUME NEW k \in 1 .. Len(tt) PROVE uu[1 + k] = tt[k]
      <4>1. 1 + k = k + 1
        OBVIOUS
      <4> QED
        BY <1>1, <4>1
    <3> QED
      BY <3>1
  <2> QED
    BY <1>1, <1>2, <2>1, <2>2
<1>4. FlattenSeq(uu) = FlattenSeq(ss) \o FlattenSeq(tt)
  BY <1>1, <1>2, <1>3, FlattenJoin
<1> QED
  BY <1>1, <1>2, <1>4 DEF x, tt

LEMMA BufferType ==
    ASSUME ChannelTypes, Full
    PROVE  /\ Buffer \in Seq(Chars) /\ Buffers \in Seq(Chars) /\ left = Len(Buffer)
           /\ FlattenSeq(out) = Buffer \o Buffers
<1>1. out \in Seq(Seq(Chars))
  BY DEF ChannelTypes
<1>2. CASE out = <<>>
  <2>1. Buffer = <<>> /\ Buffers = <<>> /\ left = 0 /\ FlattenSeq(out) = <<>>
    BY <1>2, FlattenNone DEF Buffer, Buffers, Full
  <2>2. <<>> \in Seq(Chars) /\ Len(<<>>) = 0 /\ <<>> \o <<>> = <<>>
    OBVIOUS
  <2> QED
    BY <2>1, <2>2
<1>3. CASE out # <<>>
  <2>1. Buffer = Head(out) /\ Buffers = FlattenSeq(Tail(out)) /\ left = Len(Head(out))
    BY <1>3 DEF Buffer, Buffers, Full
  <2>2. Head(out) \in Seq(Chars) /\ Tail(out) \in Seq(Seq(Chars))
        /\ FlattenSeq(out) = Head(out) \o FlattenSeq(Tail(out))
    BY <1>1, <1>3, FlattenHead
  <2>3. FlattenSeq(Tail(out)) \in Seq(Chars)
    <3> DEFINE tt == Tail(out)
    <3>1. tt \in Seq(Seq(Chars))
      BY <2>2
    <3> HIDE DEF tt
    <3>2. FlattenSeq(tt) \in Seq(Chars)
      BY <3>1, FlattenType
    <3> QED
      BY <3>2 DEF tt
  <2> QED
    BY <2>1, <2>2, <2>3
<1> QED
  BY <1>2, <1>3

LEMMA WriteRestDown ==
    ASSUME ChannelTypes, Writing, UpInv, DownInv, WriteOut
    PROVE  DownInv'
<1>1. Full /\ TextsRead /\ Located
  BY DEF DownInv
<1>2. UNCHANGED <<asked, dict, lines, received, heard>> /\ daemon = "write" /\ out # <<>>
      /\ out \in Seq(Seq(Chars)) /\ down \in Seq(Chars)
  BY DEF WriteOut, Writing, ChannelTypes
<1>3. out' = Tail(out) /\ left' = (IF Len(out) > 1 THEN Len(out[2]) ELSE 0)
      /\ down' = down \o SubSeq(Head(out), 1, left)
  BY DEF WriteOut, NextBuffer
<1>4. Buffer \in Seq(Chars) /\ Buffers \in Seq(Chars) /\ left = Len(Buffer)
      /\ FlattenSeq(out) = Buffer \o Buffers
  BY <1>1, BufferType
<1>5. Head(out) = Buffer /\ Buffers = FlattenSeq(out')
  BY <1>2, <1>3 DEF Buffer, Buffers
<1>6. down' = down \o Buffer
  <2>1. SubSeq(Buffer, 1, Len(Buffer)) = Buffer
    BY <1>4, SubSeqFull
  <2> QED
    BY <1>3, <1>4, <1>5, <2>1
<1>7. Full'
  <2>1. Len(out) \in Nat /\ Len(out) # 0 /\ out' \in Seq(Seq(Chars)) /\ Len(out') = Len(out) - 1
    BY <1>2, <1>3
  <2>2. \A i \in 1 .. Len(out') : out'[i] = out[i + 1]
    BY <1>2, <1>3, HeadTailProperties
  <2>3. CASE Len(out) > 1
    <3>1. 1 \in 1 .. Len(out') /\ 1 + 1 = 2
      BY <2>1, <2>3
    <3>2. out'[1] = out[2]
      BY <2>2, <3>1
    <3>3. out' # <<>> /\ Head(out') = out'[1]
      BY <2>1, <3>1
    <3> QED
      BY <1>3, <2>3, <3>2, <3>3 DEF Full
  <2>4. CASE ~(Len(out) > 1)
    <3>1. out' = <<>>
      BY <2>1, <2>4
    <3> QED
      BY <1>3, <2>4, <3>1 DEF Full
  <2> QED
    BY <2>3, <2>4
<1>8. TextsRead' /\ (Unparted => Unparted')
  BY <1>1, <1>2, TextsKept
<1>9. Located'
  <2>1. CASE dict = "ended"
    BY <1>2, <2>1 DEF Located
  <2>2. CASE dict = "lost" /\ (daemon = "gone" \/ Unparted)
    BY <1>2, <1>8, <2>2 DEF Located
  <2>3. CASE \E due : OnWire(due) /\ Stage(due)
    <3>1. PICK due : OnWire(due) /\ Stage(due)
      BY <2>3
    <3>2. PICK z \in Seq(Chars) : down \o z = Wire(due) /\ (daemon = "gone" \/ z = FlattenSeq(out))
      BY <3>1 DEF OnWire
    <3>3. z = Buffer \o Buffers
      BY <1>2, <1>4, <3>2
    <3>4. Associated(Chars, down, Buffer, Buffers)
      BY <1>2, <1>4, Associate
    <3>5. down' \o Buffers = Wire(due)
      BY <1>6, <3>2, <3>3, <3>4 DEF Associated
    <3>6. OnWire(due)'
      <4>1. due \in Seq(Seq(Plain))
        BY <3>1 DEF OnWire
      <4> QED
        BY <1>4, <1>5, <3>5, <4>1 DEF OnWire
    <3>7. Stage(due)'
      BY <1>1, <1>2, <3>1, StageKept
    <3> QED
      BY <3>6, <3>7 DEF Located
  <2> QED
    BY <1>1, <1>2, <2>1, <2>2, <2>3 DEF Located
<1> QED
  BY <1>7, <1>8, <1>9 DEF DownInv

LEMMA DaemonEndsDown ==
    ASSUME ChannelTypes, Writing, UpInv, DownInv, DaemonEnds
    PROVE  DownInv'
<1>1. Full /\ TextsRead /\ Located
  BY DEF DownInv
<1>2. UNCHANGED <<asked, dict, lines, received, heard>> /\ daemon # "gone" /\ daemon' = "gone"
      /\ out' = <<>> /\ left' = 0 /\ down \in Seq(Chars)
  BY DEF DaemonEnds, ChannelTypes
<1>3. PICK k \in 0 .. left : down' = down \o SubSeq(Buffer, 1, k)
  BY DEF DaemonEnds, Buffer
<1>4. Buffer \in Seq(Chars) /\ Buffers \in Seq(Chars) /\ left = Len(Buffer)
      /\ FlattenSeq(out) = Buffer \o Buffers
  BY <1>1, BufferType
<1>5. PICK x \in Seq(Chars), y \in Seq(Chars) : x = SubSeq(Buffer, 1, k) /\ x \o y = Buffer
  <2> DEFINE b == Buffer
  <2>1. b \in Seq(Chars) /\ k \in 0 .. Len(b)
    BY <1>3, <1>4
  <2> HIDE DEF b
  <2>2. SubSeq(b, 1, k) \in Seq(Chars) /\ SubSeq(b, k + 1, Len(b)) \in Seq(Chars)
        /\ SubSeq(b, 1, k) \o SubSeq(b, k + 1, Len(b)) = b
    BY <2>1, SplitAt
  <2> QED
    BY <2>2 DEF b
<1>6. Full'
  BY <1>2 DEF Full
<1>7. TextsRead' /\ (Unparted => Unparted')
  BY <1>1, <1>2, TextsKept
<1>8. Located'
  <2>1. CASE dict = "ended"
    BY <1>2, <2>1 DEF Located
  <2>2. CASE dict = "lost"
    BY <1>2, <2>2 DEF Located
  <2>3. CASE \E due : OnWire(due) /\ Stage(due)
    <3>1. PICK due : OnWire(due) /\ Stage(due)
      BY <2>3
    <3>2. PICK z \in Seq(Chars) : down \o z = Wire(due) /\ (daemon = "gone" \/ z = FlattenSeq(out))
      BY <3>1 DEF OnWire
    <3>3. z = Buffer \o Buffers
      BY <1>2, <1>4, <3>2
    <3> DEFINE f == Buffers
               w == y \o f
    <3>4. f \in Seq(Chars)
      BY <1>4
    <3> HIDE DEF f
    <3>5. w \in Seq(Chars)
      BY <3>4, ConcatProperties
    <3>6. Regrouped(Chars, down, x, y, f) /\ Associated(Chars, x, y, f) /\ Associated(Chars, down, x, w)
      <4>1. Associated(Chars, x, y, f)
        BY <3>4, Associate
      <4>2. Associated(Chars, down, x, w)
        <5> HIDE DEF w
        <5> QED
          BY <1>2, <3>5, Associate
      <4>3. Regrouped(Chars, down, x, y, f)
        BY <1>2, <3>4, Regroup
      <4> QED
        BY <4>1, <4>2, <4>3
    <3>7. down' \o w = down \o (x \o w)
      BY <1>3, <1>5, <3>6 DEF Associated
    <3>8. x \o w = z
      BY <1>5, <3>3, <3>6 DEF Associated, f
    <3>9. OnWire(due)'
      <4>1. due \in Seq(Seq(Plain))
        BY <3>1 DEF OnWire
      <4>2. down' \o w = Wire(due)
        BY <3>2, <3>7, <3>8
      <4> HIDE DEF w
      <4> QED
        BY <1>2, <3>5, <4>1, <4>2 DEF OnWire
    <3>10. Stage(due)'
      BY <1>1, <1>2, <3>1, StageKept
    <3> QED
      BY <3>9, <3>10 DEF Located
  <2> QED
    BY <1>1, <1>2, <2>1, <2>2, <2>3 DEF Located
<1> QED
  BY <1>6, <1>7, <1>8 DEF DownInv
-----------------------------------------------------------------------------
(* The client reads the next line due, t; all of it, or what there is, or  *)
(* as much as it has room for.                                             *)
Broken(t) == daemon = "gone" /\ down' = <<>> /\ \E j \in 1 .. Len(t) : Got = SubSeq(t, 1, j)
Taking(t, rest) == Len(t) < LineLimit /\ Got = t /\ OnWire(rest)'
Chopped(t, rest) ==
    LET g == SubSeq(t, LineLimit + 1, Len(t))
    IN  LineLimit <= Len(t) /\ Got = SubSeq(t, 1, LineLimit) /\ OnWire(<<g>> \o rest)'

LEMMA Reading ==
    ASSUME ChannelTypes, NEW t \in Seq(Plain), NEW rest \in Seq(Seq(Plain)), OnWire(<<t>> \o rest),
           Arrived, Got # Eof, down' = Rest(down, LineLimit), UNCHANGED <<daemon, out>>
    PROVE  Broken(t) \/ Taking(t, rest) \/ Chopped(t, rest)
<1> DEFINE limit == LineLimit
           due == <<t>> \o rest
           g == SubSeq(t, limit + 1, Len(t))
<1>1. PICK z \in Seq(Chars) : down \o z = Wire(due) /\ (daemon = "gone" \/ z = FlattenSeq(out))
  BY DEF OnWire
<1>2. limit \in Nat \ {0} /\ down \in Seq(Chars)
  BY ChannelAssumption DEF ChannelTypes
<1>3. ASSUME NEW ls \in Seq(Seq(Plain)), down' \o z = Wire(ls) PROVE OnWire(ls)'
  BY <1>1, <1>3 DEF OnWire
<1> HIDE DEF limit
<1>4. \/ Waits(down, limit, t)
      \/ Len(t) < limit /\ Reads(down, z, limit, t, Wire(rest))
      \/ /\ limit <= Len(t) /\ g \in Seq(Plain)
         /\ Reads(down, z, limit, SubSeq(t, 1, limit), Wire(<<g>> \o rest))
  BY <1>1, <1>2, ReadOneLine
<1>5. CASE Waits(down, limit, t)
  <2>1. ~\E k \in 1 .. Len(down) : LineEnds(down, k, limit)
    BY <1>5 DEF Waits
  <2>2. daemon = "gone"
    BY <2>1 DEF Arrived, Readable, limit
  <2>3. down' = <<>> /\ \E j \in 1 .. Len(t) : Got = SubSeq(t, 1, j)
    BY <1>5 DEF Waits, Got, limit
  <2> QED
    BY <2>2, <2>3 DEF Broken
<1>6. CASE Len(t) < limit /\ Reads(down, z, limit, t, Wire(rest))
  <2>1. Got = t /\ down' \o z = Wire(rest)
    BY <1>6 DEF Reads, Got, limit
  <2> QED
    BY <1>3, <1>6, <2>1 DEF Taking, limit
<1>7. CASE /\ limit <= Len(t) /\ g \in Seq(Plain)
           /\ Reads(down, z, limit, SubSeq(t, 1, limit), Wire(<<g>> \o rest))
  <2> DEFINE ls == <<g>> \o rest
  <2>1. Got = SubSeq(t, 1, limit) /\ down' \o z = Wire(ls)
    BY <1>7 DEF Reads, Got, limit
  <2>2. ls \in Seq(Seq(Plain))
    <3> DEFINE gg == <<g>>
    <3>1. gg \in Seq(Seq(Plain))
      BY <1>7
    <3> HIDE DEF gg
    <3>2. gg \o rest \in Seq(Seq(Plain))
      BY <3>1, ConcatProperties
    <3> QED
      BY <3>2 DEF gg
  <2> HIDE DEF ls, g
  <2>3. OnWire(ls)'
    BY <1>3, <2>1, <2>2
  <2> QED
    BY <1>7, <2>1, <2>3 DEF Chopped, limit, ls, g
<1> QED
  BY <1>4, <1>5, <1>6, <1>7

LEMMA ReadNoAnswer ==
    ASSUME ChannelTypes, Got # Eof
    PROVE  down # <<>>
BY ReadNothing, ChannelAssumption DEF Got

(* What is read of a line of letters is not a status line.                 *)
LEMMA NotOk ==
    ASSUME NEW t \in Seq(Letters), NEW j \in Nat, j <= Len(t)
    PROVE  SubSeq(t, 1, j) # <<Ok>> /\ SubSeq(t, 1, j) \in Seq(Letters)
<1> DEFINE s == SubSeq(t, 1, j)
<1>1. s \in Seq(Letters)
  <2>1. \A i \in 1 .. j : t[i] \in Letters
    OBVIOUS
  <2>2. 1 \in Int /\ j \in Int
    OBVIOUS
  <2> QED
    BY <2>1, <2>2, SubSeqProperties
<1> HIDE DEF s
<1>2. s # <<Ok>>
  <2> SUFFICES ASSUME s = <<Ok>> PROVE FALSE
    OBVIOUS
  <2>1. Len(s) = 1 /\ s[1] = Ok
    OBVIOUS
  <2>2. Ok \in Letters
    BY <1>1, <2>1
  <2>3. Ok \notin Letters
    BY CharsApart DEF Letters
  <2> QED
    BY <2>2, <2>3
<1> QED
  BY <1>1, <1>2 DEF s

LEMMA TextReceived ==
    ASSUME ChannelTypes, UpInv, TextsRead, UNCHANGED <<asked, heard>>, Len(received) < Len(heard),
           received' = Append(received, lines),
           Fits(asked[Len(received) + 1]) /\ Dotless(asked[Len(received) + 1])
                => lines = Body(asked[Len(received) + 1])
    PROVE  TextsRead' /\ Len(received') = Len(received) + 1
<1> DEFINE n == Len(received)
<1>1. n \in Nat /\ Len(heard) \in Nat /\ received \in Seq(Seq(Seq(Chars)))
  BY DownTypes
<1>2. Len(received') = n + 1 /\ received'[n + 1] = lines /\ \A k \in 1 .. n : received'[k] = received[k]
  BY <1>1
<1>3. \A k \in 1 .. n : Fits(asked[k]) /\ Dotless(asked[k]) => received[k] = Body(asked[k])
  BY DEF TextsRead
<1>4. Fits(asked[n + 1]) /\ Dotless(asked[n + 1]) => received'[n + 1] = Body(asked[n + 1])
  BY <1>2
<1>5. n + 1 <= Len(heard)
  BY <1>1
<1> HIDE DEF n
<1>6. ASSUME NEW k \in 1 .. n + 1, Fits(asked[k]) /\ Dotless(asked[k])
      PROVE received'[k] = Body(asked[k])
  <2>1. k \in 1 .. n \/ k = n + 1
    BY <1>1
  <2> QED
    BY <1>2, <1>3, <1>4, <1>6, <2>1
<1>7. Len(received') <= Len(heard')
  BY <1>2, <1>5
<1>8. \A k \in 1 .. Len(received') : Fits(asked'[k]) /\ Dotless(asked'[k]) => received'[k] = Body(asked'[k])
  <2>1. asked' = asked
    OBVIOUS
  <2> QED
    BY <1>2, <1>6, <2>1
<1> QED
  BY <1>2, <1>7, <1>8 DEF TextsRead, n

(* The answers still due begin with the status line of the next.           *)
LEMMA AnswerFirst ==
    ASSUME NEW r \in Requests, NEW d \in Seq(Seq(Plain))
    PROVE  /\ Sheet(r) \o d = << <<Follows>> >> \o (Written(r) \o (TextEnd \o d))
           /\ Written(r) \o (TextEnd \o d) \in Seq(Seq(Plain))
           /\ TextEnd \o d = << <<Dot>> >> \o (<< <<Ok>> >> \o d)
           /\ << <<Ok>> >> \o d \in Seq(Seq(Plain))
<1> DEFINE a == << <<Follows>> >>
           b == Written(r)
           c == TextEnd
           e == << <<Dot>> >>
           f == << <<Ok>> >>
<1>1. /\ a \in Seq(Seq(Plain)) /\ b \in Seq(Seq(Plain)) /\ c \in Seq(Seq(Plain))
      /\ e \in Seq(Seq(Plain)) /\ f \in Seq(Seq(Plain))
  BY SheetType
<1>2. c = e \o f
  BY DEF TextEnd
<1>3. Sheet(r) = (a \o b) \o c
  BY DEF Sheet
<1> HIDE DEF a, b, c, e, f
<1>4. Regrouped(Seq(Plain), a, b, c, d)
  BY <1>1, Regroup
<1>5. Associated(Seq(Plain), b, c, d)
  BY <1>1, Associate
<1>6. Associated(Seq(Plain), e, f, d)
  BY <1>1, Associate
<1>7. f \o d \in Seq(Seq(Plain))
  BY <1>1, ConcatProperties
<1>8. Sheet(r) \o d = a \o (b \o (c \o d)) /\ b \o (c \o d) \in Seq(Seq(Plain))
  BY <1>3, <1>4, <1>5 DEF Associated, Regrouped
<1>9. c \o d = e \o (f \o d)
  BY <1>2, <1>6 DEF Associated
<1> QED
  BY <1>7, <1>8, <1>9 DEF a, b, c, e, f

LEMMA ReadStatusDown ==
    ASSUME ChannelTypes, UpInv, DownInv, ReadStatus
    PROVE  DownInv'
<1> DEFINE n == Len(received)
           h == Len(heard)
<1>1. Full /\ TextsRead /\ Located
  BY DEF DownInv
<1>2. /\ Arrived /\ dict \in {"status", "final"} /\ Got # Eof /\ down' = Rest(down, LineLimit)
      /\ UNCHANGED <<asked, daemon, out, left, heard>>
      /\ \/ dict = "status" /\ Got = <<Follows>> /\ dict' = "text" /\ lines' = <<>> /\ received' = received
         \/ dict = "final" /\ Got = <<Ok>> /\ dict' = "status" /\ received' = Append(received, lines)
         \/ /\ ~(dict = "status" /\ Got = <<Follows>>) /\ ~(dict = "final" /\ Got = <<Ok>>)
            /\ dict' = "lost" /\ received' = received
  BY DEF ReadStatus
<1>3. Full'
  BY <1>1, <1>2 DEF Full
<1>4. asked \in Seq(Requests) /\ h \in 0 .. Len(asked) /\ n \in 0 .. h /\ h \in Nat /\ down \in Seq(Chars)
      /\ Len(asked) \in Nat
  BY <1>1, DownTypes
<1>5. down # <<>>
  BY <1>2, ReadNoAnswer
<1>6. PICK due : OnWire(due) /\ Stage(due)
  BY <1>1, <1>2, <1>5 DEF Located
<1>7. received' = received => TextsRead'
  BY <1>1, <1>2, TextsKept
<1>8. LineLimit \in Nat /\ LineLimit > 2
  BY ChannelAssumption
<1>9. ASSUME NEW t, Broken(t) PROVE Located'
  BY <1>2, <1>9 DEF Broken, Located
<1>10. CASE dict = "status"
  <2>1. due = Due(asked, n, h)
    BY <1>6, <1>10 DEF Stage, AtStatus, AtText, AtEnd
  <2>2. n < h
    <3> SUFFICES ASSUME n = h PROVE FALSE
      BY <1>4
    <3>1. due = <<>>
      BY <1>4, <2>1, DueNone
    <3>2. PICK z \in Seq(Chars) : down \o z = Wire(due)
      BY <1>6 DEF OnWire
    <3>3. down \o z = <<>>
      BY <3>1, <3>2, WireNone
    <3> QED
      BY <1>4, <1>5, <3>3, ConcatEqualIffEmpty
  <2>3. PICK r \in Requests, m \in Nat, d \in Seq(Seq(Plain)) :
            m = n + 1 /\ r = asked[m] /\ d = Due(asked, m, h) /\ due = Sheet(r) \o d
    <3> DEFINE m == n + 1
               d == Due(asked, m, h)
    <3> HIDE DEF n, h
    <3>1. asked[n + 1] \in Requests /\ n + 1 \in 0 .. h /\ due = Sheet(asked[n + 1]) \o d
      BY <1>4, <2>1, <2>2, DueFirst, SMTT(30)
    <3>2. m \in Nat /\ d \in Seq(Seq(Plain))
      <4>1. m \in 0 .. h
        BY <3>1
      <4> HIDE DEF m
      <4> QED
        BY <1>4, <4>1, DueType
    <3> QED
      BY <3>1, <3>2
  <2> DEFINE t == <<Follows>>
             rest == Written(r) \o (TextEnd \o d)
  <2>4. due = <<t>> \o rest /\ rest \in Seq(Seq(Plain)) /\ t \in Seq(Plain) /\ Len(t) = 1
    BY <2>3, AnswerFirst, SheetType
  <2> HIDE DEF rest
  <2>5. received' = received
    BY <1>2, <1>10
  <2>6. Located'
    <3> HIDE DEF t
    <3>1. Broken(t) \/ Taking(t, rest) \/ Chopped(t, rest)
      <4>1. OnWire(<<t>> \o rest)
        BY <1>6, <2>4
      <4> QED
        BY <1>2, <2>4, <4>1, Reading
    <3>2. ~Chopped(t, rest)
      BY <1>8, <2>4 DEF Chopped
    <3>3. CASE Taking(t, rest)
      <4>1. Got = <<Follows>> /\ OnWire(rest)'
        BY <3>3 DEF Taking, t
      <4>2. dict' = "text" /\ lines' = <<>>
        BY <1>2, <1>10, <4>1
      <4>3. Remains(Written(r), r)'
        <5>1. Sheeted(Given(r), ~r.info, Written(r)) /\ Body(r) = LinesOf(Given(r))
          BY GivenType
        <5>2. Written(r) \in Seq(Seq(Letters)) /\ Len(Written(r)) = Len(Body(r)) /\ Len(Written(r)) \in Nat
          BY <5>1 DEF Sheeted
        <5>3. 0 \in 0 .. Len(Body(r)) /\ Len(Written(r)) = Len(Body(r)) - 0
              /\ (\A i \in 1 .. Len(Written(r)) : Written(r)[i] = Written(r)[0 + i])
              /\ Len(lines') = 0
          BY <4>2, <5>2
        <5> QED
          BY <5>2, <5>3 DEF Remains
      <4>4. (Len(received) + 1)' = m /\ asked'[m] = r /\ rest = Written(r) \o (TextEnd \o Due(asked, m, Len(heard))')
            /\ (dict = "text" /\ Len(received) < Len(heard))'
        BY <1>2, <2>2, <2>3, <2>5, <4>2 DEF rest
      <4>5. AtText(rest)'
        BY <4>3, <4>4, Zenon DEF AtText
      <4> QED
        BY <4>1, <4>5 DEF Located, Stage
    <3> QED
      BY <1>9, <3>1, <3>2, <3>3
  <2> QED
    BY <1>3, <1>7, <2>5, <2>6 DEF DownInv
<1>11. CASE dict = "final"
  <2>1. AtEnd(due)
    BY <1>6, <1>11 DEF Stage, AtStatus, AtText
  <2>2. n < h
    BY <2>1 DEF AtEnd
  <2>3. PICK r \in Requests, m \in Nat, d \in Seq(Seq(Plain)) :
            m = n + 1 /\ r = asked[m] /\ d = Due(asked, m, h) /\ m \in 1 .. Len(asked)
    <3>1. n + 1 \in 0 .. h /\ h \in 0 .. Len(asked) /\ n + 1 \in 1 .. Len(asked) /\ asked[n + 1] \in Requests
      BY <1>4, <2>2
    <3> DEFINE m == n + 1
               d == Due(asked, m, h)
    <3>2. d \in Seq(Seq(Plain))
      <4> HIDE DEF m, h, n
      <4> QED
        BY <1>4, <3>1, DueType DEF m
    <3> QED
      BY <3>1, <3>2
  <2> HIDE DEF n, h
  <2>4. CASE due = << <<Ok>> >> \o d /\ (Fits(r) /\ Dotless(r) => lines = Body(r))
    <3> DEFINE t == <<Ok>>
    <3>1. due = <<t>> \o d /\ t \in Seq(Plain) /\ Len(t) = 1 /\ SubSeq(t, 1, 1) = t
      <4>1. Ok \in Plain
        BY PlainChars
      <4>2. t \in Seq(Plain) /\ Len(t) = 1
        BY <4>1
      <4>3. due = <<t>> \o d
        BY <2>4
      <4> HIDE DEF t
      <4>4. SubSeq(t, 1, 1) = t
        BY <4>2, SubSeqFull
      <4> QED
        BY <4>2, <4>3, <4>4
    <3>2. Got = t /\ (Located' \/ OnWire(d)')
      <4> HIDE DEF t
      <4>1. Broken(t) \/ Taking(t, d) \/ Chopped(t, d)
        <5>1. OnWire(<<t>> \o d)
          BY <1>6, <3>1
        <5> QED
          BY <1>2, <3>1, <5>1, Reading
      <4>2. ~Chopped(t, d)
        BY <1>8, <3>1 DEF Chopped
      <4>3. Broken(t) => Got = t
        <5>1. \A j \in 1 .. Len(t) : j = 1
          BY <3>1
        <5> QED
          BY <3>1, <5>1 DEF Broken
      <4> QED
        BY <1>9, <4>1, <4>2, <4>3, Zenon DEF Taking
    <3>3. dict' = "status" /\ received' = Append(received, lines)
      BY <1>2, <1>11, <3>2
    <3>4. TextsRead' /\ Len(received') = m
      BY <1>1, <1>2, <2>2, <2>3, <2>4, <3>3, TextReceived DEF n, h
    <3>5. AtStatus(d)'
      <4>1. d = Due(asked, Len(received), Len(heard))'
        BY <1>2, <2>3, <3>4, Zenon DEF h
      <4> QED
        BY <3>3, <4>1 DEF AtStatus
    <3>6. Located'
      BY <3>2, <3>5 DEF Located, Stage
    <3> QED
      BY <1>3, <3>4, <3>6 DEF DownInv
  <2>5. CASE ~Parted(r) /\ TooEarly(due)
    <3>1. PICK l \in Seq(Letters), rest \in Seq(Seq(Plain)) : due = <<l>> \o rest
      BY <2>5 DEF TooEarly
    <3>2. Broken(l) \/ Taking(l, rest) \/ Chopped(l, rest)
      <4>1. l \in Seq(Plain) /\ OnWire(<<l>> \o rest)
        BY <1>6, <3>1, LetterChars, SeqMonotonic
      <4> QED
        BY <1>2, <4>1, Reading
    <3>3. \E j \in Nat : j <= Len(l) /\ Got = SubSeq(l, 1, j)
      <4>1. SubSeq(l, 1, Len(l)) = l /\ Len(l) \in Nat
        BY SubSeqFull
      <4>2. \A j \in 1 .. Len(l) : j \in Nat /\ j <= Len(l)
        OBVIOUS
      <4> QED
        BY <1>8, <3>2, <4>1, <4>2 DEF Broken, Taking, Chopped
    <3>4. Got # <<Ok>>
      BY <3>3, NotOk
    <3>5. dict' = "lost" /\ received' = received
      BY <1>2, <1>11, <3>4
    <3>6. Unparted'
      BY <1>2, <2>3, <2>5 DEF Unparted
    <3> QED
      BY <1>3, <1>7, <3>5, <3>6 DEF DownInv, Located
  <2> QED
    BY <2>1, <2>3, <2>4, <2>5, Zenon DEF AtEnd, n, h
<1> QED
  BY <1>2, <1>10, <1>11

(* A line that daemon_crlf wrote, as client_read_text takes it.            *)
LEMMA UndottedLine ==
    /\ Undotted(<<Dot, Dot>>) = <<Dot>>
    /\ \A l \in Seq(Letters) : ~IsPrefix(<<Dot, Dot>>, l) => Undotted(l) = l
    /\ \A l \in Seq(Letters) : ~IsPrefix(<<Dot>>, l) => Undotted(l) = l
<1> DEFINE dd == <<Dot, Dot>>
           o == <<Dot>>
<1>1. dd \in Seq(Letters) /\ Len(dd) = 2 /\ dd[1] = Dot /\ Tail(dd) = o
  <2>1. Dot \in Letters
    BY LetterChars
  <2> QED
    BY <2>1
<1>2. o \in Seq(Letters) /\ Len(o) = 1 /\ o[1] = Dot /\ SubSeq(o, 1, Len(o)) = o
  <2>1. Dot \in Letters
    BY LetterChars
  <2>2. o \in Seq(Letters) /\ Len(o) = 1 /\ o[1] = Dot
    BY <2>1
  <2> HIDE DEF o
  <2> QED
    BY <2>2, SubSeqFull
<1> HIDE DEF dd, o
<1>3. SubSeq(dd, 1, Len(dd)) = dd
  BY <1>1, SubSeqFull
<1>4. IsPrefix(dd, dd)
  BY <1>1 DEF IsPrefix
<1>5. Undotted(dd) = o
  BY <1>1, <1>4 DEF Undotted, dd
<1>6. ASSUME NEW l \in Seq(Letters), ~IsPrefix(dd, l) PROVE Undotted(l) = l
  BY <1>6 DEF Undotted, dd
<1>7. ASSUME NEW l \in Seq(Letters), IsPrefix(dd, l) PROVE IsPrefix(o, l)
  <2>1. 2 <= Len(l) /\ SubSeq(l, 1, 2) = dd
    BY <1>1, <1>3, <1>7 DEF IsPrefix
  <2>2. l[1] = Dot
    <3>1. \A i \in 1 .. 2 : SubSeq(l, 1, 2)[i] = l[i]
      <4>1. 1 \in Int /\ 2 \in Int /\ \A i \in 1 .. 2 : l[i] \in Letters
        BY <2>1
      <4> QED
        BY <4>1, SubSeqProperties
    <3>2. SubSeq(l, 1, 2)[1] = l[1]
      BY <3>1
    <3> QED
      BY <1>1, <2>1, <3>2
  <2> DEFINE s == SubSeq(l, 1, 1)
  <2>3. s \in Seq(Letters) /\ Len(s) = 1 /\ s[1] = l[1]
    <3>1. l[1] \in Letters /\ Len(l) \in Nat /\ 1 <= Len(l)
      BY <2>1
    <3> QED
      BY <3>1
  <2> HIDE DEF s
  <2>4. s = o
    <3>1. \A i \in 1 .. 1 : i = 1
      OBVIOUS
    <3>2. Len(s) = Len(o) /\ \A i \in 1 .. Len(s) : s[i] = o[i]
      BY <1>2, <2>2, <2>3, <3>1
    <3> QED
      BY <1>2, <2>3, <3>2, SeqEqual
  <2>5. 1 <= Len(l)
    BY <2>1
  <2> QED
    BY <1>2, <2>4, <2>5 DEF IsPrefix, s
<1> QED
  BY <1>5, <1>6, <1>7 DEF dd, o

(* The next line of the text, l.                                           *)
LEMMA NextLine ==
    ASSUME ChannelTypes, NEW r \in Requests, NEW l \in Seq(Letters), NEW rem \in Seq(Seq(Letters)),
           Remains(<<l>> \o rem, r)
    PROVE  /\ Fits(r) => Len(l) < LineLimit
           /\ l = <<Dot>> => ~Parted(r)
           /\ l # <<Dot>> /\ lines' = Append(lines, Undotted(l)) => Remains(rem, r)'
<1> DEFINE body == Body(r)
           all == Written(r)
           ll == <<l>>
           old == ll \o rem
           m == Len(rem)
           k == Len(body)
<1>1. LineLimit \in Nat /\ LineLimit > 2 /\ lines \in Seq(Seq(Chars)) /\ r.info \in BOOLEAN
  BY ChannelAssumption, RequestType DEF ChannelTypes
<1>2. /\ body \in Seq(Seq(Letters)) /\ all \in Seq(Seq(Letters)) /\ Len(all) = k /\ k \in Nat
      /\ \A i \in 1 .. k :
            /\ all[i] = body[i] \/ (body[i] = <<Dot>> /\ all[i] = <<Dot, Dot>>)
            /\ all[i] = <<Dot>> => r.info \/ (i = k /\ Last(r.text) # NL)
  <2>1. Sheeted(Given(r), ~r.info, all) /\ body = LinesOf(Given(r)) /\ (~r.info => Given(r) = r.text)
    BY GivenType
  <2>2. body \in Seq(Seq(Letters)) /\ all \in Seq(Seq(Letters)) /\ Len(all) = k
    BY <2>1 DEF Sheeted
  <2>3. \A i \in 1 .. Len(all) :
            /\ all[i] = body[i] \/ (body[i] = <<Dot>> /\ all[i] = <<Dot, Dot>>)
            /\ all[i] = <<Dot>> => r.info \/ (i = Len(all) /\ Last(Given(r)) # NL)
    BY <1>1, <2>1 DEF Sheeted
  <2>4. k \in Nat
    BY <2>2
  <2> HIDE DEF body, all, k
  <2> QED
    BY <2>1, <2>2, <2>3, <2>4
<1>3. ll \in Seq(Seq(Letters)) /\ Len(ll) = 1 /\ ll[1] = l
  OBVIOUS
<1> HIDE DEF ll
<1>4. /\ old \in Seq(Seq(Letters)) /\ Len(old) = 1 + m /\ old[1] = l /\ m \in Nat
      /\ \A i \in 1 .. m : old[i + 1] = rem[i]
  <2>1. /\ old \in Seq(Seq(Letters)) /\ Len(old) = Len(ll) + Len(rem)
        /\ \A i \in 1 .. Len(ll) + Len(rem) : old[i] = IF i <= Len(ll) THEN ll[i] ELSE rem[i - Len(ll)]
    BY <1>3, ConcatProperties
  <2>2. m \in Nat
    OBVIOUS
  <2> HIDE DEF old, m
  <2>3. Len(rem) = m
    BY DEF m
  <2>4. old[1] = l
    <3>1. 1 \in 1 .. Len(ll) + Len(rem) /\ 1 <= Len(ll)
      BY <1>3, <2>2, <2>3
    <3> QED
      BY <1>3, <2>1, <3>1
  <2>5. ASSUME NEW i \in 1 .. m PROVE old[i + 1] = rem[i]
    <3>1. i + 1 \in 1 .. Len(ll) + Len(rem) /\ ~(i + 1 <= Len(ll)) /\ (i + 1) - Len(ll) = i
      BY <1>3, <2>2, <2>3
    <3> QED
      BY <2>1, <3>1
  <2> QED
    BY <1>3, <2>1, <2>2, <2>3, <2>4, <2>5
<1>5. Remains(old, r)
  BY DEF ll
<1> HIDE DEF old, m
<1>6. ASSUME Fits(r)
      PROVE  \E j \in 0 .. k :
                /\ 1 + m = k - j /\ l = all[j + 1] /\ \A i \in 1 .. m : rem[i] = all[(j + 1) + i]
                /\ Dotless(r) => Len(lines) = j /\ \A i \in 1 .. j : lines[i] = body[i]
  <2>1. PICK j \in 0 .. k :
                /\ Len(old) = k - j
                /\ \A i \in 1 .. Len(old) : old[i] = all[j + i]
                /\ Dotless(r) => Len(lines) = j /\ \A i \in 1 .. j : lines[i] = body[i]
    BY <1>5, <1>6 DEF Remains
  <2> HIDE DEF body, all, k
  <2>2. l = all[j + 1]
    <3>1. 1 \in 1 .. Len(old)
      BY <1>4
    <3> QED
      BY <1>4, <2>1, <3>1
  <2>3. ASSUME NEW i \in 1 .. m PROVE rem[i] = all[(j + 1) + i]
    <3>1. i + 1 \in 1 .. Len(old) /\ j + (i + 1) = (j + 1) + i
      BY <1>4
    <3> QED
      BY <1>4, <2>1, <3>1
  <2> QED
    BY <1>4, <2>1, <2>2, <2>3
<1>7. Fits(r) <=> \A i \in 1 .. k : Len(body[i]) < LineLimit
  BY DEF Fits
<1>8. Parted(r) <=> Fits(r) /\ \A i \in 1 .. k : ~BareDot(r, i)
  BY DEF Parted
<1>9. \A i \in 1 .. k : BareDot(r, i) <=> body[i] = <<Dot>> /\ (r.info \/ (i = k /\ Last(r.text) # NL))
  BY DEF BareDot
<1>10. Dotless(r) <=> \A i \in 1 .. k : ~IsPrefix(IF r.info THEN <<Dot>> ELSE <<Dot, Dot>>, body[i])
  BY DEF Dotless
<1>11. Remains(rem, r)' <=> (Fits(r) =>
            \E j \in 0 .. k :
                /\ m = k - j /\ (\A i \in 1 .. m : rem[i] = all[j + i])
                /\ Dotless(r) => Len(lines') = j /\ \A i \in 1 .. j : lines'[i] = body[i])
  BY DEF Remains, m
<1>12. Len(<<Dot, Dot>>) = 2
  OBVIOUS
<1>13. <<Dot, Dot>> # <<Dot>>
  OBVIOUS
<1> HIDE DEF body, all, k
<1>14. CASE ~Fits(r)
  BY <1>8, <1>11, <1>14
<1>15. CASE Fits(r)
  <2>1. PICK j \in 0 .. k :
                /\ 1 + m = k - j /\ l = all[j + 1] /\ (\A i \in 1 .. m : rem[i] = all[(j + 1) + i])
                /\ Dotless(r) => Len(lines) = j /\ \A i \in 1 .. j : lines[i] = body[i]
    BY <1>6, <1>15
  <2> DEFINE p == j + 1
  <2>2. p \in 1 .. k /\ p \in 0 .. k /\ m = k - p /\ l = all[p] /\ j \in Nat /\ p = j + 1 /\ p - 1 = j
    BY <1>2, <1>4, <2>1
  <2>3. \A i \in 1 .. m : rem[i] = all[p + i]
    BY <2>1
  <2> HIDE DEF p
  <2>4. l = body[p] \/ (body[p] = <<Dot>> /\ l = <<Dot, Dot>>)
    BY <1>2, <2>2
  <2>5. Len(l) < LineLimit
    BY <1>1, <1>7, <1>12, <1>15, <2>2, <2>4
  <2>6. ASSUME l = <<Dot>> PROVE ~Parted(r)
    <3>1. body[p] = <<Dot>>
      BY <1>13, <2>4, <2>6
    <3>2. r.info \/ (p = k /\ Last(r.text) # NL)
      BY <1>2, <2>2, <2>6
    <3>3. BareDot(r, p)
      BY <1>9, <2>2, <3>1, <3>2
    <3> QED
      BY <1>8, <2>2, <3>3
  <2>7. ASSUME lines' = Append(lines, Undotted(l)) PROVE Remains(rem, r)'
    <3>1. ASSUME Dotless(r) PROVE Len(lines') = p /\ \A i \in 1 .. p : lines'[i] = body[i]
      <4>1. Len(lines) = j /\ \A i \in 1 .. j : lines[i] = body[i]
        BY <2>1, <3>1
      <4>2. Undotted(l) = body[p]
        <5>1. CASE l = body[p]
          <6>1. ~IsPrefix(IF r.info THEN <<Dot>> ELSE <<Dot, Dot>>, l)
            BY <1>10, <2>2, <3>1, <5>1
          <6>2. Undotted(l) = l
            BY <1>1, <6>1, UndottedLine
          <6> QED
            BY <5>1, <6>2
        <5>2. CASE body[p] = <<Dot>> /\ l = <<Dot, Dot>>
          BY <5>2, UndottedLine
        <5> QED
          BY <2>4, <5>1, <5>2
      <4>3. Len(lines') = j + 1 /\ lines'[j + 1] = Undotted(l) /\ \A i \in 1 .. j : lines'[i] = lines[i]
        BY <1>1, <2>7, <4>1
      <4>4. \A i \in 1 .. p : i \in 1 .. j \/ i = p
        BY <2>2
      <4> QED
        BY <2>2, <4>1, <4>2, <4>3, <4>4
    <3> QED
      BY <1>11, <2>2, <2>3, <3>1
  <2> QED
    BY <2>5, <2>6, <2>7
<1> QED
  BY <1>14, <1>15

LEMMA NoLine ==
    ASSUME ChannelTypes, NEW r \in Requests, Remains(<<>>, r), Fits(r), Dotless(r)
    PROVE  lines = Body(r)
<1> DEFINE body == Body(r)
           k == Len(body)
<1>1. body \in Seq(Seq(Letters)) /\ lines \in Seq(Seq(Chars))
  BY GivenType DEF Sheeted, ChannelTypes
<1>2. PICK j \in 0 .. k : Len(<<>>) = k - j /\ Len(lines) = j /\ \A i \in 1 .. j : lines[i] = body[i]
  BY DEF Remains
<1>3. k \in Nat /\ Len(<<>>) = 0
  BY <1>1
<1> HIDE DEF body
<1>4. Len(lines) = Len(body) /\ \A i \in 1 .. Len(lines) : lines[i] = body[i]
  BY <1>2, <1>3
<1>5. body \in Seq(Seq(Chars))
  <2>1. Seq(Letters) \subseteq Seq(Chars)
    BY LetterChars, SeqMonotonic
  <2> QED
    BY <1>1, <2>1, SeqMonotonic
<1>6. lines = body
  BY <1>1, <1>4, <1>5, SeqEqual
<1> QED
  BY <1>6 DEF body

(* Lines that have a first.                                                *)
HasFirst(S, ls) == \E l \in S, rest \in Seq(S) : ls = <<l>> \o rest

LEMMA FirstAndRest ==
    ASSUME NEW S, NEW ls \in Seq(S)
    PROVE  ls = <<>> \/ HasFirst(S, ls)
<1>1. CASE ls # <<>>
  <2> DEFINE l == ls[1]
             rest == SubSeq(ls, 1 + 1, Len(ls))
             head == SubSeq(ls, 1, 1)
             ll == <<l>>
  <2>1. Len(ls) \in Nat /\ Len(ls) # 0 /\ 1 \in 0 .. Len(ls) /\ l \in S
    BY <1>1
  <2>2. head \in Seq(S) /\ rest \in Seq(S) /\ head \o rest = ls
    BY <2>1, SplitAt
  <2>3. ll \in Seq(S) /\ Len(ll) = 1 /\ ll[1] = l
    BY <2>1
  <2>4. Len(head) = 1 /\ head[1] = l
    <3>1. 1 <= Len(ls)
      BY <2>1
    <3> QED
      BY <3>1
  <2> HIDE DEF head, ll, l
  <2>5. head = ll
    <3>1. \A i \in 1 .. 1 : i = 1
      OBVIOUS
    <3>2. Len(head) = Len(ll) /\ \A i \in 1 .. Len(head) : head[i] = ll[i]
      BY <2>3, <2>4, <3>1
    <3> QED
      BY <2>2, <2>3, <3>2, SeqEqual
  <2> HIDE DEF rest
  <2> QED
    BY <2>1, <2>2, <2>5 DEF HasFirst, ll
<1> QED
  BY <1>1

LEMMA ReadTextDown ==
    ASSUME ChannelTypes, UpInv, DownInv, ReadText
    PROVE  DownInv'
<1> DEFINE n == Len(received)
           h == Len(heard)
<1>1. Full /\ TextsRead /\ Located
  BY DEF DownInv
<1>2. /\ Arrived /\ dict = "text" /\ Got # Eof /\ down' = Rest(down, LineLimit)
      /\ UNCHANGED <<asked, received, daemon, out, left, heard>>
      /\ \/ Cut(Got) = <<Dot>> /\ dict' = "final" /\ lines' = lines
         \/ Cut(Got) # <<Dot>> /\ dict' = "text" /\ lines' = Append(lines, Undotted(Cut(Got)))
  BY DEF ReadText
<1>3. Full'
  BY <1>1, <1>2 DEF Full
<1>4. asked \in Seq(Requests) /\ h \in 0 .. Len(asked) /\ n \in 0 .. h /\ h \in Nat /\ down \in Seq(Chars)
      /\ Len(asked) \in Nat
  BY <1>1, DownTypes
<1>5. down # <<>>
  BY <1>2, ReadNoAnswer
<1>6. PICK due : OnWire(due) /\ Stage(due)
  BY <1>1, <1>2, <1>5 DEF Located
<1>7. TextsRead'
  BY <1>1, <1>2, TextsKept
<1>8. LineLimit \in Nat /\ LineLimit > 2
  BY ChannelAssumption
<1>9. ASSUME NEW t, Broken(t) PROVE Located'
  BY <1>2, <1>9 DEF Broken, Located
<1>10. AtText(due)
  BY <1>2, <1>6 DEF Stage, AtStatus, AtEnd
<1>11. n < h
  BY <1>10 DEF AtText
<1>12. PICK r \in Requests, m \in Nat, d \in Seq(Seq(Plain)) :
            m = n + 1 /\ r = asked[m] /\ d = Due(asked, m, h) /\ m \in 1 .. Len(asked)
  <2>1. n + 1 \in 0 .. h /\ h \in 0 .. Len(asked) /\ n + 1 \in 1 .. Len(asked) /\ asked[n + 1] \in Requests
    BY <1>4, <1>11
  <2> DEFINE m == n + 1
             d == Due(asked, m, h)
  <2>2. d \in Seq(Seq(Plain))
    <3> HIDE DEF m, h, n
    <3> QED
      BY <1>4, <2>1, DueType DEF m
  <2> QED
    BY <2>1, <2>2
<1>13. PICK rem : Remains(rem, r) /\ due = rem \o (TextEnd \o d)
  BY <1>10, <1>12 DEF AtText
<1>14. rem \in Seq(Seq(Letters))
  BY <1>13 DEF Remains
<1>15. (Len(received) + 1)' = m /\ (Len(received) < Len(heard))' /\ asked'[m] = r
       /\ d = Due(asked, m, Len(heard))'
  BY <1>2, <1>11, <1>12
<1> HIDE DEF n, h
<1>16. ASSUME NEW more \in Seq(Seq(Letters)), dict' = "text", Remains(more, r)'
       PROVE  AtText(more \o (TextEnd \o d))'
  BY <1>15, <1>16, Zenon DEF AtText
<1> DEFINE x == TextEnd \o d
           o == << <<Ok>> >> \o d
<1>17. x = << <<Dot>> >> \o o /\ o \in Seq(Seq(Plain)) /\ x \in Seq(Seq(Plain))
  <2>1. x = << <<Dot>> >> \o o /\ o \in Seq(Seq(Plain))
    BY <1>12, AnswerFirst
  <2>2. TextEnd \in Seq(Seq(Plain))
    BY SheetType
  <2>3. x \in Seq(Seq(Plain))
    BY <2>2, ConcatProperties
  <2> QED
    BY <2>1, <2>3
<1>18. ASSUME NEW t \in Seq(Chars), Len(t) < LineLimit PROVE Cut(t) = t
  BY <1>18 DEF Cut
<1> HIDE DEF x, o
<1>19. <<Dot>> \in Seq(Letters) /\ <<Dot>> \in Seq(Plain) /\ <<Dot>> \in Seq(Chars) /\ Len(<<Dot>>) = 1
  <2>1. Dot \in Letters /\ Dot \in Plain /\ Dot \in Chars
    BY LetterChars
  <2> QED
    BY <2>1
<1>20. CASE rem = <<>>
  <2> DEFINE t == <<Dot>>
  <2>1. due = <<t>> \o o
    BY <1>13, <1>17, <1>20, ConcatEmptySeq DEF x
  <2>2. t \in Seq(Plain) /\ t \in Seq(Chars) /\ Len(t) = 1
    BY <1>19
  <2>3. Located'
    <3> HIDE DEF t
    <3>1. Broken(t) \/ Taking(t, o) \/ Chopped(t, o)
      <4>1. OnWire(<<t>> \o o)
        BY <1>6, <2>1
      <4> QED
        BY <1>2, <1>17, <2>2, <4>1, Reading
    <3>2. ~Chopped(t, o)
      BY <1>8, <2>2 DEF Chopped
    <3>3. CASE Taking(t, o)
      <4>1. Got = t /\ OnWire(o)'
        BY <3>3 DEF Taking
      <4>2. Cut(Got) = <<Dot>>
        <5>1. ~(Len(t) = LineLimit)
          BY <1>8, <2>2
        <5>2. Cut(t) = t
          BY <5>1 DEF Cut
        <5> QED
          BY <4>1, <5>2 DEF t
      <4>3. dict' = "final" /\ lines' = lines
        BY <1>2, <4>2
      <4>4. Fits(r) /\ Dotless(r) => lines' = Body(r)
        BY <1>13, <1>20, <4>3, NoLine
      <4>5. AtEnd(o)'
        BY <1>15, <4>3, <4>4, Zenon DEF AtEnd, o
      <4> QED
        BY <4>1, <4>5 DEF Located, Stage
    <3> QED
      BY <1>9, <3>1, <3>2, <3>3
  <2> QED
    BY <1>3, <1>7, <2>3 DEF DownInv
<1>21. CASE HasFirst(Seq(Letters), rem)
  <2>1. PICK l \in Seq(Letters), rest \in Seq(Seq(Letters)) : rem = <<l>> \o rest
    BY <1>21 DEF HasFirst
  <2> DEFINE y == rest \o x
             ll == <<l>>
  <2>2. rest \in Seq(Seq(Plain)) /\ l \in Seq(Plain) /\ l \in Seq(Chars)
    <3>1. Seq(Letters) \subseteq Seq(Plain)
      BY LetterChars, SeqMonotonic
    <3>2. rest \in Seq(Seq(Plain)) /\ l \in Seq(Plain)
      BY <3>1, SeqMonotonic
    <3>3. l \in Seq(Chars)
      BY LetterChars, SeqMonotonic
    <3> QED
      BY <3>2, <3>3
  <2>3. y \in Seq(Seq(Plain))
    BY <1>17, <2>2, ConcatProperties
  <2>4. due = <<l>> \o y
    <3>1. ll \in Seq(Seq(Plain))
      BY <2>2
    <3> HIDE DEF ll
    <3>2. Associated(Seq(Plain), ll, rest, x)
      BY <1>17, <2>2, <3>1, Associate
    <3>3. due = (ll \o rest) \o x
      BY <1>13, <2>1 DEF ll, x
    <3>4. due = ll \o y
      BY <3>2, <3>3 DEF Associated
    <3> QED
      BY <3>4 DEF ll
  <2>5. /\ Fits(r) => Len(l) < LineLimit
        /\ l = <<Dot>> => ~Parted(r)
        /\ l # <<Dot>> /\ lines' = Append(lines, Undotted(l)) => Remains(rest, r)'
    <3>1. Remains(<<l>> \o rest, r)
      BY <1>13, <2>1
    <3> QED
      BY <3>1, NextLine
  <2>6. ASSUME NEW more \in Seq(Seq(Letters)) PROVE TooEarly(more \o x)
    <3>1. CASE more = <<>>
      <4>1. more \o x = << <<Dot>> >> \o o
        BY <1>17, <3>1, ConcatEmptySeq
      <4> QED
        BY <1>17, <1>19, <4>1 DEF TooEarly
    <3>2. CASE HasFirst(Seq(Letters), more)
      <4>1. PICK g \in Seq(Letters), last \in Seq(Seq(Letters)) : more = <<g>> \o last
        BY <3>2 DEF HasFirst
      <4> DEFINE gg == <<g>>
                 w == last \o x
      <4>2. gg \in Seq(Seq(Plain)) /\ last \in Seq(Seq(Plain))
        <5>1. Seq(Letters) \subseteq Seq(Plain)
          BY LetterChars, SeqMonotonic
        <5>2. last \in Seq(Seq(Plain)) /\ g \in Seq(Plain)
          BY <5>1, SeqMonotonic
        <5> QED
          BY <5>2
      <4> HIDE DEF gg
      <4>3. Associated(Seq(Plain), gg, last, x)
        BY <1>17, <4>2, Associate
      <4>4. w \in Seq(Seq(Plain))
        BY <1>17, <4>2, ConcatProperties
      <4>5. more \o x = <<g>> \o w
        BY <4>1, <4>3 DEF Associated, gg
      <4> HIDE DEF w
      <4> QED
        BY <4>4, <4>5 DEF TooEarly
    <3> QED
      BY <2>6, <3>1, <3>2, FirstAndRest
  <2>7. ASSUME NEW more \in Seq(Seq(Letters)), OnWire(more \o x)', dict' = "final", ~Parted(r)
        PROVE  Located'
    <3> DEFINE new == more \o x
    <3>1. TooEarly(new) /\ OnWire(new)'
      BY <2>6, <2>7
    <3>2. AtEnd(new)'
      <4> HIDE DEF new
      <4> QED
        BY <1>15, <2>7, <3>1, Zenon DEF AtEnd, TooEarly
    <3> QED
      BY <3>1, <3>2 DEF Located, Stage
  <2>8. ASSUME NEW more \in Seq(Seq(Letters)), OnWire(more \o x)', dict' = "text", Remains(more, r)'
        PROVE  Located'
    <3>1. AtText(more \o x)'
      BY <1>16, <2>8 DEF x
    <3> QED
      BY <2>8, <3>1 DEF Located, Stage
  <2>9. Located'
    <3>1. Broken(l) \/ Taking(l, y) \/ Chopped(l, y)
      <4>1. OnWire(<<l>> \o y)
        BY <1>6, <2>4
      <4> HIDE DEF y
      <4> QED
        BY <1>2, <2>2, <2>3, <4>1, Reading
    <3>2. CASE Taking(l, y)
      <4>1. Len(l) < LineLimit /\ Got = l /\ OnWire(rest \o x)'
        BY <3>2 DEF Taking
      <4>2. Cut(Got) = l
        BY <1>18, <2>2, <4>1
      <4>3. CASE l = <<Dot>>
        BY <1>2, <2>5, <2>7, <4>1, <4>2, <4>3
      <4>4. CASE l # <<Dot>>
        BY <1>2, <2>5, <2>8, <4>1, <4>2, <4>4
      <4> QED
        BY <4>3, <4>4
    <3>3. CASE Chopped(l, y)
      <4> DEFINE g == SubSeq(l, LineLimit + 1, Len(l))
                 gg == <<g>>
                 more == gg \o rest
      <4>1. LineLimit <= Len(l) /\ OnWire(gg \o y)'
        BY <3>3 DEF Chopped
      <4>2. g \in Seq(Letters)
        <5>1. LineLimit \in 0 .. Len(l)
          BY <1>8, <4>1
        <5> QED
          BY <5>1, SplitAt
      <4>3. gg \in Seq(Seq(Letters)) /\ gg \in Seq(Seq(Plain))
        <5>1. g \in Seq(Plain)
          BY <4>2, LetterChars, SeqMonotonic
        <5> HIDE DEF g
        <5> QED
          BY <4>2, <5>1
      <4> HIDE DEF gg
      <4>4. more \in Seq(Seq(Letters))
        BY <4>3, ConcatProperties
      <4>5. Associated(Seq(Plain), gg, rest, x)
        BY <1>17, <2>2, <4>3, Associate
      <4>6. gg \o y = more \o x
        BY <4>5 DEF Associated
      <4>7. OnWire(more \o x)'
        BY <4>1, <4>6
      <4>8. ~Fits(r)
        BY <1>8, <2>5, <4>1
      <4>9. ~Parted(r)
        BY <4>8 DEF Parted
      <4> HIDE DEF more
      <4>10. Remains(more, r)'
        BY <4>4, <4>8 DEF Remains
      <4> QED
        BY <1>2, <2>7, <2>8, <4>4, <4>7, <4>9, <4>10
    <3> QED
      BY <1>9, <3>1, <3>2, <3>3
  <2> QED
    BY <1>3, <1>7, <2>9 DEF DownInv
<1> QED
  BY <1>14, <1>20, <1>21, FirstAndRest

LEMMA DownInvStep ==
    ASSUME ChannelTypes, Writing, UpInv, cut \/ DownInv, [ChannelNext]_channelVars, UpInv'
    PROVE  cut' \/ DownInv'
<1>1. CASE cut
  <2>1. cut'
    BY <1>1, Zenon DEF ChannelNext, channelVars, Ask, ClientEnds, ReadCommand, HangUp, WriteOut, WritePart,
                       DaemonEnds, ReadFails, ReadStatus, ReadText
  <2> QED
    BY <2>1
<1>2. CASE DownInv
  <2>1. CASE UNCHANGED channelVars
    BY <1>2, <2>1, DownAlone DEF channelVars
  <2>2. CASE \E r \in Requests : Ask(r)
    <3>1. PICK r \in Requests : Ask(r)
      BY <2>2
    <3>2. UNCHANGED <<dict, lines, received, heard, daemon, out, left, down>> /\ asked' = Append(asked, r)
      BY <3>1 DEF Ask
    <3> QED
      BY <1>2, <3>2, DownAlone
  <2>3. CASE ClientEnds
    BY <1>2, <2>3, DownAlone DEF ClientEnds
  <2>4. CASE HangUp
    BY <1>2, <2>4, DownAlone DEF HangUp
  <2>5. CASE ReadFails
    BY <1>2, <2>5, DownAlone DEF ReadFails
  <2>6. CASE ReadCommand
    <3>1. CommandsArrive'
      BY DEF UpInv
    <3> QED
      BY <1>2, <2>6, <3>1, ReadCommandDown
  <2>7. CASE WriteOut
    BY <1>2, <2>7, WriteRestDown
  <2>8. CASE WritePart
    BY <2>8 DEF WritePart
  <2>9. CASE DaemonEnds
    BY <1>2, <2>9, DaemonEndsDown
  <2>10. CASE ReadStatus
    BY <1>2, <2>10, ReadStatusDown
  <2>11. CASE ReadText
    BY <1>2, <2>11, ReadTextDown
  <2> QED
    BY <2>1, <2>2, <2>3, <2>4, <2>5, <2>6, <2>7, <2>8, <2>9, <2>10, <2>11 DEF ChannelNext
<1> QED
  BY <1>1, <1>2

(* A text that the client read to its 250 is the text of its request.      *)
THEOREM TextsArriveHolds == ChannelSpec => []TextsArrive
<1> DEFINE Inv == ((ChannelTypes /\ Writing) /\ UpInv) /\ (cut \/ DownInv)
<1>1. ChannelInit => Inv
  BY ChannelTypesInit, UpInvInit, DownInvInit
<1>2. Inv /\ [ChannelNext]_channelVars => Inv'
  BY ChannelTypesStep, UpInvStep, DownInvStep
<1>3. Inv => TextsArrive
  BY DEF DownInv, TextsRead, TextsArrive
<1> HIDE DEF Inv
<1> QED
  BY <1>1, <1>2, <1>3, PTL DEF ChannelSpec

(* Where the client stands, no line was taken for another.                 *)
LEMMA Synchronized ==
    ASSUME ChannelTypes, Writing, UpInv, DownInv
    PROVE  InSync
<1> SUFFICES ASSUME \A n \in 1 .. Len(asked) : Parted(asked[n])
             PROVE  /\ dict = "lost" => daemon = "gone"
                    /\ dict = "status" /\ Len(received) = Len(heard) /\ daemon = "read" => down = <<>>
  BY DEF InSync
<1>1. Located /\ TextsRead /\ ~Unparted
  BY DEF DownInv, Unparted
<1>2. dict = "lost" => daemon = "gone"
  <2> SUFFICES ASSUME dict = "lost" PROVE daemon = "gone"
    OBVIOUS
  <2>1. \A due : ~Stage(due)
    BY DEF Stage, AtStatus, AtText, AtEnd
  <2> QED
    BY <1>1, <2>1 DEF Located
<1>3. ASSUME dict = "status", Len(received) = Len(heard), daemon = "read" PROVE down = <<>>
  <2>1. PICK due : OnWire(due) /\ Stage(due)
    BY <1>1, <1>3 DEF Located
  <2>2. due = Due(asked, Len(received), Len(heard))
    BY <1>3, <2>1 DEF Stage, AtStatus, AtText, AtEnd
  <2>3. Len(heard) \in Nat /\ down \in Seq(Chars)
    BY <1>1, DownTypes
  <2>4. due = <<>>
    BY <1>3, <2>2, <2>3, DueNone
  <2>5. PICK z \in Seq(Chars) : down \o z = Wire(due)
    BY <2>1 DEF OnWire
  <2>6. down \o z = <<>>
    BY <2>4, <2>5, WireNone
  <2> QED
    BY <2>3, <2>6, ConcatEqualIffEmpty
<1> QED
  BY <1>2, <1>3

(* The client never takes a line of a text for its end or for a status     *)
(* line, nor the other way round.                                          *)
THEOREM InSyncHolds == ChannelSpec => []InSync
<1> DEFINE Inv == ((ChannelTypes /\ Writing) /\ UpInv) /\ (cut \/ DownInv)
<1>1. ChannelInit => Inv
  BY ChannelTypesInit, UpInvInit, DownInvInit
<1>2. Inv /\ [ChannelNext]_channelVars => Inv'
  BY ChannelTypesStep, UpInvStep, DownInvStep
<1>3. Inv => InSync
  <2>1. cut => InSync
    BY DEF InSync
  <2> QED
    BY <2>1, Synchronized
<1> HIDE DEF Inv
<1> QED
  BY <1>1, <1>2, <1>3, PTL DEF ChannelSpec
=============================================================================
