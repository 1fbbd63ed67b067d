---------------------------- MODULE DictProtocol ----------------------------
(***************************************************************************)
(* What one DICT connection promises its client, without timers, access    *)
(* lists or the steps a reply is made of: commands are answered one at a   *)
(* time, in the order in which they were sent, each with one reply, but    *)
(* for empty lines that get none and malformed commands: those are         *)
(* complained about and then carried out all the same.  A reply only names *)
(* databases granted to the user the client has authenticated as, and what *)
(* those are made of; and once the connection is closed, nothing follows.  *)
(* Session is the program that is shown to implement this.                 *)
(***************************************************************************)
EXTENDS Naturals, Sequences

CONSTANTS
    Commands,       \* the commands a client may send
    Blank,          \* those that are skipped without a reply
    Malformed,      \* those that are answered after a complaint
    Users,          \* the users a client may be, the anonymous one included
    Anonymous,      \* the user of a client that has not authenticated
    Dbs,            \* the databases
    Brings          \* the databases a search of each of them may come to

VARIABLES
    open,           \* the connection is open
    grants,         \* the databases granted to each user
    pending,        \* the commands not answered yet, the oldest first
    owed,           \* the last one was complained about and is to be answered
    user,           \* who the client has authenticated as
    named,          \* the databases the last reply was taken from
    replies         \* how many replies the client has been sent

protocolVars == <<open, grants, pending, owed, user, named, replies>>

ProtocolInit ==
    /\ open = TRUE
    /\ grants \in [Users -> SUBSET Dbs]
    /\ pending = <<>>
    /\ owed = FALSE
    /\ user = Anonymous
    /\ named = {}
    /\ replies = 0

Send(c) ==
    /\ open
    /\ pending' = Append(pending, c)
    /\ UNCHANGED <<open, grants, owed, user, named, replies>>

\* The oldest command, one of S, is dealt with.
Take(S) ==
    /\ open /\ ~owed
    /\ pending # <<>> /\ Head(pending) \in S
    /\ pending' = Tail(pending)
    /\ UNCHANGED <<open, grants>>

Plain == Commands \ (Blank \cup Malformed)

Answer ==
    /\ Take(Plain)
    /\ named' \in SUBSET UNION {Brings[d] : d \in grants[user]}
    /\ replies' = replies + 1
    /\ UNCHANGED <<owed, user>>

Skip ==
    /\ Take(Blank)
    /\ UNCHANGED <<owed, user, named, replies>>

Complain ==
    /\ Take(Malformed)
    /\ named' = {}
    /\ replies' = replies + 1
    /\ owed' = TRUE
    /\ UNCHANGED user

\* The command complained about is answered.
Settle ==
    /\ open /\ owed
    /\ named' = {}
    /\ replies' = replies + 1
    /\ owed' = FALSE
    /\ UNCHANGED <<open, grants, pending>>

Refuse == Settle /\ UNCHANGED user

\* The answer to an AUTH command that succeeds.
Authenticate(u) ==
    /\ user' = u
    /\ \/ Settle
       \/ Take(Plain) /\ named' = {} /\ replies' = replies + 1 /\ UNCHANGED owed

\* The connection closes, after a last reply or without one.
Shut ==
    /\ open
    /\ open' = FALSE
    /\ pending' = <<>>
    /\ owed' = FALSE
    /\ replies' \in {replies, replies + 1}
    /\ (pending = <<>> \/ owed) => replies' = replies
    /\ named' \in {named, {}}
    /\ UNCHANGED <<grants, user>>

ProtocolNext ==
    \/ \E c \in Commands : Send(c)
    \/ Answer \/ Skip \/ Complain \/ Refuse
    \/ \E u \in Users : Authenticate(u)
    \/ Shut

ProtocolSpec == ProtocolInit /\ [][ProtocolNext]_protocolVars
=============================================================================
