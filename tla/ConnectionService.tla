------------------------- MODULE ConnectionService -------------------------
(***************************************************************************)
(* What dictd promises to the clients that connect to it, without any of   *)
(* the processes, signals and counters that keep the promise: a client     *)
(* that connects waits until it is served, told "420 temporarily           *)
(* unavailable" or dropped; a client is only ever served while databases   *)
(* are loaded, and no service starts that would make more sessions run at  *)
(* once than the limit in effect.  DictdServer is the program that is      *)
(* shown to implement this.                                                *)
(***************************************************************************)
EXTENDS Naturals, FiniteSets

CONSTANT Conns      \* the connections clients may open

VARIABLES
    client,         \* what each connection's client has got so far
    limit,          \* how many sessions may run at once
    loaded          \* databases are loaded

serviceVars == <<client, limit, loaded>>

Outcomes == {"idle", "waiting", "served", "unavailable", "dropped", "closed"}

Serving == {c \in Conns : client[c] = "served"}

ServiceInit ==
    /\ client = [c \in Conns |-> "idle"]
    /\ limit \in Nat
    /\ loaded = TRUE

Become(c, from, to) ==
    /\ client[c] = from
    /\ client' = [client EXCEPT ![c] = to]
    /\ UNCHANGED <<limit, loaded>>

Arrive(c)     == Become(c, "idle", "waiting")

Serve(c) ==
    /\ loaded
    /\ Cardinality(Serving) < limit
    /\ Become(c, "waiting", "served")

TurnAway(c)   == Become(c, "waiting", "unavailable")

Finish(c)     == Become(c, "served", "closed")

\* Waiting clients are dropped, one that gave up or all of them when the
\* server goes down.
DropWaiting ==
    /\ \E D \in SUBSET {c \in Conns : client[c] = "waiting"} :
         client' = [c \in Conns |-> IF c \in D THEN "dropped" ELSE client[c]]
    /\ UNCHANGED <<limit, loaded>>

\* The administrator loads another configuration or unloads the databases.
Reconfigure ==
    /\ limit' \in Nat
    /\ loaded' \in BOOLEAN
    /\ UNCHANGED client

ServiceNext ==
    \/ \E c \in Conns : Arrive(c) \/ Serve(c) \/ TurnAway(c) \/ Finish(c)
    \/ DropWaiting
    \/ Reconfigure

ServiceSpec == ServiceInit /\ [][ServiceNext]_serviceVars
=============================================================================
