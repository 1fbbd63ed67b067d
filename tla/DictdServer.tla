---------------------------- MODULE DictdServer ----------------------------
(***************************************************************************)
(* The dictd parent process (dictd/dictd.c): the select/accept loop, the   *)
(* fork of one daemon per connection under limit_childs, the signal        *)
(* handlers that run between any two of its steps, and the life of the     *)
(* daemons as far as the parent can see it.                                *)
(*                                                                         *)
(* The parent's program counter is pc.  A handler only sets a flag or      *)
(* counts; whether the loop ever looks at the flag depends on the system   *)
(* call the signal interrupts, so every handler is an action that may run  *)
(* at any pc, and Interrupt says what it does to the interrupted call.     *)
(***************************************************************************)
EXTENDS Integers, FiniteSets

CONSTANTS
    Conns,          \* the connections clients may open
    Configs,        \* what the configuration file may contain
    LimitTime,      \* limit_time is not 0: daemons have a time limit
    Preprocessor,   \* the configuration is read through --pp (a popen'd child)
    MaxSignals,     \* bound: how many SIGHUP and SIGUSR1 the administrator sends
    MaxEdits,       \* bound: how often the configuration file is edited
    Unloaded,       \* the value of dbs when DictConfig is NULL
    Nothing         \* no outstanding request (of the history variable asked)

(* limit: its limit_childs; mark: it sets a timestamp interval; disable: it *)
(* has a global disable_strategy; readable: it and the database files it   *)
(* names pass sanity().                                                    *)
ConfigType == [limit : Nat, mark : BOOLEAN, disable : BOOLEAN, readable : BOOLEAN]

ASSUME ServerAssumption ==
    /\ Configs \subseteq ConfigType
    /\ Unloaded \notin Configs
    /\ Nothing \notin Configs
    /\ {LimitTime, Preprocessor} \subseteq BOOLEAN
    /\ MaxSignals \in Nat
    /\ MaxEdits \in Nat

VARIABLES
    pc,             \* where the parent is in its main loop
    client,         \* what each connection's client has got so far
    proc,           \* the daemon forked for each connection
    forks, reaps,   \* _dict_forks and _dict_reaps
    needReload,     \* need_reload_config
    needUnload,     \* need_unload_databases
    dbs,            \* DictConfig: the configuration loaded, or Unloaded
    limit,          \* _dict_daemon_limit_childs
    markTime,       \* _dict_markTime > 0
    disabled,       \* disable_strategy has been carried out in this process
    alarm,          \* an alarm(2) of the parent is pending
    chld,           \* SIGCHLD is pending for the parent
    disk,           \* the configuration file
    signals, edits, \* how many signals and edits there have been (the bounds)
    exited,         \* why the parent has exited ("no": it has not)
    failed,         \* history: forks that failed
    stolen,         \* history: reaps of a preprocessor, not of a daemon
    asked           \* history: what the last SIGHUP asked to load

parentVars == <<forks, reaps, failed, stolen>>
configVars == <<dbs, limit, markTime, disabled>>
flagVars   == <<needReload, needUnload>>
adminVars  == <<disk, signals, edits, asked>>
vars == <<pc, client, proc, parentVars, configVars, flagVars, alarm, chld,
          adminVars, exited>>

Labels == {"top", "select", "accept", "dispatch", "pause", "close",
           "eintr", "reloaded", "usr1", "exit"}
Clients == {"idle", "backlog", "accepted", "served", "unavailable",
            "dropped", "closed"}
Procs == {"none", "running", "zombie", "reaped"}
Reasons == {"no", "signal", "alarm", "refusal", "config", "strategy", "accept"}

Backlog == {c \in Conns : client[c] = "backlog"}
Held    == {c \in Conns : client[c] = "accepted"}
Running == {c \in Conns : proc[c] = "running"}
Zombies == {c \in Conns : proc[c] = "zombie"}

TypeOK ==
    /\ pc \in Labels
    /\ client \in [Conns -> Clients]
    /\ proc \in [Conns -> Procs]
    /\ {forks, reaps, failed, stolen} \subseteq Nat
    /\ {needReload, needUnload, markTime, disabled, alarm, chld} \subseteq BOOLEAN
    /\ dbs \in Configs \cup {Unloaded}
    /\ limit \in Nat
    /\ disk \in Configs
    /\ signals \in 0..MaxSignals
    /\ edits \in 0..MaxEdits
    /\ exited \in Reasons
    /\ asked \in Configs \cup {Nothing}

Init ==
    /\ pc = "top"
    /\ client = [c \in Conns |-> "idle"]
    /\ proc = [c \in Conns |-> "none"]
    /\ forks = 0 /\ reaps = 0 /\ failed = 0 /\ stolen = 0
    /\ needReload = FALSE /\ needUnload = FALSE
    /\ disk \in {g \in Configs : g.readable}
    /\ dbs = disk
    /\ limit = disk.limit
    /\ markTime = disk.mark
    /\ disabled = disk.disable
    /\ alarm = disk.mark
    /\ chld = FALSE
    /\ signals = 0 /\ edits = 0
    /\ exited = "no"
    /\ asked = Nothing

-----------------------------------------------------------------------------
(* The process ends; the kernel resets what it had accepted or queued. *)
Exit(why) ==
    /\ pc' = "exit"
    /\ exited' = why
    /\ client' = [c \in Conns |->
                    IF c \in Backlog \cup Held THEN "dropped" ELSE client[c]]

(* select() and accept() block only while no connection is ready.  Every   *)
(* handler's return makes a blocked select() fail with EINTR; accept() is  *)
(* restarted when the handler was installed with SA_RESTART; pause()       *)
(* returns after any handler.                                              *)
Interrupt(restart) ==
    /\ pc' = IF pc = "pause" THEN "close"
             ELSE IF Backlog = {} /\ (pc = "select" \/ (pc = "accept" /\ ~restart))
             THEN "eintr"
             ELSE pc
    /\ UNCHANGED <<client, exited>>

-----------------------------------------------------------------------------
(* The main loop. *)

Loop ==
    /\ pc = "top"
    /\ pc' = "select"
    /\ UNCHANGED <<client, proc, parentVars, configVars, flagVars, alarm, chld,
                   adminVars, exited>>

SelectReady ==
    /\ pc = "select"
    /\ Backlog # {}
    /\ pc' = "accept"
    /\ UNCHANGED <<client, proc, parentVars, configVars, flagVars, alarm, chld,
                   adminVars, exited>>

Accept(c) ==
    /\ pc = "accept"
    /\ c \in Backlog
    /\ client' = [client EXCEPT ![c] = "accepted"]
    /\ pc' = "dispatch"
    /\ UNCHANGED <<proc, parentVars, configVars, flagVars, alarm, chld,
                   adminVars, exited>>

(* ECONNABORTED and the like: the connection is gone, the loop continues. *)
AcceptAborted(c) ==
    /\ pc = "accept"
    /\ c \in Backlog
    /\ client' = [client EXCEPT ![c] = "dropped"]
    /\ pc' = "top"
    /\ UNCHANGED <<proc, parentVars, configVars, flagVars, alarm, chld,
                   adminVars, exited>>

(* Any other errno (EMFILE, ENFILE, ...) is fatal. *)
AcceptFails ==
    /\ pc = "accept"
    /\ Backlog # {}
    /\ Exit("accept")
    /\ UNCHANGED <<proc, parentVars, configVars, flagVars, alarm, chld, adminVars>>

\* Mutant of HasRoom: one daemon too many.
HasRoomLate == forks - reaps <= limit
HasRoom == forks - reaps < limit

\* Mutant of Fork: the daemon does not look whether databases are loaded.
ForkUnchecked(c) ==
    /\ pc = "dispatch" /\ c \in Held /\ HasRoom
    /\ forks' = forks + 1
    /\ proc' = [proc EXCEPT ![c] = "running"]
    /\ client' = [client EXCEPT ![c] = "served"]
    /\ pc' = "close"
    /\ UNCHANGED <<reaps, failed, stolen, configVars, flagVars, alarm, chld,
                   adminVars, exited>>

(* start_daemon() in the parent, and the child up to dict_daemon(): a      *)
(* daemon forked while DictConfig is NULL answers 420.                     *)
Fork(c) ==
    /\ pc = "dispatch"
    /\ c \in Held
    /\ HasRoom
    /\ forks' = forks + 1
    /\ proc' = [proc EXCEPT ![c] = "running"]
    /\ client' = [client EXCEPT ![c] =
                    IF dbs # Unloaded THEN "served" ELSE "unavailable"]
    /\ pc' = "close"
    /\ UNCHANGED <<reaps, failed, stolen, configVars, flagVars, alarm, chld,
                   adminVars, exited>>

(* fork() returns -1: counted all the same, then alarm(10) and pause(). *)
ForkFails ==
    /\ pc = "dispatch"
    /\ HasRoom
    /\ forks' = forks + 1
    /\ failed' = failed + 1
    /\ alarm' = TRUE
    /\ pc' = "pause"
    /\ UNCHANGED <<client, proc, reaps, stolen, configVars, flagVars, chld,
                   adminVars, exited>>

\* Mutant of Close: the parent keeps the descriptor.
CloseForgotten ==
    /\ pc = "close"
    /\ pc' = "top"
    /\ UNCHANGED <<client, proc, parentVars, configVars, flagVars, alarm, chld,
                   adminVars, exited>>

(* The parent drops its descriptor: the only one, if the fork failed. *)
Close ==
    /\ pc = "close"
    /\ client' = [c \in Conns |-> IF c \in Held THEN "dropped" ELSE client[c]]
    /\ pc' = "top"
    /\ UNCHANGED <<proc, parentVars, configVars, flagVars, alarm, chld,
                   adminVars, exited>>

(* At the limit dict_daemon(.., 1) runs in the parent: it prints 420, if   *)
(* the client still listens, and daemon_terminate() cancels whatever alarm *)
(* the parent had.                                                         *)
Refuse(c) ==
    /\ pc = "dispatch"
    /\ c \in Held
    /\ ~HasRoom
    /\ client' \in { [client EXCEPT ![c] = "unavailable"],
                    [client EXCEPT ![c] = "dropped"] }
    /\ alarm' = FALSE
    /\ pc' = "top"
    /\ UNCHANGED <<proc, parentVars, configVars, flagVars, chld, adminVars, exited>>

(* ... or the parent itself exits: getnameinfo() fails, or the write raises *)
(* SIGPIPE, which handler() answers with exit().                            *)
RefuseFatal ==
    /\ pc = "dispatch"
    /\ ~HasRoom
    /\ Exit("refusal")
    /\ UNCHANGED <<proc, parentVars, configVars, flagVars, alarm, chld, adminVars>>

-----------------------------------------------------------------------------
(* After EINTR: first the reload, then the unload. *)

(* reload_config().  A file without a timestamp leaves the interval as it  *)
(* was, and the alarm is not touched.  The preprocessor's exit may be      *)
(* collected by reaper() before pclose() waits for it.                     *)
ReloadConfig ==
    /\ pc = "eintr"
    /\ needReload
    /\ disk.readable
    /\ ~(disk.disable /\ disabled)
    /\ dbs' = disk
    /\ limit' = disk.limit
    /\ markTime' = (markTime \/ disk.mark)
    /\ disabled' = (disabled \/ disk.disable)
    /\ \E s \in (IF Preprocessor THEN {0, 1} ELSE {0}) :
         /\ reaps' = reaps + s
         /\ stolen' = stolen + s
    /\ pc' = "reloaded"
    /\ UNCHANGED <<client, proc, forks, failed, flagVars, alarm, chld,
                   adminVars, exited>>

(* sanity() is fatal, and so is disabling a strategy that is already gone. *)
ReloadFails ==
    /\ pc = "eintr"
    /\ needReload
    /\ \/ ~disk.readable /\ Exit("config")
       \/ disk.readable /\ disk.disable /\ disabled /\ Exit("strategy")
    /\ UNCHANGED <<proc, parentVars, configVars, flagVars, alarm, chld, adminVars>>

(* Only now is the request forgotten, and any that came in meanwhile. *)
ClearReload ==
    /\ pc = "reloaded"
    /\ needReload' = FALSE
    /\ pc' = "usr1"
    /\ UNCHANGED <<client, proc, parentVars, configVars, needUnload, alarm, chld,
                   adminVars, exited>>

SkipReload ==
    /\ pc = "eintr"
    /\ ~needReload
    /\ pc' = "usr1"
    /\ UNCHANGED <<client, proc, parentVars, configVars, flagVars, alarm, chld,
                   adminVars, exited>>

UnloadDatabases ==
    /\ pc = "usr1"
    /\ dbs' = IF needUnload THEN Unloaded ELSE dbs
    /\ needUnload' = FALSE
    /\ pc' = "top"
    /\ UNCHANGED <<client, proc, parentVars, limit, markTime, disabled, needReload, alarm,
                   chld, adminVars, exited>>

-----------------------------------------------------------------------------
(* The signal handlers. *)

Up == pc # "exit"

SigHup ==
    /\ Up /\ signals < MaxSignals
    /\ needReload' = TRUE
    /\ asked' = disk
    /\ signals' = signals + 1
    /\ Interrupt(FALSE)
    /\ UNCHANGED <<proc, parentVars, configVars, needUnload, alarm, chld, disk, edits>>

SigUsr1 ==
    /\ Up /\ signals < MaxSignals
    /\ needUnload' = TRUE
    /\ asked' = Nothing
    /\ signals' = signals + 1
    /\ Interrupt(FALSE)
    /\ UNCHANGED <<proc, parentVars, configVars, needReload, alarm, chld, disk, edits>>

\* Mutants of SigChld: the wrong sign, one count for all, one child per signal.
SigChldMinus ==
    /\ Up /\ chld
    /\ reaps' = reaps - Cardinality(Zombies)
    /\ proc' = [c \in Conns |-> IF c \in Zombies THEN "reaped" ELSE proc[c]]
    /\ chld' = FALSE
    /\ Interrupt(TRUE)
    /\ UNCHANGED <<forks, failed, stolen, configVars, flagVars, alarm, adminVars>>

SigChldCountsOnce ==
    /\ Up /\ chld
    /\ reaps' = reaps + 1
    /\ proc' = [c \in Conns |-> IF c \in Zombies THEN "reaped" ELSE proc[c]]
    /\ chld' = FALSE
    /\ Interrupt(TRUE)
    /\ UNCHANGED <<forks, failed, stolen, configVars, flagVars, alarm, adminVars>>

SigChldReapsOne ==
    /\ Up /\ chld
    /\ \E c \in Zombies :
         /\ reaps' = reaps + 1
         /\ proc' = [proc EXCEPT ![c] = "reaped"]
    /\ chld' = FALSE
    /\ Interrupt(TRUE)
    /\ UNCHANGED <<forks, failed, stolen, configVars, flagVars, alarm, adminVars>>

(* reaper(): one SIGCHLD may stand for several children. *)
SigChld ==
    /\ Up /\ chld
    /\ reaps' = reaps + Cardinality(Zombies)
    /\ proc' = [c \in Conns |-> IF c \in Zombies THEN "reaped" ELSE proc[c]]
    /\ chld' = FALSE
    /\ Interrupt(TRUE)
    /\ UNCHANGED <<forks, failed, stolen, configVars, flagVars, alarm, adminVars>>

(* handler(SIGALRM): logs a mark and sets the timer again, or exits. *)
SigAlrm ==
    /\ Up /\ alarm
    /\ IF markTime THEN alarm' = TRUE /\ Interrupt(TRUE)
                   ELSE alarm' = FALSE /\ Exit("alarm")
    /\ UNCHANGED <<proc, parentVars, configVars, flagVars, chld, adminVars>>

(* handler() for SIGTERM, SIGQUIT, SIGINT. *)
SigTerm ==
    /\ Up
    /\ Exit("signal")
    /\ UNCHANGED <<proc, parentVars, configVars, flagVars, alarm, chld, adminVars>>

-----------------------------------------------------------------------------
(* The daemons, the clients and the administrator. *)

DaemonEnds(c) ==
    /\ proc' = [proc EXCEPT ![c] = "zombie"]
    /\ client' = [client EXCEPT ![c] = IF @ = "served" THEN "closed" ELSE @]
    /\ chld' = TRUE
    /\ UNCHANGED <<pc, parentVars, configVars, flagVars, alarm, adminVars, exited>>

(* The session ends: QUIT, end of file, a write error, a query limit. *)
SessionEnds(c) == proc[c] = "running" /\ DaemonEnds(c)

(* The alarm(limit_time) of the daemon ends it. *)
SessionTimesOut(c) == LimitTime /\ proc[c] = "running" /\ DaemonEnds(c)

Connect(c) ==
    /\ Up
    /\ client[c] = "idle"
    /\ client' = [client EXCEPT ![c] = "backlog"]
    /\ UNCHANGED <<pc, proc, parentVars, configVars, flagVars, alarm, chld,
                   adminVars, exited>>

(* The client resets a connection that was not accepted yet. *)
GiveUp(c) ==
    /\ client[c] = "backlog"
    /\ client' = [client EXCEPT ![c] = "dropped"]
    /\ UNCHANGED <<pc, proc, parentVars, configVars, flagVars, alarm, chld,
                   adminVars, exited>>

EditConfig ==
    /\ Up /\ edits < MaxEdits
    /\ disk' \in Configs \ {disk}
    /\ edits' = edits + 1
    /\ asked' = Nothing
    /\ UNCHANGED <<pc, client, proc, parentVars, configVars, flagVars, alarm, chld,
                   signals, exited>>

-----------------------------------------------------------------------------
AcceptSome == \E c \in Conns : Accept(c) \/ AcceptAborted(c)
Dispatch   == ForkFails \/ RefuseFatal \/ \E c \in Conns : Fork(c) \/ Refuse(c)
AfterEintr == ReloadConfig \/ ReloadFails \/ ClearReload \/ SkipReload \/ UnloadDatabases
MainLoop   == Loop \/ SelectReady \/ AcceptSome \/ AcceptFails \/ Dispatch
              \/ Close \/ AfterEintr

Next ==
    \/ MainLoop
    \/ SigHup \/ SigUsr1 \/ SigChld \/ SigAlrm \/ SigTerm
    \/ \E c \in Conns : SessionEnds(c) \/ SessionTimesOut(c) \/ Connect(c) \/ GiveUp(c)
    \/ EditConfig

Spec == Init /\ [][Next]_vars

(* The parent keeps running, the kernel delivers pending signals and       *)
(* expired timers, and a daemon with a time limit reaches it.  Clients and *)
(* the administrator owe nothing.                                          *)
Fairness ==
    /\ WF_vars(MainLoop)
    /\ WF_vars(SigChld)
    /\ WF_vars(SigAlrm)
    /\ \A c \in Conns : WF_vars(SessionTimesOut(c))

FairSpec == Spec /\ Fairness

-----------------------------------------------------------------------------
(* Properties. *)

Alive == Running \cup Zombies

\* The two counters the limit is computed from stand for the processes that
\* exist: forks - reaps is the number of daemons not yet reaped, plus the
\* forks that failed and minus the children reaped that were no daemons.
SlotAccounting == forks - reaps = Cardinality(Alive) + failed - stolen

\* No zombie is forgotten: while the parent is up and a daemon waits to be
\* reaped, a SIGCHLD is on its way, however many exits it stands for.
ZombiesAnnounced == (Up /\ Zombies # {}) => chld

\* The parent never goes back to select() with a connection in its hand that
\* nobody owns: an accepted socket is given to a daemon, refused or closed.
NoConnectionLeaked ==
    /\ \A c, d \in Held : c = d
    /\ Held # {} => pc \in {"dispatch", "pause", "close"}
    /\ pc \in {"dispatch", "pause"} => Held # {}

\* A client is in session exactly as long as its own daemon runs, and no
\* daemon works for a client the parent answered itself or dropped.
SessionsHaveDaemons ==
    \A c \in Conns :
        /\ client[c] = "served" => proc[c] = "running"
        /\ proc[c] # "none" => client[c] \in {"served", "unavailable", "closed"}

\* Without a timestamp interval, SIGALRM ends the server only after a fork
\* that failed; with one it never does.
AlarmKillsOnlyAfterForkFailure == exited = "alarm" => ~markTime /\ failed > 0

\* limit_childs: when a daemon starts, no more than limit daemons run.
DaemonsWithinLimit ==
    [][(Running' \ Running # {}) => Cardinality(Running') <= limit]_vars

\* No slot is taken by a daemon, only by the forks that failed.
SlotsFree == forks - reaps <= failed

\* The server implements what ConnectionService promises the clients.
ClientView == [c \in Conns |-> IF client[c] \in {"backlog", "accepted"}
                               THEN "waiting" ELSE client[c]]

Service == INSTANCE ConnectionService WITH
    client <- ClientView,
    loaded <- (dbs # Unloaded)

ImplementsService == Service!ServiceSpec

\* Every client that connects is eventually served, refused or dropped: no
\* signal, failed fork or aborted connection wedges the loop.
EveryClientAnswered ==
    \A c \in Conns : client[c] = "backlog" ~> client[c] \notin {"backlog", "accepted"}

\* With limit_time, every slot taken by a daemon is eventually given back.
SlotsComeBack == []<>(SlotsFree \/ ~Up)

\* The manual: "SIGHUP causes dictd to reread configuration file and
\* reinitialize databases" (dictd.8.in:1400-1401), and SIGHUP after SIGUSR1
\* is the way "to load them again" (dictd.8.in:1416-1424).
SighupReloads ==
    \A g \in Configs : asked = g ~> (dbs = g \/ asked # g \/ ~Up)

\* The manual again: a server whose configuration is in order survives a
\* SIGHUP (dictd.8.in:1400-1401).
SighupSurvived == exited # "strategy"
=============================================================================
