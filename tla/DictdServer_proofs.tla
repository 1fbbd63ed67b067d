------------------------ MODULE DictdServer_proofs -------------------------
(***************************************************************************)
(* Proofs about DictdServer, for any set of connections, any set of        *)
(* configurations and any bounds.                                          *)
(*                                                                         *)
(* The counters only stand for processes if no SIGCHLD is lost and no      *)
(* connection has two daemons, so SlotAccounting is proved together with   *)
(* the invariants about connections (ServerInv).                           *)
(***************************************************************************)
EXTENDS DictdServer, FiniteSetTheorems, TLAPS

\* Without a preprocessor no reap is stolen; without a timestamp interval
\* only a failed fork sets the alarm.
HistoryOK ==
    /\ ~Preprocessor => stolen = 0
    /\ (alarm /\ ~markTime) => failed > 0
    /\ Up => exited = "no"
    /\ AlarmKillsOnlyAfterForkFailure

\* The inductive invariant.
ServerInv ==
    /\ TypeOK
    /\ IsFiniteSet(Alive)
    /\ SlotAccounting
    /\ ZombiesAnnounced
    /\ NoConnectionLeaked
    /\ SessionsHaveDaemons
    /\ HistoryOK

\* A step keeps every variable in its type; reaper() needs finitely many zombies.
LEMMA ServerType ==
    ASSUME TypeOK, IsFiniteSet(Zombies), [Next]_vars
    PROVE  TypeOK'
<1> USE ServerAssumption DEF TypeOK, Labels, Clients, Procs, Reasons, ConfigType,
        parentVars, configVars, flagVars, adminVars
<1>1. CASE Loop
    BY <1>1 DEF Loop
<1>2. CASE SelectReady
    BY <1>2 DEF SelectReady
<1>3. ASSUME NEW c \in Conns, Accept(c) PROVE TypeOK'
    BY <1>3 DEF Accept
<1>4. ASSUME NEW c \in Conns, AcceptAborted(c) PROVE TypeOK'
    BY <1>4 DEF AcceptAborted
<1>5. CASE AcceptFails
    BY <1>5 DEF AcceptFails, Exit
<1>6. ASSUME NEW c \in Conns, Fork(c) PROVE TypeOK'
    BY <1>6 DEF Fork, HasRoom
<1>7. CASE ForkFails
    BY <1>7 DEF ForkFails
<1>8. CASE Close
    BY <1>8 DEF Close
<1>9. ASSUME NEW c \in Conns, Refuse(c) PROVE TypeOK'
    BY <1>9 DEF Refuse
<1>10. CASE RefuseFatal
    BY <1>10 DEF RefuseFatal, Exit
<1>11. CASE ReloadConfig
    BY <1>11 DEF ReloadConfig
<1>12. CASE ReloadFails
    BY <1>12 DEF ReloadFails, Exit
<1>13. CASE ClearReload
    BY <1>13 DEF ClearReload
<1>14. CASE SkipReload
    BY <1>14 DEF SkipReload
<1>15. CASE UnloadDatabases
    BY <1>15 DEF UnloadDatabases
<1>16. CASE SigHup
    BY <1>16 DEF SigHup, Interrupt
<1>17. CASE SigUsr1
    BY <1>17 DEF SigUsr1, Interrupt
<1>18. CASE SigChld
    <2>1. Cardinality(Zombies) \in Nat
        BY FS_CardinalityType
    <2>2. reaps' \in Nat
        BY <1>18, <2>1 DEF SigChld
    <2>3. /\ proc' \in [Conns -> Procs]
          /\ UNCHANGED <<forks, failed, stolen, configVars, flagVars, alarm, adminVars>>
        BY <1>18 DEF SigChld
    <2>4. /\ chld' \in BOOLEAN /\ pc' \in Labels
          /\ UNCHANGED <<client, exited>>
        BY <1>18 DEF SigChld, Interrupt
    <2> QED
        BY <2>2, <2>3, <2>4
<1>19. CASE SigAlrm
    BY <1>19 DEF SigAlrm, Interrupt, Exit
<1>20. CASE SigTerm
    BY <1>20 DEF SigTerm, Exit
<1>21. ASSUME NEW c \in Conns, DaemonEnds(c), proc[c] = "running" PROVE TypeOK'
    BY <1>21 DEF DaemonEnds
<1>22. ASSUME NEW c \in Conns, Connect(c) PROVE TypeOK'
    BY <1>22 DEF Connect
<1>23. ASSUME NEW c \in Conns, GiveUp(c) PROVE TypeOK'
    BY <1>23 DEF GiveUp
<1>24. CASE EditConfig
    BY <1>24 DEF EditConfig
<1>25. CASE UNCHANGED vars
    BY <1>25 DEF vars
<1> HIDE DEF TypeOK, Labels, Clients, Procs, Reasons, ConfigType,
        parentVars, configVars, flagVars, adminVars
<1> QED
    BY <1>1, <1>2, <1>3, <1>4, <1>5, <1>6, <1>7, <1>8, <1>9, <1>10,
       <1>11, <1>12, <1>13, <1>14, <1>15, <1>16, <1>17, <1>18, <1>19,
       <1>20, <1>21, <1>22, <1>23, <1>24, <1>25
    DEF Next, MainLoop, AcceptSome, Dispatch, AfterEintr,
       SessionEnds, SessionTimesOut

\* A step leaves no accepted connection without an owner.
LEMMA ConnectionStep ==
    ASSUME TypeOK, NoConnectionLeaked, [Next]_vars
    PROVE  NoConnectionLeaked'
<1> USE DEF NoConnectionLeaked, TypeOK, Held, Backlog, Labels, Clients
<1>1. CASE Loop
    BY <1>1 DEF Loop
<1>2. CASE SelectReady
    BY <1>2 DEF SelectReady
<1>3. ASSUME NEW c \in Conns, Accept(c) PROVE NoConnectionLeaked'
    BY <1>3 DEF Accept
<1>4. ASSUME NEW c \in Conns, AcceptAborted(c) PROVE NoConnectionLeaked'
    BY <1>4 DEF AcceptAborted
<1>5. CASE AcceptFails
    BY <1>5 DEF AcceptFails, Exit
<1>6. ASSUME NEW c \in Conns, Fork(c) PROVE NoConnectionLeaked'
    BY <1>6 DEF Fork, HasRoom
<1>7. CASE ForkFails
    BY <1>7 DEF ForkFails
<1>8. CASE Close
    BY <1>8 DEF Close
<1>9. ASSUME NEW c \in Conns, Refuse(c) PROVE NoConnectionLeaked'
    BY <1>9 DEF Refuse
<1>10. CASE RefuseFatal
    BY <1>10 DEF RefuseFatal, Exit
<1>11. CASE ReloadConfig
    BY <1>11 DEF ReloadConfig
<1>12. CASE ReloadFails
    BY <1>12 DEF ReloadFails, Exit
<1>13. CASE ClearReload
    BY <1>13 DEF ClearReload
<1>14. CASE SkipReload
    BY <1>14 DEF SkipReload
<1>15. CASE UnloadDatabases
    BY <1>15 DEF UnloadDatabases
<1>16. CASE SigHup
    BY <1>16 DEF SigHup, Interrupt
<1>17. CASE SigUsr1
    BY <1>17 DEF SigUsr1, Interrupt
<1>18. CASE SigChld
    BY <1>18 DEF SigChld, Interrupt
<1>19. CASE SigAlrm
    BY <1>19 DEF SigAlrm, Interrupt, Exit
<1>20. CASE SigTerm
    BY <1>20 DEF SigTerm, Exit
<1>21. ASSUME NEW c \in Conns, DaemonEnds(c), proc[c] = "running" PROVE NoConnectionLeaked'
    BY <1>21 DEF DaemonEnds
<1>22. ASSUME NEW c \in Conns, Connect(c) PROVE NoConnectionLeaked'
    BY <1>22 DEF Connect
<1>23. ASSUME NEW c \in Conns, GiveUp(c) PROVE NoConnectionLeaked'
    BY <1>23 DEF GiveUp
<1>24. CASE EditConfig
    BY <1>24 DEF EditConfig
<1>25. CASE UNCHANGED vars
    BY <1>25 DEF vars
<1> HIDE DEF NoConnectionLeaked, TypeOK, Held, Backlog, Labels, Clients
<1> QED
    BY <1>1, <1>2, <1>3, <1>4, <1>5, <1>6, <1>7, <1>8, <1>9, <1>10,
       <1>11, <1>12, <1>13, <1>14, <1>15, <1>16, <1>17, <1>18, <1>19,
       <1>20, <1>21, <1>22, <1>23, <1>24, <1>25
    DEF Next, MainLoop, AcceptSome, Dispatch, AfterEintr,
       SessionEnds, SessionTimesOut

\* A step keeps sessions and daemons together.
LEMMA SessionStep ==
    ASSUME TypeOK, SessionsHaveDaemons, NoConnectionLeaked, [Next]_vars
    PROVE  SessionsHaveDaemons'
<1> USE DEF SessionsHaveDaemons, NoConnectionLeaked, TypeOK, Held, Backlog, Zombies, Clients, Procs
<1>1. CASE Loop
    BY <1>1 DEF Loop
<1>2. CASE SelectReady
    BY <1>2 DEF SelectReady
<1>3. ASSUME NEW c \in Conns, Accept(c) PROVE SessionsHaveDaemons'
    BY <1>3 DEF Accept
<1>4. ASSUME NEW c \in Conns, AcceptAborted(c) PROVE SessionsHaveDaemons'
    BY <1>4 DEF AcceptAborted
<1>5. CASE AcceptFails
    BY <1>5 DEF AcceptFails, Exit
<1>6. ASSUME NEW c \in Conns, Fork(c) PROVE SessionsHaveDaemons'
    BY <1>6 DEF Fork, HasRoom
<1>7. CASE ForkFails
    BY <1>7 DEF ForkFails
<1>8. CASE Close
    BY <1>8 DEF Close
<1>9. ASSUME NEW c \in Conns, Refuse(c) PROVE SessionsHaveDaemons'
    BY <1>9 DEF Refuse
<1>10. CASE RefuseFatal
    BY <1>10 DEF RefuseFatal, Exit
<1>11. CASE ReloadConfig
    BY <1>11 DEF ReloadConfig
<1>12. CASE ReloadFails
    BY <1>12 DEF ReloadFails, Exit
<1>13. CASE ClearReload
    BY <1>13 DEF ClearReload
<1>14. CASE SkipReload
    BY <1>14 DEF SkipReload
<1>15. CASE UnloadDatabases
    BY <1>15 DEF UnloadDatabases
<1>16. CASE SigHup
    BY <1>16 DEF SigHup, Interrupt
<1>17. CASE SigUsr1
    BY <1>17 DEF SigUsr1, Interrupt
<1>18. CASE SigChld
    BY <1>18 DEF SigChld, Interrupt
<1>19. CASE SigAlrm
    BY <1>19 DEF SigAlrm, Interrupt, Exit
<1>20. CASE SigTerm
    BY <1>20 DEF SigTerm, Exit
<1>21. ASSUME NEW c \in Conns, DaemonEnds(c), proc[c] = "running" PROVE SessionsHaveDaemons'
    BY <1>21 DEF DaemonEnds
<1>22. ASSUME NEW c \in Conns, Connect(c) PROVE SessionsHaveDaemons'
    BY <1>22 DEF Connect
<1>23. ASSUME NEW c \in Conns, GiveUp(c) PROVE SessionsHaveDaemons'
    BY <1>23 DEF GiveUp
<1>24. CASE EditConfig
    BY <1>24 DEF EditConfig
<1>25. CASE UNCHANGED vars
    BY <1>25 DEF vars
<1> HIDE DEF SessionsHaveDaemons, NoConnectionLeaked, TypeOK, Held, Backlog, Zombies, Clients, Procs
<1> QED
    BY <1>1, <1>2, <1>3, <1>4, <1>5, <1>6, <1>7, <1>8, <1>9, <1>10,
       <1>11, <1>12, <1>13, <1>14, <1>15, <1>16, <1>17, <1>18, <1>19,
       <1>20, <1>21, <1>22, <1>23, <1>24, <1>25
    DEF Next, MainLoop, AcceptSome, Dispatch, AfterEintr,
       SessionEnds, SessionTimesOut

\* A step that makes a zombie sends SIGCHLD; reaper() leaves none.
LEMMA ZombieStep ==
    ASSUME TypeOK, ZombiesAnnounced, SessionsHaveDaemons, [Next]_vars
    PROVE  ZombiesAnnounced'
<1> USE DEF ZombiesAnnounced, TypeOK, Up, Zombies, Procs, Labels
<1>1. CASE Loop
    BY <1>1 DEF Loop
<1>2. CASE SelectReady
    BY <1>2 DEF SelectReady
<1>3. ASSUME NEW c \in Conns, Accept(c) PROVE ZombiesAnnounced'
    BY <1>3 DEF Accept
<1>4. ASSUME NEW c \in Conns, AcceptAborted(c) PROVE ZombiesAnnounced'
    BY <1>4 DEF AcceptAborted
<1>5. CASE AcceptFails
    BY <1>5 DEF AcceptFails, Exit
<1>6. ASSUME NEW c \in Conns, Fork(c) PROVE ZombiesAnnounced'
    BY <1>6 DEF Fork, HasRoom
<1>7. CASE ForkFails
    BY <1>7 DEF ForkFails
<1>8. CASE Close
    BY <1>8 DEF Close
<1>9. ASSUME NEW c \in Conns, Refuse(c) PROVE ZombiesAnnounced'
    BY <1>9 DEF Refuse
<1>10. CASE RefuseFatal
    BY <1>10 DEF RefuseFatal, Exit
<1>11. CASE ReloadConfig
    BY <1>11 DEF ReloadConfig
<1>12. CASE ReloadFails
    BY <1>12 DEF ReloadFails, Exit
<1>13. CASE ClearReload
    BY <1>13 DEF ClearReload
<1>14. CASE SkipReload
    BY <1>14 DEF SkipReload
<1>15. CASE UnloadDatabases
    BY <1>15 DEF UnloadDatabases
<1>16. CASE SigHup
    BY <1>16 DEF SigHup, Interrupt
<1>17. CASE SigUsr1
    BY <1>17 DEF SigUsr1, Interrupt
<1>18. CASE SigChld
    BY <1>18 DEF SigChld, Interrupt
<1>19. CASE SigAlrm
    BY <1>19 DEF SigAlrm, Interrupt, Exit
<1>20. CASE SigTerm
    BY <1>20 DEF SigTerm, Exit
<1>21. ASSUME NEW c \in Conns, DaemonEnds(c), proc[c] = "running" PROVE ZombiesAnnounced'
    BY <1>21 DEF DaemonEnds
<1>22. ASSUME NEW c \in Conns, Connect(c) PROVE ZombiesAnnounced'
    BY <1>22 DEF Connect
<1>23. ASSUME NEW c \in Conns, GiveUp(c) PROVE ZombiesAnnounced'
    BY <1>23 DEF GiveUp
<1>24. CASE EditConfig
    BY <1>24 DEF EditConfig
<1>25. CASE UNCHANGED vars
    BY <1>25 DEF vars
<1> HIDE DEF ZombiesAnnounced, TypeOK, Up, Zombies, Procs, Labels
<1> QED
    BY <1>1, <1>2, <1>3, <1>4, <1>5, <1>6, <1>7, <1>8, <1>9, <1>10,
       <1>11, <1>12, <1>13, <1>14, <1>15, <1>16, <1>17, <1>18, <1>19,
       <1>20, <1>21, <1>22, <1>23, <1>24, <1>25
    DEF Next, MainLoop, AcceptSome, Dispatch, AfterEintr,
       SessionEnds, SessionTimesOut

\* A step accounts for stolen reaps and for the alarm.
LEMMA HistoryStep ==
    ASSUME TypeOK, HistoryOK, [Next]_vars
    PROVE  HistoryOK'
<1> USE ServerAssumption
    DEF TypeOK, HistoryOK, Up, AlarmKillsOnlyAfterForkFailure, parentVars, configVars
<1>1. CASE Loop
    BY <1>1 DEF Loop
<1>2. CASE SelectReady
    BY <1>2 DEF SelectReady
<1>3. ASSUME NEW c \in Conns, Accept(c) PROVE HistoryOK'
    BY <1>3 DEF Accept
<1>4. ASSUME NEW c \in Conns, AcceptAborted(c) PROVE HistoryOK'
    BY <1>4 DEF AcceptAborted
<1>5. CASE AcceptFails
    BY <1>5 DEF AcceptFails, Exit
<1>6. ASSUME NEW c \in Conns, Fork(c) PROVE HistoryOK'
    BY <1>6 DEF Fork, HasRoom
<1>7. CASE ForkFails
    BY <1>7 DEF ForkFails
<1>8. CASE Close
    BY <1>8 DEF Close
<1>9. ASSUME NEW c \in Conns, Refuse(c) PROVE HistoryOK'
    BY <1>9 DEF Refuse
<1>10. CASE RefuseFatal
    BY <1>10 DEF RefuseFatal, Exit
<1>11. CASE ReloadConfig
    BY <1>11 DEF ReloadConfig
<1>12. CASE ReloadFails
    BY <1>12 DEF ReloadFails, Exit
<1>13. CASE ClearReload
    BY <1>13 DEF ClearReload
<1>14. CASE SkipReload
    BY <1>14 DEF SkipReload
<1>15. CASE UnloadDatabases
    BY <1>15 DEF UnloadDatabases
<1>16. CASE SigHup
    BY <1>16 DEF SigHup, Interrupt
<1>17. CASE SigUsr1
    BY <1>17 DEF SigUsr1, Interrupt
<1>18. CASE SigChld
    BY <1>18 DEF SigChld, Interrupt
<1>19. CASE SigAlrm
    BY <1>19 DEF SigAlrm, Interrupt, Exit
<1>20. CASE SigTerm
    BY <1>20 DEF SigTerm, Exit
<1>21. ASSUME NEW c \in Conns, DaemonEnds(c), proc[c] = "running" PROVE HistoryOK'
    BY <1>21 DEF DaemonEnds
<1>22. ASSUME NEW c \in Conns, Connect(c) PROVE HistoryOK'
    BY <1>22 DEF Connect
<1>23. ASSUME NEW c \in Conns, GiveUp(c) PROVE HistoryOK'
    BY <1>23 DEF GiveUp
<1>24. CASE EditConfig
    BY <1>24 DEF EditConfig
<1>25. CASE UNCHANGED vars
    BY <1>25 DEF vars
<1> HIDE DEF TypeOK, HistoryOK, Up, AlarmKillsOnlyAfterForkFailure, parentVars, configVars
<1> QED
    BY <1>1, <1>2, <1>3, <1>4, <1>5, <1>6, <1>7, <1>8, <1>9, <1>10,
       <1>11, <1>12, <1>13, <1>14, <1>15, <1>16, <1>17, <1>18, <1>19,
       <1>20, <1>21, <1>22, <1>23, <1>24, <1>25
    DEF Next, MainLoop, AcceptSome, Dispatch, AfterEintr,
       SessionEnds, SessionTimesOut


\* Which steps touch the processes or the counters.
LEMMA ProcessSteps ==
    ASSUME [Next]_vars
    PROVE  \/ UNCHANGED <<proc, parentVars>>
           \/ \E c \in Conns : Fork(c)
           \/ ForkFails
           \/ ReloadConfig
           \/ SigChld
           \/ \E c \in Conns : proc[c] = "running" /\ DaemonEnds(c)
BY DEF Next, MainLoop, AcceptSome, Dispatch, AfterEintr,
       SessionEnds, SessionTimesOut, vars,
       Loop, SelectReady, Accept, AcceptAborted, AcceptFails, Refuse,
       RefuseFatal, Close, ReloadFails, ClearReload, SkipReload,
       UnloadDatabases, SigHup, SigUsr1, SigAlrm, SigTerm, Connect, GiveUp,
       EditConfig

\* The connection in hand has no daemon yet, so a fork adds exactly one.
LEMMA ForkAddsOne ==
    ASSUME TypeOK, SessionsHaveDaemons, NEW c \in Conns, Fork(c)
    PROVE  /\ c \notin Alive
           /\ Alive' = Alive \cup {c}
           /\ Running' = Running \cup {c}
BY DEF TypeOK, SessionsHaveDaemons, Fork, Held, Alive, Running, Zombies, Procs

\* The counters keep standing for processes.
LEMMA AccountingStep ==
    ASSUME TypeOK, IsFiniteSet(Alive), SlotAccounting, SessionsHaveDaemons,
           [Next]_vars
    PROVE  IsFiniteSet(Alive)' /\ SlotAccounting'
<1>1. CASE UNCHANGED <<proc, parentVars>>
    BY <1>1 DEF SlotAccounting, Alive, Running, Zombies, parentVars
<1>2. ASSUME NEW c \in Conns, Fork(c)
      PROVE  IsFiniteSet(Alive)' /\ SlotAccounting'
    <2>1. IsFiniteSet(Alive') /\ Cardinality(Alive') = Cardinality(Alive) + 1
        BY <1>2, ForkAddsOne, FS_AddElement
    <2>2. Cardinality(Alive) \in Nat
        BY FS_CardinalityType
    <2> QED
        BY <1>2, <2>1, <2>2 DEF SlotAccounting, Fork, TypeOK
<1>3. CASE ForkFails
    <2>1. Alive' = Alive
        BY <1>3 DEF ForkFails, Alive, Running, Zombies
    <2>2. Cardinality(Alive) \in Nat
        BY FS_CardinalityType
    <2> QED
        BY <1>3, <2>1, <2>2 DEF SlotAccounting, ForkFails, TypeOK
<1>4. CASE ReloadConfig
    <2>1. Alive' = Alive
        BY <1>4 DEF ReloadConfig, Alive, Running, Zombies
    <2>2. Cardinality(Alive) \in Nat
        BY FS_CardinalityType
    <2>3. PICK s \in {0, 1} : reaps' = reaps + s /\ stolen' = stolen + s
        BY <1>4 DEF ReloadConfig
    <2> QED
        BY <1>4, <2>1, <2>2, <2>3 DEF SlotAccounting, ReloadConfig, TypeOK
<1>5. CASE SigChld
    <2>1. Alive' = Running
        BY <1>5 DEF SigChld, Alive, Running, Zombies, TypeOK, Procs
    <2>2. Running \cap Zombies = {}
        BY DEF Running, Zombies
    <2>3. IsFiniteSet(Running) /\ IsFiniteSet(Zombies)
        BY FS_Subset DEF Alive
    <2>4. Cardinality(Alive) = Cardinality(Running) + Cardinality(Zombies)
        <3>1. Cardinality(Alive) = Cardinality(Running) + Cardinality(Zombies)
                                   - Cardinality(Running \cap Zombies)
            BY <2>3, FS_Union DEF Alive
        <3>2. Cardinality(Running \cap Zombies) = 0
            BY <2>2, FS_EmptySet
        <3>3. Cardinality(Running) \in Nat /\ Cardinality(Zombies) \in Nat
            BY <2>3, FS_CardinalityType
        <3> QED
            BY <3>1, <3>2, <3>3
    <2>5. Cardinality(Running) \in Nat /\ Cardinality(Zombies) \in Nat
        BY <2>3, FS_CardinalityType
    <2>6. /\ reaps' = reaps + Cardinality(Zombies)
          /\ UNCHANGED <<forks, failed, stolen>>
        BY <1>5 DEF SigChld
    <2>7. {forks, reaps, failed, stolen} \subseteq Nat
        BY DEF TypeOK
    <2> QED
        BY <2>1, <2>3, <2>4, <2>5, <2>6, <2>7 DEF SlotAccounting
<1>6. ASSUME NEW c \in Conns, proc[c] = "running", DaemonEnds(c)
      PROVE  IsFiniteSet(Alive)' /\ SlotAccounting'
    <2>1. Alive' = Alive
        BY <1>6 DEF DaemonEnds, Alive, Running, Zombies, TypeOK, Procs
    <2> QED
        BY <1>6, <2>1 DEF SlotAccounting, DaemonEnds, parentVars
<1> QED
    BY <1>1, <1>2, <1>3, <1>4, <1>5, <1>6, ProcessSteps

\* The invariant holds when the server comes up.
LEMMA ServerInvInit == Init => ServerInv
<1> SUFFICES ASSUME Init PROVE ServerInv
    OBVIOUS
<1>1. TypeOK
    <2>1. disk \in Configs /\ limit \in Nat /\ disabled \in BOOLEAN /\ markTime \in BOOLEAN
        BY ServerAssumption DEF Init, ConfigType
    <2>2. client \in [Conns -> Clients] /\ proc \in [Conns -> Procs]
        BY DEF Init, Clients, Procs
    <2>3. {needReload, needUnload, markTime, disabled, alarm, chld} \subseteq BOOLEAN
        BY <2>1, ServerAssumption DEF Init
    <2>4. /\ {forks, reaps, failed, stolen} \subseteq Nat
          /\ signals \in 0..MaxSignals /\ edits \in 0..MaxEdits
        BY ServerAssumption DEF Init
    <2> QED
        BY <2>1, <2>2, <2>3, <2>4 DEF Init, TypeOK, Labels, Reasons
<1>2. Alive = {} /\ Zombies = {} /\ Held = {}
    BY DEF Init, Alive, Running, Zombies, Held
<1>3. IsFiniteSet(Alive) /\ SlotAccounting
    BY <1>2, FS_EmptySet DEF Init, SlotAccounting
<1>4. ZombiesAnnounced /\ NoConnectionLeaked
    BY <1>2 DEF Init, ZombiesAnnounced, NoConnectionLeaked
<1>5. SessionsHaveDaemons
    BY DEF Init, SessionsHaveDaemons
<1>6. HistoryOK
    BY ServerAssumption DEF Init, HistoryOK, AlarmKillsOnlyAfterForkFailure
<1> QED
    BY <1>1, <1>2, <1>3, <1>4, <1>5, <1>6 DEF ServerInv

\* Every step keeps it.
LEMMA ServerInvStep == ServerInv /\ [Next]_vars => ServerInv'
<1> SUFFICES ASSUME ServerInv, [Next]_vars PROVE ServerInv'
    OBVIOUS
<1> USE DEF ServerInv
<1>1. IsFiniteSet(Zombies)
    BY FS_Subset DEF Alive
<1> QED
    BY <1>1, ServerType, AccountingStep, ZombieStep, ConnectionStep, SessionStep,
       HistoryStep

LEMMA ServerInvariance == Spec => []ServerInv
BY ServerInvInit, ServerInvStep, PTL DEF Spec

-----------------------------------------------------------------------------
\* Every variable keeps its type.
THEOREM ServerTypeCorrect == Spec => []TypeOK
<1>1. ServerInv => TypeOK
    BY DEF ServerInv
<1> QED
    BY <1>1, ServerInvariance, PTL

\* _dict_forks - _dict_reaps is the number of daemons not yet reaped, up to
\* failed forks and stolen reaps, whatever the signals interleave with.
THEOREM SlotsAccounted == Spec => []SlotAccounting
<1>1. ServerInv => SlotAccounting
    BY DEF ServerInv
<1> QED
    BY <1>1, ServerInvariance, PTL

\* A daemon that ended always has a SIGCHLD on the way to the parent.
THEOREM NoZombieForgotten == Spec => []ZombiesAnnounced
<1>1. ServerInv => ZombiesAnnounced
    BY DEF ServerInv
<1> QED
    BY <1>1, ServerInvariance, PTL

\* An accepted connection always has exactly one owner.
THEOREM ConnectionsOwned == Spec => [](NoConnectionLeaked /\ SessionsHaveDaemons)
<1>1. ServerInv => NoConnectionLeaked /\ SessionsHaveDaemons
    BY DEF ServerInv
<1> QED
    BY <1>1, ServerInvariance, PTL

\* Without a timestamp interval, only a failed fork makes SIGALRM fatal.
THEOREM AlarmDeath == Spec => []AlarmKillsOnlyAfterForkFailure
<1>1. ServerInv => AlarmKillsOnlyAfterForkFailure
    BY DEF ServerInv, HistoryOK
<1> QED
    BY <1>1, ServerInvariance, PTL

\* Room in the counters is room for a daemon: what the parent computes is no
\* smaller than the number of running daemons as long as no reap was stolen.
LEMMA RunningBelowSlots ==
    ASSUME ServerInv, stolen = 0
    PROVE  /\ IsFiniteSet(Running)
           /\ Cardinality(Running) \in Nat
           /\ Cardinality(Running) <= forks - reaps
<1>1. /\ IsFiniteSet(Running)
      /\ Cardinality(Running) <= Cardinality(Alive)
    BY FS_Subset DEF ServerInv, Alive
<1>2. Cardinality(Running) \in Nat /\ Cardinality(Alive) \in Nat
    BY <1>1, FS_CardinalityType DEF ServerInv
<1>3. {forks, reaps, failed, stolen} \subseteq Nat
    BY DEF ServerInv, TypeOK
<1> QED
    BY <1>1, <1>2, <1>3 DEF ServerInv, SlotAccounting

\* limit_childs is kept by every server that reads its configuration without
\* a preprocessor.
THEOREM LimitKept ==
    ASSUME ~Preprocessor
    PROVE  Spec => DaemonsWithinLimit
<1>1. ServerInv /\ [Next]_vars
        => [(Running' \ Running # {}) => Cardinality(Running') <= limit]_vars
    <2> SUFFICES ASSUME ServerInv, [Next]_vars, Running' \ Running # {}
                 PROVE  Cardinality(Running') <= limit
        OBVIOUS
    <2>1. PICK c \in Conns : Fork(c)
        <3>1. CASE UNCHANGED <<proc, parentVars>>
            BY <3>1 DEF Running
        <3>2. CASE ForkFails \/ ReloadConfig
            BY <3>2 DEF ForkFails, ReloadConfig, Running
        <3>3. CASE SigChld
            BY <3>3 DEF SigChld, Running, Zombies
        <3>4. ASSUME NEW d \in Conns, DaemonEnds(d) PROVE FALSE
            <4>1. Running' \subseteq Running
                BY <3>4 DEF DaemonEnds, Running, ServerInv, TypeOK
            <4> QED
                BY <4>1
        <3> QED
            BY <3>1, <3>2, <3>3, <3>4, ProcessSteps
    <2>2. stolen = 0
        BY DEF ServerInv, HistoryOK
    <2>3. Running' = Running \cup {c}
        BY <2>1, ForkAddsOne DEF ServerInv
    <2>4. c \notin Running
        BY <2>1, ForkAddsOne DEF ServerInv, Alive
    <2>5. Cardinality(Running') = Cardinality(Running) + 1
        BY <2>2, <2>3, <2>4, RunningBelowSlots, FS_AddElement
    <2>6. forks - reaps < limit
        BY <2>1 DEF Fork, HasRoom
    <2>7. forks \in Nat /\ reaps \in Nat /\ limit \in Nat
        BY DEF ServerInv, TypeOK
    <2> QED
        BY <2>2, <2>5, <2>6, <2>7, RunningBelowSlots
<1> QED
    BY <1>1, ServerInvariance, PTL DEF Spec, DaemonsWithinLimit

-----------------------------------------------------------------------------
(* The refinement: what each step of the server is to the clients. *)

\* Sessions the clients see are run by daemons.
LEMMA ServingAreRunning ==
    ASSUME ServerInv
    PROVE  Service!Serving \subseteq Running
BY DEF ServerInv, TypeOK, SessionsHaveDaemons, Service!Serving, ClientView, Running

\* When connections that waited are dropped, the service drops them.
LEMMA DropStep ==
    ASSUME TypeOK, NEW D \in SUBSET (Backlog \cup Held),
           client' = [c \in Conns |-> IF c \in D THEN "dropped" ELSE client[c]],
           UNCHANGED <<limit, dbs>>
    PROVE  Service!DropWaiting
<1>1. D \in SUBSET {c \in Conns : ClientView[c] = "waiting"}
    BY DEF Backlog, Held, ClientView
<1>2. ClientView' = [c \in Conns |-> IF c \in D THEN "dropped" ELSE ClientView[c]]
    BY DEF ClientView
<1> QED
    BY <1>1, <1>2 DEF Service!DropWaiting

\* The same for the steps that set one client's outcome.
LEMMA OneClientStep ==
    ASSUME TypeOK, NEW c \in Conns, NEW v, client' = [client EXCEPT ![c] = v],
           v \notin {"backlog", "accepted"}
    PROVE  ClientView' = [ClientView EXCEPT ![c] = v]
BY DEF TypeOK, ClientView

\* Every step of the server is a step of the service or changes nothing the
\* clients can see.
LEMMA ServiceStep ==
    ASSUME ServerInv, stolen = 0, [Next]_vars
    PROVE  [Service!ServiceNext]_(Service!serviceVars)
<1> USE DEF Service!ServiceNext, Service!serviceVars
<1>0. TypeOK
    BY DEF ServerInv
<1>1. CASE UNCHANGED <<client, configVars>>
    BY <1>1 DEF configVars, ClientView
<1>2. ASSUME NEW c \in Conns, Accept(c)
      PROVE  UNCHANGED Service!serviceVars
    <2>1. ClientView' = ClientView
        BY <1>0, <1>2 DEF Accept, Backlog, ClientView, TypeOK
    <2> QED
        BY <1>2, <2>1 DEF Accept, configVars
<1>3. ASSUME NEW c \in Conns, AcceptAborted(c) \/ GiveUp(c)
      PROVE  Service!ServiceNext
    <2>1. client' = [d \in Conns |-> IF d \in {c} THEN "dropped" ELSE client[d]]
        BY <1>0, <1>3 DEF AcceptAborted, GiveUp, TypeOK
    <2>2. {c} \in SUBSET (Backlog \cup Held)
        BY <1>3 DEF AcceptAborted, GiveUp, Backlog
    <2> QED
        BY <1>0, <1>3, <2>1, <2>2, DropStep DEF AcceptAborted, GiveUp, configVars
<1>4. CASE Close
    <2>1. Held \in SUBSET (Backlog \cup Held)
        OBVIOUS
    <2> QED
        BY <1>0, <1>4, <2>1, DropStep DEF Close, configVars
<1>5. ASSUME NEW why, Exit(why), UNCHANGED configVars
      PROVE  Service!ServiceNext
    BY <1>0, <1>5, DropStep DEF Exit, configVars
<1>6. ASSUME NEW c \in Conns, Fork(c)
      PROVE  Service!ServiceNext
    <2>1. ClientView[c] = "waiting"
        BY <1>6 DEF Fork, Held, ClientView
    <2>2. CASE dbs # Unloaded
        <3>1. ClientView' = [ClientView EXCEPT ![c] = "served"]
            BY <1>0, <1>6, <2>2, OneClientStep DEF Fork
        <3>2. Cardinality(Service!Serving) < limit
            <4>1. /\ IsFiniteSet(Running)
                  /\ Cardinality(Running) \in Nat
                  /\ Cardinality(Running) <= forks - reaps
                BY RunningBelowSlots
            <4>2. /\ Cardinality(Service!Serving) \in Nat
                  /\ Cardinality(Service!Serving) <= Cardinality(Running)
                BY <4>1, ServingAreRunning, FS_Subset, FS_CardinalityType
            <4>3. forks - reaps < limit
                BY <1>6 DEF Fork, HasRoom
            <4> QED
                BY <1>0, <4>1, <4>2, <4>3 DEF TypeOK
        <3>3. Service!Cardinality(Service!Serving) = Cardinality(Service!Serving)
            BY DEF Cardinality, Service!Cardinality
        <3>4. Service!Serve(c)
            BY <1>6, <2>1, <2>2, <3>1, <3>2, <3>3
            DEF Fork, configVars, Service!Serve, Service!Become
        <3> QED
            BY <3>4
    <2>3. CASE dbs = Unloaded
        <3>1. ClientView' = [ClientView EXCEPT ![c] = "unavailable"]
            BY <1>0, <1>6, <2>3, OneClientStep DEF Fork
        <3>2. Service!TurnAway(c)
            BY <1>6, <2>1, <3>1 DEF Fork, configVars, Service!TurnAway, Service!Become
        <3> QED
            BY <3>2
    <2> QED
        BY <2>2, <2>3
<1>7. ASSUME NEW c \in Conns, Refuse(c)
      PROVE  Service!ServiceNext
    <2>1. CASE client' = [client EXCEPT ![c] = "unavailable"]
        <3>1. /\ ClientView[c] = "waiting"
              /\ ClientView' = [ClientView EXCEPT ![c] = "unavailable"]
            BY <1>0, <1>7, <2>1, OneClientStep DEF Refuse, Held, ClientView
        <3> QED
            BY <1>7, <3>1 DEF Refuse, configVars, Service!TurnAway, Service!Become
    <2>2. CASE client' = [client EXCEPT ![c] = "dropped"]
        <3>1. client' = [d \in Conns |-> IF d \in {c} THEN "dropped" ELSE client[d]]
            BY <1>0, <2>2 DEF TypeOK
        <3>2. {c} \in SUBSET (Backlog \cup Held)
            BY <1>7 DEF Refuse
        <3> QED
            BY <1>0, <1>7, <3>1, <3>2, DropStep DEF Refuse, configVars
    <2> QED
        BY <1>7, <2>1, <2>2 DEF Refuse
<1>8. ASSUME NEW c \in Conns, DaemonEnds(c)
      PROVE  [Service!ServiceNext]_(Service!serviceVars)
    <2>1. CASE client[c] = "served"
        <3>1. /\ ClientView[c] = "served"
              /\ ClientView' = [ClientView EXCEPT ![c] = "closed"]
            BY <1>0, <1>8, <2>1, OneClientStep DEF DaemonEnds, ClientView
        <3> QED
            BY <1>8, <3>1 DEF DaemonEnds, configVars, Service!Finish, Service!Become
    <2>2. CASE client[c] # "served"
        <3>1. client' = client
            BY <1>0, <1>8, <2>2 DEF DaemonEnds, TypeOK
        <3> QED
            BY <1>8, <3>1, <1>1 DEF DaemonEnds
    <2> QED
        BY <2>1, <2>2
<1>9. ASSUME NEW c \in Conns, Connect(c)
      PROVE  Service!ServiceNext
    <2>1. ClientView' = [ClientView EXCEPT ![c] = "waiting"]
        BY <1>0, <1>9 DEF Connect, ClientView, TypeOK
    <2>2. ClientView[c] = "idle"
        BY <1>9 DEF Connect, ClientView
    <2> QED
        BY <1>9, <2>1, <2>2 DEF Connect, configVars, Service!Arrive, Service!Become
<1>10. ASSUME UNCHANGED client, limit' \in Nat
       PROVE  Service!ServiceNext
    BY <1>10 DEF Service!Reconfigure, ClientView
<1>11. CASE ReloadConfig \/ UnloadDatabases
    <2>1. limit' \in Nat
        BY <1>0, <1>11, ServerAssumption
        DEF ReloadConfig, UnloadDatabases, TypeOK, ConfigType
    <2> QED
        BY <1>10, <1>11, <2>1 DEF ReloadConfig, UnloadDatabases
<1>12. CASE SigAlrm
    BY <1>1, <1>5, <1>12 DEF SigAlrm, Interrupt
<1>13. CASE AcceptFails \/ RefuseFatal \/ SigTerm \/ ReloadFails
    BY <1>5, <1>13 DEF AcceptFails, RefuseFatal, SigTerm, ReloadFails
<1>14. CASE Loop \/ SelectReady \/ ForkFails \/ ClearReload \/ SkipReload \/ EditConfig
    BY <1>1, <1>14
    DEF Loop, SelectReady, ForkFails, ClearReload, SkipReload, EditConfig
<1>15. CASE SigHup \/ SigUsr1 \/ SigChld
    BY <1>1, <1>15 DEF SigHup, SigUsr1, SigChld, Interrupt
<1>16. CASE UNCHANGED vars
    BY <1>1, <1>16 DEF vars
<1> HIDE DEF Service!ServiceNext, Service!serviceVars
<1> QED
    BY <1>2, <1>3, <1>4, <1>6, <1>7, <1>8, <1>9, <1>11, <1>12, <1>13, <1>14,
       <1>15, <1>16
    DEF Next, MainLoop, AcceptSome, Dispatch, AfterEintr, SessionEnds, SessionTimesOut

\* A server that starts is a service that starts.
LEMMA ServiceStart == Init => Service!ServiceInit
<1> SUFFICES ASSUME Init PROVE Service!ServiceInit
    OBVIOUS
<1>1. disk \in Configs /\ dbs = disk /\ limit = disk.limit
    BY DEF Init
<1>2. limit \in Nat /\ dbs # Unloaded
    BY <1>1, ServerAssumption DEF ConfigType
<1>3. ClientView = [c \in Conns |-> "idle"]
    BY DEF Init, ClientView
<1> QED
    BY <1>2, <1>3 DEF Service!ServiceInit

\* Processes, counters and signals implement the service: no client is ever
\* served without databases or beyond the limit, and each gets one outcome.
THEOREM ServerImplementsService ==
    ASSUME ~Preprocessor
    PROVE  Spec => ImplementsService
<1>1. ServerInv => stolen = 0
    BY DEF ServerInv, HistoryOK
<1>2. ServerInv /\ [Next]_vars => [Service!ServiceNext]_(Service!serviceVars)
    BY <1>1, ServiceStep
<1> QED
    BY <1>2, ServiceStart, ServerInvariance, PTL
    DEF Spec, ImplementsService, Service!ServiceSpec

=============================================================================
