------------------------ MODULE WildcardPollerProofs ------------------------
(***************************************************************************)
(* Theorems about WildcardPoller for every number of communities and every  *)
(* set of directories, certificates and events.  Build is only expanded in  *)
(* BuildIsClosed and CommunitiesAreSeparate: the other arguments hold for   *)
(* whatever it computes.                                                    *)
(***************************************************************************)
EXTENDS WildcardPoller, TLAPS

\* The processes are the pollers, the watcher and the main goroutine.
LEMMA ProcsFacts ==
  /\ N \in Nat \ {0}
  /\ Communities = 1..N
  /\ Communities \subseteq Procs
  /\ Communities \subseteq 0..N
  /\ 0..N \subseteq Procs
  /\ Watcher \in Procs /\ Watcher \in 0..N /\ Watcher \notin Communities
  /\ Main \in Procs /\ Main \notin Communities /\ Main # Watcher /\ Main \notin 0..N
  /\ \A p \in Procs : p # Nobody
  /\ NoDir \in DirOrNone /\ Dirs \subseteq DirOrNone
  /\ NoCert \in CertOrNone /\ Certs \subseteq CertOrNone
BY ConfigAssumption, PollerAssumption
   DEF Communities, Procs, Watcher, Main, DirOrNone, CertOrNone

\* Build returns a document whatever directories and certificates are held.
LEMMA BuildIsDocument ==
  ASSUME NEW d \in DirMaps, NEW k \in CertMaps
  PROVE  Build(d, k) \in Documents
BY DEF Documents

\* The places of the watcher between its two writes for a community.
Between == {"drop", "clear"}

BetweenInv == pc[Watcher] \in Between => certAt \in Communities
-----------------------------------------------------------------------------
\* The variables begin with their types.
LEMMA TypeInit == Init => TypeOK
<1>1. SUFFICES ASSUME Init PROVE TypeOK
  OBVIOUS
<1>2. running \in Documents \cup {NoDocument} /\ lastHash \in Documents \cup {NoDocument}
  BY <1>1 DEF Init
<1>3. clock \in 0..MaxClock /\ certAt \in 1..(N + 1) /\ readAt \in 1..(N + 1)
  BY <1>1, ProcsFacts, PollerAssumption DEF Init
<1>4. pc \in [Procs -> Places]
  BY <1>1 DEF Init, Places
<1>5. dir \in DirMaps /\ etag \in DirMaps /\ rdirs \in DirMaps
      /\ certs \in CertMaps /\ rcerts \in CertMaps /\ shown \in CertMaps
  BY <1>1, ProcsFacts DEF Init, DirMaps, CertMaps
<1>6. resp \in [Communities -> Answers]
  BY <1>1, ProcsFacts DEF Init, Answers, NoAnswer
<1>7. QED
  BY <1>1, <1>2, <1>3, <1>4, <1>5, <1>6 DEF Init, TypeOK

\* Every step keeps the types; while the watcher is between its two writes,
\* certAt is a community.
LEMMA TypeStep == TypeOK /\ BetweenInv /\ [Next]_vars => TypeOK'
<1> SUFFICES ASSUME TypeOK, BetweenInv, [Next]_vars PROVE TypeOK'
  OBVIOUS
<1> USE ProcsFacts
<1>1. ASSUME NEW c \in Communities, NEW d \in Dirs, Publish(c, d) PROVE TypeOK'
  BY <1>1 DEF TypeOK, Publish, caddy, health, triggers, watcherLocals, regenLocals, history
<1>2. ASSUME NEW c \in Communities, NEW v \in Certs \cup {Unusable}, Rotate(c, v)
      PROVE  TypeOK'
  BY <1>2 DEF TypeOK, Rotate, caddy, health, triggers, watcherLocals, regenLocals, history
<1>3. CASE Tick
  BY <1>3, PollerAssumption
     DEF TypeOK, Tick, caddy, health, triggers, watcherLocals, regenLocals, history
<1>4. CASE ReloadCert
  <2>1. certAt \in Communities /\ shown' \in CertMaps
    BY <1>4 DEF TypeOK, ReloadCert, DatesOf, CertMaps, CertOrNone
  <2>2. QED
    BY <1>4, <2>1 DEF TypeOK, ReloadCert, Usable, CertMaps, CertOrNone, world, caddy,
                triggers, regenLocals, history
<1>5. CASE Spawn
  BY <1>5 DEF TypeOK, Spawn, Places, world, caddy, health, triggers, watcherLocals,
              regenLocals, history
<1>6. CASE waitFirstPoll
  BY <1>6 DEF TypeOK, waitFirstPoll, Goto, Places, world, caddy, health, triggers,
              watcherLocals, regenLocals, history
<1>7. CASE TriggerAll
  BY <1>7 DEF TypeOK, TriggerAll, world, caddy, health, watcherLocals, regenLocals
<1>8. CASE Shutdown
  BY <1>8 DEF TypeOK, Shutdown, Goto, Places, world, caddy, health, triggers,
              watcherLocals, regenLocals, history
<1>9. ASSUME NEW c \in Communities, StartPoll(c) PROVE TypeOK'
  BY <1>9 DEF TypeOK, StartPoll, Goto, Places, world, caddy, health, watcherLocals,
              regenLocals
<1>10. ASSUME NEW c \in Communities, PollOnce(c) PROVE TypeOK'
  <2>1. CASE FetchOK(c)
    BY <2>1 DEF TypeOK, FetchOK, Goto, Places, Answers, Answer, NotModified, world, caddy,
                health, triggers, watcherLocals, regenLocals, history
  <2>2. CASE FetchFails(c)
    BY <2>2 DEF TypeOK, FetchFails, Goto, Places, Answers, NoAnswer, world, caddy, health,
                triggers, watcherLocals, regenLocals, history
  <2>3. CASE PollFailed(c)
    BY <2>3 DEF TypeOK, PollFailed, Goto, Places, world, caddy, triggers, watcherLocals,
                regenLocals, history
  <2>4. CASE PollNotModified(c)
    BY <2>4 DEF TypeOK, PollNotModified, Goto, Places, Answers, NoAnswer, world, caddy,
                triggers, watcherLocals, regenLocals, history
  <2>5. CASE PollUpdated(c)
    <3>1. resp[c].dir \in DirOrNone
      BY DEF TypeOK, Answers
    <3>2. QED
      BY <2>5, <3>1 DEF TypeOK, PollUpdated, Goto, Places, Answers, NoAnswer, DirMaps,
                world, caddy, triggers, watcherLocals, regenLocals, history
  <2>6. QED
    BY <1>10, <2>1, <2>2, <2>3, <2>4, <2>5 DEF PollOnce
<1>11. CASE CheckStep
  <2>1. CASE StartCheck
    <3>1. certTrig' \in BOOLEAN /\ changed' \in BOOLEAN
      BY <2>1 DEF TypeOK, StartCheck
    <3>2. certAt' \in 1..(N + 1) /\ hupOwed' \in [0..N -> BOOLEAN] /\ pc' \in [Procs -> Places]
      BY <2>1 DEF TypeOK, StartCheck, Goto, Places
    <3>3. QED
      BY <2>1, <3>1, <3>2 DEF TypeOK, StartCheck, world, caddy, health, regenLocals
  <2>2. CASE CheckReports
    <3>1. certAt \in Communities /\ shown' \in CertMaps
      BY <2>2 DEF TypeOK, CheckReports, DatesOf, CertMaps, CertOrNone
    <3>2. QED
      BY <2>2, <3>1 DEF TypeOK, CheckReports, Goto, Places, world, caddy, triggers,
                watcherLocals, regenLocals, history
  <2>3. CASE CheckDrops
    <3>1. certAt \in Communities
      BY <2>3 DEF CheckDrops, BetweenInv, Between
    <3>2. certs' \in CertMaps /\ certAt' \in 1..(N + 1) /\ changed' \in BOOLEAN
      BY <2>3, <3>1 DEF TypeOK, CheckDrops, CertMaps
    <3>3. QED
      BY <2>3, <3>2 DEF TypeOK, CheckDrops, Goto, Places, world, caddy, health, triggers,
                regenLocals, history
  <2>4. CASE CheckKeeps
    <3>1. certAt \in Communities /\ disk[certAt] \in CertOrNone
      BY <2>4 DEF TypeOK, CheckKeeps, Usable
    <3>2. certs' \in CertMaps
      BY <2>4, <3>1 DEF TypeOK, CheckKeeps, CertMaps
    <3>3. certAt' \in 1..(N + 1) /\ pc' \in [Procs -> Places]
      BY <2>4, <3>1 DEF TypeOK, CheckKeeps, Goto, Places
    <3>4. QED
      BY <2>4, <3>2, <3>3 DEF TypeOK, CheckKeeps, world, caddy, health, triggers,
                regenLocals, history
  <2>5. CASE CheckClears
    <3>1. certAt \in Communities
      BY <2>5 DEF CheckClears, BetweenInv, Between
    <3>2. certAt' \in 1..(N + 1) /\ shown' \in CertMaps
      BY <2>5, <3>1 DEF TypeOK, CheckClears, CertMaps
    <3>3. QED
      BY <2>5, <3>2 DEF TypeOK, CheckClears, Goto, Places, world, caddy, triggers,
                regenLocals, history
  <2>6. CASE EndCheck
    BY <2>6 DEF TypeOK, EndCheck, Goto, Places, world, caddy, health, triggers,
                watcherLocals, regenLocals, history
  <2>7. QED
    BY <1>11, <2>1, <2>2, <2>3, <2>4, <2>5, <2>6 DEF CheckStep
<1>12. ASSUME NEW p \in Procs, Regenerate(p) PROVE TypeOK'
  <2>1. CASE Acquire(p)
    BY <2>1 DEF TypeOK, Acquire, Goto, Places, world, caddy, health, triggers,
                watcherLocals, history
  <2>2. CASE ReadDir(p)
    BY <2>2 DEF TypeOK, ReadDir, DirMaps, world, caddy, health, triggers, watcherLocals,
                history
  <2>3. CASE BuildDocument(p)
    BY <2>3 DEF TypeOK, BuildDocument, Goto, Places, AfterRegenerate, world, caddy, health,
                triggers, watcherLocals
  <2>4. Posted \in Documents
    BY BuildIsDocument DEF TypeOK, Posted
  <2>5. CaddyLoads(Posted) => /\ running' \in Documents
                              /\ loaded' \in [Communities -> Certs \cup {NoCert}]
    BY <2>4 DEF CaddyLoads, Readable, TypeOK
  <2>6. CASE ApplyOK(p)
    BY <2>4, <2>5, <2>6 DEF TypeOK, ApplyOK, Release, Goto, Places, AfterRegenerate, world,
                health, triggers, watcherLocals, regenLocals
  <2>7. CASE ApplyRejected(p)
    BY <2>7 DEF TypeOK, ApplyRejected, Release, Goto, Places, AfterRegenerate, world,
                caddy, health, triggers, watcherLocals, regenLocals
  <2>8. CASE ApplyUnconfirmed(p)
    BY <2>4, <2>8 DEF TypeOK, ApplyUnconfirmed, Release, Goto, Places, AfterRegenerate,
                world, health, triggers, watcherLocals, regenLocals
  <2>9. QED
    BY <1>12, <2>1, <2>2, <2>3, <2>6, <2>7, <2>8 DEF Regenerate
<1>13. ASSUME NEW p \in 0..N, Exit(p) PROVE TypeOK'
  BY <1>13 DEF TypeOK, Exit, Goto, Places, world, caddy, health, triggers, watcherLocals,
               regenLocals, history
<1>14. ASSUME NEW doc \in unanswered, LateLoad(doc) PROVE TypeOK'
  <2>1. running' \in Documents /\ loaded' \in [Communities -> Certs \cup {NoCert}]
    BY <1>14 DEF LateLoad, CaddyLoads, Readable, TypeOK
  <2>2. QED
    BY <1>14, <2>1 DEF TypeOK, LateLoad, world, health, triggers, watcherLocals, regenLocals,
                history
<1>15. CASE UNCHANGED vars
  BY <1>15 DEF TypeOK, vars, world, caddy, health, triggers, watcherLocals, regenLocals,
               history
<1>16. QED
  BY <1>1, <1>2, <1>3, <1>4, <1>5, <1>6, <1>7, <1>8, <1>9, <1>10, <1>11, <1>12, <1>13,
     <1>14, <1>15 DEF Next, Environment, MainStep
-----------------------------------------------------------------------------
\* Nothing but the main goroutine runs before Spawn.
LEMMA StartStep == TypeOK /\ StartInv /\ [Next]_vars => StartInv'
<1> SUFFICES ASSUME TypeOK, StartInv, [Next]_vars PROVE StartInv'
  OBVIOUS
<1> USE ProcsFacts
<1>1. CASE Environment
  BY <1>1 DEF StartInv, Environment, Publish, Rotate, Tick, LateLoad, history
<1>2. CASE MainStep
  BY <1>2 DEF StartInv, TypeOK, MainStep, ReloadCert, Spawn, waitFirstPoll, TriggerAll,
              Shutdown, Goto, history
<1>3. ASSUME NEW c \in Communities, StartPoll(c) \/ PollOnce(c) PROVE StartInv'
  BY <1>3 DEF StartInv, TypeOK, StartPoll, PollOnce, FetchOK, FetchFails, PollFailed,
              PollNotModified, PollUpdated, Goto, history
<1>4. CASE CheckStep
  BY <1>4 DEF StartInv, TypeOK, CheckStep, StartCheck, CheckReports, CheckDrops, CheckKeeps,
              CheckClears, EndCheck,
              Goto, history
<1>5. ASSUME NEW p \in Procs, Regenerate(p) PROVE StartInv'
  <2>1. pc[p] \in {"lock", "read", "post"}
    BY <1>5 DEF Regenerate, Acquire, ReadDir, BuildDocument, ApplyOK, ApplyRejected,
                ApplyUnconfirmed
  <2>2. p \in 0..N \/ p = Main
    BY DEF Procs, Main
  <2>3. pc[Main] # "reload"
    BY <2>1, <2>2 DEF StartInv
  <2>4. pc'[Main] # "reload"
    BY <1>5, <2>3 DEF TypeOK, Regenerate, Acquire, ReadDir, BuildDocument, ApplyOK,
            ApplyRejected, ApplyUnconfirmed, Release, AfterRegenerate, Goto
  <2>5. QED
    BY <2>4 DEF StartInv
<1>6. ASSUME NEW p \in 0..N, Exit(p) PROVE StartInv'
  BY <1>6 DEF StartInv, TypeOK, Exit, Goto, history
<1>7. CASE UNCHANGED vars
  BY <1>7 DEF StartInv, vars, history
<1>8. QED
  BY <1>1, <1>2, <1>3, <1>4, <1>5, <1>6, <1>7 DEF Next

\* The watcher only stands between two writes for a community.
LEMMA BetweenStep == TypeOK /\ StartInv /\ BetweenInv /\ [Next]_vars => BetweenInv'
<1> SUFFICES ASSUME TypeOK, StartInv, BetweenInv, [Next]_vars PROVE BetweenInv'
  OBVIOUS
<1> USE ProcsFacts DEF BetweenInv, Between
<1>1. CASE pc'[Watcher] = pc[Watcher] /\ certAt' = certAt
  BY <1>1
<1>2. CASE pc'[Watcher] \notin Between
  BY <1>2
<1>3. CASE ReloadCert
  BY <1>3, <1>2 DEF ReloadCert, StartInv
<1>4. CASE CheckStep
  <2>1. CASE CheckReports \/ CheckKeeps
    <3>1. certAt \in Communities /\ (certAt' = certAt \/ (pc' = pc /\ pc[Watcher] = "check"))
      BY <2>1 DEF CheckReports, CheckKeeps, TypeOK, watcherLocals
    <3>2. QED
      BY <3>1
  <2>2. CASE StartCheck \/ CheckDrops \/ CheckClears \/ EndCheck
    BY <2>2 DEF StartCheck, CheckDrops, CheckClears, EndCheck, TypeOK, Goto
  <2>3. QED
    BY <1>4, <2>1, <2>2 DEF CheckStep
<1>5. ASSUME NEW p \in Procs, Regenerate(p) PROVE BetweenInv'
  BY <1>1, <1>2, <1>5 DEF Regenerate, Acquire, ReadDir, BuildDocument, ApplyOK, ApplyRejected,
          ApplyUnconfirmed, Release, AfterRegenerate, Goto, TypeOK, watcherLocals
<1>6. ASSUME NEW c \in Communities, StartPoll(c) \/ PollOnce(c) PROVE BetweenInv'
  BY <1>1, <1>6 DEF StartPoll, PollOnce, FetchOK, FetchFails, PollFailed, PollNotModified,
          PollUpdated, Goto, TypeOK, watcherLocals
<1>7. ASSUME NEW p \in 0..N, Exit(p) PROVE BetweenInv'
  BY <1>1, <1>2, <1>7 DEF Exit, Goto, TypeOK, watcherLocals
<1>8. CASE Spawn \/ waitFirstPoll \/ TriggerAll \/ Shutdown
  BY <1>1, <1>2, <1>8 DEF Spawn, waitFirstPoll, TriggerAll, Shutdown, Goto, TypeOK, watcherLocals
<1>9. CASE Environment \/ UNCHANGED vars
  BY <1>1, <1>9 DEF Environment, Publish, Rotate, Tick, LateLoad, vars, watcherLocals
<1>10. QED
  BY <1>3, <1>4, <1>5, <1>6, <1>7, <1>8, <1>9 DEF Next, MainStep

LEMMA StartInvariants == Spec => [](TypeOK /\ StartInv /\ BetweenInv)
<1>1. Init => StartInv /\ BetweenInv
  BY ProcsFacts DEF Init, StartInv, BetweenInv, Between
<1>2. QED
  BY <1>1, TypeInit, TypeStep, StartStep, BetweenStep, PTL DEF Spec

\* Every variable keeps its type.
THEOREM TypeCorrect == Spec => []TypeOK
BY StartInvariants, PTL

LEMMA StartInvariant == Spec => []StartInv
BY StartInvariants, PTL

\* At most one goroutine is inside regenerate: the holder of regenMu.
LEMMA LockInvariant == Spec => []LockInv
<1>1. Init => LockInv
  BY ProcsFacts DEF Init, LockInv
<1>2. TypeOK /\ StartInv /\ LockInv /\ [Next]_vars => LockInv'
  <2> SUFFICES ASSUME TypeOK, StartInv, LockInv, [Next]_vars PROVE LockInv'
    OBVIOUS
  <2> USE ProcsFacts
  <2>1. CASE Environment
    BY <2>1 DEF LockInv, Environment, Publish, Rotate, Tick, LateLoad
  <2>2. CASE MainStep
    <3>1. CASE Spawn
      <4>1. \A p \in Procs : p \in 0..N \/ p = Main
        BY DEF Procs, Main
      <4>2. \A p \in Procs : pc[p] \notin {"read", "post"} /\ pc'[p] \notin {"read", "post"}
        BY <3>1, <4>1 DEF Spawn, StartInv
      <4>3. QED
        BY <3>1, <4>2 DEF LockInv, Spawn
    <3>2. CASE ReloadCert \/ waitFirstPoll \/ TriggerAll \/ Shutdown
      BY <3>2 DEF LockInv, TypeOK, ReloadCert, waitFirstPoll, TriggerAll, Shutdown, Goto
    <3>3. QED
      BY <2>2, <3>1, <3>2 DEF MainStep
  <2>3. ASSUME NEW c \in Communities, StartPoll(c) \/ PollOnce(c) PROVE LockInv'
    BY <2>3 DEF LockInv, TypeOK, StartPoll, PollOnce, FetchOK, FetchFails, PollFailed,
                PollNotModified, PollUpdated, Goto
  <2>4. CASE CheckStep
    BY <2>4 DEF LockInv, TypeOK, CheckStep, StartCheck, CheckReports, CheckDrops, CheckKeeps, CheckClears, EndCheck, Goto
  <2>5. ASSUME NEW p \in Procs, Regenerate(p) PROVE LockInv'
    <3>1. CASE Acquire(p)
      BY <3>1 DEF LockInv, TypeOK, Acquire, Goto
    <3>2. CASE ReadDir(p)
      BY <3>2 DEF LockInv, ReadDir
    <3>3. CASE BuildDocument(p)
      BY <3>3 DEF LockInv, TypeOK, BuildDocument, AfterRegenerate, Goto
    <3>4. CASE ApplyOK(p) \/ ApplyRejected(p) \/ ApplyUnconfirmed(p)
      BY <3>4 DEF LockInv, TypeOK, ApplyOK, ApplyRejected, ApplyUnconfirmed, Release,
                  AfterRegenerate, Goto
    <3>5. QED
      BY <2>5, <3>1, <3>2, <3>3, <3>4 DEF Regenerate
  <2>6. ASSUME NEW p \in 0..N, Exit(p) PROVE LockInv'
    BY <2>6 DEF LockInv, TypeOK, Exit, Goto
  <2>7. CASE UNCHANGED vars
    BY <2>7 DEF LockInv, vars
  <2>8. QED
    BY <2>1, <2>2, <2>3, <2>4, <2>5, <2>6, <2>7 DEF Next
<1>3. QED
  BY <1>1, <1>2, TypeCorrect, StartInvariant, PTL DEF Spec
-----------------------------------------------------------------------------
\* The invariant behind InSync.  Each step is looked at for what it can
\* disturb: a poll makes one directory stale and owes a regenerate, a check does
\* so for the certificates, and a regenerate pays; only an answer that arrives
\* changes what is confirmed.
LEMMA SyncInvariant == Spec => []SyncInv
<1>1. Init => SyncInv
  BY ProcsFacts DEF Init, SyncInv
<1>2. TypeOK /\ StartInv /\ BetweenInv /\ LockInv /\ SyncInv /\ [Next]_vars => SyncInv'
  <2> SUFFICES ASSUME TypeOK, StartInv, BetweenInv, LockInv, SyncInv, [Next]_vars
               PROVE  SyncInv'
    OBVIOUS
  <2> USE ProcsFacts
  <2>1. CASE Environment
    <3>1. CASE \E doc \in unanswered : LateLoad(doc)
      BY <3>1 DEF SyncInv, DirFresh, CertsFresh, WatcherOwes, LateLoad, CaddyLoads, health, regenLocals,
                  watcherLocals, history
    <3>2. CASE UNCHANGED caddy
      BY <2>1, <3>2 DEF SyncInv, DirFresh, CertsFresh, WatcherOwes, Environment, Publish, Rotate, Tick,
              LateLoad, caddy, health, regenLocals, watcherLocals, history
    <3>3. QED
      BY <2>1, <3>1, <3>2 DEF Environment, Publish, Rotate, Tick
  <2>2. CASE MainStep
    <3>1. CASE ReloadCert \/ Spawn
      <4>1. \A p \in Procs : p \in 0..N \/ p = Main
        BY DEF Procs, Main
      <4>2. \A p \in Procs : pc'[p] \notin {"read", "post"}
        BY <3>1, <4>1 DEF ReloadCert, Spawn, StartInv
      <4>3. outcome' # "ok"
        BY <3>1 DEF ReloadCert, Spawn, StartInv, history
      <4>4. running' = lastHash' \/ running' \in unanswered'
        BY <3>1 DEF ReloadCert, Spawn, SyncInv, caddy
      <4>5. QED
        BY <4>2, <4>3, <4>4 DEF SyncInv
    <3>2. CASE waitFirstPoll \/ TriggerAll \/ Shutdown
      <4>1. /\ UNCHANGED <<caddy, lastHash, dir, certs, changed, regenMu, readAt, rdirs, rcerts,
                           outcome>>
            /\ \A p \in 0..N : pc'[p] = pc[p]
            /\ pc'[Main] \notin {"read", "post"} \/ pc' = pc
        BY <3>2 DEF TypeOK, waitFirstPoll, TriggerAll, Shutdown, Goto, caddy, health, regenLocals,
                watcherLocals, history
      <4>2. \A k \in Communities : DirFresh(k) => DirFresh(k)'
        BY <4>1 DEF DirFresh
      <4>3. CertsFresh => CertsFresh'
        BY <4>1 DEF CertsFresh, WatcherOwes
      <4>4. \A p \in Procs : p \in 0..N \/ p = Main
        BY DEF Procs, Main
      <4>5. \A p \in Procs : pc'[p] \in {"read", "post"} => pc[p] = pc'[p]
        BY <4>1, <4>4
      <4>6. QED
        BY <4>1, <4>2, <4>3, <4>5 DEF SyncInv, caddy
    <3>3. QED
      BY <2>2, <3>1, <3>2 DEF MainStep
  <2>3. ASSUME NEW c \in Communities, StartPoll(c) \/ PollOnce(c) PROVE SyncInv'
    <3>1. /\ UNCHANGED <<caddy, lastHash, certs, regenMu, changed, readAt, rdirs, rcerts, outcome>>
          /\ \A p \in Procs : p # c => pc'[p] = pc[p]
          /\ pc'[c] \notin {"read", "post"}
          /\ pc[c] # "lock"
      BY <2>3 DEF TypeOK, StartPoll, PollOnce, FetchOK, FetchFails, PollFailed,
                  PollNotModified, PollUpdated, Goto, regenLocals, watcherLocals, history
    <3>2. \A k \in Communities : dir'[k] = dir[k] \/ pc'[k] = "lock"
      BY <2>3 DEF TypeOK, DirMaps, StartPoll, PollOnce, FetchOK, FetchFails, PollFailed,
                  PollNotModified, PollUpdated, Goto, health
    <3>3. \A k \in Communities : DirFresh(k) => DirFresh(k)'
      BY <3>1, <3>2 DEF DirFresh
    <3>4. CertsFresh => CertsFresh'
      BY <3>1 DEF CertsFresh, WatcherOwes
    <3>5. QED
      BY <3>1, <3>3, <3>4 DEF SyncInv, caddy
  <2>4. CASE CheckStep
    <3>1. /\ UNCHANGED <<caddy, lastHash, dir, regenMu, readAt, rdirs, rcerts, outcome>>
          /\ \A p \in Procs : p # Watcher => pc'[p] = pc[p]
          /\ pc'[Watcher] \notin {"read", "post"}
      BY <2>4 DEF TypeOK, CheckStep, StartCheck, CheckReports, CheckDrops, CheckKeeps, CheckClears, EndCheck, Goto,
                  health, regenLocals, history
    <3>2. \A k \in Communities : DirFresh(k) => DirFresh(k)'
      BY <3>1 DEF DirFresh
    <3>3. CertsFresh => CertsFresh'
      <4>1. CASE StartCheck \/ EndCheck
        BY <4>1 DEF CertsFresh, WatcherOwes, StartCheck, EndCheck, Goto, TypeOK, regenLocals
      <4>2. CASE CheckReports \/ CheckClears
        BY <4>2 DEF CertsFresh, WatcherOwes, CheckReports, CheckClears, Goto, TypeOK,
                watcherLocals, regenLocals
      <4>3. CASE CheckDrops
        <5>1. certAt \in Communities /\ pc'[Watcher] = "check" /\ rcerts' = rcerts
          BY <4>3 DEF CheckDrops, BetweenInv, Between, TypeOK, Goto, regenLocals
        <5>2. CASE certs[certAt] = NoCert
          <6>1. certs' = certs
            BY <4>3, <5>1, <5>2 DEF CheckDrops, TypeOK, CertMaps
          <6>2. QED
            BY <4>3, <5>1, <6>1 DEF CertsFresh, WatcherOwes, CheckDrops
        <5>3. CASE certs[certAt] # NoCert
          BY <4>3, <5>1, <5>3 DEF CertsFresh, WatcherOwes, CheckDrops
        <5>4. QED
          BY <5>2, <5>3
      <4>4. CASE CheckKeeps
        <5>1. certAt \in Communities /\ rcerts' = rcerts /\ changed' = changed
          BY <4>4 DEF CheckKeeps, TypeOK, regenLocals
        <5>2. CASE certs[certAt] = disk[certAt]
          <6>1. certs' = certs /\ pc' = pc
            BY <4>4, <5>1, <5>2 DEF CheckKeeps, TypeOK, CertMaps
          <6>2. QED
            BY <5>1, <6>1 DEF CertsFresh, WatcherOwes
        <5>3. CASE certs[certAt] # disk[certAt]
          BY <4>4, <5>3 DEF CertsFresh, WatcherOwes, CheckKeeps, Goto, TypeOK
        <5>4. QED
          BY <5>2, <5>3
      <4>5. QED
        BY <2>4, <4>1, <4>2, <4>3, <4>4 DEF CheckStep
    <3>4. QED
      BY <3>1, <3>2, <3>3 DEF SyncInv, caddy
  <2>5. ASSUME NEW p \in Procs, Regenerate(p) PROVE SyncInv'
    <3>0. UNCHANGED <<dir, certs, changed>> /\ \A q \in Procs : q # p => pc'[q] = pc[q]
      BY <2>5 DEF TypeOK, Regenerate, Acquire, ReadDir, BuildDocument, ApplyOK,
              ApplyRejected, ApplyUnconfirmed, Release, Goto, health, watcherLocals
    <3>1. CASE Acquire(p)
      <4>1. regenMu = Nobody /\ regenMu' = p /\ readAt' = 1 /\ p # Nobody
        BY <3>1 DEF Acquire
      <4>2. \A q \in Procs : pc'[q] # "post"
        BY <3>0, <3>1, <4>1 DEF Acquire, LockInv, TypeOK, Goto
      <4>3. QED
        BY <3>1, <4>1, <4>2 DEF SyncInv, Acquire, caddy
    <3>2. CASE ReadDir(p)
      <4>1. readAt \in Communities /\ pc[p] = "read" /\ regenMu = p /\ pc' = pc
        BY <3>2 DEF ReadDir, TypeOK, LockInv
      <4>2. \A c \in Communities : c < readAt => DirFresh(c)
        BY <4>1 DEF SyncInv
      <4>3. \A c \in Communities : c < readAt' => DirFresh(c)'
        BY <3>0, <3>2, <4>1, <4>2 DEF ReadDir, DirFresh, TypeOK, DirMaps
      <4>4. \A q \in Procs : pc'[q] # "post"
        BY <4>1 DEF LockInv
      <4>5. QED
        BY <3>2, <4>1, <4>3, <4>4 DEF SyncInv, ReadDir, caddy, history
    <3>3. CASE BuildDocument(p)
      <4>1. pc[p] = "read" /\ regenMu = p /\ rdirs' = rdirs /\ rcerts' = certs
            /\ UNCHANGED <<running, unanswered, lastHash>>
        BY <3>3 DEF BuildDocument, LockInv, caddy
      <4>2. \A c \in Communities : DirFresh(c)
        BY <3>3, <4>1 DEF SyncInv, BuildDocument, TypeOK
      <4>3. \A c \in Communities : DirFresh(c)'
        BY <3>0, <4>1, <4>2 DEF DirFresh
      <4>4. CertsFresh'
        BY <3>0, <4>1 DEF CertsFresh
      <4>5. \A q \in Procs : pc'[q] # "read"
        BY <3>0, <3>3, <4>1 DEF LockInv, BuildDocument, TypeOK, Goto, AfterRegenerate
      <4>6. regenMu' = Nobody => lastHash' = Build(rdirs', rcerts')
        BY <3>3, <4>1 DEF BuildDocument, SyncInv
      <4>7. QED
        BY <4>1, <4>3, <4>4, <4>5, <4>6 DEF SyncInv
    <3>4. CASE ApplyOK(p)
      <4>1. pc[p] = "post" /\ regenMu = p /\ rdirs' = rdirs /\ rcerts' = rcerts
            /\ running' = Build(rdirs', rcerts') /\ lastHash' = running'
        BY <3>4 DEF ApplyOK, LockInv, CaddyLoads, Posted, regenLocals
      <4>2. CertsFresh /\ \A c \in Communities : DirFresh(c)
        BY <4>1 DEF SyncInv
      <4>3. CertsFresh' /\ \A c \in Communities : DirFresh(c)'
        BY <3>0, <4>1, <4>2 DEF CertsFresh, WatcherOwes, DirFresh
      <4>4. \A q \in Procs : pc'[q] \notin {"read", "post"}
        BY <3>0, <3>4, <4>1 DEF LockInv, ApplyOK, Release, TypeOK, Goto, AfterRegenerate
      <4>5. QED
        BY <4>1, <4>3, <4>4 DEF SyncInv
    <3>5. CASE ApplyRejected(p)
      <4>1. outcome' = "error" /\ UNCHANGED <<lastHash, running, unanswered>> /\ regenMu = p
        BY <3>5 DEF ApplyRejected, Release, LockInv, caddy
      <4>2. \A q \in Procs : pc'[q] \notin {"read", "post"}
        BY <3>0, <3>5, <4>1 DEF LockInv, ApplyRejected, Release, TypeOK, Goto, AfterRegenerate
      <4>3. QED
        BY <4>1, <4>2 DEF SyncInv
    <3>6. CASE ApplyUnconfirmed(p)
      <4>1. /\ outcome' = "error" /\ UNCHANGED <<lastHash, running>> /\ regenMu = p
            /\ unanswered \subseteq unanswered'
        BY <3>6 DEF ApplyUnconfirmed, Release, LockInv
      <4>2. \A q \in Procs : pc'[q] \notin {"read", "post"}
        BY <3>0, <3>6, <4>1 DEF LockInv, ApplyUnconfirmed, Release, TypeOK, Goto, AfterRegenerate
      <4>3. QED
        BY <4>1, <4>2 DEF SyncInv
    <3>7. QED
      BY <2>5, <3>1, <3>2, <3>3, <3>4, <3>5, <3>6 DEF Regenerate
  <2>6. ASSUME NEW p \in 0..N, Exit(p) PROVE SyncInv'
    BY <2>6 DEF SyncInv, DirFresh, CertsFresh, WatcherOwes, TypeOK, Exit, Goto, caddy, health,
                regenLocals, watcherLocals, history
  <2>7. CASE UNCHANGED vars
    BY <2>7 DEF SyncInv, DirFresh, CertsFresh, WatcherOwes, vars, caddy, health, watcherLocals,
                regenLocals, history
  <2>8. QED
    BY <2>1, <2>2, <2>3, <2>4, <2>5, <2>6, <2>7 DEF Next
<1>3. QED
  BY <1>1, <1>2, StartInvariants, LockInvariant, PTL DEF Spec

\* Whenever the last regenerate succeeded and no goroutine owes another, the
\* confirmed document is the one for the directories and certificates held, and
\* Caddy runs it or one POSTed later whose answer was lost, for any number of
\* communities.
THEOREM CaddyInSync == Spec => []InSync
<1>1. TypeOK /\ LockInv /\ SyncInv => InSync
  <2> SUFFICES ASSUME TypeOK, LockInv, SyncInv, outcome = "ok", ~Regenerating
               PROVE  lastHash = Build(dir, certs)
    BY DEF InSync, SyncInv
  <2>1. regenMu = Nobody
    BY DEF TypeOK, LockInv, Regenerating
  <2>2. rcerts = certs
    BY <2>1, ProcsFacts DEF SyncInv, CertsFresh, Regenerating
  <2>3. \A c \in Communities : rdirs[c] = dir[c]
    BY <2>1, ProcsFacts DEF SyncInv, DirFresh, Regenerating
  <2>4. rdirs = dir
    BY <2>3 DEF TypeOK, DirMaps
  <2>5. QED
    BY <2>1, <2>2, <2>4 DEF SyncInv
<1>2. QED
  BY <1>1, TypeCorrect, LockInvariant, SyncInvariant, PTL
-----------------------------------------------------------------------------
\* No SIGHUP is lost to the coalescing of the trigger channels.
THEOREM SighupNotLost == Spec => []NoLostHup
<1>1. Init => NoLostHup
  BY ProcsFacts DEF Init, NoLostHup
<1>2. TypeOK /\ NoLostHup /\ [Next]_vars => NoLostHup'
  <2> SUFFICES ASSUME TypeOK, NoLostHup, [Next]_vars PROVE NoLostHup'
    OBVIOUS
  <2> USE ProcsFacts
  <2>1. ASSUME UNCHANGED <<trig, certTrig, hupOwed>> PROVE NoLostHup'
    BY <2>1 DEF NoLostHup
  <2>2. CASE TriggerAll
    BY <2>2 DEF NoLostHup, TriggerAll
  <2>3. ASSUME NEW c \in Communities, StartPoll(c) PROVE NoLostHup'
    <3>1. hupOwed'[Watcher] = hupOwed[Watcher] /\ certTrig' = certTrig
      BY <2>3 DEF StartPoll, TypeOK
    <3>2. \A k \in Communities : hupOwed'[k] => trig'[k]
      BY <2>3 DEF StartPoll, TypeOK, NoLostHup
    <3>3. QED
      BY <3>1, <3>2 DEF NoLostHup
  <2>4. CASE StartCheck
    <3>1. ~hupOwed'[Watcher] /\ trig' = trig
      BY <2>4 DEF StartCheck, TypeOK
    <3>2. \A k \in Communities : hupOwed'[k] = hupOwed[k]
      BY <2>4 DEF StartCheck, TypeOK
    <3>3. QED
      BY <3>1, <3>2 DEF NoLostHup
  <2>5. QED
    BY <2>1, <2>2, <2>3, <2>4
       DEF Next, vars, Environment, Publish, Rotate, Tick, LateLoad, MainStep, ReloadCert, Spawn,
           waitFirstPoll, Shutdown, PollOnce, FetchOK, FetchFails, PollFailed,
           PollNotModified, PollUpdated, CheckStep, CheckReports, CheckDrops, CheckKeeps,
           CheckClears, EndCheck,
           Regenerate, Acquire, ReadDir, BuildDocument, ApplyOK, ApplyRejected,
           ApplyUnconfirmed, Exit, triggers, history
<1>3. QED
  BY <1>1, <1>2, TypeCorrect, PTL DEF Spec

\* The ETag that will be sent names the directory held, so no 304 can pin a
\* community to another directory than the one it confirms.
THEOREM ETagIsOfDirectory == Spec => []ETagNamesDirectory
<1>1. Init => ETagNamesDirectory
  BY DEF Init, ETagNamesDirectory
<1>2. TypeOK /\ ETagNamesDirectory /\ [Next]_vars => ETagNamesDirectory'
  <2> SUFFICES ASSUME TypeOK, ETagNamesDirectory, [Next]_vars PROVE ETagNamesDirectory'
    OBVIOUS
  <2>1. ASSUME UNCHANGED <<dir, etag>> PROVE ETagNamesDirectory'
    BY <2>1 DEF ETagNamesDirectory
  <2>2. ASSUME NEW c \in Communities, PollUpdated(c) PROVE ETagNamesDirectory'
    BY <2>2 DEF ETagNamesDirectory, PollUpdated, TypeOK, DirMaps
  <2>3. QED
    BY <2>1, <2>2
       DEF Next, vars, Environment, Publish, Rotate, Tick, LateLoad, MainStep, ReloadCert, Spawn,
           waitFirstPoll, TriggerAll, Shutdown, StartPoll, PollOnce, FetchOK, FetchFails,
           PollFailed, PollNotModified, CheckStep, StartCheck, CheckReports, CheckDrops,
           CheckKeeps, CheckClears, EndCheck, Regenerate, Acquire, ReadDir, BuildDocument, ApplyOK, ApplyRejected,
           ApplyUnconfirmed, Exit, health
<1>3. QED
  BY <1>1, <1>2, TypeCorrect, PTL DEF Spec

\* The watcher is between its two writes for community c.
Writing(c) == pc[Watcher] \in Between /\ certAt = c

\* While reloadAllCerts runs, the communities from certAt on have no bundle; for
\* the others an error is reported if and only if there is none, except between
\* the two writes of a check, the first of which reports or stores.
CertInv ==
  \A c \in Communities :
    /\ pc[Main] = "reload" /\ certAt <= c => certs[c] = NoCert
    /\ ~(pc[Main] = "reload" /\ certAt <= c) /\ ~Writing(c)
         => (certErr[c] <=> certs[c] = NoCert)
    /\ pc[Watcher] = "drop" /\ certAt = c => certErr[c]
    /\ pc[Watcher] = "clear" /\ certAt = c => certs[c] # NoCert

LEMMA CertInvariant == Spec => []CertInv
<1>1. Init => CertInv
  BY ProcsFacts DEF Init, CertInv
<1>2. TypeOK /\ StartInv /\ BetweenInv /\ CertInv /\ [Next]_vars => CertInv'
  <2> SUFFICES ASSUME TypeOK, StartInv, BetweenInv, CertInv, [Next]_vars PROVE CertInv'
    OBVIOUS
  <2> USE ProcsFacts
  <2>1. ASSUME UNCHANGED <<certs, certErr>>, pc'[Main] = "reload" => pc[Main] = "reload" /\ certAt' = certAt,
               pc[Main] = "reload" /\ pc'[Main] # "reload" => certAt > N,
               \/ pc'[Watcher] = pc[Watcher] /\ certAt' = certAt
               \/ pc[Watcher] \notin Between /\ pc'[Watcher] \notin Between
        PROVE  CertInv'
    <3> SUFFICES ASSUME NEW c \in Communities
                 PROVE  /\ pc'[Main] = "reload" /\ certAt' <= c => certs'[c] = NoCert
                        /\ ~(pc'[Main] = "reload" /\ certAt' <= c) /\ ~Writing(c)'
                             => (certErr'[c] <=> certs'[c] = NoCert)
                        /\ pc'[Watcher] = "drop" /\ certAt' = c => certErr'[c]
                        /\ pc'[Watcher] = "clear" /\ certAt' = c => certs'[c] # NoCert
      BY DEF CertInv
    <3>1. Writing(c)' <=> Writing(c)
      BY <2>1 DEF Writing
    <3>2. pc'[Main] = "reload" /\ certAt' <= c => certs'[c] = NoCert
      BY <2>1 DEF CertInv
    <3>3. ASSUME ~(pc'[Main] = "reload" /\ certAt' <= c), ~Writing(c)'
          PROVE  certErr'[c] <=> certs'[c] = NoCert
      <4>1. ~(pc[Main] = "reload" /\ certAt <= c)
        BY <2>1, <3>3 DEF TypeOK
      <4>2. QED
        BY <2>1, <3>1, <3>3, <4>1 DEF CertInv
    <3>4. /\ pc'[Watcher] = "drop" /\ certAt' = c => certErr'[c]
          /\ pc'[Watcher] = "clear" /\ certAt' = c => certs'[c] # NoCert
      BY <2>1 DEF CertInv, Between
    <3>5. QED
      BY <3>2, <3>3, <3>4
  <2>2. CASE ReloadCert
    <3>1. /\ pc'[Main] = "reload" /\ pc[Main] = "reload"
          /\ certAt \in Communities /\ certAt' = certAt + 1
          /\ pc[Watcher] \notin Between /\ pc'[Watcher] \notin Between
      BY <2>2 DEF ReloadCert, TypeOK, StartInv, Between
    <3>2. \A c \in Communities : c # certAt => certs'[c] = certs[c] /\ certErr'[c] = certErr[c]
      BY <2>2 DEF ReloadCert, TypeOK, CertMaps
    <3>3. certErr'[certAt] <=> certs'[certAt] = NoCert
      <4>0. certAt <= certAt
        BY <3>1
      <4>1. certs[certAt] = NoCert
        BY <3>1, <4>0 DEF CertInv
      <4>2. CASE Usable(certAt)
        <5>1. disk[certAt] # NoCert
          BY <3>1, <4>2, ConfigAssumption DEF Usable, TypeOK
        <5>2. QED
          BY <2>2, <3>1, <4>2, <5>1 DEF ReloadCert, TypeOK, CertMaps
      <4>3. CASE ~Usable(certAt)
        BY <2>2, <3>1, <4>1, <4>3 DEF ReloadCert, TypeOK, CertMaps
      <4>4. QED
        BY <4>2, <4>3
    <3>4. QED
      BY <3>1, <3>2, <3>3 DEF CertInv, Writing, Between
  <2>3. CASE Spawn
    BY <2>1, <2>3 DEF Spawn, StartInv, Between, health, watcherLocals
  <2>4. CASE CheckReports \/ CheckDrops \/ CheckKeeps \/ CheckClears
    <3>1. pc[Main] # "reload" /\ pc'[Main] # "reload" /\ certAt \in Communities
      <4>1. pc[Main] # "reload" /\ pc'[Main] = pc[Main]
        BY <2>4 DEF StartInv, CheckReports, CheckDrops, CheckKeeps, CheckClears, TypeOK, Goto
      <4>2. certAt \in Communities
        BY <2>4 DEF BetweenInv, Between, CheckReports, CheckDrops, CheckKeeps, CheckClears,
                TypeOK
      <4>3. QED
        BY <4>1, <4>2
    <3>2. \A c \in Communities : c # certAt =>
            certs'[c] = certs[c] /\ certErr'[c] = certErr[c] /\ ~Writing(c) /\ ~Writing(c)'
      <4>1. \A c \in Communities : c # certAt => certs'[c] = certs[c] /\ certErr'[c] = certErr[c]
        BY <2>4, <3>1 DEF CheckReports, CheckDrops, CheckKeeps, CheckClears, TypeOK, CertMaps,
                health
      <4>2. certAt' = certAt \/ pc'[Watcher] = "check"
        BY <2>4, <3>1 DEF CheckReports, CheckDrops, CheckKeeps, CheckClears, Goto, TypeOK,
                watcherLocals
      <4>3. QED
        BY <4>1, <4>2 DEF Writing, Between
    <3>3. /\ ~(pc'[Watcher] \in Between /\ certAt' = certAt)
               => (certErr'[certAt] <=> certs'[certAt] = NoCert)
          /\ pc'[Watcher] = "drop" => certErr'[certAt]
          /\ pc'[Watcher] = "clear" => certs'[certAt] # NoCert
      <4>1. CASE CheckReports
        BY <3>1, <4>1 DEF CheckReports, Goto, TypeOK, Between, watcherLocals
      <4>2. CASE CheckDrops
        <5>1. certErr[certAt]
          BY <3>1, <4>2 DEF CheckDrops, CertInv
        <5>2. certErr'[certAt] /\ certs'[certAt] = NoCert /\ pc'[Watcher] = "check"
          BY <3>1, <4>2, <5>1 DEF CheckDrops, Goto, TypeOK, CertMaps, health
        <5>3. QED
          BY <5>2
      <4>3. CASE CheckKeeps /\ certs[certAt] = disk[certAt]
        <5>1. certs' = certs /\ certErr' = certErr /\ pc' = pc /\ pc[Watcher] = "check"
          BY <3>1, <4>3 DEF CheckKeeps, TypeOK, CertMaps, health
        <5>2. certErr[certAt] <=> certs[certAt] = NoCert
          BY <3>1, <5>1 DEF CertInv, Writing, Between
        <5>3. QED
          BY <5>1, <5>2
      <4>4. CASE CheckKeeps /\ certs[certAt] # disk[certAt]
        <5>1. pc'[Watcher] = "clear" /\ certAt' = certAt
          BY <4>4 DEF CheckKeeps, Goto, TypeOK
        <5>2. certs'[certAt] = disk[certAt]
          BY <3>1, <4>4 DEF CheckKeeps, TypeOK, CertMaps
        <5>3. disk[certAt] # NoCert
          BY <3>1, <4>4, ConfigAssumption DEF CheckKeeps, Usable, TypeOK
        <5>4. QED
          BY <5>1, <5>2, <5>3 DEF Between
      <4>5. CASE CheckClears
        <5>1. certs[certAt] # NoCert
          BY <3>1, <4>5 DEF CheckClears, CertInv
        <5>2. ~certErr'[certAt] /\ certs' = certs /\ pc'[Watcher] = "check"
          BY <3>1, <4>5 DEF CheckClears, Goto, TypeOK
        <5>3. QED
          BY <5>1, <5>2
      <4>6. QED
        BY <2>4, <4>1, <4>2, <4>3, <4>4, <4>5
    <3>4. certAt' = certAt \/ pc'[Watcher] = "check"
      BY <2>4, <3>1 DEF CheckReports, CheckDrops, CheckKeeps, CheckClears, Goto, TypeOK,
              watcherLocals
    <3>5. QED
      <4> SUFFICES ASSUME NEW c \in Communities
                   PROVE  /\ ~Writing(c)' => (certErr'[c] <=> certs'[c] = NoCert)
                          /\ pc'[Watcher] = "drop" /\ certAt' = c => certErr'[c]
                          /\ pc'[Watcher] = "clear" /\ certAt' = c => certs'[c] # NoCert
        BY <3>1 DEF CertInv
      <4>1. CASE c = certAt
        BY <3>3, <4>1 DEF Writing
      <4>2. CASE c # certAt
        <5>1. certErr[c] <=> certs[c] = NoCert
          BY <3>1, <3>2, <4>2 DEF CertInv
        <5>2. QED
          BY <3>2, <3>4, <4>2, <5>1
      <4>3. QED
        BY <4>1, <4>2
  <2>5. CASE Environment \/ TriggerAll
    BY <2>1, <2>5 DEF Environment, Publish, Rotate, Tick, LateLoad, TriggerAll, health,
            watcherLocals
  <2>6. CASE waitFirstPoll \/ Shutdown
    BY <2>1, <2>6 DEF waitFirstPoll, Shutdown, Goto, TypeOK, health, watcherLocals
  <2>7. ASSUME NEW c \in Communities, StartPoll(c) \/ PollOnce(c) PROVE CertInv'
    <3>1. UNCHANGED <<certs, certErr, certAt>> /\ pc'[Main] = pc[Main] /\ pc'[Watcher] = pc[Watcher]
      BY <2>7 DEF StartPoll, PollOnce, FetchOK, FetchFails, PollFailed, PollNotModified,
              PollUpdated, Goto, TypeOK, health, watcherLocals
    <3>2. QED
      BY <2>1, <3>1
  <2>8. CASE StartCheck \/ EndCheck
    <3>1. /\ UNCHANGED <<certs, certErr>> /\ pc[Main] # "reload" /\ pc'[Main] = pc[Main]
          /\ pc[Watcher] \notin Between /\ pc'[Watcher] \notin Between
      BY <2>8 DEF StartInv, StartCheck, EndCheck, Goto, TypeOK, Between, health
    <3>2. QED
      BY <2>1, <3>1
  <2>9. ASSUME NEW p \in Procs, Regenerate(p) PROVE CertInv'
    <3>1. /\ pc[p] \in {"lock", "read", "post"}
          /\ \E place \in {"read", "post", "serve", "select"} :
               pc' = pc \/ pc' = [pc EXCEPT ![p] = place]
      BY <2>9 DEF Regenerate, Acquire, ReadDir, BuildDocument, ApplyOK, ApplyRejected,
              ApplyUnconfirmed, Release, Goto, AfterRegenerate
    <3>2. UNCHANGED <<certs, certErr, certAt>>
      BY <2>9 DEF Regenerate, Acquire, ReadDir, BuildDocument, ApplyOK, ApplyRejected,
              ApplyUnconfirmed, health, watcherLocals
    <3>3. /\ (pc'[Main] = "reload") <=> (pc[Main] = "reload")
          /\ \/ pc'[Watcher] = pc[Watcher]
             \/ pc[Watcher] \notin Between /\ pc'[Watcher] \notin Between
      BY <3>1 DEF TypeOK, Between
    <3>4. QED
      BY <2>1, <3>2, <3>3
  <2>10. ASSUME NEW p \in 0..N, Exit(p) PROVE CertInv'
    <3>1. /\ UNCHANGED <<certs, certErr, certAt>> /\ pc'[Main] = pc[Main]
          /\ \/ pc'[Watcher] = pc[Watcher]
             \/ pc[Watcher] \notin Between /\ pc'[Watcher] \notin Between
      BY <2>10 DEF Exit, Goto, TypeOK, Between, health, watcherLocals
    <3>2. QED
      BY <2>1, <3>1
  <2>11. CASE UNCHANGED vars
    BY <2>1, <2>11 DEF vars, health, watcherLocals
  <2>12. QED
    BY <2>2, <2>3, <2>4, <2>5, <2>6, <2>7, <2>8, <2>9, <2>10, <2>11
       DEF Next, MainStep, CheckStep
<1>3. QED
  BY <1>1, <1>2, StartInvariants, PTL DEF Spec

\* The dates in Health are those of the certificate held, if one is, except
\* between the two writes of a check.
DatesInv ==
  \A c \in Communities : certs[c] # NoCert /\ ~Writing(c) => shown[c] = certs[c]

LEMMA DatesInvariant == Spec => []DatesInv
<1>1. Init => DatesInv
  BY DEF Init, DatesInv
<1>2. TypeOK /\ StartInv /\ BetweenInv /\ CertInv /\ DatesInv /\ [Next]_vars => DatesInv'
  <2> SUFFICES ASSUME TypeOK, StartInv, BetweenInv, CertInv, DatesInv, [Next]_vars
               PROVE  DatesInv'
    OBVIOUS
  <2> USE ProcsFacts
  <2>1. ASSUME NEW d \in Communities,
               \A c \in Communities : c # d =>
                 certs'[c] = certs[c] /\ shown'[c] = shown[c] /\ ~Writing(c),
               \/ pc'[Watcher] \in Between /\ certAt' = d
               \/ certs'[d] # NoCert => shown'[d] = certs'[d]
        PROVE  DatesInv'
    BY <2>1 DEF DatesInv, Writing
  <2>2. CASE ReloadCert
    <3>1. certAt \in Communities /\ certAt <= certAt
      BY <2>2 DEF ReloadCert, TypeOK
    <3>2. certs[certAt] = NoCert
      BY <2>2, <3>1 DEF ReloadCert, CertInv
    <3>3. \A c \in Communities : c # certAt =>
            certs'[c] = certs[c] /\ shown'[c] = shown[c] /\ ~Writing(c)
      BY <2>2 DEF ReloadCert, TypeOK, CertMaps, StartInv, Writing, Between
    <3>4. certs'[certAt] # NoCert => shown'[certAt] = certs'[certAt]
      BY <2>2, <3>1, <3>2 DEF ReloadCert, Usable, DatesOf, TypeOK, CertMaps
    <3>5. QED
      BY <2>1, <3>1, <3>3, <3>4
  <2>3. CASE CheckReports
    <3>1. /\ certAt \in Communities /\ certs' = certs /\ pc[Watcher] \notin Between
          /\ pc'[Watcher] \in Between /\ certAt' = certAt
      BY <2>3 DEF CheckReports, TypeOK, Goto, Between, watcherLocals
    <3>2. \A c \in Communities : c # certAt => shown'[c] = shown[c]
      BY <2>3 DEF CheckReports, TypeOK, CertMaps
    <3>3. QED
      BY <2>1, <3>1, <3>2 DEF Writing
  <2>4. CASE CheckDrops
    <3>1. certAt \in Communities /\ certs'[certAt] = NoCert /\ shown' = shown
      BY <2>4 DEF CheckDrops, BetweenInv, Between, TypeOK, CertMaps, health
    <3>2. \A c \in Communities : c # certAt => certs'[c] = certs[c] /\ ~Writing(c)
      BY <2>4 DEF CheckDrops, TypeOK, CertMaps, Writing
    <3>3. QED
      BY <2>1, <3>1, <3>2
  <2>5. CASE CheckKeeps
    <3>1. certAt \in Communities /\ shown' = shown /\ pc[Watcher] \notin Between
      BY <2>5 DEF CheckKeeps, TypeOK, Between, health
    <3>2. CASE certs[certAt] = disk[certAt]
      <4>1. certs' = certs
        BY <2>5, <3>1, <3>2 DEF CheckKeeps, TypeOK, CertMaps
      <4>2. QED
        BY <3>1, <4>1 DEF DatesInv, Writing
    <3>3. CASE certs[certAt] # disk[certAt]
      <4>1. pc'[Watcher] \in Between /\ certAt' = certAt
        BY <2>5, <3>3 DEF CheckKeeps, Goto, TypeOK, Between
      <4>2. \A c \in Communities : c # certAt => certs'[c] = certs[c]
        BY <2>5 DEF CheckKeeps, TypeOK, CertMaps
      <4>3. QED
        BY <2>1, <3>1, <4>1, <4>2 DEF Writing
    <3>4. QED
      BY <3>2, <3>3
  <2>6. CASE CheckClears
    <3>1. certAt \in Communities /\ certs' = certs /\ shown'[certAt] = certs[certAt]
      BY <2>6 DEF CheckClears, BetweenInv, Between, TypeOK, CertMaps
    <3>2. \A c \in Communities : c # certAt => shown'[c] = shown[c] /\ ~Writing(c)
      BY <2>6 DEF CheckClears, TypeOK, CertMaps, Writing
    <3>3. QED
      BY <2>1, <3>1, <3>2
  <2>7. ASSUME UNCHANGED <<certs, shown>>,
               \/ pc'[Watcher] = pc[Watcher] /\ certAt' = certAt
               \/ pc[Watcher] \notin Between
        PROVE  DatesInv'
    BY <2>7 DEF DatesInv, Writing
  <2>8. CASE Environment \/ Spawn \/ TriggerAll \/ UNCHANGED vars
    BY <2>7, <2>8 DEF Environment, Publish, Rotate, Tick, LateLoad, Spawn, TriggerAll, StartInv,
            Between, vars, health, watcherLocals
  <2>9. CASE waitFirstPoll \/ Shutdown \/ StartCheck \/ EndCheck
    BY <2>7, <2>9 DEF waitFirstPoll, Shutdown, StartCheck, EndCheck, Goto, TypeOK, Between,
            health, watcherLocals
  <2>10. ASSUME NEW c \in Communities, StartPoll(c) \/ PollOnce(c) PROVE DatesInv'
    BY <2>7, <2>10 DEF StartPoll, PollOnce, FetchOK, FetchFails, PollFailed, PollNotModified,
            PollUpdated, Goto, TypeOK, health, watcherLocals
  <2>11. ASSUME NEW p \in Procs, Regenerate(p) PROVE DatesInv'
    <3>1. /\ pc[p] \in {"lock", "read", "post"} /\ UNCHANGED <<certs, shown, certAt>>
          /\ \A q \in Procs : q # p => pc'[q] = pc[q]
      BY <2>11 DEF Regenerate, Acquire, ReadDir, BuildDocument, ApplyOK, ApplyRejected,
              ApplyUnconfirmed, Release, Goto, AfterRegenerate, TypeOK, health, watcherLocals
    <3>2. QED
      BY <2>7, <3>1 DEF Between
  <2>12. ASSUME NEW p \in 0..N, Exit(p) PROVE DatesInv'
    BY <2>7, <2>12 DEF Exit, Goto, TypeOK, Between, health, watcherLocals
  <2>13. QED
    BY <2>2, <2>3, <2>4, <2>5, <2>6, <2>8, <2>9, <2>10, <2>11, <2>12
       DEF Next, MainStep, CheckStep
<1>3. QED
  BY <1>1, <1>2, StartInvariants, CertInvariant, PTL DEF Spec
-----------------------------------------------------------------------------
(* The document that Caddy runs.                                            *)

\* Everything in a document of Build that is referred to is defined in it, and
\* services are only routed under the community's own certificate.
LEMMA BuildIsClosed ==
  ASSUME NEW d \in DirMaps, NEW k \in CertMaps, NEW c \in DOMAIN Build(d, k).servers
  PROVE  LET srv == Build(d, k).servers[c]
         IN  /\ c \in Communities
             /\ srv.listen \in Build(d, k).tsNodes
             /\ Build(d, k).bridgedns[c] = srv.listen
             /\ srv.anyTag \in Build(d, k).loadFiles
             /\ \A r \in srv.routes : r.dialer \in Build(d, k).tsNodes
             /\ srv.routes # {} => certTag(c) \in Build(d, k).loadFiles
<1>1. /\ c \in Included(k) /\ c \in Communities
      /\ Build(d, k).servers[c] = buildServer(d, k, c)
      /\ Build(d, k).bridgedns[c] = PersonalNodeName(c)
  BY DEF Build, Included
<1>2. buildServer(d, k, c).listen \in Build(d, k).tsNodes
  BY <1>1 DEF Build, buildServer
<1>3. HasCert(k, c) => certTag(c) \in Build(d, k).loadFiles
  BY <1>1 DEF Build, loadFiles
<1>4. ~HasCert(k, c) => fallbackTag \in Build(d, k).loadFiles
  BY <1>1 DEF Build, loadFiles
<1>5. buildServer(d, k, c).anyTag \in Build(d, k).loadFiles
  BY <1>3, <1>4 DEF buildServer
<1>6. CASE ServiceOK(d, k, c)
  <2>1. HasCert(k, c)
    BY <1>6 DEF ServiceOK
  <2>2. DialerNodeName(c) \in Build(d, k).tsNodes
    BY <1>1, <1>6 DEF Build
  <2>3. \A r \in buildServer(d, k, c).routes : r.dialer = DialerNodeName(c)
    BY <1>6 DEF buildServer, buildServiceRoute
  <2>4. QED
    BY <1>1, <1>2, <1>3, <1>5, <2>1, <2>2, <2>3 DEF buildServer
<1>7. CASE ~ServiceOK(d, k, c)
  <2>1. buildServer(d, k, c).routes = {}
    BY <1>7 DEF buildServer
  <2>2. QED
    BY <1>1, <1>2, <1>5, <2>1 DEF buildServer
<1>8. QED
  BY <1>6, <1>7

\* What Caddy runs was built, and Caddy has read the files it names.
RunningInv ==
  running # NoDocument =>
    /\ \E d \in DirMaps, k \in CertMaps : running = Build(d, k)
    /\ \A c \in Communities : certTag(c) \in running.loadFiles => loaded[c] # NoCert

\* Loading a document keeps it so.
LEMMA LoadedDocumentIsRead ==
  ASSUME TypeOK, RunningInv, NEW doc \in Documents, CaddyLoads(doc)
  PROVE  RunningInv'
<1>1. CASE UNCHANGED <<running, loaded>>
  BY <1>1 DEF RunningInv
<1>2. CASE Readable(doc) /\ running' = doc
           /\ loaded' = [c \in Communities |->
                           IF certTag(c) \in doc.loadFiles THEN disk[c] ELSE NoCert]
  <2>1. \E d \in DirMaps, k \in CertMaps : running' = Build(d, k)
    BY <1>2 DEF Documents
  <2>2. ASSUME NEW c \in Communities, certTag(c) \in running'.loadFiles
        PROVE  loaded'[c] # NoCert
    <3>1. disk[c] # Unusable /\ loaded'[c] = disk[c]
      BY <1>2, <2>2 DEF Readable
    <3>2. QED
      BY <3>1, ConfigAssumption DEF TypeOK
  <2>3. QED
    BY <2>1, <2>2 DEF RunningInv
<1>3. QED
  BY <1>1, <1>2 DEF CaddyLoads

\* In what Caddy runs, whatever is referred to is defined, and communities are
\* proxied to only under a certificate of their own that Caddy has read.
THEOREM RunningDocumentIsClosed == Spec => []RunningIsClosed
<1>1. Init => RunningInv
  BY DEF Init, RunningInv
<1>2. TypeOK /\ RunningInv /\ [Next]_vars => RunningInv'
  <2> SUFFICES ASSUME TypeOK, RunningInv, [Next]_vars PROVE RunningInv'
    OBVIOUS
  <2>1. CASE CaddyLoads(Posted)
    <3>1. Posted \in Documents
      BY BuildIsDocument DEF Posted, TypeOK
    <3>2. QED
      BY <2>1, <3>1, LoadedDocumentIsRead
  <2>2. ASSUME NEW doc \in unanswered, CaddyLoads(doc) PROVE RunningInv'
    BY <2>2, LoadedDocumentIsRead DEF TypeOK
  <2>3. CASE UNCHANGED <<running, loaded>>
    BY <2>3 DEF RunningInv
  <2>4. QED
    BY <2>1, <2>2, <2>3
       DEF Next, vars, caddy, Environment, Publish, Rotate, Tick, LateLoad, MainStep,
           ReloadCert, Spawn, waitFirstPoll, TriggerAll, Shutdown, StartPoll, PollOnce,
           FetchOK, FetchFails, PollFailed, PollNotModified, PollUpdated, CheckStep,
           StartCheck, CheckReports, CheckDrops, CheckKeeps, CheckClears, EndCheck, Regenerate, Acquire, ReadDir,
           BuildDocument, ApplyOK, ApplyRejected, ApplyUnconfirmed, Exit
<1>3. RunningInv => RunningIsClosed
  <2> SUFFICES ASSUME running # NoDocument, NEW d \in DirMaps, NEW k \in CertMaps,
                      running = Build(d, k), NEW c \in DOMAIN running.servers,
                      \A e \in Communities : certTag(e) \in running.loadFiles => loaded[e] # NoCert
               PROVE  LET srv == running.servers[c]
                      IN  /\ srv.listen \in running.tsNodes
                          /\ running.bridgedns[c] = srv.listen
                          /\ srv.anyTag \in running.loadFiles
                          /\ \A r \in srv.routes : r.dialer \in running.tsNodes
                          /\ srv.routes # {} => loaded[c] # NoCert
    BY DEF RunningInv, RunningIsClosed
  <2>1. QED
    BY BuildIsClosed
<1>4. QED
  BY <1>1, <1>2, <1>3, TypeCorrect, PTL DEF Spec
-----------------------------------------------------------------------------
(* The refinement: WildcardPoller implements ConfigSync.                    *)

\* The abstract document of what is held is the one that is built.
LEMMA DocOfHeld ==
  ASSUME NEW d \in DirMaps, NEW k \in CertMaps
  PROVE  /\ DocOf(HeldOf(d, k)) = Build(d, k)
         /\ HeldOf(d, k) \in {HeldOf(e, j) : e \in DirMaps, j \in CertMaps}
         /\ HeldOf(d, k)[Watcher] = k
         /\ \A c \in Communities : HeldOf(d, k)[c] = d[c]
<1>1. HeldOf(d, k)[Watcher] = k /\ \A c \in Communities : HeldOf(d, k)[c] = d[c]
  BY ProcsFacts DEF HeldOf
<1>2. [c \in Communities |-> HeldOf(d, k)[c]] = d
  BY <1>1 DEF DirMaps
<1>3. QED
  BY <1>1, <1>2 DEF DocOf

\* A change of the abstract sources, seen in dir and certs.
LEMMA SourceChanges ==
  ASSUME TypeOK, TypeOK', NEW s \in 0..N,
         s # Watcher => certs' = certs,
         \A c \in Communities : c # s => dir'[c] = dir[c],
         Due' = Due \cup {s},
         UNCHANGED <<caddy, lastHash, outcome>>
  PROVE  Sync!Next
<1>0. HeldOf(dir, certs)' = HeldOf(dir', certs')
  BY DEF HeldOf
<1>1. /\ HeldOf(dir', certs') \in {HeldOf(e, j) : e \in DirMaps, j \in CertMaps}
      /\ HeldOf(dir, certs)[Watcher] = certs /\ HeldOf(dir', certs')[Watcher] = certs'
      /\ \A c \in Communities : /\ HeldOf(dir, certs)[c] = dir[c]
                                /\ HeldOf(dir', certs')[c] = dir'[c]
  <2>1. dir \in DirMaps /\ certs \in CertMaps
    BY DEF TypeOK
  <2>2. dir' \in DirMaps /\ certs' \in CertMaps
    BY DEF TypeOK
  <2>3. HeldOf(dir, certs)[Watcher] = certs
        /\ \A c \in Communities : HeldOf(dir, certs)[c] = dir[c]
    BY <2>1, DocOfHeld
  <2>4. HeldOf(dir', certs')[Watcher] = certs'
        /\ \A c \in Communities : HeldOf(dir', certs')[c] = dir'[c]
    BY <2>2, DocOfHeld
  <2>5. HeldOf(dir', certs') \in {HeldOf(e, j) : e \in DirMaps, j \in CertMaps}
    BY <2>2
  <2>6. QED
    BY <2>3, <2>4, <2>5
<1>2. \A t \in (0..N) \ {s} : HeldOf(dir', certs')[t] = HeldOf(dir, certs)[t]
  <2> SUFFICES ASSUME NEW t \in 0..N, t # s
               PROVE  HeldOf(dir', certs')[t] = HeldOf(dir, certs)[t]
    OBVIOUS
  <2>1. t = Watcher \/ t \in Communities
    BY ProcsFacts DEF Watcher
  <2>2. QED
    BY <1>1, <2>1
<1>3. Sync!Change(s)
  BY <1>0, <1>1, <1>2 DEF Sync!Change, caddy
<1>4. QED
  BY <1>3 DEF Sync!Next

\* The document for what was read is out of date only in what is due.
LEMMA ReadReflects ==
  ASSUME TypeOK', CertsFresh', \A c \in Communities : DirFresh(c)',
         UNCHANGED <<dir, certs>>
  PROVE  Build(rdirs', rcerts') \in Sync!UpToDate(Due')
<1>0. /\ HeldOf(dir, certs)[Watcher] = certs
      /\ \A c \in Communities : HeldOf(dir, certs)[c] = dir[c]
  BY ProcsFacts DEF HeldOf
<1>1. rdirs' \in DirMaps /\ rcerts' \in CertMaps
  BY DEF TypeOK
<1>2. DocOf(HeldOf(rdirs', rcerts')) = Build(rdirs', rcerts')
  BY <1>1, DocOfHeld
<1>3. HeldOf(rdirs', rcerts') \in {HeldOf(e, j) : e \in DirMaps, j \in CertMaps}
  BY <1>1
<1>4. \A s \in (0..N) \ Due' : HeldOf(rdirs', rcerts')[s] = HeldOf(dir, certs)[s]
  <2> SUFFICES ASSUME NEW s \in 0..N, s \notin Due'
               PROVE  HeldOf(rdirs', rcerts')[s] = HeldOf(dir, certs)[s]
    OBVIOUS
  <2>1. CASE s = Watcher
    <3>1. rcerts' = certs
      BY <2>1, ProcsFacts DEF CertsFresh, Due, WatcherOwes
    <3>2. HeldOf(rdirs', rcerts')[Watcher] = rcerts'
      BY <1>1, DocOfHeld
    <3>3. QED
      BY <1>0, <2>1, <3>1, <3>2
  <2>2. CASE s \in Communities
    <3>1. rdirs'[s] = dir[s]
      BY <2>2, ProcsFacts DEF DirFresh, Due
    <3>2. \A c \in Communities : HeldOf(rdirs', rcerts')[c] = rdirs'[c]
      BY <1>1, DocOfHeld
    <3>3. QED
      BY <1>0, <2>2, <3>1, <3>2
  <2>3. s = Watcher \/ s \in Communities
    BY ProcsFacts DEF Watcher
  <2>4. QED
    BY <2>1, <2>2, <2>3
<1>5. QED
  BY <1>2, <1>3, <1>4 DEF Sync!UpToDate

\* A step that touches neither the sources nor the answers, nor who owes one.
LEMMA NothingHappens ==
  ASSUME UNCHANGED <<dir, certs, caddy, lastHash, outcome>>, Due' = Due
  PROVE  UNCHANGED Sync!vars
<1>1. HeldOf(dir, certs)' = HeldOf(dir, certs)
  BY DEF HeldOf
<1>2. QED
  BY <1>1 DEF Sync!vars, caddy

\* WildcardPoller implements ConfigSync, for any number of communities and
\* whatever answers of Caddy are lost: every step is a change of a source, a
\* regenerate that becomes due, succeeds, fails or is given up, a late load of
\* a document that was given up, or none.
THEOREM PollerImplementsConfigSync == Spec => ImplementsConfigSync
<1>1. Init => Sync!Init
  <2> SUFFICES ASSUME Init PROVE Sync!Init
    OBVIOUS
  <2>1. dir \in DirMaps /\ certs \in CertMaps
    BY ProcsFacts DEF Init, DirMaps, CertMaps
  <2>2. QED
    BY <2>1 DEF Init, Sync!Init, Due, WatcherOwes
<1>2. TypeOK /\ TypeOK' /\ StartInv /\ StartInv' /\ BetweenInv /\ LockInv /\ SyncInv /\ SyncInv' /\ [Next]_vars
        => [Sync!Next]_(Sync!vars)
  <2> SUFFICES ASSUME TypeOK, TypeOK', StartInv, StartInv', BetweenInv, LockInv, SyncInv,
                      SyncInv', [Next]_vars
               PROVE  Sync!Next \/ UNCHANGED Sync!vars
    OBVIOUS
  <2> USE ProcsFacts
  <2>0. \A p \in Procs : p \in 0..N \/ p = Main
    BY DEF Procs, Main
  <2>1. ASSUME Environment \/ TriggerAll \/ UNCHANGED vars, UNCHANGED caddy
        PROVE  Sync!Next \/ UNCHANGED Sync!vars
    <3>1. UNCHANGED <<dir, certs, caddy, lastHash, outcome, pc, changed>>
      BY <2>1 DEF Environment, Publish, Rotate, Tick, LateLoad, TriggerAll, vars, health,
                  watcherLocals, history
    <3>2. Due' = Due
      BY <3>1 DEF Due, WatcherOwes
    <3>3. QED
      BY <3>1, <3>2, NothingHappens
  <2>2. CASE ReloadCert
    <3>1. Watcher \in Due /\ Due' = Due
      BY <2>2 DEF ReloadCert, Due
    <3>2. UNCHANGED <<dir, caddy, lastHash, outcome>>
      BY <2>2 DEF ReloadCert, caddy, history
    <3>3. QED
      BY <3>1, <3>2, SourceChanges
  <2>3. CASE Spawn
    <3>1. /\ UNCHANGED <<dir, certs, caddy, lastHash, outcome>>
          /\ outcome = "none"
          /\ \A p \in Procs : pc'[p] \in {"wait", "select", "fetch"}
      BY <2>3 DEF Spawn, StartInv, caddy, health, history
    <3>2. Due = {Watcher} /\ Due' = {}
      BY <2>3, <2>0, <3>1 DEF Due, WatcherOwes, Spawn, StartInv
    <3>3. HeldOf(dir, certs)' = HeldOf(dir, certs)
      BY <3>1 DEF HeldOf
    <3>4. Sync!Fail(Watcher)
      BY <3>1, <3>2, <3>3 DEF Sync!Fail, caddy
    <3>5. QED
      BY <3>4 DEF Sync!Next
  <2>4. CASE waitFirstPoll
    <3>1. UNCHANGED <<dir, certs, caddy, lastHash, outcome, changed>>
      BY <2>4 DEF waitFirstPoll, caddy, health, watcherLocals, history
    <3>2. Due' = Due \cup {Main}
      BY <2>4, <3>1 DEF Due, WatcherOwes, waitFirstPoll, Goto, TypeOK
    <3>3. HeldOf(dir, certs)' = HeldOf(dir, certs)
      BY <3>1 DEF HeldOf
    <3>4. Sync!Begin(Main)
      BY <3>1, <3>2, <3>3 DEF Sync!Begin, caddy
    <3>5. QED
      BY <3>4 DEF Sync!Next
  <2>5. CASE Shutdown
    <3>1. UNCHANGED <<dir, certs, caddy, lastHash, outcome, changed>>
      BY <2>5 DEF Shutdown, health, watcherLocals, history
    <3>2. Due' = Due
      BY <2>5, <3>1 DEF Due, WatcherOwes, Shutdown, Goto, TypeOK
    <3>3. QED
      BY <3>1, <3>2, NothingHappens
  <2>6. ASSUME NEW c \in Communities, StartPoll(c) \/ PollOnce(c)
        PROVE  Sync!Next \/ UNCHANGED Sync!vars
    <3>1. CASE PollUpdated(c)
      <4>1. UNCHANGED <<certs, caddy, lastHash, outcome, changed>>
        BY <3>1 DEF PollUpdated, caddy, watcherLocals, history
      <4>2. \A k \in Communities : k # c => dir'[k] = dir[k]
        BY <3>1 DEF PollUpdated, TypeOK, DirMaps
      <4>3. Due' = Due \cup {c}
        BY <3>1, <4>1 DEF Due, WatcherOwes, PollUpdated, Goto, TypeOK
      <4>4. QED
        BY <4>1, <4>2, <4>3, SourceChanges
    <3>2. CASE StartPoll(c) \/ FetchOK(c) \/ FetchFails(c) \/ PollFailed(c) \/ PollNotModified(c)
      <4>1. UNCHANGED <<dir, certs, caddy, lastHash, outcome, changed>>
        BY <3>2 DEF StartPoll, FetchOK, FetchFails, PollFailed, PollNotModified, caddy, health,
                    watcherLocals, history
      <4>2. /\ pc[c] \in {"select", "fetch", "answered"}
            /\ \E place \in {"fetch", "answered", "select"} : pc' = [pc EXCEPT ![c] = place]
        BY <3>2 DEF StartPoll, FetchOK, FetchFails, PollFailed, PollNotModified, Goto
      <4>3. Due' = Due
        BY <4>1, <4>2 DEF Due, WatcherOwes, TypeOK
      <4>4. QED
        BY <4>1, <4>3, NothingHappens
    <3>3. QED
      BY <2>6, <3>1, <3>2 DEF PollOnce
  <2>7. CASE CheckStep
    <3>0. pc[Main] # "reload" /\ pc'[Main] = pc[Main]
      BY <2>7 DEF StartInv, CheckStep, StartCheck, CheckReports, CheckDrops, CheckKeeps, CheckClears, EndCheck, Goto, TypeOK
    <3>1. CASE StartCheck
      <4>1. UNCHANGED <<dir, certs, caddy, lastHash, outcome>>
        BY <3>1 DEF StartCheck, caddy, health, history
      <4>2. Due' = Due
        BY <3>0, <3>1 DEF Due, WatcherOwes, StartCheck, Goto, TypeOK
      <4>3. QED
        BY <4>1, <4>2, NothingHappens
    <3>2. CASE EndCheck
      <4>1. UNCHANGED <<dir, certs, caddy, lastHash, outcome, changed>>
        BY <3>2 DEF EndCheck, caddy, health, watcherLocals, history
      <4>2. Due' = Due
        BY <3>0, <3>2, <4>1 DEF Due, WatcherOwes, EndCheck, Goto, TypeOK
      <4>3. QED
        BY <4>1, <4>2, NothingHappens
    <3>3. CASE CheckReports
      <4>1. UNCHANGED <<dir, certs, caddy, lastHash, outcome, changed>>
        BY <3>3 DEF CheckReports, caddy, watcherLocals, history
      <4>2. Due' = Due
        BY <3>0, <3>3, <4>1 DEF Due, WatcherOwes, CheckReports, Goto, TypeOK
      <4>3. QED
        BY <4>1, <4>2, NothingHappens
    <3>4. CASE CheckDrops
      <4>1. UNCHANGED <<dir, caddy, lastHash, outcome>> /\ certAt \in Communities
            /\ pc[Watcher] = "drop" /\ pc' = [pc EXCEPT ![Watcher] = "check"]
        BY <3>4 DEF CheckDrops, BetweenInv, Between, caddy, health, history, Goto
      <4>2. CASE changed' = TRUE
        <5>1. Due' = Due \cup {Watcher}
          BY <3>0, <4>1, <4>2 DEF Due, WatcherOwes, TypeOK
        <5>2. QED
          BY <4>1, <5>1, SourceChanges
      <4>3. CASE changed' # TRUE
        <5>1. changed' = changed /\ certs' = certs
          BY <3>4, <4>1, <4>3 DEF CheckDrops, TypeOK, CertMaps
        <5>2. Due' = Due
          BY <4>1, <5>1 DEF Due, WatcherOwes, TypeOK
        <5>3. QED
          BY <4>1, <5>1, <5>2, NothingHappens
      <4>4. QED
        BY <4>2, <4>3
    <3>5. CASE CheckKeeps
      <4>1. UNCHANGED <<dir, caddy, lastHash, outcome, changed>> /\ certAt \in Communities
            /\ pc[Watcher] = "check"
        BY <3>5 DEF CheckKeeps, TypeOK, caddy, health, history
      <4>2. CASE certs[certAt] = disk[certAt]
        <5>1. certs' = certs /\ pc' = pc
          BY <3>5, <4>1, <4>2 DEF CheckKeeps, TypeOK, CertMaps
        <5>2. Due' = Due
          BY <4>1, <5>1 DEF Due, WatcherOwes
        <5>3. QED
          BY <4>1, <5>1, <5>2, NothingHappens
      <4>3. CASE certs[certAt] # disk[certAt]
        <5>1. pc' = [pc EXCEPT ![Watcher] = "clear"]
          BY <3>5, <4>3 DEF CheckKeeps, Goto
        <5>2. Due' = Due \cup {Watcher}
          BY <3>0, <4>1, <5>1 DEF Due, WatcherOwes, TypeOK
        <5>3. QED
          BY <4>1, <5>2, SourceChanges
      <4>4. QED
        BY <4>2, <4>3
    <3>6. CASE CheckClears
      <4>1. UNCHANGED <<dir, certs, caddy, lastHash, outcome>> /\ changed'
            /\ pc[Watcher] = "clear" /\ pc' = [pc EXCEPT ![Watcher] = "check"]
        BY <3>6 DEF CheckClears, caddy, history, Goto
      <4>2. Due' = Due
        BY <3>0, <4>1 DEF Due, WatcherOwes, TypeOK
      <4>3. QED
        BY <4>1, <4>2, NothingHappens
    <3>7. QED
      BY <2>7, <3>1, <3>2, <3>3, <3>4, <3>5, <3>6 DEF CheckStep
  <2>8. ASSUME NEW p \in Procs, Regenerate(p) PROVE Sync!Next \/ UNCHANGED Sync!vars
    <3>0. pc[p] \in {"lock", "read", "post"} /\ p \in Due /\ pc[Main] # "reload"
      BY <2>8, <2>0 DEF Regenerate, Acquire, ReadDir, BuildDocument, ApplyOK, ApplyRejected,
              ApplyUnconfirmed, Due, WatcherOwes, StartInv
    <3>1. UNCHANGED <<dir, certs, changed>>
      BY <2>8 DEF Regenerate, Acquire, ReadDir, BuildDocument, ApplyOK, ApplyRejected,
              ApplyUnconfirmed, health, watcherLocals
    <3>2. HeldOf(dir, certs)' = HeldOf(dir, certs)
      BY <3>1 DEF HeldOf
    <3>3. ASSUME UNCHANGED <<caddy, lastHash, outcome>>,
                 \E place \in {"lock", "read", "post"} : pc' = [pc EXCEPT ![p] = place]
          PROVE  UNCHANGED Sync!vars
      <4>1. Due' = Due
        BY <3>0, <3>1, <3>3 DEF Due, WatcherOwes, TypeOK
      <4>2. QED
        BY <3>1, <3>3, <4>1, NothingHappens
    <3>4. ASSUME Goto(p, AfterRegenerate(p)) PROVE Due' = Due \ {p}
      BY <3>0, <3>1, <3>4 DEF Due, WatcherOwes, Goto, AfterRegenerate, TypeOK
    <3>5. ASSUME outcome' = "ok", regenMu' = Nobody, Due' = Due \ {p},
                 \/ UNCHANGED <<caddy, lastHash>>
                 \/ running' = lastHash' /\ unanswered' = {}
          PROVE  Sync!Next
      <4>1. lastHash' \in Sync!UpToDate(Due')
        BY <3>1, <3>5, ReadReflects DEF SyncInv
      <4>2. Sync!Succeed(p)
        BY <3>0, <3>1, <3>2, <3>5, <4>1 DEF Sync!Succeed, Sync!Confirm, caddy
      <4>3. QED
        BY <4>2 DEF Sync!Next
    <3>6. ASSUME outcome' = "error", UNCHANGED <<caddy, lastHash>>, Due' = Due \ {p}
          PROVE  Sync!Next
      <4>1. Sync!Fail(p)
        BY <3>0, <3>1, <3>2, <3>6 DEF Sync!Fail, caddy
      <4>2. QED
        BY <4>1 DEF Sync!Next
    <3>7. CASE Acquire(p) \/ ReadDir(p)
      <4>1. UNCHANGED <<caddy, lastHash, outcome>>
        BY <3>7 DEF Acquire, ReadDir, history
      <4>2. \E place \in {"lock", "read", "post"} : pc' = [pc EXCEPT ![p] = place]
        BY <3>7 DEF Acquire, ReadDir, Goto, TypeOK
      <4>3. QED
        BY <3>3, <4>1, <4>2
    <3>8. CASE BuildDocument(p)
      <4>1. CASE lastHash = Build(rdirs, certs)
        BY <3>4, <3>5, <3>8, <4>1 DEF BuildDocument
      <4>2. CASE lastHash # Build(rdirs, certs)
        BY <3>3, <3>8, <4>2 DEF BuildDocument, Goto
      <4>3. QED
        BY <4>1, <4>2
    <3>9. CASE ApplyOK(p)
      <4>1. running' = lastHash' /\ unanswered' = {}
        BY <3>9 DEF ApplyOK, CaddyLoads
      <4>2. QED
        BY <3>4, <3>5, <3>9, <4>1 DEF ApplyOK, Release
    <3>10. CASE ApplyRejected(p)
      BY <3>4, <3>6, <3>10 DEF ApplyRejected, Release
    <3>11. CASE ApplyUnconfirmed(p)
      <4>1. /\ outcome' = "error" /\ UNCHANGED <<running, lastHash, rdirs, rcerts>>
            /\ unanswered' = unanswered \cup {Posted}
            /\ Due' = Due \ {p} /\ pc[p] = "post"
        BY <3>4, <3>11 DEF ApplyUnconfirmed, Release, regenLocals
      <4>2. CertsFresh /\ \A c \in Communities : DirFresh(c)
        BY <4>1 DEF SyncInv
      <4>3. \A q \in Procs : q # p => pc'[q] = pc[q]
        BY <3>11 DEF ApplyUnconfirmed, Release, Goto, TypeOK
      <4>4. CertsFresh' /\ \A c \in Communities : DirFresh(c)'
        BY <3>1, <4>1, <4>2, <4>3 DEF CertsFresh, WatcherOwes, DirFresh
      <4>5. Posted \in Sync!UpToDate(Due')
        BY <3>1, <4>1, <4>4, ReadReflects DEF Posted
      <4>6. Sync!Lose(p)
        BY <3>0, <3>2, <4>1, <4>5 DEF Sync!Lose
      <4>7. QED
        BY <4>6 DEF Sync!Next
    <3>12. QED
      BY <2>8, <3>7, <3>8, <3>9, <3>10, <3>11 DEF Regenerate
  <2>9. ASSUME NEW p \in 0..N, Exit(p) PROVE Sync!Next \/ UNCHANGED Sync!vars
    <3>1. UNCHANGED <<dir, certs, caddy, lastHash, outcome, changed>>
      BY <2>9 DEF Exit, caddy, health, watcherLocals, history
    <3>2. Due' = Due
      BY <2>9, <3>1 DEF Due, WatcherOwes, Exit, Goto, TypeOK
    <3>3. QED
      BY <3>1, <3>2, NothingHappens
  <2>10. ASSUME NEW doc \in unanswered, LateLoad(doc) PROVE Sync!Next
    <3>1. /\ UNCHANGED <<dir, certs, lastHash, unanswered, outcome, pc, changed>>
          /\ running' \in unanswered
      BY <2>10 DEF LateLoad, CaddyLoads, health, watcherLocals, history
    <3>2. Due' = Due /\ HeldOf(dir, certs)' = HeldOf(dir, certs)
      BY <3>1 DEF Due, WatcherOwes, HeldOf
    <3>3. Sync!Late
      BY <3>1, <3>2 DEF Sync!Late
    <3>4. QED
      BY <3>3 DEF Sync!Next
  <2>11. Environment => UNCHANGED caddy \/ \E doc \in unanswered : LateLoad(doc)
    BY DEF Environment, Publish, Rotate, Tick
  <2>12. TriggerAll \/ UNCHANGED vars => UNCHANGED caddy
    BY DEF TriggerAll, vars
  <2>13. QED
    BY <2>1, <2>2, <2>3, <2>4, <2>5, <2>6, <2>7, <2>8, <2>9, <2>10, <2>11, <2>12
       DEF Next, MainStep
<1>3. QED
  BY <1>1, <1>2, StartInvariants, LockInvariant, SyncInvariant, PTL
     DEF Spec, ImplementsConfigSync, Sync!Spec
-----------------------------------------------------------------------------
(* From what is held to what is served: CaddyInSync with Build expanded.    *)

\* A document serves a community that has a certificate under that certificate
\* and routes exactly the services of its directory; one without is served under
\* the fallback, if there is one, and routed nothing.
ServedAs(doc, d, k, c) ==
  LET srv == doc.servers[c]
      services == {r.upstream : r \in srv.routes}
  IN  /\ c \in DOMAIN doc.servers <=> HasCert(k, c) \/ HasFallback
      /\ HasCert(k, c) =>
           /\ srv.anyTag = certTag(c)
           /\ services = IF d[c] = NoDir THEN {} ELSE ServicesOf[d[c]]
      /\ ~HasCert(k, c) /\ HasFallback => srv.anyTag = fallbackTag /\ services = {}
      /\ certTag(c) \in doc.loadFiles <=> HasCert(k, c)

\* Once settled, Caddy serves every community as the directory and certificate
\* held for it say.
HeldIsServed == Settled => \A c \in Communities : ServedAs(running, dir, certs, c)

\* What a document says of a community depends on that community's directory
\* and certificate alone: no directory can change how another community is
\* served.
THEOREM CommunitiesAreSeparate ==
  ASSUME NEW d \in DirMaps, NEW k \in CertMaps, NEW e \in DirMaps, NEW j \in CertMaps,
         NEW c \in Communities, d[c] = e[c], k[c] = j[c]
  PROVE  /\ c \in DOMAIN Build(d, k).servers <=> c \in DOMAIN Build(e, j).servers
         /\ c \in DOMAIN Build(d, k).servers =>
              /\ Build(d, k).servers[c] = Build(e, j).servers[c]
              /\ Build(d, k).bridgedns[c] = Build(e, j).bridgedns[c]
<1>1. c \in Included(k) <=> c \in Included(j)
  BY DEF Included, HasCert
<1>2. buildServer(d, k, c) = buildServer(e, j, c)
  BY DEF buildServer, ServiceOK, HasCert
<1>3. QED
  BY <1>1, <1>2 DEF Build

\* What a document says of one community.
LEMMA ServerOfCommunity ==
  ASSUME NEW d \in DirMaps, NEW k \in CertMaps, NEW c \in Communities
  PROVE  ServedAs(Build(d, k), d, k, c)
<1> DEFINE srv == Build(d, k).servers[c]
<1>1. c \in DOMAIN Build(d, k).servers <=> HasCert(k, c) \/ HasFallback
  BY DEF Build, Included
<1>2. HasCert(k, c) \/ HasFallback => srv = buildServer(d, k, c)
  BY DEF Build, Included
<1>3. ServiceOK(d, k, c) => {r.upstream : r \in buildServer(d, k, c).routes} = ServicesOf[d[c]]
  <2>1. \A svc : buildServiceRoute(c, svc).upstream = svc
    BY DEF buildServiceRoute
  <2>2. ServiceOK(d, k, c) =>
          buildServer(d, k, c).routes = {buildServiceRoute(c, svc) : svc \in ServicesOf[d[c]]}
    BY DEF buildServer
  <2>3. QED
    BY <2>1, <2>2
<1>4. ~ServiceOK(d, k, c) => {r.upstream : r \in buildServer(d, k, c).routes} = {}
  BY DEF buildServer
<1>5. /\ HasCert(k, c) => buildServer(d, k, c).anyTag = certTag(c)
      /\ ~HasCert(k, c) => buildServer(d, k, c).anyTag = fallbackTag
  BY DEF buildServer
<1>6. certTag(c) \in Build(d, k).loadFiles <=> HasCert(k, c)
  <2>1. certTag(c) # fallbackTag /\ \A b \in Communities : certTag(b) = certTag(c) => b = c
    BY DEF certTag, fallbackTag
  <2>2. Build(d, k).loadFiles = loadFiles(k)
    BY DEF Build
  <2>3. QED
    BY <2>1, <2>2 DEF loadFiles, Included
<1> HIDE DEF srv
<1>7. HasCert(k, c) => {r.upstream : r \in srv.routes} = IF d[c] = NoDir THEN {} ELSE ServicesOf[d[c]]
  BY <1>2, <1>3, <1>4 DEF ServiceOK
<1>8. ~HasCert(k, c) /\ HasFallback => {r.upstream : r \in srv.routes} = {}
  BY <1>2, <1>4 DEF ServiceOK
<1>9. QED
  BY <1>1, <1>2, <1>5, <1>6, <1>7, <1>8 DEF ServedAs, srv

\* No service and no certificate is lost on the way from the Health and
\* certificate stores to Caddy, for any number of communities and any
\* interleaving.
THEOREM EveryServiceIsServed == Spec => []HeldIsServed
<1>1. TypeOK /\ InSync => HeldIsServed
  <2>1. TypeOK /\ InSync /\ Settled => running = Build(dir, certs)
    BY DEF InSync, Settled
  <2>2. QED
    BY <2>1, ServerOfCommunity DEF HeldIsServed, TypeOK
<1>2. QED
  BY <1>1, TypeCorrect, CaddyInSync, PTL

\* What Caddy loads of a community, and what is held of it, once settled.
LEMMA SettledFacts ==
  ASSUME TypeOK, InSync, StartInv, CertInv, Settled, NEW c \in Communities, ~Reporting(c)
  PROVE  /\ ~Writing(c)
         /\ certTag(c) \in running.loadFiles <=> certs[c] # NoCert
         /\ certErr[c] <=> certs[c] = NoCert
<1>1. running = Build(dir, certs) /\ pc[Main] # "reload"
  BY DEF InSync, Settled, StartInv
<1>2. ~Writing(c)
  BY DEF Settled, Regenerating, WatcherOwes, Reporting, Writing, Between
<1>3. certTag(c) \in running.loadFiles <=> certs[c] # NoCert
  BY <1>1, ServerOfCommunity DEF ServedAs, TypeOK, HasCert
<1>4. certErr[c] <=> certs[c] = NoCert
  BY <1>1, <1>2 DEF CertInv
<1>5. QED
  BY <1>2, <1>3, <1>4

\* The page of the status server and the configuration of Caddy, which learn of
\* a certificate in different steps and under different locks, agree once
\* everything that was owed is done.
THEOREM StatusTellsWhatCaddyServes == Spec => []StatusAgreesWithCaddy
<1>1. TypeOK /\ InSync /\ StartInv /\ CertInv => StatusAgreesWithCaddy
  BY SettledFacts DEF StatusAgreesWithCaddy
<1>2. QED
  BY <1>1, TypeCorrect, CaddyInSync, StartInvariant, CertInvariant, PTL

\* The error page of every community blames its certificate once Caddy serves
\* it without, and not while Caddy serves it under one that is valid.
THEOREM DiagnosisIsRight == Spec => []DiagnosisAgrees
<1>1. TypeOK /\ InSync /\ StartInv /\ CertInv /\ DatesInv => DiagnosisAgrees
  <2> SUFFICES ASSUME TypeOK, InSync, StartInv, CertInv, DatesInv, Settled,
                      NEW c \in Communities, ~Reporting(c)
               PROVE  IF certTag(c) \in running.loadFiles
                        THEN Valid(certs[c]) => Diagnosis(c) \notin CertDiagnoses
                        ELSE Diagnosis(c) \in CertDiagnoses
    BY DEF DiagnosisAgrees
  <2>0. /\ ~Writing(c)
        /\ certTag(c) \in running.loadFiles <=> certs[c] # NoCert
        /\ certErr[c] <=> certs[c] = NoCert
    BY SettledFacts
  <2>1. CASE certTag(c) \notin running.loadFiles
    BY <2>0, <2>1 DEF Diagnosis, CertDiagnoses
  <2>2. ASSUME certTag(c) \in running.loadFiles, Valid(certs[c])
        PROVE  Diagnosis(c) \notin CertDiagnoses
    <3>1. shown[c] = certs[c] /\ certs[c] \in Certs /\ ~certErr[c]
      BY <2>0, <2>2 DEF DatesInv, TypeOK, CertMaps, CertOrNone
    <3>2. NotAfter[shown[c]] \in Nat /\ clock \in Nat
      BY <3>1, PollerAssumption DEF TypeOK
    <3>3. ~(clock > NotAfter[shown[c]])
      BY <2>2, <3>1, <3>2 DEF Valid
    <3>4. QED
      BY <3>1, <3>3 DEF Diagnosis, CertDiagnoses
  <2>3. QED
    BY <2>1, <2>2
<1>2. QED
  BY <1>1, TypeCorrect, CaddyInSync, StartInvariant, CertInvariant, DatesInvariant, PTL

\* What pollOnce will hold after an answer is what the server had when it gave
\* it, also after a 304, which has no body.
AnswersAreCurrent ==
  [][\A c \in Communities : FetchOK(c) =>
       (IF resp'[c].status = 304 THEN dir[c] ELSE resp'[c].dir) = server[c]]_vars

\* No 304 pins a community to an outdated directory.
THEOREM NotModifiedMeansCurrent == Spec => AnswersAreCurrent
<1>1. TypeOK /\ ETagNamesDirectory =>
        [\A c \in Communities : FetchOK(c) =>
           (IF resp'[c].status = 304 THEN dir[c] ELSE resp'[c].dir) = server[c]]_vars
  <2> SUFFICES ASSUME TypeOK, ETagNamesDirectory, NEW c \in Communities, FetchOK(c)
               PROVE  (IF resp'[c].status = 304 THEN dir[c] ELSE resp'[c].dir) = server[c]
    OBVIOUS
  <2>1. server[c] # NoDir
    BY ConfigAssumption DEF TypeOK
  <2>2. CASE c \in ETagging /\ etag[c] = server[c]
    <3>1. resp'[c].status = 304
      BY <2>2 DEF FetchOK, TypeOK, NotModified
    <3>2. dir[c] = server[c]
      BY <2>1, <2>2 DEF ETagNamesDirectory
    <3>3. QED
      BY <3>1, <3>2
  <2>3. CASE ~(c \in ETagging /\ etag[c] = server[c])
    BY <2>3 DEF FetchOK, TypeOK, Answer
  <2>4. QED
    BY <2>2, <2>3
<1>2. QED
  BY <1>1, TypeCorrect, ETagIsOfDirectory, PTL DEF AnswersAreCurrent

\* At most one goroutine is inside regenerate, so POSTs and the hash change in
\* the order of the documents.
RegenerateExclusive ==
  \A p, q \in Procs : pc[p] \in {"read", "post"} /\ pc[q] \in {"read", "post"} => p = q

\* regenMu keeps two goroutines from being inside regenerate at once, and is
\* released on each of its ways out.
THEOREM RegenerateIsExclusive == Spec => []RegenerateExclusive
<1>1. LockInv => RegenerateExclusive
  BY DEF LockInv, RegenerateExclusive
<1>2. QED
  BY <1>1, LockInvariant, PTL
=============================================================================
