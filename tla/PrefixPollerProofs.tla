------------------------- MODULE PrefixPollerProofs -------------------------
(***************************************************************************)
(* Theorems about PrefixPoller for every number of communities and every    *)
(* set of directories and events.  Build is expanded only in the lemmas     *)
(* about hosts and attribution; elsewhere only its refusal matters.         *)
(***************************************************************************)
EXTENDS PrefixPoller, SequenceTheorems, WellFoundedInduction, TLAPS

\* The processes are the pollers and the main goroutine.
LEMMA ProcsFacts ==
  /\ N \in Nat \ {0}
  /\ Communities = 1..N
  /\ Communities \subseteq Procs
  /\ Main \in Procs /\ Main \notin Communities
  /\ \A p \in Procs : p # Nobody /\ (p = Main \/ p \in Communities)
  /\ NoDir \in DirOrNone /\ Dirs \subseteq DirOrNone
BY PrefixConfigAssumption, PrefixPollerAssumption DEF Communities, Procs, Main, DirOrNone

\* Build refuses exactly the merges that collide.
LEMMA BuildRefusesCollisions ==
  ASSUME NEW d \in DirMaps
  PROVE  /\ Collision(d) => Build(d) = Refused
         /\ ~Collision(d) => Build(d) \in Documents
         /\ Build(d) # Refused => ~Collision(d)
BY DEF Build, Documents

-----------------------------------------------------------------------------
\* Every variable keeps its type, and regenMu its one holder.
LEMMA RunnerInvariant == Spec => [](TypeOK /\ LockInv)
<1>1. Init => TypeOK /\ LockInv
  <2> SUFFICES ASSUME Init PROVE TypeOK /\ LockInv
    OBVIOUS
  <2>1. pc \in [Procs -> Places] /\ readAt \in 1..(N + 1)
    BY ProcsFacts DEF Init, Places
  <2>2. dir \in DirMaps /\ etag \in DirMaps /\ rdirs \in DirMaps
        /\ resp \in [Communities -> Answers]
    BY ProcsFacts DEF Init, DirMaps, Answers, NoAnswer
  <2>3. TypeOK
    BY <2>1, <2>2 DEF Init, TypeOK
  <2>4. LockInv
    BY ProcsFacts DEF Init, LockInv
  <2> QED
    BY <2>3, <2>4
<1>2. TypeOK /\ LockInv /\ [Next]_vars => TypeOK'
  <2> SUFFICES ASSUME TypeOK, LockInv, [Next]_vars PROVE TypeOK'
    OBVIOUS
  <2> USE ProcsFacts
  <2>1. ASSUME NEW c \in Communities, NEW d \in Dirs, Publish(c, d) PROVE TypeOK'
    BY <2>1 DEF TypeOK, Publish, caddy, health, runner
  <2>2. CASE waitFirstPoll
    BY <2>2 DEF TypeOK, waitFirstPoll, Goto, Places, caddy, health, runner
  <2>3. CASE TriggerAll
    BY <2>3 DEF TypeOK, TriggerAll, caddy, health, runner
  <2>4. CASE Shutdown
    BY <2>4 DEF TypeOK, Shutdown, Goto, Places, caddy, health, runner
  <2>5. ASSUME NEW c \in Communities, StartPoll(c) PROVE TypeOK'
    BY <2>5 DEF TypeOK, StartPoll, Goto, Places, caddy, health, runner
  <2>6. ASSUME NEW c \in Communities, PollOnce(c) PROVE TypeOK'
    <3>1. CASE FetchOK(c)
      BY <3>1 DEF TypeOK, FetchOK, Goto, Places, Answers, Answer, NotModified, caddy, health, runner
    <3>2. CASE FetchFails(c)
      BY <3>2 DEF TypeOK, FetchFails, Goto, Places, Answers, NoAnswer, caddy, health, runner
    <3>3. CASE PollFailed(c)
      BY <3>3 DEF TypeOK, PollFailed, Goto, Places, caddy, runner
    <3>4. CASE PollNotModified(c)
      BY <3>4 DEF TypeOK, PollNotModified, Goto, Places, Answers, NoAnswer, caddy, runner
    <3>5. CASE PollUpdated(c)
      <4>1. resp[c].dir \in DirOrNone
        BY DEF TypeOK, Answers
      <4> QED
        BY <3>5, <4>1
           DEF TypeOK, PollUpdated, Goto, Places, Answers, NoAnswer, DirMaps, caddy, runner
    <3> QED
      BY <2>6, <3>1, <3>2, <3>3, <3>4, <3>5 DEF PollOnce
  <2>7. ASSUME NEW c \in Communities, Exit(c) PROVE TypeOK'
    BY <2>7 DEF TypeOK, Exit, Goto, Places, caddy, health, runner
  <2>8. ASSUME NEW p \in Procs, Regenerate(p) PROVE TypeOK'
    <3>1. CASE Acquire(p)
      BY <3>1 DEF TypeOK, Acquire, Goto, Places, caddy, health
    <3>2. CASE ReadDir(p)
      BY <3>2 DEF TypeOK, ReadDir, DirMaps, caddy, health
    <3>3. CASE BuildRefused(p)
      BY <3>3 DEF TypeOK, BuildRefused, Return, Goto, Places, caddy, health
    <3>4. CASE BuildUnchanged(p)
      BY <3>4 DEF TypeOK, BuildUnchanged, Return, Goto, Places, caddy, health
    <3>5. CASE BuildChanged(p)
      BY <3>5 DEF TypeOK, BuildChanged, Goto, Places, caddy, health, runner
    <3>6. pc[p] = "post" => Build(rdirs) \in Documents
      BY BuildRefusesCollisions DEF TypeOK, LockInv
    <3>7. CASE ApplyOK(p)
      BY <3>6, <3>7 DEF TypeOK, ApplyOK, Goto, Places, health
    <3>8. CASE ApplyRejected(p)
      BY <3>8 DEF TypeOK, ApplyRejected, Return, Goto, Places, caddy, health
    <3>9. CASE ApplyUnconfirmed(p)
      BY <3>6, <3>9 DEF TypeOK, ApplyUnconfirmed, Return, Goto, Places, health
    <3>10. CASE SetPrefixMap(p)
      BY <3>10 DEF TypeOK, SetPrefixMap, Return, Goto, Places, caddy, health
    <3> QED
      BY <2>8, <3>1, <3>2, <3>3, <3>4, <3>5, <3>7, <3>8, <3>9, <3>10 DEF Regenerate
  <2>9. ASSUME NEW doc \in unanswered, LateLoad(doc) PROVE TypeOK'
    BY <2>9 DEF TypeOK, LateLoad, health, runner
  <2>10. CASE UNCHANGED vars
    BY <2>10 DEF TypeOK, vars, caddy, health, runner
  <2> QED
    BY <2>1, <2>2, <2>3, <2>4, <2>5, <2>6, <2>7, <2>8, <2>9, <2>10 DEF Next
<1>3. TypeOK /\ LockInv /\ [Next]_vars => LockInv'
  <2> SUFFICES ASSUME TypeOK, LockInv, [Next]_vars PROVE LockInv'
    OBVIOUS
  <2> USE ProcsFacts
  <2>1. ASSUME NEW c \in Communities, NEW d \in Dirs, Publish(c, d) PROVE LockInv'
    BY <2>1 DEF LockInv, Publish, runner
  <2>2. CASE waitFirstPoll \/ TriggerAll \/ Shutdown
    BY <2>2 DEF LockInv, TypeOK, waitFirstPoll, TriggerAll, Shutdown, Goto, runner
  <2>3. ASSUME NEW c \in Communities, StartPoll(c) \/ PollOnce(c) \/ Exit(c) PROVE LockInv'
    BY <2>3 DEF LockInv, TypeOK, StartPoll, PollOnce, Exit, FetchOK, FetchFails, PollFailed,
                PollNotModified, PollUpdated, Goto, runner
  <2>4. ASSUME NEW p \in Procs, Regenerate(p) PROVE LockInv'
    <3>1. CASE Acquire(p)
      BY <3>1 DEF LockInv, TypeOK, Acquire, Goto
    <3>2. CASE ReadDir(p)
      <4>1. \A q \in Procs : pc[q] # "post"
        BY <3>2 DEF LockInv, ReadDir
      <4> QED
        BY <3>2, <4>1 DEF LockInv, ReadDir
    <3>3. CASE BuildRefused(p) \/ BuildUnchanged(p)
      BY <3>3 DEF LockInv, TypeOK, BuildRefused, BuildUnchanged, Return, Goto
    <3>4. CASE BuildChanged(p)
      <4>1. ~Collision(rdirs)
        BY <3>4, BuildRefusesCollisions DEF BuildChanged, TypeOK
      <4> QED
        BY <3>4, <4>1 DEF LockInv, TypeOK, BuildChanged, Goto, runner
    <3>5. CASE ApplyOK(p)
      BY <3>5 DEF LockInv, TypeOK, ApplyOK, Goto
    <3>6. CASE ApplyRejected(p) \/ ApplyUnconfirmed(p) \/ SetPrefixMap(p)
      BY <3>6 DEF LockInv, TypeOK, ApplyRejected, ApplyUnconfirmed, SetPrefixMap, Return, Goto
    <3> QED
      BY <2>4, <3>1, <3>2, <3>3, <3>4, <3>5, <3>6 DEF Regenerate
  <2>5. ASSUME NEW doc \in unanswered, LateLoad(doc) PROVE LockInv'
    BY <2>5 DEF LockInv, LateLoad, runner
  <2>6. CASE UNCHANGED vars
    BY <2>6 DEF LockInv, vars, runner
  <2> QED
    BY <2>1, <2>2, <2>3, <2>4, <2>5, <2>6 DEF Next
<1> QED
  BY <1>1, <1>2, <1>3, PTL DEF Spec

\* The type of every variable, for any number of communities.
THEOREM PrefixTypeCorrect == Spec => []TypeOK
BY RunnerInvariant, PTL
-----------------------------------------------------------------------------
\* The invariant behind InSync: a poll makes one directory stale and owes a
\* regenerate, which pays before it returns nil; a POST that is given up leaves
\* the hash, and Caddy may load its document until it answers another one.
LEMMA SyncInvariant == Spec => []SyncInv
<1>1. Init => SyncInv
  BY ProcsFacts DEF Init, SyncInv
<1>2. TypeOK /\ LockInv /\ SyncInv /\ [Next]_vars => SyncInv'
  <2> SUFFICES ASSUME TypeOK, LockInv, SyncInv, [Next]_vars PROVE SyncInv'
    OBVIOUS
  <2> USE ProcsFacts
  <2>1. ASSUME NEW c \in Communities, NEW d \in Dirs, Publish(c, d) PROVE SyncInv'
    BY <2>1 DEF SyncInv, DirFresh, Publish, caddy, health, runner
  <2>2. CASE waitFirstPoll \/ TriggerAll \/ Shutdown
    BY <2>2 DEF SyncInv, DirFresh, TypeOK, waitFirstPoll, TriggerAll, Shutdown, Goto,
                      caddy, health, runner
  <2>3. ASSUME NEW c \in Communities, StartPoll(c) \/ PollOnce(c) \/ Exit(c) PROVE SyncInv'
    <3>1. /\ UNCHANGED <<caddy, lastHash, regenMu, readAt, rdirs, outcome>>
          /\ \A p \in Procs : p # c => pc'[p] = pc[p]
          /\ pc'[c] \notin {"read", "post", "sink"}
          /\ pc[c] # "lock"
      BY <2>3 DEF TypeOK, StartPoll, PollOnce, Exit, FetchOK, FetchFails, PollFailed,
                  PollNotModified, PollUpdated, Goto, runner
    <3>2. \A k \in Communities : dir'[k] = dir[k] \/ pc'[k] = "lock"
      BY <2>3 DEF TypeOK, DirMaps, StartPoll, PollOnce, Exit, FetchOK, FetchFails,
                  PollFailed, PollNotModified, PollUpdated, Goto, health
    <3>3. \A k \in Communities : DirFresh(k) => DirFresh(k)'
      BY <3>1, <3>2 DEF DirFresh
    <3> QED
      BY <3>1, <3>3 DEF SyncInv, caddy
  <2>4. ASSUME NEW p \in Procs, Regenerate(p) PROVE SyncInv'
    <3>0. dir' = dir /\ \A q \in Procs : q # p => pc'[q] = pc[q]
      BY <2>4 DEF TypeOK, Regenerate, Acquire, ReadDir, BuildRefused, BuildUnchanged,
              BuildChanged, ApplyOK, ApplyRejected, ApplyUnconfirmed, SetPrefixMap, Return,
              Goto, health
    <3>1. CASE Acquire(p)
      <4>1. regenMu = Nobody /\ regenMu' = p /\ readAt' = 1 /\ pc'[p] = "read"
        BY <3>1 DEF Acquire, TypeOK, Goto
      <4>2. \A q \in Procs : pc'[q] \notin {"post", "sink"}
        BY <3>0, <4>1 DEF LockInv
      <4> QED
        BY <3>1, <4>1, <4>2 DEF SyncInv, Acquire, caddy
    <3>2. CASE ReadDir(p)
      <4>1. readAt \in Communities /\ pc[p] = "read" /\ regenMu = p /\ pc' = pc
        BY <3>2 DEF ReadDir, TypeOK, LockInv
      <4>2. \A c \in Communities : c < readAt => DirFresh(c)
        BY <4>1 DEF SyncInv
      <4>3. \A c \in Communities : c < readAt' => DirFresh(c)'
        BY <3>0, <3>2, <4>1, <4>2 DEF ReadDir, DirFresh, TypeOK, DirMaps
      <4>4. \A q \in Procs : pc'[q] \notin {"post", "sink"}
        BY <4>1 DEF LockInv
      <4> QED
        BY <3>2, <4>1, <4>3, <4>4 DEF SyncInv, ReadDir, caddy
    <3>4. ASSUME pc[p] \in {"read", "post", "sink"}, rdirs' = rdirs,
                 \A c \in Communities : DirFresh(c)
          PROVE  \A c \in Communities : DirFresh(c)'
      BY <3>0, <3>4 DEF DirFresh
    <3>5. pc[p] = "read" /\ readAt > N => \A c \in Communities : DirFresh(c)
      BY DEF SyncInv, TypeOK
    <3>6. pc[p] \in {"post", "sink"} => \A c \in Communities : DirFresh(c)
      BY DEF SyncInv
    <3>7. CASE BuildRefused(p) \/ ApplyRejected(p) \/ ApplyUnconfirmed(p)
      <4>1. /\ outcome' = "error" /\ lastHash' = lastHash /\ running' = running
            /\ unanswered \subseteq unanswered' /\ regenMu = p
        BY <3>7 DEF BuildRefused, ApplyRejected, ApplyUnconfirmed, Return, LockInv, caddy
      <4>2. \A q \in Procs : pc'[q] \notin {"read", "post", "sink"}
        BY <3>0, <3>7, <4>1
           DEF LockInv, BuildRefused, ApplyRejected, ApplyUnconfirmed, Return, TypeOK, Goto
      <4> QED
        BY <4>1, <4>2 DEF SyncInv
    <3>8. CASE BuildUnchanged(p)
      <4>1. /\ pc[p] = "read" /\ readAt > N /\ rdirs' = rdirs /\ regenMu = p
            /\ UNCHANGED <<running, unanswered, lastHash>> /\ Build(rdirs) = lastHash
        BY <3>8 DEF BuildUnchanged, Return, LockInv, caddy
      <4>2. \A c \in Communities : DirFresh(c)'
        BY <3>4, <3>5, <4>1
      <4>3. \A q \in Procs : pc'[q] \notin {"read", "post", "sink"}
        BY <3>0, <3>8, <4>1 DEF LockInv, BuildUnchanged, Return, TypeOK, Goto
      <4> QED
        BY <4>1, <4>2, <4>3 DEF SyncInv
    <3>9. CASE BuildChanged(p)
      <4>1. pc[p] = "read" /\ readAt > N /\ pc'[p] = "post" /\ regenMu = p
            /\ UNCHANGED <<rdirs, running, unanswered, lastHash, regenMu>>
        BY <3>9 DEF BuildChanged, LockInv, TypeOK, Goto, caddy, runner
      <4>2. \A c \in Communities : DirFresh(c)'
        BY <3>4, <3>5, <4>1
      <4>3. \A q \in Procs : pc'[q] \notin {"read", "sink"}
        BY <3>0, <4>1 DEF LockInv
      <4> QED
        BY <4>1, <4>2, <4>3 DEF SyncInv
    <3>10. CASE ApplyOK(p)
      <4>1. /\ pc[p] = "post" /\ pc'[p] = "sink" /\ regenMu = p /\ regenMu' = p
            /\ rdirs' = rdirs /\ running' = Build(rdirs) /\ lastHash' = Build(rdirs)
        BY <3>10 DEF ApplyOK, LockInv, TypeOK, Goto
      <4>2. \A c \in Communities : DirFresh(c)'
        BY <3>4, <3>6, <4>1
      <4>3. \A q \in Procs : pc'[q] \notin {"read", "post"}
        BY <3>0, <4>1 DEF LockInv
      <4>4. lastHash' = Build(rdirs') /\ running' = lastHash'
        BY <4>1
      <4> QED
        BY <4>1, <4>2, <4>3, <4>4 DEF SyncInv
    <3>11. CASE SetPrefixMap(p)
      <4>1. /\ pc[p] = "sink" /\ regenMu = p /\ rdirs' = rdirs
            /\ UNCHANGED <<running, unanswered, lastHash>>
        BY <3>11 DEF SetPrefixMap, Return, LockInv, caddy
      <4>2. lastHash' = Build(rdirs')
        BY <4>1 DEF SyncInv
      <4>3. \A c \in Communities : DirFresh(c)'
        BY <3>4, <3>6, <4>1
      <4>4. \A q \in Procs : pc'[q] \notin {"read", "post", "sink"}
        BY <3>0, <3>11, <4>1 DEF LockInv, SetPrefixMap, Return, TypeOK, Goto
      <4> QED
        BY <4>1, <4>2, <4>3, <4>4 DEF SyncInv
    <3> QED
      BY <2>4, <3>1, <3>2, <3>7, <3>8, <3>9, <3>10, <3>11 DEF Regenerate
  <2>5. ASSUME NEW doc \in unanswered, LateLoad(doc) PROVE SyncInv'
    BY <2>5 DEF SyncInv, DirFresh, LateLoad, health, runner
  <2>6. CASE UNCHANGED vars
    BY <2>6 DEF SyncInv, DirFresh, vars, caddy, health, runner
  <2> QED
    BY <2>1, <2>2, <2>3, <2>4, <2>5, <2>6 DEF Next
<1> QED
  BY <1>1, <1>2, RunnerInvariant, PTL DEF Spec

\* Whenever the last regenerate returned nil and none is under way or due, the
\* confirmed document is the merge of the directories held, and Caddy runs it or
\* one whose answer was lost since, for any number of communities.
THEOREM MergeInSync == Spec => []InSync
<1>1. TypeOK /\ LockInv /\ SyncInv => InSync
  <2> SUFFICES ASSUME TypeOK, LockInv, SyncInv, Settled
               PROVE  lastHash = Build(dir)
    BY DEF InSync, SyncInv
  <2>1. regenMu = Nobody
    BY DEF TypeOK, LockInv, Settled
  <2>2. \A c \in Communities : rdirs[c] = dir[c]
    BY <2>1, ProcsFacts DEF SyncInv, DirFresh, Settled
  <2>3. rdirs = dir
    BY <2>2 DEF TypeOK, DirMaps
  <2> QED
    BY <2>1, <2>3 DEF SyncInv, Settled
<1> QED
  BY <1>1, RunnerInvariant, SyncInvariant, PTL
-----------------------------------------------------------------------------
(* The refinement: PrefixPoller implements ConfigSync.                      *)

\* A regenerate of p leaves the others' dues alone.
LEMMA DueOfRegenerate ==
  ASSUME TypeOK, NEW p \in Procs, pc[p] \in {"lock", "read", "post", "sink"},
         NEW place \in Places, pc' = [pc EXCEPT ![p] = place]
  PROVE  /\ p \in Due
         /\ place \in {"lock", "read", "post", "sink"} => Due' = Due
         /\ place \in {"serve", "select"} => Due' = Due \ {p}
BY DEF Due, TypeOK

\* The document for what was read is out of date only in what is due.
LEMMA ReadReflects ==
  ASSUME TypeOK', \A c \in Communities : DirFresh(c)', dir' = dir
  PROVE  Build(rdirs') \in Sync!UpToDate(Due')
<1>1. rdirs' \in DirMaps
  BY DEF TypeOK
<1>2. \A c \in Communities \ Due' : rdirs'[c] = dir[c]
  BY ProcsFacts DEF DirFresh, Due
<1>3. QED
  BY <1>1, <1>2 DEF Sync!UpToDate

\* PrefixPoller implements ConfigSync, for any number of communities and
\* whatever answers of Caddy are lost: also a refused merge and a refused POST
\* leave a regenerate that is no longer due and a Caddy as it was.
THEOREM PrefixImplementsConfigSync == Spec => ImplementsConfigSync
<1>1. Init => Sync!Init
  <2> SUFFICES ASSUME Init PROVE Sync!Init
    OBVIOUS
  <2>1. dir \in DirMaps
    BY ProcsFacts DEF Init, DirMaps
  <2>2. QED
    BY <2>1 DEF Init, Sync!Init, Due
<1>2. TypeOK /\ TypeOK' /\ LockInv /\ SyncInv /\ SyncInv' /\ [Next]_vars
        => [Sync!Next]_(Sync!vars)
  <2> SUFFICES ASSUME TypeOK, TypeOK', LockInv, SyncInv, SyncInv', [Next]_vars
               PROVE  Sync!Next \/ UNCHANGED Sync!vars
    OBVIOUS
  <2> USE ProcsFacts
  <2>0. ASSUME UNCHANGED <<dir, caddy, lastHash, outcome>>, Due' = Due
        PROVE  UNCHANGED Sync!vars
    BY <2>0 DEF Sync!vars, caddy
  <2>1. CASE TriggerAll \/ UNCHANGED vars \/ \E c \in Communities, d \in Dirs : Publish(c, d)
    <3>1. UNCHANGED <<dir, caddy, lastHash, outcome, pc>>
      BY <2>1 DEF Publish, TriggerAll, vars, health, runner
    <3>2. QED
      BY <2>0, <3>1 DEF Due
  <2>2. CASE waitFirstPoll
    <3>1. UNCHANGED <<dir, caddy, lastHash, outcome>>
      BY <2>2 DEF waitFirstPoll, health, runner
    <3>2. Due' = Due \cup {Main}
      BY <2>2 DEF Due, waitFirstPoll, Goto, TypeOK
    <3>3. Sync!Begin(Main)
      BY <3>1, <3>2 DEF Sync!Begin, caddy
    <3>4. QED
      BY <3>3 DEF Sync!Next
  <2>3. CASE Shutdown
    <3>1. UNCHANGED <<dir, caddy, lastHash, outcome>>
      BY <2>3 DEF Shutdown, health, runner
    <3>2. Due' = Due
      BY <2>3 DEF Due, Shutdown, Goto, TypeOK
    <3>3. QED
      BY <2>0, <3>1, <3>2
  <2>4. ASSUME NEW c \in Communities, StartPoll(c) \/ PollOnce(c) \/ Exit(c)
        PROVE  Sync!Next \/ UNCHANGED Sync!vars
    <3>1. CASE PollUpdated(c)
      <4>1. UNCHANGED <<caddy, lastHash, outcome>>
        BY <3>1 DEF PollUpdated, runner
      <4>2. \A k \in Communities : k # c => dir'[k] = dir[k]
        BY <3>1 DEF PollUpdated, TypeOK, DirMaps
      <4>3. dir' \in DirMaps
        BY DEF TypeOK
      <4>4. Due' = Due \cup {c}
        BY <3>1 DEF Due, PollUpdated, Goto, TypeOK
      <4>5. Sync!Change(c)
        BY <4>1, <4>2, <4>3, <4>4 DEF Sync!Change, caddy
      <4>6. QED
        BY <4>5 DEF Sync!Next
    <3>2. CASE \/ StartPoll(c) \/ FetchOK(c) \/ FetchFails(c) \/ PollFailed(c)
               \/ PollNotModified(c) \/ Exit(c)
      <4>1. UNCHANGED <<dir, caddy, lastHash, outcome>>
        BY <3>2 DEF StartPoll, FetchOK, FetchFails, PollFailed, PollNotModified, Exit, health,
                    runner
      <4>2. /\ pc[c] \in {"select", "fetch", "answered"}
            /\ \E place \in {"fetch", "answered", "select", "exited"} :
                 pc' = [pc EXCEPT ![c] = place]
        BY <3>2 DEF StartPoll, FetchOK, FetchFails, PollFailed, PollNotModified, Exit, Goto
      <4>3. Due' = Due
        BY <4>2 DEF Due, TypeOK
      <4>4. QED
        BY <2>0, <4>1, <4>3
    <3>3. QED
      BY <2>4, <3>1, <3>2 DEF PollOnce
  <2>5. ASSUME NEW p \in Procs, Regenerate(p) PROVE Sync!Next \/ UNCHANGED Sync!vars
    <3>0. pc[p] \in {"lock", "read", "post", "sink"} /\ dir' = dir
      BY <2>5 DEF Regenerate, Acquire, ReadDir, BuildRefused, BuildUnchanged, BuildChanged,
              ApplyOK, ApplyRejected, ApplyUnconfirmed, SetPrefixMap, Return, health
    <3>1. p \in Due
      BY <3>0 DEF Due
    <3>2. ASSUME NEW result, Return(p, result) PROVE Due' = Due \ {p}
      <4>1. PICK place \in {"serve", "select"} : pc' = [pc EXCEPT ![p] = place]
        BY <3>2 DEF Return, Goto
      <4>2. QED
        BY <3>0, <4>1, DueOfRegenerate DEF Places
    <3>3. ASSUME NEW place \in {"read", "post", "sink"}, Goto(p, place) PROVE Due' = Due
      BY <3>0, <3>3, DueOfRegenerate DEF Places, Goto
    <3>4. CASE Acquire(p) \/ ReadDir(p) \/ BuildChanged(p)
      <4>1. UNCHANGED <<caddy, lastHash, outcome>>
        BY <3>4 DEF Acquire, ReadDir, BuildChanged, runner
      <4>2. pc' = pc \/ Goto(p, "read") \/ Goto(p, "post")
        BY <3>4 DEF Acquire, ReadDir, BuildChanged
      <4>3. Due' = Due
        BY <3>3, <4>2 DEF Due
      <4>4. QED
        BY <2>0, <3>0, <4>1, <4>3
    <3>5. CASE BuildUnchanged(p) \/ SetPrefixMap(p)
      <4>1. /\ outcome' = "ok" /\ regenMu' = Nobody /\ Due' = Due \ {p}
            /\ UNCHANGED <<caddy, lastHash>>
        BY <3>2, <3>5 DEF BuildUnchanged, SetPrefixMap, Return
      <4>2. lastHash' \in Sync!UpToDate(Due')
        BY <3>0, <4>1, ReadReflects DEF SyncInv
      <4>3. Sync!Succeed(p)
        BY <3>0, <3>1, <4>1, <4>2 DEF Sync!Succeed, caddy
      <4>4. QED
        BY <4>3 DEF Sync!Next
    <3>6. CASE ApplyOK(p)
      <4>1. /\ outcome' = outcome /\ Due' = Due
            /\ running' = lastHash' /\ unanswered' = {}
        BY <3>3, <3>6 DEF ApplyOK
      <4>2. pc'[p] = "sink"
        BY <3>6 DEF ApplyOK, Goto, TypeOK
      <4>3. lastHash' \in Sync!UpToDate(Due')
        BY <3>0, <4>2, ReadReflects DEF SyncInv
      <4>4. Sync!Load(p)
        BY <3>0, <3>1, <4>1, <4>3 DEF Sync!Load, Sync!Confirm
      <4>5. QED
        BY <4>4 DEF Sync!Next
    <3>7. CASE BuildRefused(p) \/ ApplyRejected(p)
      <4>1. outcome' = "error" /\ Due' = Due \ {p} /\ UNCHANGED <<caddy, lastHash>>
        BY <3>2, <3>7 DEF BuildRefused, ApplyRejected, Return
      <4>2. Sync!Fail(p)
        BY <3>0, <3>1, <4>1 DEF Sync!Fail, caddy
      <4>3. QED
        BY <4>2 DEF Sync!Next
    <3>8. CASE ApplyUnconfirmed(p)
      <4>1. /\ outcome' = "error" /\ Due' = Due \ {p} /\ UNCHANGED <<running, lastHash, rdirs>>
            /\ unanswered' = unanswered \cup {Build(rdirs)} /\ pc[p] = "post"
        BY <3>2, <3>8 DEF ApplyUnconfirmed, Return
      <4>2. \A c \in Communities : DirFresh(c)
        BY <4>1 DEF SyncInv
      <4>3. \A q \in Procs : q # p => pc'[q] = pc[q]
        BY <3>8 DEF ApplyUnconfirmed, Return, Goto, TypeOK
      <4>4. \A c \in Communities : DirFresh(c)'
        BY <3>0, <4>1, <4>2, <4>3 DEF DirFresh
      <4>5. Build(rdirs) \in Sync!UpToDate(Due')
        BY <3>0, <4>1, <4>4, ReadReflects
      <4>6. Sync!Lose(p)
        BY <3>0, <3>1, <4>1, <4>5 DEF Sync!Lose
      <4>7. QED
        BY <4>6 DEF Sync!Next
    <3>9. QED
      BY <2>5, <3>4, <3>5, <3>6, <3>7, <3>8 DEF Regenerate
  <2>6. ASSUME NEW doc \in unanswered, LateLoad(doc) PROVE Sync!Next
    <3>1. UNCHANGED <<dir, lastHash, unanswered, outcome, pc>> /\ running' \in unanswered
      BY <2>6 DEF LateLoad, health, runner
    <3>2. Due' = Due
      BY <3>1 DEF Due
    <3>3. Sync!Late
      BY <3>1, <3>2 DEF Sync!Late
    <3>4. QED
      BY <3>3 DEF Sync!Next
  <2>7. QED
    BY <2>1, <2>2, <2>3, <2>4, <2>5, <2>6 DEF Next
<1>3. QED
  BY <1>1, <1>2, RunnerInvariant, SyncInvariant, PTL
     DEF Spec, ImplementsConfigSync, Sync!Spec
-----------------------------------------------------------------------------
\* No SIGHUP is lost to the coalescing of the trigger channels.
THEOREM PrefixSighupNotLost == Spec => []NoLostHup
<1>1. Init => NoLostHup
  BY DEF Init, NoLostHup
<1>2. TypeOK /\ NoLostHup /\ [Next]_vars => NoLostHup'
  <2> SUFFICES ASSUME TypeOK, NoLostHup, [Next]_vars PROVE NoLostHup'
    OBVIOUS
  <2>1. ASSUME UNCHANGED <<trig, hupOwed>> PROVE NoLostHup'
    BY <2>1 DEF NoLostHup
  <2>2. CASE TriggerAll
    BY <2>2 DEF NoLostHup, TriggerAll
  <2>3. ASSUME NEW c \in Communities, StartPoll(c) PROVE NoLostHup'
    BY <2>3 DEF NoLostHup, StartPoll, TypeOK
  <2>4. QED
    BY <2>1, <2>2, <2>3
       DEF Next, vars, Publish, waitFirstPoll, Shutdown, PollOnce, Exit, FetchOK, FetchFails,
           PollFailed, PollNotModified, PollUpdated, Regenerate, Acquire, ReadDir,
           BuildRefused, BuildUnchanged, BuildChanged, ApplyOK, ApplyRejected,
           ApplyUnconfirmed, LateLoad, SetPrefixMap, Return
<1>3. QED
  BY <1>1, <1>2, RunnerInvariant, PTL DEF Spec
-----------------------------------------------------------------------------
\* The pair that a node name stands for: some pair with that name comes last.
LEMMA LastPairExists ==
  ASSUME NEW dirs, NEW s \in Pairs(dirs)
  PROVE  LastPair(dirs, nodeName(s)) \in Pairs(dirs) /\ nodeName(LastPair(dirs, nodeName(s))) = nodeName(s)
<1> DEFINE name == nodeName(s)
           Ranks == {n \in Nat : \E t \in Pairs(dirs) : nodeName(t) = name /\ n = N - t[1]}
<1>1. \A t \in Pairs(dirs) : t[1] \in Communities
  BY DEF Pairs
<1>2. N \in Nat /\ Communities = 1..N
  BY ProcsFacts
<1>3. \A t \in Pairs(dirs) : nodeName(t) = name => N - t[1] \in Ranks
  BY <1>1, <1>2
<1>4. Ranks # {} /\ Ranks \in SUBSET Nat
  BY <1>3
<1>5. PICK n \in Ranks : \A m \in Ranks : n <= m
  <2>1. PICK n \in Ranks : \A m \in Ranks : ~(<<m, n>> \in OpToRel(<, Nat))
    BY <1>4, NatLessThanWellFounded, WFMin
  <2>2. \A m \in Ranks : ~(m < n)
    BY <1>4, <2>1 DEF OpToRel
  <2>3. QED
    BY <1>4, <2>2
<1>6. PICK t \in Pairs(dirs) : nodeName(t) = name /\ n = N - t[1]
  BY <1>5
<1>7. \A u \in Pairs(dirs) : nodeName(u) = name => u[1] <= t[1]
  <2> SUFFICES ASSUME NEW u \in Pairs(dirs), nodeName(u) = name PROVE u[1] <= t[1]
    OBVIOUS
  <2>1. n <= N - u[1]
    BY <1>3, <1>5
  <2>2. u[1] \in 1..N /\ t[1] \in 1..N
    BY <1>1, <1>2
  <2>3. QED
    BY <1>2, <1>6, <2>1, <2>2
<1>8. QED
  BY <1>6, <1>7 DEF LastPair

\* A merge without a collision has no hostname twice.
LEMMA NoCollisionNoClash ==
  ASSUME NEW dirs, ~Collision(dirs),
         NEW a \in DOMAIN BuiltDocument(dirs).servers,
         NEW b \in DOMAIN BuiltDocument(dirs).servers,
         BuiltDocument(dirs).servers[a].host = BuiltDocument(dirs).servers[b].host
  PROVE  a = b
<1>1. /\ a \in {nodeName(s) : s \in Pairs(dirs)} /\ b \in {nodeName(s) : s \in Pairs(dirs)}
      /\ BuiltDocument(dirs).servers[a].host = personalHost(dirs, LastPair(dirs, a))
      /\ BuiltDocument(dirs).servers[b].host = personalHost(dirs, LastPair(dirs, b))
  BY DEF BuiltDocument, buildServer
<1>2. /\ LastPair(dirs, a) \in Pairs(dirs) /\ nodeName(LastPair(dirs, a)) = a
      /\ LastPair(dirs, b) \in Pairs(dirs) /\ nodeName(LastPair(dirs, b)) = b
  BY <1>1, LastPairExists
<1>3. QED
  BY <1>1, <1>2 DEF Collision

\* What Caddy runs, and what it may still load, is a merge that was not refused.
MergedDocuments == {BuiltDocument(d) : d \in {e \in DirMaps : ~Collision(e)}}

RunningMerged ==
  /\ running \in MergedDocuments \cup {NoDocument}
  /\ unanswered \subseteq MergedDocuments

\* No document that Caddy runs gives one hostname to two listeners, whatever
\* the directories and however polls, refusals, failed POSTs and late loads
\* interleave.
THEOREM HostsAreUnique == Spec => []HostsUnique
<1>1. Init => RunningMerged
  BY DEF Init, RunningMerged
<1>2. TypeOK /\ LockInv /\ RunningMerged /\ [Next]_vars => RunningMerged'
  <2> SUFFICES ASSUME TypeOK, LockInv, RunningMerged, [Next]_vars PROVE RunningMerged'
    OBVIOUS
  <2>1. CASE UNCHANGED caddy
    BY <2>1 DEF RunningMerged, caddy
  <2>2. ASSUME NEW p \in Procs, ApplyOK(p) \/ ApplyUnconfirmed(p) PROVE RunningMerged'
    <3>1. Build(rdirs) \in MergedDocuments
      BY <2>2 DEF ApplyOK, ApplyUnconfirmed, LockInv, TypeOK, Build, MergedDocuments
    <3>2. QED
      BY <2>2, <3>1 DEF RunningMerged, ApplyOK, ApplyUnconfirmed
  <2>3. ASSUME NEW doc \in unanswered, LateLoad(doc) PROVE RunningMerged'
    BY <2>3 DEF RunningMerged, LateLoad
  <2>4. QED
    BY <2>1, <2>2, <2>3
       DEF Next, vars, Publish, waitFirstPoll, TriggerAll, Shutdown, StartPoll, PollOnce, Exit,
           FetchOK, FetchFails, PollFailed, PollNotModified, PollUpdated, Regenerate, Acquire,
           ReadDir, BuildRefused, BuildUnchanged, BuildChanged, ApplyRejected, SetPrefixMap,
           Return
<1>3. RunningMerged => HostsUnique
  <2> SUFFICES ASSUME RunningMerged, running # NoDocument,
                      NEW a \in DOMAIN running.servers, NEW b \in DOMAIN running.servers,
                      running.servers[a].host = running.servers[b].host
               PROVE  a = b
    BY DEF HostsUnique
  <2>1. PICK d \in DirMaps : ~Collision(d) /\ running = BuiltDocument(d)
    BY DEF RunningMerged, MergedDocuments
  <2>2. QED
    BY <2>1, NoCollisionNoClash
<1>4. QED
  BY <1>1, <1>2, <1>3, RunnerInvariant, PTL DEF Spec
-----------------------------------------------------------------------------
(* Attribution, where node names tell the pairs apart.                      *)

Names == UNION {NamesOf[d] : d \in Dirs}

NodeNamesDiffer ==
  \A c, k \in Communities : \A n, m \in Names :
    nodeName(<<c, n>>) = nodeName(<<k, m>>) => c = k /\ n = m

\* The prefix is the first part of a personal host.
LEMMA HostBeginsWithPrefix ==
  ASSUME NEW Parts, NEW x, NEW n \in Seq(Parts)
  PROVE  (<<x>> \o n)[1] = x
<1>1. <<x>> \in Seq(Parts \cup {x}) /\ n \in Seq(Parts \cup {x})
  OBVIOUS
<1>2. Len(<<x>>) = 1 /\ <<x>>[1] = x
  OBVIOUS
<1>3. QED
  BY <1>1, <1>2

\* A pair is a community and a name of the directory held for it.
LEMMA PairParts ==
  ASSUME NEW d \in DirMaps, NEW s \in Pairs(d)
  PROVE  /\ s = <<s[1], s[2]>>
         /\ s[1] \in Communities
         /\ d[s[1]] \in Dirs
         /\ s[2] \in NamesOf[d[s[1]]]
         /\ s[2] \in Names
<1>1. PICK c \in Communities : d[c] # NoDir /\ \E n \in NamesOf[d[c]] : s = <<c, n>>
  BY DEF Pairs
<1>2. d[c] \in Dirs
  BY <1>1 DEF DirMaps, DirOrNone
<1>3. QED
  BY <1>1, <1>2 DEF Names

\* If node names differ, the document has the server of every pair.
LEMMA ServerOfPair ==
  ASSUME NodeNamesDiffer, NEW d \in DirMaps, NEW s \in Pairs(d)
  PROVE  /\ nodeName(s) \in DOMAIN BuiltDocument(d).servers
         /\ BuiltDocument(d).servers[nodeName(s)] = buildServer(d, s)
<1> DEFINE t == LastPair(d, nodeName(s))
<1>1. t \in Pairs(d) /\ nodeName(t) = nodeName(s)
  BY LastPairExists
<1>2. /\ s = <<s[1], s[2]>> /\ s[1] \in Communities /\ s[2] \in Names
      /\ t = <<t[1], t[2]>> /\ t[1] \in Communities /\ t[2] \in Names
  BY <1>1, PairParts
<1> HIDE DEF t
<1>3. nodeName(<<t[1], t[2]>>) = nodeName(<<s[1], s[2]>>)
  BY <1>1, <1>2
<1>4. t[1] = s[1] /\ t[2] = s[2]
  BY <1>2, <1>3 DEF NodeNamesDiffer
<1>5. t = s
  BY <1>2, <1>4
<1>6. QED
  BY <1>5 DEF BuiltDocument, t

\* Equal documents are built from the same pairs, with the same prefixes.
LEMMA EqualDocuments ==
  ASSUME NodeNamesDiffer, NEW Parts, \A d \in Dirs : NamesOf[d] \subseteq Seq(Parts),
         NEW d \in DirMaps, NEW e \in DirMaps, BuiltDocument(d) = BuiltDocument(e),
         NEW s \in Pairs(d)
  PROVE  /\ e[s[1]] # NoDir
         /\ PrefixOf[e[s[1]]] = PrefixOf[d[s[1]]]
<1>1. /\ nodeName(s) \in DOMAIN BuiltDocument(e).servers
      /\ BuiltDocument(e).servers[nodeName(s)] = buildServer(d, s)
  BY ServerOfPair
<1>2. PICK t \in Pairs(e) : nodeName(t) = nodeName(s)
  BY <1>1 DEF BuiltDocument
<1>3. /\ s = <<s[1], s[2]>> /\ s[1] \in Communities /\ s[2] \in Names
      /\ t = <<t[1], t[2]>> /\ t[1] \in Communities /\ t[2] \in Names
      /\ e[t[1]] \in Dirs /\ d[s[1]] \in Dirs /\ s[2] \in NamesOf[d[s[1]]]
  BY PairParts
<1>4. t = s
  <2>1. nodeName(<<t[1], t[2]>>) = nodeName(<<s[1], s[2]>>)
    BY <1>2, <1>3
  <2>2. t[1] = s[1] /\ t[2] = s[2]
    BY <1>3, <2>1 DEF NodeNamesDiffer
  <2>3. QED
    BY <1>3, <2>2
<1>5. buildServer(e, s) = buildServer(d, s)
  BY <1>1, <1>2, <1>4, ServerOfPair
<1>6. <<PrefixOf[e[s[1]]]>> \o s[2] = <<PrefixOf[d[s[1]]]>> \o s[2]
  BY <1>5 DEF buildServer, personalHost
<1>7. s[2] \in Seq(Parts)
  BY <1>3
<1>8. QED
  BY <1>3, <1>4, <1>6, <1>7, HostBeginsWithPrefix, PrefixConfigAssumption

\* The prefix map has an owner for every prefix in d, and no others.
MapOf(d, map) ==
  \A x \in Prefixes : IF Owners(d, x) = {} THEN map[x] = NoCommunity
                                           ELSE map[x] \in Owners(d, x)

\* Every community of which d has a directory still has one in e.
StillHeld(d, e) == \A c \in Communities : d[c] # NoDir => e[c] # NoDir

\* A map made with one document attributes the hosts of an equal one, built
\* later from directories with distinct prefixes that all list a service, to
\* the right communities.
LEMMA MapAttributes ==
  ASSUME NodeNamesDiffer,
         NEW Parts, \A d \in Dirs : NamesOf[d] \subseteq Seq(Parts),
         NEW d \in DirMaps, NEW e \in DirMaps, BuiltDocument(d) = BuiltDocument(e),
         DistinctPrefixes(e), NoneEmpty(e), StillHeld(d, e), MapOf(d, prefixMap),
         NEW s \in Served(BuiltDocument(e))
  PROVE  communityIDForHost(s[1]) = s[2]
<1>1. PICK t \in Pairs(e) : s = <<buildServer(e, t).host, buildServer(e, t).community>>
  <2>1. PICK name \in DOMAIN BuiltDocument(e).servers :
          s = <<BuiltDocument(e).servers[name].host, BuiltDocument(e).servers[name].community>>
    BY DEF Served
  <2>2. PICK t \in Pairs(e) : name = nodeName(t)
    BY <2>1 DEF BuiltDocument
  <2>3. QED
    BY <2>1, <2>2, ServerOfPair
<1> DEFINE x == PrefixOf[e[t[1]]]
<1>2. /\ t[1] \in Communities /\ e[t[1]] \in Dirs /\ t[2] \in NamesOf[e[t[1]]]
      /\ x \in Prefixes
  BY PairParts DEF Prefixes
<1>3. s[1] = <<x>> \o t[2] /\ s[2] = t[1]
  BY <1>1 DEF buildServer, personalHost
<1>4. communityIDForHost(s[1]) = prefixMap[x]
  <2>1. t[2] \in Seq(Parts)
    BY <1>2
  <2>2. s[1][1] = x
    BY <1>3, <2>1, HostBeginsWithPrefix
  <2>3. QED
    BY <2>2 DEF communityIDForHost
<1>5. d[t[1]] # NoDir /\ PrefixOf[d[t[1]]] = x
  BY EqualDocuments
<1>6. t[1] \in Owners(d, x)
  BY <1>2, <1>5 DEF Owners
<1> HIDE DEF x
<1>7. PICK k \in Communities : prefixMap[x] = k /\ d[k] # NoDir /\ PrefixOf[d[k]] = x
  BY <1>2, <1>6 DEF MapOf, Owners
<1>8. PICK n \in NamesOf[e[k]] : <<k, n>> \in Pairs(e)
  <2>1. e[k] # NoDir
    BY <1>7 DEF StillHeld
  <2>2. QED
    BY <1>7, <2>1 DEF NoneEmpty, Pairs
<1>9. e[k] # NoDir /\ PrefixOf[e[k]] = x
  <2>1. d[<<k, n>>[1]] # NoDir /\ PrefixOf[d[<<k, n>>[1]]] = PrefixOf[e[<<k, n>>[1]]]
    BY <1>8, EqualDocuments
  <2>2. QED
    BY <1>7, <2>1 DEF StillHeld
<1>10. k = t[1]
  BY <1>2, <1>9, PrefixConfigAssumption DEF DistinctPrefixes, x
<1>11. QED
  BY <1>3, <1>4, <1>7, <1>10

\* No step takes away the directory held of a community.
LEMMA DirectoriesStay ==
  ASSUME TypeOK, [Next]_vars
  PROVE  StillHeld(dir, dir')
<1>1. ASSUME NEW c \in Communities, PollUpdated(c) PROVE StillHeld(dir, dir')
  <2>1. resp[c].dir # NoDir
    BY <1>1, PrefixConfigAssumption DEF PollUpdated, TypeOK, Answers
  <2>2. QED
    BY <1>1, <2>1 DEF StillHeld, PollUpdated, TypeOK, DirMaps
<1>2. CASE UNCHANGED dir
  BY <1>2 DEF StillHeld
<1>3. QED
  BY <1>1, <1>2
     DEF Next, vars, health, Publish, waitFirstPoll, TriggerAll, Shutdown, StartPoll,
         PollOnce, Exit, FetchOK, FetchFails, PollFailed, PollNotModified, Regenerate,
         Acquire, ReadDir, BuildRefused, BuildUnchanged, BuildChanged, ApplyOK, ApplyRejected,
         ApplyUnconfirmed, LateLoad, SetPrefixMap, Return

\* Of what was read, every directory is still held in some version: an answer
\* replaces a directory by another, and nothing removes one.
LEMMA ReadIsHeld == Spec => []StillHeld(rdirs, dir)
<1>1. Init => StillHeld(rdirs, dir)
  BY DEF Init, StillHeld
<1>2. TypeOK /\ StillHeld(rdirs, dir) /\ [Next]_vars => StillHeld(rdirs', dir')
  <2> SUFFICES ASSUME TypeOK, StillHeld(rdirs, dir), [Next]_vars PROVE StillHeld(rdirs', dir')
    OBVIOUS
  <2>1. CASE UNCHANGED <<dir, rdirs>>
    BY <2>1
  <2>2. ASSUME NEW c \in Communities, PollUpdated(c) PROVE StillHeld(rdirs', dir')
    BY <2>2, DirectoriesStay DEF StillHeld, PollUpdated, runner
  <2>3. ASSUME NEW p \in Procs, ReadDir(p) PROVE StillHeld(rdirs', dir')
    BY <2>3 DEF StillHeld, ReadDir, TypeOK, DirMaps, health
  <2>4. QED
    BY <2>1, <2>2, <2>3
       DEF Next, vars, health, runner, Publish, waitFirstPoll, TriggerAll, Shutdown, StartPoll,
           PollOnce, Exit, FetchOK, FetchFails, PollFailed, PollNotModified, Regenerate,
           Acquire, BuildRefused, BuildUnchanged, BuildChanged, ApplyOK, ApplyRejected,
           ApplyUnconfirmed, LateLoad, SetPrefixMap, Return
<1>3. StillHeld(rdirs, dir)' <=> StillHeld(rdirs', dir')
  BY DEF StillHeld
<1>4. QED
  BY <1>1, <1>2, <1>3, RunnerInvariant, PTL DEF Spec

\* Outside the step between POST and SetPrefixMap, the map was made with
\* directories that give the document last applied.
MapInv ==
  /\ \A p \in Procs : pc[p] = "sink" => lastHash = BuiltDocument(rdirs)
  /\ lastHash # NoDocument /\ (\A p \in Procs : pc[p] # "sink") =>
       \E d \in DirMaps : lastHash = BuiltDocument(d) /\ MapOf(d, prefixMap) /\ StillHeld(d, dir)

LEMMA MapInvariant == Spec => []MapInv
<1>1. Init => MapInv
  BY DEF Init, MapInv
<1>2. TypeOK /\ LockInv /\ StillHeld(rdirs, dir) /\ MapInv /\ [Next]_vars => MapInv'
  <2> SUFFICES ASSUME TypeOK, LockInv, StillHeld(rdirs, dir), MapInv, [Next]_vars PROVE MapInv'
    OBVIOUS
  <2> USE ProcsFacts
  <2>0. /\ \A d : MapOf(d, prefixMap)' <=> MapOf(d, prefixMap')
        /\ \A d : StillHeld(d, dir)' <=> StillHeld(d, dir')
        /\ \A d : StillHeld(d, dir) => StillHeld(d, dir')
    BY DirectoriesStay DEF MapOf, Owners, StillHeld
  <2>1. ASSUME UNCHANGED <<lastHash, prefixMap>>,
               \A p \in Procs : pc'[p] = "sink" <=> pc[p] = "sink",
               \A p \in Procs : pc[p] = "sink" => rdirs' = rdirs
        PROVE  MapInv'
    BY <2>0, <2>1 DEF MapInv
  <2>2. ASSUME NEW c \in Communities, NEW d \in Dirs, Publish(c, d) PROVE MapInv'
    BY <2>1, <2>2 DEF Publish, runner
  <2>3. CASE waitFirstPoll \/ TriggerAll \/ Shutdown
    BY <2>1, <2>3 DEF waitFirstPoll, TriggerAll, Shutdown, Goto, TypeOK, runner
  <2>4. ASSUME NEW c \in Communities, StartPoll(c) \/ PollOnce(c) \/ Exit(c) PROVE MapInv'
    <3>1. UNCHANGED <<lastHash, prefixMap, rdirs>>
      BY <2>4 DEF StartPoll, PollOnce, Exit, FetchOK, FetchFails, PollFailed,
                  PollNotModified, PollUpdated, runner
    <3>2. /\ pc[c] # "sink"
          /\ \E place \in {"fetch", "answered", "lock", "select", "exited"} :
               pc' = [pc EXCEPT ![c] = place]
      BY <2>4 DEF StartPoll, PollOnce, Exit, FetchOK, FetchFails, PollFailed,
                  PollNotModified, PollUpdated, Goto
    <3>3. \A p \in Procs : pc'[p] = "sink" <=> pc[p] = "sink"
      BY <3>2 DEF TypeOK
    <3>4. QED
      BY <2>1, <3>1, <3>3
  <2>5. ASSUME NEW p \in Procs, Regenerate(p) PROVE MapInv'
    <3>1. CASE Acquire(p) \/ BuildChanged(p)
      BY <2>1, <3>1 DEF Acquire, BuildChanged, Goto, TypeOK, runner
    <3>2. CASE ReadDir(p)
      <4>1. \A q \in Procs : pc[q] # "sink"
        BY <3>2 DEF ReadDir, LockInv
      <4>2. QED
        BY <2>1, <3>2, <4>1 DEF ReadDir
    <3>3. CASE BuildRefused(p) \/ BuildUnchanged(p) \/ ApplyRejected(p) \/ ApplyUnconfirmed(p)
      BY <2>1, <3>3 DEF BuildRefused, BuildUnchanged, ApplyRejected, ApplyUnconfirmed, Return,
                        Goto, TypeOK
    <3>4. CASE ApplyOK(p)
      <4>1. lastHash' = BuiltDocument(rdirs') /\ pc'[p] = "sink"
        BY <3>4 DEF ApplyOK, LockInv, Build, Goto, TypeOK
      <4>2. QED
        BY <4>1 DEF MapInv
    <3>5. CASE SetPrefixMap(p)
      <4>1. /\ rdirs \in DirMaps /\ lastHash' = BuiltDocument(rdirs)
            /\ MapOf(rdirs, prefixMap') /\ StillHeld(rdirs, dir')
        BY <2>0, <3>5 DEF SetPrefixMap, MapInv, MapOf, TypeOK
      <4>2. \A q \in Procs : pc'[q] # "sink"
        BY <3>5 DEF SetPrefixMap, Return, Goto, LockInv, TypeOK
      <4>3. QED
        BY <2>0, <4>1, <4>2 DEF MapInv
    <3>6. QED
      BY <2>5, <3>1, <3>2, <3>3, <3>4, <3>5 DEF Regenerate
  <2>6. ASSUME NEW doc \in unanswered, LateLoad(doc) PROVE MapInv'
    BY <2>1, <2>6 DEF LateLoad, runner
  <2>7. CASE UNCHANGED vars
    BY <2>1, <2>7 DEF vars, runner
  <2>8. QED
    BY <2>2, <2>3, <2>4, <2>5, <2>6, <2>7 DEF Next
<1>3. QED
  BY <1>1, <1>2, RunnerInvariant, ReadIsHeld, PTL DEF Spec

\* Whenever the poller has settled with no answer missing, and the directories it
\* then holds have distinct prefixes and list a service each, the error page
\* attributes every host that Caddy serves to the community whose service it is.
\* Directories of before may have shared prefixes or been empty, in which case
\* their map was wrong or out of date.  Node names must not coincide
\* (IdsTellNodesApart).
THEOREM AttributionIsCurrent ==
  ASSUME NodeNamesDiffer,
         NEW CONSTANT Parts, \A d \in Dirs : NamesOf[d] \subseteq Seq(Parts)
  PROVE  Spec => []AttributionCurrent
<1>1. TypeOK /\ InSync /\ MapInv => AttributionCurrent
  <2> SUFFICES ASSUME TypeOK, InSync, MapInv, Settled, unanswered = {},
                      DistinctPrefixes(dir), NoneEmpty(dir), NEW s \in Served(running)
               PROVE  communityIDForHost(s[1]) = s[2]
    BY DEF AttributionCurrent
  <2>1. running = Build(dir) /\ dir \in DirMaps /\ lastHash = running
    BY DEF InSync, TypeOK
  <2>2. running = BuiltDocument(dir) /\ running # NoDocument
    <3>1. ~Collision(dir)
      BY <2>1, PrefixPollerAssumption, BuildRefusesCollisions DEF TypeOK
    <3>2. QED
      BY <2>1, <3>1, PrefixPollerAssumption DEF Build, Documents
  <2>3. PICK d \in DirMaps : BuiltDocument(d) = BuiltDocument(dir) /\ MapOf(d, prefixMap)
                                  /\ StillHeld(d, dir)
    BY <2>1, <2>2 DEF MapInv, Settled
  <2>4. QED
    BY <2>1, <2>2, <2>3, MapAttributes
<1>2. QED
  BY <1>1, RunnerInvariant, MergeInSync, MapInvariant, PTL
-----------------------------------------------------------------------------
(* What the merge serves.                                                   *)

\* Equal first parts can be cut off.
LEMMA ConcatCancels ==
  ASSUME NEW S, NEW a \in Seq(S), NEW b \in Seq(S), NEW n \in Seq(S), NEW m \in Seq(S),
         Len(a) = Len(b), a \o n = b \o m
  PROVE  a = b /\ n = m
<1>1. /\ Len(a) \in Nat /\ Len(n) \in Nat /\ Len(m) \in Nat
      /\ Len(a \o n) = Len(a) + Len(n) /\ Len(b \o m) = Len(b) + Len(m)
      /\ \A i \in 1..(Len(a) + Len(n)) :
           (a \o n)[i] = IF i <= Len(a) THEN a[i] ELSE n[i - Len(a)]
      /\ \A i \in 1..(Len(b) + Len(m)) :
           (b \o m)[i] = IF i <= Len(b) THEN b[i] ELSE m[i - Len(b)]
  BY LenProperties, ConcatProperties
<1>2. Len(n) = Len(m)
  BY <1>1
<1>3. ASSUME NEW i \in 1..Len(a) PROVE a[i] = b[i]
  BY <1>1, <1>2
<1>4. ASSUME NEW i \in 1..Len(n) PROVE n[i] = m[i]
  <2>1. Len(a) + i \in 1..(Len(a) + Len(n)) /\ ~(Len(a) + i <= Len(a))
        /\ (Len(a) + i) - Len(a) = i
    BY <1>1
  <2>2. QED
    BY <1>1, <1>2, <2>1
<1>5. a = b
  BY <1>3, SeqEqual
<1>6. n = m
  BY <1>2, <1>4, SeqEqual
<1>7. QED
  BY <1>5, <1>6

\* Two services get one hostname only if two communities publish one prefix:
\* caddy/SPEC.md's rule that prefixes are unique is enough for Build never to
\* refuse a merge, whatever the service names are.
THEOREM DistinctPrefixesDoNotCollide ==
  ASSUME NEW Parts, \A d \in Dirs : NamesOf[d] \subseteq Seq(Parts),
         NEW dirs \in DirMaps, DistinctPrefixes(dirs)
  PROVE  ~Collision(dirs) /\ Build(dirs) \in Documents
<1>1. ASSUME NEW s \in Pairs(dirs), NEW t \in Pairs(dirs),
             personalHost(dirs, s) = personalHost(dirs, t)
      PROVE  s = t
  <2> DEFINE x == PrefixOf[dirs[s[1]]]
             y == PrefixOf[dirs[t[1]]]
             All == Parts \cup {x, y}
  <2>1. /\ s = <<s[1], s[2]>> /\ s[1] \in Communities /\ dirs[s[1]] \in Dirs
        /\ t = <<t[1], t[2]>> /\ t[1] \in Communities /\ dirs[t[1]] \in Dirs
        /\ s[2] \in Seq(Parts) /\ t[2] \in Seq(Parts)
    BY PairParts
  <2>2. <<x>> \o s[2] = <<y>> \o t[2]
    BY <1>1 DEF personalHost
  <2> HIDE DEF x, y
  <2>3. /\ <<x>> \in Seq(All) /\ <<y>> \in Seq(All) /\ Len(<<x>>) = Len(<<y>>)
        /\ s[2] \in Seq(All) /\ t[2] \in Seq(All)
        /\ <<x>>[1] = x /\ <<y>>[1] = y
    BY <2>1
  <2> HIDE DEF All
  <2> DEFINE n == s[2]
             m == t[2]
             a == <<x>>
             b == <<y>>
  <2>4. a = b /\ n = m
    <3>1. a \in Seq(All) /\ b \in Seq(All) /\ n \in Seq(All) /\ m \in Seq(All)
      BY <2>3
    <3>2. Len(a) = Len(b) /\ a \o n = b \o m
      BY <2>2, <2>3
    <3> HIDE DEF a, b, n, m
    <3>3. QED
      BY <3>1, <3>2, ConcatCancels
  <2>5. x = y
    BY <2>3, <2>4
  <2>6. s[1] = t[1]
    BY <2>1, <2>5, PrefixConfigAssumption DEF DistinctPrefixes, x, y
  <2>7. QED
    BY <2>1, <2>4, <2>6
<1>2. ~Collision(dirs)
  BY <1>1 DEF Collision
<1>3. QED
  BY <1>2, BuildRefusesCollisions

\* No id of a community is the beginning of another's.
IdsPrefixFree ==
  \A c, k \in Communities :
    /\ Len(IdOf[c]) <= Len(IdOf[k])
    /\ \A i \in 1..Len(IdOf[c]) : IdOf[c][i] = IdOf[k][i]
    => c = k

\* A sequence begins its concatenations.
LEMMA ConcatBegins ==
  ASSUME NEW S, NEW a \in Seq(S), NEW n \in Seq(S), NEW i \in 1..Len(a)
  PROVE  (a \o n)[i] = a[i]
BY LenProperties, ConcatProperties

\* A node name is an id and a service name joined by the separator that both may
\* contain.  It still tells the pairs apart as long as no id, split at the
\* separator, is the beginning of another; ids without a separator are such.
THEOREM IdsTellNodesApart ==
  ASSUME NEW Parts, \A d \in Dirs : NamesOf[d] \subseteq Seq(Parts),
         \A c \in Communities : IdOf[c] \in Seq(Parts), IdsPrefixFree
  PROVE  NodeNamesDiffer
<1> DEFINE head == <<"personal">>
           All == Parts \cup {"personal"}
<1>1. /\ head \in Seq(All)
      /\ \A c \in Communities : IdOf[c] \in Seq(All)
      /\ \A n \in Names : n \in Seq(All)
  BY DEF Names
<1>2. ASSUME NEW c \in Communities, NEW k \in Communities, NEW n \in Names,
             NEW m \in Names, nodeName(<<c, n>>) = nodeName(<<k, m>>)
      PROVE  (head \o IdOf[c]) \o n = (head \o IdOf[k]) \o m
  <2>1. <<c, n>>[1] = c /\ <<c, n>>[2] = n /\ <<k, m>>[1] = k /\ <<k, m>>[2] = m
    OBVIOUS
  <2>2. QED
    BY <1>2, <2>1 DEF nodeName
<1> HIDE DEF head, All
<1>3. ASSUME NEW c \in Communities, NEW k \in Communities, NEW n \in Names,
             NEW m \in Names, nodeName(<<c, n>>) = nodeName(<<k, m>>),
             Len(IdOf[c]) <= Len(IdOf[k])
      PROVE  c = k /\ n = m
  <2> DEFINE a == IdOf[c]
             b == IdOf[k]
  <2>1. a \in Seq(All) /\ b \in Seq(All) /\ n \in Seq(All) /\ m \in Seq(All)
    BY <1>1
  <2>2. (head \o a) \o n = (head \o b) \o m
    BY <1>2, <1>3
  <2>3. Len(a) <= Len(b)
    BY <1>3
  <2> HIDE DEF a, b
  <2>4. (head \o a) \o n = head \o (a \o n)
    BY <1>1, <2>1, ConcatAssociative
  <2>5. (head \o b) \o m = head \o (b \o m)
    BY <1>1, <2>1, ConcatAssociative
  <2>6. a \o n \in Seq(All) /\ b \o m \in Seq(All)
    BY <2>1, ConcatProperties
  <2>7. \A t, u \in Seq(All) : head \o t = head \o u => t = u
    BY <1>1, ConcatCancels
  <2>8. a \o n = b \o m
    BY <2>2, <2>4, <2>5, <2>6, <2>7
  <2>9. ASSUME NEW i \in 1..Len(a) PROVE a[i] = b[i]
    <3>1. i \in 1..Len(b)
      BY <2>1, <2>3, LenProperties
    <3>2. (a \o n)[i] = a[i] /\ (b \o m)[i] = b[i]
      BY <2>1, <3>1, ConcatBegins
    <3>3. QED
      BY <2>8, <3>2
  <2>10. c = k
    BY <1>3, <2>9 DEF IdsPrefixFree, a, b
  <2>11. a \o n = a \o m
    BY <2>8, <2>10 DEF a, b
  <2>12. n = m
    BY <2>1, <2>11, ConcatCancels
  <2>13. QED
    BY <2>10, <2>12
<1>4. \A c \in Communities : Len(IdOf[c]) \in Nat
  BY <1>1, LenProperties
<1>5. \A c, k \in Communities : Len(IdOf[c]) <= Len(IdOf[k]) \/ Len(IdOf[k]) <= Len(IdOf[c])
  BY <1>4
<1>6. QED
  BY <1>3, <1>5 DEF NodeNamesDiffer

\* If node names differ, a document serves every pair, under its own host.
LEMMA DocumentServesPairs ==
  ASSUME NodeNamesDiffer, NEW d \in DirMaps
  PROVE  Served(BuiltDocument(d)) = {<<personalHost(d, s), s[1]>> : s \in Pairs(d)}
<1> DEFINE servers == BuiltDocument(d).servers
<1>1. DOMAIN servers = {nodeName(s) : s \in Pairs(d)}
  BY DEF BuiltDocument
<1>2. \A s \in Pairs(d) :
        /\ servers[nodeName(s)].host = personalHost(d, s)
        /\ servers[nodeName(s)].community = s[1]
  <2> SUFFICES ASSUME NEW s \in Pairs(d)
               PROVE  /\ servers[nodeName(s)].host = personalHost(d, s)
                      /\ servers[nodeName(s)].community = s[1]
    OBVIOUS
  <2>1. servers[nodeName(s)] = buildServer(d, s)
    BY ServerOfPair
  <2>2. QED
    BY <2>1 DEF buildServer
<1>3. Served(BuiltDocument(d)) =
        {<<servers[name].host, servers[name].community>> : name \in DOMAIN servers}
  BY DEF Served
<1> HIDE DEF servers
<1>4. QED
  BY <1>1, <1>2, <1>3

\* Once settled and with no answer missing, Caddy serves exactly the services of
\* the directories held, each under the prefix of its own community.
HeldIsServed ==
  Settled /\ unanswered = {} =>
    Served(running) = {<<personalHost(dir, s), s[1]>> : s \in Pairs(dir)}

\* No service is lost on the way from a directory to the listeners of Caddy, if
\* node names differ, for any number of communities and any interleaving.
THEOREM EveryServiceIsServed ==
  ASSUME NodeNamesDiffer
  PROVE  Spec => []HeldIsServed
<1>1. TypeOK /\ InSync => HeldIsServed
  <2> SUFFICES ASSUME TypeOK, InSync, Settled, unanswered = {}
               PROVE  Served(running) = {<<personalHost(dir, s), s[1]>> : s \in Pairs(dir)}
    BY DEF HeldIsServed
  <2>1. running = Build(dir) /\ dir \in DirMaps
    BY DEF InSync, TypeOK
  <2>2. ~Collision(dir)
    BY <2>1, PrefixPollerAssumption, BuildRefusesCollisions DEF TypeOK
  <2>3. running = BuiltDocument(dir)
    BY <2>1, <2>2 DEF Build
  <2>4. QED
    BY <2>1, <2>3, DocumentServesPairs
<1>2. QED
  BY <1>1, RunnerInvariant, MergeInSync, PTL

\* A merge is refused only for communities that publish one prefix.
RefusedForSharedPrefix ==
  [][\A p \in Procs : BuildRefused(p) => ~DistinctPrefixes(rdirs)]_vars

\* No directory can make the whole bridge stop updating but one that takes
\* another community's prefix.
THEOREM OnlySharedPrefixesAreRefused ==
  ASSUME NEW CONSTANT Parts, \A d \in Dirs : NamesOf[d] \subseteq Seq(Parts)
  PROVE  Spec => RefusedForSharedPrefix
<1>1. TypeOK => [\A p \in Procs : BuildRefused(p) => ~DistinctPrefixes(rdirs)]_vars
  <2> SUFFICES ASSUME TypeOK, NEW p \in Procs, BuildRefused(p), DistinctPrefixes(rdirs)
               PROVE  FALSE
    OBVIOUS
  <2>1. Build(rdirs) \in Documents
    BY DistinctPrefixesDoNotCollide DEF TypeOK
  <2>2. QED
    BY <2>1, PrefixPollerAssumption DEF BuildRefused
<1>2. QED
  BY <1>1, RunnerInvariant, PTL DEF RefusedForSharedPrefix

\* At most one goroutine is inside regenerate, so POSTs, the hash and the prefix
\* map change in the order of the documents.
RegenerateExclusive ==
  \A p, q \in Procs :
    pc[p] \in {"read", "post", "sink"} /\ pc[q] \in {"read", "post", "sink"} => p = q

\* regenMu keeps two goroutines from being inside regenerate at once, on each
\* of its five ways out, too.
THEOREM PrefixRegenerateExclusive == Spec => []RegenerateExclusive
<1>1. LockInv => RegenerateExclusive
  BY DEF LockInv, RegenerateExclusive
<1>2. QED
  BY <1>1, RunnerInvariant, PTL
=============================================================================
