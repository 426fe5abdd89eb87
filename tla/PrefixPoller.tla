---------------------------- MODULE PrefixPoller ----------------------------
(***************************************************************************)
(* The prefix variant's poller.Runner: a polling goroutine per community,   *)
(* the main goroutine, and regenerate under regenMu, which may refuse to    *)
(* build (colliding hostnames), POSTs a changed document to Caddy and then  *)
(* hands the prefix map to the status server, which attributes failing      *)
(* hosts to communities with it.                                            *)
(*                                                                          *)
(* server (the directory servers), running and unanswered (Caddy) are       *)
(* outside src/.                                                            *)
(* The simplifications are those of WildcardPoller; this variant reads no   *)
(* certificates.                                                            *)
(***************************************************************************)
EXTENDS PrefixConfig

CONSTANTS
  ETagging,     \* communities whose directory server sends ETags
  Events,       \* what may happen around the poller, a subset of EventKinds
  NoDocument,   \* haveHash = false, or Caddy still at its bootstrap config
  Nobody,       \* regenMu is free
  NoCommunity,  \* no entry in the prefix map
  MaxUnanswered \* bound on the documents whose answer is lost between two that arrive

EventKinds == {"publish", "fetchError", "reject", "lostReply", "joinTimeout",
               "sighup", "shutdown"}

ASSUME PrefixPollerAssumption ==
  /\ ETagging \subseteq Communities
  /\ Events \subseteq EventKinds
  /\ NoDocument \notin Documents
  /\ Refused \notin Documents \cup {NoDocument}
  /\ Nobody \notin 1..(N + 1)
  /\ NoCommunity \notin Communities
  /\ MaxUnanswered \in Nat

Main == N + 1
Procs == 1..(N + 1)
Prefixes == {PrefixOf[d] : d \in Dirs}

VARIABLES
  server,     \* the directory each community's server hands out
  running,    \* the document Caddy runs
  unanswered, \* documents POSTed since Caddy's last answer whose own was lost
  dir,        \* Health: CurrentDirectory
  etag,       \* Health: ETag
  lastErr,    \* Health: LastError # ""
  regenMu,    \* Runner.regenMu
  lastHash,   \* Runner.lastHash and haveHash
  prefixMap,  \* status.Server.prefixToCommID
  trig,       \* Runner.triggers, channels of capacity 1
  cancelled,  \* the pollers' context is done
  pc,         \* where each goroutine is
  resp,       \* pollOnce: the answer of the directory server
  readAt,     \* regenerate: the next community whose directory is read
  rdirs,      \* regenerate: the directories read
  outcome,    \* history: how the last regenerate returned
  hupOwed     \* history: SIGHUPs no poll has followed

caddy == <<running, unanswered>>
health == <<dir, etag, lastErr>>
runner == <<regenMu, lastHash, prefixMap, readAt, rdirs, outcome>>
vars == <<server, caddy, health, runner, trig, cancelled, pc, resp, hupOwed>>

Places == {"unstarted", "wait", "serve", "select", "fetch", "answered",
           "lock", "read", "post", "sink", "exited"}

NoAnswer == [status |-> 0, dir |-> NoDir]
NotModified == [status |-> 304, dir |-> NoDir]
Answer(d) == [status |-> 200, dir |-> d]
Answers == [status : {0, 304}, dir : {NoDir}] \cup [status : {200}, dir : Dirs]

Goto(p, place) == pc' = [pc EXCEPT ![p] = place]

\* Start has just spawned the pollers, which begin with a poll.
Init ==
  /\ server \in [Communities -> Dirs]
  /\ running = NoDocument
  /\ unanswered = {}
  /\ dir = [c \in Communities |-> NoDir]
  /\ etag = [c \in Communities |-> NoDir]
  /\ lastErr = [c \in Communities |-> FALSE]
  /\ regenMu = Nobody
  /\ lastHash = NoDocument
  /\ prefixMap = [x \in Prefixes |-> NoCommunity]
  /\ trig = [c \in Communities |-> FALSE]
  /\ cancelled = FALSE
  /\ pc = [p \in Procs |-> IF p = Main THEN "wait" ELSE "fetch"]
  /\ resp = [c \in Communities |-> NoAnswer]
  /\ readAt = 1
  /\ rdirs = [c \in Communities |-> NoDir]
  /\ outcome = "none"
  /\ hupOwed = [c \in Communities |-> FALSE]

\* A community publishes another directory.
Publish(c, d) ==
  /\ "publish" \in Events
  /\ d # server[c]
  /\ server' = [server EXCEPT ![c] = d]
  /\ UNCHANGED <<caddy, health, runner, trig, cancelled, pc, resp, hupOwed>>
-----------------------------------------------------------------------------
(* Start and the main goroutine.                                            *)

FirstPollsDone == \A c \in Communities : dir[c] # NoDir \/ lastErr[c]

waitFirstPoll ==
  /\ pc[Main] = "wait"
  /\ FirstPollsDone \/ "joinTimeout" \in Events
  /\ Goto(Main, "lock")
  /\ UNCHANGED <<server, caddy, health, runner, trig, cancelled, resp, hupOwed>>

\* Mutant of TriggerAll: unbuffered channels, so only a goroutine
\* that waits in its select receives.
TriggerAllIdle ==
  /\ pc[Main] = "serve"
  /\ "sighup" \in Events
  /\ trig' = [c \in Communities |-> trig[c] \/ pc[c] = "select"]
  /\ hupOwed' = [c \in Communities |-> TRUE]
  /\ UNCHANGED <<server, caddy, health, runner, cancelled, pc, resp>>

TriggerAll ==
  /\ pc[Main] = "serve"
  /\ "sighup" \in Events
  /\ trig' = [c \in Communities |-> TRUE]
  /\ hupOwed' = [c \in Communities |-> TRUE]
  /\ UNCHANGED <<server, caddy, health, runner, cancelled, pc, resp>>

Shutdown ==
  /\ pc[Main] = "serve"
  /\ "shutdown" \in Events
  /\ cancelled' = TRUE
  /\ Goto(Main, "exited")
  /\ UNCHANGED <<server, caddy, health, runner, trig, resp, hupOwed>>
-----------------------------------------------------------------------------
(* runCommunity and pollOnce.                                               *)

StartPoll(c) ==
  /\ pc[c] = "select"
  /\ \/ UNCHANGED trig
     \/ trig[c] /\ trig' = [trig EXCEPT ![c] = FALSE]
  /\ Goto(c, "fetch")
  /\ hupOwed' = [hupOwed EXCEPT ![c] = FALSE]
  /\ UNCHANGED <<server, caddy, health, runner, cancelled, resp>>

Exit(c) ==
  /\ pc[c] = "select"
  /\ cancelled
  /\ Goto(c, "exited")
  /\ UNCHANGED <<server, caddy, health, runner, trig, cancelled, resp, hupOwed>>

FetchOK(c) ==
  /\ pc[c] = "fetch"
  /\ resp' = [resp EXCEPT ![c] = IF c \in ETagging /\ etag[c] = server[c]
                                   THEN NotModified ELSE Answer(server[c])]
  /\ Goto(c, "answered")
  /\ UNCHANGED <<server, caddy, health, runner, trig, cancelled, hupOwed>>

FetchFails(c) ==
  /\ pc[c] = "fetch"
  /\ "fetchError" \in Events \/ cancelled
  /\ resp' = [resp EXCEPT ![c] = NoAnswer]
  /\ Goto(c, "answered")
  /\ UNCHANGED <<server, caddy, health, runner, trig, cancelled, hupOwed>>

PollFailed(c) ==
  /\ pc[c] = "answered"
  /\ resp[c].status = 0
  /\ lastErr' = [lastErr EXCEPT ![c] = TRUE]
  /\ Goto(c, "select")
  /\ UNCHANGED <<server, caddy, dir, etag, runner, trig, cancelled, resp, hupOwed>>

PollNotModified(c) ==
  /\ pc[c] = "answered"
  /\ resp[c].status = 304
  /\ lastErr' = [lastErr EXCEPT ![c] = FALSE]
  /\ resp' = [resp EXCEPT ![c] = NoAnswer]
  /\ Goto(c, "select")
  /\ UNCHANGED <<server, caddy, dir, etag, runner, trig, cancelled, hupOwed>>

\* Mutant of PollUpdated: regenerate is called for a new directory only.
PollUpdatedIfNew(c) ==
  /\ pc[c] = "answered"
  /\ resp[c].status = 200
  /\ dir' = [dir EXCEPT ![c] = resp[c].dir]
  /\ etag' = [etag EXCEPT ![c] = IF c \in ETagging THEN resp[c].dir ELSE NoDir]
  /\ lastErr' = [lastErr EXCEPT ![c] = FALSE]
  /\ resp' = [resp EXCEPT ![c] = NoAnswer]
  /\ Goto(c, IF dir[c] = resp[c].dir THEN "select" ELSE "lock")
  /\ UNCHANGED <<server, caddy, runner, trig, cancelled, hupOwed>>

PollUpdated(c) ==
  /\ pc[c] = "answered"
  /\ resp[c].status = 200
  /\ dir' = [dir EXCEPT ![c] = resp[c].dir]
  /\ etag' = [etag EXCEPT ![c] = IF c \in ETagging THEN resp[c].dir ELSE NoDir]
  /\ lastErr' = [lastErr EXCEPT ![c] = FALSE]
  /\ resp' = [resp EXCEPT ![c] = NoAnswer]
  /\ Goto(c, "lock")
  /\ UNCHANGED <<server, caddy, runner, trig, cancelled, hupOwed>>
-----------------------------------------------------------------------------
(* regenerate, called by every goroutine.                                   *)

\* Mutant of Acquire: the iteration starts one too early.
AcquireFromZero(p) ==
  /\ pc[p] = "lock"
  /\ regenMu = Nobody
  /\ regenMu' = p
  /\ readAt' = 0
  /\ Goto(p, "read")
  /\ UNCHANGED <<server, caddy, health, lastHash, prefixMap, rdirs, outcome, trig,
                 cancelled, resp, hupOwed>>

Acquire(p) ==
  /\ pc[p] = "lock"
  /\ regenMu = Nobody
  /\ regenMu' = p
  /\ readAt' = 1
  /\ Goto(p, "read")
  /\ UNCHANGED <<server, caddy, health, lastHash, prefixMap, rdirs, outcome, trig,
                 cancelled, resp, hupOwed>>

ReadDir(p) ==
  /\ pc[p] = "read"
  /\ readAt <= N
  /\ rdirs' = [rdirs EXCEPT ![readAt] = dir[readAt]]
  /\ readAt' = readAt + 1
  /\ UNCHANGED <<server, caddy, health, regenMu, lastHash, prefixMap, outcome, trig,
                 cancelled, pc, resp, hupOwed>>

\* regenerate returns: with an error, or nil.
Return(p, result) ==
  /\ regenMu' = Nobody
  /\ outcome' = result
  /\ Goto(p, IF p = Main THEN "serve" ELSE "select")
  /\ UNCHANGED <<server, health, readAt, rdirs, trig, cancelled, resp, hupOwed>>

\* Mutant of BuildRefused: no Unlock on the error return.
BuildRefusedKeepsLock(p) ==
  /\ pc[p] = "read"
  /\ readAt > N
  /\ Build(rdirs) = Refused
  /\ outcome' = "error"
  /\ Goto(p, IF p = Main THEN "serve" ELSE "select")
  /\ UNCHANGED <<server, caddy, health, regenMu, lastHash, prefixMap, readAt, rdirs,
                 trig, cancelled, resp, hupOwed>>

\* Two services share a hostname: the merge is refused.
BuildRefused(p) ==
  /\ pc[p] = "read"
  /\ readAt > N
  /\ Build(rdirs) = Refused
  /\ Return(p, "error")
  /\ UNCHANGED <<caddy, lastHash, prefixMap>>

BuildUnchanged(p) ==
  /\ pc[p] = "read"
  /\ readAt > N
  /\ Build(rdirs) = lastHash
  /\ Return(p, "ok")
  /\ UNCHANGED <<caddy, lastHash, prefixMap>>

BuildChanged(p) ==
  /\ pc[p] = "read"
  /\ readAt > N
  /\ Build(rdirs) \notin {Refused, lastHash}
  /\ Goto(p, "post")
  /\ UNCHANGED <<server, caddy, health, runner, trig, cancelled, resp, hupOwed>>

ApplyOK(p) ==
  /\ pc[p] = "post"
  /\ running' = Build(rdirs)
  /\ unanswered' = {}
  /\ lastHash' = Build(rdirs)
  /\ Goto(p, "sink")
  /\ UNCHANGED <<server, health, regenMu, prefixMap, readAt, rdirs, outcome, trig,
                 cancelled, resp, hupOwed>>

\* Mutant of ApplyRejected: the hash is stored before the POST.
ApplyRejectedHashed(p) ==
  /\ pc[p] = "post"
  /\ "reject" \in Events \/ cancelled
  /\ lastHash' = Build(rdirs)
  /\ Return(p, "error")
  /\ UNCHANGED <<caddy, prefixMap>>

ApplyRejected(p) ==
  /\ pc[p] = "post"
  /\ "reject" \in Events \/ cancelled
  /\ Return(p, "error")
  /\ UNCHANGED <<caddy, lastHash, prefixMap>>

\* The POST is given up before its answer arrives, but Caddy has the document.
ApplyUnconfirmed(p) ==
  /\ pc[p] = "post"
  /\ "lostReply" \in Events \/ cancelled
  /\ Cardinality(unanswered \cup {Build(rdirs)}) <= MaxUnanswered
  /\ unanswered' = unanswered \cup {Build(rdirs)}
  /\ Return(p, "error")
  /\ UNCHANGED <<running, lastHash, prefixMap>>

\* Caddy gets round to such a document.  It handles one POST at a time, so it
\* has dealt with all of them when it answers a later one.
LateLoad(doc) ==
  /\ running' = doc
  /\ UNCHANGED <<server, unanswered, health, runner, trig, cancelled, pc, resp, hupOwed>>

\* Of communities with one prefix, the one the map iteration meets last stays.
Owners(dirs, x) == {c \in Communities : dirs[c] # NoDir /\ PrefixOf[dirs[c]] = x}

\* Mutant of SetPrefixMap: entries of the old map stay.
SetPrefixMapMerges(p) ==
  /\ pc[p] = "sink"
  /\ \E m \in [Prefixes -> Communities \cup {NoCommunity}] :
       /\ \A x \in Prefixes : IF prefixMap[x] # NoCommunity \/ Owners(rdirs, x) = {}
                             THEN m[x] = prefixMap[x] ELSE m[x] \in Owners(rdirs, x)
       /\ prefixMap' = m
  /\ Return(p, "ok")
  /\ UNCHANGED <<caddy, lastHash>>

SetPrefixMap(p) ==
  /\ pc[p] = "sink"
  /\ \E m \in [Prefixes -> Communities \cup {NoCommunity}] :
       /\ \A x \in Prefixes : IF Owners(rdirs, x) = {} THEN m[x] = NoCommunity
                                                       ELSE m[x] \in Owners(rdirs, x)
       /\ prefixMap' = m
  /\ Return(p, "ok")
  /\ UNCHANGED <<caddy, lastHash>>

\* A host begins with at most one known prefix.
communityIDForHost(host) == prefixMap[host[1]]
-----------------------------------------------------------------------------
PollOnce(c) ==
  FetchOK(c) \/ FetchFails(c) \/ PollFailed(c) \/ PollNotModified(c) \/ PollUpdated(c)

Regenerate(p) ==
  \/ Acquire(p) \/ ReadDir(p) \/ BuildRefused(p) \/ BuildUnchanged(p) \/ BuildChanged(p)
  \/ ApplyOK(p) \/ ApplyRejected(p) \/ ApplyUnconfirmed(p) \/ SetPrefixMap(p)

Next ==
  \/ \E c \in Communities, d \in Dirs : Publish(c, d)
  \/ \E doc \in unanswered : LateLoad(doc)
  \/ waitFirstPoll \/ TriggerAll \/ Shutdown
  \/ \E c \in Communities : StartPoll(c) \/ PollOnce(c) \/ Exit(c)
  \/ \E p \in Procs : Regenerate(p)

Spec == Init /\ [][Next]_vars

\* What goroutine p does by itself.
Step(p) ==
  \/ Regenerate(p)
  \/ p = Main /\ waitFirstPoll
  \/ p # Main /\ (StartPoll(p) \/ PollOnce(p))

\* As in WildcardPoller: the goroutines run, a blocked Lock returns, a ready
\* case of a select is taken, and neither a server nor Caddy fails forever.
Fairness ==
  /\ \A p \in Procs : WF_vars(Step(p)) /\ SF_vars(Acquire(p))
  /\ \A c \in Communities : SF_vars(FetchOK(c)) /\ SF_vars(Exit(c))
  /\ SF_vars(\E p \in Procs : ApplyOK(p))

FairSpec == Spec /\ Fairness
-----------------------------------------------------------------------------
(* Properties.                                                              *)

\* The type of every variable.
TypeOK ==
  /\ server \in [Communities -> Dirs]
  /\ running \in Documents \cup {NoDocument}
  /\ unanswered \subseteq Documents
  /\ dir \in DirMaps
  /\ etag \in DirMaps
  /\ lastErr \in [Communities -> BOOLEAN]
  /\ regenMu \in Procs \cup {Nobody}
  /\ lastHash \in Documents \cup {NoDocument}
  /\ prefixMap \in [Prefixes -> Communities \cup {NoCommunity}]
  /\ trig \in [Communities -> BOOLEAN]
  /\ cancelled \in BOOLEAN
  /\ pc \in [Procs -> Places]
  /\ resp \in [Communities -> Answers]
  /\ readAt \in 1..(N + 1)
  /\ rdirs \in DirMaps
  /\ outcome \in {"none", "ok", "error"}
  /\ hupOwed \in [Communities -> BOOLEAN]

\* The last regenerate returned nil, and no other is under way or due.
Settled ==
  /\ outcome = "ok"
  /\ \A p \in Procs : pc[p] \notin {"lock", "read", "post", "sink"}

\* Once settled, the document that Caddy last confirmed is the merge of the
\* directories held, and Caddy runs it or one that was POSTed later and whose
\* answer was lost: a directory stored while another goroutine is inside
\* regenerate is not lost, and the hash comparison skips no POST that was needed
\* for any other reason.
InSync ==
  Settled =>
    /\ lastHash = Build(dir)
    /\ running = lastHash \/ running \in unanswered

\* Once settled, with distinct prefixes and no answer missing, the error page of
\* every host that Caddy serves names the community whose service it is,
\* although the map is stored after the POST and only when the document changed,
\* provided that every directory held lists a service.  While one is empty, the
\* map may be out of date: its prefix is not in the document, so a change of it
\* returns at the equal hash before SetPrefixMap, and the old prefix, by now
\* another community's, may still name the empty one.  The next directory with a
\* service makes a new document and with it a new map, whatever came before.
AttributionCurrent ==
  Settled /\ unanswered = {} /\ DistinctPrefixes(dir) /\ NoneEmpty(dir) =>
    \A s \in Served(running) : communityIDForHost(s[1]) = s[2]

\* A SIGHUP is never lost: until a poll of the community starts after it, its
\* token is in the channel of capacity 1.
NoLostHup == \A c \in Communities : hupOwed[c] => trig[c]

\* A merge that Caddy runs never gives one hostname to two listeners.
HostsUnique ==
  running # NoDocument =>
    \A a, b \in DOMAIN running.servers :
      running.servers[a].host = running.servers[b].host => a = b

\* A change of prefixes or services that gives two pairs one hostname leaves
\* Caddy at the document before it, and once no two directories collide and
\* nothing changes, polling brings Caddy to their merge.
Converges ==
  <>[][UNCHANGED server]_vars =>
    <>[](running = Build(server) \/ Collision(server) \/ cancelled)

\* What poller.go says of a failed regenerate: the next polls retry it, so
\* that one succeeds as long as the directories held do not collide.
FailedApplyRetried ==
  outcome = "error" ~> outcome = "ok" \/ Collision(dir) \/ cancelled

-----------------------------------------------------------------------------
(* PrefixPoller implements ConfigSync: a regenerate is due for whoever waits *)
(* for regenMu or holds it.                                                  *)

Due == {p \in Procs : pc[p] \in {"lock", "read", "post", "sink"}}

Sync == INSTANCE ConfigSync WITH
  Sources <- Communities,
  Held <- DirMaps,
  Doc <- Build,
  NoDoc <- NoDocument,
  held <- dir,
  due <- Due,
  confirmed <- lastHash,
  applied <- running,
  ok <- outcome = "ok"

\* Whatever the interleaving of polls and regenerates, every regenerate that
\* returns nil leaves a confirmed merge that is out of date only in what a poller
\* that still owes its own regenerate has stored since, and Caddy runs that one
\* or one POSTed later whose answer was lost; a refused merge or a refused POST
\* leaves Caddy as it was.
ImplementsConfigSync == Sync!Spec
-----------------------------------------------------------------------------
(* The inductive invariants behind InSync.                                  *)

\* regenMu is held by the one goroutine inside regenerate, which POSTs only a
\* merge without a collision.
LockInv ==
  /\ \A p \in Procs : pc[p] \in {"read", "post", "sink"} <=> regenMu = p
  /\ \A p \in Procs : pc[p] = "post" => ~Collision(rdirs)

\* The directory read for c is current, or c's poller waits to regenerate.
DirFresh(c) == rdirs[c] = dir[c] \/ pc[c] = "lock"

\* Caddy runs the confirmed document or one whose answer was lost since; what
\* has been read so far is fresh; from a successful POST or comparison on, the
\* confirmed document is the merge of what was read.
SyncInv ==
  /\ running = lastHash \/ running \in unanswered
  /\ \A p \in Procs : pc[p] = "read" =>
       \A c \in Communities : c < readAt => DirFresh(c)
  /\ \A p \in Procs : pc[p] \in {"post", "sink"} =>
       \A c \in Communities : DirFresh(c)
  /\ \A p \in Procs : pc[p] = "sink" => lastHash = Build(rdirs)
  /\ regenMu = Nobody /\ outcome = "ok" =>
       /\ lastHash = Build(rdirs)
       /\ \A c \in Communities : DirFresh(c)
=============================================================================
