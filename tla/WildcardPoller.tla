--------------------------- MODULE WildcardPoller ---------------------------
(***************************************************************************)
(* The wildcard bridge's poller.Runner: one polling goroutine per           *)
(* community, the certificate watcher, and the main goroutine that starts   *)
(* them and forwards SIGHUP; all of them call regenerate, which builds the  *)
(* Caddy document under regenMu and POSTs it when its hash changed.         *)
(*                                                                          *)
(* Outside src/: the directory servers (server), the certificate files      *)
(* (disk), the wall clock (clock) and Caddy (running, loaded, unanswered)   *)
(* are modelled from how the poller uses them.                              *)
(*                                                                          *)
(* Simplifications:                                                         *)
(*  - a step of the model ends where another goroutine can see or disturb   *)
(*    the next access: Health and Runner.certs are read and written under   *)
(*    their own locks, one access per step.  Loading and verifying a pair   *)
(*    is part of the step that follows, and reloadAllCerts takes one step   *)
(*    for each community, because no other goroutine of the runner exists;  *)
(*  - time stamps and log lines are left out; tickers may fire whenever     *)
(*    their goroutine is in its select;                                     *)
(*  - an ETag is the identity of the directory it was sent with;            *)
(*  - the locals of regenerate (readAt, rdirs, rcerts) exist once, because  *)
(*    only the holder of regenMu uses them, and keep their last value.      *)
(***************************************************************************)
EXTENDS WildcardConfig

CONSTANTS
  ETagging,     \* communities whose directory server sends ETags
  Publishing,   \* communities that publish other directories
  Rotating,     \* communities whose certificate files change
  Events,       \* what may happen around the poller, a subset of EventKinds
  Unusable,     \* a pair that neither cert.Load nor Caddy can load (half-written, mismatched)
  NotBefore,    \* first clock value at which a certificate is valid
  NotAfter,     \* last clock value at which it is
  NoDocument,   \* haveHash = false, or Caddy still at its bootstrap config
  Nobody,       \* regenMu is free
  MaxClock,     \* bound on the wall clock
  MaxUnanswered \* bound on the documents whose answer is lost between two that arrive

EventKinds == {"fetchError", "reject", "lostReply", "joinTimeout", "sighup",
               "shutdown"}

ASSUME PollerAssumption ==
  /\ ETagging \subseteq Communities
  /\ Publishing \subseteq Communities
  /\ Rotating \subseteq Communities
  /\ Events \subseteq EventKinds
  /\ Unusable \notin Certs
  /\ NotBefore \in [Certs -> Nat]
  /\ NotAfter \in [Certs -> Nat]
  /\ NoDocument \notin Documents
  /\ Nobody \notin 0..(N + 1)
  /\ MaxClock \in Nat
  /\ MaxUnanswered \in Nat

\* The goroutines: the pollers are the communities' numbers.
Watcher == 0
Main == N + 1
Procs == 0..(N + 1)

VARIABLES
  server,     \* the directory each community's server hands out
  disk,       \* each community's (cert, key) pair on disk
  clock,      \* wall clock
  running,    \* the document Caddy runs
  loaded,     \* the certificate Caddy read from each community's files
  unanswered, \* documents POSTed since Caddy's last answer whose own was lost
  dir,        \* Health: CurrentDirectory
  etag,       \* Health: ETag
  lastErr,    \* Health: LastError # ""
  certErr,    \* Health: CertError # ""
  shown,      \* Health: the certificate whose CertNotBefore and CertNotAfter it has
  certs,      \* Runner.certs
  regenMu,    \* Runner.regenMu
  lastHash,   \* Runner.lastHash and haveHash: the document last applied
  trig,       \* Runner.triggers, channels of capacity 1
  certTrig,   \* Runner.certTriggerCh, capacity 1
  cancelled,  \* the pollers' context is done
  pc,         \* where each goroutine is
  resp,       \* pollOnce: the answer of the directory server
  certAt,     \* reloadAllCerts, checkCerts: the next community
  changed,    \* checkCerts: its result so far
  readAt,     \* regenerate: the next community whose directory is read
  rdirs,      \* regenerate: the directories read
  rcerts,     \* regenerate: the copy of Runner.certs
  outcome,    \* history: how the last regenerate returned
  hupOwed     \* history: SIGHUPs no poll, or certificate check, has followed

world == <<server, disk, clock>>
caddy == <<running, loaded, unanswered>>
health == <<dir, etag, lastErr, certErr, shown>>
triggers == <<trig, certTrig>>
regenLocals == <<readAt, rdirs, rcerts>>
watcherLocals == <<certAt, changed>>
history == <<outcome, hupOwed>>
vars == <<world, caddy, health, certs, regenMu, lastHash, triggers, cancelled,
          pc, resp, watcherLocals, regenLocals, history>>

Places == {"unstarted", "reload", "wait", "serve",
           "select", "fetch", "answered", "check", "drop", "clear",
           "lock", "read", "post", "exited"}

NoAnswer == [status |-> 0, dir |-> NoDir]
NotModified == [status |-> 304, dir |-> NoDir]
Answer(d) == [status |-> 200, dir |-> d]
Answers == [status : {0, 200, 304}, dir : DirOrNone]

Goto(p, place) == pc' = [pc EXCEPT ![p] = place]
-----------------------------------------------------------------------------
(* Certificates.  cert.Load refuses an unreadable or mismatched pair,       *)
(* cert.Validate one that is outside its validity period.                   *)

Valid(v) == NotBefore[v] <= clock /\ clock <= NotAfter[v]

Usable(c) == disk[c] # Unusable /\ Valid(disk[c])

\* The dates a check leaves in Health: of the pair on disk, if it loads.
DatesOf(c) == IF disk[c] = Unusable THEN shown[c] ELSE disk[c]

Init ==
  /\ server \in [Communities -> Dirs]
  /\ disk \in [Communities -> Certs \cup {Unusable}]
  /\ clock = 0
  /\ running = NoDocument
  /\ loaded = [c \in Communities |-> NoCert]
  /\ unanswered = {}
  /\ dir = [c \in Communities |-> NoDir]
  /\ etag = [c \in Communities |-> NoDir]
  /\ lastErr = [c \in Communities |-> FALSE]
  /\ certErr = [c \in Communities |-> FALSE]
  /\ shown = [c \in Communities |-> NoCert]
  /\ certs = [c \in Communities |-> NoCert]
  /\ regenMu = Nobody
  /\ lastHash = NoDocument
  /\ trig = [c \in Communities |-> FALSE]
  /\ certTrig = FALSE
  /\ cancelled = FALSE
  /\ pc = [p \in Procs |-> IF p = Main THEN "reload" ELSE "unstarted"]
  /\ resp = [c \in Communities |-> NoAnswer]
  /\ certAt = 1
  /\ changed = FALSE
  /\ readAt = 1
  /\ rdirs = [c \in Communities |-> NoDir]
  /\ rcerts = [c \in Communities |-> NoCert]
  /\ outcome = "none"
  /\ hupOwed = [p \in 0..N |-> FALSE]
-----------------------------------------------------------------------------
(* The surroundings.                                                        *)

\* A community publishes another directory.
Publish(c, d) ==
  /\ c \in Publishing
  /\ d # server[c]
  /\ server' = [server EXCEPT ![c] = d]
  /\ UNCHANGED <<disk, clock, caddy, health, certs, regenMu, lastHash, triggers,
                 cancelled, pc, resp, watcherLocals, regenLocals, history>>

\* The operator replaces a (cert, key) pair; a half-written pair is Unusable.
Rotate(c, v) ==
  /\ c \in Rotating
  /\ v # disk[c]
  /\ disk' = [disk EXCEPT ![c] = v]
  /\ UNCHANGED <<server, clock, caddy, health, certs, regenMu, lastHash, triggers,
                 cancelled, pc, resp, watcherLocals, regenLocals, history>>

Tick ==
  /\ clock < MaxClock
  /\ clock' = clock + 1
  /\ UNCHANGED <<server, disk, caddy, health, certs, regenMu, lastHash, triggers,
                 cancelled, pc, resp, watcherLocals, regenLocals, history>>
-----------------------------------------------------------------------------
(* Start, and the main goroutine's signal handling.                         *)

\* One iteration of reloadAllCerts.
ReloadCert ==
  /\ pc[Main] = "reload"
  /\ certAt <= N
  /\ certs' = [certs EXCEPT ![certAt] = IF Usable(certAt) THEN disk[certAt] ELSE @]
  /\ certErr' = [certErr EXCEPT ![certAt] = ~Usable(certAt)]
  /\ shown' = [shown EXCEPT ![certAt] = DatesOf(certAt)]
  /\ certAt' = certAt + 1
  /\ UNCHANGED <<world, caddy, dir, etag, lastErr, regenMu, lastHash, triggers,
                 cancelled, pc, resp, changed, regenLocals, history>>

\* Start spawns the pollers, which begin with a poll, and the watcher.
Spawn ==
  /\ pc[Main] = "reload"
  /\ certAt > N
  /\ pc' = [p \in Procs |-> IF p = Main THEN "wait"
                            ELSE IF p = Watcher THEN "select" ELSE "fetch"]
  /\ UNCHANGED <<world, caddy, health, certs, regenMu, lastHash, triggers,
                 cancelled, resp, watcherLocals, regenLocals, history>>

\* waitFirstPoll: every community has a directory or an error, or time is up.
FirstPollsDone == \A c \in Communities : dir[c] # NoDir \/ lastErr[c]

waitFirstPoll ==
  /\ pc[Main] = "wait"
  /\ FirstPollsDone \/ "joinTimeout" \in Events
  /\ Goto(Main, "lock")
  /\ UNCHANGED <<world, caddy, health, certs, regenMu, lastHash, triggers,
                 cancelled, resp, watcherLocals, regenLocals, history>>

\* Mutant of TriggerAll: unbuffered channels, so only a goroutine
\* that waits in its select receives.
TriggerAllIdle ==
  /\ pc[Main] = "serve"
  /\ "sighup" \in Events
  /\ trig' = [c \in Communities |-> trig[c] \/ pc[c] = "select"]
  /\ certTrig' = (certTrig \/ pc[Watcher] = "select")
  /\ hupOwed' = [p \in 0..N |-> TRUE]
  /\ UNCHANGED <<world, caddy, health, certs, regenMu, lastHash, cancelled, pc,
                 resp, watcherLocals, regenLocals, outcome>>

\* SIGHUP: a non-blocking send on every channel.
TriggerAll ==
  /\ pc[Main] = "serve"
  /\ "sighup" \in Events
  /\ trig' = [c \in Communities |-> TRUE]
  /\ certTrig' = TRUE
  /\ hupOwed' = [p \in 0..N |-> TRUE]
  /\ UNCHANGED <<world, caddy, health, certs, regenMu, lastHash, cancelled, pc,
                 resp, watcherLocals, regenLocals, outcome>>

\* SIGTERM or SIGINT, or Caddy's exit: shutdown cancels the context.
Shutdown ==
  /\ pc[Main] = "serve"
  /\ "shutdown" \in Events
  /\ cancelled' = TRUE
  /\ Goto(Main, "exited")
  /\ UNCHANGED <<world, caddy, health, certs, regenMu, lastHash, triggers, resp,
                 watcherLocals, regenLocals, history>>
-----------------------------------------------------------------------------
(* runCommunity and pollOnce.                                               *)

\* The select of runCommunity, woken by its ticker or its trigger channel.
StartPoll(c) ==
  /\ pc[c] = "select"
  /\ \/ UNCHANGED trig
     \/ trig[c] /\ trig' = [trig EXCEPT ![c] = FALSE]
  /\ Goto(c, "fetch")
  /\ hupOwed' = [hupOwed EXCEPT ![c] = FALSE]
  /\ UNCHANGED <<world, caddy, health, certs, regenMu, lastHash, certTrig,
                 cancelled, resp, watcherLocals, regenLocals, outcome>>

\* Mutant of FetchOK: Fetch stores the ETag, pollOnce the directory.
FetchOKStoresTag(c) ==
  /\ pc[c] = "fetch"
  /\ resp' = [resp EXCEPT ![c] = IF c \in ETagging /\ etag[c] = server[c]
                                   THEN NotModified ELSE Answer(server[c])]
  /\ etag' = [etag EXCEPT ![c] = IF c \in ETagging THEN server[c] ELSE NoDir]
  /\ Goto(c, "answered")
  /\ UNCHANGED <<world, caddy, dir, lastErr, certErr, shown, certs, regenMu,
                 lastHash, triggers, cancelled, watcherLocals, regenLocals, history>>

\* The server answers the GET: 304 when the ETag sent is still current.
FetchOK(c) ==
  /\ pc[c] = "fetch"
  /\ resp' = [resp EXCEPT ![c] = IF c \in ETagging /\ etag[c] = server[c]
                                   THEN NotModified ELSE Answer(server[c])]
  /\ Goto(c, "answered")
  /\ UNCHANGED <<world, caddy, health, certs, regenMu, lastHash, triggers,
                 cancelled, watcherLocals, regenLocals, history>>

\* The GET fails, or its answer is not a directory that validates.
FetchFails(c) ==
  /\ pc[c] = "fetch"
  /\ "fetchError" \in Events \/ cancelled
  /\ resp' = [resp EXCEPT ![c] = NoAnswer]
  /\ Goto(c, "answered")
  /\ UNCHANGED <<world, caddy, health, certs, regenMu, lastHash, triggers,
                 cancelled, watcherLocals, regenLocals, history>>

\* pollOnce after Fetch returned an error: only LastError changes.
PollFailed(c) ==
  /\ pc[c] = "answered"
  /\ resp[c].status = 0
  /\ lastErr' = [lastErr EXCEPT ![c] = TRUE]
  /\ Goto(c, "select")
  /\ UNCHANGED <<world, caddy, dir, etag, certErr, shown, certs, regenMu, lastHash,
                 triggers, cancelled, resp, watcherLocals, regenLocals, history>>

\* A 304 clears LastError, keeps the ETag and returns without regenerate.
PollNotModified(c) ==
  /\ pc[c] = "answered"
  /\ resp[c].status = 304
  /\ lastErr' = [lastErr EXCEPT ![c] = FALSE]
  /\ resp' = [resp EXCEPT ![c] = NoAnswer]
  /\ Goto(c, "select")
  /\ UNCHANGED <<world, caddy, dir, etag, certErr, shown, certs, regenMu, lastHash,
                 triggers, cancelled, watcherLocals, regenLocals, history>>

\* Mutant of PollUpdated: regenerate is skipped when another is under way.
PollUpdatedTryLock(c) ==
  /\ pc[c] = "answered"
  /\ resp[c].status = 200
  /\ dir' = [dir EXCEPT ![c] = resp[c].dir]
  /\ etag' = [etag EXCEPT ![c] = IF c \in ETagging THEN resp[c].dir ELSE NoDir]
  /\ lastErr' = [lastErr EXCEPT ![c] = FALSE]
  /\ resp' = [resp EXCEPT ![c] = NoAnswer]
  /\ Goto(c, IF regenMu = Nobody THEN "lock" ELSE "select")
  /\ UNCHANGED <<world, caddy, certErr, shown, certs, regenMu, lastHash, triggers,
                 cancelled, watcherLocals, regenLocals, history>>

\* A 200 stores the directory and its ETag, then calls regenerate.
PollUpdated(c) ==
  /\ pc[c] = "answered"
  /\ resp[c].status = 200
  /\ dir' = [dir EXCEPT ![c] = resp[c].dir]
  /\ etag' = [etag EXCEPT ![c] = IF c \in ETagging THEN resp[c].dir ELSE NoDir]
  /\ lastErr' = [lastErr EXCEPT ![c] = FALSE]
  /\ resp' = [resp EXCEPT ![c] = NoAnswer]
  /\ Goto(c, "lock")
  /\ UNCHANGED <<world, caddy, certErr, shown, certs, regenMu, lastHash, triggers,
                 cancelled, watcherLocals, regenLocals, history>>
-----------------------------------------------------------------------------
(* runCertWatcher and checkCerts.                                           *)

StartCheck ==
  /\ pc[Watcher] = "select"
  /\ \/ UNCHANGED certTrig
     \/ certTrig /\ certTrig' = FALSE
  /\ Goto(Watcher, "check")
  /\ certAt' = 1
  /\ changed' = FALSE
  /\ hupOwed' = [hupOwed EXCEPT ![Watcher] = FALSE]
  /\ UNCHANGED <<world, caddy, health, certs, regenMu, lastHash, trig, cancelled,
                 resp, regenLocals, outcome>>

\* A pair that does not load or verify is reported first ...
CheckReports ==
  /\ pc[Watcher] = "check"
  /\ certAt <= N
  /\ ~cancelled
  /\ ~Usable(certAt)
  /\ certErr' = [certErr EXCEPT ![certAt] = TRUE]
  /\ shown' = [shown EXCEPT ![certAt] = DatesOf(certAt)]
  /\ Goto(Watcher, "drop")
  /\ UNCHANGED <<world, caddy, dir, etag, lastErr, certs, regenMu, lastHash, triggers,
                 cancelled, resp, watcherLocals, regenLocals, history>>

\* Mutant of CheckDrops: a dropped certificate is no change.
CheckDropsQuietly ==
  /\ pc[Watcher] = "drop"
  /\ certs' = [certs EXCEPT ![certAt] = NoCert]
  /\ certAt' = certAt + 1
  /\ Goto(Watcher, "check")
  /\ UNCHANGED <<world, caddy, health, regenMu, lastHash, triggers, cancelled, resp,
                 changed, regenLocals, history>>

\* Mutant of CheckDrops: after the report the certificate stays.
CheckDropsNothing ==
  /\ pc[Watcher] = "drop"
  /\ UNCHANGED certs
  /\ changed' = (changed \/ certs[certAt] # NoCert)
  /\ certAt' = certAt + 1
  /\ Goto(Watcher, "check")
  /\ UNCHANGED <<world, caddy, health, regenMu, lastHash, triggers, cancelled, resp,
                 regenLocals, history>>

\* ... and then dropped, which is a change if there was one.
CheckDrops ==
  /\ pc[Watcher] = "drop"
  /\ certs' = [certs EXCEPT ![certAt] = NoCert]
  /\ changed' = (changed \/ certs[certAt] # NoCert)
  /\ certAt' = certAt + 1
  /\ Goto(Watcher, "check")
  /\ UNCHANGED <<world, caddy, health, regenMu, lastHash, triggers, cancelled, resp,
                 regenLocals, history>>

\* A good pair is stored; one with the content hash of the pair before it ends
\* the iteration ...
CheckKeeps ==
  /\ pc[Watcher] = "check"
  /\ certAt <= N
  /\ ~cancelled
  /\ Usable(certAt)
  /\ certs' = [certs EXCEPT ![certAt] = disk[certAt]]
  /\ IF certs[certAt] = disk[certAt]
       THEN certAt' = certAt + 1 /\ UNCHANGED pc
       ELSE Goto(Watcher, "clear") /\ UNCHANGED certAt
  /\ UNCHANGED <<world, caddy, health, regenMu, lastHash, triggers, cancelled, resp,
                 changed, regenLocals, history>>

\* Mutant of CheckClears: the dates of the pair before it stay.
CheckClearsKeepsDates ==
  /\ pc[Watcher] = "clear"
  /\ certErr' = [certErr EXCEPT ![certAt] = FALSE]
  /\ changed' = TRUE
  /\ certAt' = certAt + 1
  /\ Goto(Watcher, "check")
  /\ UNCHANGED <<world, caddy, dir, etag, lastErr, shown, certs, regenMu, lastHash,
                 triggers, cancelled, resp, regenLocals, history>>

\* ... and a new one clears the report.
CheckClears ==
  /\ pc[Watcher] = "clear"
  /\ certErr' = [certErr EXCEPT ![certAt] = FALSE]
  /\ shown' = [shown EXCEPT ![certAt] = certs[certAt]]
  /\ changed' = TRUE
  /\ certAt' = certAt + 1
  /\ Goto(Watcher, "check")
  /\ UNCHANGED <<world, caddy, dir, etag, lastErr, certs, regenMu, lastHash, triggers,
                 cancelled, resp, regenLocals, history>>

\* checkCerts returns, early when the context is done.
EndCheck ==
  /\ pc[Watcher] = "check"
  /\ certAt > N \/ cancelled
  /\ Goto(Watcher, IF changed THEN "lock" ELSE "select")
  /\ UNCHANGED <<world, caddy, health, certs, regenMu, lastHash, triggers,
                 cancelled, resp, watcherLocals, regenLocals, history>>

\* Mutant of Exit: the certificate watcher does not select on the context.
ExitPollers(p) ==
  /\ pc[p] = "select"
  /\ cancelled
  /\ p # Watcher
  /\ Goto(p, "exited")
  /\ UNCHANGED <<world, caddy, health, certs, regenMu, lastHash, triggers,
                 cancelled, resp, watcherLocals, regenLocals, history>>

\* ctx.Done() in the select of runCommunity or runCertWatcher.
Exit(p) ==
  /\ pc[p] = "select"
  /\ cancelled
  /\ Goto(p, "exited")
  /\ UNCHANGED <<world, caddy, health, certs, regenMu, lastHash, triggers,
                 cancelled, resp, watcherLocals, regenLocals, history>>
-----------------------------------------------------------------------------
(* regenerate, called by every goroutine.                                   *)

AfterRegenerate(p) == IF p = Main THEN "serve" ELSE "select"

\* Mutant of Acquire: the iteration starts one too early.
AcquireFromZero(p) ==
  /\ pc[p] = "lock"
  /\ regenMu = Nobody
  /\ regenMu' = p
  /\ readAt' = 0
  /\ Goto(p, "read")
  /\ UNCHANGED <<world, caddy, health, certs, lastHash, triggers, cancelled,
                 resp, watcherLocals, rdirs, rcerts, history>>

Acquire(p) ==
  /\ pc[p] = "lock"
  /\ regenMu = Nobody
  /\ regenMu' = p
  /\ readAt' = 1
  /\ Goto(p, "read")
  /\ UNCHANGED <<world, caddy, health, certs, lastHash, triggers, cancelled,
                 resp, watcherLocals, rdirs, rcerts, history>>

\* Health.Get of the next community, in the order of cfg.Communities.
ReadDir(p) ==
  /\ pc[p] = "read"
  /\ readAt <= N
  /\ rdirs' = [rdirs EXCEPT ![readAt] = dir[readAt]]
  /\ readAt' = readAt + 1
  /\ UNCHANGED <<world, caddy, health, certs, regenMu, lastHash, triggers,
                 cancelled, pc, resp, watcherLocals, rcerts, history>>

\* Mutant of BuildDocument: no Unlock on the early return.
BuildDocumentKeepsLock(p) ==
  /\ pc[p] = "read"
  /\ readAt > N
  /\ rcerts' = certs
  /\ IF lastHash = Build(rdirs, certs)
       THEN /\ outcome' = "ok"
            /\ UNCHANGED regenMu
            /\ Goto(p, AfterRegenerate(p))
       ELSE /\ Goto(p, "post")
            /\ UNCHANGED <<regenMu, outcome>>
  /\ UNCHANGED <<world, caddy, health, certs, lastHash, triggers, cancelled,
                 resp, watcherLocals, readAt, rdirs, hupOwed>>

\* Copy the certificates, build, and return if the hash is the last one.
BuildDocument(p) ==
  /\ pc[p] = "read"
  /\ readAt > N
  /\ rcerts' = certs
  /\ IF lastHash = Build(rdirs, certs)
       THEN /\ regenMu' = Nobody
            /\ outcome' = "ok"
            /\ Goto(p, AfterRegenerate(p))
       ELSE /\ Goto(p, "post")
            /\ UNCHANGED <<regenMu, outcome>>
  /\ UNCHANGED <<world, caddy, health, certs, lastHash, triggers, cancelled,
                 resp, watcherLocals, readAt, rdirs, hupOwed>>

\* What the POST carries, and what Caddy does with a document: it reads every
\* file that load_files names and refuses the whole document if one is
\* unusable; it need not read anything again for the document it runs.
Posted == Build(rdirs, rcerts)

Readable(doc) ==
  \A c \in Communities : certTag(c) \in doc.loadFiles => disk[c] # Unusable

CaddyLoads(doc) ==
  \/ doc = running /\ UNCHANGED <<running, loaded>>
  \/ /\ Readable(doc)
     /\ running' = doc
     /\ loaded' = [c \in Communities |->
                     IF certTag(c) \in doc.loadFiles THEN disk[c] ELSE NoCert]

Release(p, result) ==
  /\ regenMu' = Nobody
  /\ outcome' = result
  /\ Goto(p, AfterRegenerate(p))

ApplyOK(p) ==
  /\ pc[p] = "post"
  /\ CaddyLoads(Posted)
  /\ unanswered' = {}
  /\ lastHash' = Posted
  /\ Release(p, "ok")
  /\ UNCHANGED <<world, health, certs, triggers, cancelled, resp, watcherLocals,
                 regenLocals, hupOwed>>

\* Mutant of ApplyRejected: the hash is stored before the POST.
ApplyRejectedHashed(p) ==
  /\ pc[p] = "post"
  /\ ~Readable(Posted) \/ "reject" \in Events \/ cancelled
  /\ lastHash' = Posted
  /\ Release(p, "error")
  /\ UNCHANGED <<world, caddy, health, certs, triggers, cancelled, resp,
                 watcherLocals, regenLocals, hupOwed>>

\* Caddy refuses the document, is unreachable, or the context is done.
ApplyRejected(p) ==
  /\ pc[p] = "post"
  /\ ~Readable(Posted) \/ "reject" \in Events \/ cancelled
  /\ Release(p, "error")
  /\ UNCHANGED <<world, caddy, health, certs, lastHash, triggers, cancelled, resp,
                 watcherLocals, regenLocals, hupOwed>>

\* The POST is given up before its answer arrives, but Caddy has the document.
ApplyUnconfirmed(p) ==
  /\ pc[p] = "post"
  /\ "lostReply" \in Events \/ cancelled
  /\ Cardinality(unanswered \cup {Posted}) <= MaxUnanswered
  /\ unanswered' = unanswered \cup {Posted}
  /\ Release(p, "error")
  /\ UNCHANGED <<world, running, loaded, health, certs, lastHash, triggers, cancelled,
                 resp, watcherLocals, regenLocals, hupOwed>>

\* Caddy gets round to such a document.  It handles one POST at a time, so it
\* has dealt with all of them when it answers a later one.
LateLoad(doc) ==
  /\ CaddyLoads(doc)
  /\ UNCHANGED <<world, unanswered, health, certs, regenMu, lastHash, triggers,
                 cancelled, pc, resp, watcherLocals, regenLocals, history>>
-----------------------------------------------------------------------------
Environment ==
  \/ \E c \in Communities : \/ \E d \in Dirs : Publish(c, d)
                            \/ \E v \in Certs \cup {Unusable} : Rotate(c, v)
  \/ Tick
  \/ \E doc \in unanswered : LateLoad(doc)

MainStep == ReloadCert \/ Spawn \/ waitFirstPoll \/ TriggerAll \/ Shutdown

PollOnce(c) ==
  FetchOK(c) \/ FetchFails(c) \/ PollFailed(c) \/ PollNotModified(c) \/ PollUpdated(c)

CheckStep ==
  \/ StartCheck \/ CheckReports \/ CheckDrops \/ CheckKeeps \/ CheckClears \/ EndCheck

Regenerate(p) ==
  \/ Acquire(p) \/ ReadDir(p) \/ BuildDocument(p)
  \/ ApplyOK(p) \/ ApplyRejected(p) \/ ApplyUnconfirmed(p)

Next ==
  \/ Environment
  \/ MainStep
  \/ \E c \in Communities : StartPoll(c) \/ PollOnce(c)
  \/ CheckStep
  \/ \E p \in Procs : Regenerate(p)
  \/ \E p \in 0..N : Exit(p)

Spec == Init /\ [][Next]_vars

\* What goroutine p does by itself.
Step(p) ==
  \/ Regenerate(p)
  \/ p = Main /\ (ReloadCert \/ Spawn \/ waitFirstPoll)
  \/ p = Watcher /\ CheckStep
  \/ p \in Communities /\ (StartPoll(p) \/ PollOnce(p))

\* No goroutine stops for good between two selects, a blocked Lock returns
\* (sync.Mutex hands over to a starving waiter), a ready case of a select is
\* taken in the end, and neither the directory servers nor Caddy fail forever.
Fairness ==
  /\ \A p \in Procs : WF_vars(Step(p)) /\ SF_vars(Acquire(p))
  /\ \A p \in 0..N : SF_vars(Exit(p))
  /\ \A c \in Communities : SF_vars(FetchOK(c))
  /\ SF_vars(\E p \in Procs : ApplyOK(p))

FairSpec == Spec /\ Fairness
-----------------------------------------------------------------------------
(* Properties.                                                              *)

\* The type of every variable.
TypeOK ==
  /\ server \in [Communities -> Dirs]
  /\ disk \in [Communities -> Certs \cup {Unusable}]
  /\ clock \in 0..MaxClock
  /\ running \in Documents \cup {NoDocument}
  /\ loaded \in [Communities -> Certs \cup {NoCert}]
  /\ unanswered \subseteq Documents
  /\ dir \in DirMaps
  /\ etag \in DirMaps
  /\ lastErr \in [Communities -> BOOLEAN]
  /\ certErr \in [Communities -> BOOLEAN]
  /\ shown \in CertMaps
  /\ certs \in CertMaps
  /\ regenMu \in Procs \cup {Nobody}
  /\ lastHash \in Documents \cup {NoDocument}
  /\ trig \in [Communities -> BOOLEAN]
  /\ certTrig \in BOOLEAN
  /\ cancelled \in BOOLEAN
  /\ pc \in [Procs -> Places]
  /\ resp \in [Communities -> Answers]
  /\ certAt \in 1..(N + 1)
  /\ changed \in BOOLEAN
  /\ readAt \in 1..(N + 1)
  /\ rdirs \in DirMaps
  /\ rcerts \in CertMaps
  /\ outcome \in {"none", "ok", "error"}
  /\ hupOwed \in [0..N -> BOOLEAN]

\* The check under way has changed Runner.certs, so a regenerate will follow it:
\* a new pair is stored before the report is cleared and changed is set.
WatcherOwes == pc[Watcher] = "clear" \/ (pc[Watcher] \in {"check", "drop"} /\ changed)

\* Somebody is inside regenerate, waits for regenMu, or is about to call it.
Regenerating == WatcherOwes \/ \E p \in Procs : pc[p] \in {"lock", "read", "post"}

\* When the last regenerate succeeded and no other is under way or due, the
\* document that Caddy last confirmed is the one for the directories and
\* certificates held, and Caddy runs it or one that was POSTed later and whose
\* answer was lost: no update is lost between a Health or certificate store and
\* a concurrent regenerate that already read it, and the hash comparison never
\* skips a needed POST for any other reason.
InSync ==
  outcome = "ok" /\ ~Regenerating =>
    /\ lastHash = Build(dir, certs)
    /\ running = lastHash \/ running \in unanswered

\* A SIGHUP is never lost: until a poll (or certificate check) starts after it,
\* its token is in the channel of capacity 1, so coalescing drops none.
NoLostHup ==
  /\ \A c \in Communities : hupOwed[c] => trig[c]
  /\ hupOwed[Watcher] => certTrig

\* The last regenerate succeeded, no other is owed, and no answer is missing.
Settled == outcome = "ok" /\ ~Regenerating /\ unanswered = {}

\* Once settled, the status page reports a certificate error for exactly the
\* communities whose own certificate Caddy does not load, although the report,
\* the certificate and the document are written under three locks, the report
\* is made before the certificate is dropped and cleared after it is stored, and
\* only if it is new.  The one exception is the community of which a check has
\* just reported an error and not yet dropped the certificate.
Reporting(c) == pc[Watcher] = "drop" /\ certAt = c

StatusAgreesWithCaddy ==
  Settled => \A c \in Communities :
    ~Reporting(c) => (certErr[c] <=> certTag(c) \notin running.loadFiles)

\* The diagnosis on the error page of a host of community c, the choice of
\* handleError between the fields of one snapshot of Health.  A certificate
\* expires soon at the last value of the clock at which it is valid.
Diagnosis(c) ==
  IF shown[c] # NoCert /\ clock > NotAfter[shown[c]] THEN "wildcard cert expired"
  ELSE IF certErr[c] THEN "wildcard cert problem"
  ELSE IF shown[c] # NoCert /\ clock = NotAfter[shown[c]] THEN "wildcard cert expires soon"
  ELSE IF lastErr[c] THEN "directory or upstream problem"
  ELSE "upstream unreachable"

CertDiagnoses == {"wildcard cert expired", "wildcard cert problem"}

\* Once settled, the error page blames the certificate of every community that
\* Caddy does not serve under its own, and of none that it does as long as that
\* certificate is valid: neither the error nor the dates of an earlier
\* certificate survive a good one.
DiagnosisAgrees ==
  Settled =>
    \A c \in Communities : ~Reporting(c) =>
      IF certTag(c) \in running.loadFiles
        THEN Valid(certs[c]) => Diagnosis(c) \notin CertDiagnoses
        ELSE Diagnosis(c) \in CertDiagnoses

\* An ETag is only kept with the directory it came with: a 304 always means
\* that the directory held is the one the server had when it answered.
ETagNamesDirectory ==
  \A c \in Communities : etag[c] # NoDir => etag[c] = dir[c]

\* In what Caddy runs, every node and certificate a server or the DNS app
\* refers to is defined, and a server proxies only under a community's own
\* certificate, which Caddy has read.
RunningIsClosed ==
  running # NoDocument =>
    \A c \in DOMAIN running.servers :
      LET srv == running.servers[c]
      IN  /\ srv.listen \in running.tsNodes
          /\ running.bridgedns[c] = srv.listen
          /\ srv.anyTag \in running.loadFiles
          /\ \A r \in srv.routes : r.dialer \in running.tsNodes
          /\ srv.routes # {} => loaded[c] # NoCert

\* Polling, certificate checks and SIGHUP bring Caddy to the document for the
\* directories and certificate files as they are, once those stay as they are.
UsableCerts == [c \in Communities |-> IF Usable(c) THEN disk[c] ELSE NoCert]

Converges ==
  <>[][UNCHANGED world]_vars => <>[](running = Build(server, UsableCerts) \/ cancelled)

\* Every SIGHUP is followed by a poll of every community and a check of the
\* certificates.
HupAnswered ==
  \A p \in 0..N : hupOwed[p] ~> ~hupOwed[p] \/ cancelled

\* After a shutdown every goroutine of the runner returns.
Quiesces == cancelled ~> \A p \in Procs : pc[p] = "exited"

\* What the documentation says of rotation: a new certificate that stays in
\* place reaches the connections.  Build has only its path, so it does not.
RotationServed ==
  \A c \in Communities : \A v \in Certs :
    <>[](disk[c] = v /\ Valid(v)) => <>[](loaded[c] = v \/ cancelled)
-----------------------------------------------------------------------------
(* WildcardPoller implements ConfigSync.  The sources are the communities'  *)
(* directories and, at 0, the certificates; a regenerate is due for whoever *)
(* waits for regenMu or holds it, for the watcher while a check has changed *)
(* a certificate, and for the certificates until reloadAllCerts is done.    *)

HeldOf(d, k) == [s \in 0..N |-> IF s = Watcher THEN k ELSE d[s]]
DocOf(h) == Build([c \in Communities |-> h[c]], h[Watcher])

Due ==
  {p \in Procs : \/ pc[p] \in {"lock", "read", "post"}
                 \/ p = Watcher /\ WatcherOwes
                 \/ p = Watcher /\ pc[Main] = "reload"}

Sync == INSTANCE ConfigSync WITH
  Sources <- 0..N,
  Held <- {HeldOf(d, k) : d \in DirMaps, k \in CertMaps},
  Doc <- DocOf,
  NoDoc <- NoDocument,
  held <- HeldOf(dir, certs),
  due <- Due,
  confirmed <- lastHash,
  applied <- running,
  ok <- outcome = "ok"

\* Whatever the interleaving of polls, checks and regenerates, every regenerate
\* that returns nil leaves a confirmed document that is out of date only in what
\* a process that still owes its own regenerate has changed since, and Caddy
\* runs that one or one POSTed later whose answer was lost.
ImplementsConfigSync == Sync!Spec
-----------------------------------------------------------------------------
(* The inductive invariant behind InSync.                                   *)

\* regenMu is held by the one goroutine inside regenerate.
LockInv ==
  \A p \in Procs : pc[p] \in {"read", "post"} <=> regenMu = p

\* Before Spawn only the main goroutine runs, and nothing was built.
StartInv ==
  pc[Main] = "reload" =>
    /\ outcome = "none"
    /\ \A p \in 0..N : pc[p] = "unstarted"

\* The directory read for c is current, or c's poller waits to regenerate.
DirFresh(c) == rdirs[c] = dir[c] \/ pc[c] = "lock"

\* The certificates read are current, or the watcher will regenerate.
CertsFresh ==
  \/ rcerts = certs
  \/ pc[Watcher] = "lock"
  \/ WatcherOwes

\* Caddy runs the confirmed document or one whose answer was lost since; what
\* has been read so far is fresh; once the lock is free after a success, the
\* confirmed document is the one for what was read.
SyncInv ==
  /\ running = lastHash \/ running \in unanswered
  /\ \A p \in Procs : pc[p] = "read" =>
       \A c \in Communities : c < readAt => DirFresh(c)
  /\ \A p \in Procs : pc[p] = "post" =>
       CertsFresh /\ \A c \in Communities : DirFresh(c)
  /\ regenMu = Nobody /\ outcome = "ok" =>
       /\ lastHash = Build(rdirs, rcerts)
       /\ CertsFresh
       /\ \A c \in Communities : DirFresh(c)
=============================================================================
