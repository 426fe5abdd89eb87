------------------------------ MODULE Lifecycle ------------------------------
(***************************************************************************)
(* run() of both orchestrators, from the spawn of Caddy to the exit: the    *)
(* main goroutine, the goroutine that waits for Caddy (caddyproc.Wait and   *)
(* its two output pumps), the status server, the tsnet nodes of the pollers *)
(* and the signals.  What happens before the spawn only returns errors.     *)
(*                                                                          *)
(* Outside src/: Caddy (caddy) and whoever sends signals.                   *)
(*                                                                          *)
(* Simplifications: SIGINT is handled like SIGTERM and left out; timers may *)
(* fire at any time; the pollers' own goroutines are in WildcardPoller and  *)
(* PrefixPoller, whose shutdown is the cancelled context of this module.    *)
(***************************************************************************)
EXTENDS Naturals, Sequences

CONSTANTS
  Communities,  \* one tsnet node each
  Signals,      \* the signals that are sent, a subset of {"HUP", "TERM"}
  MaxSignals    \* bound on their number

ASSUME LifecycleAssumption ==
  /\ Signals \subseteq {"HUP", "TERM"}
  /\ MaxSignals \in Nat

VARIABLES
  variant,    \* "wildcard" or "prefix"
  main,       \* where the main goroutine is in run()
  err,        \* what run() will return: an error, or nil
  exit,       \* how the process ended
  caddy,      \* the Caddy process
  obeys,      \* it exits on SIGTERM
  termed,     \* SIGTERM was sent to it
  killed,     \* SIGKILL was sent to it
  waiter,     \* caddyproc.Wait: not called, in cmd.Wait, in pumpsWG.Wait, returned
  pumping,    \* the pipes that a pump still reads
  exited,     \* caddyDone is closed (wildcard), caddyExit holds the result (prefix)
  status,     \* the status server; "failed" is an error in statusErrCh
  node,       \* the tsnet node of each community
  sigCh,      \* sigCh, of capacity 4
  sent,       \* number of signals sent
  asked       \* history: a SIGTERM was taken from sigCh

process == <<err, exit>>
child == <<caddy, obeys, termed, killed, waiter, pumping>>
vars == <<variant, main, process, child, exited, status, node, sigCh, sent, asked>>

Pipes == {"stdout", "stderr"}
Gone == {"zero", "nonzero"}
Notified == {"loop", "grace", "killed"}

Init ==
  /\ variant \in {"wildcard", "prefix"}
  /\ main = "spawn"
  /\ err = FALSE
  /\ exit = "none"
  /\ caddy = "none"
  /\ obeys \in BOOLEAN
  /\ termed = FALSE
  /\ killed = FALSE
  /\ waiter = "none"
  /\ pumping = {}
  /\ exited = FALSE
  /\ status = "off"
  /\ node = [c \in Communities |-> "off"]
  /\ sigCh = << >>
  /\ sent = 0
  /\ asked = FALSE
-----------------------------------------------------------------------------
(* Caddy, and the goroutines that wait for it and read its output.          *)

Boot ==
  /\ caddy = "booting"
  /\ caddy' = "up"
  /\ UNCHANGED <<variant, main, process, obeys, termed, killed, waiter, pumping, exited,
                 status, node, sigCh, sent, asked>>

\* Caddy exits by itself: with an error, or with 0 after POST /stop.
CaddyExits(result) ==
  /\ caddy \in {"booting", "up"}
  /\ result = "zero" => caddy = "up"
  /\ caddy' = result
  /\ UNCHANGED <<variant, main, process, obeys, termed, killed, waiter, pumping, exited,
                 status, node, sigCh, sent, asked>>

\* SIGTERM ends a Caddy that obeys, with 0 once its handler is there; SIGKILL
\* ends any.
CaddyTermed ==
  /\ termed /\ obeys
  /\ caddy \in {"booting", "up"}
  /\ caddy' = IF caddy = "up" THEN "zero" ELSE "nonzero"
  /\ UNCHANGED <<variant, main, process, obeys, termed, killed, waiter, pumping, exited,
                 status, node, sigCh, sent, asked>>

CaddyKilled ==
  /\ killed
  /\ caddy \in {"booting", "up"}
  /\ caddy' = "nonzero"
  /\ UNCHANGED <<variant, main, process, obeys, termed, killed, waiter, pumping, exited,
                 status, node, sigCh, sent, asked>>

\* cmd.Wait returns and closes the read ends of both pipes.
CmdWait ==
  /\ waiter = "cmd"
  /\ caddy \in Gone
  /\ waiter' = "pumps"
  /\ UNCHANGED <<variant, main, process, caddy, obeys, termed, killed, pumping, exited,
                 status, node, sigCh, sent, asked>>

\* A pump returns: EOF when Caddy is gone, or a read from a closed pipe.
PumpEnds(pipe) ==
  /\ pipe \in pumping
  /\ caddy \in Gone
  /\ pumping' = pumping \ {pipe}
  /\ UNCHANGED <<variant, main, process, caddy, obeys, termed, killed, waiter, exited,
                 status, node, sigCh, sent, asked>>

\* Wait returns; its caller closes caddyDone, sends to caddyExit, or is main.
WaitReturns ==
  /\ waiter = "pumps"
  /\ pumping = {}
  /\ waiter' = "returned"
  /\ exited' = TRUE
  /\ UNCHANGED <<variant, main, process, caddy, obeys, termed, killed, pumping, status,
                 node, sigCh, sent, asked>>
-----------------------------------------------------------------------------
(* run(), up to the loop.                                                   *)

\* caddyproc.Start; the wildcard variant waits for Caddy from here on.
SpawnCaddy ==
  /\ main = "spawn"
  /\ main' = "admin"
  /\ caddy' = "booting"
  /\ pumping' = Pipes
  /\ waiter' = IF variant = "wildcard" THEN "cmd" ELSE "none"
  /\ UNCHANGED <<variant, process, obeys, termed, killed, exited, status, node, sigCh,
                 sent, asked>>

\* waitForAdmin connects; the status server and the nodes are started.
AdminReady ==
  /\ main = "admin"
  /\ caddy = "up"
  /\ main' = "join"
  /\ status' = "serving"
  /\ node' = [c \in Communities |-> "joining"]
  /\ UNCHANGED <<variant, process, child, exited, sigCh, sent, asked>>

\* Mutant of AdminTimeout: Caddy is not told to terminate.
AdminTimeoutWaits ==
  /\ main = "admin"
  /\ main' = "abort"
  /\ err' = TRUE
  /\ waiter' = IF waiter = "none" THEN "cmd" ELSE waiter
  /\ UNCHANGED <<variant, exit, caddy, obeys, termed, killed, pumping, exited, status,
                 node, sigCh, sent, asked>>

\* waitForAdmin gives up, also on a Caddy that is gone; then main waits for
\* Caddy without a timer.  In the prefix variant only now does anybody Wait.
AdminTimeout ==
  /\ main = "admin"
  /\ main' = "abort"
  /\ err' = TRUE
  /\ termed' = TRUE
  /\ waiter' = IF waiter = "none" THEN "cmd" ELSE waiter
  /\ UNCHANGED <<variant, exit, caddy, obeys, killed, pumping, exited, status, node,
                 sigCh, sent, asked>>

AbortEnds ==
  /\ main = "abort"
  /\ exited
  /\ main' = "return"
  /\ UNCHANGED <<variant, process, child, exited, status, node, sigCh, sent, asked>>

\* startOne: the node comes up, or does not within the join timeout.
Join(c) ==
  /\ node[c] = "joining"
  /\ \E result \in {"up", "failed"} : node' = [node EXCEPT ![c] = result]
  /\ UNCHANGED <<variant, main, process, child, exited, status, sigCh, sent, asked>>

\* NewTsnetFetcher and poller.Start return: from here on signals are caught,
\* and the prefix variant waits for Caddy, too.
Notify ==
  /\ main = "join"
  /\ \A c \in Communities : node[c] # "joining"
  /\ main' = "loop"
  /\ waiter' = IF waiter = "none" THEN "cmd" ELSE waiter
  /\ UNCHANGED <<variant, process, caddy, obeys, termed, killed, pumping, exited, status,
                 node, sigCh, sent, asked>>
-----------------------------------------------------------------------------
(* Signals.                                                                 *)

\* Until signal.Notify, and in the wildcard variant after the deferred
\* signal.Stop, a signal ends the process; in between it is queued, unless
\* sigCh is full.
Caught ==
  \/ main \in Notified
  \/ main = "return" /\ variant = "prefix" /\ status # "off"

\* Mutant of Send: sigCh grows as it is needed.
SendGrows(s) ==
  /\ s \in Signals
  /\ sent < MaxSignals
  /\ Caught
  /\ sent' = sent + 1
  /\ sigCh' = Append(sigCh, s)
  /\ UNCHANGED <<variant, main, process, child, exited, status, node, asked>>

Send(s) ==
  /\ s \in Signals
  /\ sent < MaxSignals
  /\ main # "spawn" /\ exit = "none"
  /\ sent' = sent + 1
  /\ IF Caught
       THEN /\ sigCh' = IF Len(sigCh) < 4 THEN Append(sigCh, s) ELSE sigCh
            /\ UNCHANGED <<main, exit>>
       ELSE /\ exit' = "signal"
            /\ main' = "gone"
            /\ UNCHANGED sigCh
  /\ UNCHANGED <<variant, err, child, exited, status, node, asked>>

\* The listener or Serve fails while nobody has cancelled the status server.
StatusFails ==
  /\ status = "serving"
  /\ main \in {"join", "loop"}
  /\ status' = "failed"
  /\ UNCHANGED <<variant, main, process, child, exited, node, sigCh, sent, asked>>
-----------------------------------------------------------------------------
(* The loop, and shutdown.                                                  *)

\* shutdown: cancel everybody, SIGTERM to Caddy (no effect on one that is
\* gone), and wait.  result is what run() returns afterwards.
shutdown(result) ==
  /\ main' = "grace"
  /\ err' = result
  /\ termed' = TRUE
  /\ status' = "cancelled"
  /\ UNCHANGED <<variant, exit, caddy, obeys, killed, waiter, pumping, node, sent>>

TakeHup ==
  /\ main = "loop"
  /\ sigCh # << >> /\ Head(sigCh) = "HUP"
  /\ sigCh' = Tail(sigCh)
  /\ UNCHANGED <<variant, main, process, child, exited, status, node, sent, asked>>

TakeTerm ==
  /\ main = "loop"
  /\ sigCh # << >> /\ Head(sigCh) = "TERM"
  /\ sigCh' = Tail(sigCh)
  /\ asked' = TRUE
  /\ shutdown(FALSE)
  /\ UNCHANGED exited

\* Mutant of CaddyDone: the result taken from caddyExit is not put back.
CaddyDoneTaken ==
  /\ main = "loop"
  /\ exited
  /\ exited' = (variant = "wildcard")
  /\ IF caddy = "zero"
       THEN /\ main' = "return"
            /\ status' = "cancelled"
            /\ UNCHANGED <<variant, process, child, node, sent>>
       ELSE shutdown(TRUE)
  /\ UNCHANGED <<sigCh, asked>>

\* Caddy's exit reaches the loop; the prefix variant puts the result it took
\* from caddyExit back, for shutdown.
CaddyDone ==
  /\ main = "loop"
  /\ exited
  /\ IF caddy = "zero"
       THEN /\ main' = "return"
            /\ status' = "cancelled"
            /\ UNCHANGED <<variant, process, child, node, sent>>
       ELSE shutdown(TRUE)
  /\ UNCHANGED <<exited, sigCh, asked>>

StatusError ==
  /\ main = "loop"
  /\ status = "failed"
  /\ shutdown(TRUE)
  /\ UNCHANGED <<exited, sigCh, asked>>

\* shutdown receives Caddy's exit, from the channel that is closed or from the
\* one that holds the result.
CaddyGone ==
  /\ main \in {"grace", "killed"}
  /\ exited
  /\ exited' = (variant = "wildcard")
  /\ main' = "return"
  /\ UNCHANGED <<variant, process, child, status, node, sigCh, sent, asked>>

\* Mutant of GraceOver: no receive after the kill.
GraceOverReturns ==
  /\ main = "grace"
  /\ killed' = TRUE
  /\ main' = "return"
  /\ UNCHANGED <<variant, process, caddy, obeys, termed, waiter, pumping, exited, status,
                 node, sigCh, sent, asked>>

\* The grace period is over: SIGKILL, and wait again.
GraceOver ==
  /\ main = "grace"
  /\ killed' = TRUE
  /\ main' = "killed"
  /\ UNCHANGED <<variant, process, caddy, obeys, termed, waiter, pumping, exited, status,
                 node, sigCh, sent, asked>>

\* The deferred fetcher.Close, then the exit code.
Return ==
  /\ main = "return"
  /\ main' = "gone"
  /\ exit' = IF err THEN "1" ELSE "0"
  /\ node' = [c \in Communities |-> IF node[c] = "up" THEN "closed" ELSE node[c]]
  /\ UNCHANGED <<variant, err, child, exited, status, sigCh, sent, asked>>
-----------------------------------------------------------------------------
CaddyStep ==
  Boot \/ CaddyExits("zero") \/ CaddyExits("nonzero") \/ CaddyTermed \/ CaddyKilled

WaitStep == CmdWait \/ WaitReturns \/ \E pipe \in Pipes : PumpEnds(pipe)

MainStep ==
  \/ SpawnCaddy \/ AdminReady \/ AdminTimeout \/ AbortEnds \/ Notify
  \/ TakeHup \/ TakeTerm \/ CaddyDone \/ StatusError
  \/ CaddyGone \/ GraceOver \/ Return

Next ==
  \/ CaddyStep
  \/ WaitStep
  \/ MainStep
  \/ \E c \in Communities : Join(c)
  \/ StatusFails
  \/ \E s \in Signals : Send(s)

Spec == Init /\ [][Next]_vars

\* Every goroutine runs, timers fire, and the kernel kills; the cases of the
\* select that are ready again and again are taken in the end.  Nothing is
\* assumed of a Caddy that does not obey.
Fairness ==
  /\ WF_vars(MainStep) /\ WF_vars(WaitStep)
  /\ WF_vars(CaddyTermed) /\ WF_vars(CaddyKilled)
  /\ \A c \in Communities : WF_vars(Join(c))
  /\ SF_vars(TakeHup \/ TakeTerm) /\ SF_vars(CaddyDone) /\ SF_vars(StatusError)

FairSpec == Spec /\ Fairness
-----------------------------------------------------------------------------
(* Properties.                                                              *)

\* The type of every variable.
TypeOK ==
  /\ variant \in {"wildcard", "prefix"}
  /\ main \in {"spawn", "admin", "abort", "join", "return", "gone"} \cup Notified
  /\ err \in BOOLEAN
  /\ exit \in {"none", "0", "1", "signal"}
  /\ caddy \in {"none", "booting", "up"} \cup Gone
  /\ obeys \in BOOLEAN /\ termed \in BOOLEAN /\ killed \in BOOLEAN
  /\ waiter \in {"none", "cmd", "pumps", "returned"}
  /\ pumping \subseteq Pipes
  /\ exited \in BOOLEAN
  /\ status \in {"off", "serving", "failed", "cancelled"}
  /\ node \in [Communities -> {"off", "joining", "up", "failed", "closed"}]
  /\ sigCh \in Seq(Signals) /\ Len(sigCh) <= 4
  /\ sent \in 0..MaxSignals
  /\ asked \in BOOLEAN

\* A process that exits by itself leaves nothing behind: Caddy is gone and was
\* waited for, its output pumps have returned, and no tsnet node is up, however
\* signals, Caddy's exit, a failure of the status server and the grace period
\* race.
NothingLeft ==
  exit \in {"0", "1"} =>
    /\ caddy \in Gone /\ waiter = "returned" /\ pumping = {}
    /\ \A c \in Communities : node[c] \notin {"joining", "up"}

\* Where main waits for Caddy's exit: after a failed start, in the loop, and in
\* shutdown before and after the kill.
WaitsForCaddy == main \in {"abort", "loop", "grace", "killed"}

\* Somebody is waiting for Caddy and will announce its exit, or the exit has been
\* announced and nobody has taken it away.
ExitAnnounced == waiter \in {"cmd", "pumps"} \/ exited

\* Caddy's exit is not lost between its two consumers: the loop of the prefix
\* variant takes it from a channel that holds it once, and shutdown, which waits
\* for it without a timer after the kill, still finds it.  Wherever main waits,
\* the exit can still arrive, also where the start was given up before anybody
\* else had called Wait.
ExitNeverLost == WaitsForCaddy => ExitAnnounced

\* A SIGTERM in the channel, a Caddy that is gone, a failed status server and a
\* shutdown under way all end the process, even if Caddy ignores SIGTERM and
\* although two consumers take Caddy's exit.
MustEnd ==
  \/ \E i \in 1..Len(sigCh) : sigCh[i] = "TERM"
  \/ main = "loop" /\ (caddy \in Gone \/ status = "failed")
  \/ main \in {"grace", "killed"}

Ends == MustEnd ~> exit # "none"

\* The start leads to the loop or to an exit; only if the admin endpoint does
\* not come up and Caddy ignores SIGTERM does main wait for it forever.
Starts == <>(main = "loop" \/ exit # "none" \/ (main = "abort" /\ ~obeys))

\* What both SPECs say of SIGTERM: Caddy is shut down before the exit.
SigtermStopsCaddy == exit = "signal" => caddy \in Gone
=============================================================================
