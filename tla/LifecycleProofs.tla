--------------------------- MODULE LifecycleProofs ---------------------------
(***************************************************************************)
(* The invariants of Lifecycle, for every set of communities and any number *)
(* of signals.                                                              *)
(***************************************************************************)
EXTENDS Lifecycle, SequenceTheorems, TLAPS

\* The types of the variables, without and with the signals.
RunTypeOK ==
  /\ err \in BOOLEAN
  /\ caddy \in {"none", "booting", "up"} \cup Gone
  /\ pumping \subseteq Pipes
  /\ node \in [Communities -> {"off", "joining", "up", "failed", "closed"}]
  /\ variant \in {"wildcard", "prefix"}
  /\ main \in {"spawn", "admin", "abort", "join", "return", "gone"} \cup Notified
  /\ exit \in {"none", "0", "1", "signal"}
  /\ obeys \in BOOLEAN /\ termed \in BOOLEAN /\ killed \in BOOLEAN
  /\ waiter \in {"none", "cmd", "pumps", "returned"}
  /\ exited \in BOOLEAN
  /\ status \in {"off", "serving", "failed", "cancelled"}
  /\ asked \in BOOLEAN

SignalsTypeOK ==
  /\ sigCh \in Seq(Signals) /\ Len(sigCh) <= 4
  /\ sent \in 0..MaxSignals

LEMMA RunTyped == RunTypeOK /\ [Next]_vars => RunTypeOK'
<1> SUFFICES ASSUME RunTypeOK, [Next]_vars PROVE RunTypeOK'
  OBVIOUS
<1> USE DEF RunTypeOK, Notified, Gone, Pipes, process, child
<1>1. CASE Boot
  BY <1>1 DEF Boot
<1>2. CASE CaddyExits("zero")
  BY <1>2 DEF CaddyExits
<1>3. CASE CaddyExits("nonzero")
  BY <1>3 DEF CaddyExits
<1>4. CASE CaddyTermed
  BY <1>4 DEF CaddyTermed
<1>5. CASE CaddyKilled
  BY <1>5 DEF CaddyKilled
<1>6. CASE CmdWait
  BY <1>6 DEF CmdWait
<1>7. CASE WaitReturns
  BY <1>7 DEF WaitReturns
<1>8. CASE SpawnCaddy
  BY <1>8 DEF SpawnCaddy
<1>9. CASE AdminReady
  BY <1>9 DEF AdminReady
<1>10. CASE AdminTimeout
  BY <1>10 DEF AdminTimeout
<1>11. CASE AbortEnds
  BY <1>11 DEF AbortEnds
<1>12. CASE Notify
  BY <1>12 DEF Notify
<1>13. CASE TakeHup
  BY <1>13 DEF TakeHup
<1>14. CASE TakeTerm
  BY <1>14 DEF TakeTerm, shutdown
<1>15. CASE CaddyDone
  <2>1. CASE caddy = "zero"
    BY <1>15, <2>1 DEF CaddyDone
  <2>2. CASE caddy # "zero"
    BY <1>15, <2>2 DEF CaddyDone, shutdown
  <2> QED
    BY <2>1, <2>2
<1>16. CASE StatusError
  BY <1>16 DEF StatusError, shutdown
<1>17. CASE CaddyGone
  BY <1>17 DEF CaddyGone
<1>18. CASE GraceOver
  BY <1>18 DEF GraceOver
<1>19. CASE Return
  BY <1>19 DEF Return
<1>20. CASE StatusFails
  BY <1>20 DEF StatusFails
<1>21. ASSUME NEW pipe \in Pipes, PumpEnds(pipe) PROVE RunTypeOK'
  BY <1>21 DEF PumpEnds
<1>22. ASSUME NEW c \in Communities, Join(c) PROVE RunTypeOK'
  BY <1>22 DEF Join
<1>23. ASSUME NEW s \in Signals, Send(s) PROVE RunTypeOK'
  BY <1>23 DEF Send
<1>24. CASE UNCHANGED vars
  BY <1>24 DEF vars
<1> QED
  BY <1>1, <1>2, <1>3, <1>4, <1>5, <1>6, <1>7, <1>8, <1>9, <1>10, <1>11,
     <1>12, <1>13, <1>14, <1>15, <1>16, <1>17, <1>18, <1>19, <1>20, <1>21,
     <1>22, <1>23, <1>24
  DEF Next, CaddyStep, WaitStep, MainStep

LEMMA SignalsTyped == SignalsTypeOK /\ [Next]_vars => SignalsTypeOK'
<1> SUFFICES ASSUME SignalsTypeOK, [Next]_vars PROVE SignalsTypeOK'
  OBVIOUS
<1> USE DEF SignalsTypeOK
<1>1. CASE TakeHup \/ TakeTerm
  <2>1. sigCh # << >> /\ sigCh' = Tail(sigCh) /\ sent' = sent
    BY <1>1 DEF TakeHup, TakeTerm, shutdown
  <2>2. Tail(sigCh) \in Seq(Signals) /\ Len(Tail(sigCh)) = Len(sigCh) - 1
    BY <2>1, HeadTailProperties
  <2>3. Len(sigCh) \in Nat
    BY LenProperties
  <2> QED
    BY <2>1, <2>2, <2>3
<1>2. ASSUME NEW s \in Signals, Send(s) PROVE SignalsTypeOK'
  <2>1. Append(sigCh, s) \in Seq(Signals) /\ Len(Append(sigCh, s)) = Len(sigCh) + 1
    BY AppendProperties
  <2>2. Len(sigCh) \in Nat
    BY LenProperties
  <2>3. sigCh' \in {sigCh, Append(sigCh, s)} /\ (Len(sigCh) < 4 \/ sigCh' = sigCh)
    BY <1>2 DEF Send
  <2>4. sent < MaxSignals /\ sent' = sent + 1
    BY <1>2 DEF Send
  <2> QED
    BY <2>1, <2>2, <2>3, <2>4, LifecycleAssumption DEF LifecycleAssumption
<1>3. CASE UNCHANGED <<sigCh, sent>>
  BY <1>3
<1> QED
  <2>1. Next => \/ TakeHup \/ TakeTerm \/ (\E s \in Signals : Send(s))
               \/ UNCHANGED <<sigCh, sent>>
    BY DEF Next, CaddyStep, WaitStep, MainStep, Boot, CaddyExits, CaddyTermed, CaddyKilled,
           CmdWait, WaitReturns, PumpEnds, SpawnCaddy, AdminReady, AdminTimeout, AbortEnds,
           Notify, CaddyDone, StatusError, CaddyGone, GraceOver, Return, StatusFails, Join,
           shutdown
  <2> QED
    BY <1>1, <1>2, <1>3, <2>1 DEF vars

\* Every variable keeps its type.
THEOREM LifecycleTypeOK == Spec => []TypeOK
<1>1. Init => RunTypeOK /\ SignalsTypeOK
  <2> SUFFICES ASSUME Init PROVE RunTypeOK /\ SignalsTypeOK
    OBVIOUS
  <2>1. RunTypeOK
    BY DEF Init, RunTypeOK, Gone
  <2>2. sigCh \in Seq(Signals) /\ Len(sigCh) = 0
    BY EmptySeq DEF Init
  <2>3. sent \in 0..MaxSignals
    BY LifecycleAssumption DEF Init, LifecycleAssumption
  <2> QED
    BY <2>1, <2>2, <2>3 DEF SignalsTypeOK
<1>2. RunTypeOK /\ SignalsTypeOK => TypeOK
  BY DEF RunTypeOK, SignalsTypeOK, TypeOK
<1> QED
  BY <1>1, <1>2, RunTyped, SignalsTyped, PTL DEF Spec
-----------------------------------------------------------------------------
(* The strengthening: who may know that Caddy is gone, and at which point   *)
(* of run().                                                                *)

\* Wait returns after Caddy and both pumps, and its result is not announced
\* before that.
WaitKnows ==
  /\ waiter \in {"pumps", "returned"} => caddy \in Gone
  /\ waiter = "returned" => pumping = {}
  /\ exited => waiter = "returned"
  /\ main = "spawn" => waiter = "none"

\* run() returns only after Wait; by then no node is joining; only a process
\* that has not ended can end.
ReturnKnows ==
  /\ main = "return" => waiter = "returned"
  /\ main \in Notified =>
       \A c \in Communities : node[c] # "joining"
  /\ main \in {"spawn", "admin", "abort", "return"} =>
       \A c \in Communities : node[c] # "joining"
  /\ exit # "none" => main = "gone"

\* Until the loop is left nobody has sent SIGTERM to Caddy, and on a way to
\* exit code 0 it was asked for, or Caddy went first.
ErrKnows ==
  /\ main \in {"spawn", "admin", "join", "loop"} => ~termed
  /\ main = "abort" => err
  /\ main \in {"return", "grace", "killed"} /\ ~err =>
       asked \/ (caddy = "zero" /\ ~termed)

\* What exit code 0 means in both mains: a SIGTERM was taken, or Caddy exited with
\* 0 by itself.  The second case is the code's, not the documents': SPEC.md (9.4)
\* and the header of caddyproc.go want a non-zero code for every unexpected exit
\* of Caddy, and run() returns nil for a clean one.
ExitCodeTells ==
  exit = "0" => asked \/ (caddy = "zero" /\ ~termed)

Ended == WaitKnows /\ ReturnKnows /\ ErrKnows /\ NothingLeft /\ ExitCodeTells

LEMMA EndedInductive == RunTypeOK /\ Ended /\ [Next]_vars => Ended'
<1> SUFFICES ASSUME RunTypeOK, Ended, [Next]_vars PROVE Ended'
  OBVIOUS
<1> USE DEF Ended, WaitKnows, ReturnKnows, ErrKnows, NothingLeft, ExitCodeTells, RunTypeOK,
            Notified, Gone, Pipes, process, child
<1>1. CASE Boot
  BY <1>1 DEF Boot
<1>2. CASE CaddyExits("zero")
  BY <1>2 DEF CaddyExits
<1>3. CASE CaddyExits("nonzero")
  BY <1>3 DEF CaddyExits
<1>4. CASE CaddyTermed
  BY <1>4 DEF CaddyTermed
<1>5. CASE CaddyKilled
  BY <1>5 DEF CaddyKilled
<1>6. CASE CmdWait
  BY <1>6 DEF CmdWait
<1>7. CASE WaitReturns
  BY <1>7 DEF WaitReturns
<1>8. CASE SpawnCaddy
  BY <1>8 DEF SpawnCaddy
<1>9. CASE AdminReady
  BY <1>9 DEF AdminReady
<1>10. CASE AdminTimeout
  BY <1>10 DEF AdminTimeout
<1>11. CASE AbortEnds
  BY <1>11 DEF AbortEnds
<1>12. CASE Notify
  BY <1>12 DEF Notify
<1>13. CASE TakeHup
  BY <1>13 DEF TakeHup
<1>14. CASE TakeTerm
  BY <1>14 DEF TakeTerm, shutdown
<1>15. CASE CaddyDone
  <2>1. CASE caddy = "zero"
    BY <1>15, <2>1 DEF CaddyDone
  <2>2. CASE caddy # "zero"
    BY <1>15, <2>2 DEF CaddyDone, shutdown
  <2> QED
    BY <2>1, <2>2
<1>16. CASE StatusError
  BY <1>16 DEF StatusError, shutdown
<1>17. CASE CaddyGone
  BY <1>17 DEF CaddyGone
<1>18. CASE GraceOver
  BY <1>18 DEF GraceOver
<1>19. CASE Return
  BY <1>19 DEF Return
<1>20. CASE StatusFails
  BY <1>20 DEF StatusFails
<1>21. ASSUME NEW pipe \in Pipes, PumpEnds(pipe) PROVE Ended'
  BY <1>21 DEF PumpEnds
<1>22. ASSUME NEW c \in Communities, Join(c) PROVE Ended'
  BY <1>22 DEF Join
<1>23. ASSUME NEW s \in Signals, Send(s) PROVE Ended'
  BY <1>23 DEF Send
<1>24. CASE UNCHANGED vars
  BY <1>24 DEF vars
<1> QED
  BY <1>1, <1>2, <1>3, <1>4, <1>5, <1>6, <1>7, <1>8, <1>9, <1>10, <1>11,
     <1>12, <1>13, <1>14, <1>15, <1>16, <1>17, <1>18, <1>19, <1>20, <1>21,
     <1>22, <1>23, <1>24
  DEF Next, CaddyStep, WaitStep, MainStep

LEMMA EndedAlways == Spec => []Ended
<1>1. Init => Ended
  BY DEF Init, Ended, WaitKnows, ReturnKnows, ErrKnows, NothingLeft, ExitCodeTells,
         Notified, Gone
<1>2. Init => RunTypeOK
  BY DEF Init, RunTypeOK, Gone
<1> QED
  BY <1>1, <1>2, EndedInductive, RunTyped, PTL DEF Spec

\* A process that exits by itself has waited for Caddy and its output and has
\* closed its tsnet nodes.
THEOREM LifecycleNothingLeft == Spec => []NothingLeft
BY EndedAlways, PTL DEF Ended

\* Unless a SIGTERM was taken, a crash of Caddy, a failed start and a failed
\* status server never end in exit code 0, so Docker restarts the container; a
\* clean exit of Caddy that nobody asked for does, against the documents.
THEOREM LifecycleExitCode == Spec => []ExitCodeTells
BY EndedAlways, PTL DEF Ended
-----------------------------------------------------------------------------
(* What main waits for.                                                     *)

\* What Wait has announced is only taken away for good by the receive that lets
\* run() return.
HeldUntilTaken == waiter = "returned" => exited \/ main \in {"return", "gone"}

\* Caddy's exit is not lost between its two consumers: the loop of the prefix
\* variant takes it from a channel that holds it once, and shutdown, which waits
\* for it without a timer after the kill, still finds it; and nobody waits for a
\* Caddy that nobody waits for in turn.
THEOREM LifecycleExitNeverLost == Spec => []ExitNeverLost
<1> DEFINE Inv == ExitNeverLost /\ HeldUntilTaken
<1>1. Init => Inv
  BY DEF Init, ExitNeverLost, WaitsForCaddy, HeldUntilTaken
<1>2. RunTypeOK /\ Inv /\ [Next]_vars => Inv'
  <2> SUFFICES ASSUME RunTypeOK, Inv, [Next]_vars PROVE Inv'
    OBVIOUS
  <2> USE DEF ExitNeverLost, WaitsForCaddy, ExitAnnounced, HeldUntilTaken, RunTypeOK, process, child
  <2>1. CASE CmdWait \/ WaitReturns \/ \E pipe \in Pipes : PumpEnds(pipe)
    BY <2>1 DEF CmdWait, WaitReturns, PumpEnds
  <2>2. CASE Boot \/ CaddyExits("zero") \/ CaddyExits("nonzero") \/ CaddyTermed \/ CaddyKilled
    BY <2>2 DEF Boot, CaddyExits, CaddyTermed, CaddyKilled
  <2>3. CASE SpawnCaddy
    BY <2>3 DEF SpawnCaddy
  <2>4. CASE AdminReady
    BY <2>4 DEF AdminReady
  <2>5. CASE AdminTimeout
    BY <2>5 DEF AdminTimeout
  <2>6. CASE AbortEnds \/ Return
    BY <2>6 DEF AbortEnds, Return
  <2>7. CASE Notify
    BY <2>7 DEF Notify
  <2>8. CASE TakeHup
    BY <2>8 DEF TakeHup
  <2>9. CASE TakeTerm
    BY <2>9 DEF TakeTerm, shutdown
  <2>10. CASE CaddyDone
    <3>1. exited' = exited /\ waiter' = waiter /\ variant' = variant /\ main = "loop" /\ exited
      BY <2>10 DEF CaddyDone, shutdown
    <3> QED
      BY <3>1
  <2>11. CASE StatusError
    BY <2>11 DEF StatusError, shutdown
  <2>12. CASE CaddyGone
    BY <2>12 DEF CaddyGone
  <2>13. CASE GraceOver
    BY <2>13 DEF GraceOver
  <2>14. CASE StatusFails \/ \E c \in Communities : Join(c)
    BY <2>14 DEF StatusFails, Join
  <2>15. ASSUME NEW s \in Signals, Send(s) PROVE Inv'
    BY <2>15 DEF Send
  <2>16. CASE UNCHANGED vars
    BY <2>16 DEF vars
  <2> QED
    BY <2>1, <2>2, <2>3, <2>4, <2>5, <2>6, <2>7, <2>8, <2>9, <2>10, <2>11, <2>12, <2>13,
       <2>14, <2>15, <2>16
    DEF Next, CaddyStep, WaitStep, MainStep
<1>3. Init => RunTypeOK
  BY DEF Init, RunTypeOK, Gone
<1> QED
  BY <1>1, <1>2, <1>3, RunTyped, PTL DEF Spec
=============================================================================
