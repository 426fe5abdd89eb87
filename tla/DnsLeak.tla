-------------------------------- MODULE DnsLeak --------------------------------
(***************************************************************************)
(* dnscheck.Checker and health.Store.RecordDNSResult: every pass probes the *)
(* domain of each community and a canary name below it in goroutines of     *)
(* their own, and each result goes to the community's one DNSLeak slot and  *)
(* to the state behind the transition log.                                  *)
(*                                                                          *)
(* public (what the public resolver answers) is outside src/.  Lookup and   *)
(* the two halves of dispatch are one step each; a ticker may fire whenever *)
(* the previous pass is over.                                               *)
(***************************************************************************)
EXTENDS Naturals

CONSTANTS
  Communities,  \* their domains are distinct
  NoLeak,       \* a nil DNSLeak
  Events        \* a subset of EventKinds

EventKinds == {"change", "temporary", "failure"}

ASSUME DnsLeakAssumption ==
  /\ NoLeak \notin {"apex", "canary"}
  /\ Events \subseteq EventKinds

Labels == {"apex", "canary"}
Targets == Communities \X Labels

\* matchCommunityLocked: the domain itself, or the nearest parent registered.
matchCommunity(t) == t[1]

VARIABLES
  public,   \* targets that the public resolver resolves
  leak,     \* Health: DNSLeak of each community, the label it is for
  state,    \* Checker.state: targets last seen violating
  pc,       \* where the goroutine of each target is
  answer,   \* what its last lookup came back with
  logged,   \* history: targets whose last log line says they leak
  latest    \* history: targets that the last answer of the resolver found

vars == <<public, leak, state, pc, answer, logged, latest>>

Places == {"idle", "probe", "record", "transition", "log"}

\* What LookupHost may come back with: addresses, no such name, a temporary
\* error (a timeout, SERVFAIL) or another one.
Answers == {"found", "notFound", "temporary", "failure"}

\* The Result made of it: a temporary error sets neither Err nor Violation.
Violation(a) == a = "found"
Err(a) == a = "failure"
Healthy(a) == ~Violation(a) /\ ~Err(a)

Init ==
  /\ public \in SUBSET Targets
  /\ leak = [c \in Communities |-> NoLeak]
  /\ state = {}
  /\ pc = [t \in Targets |-> "idle"]
  /\ answer = [t \in Targets |-> "notFound"]
  /\ logged = {}
  /\ latest = {}

\* A name appears in public DNS, or disappears.
Change(t) ==
  /\ "change" \in Events
  /\ public' = IF t \in public THEN public \ {t} ELSE public \cup {t}
  /\ UNCHANGED <<leak, state, pc, answer, logged, latest>>

Idle == \A t \in Targets : pc[t] = "idle"

\* runOnce, which returns when every goroutine is done.
runOnce ==
  /\ Idle
  /\ pc' = [t \in Targets |-> "probe"]
  /\ UNCHANGED <<public, leak, state, answer, logged, latest>>

\* LookupHost, bounded by a timeout.
probe(t) ==
  /\ pc[t] = "probe"
  /\ \E a \in Answers :
       /\ a \in {"temporary", "failure"} => a \in Events
       /\ a = "found" => t \in public
       /\ a = "notFound" => t \notin public
       /\ answer' = [answer EXCEPT ![t] = a]
  /\ pc' = [pc EXCEPT ![t] = "record"]
  /\ UNCHANGED <<public, leak, state, logged, latest>>

\* The history that the properties compare with: no error is an answer.
Conclude(t) ==
  latest' = CASE answer[t] = "found" -> latest \cup {t}
              [] answer[t] = "notFound" -> latest \ {t}
              [] OTHER -> latest

\* Mutant of RecordDNSResult: any healthy result clears the slot.
RecordClearsAny(t) ==
  /\ pc[t] = "record"
  /\ LET c == matchCommunity(t)
     IN  leak' = CASE Violation(answer[t]) -> [leak EXCEPT ![c] = t[2]]
                   [] Healthy(answer[t]) -> [leak EXCEPT ![c] = NoLeak]
                   [] OTHER -> leak
  /\ Conclude(t)
  /\ pc' = [pc EXCEPT ![t] = "transition"]
  /\ UNCHANGED <<public, state, answer, logged>>

\* Mutant of RecordDNSResult: a leak stays until the apex is healthy.
RecordClearsApex(t) ==
  /\ pc[t] = "record"
  /\ LET c == matchCommunity(t)
     IN  leak' = CASE Violation(answer[t]) -> [leak EXCEPT ![c] = t[2]]
                   [] Healthy(answer[t]) /\ t[2] = "apex" -> [leak EXCEPT ![c] = NoLeak]
                   [] OTHER -> leak
  /\ Conclude(t)
  /\ pc' = [pc EXCEPT ![t] = "transition"]
  /\ UNCHANGED <<public, state, answer, logged>>

\* Mutant of RecordDNSResult: results of the canary find no community.
RecordApexOnly(t) ==
  /\ pc[t] = "record"
  /\ LET c == matchCommunity(t)
     IN  IF t[2] = "canary" THEN UNCHANGED leak
         ELSE leak' = CASE Violation(answer[t]) -> [leak EXCEPT ![c] = t[2]]
                        [] Healthy(answer[t]) /\ leak[c] = t[2] -> [leak EXCEPT ![c] = NoLeak]
                        [] OTHER -> leak
  /\ Conclude(t)
  /\ pc' = [pc EXCEPT ![t] = "transition"]
  /\ UNCHANGED <<public, state, answer, logged>>

\* Mutant of RecordDNSResult: the slot gets what was found, not where.
RecordAnswer(t) ==
  /\ pc[t] = "record"
  /\ LET c == matchCommunity(t)
     IN  leak' = CASE Violation(answer[t]) -> [leak EXCEPT ![c] = answer[t]]
                   [] Healthy(answer[t]) /\ leak[c] = t[2] -> [leak EXCEPT ![c] = NoLeak]
                   [] OTHER -> leak
  /\ Conclude(t)
  /\ pc' = [pc EXCEPT ![t] = "transition"]
  /\ UNCHANGED <<public, state, answer, logged>>

\* OnResult: a violation takes the slot, a healthy result clears its own.
RecordDNSResult(t) ==
  /\ pc[t] = "record"
  /\ LET c == matchCommunity(t)
     IN  leak' = CASE Violation(answer[t]) -> [leak EXCEPT ![c] = t[2]]
                   [] Healthy(answer[t]) /\ leak[c] = t[2] -> [leak EXCEPT ![c] = NoLeak]
                   [] OTHER -> leak
  /\ Conclude(t)
  /\ pc' = [pc EXCEPT ![t] = "transition"]
  /\ UNCHANGED <<public, state, answer, logged>>

\* Mutant of dispatch: only positive answers count.
dispatchPositive(t) ==
  /\ pc[t] = "transition"
  /\ IF Violation(answer[t])
       THEN /\ state' = state \cup {t}
            /\ pc' = [pc EXCEPT ![t] = IF t \in state THEN "idle" ELSE "log"]
       ELSE /\ pc' = [pc EXCEPT ![t] = "idle"]
            /\ UNCHANGED state
  /\ UNCHANGED <<public, leak, answer, logged, latest>>

\* The rest of dispatch: errors flip no state, an edge is logged.
dispatch(t) ==
  /\ pc[t] = "transition"
  /\ LET violating == Violation(answer[t])
     IN  IF Err(answer[t])
           THEN /\ pc' = [pc EXCEPT ![t] = "idle"]
                /\ UNCHANGED state
           ELSE /\ state' = IF violating THEN state \cup {t} ELSE state \ {t}
                /\ pc' = [pc EXCEPT ![t] = IF violating = (t \in state) THEN "idle" ELSE "log"]
  /\ UNCHANGED <<public, leak, answer, logged, latest>>

OnTransition(t) ==
  /\ pc[t] = "log"
  /\ logged' = IF Violation(answer[t]) THEN logged \cup {t} ELSE logged \ {t}
  /\ pc' = [pc EXCEPT ![t] = "idle"]
  /\ UNCHANGED <<public, leak, state, answer, latest>>

Probing(t) == probe(t) \/ RecordDNSResult(t) \/ dispatch(t) \/ OnTransition(t)

Next == runOnce \/ \E t \in Targets : Change(t) \/ Probing(t)

Spec == Init /\ [][Next]_vars

\* The ticker fires, probes end (they have a timeout of 5 s), and the public
\* resolver does not stay silent for ever.
FairSpec ==
  /\ Spec
  /\ WF_vars(runOnce)
  /\ \A t \in Targets : /\ WF_vars(Probing(t))
                        /\ SF_vars(probe(t) /\ answer'[t] \in {"found", "notFound"})
-----------------------------------------------------------------------------
(* Properties.                                                              *)

\* The type of every variable.
TypeOK ==
  /\ public \subseteq Targets
  /\ leak \in [Communities -> Labels \cup {NoLeak}]
  /\ state \subseteq Targets
  /\ pc \in [Targets -> Places]
  /\ answer \in [Targets -> Answers]
  /\ {logged, latest} \subseteq SUBSET Targets

\* A leak shown on the status page is one that the last answer for its name
\* found: it is never a leftover of a leak that was seen to be gone.
LeakIsCurrent ==
  \A c \in Communities : leak[c] # NoLeak => <<c, leak[c]>> \in latest

\* Between two passes the last log line of a name says that it leaks only if the
\* last answer for it found it, and does say so if the pass just over did.  The
\* log is not asked for the leak of a name that this pass had no answer for:
\* dispatch says that errors flip no state, but probe returns a temporary error
\* as a Result without Err, which ends the leak in state and in the log.
LoggedIsCurrent ==
  Idle => /\ logged \subseteq latest
          /\ \A t \in Targets : answer[t] = "found" => t \in logged

\* When a pass is over, a community one of whose two names it found has a leak
\* on the status page: the other probe, healthy or failed, does not clear it.
LeakShown ==
  Idle => \A t \in Targets : answer[t] = "found" => leak[t[1]] # NoLeak

\* A leak that stays shows up on the status page again and again, whatever
\* the other probe of the community finds and whichever lookups fail.
LeakSurfaces ==
  \A t \in Targets : <>[](t \in public) => []<>(leak[t[1]] # NoLeak)
=============================================================================
