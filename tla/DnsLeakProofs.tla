----------------------------- MODULE DnsLeakProofs -----------------------------
(***************************************************************************)
(* Theorems about DnsLeak for any number of communities: what the status    *)
(* page and the log say of a leak agrees with what the probes found, in     *)
(* whichever order their goroutines proceed.                                *)
(***************************************************************************)
EXTENDS DnsLeak, TLAPS

Past(t) == pc[t] \notin {"probe", "record"}

\* Where the log, the state behind it and the last answer may differ: the
\* state lags behind an answer until dispatch, the log behind the state until
\* OnTransition.
LogInv ==
  \A t \in Targets :
    /\ pc[t] # "transition" => (t \in state => t \in latest)
    /\ pc[t] # "log" => (t \in logged <=> t \in state)
    /\ pc[t] = "transition" =>
         IF Err(answer[t]) THEN t \in state => t \in latest
                           ELSE Violation(answer[t]) => t \in latest
    /\ pc[t] = "log" => (t \in state <=> Violation(answer[t]))
    /\ pc[t] \in {"idle", "log"} /\ answer[t] = "found" => t \in state

\* Without temporary errors the state forgets nothing that was found.
SteadyInv ==
  \A t \in Targets :
    /\ answer[t] # "temporary"
    /\ IF pc[t] = "transition" /\ ~Err(answer[t])
         THEN t \in latest => Violation(answer[t])
         ELSE t \in latest => t \in state

\* A leak recorded in this pass holds the slot, or the other name's does, and
\* the name in the slot has been recorded in this pass, too.
ShownInv ==
  \A t \in Targets :
    Past(t) /\ answer[t] = "found" =>
      /\ leak[t[1]] \in Labels
      /\ Past(<<t[1], leak[t[1]]>>)
      /\ answer[<<t[1], leak[t[1]]>>] = "found"

\* A target is a community and a label, and its community is the one the
\* result is recorded for.
LEMMA TargetParts ==
  ASSUME NEW t \in Targets
  PROVE  /\ t[1] \in Communities
         /\ t[2] \in Labels
         /\ t = <<t[1], t[2]>>
         /\ matchCommunity(t) = t[1]
BY DEF Targets, matchCommunity

\* NoLeak is no label.
LEMMA NoLeakIsNoLabel == NoLeak \notin Labels
BY DnsLeakAssumption DEF Labels

\* Every variable of the checker keeps its type.
LEMMA TypeStep == TypeOK /\ [Next]_vars => TypeOK'
<1> SUFFICES ASSUME TypeOK, [Next]_vars
             PROVE  TypeOK'
  OBVIOUS
<1> USE DEF TypeOK, Places, Answers
<1>1. CASE runOnce
  BY <1>1 DEF runOnce
<1>2. ASSUME NEW t \in Targets, Change(t)
      PROVE  TypeOK'
  BY <1>2 DEF Change
<1>3. ASSUME NEW t \in Targets, probe(t)
      PROVE  TypeOK'
  BY <1>3 DEF probe
<1>4. ASSUME NEW t \in Targets, RecordDNSResult(t)
      PROVE  TypeOK'
  <2>1. leak' \in [Communities -> Labels \cup {NoLeak}]
    BY <1>4, TargetParts DEF RecordDNSResult, Healthy
  <2>2. latest' \subseteq Targets
    BY <1>4 DEF RecordDNSResult, Healthy, Conclude
  <2> QED
    BY <1>4, <2>1, <2>2 DEF RecordDNSResult, Healthy
<1>5. ASSUME NEW t \in Targets, dispatch(t)
      PROVE  TypeOK'
  BY <1>5 DEF dispatch
<1>6. ASSUME NEW t \in Targets, OnTransition(t)
      PROVE  TypeOK'
  BY <1>6 DEF OnTransition
<1>7. CASE UNCHANGED vars
  BY <1>7 DEF vars
<1> QED
  BY <1>1, <1>2, <1>3, <1>4, <1>5, <1>6, <1>7 DEF Next, Probing

\* THEOREM: the variables of the checker and of Health's leak slots always
\* have their types, for any number of communities.
THEOREM DnsLeakTypeOK == Spec => []TypeOK
<1>1. Init => TypeOK
  BY DEF Init, TypeOK, Places, Answers
<1> QED
  BY <1>1, TypeStep, PTL DEF Spec

\* A record only clears the slot of the name it is about.
LEMMA CurrentStep == TypeOK /\ LeakIsCurrent /\ [Next]_vars => LeakIsCurrent'
<1> SUFFICES ASSUME TypeOK, LeakIsCurrent, [Next]_vars
             PROVE  LeakIsCurrent'
  OBVIOUS
<1>1. ASSUME NEW t \in Targets, RecordDNSResult(t)
      PROVE  LeakIsCurrent'
  <2> SUFFICES ASSUME NEW c \in Communities, leak'[c] # NoLeak
               PROVE  <<c, leak'[c]>> \in latest'
    BY DEF LeakIsCurrent
  <2>1. CASE Violation(answer[t])
    <3>1. leak' = [leak EXCEPT ![t[1]] = t[2]]
      BY <1>1, <2>1, TargetParts DEF RecordDNSResult, Healthy
    <3>2. latest' = latest \cup {t}
      BY <1>1, <2>1 DEF RecordDNSResult, Conclude, Violation, Healthy
    <3>3. CASE c = t[1]
      BY <3>1, <3>2, <3>3, TargetParts DEF TypeOK
    <3>4. CASE c # t[1]
      BY <3>1, <3>2, <3>4 DEF TypeOK, LeakIsCurrent
    <3> QED
      BY <3>3, <3>4
  <2>2. CASE ~Violation(answer[t]) /\ Err(answer[t])
    <3>1. leak' = leak /\ latest' = latest
      BY <1>1, <2>2 DEF RecordDNSResult, Healthy, Conclude, Violation, Err
    <3> QED
      BY <3>1 DEF LeakIsCurrent
  <2>3. CASE ~Violation(answer[t]) /\ ~Err(answer[t])
    <3>1. leak[c] = leak'[c] /\ <<c, leak[c]>> # t
      BY <1>1, <2>3, TargetParts DEF RecordDNSResult, Healthy, TypeOK
    <3>2. latest' = latest \ {t} \/ latest' = latest
      BY <1>1, <2>3 DEF RecordDNSResult, Healthy, Conclude, Violation
    <3> QED
      BY <3>1, <3>2 DEF LeakIsCurrent
  <2> QED
    BY <2>1, <2>2, <2>3
<1>2. CASE UNCHANGED <<leak, latest>>
  BY <1>2 DEF LeakIsCurrent
<1> QED
  BY <1>1, <1>2
     DEF Next, Probing, vars, runOnce, Change, probe, dispatch, OnTransition

\* THEOREM (LeakIsCurrent): a leak on the status page was found by the last
\* lookup of its name that was no error.
THEOREM ShownLeakIsCurrent == Spec => []LeakIsCurrent
<1>1. Init => LeakIsCurrent
  BY DEF Init, LeakIsCurrent
<1> QED
  BY <1>1, CurrentStep, DnsLeakTypeOK, PTL DEF Spec

\* Each step of a probe's goroutine keeps LogInv for its own name, and leaves
\* the names of the others alone.
LEMMA LogStep == TypeOK /\ LogInv /\ [Next]_vars => LogInv'
<1> SUFFICES ASSUME TypeOK, LogInv, [Next]_vars
             PROVE  LogInv'
  OBVIOUS
<1> USE DEF TypeOK, LogInv
<1>1. CASE runOnce
  BY <1>1 DEF runOnce, Idle
<1>2. ASSUME NEW t \in Targets, Change(t)
      PROVE  LogInv'
  BY <1>2 DEF Change
<1>3. ASSUME NEW t \in Targets, probe(t)
      PROVE  LogInv'
  BY <1>3 DEF probe
<1>4. ASSUME NEW t \in Targets, RecordDNSResult(t)
      PROVE  LogInv'
  BY <1>4 DEF RecordDNSResult, Healthy, Conclude, Violation, Err
<1>5. ASSUME NEW t \in Targets, dispatch(t)
      PROVE  LogInv'
  <2>1. CASE Err(answer[t])
    BY <1>5, <2>1 DEF dispatch, Err
  <2>2. CASE ~Err(answer[t]) /\ Violation(answer[t])
    BY <1>5, <2>2 DEF dispatch, Violation
  <2>3. CASE ~Err(answer[t]) /\ ~Violation(answer[t])
    BY <1>5, <2>3 DEF dispatch, Violation
  <2> QED
    BY <2>1, <2>2, <2>3
<1>6. ASSUME NEW t \in Targets, OnTransition(t)
      PROVE  LogInv'
  BY <1>6 DEF OnTransition
<1>7. CASE UNCHANGED vars
  BY <1>7 DEF vars
<1> QED
  BY <1>1, <1>2, <1>3, <1>4, <1>5, <1>6, <1>7 DEF Next, Probing

\* THEOREM (LoggedIsCurrent): between two passes the transition log ends with
\* the leak of every name that the pass found, and with no leak of a name that
\* was seen to be gone.
THEOREM LogIsCurrent == Spec => []LoggedIsCurrent
<1>1. Init => LogInv
  BY DEF Init, LogInv
<1>2. TypeOK /\ LogInv => LoggedIsCurrent
  BY DEF TypeOK, LogInv, LoggedIsCurrent, Idle
<1> QED
  BY <1>1, <1>2, LogStep, DnsLeakTypeOK, PTL DEF Spec

\* What dispatch says of errors, that they flip no state: between two passes the
\* log agrees with the last answer for every name.
LogAgrees == Idle => logged = latest

\* THEOREM: it does as long as no lookup ends in a temporary error, whatever
\* other errors there are.  With one it does not: see LoggedIsCurrent.
THEOREM LogKeepsUp == ASSUME "temporary" \notin Events PROVE Spec => []LogAgrees
<1>1. Init => LogInv /\ SteadyInv
  BY DEF Init, LogInv, SteadyInv
<1>2. TypeOK /\ LogInv /\ SteadyInv /\ [Next]_vars => SteadyInv'
  <2> SUFFICES ASSUME TypeOK, LogInv, SteadyInv, [Next]_vars PROVE SteadyInv'
    OBVIOUS
  <2> USE DEF TypeOK, SteadyInv
  <2>1. CASE runOnce
    BY <2>1 DEF runOnce, Idle
  <2>2. ASSUME NEW t \in Targets, Change(t) PROVE SteadyInv'
    BY <2>2 DEF Change
  <2>3. ASSUME NEW t \in Targets, probe(t) PROVE SteadyInv'
    BY <2>3 DEF probe
  <2>4. ASSUME NEW t \in Targets, RecordDNSResult(t) PROVE SteadyInv'
    BY <2>4 DEF RecordDNSResult, Healthy, Conclude, Violation, Err, Answers
  <2>5. ASSUME NEW t \in Targets, dispatch(t) PROVE SteadyInv'
    BY <2>5 DEF dispatch
  <2>6. ASSUME NEW t \in Targets, OnTransition(t) PROVE SteadyInv'
    BY <2>6 DEF OnTransition
  <2>7. CASE UNCHANGED vars
    BY <2>7 DEF vars
  <2> QED
    BY <2>1, <2>2, <2>3, <2>4, <2>5, <2>6, <2>7 DEF Next, Probing
<1>3. TypeOK /\ LogInv /\ SteadyInv => LogAgrees
  <2> SUFFICES ASSUME TypeOK, LogInv, SteadyInv, Idle PROVE logged = latest
    BY DEF LogAgrees
  <2>1. \A t \in Targets : t \in logged <=> t \in latest
    BY DEF LogInv, SteadyInv, Idle
  <2> QED
    BY <2>1 DEF TypeOK
<1> QED
  BY <1>1, <1>2, <1>3, LogStep, DnsLeakTypeOK, PTL DEF Spec

\* A result that clears the slot belongs to the name in the slot, so that no
\* name recorded in this pass relied on it.
LEMMA ShownStep == TypeOK /\ ShownInv /\ [Next]_vars => ShownInv'
<1> SUFFICES ASSUME TypeOK, ShownInv, [Next]_vars
             PROVE  ShownInv'
  OBVIOUS
<1> USE DEF TypeOK, ShownInv, Past
<1>1. CASE runOnce
  BY <1>1 DEF runOnce
<1>2. ASSUME NEW t \in Targets, Change(t)
      PROVE  ShownInv'
  BY <1>2 DEF Change
<1>3. ASSUME NEW t \in Targets, probe(t)
      PROVE  ShownInv'
  BY <1>3, TargetParts DEF probe
<1>4. ASSUME NEW t \in Targets, RecordDNSResult(t)
      PROVE  ShownInv'
  <2> DEFINE Done(s) == pc'[s] \notin {"probe", "record"} /\ answer'[s] = "found"
  <2>1. /\ answer' = answer
        /\ pc' = [pc EXCEPT ![t] = "transition"]
        /\ pc[t] = "record"
    BY <1>4 DEF RecordDNSResult, Healthy
  <2>2. ASSUME NEW s \in Targets, Done(s)
        PROVE  leak'[s[1]] \in Labels /\ Done(<<s[1], leak'[s[1]]>>)
    <3>1. CASE Violation(answer[t]) /\ s[1] = t[1]
      <4>1. leak' = [leak EXCEPT ![t[1]] = t[2]]
        BY <1>4, <3>1, TargetParts DEF RecordDNSResult, Healthy
      <4>2. leak'[s[1]] = t[2]
        BY <3>1, <4>1, TargetParts
      <4>3. Done(t)
        BY <2>1, <3>1 DEF Violation
      <4> QED
        BY <3>1, <4>2, <4>3, TargetParts
    <3>2. CASE ~(Violation(answer[t]) /\ s[1] = t[1])
      <4>1. s # t
        BY <2>1, <2>2, <3>2 DEF Violation
      <4>2. /\ leak[s[1]] \in Labels
            /\ pc[<<s[1], leak[s[1]]>>] \notin {"probe", "record"}
            /\ answer[<<s[1], leak[s[1]]>>] = "found"
        BY <2>1, <2>2, <4>1
      <4>3. <<s[1], leak[s[1]]>> \in Targets /\ <<s[1], leak[s[1]]>> # t
        BY <2>1, <4>2, TargetParts DEF Targets
      <4>4. leak'[s[1]] = leak[s[1]]
        <5>1. CASE s[1] = t[1]
          <6>1. leak[t[1]] # t[2] /\ ~Violation(answer[t])
            BY <3>2, <4>3, <5>1, TargetParts
          <6> QED
            BY <1>4, <5>1, <6>1, TargetParts DEF RecordDNSResult, Healthy
        <5>2. CASE s[1] # t[1]
          BY <1>4, <5>2, TargetParts DEF RecordDNSResult, Healthy
        <5> QED
          BY <5>1, <5>2
      <4> QED
        BY <2>1, <4>2, <4>3, <4>4
    <3> QED
      BY <3>1, <3>2
  <2> QED
    BY <2>2
<1>5. ASSUME NEW t \in Targets, dispatch(t)
      PROVE  ShownInv'
  <2>1. /\ leak' = leak /\ answer' = answer
        /\ \E place \in {"idle", "log"} : pc' = [pc EXCEPT ![t] = place]
    BY <1>5 DEF dispatch
  <2>2. pc[t] = "transition"
    BY <1>5 DEF dispatch
  <2> QED
    BY <2>1, <2>2, TargetParts
<1>6. ASSUME NEW t \in Targets, OnTransition(t)
      PROVE  ShownInv'
  BY <1>6, TargetParts DEF OnTransition
<1>7. CASE UNCHANGED vars
  BY <1>7 DEF vars
<1> QED
  BY <1>1, <1>2, <1>3, <1>4, <1>5, <1>6, <1>7 DEF Next, Probing

\* THEOREM (LeakShown): when a pass is over, a community with a name that the
\* pass found in public DNS has a leak on the status page.
THEOREM FoundLeakIsShown == Spec => []LeakShown
<1>1. Init => ShownInv
  BY DEF Init, ShownInv
<1>2. ShownInv => LeakShown
  BY NoLeakIsNoLabel DEF ShownInv, LeakShown, Idle, Past
<1> QED
  BY <1>1, <1>2, ShownStep, DnsLeakTypeOK, PTL DEF Spec
=============================================================================
