-------------------------- MODULE ConfigSyncProofs --------------------------
(***************************************************************************)
(* What ConfigSync is good for, whatever the sources, the processes and the *)
(* document: the promise that both pollers implement keeps Caddy current.   *)
(***************************************************************************)
EXTENDS ConfigSync, TLAPS

\* After a success only those sources are out of date that are still due, and
\* Caddy runs nothing but what was confirmed or given to it since.
SyncedUpToDue ==
  /\ held \in Held
  /\ ok => confirmed \in UpToDate(due)
  /\ applied \in {confirmed} \cup unanswered

\* After a success and with nothing due, the confirmed document is the one for
\* what is held, and Caddy runs it or one it was given since, if what may be
\* held are functions on the sources.
THEOREM SyncKeepsCurrent ==
  ASSUME NEW Values, Held \subseteq [Sources -> Values]
  PROVE  Spec => []Current
<1>1. Init => SyncedUpToDue
  BY DEF Init, SyncedUpToDue
<1>2. SyncedUpToDue /\ [Next]_vars => SyncedUpToDue'
  <2> SUFFICES ASSUME SyncedUpToDue, [Next]_vars PROVE SyncedUpToDue'
    OBVIOUS
  <2>1. ASSUME NEW s \in Sources, Change(s) PROVE SyncedUpToDue'
    <3>1. held' \in Held
      BY <2>1 DEF Change
    <3>2. ASSUME ok PROVE confirmed' \in UpToDate(due)'
      <4>1. PICK h \in Held : confirmed = Doc(h) /\ \A t \in Sources \ due : h[t] = held[t]
        BY <3>2 DEF SyncedUpToDue, UpToDate
      <4>2. confirmed' = Doc(h) /\ \A t \in Sources \ due' : h[t] = held'[t]
        BY <2>1, <4>1 DEF Change
      <4>3. QED
        BY <4>2 DEF UpToDate
    <3>3. QED
      BY <2>1, <3>1, <3>2 DEF SyncedUpToDue, Change
  <2>2. ASSUME NEW p \in Procs, Begin(p) PROVE SyncedUpToDue'
    <3>1. ok => confirmed \in UpToDate(due)'
      BY <2>2 DEF SyncedUpToDue, UpToDate, Begin
    <3>2. QED
      BY <2>2, <3>1 DEF SyncedUpToDue, Begin
  <2>3. ASSUME NEW p \in Procs, Load(p) \/ Succeed(p) PROVE SyncedUpToDue'
    BY <2>3 DEF SyncedUpToDue, UpToDate, Load, Succeed, Confirm
  <2>4. ASSUME NEW p \in Procs, Fail(p) \/ Lose(p) PROVE SyncedUpToDue'
    BY <2>4 DEF SyncedUpToDue, Fail, Lose
  <2>5. CASE Late
    BY <2>5 DEF SyncedUpToDue, UpToDate, Late
  <2>6. CASE UNCHANGED vars
    BY <2>6 DEF SyncedUpToDue, UpToDate, vars
  <2>7. QED
    BY <2>1, <2>2, <2>3, <2>4, <2>5, <2>6 DEF Next
<1>3. SyncedUpToDue => Current
  <2> SUFFICES ASSUME SyncedUpToDue, ok, due = {} PROVE confirmed = Doc(held)
    BY DEF Current, SyncedUpToDue
  <2>1. PICK h \in Held : confirmed = Doc(h) /\ \A s \in Sources : h[s] = held[s]
    BY DEF SyncedUpToDue, UpToDate
  <2>2. h = held
    BY <2>1 DEF SyncedUpToDue
  <2>3. QED
    BY <2>1, <2>2
<1>4. QED
  BY <1>1, <1>2, <1>3, PTL DEF Spec
=============================================================================
