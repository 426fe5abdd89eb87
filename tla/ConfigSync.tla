------------------------------ MODULE ConfigSync ------------------------------
(***************************************************************************)
(* What both orchestrators promise of the document that Caddy runs, without *)
(* a word about how: sources (directories, certificates) change; a change   *)
(* makes a regenerate of its process due; a regenerate that succeeds leaves *)
(* a confirmed document in which only those sources may be out of date      *)
(* whose own regenerate is still due.  Caddy runs the confirmed document,   *)
(* or one it was given since and whose answer did not get through.          *)
(*                                                                          *)
(* WildcardPoller and PrefixPoller implement it, see Sync there.            *)
(***************************************************************************)
CONSTANTS
  Procs,      \* the processes that call regenerate
  Sources,    \* those that also change what the document is built from
  Held,       \* what may be held: functions on Sources
  Doc(_),     \* the document for what is held
  NoDoc       \* Caddy before the first document

VARIABLES
  held,       \* the current value of every source
  due,        \* the processes that owe a regenerate
  confirmed,  \* the document Caddy last said it has loaded
  applied,    \* the document Caddy runs
  unanswered, \* the documents Caddy was given since and has not answered
  ok          \* the last regenerate returned nil

vars == <<held, due, confirmed, applied, unanswered, ok>>

\* The documents whose sources outside S are current.
UpToDate(S) == {Doc(h) : h \in {g \in Held : \A s \in Sources \ S : g[s] = held[s]}}

Init ==
  /\ held \in Held
  /\ due \subseteq Procs
  /\ confirmed = NoDoc
  /\ applied = NoDoc
  /\ unanswered = {}
  /\ ok = FALSE

\* A source changes, and its process owes a regenerate.
Change(s) ==
  /\ due' = due \cup {s}
  /\ UNCHANGED <<confirmed, applied, unanswered, ok>>
  /\ \A t \in Sources \ {s} : held'[t] = held[t]
  /\ held' \in Held

\* A process wants a regenerate although it changed nothing.
Begin(p) ==
  /\ due' = due \cup {p}
  /\ UNCHANGED <<held, confirmed, applied, unanswered, ok>>

\* Caddy loads a document and its answer arrives.
Confirm ==
  /\ applied' = confirmed'
  /\ unanswered' = {}

\* Caddy has confirmed a document; the process is not done yet.
Load(p) ==
  /\ p \in due
  /\ Confirm
  /\ confirmed' \in UpToDate(due)
  /\ UNCHANGED <<held, due, ok>>

\* A regenerate returns nil: a document was confirmed now, or it was before.
Succeed(p) ==
  /\ p \in due
  /\ due' = due \ {p}
  /\ ok' = TRUE
  /\ Confirm \/ UNCHANGED <<confirmed, applied, unanswered>>
  /\ confirmed' \in UpToDate(due')
  /\ UNCHANGED held

\* A regenerate returns an error, and Caddy did not take its document.
Fail(p) ==
  /\ p \in due
  /\ due' = due \ {p}
  /\ ok' = FALSE
  /\ UNCHANGED <<held, confirmed, applied, unanswered>>

\* A regenerate returns an error without knowing what became of its document.
Lose(p) ==
  /\ p \in due
  /\ due' = due \ {p}
  /\ ok' = FALSE
  /\ \E d \in UpToDate(due') : unanswered' = unanswered \cup {d}
  /\ UNCHANGED <<held, confirmed, applied>>

\* Caddy loads such a document.
Late ==
  /\ applied' \in unanswered
  /\ UNCHANGED <<held, due, confirmed, unanswered, ok>>

Next ==
  \/ \E s \in Sources : Change(s)
  \/ \E p \in Procs : Begin(p) \/ Load(p) \/ Succeed(p) \/ Fail(p) \/ Lose(p)
  \/ Late

Spec == Init /\ [][Next]_vars

\* After a success and with nothing due, the confirmed document is the one for
\* exactly what is held, and Caddy runs it or one it was given since.
Current ==
  ok /\ due = {} =>
    /\ confirmed = Doc(held)
    /\ applied \in {confirmed} \cup unanswered
=============================================================================
