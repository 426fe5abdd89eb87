----------------------------- MODULE FallbackCert -----------------------------
(***************************************************************************)
(* fallbackcert.Ensure: the self-signed pair that keeps the listeners of    *)
(* communities without a certificate up.  Ensure runs at every start of the *)
(* orchestrator, which may crash or fail to write between the two files and *)
(* is then started again by its supervisor.                                 *)
(*                                                                          *)
(* A generated certificate and its key carry one number; a file holds such  *)
(* a number, or is Absent.  Renaming a complete temporary file is one step, *)
(* and a temporary file that was never renamed is never read.               *)
(***************************************************************************)
EXTENDS Naturals

CONSTANTS
  MaxPairs,   \* bound on the pairs generated
  Absent,     \* no such file
  Events      \* a subset of EventKinds

EventKinds == {"crash", "writeError", "expire", "delete"}

ASSUME FallbackCertAssumption ==
  /\ MaxPairs \in Nat \ {0}
  /\ Absent \notin 1..MaxPairs
  /\ Events \subseteq EventKinds

Numbers == 1..MaxPairs

VARIABLES
  certFile,  \* fallback-cert.pem
  keyFile,   \* fallback-key.pem
  expired,   \* the certificates that have expired
  made,      \* number of pairs generated
  lost,      \* history: a certificate expired, or a file was deleted
  pc         \* where Ensure is; "serve" once main has its paths

vars == <<certFile, keyFile, expired, made, lost, pc>>

Places == {"down", "ensure", "writeCert", "writeKey", "serve"}

\* A new state directory.
Init ==
  /\ certFile = Absent
  /\ keyFile = Absent
  /\ expired = {}
  /\ made = 0
  /\ lost = FALSE
  /\ pc = "down"

Start ==
  /\ pc = "down"
  /\ pc' = "ensure"
  /\ UNCHANGED <<certFile, keyFile, expired, made, lost>>

\* Mutant of reusable: the key file is not looked at.
reusableCert == certFile # Absent /\ certFile \notin expired

\* Mutant of reusable: the expiry is not looked at.
reusableFiles == certFile # Absent /\ keyFile # Absent

\* Mutant of reusable: nothing is ever good enough.
reusableNever == FALSE

\* Both files are there and parse, and the certificate has not expired.
reusable ==
  /\ certFile # Absent /\ certFile \notin expired
  /\ keyFile # Absent

EnsureReuses ==
  /\ pc = "ensure"
  /\ reusable
  /\ pc' = "serve"
  /\ UNCHANGED <<certFile, keyFile, expired, made, lost>>

\* Mutant of EnsureGenerates: an existing certificate is never overwritten.
EnsureGeneratesOnce ==
  /\ pc = "ensure"
  /\ ~reusable
  /\ certFile = Absent
  /\ made < MaxPairs
  /\ made' = made + 1
  /\ pc' = "writeCert"
  /\ UNCHANGED <<certFile, keyFile, expired, lost>>

\* generate makes a key and a certificate for it, ...
EnsureGenerates ==
  /\ pc = "ensure"
  /\ ~reusable
  /\ made < MaxPairs
  /\ made' = made + 1
  /\ pc' = "writeCert"
  /\ UNCHANGED <<certFile, keyFile, expired, lost>>

\* Mutant of WriteCert: the pair before is written.
WriteCertBefore ==
  /\ pc = "writeCert"
  /\ certFile' = made - 1
  /\ pc' = "writeKey"
  /\ UNCHANGED <<keyFile, expired, made, lost>>

\* ... writes the certificate first ...
WriteCert ==
  /\ pc = "writeCert"
  /\ certFile' = made
  /\ pc' = "writeKey"
  /\ UNCHANGED <<keyFile, expired, made, lost>>

\* ... and then the key.
WriteKey ==
  /\ pc = "writeKey"
  /\ keyFile' = made
  /\ pc' = "serve"
  /\ UNCHANGED <<certFile, expired, made, lost>>

\* The process dies, or is stopped.
Crash ==
  /\ "crash" \in Events
  /\ pc # "down"
  /\ pc' = "down"
  /\ UNCHANGED <<certFile, keyFile, expired, made, lost>>

\* writeFile fails: Ensure returns the error and main exits.
WriteError ==
  /\ "writeError" \in Events
  /\ pc \in {"writeCert", "writeKey"}
  /\ pc' = "down"
  /\ UNCHANGED <<certFile, keyFile, expired, made, lost>>

\* Ten years after a certificate was made; not in the moment Ensure takes.
Expire ==
  /\ "expire" \in Events
  /\ pc \in {"down", "serve"}
  /\ \E n \in 1..made \ expired : expired' = expired \cup {n}
  /\ lost' = TRUE
  /\ UNCHANGED <<certFile, keyFile, made, pc>>

\* Somebody deletes a file while the bridge is down.
Delete ==
  /\ "delete" \in Events
  /\ pc = "down"
  /\ \/ certFile # Absent /\ certFile' = Absent /\ UNCHANGED keyFile
     \/ keyFile # Absent /\ keyFile' = Absent /\ UNCHANGED certFile
  /\ lost' = TRUE
  /\ UNCHANGED <<expired, made, pc>>

Ensure == EnsureReuses \/ EnsureGenerates \/ WriteCert \/ WriteKey

Next == Start \/ Ensure \/ Crash \/ WriteError \/ Expire \/ Delete

Spec == Init /\ [][Next]_vars

\* The supervisor starts the process again, and it is not killed, nor fails
\* to write, for ever.
FairSpec ==
  /\ Spec
  /\ WF_vars(Start)
  /\ SF_vars(EnsureReuses \/ EnsureGenerates)
  /\ SF_vars(WriteCert)
  /\ SF_vars(WriteKey)
-----------------------------------------------------------------------------
(* Properties.                                                              *)

\* The type of every variable.
TypeOK ==
  /\ {certFile, keyFile} \subseteq Numbers \cup {Absent}
  /\ expired \subseteq Numbers
  /\ made \in 0..MaxPairs
  /\ lost \in BOOLEAN
  /\ pc \in Places

\* What the comment of Ensure says it returns, and what Caddy needs to load a
\* document that uses the fallback: a certificate with its own key.
EnsuredPairMatches == pc = "serve" => certFile = keyFile

\* It is so after any sequence of crashes and write errors, until the first
\* certificate expires or the first file is deleted: the order of the two
\* writes leaves no key behind that reusable could take for complete.
MatchesUnlessLost == ~lost => EnsuredPairMatches

\* A pair that is complete and valid survives every later start, whatever is
\* interrupted in between; only a file somebody deletes goes.
GoodPairKept ==
  [][certFile = keyFile /\ certFile # Absent /\ certFile \notin expired
       => certFile' \in {certFile, Absent} /\ keyFile' \in {keyFile, Absent}]_vars

\* No start hands out a certificate that has expired by then.
EnsuredUnexpired == [][pc # "serve" /\ pc' = "serve" => certFile' \notin expired]_vars

\* Started again and again, the bridge gets a pair in the end, from whatever
\* the interrupted starts left behind (or MaxPairs is used up).
Serves == []<>(pc = "serve" \/ made = MaxPairs)
-----------------------------------------------------------------------------
(* The inductive invariants behind them.                                    *)

\* generate runs for want of a reusable pair, with a new number; its
\* certificate is in place when it writes the key.
GenerateInv ==
  /\ expired \subseteq 1..made
  /\ pc \in {"writeCert", "writeKey"} => made # 0 /\ made \notin expired
  /\ pc = "writeCert" => ~reusable
  /\ pc = "writeKey" => certFile = made

\* Until something is lost, a key is only ever there with its own certificate,
\* and then nothing is written again.
MatchInv == ~lost =>
  /\ expired = {}
  /\ keyFile # Absent => certFile = keyFile /\ pc \notin {"writeCert", "writeKey"}
  /\ pc = "serve" => certFile = keyFile
=============================================================================
