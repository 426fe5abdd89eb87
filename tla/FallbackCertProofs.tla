-------------------------- MODULE FallbackCertProofs --------------------------
(***************************************************************************)
(* Proofs about FallbackCert, for any bound on the pairs.                   *)
(***************************************************************************)
EXTENDS FallbackCert, TLAPS

\* The type of every variable, and what holds of a pair being generated, in
\* any interleaving of starts with crashes, write errors, expiry and deletion.
LEMMA GenerateInvariant == Spec => [](TypeOK /\ GenerateInv)
<1> DEFINE IInv == TypeOK /\ GenerateInv
<1>1. Init => IInv
  <2> SUFFICES ASSUME Init PROVE TypeOK /\ GenerateInv
    OBVIOUS
  <2>1. lost \in BOOLEAN
    BY DEF Init
  <2>2. /\ {certFile, keyFile} \subseteq Numbers \cup {Absent}
        /\ expired \subseteq Numbers
        /\ made \in 0..MaxPairs
        /\ pc \in Places
    BY FallbackCertAssumption DEF Init, Numbers, Places
  <2>3. GenerateInv
    BY DEF Init, GenerateInv
  <2> QED
    BY <2>1, <2>2, <2>3 DEF TypeOK
<1>2. IInv /\ [Next]_vars => IInv'
  <2> SUFFICES ASSUME TypeOK, GenerateInv, [Next]_vars
               PROVE  TypeOK' /\ GenerateInv'
    OBVIOUS
  <2> USE FallbackCertAssumption DEF TypeOK, GenerateInv, Numbers, Places, reusable
  <2>1. CASE Start
    BY <2>1 DEF Start
  <2>2. CASE EnsureReuses
    BY <2>2 DEF EnsureReuses
  <2>3. CASE EnsureGenerates
    BY <2>3 DEF EnsureGenerates
  <2>4. CASE WriteCert
    BY <2>4 DEF WriteCert
  <2>5. CASE WriteKey
    BY <2>5 DEF WriteKey
  <2>6. CASE Crash \/ WriteError
    BY <2>6 DEF Crash, WriteError
  <2>7. CASE Expire
    BY <2>7 DEF Expire
  <2>8. CASE Delete
    BY <2>8 DEF Delete
  <2>9. CASE UNCHANGED vars
    BY <2>9 DEF vars
  <2> QED
    BY <2>1, <2>2, <2>3, <2>4, <2>5, <2>6, <2>7, <2>8, <2>9 DEF Next, Ensure
<1> QED
  BY <1>1, <1>2, PTL DEF Spec

\* The variables of Ensure and of the files always have their types.
THEOREM FallbackTypeOK == Spec => []TypeOK
BY GenerateInvariant, PTL

\* Ensure never hands out a certificate that has expired by then.
THEOREM EnsuredIsUnexpired == Spec => EnsuredUnexpired
<1>1. TypeOK /\ GenerateInv /\ [Next]_vars
        => [pc # "serve" /\ pc' = "serve" => certFile' \notin expired]_vars
  <2> SUFFICES ASSUME GenerateInv, Next, pc # "serve", pc' = "serve"
               PROVE  certFile' \notin expired
    BY DEF vars
  <2>1. CASE EnsureReuses
    BY <2>1 DEF EnsureReuses, reusable
  <2>2. CASE WriteKey
    BY <2>2 DEF WriteKey, GenerateInv
  <2> QED
    BY <2>1, <2>2 DEF Next, Ensure, Start, EnsureGenerates, WriteCert, Crash,
                      WriteError, Expire, Delete
<1> QED
  BY <1>1, GenerateInvariant, PTL DEF Spec, EnsuredUnexpired

\* A complete and valid pair is kept by every later start, whatever stops it:
\* generate only writes for want of one.
THEOREM GoodPairIsKept == Spec => GoodPairKept
<1>1. TypeOK /\ GenerateInv /\ [Next]_vars
        => [certFile = keyFile /\ certFile # Absent /\ certFile \notin expired
              => certFile' \in {certFile, Absent} /\ keyFile' \in {keyFile, Absent}]_vars
  <2> SUFFICES ASSUME GenerateInv, Next, certFile = keyFile, certFile # Absent,
                      certFile \notin expired
               PROVE  certFile' \in {certFile, Absent} /\ keyFile' \in {keyFile, Absent}
    BY DEF vars
  <2>1. CASE WriteCert
    BY <2>1 DEF WriteCert, GenerateInv, reusable
  <2>2. CASE WriteKey
    BY <2>2 DEF WriteKey, GenerateInv
  <2>3. CASE Delete
    BY <2>3 DEF Delete
  <2> QED
    BY <2>1, <2>2, <2>3 DEF Next, Ensure, Start, EnsureReuses, EnsureGenerates,
                            Crash, WriteError, Expire
<1> QED
  BY <1>1, GenerateInvariant, PTL DEF Spec, GoodPairKept

\* The certificate handed out has its own key after any sequence of crashes
\* and write errors, until a certificate expires or a file is deleted.
THEOREM PairMatches == Spec => []MatchesUnlessLost
<1>1. Init => MatchInv
  BY DEF Init, MatchInv
<1>2. TypeOK /\ GenerateInv /\ MatchInv /\ [Next]_vars => MatchInv'
  <2> SUFFICES ASSUME GenerateInv, MatchInv, [Next]_vars
               PROVE  MatchInv'
    OBVIOUS
  <2> USE DEF MatchInv
  <2>1. CASE Start
    BY <2>1 DEF Start
  <2>2. CASE EnsureReuses
    BY <2>2 DEF EnsureReuses, reusable
  <2>3. CASE EnsureGenerates
    BY <2>3 DEF EnsureGenerates, reusable
  <2>4. CASE WriteCert
    BY <2>4 DEF WriteCert
  <2>5. CASE WriteKey
    BY <2>5 DEF WriteKey, GenerateInv
  <2>6. CASE Crash \/ WriteError
    BY <2>6 DEF Crash, WriteError
  <2>7. CASE Expire \/ Delete
    BY <2>7 DEF Expire, Delete
  <2>8. CASE UNCHANGED vars
    BY <2>8 DEF vars
  <2> QED
    BY <2>1, <2>2, <2>3, <2>4, <2>5, <2>6, <2>7, <2>8 DEF Next, Ensure
<1>3. MatchInv => MatchesUnlessLost
  BY DEF MatchInv, MatchesUnlessLost, EnsuredPairMatches
<1> QED
  BY <1>1, <1>2, <1>3, GenerateInvariant, PTL DEF Spec
=============================================================================
