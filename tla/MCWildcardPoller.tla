-------------------------- MODULE MCWildcardPoller --------------------------
(***************************************************************************)
(* Instances of WildcardPoller for TLC.  The cfg files pick the number of   *)
(* communities, the events and the sets below.                              *)
(***************************************************************************)
EXTENDS WildcardPoller, TLC

CONSTANTS dirA, dirB, wiki, photos, certOld, certNew

\* Two directories, one of them without services.
MCDirs == {dirA, dirB}
MCOneDir == {dirA}
MCServicesOf == (dirA :> {wiki, photos}) @@ (dirB :> {})

\* One certificate that expires when the clock reaches 1, or two of which the
\* older expires after the newer became valid.
MCOneCert == {certNew}
MCNotBeforeOne == (certNew :> 0)
MCNotAfterOne == (certNew :> 0)
MCTwoCerts == {certOld, certNew}
MCNotBefore == (certOld :> 0) @@ (certNew :> 1)
MCNotAfter == (certOld :> 1) @@ (certNew :> 2)

\* Whose server sends ETags, who publishes, whose certificate files change.
MCAll == Communities
MCFirst == {1}
MCSecond == {2}
MCNone == {}

\* Two certificates of which the older expires when the clock reaches 1 and the
\* newer is valid all the time.
MCNotBeforeSoon == (certOld :> 0) @@ (certNew :> 0)
MCNotAfterSoon == (certOld :> 0) @@ (certNew :> 1)

\* At the start the first directory is served; the first community has the
\* newer certificate, the others the older.
InitFirst ==
  /\ Init
  /\ server = [c \in Communities |-> dirA]
  /\ disk = [c \in Communities |-> IF c = 1 THEN certNew ELSE certOld]

\* A bound: the files change from the older certificate over a half-written
\* pair to the newer one and not back.
Order == <<certOld, Unusable, certNew>>
Forward(c) == \E i, j \in 1..3 : i <= j /\ Order[i] = disk[c] /\ Order[j] = disk'[c]
RotateForward == \A c \in Communities : Forward(c)

SpecFirst == InitFirst /\ [][Next]_vars
=============================================================================
