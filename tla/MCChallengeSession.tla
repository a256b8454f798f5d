------------------------- MODULE MCChallengeSession -------------------------
(* Instances of ChallengeSession and PwdRotation for TLC.                  *)
EXTENDS ChallengeSession, TLC

CONSTANTS l1, l2

OneLogin == <<l1>>
TwoLogins == <<l1, l2>>

PwdSymmetry == Permutations(Pwd)
=============================================================================
