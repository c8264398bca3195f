---------------------------- MODULE EmptyClaimMC ----------------------------
(* Instances of EmptyClaim for TLC, and mutations of the code it models.    *)
EXTENDS EmptyClaim

CONSTANTS t1, t2, c1, c2

MCTask    == {t1, t2}
MCLegacy  == {t2}
MCClaimer == {c1, c2}
=============================================================================
