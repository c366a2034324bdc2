------------------------- MODULE MCRevocationStore -------------------------
(* Instances of RevocationStore for TLC.  j1 carries an expires_at that the *)
(* clock reaches, j2 none.                                                  *)
EXTENDS RevocationStore

CONSTANTS j1, j2

NoExpiry == -1
Expiries == [j \in Jtis |-> IF j = j1 THEN 1 ELSE Never]
=============================================================================
