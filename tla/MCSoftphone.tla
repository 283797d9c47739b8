---------------------------- MODULE MCSoftphone ----------------------------
(* Softphone for TLC: two calls, each with its own native uuid, and one    *)
(* more uuid that only the system call screen has (a push for a call whose *)
(* SIP id has not been seen yet).                                          *)
EXTENDS Softphone, TLC

CONSTANTS i1, i2, u1, u2, u3

MCIds == {i1, i2}

MCUuids == {u1, u2, u3}

MCNativeUuid == [i \in MCIds |-> IF i = i1 THEN u1 ELSE u2]

(* Exchanging the calls together with their uuids changes nothing. *)
MCSymmetry ==
  {f \in Permutations({i1, i2, u1, u2}) :
     \A i \in MCIds : f[i] \in MCIds /\ f[MCNativeUuid[i]] = MCNativeUuid[f[i]]}

=============================================================================
