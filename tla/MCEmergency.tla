---------------------------- MODULE MCEmergency ----------------------------
(* TLC instances of EmergencyChange.                                       *)
EXTENDS EmergencyChange, TLC

CONSTANTS image, replicas, again

\* again changes the field image changes.
MCTarget == image :> "image" @@ replicas :> "replicas" @@ again :> "image"

\* Two changes of the same field are interchangeable.
Interchangeable == Permutations({image, again})
=============================================================================
