--------------------------- MODULE AbstractInstance ---------------------------
(***************************************************************************)
(* What an AWSInstance object promises about the instance it manages      *)
(* (spec.md section 3, Instance): the provider launches one instance and  *)
(* the object takes its id; the provider terminates only an instance the  *)
(* object holds; the object lets the id go once the instance is           *)
(* terminated, or by abandon(), which hands the instance over for good,   *)
(* and it never takes an id back.                                         *)
(***************************************************************************)
VARIABLES
    aCloud,     \* the provider's instance: "none", "running", "terminated"
    aHeld,      \* the object's id: "unset" before launch, "id", "none" once cleared
    aAbandoned  \* abandon() has handed the instance over

avars == <<aCloud, aHeld, aAbandoned>>

Init == aCloud = "none" /\ aHeld = "unset" /\ aAbandoned = FALSE

(* The create-instance call succeeds and the object records the id.       *)
Launch ==
    /\ aCloud = "none"
    /\ aCloud' = "running"
    /\ aHeld' = "id"
    /\ UNCHANGED aAbandoned

(* A termination request for the held id is accepted.                     *)
Terminate ==
    /\ aHeld = "id"
    /\ aCloud = "running"
    /\ aCloud' = "terminated"
    /\ UNCHANGED <<aHeld, aAbandoned>>

(* The object clears the id of a terminated instance.                     *)
Release ==
    /\ aHeld = "id"
    /\ aCloud = "terminated"
    /\ aHeld' = "none"
    /\ UNCHANGED <<aCloud, aAbandoned>>

(* abandon(): the object gives up its id, held or already cleared,        *)
(* without terminating the instance, and is no longer responsible for it. *)
Abandon ==
    /\ aHeld # "unset"
    /\ aHeld' = "none"
    /\ aAbandoned' = TRUE
    /\ UNCHANGED aCloud

Next == Launch \/ Terminate \/ Release \/ Abandon

Spec == Init /\ [][Next]_avars

=============================================================================
