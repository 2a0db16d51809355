---------------------------- MODULE RobotCustody ----------------------------
(***************************************************************************)
(* What the secrets engine promises of a robot account it creates: someone *)
(* holds it from the moment it exists.  It is pending while no lease is    *)
(* registered for it; from there it is either handed out under a lease or  *)
(* deleted, never both; a leased robot is deleted only after its lease     *)
(* ended; a deleted robot never comes back.                                *)
(***************************************************************************)
CONSTANT Robot

VARIABLE state

States == {"none", "pending", "leased", "ending", "gone"}

TypeOK == state \in [Robot -> States]

Init == state = [r \in Robot |-> "none"]

Move(r, from, to) == state[r] = from /\ state' = [state EXCEPT ![r] = to]

Create(r)  == Move(r, "none", "pending")
HandOut(r) == Move(r, "pending", "leased")
Discard(r) == Move(r, "pending", "gone")
End(r)     == Move(r, "leased", "ending")
Remove(r)  == Move(r, "ending", "gone")

Next == \E r \in Robot :
    Create(r) \/ HandOut(r) \/ Discard(r) \/ End(r) \/ Remove(r)

Spec == Init /\ [][Next]_state

=============================================================================
