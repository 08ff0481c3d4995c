---------------------------- MODULE MCDcimLifecycle ----------------------------
(* DcimLifecycle on small instances. *)
EXTENDS DcimLifecycle, TLC

CONSTANTS l1, l2, r1, r2, d1, i1, p1, p2

KindsOfObjects == [x \in Objects |-> CASE x \in {l1, l2} -> "location"
                                       [] x \in {r1, r2} -> "rack"
                                       [] x = d1 -> "device"
                                       [] x = i1 -> "interface"]

Symmetric == Permutations(Requests)

(* One object of each kind, where only the device has an extension once there is
   an interface, or two locations and a rack without extensions. *)
Used == rows \cup {req[p].target : p \in Requests}
Extending == extended \cup {req[p].target : p \in {q \in Requests : req[q].extension # "keep"}}
Scene == /\ i1 \in Used => Extending \subseteq {d1}
         /\ l2 \in Used => Used \cap {d1, i1} = {} /\ (r1 \in Used => Extending = {})
=============================================================================
