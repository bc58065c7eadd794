---------------------------- MODULE AppLifecycle ----------------------------
(***************************************************************************)
(* What the platform promises of an application: a life from creation to   *)
(* deletion, in which it is deployed, started and stopped, and deployed    *)
(* again when its code has changed.                                        *)
(***************************************************************************)
CONSTANT Apps

VARIABLE life      \* "unborn", "created", "running", "stopped" or "gone"

Moves(a, from, to) ==
    /\ life[a] \in from
    /\ life' = [life EXCEPT ![a] = to]

Create(a) == Moves(a, {"unborn"}, "created")
Deploy(a) == Moves(a, {"created", "running", "stopped"}, "running")
Stop(a)   == Moves(a, {"running"}, "stopped")
Start(a)  == Moves(a, {"stopped"}, "running")
Delete(a) == Moves(a, {"created", "running", "stopped"}, "gone")

Init == life = [a \in Apps |-> "unborn"]

Next == \E a \in Apps : Create(a) \/ Deploy(a) \/ Stop(a) \/ Start(a) \/ Delete(a)

Spec == Init /\ [][Next]_life
=============================================================================
