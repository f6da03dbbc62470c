------------------------------ MODULE MCStores ------------------------------
(***************************************************************************)
(* Stores for TLC, every system in a small instance: two releases, of which *)
(* one lists the build, and two Macs; two tenants, three jobs in two        *)
(* processes; two builds of an app, a release that lists a finding of both, *)
(* cut for one, and one that lists none for the first and does not cover    *)
(* the other.                                                               *)
(***************************************************************************)
EXTENDS Stores, TLC

CONSTANTS t1, t2, p1, p2, a1, b1, b2, f1, r1, r2, e1, s1, hourly, sync, refresh

ListsOne == (r1 :> {b1}) @@ (r2 :> {})
OneProcess == (e1 :> p1) @@ (s1 :> p1)
InTurn == <<t1, t2>>
Kinds == (hourly :> "hourly") @@ (sync :> "sync") @@ (refresh :> "refresh")
Homes == (hourly :> p1) @@ (sync :> p1) @@ (refresh :> p2)
OneApp == (b1 :> a1) @@ (b2 :> a1)
CutForOne ==
    (r1 :> [b \in {b1, b2} |-> [ids |-> {f1}, cut |-> b = b2]]) @@
    (r2 :> [b \in {b1} |-> [ids |-> {}, cut |-> FALSE]])
=============================================================================
