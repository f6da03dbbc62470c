----------------------------- MODULE MCServices -----------------------------
(***************************************************************************)
(* Services for TLC, every system in a small instance: a connection whose   *)
(* secret is rotated, which then keeps no sign-in and in the end is         *)
(* deleted; two processes starting on two images; two calls of a person,    *)
(* two of the summary worker and one to another server for one slot; two    *)
(* clerks with two cases; two requests to the intelligence service; two     *)
(* Macs whose app is upgraded; a group whose criteria move between two; a   *)
(* sweep and another run that close while a build of one title changes      *)
(* state; two tries to post for a consent that changes twice; two requests   *)
(* of two operators at home, one of them break-glass with a second factor,   *)
(* or one request of an operator who is also a guest elsewhere.              *)
(***************************************************************************)
EXTENDS Services, TLC

Rotated ==
    <<[secret |-> "old", mode |-> "perpetual", active |-> TRUE],
      [secret |-> "new", mode |-> "perpetual", active |-> TRUE],
      [secret |-> "new", mode |-> "no_cache", active |-> TRUE],
      [secret |-> "none", mode |-> "no_cache", active |-> FALSE]>>
Stamps == [n \in 0 .. 3 |-> CASE n = 2 -> 1 [] n = 3 -> 2 [] OTHER -> 0]
Inventory(v) ==
    [part \in {"apps", "os"} |-> IF part = "apps" THEN <<"app", v>> :> "covered" ELSE "version" :> 1]
Upgraded == {Inventory(2)}
Installed == {Inventory(1)}
Alternatives == {{1}, {1, 2}}
=============================================================================
