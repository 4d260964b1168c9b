------------------------------ MODULE MCControl ------------------------------
(* How much the user does and how much goes wrong. *)
EXTENDS Control

Scenario(hangs, n, changed, failed) ==
  [hangs |-> hangs, keys |-> n, changes |-> changed, failures |-> failed]

All == {Scenario(FALSE, 2, 1, 1), Scenario(FALSE, 3, 0, 0), Scenario(TRUE, 1, 0, 0)}
=============================================================================
