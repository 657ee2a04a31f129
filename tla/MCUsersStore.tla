---------------------------- MODULE MCUsersStore ----------------------------
(* Values for the constants of UsersStore.                                 *)
EXTENDS UsersStore, TLC

CONSTANTS c1, c2, c3, u1, g1, w1, w2, w3, w4, t1, x, y

Older == [id |-> x, wallet |-> w1, tag |-> Null, ens |-> Null, created |-> 0]
Newer == [id |-> y, wallet |-> w2, tag |-> Null, ens |-> Null, created |-> 1]

TwoUsers == {Older, Newer}
=============================================================================
