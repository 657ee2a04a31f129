----------------------------- MODULE RedisCache -----------------------------
(***************************************************************************)
(* The cache shared by the auth service's handlers: string keys with a     *)
(* time to live, through libs/common/cache.  The module has state, Init    *)
(* and operations, and no next-state relation: the modules that use the    *)
(* cache decide when an operation happens and whether its answer arrives.  *)
(***************************************************************************)
EXTENDS Naturals

CONSTANTS Keys, Values, NoValue

VARIABLES entries, now

Entries == [value : Values \cup {NoValue}, expiresAt : Nat]
Absent == [value |-> NoValue, expiresAt |-> 0]

TypeOK ==
    /\ entries \in [Keys -> Entries]
    /\ now \in Nat

Init ==
    /\ entries = [k \in Keys |-> Absent]
    /\ now = 0

\* Get answers nil, here NoValue, for a key that is not there.
Get(k) == entries[k].value

Set(k, v, ttl) ==
    /\ entries' = [entries EXCEPT ![k] = [value |-> v, expiresAt |-> now + ttl]]
    /\ UNCHANGED now

Del(k) ==
    /\ entries' = [entries EXCEPT ![k] = Absent]
    /\ UNCHANGED now

\* Redis drops an entry once the clock is past its expiry.
Tick ==
    /\ now' = now + 1
    /\ entries' = [k \in Keys |->
                      IF entries[k].expiresAt < now' THEN Absent
                      ELSE entries[k]]
=============================================================================
