------------------------------ MODULE Keyspace -------------------------------
(***************************************************************************)
(* What the database promises its callers, whatever containers it keeps:   *)
(* a map from the live keys to a value and an optional deadline.  A key    *)
(* disappears the moment its deadline is reached, not when the program     *)
(* gets around to erasing it.                                              *)
(*                                                                         *)
(* A step may let time pass and changes at most one key, or wipes them     *)
(* all.  An update in place keeps the type of the value and the deadline;  *)
(* a write of any other kind leaves the key without one.                   *)
(***************************************************************************)
EXTENDS Integers

CONSTANT Key

VARIABLES view, now

NoDeadline == -1

\* The part of v that is still alive at time t.
Alive(v, t) ==
    [k \in {x \in DOMAIN v : v[x].deadline = NoDeadline \/ v[x].deadline > t} |-> v[k]]

Init == view = [k \in {} |-> k] /\ now \in Nat

\* Time does not run backwards, and every key but k is left alone by it.
Elsewhere(k) ==
    /\ now' >= now
    /\ [x \in DOMAIN view' \ {k} |-> view'[x]] =
       [x \in DOMAIN Alive(view, now') \ {k} |-> view[x]]

Write(k) ==
    /\ Elsewhere(k)
    /\ k \in DOMAIN view'
    /\ view'[k].deadline = NoDeadline

Update(k) ==
    /\ Elsewhere(k)
    /\ k \in DOMAIN view /\ k \in DOMAIN view'
    /\ view'[k].value.type = view[k].value.type
    /\ view'[k].deadline = view[k].deadline

SetDeadline(k) ==
    /\ Elsewhere(k)
    /\ k \in DOMAIN view /\ k \in DOMAIN view'
    /\ view'[k].value = view[k].value
    /\ view'[k].deadline > now'

Remove(k) ==
    /\ Elsewhere(k)
    /\ k \notin DOMAIN view'

Wipe == DOMAIN view' = {} /\ now' >= now

TimePasses == now' >= now /\ view' = Alive(view, now')

Next ==
    \/ \E k \in Key : Write(k) \/ Update(k) \/ SetDeadline(k) \/ Remove(k)
    \/ Wipe
    \/ TimePasses

Spec == Init /\ [][Next]_<<view, now>>
=============================================================================
