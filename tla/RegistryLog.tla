---------------------------- MODULE RegistryLog ----------------------------
(***************************************************************************)
(* What the contract registry promises, whatever its storage layout: every *)
(* name has one owner for ever and an append-only history of published     *)
(* entries, and the names are kept in the order they were registered.      *)
(*                                                                         *)
(* Names are claimed by whoever publishes first.  The curator (the admin   *)
(* of the contract) may hand whole histories to names that have none yet,  *)
(* and has no other power over the data.                                   *)
(***************************************************************************)
EXTENDS Integers, Sequences

CONSTANT Name

VARIABLES
  order,    \* the registered names, oldest registration first
  owner,    \* name -> the only account that may extend its history
  log,      \* name -> its published entries, oldest first
  actor,    \* the account that took the last step
  curator   \* the account that may import histories

Registered(n) == log[n] # <<>>

Init ==
  /\ order = <<>>
  /\ log = [n \in Name |-> <<>>]

(***************************************************************************)
(* The actor appends one entry to the history of n, and owns n from then   *)
(* on if n had no history.                                                 *)
(***************************************************************************)
Publish(n) ==
  /\ Registered(n) => owner[n] = actor'
  /\ owner' = [owner EXCEPT ![n] = actor']
  /\ Len(log'[n]) = Len(log[n]) + 1
  /\ SubSeq(log'[n], 1, Len(log[n])) = log[n]
  /\ log' = [log EXCEPT ![n] = log'[n]]
  /\ order' = IF Registered(n) THEN order ELSE Append(order, n)

(***************************************************************************)
(* The curator gives a history and an owner to names that had none, and    *)
(* adds exactly those names to the order, each of them once.               *)
(***************************************************************************)
Import ==
  /\ actor' = curator
  /\ \A n \in Name : Registered(n) =>
       /\ log'[n] = log[n]
       /\ owner'[n] = owner[n]
  /\ Len(order') >= Len(order)
  /\ \A i \in 1..Len(order) : order'[i] = order[i]
  /\ \A i, j \in (Len(order) + 1)..Len(order') : order'[i] = order'[j] => i = j
  /\ \A n \in Name :
       (~Registered(n) /\ log'[n] # <<>>)
         <=> \E i \in (Len(order) + 1)..Len(order') : order'[i] = n

Next == (\E n \in Name : Publish(n)) \/ Import

Spec == Init /\ [][Next]_<<order, owner, log>>
=============================================================================
