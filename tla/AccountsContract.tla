-------------------------- MODULE AccountsContract --------------------------
(***************************************************************************)
(* What registration and the admin seed promise: an email gets at most one *)
(* account, complete from its first moment, and its role only ever grows.  *)
(* Transactions, locks, the pool and failures are the business of module   *)
(* Registration, which implements this one.                                *)
(***************************************************************************)
CONSTANTS Email,
          AdminEmail   \* the email the seed is for, or a value that is no email

VARIABLE holders       \* email -> the accounts that have it

vars == <<holders>>

Init == holders = [e \in Email |-> {}]

Register(e) ==
  /\ holders[e] = {}
  /\ holders' = [holders EXCEPT ![e] = {[role |-> "USER", onboarded |-> TRUE]}]

\* The seed creates an account that was never onboarded, or promotes the one there is.
Seed(e) ==
  \/ /\ holders[e] = {}
     /\ holders' = [holders EXCEPT ![e] = {[role |-> "ADMIN", onboarded |-> FALSE]}]
  \/ \E a \in holders[e] :
       holders' = [holders EXCEPT ![e] = {[role |-> "ADMIN", onboarded |-> a.onboarded]}]

Next == \E e \in Email : Register(e) \/ (e = AdminEmail /\ Seed(e))

Spec == Init /\ [][Next]_vars
=============================================================================
