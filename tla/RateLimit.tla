----------------------------- MODULE RateLimit ------------------------------
(***************************************************************************)
(* AuthRateLimitGuard in one server process: a fixed window of attempts    *)
(* per route, address and (where the route asks for it) email, in a Map    *)
(* that every call prunes.  canActivate does not await, so a call is one   *)
(* step.                                                                   *)
(*                                                                         *)
(* admitted is not in the code: it records when the guard let a request    *)
(* through, for the properties to compare with.                            *)
(*                                                                         *)
(* Name_Fault is the definition Name with a plausible mistake in it; it is *)
(* not used below, and shows what the property named for it rules out.     *)
(***************************************************************************)
EXTENDS Integers, Sequences, FiniteSets

CONSTANTS Route, Caller,      \* handlers with @AuthRateLimit; addresses with emails
          Limit, TtlMs,       \* the decorator's options: functions of the route
          None,
          MaxTime,            \* bound: the clock stops there
          MaxAttempts         \* bound: nobody tries more often in one window

VARIABLES now,        \* Date.now()
          attempts,   \* the Map: key -> entry, or None
          admitted    \* key -> the times of the calls that returned true

vars == <<now, attempts, admitted>>

Key         == Route \X Caller
Time        == 0 .. MaxTime
Entry       == [count : Nat, resetAt : Nat]
Optional(S) == S \cup {None}

ASSUME OptionsTyped == /\ Limit \in [Route -> Nat \ {0}]
                       /\ TtlMs \in [Route -> Nat \ {0}]
                       /\ MaxTime \in Nat /\ MaxAttempts \in Nat
                       /\ None \notin Entry

TypeOK == /\ now \in Time
          /\ attempts \in [Key -> Optional(Entry)]
          /\ admitted \in [Key -> Seq(Time)]

Init == /\ now = 0
        /\ attempts = [k \in Key |-> None]
        /\ admitted = [k \in Key |-> <<>>]

Expired(entry) == entry.resetAt <= now

\* getEntry: the window that is open, or a new one.
GetEntry_Sliding(k) ==
  LET count == IF attempts[k] = None \/ Expired(attempts[k]) THEN 0 ELSE attempts[k].count
  IN [count |-> count, resetAt |-> now + TtlMs[k[1]]]
GetEntry(k) ==
  IF attempts[k] = None \/ Expired(attempts[k])
  THEN [count |-> 0, resetAt |-> now + TtlMs[k[1]]]
  ELSE attempts[k]

\* pruneExpired, over the whole Map.
Pruned_Uncounted(map) ==
  [k \in Key |-> IF map[k] # None /\ map[k].count > Limit[k[1]] THEN None ELSE map[k]]
Pruned(map) == [k \in Key |-> IF map[k] # None /\ Expired(map[k]) THEN None ELSE map[k]]

Counted_Down(entry) == [entry EXCEPT !.count = @ - 1]
Counted(entry)      == [entry EXCEPT !.count = @ + 1]

Refused(k, entry) == entry.count > Limit[k[1]]

CanActivate(k) ==
  LET entry == Counted(GetEntry(k))
  IN /\ entry.count <= MaxAttempts
     /\ attempts' = Pruned([attempts EXCEPT ![k] = entry])
     /\ admitted' = IF Refused(k, entry) THEN admitted
                    ELSE [admitted EXCEPT ![k] = Append(@, now)]
     /\ UNCHANGED now

Tick == /\ now < MaxTime
        /\ now' = now + 1
        /\ UNCHANGED <<attempts, admitted>>

Next == Tick \/ \E k \in Key : CanActivate(k)

Spec == Init /\ [][Next]_vars

-----------------------------------------------------------------------------
(* Properties                                                              *)

\* The calls let through for k in the last ttlMs.
Recent(k) == {i \in DOMAIN admitted[k] : admitted[k][i] > now - TtlMs[k[1]]}

\* Windows are fixed, so a burst may straddle two of them, but never more, and a
\* window opens with a call let through: any ttlMs see fewer than twice the limit,
\* whatever the calls of other routes pruned.
FewerThanTwiceTheLimit == \A k \in Key : Cardinality(Recent(k)) < 2 * Limit[k[1]]

\* Whoever is refused was let through `limit` times within the last ttlMs:
\* attempts that were refused never postpone the moment one is let in again.
RefusedForCause ==
  [][\A k \in Key :
       attempts'[k] # attempts[k] /\ attempts'[k] # None /\ now' = now /\ admitted' = admitted =>
         Cardinality(Recent(k)) >= Limit[k[1]]
    ]_vars
=============================================================================
