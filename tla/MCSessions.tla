----------------------------- MODULE MCSessions -----------------------------
(* Sessions with a short clock, for TLC. *)
EXTENDS Sessions, TLC

\* Users, ids, tokens and clients are interchangeable.
Symmetry == Permutations(User) \cup Permutations(SessionId) \cup Permutations(Token)
            \cup Permutations(Client)
=============================================================================
