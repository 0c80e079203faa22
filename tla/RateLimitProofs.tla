-------------------------- MODULE RateLimitProofs ---------------------------
(***************************************************************************)
(* Theorems about AuthRateLimitGuard, for any routes, limits and windows:  *)
(* fewer than twice the limit in any ttlMs, and no refusal without cause.  *)
(* The argument is about one key: where its last window began in the list  *)
(* of its admitted calls, and that the window before ended by then.        *)
(***************************************************************************)
EXTENDS RateLimit, FiniteSetTheorems, SequenceTheorems, TLAPS

\* The calls a of a key, by time t, in order, and no 2 * limit of them within ttl.
Ordered(a, t) == /\ \A i, j \in 1 .. Len(a) : i <= j => a[i] <= a[j]
                 /\ \A i \in 1 .. Len(a) : a[i] <= t

Spaced(a, limit, ttl) ==
  \A i, j \in 1 .. Len(a) : j = i + 2 * limit - 1 => a[i] + ttl <= a[j]

\* The last `limit` calls began a whole window before t.
Closed(a, limit, ttl, t) == Len(a) >= limit => a[Len(a) - limit + 1] + ttl <= t

\* How many of the last calls the entry's window admitted.
InWindow(limit, entry) == IF entry.count <= limit THEN entry.count ELSE limit

\* The window of the entry opened with the first of them, and the windows before it had
\* ended then.
Opened(a, limit, ttl, entry) ==
  LET first == Len(a) - InWindow(limit, entry) + 1
      start == entry.resetAt - ttl
  IN /\ entry.count >= 1
     /\ first >= 1
     /\ a[first] = start
     /\ first > limit => a[first - limit] + ttl <= start

WindowInv(k) ==
  LET a == admitted[k]
      limit == Limit[k[1]]
      ttl == TtlMs[k[1]]
  IN /\ Ordered(a, now)
     /\ Spaced(a, limit, ttl)
     /\ IF attempts[k] = None THEN Closed(a, limit, ttl, now)
                              ELSE Opened(a, limit, ttl, attempts[k])

IInv == TypeOK /\ \A k \in Key : WindowInv(k)

-----------------------------------------------------------------------------
(* Lists of calls                                                          *)

LEMMA OpenedEnds ==
  ASSUME NEW a \in Seq(Nat), NEW limit \in Nat \ {0}, NEW ttl \in Nat \ {0}, NEW t \in Nat,
         NEW entry \in Entry, Ordered(a, t), Opened(a, limit, ttl, entry), entry.resetAt <= t
  PROVE  Closed(a, limit, ttl, t)
<1> DEFINE n == InWindow(limit, entry)
           first == Len(a) - n + 1
<1>1. entry.count \in Nat /\ entry.resetAt \in Nat BY DEF Entry
<1>2. n \in 1 .. limit BY <1>1 DEF Opened, InWindow
<1>3. first \in 1 .. Len(a) /\ a[first] = entry.resetAt - ttl BY <1>2 DEF Opened
<1> SUFFICES ASSUME Len(a) >= limit PROVE a[Len(a) - limit + 1] + ttl <= t BY DEF Closed
<1> DEFINE i == Len(a) - limit + 1
<1>4. i \in 1 .. Len(a) /\ i <= first BY <1>2
<1>5. a[i] \in Nat /\ a[first] \in Nat BY <1>3, <1>4
<1>6. a[i] <= a[first] BY <1>3, <1>4 DEF Ordered
<1> QED BY <1>1, <1>3, <1>5, <1>6

LEMMA AppendOrdered ==
  ASSUME NEW a \in Seq(Nat), NEW t \in Nat, Ordered(a, t)
  PROVE  Ordered(Append(a, t), t)
<1> DEFINE b == Append(a, t)
<1>1. /\ Len(b) = Len(a) + 1
      /\ \A i \in 1 .. Len(a) : b[i] = a[i] /\ a[i] \in Nat
      /\ b[Len(a) + 1] = t
  BY AppendProperties
<1> HIDE DEF b
<1>2. ASSUME NEW i \in 1 .. Len(b) PROVE b[i] <= t
  <2>1. CASE i = Len(b) BY <1>1, <2>1
  <2>2. CASE i # Len(b) BY <1>1, <2>2 DEF Ordered
  <2> QED BY <2>1, <2>2
<1>3. ASSUME NEW i \in 1 .. Len(b), NEW j \in 1 .. Len(b), i <= j PROVE b[i] <= b[j]
  <2>1. CASE j = Len(b) BY <1>1, <1>2, <2>1
  <2>2. CASE j # Len(b) BY <1>1, <1>3, <2>2 DEF Ordered
  <2> QED BY <2>1, <2>2
<1>4. Ordered(b, t) BY <1>2, <1>3 DEF Ordered
<1> QED BY <1>4 DEF b

\* A call is appended 2 * limit - 1 places after one that is a window old.
LEMMA AppendSpaced ==
  ASSUME NEW a \in Seq(Nat), NEW limit \in Nat \ {0}, NEW ttl \in Nat \ {0}, NEW t \in Nat,
         Spaced(a, limit, ttl),
         Len(a) + 2 - 2 * limit >= 1 => a[Len(a) + 2 - 2 * limit] + ttl <= t
  PROVE  Spaced(Append(a, t), limit, ttl)
<1> DEFINE b == Append(a, t)
<1>1. /\ Len(b) = Len(a) + 1
      /\ \A i \in 1 .. Len(a) : b[i] = a[i]
      /\ b[Len(a) + 1] = t
  BY AppendProperties
<1> HIDE DEF b
<1>2. SUFFICES ASSUME NEW i \in 1 .. Len(b), NEW j \in 1 .. Len(b), j = i + 2 * limit - 1
               PROVE  b[i] + ttl <= b[j]
  BY DEF Spaced, b
<1>3. i < j BY <1>2
<1>4. i \in 1 .. Len(a) BY <1>1, <1>3
<1>5. CASE j = Len(b)
  <2>1. i = Len(a) + 2 - 2 * limit BY <1>1, <1>2, <1>5
  <2> QED BY <1>1, <1>4, <1>5, <2>1
<1>6. CASE j # Len(b)
  <2>1. j \in 1 .. Len(a) BY <1>1, <1>6
  <2> QED BY <1>1, <1>2, <1>4, <2>1 DEF Spaced
<1> QED BY <1>5, <1>6

\* The first call of a new window.
LEMMA AppendNewWindow ==
  ASSUME NEW a \in Seq(Nat), NEW limit \in Nat \ {0}, NEW ttl \in Nat \ {0}, NEW t \in Nat,
         Ordered(a, t), Spaced(a, limit, ttl), Closed(a, limit, ttl, t)
  PROVE  /\ Spaced(Append(a, t), limit, ttl)
         /\ Opened(Append(a, t), limit, ttl, [count |-> 1, resetAt |-> t + ttl])
<1> DEFINE b == Append(a, t)
           entry == [count |-> 1, resetAt |-> t + ttl]
<1>1. /\ Len(b) = Len(a) + 1
      /\ \A i \in 1 .. Len(a) : b[i] = a[i] /\ a[i] \in Nat
      /\ b[Len(a) + 1] = t
  BY AppendProperties
<1>2. Len(a) + 2 - 2 * limit >= 1 => a[Len(a) + 2 - 2 * limit] + ttl <= t
  <2> SUFFICES ASSUME Len(a) + 2 - 2 * limit >= 1 PROVE a[Len(a) + 2 - 2 * limit] + ttl <= t
    OBVIOUS
  <2> DEFINE i == Len(a) + 2 - 2 * limit
             j == Len(a) - limit + 1
  <2>1. i \in 1 .. Len(a) /\ j \in 1 .. Len(a) /\ i <= j /\ Len(a) >= limit OBVIOUS
  <2>2. a[i] <= a[j] BY <2>1 DEF Ordered
  <2>3. a[j] + ttl <= t BY <2>1 DEF Closed
  <2>4. a[i] \in Nat /\ a[j] \in Nat BY <1>1, <2>1
  <2> QED BY <2>2, <2>3, <2>4
<1>3. Spaced(b, limit, ttl) BY <1>2, AppendSpaced
<1>4. Opened(b, limit, ttl, entry)
  <2>1. InWindow(limit, entry) = 1 BY DEF InWindow
  <2>2. entry.resetAt - ttl = t /\ entry.count = 1 OBVIOUS
  <2> HIDE DEF b, entry
  <2>3. Len(b) - InWindow(limit, entry) + 1 = Len(a) + 1 BY <1>1, <2>1
  <2>4. Len(a) + 1 > limit => b[Len(a) + 1 - limit] + ttl <= t
    <3> SUFFICES ASSUME Len(a) + 1 > limit PROVE b[Len(a) + 1 - limit] + ttl <= t OBVIOUS
    <3>1. Len(a) + 1 - limit = Len(a) - limit + 1 /\ Len(a) - limit + 1 \in 1 .. Len(a)
      OBVIOUS
    <3>2. a[Len(a) - limit + 1] + ttl <= t BY DEF Closed
    <3> QED BY <1>1, <3>1, <3>2
  <2> QED BY <1>1, <2>2, <2>3, <2>4 DEF Opened
<1> QED BY <1>3, <1>4

\* A further call of the open window.
LEMMA AppendToWindow ==
  ASSUME NEW a \in Seq(Nat), NEW limit \in Nat \ {0}, NEW ttl \in Nat \ {0}, NEW t \in Nat,
         NEW entry \in Entry, Ordered(a, t), Spaced(a, limit, ttl),
         Opened(a, limit, ttl, entry), entry.count + 1 <= limit
  PROVE  /\ Spaced(Append(a, t), limit, ttl)
         /\ Opened(Append(a, t), limit, ttl, [entry EXCEPT !.count = @ + 1])
<1> DEFINE b == Append(a, t)
           more == [entry EXCEPT !.count = @ + 1]
           first == Len(a) - entry.count + 1
<1>1. /\ Len(b) = Len(a) + 1
      /\ \A i \in 1 .. Len(a) : b[i] = a[i] /\ a[i] \in Nat
  BY AppendProperties
<1>2. entry.count \in Nat /\ entry.resetAt \in Nat BY DEF Entry
<1>3. InWindow(limit, entry) = entry.count BY <1>2 DEF InWindow
<1>4. /\ entry.count >= 1 /\ first \in 1 .. Len(a)
      /\ a[first] = entry.resetAt - ttl
      /\ first > limit => a[first - limit] + ttl <= entry.resetAt - ttl
  BY <1>2, <1>3 DEF Opened
<1>5. Len(a) \in Nat /\ first = Len(a) - entry.count + 1 OBVIOUS
<1> HIDE DEF first
<1>6. Len(a) + 2 - 2 * limit >= 1 => a[Len(a) + 2 - 2 * limit] + ttl <= t
  <2> DEFINE i == Len(a) + 2 - 2 * limit
             j == first - limit
  <2>1. SUFFICES ASSUME i >= 1 PROVE a[i] + ttl <= t OBVIOUS
  <2>2. i \in Int /\ i <= j /\ i <= Len(a) BY <1>2, <1>4, <1>5
  <2>3. j \in 1 .. Len(a) /\ first > limit
    <3>1. first \in Int /\ first <= Len(a) BY <1>4, <1>5
    <3>2. first - limit >= 1 BY <1>5, <2>1, <2>2, <3>1
    <3> QED BY <1>5, <3>1, <3>2
  <2>4. i \in 1 .. Len(a) BY <1>5, <2>1, <2>2
  <2> HIDE DEF i, j
  <2>5. a[i] <= a[j] BY <2>2, <2>3, <2>4 DEF Ordered
  <2>6. a[j] + ttl <= a[first] BY <1>4, <2>3 DEF j
  <2>7. a[first] <= t BY <1>4 DEF Ordered
  <2>8. a[i] \in Nat /\ a[j] \in Nat /\ a[first] \in Nat BY <1>1, <1>4, <2>3, <2>4
  <2> QED BY <2>5, <2>6, <2>7, <2>8
<1>7. Spaced(b, limit, ttl) BY <1>6, AppendSpaced
<1>8. more.count = entry.count + 1 /\ more.resetAt = entry.resetAt BY DEF Entry
<1> HIDE DEF b, more
<1>9. InWindow(limit, more) = entry.count + 1 BY <1>8 DEF InWindow
<1>10. Len(b) - InWindow(limit, more) + 1 = first BY <1>1, <1>2, <1>5, <1>9
<1>11. b[first] = more.resetAt - ttl BY <1>1, <1>4, <1>8
<1>12. first > limit => b[first - limit] + ttl <= more.resetAt - ttl
  <2> SUFFICES ASSUME first > limit PROVE b[first - limit] + ttl <= more.resetAt - ttl
    OBVIOUS
  <2>1. first - limit \in 1 .. Len(a) BY <1>4, <1>5
  <2> QED BY <1>1, <1>4, <1>8, <2>1
<1>13. more.count >= 1 /\ first >= 1 BY <1>2, <1>4, <1>8
<1>14. Opened(b, limit, ttl, more) BY <1>10, <1>11, <1>12, <1>13 DEF Opened
<1> QED BY <1>7, <1>14 DEF b, more

\* A refused call leaves the window where it was.
LEMMA RefusedInWindow ==
  ASSUME NEW a \in Seq(Nat), NEW limit \in Nat \ {0}, NEW ttl \in Nat \ {0},
         NEW entry \in Entry, Opened(a, limit, ttl, entry), entry.count + 1 > limit
  PROVE  Opened(a, limit, ttl, [entry EXCEPT !.count = @ + 1])
<1> DEFINE more == [entry EXCEPT !.count = @ + 1]
<1>1. entry.count \in Nat BY DEF Entry
<1>2. more.count = entry.count + 1 /\ more.resetAt = entry.resetAt BY DEF Entry
<1> HIDE DEF more
<1>3. InWindow(limit, more) = limit /\ InWindow(limit, entry) = limit
  BY <1>1, <1>2 DEF InWindow
<1>4. Opened(a, limit, ttl, more) BY <1>1, <1>2, <1>3 DEF Opened
<1> QED BY <1>4 DEF more

-----------------------------------------------------------------------------
(* The guard                                                               *)

LEMMA Options ==
  ASSUME NEW k \in Key
  PROVE  k[1] \in Route /\ Limit[k[1]] \in Nat \ {0} /\ TtlMs[k[1]] \in Nat \ {0}
BY OptionsTyped DEF Key

LEMMA TimesTyped == Time \subseteq Nat
BY OptionsTyped DEF Time

LEMMA IInvInit == Init => IInv
<1> SUFFICES ASSUME Init PROVE IInv OBVIOUS
<1>1. TypeOK BY OptionsTyped DEF Init, TypeOK, Time, Optional
<1>2. ASSUME NEW k \in Key PROVE WindowInv(k)
  <2>1. admitted[k] = <<>> /\ attempts[k] = None BY DEF Init
  <2>2. Len(admitted[k]) = 0 BY <2>1
  <2> QED BY <2>1, <2>2, Options DEF WindowInv, Ordered, Spaced, Closed
<1> QED BY <1>1, <1>2 DEF IInv

LEMMA CallsTyped ==
  ASSUME TypeOK, NEW k \in Key
  PROVE  /\ admitted[k] \in Seq(Nat) /\ admitted[k] \in Seq(Time)
         /\ now \in Nat
         /\ attempts[k] # None => attempts[k] \in Entry
<1>1. admitted[k] \in Seq(Time) BY DEF TypeOK
<1>2. \A i \in 1 .. Len(admitted[k]) : admitted[k][i] \in Nat BY <1>1, TimesTyped
<1>3. admitted[k] = [i \in 1 .. Len(admitted[k]) |-> admitted[k][i]] BY <1>1
<1>4. admitted[k] \in Seq(Nat) BY <1>1, <1>2, <1>3
<1> QED BY <1>1, <1>4, TimesTyped DEF TypeOK, Optional

\* A key whose entry stayed, or expired and was pruned, as time passed or stood.
LEMMA KeptKey ==
  ASSUME TypeOK, NEW k \in Key, WindowInv(k), now' \in Nat, now' >= now,
         admitted'[k] = admitted[k],
         \/ attempts'[k] = attempts[k]
         \/ attempts'[k] = None /\ attempts[k] # None /\ Expired(attempts[k])
  PROVE  WindowInv(k)'
<1> DEFINE a == admitted[k]
           limit == Limit[k[1]]
           ttl == TtlMs[k[1]]
<1>1. a \in Seq(Nat) /\ now \in Nat BY CallsTyped
<1>2. limit \in Nat \ {0} /\ ttl \in Nat \ {0} BY Options
<1>3. \A i \in 1 .. Len(a) : a[i] \in Nat BY <1>1
<1>4. Ordered(a, now) /\ Spaced(a, limit, ttl) BY DEF WindowInv
<1>5. Ordered(a, now') BY <1>1, <1>3, <1>4 DEF Ordered
<1>6. CASE attempts'[k] = attempts[k] /\ attempts[k] # None
  <2>1. Opened(a, limit, ttl, attempts[k]) BY <1>6 DEF WindowInv
  <2> QED BY <1>4, <1>5, <1>6, <2>1 DEF WindowInv
<1>7. CASE attempts'[k] = attempts[k] /\ attempts[k] = None
  <2>1. Closed(a, limit, ttl, now) BY <1>7 DEF WindowInv
  <2>2. Len(a) >= limit => Len(a) - limit + 1 \in 1 .. Len(a) BY <1>1, <1>2
  <2> HIDE DEF a, limit, ttl
  <2>3. Closed(a, limit, ttl, now') BY <1>1, <1>2, <1>3, <2>1, <2>2 DEF Closed
  <2> QED BY <1>4, <1>5, <1>7, <2>3 DEF WindowInv, a, limit, ttl
<1>8. CASE attempts'[k] = None /\ attempts[k] # None /\ Expired(attempts[k])
  <2>1. Opened(a, limit, ttl, attempts[k]) BY <1>8 DEF WindowInv
  <2>2. attempts[k] \in Entry BY <1>8, CallsTyped
  <2>3. attempts[k].resetAt \in Nat /\ attempts[k].resetAt <= now BY <1>8, <2>2 DEF Expired, Entry
  <2>4. attempts[k].resetAt <= now' BY <1>1, <2>3
  <2>5. Closed(a, limit, ttl, now') BY <1>1, <1>2, <1>5, <2>1, <2>2, <2>4, OpenedEnds
  <2> QED BY <1>4, <1>5, <1>8, <2>5 DEF WindowInv
<1> QED BY <1>6, <1>7, <1>8

\* What canActivate did with the key it was called for.
LEMMA CalledKey ==
  ASSUME TypeOK, NEW k \in Key, CanActivate(k)
  PROVE  LET entry == Counted(GetEntry(k))
         IN /\ entry \in Entry
            /\ entry.resetAt > now
            /\ attempts' = Pruned([attempts EXCEPT ![k] = entry])
            /\ attempts'[k] = entry
            /\ \A q \in Key \ {k} :
                 \/ attempts'[q] = attempts[q]
                 \/ attempts'[q] = None /\ attempts[q] # None /\ Expired(attempts[q])
<1> DEFINE entry == Counted(GetEntry(k))
           map == [attempts EXCEPT ![k] = entry]
<1>1. now \in Nat /\ (attempts[k] # None => attempts[k] \in Entry) BY CallsTyped
<1>2. TtlMs[k[1]] \in Nat \ {0} BY Options
<1>3. GetEntry(k) \in Entry /\ GetEntry(k).resetAt > now
  <2>1. CASE attempts[k] = None \/ Expired(attempts[k])
    <3>1. GetEntry(k) = [count |-> 0, resetAt |-> now + TtlMs[k[1]]] BY <2>1 DEF GetEntry
    <3> QED BY <1>1, <1>2, <3>1 DEF Entry
  <2>2. CASE ~(attempts[k] = None \/ Expired(attempts[k]))
    <3>1. GetEntry(k) = attempts[k] /\ attempts[k] \in Entry BY <1>1, <2>2 DEF GetEntry
    <3> QED BY <1>1, <2>2, <3>1 DEF Entry, Expired
  <2> QED BY <2>1, <2>2
<1>4. entry \in Entry /\ entry.resetAt = GetEntry(k).resetAt BY <1>3 DEF Counted, Entry
<1>5. entry.resetAt \in Nat /\ entry.resetAt > now /\ entry # None
  BY <1>3, <1>4, OptionsTyped DEF Entry
<1> HIDE DEF entry
<1>6. attempts' = Pruned(map) BY DEF CanActivate, entry
<1>7. attempts \in [Key -> Optional(Entry)] BY DEF TypeOK
<1>8. map[k] = entry /\ \A q \in Key \ {k} : map[q] = attempts[q] BY <1>7
<1> HIDE DEF map
<1>9. ~Expired(entry) BY <1>1, <1>5 DEF Expired
<1>10. attempts'[k] = entry BY <1>6, <1>8, <1>9 DEF Pruned
<1>11. \A q \in Key \ {k} : \/ attempts'[q] = attempts[q]
                            \/ /\ attempts'[q] = None
                               /\ attempts[q] # None /\ Expired(attempts[q])
  BY <1>6, <1>8 DEF Pruned
<1> QED BY <1>4, <1>5, <1>6, <1>10, <1>11 DEF entry, map

LEMMA CallTyped ==
  ASSUME TypeOK, NEW k \in Key, CanActivate(k)
  PROVE  TypeOK'
<1> DEFINE entry == Counted(GetEntry(k))
<1>1. entry \in Entry /\ attempts' = Pruned([attempts EXCEPT ![k] = entry]) BY CalledKey
<1> HIDE DEF entry
<1>2. attempts' \in [Key -> Optional(Entry)] BY <1>1 DEF TypeOK, Pruned, Optional
<1>3. now' = now /\ now \in Time BY DEF CanActivate, TypeOK
<1>4. admitted' \in [Key -> Seq(Time)]
  <2>1. admitted[k] \in Seq(Time) BY CallsTyped
  <2>2. Append(admitted[k], now) \in Seq(Time) BY <1>3, <2>1, AppendProperties
  <2>3. admitted' = admitted \/ admitted' = [admitted EXCEPT ![k] = Append(@, now)]
    BY DEF CanActivate
  <2> QED BY <2>2, <2>3 DEF TypeOK
<1> QED BY <1>2, <1>3, <1>4 DEF TypeOK

LEMMA CallStep ==
  ASSUME IInv, NEW k \in Key, CanActivate(k)
  PROVE  IInv'
<1> DEFINE a == admitted[k]
           limit == Limit[k[1]]
           ttl == TtlMs[k[1]]
           entry == Counted(GetEntry(k))
<1>1. TypeOK /\ TypeOK' BY CallTyped DEF IInv
<1>2. a \in Seq(Nat) /\ now \in Nat /\ now' = now BY <1>1, CallsTyped DEF CanActivate
<1>3. limit \in Nat \ {0} /\ ttl \in Nat \ {0} BY Options
<1>4. WindowInv(k) BY DEF IInv
<1>5. Ordered(a, now) /\ Spaced(a, limit, ttl) BY <1>4 DEF WindowInv
<1>6. /\ entry \in Entry /\ attempts'[k] = entry
      /\ \A q \in Key \ {k} :
           \/ attempts'[q] = attempts[q]
           \/ attempts'[q] = None /\ attempts[q] # None /\ Expired(attempts[q])
  BY <1>1, CalledKey
<1>7. attempts'[k] # None BY <1>6, OptionsTyped
<1>8. admitted \in [Key -> Seq(Time)] BY <1>1 DEF TypeOK
<1>9. admitted' = IF Refused(k, entry) THEN admitted ELSE [admitted EXCEPT ![k] = Append(@, now)]
  BY DEF CanActivate
<1>10. ASSUME NEW q \in Key \ {k} PROVE WindowInv(q)'
  <2>1. admitted'[q] = admitted[q] BY <1>8, <1>9
  <2>2. WindowInv(q) BY DEF IInv
  <2>3. now' \in Nat /\ now' >= now BY <1>2
  <2>4. \/ attempts'[q] = attempts[q]
        \/ attempts'[q] = None /\ attempts[q] # None /\ Expired(attempts[q])
    BY <1>6
  <2> QED BY <1>1, <2>1, <2>2, <2>3, <2>4, KeptKey
<1>11. WindowInv(k)'
  <2>1. CASE attempts[k] = None \/ Expired(attempts[k])
    <3>1. GetEntry(k) = [count |-> 0, resetAt |-> now + ttl] BY <2>1 DEF GetEntry
    <3>2. entry = [count |-> 1, resetAt |-> now + ttl] BY <3>1 DEF Counted
    <3>3. ~Refused(k, entry) BY <1>3, <3>2 DEF Refused
    <3>4. admitted'[k] = Append(a, now) BY <1>8, <1>9, <3>3
    <3>5. Closed(a, limit, ttl, now)
      <4>1. CASE attempts[k] = None BY <1>4, <4>1 DEF WindowInv
      <4>2. CASE attempts[k] # None
        <5>1. attempts[k] \in Entry /\ attempts[k].resetAt <= now
          BY <1>1, <2>1, <4>2, CallsTyped DEF Expired
        <5>2. Opened(a, limit, ttl, attempts[k]) BY <1>4, <4>2 DEF WindowInv
        <5> QED BY <1>2, <1>3, <1>5, <5>1, <5>2, OpenedEnds
      <4> QED BY <4>1, <4>2
    <3>6. /\ Ordered(Append(a, now), now) /\ Spaced(Append(a, now), limit, ttl)
          /\ Opened(Append(a, now), limit, ttl, entry)
      BY <1>2, <1>3, <1>5, <3>2, <3>5, AppendOrdered, AppendNewWindow
    <3> QED BY <1>2, <1>6, <1>7, <3>4, <3>6 DEF WindowInv
  <2>2. CASE ~(attempts[k] = None \/ Expired(attempts[k]))
    <3>1. GetEntry(k) = attempts[k] /\ attempts[k] \in Entry
      BY <1>1, <2>2, CallsTyped DEF GetEntry
    <3>2. entry = [attempts[k] EXCEPT !.count = @ + 1] BY <3>1 DEF Counted
    <3>3. attempts[k].count \in Nat /\ entry.count = attempts[k].count + 1
      BY <3>1, <3>2 DEF Entry
    <3>4. Opened(a, limit, ttl, attempts[k]) BY <1>4, <2>2 DEF WindowInv
    <3>5. CASE Refused(k, entry)
      <4>1. admitted'[k] = a BY <1>9, <3>5
      <4>2. attempts[k].count + 1 > limit BY <3>3, <3>5 DEF Refused
      <4>3. Opened(a, limit, ttl, entry) BY <1>2, <1>3, <3>1, <3>2, <3>4, <4>2, RefusedInWindow
      <4> QED BY <1>2, <1>5, <1>6, <1>7, <4>1, <4>3 DEF WindowInv
    <3>6. CASE ~Refused(k, entry)
      <4>1. admitted'[k] = Append(a, now) BY <1>8, <1>9, <3>6
      <4>2. attempts[k].count + 1 <= limit BY <1>3, <3>3, <3>6 DEF Refused
      <4>3. /\ Ordered(Append(a, now), now) /\ Spaced(Append(a, now), limit, ttl)
            /\ Opened(Append(a, now), limit, ttl, entry)
        BY <1>2, <1>3, <1>5, <3>1, <3>2, <3>4, <4>2, AppendOrdered, AppendToWindow
      <4> QED BY <1>2, <1>6, <1>7, <4>1, <4>3 DEF WindowInv
    <3> QED BY <3>5, <3>6
  <2> QED BY <2>1, <2>2
<1> QED BY <1>1, <1>10, <1>11 DEF IInv

LEMMA TickStep ==
  ASSUME IInv, Tick
  PROVE  IInv'
<1>1. TypeOK /\ now \in Nat BY TimesTyped DEF IInv, TypeOK
<1>2. now' \in Nat /\ now' >= now /\ now' \in Time BY <1>1, OptionsTyped DEF Tick, Time
<1>3. TypeOK' BY <1>1, <1>2 DEF Tick, TypeOK
<1>4. ASSUME NEW k \in Key PROVE WindowInv(k)'
  BY <1>1, <1>2, KeptKey DEF Tick, IInv
<1> QED BY <1>3, <1>4 DEF IInv

LEMMA IInvStep == IInv /\ [Next]_vars => IInv'
<1> SUFFICES ASSUME IInv, [Next]_vars PROVE IInv' OBVIOUS
<1>1. CASE UNCHANGED vars
  <2>1. TypeOK' BY <1>1 DEF IInv, TypeOK, vars
  <2>2. ASSUME NEW k \in Key PROVE WindowInv(k)'
    BY <1>1, TimesTyped, KeptKey DEF IInv, TypeOK, vars
  <2> QED BY <2>1, <2>2 DEF IInv
<1> QED BY <1>1, TickStep, CallStep DEF Next

THEOREM Invariance == Spec => []IInv
BY IInvInit, IInvStep, PTL DEF Spec

\* The Map's entries and the clock keep their types.
THEOREM TypeCorrect == Spec => []TypeOK
<1>1. IInv => TypeOK BY DEF IInv
<1> QED BY <1>1, Invariance, PTL

-----------------------------------------------------------------------------
(* What the guard promises                                                 *)

LEMMA RecentFinite ==
  ASSUME IInv, NEW k \in Key
  PROVE  Recent(k) \subseteq 1 .. Len(admitted[k]) /\ IsFiniteSet(Recent(k))
<1>1. admitted[k] \in Seq(Nat) BY CallsTyped DEF IInv
<1>2. Recent(k) \subseteq 1 .. Len(admitted[k]) BY <1>1 DEF Recent
<1>3. IsFiniteSet(1 .. Len(admitted[k])) BY <1>1, FS_Interval
<1> QED BY <1>2, <1>3, FS_Subset

\* In no ttlMs does a route let through 2 * limit calls of one caller.
THEOREM BurstBound == Spec => []FewerThanTwiceTheLimit
<1>1. ASSUME IInv, NEW k \in Key PROVE Cardinality(Recent(k)) < 2 * Limit[k[1]]
  <2> DEFINE a == admitted[k]
             limit == Limit[k[1]]
             ttl == TtlMs[k[1]]
             last == Len(a)
             low == last - 2 * limit + 2
  <2>1. a \in Seq(Nat) /\ now \in Nat BY <1>1, CallsTyped DEF IInv
  <2>2. limit \in Nat \ {0} /\ ttl \in Nat \ {0} BY Options
  <2>3. last \in Nat /\ low \in Int BY <2>1, <2>2
  <2>4. Ordered(a, now) /\ Spaced(a, limit, ttl) BY <1>1 DEF IInv, WindowInv
  <2>5. \A i \in 1 .. last : a[i] \in Nat BY <2>1
  <2>6. Recent(k) = {i \in 1 .. last : a[i] > now - ttl} BY <2>1 DEF Recent
  <2>7. ASSUME NEW i \in Recent(k), i < low PROVE FALSE
    <3> DEFINE j == low - 1
    <3>1. i \in 1 .. last /\ a[i] > now - ttl BY <2>6, <2>7
    <3>2. j \in 1 .. last /\ i <= j /\ last \in 1 .. last BY <2>2, <2>3, <2>7, <3>1
    <3>3. last = j + 2 * limit - 1 BY <2>2, <2>3
    <3> HIDE DEF a, last, low, j
    <3>4. a[i] <= a[j] BY <2>4, <3>1, <3>2 DEF Ordered, last
    <3>5. a[j] + ttl <= a[last] BY <2>4, <3>2, <3>3 DEF Spaced, last
    <3>6. a[last] <= now BY <2>4, <3>2 DEF Ordered, last
    <3>7. a[i] \in Nat /\ a[j] \in Nat /\ a[last] \in Nat BY <2>5, <3>1, <3>2
    <3> QED BY <2>1, <2>2, <3>1, <3>4, <3>5, <3>6, <3>7
  <2>8. Recent(k) \subseteq low .. last BY <2>3, <2>6, <2>7
  <2>9. low <= last /\ last - low + 1 = 2 * limit - 1 BY <2>2, <2>3
  <2> HIDE DEF low, last
  <2>10. /\ Cardinality(Recent(k)) <= Cardinality(low .. last)
         /\ Cardinality(low .. last) = last - low + 1
    <3>1. IsFiniteSet(low .. last) BY <2>3, FS_Interval
    <3>2. Cardinality(low .. last) = last - low + 1 BY <2>3, <2>9, FS_Interval
    <3> QED BY <2>8, <3>1, <3>2, FS_Subset
  <2>11. Cardinality(Recent(k)) \in Nat BY <1>1, RecentFinite, FS_CardinalityType
  <2> QED BY <2>2, <2>3, <2>9, <2>10, <2>11
<1>2. IInv => FewerThanTwiceTheLimit BY <1>1 DEF FewerThanTwiceTheLimit
<1> QED BY <1>2, Invariance, PTL

\* A caller who is refused was let through `limit` times within the last ttlMs.
THEOREM RefusalsHaveCause == Spec => RefusedForCause
<1> DEFINE Cause(k) ==
      attempts'[k] # attempts[k] /\ attempts'[k] # None /\ now' = now /\ admitted' = admitted =>
        Cardinality(Recent(k)) >= Limit[k[1]]
<1>1. ASSUME IInv, [Next]_vars, NEW k \in Key PROVE Cause(k)
  <2> SUFFICES ASSUME attempts'[k] # attempts[k], attempts'[k] # None,
                      now' = now, admitted' = admitted
               PROVE  Cardinality(Recent(k)) >= Limit[k[1]]
    OBVIOUS
  <2> DEFINE a == admitted[k]
             limit == Limit[k[1]]
             ttl == TtlMs[k[1]]
             last == Len(a)
             low == last - limit + 1
             entry == Counted(GetEntry(k))
  <2>1. a \in Seq(Nat) /\ now \in Nat /\ TypeOK BY <1>1, CallsTyped DEF IInv
  <2>2. limit \in Nat \ {0} /\ ttl \in Nat \ {0} BY Options
  <2>3. PICK q \in Key : CanActivate(q) BY <1>1 DEF Next, Tick, vars
  <2>4. q = k BY <2>1, <2>3, CalledKey
  <2>5. CanActivate(k) BY <2>3, <2>4
  <2>6. Refused(k, entry)
    <3> SUFFICES ASSUME ~Refused(k, entry) PROVE FALSE OBVIOUS
    <3>1. admitted' = [admitted EXCEPT ![k] = Append(@, now)] BY <2>5 DEF CanActivate
    <3>2. admitted'[k] = Append(a, now) BY <2>1, <3>1 DEF TypeOK
    <3>3. Len(Append(a, now)) = last + 1 BY <2>1, AppendProperties
    <3> QED BY <2>1, <3>2, <3>3
  <2>7. ~(attempts[k] = None \/ Expired(attempts[k]))
    <3> SUFFICES ASSUME attempts[k] = None \/ Expired(attempts[k]) PROVE FALSE OBVIOUS
    <3>1. entry.count = 1 BY DEF GetEntry, Counted
    <3> QED BY <2>2, <2>6, <3>1 DEF Refused
  <2>8. entry = [attempts[k] EXCEPT !.count = @ + 1] /\ attempts[k] \in Entry
    BY <2>1, <2>7, CallsTyped DEF GetEntry, Counted
  <2>9. attempts[k].count \in Nat /\ attempts[k].resetAt \in Nat
        /\ entry.count = attempts[k].count + 1
    BY <2>8 DEF Entry
  <2>10. attempts[k].count >= limit BY <2>2, <2>6, <2>9 DEF Refused
  <2>11. InWindow(limit, attempts[k]) = limit BY <2>2, <2>9, <2>10 DEF InWindow
  <2>12. Opened(a, limit, ttl, attempts[k]) /\ Ordered(a, now) BY <1>1, <2>7 DEF IInv, WindowInv
  <2>13. low >= 1 /\ a[low] = attempts[k].resetAt - ttl BY <2>11, <2>12 DEF Opened
  <2>14. attempts[k].resetAt > now BY <2>1, <2>7, <2>9 DEF Expired
  <2>15. last \in Nat /\ low \in 1 .. last BY <2>1, <2>2, <2>13
  <2>16. ASSUME NEW i \in low .. last PROVE i \in Recent(k)
    <3>1. i \in 1 .. last /\ low <= i BY <2>15
    <3>2. a[low] <= a[i] BY <2>12, <2>15, <3>1 DEF Ordered
    <3>3. a[low] \in Nat /\ a[i] \in Nat BY <2>1, <2>15, <3>1
    <3> HIDE DEF low
    <3>4. a[i] > now - ttl BY <2>1, <2>2, <2>9, <2>13, <2>14, <3>2, <3>3
    <3> QED BY <2>1, <3>1, <3>4 DEF Recent
  <2>17. low .. last \subseteq Recent(k) BY <2>16
  <2>18. Cardinality(low .. last) <= Cardinality(Recent(k))
    BY <1>1, <2>17, RecentFinite, FS_Subset
  <2>19. Cardinality(low .. last) = limit
    <3>1. last - low + 1 = limit /\ low <= last BY <2>2, <2>15
    <3> HIDE DEF low, last
    <3>2. last \in Int /\ low \in Int BY <2>15
    <3> QED BY <3>1, <3>2, FS_Interval
  <2>20. Cardinality(Recent(k)) \in Nat BY <1>1, RecentFinite, FS_CardinalityType
  <2> QED BY <2>2, <2>18, <2>19, <2>20
<1>2. IInv /\ [Next]_vars => [\A k \in Key : Cause(k)]_vars BY <1>1
<1> QED BY <1>2, Invariance, PTL DEF Spec, RefusedForCause
=============================================================================
