----------------------------- MODULE ChainProofs -----------------------------
(* Proofs about what stands around a handler: guards, interceptors, middleware and the pipes and   *)
(* lookups an action reads its request through, for any chains, requests and answers.              *)
EXTENDS Guards, Interceptors, Onion, Pipes, FiniteSetTheorems, WellFoundedInduction, TLAPS

-----------------------------------------------------------------------------
(* Guards: admissions of a key, by time. *)

Keys == {ThrottleKey(r) : r \in GuardRequests}

From(list, key, a) == {i \in DOMAIN list : list[i][1] = key /\ list[i][2] >= a}
Within(list, key, a, b) == {i \in DOMAIN list : list[i][1] = key /\ list[i][2] > a /\ list[i][2] <= b}

\* An entry of the storage counts no more than was admitted since its window was opened.
CountsAdmitted(list, key, w) == w.count <= Cardinality(From(list, key, w.started))

\* What holds when all requests of a key agree on limit and ttl: the entry counts everything since
\* its window was opened; the span before it, and every earlier span, kept to the bound.
KeepsBound(list, key, w, limit, ttl) ==
  /\ w.count = Cardinality(From(list, key, w.started)) /\ w.count <= limit
  /\ \A i \in DOMAIN list : list[i][1] = key => list[i][2] < w.started + ttl
  /\ Cardinality(Within(list, key, w.started - ttl, w.started - 1)) <= limit
  /\ \A t \in Nat : t < w.started => Cardinality(Within(list, key, t - ttl, t)) <= 2 * limit

GuardsTyped ==
  /\ chain \in Chains
  /\ gnow \in Nat
  /\ admitted \in Seq(Keys \X Nat)
  /\ \A i \in DOMAIN admitted : admitted[i][2] <= gnow /\ admitted[i][1] \in DOMAIN windows
  /\ DOMAIN windows \subseteq Keys
  /\ \A k \in DOMAIN windows : windows[k] \in [started : Nat, count : Nat] /\ windows[k].started <= gnow

AllCounted == \A k \in DOMAIN windows : CountsAdmitted(admitted, k, windows[k])

AllBounded ==
  ThrottlerAt # 0 => \A k \in DOMAIN windows : \A p \in Policy(k) :
    Policy(k) = {p} => KeepsBound(admitted, k, windows[k], p[1], p[2])

VerdictTyped ==
  verdict.by = "throttler" =>
    ThrottlerAt # 0 /\ verdict.at \in Nat /\ verdict.request \in GuardRequests

GuardsInv == GuardsTyped /\ AllCounted /\ AllBounded /\ VerdictTyped /\ RefusalsEarned

\* Sets of admissions are finite.
LEMMA AdmissionsFinite ==
  ASSUME NEW K, NEW list \in Seq(K \X Nat), NEW T, T \subseteq DOMAIN list
  PROVE  IsFiniteSet(T) /\ Cardinality(T) \in Nat
<1>1. IsFiniteSet(DOMAIN list)
  BY FS_Interval, DOMAIN list = 1 .. Len(list), Len(list) \in Nat
<1>2. IsFiniteSet(T)
  BY <1>1, FS_Subset
<1> QED
  BY <1>2, FS_CardinalityType

LEMMA AdmissionsMonotone ==
  ASSUME NEW K, NEW list \in Seq(K \X Nat), NEW T, T \subseteq DOMAIN list, NEW U, U \subseteq T
  PROVE  Cardinality(U) <= Cardinality(T)
<1>1. IsFiniteSet(T)
  BY AdmissionsFinite
<1> QED
  BY <1>1, FS_Subset

LEMMA AdmissionsUnited ==
  ASSUME NEW K, NEW list \in Seq(K \X Nat), NEW T, T \subseteq DOMAIN list, NEW U, U \subseteq DOMAIN list
  PROVE  Cardinality(T \cup U) <= Cardinality(T) + Cardinality(U)
<1>1. IsFiniteSet(T) /\ IsFiniteSet(U) /\ IsFiniteSet(T \cap U)
  BY AdmissionsFinite, T \cap U \subseteq DOMAIN list
<1>2. Cardinality(T \cup U) = Cardinality(T) + Cardinality(U) - Cardinality(T \cap U)
  BY <1>1, FS_Union
<1>3. Cardinality(T) \in Nat /\ Cardinality(U) \in Nat /\ Cardinality(T \cap U) \in Nat
  BY <1>1, FS_CardinalityType
<1> QED
  BY <1>2, <1>3

\* One more admission of a key counts in every span that is still open, and in none that has
\* passed; those of other keys are what they were.
LEMMA AdmissionCounted ==
  ASSUME NEW K, NEW list \in Seq(K \X Nat), NEW key \in K, NEW now \in Nat, NEW a \in Nat, a <= now
  PROVE  Cardinality(From(Append(list, <<key, now>>), key, a)) = Cardinality(From(list, key, a)) + 1
<1> DEFINE n == Len(list)  longer == Append(list, <<key, now>>)
<1>1. n \in Nat /\ DOMAIN list = 1 .. n /\ DOMAIN longer = 1 .. (n + 1) /\ n + 1 \notin DOMAIN list
  OBVIOUS
<1>2. \A i \in DOMAIN list : longer[i] = list[i]
  OBVIOUS
<1>3. longer[n + 1] = <<key, now>>
  OBVIOUS
<1>4. From(longer, key, a) = From(list, key, a) \cup {n + 1}
  <2>1. n + 1 \in From(longer, key, a)
    BY <1>1, <1>3 DEF From
  <2>2. \A i \in DOMAIN list : i \in From(longer, key, a) <=> i \in From(list, key, a)
    BY <1>1, <1>2 DEF From
  <2>3. From(longer, key, a) \subseteq DOMAIN list \cup {n + 1} /\ From(list, key, a) \subseteq DOMAIN list
    BY <1>1 DEF From
  <2> QED
    BY <2>1, <2>2, <2>3
<1>5. From(list, key, a) \subseteq DOMAIN list
  BY DEF From
<1>6. n + 1 \notin From(list, key, a) /\ IsFiniteSet(From(list, key, a))
  BY <1>1, <1>5, AdmissionsFinite
<1> QED
  BY <1>4, <1>6, FS_AddElement

LEMMA AdmissionElsewhere ==
  ASSUME NEW K, NEW list \in Seq(K \X Nat), NEW key \in K, NEW now \in Nat, NEW other, other # key, NEW a
  PROVE  From(Append(list, <<key, now>>), other, a) = From(list, other, a)
<1> DEFINE n == Len(list)  longer == Append(list, <<key, now>>)
<1>1. n \in Nat /\ DOMAIN list = 1 .. n /\ DOMAIN longer = 1 .. (n + 1)
  OBVIOUS
<1>2. \A i \in DOMAIN list : longer[i] = list[i]
  OBVIOUS
<1>3. longer[n + 1] = <<key, now>>
  OBVIOUS
<1>4. \A i \in DOMAIN longer : i \in DOMAIN list \/ i = n + 1
  BY <1>1
<1>5. DOMAIN list \subseteq DOMAIN longer
  BY <1>1
<1> HIDE DEF n, longer
<1> QED
  BY <1>2, <1>3, <1>4, <1>5 DEF From, longer

LEMMA AdmissionLater ==
  ASSUME NEW K, NEW list \in Seq(K \X Nat), NEW key \in K, NEW now \in Nat, NEW other,
         NEW a, NEW b \in Int, other # key \/ b < now
  PROVE  Within(Append(list, <<key, now>>), other, a, b) = Within(list, other, a, b)
<1> DEFINE n == Len(list)  longer == Append(list, <<key, now>>)
<1>1. n \in Nat /\ DOMAIN list = 1 .. n /\ DOMAIN longer = 1 .. (n + 1)
  OBVIOUS
<1>2. \A i \in DOMAIN list : longer[i] = list[i]
  OBVIOUS
<1>3. longer[n + 1] = <<key, now>>
  OBVIOUS
<1>4. \A i \in DOMAIN longer : i \in DOMAIN list \/ i = n + 1
  BY <1>1
<1>5. DOMAIN list \subseteq DOMAIN longer
  BY <1>1
<1>6. longer[n + 1][1] = key /\ longer[n + 1][2] = now
  BY <1>3
<1>7. n + 1 \notin Within(longer, other, a, b)
  BY <1>6 DEF Within
<1> HIDE DEF n, longer
<1>8. Within(longer, other, a, b) = Within(list, other, a, b)
  BY <1>2, <1>4, <1>5, <1>7 DEF Within
<1> QED
  BY <1>8 DEF longer

Opened(now) == [started |-> now, count |-> 0]

\* A key whose window starts again at `now`: what its last window counted is the span before.
LEMMA BoundReopened ==
  ASSUME NEW K, NEW list \in Seq(K \X Nat), NEW key \in K, NEW now \in Nat,
         NEW w \in [started : Nat, count : Nat], NEW limit \in Nat, NEW ttl \in Nat, ttl > 0,
         KeepsBound(list, key, w, limit, ttl), now - w.started >= ttl
  PROVE  KeepsBound(list, key, Opened(now), limit, ttl)
<1> DEFINE s == w.started  before == From(list, key, s)
<1>1. s \in Nat /\ w.count \in Nat
  OBVIOUS
<1>2. before \subseteq DOMAIN list /\ Cardinality(before) <= limit /\ Cardinality(before) \in Nat
  <2>1. before \subseteq DOMAIN list
    BY DEF From
  <2> QED
    BY <2>1, AdmissionsFinite DEF KeepsBound
<1>3. \A i \in DOMAIN list : list[i][2] \in Nat
  OBVIOUS
<1>4. \A i \in DOMAIN list : list[i][1] = key => list[i][2] < now
  BY <1>1, <1>3 DEF KeepsBound
<1>5. From(list, key, now) = {}
  BY <1>3, <1>4 DEF From
<1>6. Within(list, key, now - ttl, now - 1) \subseteq before
  BY <1>1, <1>3 DEF Within, From
<1>7. Cardinality(Within(list, key, now - ttl, now - 1)) <= limit
  <2>1. Cardinality(Within(list, key, now - ttl, now - 1)) <= Cardinality(before)
    BY <1>2, <1>6, AdmissionsMonotone
  <2>2. Cardinality(Within(list, key, now - ttl, now - 1)) \in Nat
    BY <1>2, <1>6, AdmissionsFinite
  <2> QED
    BY <2>1, <2>2, <1>2
<1>8. ASSUME NEW t \in Nat, t < now
      PROVE  Cardinality(Within(list, key, t - ttl, t)) <= 2 * limit
  <2> DEFINE older == Within(list, key, s - ttl, s - 1)  span == Within(list, key, t - ttl, t)
  <2>1. CASE t < s
    BY <2>1 DEF KeepsBound
  <2>2. CASE t >= s
    <3>1. span \subseteq older \cup before
      BY <2>2, <1>1, <1>3 DEF Within, From
    <3>2. older \subseteq DOMAIN list
      BY DEF Within
    <3>3. older \cup before \subseteq DOMAIN list
      BY <1>2, <3>2
    <3>4. Cardinality(span) <= Cardinality(older \cup before)
      BY <3>1, <3>3, AdmissionsMonotone
    <3>5. Cardinality(older \cup before) <= Cardinality(older) + Cardinality(before)
      BY <1>2, <3>2, AdmissionsUnited
    <3>6. Cardinality(older) <= limit
      BY DEF KeepsBound
    <3>7. Cardinality(older) \in Nat /\ Cardinality(older \cup before) \in Nat
      BY <3>2, <3>3, AdmissionsFinite
    <3>8. Cardinality(span) \in Nat
      BY <3>1, <3>3, AdmissionsFinite, span \subseteq DOMAIN list
    <3> HIDE DEF older, before, span
    <3>9. Cardinality(span) <= 2 * limit
      BY <3>4, <3>5, <3>6, <3>7, <3>8, <1>2
    <3> QED
      BY <3>9 DEF span
  <2> QED
    BY <2>1, <2>2, <1>1
<1>9. Cardinality(From(list, key, now)) = 0
  BY <1>5, FS_EmptySet
<1>10. \A i \in DOMAIN list : list[i][1] = key => list[i][2] < now + ttl
  BY <1>3, <1>4
<1> QED
  BY <1>7, <1>8, <1>9, <1>10 DEF KeepsBound, Opened

\* A key that was never admitted.
LEMMA BoundOpened ==
  ASSUME NEW K, NEW list \in Seq(K \X Nat), NEW key \in K, NEW now \in Nat,
         NEW limit \in Nat, NEW ttl \in Nat, \A i \in DOMAIN list : list[i][1] # key
  PROVE  KeepsBound(list, key, Opened(now), limit, ttl)
<1>1. Cardinality({}) = 0
  BY FS_EmptySet
<1>2. Cardinality(From(list, key, now)) = 0
  <2>1. From(list, key, now) = {}
    BY DEF From
  <2> QED
    BY <1>1, <2>1
<1>3. ASSUME NEW a, NEW b PROVE Cardinality(Within(list, key, a, b)) = 0
  <2>1. Within(list, key, a, b) = {}
    BY DEF Within
  <2> QED
    BY <1>1, <2>1
<1>4. ASSUME NEW t \in Nat PROVE Cardinality(Within(list, key, t - ttl, t)) <= 2 * limit
  <2>1. Cardinality(Within(list, key, t - ttl, t)) = 0
    BY <1>3
  <2> QED
    BY <2>1
<1>5. Cardinality(Within(list, key, now - ttl, now - 1)) = 0
  BY <1>3
<1> DEFINE w == Opened(now)
<1>6. w.count = 0 /\ w.started = now
  BY DEF Opened
<1> HIDE DEF w
<1>7. w.count = Cardinality(From(list, key, w.started)) /\ w.count <= limit
  BY <1>2, <1>6
<1>8. Cardinality(Within(list, key, w.started - ttl, w.started - 1)) <= limit
  BY <1>5, <1>6
<1>9. \A i \in DOMAIN list : list[i][1] = key => list[i][2] < w.started + ttl
  OBVIOUS
<1>10. \A t \in Nat : t < w.started => Cardinality(Within(list, key, t - ttl, t)) <= 2 * limit
  BY <1>4
<1>11. KeepsBound(list, key, w, limit, ttl)
  BY <1>7, <1>8, <1>9, <1>10 DEF KeepsBound
<1> QED
  BY <1>11 DEF w

\* One more admission, counted in the window that is open.
LEMMA BoundCounted ==
  ASSUME NEW K, NEW list \in Seq(K \X Nat), NEW key \in K, NEW now \in Nat,
         NEW w \in [started : Nat, count : Nat], NEW limit \in Nat, NEW ttl \in Nat,
         KeepsBound(list, key, w, limit, ttl), w.count < limit, w.started <= now, now - w.started < ttl
  PROVE  KeepsBound(Append(list, <<key, now>>), key, [started |-> w.started, count |-> w.count + 1], limit, ttl)
<1> DEFINE s == w.started  longer == Append(list, <<key, now>>)
<1>1. s \in Nat /\ w.count \in Nat
  OBVIOUS
<1>2. Cardinality(From(longer, key, s)) = w.count + 1
  BY <1>1, AdmissionCounted DEF KeepsBound
<1>3. ASSUME NEW i \in DOMAIN longer, longer[i][1] = key PROVE longer[i][2] < s + ttl
  <2>1. CASE i = Len(list) + 1
    BY <2>1, <1>1
  <2>2. CASE i \in DOMAIN list
    BY <2>2, <1>3 DEF KeepsBound
  <2> QED
    BY <2>1, <2>2
<1>4. Within(longer, key, s - ttl, s - 1) = Within(list, key, s - ttl, s - 1)
  BY <1>1, AdmissionLater
<1>5. ASSUME NEW t \in Nat, t < s PROVE Cardinality(Within(longer, key, t - ttl, t)) <= 2 * limit
  <2>1. Within(longer, key, t - ttl, t) = Within(list, key, t - ttl, t)
    BY <1>1, <1>5, AdmissionLater
  <2> QED
    BY <2>1, <1>5 DEF KeepsBound
<1> HIDE DEF longer
<1>6. w.count + 1 <= limit
  BY <1>1
<1>7. Cardinality(Within(longer, key, s - ttl, s - 1)) <= limit
  BY <1>4 DEF KeepsBound
<1>8. KeepsBound(longer, key, [started |-> s, count |-> w.count + 1], limit, ttl)
  BY <1>2, <1>3, <1>5, <1>6, <1>7 DEF KeepsBound
<1> QED
  BY <1>8 DEF longer

\* An admission under another key.
LEMMA BoundElsewhere ==
  ASSUME NEW K, NEW list \in Seq(K \X Nat), NEW key \in K, NEW now \in Nat, NEW other, other # key,
         NEW w \in [started : Nat, count : Nat], NEW limit \in Nat, NEW ttl \in Nat,
         KeepsBound(list, other, w, limit, ttl)
  PROVE  KeepsBound(Append(list, <<key, now>>), other, w, limit, ttl)
<1> DEFINE s == w.started  longer == Append(list, <<key, now>>)
<1>1. s \in Nat
  OBVIOUS
<1>2. From(longer, other, s) = From(list, other, s)
  BY AdmissionElsewhere
<1>3. ASSUME NEW i \in DOMAIN longer, longer[i][1] = other PROVE longer[i][2] < s + ttl
  <2>1. CASE i = Len(list) + 1
    BY <2>1, <1>3
  <2>2. CASE i \in DOMAIN list
    BY <2>2, <1>3 DEF KeepsBound
  <2> QED
    BY <2>1, <2>2
<1>4. Within(longer, other, s - ttl, s - 1) = Within(list, other, s - ttl, s - 1)
  BY <1>1, AdmissionLater
<1>5. ASSUME NEW t \in Nat, t < s PROVE Cardinality(Within(longer, other, t - ttl, t)) <= 2 * limit
  <2>1. Within(longer, other, t - ttl, t) = Within(list, other, t - ttl, t)
    BY <1>1, AdmissionLater
  <2> QED
    BY <2>1, <1>5 DEF KeepsBound
<1> HIDE DEF longer
<1>6. KeepsBound(longer, other, w, limit, ttl)
  BY <1>2, <1>3, <1>4, <1>5 DEF KeepsBound
<1> QED
  BY <1>6 DEF longer

-----------------------------------------------------------------------------
(* Guards: a request's way through its chain. *)

LEMMA LeastIndex ==
  ASSUME NEW S \in SUBSET Nat, S # {}
  PROVE  \E n \in S : \A m \in S : n <= m
<1> DEFINE Less == {p \in Nat \X Nat : p[1] < p[2]}
<1>1. OpToRel(<, Nat) = Less
  BY DEF OpToRel
<1>2. PICK n \in S : \A m \in S : <<m, n>> \notin Less
  BY <1>1, NatLessThanWellFounded, WFMin
<1>3. SUFFICES ASSUME NEW m \in S PROVE n <= m
  BY <1>2
<1>4. ~(m < n) /\ m \in Nat /\ n \in Nat
  BY <1>2
<1> QED
  BY <1>4

\* The chain's throttler is the one that stands at ThrottlerAt.
LEMMA SoleThrottler ==
  ASSUME chain \in Chains, NEW i \in DOMAIN chain, chain[i].kind = "throttler"
  PROVE  ThrottlerAt = i /\ ThrottlerAt # 0
<1>1. \A j \in DOMAIN chain : chain[j].kind = "throttler" => j = i
  BY ChainsAssumption
<1>2. {j \in DOMAIN chain : chain[j].kind = "throttler"} = {i}
  BY <1>1
<1>3. i # 0
  BY ChainsAssumption
<1> QED
  BY <1>2, <1>3 DEF ThrottlerAt

LEMMA ThrottlerStands ==
  ASSUME chain \in Chains, ThrottlerAt # 0
  PROVE  /\ ThrottlerAt \in DOMAIN chain
         /\ chain[ThrottlerAt].kind = "throttler"
         /\ chain[ThrottlerAt].limit \in Nat /\ chain[ThrottlerAt].ttl \in Nat
<1>1. {j \in DOMAIN chain : chain[j].kind = "throttler"} # {}
  BY DEF ThrottlerAt
<1>2. ThrottlerAt \in {j \in DOMAIN chain : chain[j].kind = "throttler"}
  BY <1>1 DEF ThrottlerAt
<1> QED
  BY <1>2, ChainsAssumption

LEMMA PolicyTyped ==
  ASSUME NEW g, g.limit \in Nat, g.ttl \in Nat, NEW r \in GuardRequests
  PROVE  EffectiveLimit(g, r) \in Nat /\ EffectiveTtl(g, r) \in Nat
<1>1. HasShared(r) /\ WellFormed(r.shared.limit) => r.shared.limit % Word \in Nat
  BY ChainsAssumption, GuardsAssumption
<1> QED
  BY <1>1, ChainsAssumption DEF EffectiveLimit, EffectiveTtl

\* The answer of a chain is its throttler's only when the throttler refuses.
LEMMA ThrottlerRefuses ==
  ASSUME chain \in Chains, NEW r \in GuardRequests, PassChain(r), verdict'.by = "throttler"
  PROVE  ThrottlerAt # 0 /\ ~Throttle(windows, chain[ThrottlerAt], r).admits
<1> DEFINE refuses(g) == CASE g.kind = "auth" -> ~AuthAllows(r)
                           [] g.kind = "roles" -> ~RolesAllows(r)
                           [] OTHER -> ~Throttle(windows, g, r).admits
           at == {i \in DOMAIN chain : refuses(chain[i])}
           stop == FirstRefusal(r, windows)
<1>1. stop = IF at = {} THEN Len(chain) + 1 ELSE CHOOSE i \in at : \A j \in at : i <= j
  BY DEF FirstRefusal
<1>2. DOMAIN chain = 1 .. Len(chain) /\ Len(chain) \in Nat
  BY ChainsAssumption
<1>3. verdict'.by = IF stop > Len(chain) THEN "nobody" ELSE chain[stop].kind
  BY DEF PassChain
<1>4. at # {}
  <2> HIDE DEF at
  <2> QED
    BY <1>1, <1>2, <1>3
<1>5. stop \in at
  <2>1. at \in SUBSET Nat
    BY <1>2
  <2> HIDE DEF at
  <2>2. \E i \in at : \A j \in at : i <= j
    BY <2>1, <1>4, LeastIndex
  <2> QED
    BY <2>2, <1>1, <1>4
<1>6. stop \in DOMAIN chain /\ refuses(chain[stop])
  BY <1>5
<1> HIDE DEF stop
<1>7. chain[stop].kind = "throttler"
  BY <1>2, <1>3, <1>6
<1>8. ThrottlerAt = stop /\ ThrottlerAt # 0
  BY <1>6, <1>7, SoleThrottler
<1> QED
  BY <1>6, <1>7, <1>8

\* The window in which a request is counted.
LEMMA WindowTyped ==
  ASSUME GuardsTyped, NEW key, NEW ttl
  PROVE  /\ Window(windows, key, ttl) \in [started : Nat, count : Nat]
         /\ Window(windows, key, ttl).started <= gnow
         /\ \/ Window(windows, key, ttl) = Opened(gnow)
            \/ /\ key \in DOMAIN windows /\ gnow - windows[key].started < ttl
               /\ Window(windows, key, ttl) = windows[key]
<1>1. gnow \in Nat /\ Opened(gnow) \in [started : Nat, count : Nat] /\ Opened(gnow).started = gnow
  BY DEF GuardsTyped, Opened
<1>2. CASE key \in DOMAIN windows /\ gnow - windows[key].started < ttl
  <2>1. Window(windows, key, ttl) = windows[key]
    BY <1>2 DEF Window
  <2> QED
    BY <1>2, <2>1 DEF GuardsTyped
<1>3. CASE ~(key \in DOMAIN windows /\ gnow - windows[key].started < ttl)
  <2>1. Window(windows, key, ttl) = Opened(gnow)
    BY <1>3 DEF Window, Opened
  <2>2. Opened(gnow).started <= gnow
    BY <1>1
  <2>3. Window(windows, key, ttl) \in [started : Nat, count : Nat]
    BY <1>1, <2>1
  <2>4. Window(windows, key, ttl).started <= gnow
    BY <2>1, <2>2
  <2> QED
    BY <2>1, <2>3, <2>4
<1> QED
  BY <1>2, <1>3

\* A request that is counted or refused by the throttler for what its window holds.
Metered(r, key, limit, ttl) ==
  LET w == Window(windows, key, ttl) IN
  /\ ThrottlerAt # 0
  /\ key = ThrottleKey(r)
  /\ limit = EffectiveLimit(chain[ThrottlerAt], r) /\ ttl = EffectiveTtl(chain[ThrottlerAt], r)
  /\ limit \in Nat /\ ttl \in Nat /\ limit > 0 /\ ttl > 0
  /\ windows' = [k \in DOMAIN windows \cup {key} |->
                   IF k = key THEN [started |-> w.started, count |-> IF w.count < limit THEN w.count + 1 ELSE w.count]
                   ELSE windows[k]]
  /\ admitted' = IF w.count < limit THEN Append(admitted, <<key, gnow>>) ELSE admitted

LEMMA PassMeters ==
  ASSUME GuardsTyped, NEW r \in GuardRequests, PassChain(r)
  PROVE  UNCHANGED <<windows, admitted>> \/ \E key \in Keys, limit, ttl \in Nat : Metered(r, key, limit, ttl)
<1> DEFINE g == chain[ThrottlerAt]  key == ThrottleKey(r)
           limit == EffectiveLimit(g, r)  ttl == EffectiveTtl(g, r)
           w == Window(windows, key, ttl)
           stop == FirstRefusal(r, windows)
           asked == ThrottlerAt # 0 /\ ThrottlerAt <= stop
           outcome == Throttle(windows, g, r)
<1>1. windows' = IF asked THEN outcome.windows ELSE windows
  BY DEF PassChain
<1>2. admitted' = IF asked /\ outcome.admits /\ ~Skips(r) THEN Append(admitted, <<key, gnow>>) ELSE admitted
  BY DEF PassChain
<1>3. CASE ~asked
  BY <1>1, <1>2, <1>3
<1>4. CASE asked /\ (~Configured(g) \/ Skips(r) \/ limit = 0 \/ ttl = 0)
  <2>1. outcome.windows = windows /\ (~outcome.admits \/ Skips(r))
    BY <1>4 DEF Throttle, Allow
  <2> HIDE DEF outcome, g, stop
  <2> QED
    BY <2>1, <1>1, <1>2
<1>5. CASE asked /\ Configured(g) /\ ~Skips(r) /\ limit # 0 /\ ttl # 0
  <2>1. g.limit \in Nat /\ g.ttl \in Nat
    BY <1>5, ThrottlerStands DEF GuardsTyped
  <2>2. limit \in Nat /\ ttl \in Nat
    BY <2>1, PolicyTyped
  <2>3. key \in Keys
    BY DEF Keys
  <2>4. w \in [started : Nat, count : Nat]
    BY WindowTyped
  <2> DEFINE kept == [w EXCEPT !.count = IF w.count < limit THEN @ + 1 ELSE @]
  <2>5. kept = [started |-> w.started, count |-> IF w.count < limit THEN w.count + 1 ELSE w.count]
    <3> HIDE DEF w
    <3> QED
      BY <2>4
  <2>6. outcome = Allow(windows, key, limit, ttl)
    BY <1>5 DEF Throttle
  <2>7. outcome = [windows |-> [k \in DOMAIN windows \cup {key} |-> IF k = key THEN kept ELSE windows[k]],
                   admits |-> w.count < limit]
    BY <2>6, <1>5 DEF Allow, HasRoom
  <2> HIDE DEF outcome, kept, w
  <2>8. outcome.windows = [k \in DOMAIN windows \cup {key} |-> IF k = key THEN kept ELSE windows[k]]
    BY <2>7
  <2>9. outcome.admits = (w.count < limit)
    BY <2>7
  <2>10. admitted' = IF w.count < limit THEN Append(admitted, <<key, gnow>>) ELSE admitted
    BY <1>2, <1>5, <2>9
  <2>11. windows' = [k \in DOMAIN windows \cup {key} |->
                      IF k = key THEN [started |-> w.started, count |-> IF w.count < limit THEN w.count + 1 ELSE w.count]
                      ELSE windows[k]]
    BY <1>1, <1>5, <2>5, <2>8
  <2>12. Metered(r, key, limit, ttl)
    BY <1>5, <2>2, <2>10, <2>11 DEF Metered, w
  <2> QED
    BY <2>2, <2>3, <2>12
<1> QED
  BY <1>3, <1>4, <1>5

\* The metered key's entry after its request.
After(w, limit) == [started |-> w.started, count |-> IF w.count < limit THEN w.count + 1 ELSE w.count]

LEMMA MeteredEntries ==
  ASSUME NEW r, NEW key, NEW limit, NEW ttl, Metered(r, key, limit, ttl)
  PROVE  /\ DOMAIN windows' = DOMAIN windows \cup {key}
         /\ windows'[key] = After(Window(windows, key, ttl), limit)
         /\ \A k \in DOMAIN windows : k # key => windows'[k] = windows[k]
BY DEF Metered, After

LEMMA MeteredTyped ==
  ASSUME GuardsTyped, NEW r \in GuardRequests, NEW key \in Keys, NEW limit \in Nat, NEW ttl \in Nat,
         Metered(r, key, limit, ttl), UNCHANGED <<chain, gnow>>
  PROVE  GuardsTyped'
<1> DEFINE w == Window(windows, key, ttl)
<1>1. w \in [started : Nat, count : Nat] /\ w.started <= gnow
  BY WindowTyped
<1>2. gnow \in Nat /\ admitted \in Seq(Keys \X Nat)
  BY DEF GuardsTyped
<1>3. admitted' = admitted \/ admitted' = Append(admitted, <<key, gnow>>)
  BY DEF Metered
<1>4. admitted' \in Seq(Keys \X Nat)
  <2>1. <<key, gnow>> \in Keys \X Nat
    BY <1>2
  <2>2. Append(admitted, <<key, gnow>>) \in Seq(Keys \X Nat)
    BY <1>2, <2>1
  <2> QED
    BY <1>2, <1>3, <2>2
<1>5. ASSUME NEW i \in DOMAIN admitted'
      PROVE  admitted'[i][2] <= gnow /\ admitted'[i][1] \in DOMAIN windows \cup {key}
  <2>1. CASE i \in DOMAIN admitted
    <3>1. i \in 1 .. Len(admitted)
      BY <2>1, <1>2
    <3>2. Append(admitted, <<key, gnow>>)[i] = admitted[i]
      BY <1>2, <3>1
    <3>3. admitted'[i] = admitted[i]
      BY <1>3, <3>2
    <3> QED
      BY <2>1, <3>3 DEF GuardsTyped
  <2>2. CASE i \notin DOMAIN admitted
    <3> DEFINE longer == Append(admitted, <<key, gnow>>)
    <3>1. admitted' = longer /\ i \in DOMAIN longer
      BY <2>2, <1>3, <1>5
    <3>2. DOMAIN longer = 1 .. (Len(admitted) + 1) /\ DOMAIN admitted = 1 .. Len(admitted)
          /\ longer[Len(admitted) + 1] = <<key, gnow>> /\ Len(admitted) \in Nat
      BY <1>2
    <3> HIDE DEF longer
    <3>3. i = Len(admitted) + 1
      BY <2>2, <3>1, <3>2
    <3> QED
      BY <3>1, <3>2, <3>3, <1>2
  <2> QED
    BY <2>1, <2>2
<1> HIDE DEF w
<1>6. After(w, limit) \in [started : Nat, count : Nat] /\ After(w, limit).started <= gnow
  BY <1>1 DEF After
<1>7. /\ DOMAIN windows' = DOMAIN windows \cup {key}
      /\ windows'[key] = After(w, limit)
      /\ \A k \in DOMAIN windows : k # key => windows'[k] = windows[k]
  BY MeteredEntries DEF w
<1>8. ASSUME NEW k \in DOMAIN windows'
      PROVE  windows'[k] \in [started : Nat, count : Nat] /\ windows'[k].started <= gnow
  <2>1. CASE k = key
    BY <2>1, <1>6, <1>7
  <2>2. CASE k # key
    <3>1. k \in DOMAIN windows /\ windows'[k] = windows[k]
      BY <2>2, <1>7, <1>8
    <3> QED
      BY <3>1 DEF GuardsTyped
  <2> QED
    BY <2>1, <2>2
<1> QED
  BY <1>4, <1>5, <1>7, <1>8 DEF GuardsTyped

\* No entry counts more than was admitted.
LEMMA MeteredCounted ==
  ASSUME GuardsTyped, AllCounted, NEW r \in GuardRequests, NEW key \in Keys, NEW limit \in Nat,
         NEW ttl \in Nat, Metered(r, key, limit, ttl)
  PROVE  AllCounted'
<1> DEFINE w == Window(windows, key, ttl)
<1>1. w \in [started : Nat, count : Nat] /\ w.started <= gnow
  BY WindowTyped
<1>2. gnow \in Nat /\ admitted \in Seq(Keys \X Nat)
  BY DEF GuardsTyped
<1>3. From(admitted, key, w.started) \subseteq DOMAIN admitted
  BY DEF From
<1>4. Cardinality(From(admitted, key, w.started)) \in Nat
  BY <1>2, <1>3, AdmissionsFinite
<1>5. w.count <= Cardinality(From(admitted, key, w.started))
  <2>1. CASE w = Opened(gnow)
    BY <2>1, <1>4 DEF Opened
  <2>2. CASE key \in DOMAIN windows /\ w = windows[key]
    BY <2>2 DEF AllCounted, CountsAdmitted
  <2> QED
    BY <2>1, <2>2, WindowTyped
<1> HIDE DEF w
<1>6. CASE w.count < limit
  <2>1. admitted' = Append(admitted, <<key, gnow>>)
    BY <1>6 DEF Metered, w
  <2>2. windows'[key] = [started |-> w.started, count |-> w.count + 1]
    BY <1>6, MeteredEntries DEF After, w
  <2>3. Cardinality(From(admitted', key, w.started)) = Cardinality(From(admitted, key, w.started)) + 1
    BY <2>1, <1>1, <1>2, AdmissionCounted
  <2>4. CountsAdmitted(admitted', key, windows'[key])
    BY <2>2, <2>3, <1>1, <1>4, <1>5 DEF CountsAdmitted
  <2>5. ASSUME NEW k \in DOMAIN windows, k # key PROVE CountsAdmitted(admitted', k, windows'[k])
    <3>1. windows'[k] = windows[k]
      BY <2>5, MeteredEntries
    <3>2. From(admitted', k, windows[k].started) = From(admitted, k, windows[k].started)
      BY <2>1, <2>5, <1>2, AdmissionElsewhere
    <3> QED
      BY <3>1, <3>2 DEF AllCounted, CountsAdmitted
  <2>6. DOMAIN windows' = DOMAIN windows \cup {key}
    BY MeteredEntries
  <2> QED
    BY <2>4, <2>5, <2>6 DEF AllCounted
<1>7. CASE ~(w.count < limit)
  <2>1. admitted' = admitted /\ windows'[key] = [started |-> w.started, count |-> w.count]
    BY <1>7, MeteredEntries DEF After, w, Metered
  <2>2. CountsAdmitted(admitted', key, windows'[key])
    BY <2>1, <1>5 DEF CountsAdmitted
  <2> QED
    BY <2>1, <2>2, MeteredEntries, ZenonT(40) DEF AllCounted
<1> QED
  BY <1>6, <1>7

\* Every key whose requests agree keeps to its bound.
LEMMA MeteredBounded ==
  ASSUME GuardsTyped, AllBounded, NEW r \in GuardRequests, NEW key \in Keys, NEW limit \in Nat,
         NEW ttl \in Nat, Metered(r, key, limit, ttl), UNCHANGED chain
  PROVE  AllBounded'
<1> DEFINE w == Window(windows, key, ttl)
<1>1. w \in [started : Nat, count : Nat] /\ w.started <= gnow
  BY WindowTyped
<1>2. gnow \in Nat /\ admitted \in Seq(Keys \X Nat) /\ chain \in Chains
  BY DEF GuardsTyped
<1>3. SUFFICES ASSUME NEW k \in DOMAIN windows', NEW p \in Policy(k)', (Policy(k) = {p})'
               PROVE  KeepsBound(admitted', k, windows'[k], p[1], p[2])
  BY DEF AllBounded
<1>4. Policy(k)' = Policy(k)
  BY DEF Policy, ThrottlerAt, EffectiveLimit, EffectiveTtl
<1>5. p \in Policy(k) /\ Policy(k) = {p} /\ ThrottlerAt # 0
  BY <1>3, <1>4 DEF Metered
<1>6. p[1] \in Nat /\ p[2] \in Nat
  <2>1. chain[ThrottlerAt].limit \in Nat /\ chain[ThrottlerAt].ttl \in Nat
    BY <1>2, <1>5, ThrottlerStands
  <2> QED
    BY <1>5, <2>1, PolicyTyped DEF Policy
<1>7. CASE k = key
  <2>1. <<limit, ttl>> \in Policy(key)
    BY DEF Policy, Metered
  <2>2. p[1] = limit /\ p[2] = ttl
    BY <1>5, <1>7, <2>1
  <2>3. limit > 0 /\ ttl > 0
    BY DEF Metered
  <2>4. KeepsBound(admitted, key, w, limit, ttl) /\ gnow - w.started < ttl
    <3>1. CASE key \in DOMAIN windows /\ gnow - windows[key].started < ttl
      <4>1. w = windows[key]
        BY <3>1 DEF Window
      <4>2. KeepsBound(admitted, key, windows[key], limit, ttl)
        BY <3>1, <1>5, <1>7, <2>2 DEF AllBounded
      <4> QED
        BY <4>1, <4>2, <3>1
    <3>2. CASE key \in DOMAIN windows /\ ~(gnow - windows[key].started < ttl)
      <4>1. w = Opened(gnow)
        BY <3>2 DEF Window, Opened
      <4>2. KeepsBound(admitted, key, windows[key], limit, ttl)
        BY <3>2, <1>5, <1>7, <2>2 DEF AllBounded
      <4>3. windows[key] \in [started : Nat, count : Nat]
        BY <3>2 DEF GuardsTyped
      <4>4. gnow - windows[key].started >= ttl
        BY <3>2, <4>3, <1>2
      <4>5. KeepsBound(admitted, key, Opened(gnow), limit, ttl)
        BY <4>2, <4>3, <4>4, <1>2, <2>3, BoundReopened
      <4>6. gnow - Opened(gnow).started < ttl
        BY <1>2, <2>3 DEF Opened
      <4> QED
        BY <4>1, <4>5, <4>6
    <3>3. CASE key \notin DOMAIN windows
      <4>1. w = Opened(gnow)
        BY <3>3 DEF Window, Opened
      <4>2. \A i \in DOMAIN admitted : admitted[i][1] # key
        BY <3>3 DEF GuardsTyped
      <4>3. KeepsBound(admitted, key, Opened(gnow), limit, ttl)
        BY <4>2, <1>2, BoundOpened
      <4>4. gnow - Opened(gnow).started < ttl
        BY <1>2, <2>3 DEF Opened
      <4> QED
        BY <4>1, <4>3, <4>4
    <3> QED
      BY <3>1, <3>2, <3>3
  <2> HIDE DEF w
  <2>5. CASE w.count < limit
    <3>1. admitted' = Append(admitted, <<key, gnow>>)
      BY <2>5 DEF Metered, w
    <3>2. windows'[key] = [started |-> w.started, count |-> w.count + 1]
      BY <2>5, MeteredEntries DEF After, w
    <3>3. KeepsBound(Append(admitted, <<key, gnow>>), key, [started |-> w.started, count |-> w.count + 1], limit, ttl)
      BY <2>4, <2>5, <1>1, <1>2, BoundCounted
    <3> QED
      BY <3>1, <3>2, <3>3, <2>2, <1>7
  <2>6. CASE ~(w.count < limit)
    <3>1. admitted' = admitted /\ windows'[key] = [started |-> w.started, count |-> w.count]
      BY <2>6, MeteredEntries DEF After, w, Metered
    <3>2. windows'[key] = w
      BY <3>1, <1>1
    <3> QED
      BY <3>1, <3>2, <2>2, <2>4, <1>7
  <2> QED
    BY <2>5, <2>6
<1>8. CASE k # key
  <2>1. DOMAIN windows' = DOMAIN windows \cup {key}
        /\ \A l \in DOMAIN windows : l # key => windows'[l] = windows[l]
    BY MeteredEntries
  <2>2. k \in DOMAIN windows /\ windows'[k] = windows[k]
    BY <1>3, <1>8, <2>1
  <2>3. KeepsBound(admitted, k, windows[k], p[1], p[2])
    BY <2>2, <1>5 DEF AllBounded
  <2>4. windows[k] \in [started : Nat, count : Nat]
    BY <2>2 DEF GuardsTyped
  <2>5. KeepsBound(Append(admitted, <<key, gnow>>), k, windows[k], p[1], p[2])
    BY <2>3, <2>4, <1>2, <1>6, <1>8, BoundElsewhere
  <2>6. admitted' = admitted \/ admitted' = Append(admitted, <<key, gnow>>)
    BY DEF Metered
  <2> QED
    BY <2>2, <2>3, <2>5, <2>6
<1> QED
  BY <1>7, <1>8

\* Whoever is refused by the throttler has met a full window of its own ttl.
LEMMA RefusalEarned ==
  ASSUME GuardsTyped, AllCounted, NEW r \in GuardRequests, PassChain(r)
  PROVE  VerdictTyped' /\ RefusalsEarned'
<1>1. SUFFICES ASSUME verdict'.by = "throttler" PROVE VerdictTyped' /\ RefusalsEarned'
  BY DEF VerdictTyped, RefusalsEarned
<1> DEFINE g == chain[ThrottlerAt]  key == ThrottleKey(r)
           limit == EffectiveLimit(g, r)  ttl == EffectiveTtl(g, r)
           w == Window(windows, key, ttl)
<1>2. chain \in Chains /\ gnow \in Nat /\ admitted \in Seq(Keys \X Nat)
  BY DEF GuardsTyped
<1>3. ThrottlerAt # 0 /\ ~Throttle(windows, g, r).admits
  BY <1>1, <1>2, ThrottlerRefuses
<1>4. chain' = chain /\ verdict'.request = r /\ verdict'.at = gnow
  BY DEF PassChain
<1>5. VerdictTyped'
  BY <1>2, <1>3, <1>4 DEF VerdictTyped, ThrottlerAt
<1>6. g.limit \in Nat /\ g.ttl \in Nat /\ limit \in Nat /\ ttl \in Nat
  <2>1. g.limit \in Nat /\ g.ttl \in Nat
    BY <1>2, <1>3, ThrottlerStands
  <2> QED
    BY <2>1, PolicyTyped
<1>7. admitted' = admitted
  BY <1>3 DEF PassChain
<1>8. CASE ~Configured(g) \/ limit = 0 \/ ttl = 0
  BY <1>4, <1>5, <1>8 DEF RefusalsEarned, ThrottlerAt, Configured, EffectiveLimit, EffectiveTtl
<1>9. CASE Configured(g) /\ limit # 0 /\ ttl # 0
  <2>1. ~Skips(r) /\ ~Allow(windows, key, limit, ttl).admits
    BY <1>3, <1>9 DEF Throttle
  <2>2. w \in [started : Nat, count : Nat]
    BY WindowTyped
  <2>3. ~(w.count < limit)
    BY <2>1, <1>9 DEF Allow, HasRoom
  <2>4. w # Opened(gnow)
    BY <2>3, <1>6, <1>9 DEF Opened
  <2>5. key \in DOMAIN windows /\ gnow - windows[key].started < ttl /\ w = windows[key]
    BY <2>4, WindowTyped
  <2> DEFINE since == From(admitted, key, windows[key].started)  span == Recent(key, gnow - ttl)
  <2>6. limit <= windows[key].count /\ windows[key].count \in Nat /\ windows[key].started \in Nat
    BY <2>2, <2>3, <2>5, <1>6
  <2>7. windows[key].count <= Cardinality(since)
    BY <2>5 DEF AllCounted, CountsAdmitted
  <2>8. since \subseteq span
    <3>1. \A i \in DOMAIN admitted : admitted[i][2] \in Nat
      BY <1>2
    <3> QED
      BY <3>1, <2>5, <2>6, <1>2, <1>6 DEF From, Recent
  <2>9. span \subseteq DOMAIN admitted
    BY DEF Recent
  <2>10. Cardinality(since) <= Cardinality(span)
    BY <1>2, <2>8, <2>9, AdmissionsMonotone
  <2>11. Cardinality(since) \in Nat /\ Cardinality(span) \in Nat
    <3>1. since \subseteq DOMAIN admitted
      BY DEF From
    <3> QED
      BY <1>2, <2>9, <3>1, AdmissionsFinite
  <2> HIDE DEF since
  <2>12. Cardinality(span) >= limit
    BY <2>6, <2>7, <2>10, <2>11, <1>6
  <2>13. Recent(key, gnow - ttl)' = span
    BY <1>7, PassChain(r) DEF Recent, PassChain, ThrottleKey, EffectiveTtl, ThrottlerAt
  <2> QED
    BY <1>4, <1>5, <1>7, <2>12 DEF RefusalsEarned, Recent, ThrottlerAt, EffectiveLimit, EffectiveTtl
<1> QED
  BY <1>6, <1>8, <1>9

\* What holds of windows and admissions goes on to hold where they stay.
LEMMA GuardsStay ==
  ASSUME AllCounted, AllBounded, UNCHANGED <<chain, windows, admitted>>
  PROVE  AllCounted' /\ AllBounded'
<1>1. ThrottlerAt' = ThrottlerAt
  BY DEF ThrottlerAt
<1>2. \A key : Policy(key)' = Policy(key)
  BY <1>1 DEF Policy, EffectiveLimit, EffectiveTtl
<1>3. AllCounted'
  BY DEF AllCounted
<1>4. AllBounded'
  BY <1>1, <1>2 DEF AllBounded
<1> QED
  BY <1>3, <1>4

LEMMA GuardsInitial == GuardsInit => GuardsInv
<1> SUFFICES ASSUME GuardsInit PROVE GuardsInv
  OBVIOUS
<1>1. GuardsTyped
  BY DEF GuardsInit, GuardsTyped
<1>2. AllCounted /\ AllBounded
  BY DEF GuardsInit, AllCounted, AllBounded
<1>3. VerdictTyped /\ RefusalsEarned
  BY DEF GuardsInit, NoVerdict, VerdictTyped, RefusalsEarned
<1> QED
  BY <1>1, <1>2, <1>3 DEF GuardsInv

LEMMA GuardsStep == GuardsInv /\ [GuardsNext]_guardVars => GuardsInv'
<1> SUFFICES ASSUME GuardsInv, [GuardsNext]_guardVars PROVE GuardsInv'
  OBVIOUS
<1> USE DEF GuardsInv
<1>1. CASE GuardTick
  <2>1. UNCHANGED <<chain, windows, admitted, verdict>> /\ gnow' = gnow + 1
    BY <1>1 DEF GuardTick
  <2>2. GuardsTyped'
    BY <2>1 DEF GuardsTyped
  <2>3. AllCounted' /\ AllBounded'
    BY <2>1, GuardsStay
  <2>4. VerdictTyped' /\ RefusalsEarned'
    BY <2>1 DEF VerdictTyped, RefusalsEarned, ThrottlerAt, Recent, EffectiveLimit, EffectiveTtl
  <2> QED
    BY <2>2, <2>3, <2>4
<1>2. ASSUME NEW r \in GuardRequests, PassChain(r) PROVE GuardsInv'
  <2>1. VerdictTyped' /\ RefusalsEarned'
    BY <1>2, RefusalEarned
  <2>2. UNCHANGED <<chain, gnow>>
    BY <1>2 DEF PassChain
  <2>3. CASE UNCHANGED <<windows, admitted>>
    <3>1. GuardsTyped'
      BY <2>2, <2>3 DEF GuardsTyped
    <3>2. AllCounted' /\ AllBounded'
      BY <2>2, <2>3, GuardsStay
    <3> QED
      BY <2>1, <3>1, <3>2
  <2>4. ASSUME NEW key \in Keys, NEW limit \in Nat, NEW ttl \in Nat, Metered(r, key, limit, ttl) PROVE GuardsInv'
    <3>1. GuardsTyped'
      BY <2>2, <2>4, MeteredTyped
    <3>2. AllCounted'
      BY <2>4, MeteredCounted
    <3>3. AllBounded'
      BY <2>2, <2>4, MeteredBounded
    <3> QED
      BY <2>1, <3>1, <3>2, <3>3
  <2> QED
    BY <1>2, <2>3, <2>4, PassMeters
<1>3. CASE UNCHANGED guardVars
  <2>1. UNCHANGED <<chain, gnow, windows, admitted, verdict>>
    BY <1>3 DEF guardVars
  <2>2. GuardsTyped'
    BY <2>1 DEF GuardsTyped
  <2>3. AllCounted' /\ AllBounded'
    BY <2>1, GuardsStay
  <2>4. VerdictTyped' /\ RefusalsEarned'
    BY <2>1 DEF VerdictTyped, RefusalsEarned, ThrottlerAt, Recent, EffectiveLimit, EffectiveTtl
  <2> QED
    BY <2>2, <2>3, <2>4
<1> QED
  BY <1>1, <1>2, <1>3 DEF GuardsNext

\* The bounds hold in every span of time, the open window's included.
LEMMA BoundsHold == GuardsInv => ThrottleBound
<1> SUFFICES ASSUME GuardsInv, ThrottlerAt # 0, NEW key \in DOMAIN windows, NEW p \in Policy(key), Policy(key) = {p}
             PROVE  /\ Cardinality(Recent(key, windows[key].started - 1)) <= p[1]
                    /\ \A t \in 0..gnow :
                         Cardinality({i \in Recent(key, t - p[2]) : admitted[i][2] <= t}) <= 2 * p[1]
  BY DEF ThrottleBound
<1> DEFINE w == windows[key]  limit == p[1]  ttl == p[2]  s == w.started
<1>1. KeepsBound(admitted, key, w, limit, ttl)
  BY DEF GuardsInv, AllBounded
<1>2. admitted \in Seq(Keys \X Nat) /\ gnow \in Nat /\ s \in Nat /\ w.count \in Nat /\ chain \in Chains
  BY DEF GuardsInv, GuardsTyped
<1>3. limit \in Nat /\ ttl \in Nat
  <2>1. chain[ThrottlerAt].limit \in Nat /\ chain[ThrottlerAt].ttl \in Nat
    BY <1>2, ThrottlerStands
  <2> QED
    BY <2>1, PolicyTyped DEF Policy
<1>4. \A i \in DOMAIN admitted : admitted[i][2] \in Nat
  BY <1>2
<1> DEFINE since == From(admitted, key, s)  older == Within(admitted, key, s - ttl, s - 1)
<1>5. Cardinality(since) <= limit /\ Cardinality(older) <= limit
  BY <1>1 DEF KeepsBound
<1>6. Recent(key, s - 1) = since
  BY <1>2, <1>4 DEF Recent, From
<1>7. ASSUME NEW t \in 0..gnow
      PROVE  Cardinality({i \in Recent(key, t - ttl) : admitted[i][2] <= t}) <= 2 * limit
  <2> DEFINE span == Within(admitted, key, t - ttl, t)
  <2>1. {i \in Recent(key, t - ttl) : admitted[i][2] <= t} = span
    BY DEF Recent, Within
  <2>2. t \in Nat
    BY <1>2
  <2>3. CASE t < s
    BY <2>1, <2>2, <2>3, <1>1 DEF KeepsBound
  <2>4. CASE t >= s
    <3>1. span \subseteq older \cup since
      BY <2>2, <2>4, <1>2, <1>3, <1>4, SMTT(30) DEF Within, From
    <3>2. older \subseteq DOMAIN admitted /\ since \subseteq DOMAIN admitted
      BY DEF Within, From
    <3>3. older \cup since \subseteq DOMAIN admitted /\ span \subseteq DOMAIN admitted
      BY <3>1, <3>2
    <3>4. Cardinality(span) <= Cardinality(older \cup since)
      BY <1>2, <3>1, <3>3, AdmissionsMonotone
    <3>5. Cardinality(older \cup since) <= Cardinality(older) + Cardinality(since)
      BY <1>2, <3>2, AdmissionsUnited
    <3>6. /\ Cardinality(older) \in Nat /\ Cardinality(since) \in Nat
          /\ Cardinality(older \cup since) \in Nat /\ Cardinality(span) \in Nat
      BY <1>2, <3>2, <3>3, AdmissionsFinite
    <3> HIDE DEF older, since, span
    <3>7. Cardinality(span) <= 2 * limit
      BY <3>4, <3>5, <3>6, <1>3, <1>5
    <3> QED
      BY <2>1, <3>7
  <2> QED
    BY <2>2, <2>3, <2>4, <1>2
<1> QED
  BY <1>5, <1>6, <1>7

\* The throttler keeps its bounds and refuses only who has met a full window: for every chain, every
\* request and every limit and ttl, in any order of requests and clock (guards lib.rs:440-600).
THEOREM ThrottlerIsJust == GuardsSpec => []ThrottleJust
<1>1. GuardsInv => ThrottleJust
  BY BoundsHold DEF GuardsInv, ThrottleJust
<1> QED
  BY <1>1, GuardsInitial, GuardsStep, PTL DEF GuardsSpec

-----------------------------------------------------------------------------
(* Interceptors: what an answer is known to be, wherever it is. m is the chain as it was made, hist *)
(* the runs that succeeded.                                                                         *)

RunAnswers == [run : Nat, fields : SUBSET Fields]
StoredEntries == [value : RunAnswers, inserted : Nat]
ServedEntries == [entry : StoredEntries, at : Nat]
CallKeys == {CacheKey(Arrivals[n]) : n \in Nat}
Runs == [run : Nat, request : {Arrivals[n] : n \in Nat}, took : Nat]

RanFor(v, key, hist) == \E h \in hist : h.run = v.run /\ CacheKey(h.request) = key
TookAtMost(v, bound, hist) == \E h \in hist : h.run = v.run /\ h.took <= bound
Clean(v, m) == v.fields \cap m.excluded = {} /\ v.fields \subseteq m.exposed

\* An interceptor of this kind is further in than the layer.
Past(m, kind, layer) == \E n \in DOMAIN m.kinds : m.kinds[n] = kind /\ layer < n
CacheIs(m, o) == o \in DOMAIN m.kinds /\ m.kinds[o] = "cache"
TimeoutIs(m, i) == i \in DOMAIN m.kinds /\ m.kinds[i] = "timeout"
CacheInTime(m) == \E o : CacheIs(m, o) /\ Past(m, "timeout", o)

\* What the store may hold under a key: a timeout or serializer inside of the cache was passed.
EntryOk(e, key, m, hist) ==
  /\ e \in StoredEntries
  /\ RanFor(e.value, key, hist)
  /\ CacheInTime(m) => TookAtMost(e.value, m.timeout, hist)
  /\ \A o : CacheIs(m, o) /\ Past(m, "serializer", o) => Clean(e.value, m)

\* The run took less than every timeout that is still to be passed has seen go by.
Unhurried(v, c, m, now, hist) ==
  /\ ~Past(m, "timeout", c.layer)
  /\ \E h \in hist : h.run = v.run /\ \A i : TimeoutIs(m, i) => h.took <= now - c.started[i]

\* What a call may bring back to the interceptor at its layer.
AnswerOk(v, c, m, now, hist) ==
  /\ v \in RunAnswers
  /\ RanFor(v, c.key, hist)
  /\ CacheInTime(m) => TookAtMost(v, m.timeout, hist) \/ Unhurried(v, c, m, now, hist)
  /\ Past(m, "serializer", c.layer) => Clean(v, m)

\* An answer out of the cache was there for less than the ttl.
ServedOk(x, key, m, hist) ==
  /\ x \in ServedEntries
  /\ RanFor(x.entry.value, key, hist)
  /\ m.ttl # Forever => x.at - x.entry.inserted < m.ttl

CallRecords(m) ==
  [at : {"idle", "call", "found", "expired", "run", "back"}, number : Nat, layer : Nat, key : CallKeys,
   started : [DOMAIN m.kinds -> Nat] \cup {<<>>}, held : Seq(Nat \cup StoredEntries \cup ServedEntries),
   result : Seq(RunAnswers)]

Inbound(c) == c.at \in {"call", "found", "expired", "run"}

CallOk(c, m, now, count, hist) ==
  /\ c \in CallRecords(m)
  /\ c.at # "idle" => /\ c.number <= count /\ c.key = CacheKey(Arrivals[c.number])
                      /\ c.started \in [DOMAIN m.kinds -> Nat] /\ c.layer <= Len(m.kinds) + 1
  /\ c.at \in {"call", "found", "expired"} => c.layer > 0 /\ \A i : TimeoutIs(m, i) /\ i < c.layer => c.started[i] <= now
  /\ c.at \in {"found", "expired"} => CacheIs(m, c.layer) /\ \E e : c.held = <<e>> /\ EntryOk(e, c.key, m, hist)
  /\ c.at = "run" => /\ c.layer > Len(m.kinds)
                     /\ \E s \in Nat : /\ c.held = <<s>> /\ s <= now
                                       /\ \A i : TimeoutIs(m, i) => c.started[i] <= s
  /\ c.at = "back" => /\ c.layer <= Len(m.kinds)
                      /\ c.result = <<>> \/ \E v : c.result = <<v>> /\ AnswerOk(v, c, m, now, hist)
                      /\ c.held = <<>> \/ \E x : c.held = <<x>> /\ ServedOk(x, c.key, m, hist)

HistoryOk ==
  /\ history \subseteq Runs
  /\ \A g, h \in history : g.run = h.run => g = h
  /\ \A h \in history : h.run <= begun

\* The calls that may still run a handler have numbers of their own.
NumbersOk ==
  /\ \A t \in Callers : Inbound(call[t]) => \A h \in history : h.run # call[t].number
  /\ \A t, u \in Callers : Inbound(call[t]) /\ Inbound(call[u]) /\ t # u => call[t].number # call[u].number

ChainInv ==
  /\ made \in ChainSetups /\ inow \in Nat /\ begun \in Nat
  /\ DOMAIN call = Callers
  /\ \A t \in Callers : CallOk(call[t], made, inow, begun, history)
  /\ \A k \in DOMAIN store : EntryOk(store[k], k, made, history)
  /\ HistoryOk
  /\ NumbersOk

\* What is known of an answer stays known: runs are added and the clock goes on.
LEMMA EntryKept ==
  ASSUME NEW e, NEW key, NEW m, NEW hist, NEW more, hist \subseteq more, EntryOk(e, key, m, hist)
  PROVE  EntryOk(e, key, m, more)
<1>1. RanFor(e.value, key, more)
  BY DEF EntryOk, RanFor
<1>2. CacheInTime(m) => TookAtMost(e.value, m.timeout, more)
  BY DEF EntryOk, TookAtMost
<1> QED
  BY <1>1, <1>2 DEF EntryOk

LEMMA AnswerKept ==
  ASSUME NEW v, NEW c, NEW m \in ChainSetups, NEW hist \in SUBSET Runs, NEW more, hist \subseteq more,
         NEW now \in Nat, NEW later \in Nat, now <= later, c.started \in [DOMAIN m.kinds -> Nat],
         AnswerOk(v, c, m, now, hist)
  PROVE  AnswerOk(v, c, m, later, more)
<1>1. RanFor(v, c.key, more)
  BY DEF AnswerOk, RanFor
<1>2. TookAtMost(v, m.timeout, hist) => TookAtMost(v, m.timeout, more)
  BY DEF TookAtMost
<1>3. ASSUME Unhurried(v, c, m, now, hist) PROVE Unhurried(v, c, m, later, more)
  <2>1. PICK h \in hist : h.run = v.run /\ \A i : TimeoutIs(m, i) => h.took <= now - c.started[i]
    BY <1>3 DEF Unhurried
  <2>2. h.took \in Nat
    BY DEF Runs
  <2>3. ASSUME NEW i, TimeoutIs(m, i) PROVE h.took <= later - c.started[i]
    <3>1. c.started[i] \in Nat
      BY <2>3 DEF TimeoutIs
    <3>2. h.took <= now - c.started[i]
      BY <2>1, <2>3
    <3> QED
      BY <3>1, <3>2, <2>2
  <2> QED
    BY <1>3, <2>1, <2>3 DEF Unhurried
<1> QED
  BY <1>1, <1>2, <1>3 DEF AnswerOk

LEMMA CallKept ==
  ASSUME NEW c, NEW m \in ChainSetups, NEW hist \in SUBSET Runs, NEW more, hist \subseteq more,
         NEW now \in Nat, NEW later \in Nat, now <= later, NEW count \in Nat, NEW next \in Nat, count <= next,
         CallOk(c, m, now, count, hist)
  PROVE  CallOk(c, m, later, next, more)
<1>1. c \in CallRecords(m) /\ c.number \in Nat
  BY DEF CallOk, CallRecords
<1>2. c.at # "idle" => /\ c.number <= next /\ c.key = CacheKey(Arrivals[c.number])
                      /\ c.started \in [DOMAIN m.kinds -> Nat] /\ c.layer <= Len(m.kinds) + 1
  BY <1>1 DEF CallOk
<1>3. ASSUME c.at \in {"call", "found", "expired"}
      PROVE  c.layer > 0 /\ \A i : TimeoutIs(m, i) /\ i < c.layer => c.started[i] <= later
  <2>1. c.at # "idle" /\ c.layer > 0
    BY <1>3 DEF CallOk
  <2>2. ASSUME NEW i, TimeoutIs(m, i), i < c.layer PROVE c.started[i] <= later
    <3>1. c.started[i] <= now
      BY <1>3, <2>2 DEF CallOk
    <3>2. c.started[i] \in Nat
      BY <1>2, <2>1, <2>2 DEF TimeoutIs
    <3> QED
      BY <3>1, <3>2
  <2> QED
    BY <2>1, <2>2
<1>4. ASSUME c.at \in {"found", "expired"}
      PROVE  CacheIs(m, c.layer) /\ \E e : c.held = <<e>> /\ EntryOk(e, c.key, m, more)
  <2>1. CacheIs(m, c.layer)
    BY <1>4 DEF CallOk
  <2>2. PICK e : c.held = <<e>> /\ EntryOk(e, c.key, m, hist)
    BY <1>4 DEF CallOk
  <2>3. EntryOk(e, c.key, m, more)
    BY <2>2, EntryKept
  <2> QED
    BY <2>1, <2>2, <2>3
<1>5. ASSUME c.at = "run"
      PROVE  /\ c.layer > Len(m.kinds)
             /\ \E s \in Nat : /\ c.held = <<s>> /\ s <= later
                               /\ \A i : TimeoutIs(m, i) => c.started[i] <= s
  <2>1. c.layer > Len(m.kinds)
    BY <1>5 DEF CallOk
  <2>2. PICK s \in Nat : c.held = <<s>> /\ s <= now /\ \A i : TimeoutIs(m, i) => c.started[i] <= s
    BY <1>5 DEF CallOk
  <2>3. s <= later
    BY <2>2
  <2> QED
    BY <2>1, <2>2, <2>3
<1>6. ASSUME c.at = "back", c.result # <<>> PROVE \E v : c.result = <<v>> /\ AnswerOk(v, c, m, later, more)
  <2>1. PICK v : c.result = <<v>> /\ AnswerOk(v, c, m, now, hist)
    BY <1>6 DEF CallOk
  <2>2. c.started \in [DOMAIN m.kinds -> Nat]
    BY <1>2, <1>6
  <2>3. AnswerOk(v, c, m, later, more)
    BY <2>1, <2>2, AnswerKept
  <2> QED
    BY <2>1, <2>3
<1>7. ASSUME c.at = "back", c.held # <<>> PROVE \E x : c.held = <<x>> /\ ServedOk(x, c.key, m, more)
  <2>1. PICK x : c.held = <<x>> /\ ServedOk(x, c.key, m, hist)
    BY <1>7 DEF CallOk
  <2>2. ServedOk(x, c.key, m, more)
    BY <2>1 DEF ServedOk, RanFor
  <2> QED
    BY <2>1, <2>2
<1> QED
  BY <1>1, <1>2, <1>3, <1>4, <1>5, <1>6, <1>7 DEF CallOk

\* One caller's request becomes c; the others only see what was added.
LEMMA OneMoves ==
  ASSUME ChainInv, NEW t \in Callers, NEW c, To(t, c), made' = made, inow' = inow, begun' \in Nat,
         begun <= begun', history \subseteq history', HistoryOk',
         CallOk(c, made, inow, begun', history'),
         \A k \in DOMAIN store' : EntryOk(store'[k], k, made, history'),
         Inbound(c) => \A h \in history' : h.run # c.number,
         Inbound(c) => \/ Inbound(call[t]) /\ c.number = call[t].number
                       \/ c.number > begun,
         \A h \in history' \ history : \A u \in Callers : Inbound(call[u]) /\ u # t => h.run # call[u].number
  PROVE  ChainInv'
<1>1. made' \in ChainSetups /\ inow' \in Nat /\ begun \in Nat /\ history \in SUBSET Runs
  BY DEF ChainInv, HistoryOk
<1>2. DOMAIN call' = Callers /\ call'[t] = c /\ \A u \in Callers : u # t => call'[u] = call[u]
  BY DEF ChainInv, To
<1>3. ASSUME NEW u \in Callers PROVE CallOk(call'[u], made', inow', begun', history')
  <2>1. CASE u = t
    BY <2>1, <1>2
  <2>2. CASE u # t
    <3>1. CallOk(call[u], made, inow, begun, history)
      BY DEF ChainInv
    <3>2. CallOk(call[u], made, inow, begun', history')
      BY <3>1, <1>1, CallKept
    <3> QED
      BY <3>2, <2>2, <1>2
  <2> QED
    BY <2>1, <2>2
<1>4. \A k \in DOMAIN store' : EntryOk(store'[k], k, made', history')
  OBVIOUS
<1>5. ASSUME NEW u \in Callers, Inbound(call'[u]) PROVE \A h \in history' : h.run # call'[u].number
  <2>1. CASE u = t
    BY <2>1, <1>2, <1>5
  <2>2. CASE u # t
    BY <2>2, <1>2, <1>5 DEF ChainInv, NumbersOk
  <2> QED
    BY <2>1, <2>2
<1>6. ASSUME NEW u \in Callers, Inbound(call[u]), u # t, Inbound(c) PROVE call[u].number # c.number
  <2>1. CASE Inbound(call[t]) /\ c.number = call[t].number
    BY <2>1, <1>6 DEF ChainInv, NumbersOk
  <2>2. CASE c.number > begun
    <3>1. CallOk(call[u], made, inow, begun, history) /\ call[u].at # "idle"
      BY <1>6 DEF ChainInv, Inbound
    <3>2. call[u].number <= begun /\ call[u].number \in Nat
      BY <3>1 DEF CallOk, CallRecords
    <3>3. c.number \in Nat
      BY DEF CallOk, CallRecords
    <3> QED
      BY <3>2, <3>3, <2>2, <1>1
  <2> QED
    BY <2>1, <2>2, <1>6
<1>7. ASSUME NEW u \in Callers, NEW v \in Callers, Inbound(call'[u]), Inbound(call'[v]), u # v
      PROVE  call'[u].number # call'[v].number
  <2>1. CASE u = t
    BY <2>1, <1>2, <1>6, <1>7
  <2>2. CASE v = t
    BY <2>2, <1>2, <1>6, <1>7
  <2>3. CASE u # t /\ v # t
    BY <2>3, <1>2, <1>7 DEF ChainInv, NumbersOk
  <2> QED
    BY <2>1, <2>2, <2>3
<1>8. NumbersOk'
  <2>1. \A u \in Callers : Inbound(call[u])' <=> Inbound(call'[u])
    BY DEF Inbound
  <2> QED
    BY <2>1, <1>5, <1>7 DEF NumbersOk
<1> QED
  BY <1>1, <1>2, <1>3, <1>4, <1>8 DEF ChainInv

\* One caller goes on with its request and nothing else changes.
LEMMA OneGoesOn ==
  ASSUME ChainInv, NEW t \in Callers, NEW c, To(t, c), UNCHANGED <<made, inow, store, begun, history>>,
         CallOk(c, made, inow, begun, history),
         Inbound(c) => Inbound(call[t]) /\ c.number = call[t].number
  PROVE  ChainInv'
<1>1. begun' \in Nat /\ begun <= begun' /\ history \subseteq history' /\ HistoryOk'
  BY DEF ChainInv, HistoryOk
<1>2. Inbound(c) => \A h \in history' : h.run # c.number
  BY DEF ChainInv, NumbersOk
<1>3. \A k \in DOMAIN store' : EntryOk(store'[k], k, made, history')
  BY DEF ChainInv
<1> QED
  BY <1>1, <1>2, <1>3, OneMoves

LEMMA CallOkOf ==
  ASSUME ChainInv, NEW t \in Callers
  PROVE  CallOk(call[t], made, inow, begun, history) /\ call[t] \in CallRecords(made)
BY DEF ChainInv, CallOk

\* The record of a call with parts of it replaced.
CallParts(at, number, layer, key, started, held, result) ==
  [at |-> at, number |-> number, layer |-> layer, key |-> key, started |-> started, held |-> held, result |-> result]

LEMMA PartsOf ==
  ASSUME NEW m, NEW c \in CallRecords(m)
  PROVE  c = CallParts(c.at, c.number, c.layer, c.key, c.started, c.held, c.result)
BY DEF CallRecords, CallParts

\* One part replaced.
LEMMA SetAt ==
  ASSUME NEW at, NEW number, NEW layer, NEW key, NEW started, NEW held, NEW result, NEW x
  PROVE  [CallParts(at, number, layer, key, started, held, result) EXCEPT !.at = x] =
           CallParts(x, number, layer, key, started, held, result)
BY DEF CallParts

LEMMA SetNumber ==
  ASSUME NEW at, NEW number, NEW layer, NEW key, NEW started, NEW held, NEW result, NEW x
  PROVE  [CallParts(at, number, layer, key, started, held, result) EXCEPT !.number = x] =
           CallParts(at, x, layer, key, started, held, result)
BY DEF CallParts

LEMMA SetLayer ==
  ASSUME NEW at, NEW number, NEW layer, NEW key, NEW started, NEW held, NEW result, NEW x
  PROVE  [CallParts(at, number, layer, key, started, held, result) EXCEPT !.layer = x] =
           CallParts(at, number, x, key, started, held, result)
BY DEF CallParts

LEMMA SetKey ==
  ASSUME NEW at, NEW number, NEW layer, NEW key, NEW started, NEW held, NEW result, NEW x
  PROVE  [CallParts(at, number, layer, key, started, held, result) EXCEPT !.key = x] =
           CallParts(at, number, layer, x, started, held, result)
BY DEF CallParts

LEMMA SetStarted ==
  ASSUME NEW at, NEW number, NEW layer, NEW key, NEW started, NEW held, NEW result, NEW x
  PROVE  [CallParts(at, number, layer, key, started, held, result) EXCEPT !.started = x] =
           CallParts(at, number, layer, key, x, held, result)
BY DEF CallParts

LEMMA SetHeld ==
  ASSUME NEW at, NEW number, NEW layer, NEW key, NEW started, NEW held, NEW result, NEW x
  PROVE  [CallParts(at, number, layer, key, started, held, result) EXCEPT !.held = x] =
           CallParts(at, number, layer, key, started, x, result)
BY DEF CallParts

LEMMA SetResult ==
  ASSUME NEW at, NEW number, NEW layer, NEW key, NEW started, NEW held, NEW result, NEW x
  PROVE  [CallParts(at, number, layer, key, started, held, result) EXCEPT !.result = x] =
           CallParts(at, number, layer, key, started, held, x)
BY DEF CallParts

\* The stage and the kept value of a call replaced at once.
LEMMA StageReplaced ==
  ASSUME NEW m, NEW c \in CallRecords(m), NEW a, NEW h
  PROVE  /\ [c EXCEPT !.at = a] = CallParts(a, c.number, c.layer, c.key, c.started, c.held, c.result)
         /\ [c EXCEPT !.at = a, !.held = h] = CallParts(a, c.number, c.layer, c.key, c.started, h, c.result)
<1> DEFINE d == [c EXCEPT !.at = a]
<1>1. c = CallParts(c.at, c.number, c.layer, c.key, c.started, c.held, c.result)
  BY PartsOf
<1>2. d = CallParts(a, c.number, c.layer, c.key, c.started, c.held, c.result)
  BY <1>1, SetAt
<1>3. [c EXCEPT !.at = a, !.held = h] = [d EXCEPT !.held = h]
  OBVIOUS
<1> HIDE DEF d
<1>4. [d EXCEPT !.held = h] = CallParts(a, c.number, c.layer, c.key, c.started, h, c.result)
  BY <1>2, SetHeld
<1> QED
  BY <1>2, <1>3, <1>4 DEF d

LEMMA DeeperParts ==
  ASSUME NEW m, NEW c \in CallRecords(m)
  PROVE  Deeper(c) = CallParts("call", c.number, c.layer + 1, c.key, c.started, c.held, c.result)
<1> DEFINE d == [c EXCEPT !.at = "call"]
<1>1. d = CallParts("call", c.number, c.layer, c.key, c.started, c.held, c.result)
  BY StageReplaced
<1>2. Deeper(c) = [d EXCEPT !.layer = c.layer + 1]
  BY DEF Deeper
<1> HIDE DEF d
<1>3. [d EXCEPT !.layer = c.layer + 1] = CallParts("call", c.number, c.layer + 1, c.key, c.started, c.held, c.result)
  BY <1>1, SetLayer
<1> QED
  BY <1>2, <1>3

LEMMA UnwindingParts ==
  ASSUME NEW m, NEW c \in CallRecords(m), NEW result
  PROVE  Unwinding(c, result) = CallParts("back", c.number, c.layer - 1, c.key, c.started, c.held, result)
<1> DEFINE d == [c EXCEPT !.at = "back"]
           e == [d EXCEPT !.layer = c.layer - 1]
<1>1. d = CallParts("back", c.number, c.layer, c.key, c.started, c.held, c.result)
  BY StageReplaced
<1>2. Unwinding(c, result) = [e EXCEPT !.result = result]
  BY DEF Unwinding
<1> HIDE DEF d
<1>3. e = CallParts("back", c.number, c.layer - 1, c.key, c.started, c.held, c.result)
  BY <1>1, SetLayer
<1> HIDE DEF e
<1>4. [e EXCEPT !.result = result] = CallParts("back", c.number, c.layer - 1, c.key, c.started, c.held, result)
  BY <1>3, SetResult
<1> QED
  BY <1>2, <1>4

\* The record of a request that sets out.
LEMMA SettingOut ==
  ASSUME NEW n, NEW key, NEW zeros
  PROVE  [IdleCall EXCEPT !.at = "call", !.number = n, !.layer = 1, !.key = key, !.started = zeros]
           = CallParts("call", n, 1, key, zeros, <<>>, <<>>)
<1> DEFINE none == CacheKey(Arrivals[1])
           one == [IdleCall EXCEPT !.at = "call"]  two == [one EXCEPT !.number = n]
           three == [two EXCEPT !.layer = 1]  four == [three EXCEPT !.key = key]
<1>1. [IdleCall EXCEPT !.at = "call", !.number = n, !.layer = 1, !.key = key, !.started = zeros]
      = [four EXCEPT !.started = zeros]
  OBVIOUS
<1>2. IdleCall = CallParts("idle", 0, 0, none, <<>>, <<>>, <<>>)
  BY DEF IdleCall, CallParts
<1> HIDE DEF none
<1>3. one = CallParts("call", 0, 0, none, <<>>, <<>>, <<>>)
  BY <1>2, SetAt
<1> HIDE DEF one
<1>4. two = CallParts("call", n, 0, none, <<>>, <<>>, <<>>)
  BY <1>3, SetNumber
<1> HIDE DEF two
<1>5. three = CallParts("call", n, 1, none, <<>>, <<>>, <<>>)
  BY <1>4, SetLayer
<1> HIDE DEF three
<1>6. four = CallParts("call", n, 1, key, <<>>, <<>>, <<>>)
  BY <1>5, SetKey
<1> HIDE DEF four
<1>7. [four EXCEPT !.started = zeros] = CallParts("call", n, 1, key, zeros, <<>>, <<>>)
  BY <1>6, SetStarted
<1> QED
  BY <1>1, <1>7

LEMMA IdleOk ==
  ASSUME NEW m, NEW now, NEW count, NEW hist PROVE CallOk(IdleCall, m, now, count, hist)
<1>1. CacheKey(Arrivals[1]) \in CallKeys
  BY DEF CallKeys
<1>2. IdleCall \in CallRecords(m)
  BY <1>1 DEF IdleCall, CallRecords
<1>3. IdleCall.at = "idle"
  BY DEF IdleCall
<1> QED
  BY <1>2, <1>3 DEF CallOk

LEMMA BeginCallKeeps == ASSUME ChainInv, NEW t \in Callers, BeginCall(t) PROVE ChainInv'
<1> DEFINE n == begun + 1
           c == CallParts("call", n, 1, CacheKey(Arrivals[n]), [i \in DOMAIN made.kinds |-> 0], <<>>, <<>>)
<1>1. To(t, c) /\ UNCHANGED <<made, inow, store, history>> /\ begun' = n
  BY SettingOut DEF BeginCall
<1>2. begun \in Nat /\ inow \in Nat
  BY DEF ChainInv
<1>3. CacheKey(Arrivals[n]) \in CallKeys
  BY <1>2 DEF CallKeys
<1>4. c \in CallRecords(made)
  BY <1>2, <1>3 DEF CallRecords, CallParts
<1>5. /\ c.at = "call" /\ c.number = n /\ c.layer = 1 /\ c.key = CacheKey(Arrivals[n])
      /\ c.started = [i \in DOMAIN made.kinds |-> 0]
  BY DEF CallParts
<1>6. \A i : TimeoutIs(made, i) => c.started[i] <= inow
  BY <1>2, <1>5 DEF TimeoutIs
<1>7. c.started \in [DOMAIN made.kinds -> Nat] /\ c.layer <= Len(made.kinds) + 1
  BY <1>5, SetupsAssumption DEF ChainInv
<1> HIDE DEF c
<1>8. CallOk(c, made, inow, n, history)
  BY <1>2, <1>4, <1>5, <1>6, <1>7 DEF CallOk
<1>9. \A h \in history : h.run <= begun /\ h.run \in Nat
  BY DEF ChainInv, HistoryOk, Runs
<1>10. HistoryOk'
  BY <1>1, <1>2, <1>9 DEF ChainInv, HistoryOk
<1>11. \A h \in history : h.run # c.number
  BY <1>2, <1>5, <1>9
<1>12. c.number > begun /\ n \in Nat /\ begun <= n
  BY <1>2, <1>5
<1>13. \A k \in DOMAIN store' : EntryOk(store'[k], k, made, history')
  BY <1>1 DEF ChainInv
<1> HIDE DEF n
<1> QED
  BY <1>1, <1>8, <1>10, <1>11, <1>12, <1>13, OneMoves

LEMMA EnterLayerKeeps == ASSUME ChainInv, NEW t \in Callers, EnterLayer(t) PROVE ChainInv'
<1> DEFINE old == call[t]  l == old.layer  at == IF Kind(t) = "timeout" THEN inow ELSE 0
           c == CallParts("call", old.number, l + 1, old.key, [old.started EXCEPT ![l] = at], old.held, old.result)
<1>1. CallOk(old, made, inow, begun, history) /\ old \in CallRecords(made) /\ inow \in Nat
  BY CallOkOf DEF ChainInv
<1>2. old.at = "call" /\ l \in DOMAIN made.kinds /\ l \in Nat
  BY <1>1 DEF EnterLayer, CallRecords
<1>3. old.started \in [DOMAIN made.kinds -> Nat] /\ old.number <= begun /\ old.key = CacheKey(Arrivals[old.number])
      /\ l > 0 /\ \A i : TimeoutIs(made, i) /\ i < l => old.started[i] <= inow
  BY <1>1, <1>2 DEF CallOk
<1>4. at \in Nat /\ at <= inow
  BY <1>1
<1>5. To(t, [Deeper(old) EXCEPT !.started[l] = at]) /\ UNCHANGED <<made, inow, store, begun, history>>
  BY DEF EnterLayer
<1>6. [Deeper(old) EXCEPT !.started[l] = at] = c
  <2>1. Deeper(old) = CallParts("call", old.number, l + 1, old.key, old.started, old.held, old.result)
    BY <1>1, DeeperParts
  <2> QED
    BY <2>1 DEF CallParts
<1> HIDE DEF at
<1>7. c.started \in [DOMAIN made.kinds -> Nat]
  BY <1>2, <1>3, <1>4 DEF CallParts
<1>8. c \in CallRecords(made)
  BY <1>1, <1>2, <1>7 DEF CallRecords, CallParts
<1>9. c.at = "call" /\ c.layer = l + 1 /\ c.number = old.number /\ c.key = old.key
      /\ c.started = [old.started EXCEPT ![l] = at]
  BY DEF CallParts
<1>10. ASSUME NEW i, TimeoutIs(made, i), i < c.layer PROVE c.started[i] <= inow
  <2>1. i \in Nat /\ i \in DOMAIN made.kinds
    BY <1>10, SetupsAssumption DEF ChainInv, TimeoutIs
  <2>2. CASE i = l
    BY <2>1, <2>2, <1>2, <1>3, <1>4, <1>9
  <2>3. CASE i # l
    <3>1. i < l
      BY <2>1, <2>3, <1>2, <1>9, <1>10
    <3>2. c.started[i] = old.started[i]
      BY <2>1, <2>3, <1>2, <1>3, <1>9
    <3> QED
      BY <3>1, <3>2, <1>3, <1>10
  <2> QED
    BY <2>2, <2>3
<1> HIDE DEF c
<1>11. c.layer > 0 /\ c.layer <= Len(made.kinds) + 1
  BY <1>2, <1>9, SetupsAssumption DEF ChainInv
<1>12. CallOk(c, made, inow, begun, history)
  BY <1>3, <1>7, <1>8, <1>9, <1>10, <1>11 DEF CallOk
<1> QED
  BY <1>2, <1>5, <1>6, <1>9, <1>12, OneGoesOn DEF Inbound

LEMMA LookUpKeeps == ASSUME ChainInv, NEW t \in Callers, LookUp(t) PROVE ChainInv'
<1> DEFINE old == call[t]  l == old.layer
<1>1. CallOk(old, made, inow, begun, history) /\ old \in CallRecords(made) /\ inow \in Nat
  BY CallOkOf DEF ChainInv
<1>2. old.at = "call" /\ CacheIs(made, l) /\ UNCHANGED <<made, inow, store, begun, history>>
  BY DEF LookUp, CacheIs, Kind
<1>3. old.started \in [DOMAIN made.kinds -> Nat] /\ old.number <= begun /\ old.key = CacheKey(Arrivals[old.number])
      /\ l > 0 /\ l <= Len(made.kinds) /\ \A i : TimeoutIs(made, i) /\ i < l => old.started[i] <= inow
  BY <1>1, <1>2, SetupsAssumption DEF CallOk, ChainInv, CacheIs
<1>4. CASE old.key \in DOMAIN store
  <2> DEFINE e == store[old.key]
             c == CallParts("found", old.number, l, old.key, old.started, <<e>>, old.result)
  <2>1. To(t, [old EXCEPT !.at = "found", !.held = <<e>>])
    BY <1>4 DEF LookUp
  <2>2. [old EXCEPT !.at = "found", !.held = <<e>>] = c
    BY <1>1, StageReplaced
  <2>3. EntryOk(e, old.key, made, history)
    BY <1>4 DEF ChainInv
  <2>4. e \in StoredEntries
    BY <2>3 DEF EntryOk
  <2> HIDE DEF e
  <2>5. <<e>> \in Seq(Nat \cup StoredEntries \cup ServedEntries)
    BY <2>4
  <2>6. c \in CallRecords(made)
    BY <1>1, <2>5 DEF CallRecords, CallParts
  <2>7. c.at = "found" /\ c.layer = l /\ c.number = old.number /\ c.key = old.key /\ c.started = old.started /\ c.held = <<e>>
    BY DEF CallParts
  <2> HIDE DEF c
  <2>8. CallOk(c, made, inow, begun, history)
    <3>1. c.layer <= Len(made.kinds) + 1
      BY <1>1, <1>3, <2>7, SetupsAssumption DEF ChainInv, CallRecords
    <3> QED
      BY <1>2, <1>3, <2>3, <2>6, <2>7, <3>1 DEF CallOk
  <2> QED
    BY <1>2, <2>1, <2>2, <2>7, <2>8, OneGoesOn DEF Inbound
<1>5. CASE old.key \notin DOMAIN store
  <2> DEFINE c == CallParts("call", old.number, l + 1, old.key, old.started, old.held, old.result)
  <2>1. To(t, c)
    BY <1>1, <1>5, DeeperParts DEF LookUp
  <2>2. c \in CallRecords(made)
    BY <1>1 DEF CallRecords, CallParts
  <2>3. c.at = "call" /\ c.layer = l + 1 /\ c.number = old.number /\ c.key = old.key /\ c.started = old.started
    BY DEF CallParts
  <2> HIDE DEF c
  <2>4. ASSUME NEW i, TimeoutIs(made, i), i < c.layer PROVE c.started[i] <= inow
    <3>1. i \in Nat /\ l \in Nat /\ i # l
      BY <2>4, <1>1, <1>2, SetupsAssumption DEF ChainInv, TimeoutIs, CacheIs, CallRecords
    <3>2. i < l
      BY <3>1, <2>3, <2>4
    <3> QED
      BY <3>2, <2>3, <2>4, <1>3
  <2>5. c.layer > 0 /\ c.layer <= Len(made.kinds) + 1
    BY <1>1, <1>3, <2>3, SetupsAssumption DEF ChainInv, CallRecords
  <2>6. CallOk(c, made, inow, begun, history)
    BY <1>3, <2>2, <2>3, <2>4, <2>5 DEF CallOk
  <2> QED
    BY <1>2, <2>1, <2>3, <2>6, OneGoesOn DEF Inbound
<1> QED
  BY <1>4, <1>5

\* The way back.
LEMMA BackOk ==
  ASSUME ChainInv, NEW t \in Callers, call[t].at = "back", call[t].layer > 0, NEW result,
         NEW c, c = CallParts("back", call[t].number, call[t].layer - 1, call[t].key, call[t].started, call[t].held, result),
         result = <<>> \/ \E v : result = <<v>> /\ AnswerOk(v, c, made, inow, history)
  PROVE  CallOk(c, made, inow, begun, history) /\ ~Inbound(c)
<1> DEFINE old == call[t]
<1>1. CallOk(old, made, inow, begun, history) /\ old \in CallRecords(made)
  BY CallOkOf
<1>2. result \in Seq(RunAnswers)
  <2>1. CASE result = <<>>
    BY <2>1
  <2>2. CASE \E v : result = <<v>> /\ AnswerOk(v, c, made, inow, history)
    <3>1. PICK v : result = <<v>> /\ AnswerOk(v, c, made, inow, history)
      BY <2>2
    <3>2. v \in RunAnswers
      BY <3>1 DEF AnswerOk
    <3> QED
      BY <3>1, <3>2
  <2> QED
    BY <2>1, <2>2
<1>3. c.at = "back" /\ c.number = old.number /\ c.layer = old.layer - 1 /\ c.key = old.key
      /\ c.started = old.started /\ c.held = old.held /\ c.result = result
  BY DEF CallParts
<1>4. c \in CallRecords(made)
  BY <1>1, <1>2 DEF CallRecords, CallParts
<1>5. old.layer \in Nat /\ old.layer <= Len(made.kinds) /\ Len(made.kinds) \in Nat
  BY <1>1, SetupsAssumption DEF CallOk, CallRecords, ChainInv
<1>6. c.layer <= Len(made.kinds) /\ c.layer <= Len(made.kinds) + 1
  BY <1>3, <1>5
<1> QED
  BY <1>1, <1>3, <1>4, <1>6 DEF CallOk, Inbound

\* Where a call comes back to, there is an interceptor.
LEMMA BackAt ==
  ASSUME ChainInv, NEW t \in Callers, call[t].at = "back", call[t].layer > 0
  PROVE  /\ call[t].layer \in DOMAIN made.kinds /\ call[t].layer \in Nat
         /\ call[t].result = <<>> \/ \E v : call[t].result = <<v>> /\ AnswerOk(v, call[t], made, inow, history)
<1>1. CallOk(call[t], made, inow, begun, history) /\ call[t] \in CallRecords(made)
  BY CallOkOf
<1>2. call[t].layer \in Nat /\ call[t].layer <= Len(made.kinds)
  BY <1>1 DEF CallOk, CallRecords
<1> QED
  BY <1>1, <1>2, SetupsAssumption DEF CallOk, ChainInv

\* An interceptor that is no timeout and no serializer is left behind.
LEMMA LayerLeft ==
  ASSUME NEW v, NEW c, NEW d, NEW m \in ChainSetups, NEW now, NEW hist, AnswerOk(v, c, m, now, hist),
         c.layer \in DOMAIN m.kinds, m.kinds[c.layer] \notin {"timeout", "serializer"},
         d.layer = c.layer - 1, d.key = c.key, d.started = c.started
  PROVE  AnswerOk(v, d, m, now, hist)
<1>1. \A n \in DOMAIN m.kinds : n \in Nat
  BY SetupsAssumption
<1>2. ASSUME NEW kind \in {"timeout", "serializer"}, Past(m, kind, d.layer) PROVE Past(m, kind, c.layer)
  <2>1. PICK n \in DOMAIN m.kinds : m.kinds[n] = kind /\ c.layer - 1 < n
    BY <1>2 DEF Past
  <2>2. n # c.layer
    BY <2>1
  <2>3. c.layer < n
    BY <1>1, <2>1, <2>2
  <2> QED
    BY <2>1, <2>3 DEF Past
<1>3. Unhurried(v, c, m, now, hist) => Unhurried(v, d, m, now, hist)
  BY <1>2 DEF Unhurried
<1> QED
  BY <1>2, <1>3 DEF AnswerOk

LEMMA LeaveLoggingKeeps == ASSUME ChainInv, NEW t \in Callers, LeaveLogging(t) PROVE ChainInv'
<1> DEFINE old == call[t]
           c == CallParts("back", old.number, old.layer - 1, old.key, old.started, old.held, old.result)
<1>1. old.at = "back" /\ old.layer > 0 /\ made.kinds[old.layer] = "logging"
  BY DEF LeaveLogging, Returning, Kind
<1>2. To(t, c) /\ UNCHANGED <<made, inow, store, begun, history>>
  BY CallOkOf, UnwindingParts DEF LeaveLogging
<1>3. c.layer = old.layer - 1 /\ c.key = old.key /\ c.started = old.started
  BY DEF CallParts
<1>4. old.result = <<>> \/ \E v : old.result = <<v>> /\ AnswerOk(v, c, made, inow, history)
  <2> HIDE DEF c
  <2>1. CASE \E v : old.result = <<v>> /\ AnswerOk(v, old, made, inow, history)
    <3>1. PICK v : old.result = <<v>> /\ AnswerOk(v, old, made, inow, history)
      BY <2>1
    <3>2. AnswerOk(v, c, made, inow, history)
      BY <3>1, <1>1, <1>3, BackAt, LayerLeft DEF ChainInv
    <3> QED
      BY <3>1, <3>2
  <2> QED
    BY <2>1, <1>1, BackAt
<1>5. CallOk(c, made, inow, begun, history) /\ ~Inbound(c)
  BY <1>1, <1>4, BackOk
<1> HIDE DEF c
<1> QED
  BY <1>2, <1>5, OneGoesOn

LEMMA LeaveTimeoutKeeps == ASSUME ChainInv, NEW t \in Callers, LeaveTimeout(t) PROVE ChainInv'
<1> DEFINE old == call[t]  l == old.layer
           result == IF inow - old.started[l] > made.timeout THEN <<>> ELSE old.result
           c == CallParts("back", old.number, l - 1, old.key, old.started, old.held, result)
<1>1. old.at = "back" /\ l > 0 /\ made.kinds[l] = "timeout"
  BY DEF LeaveTimeout, Returning, Kind
<1>2. To(t, c) /\ UNCHANGED <<made, inow, store, begun, history>>
  BY CallOkOf, UnwindingParts DEF LeaveTimeout
<1>3. c.layer = l - 1 /\ c.key = old.key /\ c.started = old.started
  BY DEF CallParts
<1>4. l \in DOMAIN made.kinds /\ l \in Nat
  BY <1>1, BackAt
<1>5. result = <<>> \/ \E v : result = <<v>> /\ AnswerOk(v, c, made, inow, history)
  <2>1. CASE ~(inow - old.started[l] > made.timeout) /\ \E v : old.result = <<v>> /\ AnswerOk(v, old, made, inow, history)
    <3>1. PICK v : old.result = <<v>> /\ AnswerOk(v, old, made, inow, history)
      BY <2>1
    <3> HIDE DEF c
    <3>2. TookAtMost(v, made.timeout, history) \/ Unhurried(v, old, made, inow, history) => TookAtMost(v, made.timeout, history)
      <4>1. SUFFICES ASSUME Unhurried(v, old, made, inow, history) PROVE TookAtMost(v, made.timeout, history)
        OBVIOUS
      <4>2. PICK h \in history : h.run = v.run /\ \A i : TimeoutIs(made, i) => h.took <= inow - old.started[i]
        BY <4>1 DEF Unhurried
      <4>3. h.took <= inow - old.started[l]
        BY <4>2, <1>1, <1>4 DEF TimeoutIs
      <4>4. h.took \in Nat /\ inow \in Nat /\ made.timeout \in Nat
        BY SetupsAssumption DEF ChainInv, HistoryOk, Runs
      <4>5. old.started[l] \in Nat
        <5>1. CallOk(old, made, inow, begun, history)
          BY CallOkOf
        <5>2. old.started \in [DOMAIN made.kinds -> Nat]
          BY <5>1, <1>1 DEF CallOk
        <5> QED
          BY <5>2, <1>4
      <4>6. h.took <= made.timeout
        BY <4>3, <4>4, <4>5, <2>1
      <4> QED
        BY <4>2, <4>6 DEF TookAtMost
    <3>3. Past(made, "serializer", c.layer) => Past(made, "serializer", l)
      <4>1. SUFFICES ASSUME NEW n \in DOMAIN made.kinds, made.kinds[n] = "serializer", l - 1 < n PROVE l < n
        BY <1>3 DEF Past
      <4>2. n \in Nat /\ n # l
        BY <4>1, <1>1, SetupsAssumption DEF ChainInv
      <4> QED
        BY <4>1, <4>2, <1>4
    <3>4. AnswerOk(v, c, made, inow, history)
      BY <3>1, <3>2, <3>3, <1>3 DEF AnswerOk
    <3> QED
      BY <2>1, <3>1, <3>4
  <2> QED
    BY <2>1, <1>1, BackAt
<1> HIDE DEF result
<1>6. CallOk(c, made, inow, begun, history) /\ ~Inbound(c)
  BY <1>1, <1>5, BackOk
<1> HIDE DEF c
<1> QED
  BY <1>2, <1>6, OneGoesOn

LEMMA LeaveSerializerKeeps == ASSUME ChainInv, NEW t \in Callers, LeaveSerializer(t) PROVE ChainInv'
<1> DEFINE old == call[t]  l == old.layer
           result == IF old.result = <<>> THEN <<>> ELSE <<[old.result[1] EXCEPT !.fields = Project(@)]>>
           c == CallParts("back", old.number, l - 1, old.key, old.started, old.held, result)
<1>1. old.at = "back" /\ l > 0 /\ made.kinds[l] = "serializer"
  BY DEF LeaveSerializer, Returning, Kind
<1>2. To(t, c) /\ UNCHANGED <<made, inow, store, begun, history>>
  BY CallOkOf, UnwindingParts DEF LeaveSerializer
<1>3. c.layer = l - 1 /\ c.key = old.key /\ c.started = old.started
  BY DEF CallParts
<1>4. l \in DOMAIN made.kinds /\ l \in Nat
  BY <1>1, BackAt
<1>5. result = <<>> \/ \E v : result = <<v>> /\ AnswerOk(v, c, made, inow, history)
  <2>1. CASE \E v : old.result = <<v>> /\ AnswerOk(v, old, made, inow, history)
    <3>1. PICK v : old.result = <<v>> /\ AnswerOk(v, old, made, inow, history)
      BY <2>1
    <3> DEFINE w == [v EXCEPT !.fields = Project(v.fields)]
    <3>2. result = <<w>>
      BY <3>1
    <3> HIDE DEF c, result
    <3>3. v \in RunAnswers
      BY <3>1 DEF AnswerOk
    <3>4. w \in RunAnswers /\ w.run = v.run /\ w.fields = Project(v.fields)
      BY <3>3 DEF RunAnswers, Project
    <3> HIDE DEF w
    <3>5. Clean(w, made)
      BY <3>4 DEF Clean, Project
    <3>6. RanFor(w, c.key, history)
      BY <3>1, <3>4, <1>3 DEF AnswerOk, RanFor
    <3>7. TookAtMost(v, made.timeout, history) => TookAtMost(w, made.timeout, history)
      BY <3>4 DEF TookAtMost
    <3>8. Past(made, "timeout", c.layer) => Past(made, "timeout", l)
      <4>1. SUFFICES ASSUME NEW n \in DOMAIN made.kinds, made.kinds[n] = "timeout", l - 1 < n PROVE l < n
        BY <1>3 DEF Past
      <4>2. n \in Nat /\ n # l
        BY <4>1, <1>1, SetupsAssumption DEF ChainInv
      <4> QED
        BY <4>1, <4>2, <1>4
    <3>9. Unhurried(v, old, made, inow, history) => Unhurried(w, c, made, inow, history)
      BY <3>4, <3>8, <1>3 DEF Unhurried
    <3>10. AnswerOk(w, c, made, inow, history)
      BY <3>1, <3>4, <3>5, <3>6, <3>7, <3>9 DEF AnswerOk
    <3> QED
      BY <3>2, <3>10
  <2> QED
    BY <2>1, <1>1, BackAt
<1> HIDE DEF result
<1>6. CallOk(c, made, inow, begun, history) /\ ~Inbound(c)
  BY <1>1, <1>5, BackOk
<1> HIDE DEF c
<1> QED
  BY <1>2, <1>6, OneGoesOn

\* A caller that is idle again.
LEMMA IdleKeeps ==
  ASSUME ChainInv, NEW t \in Callers, To(t, IdleCall), UNCHANGED <<made, inow, store, begun, history>>
  PROVE  ChainInv'
<1>1. ~Inbound(IdleCall)
  BY DEF Inbound, IdleCall
<1> QED
  BY <1>1, IdleOk, OneGoesOn

LEMMA JudgeKeeps == ASSUME ChainInv, NEW t \in Callers, Judge(t) PROVE ChainInv'
<1> DEFINE old == call[t]  l == old.layer
<1>1. CallOk(old, made, inow, begun, history) /\ old \in CallRecords(made) /\ inow \in Nat /\ made \in ChainSetups
  BY CallOkOf DEF ChainInv
<1>2. old.at = "found" /\ UNCHANGED <<made, inow, store, begun, history>>
  BY DEF Judge
<1>3. PICK e : old.held = <<e>> /\ EntryOk(e, old.key, made, history)
  BY <1>1, <1>2 DEF CallOk
<1>4. CacheIs(made, l) /\ l > 0 /\ l \in Nat
  BY <1>1, <1>2 DEF CallOk, CallRecords
<1>5. l <= Len(made.kinds) /\ Len(made.kinds) \in Nat
  BY <1>1, <1>4, SetupsAssumption DEF CacheIs
<1>6. e \in StoredEntries /\ e.inserted \in Nat /\ e.value \in RunAnswers
  BY <1>3 DEF EntryOk, StoredEntries
<1>7. old.held[1] = e
  BY <1>3
<1>8. CASE Expired(e)
  <2> DEFINE c == CallParts("expired", old.number, l, old.key, old.started, old.held, old.result)
  <2>1. To(t, c)
    BY <1>1, <1>7, <1>8, StageReplaced DEF Judge
  <2>2. c.at = "expired" /\ c.layer = l /\ c.number = old.number /\ c.key = old.key /\ c.started = old.started
        /\ c.held = old.held
    BY DEF CallParts
  <2>3. c \in CallRecords(made)
    BY <1>1 DEF CallRecords, CallParts
  <2> HIDE DEF c
  <2>4. CallOk(c, made, inow, begun, history)
    BY <1>1, <1>2, <1>3, <1>4, <2>2, <2>3 DEF CallOk
  <2> QED
    BY <1>2, <2>1, <2>2, <2>4, OneGoesOn DEF Inbound
<1>9. CASE ~Expired(e)
  <2> DEFINE x == [entry |-> e, at |-> inow]
             d == CallParts("back", old.number, l - 1, old.key, old.started, old.held, <<e.value>>)
             c == CallParts("back", old.number, l - 1, old.key, old.started, <<x>>, <<e.value>>)
  <2>1. Unwinding(old, <<e.value>>) = d
    BY <1>1, UnwindingParts
  <2>2. [d EXCEPT !.held = <<x>>] = c
    BY SetHeld
  <2>3. To(t, c)
    BY <1>7, <1>9, <2>1, <2>2 DEF Judge
  <2>4. x \in ServedEntries /\ x.entry = e /\ x.at = inow
    BY <1>1, <1>6 DEF ServedEntries
  <2>5. made.ttl # Forever => inow - e.inserted < made.ttl
    BY <1>1, <1>6, <1>9, SetupsAssumption DEF Expired
  <2>6. ServedOk(x, old.key, made, history)
    BY <1>3, <2>4, <2>5 DEF ServedOk, EntryOk
  <2>7. c.at = "back" /\ c.layer = l - 1 /\ c.number = old.number /\ c.key = old.key /\ c.started = old.started
        /\ c.held = <<x>> /\ c.result = <<e.value>>
    BY DEF CallParts
  <2>8. <<x>> \in Seq(Nat \cup StoredEntries \cup ServedEntries) /\ <<e.value>> \in Seq(RunAnswers)
    BY <1>6, <2>4
  <2> HIDE DEF x
  <2>9. c \in CallRecords(made)
    BY <1>1, <1>4, <2>8 DEF CallRecords, CallParts
  <2> HIDE DEF c
  <2>10. Past(made, "serializer", c.layer) => Past(made, "serializer", l)
    <3>1. SUFFICES ASSUME NEW n \in DOMAIN made.kinds, made.kinds[n] = "serializer", l - 1 < n PROVE l < n
      BY <2>7 DEF Past
    <3>2. n \in Nat /\ n # l
      BY <3>1, <1>1, <1>4, SetupsAssumption DEF CacheIs
    <3> QED
      BY <3>1, <3>2, <1>4
  <2>11. AnswerOk(e.value, c, made, inow, history)
    BY <1>3, <1>4, <1>6, <2>7, <2>10 DEF AnswerOk, EntryOk
  <2>12. c.layer <= Len(made.kinds) /\ c.layer <= Len(made.kinds) + 1
    BY <1>4, <1>5, <2>7
  <2>13. CallOk(c, made, inow, begun, history)
    BY <1>1, <1>2, <2>6, <2>7, <2>9, <2>11, <2>12 DEF CallOk
  <2> QED
    BY <1>2, <2>3, <2>7, <2>13, OneGoesOn DEF Inbound
<1> QED
  BY <1>8, <1>9

LEMMA EvictKeeps == ASSUME ChainInv, NEW t \in Callers, Evict(t) PROVE ChainInv'
<1> DEFINE old == call[t]  l == old.layer
           d == CallParts("call", old.number, l + 1, old.key, old.started, old.held, old.result)
           c == CallParts("call", old.number, l + 1, old.key, old.started, <<>>, old.result)
<1>1. CallOk(old, made, inow, begun, history) /\ old \in CallRecords(made) /\ inow \in Nat /\ made \in ChainSetups
  BY CallOkOf DEF ChainInv
<1>2. old.at = "expired" /\ UNCHANGED <<made, inow, begun, history>>
  BY DEF Evict
<1>3. CacheIs(made, l) /\ l > 0 /\ l \in Nat /\ \A i : TimeoutIs(made, i) /\ i < l => old.started[i] <= inow
  BY <1>1, <1>2 DEF CallOk, CallRecords
<1>4. To(t, c)
  <2>1. Deeper(old) = d
    BY <1>1, DeeperParts
  <2>2. [d EXCEPT !.held = <<>>] = c
    BY SetHeld
  <2> QED
    BY <2>1, <2>2 DEF Evict
<1>5. c.at = "call" /\ c.layer = l + 1 /\ c.number = old.number /\ c.key = old.key /\ c.started = old.started
  BY DEF CallParts
<1>6. c \in CallRecords(made)
  BY <1>1 DEF CallRecords, CallParts
<1> HIDE DEF c
<1>7. ASSUME NEW i, TimeoutIs(made, i), i < c.layer PROVE c.started[i] <= inow
  <2>1. i \in Nat /\ i # l
    BY <1>1, <1>3, <1>7, SetupsAssumption DEF TimeoutIs, CacheIs
  <2>2. i < l
    BY <2>1, <1>3, <1>5, <1>7
  <2> QED
    BY <2>2, <1>3, <1>5, <1>7
<1>8. c.layer > 0 /\ c.layer <= Len(made.kinds) + 1
  BY <1>1, <1>3, <1>5, SetupsAssumption DEF CacheIs
<1>9. CallOk(c, made, inow, begun, history)
  BY <1>1, <1>2, <1>5, <1>6, <1>7, <1>8 DEF CallOk
<1>10. \A k \in DOMAIN store' : k \in DOMAIN store /\ store'[k] = store[k]
  BY DEF Evict, Restrict
<1>11. \A k \in DOMAIN store' : EntryOk(store'[k], k, made, history')
  BY <1>2, <1>10 DEF ChainInv
<1>12. begun' \in Nat /\ begun <= begun' /\ history \subseteq history' /\ HistoryOk'
  BY <1>2 DEF ChainInv, HistoryOk
<1>13. Inbound(old) /\ \A h \in history' : h.run # c.number
  BY <1>2, <1>5 DEF ChainInv, NumbersOk, Inbound
<1> QED
  BY <1>2, <1>4, <1>5, <1>9, <1>11, <1>12, <1>13, OneMoves

LEMMA StartHandlerKeeps == ASSUME ChainInv, NEW t \in Callers, StartHandler(t) PROVE ChainInv'
<1> DEFINE old == call[t]  l == old.layer
           c == CallParts("run", old.number, l, old.key, old.started, <<inow>>, old.result)
<1>1. CallOk(old, made, inow, begun, history) /\ old \in CallRecords(made) /\ inow \in Nat /\ made \in ChainSetups
  BY CallOkOf DEF ChainInv
<1>2. old.at = "call" /\ l > Len(made.kinds) /\ l \in Nat /\ UNCHANGED <<made, inow, store, begun, history>>
  BY <1>1 DEF StartHandler, CallRecords
<1>3. To(t, c)
  BY <1>1, StageReplaced, ZenonT(40) DEF StartHandler
<1>4. c.at = "run" /\ c.layer = l /\ c.number = old.number /\ c.key = old.key /\ c.started = old.started
      /\ c.held = <<inow>>
  BY DEF CallParts
<1>5. <<inow>> \in Seq(Nat \cup StoredEntries \cup ServedEntries)
  BY <1>1
<1>6. c \in CallRecords(made)
  BY <1>1, <1>5 DEF CallRecords, CallParts
<1> HIDE DEF c
<1>7. ASSUME NEW i, TimeoutIs(made, i) PROVE c.started[i] <= inow
  <2>1. i < l
    BY <1>1, <1>2, <1>7, SetupsAssumption DEF TimeoutIs
  <2> QED
    BY <2>1, <1>1, <1>2, <1>4, <1>7 DEF CallOk
<1>8. CallOk(c, made, inow, begun, history)
  BY <1>1, <1>2, <1>4, <1>6, <1>7 DEF CallOk
<1> QED
  BY <1>2, <1>3, <1>4, <1>8, OneGoesOn DEF Inbound

LEMMA EndHandlerKeeps == ASSUME ChainInv, NEW t \in Callers, EndHandler(t) PROVE ChainInv'
<1> DEFINE old == call[t]  l == old.layer
<1>1. CallOk(old, made, inow, begun, history) /\ old \in CallRecords(made) /\ inow \in Nat /\ made \in ChainSetups
      /\ begun \in Nat
  BY CallOkOf DEF ChainInv
<1>2. old.at = "run" /\ UNCHANGED <<made, inow, store, begun>>
  BY DEF EndHandler
<1>3. l > Len(made.kinds) /\ l <= Len(made.kinds) + 1 /\ l \in Nat /\ Len(made.kinds) \in Nat
  BY <1>1, <1>2, SetupsAssumption DEF CallOk, CallRecords
<1>4. PICK s \in Nat : old.held = <<s>> /\ s <= inow /\ \A i : TimeoutIs(made, i) => old.started[i] <= s
  BY <1>1, <1>2 DEF CallOk
<1>5. old.held[1] = s
  BY <1>4
<1>6. old.number \in Nat /\ old.number <= begun /\ old.key = CacheKey(Arrivals[old.number])
      /\ old.started \in [DOMAIN made.kinds -> Nat]
  BY <1>1, <1>2 DEF CallOk, CallRecords
<1>7. ASSUME NEW result, To(t, [Unwinding(old, result) EXCEPT !.held = <<>>]), result \in Seq(RunAnswers),
             history \subseteq history', HistoryOk',
             result = <<>> \/ \E v : result = <<v>> /\ \A c : c.layer = l - 1 /\ c.key = old.key /\ c.started = old.started
                                                      => AnswerOk(v, c, made, inow, history'),
             \A h \in history' \ history : h.run = old.number
      PROVE  ChainInv'
  <2> DEFINE d == CallParts("back", old.number, l - 1, old.key, old.started, old.held, result)
             c == CallParts("back", old.number, l - 1, old.key, old.started, <<>>, result)
  <2>1. Unwinding(old, result) = d
    BY <1>1, UnwindingParts
  <2>2. [d EXCEPT !.held = <<>>] = c
    BY SetHeld
  <2>3. To(t, c)
    BY <1>7, <2>1, <2>2
  <2>4. c.at = "back" /\ c.layer = l - 1 /\ c.number = old.number /\ c.key = old.key /\ c.started = old.started
        /\ c.held = <<>> /\ c.result = result
    BY DEF CallParts
  <2>5. c \in CallRecords(made)
    <3>1. l - 1 \in Nat
      BY <1>3
    <3>2. <<>> \in Seq(Nat \cup StoredEntries \cup ServedEntries)
      OBVIOUS
    <3>3. old.key \in CallKeys /\ old.number \in Nat /\ old.started \in [DOMAIN made.kinds -> Nat] \cup {<<>>}
      BY <1>1 DEF CallRecords
    <3> QED
      BY <1>7, <3>1, <3>2, <3>3 DEF CallRecords, CallParts
  <2> HIDE DEF c
  <2>6. c.layer <= Len(made.kinds) /\ c.layer <= Len(made.kinds) + 1
    BY <1>3, <2>4
  <2>7. result = <<>> \/ \E v : result = <<v>> /\ AnswerOk(v, c, made, inow, history')
    BY <1>7, <2>4
  <2>8. CallOk(c, made, inow, begun', history')
    BY <1>2, <1>6, <2>4, <2>5, <2>6, <2>7 DEF CallOk
  <2>9. \A k \in DOMAIN store' : EntryOk(store'[k], k, made, history')
    <3>1. ASSUME NEW k \in DOMAIN store PROVE EntryOk(store[k], k, made, history')
      <4>1. EntryOk(store[k], k, made, history)
        BY DEF ChainInv
      <4> QED
        BY <4>1, <1>7, EntryKept
    <3> QED
      BY <1>2, <3>1
  <2>10. \A h \in history' \ history : \A u \in Callers : Inbound(call[u]) /\ u # t => h.run # call[u].number
    BY <1>2, <1>7 DEF ChainInv, NumbersOk, Inbound
  <2>11. ~Inbound(c)
    BY <2>4 DEF Inbound
  <2> QED
    BY <1>1, <1>2, <1>7, <2>3, <2>8, <2>9, <2>10, <2>11, OneMoves
<1>8. CASE To(t, [Unwinding(old, <<>>) EXCEPT !.held = <<>>]) /\ UNCHANGED history
  <2>1. HistoryOk'
    BY <1>2, <1>8 DEF ChainInv, HistoryOk
  <2>2. <<>> \in Seq(RunAnswers) /\ history \subseteq history' /\ history' \ history = {}
    BY <1>8
  <2> QED
    BY <1>8, <1>7, <2>1, <2>2
<1>9. CASE /\ To(t, [Unwinding(old, <<Value(old.number, Fields)>>) EXCEPT !.held = <<>>])
           /\ history' = history \cup {[run |-> old.number, request |-> Arrivals[old.number], took |-> inow - old.held[1]]}
  <2> DEFINE v == Value(old.number, Fields)
             h == [run |-> old.number, request |-> Arrivals[old.number], took |-> inow - s]
  <2>1. history' = history \cup {h}
    BY <1>5, <1>9
  <2>2. h.run = old.number /\ h.request = Arrivals[old.number] /\ h.took = inow - s /\ h \in Runs
    BY <1>1, <1>4, <1>6 DEF Runs
  <2>3. v \in RunAnswers /\ v.run = old.number
    BY <1>6 DEF Value, RunAnswers
  <2> HIDE DEF h, v
  <2>4. \A g \in history : g.run # old.number
    BY <1>2 DEF ChainInv, NumbersOk, Inbound
  <2>5. HistoryOk'
    <3>1. history' \subseteq Runs
      BY <2>1, <2>2 DEF ChainInv, HistoryOk
    <3>2. \A f, g \in history' : f.run = g.run => f = g
      BY <2>1, <2>2, <2>4 DEF ChainInv, HistoryOk
    <3>3. \A g \in history' : g.run <= begun'
      BY <1>2, <1>6, <2>1, <2>2 DEF ChainInv, HistoryOk
    <3> QED
      BY <3>1, <3>2, <3>3 DEF HistoryOk
  <2>6. ASSUME NEW c, c.layer = l - 1, c.key = old.key, c.started = old.started
        PROVE  AnswerOk(v, c, made, inow, history')
    <3>1. RanFor(v, c.key, history')
      BY <1>6, <2>1, <2>2, <2>3, <2>6 DEF RanFor
    <3>2. ASSUME NEW kind PROVE ~Past(made, kind, c.layer)
      BY <1>1, <1>3, <2>6, SetupsAssumption DEF Past
    <3>3. ASSUME NEW i, TimeoutIs(made, i) PROVE h.took <= inow - c.started[i]
      <4>1. c.started[i] <= s /\ c.started[i] \in Nat
        BY <3>3, <1>4, <1>6, <2>6 DEF TimeoutIs
      <4> QED
        BY <4>1, <2>2, <1>1
    <3>4. h \in history' /\ h.run = v.run
      BY <2>1, <2>2, <2>3
    <3>5. Unhurried(v, c, made, inow, history')
      BY <3>2, <3>3, <3>4 DEF Unhurried
    <3> QED
      BY <2>3, <3>1, <3>2, <3>5 DEF AnswerOk
  <2>7. <<v>> \in Seq(RunAnswers)
    BY <2>3
  <2>8. \A g \in history' \ history : g.run = old.number
    BY <2>1, <2>2
  <2>9. To(t, [Unwinding(old, <<v>>) EXCEPT !.held = <<>>]) /\ history \subseteq history'
    BY <1>9, <2>1 DEF v
  <2>10. \E w : <<v>> = <<w>> /\ \A c : c.layer = l - 1 /\ c.key = old.key /\ c.started = old.started
                                   => AnswerOk(w, c, made, inow, history')
    BY <2>6
  <2> QED
    BY <1>7, <2>5, <2>7, <2>8, <2>9, <2>10
<1> QED
  BY <1>8, <1>9 DEF EndHandler

LEMMA StoreAnswerKeeps == ASSUME ChainInv, NEW t \in Callers, StoreAnswer(t) PROVE ChainInv'
<1> DEFINE old == call[t]  l == old.layer
           c == CallParts("back", old.number, l - 1, old.key, old.started, old.held, old.result)
<1>1. old.at = "back" /\ l > 0 /\ made.kinds[l] = "cache" /\ UNCHANGED <<made, inow, begun, history>>
  BY DEF StoreAnswer, Returning, Kind
<1>2. To(t, c)
  BY CallOkOf, UnwindingParts DEF StoreAnswer
<1>3. c.layer = l - 1 /\ c.key = old.key /\ c.started = old.started
  BY DEF CallParts
<1>4. l \in DOMAIN made.kinds /\ inow \in Nat /\ made \in ChainSetups
  BY <1>1, BackAt DEF ChainInv
<1>5. old.result = <<>> \/ \E v : old.result = <<v>> /\ AnswerOk(v, old, made, inow, history)
  BY <1>1, BackAt
<1>6. old.result = <<>> \/ \E v : old.result = <<v>> /\ AnswerOk(v, c, made, inow, history)
  <2> HIDE DEF c
  <2>1. CASE \E v : old.result = <<v>> /\ AnswerOk(v, old, made, inow, history)
    <3>1. PICK v : old.result = <<v>> /\ AnswerOk(v, old, made, inow, history)
      BY <2>1
    <3>2. AnswerOk(v, c, made, inow, history)
      BY <3>1, <1>1, <1>3, <1>4, LayerLeft
    <3> QED
      BY <3>1, <3>2
  <2> QED
    BY <2>1, <1>5
<1>7. CallOk(c, made, inow, begun, history) /\ ~Inbound(c)
  BY <1>1, <1>6, BackOk
<1>8. ASSUME NEW k \in DOMAIN store' PROVE EntryOk(store'[k], k, made, history)
  <2>1. CASE old.result # <<>> /\ k = old.key
    <3>1. PICK v : old.result = <<v>> /\ AnswerOk(v, old, made, inow, history)
      BY <2>1, <1>5
    <3> DEFINE e == [value |-> v, inserted |-> inow]
    <3>2. old.result[1] = v
      BY <3>1
    <3>3. store' = [x \in DOMAIN store \cup {old.key} |-> IF x = old.key THEN e ELSE store[x]]
      BY <2>1, <3>2 DEF StoreAnswer
    <3>4. store'[k] = e
      BY <2>1, <3>3
    <3>5. e \in StoredEntries /\ e.value = v
      BY <3>1, <1>4 DEF AnswerOk, StoredEntries
    <3> HIDE DEF e
    <3>6. ASSUME NEW o, CacheIs(made, o) PROVE o = l
      BY <3>6, <1>1, <1>4, SetupsAssumption DEF CacheIs
    <3>7. CacheInTime(made) => Past(made, "timeout", l)
      BY <3>6 DEF CacheInTime
    <3>8. CacheInTime(made) => TookAtMost(v, made.timeout, history)
      BY <3>1, <3>7 DEF AnswerOk, Unhurried
    <3>9. \A o : CacheIs(made, o) /\ Past(made, "serializer", o) => Clean(v, made)
      BY <3>1, <3>6 DEF AnswerOk
    <3>10. EntryOk(e, old.key, made, history)
      BY <3>1, <3>5, <3>8, <3>9 DEF EntryOk, AnswerOk
    <3> QED
      BY <2>1, <3>4, <3>10
  <2>2. CASE ~(old.result # <<>> /\ k = old.key)
    <3>1. k \in DOMAIN store /\ store'[k] = store[k]
      BY <2>2, <1>8 DEF StoreAnswer
    <3> QED
      BY <3>1 DEF ChainInv
  <2> QED
    BY <2>1, <2>2
<1> HIDE DEF c
<1>9. begun' \in Nat /\ begun <= begun' /\ history \subseteq history' /\ HistoryOk'
  BY <1>1 DEF ChainInv, HistoryOk
<1> QED
  BY <1>1, <1>2, <1>7, <1>8, <1>9, OneMoves

LEMMA ChainTickKeeps == ASSUME ChainInv, ChainTick PROVE ChainInv'
<1>1. UNCHANGED <<made, store, call, begun, history>> /\ inow' = inow + 1 /\ inow \in Nat /\ begun \in Nat
      /\ made \in ChainSetups /\ history \in SUBSET Runs
  BY DEF ChainInv, ChainTick, HistoryOk
<1>2. ASSUME NEW t \in Callers PROVE CallOk(call[t], made, inow', begun, history)
  <2>1. inow' \in Nat /\ inow <= inow'
    BY <1>1
  <2>2. CallOk(call[t], made, inow, begun, history)
    BY DEF ChainInv
  <2> QED
    BY <1>1, <2>1, <2>2, CallKept
<1>3. HistoryOk' /\ NumbersOk'
  BY <1>1 DEF ChainInv, HistoryOk, NumbersOk, Inbound
<1> QED
  BY <1>1, <1>2, <1>3 DEF ChainInv

LEMMA ChainInitial == InterceptorsInit => ChainInv
<1> SUFFICES ASSUME InterceptorsInit PROVE ChainInv
  OBVIOUS
<1>1. \A t \in Callers : CallOk(call[t], made, inow, begun, history)
  BY IdleOk DEF InterceptorsInit
<1>2. HistoryOk
  BY DEF InterceptorsInit, HistoryOk
<1>3. NumbersOk
  BY DEF InterceptorsInit, NumbersOk, Inbound, IdleCall
<1> QED
  BY <1>1, <1>2, <1>3 DEF InterceptorsInit, ChainInv

LEMMA ChainStep == ChainInv /\ [InterceptorsNext]_chainVars => ChainInv'
<1> SUFFICES ASSUME ChainInv, [InterceptorsNext]_chainVars PROVE ChainInv'
  OBVIOUS
<1>1. CASE ChainTick
  BY <1>1, ChainTickKeeps
<1>2. ASSUME NEW t \in Callers,
             \/ BeginCall(t) \/ EnterLayer(t) \/ LookUp(t) \/ Judge(t) \/ Evict(t) \/ StartHandler(t) \/ EndHandler(t)
             \/ Forget(t) \/ StoreAnswer(t) \/ LeaveTimeout(t) \/ LeaveSerializer(t) \/ LeaveLogging(t)
             \/ NextCall(t)
      PROVE  ChainInv'
  <2>1. CASE BeginCall(t) \/ EnterLayer(t) \/ LookUp(t) \/ Judge(t) \/ Evict(t) \/ StartHandler(t) \/ EndHandler(t)
    BY <2>1, BeginCallKeeps, EnterLayerKeeps, LookUpKeeps, JudgeKeeps, EvictKeeps, StartHandlerKeeps, EndHandlerKeeps
  <2>2. CASE Forget(t) \/ NextCall(t)
    BY <2>2, IdleKeeps DEF Forget, NextCall
  <2>3. CASE StoreAnswer(t) \/ LeaveTimeout(t) \/ LeaveSerializer(t) \/ LeaveLogging(t)
    BY <2>3, StoreAnswerKeeps, LeaveTimeoutKeeps, LeaveSerializerKeeps, LeaveLoggingKeeps
  <2> QED
    BY <1>2, <2>1, <2>2, <2>3
<1>3. CASE UNCHANGED chainVars
  <2>1. UNCHANGED <<made, inow, store, call, begun, history>>
    BY <1>3 DEF chainVars
  <2>2. HistoryOk' /\ NumbersOk'
    BY <2>1 DEF ChainInv, HistoryOk, NumbersOk, Inbound
  <2> QED
    BY <2>1, <2>2 DEF ChainInv
<1> QED
  BY <1>1, <1>2, <1>3 DEF InterceptorsNext

\* Requests of one key are of one shape.
LEMMA OneShape ==
  ASSUME NEW x, NEW y, CacheKey(x) = CacheKey(y)
  PROVE  Alike(x, y)
<1>1. SUFFICES ASSUME NEW part \in DOMAIN x
               PROVE  {x[part], y[part]} \subseteq {Unnamed, "unknown"} \/ x[part] = y[part]
  BY DEF Alike
<1>2. DOMAIN CacheKey(x) = DOMAIN x /\ DOMAIN CacheKey(y) = DOMAIN y
  BY DEF CacheKey
<1>3. part \in DOMAIN y
  BY <1>2
<1>4. CacheKey(x)[part] = IF x[part] = Unnamed THEN "unknown" ELSE x[part]
  BY DEF CacheKey
<1>5. CacheKey(y)[part] = IF y[part] = Unnamed THEN "unknown" ELSE y[part]
  BY <1>3 DEF CacheKey
<1> QED
  BY <1>4, <1>5

LEMMA CacheIsTruthful == ChainInv => CacheTruthful
<1> SUFFICES ASSUME ChainInv, NEW t \in Callers, call[t].at = "back", call[t].held # <<>>
             PROVE  LET served == call[t].held[1] IN
                    /\ \E h \in history : h.run = served.entry.value.run /\ Alike(h.request, Arrivals[call[t].number])
                    /\ made.ttl # Forever => served.at - served.entry.inserted < made.ttl
  BY DEF CacheTruthful
<1>1. CallOk(call[t], made, inow, begun, history)
  BY CallOkOf
<1>2. PICK x : call[t].held = <<x>> /\ ServedOk(x, call[t].key, made, history)
  BY <1>1 DEF CallOk
<1>3. call[t].held[1] = x /\ call[t].key = CacheKey(Arrivals[call[t].number])
  BY <1>1, <1>2 DEF CallOk
<1>4. PICK h \in history : h.run = x.entry.value.run /\ CacheKey(h.request) = call[t].key
  BY <1>2 DEF ServedOk, RanFor
<1>5. Alike(h.request, Arrivals[call[t].number])
  BY <1>3, <1>4, OneShape
<1> QED
  BY <1>2, <1>3, <1>4, <1>5 DEF ServedOk

\* What a caller is left with at the end.
LEMMA AnsweredOk ==
  ASSUME ChainInv, NEW t \in Callers, Answered(t), call[t].result # <<>>
  PROVE  AnswerOk(call[t].result[1], call[t], made, inow, history)
<1>1. CallOk(call[t], made, inow, begun, history) /\ call[t].at = "back"
  BY CallOkOf DEF Answered
<1>2. PICK v : call[t].result = <<v>> /\ AnswerOk(v, call[t], made, inow, history)
  BY <1>1 DEF CallOk
<1>3. call[t].result[1] = v
  BY <1>2
<1> QED
  BY <1>2, <1>3

LEMMA NothingIsLate == ChainInv => NothingLate
<1> SUFFICES ASSUME ChainInv, Inside("timeout", "cache"), NEW t \in Callers, Answered(t), call[t].result # <<>>
             PROVE  Run(call[t].result[1]).took <= made.timeout
  BY DEF NothingLate
<1> DEFINE v == call[t].result[1]
<1>1. AnswerOk(v, call[t], made, inow, history) /\ call[t].layer = 0
  BY AnsweredOk DEF Answered
<1>2. PICK i, o : i \in DOMAIN made.kinds /\ made.kinds[i] = "timeout" /\ o \in DOMAIN made.kinds
                  /\ made.kinds[o] = "cache" /\ o < i
  BY DEF Inside, InChain
<1>3. CacheInTime(made)
  BY <1>2 DEF CacheInTime, CacheIs, Past
<1>4. Past(made, "timeout", 0)
  <2>1. i > 0
    BY <1>2, SetupsAssumption DEF ChainInv
  <2> QED
    BY <1>2, <2>1 DEF Past
<1>5. TookAtMost(v, made.timeout, history)
  BY <1>1, <1>3, <1>4 DEF AnswerOk, Unhurried
<1>6. PICK h \in history : h.run = v.run /\ h.took <= made.timeout
  BY <1>5 DEF TookAtMost
<1>7. \A g \in history : g.run = v.run => g = h
  BY <1>6 DEF ChainInv, HistoryOk
<1>8. Run(v) = h
  BY <1>6, <1>7 DEF Run
<1> QED
  BY <1>6, <1>8

LEMMA NoFieldIsLeaked == ChainInv => NoFieldLeaks
<1> SUFFICES ASSUME ChainInv, InChain("serializer") # {}, NEW t \in Callers, Answered(t), call[t].result # <<>>
             PROVE  /\ call[t].result[1].fields \cap made.excluded = {}
                    /\ call[t].result[1].fields \subseteq made.exposed
  BY DEF NoFieldLeaks
<1>1. AnswerOk(call[t].result[1], call[t], made, inow, history) /\ call[t].layer = 0
  BY AnsweredOk DEF Answered
<1>2. PICK i : i \in DOMAIN made.kinds /\ made.kinds[i] = "serializer"
  BY DEF InChain
<1>3. i > 0
  BY <1>2, SetupsAssumption DEF ChainInv
<1>4. Past(made, "serializer", 0)
  BY <1>2, <1>3 DEF Past
<1> QED
  BY <1>1, <1>4 DEF AnswerOk, Clean

\* What a caller gets was answered to a request like its own, in time and without a hidden field, for
\* any chain, ttl and timeout and any number of callers between the three locks of the cache
\* (nivasa-interceptors lib.rs).
THEOREM CallersAreToldTheTruth == InterceptorsSpec => []AnswersTruthful
<1>1. ChainInv => AnswersTruthful
  BY CacheIsTruthful, NothingIsLate, NoFieldIsLeaked DEF AnswersTruthful
<1> QED
  BY <1>1, ChainInitial, ChainStep, PTL DEF InterceptorsSpec

-----------------------------------------------------------------------------
(* Middleware: m is what a request goes through, x its call. *)

RequestIds == {r.id : r \in SentRequests} \cup {<<"new", c>> : c \in Calls} \cup {NoId}
OnionRequests == [id : RequestIds, accept : Seq(STRING)]
Encodings == STRING \cup {Favourite}
ResponseFields == {"id", "empty", "own", "encoded", "label", "length", "vary", "secured"}

Identified(m, n) == \E k \in DOMAIN m : m[k] = "request_id" /\ k <= n
IdentifiedLater(m, n) == \E k \in DOMAIN m : m[k] = "request_id" /\ n < k
CompressedLater(m, n) == {k \in DOMAIN m : m[k] = "compression" /\ n < k}

\* What the first `done` middleware have seen of the request they handed on.
SeenOk(x, m, done) ==
  /\ x.seen \in Seq(OnionRequests) /\ Len(x.seen) = done
  /\ \A n \in DOMAIN x.seen :
       /\ x.seen[n].accept = x.request.accept
       /\ Readable(x.seen[n].id) => x.seen[n].id = x.request.id
       /\ Identified(m, n) => Readable(x.seen[n].id)
  /\ Identified(m, done) => Readable(x.request.id)

\* What the client may see on a body.
Offered(accept) == ToSet(accept) \cup (IF "*" \in ToSet(accept) THEN {Favourite} ELSE {})

\* The response as it is handed to the middleware at n on its way out.
ResponseOk(r, asked, m, n) ==
  /\ DOMAIN r = ResponseFields
  /\ IdentifiedLater(m, n) => r.id = asked.id
  /\ ~r.empty => /\ r.encoded \in Seq(Encodings) /\ r.own \in Nat /\ Labelled(r)
                 /\ Len(r.encoded) = r.own + (IF Format(asked.accept) = "none" THEN 0
                                              ELSE Cardinality(CompressedLater(m, n)))
                 /\ (r.own = 0 /\ r.label # "none") => r.label \in Offered(asked.accept)

Passing(x, m) ==
  /\ x.stage \in {"idle", "in", "called", "out", "done", "dropped"}
  /\ DOMAIN x = {"stage", "at", "request", "seen", "turn"}
                \cup (IF x.stage \in {"out", "done"} THEN {"response"} ELSE {})
  /\ x.request \in OnionRequests /\ x.at \in Nat
  /\ x.stage = "idle" => x.seen = <<>>
  /\ x.stage = "in" => x.at > 0 /\ SeenOk(x, m, x.at - 1)
  /\ x.stage \in {"called", "out", "done"} => SeenOk(x, m, Len(m))
  /\ x.stage = "out" => x.at <= Len(m) /\ ResponseOk(x.response, x.request, m, x.at)
  /\ x.stage = "done" => ResponseOk(x.response, x.request, m, 0)

\* The shared service belongs to at most one call, which is in it or on its way to or from it.
ServiceOk ==
  /\ mutex # Nobody => mutex \in Calls /\ calls[mutex].stage \in {"in", "called", "out"}
  /\ terminal.kind = "shared" => \A c \in Calls : calls[c].stage = "called" => mutex = c /\ calls[c].turn = counted
  /\ OwnCopy => \A c \in Calls : calls[c].turn <= 1

LinesOk ==
  \A l \in lines : /\ l.call \in Calls /\ calls[l.call].stage \in {"out", "done"}
                   /\ IdentifiedLater(Through, 0) => l.id = calls[l.call].request.id

OnionInv ==
  /\ stack \in Stacks /\ terminal \in Terminals
  /\ DOMAIN calls = Calls
  /\ \A c \in Calls : Passing(calls[c], Through)
  /\ ServiceOk
  /\ LinesOk

LEMMA ThroughTyped ==
  ASSUME OnionInv
  PROVE  Through \in Seq(STRING) /\ stack \in Seq(STRING)
BY OnionAssumption DEF OnionInv, Through

\* An encoding that is taken was named by the client, or is what its "*" stands for.
LEMMA FormatOffered ==
  ASSUME NEW accept \in Seq(STRING), Format(accept) # "none"
  PROVE  Format(accept) \in Offered(accept)
<1> DEFINE formats == [i \in DOMAIN accept |->
                         IF accept[i] = "*" THEN Favourite
                         ELSE IF accept[i] \in Features THEN accept[i] ELSE "none"]
           I == {i \in 1..Len(formats) : formats[i] # "none"}
           first == IF I # {} THEN CHOOSE x \in I : \A y \in I : x =< y ELSE 0
<1>1. Format(accept) = IF first = 0 THEN "none" ELSE formats[first]
  BY DEF Format, SelectInSeq, Min
<1>2. DOMAIN accept = 1..Len(accept) /\ Len(accept) \in Nat
  OBVIOUS
<1>3. DOMAIN formats = DOMAIN accept /\ Len(formats) = Len(accept)
  <2>1. formats \in Seq({formats[i] : i \in DOMAIN accept})
    BY <1>2
  <2>2. DOMAIN formats = 1..Len(accept)
    BY <1>2
  <2> QED
    BY <1>2, <2>1, <2>2
<1> HIDE DEF formats
<1>4. I # {} /\ I \in SUBSET Nat
  BY <1>1, <1>2, <1>3
<1>5. first \in I
  <2> HIDE DEF I
  <2>1. \E x \in I : \A y \in I : x =< y
    BY <1>4, LeastIndex
  <2> QED
    BY <2>1, <1>4
<1> HIDE DEF first
<1>6. first \in DOMAIN accept /\ formats[first] # "none" /\ Format(accept) = formats[first]
  BY <1>1, <1>2, <1>3, <1>5
<1>7. accept[first] \in ToSet(accept)
  BY <1>6 DEF ToSet
<1>8. CASE accept[first] = "*"
  BY <1>6, <1>7, <1>8 DEF Offered, formats
<1>9. CASE accept[first] # "*"
  <2>1. formats[first] = accept[first]
    BY <1>6, <1>9 DEF formats
  <2> QED
    BY <1>6, <1>7, <2>1 DEF Offered
<1> QED
  BY <1>8, <1>9

\* A request id that can be read is kept; after RequestIdMiddleware there is one.
LEMMA InwardOk ==
  ASSUME NEW asked \in OnionRequests, NEW c \in Calls, NEW kind, NEW handed, handed = Inward(kind, c, asked)
  PROVE  /\ handed \in OnionRequests
         /\ handed.accept = asked.accept
         /\ Readable(asked.id) => handed.id = asked.id
         /\ kind = "request_id" => Readable(handed.id)
         /\ kind # "request_id" => handed.id = asked.id
<1>1. <<"new", c>> \in RequestIds /\ Readable(<<"new", c>>)
  <2>1. Len(<<"new", c>>) = 2 /\ Len(<<>>) = 0 /\ Len(<<"unreadable">>) = 1
    OBVIOUS
  <2>2. <<"new", c>> # <<>> /\ <<"new", c>> # <<"unreadable">>
    BY <2>1
  <2>3. <<"new", c>> \in RequestIds
    BY DEF RequestIds
  <2> QED
    BY <2>2, <2>3 DEF Readable, NoId, Unreadable
<1>2. CASE kind # "request_id"
  BY <1>2 DEF Inward
<1>3. CASE kind = "request_id"
  <2> DEFINE id == ResolvedId(c, asked.id)
  <2>1. id \in RequestIds /\ Readable(id) /\ (Readable(asked.id) => id = asked.id)
    BY <1>1 DEF ResolvedId, OnionRequests
  <2>2. handed = [asked EXCEPT !.id = id]
    BY <1>3 DEF Inward
  <2> HIDE DEF id
  <2>3. handed \in OnionRequests /\ handed.id = id /\ handed.accept = asked.accept
    BY <2>1, <2>2 DEF OnionRequests
  <2> QED
    BY <1>3, <2>1, <2>3
<1> QED
  BY <1>2, <1>3

\* One middleware further in.
LEMMA SeenMore ==
  ASSUME NEW m \in Seq(STRING), NEW x, NEW y, NEW c \in Calls, NEW n \in DOMAIN m, SeenOk(x, m, n - 1),
         x.request \in OnionRequests, y.request = Inward(m[n], c, x.request), y.seen = Append(x.seen, y.request)
  PROVE  SeenOk(y, m, n) /\ y.request \in OnionRequests
<1> DEFINE handed == y.request
<1>1. n \in Nat /\ n > 0 /\ DOMAIN m = 1..Len(m) /\ \A k \in DOMAIN m : k \in Nat
  OBVIOUS
<1>2. /\ handed \in OnionRequests
      /\ handed.accept = x.request.accept
      /\ Readable(x.request.id) => handed.id = x.request.id
      /\ m[n] = "request_id" => Readable(handed.id)
      /\ m[n] # "request_id" => handed.id = x.request.id
  BY InwardOk
<1>3. x.seen \in Seq(OnionRequests) /\ Len(x.seen) = n - 1
  BY DEF SeenOk
<1> HIDE DEF handed
<1>4. y.seen \in Seq(OnionRequests) /\ Len(y.seen) = n /\ DOMAIN y.seen = 1..n
  BY <1>1, <1>2, <1>3 DEF handed
<1>5. y.seen[n] = handed /\ \A k \in 1..(n - 1) : k \in DOMAIN x.seen /\ y.seen[k] = x.seen[k]
  BY <1>1, <1>2, <1>3 DEF handed
<1>6. Identified(m, n) => Readable(handed.id)
  <2>1. CASE m[n] = "request_id"
    BY <1>2, <2>1
  <2>2. CASE m[n] # "request_id" /\ Identified(m, n)
    <3>1. PICK k \in DOMAIN m : m[k] = "request_id" /\ k <= n
      BY <2>2 DEF Identified
    <3>2. k <= n - 1
      BY <1>1, <2>2, <3>1
    <3>3. Readable(x.request.id)
      BY <3>1, <3>2 DEF SeenOk, Identified
    <3> QED
      BY <3>3, <1>2
  <2> QED
    BY <2>1, <2>2
<1>7. ASSUME NEW k \in DOMAIN y.seen
      PROVE  /\ y.seen[k].accept = handed.accept
             /\ Readable(y.seen[k].id) => y.seen[k].id = handed.id
             /\ Identified(m, k) => Readable(y.seen[k].id)
  <2>1. CASE k = n
    BY <2>1, <1>5, <1>6
  <2>2. CASE k # n
    <3>1. k \in 1..(n - 1)
      BY <1>1, <1>4, <1>7, <2>2
    <3>2. k \in DOMAIN x.seen /\ y.seen[k] = x.seen[k]
      BY <1>5, <3>1
    <3>3. /\ x.seen[k].accept = x.request.accept
          /\ Readable(x.seen[k].id) => x.seen[k].id = x.request.id
          /\ Identified(m, k) => Readable(x.seen[k].id)
      BY <3>2 DEF SeenOk
    <3> QED
      BY <3>2, <3>3, <1>2
  <2> QED
    BY <2>1, <2>2
<1> QED
  BY <1>2, <1>4, <1>6, <1>7 DEF SeenOk, handed

LEMMA CompressedLess ==
  ASSUME NEW m \in Seq(STRING), NEW n \in DOMAIN m
  PROVE  /\ Cardinality(CompressedLater(m, n)) \in Nat
         /\ Cardinality(CompressedLater(m, n - 1)) =
              IF m[n] = "compression" THEN Cardinality(CompressedLater(m, n)) + 1 ELSE Cardinality(CompressedLater(m, n))
<1>1. DOMAIN m = 1..Len(m) /\ Len(m) \in Nat /\ n \in Nat /\ \A k \in DOMAIN m : k \in Nat
  OBVIOUS
<1>2. IsFiniteSet(DOMAIN m)
  BY <1>1, FS_Interval
<1>3. CompressedLater(m, n) \in SUBSET DOMAIN m
  BY DEF CompressedLater
<1>4. IsFiniteSet(CompressedLater(m, n))
  BY <1>2, <1>3, FS_Subset
<1>5. CompressedLater(m, n - 1) = CompressedLater(m, n) \cup (IF m[n] = "compression" THEN {n} ELSE {})
  BY <1>1 DEF CompressedLater
<1>6. n \notin CompressedLater(m, n)
  BY <1>1 DEF CompressedLater
<1>7. CASE m[n] = "compression"
  BY <1>4, <1>5, <1>6, <1>7, FS_AddElement, FS_CardinalityType
<1>8. CASE m[n] # "compression"
  <2>1. CompressedLater(m, n - 1) = CompressedLater(m, n)
    BY <1>5, <1>8
  <2> QED
    BY <1>4, <1>8, <2>1, FS_CardinalityType
<1> QED
  BY <1>7, <1>8

\* One middleware further out.
LEMMA OutwardOk ==
  ASSUME NEW m \in Seq(STRING), NEW n \in DOMAIN m, NEW asked \in OnionRequests, NEW seen, NEW r,
         ResponseOk(r, asked, m, n), seen.accept = asked.accept,
         m[n] = "request_id" => seen.id = asked.id
  PROVE  ResponseOk(Outward(m[n], seen, r), asked, m, n - 1)
<1> DEFINE format == Format(asked.accept)  out == Outward(m[n], seen, r)
           later == Cardinality(CompressedLater(m, n))  now == Cardinality(CompressedLater(m, n - 1))
<1>1. n \in Nat /\ \A k \in DOMAIN m : k \in Nat
  OBVIOUS
<1>2. later \in Nat /\ now = IF m[n] = "compression" THEN later + 1 ELSE later
  BY CompressedLess
<1>3. IdentifiedLater(m, n - 1) => m[n] = "request_id" \/ IdentifiedLater(m, n)
  <2>1. SUFFICES ASSUME NEW k \in DOMAIN m, m[k] = "request_id", n - 1 < k, k # n PROVE n < k
    BY DEF IdentifiedLater
  <2> QED
    BY <1>1, <2>1
<1> HIDE DEF later, now
<1>4. CASE m[n] = "request_id"
  <2>1. out = [r EXCEPT !.id = asked.id]
    BY <1>4 DEF Outward
  <2>2. DOMAIN r = ResponseFields
    BY DEF ResponseOk
  <2> HIDE DEF out
  <2>3. DOMAIN out = ResponseFields /\ out.id = asked.id /\ out.empty = r.empty /\ out.own = r.own
        /\ out.encoded = r.encoded /\ out.label = r.label /\ out.length = r.length
    BY <2>1, <2>2 DEF ResponseFields
  <2>4. now = later
    BY <1>2, <1>4
  <2>5. Labelled(r) => Labelled(out)
    BY <2>3 DEF Labelled
  <2> QED
    BY <2>3, <2>4, <2>5 DEF ResponseOk, later, now, out
<1>5. CASE m[n] = "compression" /\ format # "none" /\ ~r.empty
  <2>1. out = [r EXCEPT !.encoded = Append(@, format), !.label = format, !.vary = Varying(@),
                        !.length = Len(r.encoded) + 1]
    BY <1>5 DEF Outward, Compressed
  <2>2. DOMAIN r = ResponseFields /\ r.encoded \in Seq(Encodings) /\ r.own \in Nat
    BY <1>5 DEF ResponseOk
  <2>3. format \in Offered(asked.accept)
    BY <1>5, FormatOffered DEF OnionRequests
  <2>4. format \in Encodings
    <3>1. ToSet(asked.accept) \subseteq STRING
      BY DEF ToSet, OnionRequests
    <3> QED
      BY <2>3, <3>1 DEF Offered, Encodings
  <2> HIDE DEF out, format
  <2>5. DOMAIN out = ResponseFields /\ out.id = r.id /\ out.empty = r.empty /\ out.own = r.own
    BY <2>1, <2>2 DEF ResponseFields
  <2>6. out.encoded = Append(r.encoded, format) /\ out.label = format /\ out.length = Len(r.encoded) + 1
    BY <2>1, <2>2 DEF ResponseFields
  <2>7. out.encoded \in Seq(Encodings) /\ Len(out.encoded) = Len(r.encoded) + 1 /\ Last(out.encoded) = format
        /\ out.encoded # <<>> /\ Len(r.encoded) \in Nat
    <3> DEFINE e == r.encoded  longer == Append(e, format)
    <3>1. e \in Seq(Encodings) /\ out.encoded = longer
      BY <2>2, <2>6
    <3> HIDE DEF e
    <3>2. longer \in Seq(Encodings) /\ Len(longer) = Len(e) + 1 /\ Len(e) \in Nat /\ longer[Len(e) + 1] = format
      BY <2>4, <3>1
    <3>3. Last(longer) = format /\ longer # <<>>
      BY <3>2 DEF Last
    <3> QED
      BY <3>1, <3>2, <3>3 DEF e
  <2>8. Labelled(out)
    BY <2>6, <2>7 DEF Labelled
  <2>9. Len(r.encoded) = r.own + later /\ now = later + 1
    BY <1>2, <1>5 DEF ResponseOk, format, later
  <2>10. Len(out.encoded) = r.own + now
    <3> DEFINE long == Len(r.encoded)  longer == Len(out.encoded)  own == r.own
    <3>1. long \in Nat /\ own \in Nat /\ longer = long + 1 /\ long = own + later
      BY <2>2, <2>7, <2>9
    <3> HIDE DEF long, longer, own
    <3>2. longer = own + now
      BY <3>1, <2>9, <1>2
    <3> QED
      BY <3>2 DEF longer, own
  <2>11. IdentifiedLater(m, n - 1) => out.id = asked.id
    BY <1>3, <1>5, <2>5 DEF ResponseOk
  <2> QED
    BY <1>5, <2>2, <2>3, <2>5, <2>6, <2>7, <2>8, <2>10, <2>11 DEF ResponseOk, format, now, out
<1>6. CASE m[n] # "request_id" /\ ~(m[n] = "compression" /\ format # "none" /\ ~r.empty)
  <2>1. DOMAIN r = ResponseFields
    BY DEF ResponseOk
  <2>2. out = r \/ out = [r EXCEPT !.secured = TRUE]
    BY <1>6 DEF Outward, Compressed
  <2>3. format # "none" /\ ~r.empty => now = later
    BY <1>2, <1>6
  <2> HIDE DEF out
  <2>4. DOMAIN out = ResponseFields /\ out.id = r.id /\ out.empty = r.empty /\ out.own = r.own
        /\ out.encoded = r.encoded /\ out.label = r.label /\ out.length = r.length
    BY <2>1, <2>2 DEF ResponseFields
  <2>5. Labelled(r) => Labelled(out)
    BY <2>4 DEF Labelled
  <2> QED
    BY <1>3, <1>6, <2>3, <2>4, <2>5 DEF ResponseOk, later, now, out, format
<1> QED
  BY <1>4, <1>5, <1>6

LEMMA OnionInitial == ASSUME OnionInit PROVE OnionInv
<1>1. \A c \in Calls : calls[c] = Idle /\ Passing(Idle, Through)
  BY DEF OnionInit, Idle, Passing, OnionRequests, RequestIds, NoId
<1>2. ServiceOk /\ LinesOk
  BY <1>1 DEF OnionInit, ServiceOk, LinesOk, Idle
<1> QED
  BY <1>1, <1>2 DEF OnionInit, OnionInv

\* A call moves alone: the others stay as they were, and so does the server.
LEMMA OneCallMoves ==
  ASSUME OnionInv, NEW c \in Calls, NEW moved,
         stack' = stack, terminal' = terminal, calls' = [calls EXCEPT ![c] = moved],
         Passing(moved, Through), ServiceOk', LinesOk'
  PROVE  OnionInv'
<1>1. Through' = Through
  BY DEF Through
<1>2. DOMAIN calls = Calls
  BY DEF OnionInv
<1>3. DOMAIN calls' = Calls /\ \A d \in Calls : calls'[d] = IF d = c THEN moved ELSE calls[d]
  BY <1>2
<1>4. \A d \in Calls : Passing(calls'[d], Through)
  BY <1>3 DEF OnionInv
<1> QED
  BY <1>1, <1>3, <1>4 DEF OnionInv

\* What the loggers wrote stays true while no request is changed and no answered call is lost,
\* if what a logger adds is.
LEMMA LinesKept ==
  ASSUME OnionInv, NEW c \in Calls, NEW moved,
         stack' = stack, terminal' = terminal, calls' = [calls EXCEPT ![c] = moved],
         calls[c].stage \in {"out", "done"} => moved.stage \in {"out", "done"} /\ moved.request = calls[c].request,
         \A l \in lines' :
           \/ l \in lines
           \/ /\ l.call = c /\ moved.stage \in {"out", "done"}
              /\ IdentifiedLater(Through, 0) => l.id = moved.request.id
  PROVE  LinesOk'
<1>1. Through' = Through
  BY DEF Through
<1>2. \A d \in Calls : calls'[d] = IF d = c THEN moved ELSE calls[d]
  BY DEF OnionInv
<1> QED
  BY <1>1, <1>2 DEF OnionInv, LinesOk

\* The service's lock is passed on by the call that holds it alone.
LEMMA ServiceKept ==
  ASSUME OnionInv, NEW c \in Calls, NEW moved,
         stack' = stack, terminal' = terminal, calls' = [calls EXCEPT ![c] = moved], counted' = counted,
         moved.turn = calls[c].turn,
         moved.stage = "called" => calls[c].stage = "called",
         mutex' = mutex \/ (mutex = c /\ mutex' = Nobody /\ moved.stage # "called"),
         mutex' = c => moved.stage \in {"in", "called", "out"}
  PROVE  ServiceOk'
<1>1. \A d \in Calls : calls'[d] = IF d = c THEN moved ELSE calls[d]
  BY DEF OnionInv
<1>2. OwnCopy' = OwnCopy
  BY DEF OwnCopy
<1>3. Nobody \notin Calls
  BY OnionAssumption
<1>4. mutex' # Nobody => mutex' \in Calls /\ calls'[mutex'].stage \in {"in", "called", "out"}
  BY <1>1 DEF OnionInv, ServiceOk
<1>5. ASSUME terminal.kind = "shared", NEW d \in Calls, calls'[d].stage = "called"
      PROVE  mutex' = d /\ calls'[d].turn = counted
  <2>1. calls[d].stage = "called" /\ calls'[d].turn = calls[d].turn
    BY <1>1, <1>5
  <2>2. mutex = d /\ calls[d].turn = counted
    BY <1>5, <2>1 DEF OnionInv, ServiceOk
  <2> QED
    BY <1>1, <1>5, <2>1, <2>2
<1>6. OwnCopy => \A d \in Calls : calls'[d].turn <= 1
  BY <1>1 DEF OnionInv, ServiceOk
<1> QED
  BY <1>2, <1>4, <1>5, <1>6 DEF ServiceOk

LEMMA ReceiveKeeps == ASSUME OnionInv, NEW c \in Calls, Receive(c) PROVE OnionInv'
<1>1. PICK sent \in SentRequests :
        calls' = [calls EXCEPT ![c] = [calls[c] EXCEPT !.stage = "in", !.at = 1, !.request = sent]]
  BY DEF Receive
<1> DEFINE moved == [calls[c] EXCEPT !.stage = "in", !.at = 1, !.request = sent]
<1>2. /\ DOMAIN calls[c] = {"stage", "at", "request", "seen", "turn"} /\ calls[c].seen = <<>>
      /\ calls[c].stage = "idle"
  BY DEF OnionInv, Passing, Receive
<1>3. /\ DOMAIN moved = {"stage", "at", "request", "seen", "turn"} /\ moved.stage = "in" /\ moved.at = 1
      /\ moved.request = sent /\ moved.seen = <<>> /\ moved.turn = calls[c].turn
  BY <1>2
<1> HIDE DEF moved
<1>4. sent \in OnionRequests
  <2>1. sent \in [id : {sent.id}, accept : Seq(STRING)]
    BY OnionAssumption
  <2>2. sent.id \in RequestIds
    BY DEF RequestIds
  <2> QED
    BY <2>1, <2>2 DEF OnionRequests
<1>5. SeenOk(moved, Through, 0)
  <2>1. ~Identified(Through, 0)
    BY ThroughTyped DEF Identified
  <2> QED
    BY <1>3, <2>1 DEF SeenOk
<1>6. Passing(moved, Through)
  BY <1>3, <1>4, <1>5 DEF Passing
<1>7. mutex # c
  BY <1>2, OnionAssumption DEF OnionInv, ServiceOk
<1>8. ServiceOk'
  BY <1>1, <1>3, <1>7, ServiceKept DEF Receive, moved
<1>9. LinesOk'
  BY <1>1, <1>2, LinesKept DEF Receive, moved
<1> QED
  BY <1>1, <1>6, <1>8, <1>9, OneCallMoves DEF Receive, moved

LEMMA LockKeeps == ASSUME OnionInv, NEW c \in Calls, Lock(c) PROVE OnionInv'
<1>1. Through' = Through /\ OwnCopy' = OwnCopy
  BY DEF Lock, Through, OwnCopy
<1>2. ServiceOk'
  <2>1. \A d \in Calls : calls[d].stage # "called"
    BY OnionAssumption DEF OnionInv, ServiceOk, Lock
  <2> QED
    BY <1>1, <2>1 DEF OnionInv, ServiceOk, Lock
<1>3. LinesOk'
  BY <1>1 DEF OnionInv, LinesOk, Lock
<1> QED
  BY <1>1, <1>2, <1>3 DEF OnionInv, Lock

LEMMA GoInKeeps == ASSUME OnionInv, NEW c \in Calls, GoIn(c) PROVE OnionInv'
<1> DEFINE n == calls[c].at  handed == Inward(Through[n], c, calls[c].request)
           moved == [calls[c] EXCEPT !.at = @ + 1, !.request = handed, !.seen = Append(@, handed)]
<1>1. /\ DOMAIN calls[c] = {"stage", "at", "request", "seen", "turn"} /\ calls[c].stage = "in"
      /\ n \in Nat /\ n > 0 /\ SeenOk(calls[c], Through, n - 1) /\ calls[c].request \in OnionRequests
  BY DEF OnionInv, Passing, GoIn
<1>2. n \in DOMAIN Through /\ Through \in Seq(STRING)
  BY <1>1, ThroughTyped DEF GoIn
<1>3. calls' = [calls EXCEPT ![c] = moved]
  BY DEF GoIn
<1>4. /\ DOMAIN moved = {"stage", "at", "request", "seen", "turn"} /\ moved.stage = "in"
      /\ moved.at = n + 1 /\ moved.request = handed /\ moved.seen = Append(calls[c].seen, handed)
      /\ moved.turn = calls[c].turn
  <2> HIDE DEF handed
  <2> QED
    BY <1>1
<1> HIDE DEF moved
<1>5. SeenOk(moved, Through, n) /\ handed \in OnionRequests
  <2>1. moved.request = Inward(Through[n], c, calls[c].request)
    BY <1>4
  <2> HIDE DEF handed, n
  <2>2. moved.seen = Append(calls[c].seen, moved.request) /\ moved.request = handed
    BY <1>4
  <2> QED
    BY <1>1, <1>2, <2>1, <2>2, SeenMore
<1> HIDE DEF handed, n
<1>6. n + 1 \in Nat /\ n + 1 > 0 /\ (n + 1) - 1 = n
  BY <1>1 DEF n
<1>7. Passing(moved, Through)
  BY <1>4, <1>5, <1>6 DEF Passing
<1>8. ServiceOk'
  BY <1>1, <1>3, <1>4, ServiceKept DEF GoIn
<1>9. LinesOk'
  BY <1>1, <1>3, LinesKept DEF GoIn
<1> QED
  BY <1>3, <1>7, <1>8, <1>9, OneCallMoves DEF GoIn

LEMMA CallKeeps == ASSUME OnionInv, NEW c \in Calls, Call(c) PROVE OnionInv'
<1> DEFINE turn == IF OwnCopy THEN 1 ELSE counted + 1
           moved == [calls[c] EXCEPT !.stage = "called", !.turn = turn]
<1>1. /\ DOMAIN calls[c] = {"stage", "at", "request", "seen", "turn"} /\ calls[c].stage = "in"
      /\ calls[c].at = Len(Through) + 1 /\ SeenOk(calls[c], Through, calls[c].at - 1)
      /\ calls[c].request \in OnionRequests /\ calls[c].at \in Nat
  BY DEF OnionInv, Passing, Call
<1>2. Len(Through) \in Nat
  BY ThroughTyped
<1>3. calls' = [calls EXCEPT ![c] = moved]
  BY DEF Call
<1> HIDE DEF turn
<1>4. /\ DOMAIN moved = {"stage", "at", "request", "seen", "turn"} /\ moved.stage = "called"
      /\ moved.at = calls[c].at /\ moved.request = calls[c].request /\ moved.seen = calls[c].seen
      /\ moved.turn = turn
  BY <1>1
<1> HIDE DEF moved
<1>5. SeenOk(moved, Through, Len(Through))
  <2>1. calls[c].at - 1 = Len(Through)
    BY <1>1, <1>2
  <2> QED
    BY <1>1, <1>4, <2>1 DEF SeenOk
<1>6. Passing(moved, Through)
  BY <1>1, <1>4, <1>5 DEF Passing
<1>7. \A d \in Calls : calls'[d] = IF d = c THEN moved ELSE calls[d]
  BY <1>3 DEF OnionInv
<1>8. ServiceOk'
  <2>1. OwnCopy' = OwnCopy /\ mutex' = mutex /\ terminal' = terminal
    BY DEF Call, OwnCopy
  <2>2. mutex' # Nobody => mutex' \in Calls /\ calls'[mutex'].stage \in {"in", "called", "out"}
    BY <1>4, <1>7, <2>1 DEF OnionInv, ServiceOk
  <2>3. ASSUME terminal.kind = "shared", NEW d \in Calls, calls'[d].stage = "called"
        PROVE  mutex' = d /\ calls'[d].turn = counted'
    <3>1. mutex = c /\ counted' = counted + 1 /\ turn = counted + 1
      BY <2>3 DEF Call, OwnCopy, turn
    <3>2. d = c
      BY <1>7, <2>3, <3>1 DEF OnionInv, ServiceOk
    <3> QED
      BY <1>4, <1>7, <2>1, <3>1, <3>2
  <2>4. OwnCopy => \A d \in Calls : calls'[d].turn <= 1
    BY <1>4, <1>7 DEF OnionInv, ServiceOk, turn
  <2> QED
    BY <2>1, <2>2, <2>3, <2>4 DEF ServiceOk
<1>9. LinesOk'
  BY <1>1, <1>3, LinesKept DEF Call
<1> QED
  BY <1>3, <1>6, <1>8, <1>9, OneCallMoves DEF Call

\* What a handler answers has met no middleware yet.
LEMMA AnswerFits ==
  ASSUME NEW m \in Seq(STRING), NEW said \in HandlerAnswers, NEW asked
  PROVE  ResponseOk(said, asked, m, Len(m))
<1>1. DOMAIN m = 1..Len(m) /\ Len(m) \in Nat
  OBVIOUS
<1>2. ~IdentifiedLater(m, Len(m)) /\ CompressedLater(m, Len(m)) = {}
  BY <1>1 DEF IdentifiedLater, CompressedLater
<1>3. Cardinality(CompressedLater(m, Len(m))) = 0
  BY <1>2, FS_EmptySet
<1>4. /\ DOMAIN said = ResponseFields /\ said.encoded \in Seq(STRING)
      /\ Labelled(said) /\ said.own = Len(said.encoded)
  BY OnionAssumption DEF ResponseFields
<1>5. /\ said.encoded \in Seq(Encodings) /\ said.own \in Nat
      /\ (said.own = 0 => said.encoded = <<>>)
  <2> DEFINE e == said.encoded
  <2>1. e \in Seq(STRING) /\ said.own = Len(e)
    BY <1>4
  <2> HIDE DEF e
  <2>2. e \in Seq(Encodings) /\ Len(e) \in Nat /\ (Len(e) = 0 => e = <<>>)
    BY <2>1 DEF Encodings
  <2> QED
    BY <2>1, <2>2 DEF e
<1>6. said.own = 0 => said.label = "none"
  BY <1>4, <1>5 DEF Labelled
<1>7. Len(said.encoded) = said.own + (IF Format(asked.accept) = "none" THEN 0
                                          ELSE Cardinality(CompressedLater(m, Len(m))))
  BY <1>3, <1>4, <1>5
<1> QED
  BY <1>2, <1>4, <1>5, <1>6, <1>7 DEF ResponseOk

LEMMA AnswerKeeps == ASSUME OnionInv, NEW c \in Calls, Answer(c) PROVE OnionInv'
<1>1. PICK said \in HandlerAnswers :
        calls' = [calls EXCEPT ![c] =
          [stage |-> "out", at |-> Len(Through), request |-> calls[c].request, seen |-> calls[c].seen,
           turn |-> calls[c].turn, response |-> said]]
  BY DEF Answer
<1> DEFINE moved == [stage |-> "out", at |-> Len(Through), request |-> calls[c].request,
                     seen |-> calls[c].seen, turn |-> calls[c].turn, response |-> said]
<1>2. /\ calls[c].stage = "called" /\ calls[c].request \in OnionRequests
      /\ SeenOk(calls[c], Through, Len(Through))
  BY DEF OnionInv, Passing, Answer
<1>3. /\ DOMAIN moved = {"stage", "at", "request", "seen", "turn", "response"} /\ moved.stage = "out"
      /\ moved.at = Len(Through) /\ moved.request = calls[c].request /\ moved.seen = calls[c].seen
      /\ moved.turn = calls[c].turn /\ moved.response = said
  OBVIOUS
<1> HIDE DEF moved
<1>4. Len(Through) \in Nat /\ ResponseOk(said, calls[c].request, Through, Len(Through))
  BY ThroughTyped, AnswerFits
<1>5. SeenOk(moved, Through, Len(Through))
  BY <1>2, <1>3 DEF SeenOk
<1>6. Passing(moved, Through)
  BY <1>2, <1>3, <1>4, <1>5 DEF Passing
<1>7. ServiceOk'
  BY <1>1, <1>3, ServiceKept DEF Answer, moved
<1>8. LinesOk'
  BY <1>1, <1>2, <1>3, LinesKept DEF Answer, moved
<1> QED
  BY <1>1, <1>6, <1>7, <1>8, OneCallMoves DEF Answer, moved

\* A logger writes the id of the request it handed on, or that of the response on its way.
LEMMA LoggedOk ==
  ASSUME NEW m \in Seq(STRING), NEW x, NEW n \in DOMAIN m, SeenOk(x, m, Len(m)),
         ResponseOk(x.response, x.request, m, n), IdentifiedLater(m, 0)
  PROVE  LoggedId(x.seen[n], x.response) = x.request.id
<1>1. n \in DOMAIN x.seen
  BY DEF SeenOk
<1>2. CASE Readable(x.seen[n].id)
  BY <1>1, <1>2 DEF SeenOk, LoggedId
<1>3. CASE ~Readable(x.seen[n].id)
  <2>1. ~Identified(m, n)
    BY <1>1, <1>3 DEF SeenOk
  <2>2. PICK k \in DOMAIN m : m[k] = "request_id"
    BY DEF IdentifiedLater
  <2>3. k \in Nat /\ n \in Nat /\ ~(k <= n)
    BY <2>1, <2>2 DEF Identified
  <2>4. IdentifiedLater(m, n)
    BY <2>2, <2>3 DEF IdentifiedLater
  <2> QED
    BY <1>3, <2>4 DEF ResponseOk, LoggedId
<1> QED
  BY <1>2, <1>3

LEMMA GoOutKeeps == ASSUME OnionInv, NEW c \in Calls, GoOut(c) PROVE OnionInv'
<1> DEFINE n == calls[c].at  out == Outward(Through[n], calls[c].seen[n], calls[c].response)
           moved == [calls[c] EXCEPT !.at = n - 1, !.response = out]
<1>1. /\ DOMAIN calls[c] = {"stage", "at", "request", "seen", "turn", "response"}
      /\ calls[c].stage = "out" /\ n \in Nat /\ n > 0 /\ n <= Len(Through)
      /\ SeenOk(calls[c], Through, Len(Through)) /\ calls[c].request \in OnionRequests
      /\ ResponseOk(calls[c].response, calls[c].request, Through, n)
  BY DEF OnionInv, Passing, GoOut
<1>2. n \in DOMAIN Through /\ Through \in Seq(STRING) /\ Len(Through) \in Nat
  BY <1>1, ThroughTyped
<1>3. calls' = [calls EXCEPT ![c] = moved]
  BY DEF GoOut
<1>4. ResponseOk(out, calls[c].request, Through, n - 1)
  <2>1. n \in DOMAIN calls[c].seen
    BY <1>1, <1>2 DEF SeenOk
  <2>2. calls[c].seen[n].accept = calls[c].request.accept
    BY <1>1, <2>1 DEF SeenOk
  <2>3. Through[n] = "request_id" => calls[c].seen[n].id = calls[c].request.id
    BY <1>1, <1>2, <2>1 DEF SeenOk, Identified
  <2> HIDE DEF n
  <2> QED
    BY <1>1, <1>2, <2>2, <2>3, OutwardOk
<1> HIDE DEF out
<1>5. /\ DOMAIN moved = DOMAIN calls[c] /\ moved.stage = "out"
      /\ moved.at = n - 1 /\ moved.request = calls[c].request /\ moved.seen = calls[c].seen
      /\ moved.turn = calls[c].turn /\ moved.response = out
  BY <1>1
<1> HIDE DEF moved
<1>6. SeenOk(moved, Through, Len(Through))
  BY <1>1, <1>5 DEF SeenOk
<1>7. n - 1 \in Nat /\ n - 1 <= Len(Through)
  BY <1>1, <1>2
<1>8. Passing(moved, Through)
  BY <1>1, <1>4, <1>5, <1>6, <1>7 DEF Passing
<1>9. ServiceOk'
  BY <1>1, <1>3, <1>5, ServiceKept DEF GoOut
<1>10. LinesOk'
  <2>1. IdentifiedLater(Through, 0) => LoggedId(calls[c].seen[n], calls[c].response) = moved.request.id
    BY <1>1, <1>2, <1>5, LoggedOk
  <2>2. lines' = lines \/ lines' = lines \cup {[call |-> c, id |-> LoggedId(calls[c].seen[n], calls[c].response)]}
    BY DEF GoOut
  <2>3. ASSUME NEW l \in lines', l \notin lines
        PROVE  l.call = c /\ (IdentifiedLater(Through, 0) => l.id = moved.request.id)
    BY <2>1, <2>2, <2>3
  <2>4. stack' = stack /\ terminal' = terminal
    BY DEF GoOut
  <2>5. \A l \in lines' :
          \/ l \in lines
          \/ /\ l.call = c /\ moved.stage \in {"out", "done"}
             /\ IdentifiedLater(Through, 0) => l.id = moved.request.id
    BY <1>5, <2>3
  <2> HIDE DEF n
  <2> QED
    BY <1>3, <1>5, <2>4, <2>5, LinesKept
<1> QED
  BY <1>3, <1>8, <1>9, <1>10, OneCallMoves DEF GoOut

LEMMA DoneKeeps == ASSUME OnionInv, NEW c \in Calls, Done(c) PROVE OnionInv'
<1> DEFINE moved == [calls[c] EXCEPT !.stage = "done"]
<1>1. /\ DOMAIN calls[c] = {"stage", "at", "request", "seen", "turn", "response"}
      /\ calls[c].stage = "out" /\ calls[c].at = 0
      /\ SeenOk(calls[c], Through, Len(Through)) /\ calls[c].request \in OnionRequests
      /\ ResponseOk(calls[c].response, calls[c].request, Through, 0)
  BY DEF OnionInv, Passing, Done
<1>2. calls' = [calls EXCEPT ![c] = moved]
  BY DEF Done, OnionInv
<1>3. /\ DOMAIN moved = DOMAIN calls[c] /\ moved.stage = "done"
      /\ moved.at = 0 /\ moved.request = calls[c].request /\ moved.seen = calls[c].seen
      /\ moved.turn = calls[c].turn /\ moved.response = calls[c].response
  BY <1>1
<1> HIDE DEF moved
<1>4. SeenOk(moved, Through, Len(Through))
  BY <1>1, <1>3 DEF SeenOk
<1>5. Passing(moved, Through)
  BY <1>1, <1>3, <1>4 DEF Passing
<1>6. ServiceOk'
  BY <1>2, <1>3, ServiceKept, OnionAssumption DEF Done
<1>7. LinesOk'
  BY <1>2, <1>3, LinesKept DEF Done
<1> QED
  BY <1>2, <1>5, <1>6, <1>7, OneCallMoves DEF Done

LEMMA DropCallKeeps == ASSUME OnionInv, NEW c \in Calls, DropCall(c) PROVE OnionInv'
<1> DEFINE moved == [calls[c] EXCEPT !.stage = "dropped"]
<1>1. /\ DOMAIN calls[c] = {"stage", "at", "request", "seen", "turn"}
      /\ calls[c].stage \in {"in", "called"} /\ calls[c].at \in Nat /\ calls[c].request \in OnionRequests
  BY DEF OnionInv, Passing, DropCall
<1>2. calls' = [calls EXCEPT ![c] = moved]
  BY DEF DropCall, OnionInv
<1>3. /\ DOMAIN moved = DOMAIN calls[c] /\ moved.stage = "dropped"
      /\ moved.at = calls[c].at /\ moved.request = calls[c].request /\ moved.turn = calls[c].turn
  BY <1>1
<1> HIDE DEF moved
<1>4. Passing(moved, Through)
  BY <1>1, <1>3 DEF Passing
<1>5. ServiceOk'
  BY <1>2, <1>3, ServiceKept, OnionAssumption DEF DropCall, Released
<1>6. LinesOk'
  BY <1>1, <1>2, <1>3, LinesKept DEF DropCall
<1> QED
  BY <1>2, <1>4, <1>5, <1>6, OneCallMoves DEF DropCall

LEMMA OnionStep == OnionInv /\ [OnionNext]_onionVars => OnionInv'
<1> SUFFICES ASSUME OnionInv, [OnionNext]_onionVars PROVE OnionInv'
  OBVIOUS
<1>1. CASE OnionNext
  <2>1. PICK c \in Calls : Receive(c) \/ Lock(c) \/ Proceed(c) \/ DropCall(c)
    BY <1>1 DEF OnionNext
  <2>2. CASE Receive(c)
    BY <2>2, ReceiveKeeps
  <2>3. CASE Lock(c)
    BY <2>3, LockKeeps
  <2>4. CASE GoIn(c)
    BY <2>4, GoInKeeps
  <2>5. CASE Call(c)
    BY <2>5, CallKeeps
  <2>6. CASE Answer(c)
    BY <2>6, AnswerKeeps
  <2>7. CASE GoOut(c)
    BY <2>7, GoOutKeeps
  <2>8. CASE Done(c)
    BY <2>8, DoneKeeps
  <2>9. CASE DropCall(c)
    BY <2>9, DropCallKeeps
  <2> QED
    BY <2>1, <2>2, <2>3, <2>4, <2>5, <2>6, <2>7, <2>8, <2>9 DEF Proceed
<1>2. CASE UNCHANGED onionVars
  <2>1. Through' = Through /\ OwnCopy' = OwnCopy
    BY <1>2 DEF onionVars, Through, OwnCopy
  <2> QED
    BY <1>2, <2>1 DEF OnionInv, onionVars, ServiceOk, LinesOk
<1> QED
  BY <1>1, <1>2

LEMMA IdentityIsOne == OnionInv => OneIdentity
<1> SUFFICES ASSUME OnionInv, NEW c \in Calls, calls[c].stage = "done", Count("request_id") > 0
             PROVE  /\ Readable(calls[c].response.id)
                    /\ calls[c].response.id = calls[c].request.id
                    /\ \A l \in lines : l.call = c => l.id = calls[c].response.id
  BY DEF OneIdentity
<1>1. Through \in Seq(STRING) /\ DOMAIN Through = 1..Len(Through) /\ Len(Through) \in Nat
  BY ThroughTyped
<1>2. PICK k \in DOMAIN Through : Through[k] = "request_id"
  <2>1. {i \in DOMAIN Through : Through[i] = "request_id"} # {}
    BY FS_EmptySet DEF Count
  <2> QED
    BY <2>1
<1>3. IdentifiedLater(Through, 0) /\ Identified(Through, Len(Through))
  BY <1>1, <1>2 DEF IdentifiedLater, Identified
<1>4. SeenOk(calls[c], Through, Len(Through)) /\ ResponseOk(calls[c].response, calls[c].request, Through, 0)
  BY DEF OnionInv, Passing
<1>5. Readable(calls[c].request.id) /\ calls[c].response.id = calls[c].request.id
  BY <1>3, <1>4 DEF SeenOk, ResponseOk
<1>6. \A l \in lines : l.call = c => l.id = calls[c].request.id
  BY <1>3 DEF OnionInv, LinesOk
<1> QED
  BY <1>5, <1>6

LEMMA LabelsTell == OnionInv => LabelTells
<1> SUFFICES ASSUME OnionInv, NEW c \in Calls, calls[c].stage = "done", ~calls[c].response.empty
             PROVE  LET r == calls[c].response
                        client == ToSet(calls[c].request.accept)
                    IN  /\ Labelled(r)
                        /\ Len(r.encoded) = r.own + (IF Format(calls[c].request.accept) = "none" THEN 0
                                                     ELSE Count("compression"))
                        /\ (r.own = 0 /\ r.label # "none") =>
                             r.label \in client \cup (IF "*" \in client THEN {Favourite} ELSE {})
  BY DEF LabelTells
<1>1. Through \in Seq(STRING) /\ DOMAIN Through = 1..Len(Through)
  BY ThroughTyped
<1>2. CompressedLater(Through, 0) = {i \in DOMAIN Through : Through[i] = "compression"}
  BY <1>1 DEF CompressedLater
<1>3. Count("compression") = Cardinality(CompressedLater(Through, 0))
  BY <1>2 DEF Count
<1>4. ResponseOk(calls[c].response, calls[c].request, Through, 0)
  BY DEF OnionInv, Passing
<1> QED
  BY <1>3, <1>4 DEF ResponseOk, Offered

\* What comes out of the layers is what the handler answered, to the request it was asked,
\* under one id; the shared service is called by one request at a time
\* (nivasa-http/src/lib.rs:653-676, 939-1171).
THEOREM AnswersComeOutWhole == OnionSpec => []AnswersIntact
<1>1. OnionInit => OnionInv
  BY OnionInitial
<1>2. OnionInv => AnswersIntact
  BY IdentityIsOne, LabelsTell DEF AnswersIntact, TurnsAreTaken, OnionInv, ServiceOk
<1> QED
  BY <1>1, <1>2, OnionStep, PTL DEF OnionSpec

-----------------------------------------------------------------------------
(* Extraction and Pipes: what an action reads of its request. *)

RequestFields == {"query", "headers", "body", "matched", "path", "extensions"}

\* Before routing no path parameters can be read, and nothing is read of no request.
RequestOk ==
  /\ DOMAIN request = RequestFields
  /\ request.body.kind \in BodyKinds
  /\ request.matched \/ request.path = <<>>
  /\ request = NoRequest => action = <<>> /\ piping = <<>>

\* What the pipes made of the body is the body the action reads.
PipingOk ==
  \A p \in ToSet(piping) :
    /\ p.body.kind \in BodyKinds
    /\ p.left = (IF p.pipes = <<>> \/ ~PipeValue(p.body).ok THEN PipeValue(p.body)
                 ELSE Chained(p.pipes, PipeValue(p.body).value))
    /\ request.body = IF p.pipes # <<>> /\ p.left.ok THEN AsBody(p.left.value) ELSE p.body

\* An action that takes JSON was given it from that body.
ActionOk ==
  \A a \in ToSet(action) : a.takes = "json" =>
    /\ given = BodyJson(request.body, a.type)
    /\ \A p \in ToSet(piping) : p.pipes # <<>> => p.left.ok

\* A refusal of the pipes is the answer.
RefusalOk == action = <<>> => \A p \in ToSet(piping) : p.pipes # <<>> => p.left.ok

ReadingInv == RequestOk /\ PipingOk /\ ActionOk /\ RefusalOk

LEMMA OneElement == ASSUME NEW x PROVE ToSet(<<x>>) = {x}
BY DEF ToSet

LEMMA NoElement == ToSet(<<>>) = {}
BY DEF ToSet

LEMMA BodiesHaveKinds == ASSUME NEW v PROVE AsBody(v).kind \in BodyKinds
BY DEF AsBody, TextBody, BodyKinds

LEMMA ReadingInitial == PipesInit => ReadingInv
BY NoElement DEF PipesInit, ExtractionInit, ReadingInv, RequestOk, PipingOk, ActionOk, RefusalOk, NoRequest, RequestFields, BodyKinds

\* A step that leaves the body and what looks like JSON alone, once the pipes have run.
LEMMA ReadingKept ==
  ASSUME ReadingInv, RequestOk', UNCHANGED <<request, piping, action, given>>
  PROVE  ReadingInv'
<1>1. \A b : PipeValue(b)' = PipeValue(b)
  BY DEF PipeValue, LooksJson
<1> QED
  BY <1>1 DEF ReadingInv, RequestOk, PipingOk, ActionOk, RefusalOk

LEMMA ReadingPrepared ==
  ASSUME ReadingInv, piping = <<>>, action = <<>>, RequestOk', UNCHANGED <<piping, action>>
  PROVE  ReadingInv'
BY NoElement DEF ReadingInv, PipingOk, ActionOk, RefusalOk

LEMMA ReadingPiped ==
  ASSUME ReadingInv, NEW pipes, ApplyGlobalPipes(pipes)
  PROVE  ReadingInv'
<1> DEFINE p == [pipes |-> pipes, body |-> request.body, left |-> Piped(pipes)]
<1>1. piping' = <<p>> /\ ToSet(piping') = {p} /\ piping' # <<>>
  BY OneElement DEF ApplyGlobalPipes
<1>2. p.body.kind \in BodyKinds /\ request # NoRequest /\ action = <<>>
  BY DEF ApplyGlobalPipes, ReadingInv, RequestOk
<1>3. /\ DOMAIN request = RequestFields
      /\ request.matched
  BY DEF ApplyGlobalPipes, ReadingInv, RequestOk
<1>4. request'.headers = request.headers
  BY <1>3 DEF ApplyGlobalPipes, RequestFields
<1>5. \A b : PipeValue(b)' = PipeValue(b)
  BY <1>4 DEF PipeValue, LooksJson
<1>6. p.left = IF p.pipes = <<>> \/ ~PipeValue(p.body).ok THEN PipeValue(p.body)
               ELSE Chained(p.pipes, PipeValue(p.body).value)
  BY DEF Piped
<1>7. request'.body = IF pipes # <<>> /\ Piped(pipes).ok THEN AsBody(Piped(pipes).value) ELSE request.body
  BY <1>3 DEF ApplyGlobalPipes, RequestFields
<1>8. PipingOk'
  BY <1>1, <1>2, <1>5, <1>6, <1>7 DEF PipingOk
<1>9. /\ DOMAIN request' = RequestFields /\ request'.matched
      /\ request'.body.kind \in BodyKinds
  BY <1>2, <1>3, <1>7, BodiesHaveKinds DEF ApplyGlobalPipes, RequestFields
<1>10. request' # NoRequest
  BY <1>9 DEF NoRequest
<1>11. ActionOk'
  <2>1. CASE pipes = <<>> \/ Piped(pipes).ok
    BY <1>2, <2>1, NoElement DEF ApplyGlobalPipes, ActionOk
  <2>2. CASE ~(pipes = <<>> \/ Piped(pipes).ok)
    <3> DEFINE none == [handler |-> "", takes |-> "nothing", name |-> "", type |-> "any"]
    <3>1. action' = <<none>>
      BY <2>2 DEF ApplyGlobalPipes
    <3>2. none.takes # "json"
      OBVIOUS
    <3> HIDE DEF none
    <3> QED
      BY <3>1, <3>2, OneElement DEF ActionOk
  <2> QED
    BY <2>1, <2>2
<1>12. RefusalOk'
  <2>1. action' = <<>> => pipes = <<>> \/ Piped(pipes).ok
    BY DEF ApplyGlobalPipes
  <2> QED
    BY <1>1, <2>1 DEF RefusalOk
<1> QED
  BY <1>8, <1>9, <1>10, <1>11, <1>12 DEF ReadingInv, RequestOk

LEMMA ReadingStep ==
  ASSUME ReadingInv, [PipesNext]_pipesVars
  PROVE  ReadingInv'
<1>1. ASSUME NEW s \in Sendings, Make(s), UNCHANGED piping PROVE ReadingInv'
  <2>1. request = NoRequest /\ piping = <<>> /\ action = <<>> /\ UNCHANGED <<piping, action>>
    BY <1>1 DEF Make, ReadingInv, RequestOk
  <2>2. s.body.kind \in BodyKinds
    BY ExtractionAssumption
  <2>3. /\ DOMAIN request' = RequestFields /\ request'.body = s.body
        /\ request'.path = <<>>
    BY <1>1 DEF Make, NoRequest, RequestFields
  <2>4. RequestOk'
    BY <2>1, <2>2, <2>3 DEF RequestOk
  <2> QED
    BY <2>1, <2>4, ReadingPrepared
<1>2. ASSUME request # NoRequest, action = <<>>, piping = <<>>, UNCHANGED <<action, piping>>,
             DOMAIN request' = RequestFields, request'.body = request.body,
             request'.matched \/ (request'.matched = request.matched /\ request'.path = request.path)
      PROVE  ReadingInv'
  <2>1. RequestOk'
    BY <1>2 DEF ReadingInv, RequestOk
  <2> QED
    BY <1>2, <2>1, ReadingPrepared
<1>3. DOMAIN request = RequestFields
  BY DEF ReadingInv, RequestOk
<1>4. ASSUME NEW s \in Sendings, Make(s), UNCHANGED piping PROVE ReadingInv'
  BY <1>1, <1>4
<1>5. ASSUME NEW name, NEW wire, PutHeader(name, wire), request' # request => piping = <<>>, UNCHANGED piping
      PROVE  ReadingInv'
  <2>1. /\ request # NoRequest /\ action = <<>> /\ UNCHANGED action
        /\ DOMAIN request' = RequestFields /\ request'.body = request.body
        /\ request'.matched = request.matched /\ request'.path = request.path
    BY <1>3, <1>5 DEF PutHeader, RequestFields
  <2>2. CASE request' = request
    BY <1>5, <2>2, ReadingKept DEF PutHeader, ReadingInv, RequestOk
  <2> QED
    BY <1>2, <1>5, <2>1, <2>2
<1>6. ASSUME NEW type, NEW text, InsertExtension(type, text), request' # request => piping = <<>>, UNCHANGED piping
      PROVE  ReadingInv'
  <2>1. /\ request # NoRequest /\ action = <<>> /\ UNCHANGED action
        /\ DOMAIN request' = RequestFields /\ request'.body = request.body
        /\ request'.matched = request.matched /\ request'.path = request.path
    BY <1>3, <1>6 DEF InsertExtension, RequestFields
  <2>2. CASE request' = request
    BY <1>6, <2>2, ReadingKept DEF InsertExtension, ReadingInv, RequestOk
  <2> QED
    BY <1>2, <1>6, <2>1, <2>2
<1>7. ASSUME AttachCaptures, request' # request => piping = <<>>, UNCHANGED piping
      PROVE  ReadingInv'
  <2>1. /\ request # NoRequest /\ action = <<>> /\ UNCHANGED action
        /\ DOMAIN request' = RequestFields /\ request'.body = request.body /\ request'.matched
    BY <1>3, <1>7 DEF AttachCaptures, RequestFields
  <2>2. CASE request' = request
    BY <1>7, <2>2, ReadingKept DEF AttachCaptures, ReadingInv, RequestOk
  <2> QED
    BY <1>2, <1>7, <2>1, <2>2
<1>8. ASSUME NEW a, NEW r, RunAction(a, r), UNCHANGED piping PROVE ReadingInv'
  <2>1. /\ UNCHANGED <<request, piping>> /\ given' = Extracted(a) /\ ToSet(action') = {a}
        /\ action = <<>> /\ request # NoRequest /\ action' # <<>>
    BY <1>8, OneElement DEF RunAction
  <2>2. \A b : PipeValue(b)' = PipeValue(b)
    BY <2>1 DEF PipeValue, LooksJson
  <2>3. a.takes = "json" => given' = BodyJson(request.body, a.type)
    BY <2>1 DEF Extracted
  <2> QED
    BY <2>1, <2>2, <2>3 DEF ReadingInv, RequestOk, PipingOk, ActionOk, RefusalOk
<1>9. ASSUME NEW m, Decorate(m), UNCHANGED piping PROVE ReadingInv'
  BY <1>9, ReadingKept DEF Decorate, ReadingInv, RequestOk
<1>10. CASE UNCHANGED pipesVars
  BY <1>10, ReadingKept DEF pipesVars, extractionVars, ReadingInv, RequestOk
<1> QED
  BY <1>4, <1>5, <1>6, <1>7, <1>8, <1>9, <1>10, ReadingPiped DEF PipesNext, ExtractionNext

LEMMA ReadingInvariant == PipesSpec => []ReadingInv
BY ReadingInitial, ReadingStep, PTL DEF PipesSpec

\* A query DTO and query_typed.
LEMMA LookupsDoAgree == LookupsAgree
<1> SUFFICES ASSUME NEW type \in Types, NEW q \in QueryNames
             PROVE  LET dto == QueryDto([f \in {q} |-> type])
                    IN  IF dto.ok THEN QueryTyped(q, type) = Found(dto.value[q])
                        ELSE QueryTyped(q, type).ok =>
                               type = "string" /\ Last(Named(q)).wire.plain \in DOMAIN JsonOf
  BY DEF LookupsAgree
<1> DEFINE shape == [f \in {q} |-> type]
           values == [f \in DOMAIN shape |-> QueryValue(f)]
           plain == Last(Named(q)).wire.plain
<1>1. QueryTyped(q, type) = Coerced(type, plain)
  BY DEF QueryTyped
<1>2. QueryDto(shape) = IF \A f \in DOMAIN shape : f \in QueryNames /\ Fits(shape[f], QueryValue(f))
                        THEN Found(values) ELSE Refused("invalid")
  BY DEF QueryDto
<1>3. ~Refused("invalid").ok /\ Found(values).value = values /\ Found(values).ok
  BY DEF Refused, Found
<1>4. DOMAIN shape = {q} /\ shape[q] = type /\ values[q] = QueryValue(q)
  OBVIOUS
<1>5. QueryDto(shape) = IF Fits(type, QueryValue(q)) THEN Found(values) ELSE Refused("invalid")
  BY <1>2, <1>4
<1>6. QueryValue(q) = IF plain \in DOMAIN JsonOf THEN JsonOf[plain] ELSE StringOf(plain)
  BY DEF QueryValue, Guessed
<1> HIDE DEF shape, values, plain
<1>7. CASE Fits(type, QueryValue(q))
  <2>1. QueryDto(shape).ok /\ QueryDto(shape).value[q] = QueryValue(q)
    BY <1>3, <1>4, <1>5, <1>7
  <2>2. Coerced(type, plain) = Found(QueryValue(q))
    BY <1>6, <1>7 DEF Coerced
  <2> QED
    BY <1>1, <2>1, <2>2 DEF shape
<1>8. CASE ~Fits(type, QueryValue(q))
  <2>1. ~QueryDto(shape).ok
    BY <1>3, <1>5, <1>8
  <2>2. Coerced(type, plain).ok => plain \in DOMAIN JsonOf /\ Fits(type, StringOf(plain))
    BY <1>3, <1>6, <1>8 DEF Coerced
  <2>3. Fits(type, StringOf(plain)) => type \in {"any", "string"}
    BY DEF Fits, StringOf
  <2>4. type # "any"
    BY <1>8 DEF Fits
  <2> QED
    BY <1>1, <2>1, <2>2, <2>3, <2>4 DEF shape, plain
<1> QED
  BY <1>7, <1>8

\* What is given of a payload in the forms it can be held in.
LEMMA PayloadIsOne == OnePayload
<1> SUFFICES ASSUME NEW w \in Wires, request.body.kind = "Bytes", request.body.wire = w, w.utf8
             PROVE  /\ \A kind \in {"Text", "Html"} :
                         LET other == [kind |-> kind, wire |-> w]
                         IN  /\ BodyString(other) = BodyString(request.body)
                             /\ BodyBytes(other) = BodyBytes(request.body)
                             /\ \A type \in Types : BodyJson(other, type) = BodyJson(request.body, type)
                    /\ BodyJson(request.body, "any").ok =>
                         LET json  == [kind |-> "Json", value |-> BodyJson(request.body, "any").value]
                             again == [kind |-> "Text", wire |-> [text |-> BodyString(json).value, utf8 |-> TRUE]]
                         IN  /\ BodyString(json) = BodyBytes(json)
                             /\ \A type \in Types : /\ BodyJson(json, type) = BodyJson(request.body, type)
                                                    /\ BodyJson(again, type) = BodyJson(json, type)
  BY DEF OnePayload
<1>1. ASSUME NEW kind \in {"Text", "Html"}
      PROVE  LET other == [kind |-> kind, wire |-> w]
             IN  /\ BodyString(other) = BodyString(request.body)
                 /\ BodyBytes(other) = BodyBytes(request.body)
                 /\ \A type \in Types : BodyJson(other, type) = BodyJson(request.body, type)
  <2> DEFINE other == [kind |-> kind, wire |-> w]
  <2>1. other.kind = kind /\ other.wire = w
    OBVIOUS
  <2>2. BodyString(other) = BodyString(request.body) /\ BodyBytes(other) = BodyBytes(request.body)
    BY <2>1 DEF BodyString, BodyBytes
  <2>3. ASSUME NEW type PROVE BodyJson(other, type) = BodyJson(request.body, type)
    BY <2>1 DEF BodyJson
  <2> QED
    BY <2>2, <2>3
<1>2. ASSUME BodyJson(request.body, "any").ok
      PROVE  LET json  == [kind |-> "Json", value |-> BodyJson(request.body, "any").value]
                 again == [kind |-> "Text", wire |-> [text |-> BodyString(json).value, utf8 |-> TRUE]]
             IN  /\ BodyString(json) = BodyBytes(json)
                 /\ \A type \in Types : /\ BodyJson(json, type) = BodyJson(request.body, type)
                                        /\ BodyJson(again, type) = BodyJson(json, type)
  <2> DEFINE v == JsonOf[w.text]
             s == Serialized(v)
             json == [kind |-> "Json", value |-> BodyJson(request.body, "any").value]
             again == [kind |-> "Text", wire |-> [text |-> BodyString(json).value, utf8 |-> TRUE]]
  <2>1. w.text \in DOMAIN JsonOf /\ BodyJson(request.body, "any").value = v
    BY <1>2 DEF BodyJson, Found, Refused, Fits
  <2>2. json.kind = "Json" /\ json.value = v
    BY <2>1
  <2> HIDE DEF json, v
  <2>3. BodyString(json) = Found(s) /\ BodyBytes(json) = Found(s)
    BY <2>2 DEF BodyString, BodyBytes
  <2>4. s \in DOMAIN JsonOf /\ JsonOf[s] = v
    BY <2>1, ExtractionAssumption DEF v
  <2>5. again.kind = "Text" /\ again.wire.utf8 /\ again.wire.text = s
    BY <2>3 DEF Found
  <2> HIDE DEF s, again
  <2>6. ASSUME NEW type PROVE BodyJson(json, type) = BodyJson(request.body, type)
    BY <2>1, <2>2 DEF BodyJson, v
  <2>7. ASSUME NEW type PROVE BodyJson(again, type) = BodyJson(json, type)
    BY <2>2, <2>4, <2>5 DEF BodyJson
  <2> QED
    BY <2>3, <2>6, <2>7 DEF json, again
<1> QED
  BY <1>1, <1>2

\* Pipes.
LEMMA PipesUnnoticed == ASSUME ReadingInv PROVE UnchangedIsUnnoticed
<1> SUFFICES ASSUME NEW p \in ToSet(piping), p.left.ok, PipeValue(p.body) = p.left
             PROVE  /\ \A type \in Types :
                         (BodyJson(p.body, type).ok /\ p.left.value = BodyJson(p.body, type).value
                            /\ p.left.value.kind \notin {"null", "string"}) =>
                           BodyJson(request.body, type) = BodyJson(p.body, type)
                    /\ (p.body.kind # "Json" /\ ~LooksJson) => BodyString(request.body) = BodyString(p.body)
  BY DEF UnchangedIsUnnoticed
<1>1. /\ p.body.kind \in BodyKinds
      /\ request.body = AsBody(p.left.value) \/ request.body = p.body
  BY DEF ReadingInv, PipingOk
<1>2. ASSUME NEW type, BodyJson(p.body, type).ok, p.left.value = BodyJson(p.body, type).value,
             p.left.value.kind \notin {"null", "string"}
      PROVE  BodyJson(AsBody(p.left.value), type) = BodyJson(p.body, type)
  <2> DEFINE v == p.left.value
  <2>1. Fits(type, v) /\ BodyJson(p.body, type) = Found(v)
    BY <1>2 DEF BodyJson, Found, Refused
  <2>2. AsBody(v).kind = "Json" /\ AsBody(v).value = v
    BY <1>2 DEF AsBody
  <2> QED
    BY <2>1, <2>2 DEF BodyJson
<1>3. ASSUME p.body.kind # "Json", ~LooksJson
      PROVE  BodyString(AsBody(p.left.value)) = BodyString(p.body)
  <2>1. CASE p.body.kind = "Empty"
    <3>1. p.left.value = Null
      BY <2>1 DEF PipeValue, Found
    <3>2. AsBody(Null).kind = "Empty"
      BY DEF AsBody, Null
    <3> QED
      BY <2>1, <3>1, <3>2 DEF BodyString
  <2>2. CASE p.body.kind \in {"Text", "Html", "Bytes"}
    <3>1. p.body.wire.utf8 /\ p.left.value = StringOf(p.body.wire.text)
      BY <1>3, <2>2 DEF PipeValue, Found, Refused
    <3>2. AsBody(p.left.value).kind = "Text" /\ AsBody(p.left.value).wire.text = p.body.wire.text
      BY <3>1 DEF AsBody, StringOf, TextBody
    <3> QED
      BY <2>2, <3>1, <3>2 DEF BodyString
  <2> QED
    BY <1>1, <1>3, <2>1, <2>2 DEF BodyKinds
<1> QED
  BY <1>1, <1>2, <1>3

LEMMA PipesBefore == ASSUME ReadingInv PROVE NothingBehindThePipes
<1> SUFFICES ASSUME NEW p \in ToSet(piping), NEW a \in ToSet(action),
                    p.pipes # <<>>, a.takes = "json", given.ok
             PROVE  p.left.ok /\ (p.left.value.kind # "string" => given.value = p.left.value)
  BY DEF NothingBehindThePipes
<1>1. p.left.ok /\ request.body = AsBody(p.left.value) /\ given = BodyJson(AsBody(p.left.value), a.type)
  BY DEF ReadingInv, PipingOk, ActionOk
<1>2. CASE p.left.value.kind = "null"
  BY <1>1, <1>2 DEF AsBody, BodyJson, Refused
<1>3. CASE p.left.value.kind \notin {"null", "string"}
  <2>1. AsBody(p.left.value).kind = "Json" /\ AsBody(p.left.value).value = p.left.value
    BY <1>3 DEF AsBody
  <2> QED
    BY <1>1, <2>1 DEF BodyJson, Found, Refused
<1> QED
  BY <1>1, <1>2, <1>3

\* A query field that a DTO accepts is what query_typed says of it, and what the DTO alone refuses is JSON
\* asked for as a string; a payload is the same string, bytes and JSON held as text, HTML or
\* bytes, and held as a JSON value the same JSON, whose text is read as this value again; for any
\* requests, texts, types and actions, given that serde_json reads what it writes
\* (ExtractionAssumption; request.rs:88-121, 232-259, 397-466).
THEOREM LookupsReadAlike == PipesSpec => []ReadingsAgree
<1>1. ReadingInv => ReadingsAgree
  BY LookupsDoAgree, PayloadIsOne DEF ReadingInv, ReadingsAgree
<1> QED
  BY <1>1, ReadingInvariant, PTL

\* The body that the handler reads is what the pipes left, and what they left as it was is read as
\* it would have been, for any pipes and bodies (server.rs:1625-1695, request.rs:403-447).
THEOREM PipesStandAside == PipesSpec => []PipesTransparent
<1>1. ReadingInv => PipesTransparent
  BY PipesUnnoticed, PipesBefore DEF PipesTransparent
<1> QED
  BY <1>1, ReadingInvariant, PTL
=============================================================================
