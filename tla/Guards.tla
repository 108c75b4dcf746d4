------------------------------- MODULE Guards -------------------------------
(***************************************************************************)
(* The guards of nivasa-guards/src/lib.rs in a chain as                    *)
(* evaluate_guard_chain runs it. Their answers are ready at once and only  *)
(* the throttle storage is shared, behind one mutex: a request passes its  *)
(* chain in one step, in any order with others and with the clock.         *)
(***************************************************************************)
EXTENDS Integers, Sequences, FiniteSets

CONSTANTS
  GuardRequests,  \* the requests: what their ExecutionContext holds
  Chains,         \* the chains to choose from: sequences of guards
  Absent, Malformed,   \* no value; a value that is not of the type a guard reads
  Word,           \* 2^32: a throttle limit is a u32
  GuardTime, MaxAdmitted   \* bounds of an instance: clock and history

ASSUME GuardsAssumption == Word \in Nat \ {0} /\ GuardTime \in Nat /\ MaxAdmitted \in Nat

VARIABLES
  chain,      \* the guards, in order
  gnow,       \* Instant::now()
  windows,    \* InMemoryThrottlerStorage: key -> [started, count]
  admitted,   \* history: the admissions of the storage, as <<key, time>>
  verdict     \* what became of the last request: who refused it, or nobody

guardVars == <<chain, gnow, windows, admitted, verdict>>

NoVerdict == [request |-> Absent, by |-> "nobody", at |-> 0]

GuardsInit ==
  /\ chain \in Chains
  /\ gnow = 0
  /\ windows = [k \in {} |-> 0]
  /\ admitted = <<>>
  /\ verdict = NoVerdict

-----------------------------------------------------------------------------
(* Reading the context. r.shared is the RequestContext, or Absent; r.local the maps of the       *)
(* ExecutionContext itself. An entry is Absent, Malformed or a value.                             *)

Present(v) == v # Absent
WellFormed(v) == v \notin {Absent, Malformed}
OrElse(v, default) == IF WellFormed(v) THEN v ELSE default

HasShared(r) == Present(r.shared)

\* The shared context's token counts when it is a string, else the local one.
BearerToken(r) ==
  IF HasShared(r) /\ WellFormed(r.shared.authorization)
  THEN r.shared.authorization ELSE r.local.authorization

AuthAllows(r) == BearerToken(r) = "jwt"

\* handler before class; a malformed value of the shared context ends the search with nothing
\* required, one of the local maps is passed over.
RequiredRoles(r) ==
  CASE HasShared(r) /\ Present(r.shared.handlerRoles) -> r.shared.handlerRoles
    [] HasShared(r) /\ ~Present(r.shared.handlerRoles) /\ Present(r.shared.classRoles) -> r.shared.classRoles
    [] OTHER -> OrElse(r.local.handlerRoles, r.local.classRoles)

PrincipalRoles(r) ==
  OrElse(IF HasShared(r) /\ Present(r.shared.roles) THEN r.shared.roles ELSE r.local.roles, {})

RolesAllows(r) ==
  WellFormed(RequiredRoles(r)) => RequiredRoles(r) \cap PrincipalRoles(r) # {}

-----------------------------------------------------------------------------
(* ThrottlerGuard: its own limit and ttl, and what the shared context overrides. *)

ThrottleKey(r) == IF HasShared(r) THEN <<r.shared.module, r.shared.user, r.shared.path>> ELSE <<"global">>

EffectiveLimit(g, r) ==
  IF HasShared(r) /\ WellFormed(r.shared.limit) THEN r.shared.limit % Word ELSE g.limit
EffectiveTtl(g, r) ==
  IF HasShared(r) /\ WellFormed(r.shared.ttl) THEN r.shared.ttl ELSE g.ttl

Skips(r) == HasShared(r) /\ r.shared.skip = TRUE
Configured(g) == g.limit > 0 /\ g.ttl > 0

\* The entry of `allow` after its window was opened or started again.
Window(w, key, ttl) ==
  IF key \in DOMAIN w /\ gnow - w[key].started < ttl THEN w[key] ELSE [started |-> gnow, count |-> 0]

\* Mutant: one request more than the limit is let through.
HasRoom_OneMore(window, limit) == window.count <= limit

HasRoom(window, limit) == window.count < limit

\* `allow` under the storage's mutex: the windows after it and whether it admits. The count never
\* passes the limit, so saturating_add adds one.
Allow(w, key, limit, ttl) ==
  LET window == Window(w, key, ttl)
      room == HasRoom(window, limit)
      kept == [window EXCEPT !.count = IF room THEN @ + 1 ELSE @]
  IN  IF limit = 0 \/ ttl = 0
      THEN [windows |-> w, admits |-> FALSE]
      ELSE [windows |-> [k \in DOMAIN w \cup {key} |-> IF k = key THEN kept ELSE w[k]], admits |-> room]

Throttle(w, g, r) ==
  CASE ~Configured(g) -> [windows |-> w, admits |-> FALSE]
    [] Configured(g) /\ Skips(r) -> [windows |-> w, admits |-> TRUE]
    [] OTHER -> Allow(w, ThrottleKey(r), EffectiveLimit(g, r), EffectiveTtl(g, r))

\* The guards before the first one that refuses, which is Len(chain) + 1 when none does.
FirstRefusal(r, w) ==
  LET refuses(g) == CASE g.kind = "auth" -> ~AuthAllows(r)
                      [] g.kind = "roles" -> ~RolesAllows(r)
                      [] OTHER -> ~Throttle(w, g, r).admits
      at == {i \in DOMAIN chain : refuses(chain[i])}
  IN  IF at = {} THEN Len(chain) + 1 ELSE CHOOSE i \in at : \A j \in at : i <= j

\* A chain has one throttler at most: where it stands, or 0.
ThrottlerAt ==
  LET at == {i \in DOMAIN chain : chain[i].kind = "throttler"}
  IN  IF at = {} THEN 0 ELSE CHOOSE i \in at : TRUE

\* Limits are u32 and u64, ttls durations; a chain has its throttler once.
ASSUME ChainsAssumption ==
  /\ \A c \in Chains :
       /\ Len(c) \in Nat /\ DOMAIN c = 1..Len(c)
       /\ \A i, j \in DOMAIN c : c[i].kind = "throttler" /\ c[j].kind = "throttler" => i = j
       /\ \A i \in DOMAIN c : c[i].kind = "throttler" => c[i].limit \in Nat /\ c[i].ttl \in Nat
  /\ \A r \in GuardRequests : HasShared(r) =>
       /\ WellFormed(r.shared.limit) => r.shared.limit \in Nat
       /\ WellFormed(r.shared.ttl) => r.shared.ttl \in Nat

\* The request goes through the chain until a guard answers Ok(false).
PassChain(r) ==
  LET stop == FirstRefusal(r, windows)
      asked == ThrottlerAt # 0 /\ ThrottlerAt <= stop
      g == chain[ThrottlerAt]
      outcome == Throttle(windows, g, r)
      counted == asked /\ outcome.admits /\ ~Skips(r)
  IN  /\ Len(admitted) < MaxAdmitted
      /\ verdict' = [request |-> r, by |-> IF stop > Len(chain) THEN "nobody" ELSE chain[stop].kind,
                     at |-> gnow]
      /\ windows' = IF asked THEN outcome.windows ELSE windows
      /\ admitted' = IF counted THEN Append(admitted, <<ThrottleKey(r), gnow>>) ELSE admitted
      /\ UNCHANGED <<chain, gnow>>

GuardTick == gnow < GuardTime /\ gnow' = gnow + 1 /\ UNCHANGED <<chain, windows, admitted, verdict>>

GuardsNext == GuardTick \/ \E r \in GuardRequests : PassChain(r)

GuardsSpec == GuardsInit /\ [][GuardsNext]_guardVars

-----------------------------------------------------------------------------
(* Properties. *)

\* Admissions of a key after time `since`.
Recent(key, since) == {i \in DOMAIN admitted : admitted[i][1] = key /\ admitted[i][2] > since}

Policy(key) ==
  {<<EffectiveLimit(chain[ThrottlerAt], r), EffectiveTtl(chain[ThrottlerAt], r)>> :
     r \in {q \in GuardRequests : ThrottleKey(q) = key}}

\* What a fixed window promises of any span of time: a key whose requests agree on limit and ttl
\* is admitted at most twice the limit within one ttl, however requests and the clock fall, and at
\* most the limit within the window that is open.
ThrottleBound ==
  ThrottlerAt # 0 =>
    \A key \in DOMAIN windows : \A p \in Policy(key) :
      Policy(key) = {p} =>
        /\ Cardinality(Recent(key, windows[key].started - 1)) <= p[1]
        /\ \A t \in 0..gnow :
             Cardinality({i \in Recent(key, t - p[2]) : admitted[i][2] <= t}) <= 2 * p[1]

\* A refusal by the throttler is earned: at least the limit was admitted under the key within the
\* request's own ttl, also where requests with other limits share the key, or throttling is
\* configured to let nothing through.
RefusalsEarned ==
  verdict.by = "throttler" =>
    LET g == chain[ThrottlerAt]
        r == verdict.request
    IN  \/ ~Configured(g) \/ EffectiveLimit(g, r) = 0 \/ EffectiveTtl(g, r) = 0
        \/ Cardinality(Recent(ThrottleKey(r), verdict.at - EffectiveTtl(g, r))) >= EffectiveLimit(g, r)

\* The throttler lets no more through than it promises, and refuses no less
\* (guards lib.rs:440-600).
ThrottleJust == ThrottleBound /\ RefusalsEarned
=============================================================================
