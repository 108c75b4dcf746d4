----------------------------- MODULE GraphProofs -----------------------------
(* Proofs about ModuleGraph, for any modules and metadata: that its recursions and loops are defined, *)
(* that the activation order is complete and sound, and what surfaces and import sources are.         *)
EXTENDS ModuleGraph, FiniteSetTheorems, WellFoundedInduction, TLAPS

-----------------------------------------------------------------------------
(* Numbers, loops and recursions. *)

\* Every set of natural numbers that is not empty has a least one.
LEMMA LeastNumber ==
  ASSUME NEW S \in SUBSET Nat, S # {}
  PROVE  \E n \in S : \A m \in S : n <= m
<1> DEFINE Less == {p \in Nat \X Nat : p[1] < p[2]}
<1>1. OpToRel(<, Nat) = Less
  BY DEF OpToRel
<1>2. PICK n \in S : \A m \in S : <<m, n>> \notin Less
  BY <1>1, NatLessThanWellFounded, WFMin
<1>3. SUFFICES ASSUME NEW m \in S PROVE n <= m
  BY <1>2
<1>4. ~(m < n)
  BY <1>2
<1>5. m \in Nat /\ n \in Nat
  OBVIOUS
<1> QED
  BY <1>4, <1>5

\* What holds at zero and at the successor of every number it holds at holds of all of them.
LEMMA EveryNumber ==
  ASSUME NEW S \in SUBSET Nat, 0 \in S, \A n \in S : n + 1 \in S
  PROVE  S = Nat
<1>1. SUFFICES ASSUME Nat \ S # {} PROVE FALSE
  OBVIOUS
<1>2. PICK n \in Nat \ S : \A m \in Nat \ S : n <= m
  BY <1>1, LeastNumber
<1>3. n # 0 /\ n - 1 \in Nat /\ ~(n <= n - 1)
  BY <1>2
<1>4. n - 1 \in S
  BY <1>2, <1>3
<1>5. (n - 1) + 1 = n
  BY <1>2
<1> QED
  BY <1>2, <1>4, <1>5

\* A loop over 1..n whose turns are functions on D runs: there is a function with the value before
\* each turn.
LoopRuns(D, start, N, Turn) ==
  \E f \in [0..N -> D] : f[0] = start /\ \A n \in 1..N : f[n] = Turn[n][f[n - 1]]

LEMMA LoopExists ==
  ASSUME NEW D, NEW start \in D, NEW N \in Nat, NEW Turn \in [1..N -> [D -> D]]
  PROVE  LoopRuns(D, start, N, Turn)
<1> DEFINE IsRun(f, k) == /\ f \in [0..k -> D] /\ f[0] = start
                          /\ \A n \in 1..k : f[n] = Turn[n][f[n - 1]]
           S == {k \in Nat : k <= N => \E f : IsRun(f, k)}
<1>1. 0 \in S
  <2>1. IsRun([n \in 0..0 |-> start], 0)
    OBVIOUS
  <2> QED
    BY <2>1
<1>2. ASSUME NEW k \in S PROVE k + 1 \in S
  <2>1. k \in Nat /\ k + 1 \in Nat
    OBVIOUS
  <2>2. SUFFICES ASSUME k + 1 <= N PROVE \E f : IsRun(f, k + 1)
    BY <2>1
  <2>3. PICK f : IsRun(f, k)
    BY <2>1, <2>2
  <2> DEFINE g == [n \in 0..k + 1 |-> IF n = k + 1 THEN Turn[k + 1][f[k]] ELSE f[n]]
  <2>4. k + 1 \in 1..N /\ f[k] \in D
    BY <2>1, <2>2, <2>3
  <2>5. Turn[k + 1][f[k]] \in D
    BY <2>4
  <2>6. \A n \in 0..k + 1 : n # k + 1 => n \in 0..k
    BY <2>1
  <2>7. g \in [0..k + 1 -> D]
    BY <2>3, <2>5, <2>6
  <2>8. g[0] = start /\ g[k] = f[k]
    BY <2>1, <2>3
  <2>9. ASSUME NEW n \in 1..k + 1 PROVE g[n] = Turn[n][g[n - 1]]
    <3>1. CASE n = k + 1
      BY <2>1, <2>8, <3>1
    <3>2. CASE n # k + 1
      <4>1. n \in 1..k /\ n - 1 \in 0..k /\ n - 1 # k + 1 /\ n \in 0..k + 1 /\ n - 1 \in 0..k + 1
        BY <2>1, <2>9, <3>2
      <4>2. g[n] = f[n] /\ g[n - 1] = f[n - 1]
        BY <3>2, <4>1
      <4> QED
        BY <2>3, <4>1, <4>2
    <3> QED
      BY <3>1, <3>2
  <2> QED
    BY <2>7, <2>8, <2>9
<1>3. S = Nat
  <2> HIDE DEF S
  <2>1. S \subseteq Nat
    BY DEF S
  <2> QED
    BY <1>1, <1>2, <2>1, EveryNumber
<1> QED
  BY <1>3 DEF LoopRuns

\* A recursion whose result for an argument depends on smaller arguments only is defined.
Causal(Args, Out, Body, mu) ==
  \A g, h \in [Args -> Out] : \A a \in Args :
    (\A b \in Args : mu[b] < mu[a] => g[b] = h[b]) => Body[g][a] = Body[h][a]

HasSolution(Args, Out, Body) == \E f \in [Args -> Out] : f = Body[f]

LEMMA RecursionExists ==
  ASSUME NEW Args, NEW Out, Out # {}, NEW Body \in [[Args -> Out] -> [Args -> Out]],
         NEW M \in Nat, NEW mu \in [Args -> 0..M], Causal(Args, Out, Body, mu)
  PROVE  HasSolution(Args, Out, Body)
<1> DEFINE D == [Args -> Out]
           N == M + 2
           Turn == [n \in 1..N |-> Body]
<1>1. PICK o : o \in Out
  OBVIOUS
<1>2. [a \in Args |-> o] \in D
  BY <1>1
<1>3. N \in Nat /\ Turn \in [1..N -> [D -> D]]
  OBVIOUS
<1>4. LoopRuns(D, [a \in Args |-> o], N, Turn)
  <2> HIDE DEF D, N, Turn
  <2> QED
    BY <1>2, <1>3, LoopExists
<1>5. PICK lev \in [0..N -> D] : \A n \in 1..N : lev[n] = Turn[n][lev[n - 1]]
  BY <1>4 DEF LoopRuns
<1>6. \A n \in 1..N : lev[n] = Body[lev[n - 1]]
  BY <1>5
<1> DEFINE S == {n \in Nat : n <= M + 1 => \A a \in Args : mu[a] < n => lev[n][a] = lev[n + 1][a]}
<1>7. 0 \in S
  OBVIOUS
<1>8. ASSUME NEW n \in S PROVE n + 1 \in S
  <2>1. n \in Nat /\ n + 1 \in Nat
    OBVIOUS
  <2>2. SUFFICES ASSUME n + 1 <= M + 1, NEW a \in Args, mu[a] < n + 1
                 PROVE  lev[n + 1][a] = lev[(n + 1) + 1][a]
    BY <2>1
  <2>3. /\ n + 1 \in 1..N /\ (n + 1) + 1 \in 1..N /\ n \in 0..N /\ n + 1 \in 0..N /\ n <= M + 1
        /\ (n + 1) - 1 = n /\ ((n + 1) + 1) - 1 = n + 1
    BY <2>1, <2>2
  <2>4. lev[n + 1] = Body[lev[n]] /\ lev[(n + 1) + 1] = Body[lev[n + 1]]
    BY <1>6, <2>3
  <2>5. \A b \in Args : mu[b] < mu[a] => lev[n][b] = lev[n + 1][b]
    <3>1. SUFFICES ASSUME NEW b \in Args, mu[b] < mu[a] PROVE lev[n][b] = lev[n + 1][b]
      OBVIOUS
    <3>2. mu[b] \in Nat /\ mu[a] \in Nat
      OBVIOUS
    <3>3. mu[b] < n
      BY <2>1, <2>2, <3>1, <3>2
    <3> QED
      BY <2>3, <3>3
  <2>6. lev[n] \in [Args -> Out] /\ lev[n + 1] \in [Args -> Out]
    BY <2>3
  <2>7. \A g, h \in [Args -> Out] :
          (\A b \in Args : mu[b] < mu[a] => g[b] = h[b]) => Body[g][a] = Body[h][a]
    BY DEF Causal
  <2> DEFINE g == lev[n]
             h == lev[n + 1]
  <2>8. g \in [Args -> Out] /\ h \in [Args -> Out] /\ \A b \in Args : mu[b] < mu[a] => g[b] = h[b]
    BY <2>5, <2>6
  <2> HIDE DEF S
  <2>9. Body[g][a] = Body[h][a]
    <3> HIDE DEF g, h
    <3> QED
      BY <2>7, <2>8
  <2> QED
    BY <2>4, <2>9
<1>9. S = Nat
  <2> HIDE DEF S
  <2>1. S \in SUBSET Nat
    BY DEF S
  <2> QED
    BY <1>7, <1>8, <2>1, EveryNumber
<1>10. M + 1 \in S /\ M + 1 \in 0..N /\ M + 2 \in 1..N /\ (M + 2) - 1 = M + 1 /\ (M + 1) + 1 = M + 2 /\ M + 2 \in 0..N
  <2>1. M + 1 \in Nat
    OBVIOUS
  <2>2. M + 1 \in S
    BY <1>9, <2>1
  <2> HIDE DEF S
  <2> QED
    BY <2>2
<1>11. \A a \in Args : lev[M + 1][a] = lev[M + 2][a]
  <2>1. \A a \in Args : mu[a] \in 0..M /\ mu[a] < M + 1
    OBVIOUS
  <2> QED
    BY <1>10, <2>1
<1>12. lev[M + 1] \in [Args -> Out] /\ lev[M + 2] \in [Args -> Out]
  BY <1>10
<1>13. lev[M + 1] = lev[M + 2]
  <2> HIDE DEF S
  <2> QED
    BY <1>11, <1>12
<1>14. lev[M + 2] = Body[lev[M + 1]]
  BY <1>6, <1>10
<1> QED
  BY <1>12, <1>13, <1>14 DEF HasSolution

\* What holds of an argument when it holds of the smaller ones holds of all.
LEMMA EveryArgument ==
  ASSUME NEW Args, NEW mu \in [Args -> Nat], NEW S \in SUBSET Args,
         \A a \in Args : (\A b \in Args : mu[b] < mu[a] => b \in S) => a \in S
  PROVE  S = Args
<1>1. SUFFICES ASSUME Args \ S # {} PROVE FALSE
  OBVIOUS
<1> DEFINE V == {mu[a] : a \in Args \ S}
<1>2. V \in SUBSET Nat /\ V # {}
  BY <1>1
<1>3. PICK n \in V : \A m \in V : n <= m
  <2> HIDE DEF V
  <2> QED
    BY <1>2, LeastNumber
<1>4. PICK a \in Args \ S : n = mu[a]
  OBVIOUS
<1>5. \A b \in Args : mu[b] < mu[a] => b \in S
  <2>1. SUFFICES ASSUME NEW b \in Args, mu[b] < mu[a], b \notin S PROVE FALSE
    OBVIOUS
  <2>2. mu[b] \in V /\ mu[b] \in Nat /\ mu[a] \in Nat
    BY <2>1
  <2>3. mu[a] <= mu[b]
    BY <1>3, <1>4, <2>2
  <2> QED
    BY <2>1, <2>2, <2>3
<1> QED
  BY <1>4, <1>5

-----------------------------------------------------------------------------
(* Loops that end at the first error. *)

Outcomes(V) == {Ok(v) : v \in V} \cup {Err(e) : e \in {"missing", "circular", "export"}}

LEMMA OutcomeIs ==
  ASSUME NEW V, NEW r \in Outcomes(V)
  PROVE  /\ IsOk(r) => r.value \in V /\ r = Ok(r.value)
         /\ ~IsOk(r) => r.error \in {"missing", "circular", "export"}
BY DEF Outcomes, Ok, Err, IsOk

LEMMA OutcomeOf ==
  ASSUME NEW V
  PROVE  /\ \A v \in V : Ok(v) \in Outcomes(V) /\ IsOk(Ok(v)) /\ Ok(v).value = v
         /\ \A e \in {"missing", "circular", "export"} : Err(e) \in Outcomes(V) /\ ~IsOk(Err(e)) /\ Err(e).error = e
BY DEF Outcomes, Ok, Err, IsOk

\* The results after each turn of a loop.
IsFold(f, step, start, seq, V) ==
  /\ f \in [0..Len(seq) -> Outcomes(V)] /\ f[0] = Ok(start) /\ TryFold(step, start, seq) = f[Len(seq)]
  /\ \A k \in 1..Len(seq) : IsOk(f[k - 1]) => f[k - 1].value \in V /\ f[k] = step[f[k - 1].value][seq[k]]
  /\ \A k \in 1..Len(seq) : ~IsOk(f[k - 1]) => f[k] = f[k - 1]

Turns(f, step, start, seq) ==
  f = [k \in 0..Len(seq) |-> IF k = 0 THEN Ok(start)
                             ELSE LET r == f[k - 1] IN IF IsOk(r) THEN step[r.value][seq[k]] ELSE r]

LEMMA FoldRuns ==
  ASSUME NEW V, NEW X, NEW step \in [V -> [X -> Outcomes(V)]], NEW start \in V, NEW seq \in Seq(X)
  PROVE  \E f : IsFold(f, step, start, seq, V)
<1> DEFINE D == Outcomes(V)
           N == Len(seq)
           turn(k, r) == IF IsOk(r) THEN step[r.value][seq[k]] ELSE r
           Turn == [k \in 1..N |-> [r \in D |-> turn(k, r)]]
<1>1. N \in Nat /\ Ok(start) \in D
  BY OutcomeOf
<1>2. ASSUME NEW k \in 1..N, NEW r \in D PROVE turn(k, r) \in D
  <2>1. CASE IsOk(r)
    <3>1. r.value \in V /\ seq[k] \in X
      BY <2>1, OutcomeIs
    <3>2. step[r.value] \in [X -> Outcomes(V)]
      BY <3>1
    <3> QED
      BY <2>1, <3>2
  <2>2. CASE ~IsOk(r)
    BY <2>2
  <2> QED
    BY <2>1, <2>2
<1> HIDE DEF turn, D
<1>3. Turn \in [1..N -> [D -> D]]
  BY <1>2
<1>4. LoopRuns(D, Ok(start), N, Turn)
  <2> HIDE DEF N, Turn
  <2> QED
    BY <1>1, <1>3, LoopExists
<1>5. PICK g \in [0..N -> D] : g[0] = Ok(start) /\ \A k \in 1..N : g[k] = Turn[k][g[k - 1]]
  BY <1>4 DEF LoopRuns
<1>6. \A k \in 1..N : k - 1 \in 0..N /\ g[k - 1] \in D /\ g[k] = turn(k, g[k - 1])
  <2>1. SUFFICES ASSUME NEW k \in 1..N PROVE k - 1 \in 0..N /\ g[k - 1] \in D /\ g[k] = turn(k, g[k - 1])
    OBVIOUS
  <2>2. k - 1 \in 0..N
    BY <1>1
  <2>3. g[k - 1] \in D
    BY <1>5, <2>2
  <2> QED
    BY <1>5, <2>2, <2>3
<1>7. \A f : Turns(f, step, start, seq) <=> f = [k \in 0..N |-> IF k = 0 THEN Ok(start) ELSE turn(k, f[k - 1])]
  BY DEF Turns, turn
<1> HIDE DEF N, Turn
<1>8. Turns(g, step, start, seq)
  <2>1. \A k \in 0..N : k = 0 \/ k \in 1..N
    BY <1>1
  <2>2. \A k \in 0..N : g[k] = IF k = 0 THEN Ok(start) ELSE turn(k, g[k - 1])
    BY <1>5, <1>6, <2>1
  <2>3. g = [k \in 0..N |-> g[k]]
    BY <1>5
  <2>4. g = [k \in 0..N |-> IF k = 0 THEN Ok(start) ELSE turn(k, g[k - 1])]
    BY <2>2, <2>3
  <2> QED
    BY <1>7, <2>4
<1> DEFINE f == CHOOSE f : Turns(f, step, start, seq)
<1>9. Turns(f, step, start, seq)
  BY <1>8
<1>10. TryFold(step, start, seq) = f[N]
  BY DEF TryFold, Turns, N
<1> HIDE DEF f
<1>11. f = [k \in 0..N |-> IF k = 0 THEN Ok(start) ELSE turn(k, f[k - 1])]
  BY <1>7, <1>9
<1>12. f[0] = Ok(start) /\ \A k \in 1..N : f[k] = turn(k, f[k - 1])
  <2>1. 0 \in 0..N /\ \A k \in 1..N : k \in 0..N /\ k # 0
    BY <1>1
  <2> QED
    BY <1>11, <2>1
<1> DEFINE S == {k \in Nat : k <= N => f[k] \in D}
<1>13. 0 \in S
  BY <1>1, <1>12
<1>14. ASSUME NEW k \in S PROVE k + 1 \in S
  <2>1. SUFFICES ASSUME k + 1 <= N PROVE f[k + 1] \in D
    OBVIOUS
  <2>2. k + 1 \in 1..N /\ k <= N /\ (k + 1) - 1 = k
    BY <1>1, <2>1
  <2>3. f[k] \in D /\ f[k + 1] = turn(k + 1, f[k])
    BY <1>12, <2>2
  <2> QED
    BY <1>2, <2>2, <2>3
<1>15. S = Nat
  <2> HIDE DEF S
  <2>1. S \in SUBSET Nat
    BY DEF S
  <2> QED
    BY <1>13, <1>14, <2>1, EveryNumber
<1>16. f \in [0..N -> D]
  <2>1. \A k \in 0..N : f[k] \in D
    BY <1>1, <1>15
  <2> QED
    BY <1>11, <2>1
<1>17. \A k \in 1..N : IsOk(f[k - 1]) => f[k - 1].value \in V /\ f[k] = step[f[k - 1].value][seq[k]]
  <2>1. SUFFICES ASSUME NEW k \in 1..N, IsOk(f[k - 1])
                 PROVE  f[k - 1].value \in V /\ f[k] = step[f[k - 1].value][seq[k]]
    OBVIOUS
  <2>2. f[k - 1] \in D
    BY <1>1, <1>16
  <2>3. f[k - 1].value \in V
    BY <2>1, <2>2, OutcomeIs DEF D
  <2>4. f[k] = turn(k, f[k - 1])
    BY <1>12
  <2> QED
    BY <2>1, <2>3, <2>4 DEF turn
<1>18. \A k \in 1..N : ~IsOk(f[k - 1]) => f[k] = f[k - 1]
  BY <1>12 DEF turn
<1> QED
  BY <1>10, <1>12, <1>16, <1>17, <1>18 DEF IsFold, D, N


\* What every turn keeps holds at the end of a loop that no error ended.
FoldResult(step, start, seq, V, Inv, Bad) ==
  LET r == TryFold(step, start, seq)
  IN  /\ r \in Outcomes(V)
      /\ IsOk(r) => r.value \in V /\ <<Len(seq), r.value>> \in Inv
      /\ ~IsOk(r) => r.error \in Bad

LEMMA FoldKeeps ==
  ASSUME NEW V, NEW X, NEW step \in [V -> [X -> Outcomes(V)]], NEW start \in V, NEW seq \in Seq(X),
         NEW Inv, NEW Bad, <<0, start>> \in Inv,
         \A k \in 1..Len(seq), v \in V : <<k - 1, v>> \in Inv =>
           /\ IsOk(step[v][seq[k]]) => <<k, step[v][seq[k]].value>> \in Inv
           /\ ~IsOk(step[v][seq[k]]) => step[v][seq[k]].error \in Bad
  PROVE  FoldResult(step, start, seq, V, Inv, Bad)
<1> DEFINE N == Len(seq)
<1>1. N \in Nat
  OBVIOUS
<1>2. PICK f : IsFold(f, step, start, seq, V)
  BY FoldRuns
<1>3. /\ f \in [0..N -> Outcomes(V)] /\ f[0] = Ok(start) /\ TryFold(step, start, seq) = f[N]
      /\ \A k \in 1..N : IsOk(f[k - 1]) => f[k - 1].value \in V /\ f[k] = step[f[k - 1].value][seq[k]]
      /\ \A k \in 1..N : ~IsOk(f[k - 1]) => f[k] = f[k - 1]
  BY <1>2 DEF IsFold
<1>4. \A k \in 1..N, v \in V : <<k - 1, v>> \in Inv =>
        /\ IsOk(step[v][seq[k]]) => <<k, step[v][seq[k]].value>> \in Inv
        /\ ~IsOk(step[v][seq[k]]) => step[v][seq[k]].error \in Bad
  OBVIOUS
<1> DEFINE Good(k) == /\ IsOk(f[k]) => <<k, f[k].value>> \in Inv
                      /\ ~IsOk(f[k]) => f[k].error \in Bad
           S == {k \in Nat : k <= N => Good(k)}
<1> HIDE DEF N
<1>5. 0 \in S
  <2>1. IsOk(f[0]) /\ f[0].value = start
    BY <1>3, OutcomeOf
  <2> QED
    BY <2>1
<1>6. ASSUME NEW k \in S PROVE k + 1 \in S
  <2>1. SUFFICES ASSUME k + 1 <= N PROVE Good(k + 1)
    OBVIOUS
  <2>2. k + 1 \in 1..N /\ k <= N /\ (k + 1) - 1 = k
    BY <1>1, <2>1
  <2>3. Good(k)
    BY <2>2
  <2> HIDE DEF S
  <2>4. CASE IsOk(f[k])
    <3>1. f[k].value \in V /\ f[k + 1] = step[f[k].value][seq[k + 1]]
      BY <1>3, <2>2, <2>4
    <3>2. <<(k + 1) - 1, f[k].value>> \in Inv
      BY <2>2, <2>3, <2>4
    <3> DEFINE v == f[k].value
    <3> HIDE DEF v
    <3>3. /\ IsOk(step[v][seq[k + 1]]) => <<k + 1, step[v][seq[k + 1]].value>> \in Inv
          /\ ~IsOk(step[v][seq[k + 1]]) => step[v][seq[k + 1]].error \in Bad
      BY <1>4, <2>2, <3>1, <3>2 DEF v
    <3> QED
      BY <3>1, <3>3 DEF v
  <2>5. CASE ~IsOk(f[k])
    <3>1. f[k + 1] = f[k]
      BY <1>3, <2>2, <2>5
    <3> QED
      BY <2>3, <2>5, <3>1
  <2> QED
    BY <2>4, <2>5
<1>7. S = Nat
  <2> HIDE DEF S
  <2>1. S \in SUBSET Nat
    BY DEF S
  <2> QED
    BY <1>5, <1>6, <2>1, EveryNumber
<1>8. Good(N)
  BY <1>1, <1>7
<1>9. f[N] \in Outcomes(V)
  BY <1>1, <1>3
<1> QED
  BY <1>3, <1>8, <1>9, OutcomeIs DEF FoldResult, N

-----------------------------------------------------------------------------
(* Lists of modules. *)

LEMMA InSet ==
  ASSUME NEW T, NEW s \in Seq(T)
  PROVE  /\ ToSet(s) \subseteq T /\ \A i \in 1..Len(s) : s[i] \in ToSet(s) /\ s[i] \in T
         /\ \A x \in ToSet(s) : \E i \in 1..Len(s) : s[i] = x
BY DEF ToSet

LEMMA OneMore ==
  ASSUME NEW T, NEW s \in Seq(T), NEW x \in T
  PROVE  Append(s, x) \in Seq(T) /\ ToSet(Append(s, x)) = ToSet(s) \cup {x}
<1>1. /\ Append(s, x) \in Seq(T) /\ Len(Append(s, x)) = Len(s) + 1
      /\ \A i \in 1..Len(s) : Append(s, x)[i] = s[i] /\ Append(s, x)[Len(s) + 1] = x
      /\ Append(s, x)[Len(s) + 1] = x
  OBVIOUS
<1>2. DOMAIN Append(s, x) = 1..Len(s) + 1 /\ DOMAIN s = 1..Len(s) /\ Len(s) \in Nat
  BY <1>1
<1>3. \A i : i \in 1..Len(s) + 1 <=> i \in 1..Len(s) \/ i = Len(s) + 1
  BY <1>2
<1> QED
  BY <1>1, <1>2, <1>3 DEF ToSet

LEMMA EmptyList == << >> \in Seq({}) /\ ToSet(<< >>) = {} /\ \A T : << >> \in Seq(T)
BY DEF ToSet

LEMMA ListedIs ==
  ASSUME NEW S
  PROVE  Listed(S) \in Seq(Modules) /\ ToSet(Listed(S)) = S \cap Modules
<1> DEFINE step == [found \in Seq(Modules) |-> [m \in Modules |->
             Ok(IF m \in S THEN Append(found, m) ELSE found)]]
           Inv == {p \in Nat \X Seq(Modules) : ToSet(p[2]) = S \cap {Names[i] : i \in 1..p[1]}}
<1>1. Names \in Seq(Modules)
  BY NamesAssumption DEF Modules
<1>2. ASSUME NEW v \in Seq(Modules), NEW m \in Modules
      PROVE  /\ step[v][m] \in Outcomes(Seq(Modules)) /\ IsOk(step[v][m])
             /\ step[v][m].value = IF m \in S THEN Append(v, m) ELSE v
  <2>1. (IF m \in S THEN Append(v, m) ELSE v) \in Seq(Modules)
    BY OneMore
  <2> QED
    BY <2>1, OutcomeOf
<1>3. step \in [Seq(Modules) -> [Modules -> Outcomes(Seq(Modules))]]
  BY <1>2
<1>a. ASSUME NEW k \in Nat, NEW v \in Seq(Modules), ToSet(v) = S \cap {Names[i] : i \in 1..k}
      PROVE  <<k, v>> \in Inv
  BY <1>a
<1>4. << >> \in Seq(Modules) /\ <<0, << >>>> \in Inv
  <2> HIDE DEF Inv
  <2>1. {Names[i] : i \in 1..0} = {} /\ 0 \in Nat
    OBVIOUS
  <2> QED
    BY <1>a, <2>1, EmptyList
<1>5. ASSUME NEW k \in 1..Len(Names), NEW v \in Seq(Modules), <<k - 1, v>> \in Inv
      PROVE  IsOk(step[v][Names[k]]) /\ <<k, step[v][Names[k]].value>> \in Inv
  <2> DEFINE m == Names[k]
             w == IF m \in S THEN Append(v, m) ELSE v
  <2>1. m \in Modules
    BY <1>1
  <2>2. IsOk(step[v][m]) /\ step[v][m].value = w
    BY <1>2, <2>1
  <2>3. w \in Seq(Modules) /\ ToSet(w) = ToSet(v) \cup (S \cap {m})
    BY <2>1, OneMore
  <2>4. ToSet(v) = S \cap {Names[i] : i \in 1..k - 1}
    BY <1>5
  <2>5. {Names[i] : i \in 1..k} = {Names[i] : i \in 1..k - 1} \cup {m}
    <3>1. k \in Nat /\ \A i : i \in 1..k <=> i \in 1..k - 1 \/ i = k
      BY <1>1
    <3> QED
      BY <3>1
  <2>6. ToSet(w) = S \cap {Names[i] : i \in 1..k}
    BY <2>3, <2>4, <2>5
  <2> HIDE DEF w, Inv
  <2>7. <<k, w>> \in Inv
    BY <1>a, <2>3, <2>6
  <2> QED
    BY <2>2, <2>7
<1> HIDE DEF step, Inv
<1>6. FoldResult(step, << >>, Names, Seq(Modules), Inv, {})
  BY <1>1, <1>3, <1>4, <1>5, FoldKeeps
<1>7. IsOk(TryFold(step, << >>, Names)) /\ Listed(S) = TryFold(step, << >>, Names).value
  BY <1>6 DEF FoldResult, Listed, step
<1>8. Listed(S) \in Seq(Modules) /\ <<Len(Names), Listed(S)>> \in Inv
  BY <1>6, <1>7 DEF FoldResult
<1>9. {Names[i] : i \in 1..Len(Names)} = Modules
  BY <1>1 DEF Modules, ToSet
<1> QED
  BY <1>8, <1>9 DEF Inv


LEMMA BothLists ==
  ASSUME NEW T, NEW s \in Seq(T), NEW t \in Seq(T)
  PROVE  s \o t \in Seq(T) /\ ToSet(s \o t) = ToSet(s) \cup ToSet(t)
<1> DEFINE u == s \o t
<1>1. /\ u \in Seq(T) /\ Len(u) = Len(s) + Len(t) /\ Len(s) \in Nat /\ Len(t) \in Nat
      /\ \A i \in 1..Len(s) : u[i] = s[i]
      /\ \A i \in 1..Len(t) : u[Len(s) + i] = t[i]
  OBVIOUS
<1> HIDE DEF u
<1>2. ASSUME NEW x \in ToSet(u) PROVE x \in ToSet(s) \cup ToSet(t)
  <2>1. PICK i \in 1..Len(u) : u[i] = x
    BY <1>1, InSet
  <2>2. CASE i <= Len(s)
    <3>1. i \in 1..Len(s)
      BY <1>1, <2>2
    <3> QED
      BY <1>1, <2>1, <3>1, InSet
  <2>3. CASE ~(i <= Len(s))
    <3>1. i - Len(s) \in 1..Len(t) /\ Len(s) + (i - Len(s)) = i
      BY <1>1, <2>3
    <3> DEFINE j == i - Len(s)
    <3> HIDE DEF j
    <3>2. j \in 1..Len(t) /\ Len(s) + j = i
      BY <3>1 DEF j
    <3>3. t[j] = x
      BY <1>1, <2>1, <3>2
    <3> QED
      BY <3>2, <3>3, InSet
  <2> QED
    BY <2>2, <2>3
<1>3. ASSUME NEW x \in ToSet(s) PROVE x \in ToSet(u)
  <2>1. PICK i \in 1..Len(s) : s[i] = x
    BY InSet
  <2>2. i \in 1..Len(u) /\ u[i] = x
    BY <1>1, <2>1
  <2> QED
    BY <1>1, <2>2, InSet
<1>4. ASSUME NEW x \in ToSet(t) PROVE x \in ToSet(u)
  <2>1. PICK i \in 1..Len(t) : t[i] = x
    BY InSet
  <2>2. Len(s) + i \in 1..Len(u) /\ u[Len(s) + i] = x
    BY <1>1, <2>1
  <2> QED
    BY <1>1, <2>2, InSet
<1> QED
  BY <1>1, <1>2, <1>3, <1>4 DEF u

IsRegistry(reg) ==
  DOMAIN reg \subseteq Modules /\ \A m \in DOMAIN reg : reg[m].imports \in Seq(Modules)

\* The elements of a list up to an index.
UpTo(seq, k) == {seq[i] : i \in 1..k}

LEMMA UpToNext ==
  ASSUME NEW T, NEW seq \in Seq(T)
  PROVE  /\ UpTo(seq, 0) = {} /\ UpTo(seq, Len(seq)) = ToSet(seq)
         /\ \A k \in 1..Len(seq) : UpTo(seq, k) = UpTo(seq, k - 1) \cup {seq[k]}
<1>1. UpTo(seq, 0) = {} /\ UpTo(seq, Len(seq)) = ToSet(seq)
  BY DEF UpTo, ToSet
<1>2. ASSUME NEW k \in 1..Len(seq) PROVE UpTo(seq, k) = UpTo(seq, k - 1) \cup {seq[k]}
  <2>1. k \in Nat /\ \A i : i \in 1..k <=> i \in 1..k - 1 \/ i = k
    OBVIOUS
  <2> QED
    BY <2>1 DEF UpTo
<1> QED
  BY <1>1, <1>2

LEMMA SourcesAre ==
  ASSUME NEW reg, IsRegistry(reg), NEW m \in DOMAIN reg, ToSet(reg[m].imports) \subseteq DOMAIN reg
  PROVE  /\ IsOk(ImportSources(reg, m)) /\ ImportSources(reg, m).value \in Seq(Modules)
         /\ ToSet(ImportSources(reg, m).value) = ToSet(reg[m].imports) \cup {g \in DOMAIN reg \ {m} : reg[g].global}
<1> DEFINE imports == reg[m].imports
           G == {g \in DOMAIN reg \ {m} : reg[g].global}
           globals == Listed(G)
           seq == imports \o globals
           L == Seq(Modules)
           Once == [s \in Seq(Modules) |-> [x \in Modules |-> Ok(IF x \in ToSet(s) THEN s ELSE Append(s, x))]]
           Inv == {p \in Nat \X L : ToSet(p[2]) = UpTo(seq, p[1])}
<1>2. imports \in L /\ globals \in L /\ ToSet(globals) = G
  <2>1. G \subseteq Modules
    BY DEF IsRegistry
  <2> QED
    BY <2>1, ListedIs DEF IsRegistry
<1> HIDE DEF globals, imports
<1>3. seq \in L /\ ToSet(seq) = ToSet(imports) \cup G
  BY <1>2, BothLists
<1> HIDE DEF seq
<1>4. ASSUME NEW s \in L, NEW x \in Modules
      PROVE  /\ Once[s][x] \in Outcomes(L) /\ IsOk(Once[s][x])
             /\ Once[s][x].value \in L /\ ToSet(Once[s][x].value) = ToSet(s) \cup {x}
  <2> DEFINE w == IF x \in ToSet(s) THEN s ELSE Append(s, x)
  <2>1. w \in L /\ ToSet(w) = ToSet(s) \cup {x}
    BY OneMore
  <2>2. Once[s][x] = Ok(w)
    OBVIOUS
  <2> HIDE DEF w, Once, L
  <2> QED
    BY <2>1, <2>2, OutcomeOf
<1>5. Once \in [L -> [Modules -> Outcomes(L)]]
  BY <1>4
<1>6. \A k \in Nat, v \in L : ToSet(v) = UpTo(seq, k) => <<k, v>> \in Inv
  OBVIOUS
<1>7. \A k, v : <<k, v>> \in Inv => ToSet(v) = UpTo(seq, k)
  OBVIOUS
<1>8. << >> \in L
  BY EmptyList
<1>9. ImportSources(reg, m) = TryFold(Once, << >>, seq)
  BY DEF ImportSources, seq, imports, globals
<1> HIDE DEF Inv, Once, L
<1>10. <<0, << >>>> \in Inv
  BY <1>3, <1>6, <1>8, EmptyList, UpToNext DEF L
<1>11. ASSUME NEW k \in 1..Len(seq), NEW v \in L, <<k - 1, v>> \in Inv
       PROVE  IsOk(Once[v][seq[k]]) /\ <<k, Once[v][seq[k]].value>> \in Inv
  <2>1. seq[k] \in Modules /\ k \in Nat
    BY <1>3, InSet DEF L
  <2>2. UpTo(seq, k) = UpTo(seq, k - 1) \cup {seq[k]}
    BY <1>3, UpToNext DEF L
  <2> QED
    BY <1>4, <1>6, <1>7, <1>11, <2>1, <2>2, ZenonT(40)
<1>12. FoldResult(Once, << >>, seq, L, Inv, {})
  BY <1>3, <1>5, <1>8, <1>10, <1>11, FoldKeeps DEF L
<1>13. IsOk(ImportSources(reg, m)) /\ ImportSources(reg, m).value \in L /\ <<Len(seq), ImportSources(reg, m).value>> \in Inv
  BY <1>9, <1>12 DEF FoldResult
<1>14. ToSet(ImportSources(reg, m).value) = ToSet(seq)
  BY <1>3, <1>7, <1>13, UpToNext DEF L
<1> QED
  BY <1>3, <1>13, <1>14 DEF L, imports

LEMMA SourcesRightLemma ==
  ASSUME NEW reg, IsRegistry(reg)
  PROVE  SourcesRight(reg)
BY SourcesAre DEF SourcesRight


-----------------------------------------------------------------------------
(* The walk of the imports. *)

ImportTurn(reg, V, vis) ==
  [placed \in Seq(DOMAIN reg) |-> [i \in Modules |->
     IF i \notin DOMAIN reg THEN Err("missing")
     ELSE IF i \in vis THEN Err("circular")
     ELSE IF i \in ToSet(placed) THEN Ok(placed)
     ELSE V[<<i, vis, placed>>]]]

VisitStep(reg, V, at) ==
  LET done == TryFold(ImportTurn(reg, V, at[2] \cup {at[1]}), at[3], reg[at[1]].imports)
  IN  IF IsOk(done) THEN Ok(Append(done.value, at[1])) ELSE done

IsWalk(reg, V) == V = [at \in Visits(reg) |-> VisitStep(reg, V, at)]

LEMMA WalkChosen ==
  ASSUME NEW reg
  PROVE  Walk(reg) = CHOOSE V : IsWalk(reg, V)
BY DEF Walk, IsWalk, VisitStep, ImportTurn

LEMMA FewModules ==
  ASSUME NEW S, S \subseteq Modules
  PROVE  IsFiniteSet(S) /\ Cardinality(S) \in Nat
<1>1. Names \in Seq(Modules)
  BY NamesAssumption DEF Modules
<1>2. Modules = {Names[i] : i \in 1..Len(Names)}
  BY <1>1 DEF Modules, ToSet
<1>3. IsFiniteSet(1..Len(Names))
  BY <1>1, FS_Interval
<1>4. IsFiniteSet(Modules)
  <2> DEFINE I == 1..Len(Names)
             f == [i \in I |-> Names[i]]
             T == {Names[i] : i \in I}
  <2>1. f \in Surjection(I, T)
    BY DEF Surjection
  <2> HIDE DEF I, f, T
  <2>2. IsFiniteSet(T)
    BY <1>3, <2>1, FS_Surjection DEF I
  <2> QED
    BY <1>2, <2>2 DEF T, I
<1> QED
  BY <1>4, FS_Subset, FS_CardinalityType

\* One module fewer is left to visit.
LEMMA OneFewer ==
  ASSUME NEW D, D \subseteq Modules, NEW vis \in SUBSET D, NEW m \in D, m \notin vis
  PROVE  Cardinality(D \ (vis \cup {m})) = Cardinality(D \ vis) - 1
<1>1. IsFiniteSet(D \ vis) /\ m \in D \ vis
  BY FewModules
<1>2. D \ (vis \cup {m}) = (D \ vis) \ {m}
  OBVIOUS
<1> QED
  BY <1>1, <1>2, FS_RemoveElement

LEMMA NoMore ==
  ASSUME NEW D, D \subseteq Modules, NEW vis \in SUBSET D
  PROVE  Cardinality(D \ vis) \in 0..Cardinality(D)
<1>1. IsFiniteSet(D) /\ D \ vis \subseteq D
  BY FewModules
<1>2. Cardinality(D \ vis) \in Nat /\ Cardinality(D) \in Nat
  BY FewModules
<1>3. Cardinality(D \ vis) <= Cardinality(D)
  BY <1>1, FS_Subset
<1> QED
  BY <1>2, <1>3

Left(reg) ==
  [at \in Visits(reg) |-> Cardinality(DOMAIN reg \ at[2]) + (IF at[1] \in at[2] THEN 1 ELSE 0)]

LEMMA LeftIs ==
  ASSUME NEW reg, IsRegistry(reg)
  PROVE  /\ Left(reg) \in [Visits(reg) -> 0..Cardinality(DOMAIN reg) + 1] /\ Cardinality(DOMAIN reg) + 1 \in Nat
         /\ \A at \in Visits(reg), i \in DOMAIN reg, placed \in Seq(DOMAIN reg) : i \notin at[2] \cup {at[1]} =>
              /\ <<i, at[2] \cup {at[1]}, placed>> \in Visits(reg)
              /\ Left(reg)[<<i, at[2] \cup {at[1]}, placed>>] < Left(reg)[at]
<1> DEFINE D == DOMAIN reg
<1>1. D \subseteq Modules
  BY DEF IsRegistry
<1>2. Cardinality(D) \in Nat
  BY <1>1, FewModules
<1>3. \A at \in Visits(reg) : at[1] \in D /\ at[2] \in SUBSET D /\ at[3] \in Seq(D) /\ at = <<at[1], at[2], at[3]>>
  BY DEF Visits
<1>4. \A m \in D, vis \in SUBSET D, order \in Seq(D) :
        <<m, vis, order>> \in Visits(reg) /\ <<m, vis, order>>[1] = m /\ <<m, vis, order>>[2] = vis
  BY DEF Visits
<1> HIDE DEF D
<1>5. ASSUME NEW at \in Visits(reg) PROVE Left(reg)[at] \in 0..Cardinality(D) + 1
  <2> DEFINE c == Cardinality(D \ at[2])
  <2>1. c \in 0..Cardinality(D)
    BY <1>1, <1>3, NoMore
  <2>2. Left(reg)[at] = c + (IF at[1] \in at[2] THEN 1 ELSE 0)
    BY DEF Left, D
  <2> HIDE DEF c
  <2> QED
    BY <1>2, <2>1, <2>2
<1>6. ASSUME NEW at \in Visits(reg), NEW i \in D, i \notin at[2] \cup {at[1]}, NEW placed \in Seq(D)
      PROVE  /\ <<i, at[2] \cup {at[1]}, placed>> \in Visits(reg)
             /\ Left(reg)[<<i, at[2] \cup {at[1]}, placed>>] < Left(reg)[at]
  <2> DEFINE vis == at[2]
             m == at[1]
             next == <<i, vis \cup {m}, placed>>
             c == Cardinality(D \ vis)
             d == Cardinality(D \ (vis \cup {m}))
  <2>1. m \in D /\ vis \in SUBSET D
    BY <1>3
  <2>2. next \in Visits(reg) /\ next[1] = i /\ next[2] = vis \cup {m}
    BY <1>4, <2>1
  <2>3. c \in Nat /\ d \in Nat
    BY <1>1, FewModules
  <2>4. m \notin vis => d = c - 1
    BY <1>1, <2>1, OneFewer
  <2>5. m \in vis => d = c
    <3>1. SUFFICES ASSUME m \in vis PROVE d = c
      OBVIOUS
    <3>2. vis \cup {m} = vis
      BY <3>1
    <3> QED
      BY <3>2
  <2>6. Left(reg)[at] = c + (IF m \in vis THEN 1 ELSE 0)
    BY DEF Left, D
  <2> HIDE DEF next, c, d
  <2>7. Left(reg)[next] = d
    <3>1. Left(reg)[next] = Cardinality(D \ next[2]) + (IF next[1] \in next[2] THEN 1 ELSE 0)
      BY <2>2 DEF Left, D
    <3>2. next[1] \notin next[2] /\ Cardinality(D \ next[2]) = d
      BY <1>6, <2>2 DEF d
    <3> QED
      BY <2>3, <3>1, <3>2
  <2>8. Left(reg)[next] < Left(reg)[at]
    BY <2>3, <2>4, <2>5, <2>6, <2>7
  <2> QED
    BY <2>2, <2>8 DEF next
<1>7. Left(reg) \in [Visits(reg) -> 0..Cardinality(D) + 1]
  BY <1>5 DEF Left
<1> QED
  BY <1>2, <1>6, <1>7 DEF D


Orders(reg) == Outcomes(Seq(DOMAIN reg))

LEMMA VisitIs ==
  ASSUME NEW reg, NEW at \in Visits(reg)
  PROVE  /\ at[1] \in DOMAIN reg /\ at[2] \cup {at[1]} \in SUBSET DOMAIN reg /\ at[3] \in Seq(DOMAIN reg)
         /\ at[2] \in SUBSET DOMAIN reg
BY DEF Visits

LEMMA VisitOf ==
  ASSUME NEW reg, NEW m \in DOMAIN reg, NEW vis \in SUBSET DOMAIN reg, NEW order \in Seq(DOMAIN reg)
  PROVE  /\ <<m, vis, order>> \in Visits(reg)
         /\ <<m, vis, order>>[1] = m /\ <<m, vis, order>>[2] = vis /\ <<m, vis, order>>[3] = order
BY DEF Visits

LEMMA TurnIs ==
  ASSUME NEW reg, NEW V \in [Visits(reg) -> Orders(reg)], NEW vis \in SUBSET DOMAIN reg
  PROVE  ImportTurn(reg, V, vis) \in [Seq(DOMAIN reg) -> [Modules -> Orders(reg)]]
<1> DEFINE D == DOMAIN reg
           turn(placed, i) == IF i \notin D THEN Err("missing")
                              ELSE IF i \in vis THEN Err("circular")
                              ELSE IF i \in ToSet(placed) THEN Ok(placed)
                              ELSE V[<<i, vis, placed>>]
<1>1. ASSUME NEW placed \in Seq(D), NEW i \in Modules PROVE turn(placed, i) \in Orders(reg)
  <2>1. Err("missing") \in Orders(reg) /\ Err("circular") \in Orders(reg) /\ Ok(placed) \in Orders(reg)
    BY OutcomeOf DEF Orders
  <2>2. i \in D => V[<<i, vis, placed>>] \in Orders(reg)
    BY VisitOf
  <2> QED
    BY <2>1, <2>2
<1>2. ImportTurn(reg, V, vis) = [placed \in Seq(D) |-> [i \in Modules |-> turn(placed, i)]]
  BY DEF ImportTurn
<1> HIDE DEF turn
<1>3. [placed \in Seq(D) |-> [i \in Modules |-> turn(placed, i)]] \in [Seq(D) -> [Modules -> Orders(reg)]]
  BY <1>1
<1> QED
  BY <1>2, <1>3

\* The loop over the imports of a module, as it is in every activation.
LEMMA VisitLoops ==
  ASSUME NEW reg, IsRegistry(reg), NEW V \in [Visits(reg) -> Orders(reg)], NEW at \in Visits(reg)
  PROVE  /\ ImportTurn(reg, V, at[2] \cup {at[1]}) \in [Seq(DOMAIN reg) -> [Modules -> Outcomes(Seq(DOMAIN reg))]]
         /\ at[3] \in Seq(DOMAIN reg) /\ reg[at[1]].imports \in Seq(Modules)
         /\ TryFold(ImportTurn(reg, V, at[2] \cup {at[1]}), at[3], reg[at[1]].imports) \in Orders(reg)
<1> DEFINE step == ImportTurn(reg, V, at[2] \cup {at[1]})
           seq == reg[at[1]].imports
           L == Seq(DOMAIN reg)
<1>1. step \in [L -> [Modules -> Outcomes(L)]] /\ at[3] \in L /\ seq \in Seq(Modules)
  BY VisitIs, TurnIs DEF IsRegistry, Orders
<1> HIDE DEF step, seq, L
<1>2. PICK f : IsFold(f, step, at[3], seq, L)
  BY <1>1, FoldRuns
<1>3. TryFold(step, at[3], seq) = f[Len(seq)] /\ f \in [0..Len(seq) -> Outcomes(L)] /\ Len(seq) \in 0..Len(seq)
  <2>1. Len(seq) \in Nat
    BY <1>1
  <2> QED
    BY <1>2, <2>1 DEF IsFold
<1>4. TryFold(step, at[3], seq) \in Outcomes(L)
  BY <1>3
<1> QED
  BY <1>1, <1>4 DEF step, seq, L, Orders

LEMMA StepIs ==
  ASSUME NEW reg, IsRegistry(reg), NEW V \in [Visits(reg) -> Orders(reg)], NEW at \in Visits(reg)
  PROVE  VisitStep(reg, V, at) \in Orders(reg)
<1> DEFINE done == TryFold(ImportTurn(reg, V, at[2] \cup {at[1]}), at[3], reg[at[1]].imports)
           L == Seq(DOMAIN reg)
<1>1. done \in Orders(reg)
  BY VisitLoops
<1>2. at[1] \in DOMAIN reg
  BY VisitIs
<1> HIDE DEF done
<1>3. IsOk(done) => Append(done.value, at[1]) \in L
  BY <1>1, <1>2, OutcomeIs, OneMore DEF Orders
<1>4. IsOk(done) => Ok(Append(done.value, at[1])) \in Orders(reg)
  BY <1>3, OutcomeOf DEF Orders
<1> QED
  BY <1>1, <1>4 DEF VisitStep, done

LEMMA StepSame ==
  ASSUME NEW reg, IsRegistry(reg), NEW g, NEW h, NEW at \in Visits(reg),
         \A b \in Visits(reg) : Left(reg)[b] < Left(reg)[at] => g[b] = h[b]
  PROVE  VisitStep(reg, g, at) = VisitStep(reg, h, at)
<1> DEFINE D == DOMAIN reg
           vis == at[2] \cup {at[1]}
           turn(V, placed, i) == IF i \notin D THEN Err("missing")
                                 ELSE IF i \in vis THEN Err("circular")
                                 ELSE IF i \in ToSet(placed) THEN Ok(placed)
                                 ELSE V[<<i, vis, placed>>]
<1>1. ASSUME NEW placed \in Seq(D), NEW i \in Modules PROVE turn(g, placed, i) = turn(h, placed, i)
  <2>1. SUFFICES ASSUME i \in D, i \notin vis PROVE g[<<i, vis, placed>>] = h[<<i, vis, placed>>]
    OBVIOUS
  <2>2. <<i, vis, placed>> \in Visits(reg) /\ Left(reg)[<<i, vis, placed>>] < Left(reg)[at]
    BY <2>1, LeftIs
  <2> QED
    BY <2>2
<1>2. \A V : ImportTurn(reg, V, vis) = [placed \in Seq(D) |-> [i \in Modules |-> turn(V, placed, i)]]
  BY DEF ImportTurn
<1> HIDE DEF turn, D, vis
<1>3. [placed \in Seq(D) |-> [i \in Modules |-> turn(g, placed, i)]]
      = [placed \in Seq(D) |-> [i \in Modules |-> turn(h, placed, i)]]
  BY <1>1
<1>4. ImportTurn(reg, g, vis) = ImportTurn(reg, h, vis)
  BY <1>2, <1>3
<1> QED
  BY <1>4 DEF VisitStep, vis

LEMMA WalkExists ==
  ASSUME NEW reg, IsRegistry(reg)
  PROVE  /\ Walk(reg) \in [Visits(reg) -> Orders(reg)]
         /\ \A at \in Visits(reg) : Walk(reg)[at] = VisitStep(reg, Walk(reg), at)
<1> DEFINE Args == Visits(reg)
           Out == Orders(reg)
           mu == Left(reg)
           M == Cardinality(DOMAIN reg) + 1
           Body == [V \in [Args -> Out] |-> [at \in Args |-> VisitStep(reg, V, at)]]
<1>1. Body \in [[Args -> Out] -> [Args -> Out]]
  BY StepIs
<1>2. M \in Nat /\ mu \in [Args -> 0..M]
  BY LeftIs
<1>3. Out # {}
  BY OutcomeOf DEF Orders
<1>4. Causal(Args, Out, Body, mu)
  <2>1. SUFFICES ASSUME NEW g \in [Args -> Out], NEW h \in [Args -> Out], NEW a \in Args,
                        \A b \in Args : mu[b] < mu[a] => g[b] = h[b]
                 PROVE  Body[g][a] = Body[h][a]
    BY DEF Causal
  <2>2. VisitStep(reg, g, a) = VisitStep(reg, h, a)
    BY <2>1, StepSame
  <2> QED
    BY <2>2
<1>5. \A V \in [Args -> Out] : Body[V] = [at \in Args |-> VisitStep(reg, V, at)]
  OBVIOUS
<1> HIDE DEF Args, Out, Body, mu, M
<1>6. HasSolution(Args, Out, Body)
  BY <1>1, <1>2, <1>3, <1>4, RecursionExists
<1>7. PICK V \in [Args -> Out] : V = Body[V]
  BY <1>6 DEF HasSolution
<1>8. IsWalk(reg, V)
  BY <1>5, <1>7 DEF IsWalk, Args
<1>9. IsWalk(reg, Walk(reg))
  BY <1>8, WalkChosen
<1> DEFINE W == Walk(reg)
           S == {at \in Args : W[at] = V[at]}
<1>10. W = [at \in Args |-> VisitStep(reg, W, at)] /\ V = [at \in Args |-> VisitStep(reg, V, at)]
  BY <1>8, <1>9 DEF IsWalk, Args
<1> HIDE DEF W
<1>11. ASSUME NEW a \in Args, \A b \in Args : mu[b] < mu[a] => b \in S PROVE a \in S
  <2>1. \A b \in Args : mu[b] < mu[a] => W[b] = V[b]
    BY <1>11
  <2>2. VisitStep(reg, W, a) = VisitStep(reg, V, a)
    BY <2>1, StepSame DEF Args, mu
  <2>3. W[a] = VisitStep(reg, W, a) /\ V[a] = VisitStep(reg, V, a)
    BY <1>10
  <2> QED
    BY <2>2, <2>3
<1>12. S = Args
  <2> HIDE DEF S
  <2>1. S \in SUBSET Args
    BY DEF S
  <2>2. mu \in [Args -> Nat]
    BY <1>2
  <2> QED
    BY <1>11, <2>1, <2>2, EveryArgument
<1>13. \A at \in Args : W[at] = V[at]
  BY <1>12
<1>14. W = V
  BY <1>10, <1>13
<1>15. W \in [Args -> Out]
  BY <1>7, <1>14
<1> QED
  BY <1>10, <1>15 DEF W, Args, Out


-----------------------------------------------------------------------------
(* The activation order. *)

ImportsOf(reg, m) == ToSet(reg[m].imports)

SomeMissing(reg) == \E m \in DOMAIN reg : ImportsOf(reg, m) \ DOMAIN reg # {}

SomeCycle(reg) ==
  \E S \in SUBSET DOMAIN reg : S # {} /\ \A m \in S : ImportsOf(reg, m) \cap S # {}

\* Every module after its imports, none twice.
Arranged(reg, order) ==
  /\ order \in Seq(DOMAIN reg)
  /\ \A j, k \in 1..Len(order) : order[j] = order[k] => j = k
  /\ \A j \in 1..Len(order) : \A i \in ImportsOf(reg, order[j]) : \E k \in 1..Len(order) : order[k] = i /\ k < j

\* The errors that say something true.
TrueErrors(reg) ==
  {e \in {"missing", "circular"} : (e = "missing" => SomeMissing(reg)) /\ (e = "circular" => SomeCycle(reg))}

LEMMA ArrangedMore ==
  ASSUME NEW reg, NEW order, Arranged(reg, order), NEW m \in DOMAIN reg, m \notin ToSet(order),
         ImportsOf(reg, m) \subseteq ToSet(order)
  PROVE  Arranged(reg, Append(order, m))
<1> DEFINE D == DOMAIN reg
           next == Append(order, m)
           N == Len(order)
<1>1. order \in Seq(D) /\ N \in Nat
  BY DEF Arranged
<1>2. next \in Seq(D) /\ Len(next) = N + 1 /\ next[N + 1] = m /\ \A i \in 1..N : next[i] = order[i]
  BY <1>1
<1>3. \A i \in 1..N + 1 : i \in 1..N \/ i = N + 1
  BY <1>1
<1>4. \A i \in 1..N : order[i] # m /\ i \in 1..N + 1 /\ i < N + 1
  BY <1>1, InSet
<1>5. \A j, k \in 1..N : order[j] = order[k] => j = k
  BY DEF Arranged
<1>6. \A j \in 1..N : \A i \in ImportsOf(reg, order[j]) : \E k \in 1..N : order[k] = i /\ k < j
  BY DEF Arranged
<1> HIDE DEF next, N
<1>7. \A j, k \in 1..N + 1 : next[j] = next[k] => j = k
  BY <1>2, <1>3, <1>4, <1>5
<1>8. ASSUME NEW j \in 1..N + 1, NEW i \in ImportsOf(reg, next[j])
      PROVE  \E k \in 1..N + 1 : next[k] = i /\ k < j
  <2>1. CASE j \in 1..N
    BY <1>2, <1>4, <1>6, <1>8, <2>1
  <2>2. CASE j = N + 1
    <3>1. i \in ToSet(order)
      BY <1>2, <1>8, <2>2
    <3>2. PICK k \in 1..N : order[k] = i
      BY <1>1, <3>1, InSet DEF N
    <3> QED
      BY <1>2, <1>4, <2>2, <3>2
  <2> QED
    BY <1>3, <2>1, <2>2
<1> QED
  BY <1>2, <1>7, <1>8 DEF Arranged, next

\* What holds where an activation begins.
Waiting(reg, at) ==
  /\ at[1] \notin at[2] /\ Arranged(reg, at[3]) /\ ToSet(at[3]) \cap (at[2] \cup {at[1]}) = {}
  /\ \A x \in at[2] : ImportsOf(reg, x) \cap (at[2] \cup {at[1]}) # {}

\* What it returns.
Returned(reg, at, r) ==
  /\ IsOk(r) => /\ Arranged(reg, r.value) /\ ToSet(at[3]) \cup {at[1]} \subseteq ToSet(r.value)
                /\ ToSet(r.value) \cap at[2] = {}
  /\ ~IsOk(r) => r.error \in TrueErrors(reg)

LEMMA TrueErrorsAre ==
  ASSUME NEW reg
  PROVE  /\ SomeMissing(reg) => ~IsOk(Err("missing")) /\ Err("missing").error \in TrueErrors(reg)
         /\ SomeCycle(reg) => ~IsOk(Err("circular")) /\ Err("circular").error \in TrueErrors(reg)
BY DEF TrueErrors, Err, IsOk

\* A turn of the loop over the imports.
Turned(reg, at, placed, i, r) ==
  /\ IsOk(r) => /\ Arranged(reg, r.value) /\ ToSet(placed) \cup {i} \subseteq ToSet(r.value)
                /\ ToSet(r.value) \cap (at[2] \cup {at[1]}) = {}
  /\ ~IsOk(r) => r.error \in TrueErrors(reg)

LEMMA ImportTurns ==
  ASSUME NEW reg, IsRegistry(reg), NEW at \in Visits(reg), Waiting(reg, at),
         NEW V, \A b \in Visits(reg) : Left(reg)[b] < Left(reg)[at] => (Waiting(reg, b) => Returned(reg, b, V[b])),
         NEW placed, Arranged(reg, placed), ToSet(placed) \cap (at[2] \cup {at[1]}) = {},
         NEW i \in ImportsOf(reg, at[1]), i \in Modules
  PROVE  Turned(reg, at, placed, i, ImportTurn(reg, V, at[2] \cup {at[1]})[placed][i])
<1> DEFINE r == ImportTurn(reg, V, at[2] \cup {at[1]})[placed][i]
           vis == at[2] \cup {at[1]}
           b == <<i, vis, placed>>
           D == DOMAIN reg
<1>1. placed \in Seq(D) /\ vis \in SUBSET D /\ at[1] \in D
  BY VisitIs DEF Arranged
<1>2. r = IF i \notin D THEN Err("missing")
          ELSE IF i \in vis THEN Err("circular")
          ELSE IF i \in ToSet(placed) THEN Ok(placed)
          ELSE V[b]
  BY <1>1 DEF ImportTurn
<1> SUFFICES Turned(reg, at, placed, i, r)
  OBVIOUS
<1> HIDE DEF r
<1> USE DEF Turned
<1>3. CASE i \notin D
  <2>1. SomeMissing(reg)
    BY <1>1, <1>3 DEF SomeMissing
  <2> QED
    BY <1>2, <1>3, <2>1, TrueErrorsAre
<1>4. CASE i \in D /\ i \in vis
  <2>1. \A x \in vis : ImportsOf(reg, x) \cap vis # {}
    BY <1>4 DEF Waiting
  <2>2. SomeCycle(reg)
    BY <1>1, <1>4, <2>1 DEF SomeCycle
  <2> QED
    BY <1>2, <1>4, <2>2, TrueErrorsAre
<1>5. CASE i \in D /\ i \notin vis /\ i \in ToSet(placed)
  <2>1. IsOk(r) /\ r.value = placed
    BY <1>2, <1>5 DEF Ok, IsOk
  <2> QED
    BY <1>5, <2>1
<1>6. CASE i \in D /\ i \notin vis /\ i \notin ToSet(placed)
  <2>1. b \in Visits(reg) /\ b[1] = i /\ b[2] = vis /\ b[3] = placed
    BY <1>1, <1>6, VisitOf
  <2>2. Left(reg)[b] < Left(reg)[at]
    BY <1>1, <1>6, LeftIs
  <2>3. \A x \in vis : ImportsOf(reg, x) \cap (vis \cup {i}) # {}
    BY DEF Waiting
  <2> HIDE DEF b, vis
  <2>4. Waiting(reg, b)
    BY <1>6, <2>1, <2>3 DEF Waiting, vis
  <2>5. Returned(reg, b, V[b]) /\ r = V[b]
    BY <1>2, <1>6, <2>1, <2>2, <2>4
  <2> QED
    BY <2>1, <2>5 DEF Returned, vis
<1> QED
  BY <1>3, <1>4, <1>5, <1>6

LEMMA VisitSound ==
  ASSUME NEW reg, IsRegistry(reg), NEW V \in [Visits(reg) -> Orders(reg)],
         NEW at \in Visits(reg), Waiting(reg, at),
         \A b \in Visits(reg) : Left(reg)[b] < Left(reg)[at] => (Waiting(reg, b) => Returned(reg, b, V[b]))
  PROVE  Returned(reg, at, VisitStep(reg, V, at))
<1> DEFINE m == at[1]
           vis == at[2] \cup {m}
           L == Seq(DOMAIN reg)
           seq == reg[m].imports
           step == ImportTurn(reg, V, vis)
           Keeps(k, v) == /\ Arranged(reg, v) /\ ToSet(v) \cap vis = {}
                          /\ ToSet(at[3]) \cup UpTo(seq, k) \subseteq ToSet(v)
           Inv == {p \in Nat \X L : Keeps(p[1], p[2])}
           Bad == TrueErrors(reg)
           done == TryFold(step, at[3], seq)
<1>1. step \in [L -> [Modules -> Outcomes(L)]] /\ at[3] \in L /\ seq \in Seq(Modules)
  BY VisitLoops
<1>2. m \in DOMAIN reg /\ ImportsOf(reg, m) = ToSet(seq)
  BY VisitIs DEF ImportsOf
<1>3. \A k \in Nat, v \in L : Keeps(k, v) => <<k, v>> \in Inv
  OBVIOUS
<1>4. \A k, v : <<k, v>> \in Inv => k \in Nat /\ v \in L /\ Keeps(k, v)
  OBVIOUS
<1> HIDE DEF Inv, L, seq
<1>5. <<0, at[3]>> \in Inv
  <2>1. Keeps(0, at[3])
    BY <1>1, UpToNext DEF Waiting
  <2> QED
    BY <1>1, <1>3, <2>1
<1>6. ASSUME NEW k \in 1..Len(seq), NEW v \in L, <<k - 1, v>> \in Inv
      PROVE  /\ IsOk(step[v][seq[k]]) => <<k, step[v][seq[k]].value>> \in Inv
             /\ ~IsOk(step[v][seq[k]]) => step[v][seq[k]].error \in Bad
  <2> DEFINE r == step[v][seq[k]]
             i == seq[k]
  <2>1. Keeps(k - 1, v) /\ k \in Nat
    BY <1>1, <1>4, <1>6
  <2>2. i \in Modules /\ i \in ImportsOf(reg, m) /\ UpTo(seq, k) = UpTo(seq, k - 1) \cup {i}
    BY <1>1, <1>2, InSet, UpToNext
  <2> HIDE DEF i
  <2>3. /\ IsOk(r) => /\ Arranged(reg, r.value) /\ ToSet(v) \cup {i} \subseteq ToSet(r.value)
                      /\ ToSet(r.value) \cap vis = {}
        /\ ~IsOk(r) => r.error \in Bad
    <3>1. Turned(reg, at, v, i, ImportTurn(reg, V, at[2] \cup {at[1]})[v][i])
      BY <2>1, <2>2, ImportTurns
    <3> QED
      BY <3>1 DEF Turned, i
  <2>4. IsOk(r) => Keeps(k, r.value) /\ r.value \in L
    BY <2>1, <2>2, <2>3 DEF Arranged, L
  <2> HIDE DEF r, Keeps
  <2>5. IsOk(r) => <<k, r.value>> \in Inv
    BY <1>3, <2>1, <2>4
  <2> QED
    BY <2>3, <2>5 DEF r
<1> HIDE DEF step, Bad
<1>7. FoldResult(step, at[3], seq, L, Inv, Bad)
  BY <1>1, <1>5, <1>6, FoldKeeps
<1>8. /\ IsOk(done) => done.value \in L /\ <<Len(seq), done.value>> \in Inv
      /\ ~IsOk(done) => done.error \in Bad
  BY <1>7 DEF FoldResult
<1>9. VisitStep(reg, V, at) = IF IsOk(done) THEN Ok(Append(done.value, m)) ELSE done
  BY DEF VisitStep, step, seq
<1> HIDE DEF done
<1>10. CASE ~IsOk(done)
  BY <1>8, <1>9, <1>10 DEF Returned, Bad
<1>11. CASE IsOk(done)
  <2> DEFINE v == done.value
             w == Append(v, m)
  <2>1. v \in L /\ Keeps(Len(seq), v)
    BY <1>4, <1>8, <1>11
  <2>2. ImportsOf(reg, m) \subseteq ToSet(v) /\ m \notin ToSet(v)
    BY <1>1, <1>2, <2>1, UpToNext
  <2>3. ToSet(w) = ToSet(v) \cup {m} /\ w \in L
    BY <1>2, <2>1, OneMore DEF L
  <2> HIDE DEF v
  <2>4. Arranged(reg, w)
    BY <1>2, <2>1, <2>2, ArrangedMore
  <2>5. IsOk(Ok(w)) /\ Ok(w).value = w
    BY <2>3, OutcomeOf
  <2>6. VisitStep(reg, V, at) = Ok(w)
    BY <1>9, <1>11 DEF v
  <2>7. ToSet(w) \cap at[2] = {} /\ ToSet(at[3]) \cup {m} \subseteq ToSet(w)
    BY <2>1, <2>3 DEF Waiting
  <2> HIDE DEF w
  <2> QED
    BY <2>4, <2>5, <2>6, <2>7 DEF Returned
<1> QED
  BY <1>10, <1>11


LEMMA WalkReturns ==
  ASSUME NEW reg, IsRegistry(reg)
  PROVE  \A at \in Visits(reg) : Waiting(reg, at) => Returned(reg, at, Walk(reg)[at])
<1> DEFINE W == Walk(reg)
           Args == Visits(reg)
           mu == Left(reg)
           S == {at \in Args : Waiting(reg, at) => Returned(reg, at, W[at])}
<1>1. W \in [Args -> Orders(reg)] /\ \A at \in Args : W[at] = VisitStep(reg, W, at)
  BY WalkExists
<1>2. mu \in [Args -> Nat]
  BY LeftIs
<1> HIDE DEF W, Args, mu
<1>3. ASSUME NEW a \in Args, \A b \in Args : mu[b] < mu[a] => b \in S PROVE a \in S
  <2>1. SUFFICES ASSUME Waiting(reg, a) PROVE Returned(reg, a, W[a])
    OBVIOUS
  <2>2. \A b \in Args : mu[b] < mu[a] => (Waiting(reg, b) => Returned(reg, b, W[b]))
    BY <1>3
  <2>3. Returned(reg, a, VisitStep(reg, W, a))
    BY <1>1, <2>1, <2>2, VisitSound DEF Args, mu
  <2> QED
    BY <1>1, <2>3
<1>4. S = Args
  <2> HIDE DEF S
  <2>1. S \in SUBSET Args
    BY DEF S
  <2> QED
    BY <1>2, <1>3, <2>1, EveryArgument
<1> QED
  BY <1>4 DEF W, Args

\* The order is complete and sound, or there is none for a true reason.
Resolved(reg, r) ==
  /\ r \in Orders(reg)
  /\ IsOk(r) => Arranged(reg, r.value) /\ DOMAIN reg \subseteq ToSet(r.value)
  /\ ~IsOk(r) => r.error \in TrueErrors(reg)

LEMMA OrderResolved ==
  ASSUME NEW reg, IsRegistry(reg)
  PROVE  Resolved(reg, ResolveOrder(reg))
<1> DEFINE D == DOMAIN reg
           L == Seq(D)
           root(order, m) == IF m \in ToSet(order) THEN Ok(order) ELSE Walk(reg)[<<m, {}, order>>]
           Root == [order \in L |-> [m \in D |-> root(order, m)]]
           seq == Registered(reg)
           Keeps(k, v) == Arranged(reg, v) /\ UpTo(seq, k) \subseteq ToSet(v)
           Inv == {p \in Nat \X L : Keeps(p[1], p[2])}
           Bad == TrueErrors(reg)
<1>1. seq \in Seq(D) /\ ToSet(seq) = D
  <2>1. D \subseteq Modules
    BY DEF IsRegistry
  <2>2. seq \in Seq(Modules) /\ ToSet(seq) = D
    BY <2>1, ListedIs DEF Registered
  <2>3. \A k \in 1..Len(seq) : seq[k] \in D
    BY <2>2, InSet
  <2>4. seq \in [1..Len(seq) -> D] /\ Len(seq) \in Nat
    BY <2>2, <2>3
  <2> QED
    BY <2>2, <2>4
<1>2. ResolveOrder(reg) = TryFold(Root, << >>, seq)
  BY DEF ResolveOrder
<1> HIDE DEF seq
<1>3. \A k \in Nat, v \in L : Keeps(k, v) => <<k, v>> \in Inv
  OBVIOUS
<1>4. \A k, v : <<k, v>> \in Inv => k \in Nat /\ v \in L /\ Keeps(k, v)
  OBVIOUS
<1> HIDE DEF Inv
<1>5. << >> \in L /\ <<0, << >>>> \in Inv
  <2>1. << >> \in L /\ ToSet(<< >>) = {}
    BY EmptyList
  <2>2. Arranged(reg, << >>)
    BY <2>1 DEF Arranged
  <2>3. UpTo(seq, 0) = {}
    BY DEF UpTo
  <2> QED
    BY <1>3, <2>1, <2>2, <2>3
<1>6. ASSUME NEW order \in L, NEW m \in D
      PROVE  /\ root(order, m) \in Orders(reg)
             /\ Arranged(reg, order) /\ IsOk(root(order, m)) =>
                  Arranged(reg, root(order, m).value) /\ ToSet(order) \cup {m} \subseteq ToSet(root(order, m).value)
             /\ Arranged(reg, order) /\ ~IsOk(root(order, m)) => root(order, m).error \in Bad
  <2>1. CASE m \in ToSet(order)
    <3>1. root(order, m) = Ok(order)
      BY <2>1
    <3>2. Ok(order) \in Orders(reg) /\ IsOk(Ok(order)) /\ Ok(order).value = order
      BY OutcomeOf DEF Orders
    <3> QED
      BY <2>1, <3>1, <3>2
  <2>2. CASE m \notin ToSet(order)
    <3> DEFINE at == <<m, {}, order>>
    <3>1. at \in Visits(reg) /\ at[1] = m /\ at[2] = {} /\ at[3] = order
      BY VisitOf
    <3> HIDE DEF at
    <3>2. root(order, m) = Walk(reg)[at]
      BY <2>2 DEF at
    <3>3. Walk(reg)[at] \in Orders(reg)
      BY <3>1, WalkExists
    <3>4. Arranged(reg, order) => Waiting(reg, at)
      BY <2>2, <3>1 DEF Waiting
    <3>5. Arranged(reg, order) => Returned(reg, at, root(order, m))
      BY <3>1, <3>2, <3>4, WalkReturns
    <3> HIDE DEF root
    <3> QED
      BY <3>1, <3>2, <3>3, <3>5 DEF Returned
  <2> QED
    BY <2>1, <2>2
<1> HIDE DEF root
<1>7. Root \in [L -> [D -> Outcomes(L)]] /\ \A order \in L, m \in D : Root[order][m] = root(order, m)
  BY <1>6 DEF Orders
<1>8. ASSUME NEW k \in 1..Len(seq), NEW v \in L, <<k - 1, v>> \in Inv
      PROVE  /\ IsOk(Root[v][seq[k]]) => <<k, Root[v][seq[k]].value>> \in Inv
             /\ ~IsOk(Root[v][seq[k]]) => Root[v][seq[k]].error \in Bad
  <2> DEFINE m == seq[k]
             r == root(v, m)
  <2>1. Keeps(k - 1, v) /\ k \in Nat
    BY <1>1, <1>4, <1>8
  <2>2. m \in D /\ UpTo(seq, k) = UpTo(seq, k - 1) \cup {m}
    BY <1>1, InSet, UpToNext
  <2> HIDE DEF m, Root
  <2>3. Root[v][m] = r
    BY <1>7, <2>2
  <2> HIDE DEF r
  <2>4. /\ IsOk(r) => Arranged(reg, r.value) /\ ToSet(v) \cup {m} \subseteq ToSet(r.value)
        /\ ~IsOk(r) => r.error \in Bad
    BY <1>6, <2>1, <2>2 DEF r
  <2>5. IsOk(r) => Keeps(k, r.value) /\ r.value \in L
    BY <2>1, <2>2, <2>4 DEF Arranged
  <2> HIDE DEF Keeps
  <2>6. IsOk(r) => <<k, r.value>> \in Inv
    BY <1>3, <2>1, <2>5
  <2> QED
    BY <2>3, <2>4, <2>6 DEF m
<1> HIDE DEF Root, L, Bad
<1>9. FoldResult(Root, << >>, seq, L, Inv, Bad)
  BY <1>1, <1>5, <1>7, <1>8, FoldKeeps
<1> DEFINE r == ResolveOrder(reg)
<1> HIDE DEF r
<1>10. r \in Outcomes(L) /\ (IsOk(r) => <<Len(seq), r.value>> \in Inv) /\ (~IsOk(r) => r.error \in Bad)
  BY <1>2, <1>9 DEF FoldResult, r
<1>11. IsOk(r) => Keeps(Len(seq), r.value)
  BY <1>4, <1>10
<1>12. UpTo(seq, Len(seq)) = D
  BY <1>1, UpToNext
<1> QED
  BY <1>10, <1>11, <1>12 DEF Resolved, r, L, Bad, Orders

\* An order leaves nothing out and cannot exist beside a cycle.
LEMMA OrderRefutes ==
  ASSUME NEW reg, NEW order, Arranged(reg, order), DOMAIN reg \subseteq ToSet(order)
  PROVE  ~SomeMissing(reg) /\ ~SomeCycle(reg)
<1>1. order \in Seq(DOMAIN reg)
  BY DEF Arranged
<1>2. \A m \in DOMAIN reg : \E j \in 1..Len(order) : order[j] = m
  BY <1>1, InSet
<1>3. \A j \in 1..Len(order) : \A i \in ImportsOf(reg, order[j]) : \E k \in 1..Len(order) : order[k] = i /\ k < j
  BY DEF Arranged
<1>4. ~SomeMissing(reg)
  <2>1. SUFFICES ASSUME NEW m \in DOMAIN reg, NEW i \in ImportsOf(reg, m) PROVE i \in DOMAIN reg
    BY DEF SomeMissing
  <2>2. PICK k \in 1..Len(order) : order[k] = i
    BY <1>2, <1>3, <2>1
  <2> QED
    BY <1>1, <2>2
<1>5. ~SomeCycle(reg)
  <2>1. SUFFICES ASSUME NEW S \in SUBSET DOMAIN reg, S # {}, \A m \in S : ImportsOf(reg, m) \cap S # {}
                 PROVE  FALSE
    BY DEF SomeCycle
  <2> DEFINE P == {j \in 1..Len(order) : order[j] \in S}
  <2>2. P \in SUBSET Nat /\ P # {}
    <3>1. PICK m \in S : m \in DOMAIN reg
      BY <2>1
    <3>2. PICK j \in 1..Len(order) : order[j] = m
      BY <1>2, <3>1
    <3>3. j \in P
      BY <3>2
    <3> QED
      BY <3>3
  <2>3. PICK j \in P : \A k \in P : j <= k
    <3> HIDE DEF P
    <3> QED
      BY <2>2, LeastNumber
  <2>4. PICK i : i \in ImportsOf(reg, order[j]) /\ i \in S
    BY <2>1, <2>3
  <2>5. PICK k \in 1..Len(order) : order[k] = i /\ k < j
    BY <1>3, <2>3, <2>4
  <2>6. k \in P /\ j \in Nat /\ k \in Nat
    BY <1>1, <2>3, <2>4, <2>5
  <2>7. j <= k
    BY <2>3, <2>6
  <2> QED
    BY <2>5, <2>6, <2>7
<1> QED
  BY <1>4, <1>5

LEMMA OrderRightLemma ==
  ASSUME NEW reg, IsRegistry(reg)
  PROVE  OrderRight(reg)
<1> DEFINE r == ResolveOrder(reg)
<1>1. Resolved(reg, r)
  BY OrderResolved
<1> HIDE DEF r
<1>2. SUFFICES ASSUME IsOk(r)
               PROVE  /\ r.value \in Seq(DOMAIN reg) /\ DOMAIN reg \subseteq ToSet(r.value)
                      /\ \A j, k \in DOMAIN r.value : r.value[j] = r.value[k] => j = k
                      /\ \A j \in DOMAIN r.value : \A i \in ToSet(reg[r.value[j]].imports) :
                           \E k \in DOMAIN r.value : r.value[k] = i /\ k < j
  BY DEF OrderRight, r
<1>3. Arranged(reg, r.value) /\ DOMAIN reg \subseteq ToSet(r.value)
  BY <1>1, <1>2 DEF Resolved
<1> DEFINE order == r.value
<1> HIDE DEF order
<1>4. Arranged(reg, order) /\ DOMAIN order = 1..Len(order)
  BY <1>3 DEF Arranged, order
<1> QED
  BY <1>3, <1>4 DEF Arranged, ImportsOf, order


-----------------------------------------------------------------------------
(* What modules offer. *)

\* A loop that collects what each element gives.
Unioned(F, start, seq, E, r) ==
  /\ r \in Outcomes(SUBSET E)
  /\ IsOk(r) => /\ \A x \in ToSet(seq) : IsOk(F[x])
                /\ r.value = start \cup UNION {F[x].value : x \in ToSet(seq)}

LEMMA UnionFold ==
  ASSUME NEW E, NEW X, NEW F \in [X -> Outcomes(SUBSET E)], NEW start \in SUBSET E, NEW seq \in Seq(X), NEW step,
         step = [v \in SUBSET E |-> [x \in X |-> IF IsOk(F[x]) THEN Ok(v \cup F[x].value) ELSE F[x]]]
  PROVE  Unioned(F, start, seq, E, TryFold(step, start, seq))
<1> DEFINE L == SUBSET E
           turn(v, x) == IF IsOk(F[x]) THEN Ok(v \cup F[x].value) ELSE F[x]
           Keeps(k, v) == /\ \A x \in UpTo(seq, k) : IsOk(F[x])
                          /\ v = start \cup UNION {F[x].value : x \in UpTo(seq, k)}
           Inv == {p \in Nat \X L : Keeps(p[1], p[2])}
           AnyError == {"missing", "circular", "export"}
<1>1. ASSUME NEW v \in L, NEW x \in X
      PROVE  /\ turn(v, x) \in Outcomes(L) /\ (IsOk(turn(v, x)) <=> IsOk(F[x]))
             /\ IsOk(F[x]) => turn(v, x).value = v \cup F[x].value /\ v \cup F[x].value \in L
             /\ ~IsOk(F[x]) => turn(v, x).error \in AnyError
  <2>1. CASE IsOk(F[x])
    <3>1. F[x].value \in L
      BY <2>1, OutcomeIs
    <3>2. v \cup F[x].value \in L
      BY <3>1
    <3>3. turn(v, x) = Ok(v \cup F[x].value)
      BY <2>1
    <3> HIDE DEF turn, L
    <3> QED
      BY <2>1, <3>2, <3>3, OutcomeOf
  <2>2. CASE ~IsOk(F[x])
    <3>1. turn(v, x) = F[x]
      BY <2>2
    <3> QED
      BY <2>2, <3>1, OutcomeIs
  <2> QED
    BY <2>1, <2>2
<1>2. step = [v \in L |-> [x \in X |-> turn(v, x)]]
  OBVIOUS
<1> HIDE DEF turn
<1>3. step \in [L -> [X -> Outcomes(L)]] /\ \A v \in L, x \in X : step[v][x] = turn(v, x)
  <2>1. \A v \in L, x \in X : turn(v, x) \in Outcomes(L)
    BY <1>1
  <2>2. \A v \in L : [x \in X |-> turn(v, x)] \in [X -> Outcomes(L)]
    BY <2>1
  <2> HIDE DEF L
  <2>3. step \in [L -> [X -> Outcomes(L)]]
    BY <1>2, <2>2
  <2>4. ASSUME NEW v \in L PROVE step[v] = [x \in X |-> turn(v, x)]
    BY <1>2
  <2> QED
    BY <2>3, <2>4
<1>4. \A k \in Nat, v \in L : Keeps(k, v) => <<k, v>> \in Inv
  OBVIOUS
<1>5. \A k, v : <<k, v>> \in Inv => k \in Nat /\ v \in L /\ Keeps(k, v)
  OBVIOUS
<1> HIDE DEF Inv
<1>6. <<0, start>> \in Inv
  <2>1. UpTo(seq, 0) = {}
    BY DEF UpTo
  <2> QED
    BY <1>4, <2>1
<1>7. ASSUME NEW k \in 1..Len(seq), NEW v \in L, <<k - 1, v>> \in Inv
      PROVE  /\ IsOk(step[v][seq[k]]) => <<k, step[v][seq[k]].value>> \in Inv
             /\ ~IsOk(step[v][seq[k]]) => step[v][seq[k]].error \in AnyError
  <2> DEFINE x == seq[k]
             w == v \cup F[x].value
  <2>1. Keeps(k - 1, v) /\ k \in Nat
    BY <1>5, <1>7
  <2>2. x \in X /\ UpTo(seq, k) = UpTo(seq, k - 1) \cup {x}
    BY InSet, UpToNext
  <2> HIDE DEF x
  <2>3. CASE IsOk(F[x])
    <3>1. step[v][x] = turn(v, x) /\ IsOk(turn(v, x)) /\ turn(v, x).value = w /\ w \in L
      BY <1>1, <1>3, <2>2, <2>3
    <3>2. Keeps(k, w)
      BY <2>1, <2>2, <2>3
    <3> HIDE DEF w, Keeps
    <3>3. <<k, w>> \in Inv
      BY <1>4, <2>1, <3>1, <3>2
    <3> QED
      BY <3>1, <3>3 DEF x
  <2>4. CASE ~IsOk(F[x])
    <3>1. step[v][x] = turn(v, x) /\ ~IsOk(turn(v, x)) /\ turn(v, x).error \in AnyError
      BY <1>1, <1>3, <2>2, <2>4
    <3> HIDE DEF AnyError
    <3> QED
      BY <3>1 DEF x
  <2> QED
    BY <2>3, <2>4
<1> HIDE DEF AnyError, L
<1>8. start \in L
  BY DEF L
<1>9. FoldResult(step, start, seq, L, Inv, AnyError)
  BY <1>3, <1>6, <1>7, <1>8, FoldKeeps
<1> DEFINE r == TryFold(step, start, seq)
<1> HIDE DEF r
<1>10. r \in Outcomes(L) /\ (IsOk(r) => <<Len(seq), r.value>> \in Inv)
  BY <1>9 DEF FoldResult, r
<1>11. IsOk(r) => Keeps(Len(seq), r.value)
  BY <1>5, <1>10
<1>12. UpTo(seq, Len(seq)) = ToSet(seq)
  BY UpToNext
<1> QED
  BY <1>10, <1>11, <1>12 DEF Unioned, r, L


Places(reg) == (DOMAIN reg) \X SUBSET DOMAIN reg

Surfaces(reg) == Outcomes(SUBSET Exported(reg))

SurfaceTurn(reg, V, vis) ==
  [seen \in SUBSET Exported(reg) |-> [i \in Modules |->
     IF i \notin DOMAIN reg THEN Err("missing")
     ELSE LET s == V[<<i, vis>>] IN IF IsOk(s) THEN Ok(seen \cup s.value) ELSE s]]

SurfaceStep(reg, V, at) ==
  IF at[1] \in at[2] THEN Err("circular")
  ELSE LET imported == TryFold(SurfaceTurn(reg, V, at[2] \cup {at[1]}), {}, reg[at[1]].imports)
       IN  IF ~IsOk(imported) THEN imported
           ELSE IF reg[at[1]].exports \subseteq reg[at[1]].provides \cup imported.value
                  THEN Ok(reg[at[1]].exports)
                  ELSE Err("export")

IsSurface(reg, V) == V = [at \in Places(reg) |-> SurfaceStep(reg, V, at)]

\* The surfaces as they are computed: the module, the modules above it.
SurfaceOf(reg) == CHOOSE V : IsSurface(reg, V)

LEMMA SurfaceChosen ==
  ASSUME NEW reg, NEW m
  PROVE  PublicSurface(reg, m) = SurfaceOf(reg)[<<m, {}>>]
BY DEF PublicSurface, SurfaceOf, IsSurface, SurfaceStep, SurfaceTurn, Places

LEMMA PlaceIs ==
  ASSUME NEW reg, NEW at \in Places(reg)
  PROVE  at[1] \in DOMAIN reg /\ at[2] \in SUBSET DOMAIN reg /\ at[2] \cup {at[1]} \in SUBSET DOMAIN reg
BY DEF Places

LEMMA PlaceOf ==
  ASSUME NEW reg, NEW m \in DOMAIN reg, NEW vis \in SUBSET DOMAIN reg
  PROVE  <<m, vis>> \in Places(reg) /\ <<m, vis>>[1] = m /\ <<m, vis>>[2] = vis
BY DEF Places

Below(reg) == [at \in Places(reg) |-> Cardinality(DOMAIN reg \ at[2])]

LEMMA BelowIs ==
  ASSUME NEW reg, IsRegistry(reg)
  PROVE  /\ Below(reg) \in [Places(reg) -> 0..Cardinality(DOMAIN reg)] /\ Cardinality(DOMAIN reg) \in Nat
         /\ \A at \in Places(reg), i \in DOMAIN reg : at[1] \notin at[2] =>
              /\ <<i, at[2] \cup {at[1]}>> \in Places(reg)
              /\ Below(reg)[<<i, at[2] \cup {at[1]}>>] < Below(reg)[at]
<1> DEFINE D == DOMAIN reg
<1>1. D \subseteq Modules
  BY DEF IsRegistry
<1>2. Cardinality(D) \in Nat
  BY <1>1, FewModules
<1>3. \A at \in Places(reg) : Cardinality(D \ at[2]) \in 0..Cardinality(D)
  BY <1>1, PlaceIs, NoMore
<1>4. Below(reg) \in [Places(reg) -> 0..Cardinality(D)]
  BY <1>3 DEF Below
<1>5. ASSUME NEW at \in Places(reg), NEW i \in D, at[1] \notin at[2]
      PROVE  /\ <<i, at[2] \cup {at[1]}>> \in Places(reg)
             /\ Below(reg)[<<i, at[2] \cup {at[1]}>>] < Below(reg)[at]
  <2> DEFINE vis == at[2]
             m == at[1]
             next == <<i, vis \cup {m}>>
             c == Cardinality(D \ vis)
             d == Cardinality(D \ (vis \cup {m}))
  <2>1. m \in D /\ vis \in SUBSET D /\ vis \cup {m} \in SUBSET D
    BY PlaceIs
  <2>2. next \in Places(reg) /\ next[2] = vis \cup {m}
    BY <2>1, PlaceOf
  <2>3. c \in Nat /\ d = c - 1
    BY <1>1, <1>5, <2>1, FewModules, OneFewer
  <2>4. Below(reg)[at] = c
    BY DEF Below
  <2> HIDE DEF next, c, d
  <2>5. Below(reg)[next] = d
    BY <2>2 DEF Below, d
  <2> QED
    BY <2>2, <2>3, <2>4, <2>5 DEF next
<1> QED
  BY <1>2, <1>4, <1>5

\* What the loop collects from the imports.
Given(reg, V, vis) == [i \in Modules |-> IF i \notin DOMAIN reg THEN Err("missing") ELSE V[<<i, vis>>]]

LEMMA SurfaceLoops ==
  ASSUME NEW reg, IsRegistry(reg), NEW V \in [Places(reg) -> Surfaces(reg)], NEW at \in Places(reg)
  PROVE  Unioned(Given(reg, V, at[2] \cup {at[1]}), {}, reg[at[1]].imports, Exported(reg),
                 TryFold(SurfaceTurn(reg, V, at[2] \cup {at[1]}), {}, reg[at[1]].imports))
<1> DEFINE vis == at[2] \cup {at[1]}
           F == Given(reg, V, vis)
           seq == reg[at[1]].imports
           E == Exported(reg)
           step == SurfaceTurn(reg, V, vis)
<1>1. vis \in SUBSET DOMAIN reg /\ seq \in Seq(Modules) /\ {} \in SUBSET E
  BY PlaceIs DEF IsRegistry
<1>2. F \in [Modules -> Outcomes(SUBSET E)]
  <2>1. ASSUME NEW i \in Modules
        PROVE  (IF i \notin DOMAIN reg THEN Err("missing") ELSE V[<<i, vis>>]) \in Outcomes(SUBSET E)
    <3>1. Err("missing") \in Outcomes(SUBSET E)
      BY OutcomeOf
    <3>2. i \in DOMAIN reg => V[<<i, vis>>] \in Surfaces(reg)
      BY <1>1, PlaceOf
    <3> QED
      BY <3>1, <3>2 DEF Surfaces
  <2> HIDE DEF E, vis
  <2> QED
    BY <2>1 DEF Given
<1>3. step = [v \in SUBSET E |-> [x \in Modules |-> IF IsOk(F[x]) THEN Ok(v \cup F[x].value) ELSE F[x]]]
  <2>1. ASSUME NEW v \in SUBSET E, NEW i \in Modules
        PROVE  (IF i \notin DOMAIN reg THEN Err("missing")
                ELSE LET s == V[<<i, vis>>] IN IF IsOk(s) THEN Ok(v \cup s.value) ELSE s)
               = IF IsOk(F[i]) THEN Ok(v \cup F[i].value) ELSE F[i]
    <3>1. ~IsOk(Err("missing"))
      BY DEF Err, IsOk
    <3> QED
      BY <3>1 DEF Given
  <2> HIDE DEF F, vis
  <2> QED
    BY <2>1 DEF SurfaceTurn
<1> HIDE DEF F, step, seq, E
<1>4. Unioned(F, {}, seq, E, TryFold(step, {}, seq))
  BY <1>1, <1>2, <1>3, UnionFold
<1> QED
  BY <1>4 DEF F, step, seq, E

\* What a surface says.
Surfaced(reg, V, at, r) ==
  /\ r \in Surfaces(reg)
  /\ IsOk(r) =>
       /\ r.value = reg[at[1]].exports
       /\ \A i \in ImportsOf(reg, at[1]) : i \in DOMAIN reg /\ IsOk(V[<<i, at[2] \cup {at[1]}>>])
       /\ \A T \in reg[at[1]].exports \ reg[at[1]].provides : \E i \in ImportsOf(reg, at[1]) :
            T \in V[<<i, at[2] \cup {at[1]}>>].value
       /\ at[1] \notin at[2]

LEMMA SurfaceStepIs ==
  ASSUME NEW reg, IsRegistry(reg), NEW V \in [Places(reg) -> Surfaces(reg)], NEW at \in Places(reg)
  PROVE  Surfaced(reg, V, at, SurfaceStep(reg, V, at))
<1> DEFINE m == at[1]
           vis == at[2] \cup {m}
           F == Given(reg, V, vis)
           E == Exported(reg)
           imported == TryFold(SurfaceTurn(reg, V, vis), {}, reg[m].imports)
           r == SurfaceStep(reg, V, at)
<1>1. Unioned(F, {}, reg[m].imports, E, imported)
  BY SurfaceLoops
<1>2. m \in DOMAIN reg
  BY PlaceIs
<1>3. r = IF m \in at[2] THEN Err("circular")
          ELSE IF ~IsOk(imported) THEN imported
          ELSE IF reg[m].exports \subseteq reg[m].provides \cup imported.value THEN Ok(reg[m].exports)
          ELSE Err("export")
  BY DEF SurfaceStep
<1>4. Err("circular") \in Surfaces(reg) /\ Err("export") \in Surfaces(reg)
      /\ ~IsOk(Err("circular")) /\ ~IsOk(Err("export"))
  BY OutcomeOf DEF Surfaces
<1>5. imported \in Surfaces(reg)
  BY <1>1 DEF Unioned, Surfaces
<1>6. reg[m].exports \in SUBSET E
  BY <1>2 DEF Exported
<1>7. Ok(reg[m].exports) \in Surfaces(reg) /\ Ok(reg[m].exports).value = reg[m].exports
  BY <1>6, OutcomeOf DEF Surfaces
<1> HIDE DEF imported, r, F, E
<1>8. r \in Surfaces(reg)
  BY <1>3, <1>4, <1>5, <1>7
<1>9. ASSUME IsOk(r)
      PROVE  /\ m \notin at[2] /\ IsOk(imported) /\ r = Ok(reg[m].exports)
             /\ reg[m].exports \subseteq reg[m].provides \cup imported.value
  BY <1>3, <1>4, <1>9
<1>10. ASSUME IsOk(r), NEW i \in ImportsOf(reg, m) PROVE i \in DOMAIN reg /\ IsOk(V[<<i, vis>>]) /\ F[i] = V[<<i, vis>>]
  <2>1. IsOk(F[i])
    BY <1>1, <1>9, <1>10 DEF Unioned, ImportsOf
  <2>2. i \in Modules
    BY <1>2, InSet DEF IsRegistry, ImportsOf
  <2>3. F[i] = IF i \notin DOMAIN reg THEN Err("missing") ELSE V[<<i, vis>>]
    BY <2>2 DEF F, Given
  <2>4. ~IsOk(Err("missing"))
    BY DEF Err, IsOk
  <2> QED
    BY <2>1, <2>3, <2>4
<1>11. ASSUME IsOk(r), NEW T \in reg[m].exports \ reg[m].provides
       PROVE  \E i \in ImportsOf(reg, m) : T \in V[<<i, vis>>].value
  <2>1. T \in imported.value
    BY <1>9, <1>11
  <2>2. PICK i \in ImportsOf(reg, m) : T \in F[i].value
    BY <1>1, <1>9, <1>11, <2>1 DEF Unioned, ImportsOf
  <2> QED
    BY <1>10, <1>11, <2>2
<1> QED
  BY <1>7, <1>8, <1>9, <1>10, <1>11 DEF Surfaced, r


LEMMA SurfaceSame ==
  ASSUME NEW reg, IsRegistry(reg), NEW g, NEW h, NEW at \in Places(reg),
         \A b \in Places(reg) : Below(reg)[b] < Below(reg)[at] => g[b] = h[b]
  PROVE  SurfaceStep(reg, g, at) = SurfaceStep(reg, h, at)
<1> SUFFICES ASSUME at[1] \notin at[2] PROVE SurfaceStep(reg, g, at) = SurfaceStep(reg, h, at)
  BY DEF SurfaceStep
<1> DEFINE D == DOMAIN reg
           vis == at[2] \cup {at[1]}
           E == Exported(reg)
           turn(V, seen, i) == IF i \notin D THEN Err("missing")
                               ELSE LET s == V[<<i, vis>>] IN IF IsOk(s) THEN Ok(seen \cup s.value) ELSE s
<1>1. ASSUME NEW seen \in SUBSET E, NEW i \in Modules PROVE turn(g, seen, i) = turn(h, seen, i)
  <2>1. SUFFICES ASSUME i \in D PROVE g[<<i, vis>>] = h[<<i, vis>>]
    OBVIOUS
  <2>2. <<i, vis>> \in Places(reg) /\ Below(reg)[<<i, vis>>] < Below(reg)[at]
    BY <2>1, BelowIs
  <2> QED
    BY <2>2
<1>2. \A V : SurfaceTurn(reg, V, vis) = [seen \in SUBSET E |-> [i \in Modules |-> turn(V, seen, i)]]
  BY DEF SurfaceTurn
<1> HIDE DEF turn, D, vis, E
<1>3. [seen \in SUBSET E |-> [i \in Modules |-> turn(g, seen, i)]]
      = [seen \in SUBSET E |-> [i \in Modules |-> turn(h, seen, i)]]
  BY <1>1
<1>4. SurfaceTurn(reg, g, vis) = SurfaceTurn(reg, h, vis)
  BY <1>2, <1>3
<1> QED
  BY <1>4 DEF SurfaceStep, vis

LEMMA SurfaceExists ==
  ASSUME NEW reg, IsRegistry(reg)
  PROVE  /\ SurfaceOf(reg) \in [Places(reg) -> Surfaces(reg)]
         /\ \A at \in Places(reg) : SurfaceOf(reg)[at] = SurfaceStep(reg, SurfaceOf(reg), at)
<1> DEFINE Args == Places(reg)
           Out == Surfaces(reg)
           mu == Below(reg)
           M == Cardinality(DOMAIN reg)
           Body == [V \in [Args -> Out] |-> [at \in Args |-> SurfaceStep(reg, V, at)]]
<1>1. Body \in [[Args -> Out] -> [Args -> Out]]
  <2>1. \A V \in [Args -> Out], at \in Args : SurfaceStep(reg, V, at) \in Out
    BY SurfaceStepIs DEF Surfaced
  <2> QED
    BY <2>1
<1>2. M \in Nat /\ mu \in [Args -> 0..M]
  BY BelowIs
<1>3. Out # {}
  BY OutcomeOf DEF Surfaces
<1>4. Causal(Args, Out, Body, mu)
  <2>1. SUFFICES ASSUME NEW g \in [Args -> Out], NEW h \in [Args -> Out], NEW a \in Args,
                        \A b \in Args : mu[b] < mu[a] => g[b] = h[b]
                 PROVE  Body[g][a] = Body[h][a]
    BY DEF Causal
  <2>2. SurfaceStep(reg, g, a) = SurfaceStep(reg, h, a)
    BY <2>1, SurfaceSame
  <2> QED
    BY <2>2
<1>5. \A V \in [Args -> Out] : Body[V] = [at \in Args |-> SurfaceStep(reg, V, at)]
  OBVIOUS
<1> HIDE DEF Args, Out, Body, mu, M
<1>6. HasSolution(Args, Out, Body)
  BY <1>1, <1>2, <1>3, <1>4, RecursionExists
<1>7. PICK V \in [Args -> Out] : V = Body[V]
  BY <1>6 DEF HasSolution
<1> DEFINE W == SurfaceOf(reg)
           S == {at \in Args : W[at] = V[at]}
<1>8. IsSurface(reg, V)
  BY <1>5, <1>7 DEF IsSurface, Args
<1>9. IsSurface(reg, W)
  BY <1>8 DEF SurfaceOf
<1> HIDE DEF W
<1>10. W = [at \in Args |-> SurfaceStep(reg, W, at)] /\ V = [at \in Args |-> SurfaceStep(reg, V, at)]
  BY <1>8, <1>9 DEF IsSurface, Args
<1>11. ASSUME NEW a \in Args, \A b \in Args : mu[b] < mu[a] => b \in S PROVE a \in S
  <2>1. \A b \in Args : mu[b] < mu[a] => W[b] = V[b]
    BY <1>11
  <2>2. SurfaceStep(reg, W, a) = SurfaceStep(reg, V, a)
    BY <2>1, SurfaceSame DEF Args, mu
  <2>3. W[a] = SurfaceStep(reg, W, a) /\ V[a] = SurfaceStep(reg, V, a)
    BY <1>10
  <2> QED
    BY <2>2, <2>3
<1>12. S = Args
  <2> HIDE DEF S
  <2>1. S \in SUBSET Args
    BY DEF S
  <2>2. mu \in [Args -> Nat]
    BY <1>2
  <2> QED
    BY <1>11, <2>1, <2>2, EveryArgument
<1>13. \A at \in Args : W[at] = V[at]
  BY <1>12
<1>14. W = V
  BY <1>10, <1>13
<1>15. W \in [Args -> Out]
  BY <1>7, <1>14
<1> QED
  BY <1>10, <1>15 DEF W, Args, Out

LEMMA SurfaceHolds ==
  ASSUME NEW reg, IsRegistry(reg), NEW at \in Places(reg)
  PROVE  Surfaced(reg, SurfaceOf(reg), at, SurfaceOf(reg)[at])
BY SurfaceExists, SurfaceStepIs

LEMMA PublicIs ==
  ASSUME NEW reg, IsRegistry(reg), NEW m \in DOMAIN reg
  PROVE  /\ PublicSurface(reg, m) \in Surfaces(reg)
         /\ IsOk(PublicSurface(reg, m)) =>
              PublicSurface(reg, m).value = reg[m].exports /\ ImportsOf(reg, m) \subseteq DOMAIN reg
<1> DEFINE at == <<m, {}>>
<1>1. at \in Places(reg) /\ at[1] = m
  BY PlaceOf
<1>2. PublicSurface(reg, m) = SurfaceOf(reg)[at]
  BY SurfaceChosen
<1> HIDE DEF at
<1>3. Surfaced(reg, SurfaceOf(reg), at, SurfaceOf(reg)[at])
  BY <1>1, SurfaceHolds
<1> QED
  BY <1>1, <1>2, <1>3 DEF Surfaced

LEMMA SurfacesRightLemma ==
  ASSUME NEW reg, IsRegistry(reg)
  PROVE  SurfacesRight(reg)
BY PublicIs DEF SurfacesRight

\* A set of modules out of which no way along the exports of T leads, and none of which provides it.
Unprovided(reg, T, S) ==
  /\ S \in SUBSET DOMAIN reg
  /\ \A n \in S : /\ T \notin reg[n].provides
                  /\ \A i \in ImportsOf(reg, n) : i \in DOMAIN reg /\ T \in reg[i].exports => i \in S

\* A module never offers what nobody provides: what is exported can be traced to its provider.
LEMMA ExportsProvided ==
  ASSUME NEW reg, IsRegistry(reg), NEW T, NEW S, Unprovided(reg, T, S),
         NEW m \in S, IsOk(PublicSurface(reg, m)), T \in PublicSurface(reg, m).value
  PROVE  FALSE
<1> DEFINE V == SurfaceOf(reg)
           Args == Places(reg)
           mu == Below(reg)
           G == {at \in Args : IsOk(V[at]) /\ T \in V[at].value => at[1] \notin S}
<1>1. \A at \in Args : Surfaced(reg, V, at, V[at])
  BY SurfaceHolds
<1>2. mu \in [Args -> Nat]
  BY BelowIs
<1> HIDE DEF V
<1>3. ASSUME NEW at \in Args, \A b \in Args : mu[b] < mu[at] => b \in G PROVE at \in G
  <2>1. SUFFICES ASSUME IsOk(V[at]), T \in V[at].value, at[1] \in S PROVE FALSE
    OBVIOUS
  <2> DEFINE n == at[1]
             vis == at[2] \cup {n}
  <2>2. T \notin reg[n].provides
    BY <2>1 DEF Unprovided
  <2>3. /\ T \in reg[n].exports /\ n \notin at[2]
        /\ \A i \in ImportsOf(reg, n) : i \in DOMAIN reg /\ IsOk(V[<<i, vis>>])
        /\ \A t \in reg[n].exports \ reg[n].provides : \E i \in ImportsOf(reg, n) : t \in V[<<i, vis>>].value
    BY <1>1, <2>1 DEF Surfaced
  <2>4. PICK i \in ImportsOf(reg, n) : T \in V[<<i, vis>>].value
    BY <2>2, <2>3
  <2> DEFINE b == <<i, vis>>
  <2>5. i \in DOMAIN reg /\ IsOk(V[b]) /\ T \in V[b].value
    BY <2>3, <2>4
  <2>6. b \in Args /\ mu[b] < mu[at] /\ b[1] = i
    BY <2>3, <2>5, BelowIs
  <2> HIDE DEF b
  <2>7. i \notin S
    BY <1>3, <2>5, <2>6
  <2>8. T \in reg[i].exports
    BY <1>1, <2>5, <2>6 DEF Surfaced
  <2> QED
    BY <2>1, <2>4, <2>5, <2>7, <2>8 DEF Unprovided
<1>4. G = Args
  <2> HIDE DEF G, Args, mu
  <2>1. G \in SUBSET Args
    BY DEF G
  <2> QED
    BY <1>2, <1>3, <2>1, EveryArgument
<1> DEFINE at == <<m, {}>>
<1>5. at \in Args /\ at[1] = m
  <2>1. m \in DOMAIN reg
    BY DEF Unprovided
  <2> QED
    BY <2>1, PlaceOf
<1>6. PublicSurface(reg, m) = V[at]
  BY SurfaceChosen DEF V
<1> HIDE DEF at
<1> QED
  BY <1>4, <1>5, <1>6

\* What a module sees is what its sources offer.
LEMMA SeenIs ==
  ASSUME NEW reg, IsRegistry(reg), NEW m \in DOMAIN reg, IsOk(VisibleExports(reg, m))
  PROVE  /\ IsOk(ImportSources(reg, m))
         /\ VisibleExports(reg, m).value =
              UNION {PublicSurface(reg, x).value : x \in {m} \cup ToSet(ImportSources(reg, m).value)}
<1> DEFINE E == Exported(reg)
           D == DOMAIN reg
           own == PublicSurface(reg, m)
           F == [x \in D |-> PublicSurface(reg, x)]
           imports == reg[m].imports
           globals == GlobalModules(reg)
           seq == imports \o globals
           Add == [seen \in SUBSET E |-> [x \in D |->
                     LET s == PublicSurface(reg, x) IN IF IsOk(s) THEN Ok(seen \cup s.value) ELSE s]]
           step == [v \in SUBSET E |-> [x \in D |-> IF IsOk(F[x]) THEN Ok(v \cup F[x].value) ELSE F[x]]]
           G == {g \in D : reg[g].global}
           done == TryFold(Add, own.value, seq)
<1>1. VisibleExports(reg, m) = IF IsOk(own) THEN done ELSE own
  BY DEF VisibleExports
<1>2. IsOk(own) /\ IsOk(done) /\ VisibleExports(reg, m) = done
  BY <1>1
<1>3. /\ own \in Outcomes(SUBSET E) /\ own.value \in SUBSET E /\ ToSet(imports) \subseteq D
      /\ F \in [D -> Outcomes(SUBSET E)]
  <2>1. \A x \in D : PublicSurface(reg, x) \in Outcomes(SUBSET E)
    BY PublicIs DEF Surfaces
  <2>2. ToSet(imports) \subseteq D
    BY <1>2, PublicIs DEF ImportsOf
  <2> HIDE DEF E
  <2>3. own.value \in SUBSET E
    BY <1>2, <2>1, OutcomeIs
  <2> QED
    BY <2>1, <2>2, <2>3
<1>4. imports \in Seq(D) /\ globals \in Seq(D) /\ ToSet(globals) = G
  <2>1. imports \in Seq(Modules) /\ globals \in Seq(Modules) /\ ToSet(globals) = G
    <3>1. G \subseteq Modules
      BY DEF IsRegistry
    <3> QED
      BY <3>1, ListedIs DEF IsRegistry, GlobalModules
  <2>2. (\A k \in 1..Len(imports) : imports[k] \in D) /\ (\A k \in 1..Len(globals) : globals[k] \in D)
    <3>1. (\A k \in 1..Len(imports) : imports[k] \in ToSet(imports))
          /\ (\A k \in 1..Len(globals) : globals[k] \in ToSet(globals))
      BY <2>1, InSet
    <3> QED
      BY <1>3, <2>1, <3>1
  <2>3. \A s \in Seq(Modules) : (\A k \in 1..Len(s) : s[k] \in D) => s \in Seq(D)
    OBVIOUS
  <2> HIDE DEF imports, globals
  <2> QED
    BY <2>1, <2>2, <2>3
<1>5. seq \in Seq(D) /\ ToSet(seq) = ToSet(imports) \cup G
  BY <1>4, BothLists
<1>6. Add = step
  OBVIOUS
<1> HIDE DEF seq, step, Add, F, E, own, done
<1>7. Unioned(F, own.value, seq, E, TryFold(step, own.value, seq))
  BY <1>3, <1>5, UnionFold DEF step
<1>8. done.value = own.value \cup UNION {F[x].value : x \in ToSet(seq)}
  BY <1>2, <1>6, <1>7 DEF Unioned, done
<1>9. \A x \in D : F[x] = PublicSurface(reg, x)
  BY DEF F
<1>10. ToSet(seq) \subseteq D
  BY <1>5, InSet
<1>11. {F[x].value : x \in ToSet(seq)} = {PublicSurface(reg, x).value : x \in ToSet(seq)}
  BY <1>9, <1>10
<1>12. IsOk(ImportSources(reg, m))
       /\ ToSet(ImportSources(reg, m).value) = ToSet(imports) \cup {g \in D \ {m} : reg[g].global}
  BY <1>3, SourcesAre
<1>13. {m} \cup ToSet(ImportSources(reg, m).value) = {m} \cup ToSet(seq)
  BY <1>5, <1>12
<1>14. done.value = UNION {PublicSurface(reg, x).value : x \in {m} \cup ToSet(seq)}
  BY <1>8, <1>11 DEF own
<1> QED
  BY <1>2, <1>12, <1>13, <1>14
=============================================================================
