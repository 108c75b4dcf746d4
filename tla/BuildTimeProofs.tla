-------------------------- MODULE BuildTimeProofs --------------------------
(***************************************************************************)
(* What the walk of DependencyWalk.tla promises, for every finite set of   *)
(* identifiers, every graph over them and every order of the roots; and    *)
(* what the registry of ModuleRegistry.tla answers, whatever modules are   *)
(* registered; and that Charts.tla reads any document as it is written and *)
(* keeps its engines on the paths the validator saw.                       *)
(***************************************************************************)
EXTENDS DependencyWalk, ModuleRegistry, Charts, GraphProofs

(***************************************************************************)
(* Sequences as call stacks and lists.                                     *)
(***************************************************************************)

\* Appending adds one element at the end: the push of dfs, and of its result.
LEMMA AppendFacts ==
  ASSUME NEW S, NEW s \in Seq(S), NEW e \in S
  PROVE  /\ Append(s, e) \in Seq(S)
         /\ Append(s, e) # <<>>
         /\ Len(Append(s, e)) = Len(s) + 1
         /\ DOMAIN Append(s, e) = 1 .. Len(s) + 1
         /\ \A i \in 1 .. Len(s) : Append(s, e)[i] = s[i]
         /\ Append(s, e)[Len(s) + 1] = e
         /\ Range(Append(s, e)) = Range(s) \cup {e}
<1>1. /\ Append(s, e) \in Seq(S)
      /\ Append(s, e) # <<>>
      /\ Len(Append(s, e)) = Len(s) + 1
      /\ DOMAIN Append(s, e) = 1 .. Len(s) + 1
      /\ DOMAIN s = 1 .. Len(s)
      /\ Len(s) \in Nat
      /\ \A i \in 1 .. Len(s) : Append(s, e)[i] = s[i]
      /\ Append(s, e)[Len(s) + 1] = e
  OBVIOUS
<1>2. Range(Append(s, e)) = Range(s) \cup {e}
  BY <1>1 DEF Range
<1> QED
  BY <1>1, <1>2

\* Dropping the last element: the return of dfs.
LEMMA FrontFacts ==
  ASSUME NEW S, NEW s \in Seq(S), s # <<>>
  PROVE  /\ SubSeq(s, 1, Len(s) - 1) \in Seq(S)
         /\ Len(s) \in Nat \ {0}
         /\ Len(SubSeq(s, 1, Len(s) - 1)) = Len(s) - 1
         /\ DOMAIN SubSeq(s, 1, Len(s) - 1) = 1 .. Len(s) - 1
         /\ \A i \in 1 .. Len(s) - 1 : SubSeq(s, 1, Len(s) - 1)[i] = s[i]
         /\ Range(s) = Range(SubSeq(s, 1, Len(s) - 1)) \cup {s[Len(s)]}
<1> DEFINE f == SubSeq(s, 1, Len(s) - 1)
<1>1. /\ Len(s) \in Nat \ {0}
      /\ DOMAIN s = 1 .. Len(s)
  OBVIOUS
<1>2. /\ f \in Seq(S)
      /\ Len(f) = Len(s) - 1
      /\ DOMAIN f = 1 .. Len(s) - 1
      /\ \A i \in 1 .. Len(s) - 1 : f[i] = s[i]
  BY <1>1
<1> HIDE DEF f
<1>3. \A i \in DOMAIN s : i = Len(s) \/ i \in DOMAIN f
  BY <1>1, <1>2
<1>4. Range(s) \subseteq Range(f) \cup {s[Len(s)]}
  BY <1>1, <1>2, <1>3 DEF Range
<1>5. Range(f) \subseteq Range(s) /\ s[Len(s)] \in Range(s)
  BY <1>1, <1>2 DEF Range
<1>6. Range(s) = Range(f) \cup {s[Len(s)]}
  BY <1>4, <1>5
<1> QED
  BY <1>1, <1>2, <1>6 DEF f

\* Taking the first element: one turn of the loop over the roots.
LEMMA TailFacts ==
  ASSUME NEW S, NEW s \in Seq(S), s # <<>>
  PROVE  /\ Tail(s) \in Seq(S)
         /\ Head(s) \in S
         /\ Range(s) = Range(Tail(s)) \cup {Head(s)}
<1>1. /\ Tail(s) \in Seq(S)
      /\ Head(s) \in S
      /\ Head(s) = s[1]
      /\ Len(s) \in Nat \ {0}
      /\ DOMAIN s = 1 .. Len(s)
      /\ DOMAIN Tail(s) = 1 .. Len(s) - 1
      /\ \A i \in 1 .. Len(s) - 1 : Tail(s)[i] = s[i + 1]
  OBVIOUS
<1>2. \A i \in DOMAIN s : i = 1 \/ i - 1 \in 1 .. Len(s) - 1
  BY <1>1
<1>3. Range(s) \subseteq Range(Tail(s)) \cup {Head(s)}
  <2> SUFFICES ASSUME NEW i \in DOMAIN s, i # 1
               PROVE  s[i] \in Range(Tail(s))
    BY <1>1 DEF Range
  <2>1. i - 1 \in DOMAIN Tail(s) /\ Tail(s)[i - 1] = s[i]
    BY <1>1, <1>2
  <2> QED
    BY <2>1 DEF Range
<1>4. Range(Tail(s)) \cup {Head(s)} \subseteq Range(s)
  BY <1>1 DEF Range
<1> QED
  BY <1>1, <1>3, <1>4

-----------------------------------------------------------------------------
(***************************************************************************)
(* Types.                                                                  *)
(***************************************************************************)

LEMMA InitTyped == Init => TypeOK
<1> SUFFICES ASSUME Init PROVE TypeOK
  OBVIOUS
<1>1. IsFiniteSet(nodes) /\ Cardinality(nodes) \in Nat
  BY WalkAssumption, FS_Subset, FS_CardinalityType DEF Init
<1>2. roots \in Seq(nodes)
  BY <1>1 DEF Init, Listings
<1>3. \A n \in nodes : deps[n] \in Seq(Ids)
  BY WalkAssumption DEF Init, DepLists
<1>4. deps \in [nodes -> Seq(Ids)]
  BY <1>3 DEF Init
<1> QED
  BY <1>2, <1>4 DEF Init, TypeOK

\* What an examined frame looks like.
LEMMA Examined ==
  ASSUME TypeOK, path # <<>>
  PROVE  /\ Len(path) \in DOMAIN path
         /\ Top \in nodes
         /\ Top \in Visiting
         /\ deps[Top] \in Seq(Ids)
         /\ next[Top] \in Nat \ {0}
         /\ next[Top] <= Len(deps[Top]) =>
              /\ next[Top] \in DOMAIN deps[Top]
              /\ Dependency \in Needs(Top)
<1>1. /\ Len(path) \in Nat \ {0}
      /\ Len(path) \in DOMAIN path
      /\ Top \in nodes
  BY DEF TypeOK, Top
<1>2. Top \in Visiting
  BY <1>1 DEF Visiting, Range, Top
<1>3. deps[Top] \in Seq(Ids) /\ next[Top] \in Nat \ {0}
  BY <1>1 DEF TypeOK
<1>4. next[Top] <= Len(deps[Top]) => next[Top] \in DOMAIN deps[Top]
  BY <1>3
<1> QED
  BY <1>1, <1>2, <1>3, <1>4 DEF Needs, Range, Dependency

LEMMA NextTyped == TypeOK /\ [Next]_vars => TypeOK'
<1> SUFFICES ASSUME TypeOK, [Next]_vars PROVE TypeOK'
  OBVIOUS
<1> USE DEF TypeOK, graph
<1>1. CASE TakeRoot
  <2>1. Tail(roots) \in Seq(nodes) /\ Head(roots) \in nodes
    BY <1>1, TailFacts DEF TakeRoot
  <2>2. path' \in Seq(nodes)
    <3>1. path' = path \/ path' = Append(path, Head(roots))
      BY <1>1 DEF TakeRoot, Enter
    <3>2. Append(path, Head(roots)) \in Seq(nodes)
      BY <2>1, AppendFacts
    <3> QED
      BY <3>1, <3>2
  <2>3. UNCHANGED <<strict, nodes, deps, next, order, outcome>> /\ roots' = Tail(roots)
    BY <1>1 DEF TakeRoot, Enter
  <2> QED
    BY <2>1, <2>2, <2>3
<1>2. CASE Descend
  BY <1>2, AppendFacts DEF Descend, Enter
<1>3. CASE Advance
  <2>1. Top \in nodes
    BY <1>3, Examined DEF Advance, Examining
  <2> QED
    BY <1>3, <2>1 DEF Advance
<1>4. CASE FailMissing
  BY <1>4 DEF FailMissing
<1>5. CASE FailCircular
  BY <1>5 DEF FailCircular
<1>6. CASE Leave
  <2>1. Top \in nodes /\ path' \in Seq(nodes)
    BY <1>6, Examined, FrontFacts DEF Leave
  <2>2. order' \in Seq(nodes)
    BY <1>6, <2>1, AppendFacts DEF Leave
  <2> QED
    BY <1>6, <2>1, <2>2 DEF Leave
<1>7. CASE Succeed
  BY <1>7 DEF Succeed
<1>8. CASE UNCHANGED vars
  BY <1>8 DEF vars
<1> QED
  BY <1>1, <1>2, <1>3, <1>4, <1>5, <1>6, <1>7, <1>8 DEF Next

\* Every state the walk reaches is well typed.
THEOREM WalkTyped == Spec => []TypeOK
  BY InitTyped, NextTyped, PTL DEF Spec

-----------------------------------------------------------------------------
(***************************************************************************)
(* The inductive invariant.  The result alone does not say why the next    *)
(* node may be placed: that comes from the frames, which have settled all  *)
(* the dependencies they moved past, and from the chain of frames, in      *)
(* which each one looks at the node of the next one.                       *)
(***************************************************************************)

\* Every node is finished, open or still to come, and never two of the first
\* two; no node is open twice; frames of other nodes have not started.
Sorted ==
  /\ Visited \cup Visiting \cup Range(roots) = nodes
  /\ Visited \cap Visiting = {}
  /\ \A i, j \in DOMAIN path : path[i] = path[j] => i = j
  /\ \A n \in nodes : n \notin Visited \cup Visiting => next[n] = 1

Settled(d) == d \in Visited \/ (d \notin nodes /\ ~strict)

Frames ==
  \A n \in Visiting : \A j \in 1 .. next[n] - 1 :
    j \in DOMAIN deps[n] => Settled(deps[n][j])

Chain ==
  \A k \in 1 .. Len(path) - 1 :
    /\ next[path[k]] \in DOMAIN deps[path[k]]
    /\ deps[path[k]][next[path[k]]] = path[k + 1]

WalkInv ==
  /\ TypeOK
  /\ Sorted
  /\ Frames
  /\ Chain
  /\ Ordered
  /\ PlacedOnce
  /\ Complete
  /\ RealCycle

LEMMA InitWalk == Init => WalkInv
<1> SUFFICES ASSUME Init PROVE WalkInv
  OBVIOUS
<1>1. TypeOK
  BY InitTyped
<1>2. /\ path = <<>> /\ order = <<>>
      /\ outcome = "running"
      /\ DOMAIN path = {} /\ DOMAIN order = {}
      /\ Len(path) = 0
  BY DEF Init
<1>3. Visited = {} /\ Visiting = {}
  BY <1>2 DEF Visited, Visiting, Range
<1>4. Range(roots) = nodes /\ \A n \in nodes : next[n] = 1
  BY DEF Init, Listings
<1>5. Sorted
  BY <1>2, <1>3, <1>4 DEF Sorted
<1>6. Frames /\ Chain
  BY <1>2, <1>3 DEF Frames, Chain
<1>7. Ordered /\ PlacedOnce /\ Complete /\ RealCycle
  BY <1>2 DEF Ordered, PlacedOnce, Complete, RealCycle
<1> QED
  BY <1>1, <1>5, <1>6, <1>7 DEF WalkInv

\* Opening a frame for a node that is neither finished nor open keeps the
\* parts of the invariant that speak of frames.
LEMMA PushKeeps ==
  ASSUME WalkInv, NEW e \in nodes,
         e \notin Visited, e \notin Visiting,
         path' = Append(path, e),
         UNCHANGED <<graph, next, order>>,
         path # <<>> => /\ next[Top] \in DOMAIN deps[Top]
                        /\ deps[Top][next[Top]] = e
  PROVE  /\ Visiting' = Visiting \cup {e}
         /\ Visited' = Visited
         /\ \A i, j \in DOMAIN path' : path'[i] = path'[j] => i = j
         /\ \A n \in nodes' : n \notin Visited' \cup Visiting' => next'[n] = 1
         /\ Frames'
         /\ Chain'
<1>1. /\ path \in Seq(nodes)
      /\ Len(path) \in Nat
      /\ DOMAIN path = 1 .. Len(path)
  BY DEF WalkInv, TypeOK
<1>2. /\ DOMAIN path' = 1 .. Len(path) + 1
      /\ Len(path') = Len(path) + 1
      /\ \A i \in 1 .. Len(path) : path'[i] = path[i]
      /\ path'[Len(path) + 1] = e
      /\ Range(path') = Range(path) \cup {e}
  BY <1>1, AppendFacts
<1>3. Visiting' = Visiting \cup {e} /\ Visited' = Visited
  BY <1>2 DEF Visiting, Visited
<1>4. \A i \in DOMAIN path : path[i] # e
  BY DEF Visiting, Range
<1>5. \A i, j \in DOMAIN path' : path'[i] = path'[j] => i = j
  BY <1>1, <1>2, <1>4 DEF WalkInv, Sorted
<1>6. \A n \in nodes' : n \notin Visited' \cup Visiting' => next'[n] = 1
  BY <1>3 DEF WalkInv, Sorted, graph
<1>7. Frames'
  <2> SUFFICES ASSUME NEW n \in Visiting', NEW j \in 1 .. next[n] - 1,
                      j \in DOMAIN deps[n]
               PROVE  deps[n][j] \in Visited' \/ (deps[n][j] \notin nodes /\ ~strict)
    BY DEF Frames, Settled, graph
  <2>1. CASE n = e
    <3>1. next[n] = 1
      BY <2>1 DEF WalkInv, Sorted
    <3> QED
      BY <3>1
  <2>2. CASE n \in Visiting
    BY <2>2, <1>3 DEF WalkInv, Frames, Settled
  <2> QED
    BY <1>3, <2>1, <2>2
<1>8. Chain'
  <2> SUFFICES ASSUME NEW k \in 1 .. Len(path') - 1
               PROVE  /\ next[path'[k]] \in DOMAIN deps[path'[k]]
                      /\ deps[path'[k]][next[path'[k]]] = path'[k + 1]
    BY DEF Chain, graph
  <2>1. CASE k = Len(path)
    BY <1>1, <1>2, <2>1 DEF Top
  <2>2. CASE k \in 1 .. Len(path) - 1
    <3>1. path'[k] = path[k] /\ path'[k + 1] = path[k + 1]
      BY <1>1, <1>2, <2>2
    <3> QED
      BY <3>1, <2>2 DEF WalkInv, Chain
  <2>3. k = Len(path) \/ k \in 1 .. Len(path) - 1
    <3>1. Len(path) \in Nat /\ Len(path') = Len(path) + 1
      BY <1>1, <1>2
    <3> QED
      BY <3>1
  <2> QED
    BY <2>1, <2>2, <2>3
<1> QED
  BY <1>3, <1>5, <1>6, <1>7, <1>8

\* A step that changes neither the result nor the outcome "running" keeps what
\* is said of the result.
LEMMA ResultKept ==
  ASSUME WalkInv, outcome = "running",
         UNCHANGED <<graph, order, outcome>>
  PROVE  Ordered' /\ PlacedOnce' /\ Complete' /\ RealCycle'
BY DEF WalkInv, Ordered, PlacedOnce, Complete, RealCycle, Needs, graph

LEMMA RootKeeps == WalkInv /\ TakeRoot => Sorted' /\ Frames' /\ Chain'
<1> SUFFICES ASSUME WalkInv, TakeRoot PROVE Sorted' /\ Frames' /\ Chain'
  OBVIOUS
<1>1. /\ Tail(roots) \in Seq(nodes)
      /\ Head(roots) \in nodes
      /\ Range(roots) = Range(Tail(roots)) \cup {Head(roots)}
      /\ roots' = Tail(roots)
  BY TailFacts DEF WalkInv, TypeOK, TakeRoot
<1>2. path = <<>> /\ Visiting = {}
  BY DEF TakeRoot, Visiting, Range
<1>3. UNCHANGED <<graph, next, order>>
  BY DEF TakeRoot, Enter
<1>4. CASE Head(roots) \in Visited
  <2>1. UNCHANGED path
    BY <1>4 DEF TakeRoot
  <2>2. UNCHANGED <<Visited, Visiting>>
    BY <1>3, <2>1 DEF Visited, Visiting
  <2>3. Sorted'
    BY <1>1, <1>2, <1>3, <1>4, <2>1, <2>2 DEF WalkInv, Sorted, graph
  <2>4. Frames' /\ Chain'
    BY <1>2, <1>3, <2>1, <2>2 DEF WalkInv, Frames, Chain, graph
  <2> QED
    BY <2>3, <2>4
<1>5. CASE Head(roots) \notin Visited
  <2>1. path' = Append(path, Head(roots))
    BY <1>5 DEF TakeRoot, Enter
  <2>2. /\ Visiting' = Visiting \cup {Head(roots)}
        /\ Visited' = Visited
        /\ \A i, j \in DOMAIN path' : path'[i] = path'[j] => i = j
        /\ \A n \in nodes' : n \notin Visited' \cup Visiting' => next'[n] = 1
        /\ Frames'
        /\ Chain'
    BY <1>1, <1>2, <1>3, <1>5, <2>1, PushKeeps
  <2>3. Visited' \cup Visiting' \cup Range(roots') = nodes'
    BY <1>1, <1>2, <1>3, <2>2 DEF WalkInv, Sorted, graph
  <2>4. Visited' \cap Visiting' = {}
    BY <1>2, <1>5, <2>2
  <2> QED
    BY <2>2, <2>3, <2>4 DEF Sorted
<1> QED
  BY <1>4, <1>5

LEMMA DescendKeeps == WalkInv /\ Descend => Sorted' /\ Frames' /\ Chain'
<1> SUFFICES ASSUME WalkInv, Descend PROVE Sorted' /\ Frames' /\ Chain'
  OBVIOUS
<1>1. /\ UNCHANGED <<graph, next, order, roots>>
      /\ path' = Append(path, Dependency)
      /\ Dependency \in nodes
      /\ Dependency \notin Visited
      /\ Dependency \notin Visiting
  BY DEF Descend, Enter
<1>2. next[Top] \in DOMAIN deps[Top] /\ deps[Top][next[Top]] = Dependency
  BY Examined DEF WalkInv, Descend, Examining, Dependency
<1>3. /\ Visiting' = Visiting \cup {Dependency}
      /\ Visited' = Visited
      /\ \A i, j \in DOMAIN path' : path'[i] = path'[j] => i = j
      /\ \A n \in nodes' : n \notin Visited' \cup Visiting' => next'[n] = 1
      /\ Frames'
      /\ Chain'
  BY <1>1, <1>2, PushKeeps
<1>4. Visited' \cup Visiting' \cup Range(roots') = nodes'
  BY <1>1, <1>3 DEF WalkInv, Sorted, graph
<1>5. Visited' \cap Visiting' = {}
  BY <1>1, <1>3 DEF WalkInv, Sorted
<1> QED
  BY <1>3, <1>4, <1>5 DEF Sorted

\* Moving past a settled dependency.
LEMMA AdvanceKeeps == WalkInv /\ Advance => Sorted' /\ Frames' /\ Chain'
<1> SUFFICES ASSUME WalkInv, Advance PROVE Sorted' /\ Frames' /\ Chain'
  OBVIOUS
<1>1. /\ UNCHANGED <<graph, roots, path, order>>
      /\ next' = [next EXCEPT ![Top] = @ + 1]
      /\ path # <<>>
      /\ next \in [nodes -> Nat \ {0}]
      /\ path \in Seq(nodes)
      /\ Len(path) \in Nat
      /\ DOMAIN path = 1 .. Len(path)
  BY DEF Advance, Examining, WalkInv, TypeOK
<1>2. /\ Top \in nodes
      /\ Top \in Visiting
      /\ Len(path) \in DOMAIN path
      /\ Dependency = deps[Top][next[Top]]
      /\ Settled(Dependency)
  BY Examined DEF WalkInv, Advance, Examining, Dependency, Settled
<1>3. UNCHANGED <<Visited, Visiting>>
  BY <1>1 DEF Visited, Visiting
<1>4. Sorted'
  BY <1>1, <1>2, <1>3 DEF WalkInv, Sorted, graph
<1>5. Frames'
  <2> SUFFICES ASSUME NEW n \in Visiting, NEW j \in 1 .. next'[n] - 1,
                      j \in DOMAIN deps[n]
               PROVE  Settled(deps[n][j])
    BY <1>1, <1>3 DEF Frames, Settled, graph
  <2>1. n \in nodes
    BY <1>1 DEF Visiting, Range
  <2>2. CASE n = Top /\ j = next[Top]
    BY <1>2, <2>2
  <2>3. CASE ~(n = Top /\ j = next[Top])
    <3>1. next[n] \in Nat /\ next'[n] = IF n = Top THEN next[n] + 1 ELSE next[n]
      BY <1>1, <2>1
    <3>2. j \in 1 .. next[n] - 1
      BY <2>3, <3>1
    <3> QED
      BY <3>2 DEF WalkInv, Frames
  <2> QED
    BY <2>2, <2>3
<1>6. Chain'
  <2> SUFFICES ASSUME NEW k \in 1 .. Len(path) - 1
               PROVE  next'[path[k]] = next[path[k]]
    BY <1>1 DEF WalkInv, Chain, graph
  <2>1. path[k] # Top /\ path[k] \in nodes
    BY <1>1, <1>2 DEF WalkInv, Sorted, Top
  <2> QED
    BY <1>1, <2>1
<1> QED
  BY <1>4, <1>5, <1>6

\* The innermost frame returns.
LEMMA LeaveKeeps ==
  WalkInv /\ Leave => Sorted' /\ Frames' /\ Chain' /\ Ordered' /\ PlacedOnce'
<1> SUFFICES ASSUME WalkInv, Leave
             PROVE  Sorted' /\ Frames' /\ Chain' /\ Ordered' /\ PlacedOnce'
  OBVIOUS
<1>1. /\ UNCHANGED <<strict, nodes, deps, roots, next>>
      /\ path' = SubSeq(path, 1, Len(path) - 1)
      /\ order' = Append(order, Top)
      /\ path # <<>>
      /\ path \in Seq(nodes)
      /\ order \in Seq(nodes)
      /\ Len(order) \in Nat
      /\ DOMAIN order = 1 .. Len(order)
      /\ DOMAIN path = 1 .. Len(path)
  BY DEF Leave, WalkInv, TypeOK, graph
<1>2. Top \in nodes /\ Top \in Visiting /\ deps[Top] \in Seq(Ids) /\ next[Top] \in Nat \ {0}
  BY <1>1, Examined DEF WalkInv
<1>3. /\ Len(path) \in Nat \ {0}
      /\ Len(path') = Len(path) - 1
      /\ DOMAIN path' = 1 .. Len(path) - 1
      /\ \A i \in 1 .. Len(path) - 1 : path'[i] = path[i]
      /\ Range(path) = Range(path') \cup {path[Len(path)]}
  BY <1>1, FrontFacts
<1>4. /\ DOMAIN order' = 1 .. Len(order) + 1
      /\ \A i \in 1 .. Len(order) : order'[i] = order[i]
      /\ order'[Len(order) + 1] = Top
      /\ Range(order') = Range(order) \cup {Top}
  BY <1>1, <1>2, AppendFacts
<1>5. /\ Visited' = Visited \cup {Top}
      /\ Visiting = Visiting' \cup {Top}
      /\ Visited \cap Visiting = {}
      /\ Visited \cup Visiting \cup Range(roots) = nodes
  BY <1>3, <1>4 DEF Visited, Visiting, WalkInv, Sorted, Top
<1>6. Top \notin Visiting'
  <2>1. \A i \in DOMAIN path' : path'[i] # Top
    BY <1>1, <1>3 DEF WalkInv, Sorted, Top
  <2> QED
    BY <2>1 DEF Visiting, Range
<1>7. Sorted'
  <2>1. \A i, j \in DOMAIN path' : path'[i] = path'[j] => i = j
    BY <1>1, <1>3 DEF WalkInv, Sorted
  <2>2. \A n \in nodes : n \notin Visited' \cup Visiting' => next[n] = 1
    BY <1>5 DEF WalkInv, Sorted
  <2>3. Visited' \cup Visiting' \cup Range(roots) = nodes /\ Visited' \cap Visiting' = {}
    BY <1>5, <1>6
  <2> QED
    BY <1>1, <2>1, <2>2, <2>3 DEF Sorted
<1>8. Frames'
  <2> SUFFICES ASSUME NEW n \in Visiting', NEW j \in 1 .. next[n] - 1,
                      j \in DOMAIN deps[n]
               PROVE  deps[n][j] \in Visited' \/ (deps[n][j] \notin nodes /\ ~strict)
    BY <1>1 DEF Frames, Settled
  <2> QED
    BY <1>5 DEF WalkInv, Frames, Settled
<1>9. Chain'
  <2> SUFFICES ASSUME NEW k \in 1 .. Len(path) - 2
               PROVE  /\ next[path[k]] \in DOMAIN deps[path[k]]
                      /\ deps[path[k]][next[path[k]]] = path[k + 1]
    BY <1>1, <1>3 DEF Chain
  <2>1. k \in 1 .. Len(path) - 1
    BY <1>3
  <2> QED
    BY <2>1 DEF WalkInv, Chain
<1>10. \A d \in Needs(Top) : Settled(d)
  <2> SUFFICES ASSUME NEW j \in DOMAIN deps[Top]
               PROVE  Settled(deps[Top][j])
    BY DEF Needs, Range
  <2>1. next[Top] > Len(deps[Top])
    BY DEF Leave
  <2>2. j \in 1 .. next[Top] - 1
    BY <1>2, <2>1
  <2> QED
    BY <1>2, <2>2 DEF WalkInv, Frames
<1>11. Ordered'
  <2> SUFFICES ASSUME NEW i \in DOMAIN order', NEW d \in Needs(order'[i])
               PROVE  \/ \E j \in 1 .. i - 1 : order'[j] = d
                      \/ d \notin nodes /\ ~strict
    BY <1>1 DEF Ordered, Needs
  <2>1. CASE i = Len(order) + 1
    <3>1. Settled(d)
      BY <1>4, <1>10, <2>1
    <3>2. CASE d \in Visited
      <4>1. PICK j \in DOMAIN order : order[j] = d
        BY <3>2 DEF Visited, Range
      <4>2. j \in 1 .. i - 1 /\ order'[j] = d
        BY <1>1, <1>4, <2>1, <4>1
      <4> QED
        BY <4>2
    <3> QED
      BY <3>1, <3>2 DEF Settled
  <2>2. CASE i \in 1 .. Len(order)
    <3>1. /\ order'[i] = order[i]
          /\ i \in DOMAIN order
          /\ \A j \in 1 .. i - 1 : order'[j] = order[j]
      BY <1>1, <1>4, <2>2
    <3> QED
      BY <3>1 DEF WalkInv, Ordered
  <2> QED
    BY <1>1, <1>4, <2>1, <2>2
<1>12. PlacedOnce'
  <2>1. \A i \in DOMAIN order : order[i] # Top
    BY <1>2, <1>5 DEF Visited, Range
  <2> QED
    BY <1>1, <1>4, <2>1 DEF WalkInv, PlacedOnce
<1> QED
  BY <1>7, <1>8, <1>9, <1>11, <1>12

\* The two ends of a walk with a statement of their own.
LEMMA CycleIsReal == WalkInv /\ FailCircular => RealCycle'
<1> SUFFICES ASSUME WalkInv, FailCircular PROVE RealCycle'
  OBVIOUS
<1>1. /\ UNCHANGED <<nodes, deps, path, next>>
      /\ path # <<>>
      /\ path \in Seq(nodes)
      /\ Len(path) \in Nat
      /\ DOMAIN path = 1 .. Len(path)
  BY DEF FailCircular, Examining, WalkInv, TypeOK, graph
<1>2. Dependency \in Needs(Top) /\ Len(path) \in DOMAIN path
  BY <1>1, Examined DEF WalkInv, FailCircular, Examining
<1>3. PICK k \in DOMAIN path : path[k] = Dependency
  BY DEF FailCircular, Visiting, Range
<1>4. ASSUME NEW l \in k .. Len(path)
      PROVE  (IF l = Len(path) THEN path[k] ELSE path[l + 1]) \in Needs(path[l])
  <2>1. CASE l = Len(path)
    <3>1. path[l] = Top
      BY <2>1 DEF Top
    <3>2. path[k] \in Needs(path[l])
      BY <1>2, <1>3, <3>1
    <3> QED
      BY <2>1, <3>2
  <2>2. CASE l # Len(path)
    <3>0. k \in Nat \ {0} /\ Len(path) \in Nat
      BY <1>1
    <3>1. l \in 1 .. Len(path) - 1
      BY <3>0, <2>2
    <3>2. next[path[l]] \in DOMAIN deps[path[l]] /\ deps[path[l]][next[path[l]]] = path[l + 1]
      BY <3>1 DEF WalkInv, Chain
    <3> QED
      BY <2>2, <3>2 DEF Needs, Range
  <2> QED
    BY <2>1, <2>2
<1> QED
  BY <1>1, <1>3, <1>4 DEF RealCycle, Needs

LEMMA SuccessIsComplete == WalkInv /\ Succeed => Complete'
<1> SUFFICES ASSUME WalkInv, Succeed PROVE Complete'
  OBVIOUS
<1>1. Visiting = {} /\ Range(roots) = {}
  BY DEF Succeed, Visiting, Range
<1> QED
  BY <1>1 DEF Succeed, WalkInv, Sorted, Complete, Visited, graph

LEMMA NextWalk == WalkInv /\ [Next]_vars => WalkInv'
<1> SUFFICES ASSUME WalkInv, [Next]_vars PROVE WalkInv'
  OBVIOUS
<1>0. TypeOK'
  BY NextTyped DEF WalkInv
<1>1. CASE TakeRoot
  <2>1. outcome = "running" /\ UNCHANGED <<graph, order, outcome>>
    BY <1>1 DEF TakeRoot, Enter
  <2> QED
    BY <1>0, <1>1, <2>1, RootKeeps, ResultKept DEF WalkInv
<1>2. CASE Descend
  <2>1. outcome = "running" /\ UNCHANGED <<graph, order, outcome>>
    BY <1>2 DEF Descend, Examining, Enter
  <2> QED
    BY <1>0, <1>2, <2>1, DescendKeeps, ResultKept DEF WalkInv
<1>3. CASE Advance
  <2>1. outcome = "running" /\ UNCHANGED <<graph, order, outcome>>
    BY <1>3 DEF Advance, Examining
  <2> QED
    BY <1>0, <1>3, <2>1, AdvanceKeeps, ResultKept DEF WalkInv
<1>4. CASE Leave
  <2>1. Complete' /\ RealCycle'
    BY <1>4 DEF Leave, Complete, RealCycle
  <2> QED
    BY <1>0, <1>4, <2>1, LeaveKeeps DEF WalkInv
<1>5. CASE FailMissing \/ FailCircular \/ Succeed \/ UNCHANGED vars
  <2>1. UNCHANGED <<graph, roots, path, next, order>>
    BY <1>5 DEF FailMissing, FailCircular, Succeed, vars, graph
  <2>2. Sorted' /\ Frames' /\ Chain' /\ Ordered' /\ PlacedOnce'
    BY <2>1 DEF WalkInv, Sorted, Frames, Chain, Ordered, PlacedOnce,
                Settled, Needs, Visited, Visiting, graph
  <2>3. CASE FailMissing
    BY <1>0, <2>2, <2>3 DEF FailMissing, Complete, RealCycle, WalkInv
  <2>4. CASE FailCircular
    BY <1>0, <2>2, <2>4, CycleIsReal DEF FailCircular, Complete, WalkInv
  <2>5. CASE Succeed
    BY <1>0, <2>2, <2>5, SuccessIsComplete DEF Succeed, RealCycle, WalkInv
  <2>6. CASE UNCHANGED vars
    BY <1>0, <2>2, <2>6 DEF vars, WalkInv, Complete, RealCycle, Visited, Needs
  <2> QED
    BY <1>5, <2>3, <2>4, <2>5, <2>6
<1> QED
  BY <1>1, <1>2, <1>3, <1>4, <1>5 DEF Next

LEMMA WalkInvariant == Spec => []WalkInv
  BY InitWalk, NextWalk, PTL DEF Spec

\* Modules are activated, and singletons built, after everything they need.
THEOREM WalkOrdered == Spec => []Ordered
<1>1. WalkInv => Ordered
  BY DEF WalkInv
<1> QED
  BY <1>1, WalkInvariant, PTL

\* A successful walk is a listing of the registered nodes: all, each once.
THEOREM WalkListing == Spec => []Listing
<1>1. WalkInv => Listing
  BY DEF WalkInv, Listing
<1> QED
  BY <1>1, WalkInvariant, PTL

\* An error about a cycle is about a cycle that exists.
THEOREM WalkCycles == Spec => []RealCycle
<1>1. WalkInv => RealCycle
  BY DEF WalkInv
<1> QED
  BY <1>1, WalkInvariant, PTL

\* What the walk returns is right for every finite graph: a complete list in order, or an error
\* that is true (registry.rs:535-617, graph.rs:88-144).
THEOREM WalkRight == Spec => []WalkSound
<1>1. Ordered /\ Listing /\ RealCycle => WalkSound
  BY DEF WalkSound
<1> QED
  BY <1>1, WalkOrdered, WalkListing, WalkCycles, PTL


-----------------------------------------------------------------------------
(***************************************************************************)
(* The module registry.                                                    *)
(***************************************************************************)

LEMMA RegistryStarts == RegistryInit => IsRegistry(entries)
BY DEF RegistryInit, IsRegistry

LEMMA RegistryStays == IsRegistry(entries) /\ [RegistryNext]_entries => IsRegistry(entries)'
<1>1. SUFFICES ASSUME IsRegistry(entries), [RegistryNext]_entries PROVE IsRegistry(entries)'
  OBVIOUS
<1>2. CASE RegistryNext
  <2>1. PICK m \in Modules, md \in Metadata :
               entries' = [x \in {m} \cup DOMAIN entries |-> IF x = m THEN md ELSE entries[x]]
    BY <1>2 DEF RegistryNext, RegisterModule
  <2>2. /\ DOMAIN entries' = {m} \cup DOMAIN entries
        /\ \A x \in DOMAIN entries' : entries'[x] = IF x = m THEN md ELSE entries[x]
    BY <2>1
  <2>3. md.imports \in Seq(Modules)
    BY MetadataAssumption
  <2> QED
    BY <1>1, <2>2, <2>3 DEF IsRegistry
<1>3. CASE UNCHANGED entries
  BY <1>1, <1>3 DEF IsRegistry
<1> QED
  BY <1>1, <1>2, <1>3

LEMMA RegistryHolds == RegistryInit /\ [][RegistryNext]_entries => []IsRegistry(entries)
BY RegistryStarts, RegistryStays, PTL

\* A listing without repetitions is as long as the set is large.
LEMMA AsLongAsLarge ==
  ASSUME NEW S, NEW s \in Seq(S), S \subseteq ToSet(s), \A j, k \in 1..Len(s) : s[j] = s[k] => j = k
  PROVE  Len(s) = Cardinality(S)
<1> DEFINE I == 1..Len(s)
           f == [i \in I |-> s[i]]
<1>1. Len(s) \in Nat /\ ToSet(s) = S /\ \A i \in I : s[i] \in S
  BY InSet
<1>2. \A x \in S : \E i \in I : s[i] = x
  BY <1>1, InSet
<1> HIDE DEF I
<1>3. \A j, k \in I : s[j] = s[k] => j = k
  BY DEF I
<1>4. f \in [I -> S] /\ \A i \in I : f[i] = s[i]
  BY <1>1
<1>5. f \in Bijection(I, S)
  <2> HIDE DEF f
  <2> QED
    BY <1>2, <1>3, <1>4 DEF Bijection, Injection, Surjection, IsInjective
<1>6. IsFiniteSet(I) /\ Cardinality(I) = Len(s)
  <2>1. IsFiniteSet(I) /\ Cardinality(I) = IF 1 > Len(s) THEN 0 ELSE Len(s) - 1 + 1
    BY <1>1, FS_Interval DEF I
  <2> QED
    BY <1>1, <2>1
<1> HIDE DEF f
<1>7. Cardinality(S) = Cardinality(I)
  BY <1>5, <1>6, FS_Bijection DEF ExistsBijection
<1> QED
  BY <1>6, <1>7

LEMMA Prefixed ==
  ASSUME NEW S, NEW s \in Seq(S), NEW j \in 1..Len(s), NEW k \in 1..Len(s), k < j
  PROVE  s[k] \in ToSet(SubSeq(s, 1, j - 1))
<1> DEFINE p == SubSeq(s, 1, j - 1)
<1>1. Len(s) \in Nat /\ j - 1 \in 1..Len(s) /\ k \in 1..j - 1
  OBVIOUS
<1>2. p \in Seq(S) /\ Len(p) = j - 1 /\ p[k] = s[k]
  BY <1>1
<1> HIDE DEF p
<1>3. p[k] \in ToSet(p)
  BY <1>1, <1>2, InSet
<1> QED
  BY <1>2, <1>3 DEF p

LEMMA OrderOfRegistry == IsRegistry(entries) => OrderSound
<1> SUFFICES ASSUME IsRegistry(entries) PROVE OrderSound
  OBVIOUS
<1> DEFINE D == DOMAIN entries
           r == ResolveOrder(entries)
           o == r.value
<1>1. Resolved(entries, r)
  BY OrderResolved
<1>2. \A m : Imports(m) = ImportsOf(entries, m)
  BY DEF Imports, ImportsOf
<1>3. (Missing <=> SomeMissing(entries)) /\ (Cyclic <=> SomeCycle(entries))
  BY <1>2 DEF Missing, SomeMissing, Cyclic, SomeCycle
<1> HIDE DEF r
<1>4. ASSUME IsOk(r)
      PROVE  /\ Len(o) = Cardinality(D) /\ ~Missing /\ ~Cyclic
             /\ \A m \in D : \E i \in DOMAIN o : o[i] = m /\ Imports(m) \subseteq ToSet(SubSeq(o, 1, i - 1))
  <2>1. Arranged(entries, o) /\ D \subseteq ToSet(o)
    BY <1>1, <1>4 DEF Resolved
  <2>2. o \in Seq(D) /\ DOMAIN o = 1..Len(o) /\ \A j, k \in 1..Len(o) : o[j] = o[k] => j = k
    BY <2>1 DEF Arranged
  <2>3. Len(o) = Cardinality(D)
    BY <2>1, <2>2, AsLongAsLarge
  <2>4. ~Missing /\ ~Cyclic
    BY <1>3, <2>1, OrderRefutes
  <2>5. ASSUME NEW m \in D
        PROVE  \E i \in DOMAIN o : o[i] = m /\ Imports(m) \subseteq ToSet(SubSeq(o, 1, i - 1))
    <3>1. PICK j \in 1..Len(o) : o[j] = m
      BY <2>1, <2>2, InSet
    <3>2. ASSUME NEW i \in Imports(m) PROVE i \in ToSet(SubSeq(o, 1, j - 1))
      <4>1. PICK k \in 1..Len(o) : o[k] = i /\ k < j
        BY <1>2, <2>1, <3>1, <3>2 DEF Arranged
      <4> QED
        BY <2>2, <4>1, Prefixed
    <3> QED
      BY <2>2, <3>1, <3>2
  <2> QED
    BY <2>3, <2>4, <2>5
<1>5. ASSUME ~IsOk(r)
      PROVE  (r.error = "missing" => Missing) /\ (r.error = "circular" => Cyclic) /\ (Missing \/ Cyclic)
  BY <1>1, <1>3, <1>5 DEF Resolved, TrueErrors
<1>6. IsOk(r) => r.error = "none"
  BY DEF IsOk
<1> QED
  BY <1>4, <1>5, <1>6 DEF OrderSound, r

LEMMA VisibilityOfRegistry == IsRegistry(entries) => VisibilitySound
<1> SUFFICES ASSUME IsRegistry(entries) PROVE VisibilitySound
  OBVIOUS
<1>1. SurfaceProvided
  <2>1. SUFFICES ASSUME NEW m \in DOMAIN entries, IsOk(PublicSurface(entries, m)),
                        NEW T \in PublicSurface(entries, m).value, ~Provided(m, T)
                 PROVE  FALSE
    BY DEF SurfaceProvided
  <2>2. PICK S \in SUBSET DOMAIN entries :
          /\ m \in S
          /\ \A n \in S : /\ T \notin entries[n].provides
                          /\ \A i \in Imports(n) :
                               i \in DOMAIN entries /\ T \in entries[i].exports => i \in S
    BY <2>1 DEF Provided
  <2>3. Unprovided(entries, T, S)
    BY <2>2 DEF Unprovided, Imports, ImportsOf
  <2> QED
    BY <2>1, <2>2, <2>3, ExportsProvided
<1>2. SeenIsSeeded
  BY SeenIs DEF SeenIsSeeded
<1> QED
  BY <1>1, <1>2 DEF VisibilitySound

\* The activation order names every registered module once and after all its imports, and is refused
\* exactly when an import is missing or a ring exists, for any modules registered with any metadata
\* and in any order (registry.rs:535-617).
THEOREM RegistryOrder == RegistryInit /\ [][RegistryNext]_entries => []OrderSound
BY RegistryHolds, OrderOfRegistry, PTL

\* Nothing is offered that nobody provides, and a module sees what its import sources offer, for any
\* modules registered with any metadata and in any order (registry.rs:223-342, :384-413).
THEOREM RegistryVisibility == RegistryInit /\ [][RegistryNext]_entries => []VisibilitySound
BY RegistryHolds, VisibilityOfRegistry, PTL

(***************************************************************************)
(* Charts: the document as it is written and the parser that reads it.     *)
(***************************************************************************)
ChartNames == ToSet(ChartIds)
Attributes == InitialAttrs \cup {NoId}

StateRecords ==
  [type : {"Atomic", "Compound", "Parallel", "Final"}, parent : ChartNames \cup {NoId},
   children : Seq(ChartNames), initial : Attributes, transitions : Seq(TransitionElements)]

ParserStates ==
  [parent_stack : Seq(ChartNames), current : ChartNames \cup {NoId},
   states : UNION {[S -> StateRecords] : S \in SUBSET ChartNames},
   top_level : Seq(ChartNames), initial : Attributes]

\* States are declared in the order of their identifiers.
Declared == DOMAIN parser.states
FirstIds(n) == {ChartIds[i] : i \in 1..n}

ParserTyped ==
  /\ parser \in ParserStates
  /\ \E n \in 0..Len(ChartIds) : Declared = FirstIds(n)
  /\ ToSet(parser.top_level) \subseteq Declared

Regions == {"state", "parallel"}

Elements == [kind : {"state", "parallel", "final"}, id : ChartNames]

Texts == [kind : {"state", "parallel", "final"}, parent : ChartNames \cup {NoId},
          transitions : Seq(TransitionElements), initial : Seq(TransitionElements),
          history : Seq(TransitionElements)]

\* How many of the open elements are regions; a final state has none inside.
Depth == IF source.open # <<>> /\ Last(source.open).kind \notin Regions
           THEN Len(source.open) - 1 ELSE Len(source.open)

\* While a document is read the parser's stack holds the regions that are open.
Nested ==
  /\ source.open \in Seq(Elements) /\ source.left \in Nat
  /\ DOMAIN source = {"open", "inside", "left"}
  /\ source.inside \in [Declared -> Texts]
  /\ \A i \in 1..Depth : source.open[i].kind \in Regions /\ source.open[i].id \in Declared
  /\ parser.parent_stack = [i \in 1..Depth |-> source.open[i].id]
  /\ parser.current = Parent

\* What is kept, and that only declared states enclose others.
Kept ==
  /\ DocumentKept
  /\ \A s \in Declared : parser.states[s].parent \in Declared \cup {NoId}

LEMMA StatesTyped ==
  ASSUME ParserTyped
  PROVE  /\ parser.states \in [Declared -> StateRecords] /\ Declared \subseteq ChartNames
         /\ parser.parent_stack \in Seq(ChartNames) /\ parser.current \in ChartNames \cup {NoId}
         /\ parser.top_level \in Seq(ChartNames) /\ parser.initial \in Attributes
<1>1. PICK S \in SUBSET ChartNames : parser.states \in [S -> StateRecords]
  BY DEF ParserTyped, ParserStates
<1>2. Declared = S
  BY <1>1 DEF Declared
<1> QED
  BY <1>1, <1>2 DEF ParserTyped, ParserStates

\* As many states are declared as identifiers are used, so the next one is new.
LEMMA FirstIdsCount ==
  ASSUME NEW n \in 0..Len(ChartIds)
  PROVE  IsFiniteSet(FirstIds(n)) /\ Cardinality(FirstIds(n)) = n /\ FirstIds(n) \subseteq ChartNames
<1> DEFINE f == [i \in 1..n |-> ChartIds[i]]
<1>1. ChartIds \in Seq(ChartNames) /\ n \in Nat /\ \A i, j \in DOMAIN ChartIds : ChartIds[i] = ChartIds[j] => i = j
  BY ChartsAssumption DEF ChartNames
<1>2. \A i \in 1..n : i \in DOMAIN ChartIds
  BY <1>1
<1>3. f \in [1..n -> FirstIds(n)] /\ \A i, j \in 1..n : f[i] = f[j] => i = j
  BY <1>1, <1>2 DEF FirstIds
<1>4. \A x \in FirstIds(n) : \E i \in 1..n : f[i] = x
  BY DEF FirstIds
<1>5. ExistsBijection(1..n, FirstIds(n))
  <2> HIDE DEF f
  <2> QED
    BY <1>3, <1>4 DEF ExistsBijection, Bijection, Injection, Surjection, IsInjective
<1>6. IsFiniteSet(FirstIds(n))
  BY <1>1, <1>5, FS_NatBijection
<1>7. FirstIds(n) \subseteq ChartNames
  BY <1>1, <1>2 DEF FirstIds
<1> QED
  BY <1>1, <1>5, <1>6, <1>7, FS_CountingElements

LEMMA FreshIsNew ==
  ASSUME ParserTyped, Cardinality(Declared) < Len(ChartIds)
  PROVE  /\ Fresh \in ChartNames \ Declared /\ Fresh # NoId
         /\ \E n \in 0..Len(ChartIds) : Declared \cup {Fresh} = FirstIds(n)
<1>1. PICK n \in 0..Len(ChartIds) : Declared = FirstIds(n)
  BY DEF ParserTyped
<1>2. Cardinality(Declared) = n /\ n \in Nat /\ n < Len(ChartIds)
  BY <1>1, FirstIdsCount
<1>3. Len(ChartIds) \in Nat /\ DOMAIN ChartIds = 1..Len(ChartIds) /\ n + 1 \in 1..Len(ChartIds)
  BY <1>2, ChartsAssumption
<1>4. Fresh = ChartIds[n + 1]
  BY <1>2 DEF Fresh, Declared
<1>5. Fresh \in ChartNames
  BY <1>3, <1>4, ChartsAssumption DEF ChartNames
<1>6. \A i \in 1..n : i \in DOMAIN ChartIds /\ i # n + 1
  BY <1>2, <1>3
<1>7. Fresh \notin Declared
  BY <1>1, <1>3, <1>4, <1>6, ChartsAssumption DEF FirstIds
<1>8. FirstIds(n + 1) = FirstIds(n) \cup {ChartIds[n + 1]}
  <2>1. \A i \in Nat : i \in 1..n + 1 <=> i \in 1..n \/ i = n + 1
    BY <1>2
  <2> QED
    BY <2>1 DEF FirstIds
<1>9. n + 1 \in 0..Len(ChartIds)
  BY <1>3
<1>10. NoId \notin ChartNames
  BY ChartsAssumption DEF ChartNames
<1> QED
  BY <1>1, <1>4, <1>5, <1>7, <1>8, <1>9, <1>10

\* What the innermost region encloses is its own.
LEMMA OwnerIsParent ==
  ASSUME ParserTyped, Nested
  PROVE  /\ Owner = Parent /\ Depth \in Nat /\ Len(parser.parent_stack) = Depth
         /\ Parent = IF Depth = 0 THEN NoId ELSE source.open[Depth].id
         /\ Depth # 0 => Parent \in Declared
<1> DEFINE open == source.open
           regions == {i \in DOMAIN open : open[i].kind \in Regions}
<1>1. open \in Seq(Elements) /\ Len(open) \in Nat /\ DOMAIN open = 1..Len(open)
  BY DEF Nested
<1>2. Depth \in Nat /\ (Depth = Len(open) \/ (Depth = Len(open) - 1 /\ open[Len(open)].kind \notin Regions))
  BY <1>1 DEF Depth, Last
<1>3. regions = 1..Depth
  BY <1>1, <1>2 DEF Nested
<1>4. Len(parser.parent_stack) = Depth /\ \A i \in 1..Depth : parser.parent_stack[i] = open[i].id
  BY <1>2 DEF Nested
<1>5. Parent = IF Depth = 0 THEN NoId ELSE open[Depth].id
  <2>1. parser.parent_stack = <<>> <=> Depth = 0
    BY <1>2, <1>4, StatesTyped
  <2>2. Depth # 0 => Depth \in 1..Depth
    BY <1>2
  <2> QED
    BY <1>4, <2>1, <2>2 DEF Parent, Last
<1>6. Owner = IF Depth = 0 THEN NoId ELSE open[Depth].id
  <2>1. Owner = IF regions = {} THEN NoId ELSE open[CHOOSE i \in regions : \A k \in regions : k <= i].id
    BY DEF Owner, Regions
  <2>2. CASE Depth = 0
    BY <1>2, <1>3, <2>1, <2>2
  <2>3. CASE Depth # 0
    <3>1. Depth \in regions /\ \A k \in regions : k <= Depth
      BY <1>2, <1>3, <2>3
    <3>2. (CHOOSE i \in regions : \A k \in regions : k <= i) \in regions
          /\ \A k \in regions : k <= (CHOOSE i \in regions : \A k2 \in regions : k2 <= i)
      <4> HIDE DEF regions
      <4> QED
        BY <3>1
    <3> DEFINE c == CHOOSE i \in regions : \A k \in regions : k <= i
    <3>3. c \in 1..Depth /\ Depth <= c
      BY <1>3, <3>1, <3>2
    <3>4. c = Depth
      <4> HIDE DEF c
      <4> QED
        BY <1>2, <3>3
    <3> QED
      BY <2>1, <2>3, <3>1, <3>4
  <2> QED
    BY <2>2, <2>3
<1>7. Depth # 0 => open[Depth].id \in Declared
  BY <1>2 DEF Nested
<1> QED
  BY <1>2, <1>4, <1>5, <1>6, <1>7

\* The children that the declaration gives to a state.
Gained(s) == IF s = Parent THEN {Fresh} ELSE {}

\* A declared state is added to the states; the one around it gets a child.
LEMMA Declares ==
  ASSUME ParserTyped, Nested, Cardinality(Declared) < Len(ChartIds),
         NEW st \in StateRecords, NEW d, d = Declare(Fresh, st)
  PROVE  /\ d \in ParserStates /\ DOMAIN d.states = Declared \cup {Fresh}
         /\ ToSet(d.top_level) \subseteq Declared \cup {Fresh}
         /\ d.states[Fresh] = st
         /\ \A s \in Declared : /\ d.states[s].parent = parser.states[s].parent
                                /\ d.states[s].transitions = parser.states[s].transitions
                                /\ ToSet(d.states[s].children) = ToSet(parser.states[s].children)
                                     \cup Gained(s)
                                /\ d.states[s].type = IF s = Parent /\ parser.states[s].type = "Atomic"
                                                      THEN "Compound" ELSE parser.states[s].type
         /\ d.parent_stack = parser.parent_stack /\ d.current = parser.current
<1>1. /\ parser.states \in [Declared -> StateRecords] /\ Declared \subseteq ChartNames
      /\ parser.top_level \in Seq(ChartNames) /\ parser \in ParserStates
  BY StatesTyped DEF ParserTyped
<1>2. Fresh \in ChartNames \ Declared
  BY FreshIsNew
<1> DEFINE more == [s \in DOMAIN parser.states \cup {Fresh} |->
                      IF s = Fresh THEN st
                      ELSE IF s # Parent THEN parser.states[s]
                      ELSE [parser.states[s] EXCEPT
                              !.children = Append(@, Fresh),
                              !.type = IF @ = "Atomic" THEN "Compound" ELSE @]]
           tops == IF Parent = NoId THEN Append(parser.top_level, Fresh) ELSE parser.top_level
<1>3. d = [parser EXCEPT !.states = more, !.top_level = tops]
  BY DEF Declare
<1>4. DOMAIN more = Declared \cup {Fresh}
  BY DEF Declared
<1>5. \A s \in Declared : /\ more[s] \in StateRecords
                          /\ more[s].parent = parser.states[s].parent
                          /\ more[s].transitions = parser.states[s].transitions
                          /\ ToSet(more[s].children) = ToSet(parser.states[s].children)
                               \cup Gained(s)
                          /\ more[s].type = IF s = Parent /\ parser.states[s].type = "Atomic"
                                            THEN "Compound" ELSE parser.states[s].type
  <2>1. SUFFICES ASSUME NEW s \in Declared
                 PROVE  /\ more[s] \in StateRecords
                        /\ more[s].parent = parser.states[s].parent
                        /\ more[s].transitions = parser.states[s].transitions
                        /\ ToSet(more[s].children) = ToSet(parser.states[s].children)
                             \cup Gained(s)
                        /\ more[s].type = IF s = Parent /\ parser.states[s].type = "Atomic"
                                          THEN "Compound" ELSE parser.states[s].type
    OBVIOUS
  <2>2. parser.states[s] \in StateRecords
    BY <1>1
  <2>3. more[s] = IF s # Parent THEN parser.states[s]
                  ELSE [parser.states[s] EXCEPT
                          !.children = Append(@, Fresh),
                          !.type = IF @ = "Atomic" THEN "Compound" ELSE @]
    BY <1>2 DEF Declared
  <2> HIDE DEF more
  <2>4. Append(parser.states[s].children, Fresh) \in Seq(ChartNames)
    BY <1>2, <2>2 DEF StateRecords
  <2>5. ToSet(Append(parser.states[s].children, Fresh)) = ToSet(parser.states[s].children) \cup {Fresh}
    BY <1>2, <2>2, OneMore DEF StateRecords
  <2>6. /\ more[s].children = IF s = Parent THEN Append(parser.states[s].children, Fresh)
                             ELSE parser.states[s].children
        /\ more[s].type = IF s = Parent /\ parser.states[s].type = "Atomic"
                          THEN "Compound" ELSE parser.states[s].type
    BY <2>2, <2>3, <2>4 DEF StateRecords
  <2>7. more[s] \in StateRecords /\ more[s].parent = parser.states[s].parent
        /\ more[s].transitions = parser.states[s].transitions
    BY <2>2, <2>3, <2>4 DEF StateRecords
  <2>8. CASE s = Parent
    BY <2>5, <2>6, <2>7, <2>8 DEF Gained
  <2>9. CASE s # Parent
    BY <2>6, <2>7, <2>9 DEF Gained
  <2> QED
    BY <2>8, <2>9
<1>6. more[Fresh] = st
  OBVIOUS
<1>7. more \in [Declared \cup {Fresh} -> StateRecords]
  <2>1. more = [s \in Declared \cup {Fresh} |-> more[s]]
    BY DEF Declared
  <2> HIDE DEF more
  <2> QED
    BY <1>5, <1>6, <2>1
<1>8. tops \in Seq(ChartNames) /\ ToSet(tops) \subseteq Declared \cup {Fresh}
  <2>1. ToSet(parser.top_level) \subseteq Declared
    BY DEF ParserTyped
  <2>2. ToSet(Append(parser.top_level, Fresh)) = ToSet(parser.top_level) \cup {Fresh}
    BY <1>1, <1>2, OneMore
  <2> QED
    BY <1>1, <1>2, <2>1, <2>2
<1>9. Declared \cup {Fresh} \in SUBSET ChartNames
  BY <1>1, <1>2
<1> HIDE DEF more, tops
<1>10. more \in UNION {[S -> StateRecords] : S \in SUBSET ChartNames}
  BY <1>7, <1>9
<1>11. d \in ParserStates
  <2> DEFINE U == UNION {[S -> StateRecords] : S \in SUBSET ChartNames}
  <2>1. ParserStates = [parent_stack : Seq(ChartNames), current : ChartNames \cup {NoId}, states : U,
                        top_level : Seq(ChartNames), initial : Attributes]
    BY DEF ParserStates
  <2> HIDE DEF U
  <2> QED
    BY <1>1, <1>3, <1>8, <1>10, <2>1 DEF U
<1>12. d.states = more /\ d.top_level = tops /\ d.parent_stack = parser.parent_stack /\ d.current = parser.current
  BY <1>1, <1>3 DEF ParserStates
<1> QED
  BY <1>4, <1>5, <1>6, <1>8, <1>11, <1>12

\* What every element that declares a state leaves: types, and what was written inside.
LEMMA DeclaredAsWritten ==
  ASSUME ParserTyped, Nested, Kept, Cardinality(Declared) < Len(ChartIds),
         NEW kind \in {"state", "parallel", "final"}, NEW st \in StateRecords,
         st.parent = Parent, st.transitions = <<>>, st.children = <<>>,
         st.type = CASE kind = "final" -> "Final" [] kind = "parallel" -> "Parallel" [] OTHER -> "Atomic",
         NEW d, d = Declare(Fresh, st), parser' \in ParserStates,
         parser'.states = d.states, parser'.top_level = d.top_level,
         source'.inside = [s \in DOMAIN source.inside \cup {Fresh} |->
                             IF s = Fresh THEN Bare(kind) ELSE source.inside[s]]
  PROVE  /\ ParserTyped' /\ Kept' /\ Declared' = Declared \cup {Fresh}
         /\ source'.inside \in [Declared' -> Texts]
<1>1. /\ d.states[Fresh] = st /\ DOMAIN d.states = Declared \cup {Fresh}
      /\ ToSet(d.top_level) \subseteq Declared \cup {Fresh}
      /\ \A s \in Declared : /\ d.states[s].parent = parser.states[s].parent
                             /\ d.states[s].transitions = parser.states[s].transitions
                             /\ ToSet(d.states[s].children) = ToSet(parser.states[s].children)
                                  \cup Gained(s)
                             /\ d.states[s].type = IF s = Parent /\ parser.states[s].type = "Atomic"
                                                   THEN "Compound" ELSE parser.states[s].type
  BY Declares
<1>2. Declared' = Declared \cup {Fresh}
  BY <1>1 DEF Declared
<1>3. ParserTyped'
  BY <1>1, <1>2, FreshIsNew DEF ParserTyped
<1>4. DOMAIN source.inside = Declared /\ Fresh \notin Declared /\ Fresh # NoId
  BY FreshIsNew DEF Nested
<1>5. Owner = Parent /\ Owner \in Declared \cup {NoId} /\ Owner \in ChartNames \cup {NoId}
  BY OwnerIsParent, StatesTyped
<1>6. /\ Bare(kind) \in Texts /\ Bare(kind).kind = kind /\ Bare(kind).parent = Parent
      /\ Bare(kind).transitions = <<>> /\ Bare(kind).initial = <<>> /\ Bare(kind).history = <<>>
  BY <1>5 DEF Bare, Texts
<1>7. source'.inside \in [Declared' -> Texts]
  BY <1>2, <1>4, <1>6 DEF Nested
<1> DEFINE was == source.inside
           now == source'.inside
<1>8. /\ DOMAIN now = Declared \cup {Fresh} /\ now[Fresh] = Bare(kind)
      /\ \A s \in Declared : now[s] = was[s]
  BY <1>4
<1>9. /\ \A s \in Declared : KeptAsWritten(s)
      /\ \A s \in Declared : parser.states[s].parent \in Declared \cup {NoId}
  BY <1>4 DEF Kept, DocumentKept
<1>10. \A s \in Declared : was[s].parent \in Declared \cup {NoId}
  BY <1>9 DEF KeptAsWritten
<1> DEFINE inner(s) == {c \in Declared : was[c].parent = s}
           within(s) == {c \in DOMAIN now : now[c].parent = s}
<1>11. /\ within(Fresh) = {}
       /\ \A s \in Declared : within(s) = inner(s) \cup Gained(s)
  <2>1. within(Fresh) = {}
    BY <1>4, <1>5, <1>6, <1>8, <1>10
  <2>2. ASSUME NEW s \in Declared PROVE within(s) = inner(s) \cup Gained(s)
    BY <1>4, <1>6, <1>8 DEF Gained
  <2> QED
    BY <2>1, <2>2
<1> HIDE DEF now, was, within, inner
<1>12. ASSUME NEW s \in Declared PROVE KeptAsWritten(s)'
  <2> DEFINE read == parser.states[s]
             text == was[s]
  <2>1. /\ read.parent = text.parent /\ ToSet(read.children) = inner(s)
        /\ read.type = CASE text.kind = "final" -> "Final"
                         [] text.kind = "parallel" -> "Parallel"
                         [] text.kind = "state" /\ inner(s) # {} -> "Compound"
                         [] OTHER -> "Atomic"
        /\ text.initial = <<>> /\ text.history = <<>> => read.transitions = text.transitions
        /\ Len(read.transitions) = Len(text.transitions) + Len(text.initial) + Len(text.history)
        /\ ToSet(text.transitions) \subseteq ToSet(read.transitions)
    BY <1>4, <1>9, <1>12 DEF KeptAsWritten, inner, was
  <2>2. text.kind \in {"state", "parallel", "final"}
    <3>1. text \in Texts
      BY <1>12 DEF Nested, was
    <3> QED
      BY <3>1 DEF Texts
  <2> DEFINE read2 == d.states[s]
  <2>3. /\ read2.parent = text.parent /\ ToSet(read2.children) = within(s)
        /\ read2.transitions = read.transitions
    <3>1. read.parent = text.parent /\ ToSet(read.children) = inner(s)
      BY <2>1
    <3> HIDE DEF text
    <3> QED
      BY <1>1, <1>11, <1>12, <3>1
  <2>4. read2.type = CASE text.kind = "final" -> "Final"
                       [] text.kind = "parallel" -> "Parallel"
                       [] text.kind = "state" /\ within(s) # {} -> "Compound"
                       [] OTHER -> "Atomic"
    <3>1. read2.type = IF s = Parent /\ read.type = "Atomic" THEN "Compound" ELSE read.type
      BY <1>1, <1>12
    <3>2. within(s) # {} <=> s = Parent \/ inner(s) # {}
      BY <1>11, <1>12 DEF Gained
    <3> HIDE DEF read, read2, text
    <3>3. CASE text.kind = "state"
      BY <2>1, <3>1, <3>2, <3>3
    <3>4. CASE text.kind = "parallel"
      BY <2>1, <3>1, <3>4
    <3>5. CASE text.kind = "final"
      BY <2>1, <3>1, <3>5
    <3> QED
      BY <2>2, <3>3, <3>4, <3>5
  <2>5. now[s] = text
    BY <1>8, <1>12 DEF was
  <2> HIDE DEF read, read2, text
  <2>6. /\ read2.parent = now[s].parent /\ ToSet(read2.children) = within(s)
        /\ read2.type = CASE now[s].kind = "final" -> "Final"
                         [] now[s].kind = "parallel" -> "Parallel"
                         [] now[s].kind = "state" /\ within(s) # {} -> "Compound"
                         [] OTHER -> "Atomic"
        /\ now[s].initial = <<>> /\ now[s].history = <<>> => read2.transitions = now[s].transitions
        /\ Len(read2.transitions) = Len(now[s].transitions) + Len(now[s].initial) + Len(now[s].history)
        /\ ToSet(now[s].transitions) \subseteq ToSet(read2.transitions)
    BY <2>1, <2>3, <2>4, <2>5
  <2> QED
    BY <2>6 DEF KeptAsWritten, read2, within, now
<1>13. ASSUME NEW f, f = Fresh PROVE KeptAsWritten(f)'
  <2>1. /\ d.states[f] = st /\ now[f] = Bare(kind) /\ within(f) = {}
    BY <1>1, <1>8, <1>11, <1>13
  <2>2. ToSet(st.children) = {} /\ ToSet(<<>>) \subseteq ToSet(<<>>)
    BY EmptyList
  <2>3. st.type = CASE kind = "final" -> "Final"
                    [] kind = "parallel" -> "Parallel"
                    [] kind = "state" /\ within(f) # {} -> "Compound"
                    [] OTHER -> "Atomic"
    <3>1. CASE kind = "state"
      BY <2>1, <3>1
    <3>2. CASE kind = "parallel"
      BY <3>2
    <3>3. CASE kind = "final"
      BY <3>3
    <3> QED
      BY <3>1, <3>2, <3>3
  <2>4. Len(<<>>) = 0 + 0 + 0 /\ Len(<<>>) = 0
    OBVIOUS
  <2> DEFINE text == now[f]
             read == d.states[f]
  <2>5. /\ read.parent = text.parent /\ ToSet(read.children) = within(f)
        /\ read.transitions = text.transitions
        /\ Len(read.transitions) = Len(text.transitions) + Len(text.initial) + Len(text.history)
        /\ ToSet(text.transitions) \subseteq ToSet(read.transitions)
    BY <1>6, <2>1, <2>2, <2>4
  <2>6. read.type = CASE text.kind = "final" -> "Final"
                      [] text.kind = "parallel" -> "Parallel"
                      [] text.kind = "state" /\ within(f) # {} -> "Compound"
                      [] OTHER -> "Atomic"
    <3>1. read.type = st.type /\ text.kind = kind
      BY <1>6, <2>1
    <3> HIDE DEF read, text
    <3> QED
      BY <2>3, <3>1
  <2>7. parser'.states[f] = read /\ source'.inside[f] = text
        /\ {c \in DOMAIN source'.inside : source'.inside[c].parent = f} = within(f)
    BY DEF now, within
  <2> HIDE DEF read, text, now
  <2> QED
    BY <2>5, <2>6, <2>7 DEF KeptAsWritten
<1>14. Kept'
  <2>1. DOMAIN parser'.states = Declared \cup {Fresh} /\ DOMAIN source'.inside = Declared \cup {Fresh}
    BY <1>1, <1>8 DEF now
  <2>2. DocumentKept'
    BY <1>12, <1>13, <2>1 DEF DocumentKept
  <2>3. \A s \in Declared \cup {Fresh} : parser'.states[s].parent \in Declared \cup {Fresh} \cup {NoId}
    BY <1>1, <1>5, <1>9
  <2> QED
    BY <1>2, <2>2, <2>3 DEF Kept
<1> QED
  BY <1>2, <1>3, <1>7, <1>14

\* Where another element may be opened, all that are open are regions.
LEMMA MayOpenRegions ==
  ASSUME ParserTyped, Nested, Enclosing \in {"scxml", "state", "parallel"}
  PROVE  Depth = Len(source.open)
<1>1. CASE source.open = <<>>
  BY <1>1 DEF Depth
<1>2. CASE source.open # <<>>
  <2>1. Last(source.open) \in Elements
    BY <1>2 DEF Nested, Last
  <2>2. Last(source.open).kind \in {"state", "parallel", "final"}
    BY <2>1 DEF Elements
  <2>3. Last(source.open).kind \in Regions
    BY <1>2, <2>2 DEF Enclosing, Regions
  <2> QED
    BY <2>3 DEF Depth
<1> QED
  BY <1>1, <1>2

LEMMA AppendedElement ==
  ASSUME NEW open \in Seq(Elements), NEW x \in Elements
  PROVE  /\ Append(open, x) \in Seq(Elements) /\ Append(open, x) # <<>> /\ Last(Append(open, x)) = x
         /\ Len(Append(open, x)) = Len(open) + 1 /\ Len(open) \in Nat
         /\ \A i \in 1..Len(open) : Append(open, x)[i] = open[i]
         /\ Append(open, x)[Len(open) + 1] = x
BY DEF Last

LEMMA RegionRead ==
  ASSUME ParserTyped, Nested, Kept, MayOpen,
         NEW kind \in Regions, NEW empty \in BOOLEAN,
         NEW st \in StateRecords, st.parent = Parent, st.transitions = <<>>, st.children = <<>>,
         st.type = IF kind = "parallel" THEN "Parallel" ELSE "Atomic",
         parser' = Entering(Fresh, Declare(Fresh, st), empty), Writes(kind, empty)
  PROVE  ParserTyped' /\ Nested' /\ Kept'
<1> DEFINE d == Declare(Fresh, st)
           open == source.open
           inside == [s \in DOMAIN source.inside \cup {Fresh} |->
                        IF s = Fresh THEN Bare(kind) ELSE source.inside[s]]
<1>1. /\ Cardinality(Declared) < Len(ChartIds) /\ Enclosing \in {"scxml", "state", "parallel"}
      /\ Depth = Len(open)
  BY MayOpenRegions DEF MayOpen, Declared
<1>2. /\ d \in ParserStates /\ d.parent_stack = parser.parent_stack /\ d.current = parser.current
      /\ DOMAIN d.states = Declared \cup {Fresh}
  BY <1>1, Declares
<1>3. Fresh \in ChartNames /\ Fresh \notin Declared
  BY <1>1, FreshIsNew
<1>4. parser.parent_stack \in Seq(ChartNames) /\ Parent \in ChartNames \cup {NoId}
  BY StatesTyped, OwnerIsParent
<1>5. /\ Owner = Parent /\ Depth \in Nat /\ Len(parser.parent_stack) = Depth
      /\ open \in Seq(Elements) /\ parser.current = Parent
  BY OwnerIsParent DEF Nested
<1>6. parser' = IF empty THEN [d EXCEPT !.current = Parent]
                ELSE [d EXCEPT !.parent_stack = Append(d.parent_stack, Fresh), !.current = Fresh]
  BY DEF Entering
<1>7. source'.open = (IF empty THEN open ELSE Append(open, [kind |-> kind, id |-> Fresh]))
      /\ source'.inside = inside /\ source'.left = source.left /\ DOMAIN source' = DOMAIN source
  BY DEF Writes, Opens, Nested
<1> HIDE DEF d
<1>8. parser' \in ParserStates /\ parser'.states = d.states /\ parser'.top_level = d.top_level
  <2>1. Append(d.parent_stack, Fresh) \in Seq(ChartNames)
    BY <1>2, <1>3, <1>4
  <2> DEFINE U == UNION {[S -> StateRecords] : S \in SUBSET ChartNames}
  <2>2. ParserStates = [parent_stack : Seq(ChartNames), current : ChartNames \cup {NoId}, states : U,
                        top_level : Seq(ChartNames), initial : Attributes]
    BY DEF ParserStates
  <2> HIDE DEF U
  <2> QED
    BY <1>2, <1>3, <1>4, <1>6, <2>1, <2>2
<1>9. /\ ParserTyped' /\ Kept' /\ Declared' = Declared \cup {Fresh}
      /\ source'.inside \in [Declared' -> Texts]
  <2>1. /\ kind \in {"state", "parallel", "final"}
        /\ st.type = CASE kind = "final" -> "Final" [] kind = "parallel" -> "Parallel" [] OTHER -> "Atomic"
    BY DEF Regions
  <2>2. source'.inside = [s \in DOMAIN source.inside \cup {Fresh} |->
                             IF s = Fresh THEN Bare(kind) ELSE source.inside[s]]
    BY <1>7
  <2>3. d = Declare(Fresh, st)
    BY DEF d
  <2> HIDE DEF inside
  <2> QED
    BY <1>1, <1>8, <2>1, <2>2, <2>3, DeclaredAsWritten
<1>10. Nested'
  <2>1. CASE empty
    <3>1. parser'.parent_stack = parser.parent_stack /\ parser'.current = Parent /\ source'.open = open
      BY <1>2, <1>6, <1>7, <2>1 DEF ParserStates
    <3>2. Depth' = Depth /\ Parent' = Parent
      BY <3>1 DEF Depth, Parent
    <3> QED
      BY <1>5, <1>7, <1>9, <3>1, <3>2 DEF Nested
  <2>2. CASE ~empty
    <3> DEFINE x == [kind |-> kind, id |-> Fresh]
    <3>1. x \in Elements /\ x.kind \in Regions /\ x.id = Fresh
      BY <1>3 DEF Elements, Regions
    <3>2. /\ parser'.parent_stack = Append(parser.parent_stack, Fresh) /\ parser'.current = Fresh
          /\ source'.open = Append(open, x)
      BY <1>2, <1>6, <1>7, <2>2 DEF ParserStates
    <3> HIDE DEF x
    <3>3. Depth' = Depth + 1 /\ source'.open # <<>>
      BY <1>1, <1>5, <3>1, <3>2, AppendedElement DEF Depth
    <3>4. /\ Append(parser.parent_stack, Fresh) # <<>>
          /\ Last(Append(parser.parent_stack, Fresh)) = Fresh
      BY <1>3, <1>4 DEF Last
    <3>5. Parent' = Fresh
      BY <3>2, <3>4 DEF Parent
    <3>6. \A i \in 1..Depth + 1 : source'.open[i] = IF i = Depth + 1 THEN x ELSE open[i]
      BY <1>1, <1>5, <3>1, <3>2, AppendedElement
    <3>7. \A i \in 1..Depth + 1 : source'.open[i].kind \in Regions /\ source'.open[i].id \in Declared'
      <4>1. \A i \in 1..Depth : open[i].kind \in Regions /\ open[i].id \in Declared
        BY DEF Nested
      <4>2. \A i \in 1..Depth + 1 : i # Depth + 1 => i \in 1..Depth
        BY <1>5
      <4>3. Declared \subseteq Declared' /\ Fresh \in Declared'
        BY <1>9
      <4> QED
        BY <3>1, <3>6, <4>1, <4>2, <4>3
    <3>8. Append(parser.parent_stack, Fresh) = [i \in 1..Depth + 1 |-> source'.open[i].id]
      <4>1. \A i \in 1..Depth : parser.parent_stack[i] = open[i].id
        BY DEF Nested
      <4>2. \A i \in 1..Depth + 1 : Append(parser.parent_stack, Fresh)[i] =
               IF i = Depth + 1 THEN Fresh ELSE parser.parent_stack[i]
        BY <1>3, <1>4, <1>5
      <4>3. DOMAIN Append(parser.parent_stack, Fresh) = 1..Depth + 1
        BY <1>3, <1>4, <1>5
      <4>4. \A i \in 1..Depth + 1 : i # Depth + 1 => i \in 1..Depth
        BY <1>5
      <4>5. \A i \in 1..Depth + 1 : Append(parser.parent_stack, Fresh)[i] = source'.open[i].id
        BY <3>1, <3>6, <4>1, <4>2, <4>4
      <4>6. Append(parser.parent_stack, Fresh) \in Seq(ChartNames)
        BY <1>3, <1>4
      <4> DEFINE stack == Append(parser.parent_stack, Fresh)
      <4>7. stack = [i \in DOMAIN stack |-> stack[i]]
        BY <4>6
      <4> HIDE DEF stack
      <4> QED
        BY <4>3, <4>5, <4>7 DEF stack
    <3>9. source'.open \in Seq(Elements)
      BY <1>5, <3>1, <3>2, AppendedElement
    <3> QED
      BY <1>7, <1>9, <3>2, <3>3, <3>5, <3>7, <3>8, <3>9 DEF Nested
  <2> QED
    BY <2>1, <2>2
<1> QED
  BY <1>9, <1>10

LEMMA FinalRead ==
  ASSUME ParserTyped, Nested, Kept, ReadFinal
  PROVE  ParserTyped' /\ Nested' /\ Kept'
<1> DEFINE d == Declare(Fresh, NewState("Final", NoId))
           open == source.open
           inside == [s \in DOMAIN source.inside \cup {Fresh} |->
                        IF s = Fresh THEN Bare("final") ELSE source.inside[s]]
           x == [kind |-> "final", id |-> Fresh]
<1>1. /\ Cardinality(Declared) < Len(ChartIds) /\ Enclosing \in {"scxml", "state", "parallel"}
      /\ Depth = Len(open)
  BY MayOpenRegions DEF ReadFinal, MayOpen, Declared
<1>2. /\ Owner = Parent /\ Depth \in Nat /\ Len(parser.parent_stack) = Depth
      /\ open \in Seq(Elements) /\ parser.current = Parent /\ Parent \in ChartNames \cup {NoId}
  BY OwnerIsParent, StatesTyped DEF Nested
<1>3. Fresh \in ChartNames /\ Fresh \notin Declared
  BY <1>1, FreshIsNew
<1>4. NewState("Final", NoId) \in StateRecords
  BY <1>2 DEF NewState, StateRecords, Attributes
<1>5. /\ d \in ParserStates /\ d.parent_stack = parser.parent_stack /\ d.current = parser.current
      /\ DOMAIN d.states = Declared \cup {Fresh}
  BY <1>1, <1>4, Declares
<1>6. PICK empty \in BOOLEAN : Writes("final", empty)
  BY DEF ReadFinal
<1>7. source'.open = (IF empty THEN open ELSE Append(open, x))
      /\ source'.inside = inside /\ source'.left = source.left /\ DOMAIN source' = DOMAIN source
  BY <1>6 DEF Writes, Opens, Nested
<1>8. parser' = d
  BY DEF ReadFinal
<1>9. /\ NewState("Final", NoId).parent = Parent /\ NewState("Final", NoId).transitions = <<>>
      /\ NewState("Final", NoId).children = <<>> /\ NewState("Final", NoId).type = "Final"
  BY DEF NewState
<1> HIDE DEF d, inside
<1>10. /\ ParserTyped' /\ Kept' /\ Declared' = Declared \cup {Fresh}
       /\ source'.inside \in [Declared' -> Texts]
  BY <1>1, <1>4, <1>5, <1>7, <1>8, <1>9, DeclaredAsWritten DEF d, inside
<1>11. x \in Elements /\ x.kind \notin Regions /\ x.kind = "final"
  BY <1>3 DEF Elements, Regions
<1> HIDE DEF x
<1>12. Parent' = Parent /\ parser'.current = parser.current
  BY <1>5, <1>8 DEF Parent
<1>13. /\ Depth' = Depth /\ source'.open \in Seq(Elements)
       /\ \A i \in 1..Depth : source'.open[i] = open[i]
  <2>1. CASE empty
    BY <1>2, <1>7, <2>1 DEF Depth
  <2>2. CASE ~empty
    BY <1>1, <1>2, <1>7, <1>11, <2>2, AppendedElement DEF Depth
  <2> QED
    BY <2>1, <2>2
<1> QED
  BY <1>2, <1>5, <1>7, <1>8, <1>10, <1>12, <1>13 DEF Nested

LEMMA LongerByOne ==
  ASSUME NEW T, NEW q \in Seq(T), NEW t \in T
  PROVE  Len(Append(q, t)) = Len(q) + 1 /\ Append(q, t) # <<>> /\ Len(q) \in Nat
OBVIOUS

LEMMA KeptStays ==
  ASSUME Kept, parser'.states = parser.states, source'.inside = source.inside
  PROVE  Kept'
<1>1. ASSUME NEW id, KeptAsWritten(id) PROVE KeptAsWritten(id)'
  BY <1>1 DEF KeptAsWritten
<1> QED
  BY <1>1 DEF Kept, DocumentKept, Declared

\* The text of a state with one transition more, in itself, in its <initial> or in a <history>.
OneMoreIn(text, t) ==
  {[text EXCEPT !.transitions = Append(@, t)], [text EXCEPT !.initial = Append(@, t)],
   [text EXCEPT !.history = Append(@, t)]}

LEMMA TransitionRead ==
  ASSUME ParserTyped, Nested, Kept, Enclosing \in {"state", "parallel"}, source.left > 0,
         NEW t \in TransitionElements, GivesCurrent(t),
         NEW more \in OneMoreIn(source.inside[Owner], t),
         source' = [source EXCEPT !.inside[Owner] = more, !.left = @ - 1]
  PROVE  ParserTyped' /\ Nested' /\ Kept'
<1> DEFINE p == Parent
<1>1. Owner = p /\ parser.current = p /\ Depth \in Nat /\ (Depth # 0 => p \in Declared)
  BY OwnerIsParent DEF Nested
<1>2. Depth # 0
  <2>1. source.open # <<>>
    BY DEF Enclosing
  <2>2. source.open \in Seq(Elements) /\ Len(source.open) # 0
    BY <2>1 DEF Nested
  <2> QED
    BY <2>2, MayOpenRegions
<1>3. p \in Declared /\ p # NoId
  BY <1>1, <1>2, StatesTyped, ChartsAssumption DEF ChartNames
<1> HIDE DEF p
<1>4. /\ parser' = [parser EXCEPT !.states[p].transitions = Append(@, t)]
      /\ source' = [source EXCEPT !.inside[p] = more, !.left = @ - 1]
  BY <1>1, <1>3 DEF GivesCurrent
<1> DEFINE U == UNION {[S -> StateRecords] : S \in SUBSET ChartNames}
           state == parser.states[p]
           longer == [state EXCEPT !.transitions = Append(@, t)]
           states == [parser.states EXCEPT ![p] = longer]
           text == source.inside[p]
           inside == [source.inside EXCEPT ![p] = more]
<1>5. /\ ParserStates = [parent_stack : Seq(ChartNames), current : ChartNames \cup {NoId}, states : U,
                         top_level : Seq(ChartNames), initial : Attributes]
      /\ parser \in ParserStates
  BY DEF ParserStates, ParserTyped
<1>6. parser.states \in [Declared -> StateRecords] /\ Declared \in SUBSET ChartNames /\ state \in StateRecords
  BY <1>3, StatesTyped
<1>7. /\ source.inside \in [Declared -> Texts] /\ text \in Texts
      /\ DOMAIN source = {"open", "inside", "left"} /\ source.left \in Nat /\ source.left > 0
  BY <1>3 DEF Nested
<1>8. more \in OneMoreIn(text, t)
  BY <1>1
<1>8b. state.transitions \in Seq(TransitionElements) /\ Append(state.transitions, t) \in Seq(TransitionElements)
  BY <1>6 DEF StateRecords
<1>9. /\ longer \in StateRecords /\ longer.parent = state.parent /\ longer.children = state.children
      /\ longer.type = state.type /\ longer.transitions = Append(state.transitions, t)
  <2> HIDE DEF state
  <2> DEFINE longest == Append(state.transitions, t)
  <2>1. longest \in Seq(TransitionElements) /\ longer = [state EXCEPT !.transitions = longest]
    BY <1>8b
  <2>2. longest = Append(state.transitions, t)
    OBVIOUS
  <2> HIDE DEF longest, longer
  <2> QED
    BY <1>6, <2>1, <2>2 DEF StateRecords
<1>10. /\ more \in Texts /\ more.kind = text.kind /\ more.parent = text.parent
       /\ \/ /\ more.transitions = Append(text.transitions, t)
             /\ more.initial = text.initial /\ more.history = text.history
          \/ /\ more.initial = Append(text.initial, t)
             /\ more.transitions = text.transitions /\ more.history = text.history
          \/ /\ more.history = Append(text.history, t)
             /\ more.transitions = text.transitions /\ more.initial = text.initial
  <2> HIDE DEF text
  <2> DEFINE own == Append(text.transitions, t)
             first == Append(text.initial, t)
             last == Append(text.history, t)
  <2>1. own \in Seq(TransitionElements) /\ first \in Seq(TransitionElements) /\ last \in Seq(TransitionElements)
    BY <1>7 DEF Texts
  <2>2. \/ more = [text EXCEPT !.transitions = own]
        \/ more = [text EXCEPT !.initial = first]
        \/ more = [text EXCEPT !.history = last]
    BY <1>8 DEF OneMoreIn
  <2>3. own = Append(text.transitions, t) /\ first = Append(text.initial, t) /\ last = Append(text.history, t)
    OBVIOUS
  <2> HIDE DEF own, first, last
  <2>4. CASE more = [text EXCEPT !.transitions = own]
    BY <1>7, <2>1, <2>3, <2>4 DEF Texts
  <2>5. CASE more = [text EXCEPT !.initial = first]
    BY <1>7, <2>1, <2>3, <2>5 DEF Texts
  <2>6. CASE more = [text EXCEPT !.history = last]
    BY <1>7, <2>1, <2>3, <2>6 DEF Texts
  <2> QED
    BY <2>2, <2>4, <2>5, <2>6
<1>11. /\ states \in [Declared -> StateRecords] /\ inside \in [Declared -> Texts]
       /\ \A s \in Declared : states[s] = IF s = p THEN longer ELSE parser.states[s]
       /\ \A s \in Declared : inside[s] = IF s = p THEN more ELSE source.inside[s]
  BY <1>3, <1>6, <1>7, <1>9, <1>10
<1>12. parser' = [parser EXCEPT !.states = states]
  BY <1>4
<1>13. source' = [source EXCEPT !.inside = inside, !.left = @ - 1]
  BY <1>4
<1> HIDE DEF states, inside, state, text, longer
<1>14. states \in U
  BY <1>6, <1>11
<1> HIDE DEF U
<1>15. /\ parser' \in ParserStates /\ parser'.states = states /\ parser'.parent_stack = parser.parent_stack
       /\ parser'.top_level = parser.top_level /\ parser'.current = parser.current
  BY <1>5, <1>12, <1>14
<1>16. /\ source'.open = source.open /\ source'.inside = inside /\ source'.left \in Nat
       /\ DOMAIN source' = DOMAIN source
  <2>1. source.left - 1 \in Nat
    BY <1>7
  <2> QED
    BY <1>7, <1>13, <2>1
<1>17. Declared' = Declared /\ Parent' = Parent /\ Depth' = Depth
  BY <1>11, <1>15, <1>16 DEF Declared, Parent, Depth
<1>18. ParserTyped'
  BY <1>15, <1>17 DEF ParserTyped
<1>19. Nested'
  BY <1>7, <1>11, <1>15, <1>16, <1>17 DEF Nested
<1>20. DOMAIN inside = Declared /\ DOMAIN source.inside = Declared
  BY <1>7, <1>11
<1>21. /\ \A s \in Declared : KeptAsWritten(s)
       /\ \A s \in Declared : parser.states[s].parent \in Declared \cup {NoId}
  BY <1>20 DEF Kept, DocumentKept
<1>22. \A s \in Declared : inside[s].parent = source.inside[s].parent /\ states[s].parent = parser.states[s].parent
  BY <1>9, <1>10, <1>11 DEF state, text
<1> DEFINE inner(s) == {c \in Declared : source.inside[c].parent = s}
<1>23. \A s : {c \in Declared : inside[c].parent = s} = inner(s)
  BY <1>22
<1> HIDE DEF inner
<1>24. ASSUME NEW s \in Declared PROVE KeptAsWritten(s)'
  <2> DEFINE KeptAs(read, txt) ==
        /\ read.parent = txt.parent /\ ToSet(read.children) = inner(s)
        /\ read.type = CASE txt.kind = "final" -> "Final"
                         [] txt.kind = "parallel" -> "Parallel"
                         [] txt.kind = "state" /\ inner(s) # {} -> "Compound"
                         [] OTHER -> "Atomic"
        /\ txt.initial = <<>> /\ txt.history = <<>> => read.transitions = txt.transitions
        /\ Len(read.transitions) = Len(txt.transitions) + Len(txt.initial) + Len(txt.history)
        /\ ToSet(txt.transitions) \subseteq ToSet(read.transitions)
  <2>1. KeptAs(parser.states[s], source.inside[s])
    BY <1>20, <1>21, <1>24 DEF KeptAsWritten, inner
  <2>2. ASSUME KeptAs(states[s], inside[s]) PROVE KeptAsWritten(s)'
    BY <1>15, <1>16, <1>20, <1>23, <1>24, <2>2 DEF KeptAsWritten
  <2>3. CASE s # p
    BY <1>11, <1>24, <2>1, <2>2, <2>3
  <2>4. CASE s = p
    <3>1. KeptAs(state, text)
      BY <2>1, <2>4 DEF state, text
    <3>2. states[s] = longer /\ inside[s] = more
      BY <1>11, <1>24, <2>4
    <3>3. /\ text.transitions \in Seq(TransitionElements) /\ text.initial \in Seq(TransitionElements)
          /\ text.history \in Seq(TransitionElements)
      BY <1>7 DEF Texts
    <3> DEFINE was == state.transitions
               own == text.transitions
    <3>4. /\ was \in Seq(TransitionElements) /\ Len(was) \in Nat
          /\ Len(own) \in Nat /\ Len(text.initial) \in Nat /\ Len(text.history) \in Nat
      BY <1>8b, <3>3
    <3>5. /\ longer.transitions = Append(was, t)
          /\ Len(longer.transitions) = Len(was) + 1 /\ ToSet(longer.transitions) = ToSet(was) \cup {t}
      BY <1>9, <3>4, OneMore, LongerByOne
    <3>6. /\ text.initial = <<>> /\ text.history = <<>> => was = own
          /\ Len(was) = Len(own) + Len(text.initial) + Len(text.history)
          /\ ToSet(own) \subseteq ToSet(was)
      BY <3>1
    <3>7. /\ more.initial = <<>> /\ more.history = <<>> => longer.transitions = more.transitions
          /\ Len(longer.transitions) = Len(more.transitions) + Len(more.initial) + Len(more.history)
          /\ ToSet(more.transitions) \subseteq ToSet(longer.transitions)
      <4> HIDE DEF was, own
      <4>1. CASE /\ more.transitions = Append(text.transitions, t)
                 /\ more.initial = text.initial /\ more.history = text.history
        <5>1. /\ more.transitions = Append(own, t) /\ Len(more.transitions) = Len(own) + 1
              /\ ToSet(more.transitions) = ToSet(own) \cup {t}
          BY <3>3, <4>1, OneMore, LongerByOne DEF own
        <5>2. Len(longer.transitions) = Len(more.transitions) + Len(more.initial) + Len(more.history)
          <6>1. Len(longer.transitions) = (Len(own) + Len(text.initial) + Len(text.history)) + 1
            BY <3>5, <3>6
          <6>2. /\ Len(more.initial) = Len(text.initial) /\ Len(more.history) = Len(text.history)
                /\ Len(more.transitions) = Len(own) + 1
            BY <4>1, <5>1
          <6> DEFINE a == Len(own)
                     b == Len(text.initial)
                     c == Len(text.history)
          <6>3. a \in Nat /\ b \in Nat /\ c \in Nat
            BY <3>4
          <6>4. (a + b + c) + 1 = a + 1 + b + c /\ (a + b + c) + 1 = a + (b + 1) + c
                /\ (a + b + c) + 1 = a + b + (c + 1)
            <7> HIDE DEF a, b, c
            <7> QED
              BY <6>3
          <6> QED
            BY <6>1, <6>2, <6>4
        <5>3. ToSet(more.transitions) \subseteq ToSet(longer.transitions)
          BY <3>5, <3>6, <5>1
        <5>4. more.initial = <<>> /\ more.history = <<>> => longer.transitions = more.transitions
          BY <3>5, <3>6, <4>1, <5>1
        <5> QED
          BY <5>2, <5>3, <5>4
      <4>2. CASE /\ more.initial = Append(text.initial, t)
                 /\ more.transitions = text.transitions /\ more.history = text.history
        <5>1. more.transitions = own /\ Len(more.initial) = Len(text.initial) + 1 /\ more.initial # <<>>
          BY <3>3, <4>2, LongerByOne DEF own
        <5>2. Len(longer.transitions) = Len(more.transitions) + Len(more.initial) + Len(more.history)
          <6>1. Len(longer.transitions) = (Len(own) + Len(text.initial) + Len(text.history)) + 1
            BY <3>5, <3>6
          <6>2. /\ Len(more.transitions) = Len(own) /\ Len(more.history) = Len(text.history)
                /\ Len(more.initial) = Len(text.initial) + 1
            BY <4>2, <5>1
          <6> DEFINE a == Len(own)
                     b == Len(text.initial)
                     c == Len(text.history)
          <6>3. a \in Nat /\ b \in Nat /\ c \in Nat
            BY <3>4
          <6>4. (a + b + c) + 1 = a + 1 + b + c /\ (a + b + c) + 1 = a + (b + 1) + c
                /\ (a + b + c) + 1 = a + b + (c + 1)
            <7> HIDE DEF a, b, c
            <7> QED
              BY <6>3
          <6> QED
            BY <6>1, <6>2, <6>4
        <5>3. ToSet(more.transitions) \subseteq ToSet(longer.transitions)
          BY <3>5, <3>6, <5>1
        <5>4. more.initial = <<>> /\ more.history = <<>> => longer.transitions = more.transitions
          BY <3>5, <3>6, <4>2, <5>1
        <5> QED
          BY <5>2, <5>3, <5>4
      <4>3. CASE /\ more.history = Append(text.history, t)
                 /\ more.transitions = text.transitions /\ more.initial = text.initial
        <5>1. more.transitions = own /\ Len(more.history) = Len(text.history) + 1 /\ more.history # <<>>
          BY <3>3, <4>3, LongerByOne DEF own
        <5>2. Len(longer.transitions) = Len(more.transitions) + Len(more.initial) + Len(more.history)
          <6>1. Len(longer.transitions) = (Len(own) + Len(text.initial) + Len(text.history)) + 1
            BY <3>5, <3>6
          <6>2. /\ Len(more.transitions) = Len(own) /\ Len(more.initial) = Len(text.initial)
                /\ Len(more.history) = Len(text.history) + 1
            BY <4>3, <5>1
          <6> DEFINE a == Len(own)
                     b == Len(text.initial)
                     c == Len(text.history)
          <6>3. a \in Nat /\ b \in Nat /\ c \in Nat
            BY <3>4
          <6>4. (a + b + c) + 1 = a + 1 + b + c /\ (a + b + c) + 1 = a + (b + 1) + c
                /\ (a + b + c) + 1 = a + b + (c + 1)
            <7> HIDE DEF a, b, c
            <7> QED
              BY <6>3
          <6> QED
            BY <6>1, <6>2, <6>4
        <5>3. ToSet(more.transitions) \subseteq ToSet(longer.transitions)
          BY <3>5, <3>6, <5>1
        <5>4. more.initial = <<>> /\ more.history = <<>> => longer.transitions = more.transitions
          BY <3>5, <3>6, <4>3, <5>1
        <5> QED
          BY <5>2, <5>3, <5>4
      <4> QED
        BY <1>10, <4>1, <4>2, <4>3
    <3>8. KeptAs(longer, more)
      BY <1>9, <1>10, <3>1, <3>7
    <3> HIDE DEF KeptAs
    <3> QED
      BY <2>2, <3>2, <3>8 DEF KeptAs
  <2> QED
    BY <2>3, <2>4
<1>25. DocumentKept'
  <2>1. DOMAIN parser'.states = Declared /\ DOMAIN source'.inside = Declared
    BY <1>11, <1>15, <1>16
  <2> QED
    BY <1>24, <2>1 DEF DocumentKept
<1>26. \A s \in Declared : states[s].parent \in Declared \cup {NoId}
  BY <1>21, <1>22
<1> QED
  BY <1>15, <1>17, <1>18, <1>19, <1>25, <1>26 DEF Kept

LEMMA FrontIs ==
  ASSUME NEW T, NEW q \in Seq(T), q # <<>>
  PROVE  /\ Front(q) \in Seq(T) /\ Len(Front(q)) = Len(q) - 1 /\ Len(q) \in Nat \ {0}
         /\ \A i \in 1..Len(q) - 1 : Front(q)[i] = q[i]
BY FrontFacts DEF Front

LEMMA EndRead ==
  ASSUME ParserTyped, Nested, Kept, ReadEnd
  PROVE  ParserTyped' /\ Nested' /\ Kept'
<1> DEFINE open == source.open
           stack == parser.parent_stack
           N == Len(open) - 1
<1>1. /\ open \in Seq(Elements) /\ open # <<>> /\ N \in Nat /\ Depth \in Nat /\ N + 1 = Len(open)
      /\ stack \in Seq(ChartNames) /\ Len(stack) = Depth /\ (Depth = N + 1 \/ Depth = N)
      /\ Enclosing = Last(open).kind
      /\ Depth = IF Last(open).kind \in Regions THEN N + 1 ELSE N
  BY OwnerIsParent, StatesTyped DEF Nested, ReadEnd, Enclosing, Depth
<1>2. /\ source'.open = Front(open) /\ source'.inside = source.inside /\ source'.left = source.left
      /\ DOMAIN source' = DOMAIN source
  BY DEF ReadEnd, Nested
<1>3. /\ Front(open) \in Seq(Elements) /\ Len(Front(open)) = N
      /\ \A i \in 1..N : Front(open)[i] = open[i]
  BY <1>1, FrontIs
<1>4. \A i \in 1..N : Front(open)[i].kind \in Regions /\ Front(open)[i].id \in Declared
  BY <1>1, <1>3 DEF Nested
<1>5. Depth' = N
  <2>1. CASE N = 0
    BY <1>1, <1>2, <1>3, <2>1 DEF Depth
  <2>2. CASE N # 0
    <3>1. Front(open) # <<>> /\ Last(Front(open)) = Front(open)[N] /\ N \in 1..N
      <4>1. N \in 1..N
        <5>1. N \in Nat
          BY <1>1
        <5> HIDE DEF N
        <5> QED
          BY <2>2, <5>1
      <4> QED
        BY <1>3, <2>2, <4>1 DEF Last
    <3>2. Last(Front(open)).kind \in Regions
      BY <1>4, <3>1
    <3> QED
      BY <1>2, <1>3, <3>1, <3>2 DEF Depth
  <2> QED
    BY <2>1, <2>2
<1> DEFINE top == IF Front(stack) = <<>> THEN NoId ELSE Last(Front(stack))
<1>6. /\ parser' \in ParserStates /\ parser'.states = parser.states /\ parser'.top_level = parser.top_level
      /\ parser'.parent_stack = [i \in 1..N |-> open[i].id] /\ parser'.current = Parent'
  <2> DEFINE U == UNION {[S -> StateRecords] : S \in SUBSET ChartNames}
  <2>1. /\ ParserStates = [parent_stack : Seq(ChartNames), current : ChartNames \cup {NoId}, states : U,
                           top_level : Seq(ChartNames), initial : Attributes]
        /\ parser \in ParserStates
    BY DEF ParserStates, ParserTyped
  <2> HIDE DEF U
  <2>2. stack = [i \in 1..Depth |-> open[i].id] /\ parser.current = Parent
    BY DEF Nested
  <2>3. CASE Last(open).kind \in Regions
    <3>1. Depth = N + 1 /\ stack # <<>>
      BY <1>1, <2>3
    <3>2. /\ Front(stack) \in Seq(ChartNames) /\ Len(Front(stack)) = N
          /\ \A i \in 1..N : Front(stack)[i] = stack[i]
      BY <1>1, <3>1, FrontIs
    <3>3. top \in ChartNames \cup {NoId}
      <4>1. Front(stack) # <<>> => Last(Front(stack)) \in ChartNames
        BY <3>2 DEF Last
      <4> QED
        BY <4>1
    <3>4. parser' = [parser EXCEPT !.parent_stack = Front(stack), !.current = top]
      BY <1>1, <2>3, <3>1 DEF ReadEnd, Regions
    <3>5. \A i \in 1..N : Front(stack)[i] = open[i].id
      BY <1>1, <2>2, <3>1, <3>2
    <3>6. Front(stack) = [i \in 1..N |-> open[i].id]
      <4> DEFINE f == Front(stack)
      <4>1. f = [i \in 1..Len(f) |-> f[i]]
        BY <3>2
      <4> HIDE DEF f
      <4> QED
        BY <3>2, <3>5, <4>1 DEF f
    <3> HIDE DEF top
    <3>7. /\ parser' \in ParserStates /\ parser'.states = parser.states /\ parser'.top_level = parser.top_level
          /\ parser'.parent_stack = Front(stack) /\ parser'.current = top
      BY <2>1, <3>2, <3>3, <3>4
    <3>8. Parent' = top
      BY <3>7 DEF Parent, top
    <3> QED
      BY <3>6, <3>7, <3>8
  <2>4. CASE Last(open).kind \notin Regions
    <3>1. parser' = parser /\ Depth = N
      BY <1>1, <2>4 DEF ReadEnd, Regions
    <3>2. Parent' = Parent
      BY <3>1 DEF Parent
    <3> QED
      BY <2>1, <2>2, <3>1, <3>2
  <2> QED
    BY <2>3, <2>4
<1>7. Declared' = Declared
  BY <1>6 DEF Declared
<1>8. [i \in 1..N |-> open[i].id] = [i \in 1..N |-> source'.open[i].id]
  BY <1>2, <1>3
<1>9. ParserTyped'
  BY <1>6, <1>7 DEF ParserTyped
<1>10. Nested'
  BY <1>2, <1>3, <1>4, <1>5, <1>6, <1>7, <1>8 DEF Nested
<1>11. Kept'
  BY <1>2, <1>6, KeptStays
<1> QED
  BY <1>9, <1>10, <1>11

DocumentInv ==
  /\ ParserTyped
  /\ phase \in {"reading", "rejected", "built", "crashed"}
  /\ phase = "reading" => Nested
  /\ Kept

LEMMA DocumentInitial == ChartsInit => DocumentInv
<1> SUFFICES ASSUME ChartsInit PROVE DocumentInv
  OBVIOUS
<1>1. PICK initial \in InitialAttrs :
        parser = [parent_stack |-> <<>>, current |-> NoId, states |-> <<>>,
                  top_level |-> <<>>, initial |-> initial]
  BY DEF ChartsInit
<1>2. /\ source = [open |-> <<>>, inside |-> <<>>, left |-> MaxTransitions] /\ phase = "reading"
  BY DEF ChartsInit, Unwritten
<1>3. Declared = {} /\ <<>> \in [{} -> StateRecords]
  BY <1>1 DEF Declared
<1>4. parser \in ParserStates
  <2>1. <<>> \in UNION {[S -> StateRecords] : S \in SUBSET ChartNames}
    BY <1>3
  <2> DEFINE U == UNION {[S -> StateRecords] : S \in SUBSET ChartNames}
  <2>2. ParserStates = [parent_stack : Seq(ChartNames), current : ChartNames \cup {NoId}, states : U,
                        top_level : Seq(ChartNames), initial : Attributes]
    BY DEF ParserStates
  <2>3. <<>> \in U
    BY <2>1
  <2> HIDE DEF U
  <2> QED
    BY <1>1, <2>2, <2>3 DEF Attributes
<1>5. 0 \in 0..Len(ChartIds) /\ FirstIds(0) = {}
  BY ChartsAssumption DEF FirstIds
<1>6. ToSet(parser.top_level) = {}
  BY <1>1, EmptyList
<1>7. ParserTyped
  BY <1>3, <1>4, <1>5, <1>6 DEF ParserTyped
<1>8. Depth = 0 /\ Parent = NoId
  BY <1>1, <1>2 DEF Depth, Parent
<1>9. source.inside \in [Declared -> Texts]
  BY <1>2, <1>3
<1>10. parser.parent_stack = [i \in 1..0 |-> source.open[i].id]
  BY <1>1
<1>11. Nested
  BY <1>1, <1>2, <1>8, <1>9, <1>10, ChartsAssumption DEF Nested
<1>12. Kept
  <2>1. DOMAIN source.inside = {} /\ DOMAIN parser.states = {}
    BY <1>2, <1>3 DEF Declared
  <2> QED
    BY <1>3, <2>1 DEF Kept, DocumentKept
<1> QED
  BY <1>2, <1>7, <1>11, <1>12 DEF DocumentInv

LEMMA DocumentStep == DocumentInv /\ [ChartsNext]_chartVars => DocumentInv'
<1> SUFFICES ASSUME DocumentInv, [ChartsNext]_chartVars PROVE DocumentInv'
  OBVIOUS
<1> USE DEF DocumentInv
<1>0. ParserTyped /\ Kept
  OBVIOUS
<1>1. \A kind \in {"Atomic", "Parallel"}, initial \in Attributes :
        Nested => /\ NewState(kind, initial) \in StateRecords /\ NewState(kind, initial).parent = Parent
                  /\ NewState(kind, initial).transitions = <<>> /\ NewState(kind, initial).children = <<>>
                  /\ NewState(kind, initial).type = kind
  BY OwnerIsParent, StatesTyped DEF NewState, StateRecords
<1>2. CASE ReadState
  <2>1. phase = "reading" /\ phase' = phase /\ MayOpen
    BY <1>2 DEF ReadState, MayOpen
  <2>2. PICK initial \in InitialAttrs, empty \in BOOLEAN :
          /\ parser' = Entering(Fresh, Declare(Fresh, NewState("Atomic", initial)), empty)
          /\ Writes("state", empty)
    BY <1>2 DEF ReadState
  <2>3. "state" \in Regions /\ initial \in Attributes
    BY DEF Regions, Attributes
  <2> QED
    BY <1>1, <2>1, <2>2, <2>3, RegionRead
<1>3. CASE ReadParallel
  <2>1. phase = "reading" /\ phase' = phase /\ MayOpen
    BY <1>3 DEF ReadParallel, MayOpen
  <2>2. PICK empty \in BOOLEAN :
          /\ parser' = Entering(Fresh, Declare(Fresh, NewState("Parallel", NoId)), empty)
          /\ Writes("parallel", empty)
    BY <1>3 DEF ReadParallel
  <2>3. "parallel" \in Regions /\ NoId \in Attributes
    BY DEF Regions, Attributes
  <2> QED
    BY <1>1, <2>1, <2>2, <2>3, RegionRead
<1>4. CASE ReadFinal
  BY <1>4, FinalRead DEF ReadFinal, MayOpen
<1>5. ASSUME phase = "reading", phase' = phase, Enclosing \in {"state", "parallel"}, source.left > 0,
             NEW t \in TransitionElements, GivesCurrent(t), NEW more \in OneMoreIn(source.inside[Owner], t),
             source' = [source EXCEPT !.inside[Owner] = more, !.left = @ - 1]
      PROVE  DocumentInv'
  BY <1>5, TransitionRead
<1>6. CASE ReadTransition \/ ReadInitial \/ ReadHistory
  <2>1. /\ phase = "reading" /\ phase' = phase /\ Enclosing \in {"state", "parallel"} /\ source.left > 0
        /\ \E t \in TransitionElements : \E more \in OneMoreIn(source.inside[Owner], t) :
             /\ GivesCurrent(t)
             /\ source' = [source EXCEPT !.inside[Owner] = more, !.left = @ - 1]
    BY <1>6 DEF ReadTransition, ReadInitial, ReadHistory, OneMoreIn
  <2> QED
    BY <1>5, <2>1
<1>7. CASE ReadEnd
  BY <1>7, EndRead DEF ReadEnd
<1>9. ASSUME parser' = parser, source' = source, phase' \in {phase, "built", "rejected", "crashed"},
             phase' = "reading" => phase = "reading"
      PROVE  DocumentInv'
  <2>1. ParserTyped' /\ Kept' /\ Nested' = Nested
    BY <1>9, KeptStays DEF ParserTyped, Nested, Declared, Depth, Parent
  <2> QED
    BY <1>9, <2>1
<1>8. CASE RunBuildScript
  BY <1>8, <1>9 DEF RunBuildScript
<1>10. CASE NewEngine
  BY <1>9, <1>10 DEF NewEngine
<1>11. CASE \E event \in EventNames : SendEvent(event)
  BY <1>9, <1>11 DEF SendEvent
<1>12. CASE UNCHANGED chartVars
  BY <1>9, <1>12 DEF chartVars
<1> QED
  BY <1>2, <1>3, <1>4, <1>6, <1>7, <1>8, <1>10, <1>11, <1>12 DEF ChartsNext

(***************************************************************************)
(* Charts: what the validator follows and where the engine enters.         *)
(***************************************************************************)
\* A recursion over the turns of a loop has a solution.
Recursive(D, start, N, T) ==
  \E f \in [0..N -> D] : f = [n \in 0..N |-> IF n = 0 THEN start ELSE T[f[n - 1]]]

LEMMA TurnsDefined ==
  ASSUME NEW D, NEW start \in D, NEW N \in Nat, NEW T \in [D -> D]
  PROVE  Recursive(D, start, N, T)
<1> DEFINE Turn == [n \in 1..N |-> T]
<1>1. LoopRuns(D, start, N, Turn)
  <2>1. Turn \in [1..N -> [D -> D]]
    OBVIOUS
  <2> HIDE DEF Turn
  <2> QED
    BY <2>1, LoopExists
<1>2. PICK f \in [0..N -> D] : f[0] = start /\ \A n \in 1..N : f[n] = Turn[n][f[n - 1]]
  BY <1>1 DEF LoopRuns
<1> DEFINE g == [n \in 0..N |-> IF n = 0 THEN start ELSE T[f[n - 1]]]
<1>3. \A n \in 0..N : f[n] = g[n]
  <2>1. \A n \in 0..N : n # 0 => n \in 1..N
    OBVIOUS
  <2>2. \A n \in 1..N : f[n] = T[f[n - 1]]
    BY <1>2
  <2> HIDE DEF Turn
  <2> QED
    BY <1>2, <2>1, <2>2
<1>4. f = g
  BY <1>3
<1> QED
  BY <1>4 DEF Recursive

\* What one turn of compute_reachable adds.
Grown(X) == X \cup UNION {Follow(s) : s \in X \cap DOMAIN States}

\* compute_reachable ends with everything that can be followed: a turn that adds no state is the last
\* one to add anything, and there are not more turns than states.
LEMMA ReachableIs ==
  ASSUME ParserTyped, NEW id
  PROVE  id \in Reachable(id) /\ \A s \in Reachable(id) \cap Declared : Follow(s) \subseteq Reachable(id)
<1> DEFINE N == Cardinality(Declared)
           All == {id} \cup UNION {Follow(s) : s \in Declared}
           D == SUBSET All
           T == [X \in D |-> Grown(X)]
           IsGrow(f) == f = [n \in 0..N |-> IF n = 0 THEN {id}
                               ELSE f[n - 1] \cup UNION {Follow(s) : s \in f[n - 1] \cap DOMAIN States}]
<1>1. IsFiniteSet(Declared) /\ N \in Nat
  <2>1. PICK n \in 0..Len(ChartIds) : Declared = FirstIds(n)
    BY DEF ParserTyped
  <2> QED
    BY <2>1, FirstIdsCount, FS_CardinalityType
<1>2. DOMAIN States = Declared
  BY DEF States, Declared
<1>3. {id} \in D /\ T \in [D -> D]
  BY <1>2 DEF Grown
<1>4. \E f : IsGrow(f)
  <2> HIDE DEF N, T, D
  <2>1. PICK f \in [0..N -> D] : f = [n \in 0..N |-> IF n = 0 THEN {id} ELSE T[f[n - 1]]]
    <3>1. Recursive(D, {id}, N, T)
      BY <1>1, <1>3, TurnsDefined
    <3> QED
      BY <3>1 DEF Recursive
  <2>2. \A n \in 0..N : n # 0 => n - 1 \in 0..N
    BY <1>1
  <2>3. \A n \in 0..N : n # 0 => T[f[n - 1]] = Grown(f[n - 1])
    BY <2>1, <2>2 DEF T
  <2>4. \A n \in 0..N : f[n] = IF n = 0 THEN {id} ELSE Grown(f[n - 1])
    BY <2>1, <2>3
  <2> DEFINE g == [n \in 0..N |-> IF n = 0 THEN {id} ELSE Grown(f[n - 1])]
  <2>5. \A n \in 0..N : f[n] = g[n]
    BY <2>4
  <2>6. f = g
    <3>1. f = [n \in 0..N |-> f[n]]
      BY <2>1
    <3> HIDE DEF g
    <3>2. g = [n \in 0..N |-> g[n]]
      BY DEF g
    <3> QED
      BY <2>5, <3>1, <3>2
  <2> QED
    BY <2>6 DEF Grown
<1> DEFINE grow == CHOOSE g : IsGrow(g)
<1>5. IsGrow(grow)
  <2> HIDE DEF IsGrow
  <2> QED
    BY <1>4
<1>6. Reachable(id) = grow[N]
  BY <1>2 DEF Reachable, Declared, States
<1> HIDE DEF grow, N
<1>7. grow[0] = {id} /\ \A n \in Nat : n + 1 <= N => grow[n + 1] = Grown(grow[n])
  <2>1. 0 \in 0..N /\ \A n \in Nat : n + 1 <= N => n + 1 \in 0..N /\ (n + 1) - 1 = n /\ n + 1 # 0
    BY <1>1
  <2> QED
    BY <1>5, <2>1 DEF Grown
<1> DEFINE Closed(X) == \A s \in X \cap Declared : Follow(s) \subseteq X
           Settling(n) == Closed(grow[n]) \/ Cardinality(grow[n] \cap Declared) >= n + 1
           S == {n \in Nat : n <= N => id \in grow[n] /\ Settling(n)}
<1>8. 0 \in S
  <2>1. CASE id \in Declared
    <3>1. grow[0] \cap Declared = {id}
      BY <1>7, <2>1
    <3>2. Cardinality({id}) = 1
      BY FS_Singleton
    <3> QED
      BY <1>7, <3>1, <3>2
  <2>2. CASE id \notin Declared
    BY <1>7, <2>2
  <2> QED
    BY <2>1, <2>2
<1>9. ASSUME NEW n \in S PROVE n + 1 \in S
  <2>1. n \in Nat /\ n + 1 \in Nat
    OBVIOUS
  <2>2. SUFFICES ASSUME n + 1 <= N PROVE id \in grow[n + 1] /\ Settling(n + 1)
    BY <2>1
  <2>3. id \in grow[n] /\ Settling(n)
    BY <1>1, <2>1, <2>2
  <2> HIDE DEF S
  <2>4. grow[n + 1] = Grown(grow[n])
    BY <1>7, <2>1, <2>2
  <2>5. grow[n] \subseteq grow[n + 1] /\ id \in grow[n + 1]
    BY <2>3, <2>4 DEF Grown
  <2>6. CASE Closed(grow[n])
    <3>1. grow[n + 1] = grow[n]
      BY <1>2, <2>4, <2>6 DEF Grown
    <3> QED
      BY <2>5, <2>6, <3>1
  <2>7. CASE grow[n + 1] \cap Declared = grow[n] \cap Declared
    <3>1. Closed(grow[n + 1])
      BY <1>2, <2>4, <2>7 DEF Grown
    <3> QED
      BY <2>5, <3>1
  <2>8. CASE Cardinality(grow[n] \cap Declared) >= n + 1 /\ grow[n + 1] \cap Declared # grow[n] \cap Declared
    <3> DEFINE A == grow[n] \cap Declared
               B == grow[n + 1] \cap Declared
    <3>1. A \subseteq B /\ A # B /\ A \subseteq Declared /\ B \subseteq Declared
      BY <2>5, <2>8
    <3> HIDE DEF A, B
    <3>2. IsFiniteSet(A) /\ IsFiniteSet(B)
      BY <1>1, <3>1, FS_Subset
    <3>3. Cardinality(A) <= Cardinality(B) /\ Cardinality(A) # Cardinality(B)
      BY <3>1, <3>2, FS_Subset
    <3>4. Cardinality(A) \in Nat /\ Cardinality(B) \in Nat /\ Cardinality(A) >= n + 1
      BY <2>8, <3>2, FS_CardinalityType DEF A
    <3>5. Cardinality(B) >= (n + 1) + 1
      BY <2>1, <3>3, <3>4
    <3> QED
      BY <2>5, <3>5 DEF B
  <2> QED
    BY <2>3, <2>6, <2>7, <2>8
<1>10. S = Nat
  <2> HIDE DEF S
  <2>1. S \in SUBSET Nat
    BY DEF S
  <2> QED
    BY <1>8, <1>9, <2>1, EveryNumber
<1>11. id \in grow[N] /\ Settling(N)
  <2>1. N \in S
    <3> HIDE DEF S
    <3> QED
      BY <1>1, <1>10
  <2> QED
    BY <1>1, <2>1
<1>12. ~(Cardinality(grow[N] \cap Declared) >= N + 1)
  <2> DEFINE A == grow[N] \cap Declared
  <2>1. A \subseteq Declared
    OBVIOUS
  <2> HIDE DEF A
  <2>2. IsFiniteSet(A) /\ Cardinality(A) <= N
    BY <1>1, <2>1, FS_Subset DEF N
  <2>3. Cardinality(A) \in Nat
    BY <2>2, FS_CardinalityType
  <2> QED
    BY <1>1, <2>2, <2>3 DEF A
<1> QED
  BY <1>6, <1>11, <1>12

\* Where the engine enters is a state, found by following initial children.
LEMMA EnteredIs ==
  ASSUME ParserTyped, \A s \in Declared : States[s].initial = NoId \/ HasState(States[s].initial),
         NEW id \in Declared, NEW R, id \in R, \A s \in R \cap Declared : Follow(s) \subseteq R
  PROVE  EnterInitialState(id) \in R \cap Declared
<1> DEFINE N == Cardinality(Declared)
           D == Declared
           T == [s \in D |-> IF States[s].initial = NoId THEN s ELSE States[s].initial]
           IsDeeper(f) == f = [n \in 0..N |->
             IF n = 0 THEN id
             ELSE IF States[f[n - 1]].initial = NoId THEN f[n - 1]
             ELSE States[f[n - 1]].initial]
<1>1. IsFiniteSet(Declared) /\ N \in Nat
  <2>1. PICK n \in 0..Len(ChartIds) : Declared = FirstIds(n)
    BY DEF ParserTyped
  <2> QED
    BY <2>1, FirstIdsCount, FS_CardinalityType
<1>2. DOMAIN States = Declared
  BY DEF States, Declared
<1>3. id \in D /\ T \in [D -> D]
  BY <1>2 DEF HasState
<1>4. \E f : IsDeeper(f)
  <2> HIDE DEF N, T, D
  <2>1. PICK f \in [0..N -> D] : f = [n \in 0..N |-> IF n = 0 THEN id ELSE T[f[n - 1]]]
    <3>1. Recursive(D, id, N, T)
      BY <1>1, <1>3, TurnsDefined
    <3> QED
      BY <3>1 DEF Recursive
  <2>2. \A n \in 0..N : n # 0 => n - 1 \in 0..N
    BY <1>1
  <2>3. \A n \in 0..N : n # 0 => T[f[n - 1]] = IF States[f[n - 1]].initial = NoId THEN f[n - 1]
                                               ELSE States[f[n - 1]].initial
    BY <2>1, <2>2 DEF T
  <2> DEFINE g == [n \in 0..N |-> IF n = 0 THEN id
                                  ELSE IF States[f[n - 1]].initial = NoId THEN f[n - 1]
                                  ELSE States[f[n - 1]].initial]
  <2>4. \A n \in 0..N : f[n] = g[n]
    BY <2>1, <2>3
  <2>5. f = g
    <3>1. f = [n \in 0..N |-> f[n]]
      BY <2>1
    <3> HIDE DEF g
    <3>2. g = [n \in 0..N |-> g[n]]
      BY DEF g
    <3> QED
      BY <2>4, <3>1, <3>2
  <2> QED
    BY <2>5
<1> DEFINE deeper == CHOOSE g : IsDeeper(g)
<1>5. IsDeeper(deeper)
  <2> HIDE DEF IsDeeper
  <2> QED
    BY <1>4
<1>6. EnterInitialState(id) = deeper[N]
  BY <1>2 DEF EnterInitialState
<1> HIDE DEF deeper, N
<1>7. /\ deeper[0] = id
      /\ \A n \in Nat : n + 1 <= N => deeper[n + 1] = IF States[deeper[n]].initial = NoId THEN deeper[n]
                                                      ELSE States[deeper[n]].initial
  <2>1. 0 \in 0..N /\ \A n \in Nat : n + 1 <= N => n + 1 \in 0..N /\ (n + 1) - 1 = n /\ n + 1 # 0
    BY <1>1
  <2> QED
    BY <1>5, <2>1
<1> DEFINE S == {n \in Nat : n <= N => deeper[n] \in R \cap Declared}
<1>8. 0 \in S
  BY <1>7
<1>9. ASSUME NEW n \in S PROVE n + 1 \in S
  <2>1. n \in Nat /\ n + 1 \in Nat
    OBVIOUS
  <2>2. SUFFICES ASSUME n + 1 <= N PROVE deeper[n + 1] \in R \cap Declared
    BY <2>1
  <2>3. deeper[n] \in R \cap Declared
    BY <1>1, <2>1, <2>2
  <2> HIDE DEF S
  <2>4. deeper[n + 1] = IF States[deeper[n]].initial = NoId THEN deeper[n] ELSE States[deeper[n]].initial
    BY <1>7, <2>1, <2>2
  <2>5. States[deeper[n]].initial # NoId => States[deeper[n]].initial \in Follow(deeper[n])
    BY DEF Follow
  <2> QED
    BY <1>2, <2>3, <2>4, <2>5 DEF HasState
<1>10. S = Nat
  <2> HIDE DEF S
  <2>1. S \in SUBSET Nat
    BY DEF S
  <2> QED
    BY <1>8, <1>9, <2>1, EveryNumber
<1>11. N \in S
  <2> HIDE DEF S
  <2> QED
    BY <1>1, <1>10
<1>12. deeper[N] \in R \cap Declared
  BY <1>1, <1>11
<1> QED
  BY <1>6, <1>12

(***************************************************************************)
(* Charts: the engine.                                                     *)
(***************************************************************************)
ChartEvents == {t.event : t \in TransitionElements}
Attempts == [from : ChartNames, event : ChartEvents, to : ChartNames \cup {NoId}]

\* A document that was built names states of its own only.
Checked ==
  /\ InitialId \in Declared
  /\ \A s \in Declared : /\ States[s].initial = NoId \/ States[s].initial \in Declared
                         /\ \A i \in DOMAIN States[s].transitions :
                              \A k \in DOMAIN States[s].transitions[i].target :
                                States[s].transitions[i].target[k] \in Declared

\* A set that is not left by following targets, children and initial children.
Enclosed(R) ==
  \A s \in R \cap Declared :
    /\ \A i \in DOMAIN States[s].transitions : \A k \in DOMAIN States[s].transitions[i].target :
         States[s].transitions[i].target[k] \in R
    /\ \A k \in DOMAIN States[s].children : States[s].children[k] \in R
    /\ States[s].initial # NoId => States[s].initial \in R

Accepts(s, event) ==
  event # NoId /\ \E i \in DOMAIN States[s].transitions : States[s].transitions[i].event = event

EngineInv ==
  LET h == engine.recent
  IN  /\ engine \in [current : Declared \cup {NoId}, recent : Seq(Attempts), debug : BOOLEAN]
      /\ phase \in {"reading", "rejected"} => engine = NoEngine
      /\ phase = "built" => Checked /\ \A i \in 1..Len(h) : h[i].to # NoId
      /\ engine.current # NoId => /\ States[engine.current].initial = NoId
                                  /\ \A R : InitialId \in R /\ Enclosed(R) => engine.current \in R
      /\ Len(h) <= MaxRecent
      /\ \A i \in 1..Len(h) - 1 : h[i].to # NoId /\ h[i].to = h[i + 1].from
      /\ \A i \in 1..Len(h) : h[i].to # NoId => Accepts(h[i].from, h[i].event)
      /\ h # <<>> => /\ engine.current # NoId
                     /\ engine.current = IF h[Len(h)].to = NoId THEN h[Len(h)].from ELSE h[Len(h)].to

LEMMA FollowIs ==
  ASSUME NEW s
  PROVE  /\ \A i \in DOMAIN States[s].transitions : \A k \in DOMAIN States[s].transitions[i].target :
              States[s].transitions[i].target[k] \in TargetsOf(s)
         /\ \A x \in TargetsOf(s) : \E i \in DOMAIN States[s].transitions :
              \E k \in DOMAIN States[s].transitions[i].target : x = States[s].transitions[i].target[k]
BY DEF TargetsOf, TransitionsOf, ToSet

LEMMA EnclosedFollows ==
  ASSUME NEW R
  PROVE  Enclosed(R) <=> \A s \in R \cap Declared : Follow(s) \subseteq R
<1> SUFFICES ASSUME NEW s \in R \cap Declared
             PROVE  Follow(s) \subseteq R <=>
                      /\ \A i \in DOMAIN States[s].transitions :
                           \A k \in DOMAIN States[s].transitions[i].target :
                             States[s].transitions[i].target[k] \in R
                      /\ \A k \in DOMAIN States[s].children : States[s].children[k] \in R
                      /\ States[s].initial # NoId => States[s].initial \in R
  BY DEF Enclosed
<1>1. Follow(s) \subseteq R <=> /\ TargetsOf(s) \subseteq R /\ ToSet(States[s].children) \subseteq R
                                /\ States[s].initial # NoId => States[s].initial \in R
  BY DEF Follow
<1>2. ToSet(States[s].children) \subseteq R <=> \A k \in DOMAIN States[s].children : States[s].children[k] \in R
  BY DEF ToSet
<1>3. TargetsOf(s) \subseteq R <=>
        \A i \in DOMAIN States[s].transitions : \A k \in DOMAIN States[s].transitions[i].target :
          States[s].transitions[i].target[k] \in R
  BY FollowIs
<1> QED
  BY <1>1, <1>2, <1>3

LEMMA BuiltIsChecked ==
  ASSUME ParserTyped, ErrorRules = {}, Compiles
  PROVE  Checked
<1>1. DOMAIN States = Declared
  BY DEF States, Declared
<1>2. IF parser.initial # NoId THEN HasState(parser.initial) ELSE parser.top_level # <<>>
  BY DEF ErrorRules
<1>3. \A s \in Declared : \A t \in TargetsOf(s) : t \in Declared
  BY <1>1 DEF ErrorRules, HasState
<1>4. InitialId \in Declared
  <2>1. CASE parser.initial # NoId
    BY <1>1, <1>2, <2>1 DEF InitialId, HasState
  <2>2. CASE parser.initial = NoId
    <3>1. parser.top_level # <<>> /\ parser.top_level \in Seq(ChartNames)
      BY <1>2, <2>2, StatesTyped
    <3>2. Head(parser.top_level) \in ToSet(parser.top_level)
      BY <3>1 DEF ToSet
    <3> QED
      BY <2>2, <3>1, <3>2 DEF InitialId, ParserTyped
  <2> QED
    BY <2>1, <2>2
<1>5. \A s \in Declared : States[s].initial = NoId \/ States[s].initial \in Declared
  BY <1>1 DEF Compiles, HasState
<1>6. \A s \in Declared : \A i \in DOMAIN States[s].transitions :
        \A k \in DOMAIN States[s].transitions[i].target : States[s].transitions[i].target[k] \in Declared
  BY <1>3, FollowIs
<1> QED
  BY <1>4, <1>5, <1>6 DEF Checked

\* The arm that is taken is one for the event.
LEMMA ArmTaken ==
  ASSUME ParserTyped, NEW s \in Declared, NEW event, Transition(s, event) # NoId
  PROVE  Accepts(s, event) /\ Transition(s, event) \in TargetsOf(s)
<1> DEFINE arms == {i \in Arms(s) : States[s].transitions[i].event = event}
           first == CHOOSE i \in arms : \A k \in arms : i <= k
<1>1. Transition(s, event) = IF arms = {} THEN NoId ELSE Head(States[s].transitions[first].target)
  BY DEF Transition
<1>2. States[s].transitions \in Seq(TransitionElements)
  BY StatesTyped DEF States, StateRecords
<1>3. arms \subseteq Nat /\ arms # {}
  <2>1. arms \subseteq DOMAIN States[s].transitions
    BY DEF Arms
  <2>2. DOMAIN States[s].transitions \subseteq Nat
    BY <1>2
  <2> HIDE DEF arms, first
  <2> QED
    BY <1>1, <2>1, <2>2
<1>4. first \in arms
  <2> HIDE DEF arms
  <2> QED
    BY <1>3, LeastNumber
<1> HIDE DEF first
<1>5. /\ first \in DOMAIN States[s].transitions /\ States[s].transitions[first].event = event /\ event # NoId
      /\ States[s].transitions[first].target # <<>>
  BY <1>4 DEF Arms
<1> DEFINE target == States[s].transitions[first].target
<1>6. target \in Seq(ToSet(target))
  <2>1. States[s].transitions[first] \in TransitionElements
    BY <1>2, <1>5
  <2> QED
    BY <2>1, ChartsAssumption
<1>7. Head(target) = target[1] /\ 1 \in DOMAIN target
  <2> HIDE DEF target
  <2>1. target # <<>>
    BY <1>5 DEF target
  <2> QED
    BY <1>6, <2>1
<1>8. Head(target) \in TargetsOf(s)
  BY <1>5, <1>7, FollowIs
<1> QED
  BY <1>1, <1>3, <1>5, <1>8 DEF Accepts

LEMMA EngineInitial == ChartsInit => EngineInv
<1> SUFFICES ASSUME ChartsInit PROVE EngineInv
  OBVIOUS
<1>1. engine = NoEngine /\ phase = "reading"
  BY DEF ChartsInit
<1> QED
  BY <1>1, ChartsAssumption DEF EngineInv, NoEngine

\* Nothing that the invariant says of the document changes while the parser stays as it is.
LEMMA EngineKept ==
  ASSUME EngineInv, parser' = parser, engine' = engine,
         phase' \in {"built", "crashed"}, phase' = "built" => Checked,
         phase' = "built" => phase \in {"reading", "built"}
  PROVE  EngineInv'
<1>1. Declared' = Declared /\ States' = States /\ InitialId' = InitialId
  BY DEF Declared, States, InitialId
<1>2. /\ Checked' = Checked /\ \A R : Enclosed(R)' = Enclosed(R)
      /\ \A s, event : Accepts(s, event)' = Accepts(s, event)
  BY <1>1 DEF Checked, Enclosed, Accepts
<1>3. phase = "reading" => engine.recent = <<>>
  BY DEF EngineInv, NoEngine
<1> QED
  BY <1>1, <1>2, <1>3 DEF EngineInv

\* A history that led to c without a refusal.
PathTo(h, c) ==
  /\ h \in Seq(Attempts) /\ Len(h) <= MaxRecent
  /\ \A i \in 1..Len(h) - 1 : h[i].to = h[i + 1].from
  /\ \A i \in 1..Len(h) : h[i].to # NoId /\ Accepts(h[i].from, h[i].event)
  /\ h # <<>> => h[Len(h)].to = c

\* One that ends with the attempt a.
EndsWith(g, a) ==
  /\ g \in Seq(Attempts) /\ g # <<>> /\ g[Len(g)] = a /\ Len(g) <= MaxRecent
  /\ \A i \in 1..Len(g) - 1 : g[i].to # NoId /\ g[i].to = g[i + 1].from
  /\ \A i \in 1..Len(g) : g[i].to # NoId => Accepts(g[i].from, g[i].event)

\* One more attempt, after the oldest one was dropped to make room.
LEMMA HistoryGrows ==
  ASSUME NEW h, NEW c, PathTo(h, c),
         NEW a \in Attempts, a.from = c, a.to # NoId => Accepts(c, a.event),
         NEW kept, kept = IF Len(h) >= MaxRecent THEN Tail(h) ELSE h
  PROVE  EndsWith(Append(kept, a), a)
<1> DEFINE g == Append(kept, a)
<1>0. MaxRecent \in Nat /\ MaxRecent # 0 /\ Len(h) \in Nat
  BY ChartsAssumption DEF PathTo
<1> USE DEF PathTo
<1>1. /\ kept \in Seq(Attempts) /\ Len(kept) \in Nat /\ Len(kept) < MaxRecent
      /\ \A i \in 1..Len(kept) - 1 : kept[i].to = kept[i + 1].from
      /\ \A i \in 1..Len(kept) : kept[i].to # NoId /\ Accepts(kept[i].from, kept[i].event)
      /\ Len(kept) # 0 => kept[Len(kept)].to = c
  <2>1. CASE Len(h) >= MaxRecent
    <3>1. kept = Tail(h) /\ h # <<>> /\ Len(h) = MaxRecent
      BY <1>0, <2>1
    <3>2. /\ Tail(h) \in Seq(Attempts) /\ Len(Tail(h)) = Len(h) - 1
          /\ \A i \in 1..Len(h) - 1 : Tail(h)[i] = h[i + 1]
      BY <3>1
    <3>3. \A i \in 1..Len(h) - 1 : i + 1 \in 1..Len(h)
      BY <1>0
    <3>4. \A i \in 1..(Len(h) - 1) - 1 : i + 1 \in 1..Len(h) - 1 /\ i \in 1..Len(h) - 1
      BY <1>0
    <3>5. \A i \in 1..(Len(h) - 1) - 1 : Tail(h)[i].to = Tail(h)[i + 1].from
      BY <3>2, <3>4
    <3>6. \A i \in 1..Len(h) - 1 : Tail(h)[i].to # NoId /\ Accepts(Tail(h)[i].from, Tail(h)[i].event)
      BY <3>2, <3>3
    <3>7. Len(h) - 1 # 0 => Len(h) - 1 \in 1..Len(h) - 1 /\ (Len(h) - 1) + 1 = Len(h)
      BY <1>0, <3>1
    <3>8. Len(h) - 1 # 0 => Tail(h)[Len(h) - 1].to = c
      BY <3>1, <3>2, <3>7
    <3>9. Len(h) - 1 \in Nat /\ Len(h) - 1 < MaxRecent
      BY <1>0, <3>1
    <3> QED
      BY <3>1, <3>2, <3>5, <3>6, <3>8, <3>9
  <2>2. CASE ~(Len(h) >= MaxRecent)
    BY <1>0, <2>2
  <2> QED
    BY <2>1, <2>2
<1> DEFINE N == Len(kept)
<1>2. /\ g \in Seq(Attempts) /\ Len(g) = N + 1 /\ g[N + 1] = a /\ N \in Nat
      /\ \A i \in 1..N : g[i] = kept[i]
  BY <1>1
<1> HIDE DEF N, g, PathTo
<1>3. \A i \in 1..N + 1 : i \in 1..N \/ i = N + 1
  BY <1>2
<1>4. \A i \in 1..N : i + 1 \in 1..N \/ i = N
  BY <1>2
<1>5. \A i \in 1..N : i + 1 \in 1..N => i \in 1..N - 1
  BY <1>2
<1>6. \A i \in 1..N : g[i].to # NoId /\ g[i].to = g[i + 1].from
  <2>1. SUFFICES ASSUME NEW i \in 1..N PROVE g[i].to # NoId /\ g[i].to = g[i + 1].from
    OBVIOUS
  <2>2. g[i] = kept[i] /\ kept[i].to # NoId
    BY <1>1, <1>2 DEF N
  <2>3. CASE i = N
    <3>1. N # 0 /\ kept[N].to = c
      BY <1>1, <1>2, <2>3 DEF N
    <3> QED
      BY <1>2, <2>2, <2>3, <3>1
  <2>4. CASE i + 1 \in 1..N
    <3>1. kept[i].to = kept[i + 1].from
      BY <1>1, <1>5, <2>4 DEF N
    <3> QED
      BY <1>2, <2>2, <2>4, <3>1
  <2> QED
    BY <1>4, <2>3, <2>4
<1>7. \A i \in 1..N + 1 : g[i].to # NoId => Accepts(g[i].from, g[i].event)
  BY <1>1, <1>2, <1>3 DEF N
<1>8. Len(g) - 1 = N /\ g # <<>> /\ Len(g) <= MaxRecent
  BY <1>0, <1>1, <1>2 DEF N
<1> QED
  BY <1>2, <1>6, <1>7, <1>8 DEF EndsWith, g

\* Where the engine enters from what can be reached can be reached.
LEMMA EnteredReached ==
  ASSUME ParserTyped, Checked, NEW id \in Declared,
         \A R : InitialId \in R /\ Enclosed(R) => id \in R
  PROVE  /\ EnterInitialState(id) \in Declared
         /\ \A R : InitialId \in R /\ Enclosed(R) => EnterInitialState(id) \in R
<1>1. DOMAIN States = Declared
  BY DEF States, Declared
<1>2. \A s \in Declared : States[s].initial = NoId \/ HasState(States[s].initial)
  BY <1>1 DEF Checked, HasState
<1>3. ASSUME NEW R, id \in R, Enclosed(R) PROVE EnterInitialState(id) \in R \cap Declared
  <2>1. \A s \in R \cap Declared : Follow(s) \subseteq R
    BY <1>3, EnclosedFollows
  <2> QED
    BY <1>2, <1>3, <2>1, EnteredIs
<1>4. EnterInitialState(id) \in Declared
  <2> DEFINE Whole == Reachable(id)
  <2>1. id \in Whole /\ \A s \in Whole \cap Declared : Follow(s) \subseteq Whole
    BY ReachableIs
  <2> HIDE DEF Whole
  <2>2. Enclosed(Whole)
    BY <2>1, EnclosedFollows
  <2> QED
    BY <1>3, <2>1, <2>2
<1> QED
  BY <1>3, <1>4

LEMMA EngineStarts ==
  ASSUME DocumentInv, EngineInv, NewEngine
  PROVE  EngineInv'
<1>1. ParserTyped /\ Checked /\ phase = "built" /\ engine.current = NoId /\ parser' = parser
  BY DEF NewEngine, DocumentInv, EngineInv
<1>2. CASE Overflows(InitialId)
  BY <1>1, <1>2, EngineKept DEF NewEngine
<1>3. CASE ~Overflows(InitialId)
  <2> DEFINE id == EnterInitialState(InitialId)
  <2>1. PICK debug \in BOOLEAN : engine' = [NoEngine EXCEPT !.current = id, !.debug = debug]
    BY <1>1, <1>3 DEF NewEngine
  <2>2. phase' = "built"
    BY <1>1, <1>3 DEF NewEngine
  <2>3. InitialId \in Declared
    BY <1>1 DEF Checked
  <2>4. id \in Declared /\ \A R : InitialId \in R /\ Enclosed(R) => id \in R
    BY <1>1, <2>3, EnteredReached
  <2>5. States[id].initial = NoId
    BY <1>3 DEF Overflows
  <2> HIDE DEF id
  <2>6. engine'.current = id /\ engine'.recent = <<>> /\ engine'.debug = debug
        /\ engine' = [current |-> id, recent |-> <<>>, debug |-> debug]
    BY <2>1 DEF NoEngine
  <2>7. Declared' = Declared /\ States' = States /\ InitialId' = InitialId
    BY <1>1 DEF Declared, States, InitialId
  <2>8. Checked' /\ \A R : Enclosed(R)' = Enclosed(R)
    BY <1>1, <2>7 DEF Checked, Enclosed
  <2>9. <<>> \in Seq(Attempts) /\ Len(<<>>) = 0
    OBVIOUS
  <2> QED
    BY <2>2, <2>4, <2>5, <2>6, <2>7, <2>8, <2>9, ChartsAssumption DEF EngineInv
<1> QED
  BY <1>2, <1>3

LEMMA EngineSends ==
  ASSUME DocumentInv, EngineInv, NEW event \in EventNames, SendEvent(event)
  PROVE  EngineInv'
<1> DEFINE c == engine.current
           h == engine.recent
           target == Transition(c, event)
           entered == EnterInitialState(target)
<1>1. /\ ParserTyped /\ Checked /\ phase = "built" /\ c \in Declared /\ parser' = parser
      /\ h \in Seq(Attempts) /\ Len(h) <= MaxRecent /\ engine.debug \in BOOLEAN
      /\ engine = [current |-> c, recent |-> h, debug |-> engine.debug]
  BY DEF SendEvent, DocumentInv, EngineInv
<1>2. States[c].initial = NoId /\ \A R : InitialId \in R /\ Enclosed(R) => c \in R
  BY DEF EngineInv, SendEvent
<1>3. PathTo(h, c)
  <2>1. /\ \A i \in 1..Len(h) : h[i].to # NoId
        /\ \A i \in 1..Len(h) : h[i].to # NoId => Accepts(h[i].from, h[i].event)
        /\ \A i \in 1..Len(h) - 1 : h[i].to = h[i + 1].from
        /\ h # <<>> => c = IF h[Len(h)].to = NoId THEN h[Len(h)].from ELSE h[Len(h)].to
    BY <1>1 DEF EngineInv
  <2>2. h # <<>> => Len(h) \in 1..Len(h)
    BY <1>1
  <2> HIDE DEF h, c
  <2> QED
    BY <1>1, <2>1, <2>2 DEF PathTo
<1>4. NoId \notin Declared /\ Declared \subseteq ChartNames
  BY <1>1, StatesTyped, ChartsAssumption DEF ChartNames
<1>5. Declared' = Declared /\ States' = States /\ InitialId' = InitialId
  BY <1>1 DEF Declared, States, InitialId
<1>6. /\ Checked' /\ \A R : Enclosed(R)' = Enclosed(R)
      /\ \A s, e : Accepts(s, e)' = Accepts(s, e)
  BY <1>1, <1>5 DEF Checked, Enclosed, Accepts
<1>7. event \in ChartEvents
  <2>1. PICK s \in DOMAIN States : event \in ValidEvents(s)
    BY DEF EventNames
  <2>2. PICK i \in DOMAIN States[s].transitions : event = States[s].transitions[i].event
    BY <2>1 DEF ValidEvents, TransitionsOf, ToSet
  <2>3. States[s].transitions \in Seq(TransitionElements)
    BY <1>1, StatesTyped DEF States, Declared, StateRecords
  <2> QED
    BY <2>2, <2>3 DEF ChartEvents
<1>8. target # NoId =>
        /\ Accepts(c, event) /\ entered \in Declared
        /\ \A R : InitialId \in R /\ Enclosed(R) => entered \in R
  <2>1. SUFFICES ASSUME target # NoId
                 PROVE  /\ Accepts(c, event) /\ entered \in Declared
                        /\ \A R : InitialId \in R /\ Enclosed(R) => entered \in R
    OBVIOUS
  <2>2. Accepts(c, event) /\ target \in TargetsOf(c)
    BY <1>1, <2>1, ArmTaken
  <2> HIDE DEF target
  <2>3. PICK i \in DOMAIN States[c].transitions :
          \E k \in DOMAIN States[c].transitions[i].target : target = States[c].transitions[i].target[k]
    BY <2>2, FollowIs
  <2>4. target \in Declared
    BY <1>1, <2>3 DEF Checked
  <2>5. \A R : InitialId \in R /\ Enclosed(R) => target \in R
    BY <1>1, <1>2, <2>3 DEF Enclosed
  <2> QED
    BY <1>1, <2>2, <2>4, <2>5, EnteredReached
<1> DEFINE kept == IF Len(h) >= MaxRecent THEN Tail(h) ELSE h
           Try(to) == [from |-> c, event |-> event, to |-> to]
<1>9. \A to : Recorded(event, to) = IF engine.debug THEN Append(kept, Try(to)) ELSE <<>>
  BY DEF Recorded
<1>10. ASSUME NEW to \in Declared \cup {NoId}, to # NoId => Accepts(c, event)
       PROVE  LET g == Recorded(event, to)
              IN  /\ g \in Seq(Attempts) /\ Len(g) <= MaxRecent
                  /\ \A i \in 1..Len(g) - 1 : g[i].to # NoId /\ g[i].to = g[i + 1].from
                  /\ \A i \in 1..Len(g) : g[i].to # NoId => Accepts(g[i].from, g[i].event)
                  /\ g # <<>> => g[Len(g)].from = c /\ g[Len(g)].to = to /\ engine.debug
                  /\ to # NoId => \A i \in 1..Len(g) : g[i].to # NoId
  <2> DEFINE g == Recorded(event, to)
  <2>1. CASE engine.debug
    <3>1. g = Append(kept, Try(to))
      BY <1>9, <2>1
    <3>2. Try(to) \in Attempts /\ Try(to).from = c /\ Try(to).to = to /\ Try(to).event = event
      BY <1>1, <1>4, <1>7 DEF Attempts
    <3> HIDE DEF kept, Try, g, h, c
    <3>3. EndsWith(g, Try(to))
      <4>1. kept = IF Len(h) >= MaxRecent THEN Tail(h) ELSE h
        BY DEF kept
      <4> QED
        BY <1>3, <1>10, <3>1, <3>2, <4>1, HistoryGrows
    <3>4. \A i \in 1..Len(g) : i \in 1..Len(g) - 1 \/ i = Len(g)
      BY <3>3 DEF EndsWith
    <3>5. to # NoId => \A i \in 1..Len(g) : g[i].to # NoId
      BY <3>2, <3>3, <3>4 DEF EndsWith
    <3> QED
      BY <2>1, <3>2, <3>3, <3>5 DEF g, EndsWith
  <2>2. CASE ~engine.debug
    <3>1. g = <<>>
      BY <1>9, <2>2
    <3>2. <<>> \in Seq(Attempts) /\ Len(<<>>) = 0 /\ 0 <= MaxRecent
      BY ChartsAssumption
    <3> HIDE DEF g
    <3> QED
      BY <3>1, <3>2 DEF g
  <2> QED
    BY <1>1, <2>1, <2>2
<1> HIDE DEF target, entered, kept, Try
<1>11. CASE target # NoId /\ ~Overflows(target)
  <2>0. PICK g : g = Recorded(event, entered)
    OBVIOUS
  <2>1. engine' = [engine EXCEPT !.recent = g, !.current = entered] /\ phase' = "built"
    BY <1>1, <1>11, <2>0 DEF SendEvent, target, entered
  <2>2. States[entered].initial = NoId /\ entered \in Declared
    BY <1>8, <1>11 DEF Overflows, entered
  <2>3. /\ g \in Seq(Attempts) /\ Len(g) <= MaxRecent
        /\ \A i \in 1..Len(g) - 1 : g[i].to # NoId /\ g[i].to = g[i + 1].from
        /\ \A i \in 1..Len(g) : g[i].to # NoId => Accepts(g[i].from, g[i].event)
        /\ g # <<>> => g[Len(g)].to = entered
        /\ \A i \in 1..Len(g) : g[i].to # NoId
    BY <1>4, <1>8, <1>10, <1>11, <2>0, <2>2
  <2>4. engine' = [current |-> entered, recent |-> g, debug |-> engine.debug]
    BY <1>1, <2>1
  <2>5. entered # NoId
    BY <1>4, <2>2
  <2> HIDE DEF c, h
  <2>6. engine'.current = entered /\ engine'.recent = g
    BY <2>4
  <2>7. engine' \in [current : Declared' \cup {NoId}, recent : Seq(Attempts), debug : BOOLEAN]
    BY <1>1, <1>5, <2>2, <2>3, <2>4
  <2>8. \A i \in 1..Len(g) : g[i].to # NoId => Accepts(g[i].from, g[i].event)'
    BY <1>6, <2>3
  <2> QED
    BY <1>5, <1>6, <1>8, <1>11, <2>1, <2>2, <2>3, <2>5, <2>6, <2>7, <2>8 DEF EngineInv
<1>12. CASE target # NoId /\ Overflows(target)
  <2>1. engine' = engine /\ phase' = "crashed"
    BY <1>12 DEF SendEvent, target
  <2> QED
    BY <1>1, <2>1, EngineKept
<1>13. CASE target = NoId
  <2>0. PICK g : g = Recorded(event, NoId)
    OBVIOUS
  <2>1. engine' = [engine EXCEPT !.recent = g] /\ phase' = IF engine.debug THEN "crashed" ELSE phase
    BY <1>13, <2>0 DEF SendEvent, target
  <2>2. /\ g \in Seq(Attempts) /\ Len(g) <= MaxRecent
        /\ \A i \in 1..Len(g) - 1 : g[i].to # NoId /\ g[i].to = g[i + 1].from
        /\ \A i \in 1..Len(g) : g[i].to # NoId => Accepts(g[i].from, g[i].event)
        /\ g # <<>> => g[Len(g)].from = c /\ g[Len(g)].to = NoId /\ engine.debug
    BY <1>10, <2>0
  <2>3. engine' = [current |-> c, recent |-> g, debug |-> engine.debug]
    BY <1>1, <2>1
  <2>4. c # NoId
    BY <1>1, <1>4
  <2>5. phase' = "built" => g = <<>>
    BY <2>1, <2>2
  <2>6. <<>> = g => \A i \in 1..Len(g) : g[i].to # NoId
    OBVIOUS
  <2> HIDE DEF h
  <2>7. phase' \in {"built", "crashed"}
    BY <1>1, <2>1
  <2>8. engine'.current = c /\ engine'.recent = g
    BY <2>3
  <2>9. engine' \in [current : Declared' \cup {NoId}, recent : Seq(Attempts), debug : BOOLEAN]
    BY <1>1, <1>5, <2>2, <2>3
  <2>10. \A i \in 1..Len(g) : g[i].to # NoId => Accepts(g[i].from, g[i].event)'
    BY <1>6, <2>2
  <2> HIDE DEF c
  <2> QED
    BY <1>2, <1>5, <1>6, <2>2, <2>4, <2>5, <2>6, <2>7, <2>8, <2>9, <2>10 DEF EngineInv
<1> QED
  BY <1>11, <1>12, <1>13

LEMMA EngineStep == DocumentInv /\ EngineInv /\ [ChartsNext]_chartVars => EngineInv'
<1> SUFFICES ASSUME DocumentInv, EngineInv, [ChartsNext]_chartVars PROVE EngineInv'
  OBVIOUS
<1>1. ASSUME phase = "reading", engine' = engine,
             phase' \in {"reading", "rejected"} \/ (phase' = "built" /\ Checked')
      PROVE  EngineInv'
  <2>1. engine' = NoEngine
    BY <1>1 DEF EngineInv
  <2>2. <<>> \in Seq(Attempts) /\ Len(<<>>) = 0
    OBVIOUS
  <2> QED
    BY <1>1, <2>1, <2>2, ChartsAssumption DEF EngineInv, NoEngine
<1>2. CASE \/ ReadState \/ ReadParallel \/ ReadFinal
           \/ ReadTransition \/ ReadInitial \/ ReadHistory \/ ReadEnd
  BY <1>1, <1>2 DEF ReadState, ReadParallel, ReadFinal, ReadTransition, ReadInitial, ReadHistory, ReadEnd, MayOpen
<1>3. CASE RunBuildScript
  <2>1. /\ phase = "reading" /\ engine' = engine /\ parser' = parser
        /\ phase' = IF ErrorRules = {} /\ Compiles THEN "built" ELSE "rejected"
    BY <1>3 DEF RunBuildScript
  <2>2. ErrorRules = {} /\ Compiles => Checked
    BY BuiltIsChecked DEF DocumentInv
  <2>3. Checked' = Checked
    BY <2>1 DEF Checked, Declared, States, InitialId
  <2> QED
    BY <1>1, <2>1, <2>2, <2>3
<1>4. CASE NewEngine
  BY <1>4, EngineStarts
<1>5. CASE \E event \in EventNames : SendEvent(event)
  BY <1>5, EngineSends
<1>6. CASE UNCHANGED chartVars
  <2>1. Declared' = Declared /\ States' = States /\ InitialId' = InitialId /\ engine' = engine /\ phase' = phase
    BY <1>6 DEF chartVars, Declared, States, InitialId
  <2>2. /\ Checked' = Checked /\ \A R : Enclosed(R)' = Enclosed(R)
        /\ \A s, event : Accepts(s, event)' = Accepts(s, event)
    BY <2>1 DEF Checked, Enclosed, Accepts
  <2> QED
    BY <2>1, <2>2 DEF EngineInv
<1> QED
  BY <1>2, <1>3, <1>4, <1>5, <1>6 DEF ChartsNext

LEMMA EngineIsOnCourse == DocumentInv /\ EngineInv => EngineOnCourse
<1> SUFFICES ASSUME DocumentInv, EngineInv PROVE EngineOnCourse
  OBVIOUS
<1> DEFINE h == engine.recent
           c == engine.current
<1>1. ParserTyped /\ h \in Seq(Attempts) /\ c \in Declared \cup {NoId}
  BY DEF DocumentInv, EngineInv
<1>2. NeverStrays
  <2>1. SUFFICES ASSUME c # NoId
                 PROVE  c \in Reachable(InitialId) \ Unreachable /\ States[c].initial = NoId
    BY DEF NeverStrays
  <2>2. InitialId \in Reachable(InitialId) /\ Enclosed(Reachable(InitialId))
    BY <1>1, ReachableIs, EnclosedFollows
  <2>3. c \in Reachable(InitialId) /\ States[c].initial = NoId
    BY <2>1, <2>2 DEF EngineInv
  <2>4. c \notin Unreachable
    BY <2>3 DEF Unreachable
  <2> QED
    BY <2>3, <2>4
<1>3. HistoryIsThePath
  <2>1. Len(h) <= MaxRecent /\ \A i \in 1..Len(h) - 1 : h[i].to # NoId /\ h[i].to = h[i + 1].from
    BY DEF EngineInv
  <2>2. h # <<>> => c = IF Last(h).to = NoId THEN Last(h).from ELSE Last(h).to
    BY DEF EngineInv, Last
  <2>3. \A i \in DOMAIN h : h[i].to # NoId => h[i].event \in ValidEvents(h[i].from)
    <3>1. DOMAIN h = 1..Len(h)
      BY <1>1
    <3>2. ASSUME NEW s, NEW event, Accepts(s, event) PROVE event \in ValidEvents(s)
      BY <3>2 DEF Accepts, ValidEvents, TransitionsOf, ToSet
    <3> QED
      BY <3>1, <3>2 DEF EngineInv
  <2> QED
    BY <2>1, <2>2, <2>3 DEF HistoryIsThePath
<1> QED
  BY <1>2, <1>3 DEF EngineOnCourse

LEMMA ChartsInvariant == ChartsSpec => [](DocumentInv /\ EngineInv)
<1>1. ChartsInit => DocumentInv /\ EngineInv
  BY DocumentInitial, EngineInitial
<1>2. (DocumentInv /\ EngineInv) /\ [ChartsNext]_chartVars => (DocumentInv /\ EngineInv)'
  BY DocumentStep, EngineStep
<1> QED
  BY <1>1, <1>2, PTL DEF ChartsSpec

\* However elements open, close themselves and nest, the parser holds the states that were written
\* and no others, each with its children, its kind and its own transitions; those of an <initial>
\* or a <history> are mixed with the state's own (parser.rs:158-190, :235-345).
THEOREM ChartsRead == ChartsSpec => []DocumentKept
<1>1. DocumentInv => DocumentKept
  BY DEF DocumentInv, Kept
<1> QED
  BY <1>1, ChartsInvariant, PTL

\* The engine stays where the validator could reach, never in a container with an initial child, and
\* its bounded history is the end of the path it took (engine.rs:90-94, 492-500).
THEOREM EnginesStayOnCourse == ChartsSpec => []EngineOnCourse
BY ChartsInvariant, EngineIsOnCourse, PTL
=============================================================================
