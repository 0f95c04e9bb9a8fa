---------------------------- MODULE PlannerProofs ----------------------------
(***************************************************************************)
(* The planner, for every set of targets, instances and pools, and every   *)
(* configuration of their draws, priorities and flags.                     *)
(*                                                                         *)
(* The planner's loop and its sums are recursive functions.  That they     *)
(* exist, and what follows from their recursion, is proved from the least  *)
(* number principle: a set that breaks a claim would contain a smallest    *)
(* one.                                                                    *)
(***************************************************************************)
EXTENDS MemoryPlanner, FiniteSetTheorems, WellFoundedInduction, TLAPS

-----------------------------------------------------------------------------
(* Finite sets.                                                            *)

(* A nonempty set of natural numbers has a least element.                  *)
LEMMA LeastNat ==
  ASSUME NEW T \in SUBSET Nat, T # {}
  PROVE  \E x \in T : \A y \in T : x <= y
<1> DEFINE less == OpToRel(<, Nat)
<1>1. \A x, y \in Nat : <<y, x>> \in less <=> y < x
  BY DEF OpToRel
<1>2. IsWellFoundedOn(less, Nat)
  BY NatLessThanWellFounded
<1> HIDE DEF less
<1>3. PICK x \in T : \A y \in T : <<y, x>> \notin less
  BY <1>2, WFMin
<1>4. \A y \in T : ~(y < x)
  BY <1>1, <1>3
<1> QED BY <1>4

(* A family of subsets of a finite set has a member without a smaller one. *)
LEMMA SmallestSet ==
  ASSUME NEW D, IsFiniteSet(D), NEW T \in SUBSET SUBSET D, T # {}
  PROVE  \E s \in T : \A r \in T : r \subseteq s => r = s
<1> DEFINE N == {Cardinality(s) : s \in T}
<1>1. \A s \in SUBSET D : IsFiniteSet(s) /\ Cardinality(s) \in Nat
  BY FS_Subset, FS_CardinalityType
<1>2. N \in SUBSET Nat /\ N # {}
  BY <1>1
<1> HIDE DEF N
<1>3. PICK n \in N : \A k \in N : n <= k
  BY <1>2, LeastNat
<1>4. PICK s \in T : n = Cardinality(s)
  BY <1>3 DEF N
<1>5. ASSUME NEW r \in T, r \subseteq s PROVE r = s
  <2>1. Cardinality(r) <= Cardinality(s) /\ (Cardinality(r) = Cardinality(s) => r = s)
    BY <1>1, <1>5, FS_Subset
  <2>2. n <= Cardinality(r)
    BY <1>3 DEF N
  <2> QED BY <2>1, <2>2, <1>1, <1>4
<1> QED BY <1>5

(* A function of the subsets of S that is defined from its value at a      *)
(* smaller subset exists: next[s] is that subset, and stop holds the sets  *)
(* where the descent ends.                                                 *)
IsDescent(S, V, stop, base, next, combine) ==
  /\ IsFiniteSet(S) /\ stop \subseteq SUBSET S
  /\ base \in [SUBSET S -> V] /\ next \in [SUBSET S -> SUBSET S]
  /\ combine \in [SUBSET S -> [V -> V]]
  /\ \A s \in SUBSET S : s \notin stop => next[s] \subseteq s /\ next[s] # s

Descends(it, S, V, stop, base, next, combine) ==
  /\ it \in [SUBSET S -> V]
  /\ \A s \in SUBSET S : it[s] = IF s \in stop THEN base[s] ELSE combine[s][it[next[s]]]

LEMMA DescentExists ==
  ASSUME NEW S, NEW V, NEW stop, NEW base, NEW next, NEW combine,
         IsDescent(S, V, stop, base, next, combine)
  PROVE  \E it : Descends(it, S, V, stop, base, next, combine)
<1> USE DEF IsDescent
<1> DEFINE Small(n) == {s \in SUBSET S : Cardinality(s) <= n}
           Follows(it, n) ==
             \A s \in Small(n) :
               it[s] = IF s \in stop THEN base[s] ELSE combine[s][it[next[s]]]
           Bad == {n \in Nat : ~ \E it \in [SUBSET S -> V] : Follows(it, n)}
<1>1. \A s \in SUBSET S : IsFiniteSet(s) /\ Cardinality(s) \in Nat
  BY FS_Subset, FS_CardinalityType
<1>2. \A s \in SUBSET S : s \notin stop =>
        next[s] \in SUBSET S /\ Cardinality(next[s]) < Cardinality(s)
  BY <1>1, FS_Subset
<1>3. Bad = {}
  <2> SUFFICES ASSUME Bad # {} PROVE FALSE
    OBVIOUS
  <2>1. PICK n \in Bad : \A k \in Bad : n <= k
    <3>1. Bad \in SUBSET Nat
      OBVIOUS
    <3> HIDE DEF Bad
    <3> QED BY <3>1, LeastNat
  <2>2. n \in Nat /\ ~ \E it \in [SUBSET S -> V] : Follows(it, n)
    OBVIOUS
  <2>3. \E old \in [SUBSET S -> V] : n > 0 => Follows(old, n - 1)
    <3>1. CASE n = 0
      BY <3>1
    <3>2. CASE n > 0
      <4>1. n - 1 \in Nat /\ ~(n <= n - 1)
        BY <2>2, <3>2
      <4>2. n - 1 \notin Bad
        <5> HIDE DEF Bad
        <5> QED BY <2>1, <4>1
      <4> QED BY <4>1, <4>2
    <3> QED BY <2>2, <3>1, <3>2
  <2>4. PICK old \in [SUBSET S -> V] : n > 0 => Follows(old, n - 1)
    BY <2>3
  <2> DEFINE it == [s \in SUBSET S |->
                      IF s \in stop THEN base[s] ELSE combine[s][old[next[s]]]]
  <2>5. it \in [SUBSET S -> V]
    OBVIOUS
  <2>6. ASSUME NEW s \in Small(n), s \notin stop
        PROVE  it[next[s]] = old[next[s]]
    <3>1. n > 0 /\ next[s] \in Small(n - 1)
      BY <1>1, <1>2, <2>2, <2>6
    <3> QED BY <2>4, <3>1
  <2>7. Follows(it, n)
    BY <2>6
  <2> QED BY <2>2, <2>5, <2>7
<1>4. Cardinality(S) \in Nat /\ \A s \in SUBSET S : Cardinality(s) <= Cardinality(S)
  BY FS_Subset, FS_CardinalityType
<1>5. PICK it \in [SUBSET S -> V] : Follows(it, Cardinality(S))
  BY <1>3, <1>4
<1> QED BY <1>4, <1>5 DEF Descends

-----------------------------------------------------------------------------
(* Sums.                                                                   *)
Any(s) == CHOOSE x \in s : TRUE

SumSteps(f, S, it) ==
  it = [s \in SUBSET S |-> IF s = {} THEN 0 ELSE f[Any(s)] + it[s \ {Any(s)}]]

LEMMA SumOfSteps ==
  ASSUME NEW S, IsFiniteSet(S), NEW f, \A x \in S : f[x] \in Nat
  PROVE  \E it \in [SUBSET S -> Nat] : SumSteps(f, S, it) /\ SumFunctionOnSet(f, S) = it[S]
<1> DEFINE V == Nat
           stop == {{}}
           base == [s \in SUBSET S |-> 0]
           next == [s \in SUBSET S |-> s \ {Any(s)}]
           combine == [s \in SUBSET S |-> [n \in Nat |-> IF s = {} THEN 0 ELSE f[Any(s)] + n]]
<1>1. \A s \in SUBSET S : s # {} => Any(s) \in s
  BY DEF Any
<1>2. stop \in SUBSET SUBSET S /\ base \in [SUBSET S -> V] /\ next \in [SUBSET S -> SUBSET S]
  OBVIOUS
<1>3. combine \in [SUBSET S -> [V -> V]]
  BY <1>1
<1>4. \A s \in SUBSET S : s \notin stop => next[s] \subseteq s /\ next[s] # s
  BY <1>1
<1>5. \A s \in SUBSET S : \A n \in Nat :
        (s \in stop <=> s = {}) /\ base[s] = 0 /\ next[s] = s \ {Any(s)}
        /\ combine[s][n] = IF s = {} THEN 0 ELSE f[Any(s)] + n
  OBVIOUS
<1> HIDE DEF stop, base, next, combine
<1>6. \E it : Descends(it, S, V, stop, base, next, combine)
  <2> HIDE DEF V
  <2>1. IsDescent(S, V, stop, base, next, combine)
    BY <1>2, <1>3, <1>4 DEF IsDescent
  <2> QED BY <2>1, DescentExists
<1>7. PICK it \in [SUBSET S -> Nat] :
        \A s \in SUBSET S : it[s] = IF s \in stop THEN base[s] ELSE combine[s][it[next[s]]]
  BY <1>6 DEF Descends
<1>8. ASSUME NEW s \in SUBSET S
      PROVE  it[s] = IF s = {} THEN 0 ELSE f[Any(s)] + it[s \ {Any(s)}]
  <2>1. it[s \ {Any(s)}] \in Nat
    OBVIOUS
  <2>2. combine[s][it[next[s]]] = IF s = {} THEN 0 ELSE f[Any(s)] + it[s \ {Any(s)}]
    BY <1>5, <2>1
  <2> QED BY <1>5, <1>7, <2>2
<1>9. SumSteps(f, S, it)
  BY <1>8 DEF SumSteps
<1> DEFINE sum == CHOOSE i : SumSteps(f, S, i)
<1>10. SumSteps(f, S, sum)
  BY <1>9
<1>11. SumFunctionOnSet(f, S) = sum[S]
  BY DEF SumFunctionOnSet, FoldFunctionOnSet, MapThenFoldSet, SumSteps, Any
<1> HIDE DEF sum
<1>12. \A s \in SUBSET S : sum[s] \in Nat
  <2> DEFINE T == {s \in SUBSET S : sum[s] \notin Nat}
  <2> SUFFICES ASSUME T # {} PROVE FALSE
    OBVIOUS
  <2>1. PICK s \in T : \A r \in T : r \subseteq s => r = s
    <3>1. T \in SUBSET SUBSET S
      OBVIOUS
    <3> HIDE DEF T
    <3> QED BY <3>1, SmallestSet
  <2>2. sum[s] = IF s = {} THEN 0 ELSE f[Any(s)] + sum[s \ {Any(s)}]
    BY <1>10 DEF SumSteps
  <2>3. s # {}
    BY <2>2
  <2>4. Any(s) \in s /\ sum[s \ {Any(s)}] \in Nat
    BY <1>1, <2>1, <2>3
  <2> QED BY <2>2, <2>3, <2>4
<1>13. sum \in [SUBSET S -> Nat]
  BY <1>10, <1>12 DEF SumSteps
<1> QED BY <1>10, <1>11, <1>13

(* The steps for a set and for a part of it give the same sums.            *)
LEMMA SumStepsAgree ==
  ASSUME NEW S, IsFiniteSet(S), NEW R \in SUBSET S, NEW f,
         NEW i, SumSteps(f, S, i), NEW j, SumSteps(f, R, j)
  PROVE  i[R] = j[R]
<1> DEFINE T == {s \in SUBSET R : i[s] # j[s]}
<1> SUFFICES ASSUME T # {} PROVE FALSE
  OBVIOUS
<1>1. PICK s \in T : \A r \in T : r \subseteq s => r = s
  <2>1. T \in SUBSET SUBSET S
    OBVIOUS
  <2> HIDE DEF T
  <2> QED BY <2>1, SmallestSet
<1>2. /\ i[s] = IF s = {} THEN 0 ELSE f[Any(s)] + i[s \ {Any(s)}]
      /\ j[s] = IF s = {} THEN 0 ELSE f[Any(s)] + j[s \ {Any(s)}]
  BY DEF SumSteps
<1>3. s # {}
  BY <1>2
<1>4. Any(s) \in s
  BY <1>3 DEF Any
<1>5. i[s \ {Any(s)}] = j[s \ {Any(s)}]
  BY <1>1, <1>4
<1> QED BY <1>2, <1>3, <1>5

LEMMA SumNat ==
  ASSUME NEW S, IsFiniteSet(S), NEW f, \A x \in S : f[x] \in Nat
  PROVE  SumFunctionOnSet(f, S) \in Nat
<1>1. PICK it \in [SUBSET S -> Nat] : SumFunctionOnSet(f, S) = it[S]
  BY SumOfSteps
<1> QED BY <1>1

LEMMA SumEmpty ==
  ASSUME NEW f PROVE SumFunctionOnSet(f, {}) = 0
<1>1. PICK it : SumSteps(f, {}, it) /\ SumFunctionOnSet(f, {}) = it[{}]
  BY SumOfSteps, FS_EmptySet
<1> QED BY <1>1 DEF SumSteps

LEMMA SumAny ==
  ASSUME NEW S, IsFiniteSet(S), NEW f, \A x \in S : f[x] \in Nat, S # {}
  PROVE  SumFunctionOnSet(f, S) = f[Any(S)] + SumFunctionOnSet(f, S \ {Any(S)})
<1> DEFINE R == S \ {Any(S)}
<1>1. PICK i : SumSteps(f, S, i) /\ SumFunctionOnSet(f, S) = i[S]
  BY SumOfSteps
<1>2. PICK j : SumSteps(f, R, j) /\ SumFunctionOnSet(f, R) = j[R]
  BY SumOfSteps, FS_Subset
<1>3. i[S] = f[Any(S)] + i[R]
  BY <1>1 DEF SumSteps
<1> HIDE DEF R
<1>4. i[R] = j[R]
  BY <1>1, <1>2, SumStepsAgree DEF R
<1> QED BY <1>1, <1>2, <1>3, <1>4 DEF R

(* Whichever element is taken out.                                         *)
LEMMA SumRemove ==
  ASSUME NEW S, IsFiniteSet(S), NEW f, \A x \in S : f[x] \in Nat, NEW x \in S
  PROVE  SumFunctionOnSet(f, S) = f[x] + SumFunctionOnSet(f, S \ {x})
<1> DEFINE T == {s \in SUBSET S : \E y \in s :
                   SumFunctionOnSet(f, s) # f[y] + SumFunctionOnSet(f, s \ {y})}
<1> SUFFICES ASSUME T # {} PROVE FALSE
  OBVIOUS
<1>1. PICK s \in T : \A r \in T : r \subseteq s => r = s
  <2>1. T \in SUBSET SUBSET S
    OBVIOUS
  <2> HIDE DEF T
  <2> QED BY <2>1, SmallestSet
<1>2. PICK y \in s : SumFunctionOnSet(f, s) # f[y] + SumFunctionOnSet(f, s \ {y})
  OBVIOUS
<1> DEFINE a == Any(s)
<1>3. a \in s
  BY <1>2 DEF Any
<1>4. s \in SUBSET S /\ IsFiniteSet(s)
  BY FS_Subset
<1>5. SumFunctionOnSet(f, s) = f[a] + SumFunctionOnSet(f, s \ {a})
  BY <1>3, <1>4, SumAny
<1> HIDE DEF a
<1>6. a # y
  BY <1>2, <1>5
<1>7. /\ s \ {a} \notin T /\ s \ {y} \notin T
  BY <1>1, <1>2, <1>3
<1>8. SumFunctionOnSet(f, s \ {a}) = f[y] + SumFunctionOnSet(f, (s \ {a}) \ {y})
  BY <1>2, <1>4, <1>6, <1>7
<1>9. SumFunctionOnSet(f, s \ {y}) = f[a] + SumFunctionOnSet(f, (s \ {y}) \ {a})
  BY <1>3, <1>4, <1>6, <1>7
<1>10. (s \ {a}) \ {y} = (s \ {y}) \ {a}
  OBVIOUS
<1>11. f[a] \in Nat /\ f[y] \in Nat /\ SumFunctionOnSet(f, (s \ {y}) \ {a}) \in Nat
  BY <1>2, <1>3, <1>4, SumNat, FS_Subset
<1> QED BY <1>2, <1>5, <1>8, <1>9, <1>10, <1>11

(* A sum over more of what counts is no smaller.                           *)
LEMMA SumMonotone ==
  ASSUME NEW S, IsFiniteSet(S), NEW f, \A x \in S : f[x] \in Nat,
         NEW A \in SUBSET S, NEW B \in SUBSET S, \A x \in A : f[x] > 0 => x \in B
  PROVE  SumFunctionOnSet(f, A) <= SumFunctionOnSet(f, B)
<1> DEFINE T == {s \in SUBSET A : \E b \in SUBSET S :
                   /\ \A x \in s : f[x] > 0 => x \in b
                   /\ ~(SumFunctionOnSet(f, s) <= SumFunctionOnSet(f, b))}
<1> SUFFICES ASSUME T # {} PROVE FALSE
  OBVIOUS
<1>1. PICK s \in T : \A r \in T : r \subseteq s => r = s
  <2>1. T \in SUBSET SUBSET S
    OBVIOUS
  <2> HIDE DEF T
  <2> QED BY <2>1, SmallestSet
<1>2. PICK b \in SUBSET S : /\ \A x \in s : f[x] > 0 => x \in b
                           /\ ~(SumFunctionOnSet(f, s) <= SumFunctionOnSet(f, b))
  OBVIOUS
<1>3. \A r \in SUBSET S : IsFiniteSet(r) /\ SumFunctionOnSet(f, r) \in Nat
  BY SumNat, FS_Subset
<1>4. s # {}
  BY <1>2, <1>3, SumEmpty
<1>5. PICK x \in s : TRUE
  BY <1>4
<1>6. SumFunctionOnSet(f, s) = f[x] + SumFunctionOnSet(f, s \ {x})
  BY <1>3, SumRemove
<1>7. f[x] \in Nat /\ s \ {x} \in SUBSET A /\ s \ {x} \notin T
  BY <1>1
<1>8. CASE f[x] = 0
  <2>1. SumFunctionOnSet(f, s \ {x}) <= SumFunctionOnSet(f, b)
    BY <1>2, <1>7
  <2> QED BY <1>2, <1>3, <1>6, <1>8, <2>1
<1>9. CASE f[x] > 0
  <2>1. x \in b
    BY <1>2, <1>9
  <2>2. SumFunctionOnSet(f, b) = f[x] + SumFunctionOnSet(f, b \ {x})
    BY <1>3, <2>1, SumRemove
  <2>3. SumFunctionOnSet(f, s \ {x}) <= SumFunctionOnSet(f, b \ {x})
    BY <1>2, <1>7
  <2> QED BY <1>2, <1>3, <1>6, <1>7, <2>2, <2>3
<1> QED BY <1>7, <1>8, <1>9

-----------------------------------------------------------------------------
(* Orders on finite sets, and the table of peers.                          *)

(* A finite set has a first element in every order that is total on it.    *)
LEMMA FiniteFirst ==
  ASSUME NEW S, IsFiniteSet(S), S # {}, NEW R,
         \A x, y, z \in S : <<x, y>> \in R /\ <<y, z>> \in R => <<x, z>> \in R,
         \A x, y \in S : x = y \/ <<x, y>> \in R \/ <<y, x>> \in R
  PROVE  \E x \in S : \A y \in S \ {x} : <<x, y>> \in R
<1> DEFINE Upto(x) == {y \in S : y = x \/ <<y, x>> \in R}
           T == {Upto(x) : x \in S}
<1>1. \A x \in S : Upto(x) \in SUBSET S
  OBVIOUS
<1> HIDE DEF Upto
<1>2. PICK s \in T : \A r \in T : r \subseteq s => r = s
  <2>1. T \in SUBSET SUBSET S /\ T # {}
    BY <1>1
  <2> HIDE DEF T
  <2> QED BY <2>1, SmallestSet
<1>3. PICK x \in S : s = Upto(x) /\ \A y \in S : Upto(y) \subseteq s => Upto(y) = s
  BY <1>2
<1>4. ASSUME NEW y \in S \ {x}, <<x, y>> \notin R PROVE FALSE
  <2>1. <<y, x>> \in R
    BY <1>4
  <2>2. Upto(y) \subseteq Upto(x)
    BY <2>1 DEF Upto
  <2>3. Upto(y) = Upto(x)
    BY <1>3, <2>2
  <2>4. x \in Upto(y)
    BY <2>3 DEF Upto
  <2> QED BY <1>4, <2>4 DEF Upto
<1> QED BY <1>4

(* The highest priority of a set of targets.                               *)
LEMMA MaxPriority ==
  ASSUME NEW S \in SUBSET Targets, S # {}
  PROVE  /\ Max({Priority[m] : m \in S}) \in {Priority[m] : m \in S}
         /\ \A n \in S : Priority[n] <= Max({Priority[m] : m \in S})
<1> DEFINE R == {p \in S \X S : Priority[p[1]] >= Priority[p[2]]}
           T == {Priority[m] : m \in S}
<1>1. \A m, n \in S : <<m, n>> \in R <=> Priority[m] >= Priority[n]
  OBVIOUS
<1>2. \A m \in S : Priority[m] \in Int
  BY SchedulerAssumption
<1> HIDE DEF R
<1>3. PICK x \in S : \A y \in S \ {x} : <<x, y>> \in R
  <2>1. IsFiniteSet(S)
    BY FS_Subset, SchedulerAssumption
  <2>2. \A x, y, z \in S : <<x, y>> \in R /\ <<y, z>> \in R => <<x, z>> \in R
    BY <1>1, <1>2
  <2>3. \A x, y \in S : x = y \/ <<x, y>> \in R \/ <<y, x>> \in R
    <3>1. \A x, y \in S : Priority[x] >= Priority[y] \/ Priority[y] >= Priority[x]
      BY <1>2
    <3> QED BY <1>1, <3>1
  <2> QED BY <2>1, <2>2, <2>3, FiniteFirst
<1>4. Priority[x] \in T /\ \A k \in T : Priority[x] >= k
  <2>1. Priority[x] >= Priority[x]
    BY <1>2
  <2>2. \A m \in S : Priority[x] >= Priority[m]
    BY <1>1, <1>3, <2>1
  <2> QED BY <2>2
<1>5. Max(T) \in T /\ \A k \in T : Max(T) >= k
  BY <1>4 DEF Max
<1>6. \A n \in S : Priority[n] \in T
  OBVIOUS
<1>7. \A k \in T : k \in Int
  BY <1>2
<1> HIDE DEF T
<1>8. \A n \in S : Priority[n] <= Max(T)
  BY <1>5, <1>6, <1>7
<1> QED BY <1>5, <1>8 DEF T

(* The first target in the configured order.                               *)
LEMMA FirstOfIn ==
  ASSUME NEW S \in SUBSET Targets, S # {}
  PROVE  FirstOf(S) \in S
<1> DEFINE T == {Position[m] : m \in S}
<1>1. T \in SUBSET Nat /\ T # {}
  BY SchedulerAssumption
<1>2. PICK x \in T : \A y \in T : x <= y
  <2> HIDE DEF T
  <2> QED BY <1>1, LeastNat
<1>3. PICK m \in S : x = Position[m]
  OBVIOUS
<1>4. \A n \in S : Position[m] <= Position[n]
  BY <1>2, <1>3
<1> QED BY <1>4 DEF FirstOf

LEMMA PeerTargetIn ==
  ASSUME NEW S \in SUBSET Targets, S # {}
  PROVE  PeerTarget(S) \in S
BY FirstOfIn DEF PeerTarget

(* What the planner's table says of a peer.                                *)
IsPeers(peers) ==
  /\ DOMAIN peers \subseteq Instances
  /\ \A i \in DOMAIN peers :
       /\ peers[i].preemptible \in BOOLEAN /\ peers[i].busy \in BOOLEAN
       /\ peers[i].priority \in Int /\ peers[i].idleFor \in Nat /\ peers[i].position \in Nat
  /\ \A i, j \in DOMAIN peers : peers[i].position = peers[j].position => i = j

IsPeerOf(req, all, peer) ==
  /\ all # {} /\ all \subseteq Targets
  /\ peer.target = PeerTarget(all) /\ peer.target \in all
  /\ peer.busy = (\E m \in all : req.rt[m].busy)
  /\ peer.preemptible = (\A m \in all : Preemptible[m])
  /\ peer.priority \in Int
  /\ \A m \in all : Priority[m] <= peer.priority
  /\ \E m \in all : Priority[m] = peer.priority
  /\ peer.idleFor \in Nat
  /\ FirstOf(all) \in all /\ peer.position = Position[FirstOf(all)]

LEMMA PeerFacts ==
  ASSUME NEW req \in PlanRequests, NEW t \in Targets,
         NEW i \in DOMAIN MemoryPeers(req, t)
  PROVE  /\ i \in Instances \ {InstanceOf[t]}
         /\ IsPeerOf(req, Residents(req, t, i), MemoryPeers(req, t)[i])
<1> DEFINE all == Residents(req, t, i)
           peer == MemoryPeers(req, t)[i]
           P == {Priority[m] : m \in all}
<1>1. i \in Instances \ {InstanceOf[t]} /\ all # {} /\ peer = PeerInstance(req, all)
  BY DEF MemoryPeers
<1>2. all \subseteq Targets
  BY DEF Residents
<1>3. PeerTarget(all) \in all /\ FirstOf(all) \in all
  BY <1>1, <1>2, PeerTargetIn, FirstOfIn
<1>4. req.rt[FirstOf(all)].idleFor \in Nat
  BY <1>2, <1>3 DEF PlanRequests, RuntimeView
<1>5. /\ peer.target = PeerTarget(all)
      /\ peer.busy = (\E m \in all : req.rt[m].busy)
      /\ peer.preemptible = (\A m \in all : Preemptible[m])
      /\ peer.priority = Max(P)
      /\ peer.idleFor = req.rt[FirstOf(all)].idleFor
      /\ peer.position = Position[FirstOf(all)]
  BY <1>1 DEF PeerInstance
<1> HIDE DEF peer, all
<1>6. Max(P) \in P /\ \A m \in all : Priority[m] <= Max(P)
  BY <1>1, <1>2, MaxPriority
<1>7. Max(P) \in Int /\ \E m \in all : Priority[m] = Max(P)
  <2>1. PICK m \in all : Max(P) = Priority[m]
    BY <1>6
  <2>2. m \in Targets /\ Priority[m] \in Int
    BY <1>2, SchedulerAssumption
  <2> HIDE DEF P
  <2> QED BY <2>1, <2>2
<1> HIDE DEF P
<1>8. IsPeerOf(req, all, peer)
  BY <1>1, <1>2, <1>3, <1>4, <1>5, <1>6, <1>7 DEF IsPeerOf
<1> QED BY <1>1, <1>8 DEF peer, all

LEMMA PeersAre ==
  ASSUME NEW req \in PlanRequests, NEW t \in Targets
  PROVE  IsPeers(MemoryPeers(req, t))
<1> DEFINE peers == MemoryPeers(req, t)
<1>1. \A i \in DOMAIN peers :
        /\ i \in Instances
        /\ IsPeerOf(req, Residents(req, t, i), peers[i])
  BY PeerFacts
<1> HIDE DEF peers
<1>2. ASSUME NEW i \in DOMAIN peers
      PROVE  /\ peers[i].preemptible \in BOOLEAN /\ peers[i].busy \in BOOLEAN
             /\ peers[i].priority \in Int /\ peers[i].idleFor \in Nat
             /\ peers[i].position \in Nat
  <2> DEFINE all == Residents(req, t, i)
  <2>1. IsPeerOf(req, all, peers[i])
    BY <1>1
  <2> HIDE DEF all
  <2> QED BY <2>1, SchedulerAssumption DEF IsPeerOf
<1>3. ASSUME NEW i \in DOMAIN peers, NEW j \in DOMAIN peers,
             peers[i].position = peers[j].position
      PROVE  i = j
  <2> DEFINE m == FirstOf(Residents(req, t, i))
             n == FirstOf(Residents(req, t, j))
  <2>1. m \in Residents(req, t, i) /\ n \in Residents(req, t, j) /\ Position[m] = Position[n]
    BY <1>1, <1>3 DEF IsPeerOf
  <2> HIDE DEF m, n
  <2>2. m \in Targets /\ n \in Targets /\ InstanceOf[m] = i /\ InstanceOf[n] = j
    BY <2>1 DEF Residents
  <2> QED BY <2>1, <2>2, SchedulerAssumption
<1>4. \A i \in DOMAIN peers : i \in Instances
  BY <1>1
<1>5. IsPeers(peers)
  BY <1>2, <1>3, <1>4 DEF IsPeers
<1> QED BY <1>5 DEF peers

-----------------------------------------------------------------------------
(* The next victim.                                                        *)

LEMMA DrawOnNat ==
  ASSUME NEW i \in Instances, NEW D \in SUBSET Pools
  PROVE  DrawOn(i, D) \in Nat
<1>1. IsFiniteSet(D) /\ \A p \in D : Draw[i][p] \in Nat
  BY FS_Subset, SchedulerAssumption
<1> QED BY <1>1, SumNat DEF DrawOn

(* The comparison of keys with five entries, entry by entry.               *)
LEMMA LexLessOfFive ==
  ASSUME NEW a1, NEW a2, NEW a3, NEW a4, NEW a5,
         NEW b1, NEW b2, NEW b3, NEW b4, NEW b5
  PROVE  LexLess(<<a1, a2, a3, a4, a5>>, <<b1, b2, b3, b4, b5>>) <=>
           \/ a1 < b1
           \/ a1 = b1 /\ a2 < b2
           \/ a1 = b1 /\ a2 = b2 /\ a3 < b3
           \/ a1 = b1 /\ a2 = b2 /\ a3 = b3 /\ a4 < b4
           \/ a1 = b1 /\ a2 = b2 /\ a3 = b3 /\ a4 = b4 /\ a5 < b5
<1> DEFINE s == <<a1, a2, a3, a4, a5>>
           t == <<b1, b2, b3, b4, b5>>
           Before(k) == \A j \in 1..(k - 1) : s[j] = t[j]
<1>1. DOMAIN s = 1..5
  OBVIOUS
<1>2. /\ s[1] = a1 /\ s[2] = a2 /\ s[3] = a3 /\ s[4] = a4 /\ s[5] = a5
      /\ t[1] = b1 /\ t[2] = b2 /\ t[3] = b3 /\ t[4] = b4 /\ t[5] = b5
  OBVIOUS
<1>3. LexLess(s, t) <=> \E k \in 1..5 : s[k] < t[k] /\ Before(k)
  BY <1>1 DEF LexLess
<1> HIDE DEF s, t
<1>4. Before(1)
  OBVIOUS
<1>5. Before(2) <=> a1 = b1
  BY <1>2
<1>6. Before(3) <=> a1 = b1 /\ a2 = b2
  BY <1>2
<1>7. Before(4) <=> a1 = b1 /\ a2 = b2 /\ a3 = b3
  BY <1>2
<1>8. Before(5) <=> a1 = b1 /\ a2 = b2 /\ a3 = b3 /\ a4 = b4
  BY <1>2
<1> HIDE DEF Before
<1>9. (\E k \in 1..5 : s[k] < t[k] /\ Before(k)) <=>
        \/ a1 < b1 /\ Before(1)
        \/ a2 < b2 /\ Before(2)
        \/ a3 < b3 /\ Before(3)
        \/ a4 < b4 /\ Before(4)
        \/ a5 < b5 /\ Before(5)
  <2>1. \A k \in 1..5 : k = 1 \/ k = 2 \/ k = 3 \/ k = 4 \/ k = 5
    OBVIOUS
  <2>2. 1 \in 1..5 /\ 2 \in 1..5 /\ 3 \in 1..5 /\ 4 \in 1..5 /\ 5 \in 1..5
    OBVIOUS
  <2> QED BY <1>2, <2>1, <2>2
<1> QED BY <1>3, <1>4, <1>5, <1>6, <1>7, <1>8, <1>9 DEF s, t

(* The victim of a tier comes first by the comparator, above all: it is    *)
(* wanted only when everything in the tier is.                             *)
LEMMA FirstVictimFacts ==
  ASSUME NEW peers, IsPeers(peers), NEW tier \in SUBSET DOMAIN peers, tier # {},
         NEW prot, NEW D \in SUBSET Pools
  PROVE  /\ FirstVictim(peers, tier, prot, D) \in tier
         /\ peers[FirstVictim(peers, tier, prot, D)].target \in prot =>
              \A i \in tier : peers[i].target \in prot
<1> DEFINE Key(i) == VictimKey(peers[i], i, prot, D)
           R == {p \in tier \X tier : LexLess(Key(p[1]), Key(p[2]))}
           k1(i) == IF peers[i].target \in prot THEN 1 ELSE 0
           k2(i) == peers[i].priority
           k3(i) == -peers[i].idleFor
           k4(i) == -DrawOn(i, D)
           k5(i) == peers[i].position
           Less(i, j) ==
             \/ k1(i) < k1(j)
             \/ k1(i) = k1(j) /\ k2(i) < k2(j)
             \/ k1(i) = k1(j) /\ k2(i) = k2(j) /\ k3(i) < k3(j)
             \/ k1(i) = k1(j) /\ k2(i) = k2(j) /\ k3(i) = k3(j) /\ k4(i) < k4(j)
             \/ k1(i) = k1(j) /\ k2(i) = k2(j) /\ k3(i) = k3(j) /\ k4(i) = k4(j) /\ k5(i) < k5(j)
<1>1. \A i \in tier : i \in DOMAIN peers /\ i \in Instances
  BY DEF IsPeers
<1>2. \A i \in tier : /\ k1(i) \in Int /\ k2(i) \in Int /\ k3(i) \in Int
                      /\ k4(i) \in Int /\ k5(i) \in Int
  <2> SUFFICES ASSUME NEW i \in tier PROVE /\ k1(i) \in Int /\ k2(i) \in Int /\ k3(i) \in Int
                      /\ k4(i) \in Int /\ k5(i) \in Int
    OBVIOUS
  <2>1. DrawOn(i, D) \in Nat
    BY <1>1, DrawOnNat
  <2>2. peers[i].priority \in Int /\ peers[i].idleFor \in Nat /\ peers[i].position \in Nat
    BY <1>1 DEF IsPeers
  <2> QED BY <2>1, <2>2
<1>3. \A i, j \in tier : i # j => k5(i) # k5(j)
  BY <1>1 DEF IsPeers
<1>4. \A i, j \in tier : LexLess(Key(i), Key(j)) <=> Less(i, j)
  <2> SUFFICES ASSUME NEW i \in tier, NEW j \in tier
               PROVE  LexLess(Key(i), Key(j)) <=> Less(i, j)
    OBVIOUS
  <2>1. /\ Key(i) = <<k1(i), k2(i), k3(i), k4(i), k5(i)>>
        /\ Key(j) = <<k1(j), k2(j), k3(j), k4(j), k5(j)>>
    BY DEF VictimKey
  <2> HIDE DEF Key, k1, k2, k3, k4, k5
  <2> QED BY <2>1, LexLessOfFive
<1>5. \A i, j \in tier : <<i, j>> \in R <=> LexLess(Key(i), Key(j))
  OBVIOUS
<1> HIDE DEF Key, R, k1, k2, k3, k4, k5
<1>6. PICK v \in tier : \A i \in tier \ {v} : <<v, i>> \in R
  <2>1. IsFiniteSet(tier)
    BY <1>1, FS_Subset, SchedulerAssumption
  <2>2. \A x, y, z \in tier : Less(x, y) /\ Less(y, z) => Less(x, z)
    BY <1>2
  <2>3. \A x, y \in tier : x = y \/ Less(x, y) \/ Less(y, x)
    BY <1>2, <1>3
  <2>4. \A x, y \in tier : <<x, y>> \in R <=> Less(x, y)
    BY <1>4, <1>5
  <2> HIDE DEF Less
  <2>5. /\ \A x, y, z \in tier : <<x, y>> \in R /\ <<y, z>> \in R => <<x, z>> \in R
        /\ \A x, y \in tier : x = y \/ <<x, y>> \in R \/ <<y, x>> \in R
    BY <2>2, <2>3, <2>4
  <2> QED BY <2>1, <2>5, FiniteFirst
<1> DEFINE w == FirstVictim(peers, tier, prot, D)
<1>7. w \in tier /\ \A i \in tier \ {w} : LexLess(Key(w), Key(i))
  <2>1. \A i \in tier \ {v} : LexLess(Key(v), Key(i))
    BY <1>5, <1>6
  <2> QED BY <2>1 DEF FirstVictim, Key
<1> HIDE DEF w
<1>8. \A i \in tier \ {w} : k1(w) <= k1(i)
  BY <1>2, <1>4, <1>7
<1>9. ASSUME peers[w].target \in prot, NEW i \in tier PROVE peers[i].target \in prot
  <2>1. CASE i = w
    BY <1>9, <2>1
  <2>2. CASE i # w
    <3>1. k1(w) <= k1(i) /\ k1(w) = 1
      BY <1>8, <1>9, <2>2 DEF k1
    <3> QED BY <3>1 DEF k1
  <2> QED BY <2>1, <2>2
<1> QED BY <1>7, <1>9 DEF w

(* What a peer must be to be a victim.                                     *)
LEMMA NextVictimFacts ==
  ASSUME NEW peers, IsPeers(peers), NEW t \in Targets, NEW kept \in SUBSET DOMAIN peers,
         NEW prot, NEW allow \in BOOLEAN, NEW D \in SUBSET Pools,
         NEW v \in NextVictim(peers, t, kept, prot, allow, D)
  PROVE  /\ v \in kept
         /\ NextVictim(peers, t, kept, prot, allow, D) = {v}
         /\ \/ /\ v \in IdleTier(peers, t, kept, D)
               /\ peers[v].target \in prot =>
                    \A i \in IdleTier(peers, t, kept, D) : peers[i].target \in prot
            \/ allow /\ v \in BusyTier(peers, t, kept, D) /\ IdleTier(peers, t, kept, D) = {}
<1> DEFINE idle == IdleTier(peers, t, kept, D)
           busy == IF allow THEN BusyTier(peers, t, kept, D) ELSE {}
           tier == IF idle # {} THEN idle ELSE busy
           w == FirstVictim(peers, tier, prot, D)
<1>1. NextVictim(peers, t, kept, prot, allow, D) = IF tier = {} THEN {} ELSE {w}
  BY DEF NextVictim
<1>2. tier # {} /\ v = w
  BY <1>1
<1>3. tier \in SUBSET kept /\ tier \in SUBSET DOMAIN peers
  BY DEF IdleTier, BusyTier
<1> HIDE DEF idle, busy
<1>4. w \in tier /\ (peers[w].target \in prot => \A i \in tier : peers[i].target \in prot)
  <2> HIDE DEF tier
  <2> QED BY <1>2, <1>3, FirstVictimFacts
<1> HIDE DEF tier, w
<1>5. CASE idle # {}
  <2>1. tier = idle
    BY <1>5 DEF tier
  <2> QED BY <1>1, <1>2, <1>3, <1>4, <2>1 DEF idle
<1>6. CASE idle = {}
  <2>1. tier = busy
    BY <1>6 DEF tier
  <2>2. allow /\ busy = BusyTier(peers, t, kept, D)
    BY <1>2, <2>1 DEF busy
  <2> QED BY <1>1, <1>2, <1>3, <1>4, <1>6, <2>1, <2>2 DEF idle
<1> QED BY <1>5, <1>6

(* Nobody is left to unload: no idle peer, and where the caller allows it  *)
(* no busy one, is eligible.                                               *)
LEMMA NoNextVictim ==
  ASSUME NEW peers, IsPeers(peers), NEW t \in Targets, NEW kept \in SUBSET DOMAIN peers,
         NEW prot, NEW allow \in BOOLEAN, NEW D \in SUBSET Pools,
         NextVictim(peers, t, kept, prot, allow, D) = {}
  PROVE  IdleTier(peers, t, kept, D) = {} /\ (allow => BusyTier(peers, t, kept, D) = {})
BY DEF NextVictim

-----------------------------------------------------------------------------
(* The eviction loop.  The result for a set of kept instances, and what    *)
(* its victims owe to the sets the loop went through.                      *)

NextOf(peers, t, prot, allow, kept) ==
  NextVictim(peers, t, kept, prot, allow, Deficits(t, kept))

Evictions == [ok : BOOLEAN, victims : SUBSET Instances]

IsEviction(peers, t, prot, allow, kept, result) ==
  /\ result \in Evictions /\ result.victims \subseteq kept
  /\ result.ok => Deficits(t, kept \ result.victims) = {}
  /\ ~result.ok =>
       \E K \in SUBSET kept : Deficits(t, K) # {} /\ NextOf(peers, t, prot, allow, K) = {}
  /\ result.victims # {} =>
       Deficits(t, kept) # {} /\ NextOf(peers, t, prot, allow, kept) # {}
  /\ \A v \in result.victims : \E K \in SUBSET kept :
       Deficits(t, K) # {} /\ v \in NextOf(peers, t, prot, allow, K)

LEMMA EvictionFacts ==
  ASSUME NEW peers, IsPeers(peers), NEW t \in Targets, NEW prot, NEW allow \in BOOLEAN
  PROVE  IsEviction(peers, t, prot, allow, DOMAIN peers,
                    EvictUntilFits(peers, t, prot, allow))
<1> DEFINE S == DOMAIN peers
           Nx(kept) == NextOf(peers, t, prot, allow, kept)
           Body(it, kept) ==
             IF Deficits(t, kept) = {} THEN [ok |-> TRUE, victims |-> {}]
             ELSE IF Nx(kept) = {} THEN [ok |-> FALSE, victims |-> {}]
                  ELSE EvictAlso(Nx(kept), it[kept \ Nx(kept)])
           Evicts(it) == it = [kept \in SUBSET S |-> Body(it, kept)]
           evict == CHOOSE it : Evicts(it)
<1>1. EvictUntilFits(peers, t, prot, allow) = evict[S]
  BY DEF EvictUntilFits, NextOf
<1>2. S \subseteq Instances /\ IsFiniteSet(S)
  BY FS_Subset, SchedulerAssumption DEF IsPeers
<1>3. \A kept \in SUBSET S : Nx(kept) \subseteq kept /\ Nx(kept) \subseteq Instances
  <2>1. \A kept \in SUBSET S : Deficits(t, kept) \in SUBSET Pools
    BY DEF Deficits
  <2>2. \A kept \in SUBSET S : Nx(kept) \subseteq kept
    BY <2>1, NextVictimFacts DEF NextOf
  <2> QED BY <1>2, <2>2
<1> HIDE DEF Nx
<1>4. \E it : Evicts(it)
  <2> DEFINE V == Evictions
             stop == {kept \in SUBSET S : Deficits(t, kept) = {} \/ Nx(kept) = {}}
             base == [kept \in SUBSET S |->
                        [ok |-> (Deficits(t, kept) = {}), victims |-> {}]]
             next == [kept \in SUBSET S |-> kept \ Nx(kept)]
             combine == [kept \in SUBSET S |-> [e \in V |-> EvictAlso(Nx(kept), e)]]
  <2>1. \A kept \in SUBSET S : \A e \in V : EvictAlso(Nx(kept), e) \in V
    BY <1>3 DEF EvictAlso, Evictions
  <2>2. \A kept \in SUBSET S :
          /\ kept \in stop <=> Deficits(t, kept) = {} \/ Nx(kept) = {}
          /\ base[kept] = [ok |-> (Deficits(t, kept) = {}), victims |-> {}]
          /\ next[kept] = kept \ Nx(kept)
          /\ \A e \in V : combine[kept][e] = EvictAlso(Nx(kept), e)
    OBVIOUS
  <2>3. base \in [SUBSET S -> V] /\ next \in [SUBSET S -> SUBSET S] /\ stop \subseteq SUBSET S
    BY DEF Evictions
  <2>4. combine \in [SUBSET S -> [V -> V]]
    BY <2>1
  <2> HIDE DEF stop, base, next, combine, V
  <2>5. \A s \in SUBSET S : s \notin stop => next[s] \subseteq s /\ next[s] # s
    <3> SUFFICES ASSUME NEW s \in SUBSET S, s \notin stop
                 PROVE  next[s] \subseteq s /\ next[s] # s
      OBVIOUS
    <3>1. Nx(s) # {} /\ Nx(s) \subseteq s /\ next[s] = s \ Nx(s)
      BY <1>3, <2>2
    <3> QED BY <3>1
  <2>6. PICK it : Descends(it, S, V, stop, base, next, combine)
    <3>1. IsDescent(S, V, stop, base, next, combine)
      BY <1>2, <2>3, <2>4, <2>5 DEF IsDescent
    <3> QED BY <3>1, DescentExists
  <2>7. it \in [SUBSET S -> V]
    BY <2>6 DEF Descends
  <2>8. ASSUME NEW kept \in SUBSET S PROVE it[kept] = Body(it, kept)
    <3>1. it[kept] = IF kept \in stop THEN base[kept] ELSE combine[kept][it[next[kept]]]
      BY <2>6 DEF Descends
    <3>2. CASE Deficits(t, kept) = {}
      BY <2>2, <3>1, <3>2
    <3>3. CASE Deficits(t, kept) # {} /\ Nx(kept) = {}
      BY <2>2, <3>1, <3>3
    <3>4. CASE Deficits(t, kept) # {} /\ Nx(kept) # {}
      <4>1. kept \ Nx(kept) \in SUBSET S
        OBVIOUS
      <4>2. it[kept \ Nx(kept)] \in V
        BY <2>7, <4>1
      <4> QED BY <2>2, <3>1, <3>4, <4>2
    <3> QED BY <3>2, <3>3, <3>4
  <2> HIDE DEF Body
  <2>9. it = [kept \in SUBSET S |-> Body(it, kept)]
    BY <2>7, <2>8
  <2> QED BY <2>9
<1>5. Evicts(evict)
  BY <1>4
<1> HIDE DEF evict
<1>6. ASSUME NEW kept \in SUBSET S PROVE evict[kept] = Body(evict, kept)
  <2> HIDE DEF Body
  <2> QED BY <1>5
<1> DEFINE T == {kept \in SUBSET S : ~IsEviction(peers, t, prot, allow, kept, evict[kept])}
<1>7. T = {}
  <2> SUFFICES ASSUME T # {} PROVE FALSE
    OBVIOUS
  <2>1. PICK kept \in T : \A r \in T : r \subseteq kept => r = kept
    <3>1. T \in SUBSET SUBSET S
      OBVIOUS
    <3> HIDE DEF T
    <3> QED BY <1>2, <3>1, SmallestSet
  <2>2. kept \in SUBSET S /\ kept \subseteq Instances
    BY <1>2, <2>1
  <2>3. CASE Deficits(t, kept) = {}
    <3>1. evict[kept] = [ok |-> TRUE, victims |-> {}]
      BY <1>6, <2>2, <2>3
    <3>2. kept \ {} = kept
      OBVIOUS
    <3>3. /\ evict[kept] \in Evictions /\ evict[kept].ok
          /\ evict[kept].victims = {}
      BY <3>1 DEF Evictions
    <3>4. IsEviction(peers, t, prot, allow, kept, evict[kept])
      BY <2>3, <3>2, <3>3 DEF IsEviction
    <3> QED BY <2>1, <3>4
  <2>4. CASE Deficits(t, kept) # {} /\ Nx(kept) = {}
    <3>1. evict[kept] = [ok |-> FALSE, victims |-> {}]
      BY <1>6, <2>2, <2>4
    <3>2. /\ evict[kept] \in Evictions /\ ~evict[kept].ok
          /\ evict[kept].victims = {} /\ kept \in SUBSET kept
      BY <3>1 DEF Evictions
    <3>3. IsEviction(peers, t, prot, allow, kept, evict[kept])
      BY <2>4, <3>2 DEF IsEviction, Nx
    <3> QED BY <2>1, <3>3
  <2>5. CASE Deficits(t, kept) # {} /\ Nx(kept) # {}
    <3> DEFINE rest == kept \ Nx(kept)
               old == evict[rest]
               new == evict[kept]
    <3>1. new = EvictAlso(Nx(kept), old)
      BY <1>6, <2>2, <2>5
    <3>2. rest \in SUBSET S /\ rest \subseteq kept /\ rest # kept
      BY <1>3, <2>2, <2>5
    <3>3. IsEviction(peers, t, prot, allow, rest, old)
      BY <2>1, <3>2
    <3>4. Nx(kept) \subseteq kept /\ Nx(kept) \subseteq Instances
      BY <1>3, <2>2
    <3> HIDE DEF new, old
    <3>5. old \in Evictions
      BY <3>3 DEF IsEviction
    <3>6. new \in Evictions /\ new.ok = old.ok /\ new.victims = Nx(kept) \cup old.victims
      BY <3>1, <3>4, <3>5 DEF EvictAlso, Evictions
    <3>7. kept \ new.victims = rest \ old.victims
      BY <3>6
    <3>8. SUBSET rest \subseteq SUBSET kept /\ kept \in SUBSET kept
      OBVIOUS
    <3>9. new.victims \subseteq kept
      BY <3>2, <3>3, <3>4, <3>6 DEF IsEviction
    <3>10. new.ok => Deficits(t, kept \ new.victims) = {}
      BY <3>3, <3>6, <3>7 DEF IsEviction
    <3>11. ~new.ok => \E K \in SUBSET kept : Deficits(t, K) # {} /\ Nx(K) = {}
      BY <3>3, <3>6, <3>8 DEF IsEviction, Nx
    <3>12. ASSUME NEW v \in new.victims
           PROVE  \E K \in SUBSET kept : Deficits(t, K) # {} /\ v \in Nx(K)
      <4>1. CASE v \in Nx(kept)
        BY <2>5, <3>8, <4>1
      <4>2. CASE v \in old.victims
        BY <3>3, <3>8, <4>2 DEF IsEviction, Nx
      <4> QED BY <3>6, <4>1, <4>2
    <3> QED BY <2>1, <2>5, <3>6, <3>9, <3>10, <3>11, <3>12 DEF IsEviction, Nx, new
  <2> QED BY <2>3, <2>4, <2>5
<1>8. S \notin T
  BY <1>7
<1> QED BY <1>1, <1>8

-----------------------------------------------------------------------------
(* The promises of the planner.                                            *)

Asked == request \in PlanRequests /\ requested \in Targets /\ allowBusy \in BOOLEAN

PlanIsThePlan ==
  Asked /\ (plan = NoPlan \/ plan = PlanRequest(request, requested, allowBusy))

Peers == MemoryPeers(request, requested)

(* The table of peers and the properties' own words say the same.          *)
LEMMA PeersAndOthers ==
  ASSUME Asked
  PROVE  /\ IsPeers(Peers) /\ DOMAIN Peers \subseteq Others /\ Others \subseteq Instances
         /\ \A i \in Others \ DOMAIN Peers : \A p \in Pools : Draw[i][p] = 0
         /\ \A i \in DOMAIN Peers : IsPeerOf(request, ReadyOn(i), Peers[i])
<1> USE DEF Asked, Peers
<1>1. IsPeers(Peers)
  BY PeersAre
<1>2. \A i \in Instances \ {InstanceOf[requested]} :
        Residents(request, requested, i) = ReadyOn(i)
  BY DEF Residents, ReadyOn
<1>3. \A i \in DOMAIN Peers : i \in Others /\ IsPeerOf(request, ReadyOn(i), Peers[i])
  <2> SUFFICES ASSUME NEW i \in DOMAIN Peers
               PROVE  i \in Others /\ IsPeerOf(request, ReadyOn(i), Peers[i])
    OBVIOUS
  <2>1. /\ i \in Instances \ {InstanceOf[requested]}
        /\ IsPeerOf(request, Residents(request, requested, i), Peers[i])
    BY PeerFacts
  <2>2. IsPeerOf(request, ReadyOn(i), Peers[i])
    BY <1>2, <2>1
  <2>3. ReadyOn(i) # {}
    BY <2>2 DEF IsPeerOf
  <2> QED BY <2>1, <2>2, <2>3 DEF Others
<1>4. \A i \in Others \ DOMAIN Peers : \A p \in Pools : Draw[i][p] = 0
  <2> SUFFICES ASSUME NEW i \in Others \ DOMAIN Peers, NEW p \in Pools, Draw[i][p] # 0
               PROVE  FALSE
    OBVIOUS
  <2>1. i \in Instances \ {InstanceOf[requested]} /\ ReadyOn(i) # {}
    BY DEF Others
  <2>2. Draw[i][p] > 0
    BY <2>1, SchedulerAssumption
  <2>3. Residents(request, requested, i) # {}
    BY <1>2, <2>1
  <2> QED BY <2>1, <2>2, <2>3 DEF MemoryPeers
<1> QED BY <1>1, <1>3, <1>4 DEF Others

(* The memory that is free of the draws of A is no more than that free of  *)
(* the draws of B, when all that draws in B is in A.                       *)
LEMMA FreeForFewer ==
  ASSUME NEW p \in Pools, NEW A \in SUBSET Instances, NEW B \in SUBSET Instances,
         \A i \in B : Draw[i][p] > 0 => i \in A
  PROVE  FreeFor(p, A) <= FreeFor(p, B) /\ FreeFor(p, A) \in Int /\ FreeFor(p, B) \in Int
<1>1. \A i \in Instances : DrawsOn(p)[i] = Draw[i][p] /\ DrawsOn(p)[i] \in Nat
  BY SchedulerAssumption DEF DrawsOn
<1>2. IsFiniteSet(Instances) /\ IsFiniteSet(A) /\ IsFiniteSet(B)
  BY FS_Subset, SchedulerAssumption
<1>3. SumFunctionOnSet(DrawsOn(p), A) \in Nat /\ SumFunctionOnSet(DrawsOn(p), B) \in Nat
  BY <1>1, <1>2, SumNat
<1>4. SumFunctionOnSet(DrawsOn(p), B) <= SumFunctionOnSet(DrawsOn(p), A)
  BY <1>1, <1>2, SumMonotone
<1> QED BY <1>3, <1>4, SchedulerAssumption DEF FreeFor

LEMMA DrawsSomething ==
  ASSUME NEW i \in Instances, NEW D \in SUBSET Pools, NEW p \in D, Draw[i][p] > 0
  PROVE  DrawOn(i, D) > 0
<1>1. IsFiniteSet(D) /\ \A q \in D : Draw[i][q] \in Nat
  BY FS_Subset, SchedulerAssumption
<1>2. IsFiniteSet(D \ {p}) /\ SumFunctionOnSet(Draw[i], D \ {p}) \in Nat
  BY <1>1, FS_Subset, SumNat
<1>3. SumFunctionOnSet(Draw[i], D) = Draw[i][p] + SumFunctionOnSet(Draw[i], D \ {p})
  BY <1>1, SumRemove
<1> QED BY <1>1, <1>2, <1>3 DEF DrawOn

(* The loop leaves a pool short with K resident, and nothing of K that is  *)
(* in G draws on a short pool: then unloading G is not enough.             *)
LEMMA StillShort ==
  ASSUME Asked, NEW K \in SUBSET DOMAIN Peers, Deficits(requested, K) # {},
         NEW G, \A i \in K \cap G : ~(DrawOn(i, Deficits(requested, K)) > 0)
  PROVE  ~FitsWithout(G)
<1> DEFINE D == Deficits(requested, K)
<1>1. PICK p \in D : TRUE
  OBVIOUS
<1>2. /\ p \in Pools /\ Draw[InstanceOf[requested]][p] > 0 /\ D \in SUBSET Pools
      /\ Draw[InstanceOf[requested]][p] > FreeFor(p, K)
  BY DEF Deficits
<1> HIDE DEF D
<1>3. K \subseteq Others /\ Others \subseteq Instances
  BY PeersAndOthers
<1>4. \A i \in K : Draw[i][p] > 0 => i \in Others \ G
  BY <1>1, <1>2, <1>3, DrawsSomething DEF D
<1>5. /\ FreeFor(p, Others \ G) <= FreeFor(p, K)
      /\ FreeFor(p, Others \ G) \in Int /\ FreeFor(p, K) \in Int
  BY <1>2, <1>3, <1>4, FreeForFewer
<1>6. Draw[InstanceOf[requested]][p] \in Nat
  BY <1>2, SchedulerAssumption DEF Asked
<1>7. ~(Draw[InstanceOf[requested]][p] <= FreeFor(p, Others \ G))
  BY <1>2, <1>5, <1>6
<1> QED BY <1>2, <1>7 DEF FitsWithout

(* Nothing is short without the victims: the requested target fits.        *)
LEMMA NothingShort ==
  ASSUME Asked, NEW X, Deficits(requested, DOMAIN Peers \ X) = {}
  PROVE  FitsWithout(X)
<1> SUFFICES ASSUME NEW p \in Pools, Draw[InstanceOf[requested]][p] > 0
             PROVE  Draw[InstanceOf[requested]][p] <= FreeFor(p, Others \ X)
  BY DEF FitsWithout
<1> DEFINE K == DOMAIN Peers \ X
<1>1. ~(Draw[InstanceOf[requested]][p] > FreeFor(p, K))
  BY DEF Deficits
<1>2. K \in SUBSET Instances /\ Others \ X \in SUBSET Instances
  BY PeersAndOthers
<1>3. \A i \in Others \ X : Draw[i][p] > 0 => i \in K
  BY PeersAndOthers
<1> HIDE DEF K
<1>4. FreeFor(p, K) <= FreeFor(p, Others \ X) /\ FreeFor(p, K) \in Int
      /\ FreeFor(p, Others \ X) \in Int
  BY <1>2, <1>3, FreeForFewer
<1>5. Draw[InstanceOf[requested]][p] \in Nat
  BY SchedulerAssumption DEF Asked
<1> QED BY <1>1, <1>4, <1>5

(* What the planner calls eligible is what may be evicted.                 *)
LEMMA EligibleMayBeEvicted ==
  ASSUME Asked, NEW i \in DOMAIN Peers, NEW D \in SUBSET Pools, NEW busy \in BOOLEAN
  PROVE  /\ Eligible(Peers[i], i, requested, busy, D) /\ (busy => allowBusy) =>
              i \in Evictable /\ (Generating(i) <=> busy)
         /\ i \in Evictable /\ (Generating(i) <=> busy) /\ DrawOn(i, D) > 0 =>
              Eligible(Peers[i], i, requested, busy, D) /\ (busy => allowBusy)
<1>1. IsPeerOf(request, ReadyOn(i), Peers[i]) /\ i \in Others
  BY PeersAndOthers
<1> DEFINE peer == Peers[i]
           all == ReadyOn(i)
<1>2. /\ peer.busy = Generating(i)
      /\ peer.preemptible = (\A m \in all : Preemptible[m])
  BY <1>1 DEF IsPeerOf, Generating
<1>3. peer.busy \in BOOLEAN /\ peer.preemptible \in BOOLEAN
  BY <1>2 DEF Generating
<1>4. /\ all # {} /\ all \subseteq Targets /\ peer.priority \in Int
      /\ \A m \in all : Priority[m] <= peer.priority
      /\ \E m \in all : Priority[m] = peer.priority
  BY <1>1 DEF IsPeerOf
<1> HIDE DEF peer, all
<1>5. \A m \in all : Priority[m] \in Int
  BY <1>4, SchedulerAssumption
<1>6. Priority[requested] \in Int
  BY SchedulerAssumption DEF Asked
<1>7. (\A m \in all : Priority[m] <= Priority[requested]) <=>
        peer.priority <= Priority[requested]
  BY <1>4, <1>5, <1>6
<1>8. (\A m \in all : Priority[m] < Priority[requested]) <=>
        peer.priority < Priority[requested]
  BY <1>4, <1>5, <1>6
<1>9. MayEvict(i) <=>
        /\ peer.preemptible /\ peer.priority <= Priority[requested]
        /\ Generating(i) => allowBusy /\ peer.priority < Priority[requested]
  <2>1. MayEvict(i) <=>
          /\ \A m \in all : Preemptible[m]
          /\ \A m \in all : Priority[m] <= Priority[requested]
          /\ Generating(i) => allowBusy /\ \A m \in all : Priority[m] < Priority[requested]
    BY <1>4 DEF MayEvict, all
  <2> QED BY <1>2, <1>7, <1>8, <2>1
<1>10. i \in Evictable <=> MayEvict(i)
  BY <1>1 DEF Evictable
<1>11. Eligible(peer, i, requested, busy, D) <=>
        /\ peer.preemptible /\ peer.busy = busy /\ DrawOn(i, D) > 0
        /\ IF busy THEN peer.priority < Priority[requested]
           ELSE peer.priority <= Priority[requested]
  BY DEF Eligible
<1>12. peer.priority < Priority[requested] => peer.priority <= Priority[requested]
  BY <1>4, <1>6
<1>13. Generating(i) \in BOOLEAN
  BY DEF Generating
<1> QED BY <1>2, <1>3, <1>9, <1>10, <1>11, <1>12, <1>13 DEF peer

(* The three ways a plan can come about.                                   *)
Memory == EvictUntilFits(Peers, requested, request.prot, allowBusy)

LEMMA PlanCases ==
  ASSUME PlanIsThePlan, Planned
  PROVE  /\ Asked
         /\ \/ FitsAsIs(request, requested) /\ plan.ok /\ plan.victims = {}
            \/ ~FitsAsIs(request, requested) /\ plan = PlanFor(Peers, Memory)
<1>1. Asked /\ plan = PlanRequest(request, requested, allowBusy)
  BY DEF PlanIsThePlan, Planned
<1>2. ~(request.rt[requested].state = "error")
  BY DEF Planned
<1>3. CASE FitsAsIs(request, requested)
  BY <1>1, <1>2, <1>3 DEF PlanRequest
<1>4. CASE ~FitsAsIs(request, requested)
  <2>1. plan = PlanWithPeers(Peers, requested, request.prot, allowBusy)
    BY <1>1, <1>2, <1>4 DEF PlanRequest, Peers
  <2> QED BY <1>1, <1>4, <2>1 DEF PlanWithPeers, Memory
<1> QED BY <1>3, <1>4

(* What the loop did when it loads or gives up, in one place.              *)
LEMMA MemoryFacts ==
  ASSUME Asked
  PROVE  IsEviction(Peers, requested, request.prot, allowBusy, DOMAIN Peers, Memory)
<1>1. IsPeers(Peers)
  BY PeersAndOthers
<1> QED BY <1>1, EvictionFacts DEF Asked, Memory

(* A victim is taken while a pool is short, from the idle tier or, when it *)
(* is empty, from the busy one.                                            *)
LEMMA VictimFacts ==
  ASSUME PlanIsThePlan, Planned, NEW v \in plan.victims
  PROVE  /\ Asked /\ Loading /\ plan.ok /\ plan.victims = Memory.victims
         /\ plan.preempts = {Peers[i].target : i \in {j \in Memory.victims : Peers[j].busy}}
         /\ \E K \in SUBSET DOMAIN Peers :
              LET D == Deficits(requested, K)
              IN  /\ D # {} /\ D \in SUBSET Pools /\ v \in K
                  /\ \/ /\ v \in IdleTier(Peers, requested, K, D)
                        /\ Peers[v].target \in request.prot =>
                             \A i \in IdleTier(Peers, requested, K, D) :
                               Peers[i].target \in request.prot
                     \/ /\ allowBusy /\ v \in BusyTier(Peers, requested, K, D)
                        /\ IdleTier(Peers, requested, K, D) = {}
<1>1. Asked
  BY PlanCases
<1>2. Loading /\ plan = PlanFor(Peers, Memory)
  BY PlanCases DEF Loading
<1>3. Memory.ok
  BY <1>2 DEF PlanFor, BlockedPlan
<1>4. /\ plan.ok /\ plan.victims = Memory.victims
      /\ plan.preempts = {Peers[i].target : i \in {j \in Memory.victims : Peers[j].busy}}
  BY <1>2, <1>3 DEF PlanFor
<1>5. PICK K \in SUBSET DOMAIN Peers :
        /\ Deficits(requested, K) # {}
        /\ v \in NextOf(Peers, requested, request.prot, allowBusy, K)
  BY <1>1, <1>4, MemoryFacts DEF IsEviction
<1> DEFINE D == Deficits(requested, K)
<1>6. D \in SUBSET Pools
  BY DEF Deficits
<1>7. IsPeers(Peers) /\ requested \in Targets /\ allowBusy \in BOOLEAN
  BY <1>1, PeersAndOthers DEF Asked
<1>8. v \in NextVictim(Peers, requested, K, request.prot, allowBusy, D)
  BY <1>5 DEF NextOf
<1> HIDE DEF D
<1>9. /\ v \in K
      /\ \/ /\ v \in IdleTier(Peers, requested, K, D)
            /\ Peers[v].target \in request.prot =>
                 \A i \in IdleTier(Peers, requested, K, D) : Peers[i].target \in request.prot
         \/ /\ allowBusy /\ v \in BusyTier(Peers, requested, K, D)
            /\ IdleTier(Peers, requested, K, D) = {}
  BY <1>6, <1>7, <1>8, NextVictimFacts
<1> QED BY <1>1, <1>2, <1>4, <1>5, <1>6, <1>9 DEF D

(* No victim that is protected by preemptible = false, by its priority or  *)
(* by its generation.                                                      *)
LEMMA PlansEvictOnlyEvictable ==
  ASSUME PlanIsThePlan
  PROVE  VictimsMayBeEvicted
<1> SUFFICES ASSUME Planned, NEW v \in plan.victims PROVE v \in Evictable
  BY DEF VictimsMayBeEvicted
<1>1. PICK K \in SUBSET DOMAIN Peers :
        LET D == Deficits(requested, K)
        IN  /\ D \in SUBSET Pools /\ v \in K
            /\ \/ v \in IdleTier(Peers, requested, K, D)
               \/ allowBusy /\ v \in BusyTier(Peers, requested, K, D)
  BY VictimFacts
<1>2. PICK D \in SUBSET Pools : \/ v \in IdleTier(Peers, requested, K, D)
                                \/ allowBusy /\ v \in BusyTier(Peers, requested, K, D)
  BY <1>1
<1>3. \/ Eligible(Peers[v], v, requested, FALSE, D)
      \/ allowBusy /\ Eligible(Peers[v], v, requested, TRUE, D)
  BY <1>2 DEF IdleTier, BusyTier
<1>4. Asked /\ v \in DOMAIN Peers
  BY <1>1, PlanCases
<1> QED BY <1>3, <1>4, EligibleMayBeEvicted

(* The plan fits, and a blocked plan could not have been helped.           *)
LEMMA PlansFitOrCannot ==
  ASSUME PlanIsThePlan
  PROVE  LoadsWhatFits
<1> SUFFICES ASSUME Loading
             PROVE  IF plan.ok THEN FitsWithout(plan.victims) ELSE ~FitsWithout(Evictable)
  BY DEF LoadsWhatFits
<1>1. Asked /\ plan = PlanFor(Peers, Memory)
  BY PlanCases DEF Loading
<1>2. IsEviction(Peers, requested, request.prot, allowBusy, DOMAIN Peers, Memory)
  BY <1>1, MemoryFacts
<1>3. CASE Memory.ok
  <2>1. plan.ok /\ plan.victims = Memory.victims
    BY <1>1, <1>3 DEF PlanFor
  <2>2. Deficits(requested, DOMAIN Peers \ plan.victims) = {}
    BY <1>2, <1>3, <2>1 DEF IsEviction
  <2> QED BY <1>1, <2>1, <2>2, NothingShort
<1>4. CASE ~Memory.ok
  <2>1. ~plan.ok
    BY <1>1, <1>4 DEF PlanFor, BlockedPlan
  <2>2. PICK K \in SUBSET DOMAIN Peers :
          /\ Deficits(requested, K) # {}
          /\ NextOf(Peers, requested, request.prot, allowBusy, K) = {}
    BY <1>2, <1>4 DEF IsEviction
  <2> DEFINE D == Deficits(requested, K)
  <2>3. D \in SUBSET Pools
    BY DEF Deficits
  <2>4. IsPeers(Peers) /\ requested \in Targets /\ allowBusy \in BOOLEAN
    BY <1>1, PeersAndOthers DEF Asked
  <2>5. NextVictim(Peers, requested, K, request.prot, allowBusy, D) = {}
    BY <2>2 DEF NextOf
  <2> HIDE DEF D
  <2>6. /\ IdleTier(Peers, requested, K, D) = {}
        /\ allowBusy => BusyTier(Peers, requested, K, D) = {}
    BY <2>3, <2>4, <2>5, NoNextVictim
  <2>7. ASSUME NEW i \in K \cap Evictable, DrawOn(i, D) > 0 PROVE FALSE
    <3>1. i \in DOMAIN Peers /\ Generating(i) \in BOOLEAN
      BY DEF Generating
    <3>2. /\ Eligible(Peers[i], i, requested, Generating(i), D)
          /\ Generating(i) => allowBusy
      BY <1>1, <2>3, <2>7, <3>1, EligibleMayBeEvicted
    <3>3. CASE Generating(i)
      <4>1. Eligible(Peers[i], i, requested, TRUE, D) /\ allowBusy
        BY <3>1, <3>2, <3>3
      <4> QED BY <2>6, <4>1 DEF BusyTier
    <3>4. CASE ~Generating(i)
      <4>1. Eligible(Peers[i], i, requested, FALSE, D)
        BY <3>1, <3>2, <3>4
      <4> QED BY <2>6, <4>1 DEF IdleTier
    <3> QED BY <3>3, <3>4
  <2>8. ~FitsWithout(Evictable)
    BY <1>1, <2>2, <2>7, StillShort DEF D
  <2> QED BY <2>1, <2>8
<1> QED BY <1>3, <1>4

(* What an idle eviction in a tier of wanted instances leaves to the       *)
(* unwanted ones: none of them draws on a short pool.                      *)
LEMMA IdleOnlyIsNotEnough ==
  ASSUME Asked, NEW K \in SUBSET DOMAIN Peers, Deficits(requested, K) # {},
         NEW G, \A i \in G : i \in Evictable /\ ~Generating(i),
         IdleTier(Peers, requested, K, Deficits(requested, K)) \cap G = {}
  PROVE  ~FitsWithout(G)
<1> DEFINE D == Deficits(requested, K)
<1>1. D \in SUBSET Pools
  BY DEF Deficits
<1>2. ASSUME NEW i \in K \cap G, DrawOn(i, D) > 0 PROVE FALSE
  <2> HIDE DEF D
  <2>1. i \in DOMAIN Peers /\ i \in Evictable /\ (Generating(i) <=> FALSE)
    OBVIOUS
  <2>2. Eligible(Peers[i], i, requested, FALSE, D)
    BY <1>1, <1>2, <2>1, EligibleMayBeEvicted
  <2>3. i \in IdleTier(Peers, requested, K, D)
    BY <2>2 DEF IdleTier
  <2> QED BY <2>3 DEF D
<1> QED BY <1>2, StillShort

(* Where the instances have a model each, the one that is unloaded is the  *)
(* one whose request is looked up.                                         *)
LEMMA WantedPeers ==
  ASSUME Asked, NEW i \in DOMAIN Peers
  PROVE  /\ Peers[i].target \in request.prot => WantedOn(i)
         /\ Cardinality(Unloads(i)) = 1 /\ WantedOn(i) => Peers[i].target \in request.prot
<1> DEFINE x == Peers[i].target
<1>1. /\ ReadyOn(i) # {} /\ ReadyOn(i) \in SUBSET Targets
      /\ x = PeerTarget(ReadyOn(i)) /\ x \in ReadyOn(i)
  BY PeersAndOthers DEF IsPeerOf
<1>2. x \in Unloads(i) /\ Unloads(i) \in SUBSET Targets
  BY <1>1 DEF Unloads
<1>3. IsFiniteSet(Unloads(i))
  BY <1>2, FS_Subset, SchedulerAssumption
<1>4. Cardinality(Unloads(i)) = 1 => Unloads(i) = {x}
  BY <1>2, <1>3, FS_Singleton
<1> QED BY <1>2, <1>4 DEF WantedOn

LEMMA PlansDoLeastHarm ==
  ASSUME PlanIsThePlan
  PROVE  LeastHarmFirst
<1> SUFFICES ASSUME Loading, NEW v \in plan.victims
             PROVE  /\ Generating(v) =>
                         /\ ~FitsWithout({i \in Evictable : ~Generating(i)})
                         /\ plan.preempts # {}
                    /\ (\A i \in Others : Cardinality(Unloads(i)) = 1) /\ WantedOn(v) =>
                         ~FitsWithout({i \in Evictable : ~Generating(i) /\ ~WantedOn(i)})
  BY DEF LeastHarmFirst
<1>1. Asked /\ v \in Memory.victims
      /\ plan.preempts = {Peers[i].target : i \in {j \in Memory.victims : Peers[j].busy}}
  BY VictimFacts DEF Loading
<1>2. PICK K \in SUBSET DOMAIN Peers :
        LET D == Deficits(requested, K)
        IN  /\ D # {} /\ D \in SUBSET Pools /\ v \in K
            /\ \/ /\ v \in IdleTier(Peers, requested, K, D)
                  /\ Peers[v].target \in request.prot =>
                       \A i \in IdleTier(Peers, requested, K, D) :
                         Peers[i].target \in request.prot
               \/ /\ allowBusy /\ v \in BusyTier(Peers, requested, K, D)
                  /\ IdleTier(Peers, requested, K, D) = {}
  BY VictimFacts DEF Loading
<1> DEFINE D == Deficits(requested, K)
           idle == IdleTier(Peers, requested, K, D)
<1>3. v \in DOMAIN Peers /\ D # {} /\ D \in SUBSET Pools
  BY <1>2
<1>4. \/ /\ v \in idle
         /\ Peers[v].target \in request.prot => \A i \in idle : Peers[i].target \in request.prot
      \/ allowBusy /\ v \in BusyTier(Peers, requested, K, D) /\ idle = {}
  BY <1>2
<1>5. idle \in SUBSET DOMAIN Peers
  BY DEF IdleTier
<1> HIDE DEF D
<1>6. ASSUME Generating(v)
      PROVE  ~FitsWithout({i \in Evictable : ~Generating(i)}) /\ plan.preempts # {}
  <2>1. Peers[v].busy
    BY <1>1, <1>3, <1>6, PeersAndOthers DEF IsPeerOf, Generating
  <2>2. v \notin idle
    BY <2>1 DEF IdleTier, Eligible
  <2>3. idle = {}
    BY <1>4, <2>2
  <2>4. ~FitsWithout({i \in Evictable : ~Generating(i)})
    BY <1>1, <1>3, <2>3, IdleOnlyIsNotEnough DEF D
  <2> QED BY <1>1, <2>1, <2>4
<1>7. ASSUME \A i \in Others : Cardinality(Unloads(i)) = 1, WantedOn(v)
      PROVE  ~FitsWithout({i \in Evictable : ~Generating(i) /\ ~WantedOn(i)})
  <2> DEFINE G == {i \in Evictable : ~Generating(i) /\ ~WantedOn(i)}
  <2>1. Peers[v].target \in request.prot
    BY <1>1, <1>3, <1>7, WantedPeers, PeersAndOthers
  <2>2. \A i \in idle : Peers[i].target \in request.prot
    BY <1>4, <2>1
  <2>3. \A i \in idle : WantedOn(i)
    BY <1>1, <1>5, <2>2, WantedPeers
  <2>4. idle \cap G = {} /\ \A i \in G : i \in Evictable /\ ~Generating(i)
    BY <2>3
  <2> HIDE DEF G
  <2>5. ~FitsWithout(G)
    BY <1>1, <1>3, <2>4, IdleOnlyIsNotEnough DEF D
  <2> QED BY <2>5 DEF G
<1> QED BY <1>6, <1>7

LEMMA PlannerInvariant == PlannerSpec => []PlanIsThePlan
<1>1. PlannerInit => PlanIsThePlan
  <2> SUFFICES ASSUME PlannerInit PROVE PlanIsThePlan
    OBVIOUS
  <2>1. request \in [rt : [Targets -> Views], prot : SUBSET Targets]
    BY DEF PlannerInit
  <2>2. [Targets -> Views] \subseteq [Targets -> RuntimeView]
    BY PlannerAssumption
  <2>3. request \in PlanRequests
    BY <2>1, <2>2 DEF PlanRequests
  <2> QED BY <2>3 DEF PlannerInit, PlanIsThePlan, Asked
<1>2. PlanIsThePlan /\ [PlannerNext]_plannerVars => PlanIsThePlan'
  <2> SUFFICES ASSUME PlanIsThePlan, [PlannerNext]_plannerVars PROVE PlanIsThePlan'
    OBVIOUS
  <2>1. CASE PlanTarget
    BY <2>1 DEF PlanTarget, PlanIsThePlan, Asked
  <2>2. CASE UNCHANGED plannerVars
    BY <2>2 DEF plannerVars, PlanIsThePlan, Asked
  <2> QED BY <2>1, <2>2 DEF PlannerNext
<1> QED BY <1>1, <1>2, PTL DEF PlannerSpec

(* planApiProxyRequest never leaves a pool over its budget, and says no    *)
(* only when unloading everything it may unload would not make room: for   *)
(* any instances, pools, draws and priorities, with the greedy choice of   *)
(* the comparator.                                                         *)
THEOREM PlannerLoadsWhatFits == PlannerSpec => []LoadsWhatFits
BY PlannerInvariant, PlansFitOrCannot, PTL

(* It unloads nothing that preemptible = false, a higher priority or a     *)
(* generation it may not interrupt protects.                               *)
THEOREM PlannerEvictsOnlyWhatItMay == PlannerSpec => []VictimsMayBeEvicted
BY PlannerInvariant, PlansEvictOnlyEvictable, PTL

(* A generation is interrupted only where unloading all that is idle is    *)
(* not enough, and a wanted idle model goes only where the unwanted ones   *)
(* are not enough.                                                         *)
THEOREM PlannerDoesLeastHarm == PlannerSpec => []LeastHarmFirst
BY PlannerInvariant, PlansDoLeastHarm, PTL
=============================================================================
