------------------------- MODULE BodyBudget_proofs -------------------------
(***************************************************************************)
(* Proofs about BodyBudget for every number of requests, every set of      *)
(* limits a reload may publish and every bound of the integers.            *)
(*                                                                         *)
(* The counter is compared with a sum over all requests.  What is needed   *)
(* of that sum follows from its recursive definition by taking a smallest  *)
(* set for which it fails.                                                 *)
(***************************************************************************)
EXTENDS BodyBudget, FiniteSetTheorems, TLAPS

-----------------------------------------------------------------------------
(* Sums over the requests.                                                 *)

Chosen(s) == CHOOSE x \in s : TRUE

\* g is the sum of what r reserves, for every part of S.
Adds(S, r, g) ==
  \A s \in SUBSET S :
    g[s] = IF s = {} THEN 0 ELSE r[Chosen(s)].reserved + g[s \ {Chosen(s)}]

\* What the requests r have reserved together.
Total(r) == MapThenSumSet(LAMBDA h : r[h].reserved, Handlers)

\* An element is chosen from every set that has one, and leaves a smaller set.
LEMMA ChosenIn ==
  ASSUME NEW s, s # {}
  PROVE  Chosen(s) \in s /\ s \ {Chosen(s)} \subseteq s /\ s \ {Chosen(s)} # s
  BY DEF Chosen

\* Among the parts of a finite set with a property there is a smallest one.
LEMMA Smallest ==
  ASSUME NEW S, IsFiniteSet(S), NEW T, T \subseteq SUBSET S, T # {}
  PROVE  \E s \in T : \A t \in T : t \subseteq s => t = s
<1>1. IsWellFoundedOn(StrictSubsetOrdering(S), SUBSET S)
  BY FS_StrictSubsetOrderingWellFounded, FS_FiniteSubsetsOfFinite
<1>2. \E s \in T : \A t \in T : <<t, s>> \notin StrictSubsetOrdering(S)
  BY <1>1, WFMin
<1>3. QED
  BY <1>2 DEF StrictSubsetOrdering

\* A sum does not depend on the set it is defined for.
LEMMA AddsUnique ==
  ASSUME NEW S, IsFiniteSet(S), NEW U \in SUBSET S, NEW V \in SUBSET S,
         NEW r, NEW g, NEW k, Adds(U, r, g), Adds(V, r, k)
  PROVE  \A s \in SUBSET (U \cap V) : g[s] = k[s]
<1> DEFINE T == {s \in SUBSET (U \cap V) : g[s] # k[s]}
<1>1. SUFFICES ASSUME T # {} PROVE FALSE
  OBVIOUS
<1>2. PICK s \in T : \A t \in T : t \subseteq s => t = s
  <2>1. T \subseteq SUBSET S
    OBVIOUS
  <2> HIDE DEF T
  <2>2. QED
    BY <1>1, <2>1, Smallest
<1>3. s \in SUBSET U /\ s \in SUBSET V
  OBVIOUS
<1>4. s # {}
  BY <1>3 DEF Adds
<1>5. s \ {Chosen(s)} \notin T
  BY <1>2, <1>4, ChosenIn
<1>6. g[s \ {Chosen(s)}] = k[s \ {Chosen(s)}]
  BY <1>5
<1>7. QED
  BY <1>2, <1>3, <1>4, <1>6 DEF Adds

\* Every finite set has a sum.
LEMMA AddsExists ==
  ASSUME NEW S, IsFiniteSet(S), NEW r
  PROVE  \E g : Adds(S, r, g)
<1> DEFINE T == {U \in SUBSET S : ~\E g : Adds(U, r, g)}
<1>1. SUFFICES ASSUME T # {} PROVE FALSE
  OBVIOUS
<1>2. PICK U \in T : \A V \in T : V \subseteq U => V = U
  <2>1. T \subseteq SUBSET S
    OBVIOUS
  <2> HIDE DEF T
  <2>2. QED
    BY <1>1, <2>1, Smallest
<1> DEFINE G(V) == CHOOSE g : Adds(V, r, g)
<1>3. \A V \in SUBSET U : V # U => Adds(V, r, G(V))
  BY <1>2
<1> DEFINE g == [s \in SUBSET U |->
                   IF s = {} THEN 0
                   ELSE r[Chosen(s)].reserved + G(s \ {Chosen(s)})[s \ {Chosen(s)}]]
<1>4. \A V \in SUBSET U : V # U => G(V)[V] = g[V]
  <2> SUFFICES ASSUME NEW V \in SUBSET U, V # U PROVE G(V)[V] = g[V]
    OBVIOUS
  <2>1. Adds(V, r, G(V))
    BY <1>3
  <2>2. CASE V = {}
    BY <2>1, <2>2 DEF Adds
  <2>3. CASE V # {}
    <3> DEFINE W == V \ {Chosen(V)}
    <3>1. W \in SUBSET V /\ W \in SUBSET U /\ W # U
      BY <2>3, ChosenIn
    <3>2. Adds(W, r, G(W))
      BY <1>3, <3>1
    <3>3. G(V)[W] = G(W)[W]
      <4>1. W \in SUBSET (V \cap W) /\ V \in SUBSET S /\ W \in SUBSET S
        BY <3>1
      <4> HIDE DEF W, G
      <4>2. QED
        BY <2>1, <3>2, <4>1, AddsUnique
    <3>4. G(V)[V] = r[Chosen(V)].reserved + G(V)[W]
      BY <2>1, <2>3 DEF Adds
    <3>5. g[V] = r[Chosen(V)].reserved + G(W)[W]
      BY <2>3
    <3>6. QED
      BY <3>3, <3>4, <3>5
  <2>4. QED
    BY <2>2, <2>3
<1>5. Adds(U, r, g)
  <2>1. g[{}] = 0
    OBVIOUS
  <2>2. ASSUME NEW s \in SUBSET U, s # {}
        PROVE  g[s] = r[Chosen(s)].reserved + g[s \ {Chosen(s)}]
    <3>1. s \ {Chosen(s)} \in SUBSET U /\ s \ {Chosen(s)} # U
      BY <2>2, ChosenIn
    <3>2. G(s \ {Chosen(s)})[s \ {Chosen(s)}] = g[s \ {Chosen(s)}]
      BY <1>4, <3>1
    <3>3. g[s] = r[Chosen(s)].reserved + G(s \ {Chosen(s)})[s \ {Chosen(s)}]
      BY <2>2
    <3>4. QED
      BY <3>2, <3>3
  <2> HIDE DEF g
  <2>3. QED
    BY <2>1, <2>2 DEF Adds
<1>6. QED
  BY <1>5

\* The sum of the requests is the one of the recursion.
LEMMA TotalAdds ==
  ASSUME NEW r
  PROVE  \E g : Adds(Handlers, r, g) /\ Total(r) = g[Handlers]
<1> DEFINE Sums(g) ==
      g = [s \in SUBSET Handlers |->
             IF s = {} THEN 0 ELSE r[Chosen(s)].reserved + g[s \ {Chosen(s)}]]
<1>1. PICK g : Adds(Handlers, r, g)
  BY AddsExists, BudgetAssumption
<1>2. Sums([s \in SUBSET Handlers |-> g[s]])
  <2> DEFINE k == [s \in SUBSET Handlers |-> g[s]]
  <2>1. \A s \in SUBSET Handlers :
          g[s] = IF s = {} THEN 0 ELSE r[Chosen(s)].reserved + k[s \ {Chosen(s)}]
    BY <1>1 DEF Adds
  <2>2. QED
    BY <2>1
<1>3. Sums(CHOOSE k : Sums(k))
  BY <1>2
<1>4. Adds(Handlers, r, CHOOSE k : Sums(k))
  <2>1. PICK k : k = (CHOOSE l : Sums(l))
    OBVIOUS
  <2>2. Sums(k)
    BY <1>3, <2>1
  <2>3. Adds(Handlers, r, k)
    BY <2>2 DEF Adds
  <2>4. QED
    BY <2>1, <2>3
<1>5. Total(r) = (CHOOSE k : Sums(k))[Handlers]
  BY DEF Total, MapThenSumSet, MapThenFoldSet, Chosen
<1>6. QED
  BY <1>4, <1>5

\* A sum of natural numbers is one, and not smaller than any of them.
LEMMA AddsNat ==
  ASSUME NEW S, IsFiniteSet(S), NEW r, \A h \in S : r[h].reserved \in Nat,
         NEW g, Adds(S, r, g)
  PROVE  \A s \in SUBSET S : g[s] \in Nat /\ \A h \in s : r[h].reserved <= g[s]
<1> DEFINE Right(s) == g[s] \in Nat /\ \A h \in s : r[h].reserved <= g[s]
           T == {s \in SUBSET S : ~Right(s)}
<1>1. SUFFICES ASSUME T # {} PROVE FALSE
  OBVIOUS
<1>2. PICK s \in T : \A t \in T : t \subseteq s => t = s
  <2>1. T \subseteq SUBSET S
    OBVIOUS
  <2> HIDE DEF T
  <2>2. QED
    BY <1>1, <2>1, Smallest
<1>3. s # {}
  BY DEF Adds
<1>4. PICK x \in S : x = Chosen(s) /\ x \in s
  BY <1>3, ChosenIn
<1>5. g[s] = r[x].reserved + g[s \ {x}]
  BY <1>3, <1>4 DEF Adds
<1>6. g[s \ {x}] \in Nat /\ \A h \in s \ {x} : r[h].reserved <= g[s \ {x}]
  BY <1>2, <1>4
<1>7. r[x].reserved \in Nat /\ \A h \in s : r[h].reserved \in Nat
  OBVIOUS
<1>8. g[s] \in Nat /\ r[x].reserved <= g[s] /\ g[s \ {x}] <= g[s]
  BY <1>5, <1>6, <1>7
<1>9. \A h \in s \ {x} : r[h].reserved <= g[s]
  BY <1>6, <1>7, <1>8
<1>10. Right(s)
  BY <1>8, <1>9
<1>11. QED
  BY <1>10

\* When one summand changes, the sum changes by as much.
LEMMA AddsChange ==
  ASSUME NEW S, IsFiniteSet(S), NEW r, NEW q, NEW x \in S,
         \A h \in S : r[h].reserved \in Nat /\ q[h].reserved \in Nat,
         \A h \in S \ {x} : q[h].reserved = r[h].reserved,
         NEW g, Adds(S, r, g), NEW k, Adds(S, q, k)
  PROVE  \A s \in SUBSET S :
           k[s] = IF x \in s THEN g[s] - r[x].reserved + q[x].reserved ELSE g[s]
<1> DEFINE Right(s) ==
             k[s] = IF x \in s THEN g[s] - r[x].reserved + q[x].reserved ELSE g[s]
           T == {s \in SUBSET S : ~Right(s)}
<1>1. SUFFICES ASSUME T # {} PROVE FALSE
  OBVIOUS
<1>2. PICK s \in T : \A t \in T : t \subseteq s => t = s
  <2>1. T \subseteq SUBSET S
    OBVIOUS
  <2> HIDE DEF T
  <2>2. QED
    BY <1>1, <2>1, Smallest
<1>3. s # {}
  BY DEF Adds
<1>4. PICK y \in S : y = Chosen(s) /\ y \in s
  BY <1>3, ChosenIn
<1>5. g[s] = r[y].reserved + g[s \ {y}] /\ k[s] = q[y].reserved + k[s \ {y}]
  BY <1>3, <1>4 DEF Adds
<1>6. Right(s \ {y})
  BY <1>2, <1>4
<1>7. /\ g[s] \in Nat /\ g[s \ {y}] \in Nat /\ k[s] \in Nat /\ k[s \ {y}] \in Nat
      /\ r[x].reserved \in Nat /\ q[x].reserved \in Nat
      /\ r[y].reserved \in Nat /\ q[y].reserved \in Nat
  BY AddsNat
<1>8. CASE y = x
  BY <1>4, <1>5, <1>6, <1>7, <1>8
<1>9. CASE y # x
  <2>1. q[y].reserved = r[y].reserved /\ (x \in s \ {y} <=> x \in s)
    BY <1>9
  <2>2. QED
    BY <1>5, <1>6, <1>7, <2>1
<1>10. QED
  BY <1>8, <1>9

\* When only one summand counts, it is the sum.
LEMMA AddsAlone ==
  ASSUME NEW S, IsFiniteSet(S), NEW r, NEW x \in S, r[x].reserved \in Nat,
         \A h \in S \ {x} : r[h].reserved = 0,
         NEW g, Adds(S, r, g)
  PROVE  \A s \in SUBSET S : g[s] = IF x \in s THEN r[x].reserved ELSE 0
<1> DEFINE Right(s) == g[s] = IF x \in s THEN r[x].reserved ELSE 0
           T == {s \in SUBSET S : ~Right(s)}
<1>1. SUFFICES ASSUME T # {} PROVE FALSE
  OBVIOUS
<1>2. PICK s \in T : \A t \in T : t \subseteq s => t = s
  <2>1. T \subseteq SUBSET S
    OBVIOUS
  <2> HIDE DEF T
  <2>2. QED
    BY <1>1, <2>1, Smallest
<1>3. s # {}
  BY DEF Adds
<1>4. PICK y \in S : y = Chosen(s) /\ y \in s
  BY <1>3, ChosenIn
<1>5. g[s] = r[y].reserved + g[s \ {y}]
  BY <1>3, <1>4 DEF Adds
<1>6. Right(s \ {y})
  BY <1>2, <1>4
<1>7. CASE y = x
  BY <1>4, <1>5, <1>6, <1>7
<1>8. CASE y # x
  BY <1>4, <1>5, <1>6, <1>8
<1>9. QED
  BY <1>7, <1>8

\* What the requests have reserved is a natural number, no less than what any
\* of them has, and just what one has when the others have nothing.
LEMMA TotalNat ==
  ASSUME NEW r, \A h \in Handlers : r[h].reserved \in Nat
  PROVE  /\ Total(r) \in Nat
         /\ \A h \in Handlers : r[h].reserved <= Total(r)
         /\ \A h \in Handlers : (\A o \in Handlers \ {h} : r[o].reserved = 0)
              => Total(r) = r[h].reserved
<1>1. PICK g : Adds(Handlers, r, g) /\ Total(r) = g[Handlers]
  BY TotalAdds
<1>2. g[Handlers] \in Nat /\ \A h \in Handlers : r[h].reserved <= g[Handlers]
  BY <1>1, AddsNat, BudgetAssumption
<1>3. ASSUME NEW h \in Handlers, \A o \in Handlers \ {h} : r[o].reserved = 0
      PROVE  g[Handlers] = r[h].reserved
  BY <1>1, <1>3, AddsAlone, BudgetAssumption
<1>4. QED
  BY <1>1, <1>2, <1>3

\* Nothing is reserved while no request has anything.
LEMMA TotalNone ==
  ASSUME NEW r, \A h \in Handlers : r[h].reserved = 0
  PROVE  Total(r) = 0
<1>1. CASE Handlers = {}
  <2>1. PICK g : Adds(Handlers, r, g) /\ Total(r) = g[Handlers]
    BY TotalAdds
  <2>2. QED
    BY <1>1, <2>1 DEF Adds
<1>2. CASE Handlers # {}
  BY <1>2, TotalNat
<1>3. QED
  BY <1>1, <1>2

\* When one request reserves more or less, the sum changes by as much.
LEMMA TotalChange ==
  ASSUME NEW r, NEW q, NEW x \in Handlers,
         \A h \in Handlers : r[h].reserved \in Nat /\ q[h].reserved \in Nat,
         \A h \in Handlers \ {x} : q[h].reserved = r[h].reserved
  PROVE  Total(q) = Total(r) - r[x].reserved + q[x].reserved
<1>1. PICK g : Adds(Handlers, r, g) /\ Total(r) = g[Handlers]
  BY TotalAdds
<1>2. PICK k : Adds(Handlers, q, k) /\ Total(q) = k[Handlers]
  BY TotalAdds
<1>3. \A s \in SUBSET Handlers :
        k[s] = IF x \in s THEN g[s] - r[x].reserved + q[x].reserved ELSE g[s]
  <2>1. IsFiniteSet(Handlers)
    BY BudgetAssumption
  <2>2. Adds(Handlers, r, g) /\ Adds(Handlers, q, k)
    BY <1>1, <1>2
  <2>3. QED
    BY <2>1, <2>2, AddsChange
<1>4. QED
  BY <1>1, <1>2, <1>3

-----------------------------------------------------------------------------
(* The inductive invariant.                                                *)

\* What a request has reserved is, at every stage, the size of what it holds
\* and of what it is about to encode; and each body has its own bound.
Charged(r) ==
  LET inbound == r.size["inbound"]
      decoded == r.size["decoded"]
  IN
  /\ r.stage \in {"idle", "arrived"} => r.held = {} /\ r.reserved = 0
  /\ r.stage = "arrived" => inbound = 0
  /\ r.stage = "reading" =>
       r.held = {"inbound"} /\ inbound <= r.reserved /\ r.reserved <= r.max
  /\ r.stage = "read" => r.held = {"inbound"} /\ r.reserved = inbound /\ inbound <= r.max
  /\ r.stage \in {"decoded", "normalizing", "normalized", "select", "rewrite", "answered"} =>
       r.held = {"inbound", "decoded"}
  /\ r.stage \in {"decoded", "normalizing"} => inbound <= r.max
  /\ r.stage \in Stages \ {"idle", "arrived", "reading", "read"} =>
       decoded <= r.max /\ inbound <= RewriteReservation(r.max)
  /\ r.stage \in {"decoded", "normalized"} => r.reserved = inbound + decoded
  /\ r.stage = "normalizing" => r.reserved = inbound + decoded + RewriteReservation(r.max)
  /\ r.stage \in {"select", "rewrite", "send", "flight", "await", "returned", "answered"} =>
       r.base = inbound + decoded
  /\ r.stage \in {"select", "answered"} => r.reserved = r.base
  /\ r.stage = "rewrite" => r.reserved = r.base + RewriteReservation(r.max)
  /\ r.stage \in {"send", "flight", "await", "returned"} =>
       \/ r.held = {"inbound", "decoded"} /\ r.reserved = r.base
       \/ r.held = Buffers /\ r.reserved = r.base + r.size["attempt"]

\* The limit is pinned, and the transport has only what the handler holds, and
\* only during a call.
Sound(r) ==
  /\ r \in Requests
  /\ r.stage # "idle" => r.max \in MaxBodies /\ r.length \in 0..r.max \cup {None}
  /\ r.lent # {} => r.stage \in {"flight", "await"}
  /\ r.lent \subseteq r.held
  /\ Charged(r)

IInv ==
  /\ TypeOK /\ BytesAccounted /\ WithinSomeBudget
  /\ \A h \in Handlers : Sound(request[h])

-----------------------------------------------------------------------------
(* The budget.                                                             *)

\* The budget of a limit covers two copies of the body, each as large as a
\* rewrite may make it, and one rewrite more.
LEMMA BudgetCovers ==
  ASSUME NEW max \in MaxBodies
  PROVE  /\ max \in Nat \ {0} /\ Growth \in Nat
         /\ RewriteReservation(max) = max + Growth
         /\ Budget(max) \in Nat
         /\ 2 * max + Growth + RewriteReservation(max) <= Budget(max)
<1>1. max \in Nat \ {0} /\ Growth \in Nat /\ Floor \in Nat /\ MaxInt \in Nat
      /\ Growth <= MaxInt /\ Budget(max) < MaxInt
  BY BudgetAssumption
<1>2. RewriteReservation(max) \in Nat
  BY <1>1 DEF RewriteReservation
<1>3. RewriteReservation(max) # MaxInt
  BY <1>1 DEF Budget
<1>4. RewriteReservation(max) = max + Growth
  BY <1>1, <1>3 DEF RewriteReservation
<1>5. LET exact == 2 * max + RewriteReservation(max) + Growth
      IN  Budget(max) = IF exact >= Floor THEN exact ELSE Floor
  BY <1>1 DEF Budget
<1>6. QED
  BY <1>1, <1>2, <1>4, <1>5

\* What is charged is the sum of what is reserved.
LEMMA BytesAreTotal ==
  /\ BytesAccounted <=> bytes = Total(request)
  /\ BytesAccounted' <=> bytes' = Total(request')
<1>1. BytesAccounted <=> bytes = Total(request)
  BY DEF BytesAccounted, Total
<1>2. BytesAccounted' <=> bytes' = Total(request')
  BY DEF BytesAccounted, Total, MapThenSumSet, MapThenFoldSet
<1>3. QED
  BY <1>1, <1>2

-----------------------------------------------------------------------------
(* Every action preserves the invariant.                                   *)

\* At first nothing is charged.
LEMMA InitInv == Init => IInv
<1> SUFFICES ASSUME Init PROVE IInv
  OBVIOUS
<1>1. Idle \in Requests /\ Idle.reserved = 0 /\ Idle.held = {} /\ Idle.lent = {}
      /\ Idle.stage = "idle"
  BY DEF Idle, Requests, Stages, Empty, Buffers
<1>2. Sound(Idle)
  BY <1>1 DEF Sound, Charged, Stages
<1>3. TypeOK
  BY <1>1 DEF Init, TypeOK
<1>4. Total(request) = 0
  BY <1>1, TotalNone DEF Init
<1>5. BytesAccounted
  BY <1>4, BytesAreTotal DEF Init
<1>6. WithinSomeBudget
  BY DEF Init, WithinSomeBudget
<1>7. QED
  BY <1>2, <1>3, <1>5, <1>6 DEF Init, IInv

\* A request that moves to a sound state and charges the difference, within a
\* budget if it is more, preserves the invariant.
LEMMA RequestMoves ==
  ASSUME IInv, NEW h \in Handlers, NEW r, Sound(r),
         request' = [request EXCEPT ![h] = r],
         UNCHANGED published,
         bytes' = bytes - request[h].reserved + r.reserved,
         \/ r.reserved <= request[h].reserved
         \/ \E max \in MaxBodies : bytes' <= Budget(max)
  PROVE  IInv'
<1>1. request \in [Handlers -> Requests] /\ r \in Requests /\ bytes \in Nat
  BY DEF IInv, TypeOK, Sound
<1>2. request' \in [Handlers -> Requests]
  BY <1>1
<1>3. /\ request'[h] = r
      /\ \A g \in Handlers \ {h} : request'[g] = request[g]
  BY <1>1
<1>4. \A g \in Handlers : request[g].reserved \in Nat /\ request'[g].reserved \in Nat
  BY <1>1, <1>2 DEF Requests
<1>5. \A g \in Handlers \ {h} : request'[g].reserved = request[g].reserved
  BY <1>3
<1>6. Total(request') = Total(request) - request[h].reserved + request'[h].reserved
  <2>1. PICK p, q : p = request /\ q = request'
    OBVIOUS
  <2>2. /\ \A g \in Handlers : p[g].reserved \in Nat /\ q[g].reserved \in Nat
        /\ \A g \in Handlers \ {h} : q[g].reserved = p[g].reserved
    BY <1>4, <1>5, <2>1
  <2>3. Total(q) = Total(p) - p[h].reserved + q[h].reserved
    BY <2>2, TotalChange
  <2>4. QED
    BY <2>1, <2>3
<1>7. bytes' = Total(request')
  BY <1>3, <1>6, BytesAreTotal DEF IInv
<1>8. bytes' \in Nat
  BY <1>4, <1>7, TotalNat
<1>9. TypeOK' /\ BytesAccounted'
  BY <1>2, <1>7, <1>8, BytesAreTotal DEF IInv, TypeOK
<1>10. WithinSomeBudget'
  <2>1. CASE \E max \in MaxBodies : bytes' <= Budget(max)
    BY <2>1 DEF WithinSomeBudget
  <2>2. CASE r.reserved <= request[h].reserved
    <3>1. bytes' <= bytes
      BY <1>1, <1>3, <1>4, <1>8, <2>2
    <3>2. CASE bytes = 0
      BY <1>1, <1>8, <3>1, <3>2 DEF WithinSomeBudget
    <3>3. CASE bytes # 0
      <4>1. PICK max \in MaxBodies : bytes <= Budget(max)
        BY <3>3 DEF IInv, WithinSomeBudget
      <4>2. Budget(max) \in Nat
        BY BudgetCovers
      <4>3. bytes' <= Budget(max)
        BY <1>1, <1>8, <3>1, <4>1, <4>2
      <4>4. QED
        BY <4>3 DEF WithinSomeBudget
    <3>4. QED
      BY <3>2, <3>3
  <2>3. QED
    BY <2>1, <2>2
<1>11. \A g \in Handlers : Sound(request'[g])
  BY <1>3 DEF IInv
<1>12. QED
  BY <1>9, <1>10, <1>11 DEF IInv

\* A step that charges nothing.
LEMMA StepInv ==
  ASSUME IInv, NEW h \in Handlers, NEW r, Sound(r), Step(h, r),
         r.reserved = request[h].reserved
  PROVE  IInv'
<1>1. bytes \in Nat /\ r.reserved \in Nat
  BY DEF IInv, TypeOK, Sound, Requests
<1>2. bytes' = bytes - request[h].reserved + r.reserved
  BY <1>1 DEF Step
<1>3. r.reserved <= request[h].reserved
  BY <1>1
<1>4. QED
  BY <1>2, <1>3, RequestMoves DEF Step

\* A charge fits the budget of the request's own limit.
LEMMA AcquireInv ==
  ASSUME IInv, NEW h \in Handlers, NEW n \in Nat, NEW r, Acquire(h, n, r),
         request[h].max \in MaxBodies,
         r.reserved = request[h].reserved, Sound([r EXCEPT !.reserved = @ + n])
  PROVE  IInv'
<1> DEFINE q == [r EXCEPT !.reserved = @ + n]
<1>1. bytes \in Nat /\ request[h].reserved \in Nat /\ Budget(request[h].max) \in Nat
  BY BudgetCovers DEF IInv, TypeOK, Requests
<1>2. q.reserved = request[h].reserved + n
  BY DEF Sound, Requests
<1>3. bytes' = bytes - request[h].reserved + q.reserved
  BY <1>1, <1>2 DEF Acquire
<1>4. n = 0 \/ bytes' <= Budget(request[h].max)
  BY <1>1 DEF Acquire, Fits
<1>5. q.reserved <= request[h].reserved \/ \E max \in MaxBodies : bytes' <= Budget(max)
  BY <1>1, <1>2, <1>4
<1>6. request' = [request EXCEPT ![h] = q] /\ UNCHANGED published /\ Sound(q)
  BY DEF Acquire
<1> HIDE DEF q
<1>7. QED
  BY <1>3, <1>5, <1>6, RequestMoves

\* What is left of a charge is returned.
LEMMA ShrinkInv ==
  ASSUME IInv, NEW h \in Handlers, NEW n \in Nat, NEW r, ShrinkTo(h, n, r),
         n <= request[h].reserved,
         r.reserved = request[h].reserved, Sound([r EXCEPT !.reserved = n])
  PROVE  IInv'
<1> DEFINE q == [r EXCEPT !.reserved = n]
<1>1. bytes \in Nat /\ request[h].reserved \in Nat
  BY DEF IInv, TypeOK, Requests
<1>2. q.reserved = n
  BY DEF Sound, Requests
<1>3. (IF n >= r.reserved THEN r.reserved ELSE n) = n
  BY <1>1
<1>4. /\ bytes' = bytes - (request[h].reserved - n)
      /\ request' = [request EXCEPT ![h] = q] /\ UNCHANGED published /\ Sound(q)
  BY <1>3 DEF ShrinkTo
<1>5. bytes' = bytes - request[h].reserved + q.reserved
  BY <1>1, <1>2, <1>4
<1>6. q.reserved <= request[h].reserved
  BY <1>2
<1> HIDE DEF q
<1>7. QED
  BY <1>4, <1>5, <1>6, RequestMoves

\* The inbound body is received.
LEMMA ReceiveInv ==
  ASSUME IInv, NEW h \in Handlers, Arrive(h) \/ Accept(h) \/ ReadChunk(h) \/ EndOfBody(h)
  PROVE  IInv'
<1>0. PICK r \in Requests : r = request[h] /\ Sound(r)
  BY DEF IInv, Sound
<1>1. published \in MaxBodies
  BY DEF IInv, TypeOK
<1>2. CASE Arrive(h)
  <2>1. PICK length \in 0..published \cup {None} :
          Step(h, [Idle EXCEPT !.stage = "arrived", !.max = published, !.length = length])
    BY <1>2 DEF Arrive
  <2> DEFINE q == [Idle EXCEPT !.stage = "arrived", !.max = published, !.length = length]
  <2>2. /\ q.stage = "arrived" /\ q.max = published /\ q.length = length /\ q.reserved = 0
        /\ q.held = {} /\ q.lent = {}
    BY DEF Idle
  <2>3. q \in Requests
    <3>1. length \in Nat \cup {None}
      BY <1>1, BudgetCovers
    <3>2. Idle \in Requests
      BY DEF Idle, Requests, Stages, Empty, Buffers
    <3>3. QED
      BY <1>1, <3>1, <3>2 DEF Requests, Stages
  <2>4. Sound(q)
    <3>1. q.size = Empty /\ Empty["inbound"] = 0
      BY DEF Idle, Empty, Buffers
    <3> HIDE DEF q
    <3>2. QED
      BY <1>1, <2>2, <2>3, <3>1 DEF Sound, Charged, Stages
  <2>5. request[h].reserved = 0
    BY <1>0, <1>2 DEF Arrive, Sound, Charged
  <2> HIDE DEF q
  <2>6. QED
    BY <2>1, <2>2, <2>4, <2>5, StepInv DEF q
<1>3. CASE Accept(h)
  <2>1. /\ r.stage = "arrived" /\ r.max \in MaxBodies /\ r.max \in Nat /\ r.reserved = 0
        /\ r.lent = {} /\ r.length \in 0..r.max \cup {None} /\ r.size["inbound"] = 0
    BY <1>0, <1>3, BudgetCovers DEF Accept, Sound, Charged, Requests
  <2> DEFINE q == [r EXCEPT !.stage = "reading", !.held = {"inbound"}]
  <2>2. /\ q \in Requests /\ q.stage = "reading" /\ q.held = {"inbound"}
        /\ q.reserved = 0 /\ q.max = r.max /\ q.length = r.length /\ q.lent = {}
        /\ q.size["inbound"] = 0
    BY <1>0, <2>1 DEF Requests, Stages, Buffers
  <2>3. CASE r.length = None
    <3>1. Step(h, q)
      BY <1>0, <1>3, <2>3 DEF Accept
    <3> HIDE DEF q
    <3>2. Sound(q)
      BY <2>1, <2>2 DEF Sound, Charged, Stages
    <3>3. QED
      BY <1>0, <2>1, <2>2, <3>1, <3>2, StepInv
  <2>4. CASE r.length # None
    <3>1. r.length \in Nat /\ r.length <= r.max
      BY <2>1, <2>4
    <3>2. Acquire(h, r.length, q)
      BY <1>0, <1>3, <2>4 DEF Accept
    <3> HIDE DEF q
    <3> DEFINE t == [q EXCEPT !.reserved = @ + r.length]
    <3>3. /\ t \in Requests /\ t.stage = "reading" /\ t.held = {"inbound"}
          /\ t.reserved = r.length /\ t.max = r.max /\ t.length = r.length /\ t.lent = {}
          /\ t.size["inbound"] = 0
      BY <2>2, <3>1 DEF Requests
    <3>4. Sound(t)
      <4> HIDE DEF t
      <4>1. QED
        BY <2>1, <3>1, <3>3 DEF Sound, Charged, Stages
    <3>5. QED
      BY <1>0, <2>1, <2>2, <3>1, <3>2, <3>4, AcquireInv
  <2>5. QED
    BY <2>3, <2>4
<1>4. CASE ReadChunk(h)
  <2>1. PICK n \in 1..(Length(r) - r.size["inbound"]) :
          Acquire(h, Missing(r, n), [r EXCEPT !.size["inbound"] = @ + n])
    BY <1>0, <1>4 DEF ReadChunk
  <2>2. /\ r.stage = "reading" /\ r.max \in MaxBodies /\ r.max \in Nat /\ r.reserved \in Nat
        /\ r.lent = {} /\ r.length \in 0..r.max \cup {None} /\ r.size["inbound"] \in Nat
        /\ r.held = {"inbound"} /\ r.size["inbound"] <= r.reserved /\ r.reserved <= r.max
    BY <1>0, <1>4, BudgetCovers DEF ReadChunk, Sound, Charged, Requests, Buffers
  <2> DEFINE size == r.size["inbound"] + n
             q == [r EXCEPT !.size["inbound"] = @ + n]
             t == [q EXCEPT !.reserved = @ + Missing(r, n)]
  <2>3. size \in Nat /\ size <= r.max /\ n \in Nat
    BY <2>1, <2>2 DEF Length
  <2>4. /\ Missing(r, n) \in Nat /\ r.reserved + Missing(r, n) \in Nat
        /\ size <= r.reserved + Missing(r, n)
        /\ r.reserved + Missing(r, n) <= r.max
    BY <2>2, <2>3 DEF Missing
  <2>5. /\ q \in Requests /\ q.stage = "reading" /\ q.held = {"inbound"}
        /\ q.reserved = r.reserved /\ q.max = r.max /\ q.length = r.length /\ q.lent = {}
        /\ q.size["inbound"] = size
    BY <1>0, <2>2, <2>3 DEF Requests, Buffers
  <2> HIDE DEF q, size
  <2>6. /\ t \in Requests /\ t.stage = "reading" /\ t.held = {"inbound"}
        /\ t.reserved = r.reserved + Missing(r, n) /\ t.max = r.max /\ t.length = r.length
        /\ t.lent = {} /\ t.size["inbound"] = size
    BY <2>4, <2>5 DEF Requests
  <2>7. Sound(t)
    <3> HIDE DEF t
    <3>1. QED
      BY <2>2, <2>4, <2>6 DEF Sound, Charged, Stages
  <2>8. Acquire(h, Missing(r, n), q)
    BY <2>1 DEF q
  <2>9. QED
    BY <1>0, <2>2, <2>4, <2>5, <2>7, <2>8, AcquireInv
<1>5. CASE EndOfBody(h)
  <2>1. /\ r.stage = "reading" /\ r.max \in MaxBodies /\ r.reserved \in Nat
        /\ r.lent = {} /\ r.length \in 0..r.max \cup {None} /\ r.size["inbound"] \in Nat
        /\ r.held = {"inbound"} /\ r.size["inbound"] <= r.reserved /\ r.reserved <= r.max
        /\ r.max \in Nat
    BY <1>0, <1>5, BudgetCovers DEF EndOfBody, Sound, Charged, Requests, Buffers
  <2> DEFINE n == r.size["inbound"]
             q == [r EXCEPT !.stage = "read"]
             t == [q EXCEPT !.reserved = n]
  <2>2. q.reserved = r.reserved /\ ShrinkTo(h, n, q)
    BY <1>0, <1>5 DEF EndOfBody, Requests
  <2>3. /\ t \in Requests /\ t.stage = "read" /\ t.held = {"inbound"} /\ t.reserved = n
        /\ t.max = r.max /\ t.length = r.length /\ t.lent = {} /\ t.size["inbound"] = n
    BY <1>0, <2>1 DEF Requests, Stages
  <2>4. Sound(t)
    <3>1. n <= r.max /\ n \in Nat
      BY <2>1
    <3> HIDE DEF t, n
    <3>2. QED
      BY <2>1, <2>3, <3>1 DEF Sound, Charged, Stages
  <2> HIDE DEF q
  <2>5. QED
    BY <1>0, <2>1, <2>2, <2>4, ShrinkInv
<1>6. QED
  BY <1>2, <1>3, <1>4, <1>5

\* The body is decoded, and encoded anew if the fields were changed.
LEMMA PrepareInv ==
  ASSUME IInv, NEW h \in Handlers,
         Decode(h) \/ StartNormalize(h) \/ FinishNormalize(h) \/ EnterLoop(h)
  PROVE  IInv'
<1>0. PICK r \in Requests : r = request[h] /\ Sound(r)
  BY DEF IInv, Sound
<1> DEFINE inbound == r.size["inbound"]
           decoded == r.size["decoded"]
<1>1. r.stage \in {"read", "decoded", "normalizing", "normalized"}
  BY <1>0 DEF Decode, StartNormalize, FinishNormalize, EnterLoop
<1>2. /\ r.max \in MaxBodies /\ r.max \in Nat /\ RewriteReservation(r.max) \in Nat
      /\ r.max <= RewriteReservation(r.max)
      /\ r.lent = {} /\ r.length \in 0..r.max \cup {None}
      /\ inbound \in Nat /\ decoded \in Nat /\ r.reserved \in Nat
  <2>1. r.max \in MaxBodies /\ r.lent = {} /\ r.length \in 0..r.max \cup {None}
    BY <1>0, <1>1 DEF Sound
  <2>2. inbound \in Nat /\ decoded \in Nat /\ r.reserved \in Nat
    BY <1>0 DEF Requests, Buffers
  <2>3. /\ r.max \in Nat /\ Growth \in Nat
        /\ RewriteReservation(r.max) = r.max + Growth
    BY <2>1, BudgetCovers
  <2>4. QED
    BY <2>1, <2>2, <2>3
<1>3. CASE Decode(h)
  <2>1. r.stage = "read" /\ r.held = {"inbound"} /\ r.reserved = inbound /\ inbound <= r.max
    BY <1>0, <1>3 DEF Decode, Sound, Charged
  <2> DEFINE q == [r EXCEPT !.stage = "decoded", !.held = @ \cup {"decoded"},
                            !.size["decoded"] = inbound]
             t == [q EXCEPT !.reserved = @ + inbound]
  <2>2. Acquire(h, inbound, q)
    BY <1>0, <1>3 DEF Decode
  <2>3. /\ q \in Requests /\ q.stage = "decoded" /\ q.held = {"inbound", "decoded"}
        /\ q.reserved = inbound /\ q.max = r.max /\ q.length = r.length /\ q.lent = {}
        /\ q.size["inbound"] = inbound /\ q.size["decoded"] = inbound
    BY <1>0, <1>2, <2>1 DEF Requests, Stages, Buffers
  <2> HIDE DEF q
  <2>4. /\ t \in Requests /\ t.stage = "decoded" /\ t.held = {"inbound", "decoded"}
        /\ t.reserved = inbound + inbound /\ t.max = r.max /\ t.length = r.length /\ t.lent = {}
        /\ t.size["inbound"] = inbound /\ t.size["decoded"] = inbound
    BY <1>2, <2>3 DEF Requests
  <2>5. Sound(t)
    <3> HIDE DEF t, inbound
    <3>1. inbound <= RewriteReservation(r.max)
      BY <1>2, <2>1
    <3>2. QED
      BY <1>2, <2>1, <2>4, <3>1 DEF Sound, Charged, Stages
  <2>6. QED
    BY <1>0, <1>2, <2>1, <2>2, <2>3, <2>5, AcquireInv
<1>4. CASE StartNormalize(h)
  <2>1. /\ r.stage = "decoded" /\ r.held = {"inbound", "decoded"}
        /\ r.reserved = inbound + decoded /\ inbound <= r.max /\ decoded <= r.max
    BY <1>0, <1>4 DEF StartNormalize, Sound, Charged, Stages
  <2> DEFINE n == RewriteReservation(r.max)
             q == [r EXCEPT !.stage = "normalizing"]
             t == [q EXCEPT !.reserved = @ + n]
  <2>2. Acquire(h, n, q)
    BY <1>0, <1>4 DEF StartNormalize
  <2>3. /\ q \in Requests /\ q.stage = "normalizing" /\ q.held = {"inbound", "decoded"}
        /\ q.reserved = r.reserved /\ q.max = r.max /\ q.length = r.length /\ q.lent = {}
        /\ q.size = r.size
    BY <1>0, <1>2, <2>1 DEF Requests, Stages
  <2> HIDE DEF q
  <2>4. /\ t \in Requests /\ t.stage = "normalizing" /\ t.held = {"inbound", "decoded"}
        /\ t.reserved = inbound + decoded + n /\ t.max = r.max /\ t.length = r.length
        /\ t.lent = {} /\ t.size["inbound"] = inbound /\ t.size["decoded"] = decoded
    BY <1>2, <2>1, <2>3 DEF Requests
  <2>5. Sound(t)
    <3> HIDE DEF t, inbound, decoded
    <3>1. inbound <= RewriteReservation(r.max)
      BY <1>2, <2>1
    <3>2. QED
      BY <1>2, <2>1, <2>4, <3>1 DEF Sound, Charged, Stages
  <2>6. QED
    BY <1>0, <1>2, <2>2, <2>3, <2>5, AcquireInv
<1>5. CASE FinishNormalize(h)
  <2>1. /\ r.stage = "normalizing" /\ r.held = {"inbound", "decoded"}
        /\ r.reserved = inbound + decoded + RewriteReservation(r.max) /\ decoded <= r.max
    BY <1>0, <1>5 DEF FinishNormalize, Sound, Charged, Stages
  <2>2. PICK n \in 1..RewriteReservation(r.max) :
          ShrinkTo(h, decoded + n, [r EXCEPT !.stage = "normalized", !.size["inbound"] = n])
    BY <1>0, <1>5 DEF FinishNormalize
  <2> DEFINE m == decoded + n
             q == [r EXCEPT !.stage = "normalized", !.size["inbound"] = n]
             t == [q EXCEPT !.reserved = m]
  <2>3. n \in Nat /\ n <= RewriteReservation(r.max) /\ m \in Nat /\ m <= r.reserved
    BY <1>2, <2>1, <2>2
  <2>4. /\ q \in Requests /\ q.stage = "normalized" /\ q.held = {"inbound", "decoded"}
        /\ q.reserved = r.reserved /\ q.max = r.max /\ q.length = r.length /\ q.lent = {}
        /\ q.size["inbound"] = n /\ q.size["decoded"] = decoded
    BY <1>0, <1>2, <2>1, <2>3 DEF Requests, Stages, Buffers
  <2>5. ShrinkTo(h, m, q)
    BY <2>2
  <2> HIDE DEF q
  <2>6. /\ t \in Requests /\ t.stage = "normalized" /\ t.held = {"inbound", "decoded"}
        /\ t.reserved = n + decoded /\ t.max = r.max /\ t.length = r.length /\ t.lent = {}
        /\ t.size["inbound"] = n /\ t.size["decoded"] = decoded
    BY <1>2, <2>3, <2>4 DEF Requests
  <2>7. Sound(t)
    <3> HIDE DEF t, inbound, decoded, m
    <3>1. QED
      BY <1>2, <2>1, <2>3, <2>6 DEF Sound, Charged, Stages
  <2> HIDE DEF m
  <2>8. QED
    BY <1>0, <2>3, <2>4, <2>5, <2>7, ShrinkInv
<1>6. CASE EnterLoop(h)
  <2>1. /\ r.stage \in {"decoded", "normalized"} /\ r.held = {"inbound", "decoded"}
        /\ r.reserved = inbound + decoded /\ decoded <= r.max
        /\ inbound <= RewriteReservation(r.max)
    BY <1>0, <1>6 DEF EnterLoop, Sound, Charged, Stages
  <2> DEFINE q == [r EXCEPT !.stage = "select", !.base = r.reserved]
  <2>2. Step(h, q)
    BY <1>0, <1>6 DEF EnterLoop
  <2>3. /\ q \in Requests /\ q.stage = "select" /\ q.held = {"inbound", "decoded"}
        /\ q.reserved = r.reserved /\ q.base = r.reserved /\ q.max = r.max
        /\ q.length = r.length /\ q.lent = {} /\ q.size = r.size
    BY <1>0, <1>2, <2>1 DEF Requests, Stages
  <2> HIDE DEF q
  <2>4. Sound(q)
    BY <1>2, <2>1, <2>3 DEF Sound, Charged, Stages
  <2>5. QED
    BY <1>0, <2>2, <2>3, <2>4, StepInv
<1>7. QED
  BY <1>3, <1>4, <1>5, <1>6

\* The body of an attempt is rewritten, or the request's own is sent.
LEMMA RewriteInv ==
  ASSUME IInv, NEW h \in Handlers,
         StartRewrite(h) \/ FinishRewrite(h) \/ KeepBody(h)
  PROVE  IInv'
<1>0. PICK r \in Requests : r = request[h] /\ Sound(r)
  BY DEF IInv, Sound
<1> DEFINE inbound == r.size["inbound"]
           decoded == r.size["decoded"]
<1>1. r.stage \in {"select", "rewrite"}
  BY <1>0 DEF StartRewrite, FinishRewrite, KeepBody
<1>2. /\ r.max \in MaxBodies /\ RewriteReservation(r.max) \in Nat
      /\ r.lent = {} /\ r.length \in 0..r.max \cup {None}
      /\ inbound \in Nat /\ decoded \in Nat /\ r.reserved \in Nat /\ r.base \in Nat
      /\ r.held = {"inbound", "decoded"} /\ r.base = inbound + decoded
      /\ decoded <= r.max /\ inbound <= RewriteReservation(r.max)
  <2>1. r.max \in MaxBodies /\ r.lent = {} /\ r.length \in 0..r.max \cup {None}
    BY <1>0, <1>1 DEF Sound
  <2>2. inbound \in Nat /\ decoded \in Nat /\ r.reserved \in Nat /\ r.base \in Nat
    BY <1>0 DEF Requests, Buffers
  <2>3. /\ r.max \in Nat /\ Growth \in Nat
        /\ RewriteReservation(r.max) = r.max + Growth
    BY <2>1, BudgetCovers
  <2>4. /\ r.held = {"inbound", "decoded"} /\ r.base = inbound + decoded
        /\ decoded <= r.max /\ inbound <= RewriteReservation(r.max)
    BY <1>0, <1>1 DEF Sound, Charged, Stages
  <2>5. QED
    BY <2>1, <2>2, <2>3, <2>4
<1>3. CASE StartRewrite(h)
  <2>1. r.stage = "select" /\ r.reserved = r.base
    BY <1>0, <1>3 DEF StartRewrite, Sound, Charged
  <2> DEFINE n == RewriteReservation(r.max)
             q == [r EXCEPT !.stage = "rewrite"]
             t == [q EXCEPT !.reserved = @ + n]
  <2>2. Acquire(h, n, q)
    BY <1>0, <1>3 DEF StartRewrite
  <2>3. /\ q \in Requests /\ q.stage = "rewrite" /\ q.held = r.held
        /\ q.reserved = r.reserved /\ q.max = r.max /\ q.length = r.length /\ q.lent = {}
        /\ q.size = r.size /\ q.base = r.base
    BY <1>0, <1>2, <2>1 DEF Requests, Stages
  <2> HIDE DEF q
  <2>4. /\ t \in Requests /\ t.stage = "rewrite" /\ t.held = r.held
        /\ t.reserved = r.base + n /\ t.max = r.max /\ t.length = r.length
        /\ t.lent = {} /\ t.size = r.size /\ t.base = r.base
    BY <1>2, <2>1, <2>3 DEF Requests
  <2>5. Sound(t)
    <3> HIDE DEF t
    <3>1. QED
      BY <1>2, <2>1, <2>4 DEF Sound, Charged, Stages
  <2>6. QED
    BY <1>0, <1>2, <2>2, <2>3, <2>5, AcquireInv
<1>4. CASE FinishRewrite(h)
  <2>1. r.stage = "rewrite" /\ r.reserved = r.base + RewriteReservation(r.max)
    BY <1>0, <1>4 DEF FinishRewrite, Sound, Charged
  <2>2. PICK n \in 1..RewriteReservation(r.max) :
          ShrinkTo(h, r.base + n,
                   [r EXCEPT !.stage = "send", !.size["attempt"] = n,
                             !.held = @ \cup {"attempt"}])
    BY <1>0, <1>4 DEF FinishRewrite
  <2> DEFINE m == r.base + n
             q == [r EXCEPT !.stage = "send", !.size["attempt"] = n,
                            !.held = @ \cup {"attempt"}]
             t == [q EXCEPT !.reserved = m]
  <2>3. n \in Nat /\ m \in Nat /\ m <= r.reserved
    BY <1>2, <2>1, <2>2
  <2>4. /\ q \in Requests /\ q.stage = "send" /\ q.held = Buffers
        /\ q.reserved = r.reserved /\ q.max = r.max /\ q.length = r.length /\ q.lent = {}
        /\ q.size["inbound"] = inbound /\ q.size["decoded"] = decoded
        /\ q.size["attempt"] = n /\ q.base = r.base
    BY <1>0, <1>2, <2>1, <2>3 DEF Requests, Stages, Buffers
  <2>5. ShrinkTo(h, m, q)
    BY <2>2
  <2> HIDE DEF q
  <2>6. /\ t \in Requests /\ t.stage = "send" /\ t.held = Buffers
        /\ t.reserved = r.base + n /\ t.max = r.max /\ t.length = r.length /\ t.lent = {}
        /\ t.size["inbound"] = inbound /\ t.size["decoded"] = decoded
        /\ t.size["attempt"] = n /\ t.base = r.base
    BY <2>3, <2>4 DEF Requests
  <2>7. Sound(t)
    <3> HIDE DEF t, inbound, decoded, m
    <3>1. QED
      BY <1>2, <2>6 DEF Sound, Charged, Stages
  <2> HIDE DEF m
  <2>8. QED
    BY <1>0, <2>3, <2>4, <2>5, <2>7, ShrinkInv
<1>5. CASE KeepBody(h)
  <2>1. r.stage = "select" /\ r.reserved = r.base
    BY <1>0, <1>5 DEF KeepBody, Sound, Charged
  <2> DEFINE q == [r EXCEPT !.stage = "send"]
  <2>2. Step(h, q)
    BY <1>0, <1>5 DEF KeepBody
  <2>3. /\ q \in Requests /\ q.stage = "send" /\ q.held = r.held
        /\ q.reserved = r.reserved /\ q.base = r.base /\ q.max = r.max
        /\ q.length = r.length /\ q.lent = {} /\ q.size = r.size
    BY <1>0, <1>2 DEF Requests, Stages
  <2> HIDE DEF q
  <2>4. Sound(q)
    BY <1>2, <2>1, <2>3 DEF Sound, Charged, Stages
  <2>5. QED
    BY <1>0, <2>2, <2>3, <2>4, StepInv
<1>6. QED
  BY <1>3, <1>4, <1>5

\* The stages of a call.
Calling == {"send", "flight", "await", "returned"}

\* A call charges nothing: a request at one of its stages goes to another, or
\* lends and takes back a body it holds.
LEMMA CallInv ==
  ASSUME IInv, NEW h \in Handlers,
         \/ Submit(h) \/ TransportCloses(h) \/ ContextEnds(h)
         \/ CallReturns(h) \/ AwaitBody(h) \/ Resend(h)
  PROVE  IInv'
<1>0. PICK r \in Requests : r = request[h] /\ Sound(r)
  BY DEF IInv, Sound
<1>1. r.stage \in Calling
  BY <1>0 DEF Submit, TransportCloses, ContextEnds, CallReturns, AwaitBody, Resend,
              Sound, Calling
<1>2. /\ r.max \in MaxBodies /\ r.length \in 0..r.max \cup {None}
      /\ r.lent \subseteq r.held
      /\ r.held \in SUBSET Buffers /\ "inbound" \in r.held
  BY <1>0, <1>1 DEF Sound, Charged, Calling, Buffers
<1>3. \E stage \in Calling, lent \in SUBSET r.held, resent, expired \in BOOLEAN :
        /\ Step(h, [r EXCEPT !.stage = stage, !.lent = lent, !.resent = resent,
                             !.expired = expired])
        /\ lent # {} => stage \in {"flight", "await"}
  <2>0. r.resent \in BOOLEAN /\ r.expired \in BOOLEAN /\ {} \in SUBSET r.held
    BY <1>0 DEF Requests
  <2>1. CASE Submit(h)
    <3>1. [r EXCEPT !.stage = "flight", !.lent = Payload(r)]
          = [r EXCEPT !.stage = "flight", !.lent = Payload(r), !.resent = r.resent,
                      !.expired = r.expired]
      BY <1>0 DEF Requests
    <3>2. Payload(r) \in SUBSET r.held
      BY <1>2 DEF Payload
    <3>3. QED
      BY <1>0, <2>0, <2>1, <3>1, <3>2 DEF Submit, Calling
  <2>2. CASE TransportCloses(h)
    <3>1. [r EXCEPT !.lent = {}]
          = [r EXCEPT !.stage = r.stage, !.lent = {}, !.resent = r.resent,
                      !.expired = r.expired]
      BY <1>0 DEF Requests
    <3>2. QED
      BY <1>0, <1>1, <2>0, <2>2, <3>1 DEF TransportCloses
  <2>3. CASE ContextEnds(h)
    <3>1. [r EXCEPT !.expired = TRUE]
          = [r EXCEPT !.stage = r.stage, !.lent = r.lent, !.resent = r.resent,
                      !.expired = TRUE]
      BY <1>0 DEF Requests
    <3>2. r.stage \in {"flight", "await"}
      BY <1>0, <2>3 DEF ContextEnds
    <3>3. Step(h, [r EXCEPT !.stage = r.stage, !.lent = r.lent, !.resent = r.resent,
                            !.expired = TRUE])
      BY <1>0, <2>3, <3>1 DEF ContextEnds
    <3>4. TRUE \in BOOLEAN /\ r.lent \in SUBSET r.held
      BY <1>2
    <3>5. QED
      BY <1>1, <2>0, <3>2, <3>3, <3>4
  <2>4. CASE CallReturns(h)
    <3>1. [r EXCEPT !.stage = "await"]
          = [r EXCEPT !.stage = "await", !.lent = r.lent, !.resent = r.resent,
                      !.expired = r.expired]
      BY <1>0 DEF Requests
    <3>2. Step(h, [r EXCEPT !.stage = "await", !.lent = r.lent, !.resent = r.resent,
                            !.expired = r.expired])
      BY <1>0, <2>4, <3>1 DEF CallReturns
    <3>3. "await" \in Calling /\ r.lent \in SUBSET r.held
      BY <1>2 DEF Calling
    <3>4. QED
      BY <2>0, <3>2, <3>3
  <2>5. CASE AwaitBody(h)
    <3>1. [r EXCEPT !.stage = "returned", !.lent = {}, !.expired = FALSE]
          = [r EXCEPT !.stage = "returned", !.lent = {}, !.resent = r.resent,
                      !.expired = FALSE]
      BY <1>0 DEF Requests
    <3>2. QED
      BY <1>0, <2>0, <2>5, <3>1 DEF AwaitBody, Calling
  <2>6. CASE Resend(h)
    <3>1. [r EXCEPT !.stage = "send", !.resent = TRUE]
          = [r EXCEPT !.stage = "send", !.lent = {}, !.resent = TRUE, !.expired = r.expired]
      BY <1>0, <2>6 DEF Requests, Resend, Sound
    <3>2. QED
      BY <1>0, <2>0, <2>6, <3>1 DEF Resend, Calling
  <2>7. QED
    BY <2>1, <2>2, <2>3, <2>4, <2>5, <2>6
<1>4. PICK stage \in Calling, lent \in SUBSET r.held, resent \in BOOLEAN, expired \in BOOLEAN :
        /\ Step(h, [r EXCEPT !.stage = stage, !.lent = lent, !.resent = resent,
                             !.expired = expired])
        /\ lent # {} => stage \in {"flight", "await"}
  BY <1>3
<1> DEFINE q == [r EXCEPT !.stage = stage, !.lent = lent, !.resent = resent,
                          !.expired = expired]
<1>5. /\ q \in Requests /\ q.stage \in Calling /\ q.held = r.held
      /\ q.reserved = r.reserved /\ q.base = r.base /\ q.max = r.max
      /\ q.length = r.length /\ q.lent = lent /\ q.size = r.size /\ q.stage = stage
  BY <1>0, <1>2 DEF Requests, Stages, Calling
<1> HIDE DEF q
<1>6. Charged(q)
  <2>1. /\ r.size["decoded"] <= r.max /\ r.size["inbound"] <= RewriteReservation(r.max)
        /\ r.base = r.size["inbound"] + r.size["decoded"]
        /\ \/ r.held = {"inbound", "decoded"} /\ r.reserved = r.base
           \/ r.held = Buffers /\ r.reserved = r.base + r.size["attempt"]
    BY <1>0, <1>1 DEF Sound, Charged, Calling, Stages
  <2>2. QED
    BY <1>5, <2>1 DEF Charged, Calling, Stages
<1>7. Sound(q)
  BY <1>2, <1>4, <1>5, <1>6 DEF Sound
<1>8. QED
  BY <1>0, <1>4, <1>5, <1>7, StepInv DEF q

\* The attempt's own body is uncharged, and another attempt may follow.
LEMMA NextAttemptInv ==
  ASSUME IInv, NEW h \in Handlers, DropAttempt(h) \/ Retry(h)
  PROVE  IInv'
<1>0. PICK r \in Requests : r = request[h] /\ Sound(r)
  BY DEF IInv, Sound
<1>1. r.stage \in {"returned", "answered"}
  BY <1>0 DEF DropAttempt, Retry
<1>2. /\ r.max \in MaxBodies /\ r.lent = {} /\ r.length \in 0..r.max \cup {None}
      /\ r.reserved \in Nat /\ r.base \in Nat /\ r.attempt \in Nat
      /\ r.size["inbound"] \in Nat /\ r.size["decoded"] \in Nat /\ r.size["attempt"] \in Nat
      /\ r.base = r.size["inbound"] + r.size["decoded"]
      /\ r.size["decoded"] <= r.max /\ r.size["inbound"] <= RewriteReservation(r.max)
  <2>1. r.max \in MaxBodies /\ r.lent = {} /\ r.length \in 0..r.max \cup {None}
    BY <1>0, <1>1 DEF Sound
  <2>2. /\ r.reserved \in Nat /\ r.base \in Nat /\ r.attempt \in Nat
        /\ r.size["inbound"] \in Nat /\ r.size["decoded"] \in Nat /\ r.size["attempt"] \in Nat
    BY <1>0 DEF Requests, Buffers
  <2>3. /\ r.base = r.size["inbound"] + r.size["decoded"]
        /\ r.size["decoded"] <= r.max /\ r.size["inbound"] <= RewriteReservation(r.max)
    BY <1>0, <1>1 DEF Sound, Charged, Stages
  <2>4. QED
    BY <2>1, <2>2, <2>3
<1>3. CASE DropAttempt(h)
  <2>1. /\ r.held \ {"attempt"} = {"inbound", "decoded"}
        /\ r.base <= r.reserved
    <3>1. \/ r.held = {"inbound", "decoded"} /\ r.reserved = r.base
          \/ r.held = Buffers /\ r.reserved = r.base + r.size["attempt"]
      BY <1>0, <1>3 DEF DropAttempt, Sound, Charged
    <3>2. QED
      BY <1>2, <3>1 DEF Buffers
  <2> DEFINE q == [r EXCEPT !.stage = "answered", !.held = @ \ {"attempt"},
                            !.size["attempt"] = 0]
             t == [q EXCEPT !.reserved = r.base]
  <2>2. ShrinkTo(h, r.base, q)
    BY <1>0, <1>3 DEF DropAttempt
  <2>3. /\ q \in Requests /\ q.stage = "answered" /\ q.held = {"inbound", "decoded"}
        /\ q.reserved = r.reserved /\ q.max = r.max /\ q.length = r.length /\ q.lent = {}
        /\ q.size["inbound"] = r.size["inbound"] /\ q.size["decoded"] = r.size["decoded"]
        /\ q.base = r.base
    BY <1>0, <1>2, <2>1 DEF Requests, Stages, Buffers
  <2> HIDE DEF q
  <2>4. /\ t \in Requests /\ t.stage = "answered" /\ t.held = {"inbound", "decoded"}
        /\ t.reserved = r.base /\ t.max = r.max /\ t.length = r.length /\ t.lent = {}
        /\ t.size["inbound"] = r.size["inbound"] /\ t.size["decoded"] = r.size["decoded"]
        /\ t.base = r.base
    BY <1>2, <2>3 DEF Requests
  <2>5. Sound(t)
    <3> HIDE DEF t
    <3>1. QED
      BY <1>2, <2>4 DEF Sound, Charged, Stages
  <2>6. QED
    BY <1>0, <1>2, <2>1, <2>2, <2>3, <2>5, ShrinkInv
<1>4. CASE Retry(h)
  <2>1. r.held = {"inbound", "decoded"} /\ r.reserved = r.base /\ r.stage = "answered"
    BY <1>0, <1>4 DEF Retry, Sound, Charged
  <2> DEFINE q == [r EXCEPT !.stage = "select", !.attempt = @ + 1, !.resent = FALSE]
  <2>2. Step(h, q)
    BY <1>0, <1>4 DEF Retry
  <2>3. /\ q \in Requests /\ q.stage = "select" /\ q.held = r.held
        /\ q.reserved = r.reserved /\ q.base = r.base /\ q.max = r.max
        /\ q.length = r.length /\ q.lent = {} /\ q.size = r.size
    <3>1. /\ q \in [stage : Stages, max : MaxBodies \cup {0}, length : Nat \cup {None},
                   reserved : Nat, base : Nat, size : [Buffers -> Nat],
                   held : SUBSET Buffers, lent : SUBSET Buffers,
                   attempt : Nat, resent : BOOLEAN, expired : BOOLEAN]
      <4>1. "select" \in Stages /\ r.attempt + 1 \in Nat /\ FALSE \in BOOLEAN
        BY <1>2 DEF Stages
      <4>2. QED
        BY <1>0, <4>1 DEF Requests
    <3>2. QED
      BY <1>0, <1>2, <3>1 DEF Requests
  <2> HIDE DEF q
  <2>4. Sound(q)
    BY <1>2, <2>1, <2>3 DEF Sound, Charged, Stages
  <2>5. QED
    BY <1>0, <2>2, <2>3, <2>4, StepInv
<1>5. QED
  BY <1>3, <1>4

\* Whatever a request has reserved is returned when it ends.
LEMMA ReleaseInv ==
  ASSUME IInv, NEW h \in Handlers, Finish(h) \/ Refuse(h)
  PROVE  IInv'
<1>0. PICK r \in Requests : r = request[h] /\ Sound(r)
  BY DEF IInv, Sound
<1>1. Release(h)
  BY DEF Finish, Refuse
<1>2. r.lent = {}
  BY <1>0 DEF Finish, Refuse, Refusable, Sound
<1> DEFINE q == Abandoned(r)
<1>3. /\ q \in Requests /\ q.stage = "idle" /\ q.held = {} /\ q.lent = {} /\ q.reserved = 0
  BY <1>2 DEF Abandoned, Idle, Requests, Stages, Empty, Buffers
<1>4. /\ request' = [request EXCEPT ![h] = q] /\ UNCHANGED published
      /\ bytes' = bytes - request[h].reserved
  BY <1>0, <1>1 DEF Release
<1> HIDE DEF q
<1>5. Sound(q)
  BY <1>3 DEF Sound, Charged, Stages
<1>6. bytes \in Nat /\ request[h].reserved \in Nat
  BY DEF IInv, TypeOK, Requests
<1>7. bytes' = bytes - request[h].reserved + q.reserved /\ q.reserved <= request[h].reserved
  BY <1>3, <1>4, <1>6
<1>8. QED
  BY <1>4, <1>5, <1>7, RequestMoves

\* A reload changes no charge.
LEMMA ReloadInv ==
  ASSUME IInv, NEW max \in MaxBodies, Reload(max)
  PROVE  IInv'
<1>1. bytes' = bytes /\ request' = request /\ published' \in MaxBodies
  BY DEF Reload
<1>2. BytesAccounted'
  BY <1>1, BytesAreTotal DEF IInv
<1>3. QED
  BY <1>1, <1>2 DEF IInv, TypeOK, WithinSomeBudget

\* Every step preserves the invariant.
LEMMA NextInv == IInv /\ [Next]_vars => IInv'
<1> SUFFICES ASSUME IInv, [Next]_vars PROVE IInv'
  OBVIOUS
<1>1. ASSUME NEW max \in MaxBodies, Reload(max) PROVE IInv'
  BY <1>1, ReloadInv
<1>2. ASSUME NEW h \in Handlers, Arrive(h) \/ Accept(h) \/ ReadChunk(h) \/ EndOfBody(h)
      PROVE  IInv'
  BY <1>2, ReceiveInv
<1>3. ASSUME NEW h \in Handlers,
             Decode(h) \/ StartNormalize(h) \/ FinishNormalize(h) \/ EnterLoop(h)
      PROVE  IInv'
  BY <1>3, PrepareInv
<1>4. ASSUME NEW h \in Handlers, StartRewrite(h) \/ FinishRewrite(h) \/ KeepBody(h)
      PROVE  IInv'
  BY <1>4, RewriteInv
<1>5. ASSUME NEW h \in Handlers,
             \/ Submit(h) \/ TransportCloses(h) \/ ContextEnds(h)
             \/ CallReturns(h) \/ AwaitBody(h) \/ Resend(h)
      PROVE  IInv'
  BY <1>5, CallInv
<1>6. ASSUME NEW h \in Handlers, DropAttempt(h) \/ Retry(h) PROVE IInv'
  BY <1>6, NextAttemptInv
<1>7. ASSUME NEW h \in Handlers, Finish(h) \/ Refuse(h) PROVE IInv'
  BY <1>7, ReleaseInv
<1>8. CASE UNCHANGED vars
  <2>1. bytes' = bytes /\ request' = request /\ published' = published
    BY <1>8 DEF vars
  <2>2. BytesAccounted'
    BY <2>1, BytesAreTotal DEF IInv
  <2>3. QED
    BY <2>1, <2>2 DEF IInv, TypeOK, WithinSomeBudget
<1>9. QED
  BY <1>1, <1>2, <1>3, <1>4, <1>5, <1>6, <1>7, <1>8 DEF Next, Progress

\* The inductive invariant holds in every reachable state.
LEMMA SpecInv == Spec => []IInv
  BY InitInv, NextInv, PTL DEF Spec

-----------------------------------------------------------------------------
(* The properties.                                                         *)

\* What a request retains is charged.
LEMMA SoundIsCharged ==
  ASSUME NEW r, Sound(r)
  PROVE  LET Kept(b) == IF b \in r.held \cup r.lent THEN r.size[b] ELSE 0
         IN  Kept("inbound") + Kept("decoded") + Kept("attempt") <= r.reserved
<1>1. /\ r.held \cup r.lent = r.held /\ r.stage \in Stages
      /\ r.size["inbound"] \in Nat /\ r.size["decoded"] \in Nat /\ r.size["attempt"] \in Nat
      /\ r.reserved \in Nat
  BY DEF Sound, Requests, Buffers
<1>2. CASE r.stage \in {"idle", "arrived", "reading", "read"}
  BY <1>1, <1>2 DEF Sound, Charged
<1>3. CASE r.stage \in {"decoded", "normalized", "select", "answered"}
  BY <1>1, <1>3 DEF Sound, Charged, Stages
<1>4. CASE r.stage \in {"normalizing", "rewrite"}
  <2>1. RewriteReservation(r.max) \in Nat
    BY <1>4, BudgetCovers DEF Sound
  <2>2. QED
    BY <1>1, <1>4, <2>1 DEF Sound, Charged, Stages
<1>5. CASE r.stage \in {"send", "flight", "await", "returned"}
  <2>1. \/ r.held = {"inbound", "decoded"} /\ r.reserved = r.base
        \/ r.held = Buffers /\ r.reserved = r.base + r.size["attempt"]
    BY <1>5 DEF Sound, Charged
  <2>2. r.base = r.size["inbound"] + r.size["decoded"]
    BY <1>5 DEF Sound, Charged
  <2>3. QED
    BY <1>1, <2>1, <2>2 DEF Buffers
<1>6. QED
  BY <1>1, <1>2, <1>3, <1>4, <1>5 DEF Stages

\* The counter is the sum of the reservations, which cover what the requests
\* and the transport retain, and it stays within a budget, for any number of
\* requests and any limits: nothing is leaked or returned twice on any way out.
THEOREM SpecReservationsExact == Spec => []ReservationsExact
<1>1. IInv => ReservationsExact
  <2> SUFFICES ASSUME IInv PROVE RetainedIsCharged
    BY DEF IInv, ReservationsExact
  <2>1. ASSUME NEW h \in Handlers
        PROVE  Retained(h, "inbound") + Retained(h, "decoded") + Retained(h, "attempt")
                 <= request[h].reserved
    BY SoundIsCharged DEF IInv, Retained
  <2>2. QED
    BY <2>1 DEF RetainedIsCharged
<1>2. QED
  BY <1>1, SpecInv, PTL

\* The process-wide budget never refuses a request of legal size that is alone:
\* at every stage what it asks for next fits the budget of its own limit.
THEOREM SpecNeverRefusedAlone == Spec => []NeverRefusedAlone
<1>1. IInv => NeverRefusedAlone
  <2> SUFFICES ASSUME IInv, NEW h \in Handlers,
                      \A o \in Handlers \ {h} : request[o].reserved = 0
               PROVE  ~Refusable(h)
    BY DEF NeverRefusedAlone
  <2>1. PICK r \in Requests : r = request[h] /\ Sound(r)
    BY DEF IInv, Sound
  <2>2. bytes = r.reserved
    <3>1. \A g \in Handlers : request[g].reserved \in Nat
      BY DEF IInv, TypeOK, Requests
    <3>2. Total(request) = request[h].reserved
      BY <3>1, TotalNat
    <3>3. QED
      BY <2>1, <3>2, BytesAreTotal DEF IInv
  <2> DEFINE B == Budget(r.max)
             R == RewriteReservation(r.max)
  <2>3. CASE r.stage \in {"arrived", "reading", "read", "decoded", "select"}
    <3>1. r.max \in MaxBodies /\ r.length \in 0..r.max \cup {None}
      BY <2>1, <2>3 DEF Sound
    <3>2. /\ r.max \in Nat \ {0} /\ Growth \in Nat /\ B \in Nat
          /\ R = r.max + Growth /\ 2 * r.max + Growth + R <= B
      BY <3>1, BudgetCovers
    <3>3. /\ r.reserved \in Nat /\ r.size["inbound"] \in Nat /\ r.size["decoded"] \in Nat
      BY <2>1 DEF Requests, Buffers
    <3>4. \A n : Fits(h, n) <=> n <= 0 \/ bytes <= B - n
      BY <2>1 DEF Fits
    <3>5. CASE r.stage = "arrived"
      <4>1. r.reserved = 0
        BY <2>1, <3>5 DEF Sound, Charged
      <4>2. r.length # None => r.length \in Nat /\ Fits(h, r.length)
        BY <2>2, <3>1, <3>2, <3>4, <4>1
      <4>3. ~(bytes >= B)
        BY <2>2, <3>2, <4>1
      <4>4. QED
        BY <2>1, <3>5, <4>2, <4>3 DEF Refusable
    <3>6. CASE r.stage = "reading"
      <4>1. r.reserved <= r.max
        BY <2>1, <3>6 DEF Sound, Charged
      <4>2. ASSUME NEW n \in 1..(Length(r) - r.size["inbound"]) PROVE Fits(h, Missing(r, n))
        <5>1. n \in Nat /\ r.size["inbound"] + n <= r.max
          BY <3>1, <3>2, <3>3 DEF Length
        <5>2. Missing(r, n) \in Nat /\ r.reserved + Missing(r, n) <= r.max
          BY <3>2, <3>3, <4>1, <5>1 DEF Missing
        <5>3. bytes <= B - Missing(r, n)
          BY <2>2, <3>2, <3>3, <5>2
        <5>4. QED
          BY <3>4, <5>3
      <4>3. QED
        BY <2>1, <3>6, <4>2 DEF Refusable
    <3>7. CASE r.stage = "read"
      <4>1. r.reserved = r.size["inbound"] /\ r.size["inbound"] <= r.max
        BY <2>1, <3>7 DEF Sound, Charged
      <4>2. Fits(h, r.size["inbound"])
        BY <2>2, <3>2, <3>3, <3>4, <4>1
      <4>3. QED
        BY <2>1, <3>7, <4>2 DEF Refusable
    <3>8. CASE r.stage \in {"decoded", "select"}
      <4>1. /\ r.reserved = r.size["inbound"] + r.size["decoded"]
            /\ r.size["decoded"] <= r.max /\ r.size["inbound"] <= R
        BY <2>1, <3>8 DEF Sound, Charged, Stages
      <4>2. bytes <= B - R
        BY <2>2, <3>2, <3>3, <4>1
      <4>3. Fits(h, R)
        BY <3>4, <4>2
      <4>4. QED
        BY <2>1, <3>8, <4>3 DEF Refusable
    <3>9. QED
      BY <2>3, <3>5, <3>6, <3>7, <3>8
  <2>4. CASE r.stage \notin {"arrived", "reading", "read", "decoded", "select"}
    BY <2>1, <2>4 DEF Refusable
  <2>5. QED
    BY <2>3, <2>4
<1>2. QED
  BY <1>1, SpecInv, PTL
=============================================================================
