--------------------------- MODULE TeamPlanProofs ---------------------------
(***************************************************************************)
(* The proof that HasCycle is right about every graph: a depth-first       *)
(* search terminates, and it meets a task of its own path again exactly    *)
(* where some tasks wait for each other.  The facts about numbers at the   *)
(* beginning are used by TeamRunsProofs too.                               *)
(***************************************************************************)
EXTENDS TeamPlan, NaturalsInduction, WellFoundedInduction, FiniteSetTheorems,
        FunctionTheorems, TLAPS

-----------------------------------------------------------------------------
(* Numbers.                                                                *)

\* A set of numbers that is not empty has a least one.
LEMMA LeastNumber ==
  ASSUME NEW T, T \subseteq Nat, T # {}
  PROVE  \E n \in T : \A m \in T : n <= m
<1>1. PICK n \in T : \A m \in T : ~(<<m, n>> \in OpToRel(<, Nat))
  BY NatLessThanWellFounded, WFMin
<1>2. ASSUME NEW m \in T PROVE n <= m
  <2>1. m \in Nat /\ n \in Nat
    OBVIOUS
  <2>2. m < n => <<m, n>> \in OpToRel(<, Nat)
    BY <2>1 DEF OpToRel
  <2>3. ~(m < n)
    BY <1>1, <2>2, Zenon
  <2> QED
    BY <2>1, <2>3
<1> QED
  BY <1>2

\* Induction over a set: what holds of 0, and of each number if it holds of the
\* one before, holds up to n.
LEMMA Induction ==
  ASSUME NEW n \in Nat, NEW T, 0 \in T, \A k \in 1 .. n : k - 1 \in T => k \in T
  PROVE  0 .. n \subseteq T
<1> DEFINE Missing == (0 .. n) \ T
<1>1. SUFFICES ASSUME Missing # {} PROVE FALSE
  OBVIOUS
<1>2. Missing \subseteq Nat
  OBVIOUS
<1>3. PICK m \in Missing : \A l \in Missing : m <= l
  <2> HIDE DEF Missing
  <2> QED
    BY <1>1, <1>2, LeastNumber
<1>4. m \in 1 .. n /\ m \notin T
  OBVIOUS
<1>5. m - 1 \in 0 .. n /\ ~(m <= m - 1)
  BY <1>4
<1>6. m - 1 \in T
  BY <1>3, <1>5
<1> QED
  BY <1>4, <1>6

\* A function on the first numbers that makes a step from each to the next.
Steps(f, base, step, n) ==
  /\ f[0] = base
  /\ \A k \in 1 .. n : f[k] = step[<<k, f[k - 1]>>]

\* There is one, whatever the step: recursion over numbers is well defined.
LEMMA Recursion ==
  ASSUME NEW S, NEW base \in S, NEW n \in Nat, NEW step \in [(1 .. n) \X S -> S]
  PROVE  \E f \in [0 .. n -> S] : Steps(f, base, step, n)
<1> DEFINE Defined(m) == \E f \in [0 .. m -> S] : Steps(f, base, step, m)
           T == {m \in 0 .. n : Defined(m)}
<1>1. 0 \in T
  <2> DEFINE f == [k \in 0 .. 0 |-> base]
  <2>1. f \in [0 .. 0 -> S] /\ Steps(f, base, step, 0)
    BY DEF Steps
  <2> QED
    BY <2>1
<1>2. ASSUME NEW m \in 1 .. n, m - 1 \in T
      PROVE  m \in T
  <2>1. m - 1 \in 0 .. n /\ m \in 0 .. n /\ m \in Nat /\ m # 0
    OBVIOUS
  <2>2. Defined(m - 1)
    BY <1>2
  <2>3. PICK f \in [0 .. m - 1 -> S] : Steps(f, base, step, m - 1)
    BY <2>2
  <2> HIDE DEF Defined, T
  <2> DEFINE g == [k \in 0 .. m |-> IF k = m THEN step[<<m, f[m - 1]>>] ELSE f[k]]
  <2>4. m - 1 \in 0 .. m - 1 /\ f[m - 1] \in S
    BY <2>1
  <2>5. step[<<m, f[m - 1]>>] \in S
    BY <2>1, <2>4
  <2>6. \A k \in 0 .. m : k # m => k \in 0 .. m - 1
    BY <2>1
  <2>7. g \in [0 .. m -> S]
    BY <2>5, <2>6
  <2>8. g[0] = base
    BY <2>1, <2>3 DEF Steps
  <2>9. ASSUME NEW k \in 1 .. m
        PROVE  g[k] = step[<<k, g[k - 1]>>]
    <3>1. k - 1 \in 0 .. m /\ k - 1 # m /\ g[k - 1] = f[k - 1]
      BY <2>1
    <3>2. CASE k = m
      BY <3>1, <3>2
    <3>3. CASE k # m
      <4>1. k \in 1 .. m - 1 /\ g[k] = f[k]
        BY <2>1, <3>3
      <4> QED
        BY <2>3, <3>1, <4>1 DEF Steps
    <3> QED
      BY <3>2, <3>3
  <2>10. Steps(g, base, step, m)
    <3> HIDE DEF g
    <3> QED
      BY <2>8, <2>9 DEF Steps
  <2>11. Defined(m)
    <3> HIDE DEF g
    <3> QED
      BY <2>7, <2>10 DEF Defined
  <2> QED
    BY <2>1, <2>11 DEF T
<1>3. 0 .. n \subseteq T
  <2> HIDE DEF T
  <2> QED
    BY <1>1, <1>2, Induction
<1>4. n \in 0 .. n
  OBVIOUS
<1>5. n \in T
  <2> HIDE DEF T
  <2> QED
    BY <1>3, <1>4
<1> QED
  BY <1>5

-----------------------------------------------------------------------------
(* One walk.                                                               *)

Searches(g) == [visited : SUBSET Ids(g), cyclic : BOOLEAN]

Entered(visited) == [visited |-> visited, cyclic |-> FALSE]

\* What a walk has found after each task.
Trace(g, Dfs, ids, path, visited, f) ==
  /\ f[0] = Entered(visited)
  /\ \A k \in 1 .. Len(g) : f[k] = Visit(g, Dfs, ids, path, k, f[k - 1])
  /\ Walk(g, Dfs, ids, path, visited) = f[Len(g)]

\* A walk is well defined, whatever the search of a task answers.
LEMMA WalkIs ==
  ASSUME NEW g, Len(g) \in Nat, NEW Dfs, NEW ids, NEW path, NEW visited
  PROVE  \E f : Trace(g, Dfs, ids, path, visited, f)
<1> DEFINE n == Len(g)
           Turn(k, seen) == Visit(g, Dfs, ids, path, k, seen)
           Upto(m, f) ==
             f = [k \in 0 .. m |-> IF k = 0 THEN Entered(visited) ELSE Turn(k, f[k - 1])]
           T == {m \in 0 .. n : \E f : Upto(m, f)}
           After[k \in 0 .. n] ==
             IF k = 0 THEN [visited |-> visited, cyclic |-> FALSE]
             ELSE Visit(g, Dfs, ids, path, k, After[k - 1])
<1>1. 0 \in T
  <2> DEFINE f == [k \in 0 .. 0 |-> Entered(visited)]
  <2>1. Upto(0, f)
    <3> HIDE DEF Turn
    <3> QED OBVIOUS
  <2> HIDE DEF Upto
  <2> QED BY <2>1
<1>2. ASSUME NEW m \in 1 .. n, m - 1 \in T
      PROVE  m \in T
  <2>1. m - 1 \in 0 .. n /\ m \in 0 .. n /\ m \in Nat /\ m # 0
    OBVIOUS
  <2> HIDE DEF Turn
  <2>2. PICK f : f = [k \in 0 .. m - 1 |->
                        IF k = 0 THEN Entered(visited) ELSE Turn(k, f[k - 1])]
    BY <1>2
  <2> DEFINE h == [k \in 0 .. m |-> IF k = 0 THEN Entered(visited) ELSE Turn(k, f[k - 1])]
  <2>3. \A k \in 0 .. m : k # m => k \in 0 .. m - 1
    BY <2>1
  <2>4. \A k \in 0 .. m - 1 : h[k] = f[k]
    <3>1. \A k \in 0 .. m - 1 : k \in 0 .. m
      BY <2>1
    <3>2. \A k \in 0 .. m - 1 : f[k] = IF k = 0 THEN Entered(visited) ELSE Turn(k, f[k - 1])
      BY <2>2, Zenon
    <3> QED BY <3>1, <3>2
  <2>5. \A k \in 0 .. m : k # 0 => k - 1 \in 0 .. m - 1
    BY <2>1
  <2>6. h = [k \in 0 .. m |-> IF k = 0 THEN Entered(visited) ELSE Turn(k, h[k - 1])]
    <3>1. \A k \in 0 .. m : k # 0 => h[k - 1] = f[k - 1]
      BY <2>4, <2>5
    <3>2. \A k \in 0 .. m : (IF k = 0 THEN Entered(visited) ELSE Turn(k, f[k - 1])) =
                              IF k = 0 THEN Entered(visited) ELSE Turn(k, h[k - 1])
      <4> HIDE DEF h
      <4> QED BY <3>1, Zenon
    <3> DEFINE a == [k \in 0 .. m |-> IF k = 0 THEN Entered(visited) ELSE Turn(k, h[k - 1])]
    <3>3. h = a
      BY <3>2, Zenon
    <3> QED BY <3>3
  <2>7. Upto(m, h)
    BY <2>6
  <2> HIDE DEF Upto, h
  <2> QED BY <2>1, <2>7
<1>3. n \in T
  <2>1. 0 .. n \subseteq T
    <3> HIDE DEF T
    <3> QED BY <1>1, <1>2, Induction
  <2> QED BY <2>1
<1>4. PICK f : Upto(n, f)
  BY <1>3
<1>5. Upto(n, After)
  <2>1. f = [k \in 0 .. n |->
               IF k = 0 THEN [visited |-> visited, cyclic |-> FALSE]
               ELSE Visit(g, Dfs, ids, path, k, f[k - 1])]
    BY <1>4 DEF Entered
  <2>2. After = [k \in 0 .. n |->
                   IF k = 0 THEN [visited |-> visited, cyclic |-> FALSE]
                   ELSE Visit(g, Dfs, ids, path, k, After[k - 1])]
    BY <2>1, Zenon
  <2> HIDE DEF After
  <2> QED BY <2>2 DEF Entered
<1>6. Walk(g, Dfs, ids, path, visited) = After[n]
  BY DEF Walk
<1> HIDE DEF After
<1>7. Trace(g, Dfs, ids, path, visited, After)
  <2>1. 0 \in 0 .. n /\ n \in Nat /\ \A k \in 1 .. n : k \in 0 .. n /\ k # 0
    OBVIOUS
  <2> HIDE DEF n
  <2>2. After[0] = Entered(visited)
    BY <1>5, <2>1
  <2>3. \A k \in 1 .. n : After[k] = Visit(g, Dfs, ids, path, k, After[k - 1])
    <3> HIDE DEF Turn
    <3>1. \A k \in 1 .. n : After[k] = Turn(k, After[k - 1])
      BY <1>5, <2>1
    <3> QED BY <3>1 DEF Turn
  <2> QED BY <1>6, <2>2, <2>3 DEF Trace, n
<1> QED BY <1>7

\* The answers a search may give: it visits its task, and forgets none.
Answers(g) ==
  {Dfs \in [Calls(g) -> Searches(g)] :
     \A call \in Calls(g) : call.visited \cup {call.node} \subseteq Dfs[call].visited}

\* Whatever a walk has visited stays visited.
LEMMA TraceTypes ==
  ASSUME NEW g, Len(g) \in Nat, DOMAIN g = 1 .. Len(g),
         NEW Dfs \in Answers(g), NEW ids, NEW path \in SUBSET Ids(g),
         NEW visited \in SUBSET Ids(g), NEW f, Trace(g, Dfs, ids, path, visited, f)
  PROVE  \A k \in 0 .. Len(g) : f[k] \in Searches(g) /\ visited \subseteq f[k].visited
<1> DEFINE n == Len(g)
           T == {k \in 0 .. n : f[k] \in Searches(g) /\ visited \subseteq f[k].visited}
<1>1. 0 \in T
  <2>1. [visited |-> visited, cyclic |-> FALSE] \in Searches(g)
    BY DEF Searches
  <2>2. f[0] = [visited |-> visited, cyclic |-> FALSE]
    BY DEF Trace, Entered
  <2>3. f[0] \in Searches(g) /\ visited \subseteq f[0].visited
    BY <2>1, <2>2
  <2> QED BY <2>3
<1>2. ASSUME NEW k \in 1 .. n, k - 1 \in T
      PROVE  k \in T
  <2>1. f[k - 1] \in Searches(g) /\ visited \subseteq f[k - 1].visited
    BY <1>2
  <2>2. f[k] = Visit(g, Dfs, ids, path, k, f[k - 1])
    BY DEF Trace
  <2> PICK call : call = [node |-> g[k].id, visited |-> f[k - 1].visited, path |-> path]
    OBVIOUS
  <2>3. call \in Calls(g)
    BY <2>1 DEF Calls, Searches, Ids
  <2>4. Dfs[call] \in Searches(g) /\ f[k - 1].visited \subseteq Dfs[call].visited
    BY <2>3 DEF Answers
  <2>5. \/ f[k] = f[k - 1]
        \/ f[k] = [f[k - 1] EXCEPT !.cyclic = g[k].id \in path]
        \/ f[k] = Dfs[call]
    BY <2>2, Zenon DEF Visit
  <2>6. ASSUME NEW seen \in Searches(g)
        PROVE  /\ [seen EXCEPT !.cyclic = g[k].id \in path] \in Searches(g)
               /\ [seen EXCEPT !.cyclic = g[k].id \in path].visited = seen.visited
    <3>1. (g[k].id \in path) \in BOOLEAN
      OBVIOUS
    <3> PICK b \in BOOLEAN : b = (g[k].id \in path)
      BY <3>1
    <3>2. /\ [seen EXCEPT !.cyclic = b] \in Searches(g)
          /\ [seen EXCEPT !.cyclic = b].visited = seen.visited
      BY DEF Searches
    <3> QED BY <3>2, Zenon
  <2>7. f[k] \in Searches(g) /\ visited \subseteq f[k].visited
    BY <2>1, <2>4, <2>5, <2>6
  <2> QED BY <2>7
<1>3. 0 .. n \subseteq T
  <2> HIDE DEF T
  <2> QED BY <1>1, <1>2, Induction
<1> QED BY <1>3

\* What a search does, if the searches it asks for answer like Dfs.
Body(g, Dfs) ==
  [call \in Calls(g) |->
     Walk(g, Dfs, DependsOn(g, call.node),
          call.path \cup {call.node}, call.visited \cup {call.node})]

LEMMA BodyAnswers ==
  ASSUME NEW g, Len(g) \in Nat, DOMAIN g = 1 .. Len(g), NEW Dfs \in Answers(g)
  PROVE  Body(g, Dfs) \in Answers(g)
<1>1. ASSUME NEW call \in Calls(g)
      PROVE  /\ Body(g, Dfs)[call] \in Searches(g)
             /\ call.visited \cup {call.node} \subseteq Body(g, Dfs)[call].visited
  <2> DEFINE ids == DependsOn(g, call.node)
             path == call.path \cup {call.node}
             visited == call.visited \cup {call.node}
  <2>1. path \in SUBSET Ids(g) /\ visited \in SUBSET Ids(g)
    BY DEF Calls
  <2>2. PICK f : Trace(g, Dfs, ids, path, visited, f)
    BY WalkIs
  <2>3. Walk(g, Dfs, ids, path, visited) = f[Len(g)] /\ Len(g) \in 0 .. Len(g)
    BY <2>2 DEF Trace
  <2>4. f[Len(g)] \in Searches(g) /\ visited \subseteq f[Len(g)].visited
    <3> HIDE DEF ids, path, visited
    <3> QED BY <2>1, <2>2, <2>3, TraceTypes
  <2> QED BY <2>3, <2>4 DEF Body
<1>2. Body(g, Dfs) \in [Calls(g) -> Searches(g)]
  <2>1. Body(g, Dfs) = [call \in Calls(g) |-> Body(g, Dfs)[call]]
    BY DEF Body
  <2> QED BY <1>1, <2>1
<1> QED BY <1>1, <1>2 DEF Answers

\* A walk asks only for the searches of tasks it has not visited.
LEMMA SameWalk ==
  ASSUME NEW g, Len(g) \in Nat, DOMAIN g = 1 .. Len(g),
         NEW Dfs \in Answers(g), NEW Other, NEW ids, NEW path \in SUBSET Ids(g),
         NEW visited \in SUBSET Ids(g),
         \A call \in Calls(g) :
           visited \subseteq call.visited /\ call.node \notin call.visited
             => Dfs[call] = Other[call]
  PROVE  Walk(g, Dfs, ids, path, visited) = Walk(g, Other, ids, path, visited)
<1>1. PICK f : Trace(g, Dfs, ids, path, visited, f)
  BY WalkIs
<1>2. PICK h : Trace(g, Other, ids, path, visited, h)
  BY WalkIs
<1>3. \A k \in 0 .. Len(g) : f[k] \in Searches(g) /\ visited \subseteq f[k].visited
  BY <1>1, TraceTypes
<1> DEFINE T == {k \in 0 .. Len(g) : f[k] = h[k]}
<1>4. 0 \in T
  BY <1>1, <1>2 DEF Trace
<1>5. ASSUME NEW k \in 1 .. Len(g), k - 1 \in T
      PROVE  k \in T
  <2>1. k - 1 \in 0 .. Len(g) /\ k \in 0 .. Len(g) /\ f[k - 1] = h[k - 1]
    BY <1>5
  <2>2. f[k - 1] \in Searches(g) /\ visited \subseteq f[k - 1].visited
    BY <1>3, <2>1
  <2> PICK call : call = [node |-> g[k].id, visited |-> f[k - 1].visited, path |-> path]
    OBVIOUS
  <2>3. call \in Calls(g)
    BY <2>2 DEF Calls, Searches, Ids
  <2>4. g[k].id \notin f[k - 1].visited => Dfs[call] = Other[call]
    BY <2>2, <2>3
  <2>5. Visit(g, Dfs, ids, path, k, f[k - 1]) = Visit(g, Other, ids, path, k, f[k - 1])
    BY <2>4, Zenon DEF Visit
  <2>6. f[k] = h[k]
    BY <1>1, <1>2, <2>1, <2>5 DEF Trace
  <2> QED BY <2>1, <2>6
<1>6. 0 .. Len(g) \subseteq T
  <2> HIDE DEF T
  <2> QED BY <1>4, <1>5, Induction
<1> QED BY <1>1, <1>2, <1>6 DEF Trace

-----------------------------------------------------------------------------
(* The search terminates.                                                  *)

LEMMA IdsAreFinite ==
  ASSUME NEW g, Len(g) \in Nat, DOMAIN g = 1 .. Len(g)
  PROVE  IsFiniteSet(Ids(g))
<1> DEFINE f == [k \in 1 .. Len(g) |-> g[k].id]
<1>1. f \in Surjection(1 .. Len(g), Ids(g))
  <2>1. f \in [1 .. Len(g) -> Ids(g)]
    BY DEF Ids
  <2>2. \A i \in Ids(g) : \E k \in 1 .. Len(g) : f[k] = i
    BY DEF Ids
  <2> QED BY <2>1, <2>2 DEF Surjection
<1>2. IsFiniteSet(1 .. Len(g))
  BY FS_Interval
<1> QED BY <1>1, <1>2, FS_Surjection

\* How many tasks a search has not visited when it begins its walk.
Left(g, call) == Cardinality(Ids(g) \ (call.visited \cup {call.node}))

LEMMA LeftIsBounded ==
  ASSUME NEW g, Len(g) \in Nat, DOMAIN g = 1 .. Len(g), NEW call \in Calls(g)
  PROVE  /\ Cardinality(Ids(g)) \in Nat
         /\ Left(g, call) \in Nat
         /\ Left(g, call) < Cardinality(Ids(g)) + 1
<1>1. IsFiniteSet(Ids(g))
  BY IdsAreFinite
<1>2. Ids(g) \ (call.visited \cup {call.node}) \in SUBSET Ids(g)
  OBVIOUS
<1>3. /\ IsFiniteSet(Ids(g) \ (call.visited \cup {call.node}))
      /\ Left(g, call) <= Cardinality(Ids(g))
  BY <1>1, <1>2, FS_Subset DEF Left
<1>4. Left(g, call) \in Nat /\ Cardinality(Ids(g)) \in Nat
  BY <1>1, <1>3, FS_CardinalityType DEF Left
<1> QED BY <1>3, <1>4

\* The searches a search asks for have less left to visit.
LEMMA LeftDecreases ==
  ASSUME NEW g, Len(g) \in Nat, DOMAIN g = 1 .. Len(g),
         NEW call \in Calls(g), NEW next \in Calls(g),
         call.visited \cup {call.node} \subseteq next.visited,
         next.node \notin next.visited
  PROVE  Left(g, next) < Left(g, call)
<1> DEFINE S == Ids(g) \ (call.visited \cup {call.node})
           T == Ids(g) \ (next.visited \cup {next.node})
<1>1. IsFiniteSet(S)
  <2>1. S \in SUBSET Ids(g)
    OBVIOUS
  <2> QED BY <2>1, IdsAreFinite, FS_Subset
<1>2. next.node \in S /\ T \in SUBSET (S \ {next.node})
  BY DEF Calls
<1>3. Left(g, call) \in Nat /\ Left(g, next) \in Nat
  BY LeftIsBounded
<1> HIDE DEF S, T
<1>4. IsFiniteSet(S \ {next.node}) /\ Cardinality(S \ {next.node}) = Cardinality(S) - 1
  BY <1>1, <1>2, FS_RemoveElement
<1>5. Cardinality(T) <= Cardinality(S \ {next.node})
  BY <1>2, <1>4, FS_Subset
<1>6. Left(g, call) = Cardinality(S) /\ Left(g, next) = Cardinality(T)
  BY DEF Left, S, T
<1> QED BY <1>3, <1>4, <1>5, <1>6

\* Two searches answer the same where little is left to visit.
Agree(g, Dfs, Other, m) ==
  \A call \in Calls(g) : Left(g, call) < m => Dfs[call] = Other[call]

LEMMA AgreeFurther ==
  ASSUME NEW g, Len(g) \in Nat, DOMAIN g = 1 .. Len(g),
         NEW Dfs \in Answers(g), NEW Other, NEW m \in Nat, Agree(g, Dfs, Other, m)
  PROVE  Agree(g, Body(g, Dfs), Body(g, Other), m + 1)
<1> SUFFICES ASSUME NEW call \in Calls(g), Left(g, call) < m + 1
             PROVE  Body(g, Dfs)[call] = Body(g, Other)[call]
  BY DEF Agree
<1> DEFINE path == call.path \cup {call.node}
           visited == call.visited \cup {call.node}
<1>1. path \in SUBSET Ids(g) /\ visited \in SUBSET Ids(g)
  BY DEF Calls
<1>2. ASSUME NEW next \in Calls(g), visited \subseteq next.visited,
             next.node \notin next.visited
      PROVE  Dfs[next] = Other[next]
  <2>1. Left(g, next) < Left(g, call)
    BY <1>2, LeftDecreases
  <2>2. Left(g, next) \in Nat /\ Left(g, call) \in Nat
    BY LeftIsBounded
  <2>3. Left(g, next) < m
    BY <2>1, <2>2
  <2> QED BY <2>3 DEF Agree
<1>3. Walk(g, Dfs, DependsOn(g, call.node), path, visited) =
        Walk(g, Other, DependsOn(g, call.node), path, visited)
  <2> HIDE DEF path, visited
  <2> QED BY <1>1, <1>2, SameWalk
<1> QED BY <1>3 DEF Body

\* Hence there is a function that searches as its definition says ...
LEMMA SearchExists ==
  ASSUME NEW g, Len(g) \in Nat, DOMAIN g = 1 .. Len(g)
  PROVE  \E Dfs \in Answers(g) : Dfs = Body(g, Dfs)
<1> DEFINE n == Cardinality(Ids(g)) + 2
           S == Answers(g)
           base == [call \in Calls(g) |->
                      [visited |-> call.visited \cup {call.node}, cyclic |-> FALSE]]
           step == [p \in (1 .. n) \X S |-> Body(g, p[2])]
<1>1. n \in Nat /\ n - 1 \in Nat /\ n \in 1 .. n /\ n - 1 \in 1 .. n /\ n - 1 - 1 \in 0 .. n
        /\ n - 1 \in 0 .. n
  BY IdsAreFinite, FS_CardinalityType
<1>2. base \in S
  <2>1. \A call \in Calls(g) : base[call] \in Searches(g)
          /\ call.visited \cup {call.node} \subseteq base[call].visited
    BY DEF Calls, Searches
  <2>2. base \in [Calls(g) -> Searches(g)]
    BY <2>1
  <2> QED BY <2>1, <2>2 DEF Answers
<1>3. step \in [(1 .. n) \X S -> S]
  <2>1. \A p \in (1 .. n) \X S : Body(g, p[2]) \in S
    BY BodyAnswers
  <2> QED BY <2>1
<1>4. PICK f \in [0 .. n -> S] : Steps(f, base, step, n)
  <2> HIDE DEF n, S, step, base
  <2> QED BY <1>1, <1>2, <1>3, Recursion
<1>5. \A k \in 1 .. n : f[k] = Body(g, f[k - 1]) /\ f[k - 1] \in S /\ f[k] \in S
  <2>1. \A k \in 1 .. n : k - 1 \in 0 .. n /\ k \in 0 .. n
    BY <1>1
  <2>2. \A k \in 1 .. n : f[k - 1] \in S /\ f[k] \in S
    <3> HIDE DEF n, S
    <3> QED BY <2>1
  <2>3. \A k \in 1 .. n : step[<<k, f[k - 1]>>] = Body(g, f[k - 1])
    <3> HIDE DEF n, S
    <3> QED BY <2>2
  <2> HIDE DEF n, S, step
  <2> QED BY <1>4, <2>2, <2>3 DEF Steps
<1> HIDE DEF n, S, step, base
<1> DEFINE T == {m \in 0 .. n - 1 : Agree(g, f[m], f[m + 1], m)}
<1>6. 0 \in T
  <2>1. Agree(g, f[0], f[0 + 1], 0)
    <3>1. \A call \in Calls(g) : ~(Left(g, call) < 0)
      BY LeftIsBounded
    <3> QED BY <3>1 DEF Agree
  <2> QED BY <1>1, <2>1
<1>7. ASSUME NEW m \in 1 .. n - 1, m - 1 \in T
      PROVE  m \in T
  <2>1. /\ m \in 1 .. n /\ m + 1 \in 1 .. n /\ m - 1 \in Nat /\ m - 1 + 1 = m /\ m + 1 - 1 = m
        /\ m \in 0 .. n - 1
    BY <1>1
  <2>2. Agree(g, f[m - 1], f[m], m - 1)
    BY <1>7, <2>1
  <2>3. f[m] = Body(g, f[m - 1]) /\ f[m - 1] \in S
    BY <1>5, <2>1
  <2>4. f[m + 1] = Body(g, f[m])
    BY <1>5, <2>1
  <2>5. Agree(g, Body(g, f[m - 1]), Body(g, f[m]), m - 1 + 1)
    BY <2>1, <2>2, <2>3, AgreeFurther DEF S
  <2>6. Agree(g, f[m], f[m + 1], m)
    BY <2>1, <2>3, <2>4, <2>5
  <2> QED BY <2>1, <2>6
<1>8. 0 .. n - 1 \subseteq T
  <2> HIDE DEF T
  <2> QED BY <1>1, <1>6, <1>7, Induction
<1>9. Agree(g, f[n - 1], f[n], n - 1)
  BY <1>1, <1>8
<1>10. /\ f[n] = Body(g, f[n - 1]) /\ f[n - 1] \in S /\ f[n] \in S
  BY <1>1, <1>5
<1>11. \A call \in Calls(g) : f[n - 1][call] = f[n][call]
  BY <1>9, LeftIsBounded DEF Agree, n
<1>12. f[n - 1] = f[n]
  BY <1>10, <1>11 DEF S, Answers
<1> QED BY <1>10, <1>12 DEF S

\* ... and only one.
LEMMA SearchIsUnique ==
  ASSUME NEW g, Len(g) \in Nat, DOMAIN g = 1 .. Len(g),
         NEW Dfs \in Answers(g), Dfs = Body(g, Dfs), NEW Other, Other = Body(g, Other)
  PROVE  Other = Dfs
<1> DEFINE n == Cardinality(Ids(g)) + 1
           T == {m \in 0 .. n : Agree(g, Dfs, Other, m)}
<1>1. n \in Nat
  BY IdsAreFinite, FS_CardinalityType
<1>2. 0 \in T
  <2>1. \A call \in Calls(g) : ~(Left(g, call) < 0)
    BY LeftIsBounded
  <2> QED BY <1>1, <2>1 DEF Agree
<1>3. ASSUME NEW m \in 1 .. n, m - 1 \in T
      PROVE  m \in T
  <2>1. m - 1 \in Nat /\ m - 1 + 1 = m /\ m \in 0 .. n
    BY <1>1
  <2>2. Agree(g, Dfs, Other, m - 1)
    BY <1>3
  <2>3. Agree(g, Body(g, Dfs), Body(g, Other), m - 1 + 1)
    BY <2>1, <2>2, AgreeFurther
  <2>4. Agree(g, Dfs, Other, m)
    BY <2>1, <2>3
  <2> QED BY <2>1, <2>4
<1>4. 0 .. n \subseteq T
  <2> HIDE DEF T
  <2> QED BY <1>1, <1>2, <1>3, Induction
<1>5. Agree(g, Dfs, Other, n)
  BY <1>1, <1>4
<1>6. \A call \in Calls(g) : Dfs[call] = Other[call]
  BY <1>5, LeftIsBounded DEF Agree
<1>7. Other = [call \in Calls(g) |-> Other[call]]
  BY DEF Body
<1>8. Dfs = [call \in Calls(g) |-> Dfs[call]]
  BY DEF Body
<1> QED BY <1>6, <1>7, <1>8

LEMMA HasCycleIs ==
  ASSUME NEW g, Len(g) \in Nat, DOMAIN g = 1 .. Len(g)
  PROVE  \E Dfs \in Answers(g) :
           /\ Dfs = Body(g, Dfs)
           /\ HasCycle(g) = Walk(g, Dfs, Ids(g), {}, {}).cyclic
<1> DEFINE Dfs[call \in Calls(g)] ==
             Walk(g, Dfs, DependsOn(g, call.node),
                  call.path \cup {call.node}, call.visited \cup {call.node})
<1>1. PICK D \in Answers(g) : D = Body(g, D)
  BY SearchExists
<1>2. D = [call \in Calls(g) |->
             Walk(g, D, DependsOn(g, call.node),
                  call.path \cup {call.node}, call.visited \cup {call.node})]
  BY <1>1 DEF Body
<1>3. Dfs = [call \in Calls(g) |->
               Walk(g, Dfs, DependsOn(g, call.node),
                    call.path \cup {call.node}, call.visited \cup {call.node})]
  BY <1>2, Zenon
<1>4. HasCycle(g) = Walk(g, Dfs, Ids(g), {}, {}).cyclic
  BY DEF HasCycle
<1> HIDE DEF Dfs
<1>5. Dfs = Body(g, Dfs)
  BY <1>3 DEF Body
<1>6. Dfs = D
  BY <1>1, <1>5, SearchIsUnique
<1> QED BY <1>1, <1>4, <1>6

-----------------------------------------------------------------------------
(* The search is right.                                                    *)

\* Tasks that wait for each other only, and not in a circle.
Sound(g, B) ==
  /\ B \subseteq Ids(g)
  /\ \A id \in B : DependsOn(g, id) \cap Ids(g) \subseteq B
  /\ \A S \in SUBSET B : S # {} => \E id \in S : DependsOn(g, id) \cap S = {}

\* Each task of a path waits for one that is on it, or is the next one.
Leads(g, path, id) == \A p \in path : DependsOn(g, p) \cap (path \cup {id}) # {}

\* What the search of a task tells: a cycle if it says so, and otherwise that
\* what was visited, and is not on the path, is sound.
Right(g, Dfs, call) ==
  (call.path \subseteq call.visited /\ call.node \notin call.visited) =>
    /\ (~Dfs[call].cyclic /\ Sound(g, call.visited \ call.path))
         => Sound(g, Dfs[call].visited \ call.path)
    /\ (Dfs[call].cyclic /\ Leads(g, call.path, call.node)) => ~Runnable(g)

\* A task that waits for sound ones only can be added to them.
LEMMA SoundGrows ==
  ASSUME NEW g, NEW B, Sound(g, B), NEW id \in Ids(g) \ B,
         DependsOn(g, id) \cap Ids(g) \subseteq B
  PROVE  Sound(g, B \cup {id})
<1>1. ASSUME NEW S \in SUBSET (B \cup {id}), S # {}
      PROVE  \E j \in S : DependsOn(g, j) \cap S = {}
  <2>1. S \subseteq Ids(g)
    BY DEF Sound
  <2>2. CASE S \cap B = {}
    <3>1. S = {id}
      BY <1>1, <2>2
    <3> QED BY <2>1, <3>1
  <2>3. CASE S \cap B # {}
    <3>1. PICK j \in S \cap B : DependsOn(g, j) \cap (S \cap B) = {}
      BY <2>3 DEF Sound
    <3>2. DependsOn(g, j) \cap Ids(g) \subseteq B
      BY DEF Sound
    <3> QED BY <2>1, <3>1, <3>2
  <2> QED BY <2>2, <2>3
<1>2. \A j \in B \cup {id} : DependsOn(g, j) \cap Ids(g) \subseteq B \cup {id}
  BY DEF Sound
<1> QED BY <1>1, <1>2 DEF Sound

\* The same of a walk over some tasks.
WalkTells(g, ids, path, visited, found) ==
  /\ found \in Searches(g) /\ visited \subseteq found.visited
  /\ (~found.cyclic /\ Sound(g, visited \ path)) =>
       /\ Sound(g, found.visited \ path)
       /\ ids \cap Ids(g) \subseteq found.visited \ path
  /\ (found.cyclic /\ \A id \in ids : Leads(g, path, id)) => ~Runnable(g)

\* A walk tells the truth if the searches it asks for do.
LEMMA WalkIsRight ==
  ASSUME NEW g, Len(g) \in Nat, DOMAIN g = 1 .. Len(g),
         NEW Dfs \in Answers(g), NEW ids, NEW path \in SUBSET Ids(g),
         NEW visited \in SUBSET Ids(g), path \subseteq visited,
         \A call \in Calls(g) :
           visited \subseteq call.visited /\ call.node \notin call.visited
             => Right(g, Dfs, call)
  PROVE  WalkTells(g, ids, path, visited, Walk(g, Dfs, ids, path, visited))
<1>1. PICK f : Trace(g, Dfs, ids, path, visited, f)
  BY WalkIs
<1>2. \A k \in 0 .. Len(g) : f[k] \in Searches(g) /\ visited \subseteq f[k].visited
  BY <1>1, TraceTypes
<1> DEFINE Passed(k) == {g[j].id : j \in 1 .. k} \cap ids
           Clear(k) ==
             (~f[k].cyclic /\ Sound(g, visited \ path)) =>
               Sound(g, f[k].visited \ path) /\ Passed(k) \subseteq f[k].visited \ path
           Cycle(k) == (f[k].cyclic /\ \A id \in ids : Leads(g, path, id)) => ~Runnable(g)
           T == {k \in 0 .. Len(g) : Clear(k) /\ Cycle(k)}
<1>3. 0 \in T
  <2>1. f[0] = [visited |-> visited, cyclic |-> FALSE]
    BY <1>1 DEF Trace, Entered
  <2>2. Passed(0) = {}
    OBVIOUS
  <2> HIDE DEF Passed
  <2>3. Clear(0) /\ Cycle(0) /\ 0 \in 0 .. Len(g)
    BY <2>1, <2>2
  <2> HIDE DEF Clear, Cycle
  <2> QED BY <2>3
<1>4. ASSUME NEW k \in 1 .. Len(g), k - 1 \in T
      PROVE  k \in T
  <2> DEFINE id == g[k].id
             seen == f[k - 1]
  <2>1. Clear(k - 1) /\ Cycle(k - 1) /\ k \in 0 .. Len(g) /\ k - 1 \in 0 .. Len(g)
    BY <1>4
  <2>2. seen \in Searches(g) /\ visited \subseteq seen.visited /\ id \in Ids(g)
    BY <1>2, <2>1 DEF Ids
  <2>3. f[k] = Visit(g, Dfs, ids, path, k, seen)
    BY <1>1 DEF Trace
  <2>4. Passed(k) = Passed(k - 1) \cup ({id} \cap ids)
    <3>1. 1 .. k = (1 .. k - 1) \cup {k}
      OBVIOUS
    <3> QED BY <3>1
  <2> HIDE DEF Passed
  <2>5. CASE seen.cyclic \/ id \notin ids
    <3>1. f[k] = seen
      BY <2>3, <2>5, Zenon DEF Visit
    <3> QED BY <2>1, <2>4, <2>5, <3>1
  <2>6. CASE ~seen.cyclic /\ id \in ids /\ id \in seen.visited
    <3>1. f[k] = [seen EXCEPT !.cyclic = id \in path]
      BY <2>3, <2>6, Zenon DEF Visit
    <3>2. f[k].visited = seen.visited /\ (f[k].cyclic <=> id \in path)
      <4>1. PICK b \in BOOLEAN : b <=> id \in path
        OBVIOUS
      <4>2. b = (id \in path)
        BY <4>1
      <4>3. [seen EXCEPT !.cyclic = b].visited = seen.visited
              /\ [seen EXCEPT !.cyclic = b].cyclic = b
        BY <2>2 DEF Searches
      <4>4. f[k] = [seen EXCEPT !.cyclic = b]
        BY <3>1, <4>2, Zenon
      <4> QED BY <4>1, <4>3, <4>4
    <3>3. Clear(k)
      BY <2>1, <2>4, <2>6, <3>2
    <3>4. ASSUME id \in path, Leads(g, path, id)
          PROVE  ~Runnable(g)
      BY <3>4 DEF Leads, Runnable
    <3>5. Cycle(k)
      BY <2>6, <3>2, <3>4
    <3> QED BY <2>1, <3>3, <3>5
  <2>7. CASE ~seen.cyclic /\ id \in ids /\ id \notin seen.visited
    <3> PICK call : call = [node |-> id, visited |-> seen.visited, path |-> path]
      OBVIOUS
    <3>1. call \in Calls(g)
      BY <2>2 DEF Calls, Searches
    <3>2. f[k] = Dfs[call]
      BY <2>3, <2>7, Zenon DEF Visit
    <3>3. seen.visited \cup {id} \subseteq f[k].visited
      BY <3>1, <3>2 DEF Answers
    <3>4. Right(g, Dfs, call)
      BY <2>2, <2>7, <3>1
    <3>5. Clear(k)
      BY <2>1, <2>2, <2>4, <2>7, <3>2, <3>3, <3>4 DEF Right
    <3>6. Cycle(k)
      BY <2>2, <2>7, <3>2, <3>4 DEF Right
    <3> QED BY <2>1, <3>5, <3>6
  <2> QED BY <2>5, <2>6, <2>7
<1>5. 0 .. Len(g) \subseteq T
  <2> HIDE DEF T
  <2> QED BY <1>3, <1>4, Induction
<1>6. Clear(Len(g)) /\ Cycle(Len(g)) /\ Len(g) \in 0 .. Len(g)
  <2>1. Len(g) \in 0 .. Len(g)
    OBVIOUS
  <2> HIDE DEF Clear, Cycle
  <2> QED BY <1>5, <2>1
<1>7. Passed(Len(g)) = ids \cap Ids(g)
  BY DEF Ids
<1>8. Walk(g, Dfs, ids, path, visited) = f[Len(g)]
  BY <1>1 DEF Trace
<1> HIDE DEF Passed
<1> QED BY <1>2, <1>6, <1>7, <1>8 DEF WalkTells

LEMMA SearchIsRight ==
  ASSUME NEW g, Len(g) \in Nat, DOMAIN g = 1 .. Len(g),
         NEW Dfs \in Answers(g), Dfs = Body(g, Dfs)
  PROVE  \A call \in Calls(g) : Right(g, Dfs, call)
<1> DEFINE n == Cardinality(Ids(g)) + 1
           T == {m \in 0 .. n :
                   \A call \in Calls(g) : Left(g, call) < m => Right(g, Dfs, call)}
<1>1. n \in Nat
  BY IdsAreFinite, FS_CardinalityType
<1>2. 0 \in T
  <2>1. \A call \in Calls(g) : ~(Left(g, call) < 0)
    BY LeftIsBounded
  <2> QED BY <1>1, <2>1
<1>3. ASSUME NEW m \in 1 .. n, m - 1 \in T
      PROVE  m \in T
  <2> SUFFICES ASSUME NEW call \in Calls(g), Left(g, call) < m
               PROVE  Right(g, Dfs, call)
    <3>1. m \in 0 .. n
      BY <1>1
    <3> QED BY <3>1
  <2>1. SUFFICES ASSUME call.path \subseteq call.visited, call.node \notin call.visited
                 PROVE  Right(g, Dfs, call)
    BY DEF Right
  <2> DEFINE ids == DependsOn(g, call.node)
             path == call.path \cup {call.node}
             visited == call.visited \cup {call.node}
  <2> PICK found : found = Walk(g, Dfs, ids, path, visited)
    OBVIOUS
  <2>2. /\ path \in SUBSET Ids(g) /\ visited \in SUBSET Ids(g) /\ path \subseteq visited
        /\ call.node \in Ids(g)
    BY <2>1 DEF Calls
  <2>3. ASSUME NEW next \in Calls(g), visited \subseteq next.visited,
               next.node \notin next.visited
        PROVE  Right(g, Dfs, next)
    <3>1. Left(g, next) < Left(g, call)
      BY <2>3, LeftDecreases
    <3>2. Left(g, next) \in Nat /\ Left(g, call) \in Nat /\ m - 1 \in Nat
      BY LeftIsBounded
    <3>3. Left(g, next) < m - 1
      BY <2>1, <3>1, <3>2
    <3> QED BY <1>3, <3>3
  <2>4. Dfs[call] = found
    <3>1. Body(g, Dfs)[call] = found
      BY DEF Body
    <3> QED BY <3>1
  <2>5. WalkTells(g, ids, path, visited, found)
    <3>1. WalkTells(g, ids, path, visited, Walk(g, Dfs, ids, path, visited))
      <4> HIDE DEF ids, path, visited
      <4> QED BY <2>2, <2>3, WalkIsRight
    <3> QED BY <3>1
  <2>6. visited \ path = call.visited \ call.path
    BY <2>1
  <2>7. ASSUME ~found.cyclic, Sound(g, call.visited \ call.path)
        PROVE  Sound(g, found.visited \ call.path)
    <3>1. /\ Sound(g, found.visited \ path)
          /\ ids \cap Ids(g) \subseteq found.visited \ path
      BY <2>5, <2>6, <2>7 DEF WalkTells
    <3>2. Sound(g, (found.visited \ path) \cup {call.node})
      BY <2>2, <3>1, SoundGrows
    <3>3. (found.visited \ path) \cup {call.node} = found.visited \ call.path
      BY <2>1, <2>2, <2>5 DEF WalkTells
    <3> QED BY <3>2, <3>3
  <2>8. Leads(g, call.path, call.node) => \A id \in ids : Leads(g, path, id)
    BY DEF Leads
  <2> QED BY <2>4, <2>5, <2>7, <2>8 DEF Right, WalkTells
<1>4. 0 .. n \subseteq T
  <2> HIDE DEF T
  <2> QED BY <1>1, <1>2, <1>3, Induction
<1>5. n \in T
  BY <1>1, <1>4
<1> QED BY <1>5, LeftIsBounded

\* hasCycle is right about every graph: it finds a cycle exactly where there are
\* tasks none of which could be started before the others, for any number of
\* tasks, whatever they depend on and in whatever order they are listed.
THEOREM CyclesAreFound ==
  ASSUME NEW S, NEW g \in Seq(S)
  PROVE  HasCycle(g) <=> ~Runnable(g)
<1>1. Len(g) \in Nat /\ DOMAIN g = 1 .. Len(g)
  OBVIOUS
<1>2. PICK Dfs \in Answers(g) :
        Dfs = Body(g, Dfs) /\ HasCycle(g) = Walk(g, Dfs, Ids(g), {}, {}).cyclic
  BY <1>1, HasCycleIs
<1>3. \A call \in Calls(g) : Right(g, Dfs, call)
  BY <1>1, <1>2, SearchIsRight
<1> PICK found : found = Walk(g, Dfs, Ids(g), {}, {})
  OBVIOUS
<1>4. WalkTells(g, Ids(g), {}, {}, found)
  <2>1. WalkTells(g, Ids(g), {}, {}, Walk(g, Dfs, Ids(g), {}, {}))
    BY <1>1, <1>3, WalkIsRight
  <2> QED BY <2>1
<1>5. Sound(g, {} \ {}) /\ \A id \in Ids(g) : Leads(g, {}, id)
  BY DEF Sound, Leads
<1>6. ~found.cyclic => Runnable(g)
  <2> SUFFICES ASSUME ~found.cyclic PROVE Runnable(g)
    OBVIOUS
  <2>1. Sound(g, found.visited \ {}) /\ Ids(g) \subseteq found.visited \ {}
    BY <1>4, <1>5 DEF WalkTells
  <2> QED BY <2>1 DEF Sound, Runnable
<1> QED BY <1>2, <1>4, <1>5, <1>6 DEF WalkTells, Searches

-----------------------------------------------------------------------------
(* Every plan can be executed.                                             *)

\* A plan names no task it does not have.
Closed(g) == \A id \in Ids(g) : DependsOn(g, id) \subseteq Ids(g)

\* The heuristics let a task wait only for earlier ones, and then some task of any
\* set waits for none of the others: the first.
LEMMA EarlierFirst ==
  ASSUME NEW g, Ids(g) \subseteq Nat,
         \A k \in DOMAIN g : \A d \in g[k].dependsOn : d \in Ids(g) /\ d < g[k].id
  PROVE  Closed(g) /\ Runnable(g)
<1>1. \A id \in Ids(g) : \A d \in DependsOn(g, id) : d \in Ids(g) /\ d < id
  BY DEF DependsOn
<1>2. ASSUME NEW S \in SUBSET Ids(g), S # {}
      PROVE  \E id \in S : DependsOn(g, id) \cap S = {}
  <2>1. PICK id \in S : \A j \in S : id <= j
    BY <1>2, LeastNumber
  <2>2. \A d \in S : d \in Nat /\ id \in Nat /\ (d < id => ~(id <= d))
    OBVIOUS
  <2>3. DependsOn(g, id) \cap S = {}
    BY <1>1, <2>1, <2>2
  <2> QED BY <2>3
<1> QED BY <1>1, <1>2 DEF Closed, Runnable

LEMMA CountdownRuns ==
  ASSUME NEW agents, NEW start \in Nat, NEW end \in Nat
  PROVE  Closed(Countdown(agents, start, end)) /\ Runnable(Countdown(agents, start, end))
<1> DEFINE g == Countdown(agents, start, end)
<1> PICK m \in Int : m = start - end + 1
  OBVIOUS
<1>1. /\ DOMAIN g = 1 .. m
      /\ \A k \in 1 .. m : g[k].id = k /\ g[k].dependsOn = IF k = 1 THEN {} ELSE {k - 1}
  BY DEF Countdown, Task
<1> HIDE DEF g
<1>2. Ids(g) = 1 .. m
  <2>1. \A k \in 1 .. m : g[k].id = k
    BY <1>1
  <2>2. ASSUME NEW i \in Ids(g)
        PROVE  i \in 1 .. m
    <3>1. PICK k \in 1 .. m : i = g[k].id
      BY <1>1 DEF Ids
    <3> QED BY <2>1, <3>1
  <2>3. ASSUME NEW i \in 1 .. m
        PROVE  i \in Ids(g)
    <3>1. i = g[i].id /\ i \in DOMAIN g
      BY <1>1, <2>1
    <3> QED BY <3>1, Zenon DEF Ids
  <2> QED BY <2>2, <2>3
<1>3. \A k \in 1 .. m : k # 1 => k - 1 \in 1 .. m /\ k - 1 < k
  OBVIOUS
<1>4. ASSUME NEW k \in 1 .. m, NEW d \in g[k].dependsOn
      PROVE  d \in 1 .. m /\ d < g[k].id
  <2>1. g[k].id = k /\ d \in IF k = 1 THEN {} ELSE {k - 1}
    <3>1. g[k].dependsOn = IF k = 1 THEN {} ELSE {k - 1}
      BY <1>1, Zenon
    <3> QED BY <1>1, <1>4, <3>1, Zenon
  <2>2. k # 1 /\ d = k - 1
    BY <2>1
  <2> QED BY <1>3, <2>1, <2>2
<1>5. Closed(g) /\ Runnable(g)
  BY <1>1, <1>2, <1>4, EarlierFirst
<1> QED BY <1>5 DEF g

LEMMA FullStackRuns ==
  ASSUME NEW agents
  PROVE  Closed(FullStack(agents)) /\ Runnable(FullStack(agents))
<1> DEFINE g == FullStack(agents)
<1>1. /\ DOMAIN g = {1, 2, 3}
      /\ g[1].id = 1 /\ g[2].id = 2 /\ g[3].id = 3
      /\ g[1].dependsOn = {} /\ g[2].dependsOn = {} /\ g[3].dependsOn = {1, 2}
  BY DEF FullStack, Task
<1> HIDE DEF g
<1>2. Ids(g) = {1, 2, 3}
  BY <1>1 DEF Ids
<1>3. \A k \in DOMAIN g : \A d \in g[k].dependsOn : d \in Ids(g) /\ d < g[k].id
  BY <1>1, <1>2
<1>4. Closed(g) /\ Runnable(g)
  BY <1>2, <1>3, EarlierFirst
<1> QED BY <1>4 DEF g

LEMMA ReviewRuns ==
  ASSUME NEW A, NEW agents \in Seq(A)
  PROVE  Closed(ParallelThenReview(agents)) /\ Runnable(ParallelThenReview(agents))
<1> DEFINE n == IF Len(agents) < 3 THEN Len(agents) ELSE 3
           side == [k \in 1 .. n |-> Task(k, agents[k], {})]
           review == Task(n + 1, Last(agents), 1 .. n)
           g == Append(side, review)
<1>1. n \in Nat
  OBVIOUS
<1> HIDE DEF n
<1>2. Len(side) = n /\ DOMAIN g = 1 .. n + 1
  BY <1>1
<1>3. /\ \A k \in 1 .. n : g[k] = Task(k, agents[k], {})
      /\ g[n + 1] = review
  BY <1>1
<1> HIDE DEF g, side
<1>4. /\ \A k \in 1 .. n + 1 : g[k].id = k
      /\ \A k \in 1 .. n : g[k].dependsOn = {}
      /\ g[n + 1].dependsOn = 1 .. n
  <2>1. \A k \in 1 .. n + 1 : k \in 1 .. n \/ k = n + 1
    BY <1>1
  <2>2. \A i, a, d : Task(i, a, d).id = i /\ Task(i, a, d).dependsOn = d
    BY DEF Task
  <2> QED BY <1>3, <2>1, <2>2
<1>5. Ids(g) = 1 .. n + 1
  BY <1>2, <1>4 DEF Ids
<1>6. \A k \in DOMAIN g : \A d \in g[k].dependsOn : d \in Ids(g) /\ d < g[k].id
  <2>1. \A k \in 1 .. n + 1 : k \in 1 .. n \/ k = n + 1
    BY <1>1
  <2>2. \A d \in 1 .. n : d \in 1 .. n + 1 /\ d < n + 1
    BY <1>1
  <2> QED BY <1>2, <1>4, <1>5, <2>1, <2>2
<1>7. Closed(g) /\ Runnable(g)
  <2>1. Ids(g) \subseteq Nat
    BY <1>1, <1>5
  <2> QED BY <1>6, <2>1, EarlierFirst
<1> QED BY <1>7 DEF g, side, n, ParallelThenReview

\* Whatever is proposed, planTaskGraph makes a plan all of whose tasks can be
\* executed one after the other: a proposal is taken only if it is one, and the
\* heuristics make no other.
THEOREM PlansRun ==
  ASSUME NEW S, NEW proposal \in Seq(S), NEW A, NEW agents \in Seq(A), NEW prompt,
         prompt.kind = "countdown" => prompt.start \in Nat /\ prompt.end \in Nat
  PROVE  /\ Closed(PlanTaskGraph(proposal, prompt, agents))
         /\ Runnable(PlanTaskGraph(proposal, prompt, agents))
<1>1. CASE IsValidGraph(proposal, agents)
  <2>1. Runnable(proposal)
    BY <1>1, CyclesAreFound DEF IsValidGraph
  <2>2. Closed(proposal)
    BY <1>1 DEF IsValidGraph, Closed, DependsOn
  <2> QED BY <1>1, <2>1, <2>2 DEF PlanTaskGraph
<1>2. CASE ~IsValidGraph(proposal, agents)
  BY <1>2, CountdownRuns, FullStackRuns, ReviewRuns DEF PlanTaskGraph, PlanWithHeuristics
<1> QED BY <1>1, <1>2
=============================================================================
