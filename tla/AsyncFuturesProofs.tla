------------------------- MODULE AsyncFuturesProofs -------------------------
(***************************************************************************)
(* Theorems about AsyncFutures, for any number of tasks, workers and steps *)
(* in a chain.                                                             *)
(***************************************************************************)
EXTENDS AsyncFutures, ThreadCounting

-----------------------------------------------------------------------------
(* Chains: task i is a step of chain Block(i) *)

Block(i) == (i - 1) \div ChainLength

\* Division with remainder: a number has one quotient and one remainder.
LEMMA Division ==
    ASSUME NEW m \in Nat \ {0}, NEW k \in Nat
    PROVE  /\ k \div m \in Nat /\ k % m \in 0..(m - 1)
           /\ k = m * (k \div m) + (k % m)
  OBVIOUS

\* A number that is written so has that quotient and that remainder.
LEMMA Quotient ==
    ASSUME NEW m \in Nat \ {0}, NEW q \in Nat, NEW r \in 0..(m - 1)
    PROVE  (m * q + r) % m = r /\ (m * q + r) \div m = q
  OBVIOUS

\* A task that is not the first step of its chain has the step before it in the
\* same chain.
LEMMA StepBefore ==
    ASSUME NEW i \in Nat, i > 0, ~First(i)
    PROVE  /\ i - 1 \in Nat /\ i - 1 > 0 /\ Block(i - 1) = Block(i)
           /\ ((i - 1) - 1) % ChainLength = ((i - 1) % ChainLength) - 1
<1> DEFINE m == ChainLength
           q == (i - 1) \div m
           r == (i - 1) % m
<1>1. m \in Nat \ {0} /\ i - 1 \in Nat
  BY AsyncAssumption
<1>2. q \in Nat /\ r \in 0..(m - 1) /\ i - 1 = m * q + r
  BY <1>1, Division
<1>3. r # 0
  BY DEF First
<1> HIDE DEF m, q, r
<1>4. r - 1 \in 0..(m - 1) /\ r >= 1
  BY <1>1, <1>2, <1>3
<1>5. (m * q + (r - 1)) % m = r - 1 /\ (m * q + (r - 1)) \div m = q
  BY <1>1, <1>2, <1>4, Quotient
<1>6. m * q \in Nat
  BY <1>1, <1>2
<1>7. (i - 1) - 1 = m * q + (r - 1) /\ i - 1 > 0
  BY <1>1, <1>2, <1>4, <1>6
<1>8. ((i - 1) - 1) % m = r - 1 /\ ((i - 1) - 1) \div m = q
  BY <1>5, <1>7
<1> QED
  BY <1>1, <1>7, <1>8 DEF m, q, r, Block

\* The first step of a chain has no other before it.
LEMMA StepFirst ==
    ASSUME NEW i \in Nat, i > 0, First(i), NEW j \in Nat, j > 0, j <= i, Block(j) = Block(i)
    PROVE  j = i
<1> DEFINE m == ChainLength
           q == (i - 1) \div m
           r == (j - 1) % m
<1>1. m \in Nat \ {0} /\ i - 1 \in Nat /\ j - 1 \in Nat
  BY AsyncAssumption
<1>2. (i - 1) % m = 0 /\ (j - 1) \div m = q
  BY DEF First, Block
<1>3. q \in Nat /\ i - 1 = m * q + ((i - 1) % m)
  BY <1>1, Division
<1>4. r \in 0..(m - 1) /\ j - 1 = m * ((j - 1) \div m) + r
  BY <1>1, Division
<1> HIDE DEF m, q, r
<1>5. i - 1 = m * q + 0 /\ j - 1 = m * q + r /\ m * q \in Nat
  BY <1>1, <1>2, <1>3, <1>4
<1> QED
  BY <1>4, <1>5

\* When some chains are collected and not all, the next one is complete and its
\* last step, the next turn, has as many steps as a chain.
LEMMA NextChain ==
    ASSUME NEW c \in Nat, c % ChainLength = 0, c < NumTasks
    PROVE  /\ c + ChainLength \in Tasks
           /\ (c + ChainLength) % ChainLength = 0
           /\ ((c + ChainLength) - 1) % ChainLength = ChainLength - 1
           /\ \A i \in Nat : c < i /\ i <= c + ChainLength => Block(i) = Block(c + ChainLength)
<1> DEFINE m == ChainLength
           q == c \div m
           n == NumTasks \div m
<1>1. m \in Nat \ {0} /\ NumTasks \in Nat /\ NumTasks % m = 0
  BY AsyncAssumption
<1>2. q \in Nat /\ c = m * q + (c % m)
  BY <1>1, Division
<1>3. n \in Nat /\ NumTasks = m * n + (NumTasks % m)
  BY <1>1, Division
<1>4. c % m = 0
  OBVIOUS
<1> HIDE DEF m, q, n
<1>5. c = m * q /\ NumTasks = m * n /\ m * q \in Nat /\ m * n \in Nat
  BY <1>1, <1>2, <1>3, <1>4
<1>6. q < n
  BY <1>1, <1>2, <1>3, <1>5
<1>7. m * n = m * q + m * (n - q) /\ m * (n - q) >= m
  <2> DEFINE d == n - q
  <2>1. d \in Nat /\ d >= 1 /\ n = q + d
    BY <1>2, <1>3, <1>6
  <2> HIDE DEF d
  <2>2. m * (q + d) = m * q + m * d /\ m * d >= m
    BY <1>1, <1>2, <2>1
  <2> QED
    BY <2>1, <2>2 DEF d
<1>8. c + m <= NumTasks
  BY <1>1, <1>2, <1>3, <1>5, <1>7
<1>9. (m * (q + 1) + 0) % m = 0
  <2>1. q + 1 \in Nat /\ 0 \in 0..(m - 1)
    BY <1>1, <1>2
  <2> QED
    BY <1>1, <2>1, Quotient
<1>10. c + m = m * (q + 1) + 0
  BY <1>1, <1>2, <1>5
<1>11. ASSUME NEW i \in Nat, c < i, i <= c + m
       PROVE  (i - 1) \div m = q /\ (i - 1) % m = i - 1 - c
  <2>1. i - 1 - c \in 0..(m - 1) /\ i - 1 = m * q + (i - 1 - c)
    BY <1>1, <1>5, <1>11
  <2>2. (m * q + (i - 1 - c)) % m = i - 1 - c /\ (m * q + (i - 1 - c)) \div m = q
    BY <1>1, <1>2, <2>1, Quotient
  <2> QED
    BY <2>1, <2>2
<1>12. (c + m) \in Nat /\ c < c + m /\ c + m <= c + m /\ (c + m) - 1 - c = m - 1
  BY <1>1
<1>13. ((c + m) - 1) \div m = q /\ ((c + m) - 1) % m = m - 1
  BY <1>11, <1>12
<1> QED
  BY <1>1, <1>8, <1>9, <1>10, <1>11, <1>12, <1>13 DEF m, Block, Tasks

-----------------------------------------------------------------------------
(* The inductive invariant *)

\* The result of a task.
Expected(i) == CASE pattern = "chain"   -> ((i - 1) % ChainLength) + 1
                 [] pattern = "timeout" -> 0
                 [] OTHER               -> i

\* What a task's future holds, given the pattern and how far main is.
Futures ==
    \A i \in Tasks :
      /\ value[i] = IF shared[i] = "value" THEN Expected(i) ELSE 0
      /\ shared[i] = "exception" => pattern = "risky"
      /\ shared[i] = "deferred" => pattern = "deferred"
      /\ pattern = "deferred" => shared[i] # "running"
      /\ IF pattern = "promise" THEN shared[i] # "none" ELSE shared[i] = "none" <=> i > launched
      /\ i <= collected => shared[i] \in {"value", "exception"}

\* The steps of a chain end in their order.
Chained ==
    pattern = "chain" =>
      \A i, j \in Tasks :
        j <= i /\ Block(j) = Block(i) /\ shared[i] = "value" => shared[j] = "value"

\* Each promise is unclaimed, with one worker, or set; a worker leaves at an
\* index past the tasks, and takes it with it.
Promised ==
    IF pattern = "promise"
    THEN /\ \A w \in Workers : wpc[w] = "work" =>
              job[w] \in Tasks /\ job[w] <= task_index /\ shared[job[w]] = "running"
         /\ \A w, v \in Workers :
              wpc[w] = "work" /\ wpc[v] = "work" /\ w # v => job[w] # job[v]
         /\ \A i \in Tasks :
              IF i > task_index THEN shared[i] = "running"
              ELSE shared[i] = "value" \/ \E w \in Workers : wpc[w] = "work" /\ job[w] = i
         /\ Cardinality(At(wpc, "out")) =
              IF task_index > NumTasks THEN task_index - NumTasks ELSE 0
    ELSE task_index = 0 /\ \A w \in Workers : wpc[w] = "out"

\* Where main is tells what is launched, joined and collected.
Phase ==
    /\ main = "get" => pattern = "timeout" /\ collected < NumTasks
    /\ main = "over" => collected = NumTasks
    /\ main \in {"launch", "join"} => collected = 0
    /\ main = "launch" => pattern # "promise"
    /\ main = "join" => pattern = "promise"
    /\ pattern # "promise" /\ main # "launch" => launched = NumTasks
    /\ pattern = "promise" /\ main # "join" => \A w \in Workers : wpc[w] = "out"
    /\ collected % Stride = 0

Threw == {i \in 1..collected : shared[i] = "exception"}

\* The tally is that of the tasks collected so far.
Tallied ==
    /\ tally.total = CASE pattern = "chain"   -> collected
                       [] pattern = "timeout" -> 0
                       [] OTHER               -> SumSet((1..collected) \ Threw)
    /\ tally.exceptions = Cardinality(Threw)
    /\ tally.completed + tally.timeouts =
         IF pattern = "timeout" THEN collected + (IF main = "get" THEN 1 ELSE 0) ELSE 0

FuturesInv == TypeOK /\ Futures /\ Chained /\ Promised /\ Phase /\ Tallied

\* The sum of a set is that of the function that gives each element as it is.
LEMMA SetSum ==
    ASSUME NEW S \in SUBSET Int, IsFiniteSet(S)
    PROVE  SumSet(S) = SumFunction([t \in S |-> t])
<1> DEFINE h == [t \in S |-> t]
           Sums(g) == g = [s \in SUBSET S |-> IF s = {} THEN 0
                                              ELSE Picked(s) + g[s \ {Picked(s)}]]
<1>1. \A g : IsSums(h, S, g) <=> Sums(g)
  <2>1. \A s \in SUBSET S : s # {} => h[Picked(s)] = Picked(s)
    BY PickedElement
  <2> HIDE DEF h
  <2> QED
    BY <2>1 DEF IsSums
<1>2. SumSet(S) = (CHOOSE g : Sums(g))[S]
  BY DEF SumSet, FoldSet, MapThenFoldSet, Picked
<1>3. \E g : Sums(g)
  BY <1>1, SumsExist
<1> DOMAIN h = S
  OBVIOUS
<1> HIDE DEF h, Sums
<1>4. PICK g : IsSums(h, S, g) /\ SumSet(S) = g[S]
  <2>1. Sums(CHOOSE g : Sums(g))
    BY <1>3
  <2> QED
    BY <1>1, <1>2, <2>1
<1>5. PICK k : IsSums(h, S, k) /\ SumFunction(h) = k[S]
  BY SumOf
<1>6. g[S] = k[S]
  BY <1>4, <1>5, SumsUnique
<1> QED
  BY <1>4, <1>5, <1>6 DEF h

\* An element that is put into a set adds itself to the sum.
LEMMA SetSumAdds ==
    ASSUME NEW S \in SUBSET Nat, IsFiniteSet(S), NEW x \in Nat, x \notin S
    PROVE  SumSet(S) \in Nat /\ SumSet(S \cup {x}) = SumSet(S) + x
<1> DEFINE f == [t \in S |-> t]
           h == [t \in S \cup {x} |-> t]
<1>1. /\ f \in [S -> Nat] /\ f \in [S -> Int]
      /\ h \in [S \cup {x} -> Int] /\ h[x] = x
      /\ (S \cup {x}) \ {x} = S
      /\ [t \in S |-> h[t]] = f
  OBVIOUS
<1>2. IsFiniteSet(S \cup {x})
  BY FS_AddElement
<1>3. SumSet(S) = SumFunction(f)
  BY SetSum
<1>4. S \cup {x} \in SUBSET Int
  OBVIOUS
<1>5. SumSet(S \cup {x}) = SumFunction(h)
  <2> DEFINE U == S \cup {x}
  <2>1. U \in SUBSET Int /\ IsFiniteSet(U) /\ h = [t \in U |-> t]
    BY <1>2, <1>4
  <2> HIDE DEF U, h
  <2>2. SumSet(U) = SumFunction(h)
    BY <2>1, SetSum
  <2> QED
    BY <2>2 DEF U
<1> HIDE DEF f, h
<1>7. ASSUME NEW y, y = x
      PROVE  SumFunction(h) = h[y] + SumFunction(f)
  <2> DEFINE U == S \cup {x}
  <2>1. IsFiniteSet(U) /\ h \in [U -> Int] /\ y \in U
    BY <1>1, <1>2, <1>7
  <2>2. f = [t \in U \ {y} |-> h[t]]
    BY <1>1, <1>7
  <2> HIDE DEF U
  <2> QED
    BY <2>1, <2>2, SumWithout
<1>8. SumFunction(f) \in Nat
  BY <1>1, SumType
<1> QED
  BY <1>1, <1>3, <1>5, <1>7, <1>8

\* The initial states satisfy the invariant.
LEMMA FuturesInit == Init => FuturesInv
<1> SUFFICES ASSUME Init
             PROVE  FuturesInv
  OBVIOUS
<1> USE AsyncAssumption DEF Init, Tasks, AllPatterns
<1>1. Cardinality(Workers) \in Nat
  BY FS_CardinalityType
<1>2. TypeOK
  BY <1>1 DEF TypeOK
<1>3. Futures
  BY DEF Futures
<1>4. Chained
  BY DEF Chained
<1>5. Promised
  <2>1. CASE pattern = "promise"
    <3>1. At(wpc, "out") = {}
      BY <2>1 DEF At
    <3>2. Cardinality(At(wpc, "out")) = 0
      BY <3>1, FS_EmptySet
    <3> QED
      BY <2>1, <3>2 DEF Promised
  <2> QED
    BY <2>1 DEF Promised
<1>6. Phase
  BY DEF Phase, Stride
<1>7. Tallied
  <2>1. Threw = {} /\ 1..collected = {}
    BY DEF Threw
  <2>2. SumSet({}) = 0
    BY DEF SumSet, FoldSet, MapThenFoldSet
  <2> QED
    BY <2>1, <2>2, FS_EmptySet DEF Tallied
<1> QED
  BY <1>2, <1>3, <1>4, <1>5, <1>6, <1>7 DEF FuturesInv

\* What a part of the invariant does not speak of may change.
LEMMA Untouched ==
    ASSUME FuturesInv
    PROVE  /\ UNCHANGED <<pattern, shared, value, launched, collected>> => Futures'
           /\ UNCHANGED <<pattern, shared>> => Chained'
           /\ UNCHANGED <<pattern, shared, workers>> => Promised'
           /\ UNCHANGED <<pattern, wpc, main, launched, collected>> => Phase'
           /\ UNCHANGED <<pattern, main, collected, tally>>
                /\ (\A i \in 1..collected : shared'[i] = shared[i]) => Tallied'
<1> USE DEF FuturesInv
<1>1. UNCHANGED <<pattern, shared, value, launched, collected>> => Futures'
  BY DEF Futures, Expected
<1>2. UNCHANGED <<pattern, shared>> => Chained'
  BY DEF Chained
<1>3. UNCHANGED <<pattern, shared, workers>> => Promised'
  BY DEF Promised, workers
<1>4. UNCHANGED <<pattern, wpc, main, launched, collected>> => Phase'
  BY DEF Phase, Stride
<1>5. ASSUME UNCHANGED <<pattern, main, collected, tally>>,
             \A i \in 1..collected : shared'[i] = shared[i]
      PROVE  Tallied'
  <2>1. Threw' = Threw
    BY <1>5 DEF Threw
  <2> QED
    BY <1>5, <2>1 DEF Tallied
<1> QED
  BY <1>1, <1>2, <1>3, <1>4, <1>5

\* The turn is a task; between what is collected and the turn there are only the
\* earlier steps of its chain.
LEMMA TurnIsNext ==
    ASSUME FuturesInv, collected < NumTasks
    PROVE  /\ Turn \in Tasks /\ collected < Turn
           /\ Turn % Stride = 0
           /\ pattern # "chain" => Turn = collected + 1
           /\ pattern = "chain" =>
                /\ Turn = collected + ChainLength
                /\ (Turn - 1) % ChainLength = ChainLength - 1
                /\ \A i \in Tasks : collected < i /\ i <= Turn => Block(i) = Block(Turn)
<1> USE AsyncAssumption DEF FuturesInv
<1>1. collected \in Nat /\ collected % Stride = 0 /\ ChainLength \in Nat \ {0} /\ NumTasks \in Nat
  BY DEF TypeOK, Phase
<1>2. CASE pattern = "chain"
  <2>1. collected % ChainLength = 0 /\ Stride = ChainLength
    BY <1>1, <1>2 DEF Stride
  <2>2. /\ collected + ChainLength \in Tasks
        /\ (collected + ChainLength) % ChainLength = 0
        /\ ((collected + ChainLength) - 1) % ChainLength = ChainLength - 1
        /\ \A i \in Nat : collected < i /\ i <= collected + ChainLength
                            => Block(i) = Block(collected + ChainLength)
    BY <1>1, <2>1, NextChain
  <2>3. Turn = collected + ChainLength /\ collected < Turn
    BY <1>1, <2>1 DEF Turn
  <2>4. \A i \in Tasks : i \in Nat
    BY DEF Tasks
  <2> QED
    BY <1>2, <2>1, <2>2, <2>3, <2>4
<1>3. CASE pattern # "chain"
  <2>1. Stride = 1 /\ Turn = collected + 1
    BY <1>3 DEF Stride, Turn
  <2> QED
    BY <1>1, <1>3, <2>1 DEF Tasks
<1> QED
  BY <1>2, <1>3

\* Results are in their type.
LEMMA ResultType ==
    ASSUME NEW i \in Tasks
    PROVE  Expected(i) \in 0..NumTasks
<1> USE AsyncAssumption DEF Tasks
<1>1. i - 1 \in Nat /\ ChainLength \in Nat \ {0} /\ NumTasks \in Nat
  OBVIOUS
<1> DEFINE d == (i - 1) \div ChainLength
           r == (i - 1) % ChainLength
<1>2. d \in Nat /\ r \in 0..(ChainLength - 1) /\ i - 1 = ChainLength * d + r
  BY <1>1, Division
<1> HIDE DEF d, r
<1>3. ChainLength * d \in Nat
  BY <1>1, <1>2
<1>4. r + 1 \in 0..NumTasks
  BY <1>1, <1>2, <1>3
<1>5. i \in 0..NumTasks /\ 0 \in 0..NumTasks
  OBVIOUS
<1> QED
  BY <1>4, <1>5 DEF Expected, r

\* A task that runs computes its result; a chained one has that of the step before.
LEMMA ResultIsExpected ==
    ASSUME FuturesInv, NEW i \in Tasks,
           pattern = "chain" /\ ~First(i) => shared[i - 1] = "value"
    PROVE  Result(i) = Expected(i)
<1> USE AsyncAssumption DEF FuturesInv, Tasks
<1>1. i \in Nat /\ i > 0
  OBVIOUS
<1>2. CASE pattern = "chain" /\ First(i)
  BY <1>2 DEF First, Result, Expected
<1>3. CASE pattern = "chain" /\ ~First(i)
  <2>1. i - 1 \in Nat /\ i - 1 > 0 /\ ((i - 1) - 1) % ChainLength = ((i - 1) % ChainLength) - 1
    BY <1>1, <1>3, StepBefore
  <2>2. i - 1 \in Tasks
    BY <2>1
  <2>3. value[i - 1] = Expected(i - 1)
    BY <1>3, <2>2 DEF Futures
  <2>4. Expected(i - 1) = (((i - 1) - 1) % ChainLength) + 1
    BY <1>3 DEF Expected
  <2>5. (i - 1) % ChainLength \in Int
    BY <1>1
  <2>6. value[i - 1] + 1 = ((i - 1) % ChainLength) + 1
    BY <2>1, <2>3, <2>4, <2>5
  <2> QED
    BY <1>3, <2>6 DEF Result, Expected
<1>4. CASE pattern # "chain"
  BY <1>4 DEF Result, Expected
<1> QED
  BY <1>2, <1>3, <1>4

\* A thread of std::async runs its task.
LEMMA RunKeeps ==
    ASSUME FuturesInv, NEW i \in Tasks, Run(i)
    PROVE  FuturesInv'
<1> USE DEF FuturesInv
<1>1. /\ pattern # "promise" /\ shared[i] = "running"
      /\ pattern = "chain" /\ ~First(i) => shared[i - 1] = "value"
      /\ UNCHANGED <<pattern, workers, mains>>
  BY DEF Run
<1>2. PICK outcome \in Outcomes(i) :
        /\ shared' = [shared EXCEPT ![i] = outcome]
        /\ value' = [value EXCEPT ![i] = IF outcome = "value" THEN Result(i) ELSE 0]
  BY DEF Run, Finish
<1>3. outcome = "value" \/ (outcome = "exception" /\ pattern = "risky")
  BY DEF Outcomes
<1>4. Result(i) = Expected(i) /\ Expected(i) \in 0..NumTasks
  BY <1>1, ResultIsExpected, ResultType
<1>5. i \in Int /\ collected \in Int /\ NumTasks \in Int /\ i > collected
  BY <1>1, AsyncAssumption DEF Futures, TypeOK, Tasks
<1>6. TypeOK'
  BY <1>1, <1>2, <1>3, <1>4, AsyncAssumption DEF TypeOK, workers, mains
<1>7. Futures'
  <2>1. \A k \in Tasks : Expected(k)' = Expected(k)
    BY <1>1 DEF Expected
  <2>2. ASSUME NEW k \in Tasks
        PROVE  value'[k] = IF shared'[k] = "value" THEN Expected(k) ELSE 0
    <3>1. value[k] = IF shared[k] = "value" THEN Expected(k) ELSE 0
      BY DEF Futures
    <3>2. k # i => value'[k] = value[k] /\ shared'[k] = shared[k]
      BY <1>2 DEF TypeOK
    <3>3. shared'[i] = outcome /\ value'[i] = IF outcome = "value" THEN Expected(i) ELSE 0
      BY <1>2, <1>4 DEF TypeOK
    <3> QED
      BY <3>1, <3>2, <3>3
  <2>3. ASSUME NEW k \in Tasks
        PROVE  /\ shared'[k] = "exception" => pattern' = "risky"
               /\ shared'[k] = "deferred" => pattern' = "deferred"
               /\ pattern' = "deferred" => shared'[k] # "running"
               /\ shared'[k] = "none" <=> k > launched'
               /\ k <= collected' => shared'[k] \in {"value", "exception"}
    BY <1>1, <1>2, <1>3, <1>5 DEF Futures, TypeOK, mains
  <2> QED
    BY <1>1, <2>1, <2>2, <2>3 DEF Futures
<1>8. Chained'
  <2> SUFFICES ASSUME pattern = "chain", NEW a \in Tasks, NEW b \in Tasks,
                      b <= a, Block(b) = Block(a), shared'[a] = "value"
               PROVE  shared'[b] = "value"
    BY <1>1 DEF Chained
  <2>1. outcome = "value"
    BY <1>3
  <2>2. CASE a # i
    BY <1>2, <2>1, <2>2 DEF Chained, TypeOK
  <2>3. CASE a = i /\ b = i
    BY <1>2, <2>1, <2>3 DEF TypeOK
  <2>4. CASE a = i /\ b # i
    <3>1. a \in Nat /\ a > 0 /\ b \in Nat /\ b > 0
      BY AsyncAssumption DEF Tasks
    <3>2. ~First(i)
      BY <2>4, <3>1, StepFirst
    <3>3. i - 1 \in Tasks /\ Block(i - 1) = Block(i)
      BY <2>4, <3>1, <3>2, StepBefore, AsyncAssumption DEF Tasks
    <3>4. b <= i - 1
      BY <2>4, <3>1
    <3>5. shared[b] = "value"
      BY <1>1, <2>4, <3>2, <3>3, <3>4 DEF Chained
    <3> QED
      BY <1>2, <2>4, <3>5 DEF TypeOK
  <2> QED
    BY <2>2, <2>3, <2>4
<1>9. Promised'
  BY <1>1 DEF Promised, workers
<1>10. Phase'
  BY <1>1, Untouched DEF workers, mains
<1>11. Tallied'
  <2>1. \A k \in 1..collected : shared'[k] = shared[k]
    BY <1>2, <1>5 DEF TypeOK
  <2> QED
    BY <1>1, <2>1, Untouched DEF mains
<1> QED
  BY <1>6, <1>7, <1>8, <1>9, <1>10, <1>11

\* Workers with something to do belong to "promise", and main has yet to join them.
LEMMA WorkerBusy ==
    ASSUME FuturesInv, NEW w \in Workers, wpc[w] # "out"
    PROVE  pattern = "promise" /\ main = "join" /\ collected = 0
<1>1. pattern = "promise"
  BY DEF FuturesInv, Promised
<1>2. main = "join"
  BY <1>1 DEF FuturesInv, Phase
<1> QED
  BY <1>1, <1>2 DEF FuturesInv, Phase

\* When one worker moves, one place loses it and one gains it.
LEMMA WorkerMoves ==
    ASSUME TypeOK, NEW w \in Workers, NEW v, wpc' = [wpc EXCEPT ![w] = v]
    PROVE  Recounts(wpc, wpc', wpc[w], v)
<1>1. DOMAIN wpc = Workers /\ IsFiniteSet(Workers)
  BY AsyncAssumption DEF TypeOK
<1> QED
  BY <1>1, AtMoves

\* A worker takes the next index.
LEMMA ClaimKeeps ==
    ASSUME FuturesInv, NEW w \in Workers, Claim(w)
    PROVE  FuturesInv'
<1> USE DEF FuturesInv
<1>1. /\ wpc[w] = "claim" /\ task_index' = task_index + 1
      /\ UNCHANGED <<pattern, shared, value, mains>>
      /\ \/ /\ task_index >= NumTasks
            /\ wpc' = [wpc EXCEPT ![w] = "out"] /\ job' = job
         \/ /\ ~(task_index >= NumTasks)
            /\ wpc' = [wpc EXCEPT ![w] = "work"] /\ job' = [job EXCEPT ![w] = task_index + 1]
  BY DEF Claim
<1>2. pattern = "promise" /\ main = "join"
  BY <1>1, WorkerBusy
<1>3. /\ NumTasks \in Nat /\ task_index \in Nat /\ IsFiniteSet(Workers)
      /\ DOMAIN wpc = Workers /\ DOMAIN wpc' = Workers
  BY <1>1, AsyncAssumption, FS_CardinalityType DEF TypeOK
<1> DEFINE out == Cardinality(At(wpc, "out"))
<1>4. out \in Nat /\ out = IF task_index > NumTasks THEN task_index - NumTasks ELSE 0
  BY <1>2, <1>3, AtFinite DEF Promised
<1>5. out + 1 <= Cardinality(Workers) /\ Cardinality(Workers) \in Nat
  <2>1. At(wpc, "out") \in SUBSET (Workers \ {w})
    BY <1>1, <1>3 DEF At
  <2> QED
    BY <1>3, <2>1, AllButOne
<1>6. task_index + 1 \in 0..(NumTasks + Cardinality(Workers))
  <2> HIDE DEF out
  <2> QED
    BY <1>3, <1>4, <1>5
<1>7. TypeOK'
  <2>1. CASE task_index >= NumTasks
    BY <1>1, <1>6, <2>1 DEF TypeOK, mains
  <2>2. CASE ~(task_index >= NumTasks)
    <3>1. task_index + 1 \in 0..NumTasks
      BY <1>3, <2>2
    <3> QED
      BY <1>1, <1>6, <2>2, <3>1 DEF TypeOK, mains
  <2> QED
    BY <2>1, <2>2
<1>8. Futures' /\ Chained'
  BY <1>1, Untouched DEF mains
<1>9. Promised'
  <2>1. CASE task_index >= NumTasks
    <3>1. wpc' = [wpc EXCEPT ![w] = "out"] /\ job' = job
      BY <1>1, <2>1
    <3>2. Recounts(wpc, wpc', wpc[w], "out")
      BY <3>1, WorkerMoves
    <3>3. Cardinality(At(wpc', "out")) = out + 1 - 0
      BY <1>1, <1>4, <3>2 DEF Recounts
    <3>4. Cardinality(At(wpc', "out")) =
            IF task_index' > NumTasks THEN task_index' - NumTasks ELSE 0
      <4> HIDE DEF out
      <4> QED
        BY <1>1, <1>3, <1>4, <2>1, <3>3
    <3>5. \A v \in Workers : wpc'[v] = "work" <=> wpc[v] = "work"
      BY <1>1, <1>3, <3>1
    <3>6. \A i \in Tasks : ~(i > task_index) /\ ~(i > task_index')
      BY <1>1, <1>3, <2>1 DEF Tasks
    <3>7. \A v \in Workers : wpc'[v] = "work" =>
            job'[v] \in Tasks /\ job'[v] <= task_index' /\ shared'[job'[v]] = "running"
      BY <1>1, <1>2, <1>3, <3>1, <3>5 DEF Promised, Tasks
    <3> QED
      BY <1>1, <1>2, <3>1, <3>4, <3>5, <3>6, <3>7 DEF Promised
  <2>2. CASE ~(task_index >= NumTasks)
    <3>1. wpc' = [wpc EXCEPT ![w] = "work"] /\ job' = [job EXCEPT ![w] = task_index + 1]
      BY <1>1, <2>2
    <3>2. Recounts(wpc, wpc', wpc[w], "work")
      BY <3>1, WorkerMoves
    <3>3. Cardinality(At(wpc', "out")) = out
      BY <1>1, <1>4, <3>2 DEF Recounts
    <3>4. Cardinality(At(wpc', "out")) =
            IF task_index' > NumTasks THEN task_index' - NumTasks ELSE 0
      <4> HIDE DEF out
      <4> QED
        BY <1>1, <1>3, <1>4, <2>2, <3>3
    <3>5. wpc'[w] = "work" /\ job'[w] = task_index + 1 /\ task_index + 1 \in Tasks
      BY <1>1, <1>3, <2>2, <3>1 DEF TypeOK, Tasks
    <3>6. \A v \in Workers \ {w} : wpc'[v] = wpc[v] /\ job'[v] = job[v]
      BY <3>1 DEF TypeOK
    <3>7. shared[task_index + 1] = "running"
      BY <1>2, <1>3, <3>5 DEF Promised
    <3>8. ASSUME NEW v \in Workers, wpc'[v] = "work"
          PROVE  job'[v] \in Tasks /\ job'[v] <= task_index' /\ shared'[job'[v]] = "running"
      <4>1. CASE v = w
        BY <1>1, <1>3, <3>5, <3>7, <4>1
      <4>2. CASE v # w
        <5>1. wpc[v] = "work" /\ job'[v] = job[v]
          BY <3>6, <3>8, <4>2
        <5>2. job[v] \in Tasks /\ job[v] <= task_index /\ shared[job[v]] = "running"
          BY <1>2, <5>1 DEF Promised
        <5> QED
          BY <1>1, <1>3, <5>1, <5>2 DEF Tasks
      <4> QED
        BY <4>1, <4>2
    <3>9. ASSUME NEW u \in Workers, NEW v \in Workers, wpc'[u] = "work", wpc'[v] = "work", u # v
          PROVE  job'[u] # job'[v]
      <4>1. \A x \in Workers \ {w} : wpc'[x] = "work" => job'[x] \in Tasks /\ job'[x] <= task_index
        BY <1>2, <3>6 DEF Promised
      <4>2. CASE u # w /\ v # w
        BY <1>2, <3>6, <3>9, <4>2 DEF Promised
      <4>3. CASE u = w \/ v = w
        BY <1>3, <3>5, <3>9, <4>1, <4>3 DEF Tasks
      <4> QED
        BY <4>2, <4>3
    <3>10. ASSUME NEW i \in Tasks
           PROVE  IF i > task_index' THEN shared'[i] = "running"
                  ELSE shared'[i] = "value" \/ \E v \in Workers : wpc'[v] = "work" /\ job'[v] = i
      <4>1. CASE i = task_index + 1
        BY <1>1, <1>3, <3>5, <4>1
      <4>2. CASE i # task_index + 1 /\ i > task_index
        BY <1>1, <1>2, <1>3, <4>2 DEF Promised, Tasks
      <4>3. CASE i # task_index + 1 /\ ~(i > task_index)
        <5>1. shared[i] = "value" \/ \E v \in Workers : wpc[v] = "work" /\ job[v] = i
          BY <1>2, <4>3 DEF Promised
        <5>2. shared'[i] = "value" \/ \E v \in Workers : wpc'[v] = "work" /\ job'[v] = i
          BY <1>1, <3>6, <5>1
        <5> QED
          BY <1>1, <1>3, <4>3, <5>2 DEF Tasks
      <4> QED
        BY <4>1, <4>2, <4>3
    <3> QED
      BY <1>1, <1>2, <3>4, <3>8, <3>9, <3>10 DEF Promised
  <2> QED
    BY <2>1, <2>2
<1>10. Phase'
  BY <1>1, <1>2 DEF Phase, Stride, mains
<1>11. Tallied'
  BY <1>1, Untouched DEF mains
<1> QED
  BY <1>7, <1>8, <1>9, <1>10, <1>11

\* A worker sets the promise it has claimed, and nobody else's.
LEMMA SetPromiseKeeps ==
    ASSUME FuturesInv, NEW w \in Workers, SetPromise(w)
    PROVE  FuturesInv'
<1> USE DEF FuturesInv
<1>1. /\ wpc[w] = "work" /\ wpc' = [wpc EXCEPT ![w] = "claim"]
      /\ UNCHANGED <<pattern, task_index, job, mains>>
      /\ shared' = [shared EXCEPT ![job[w]] = "value"]
      /\ value' = [value EXCEPT ![job[w]] = Result(job[w])]
  BY DEF SetPromise, Finish
<1>2. pattern = "promise" /\ main = "join" /\ collected = 0
  BY <1>1, WorkerBusy
<1>3. job[w] \in Tasks /\ job[w] <= task_index /\ shared[job[w]] = "running"
  BY <1>1, <1>2 DEF Promised
<1>4. Result(job[w]) = job[w]
  BY <1>2 DEF Result
<1>5. job[w] \in 0..NumTasks
  BY DEF TypeOK
<1>6. TypeOK'
  BY <1>1, <1>3, <1>4, <1>5 DEF TypeOK, mains
<1>7. Futures'
  <2>1. \A k \in Tasks : Expected(k)' = k /\ Expected(k) = k
    BY <1>1, <1>2 DEF Expected
  <2>2. ASSUME NEW k \in Tasks
        PROVE  value'[k] = IF shared'[k] = "value" THEN k ELSE 0
    <3>1. value[k] = IF shared[k] = "value" THEN k ELSE 0
      BY <2>1 DEF Futures
    <3>2. CASE k = job[w]
      BY <1>1, <1>3, <1>4, <3>2 DEF TypeOK
    <3>3. CASE k # job[w]
      BY <1>1, <1>3, <3>1, <3>3 DEF TypeOK
    <3> QED
      BY <3>2, <3>3
  <2>3. ASSUME NEW k \in Tasks
        PROVE  /\ shared'[k] = "exception" => pattern' = "risky"
               /\ shared'[k] = "deferred" => pattern' = "deferred"
               /\ shared'[k] # "none"
               /\ k <= collected' => shared'[k] \in {"value", "exception"}
    BY <1>1, <1>2, <1>3, AsyncAssumption DEF Futures, TypeOK, mains, Tasks
  <2> QED
    BY <1>1, <1>2, <2>1, <2>2, <2>3 DEF Futures
<1>8. Chained'
  BY <1>1, <1>2 DEF Chained
<1>9. Promised'
  <2>1. Recounts(wpc, wpc', wpc[w], "claim")
    BY <1>1, WorkerMoves
  <2>2. DOMAIN wpc = Workers /\ IsFiniteSet(Workers)
    BY AsyncAssumption DEF TypeOK
  <2>3. Cardinality(At(wpc, "out")) \in Nat
    BY <2>2, AtFinite
  <2>4. Cardinality(At(wpc', "out")) = Cardinality(At(wpc, "out"))
    <3>1. wpc[w] # "out" /\ "claim" # "out"
      BY <1>1
    <3>2. Cardinality(At(wpc', "out")) = Cardinality(At(wpc, "out")) + 0 - 0
      BY <2>1, <3>1 DEF Recounts
    <3> QED
      BY <2>3, <3>2
  <2>5. /\ wpc'[w] = "claim"
        /\ \A v \in Workers \ {w} : wpc'[v] = wpc[v]
    BY <1>1 DEF TypeOK
  <2>6. ASSUME NEW v \in Workers, wpc'[v] = "work"
        PROVE  job[v] \in Tasks /\ job[v] <= task_index /\ shared'[job[v]] = "running"
    <3>1. v # w /\ wpc[v] = "work"
      BY <2>5, <2>6
    <3>2. job[v] \in Tasks /\ job[v] <= task_index /\ shared[job[v]] = "running"
          /\ job[v] # job[w]
      BY <1>1, <1>2, <3>1 DEF Promised
    <3> QED
      BY <1>1, <3>2 DEF TypeOK
  <2>7. \A u, v \in Workers : wpc'[u] = "work" /\ wpc'[v] = "work" /\ u # v => job[u] # job[v]
    BY <1>2, <2>5 DEF Promised
  <2>8. ASSUME NEW i \in Tasks
        PROVE  IF i > task_index THEN shared'[i] = "running"
               ELSE shared'[i] = "value" \/ \E v \in Workers : wpc'[v] = "work" /\ job[v] = i
    <3>1. CASE i = job[w]
      BY <1>1, <1>3, <3>1 DEF TypeOK, Tasks
    <3>2. CASE i # job[w]
      <4>1. shared'[i] = shared[i]
        BY <1>1, <3>2 DEF TypeOK
      <4>2. (\E v \in Workers : wpc[v] = "work" /\ job[v] = i)
              => \E v \in Workers : wpc'[v] = "work" /\ job[v] = i
        BY <2>5, <3>2
      <4> QED
        BY <1>2, <4>1, <4>2 DEF Promised
    <3> QED
      BY <3>1, <3>2
  <2> QED
    BY <1>1, <1>2, <2>4, <2>6, <2>7, <2>8 DEF Promised
<1>10. Phase'
  BY <1>1, <1>2 DEF Phase, Stride, mains
<1>11. Tallied'
  <2>1. \A k \in 1..collected : shared'[k] = shared[k]
    BY <1>2
  <2> QED
    BY <1>1, <2>1, Untouched DEF mains
<1> QED
  BY <1>6, <1>7, <1>8, <1>9, <1>10, <1>11

\* Main launches the next task.
LEMMA LaunchKeeps ==
    ASSUME FuturesInv, Launch
    PROVE  FuturesInv'
<1> USE DEF FuturesInv
<1>1. /\ main = "launch" /\ launched < NumTasks /\ launched' = launched + 1
      /\ shared' = [shared EXCEPT ![launched + 1] =
                      IF pattern = "deferred" THEN "deferred" ELSE "running"]
      /\ UNCHANGED <<pattern, value, workers, main, collected, tally>>
  BY DEF Launch
<1>2. pattern # "promise" /\ collected = 0
  BY <1>1 DEF Phase
<1>3. launched \in Nat /\ NumTasks \in Nat /\ launched + 1 \in Tasks
  BY <1>1, AsyncAssumption DEF TypeOK, Tasks
<1>4. shared[launched + 1] = "none" /\ value[launched + 1] = 0
  BY <1>2, <1>3 DEF Futures
<1>5. TypeOK'
  BY <1>1, <1>3 DEF TypeOK, workers, Tasks
<1>6. Futures'
  <2>1. \A k \in Tasks : Expected(k)' = Expected(k)
    BY <1>1 DEF Expected
  <2>2. ASSUME NEW k \in Tasks
        PROVE  value'[k] = IF shared'[k] = "value" THEN Expected(k) ELSE 0
    <3>1. value[k] = IF shared[k] = "value" THEN Expected(k) ELSE 0
      BY DEF Futures
    <3>2. CASE k = launched + 1
      BY <1>1, <1>4, <3>2 DEF TypeOK
    <3>3. CASE k # launched + 1
      <4>1. shared'[k] = shared[k] /\ value'[k] = value[k]
        BY <1>1, <3>3 DEF TypeOK
      <4> QED
        BY <3>1, <4>1
    <3> QED
      BY <3>2, <3>3
  <2>3. ASSUME NEW k \in Tasks
        PROVE  /\ shared'[k] = "exception" => pattern' = "risky"
               /\ shared'[k] = "deferred" => pattern' = "deferred"
               /\ pattern' = "deferred" => shared'[k] # "running"
               /\ shared'[k] = "none" <=> k > launched'
               /\ k <= collected' => shared'[k] \in {"value", "exception"}
    <3>1. CASE k = launched + 1
      BY <1>1, <1>2, <1>3, <3>1 DEF TypeOK, Tasks
    <3>2. CASE k # launched + 1
      BY <1>1, <1>2, <1>3, <3>2 DEF Futures, TypeOK, Tasks
    <3> QED
      BY <3>1, <3>2
  <2> QED
    BY <1>1, <1>2, <2>1, <2>2, <2>3 DEF Futures
<1>7. Chained'
  <2>1. \A k \in Tasks : shared'[k] = "value" <=> shared[k] = "value"
    BY <1>1, <1>4 DEF TypeOK
  <2> QED
    BY <1>1, <2>1 DEF Chained
<1>8. Promised'
  BY <1>1, <1>2 DEF Promised, workers
<1>9. Phase'
  BY <1>1, <1>2 DEF Phase, Stride, workers
<1>10. Tallied'
  <2>1. \A k \in 1..collected : shared'[k] = shared[k]
    BY <1>2
  <2> QED
    BY <1>1, <2>1, Untouched
<1> QED
  BY <1>5, <1>6, <1>7, <1>8, <1>9, <1>10

\* Main goes from one of its loops to the next.
LEMMA MainTurnsKeep ==
    ASSUME FuturesInv, Launched \/ Join \/ Report \/ WaitTimesOut
    PROVE  FuturesInv'
<1> USE DEF FuturesInv
<1>1. UNCHANGED <<pattern, shared, value, workers, launched, collected>>
  BY DEF Launched, Join, Report, WaitTimesOut
<1>2. Futures' /\ Chained' /\ Promised'
  BY <1>1, Untouched
<1>3. TypeOK'
  BY <1>1 DEF Launched, Join, Report, WaitTimesOut, Add, TypeOK, workers
<1>4. Phase'
  BY <1>1 DEF Launched, Join, Report, WaitTimesOut, Collecting, Phase, Stride, workers
<1>5. Tallied'
  <2>1. Threw' = Threw
    BY <1>1 DEF Threw
  <2>2. CASE Launched \/ Join \/ Report
    <3>1. tally' = tally /\ main # "get" /\ main' # "get"
      BY <2>2 DEF Launched, Join, Report
    <3> QED
      BY <1>1, <2>1, <3>1 DEF Tallied
  <2>3. CASE WaitTimesOut
    <3>1. /\ pattern = "timeout" /\ main = "collect" /\ main' = "get"
          /\ tally' = [tally EXCEPT !["timeouts"] = tally["timeouts"] + 1]
      BY <2>3 DEF WaitTimesOut, Collecting, Add
    <3>2. /\ tally'.total = tally.total /\ tally'.exceptions = tally.exceptions
          /\ tally'.completed = tally.completed /\ tally'.timeouts = tally.timeouts + 1
          /\ tally.completed \in Nat /\ tally.timeouts \in Nat /\ collected \in Nat
      BY <3>1, AsyncAssumption DEF TypeOK
    <3> QED
      BY <1>1, <2>1, <3>1, <3>2 DEF Tallied
  <2> QED
    BY <2>2, <2>3
<1> QED
  BY <1>2, <1>3, <1>4, <1>5

\* When the future whose turn it is has become ready, so have those before it.
LEMMA ReadyUpToTurn ==
    ASSUME FuturesInv, collected < NumTasks, shared[Turn] \in {"value", "exception"}
    PROVE  \A i \in Tasks : i <= Turn => shared[i] \in {"value", "exception"}
<1> USE DEF FuturesInv
<1> SUFFICES ASSUME NEW i \in Tasks, i <= Turn
             PROVE  shared[i] \in {"value", "exception"}
  OBVIOUS
<1>1. Turn \in Tasks /\ i \in Int /\ collected \in Int
  BY TurnIsNext, AsyncAssumption DEF Tasks, TypeOK
<1>2. CASE i <= collected
  BY <1>2 DEF Futures
<1>3. CASE pattern # "chain" /\ collected < i
  <2>1. i = Turn
    BY <1>1, <1>3, TurnIsNext
  <2> QED
    BY <2>1
<1>4. CASE pattern = "chain" /\ collected < i
  <2>1. shared[Turn] = "value"
    BY <1>1, <1>4 DEF Futures
  <2>2. Block(i) = Block(Turn)
    BY <1>4, TurnIsNext
  <2> QED
    BY <1>1, <1>4, <2>1, <2>2 DEF Chained
<1> QED
  BY <1>1, <1>2, <1>3, <1>4

\* Main is done with the future whose turn it is.
LEMMA MovesOn ==
    ASSUME FuturesInv, collected < NumTasks, main \in {"collect", "get"},
           collected' = Turn, main' = "collect", UNCHANGED <<pattern, workers, launched>>
    PROVE  /\ Phase' /\ collected' \in 0..NumTasks
           /\ shared' = shared /\ value' = value /\ shared[Turn] \in {"value", "exception"}
                => Futures' /\ Chained' /\ Promised'
<1> USE DEF FuturesInv
<1>1. Turn \in Tasks /\ Turn % Stride = 0
  BY TurnIsNext
<1>2. Phase'
  BY <1>1 DEF Phase, Stride, workers
<1>3. collected' \in 0..NumTasks
  BY <1>1, AsyncAssumption DEF Tasks
<1>4. ASSUME shared' = shared, value' = value, shared[Turn] \in {"value", "exception"}
      PROVE  Futures' /\ Chained' /\ Promised'
  <2>1. \A i \in Tasks : i <= Turn => shared[i] \in {"value", "exception"}
    BY <1>4, ReadyUpToTurn
  <2>2. \A i \in Tasks : Expected(i)' = Expected(i)
    BY DEF Expected
  <2>3. Futures'
    BY <1>4, <2>1, <2>2 DEF Futures
  <2> QED
    BY <1>4, <2>3, Untouched
<1> QED
  BY <1>2, <1>3, <1>4

\* What main adds up over the tasks collected so far is finite.
LEMMA TallyTypes ==
    ASSUME FuturesInv
    PROVE  /\ collected \in Nat /\ tally.total \in Nat /\ tally.exceptions \in Nat
           /\ tally.completed \in Nat /\ tally.timeouts \in Nat
           /\ DOMAIN tally = {"total", "exceptions", "completed", "timeouts"}
           /\ IsFiniteSet(1..collected) /\ IsFiniteSet(Threw)
           /\ IsFiniteSet((1..collected) \ Threw)
<1>1. /\ collected \in Nat /\ tally.total \in Nat /\ tally.exceptions \in Nat
      /\ tally.completed \in Nat /\ tally.timeouts \in Nat
      /\ DOMAIN tally = {"total", "exceptions", "completed", "timeouts"}
  BY AsyncAssumption DEF FuturesInv, TypeOK
<1>2. IsFiniteSet(1..collected)
  BY <1>1, FS_Interval
<1>3. Threw \subseteq 1..collected /\ (1..collected) \ Threw \subseteq 1..collected
  BY DEF Threw
<1> QED
  BY <1>1, <1>2, <1>3, FS_Subset

\* What the next future, if it is one alone, adds to the tasks added up so far.
LEMMA OneMore ==
    ASSUME FuturesInv, collected < NumTasks, collected' = Turn, pattern # "chain",
           \A i \in 1..collected : shared'[i] = shared[i]
    PROVE  /\ Turn \notin 1..collected /\ Turn \in Nat /\ Turn = collected + 1
           /\ shared'[Turn] # "exception" =>
                /\ Threw' = Threw
                /\ (1..collected') \ Threw' = ((1..collected) \ Threw) \cup {Turn}
           /\ shared'[Turn] = "exception" =>
                /\ Cardinality(Threw') = Cardinality(Threw) + 1
                /\ (1..collected') \ Threw' = (1..collected) \ Threw
<1>1. Turn = collected + 1 /\ collected \in Nat /\ IsFiniteSet(Threw)
  BY TurnIsNext, TallyTypes
<1> HIDE DEF Turn
<1>2. Turn \in Nat /\ Turn \notin 1..collected /\ 1..collected' = (1..collected) \cup {Turn}
  BY <1>1
<1>3. Turn \notin Threw /\ Threw \subseteq 1..collected
  BY <1>2 DEF Threw
<1>4. ASSUME shared'[Turn] # "exception"
      PROVE  Threw' = Threw
  BY <1>2, <1>4 DEF Threw
<1>5. ASSUME shared'[Turn] = "exception"
      PROVE  Threw' = Threw \cup {Turn}
  BY <1>2, <1>5 DEF Threw
<1>6. ASSUME shared'[Turn] = "exception"
      PROVE  Cardinality(Threw') = Cardinality(Threw) + 1
  <2>1. Cardinality(Threw \cup {Turn}) = Cardinality(Threw) + 1
    BY <1>1, <1>3, FS_AddElement
  <2> QED
    BY <1>5, <1>6, <2>1
<1> QED
  BY <1>1, <1>2, <1>3, <1>4, <1>5, <1>6

\* Main adds the value of the turn.
LEMMA ValueAdded ==
    ASSUME FuturesInv, Collecting, pattern # "timeout", collected' = Turn, main' = main,
           pattern' = pattern, Add("total", Expected(Turn)),
           \A i \in Tasks : i # Turn => shared'[i] = shared[i], shared'[Turn] = "value"
    PROVE  Tallied' /\ tally' \in [{"total", "exceptions", "completed", "timeouts"} -> Nat]
<1> USE DEF FuturesInv
<1>1. collected < NumTasks /\ main = "collect"
  BY DEF Collecting
<1>2. /\ collected \in Nat /\ tally.total \in Nat /\ tally.exceptions \in Nat
      /\ tally.completed \in Nat /\ tally.timeouts \in Nat
      /\ DOMAIN tally = {"total", "exceptions", "completed", "timeouts"}
      /\ IsFiniteSet((1..collected) \ Threw)
  BY TallyTypes
<1>3. Turn \in Tasks /\ collected < Turn /\ Turn \in Nat
  BY <1>1, TurnIsNext DEF Tasks
<1>4. Expected(Turn) \in Nat
  BY <1>3, ResultType
<1>5. /\ tally' \in [{"total", "exceptions", "completed", "timeouts"} -> Nat]
      /\ tally'.total = tally.total + Expected(Turn)
      /\ tally'.exceptions = tally.exceptions
      /\ tally'.completed = tally.completed /\ tally'.timeouts = tally.timeouts
  BY <1>2, <1>4 DEF Add, TypeOK
<1>6. \A i \in 1..collected : i \in Tasks /\ i # Turn
  BY <1>1, <1>2, <1>3, AsyncAssumption DEF Tasks
<1>7. CASE pattern = "chain"
  <2>1. Turn = collected + ChainLength /\ (Turn - 1) % ChainLength = ChainLength - 1
    BY <1>1, <1>7, TurnIsNext
  <2>2. Expected(Turn) = ((Turn - 1) % ChainLength) + 1
    BY <1>7 DEF Expected
  <2>3. ChainLength \in Nat
    BY AsyncAssumption
  <2>4. Expected(Turn) = ChainLength
    BY <2>1, <2>2, <2>3
  <2>5. Threw = {} /\ Threw' = {}
    <3>1. \A i \in Tasks : shared[i] # "exception"
      BY <1>7 DEF Futures
    <3>2. \A i \in Tasks : shared'[i] # "exception"
      BY <3>1
    <3>3. \A i \in 1..collected' : i \in Tasks
      BY <1>3, AsyncAssumption DEF Tasks
    <3> QED
      BY <1>6, <3>1, <3>2, <3>3 DEF Threw
  <2>6. tally.total = collected /\ tally.exceptions = Cardinality({})
        /\ tally.completed + tally.timeouts = 0
    BY <1>7, <2>5 DEF Tallied
  <2>7. tally'.total = collected'
    BY <1>2, <1>5, <2>1, <2>3, <2>4, <2>6
  <2> QED
    BY <1>5, <1>7, <2>5, <2>6, <2>7 DEF Tallied
<1>8. CASE pattern # "chain"
  <2>1. Expected(Turn) = Turn
    BY <1>8 DEF Expected
  <2>2. \A i \in 1..collected : shared'[i] = shared[i]
    BY <1>6
  <2>3. /\ Turn \notin 1..collected
        /\ Threw' = Threw
        /\ (1..collected') \ Threw' = ((1..collected) \ Threw) \cup {Turn}
    BY <1>1, <1>8, <2>2, OneMore
  <2> DEFINE S == (1..collected) \ Threw
  <2>4. SumSet(S \cup {Turn}) = SumSet(S) + Turn
    <3>1. S \in SUBSET Nat /\ Turn \notin S /\ IsFiniteSet(S)
      BY <1>2, <2>3
    <3> HIDE DEF S
    <3> QED
      BY <1>3, <3>1, SetSumAdds
  <2>5. tally.total = SumSet(S)
    BY <1>8 DEF Tallied
  <2>6. tally'.total = SumSet((1..collected') \ Threw')
    BY <1>5, <2>1, <2>3, <2>4, <2>5
  <2>7. tally.exceptions = Cardinality(Threw) /\ tally.completed + tally.timeouts = 0
    BY DEF Tallied
  <2> QED
    BY <1>5, <1>8, <2>3, <2>6, <2>7 DEF Tallied
<1> QED
  BY <1>5, <1>7, <1>8

\* get() returns the value of a task that has ended.
LEMMA GetKeeps ==
    ASSUME FuturesInv, Get
    PROVE  FuturesInv'
<1> USE DEF FuturesInv
<1>1. /\ Collecting /\ collected < NumTasks /\ main = "collect" /\ pattern # "timeout"
      /\ shared[Turn] = "value" /\ Add("total", value[Turn]) /\ collected' = Turn
      /\ UNCHANGED <<pattern, shared, value, workers, main, launched>>
  BY DEF Get, Collecting
<1>2. Turn \in Tasks
  BY <1>1, TurnIsNext
<1>3. value[Turn] = Expected(Turn)
  BY <1>1, <1>2 DEF Futures
<1>4. Phase' /\ collected' \in 0..NumTasks /\ Futures' /\ Chained' /\ Promised'
  BY <1>1, MovesOn
<1>5. Tallied' /\ tally' \in [{"total", "exceptions", "completed", "timeouts"} -> Nat]
  BY <1>1, <1>3, ValueAdded
<1>6. TypeOK'
  BY <1>1, <1>4, <1>5 DEF TypeOK, workers
<1> QED
  BY <1>4, <1>5, <1>6

\* get() runs a task that was deferred.
LEMMA GetDeferredKeeps ==
    ASSUME FuturesInv, GetDeferred
    PROVE  FuturesInv'
<1> USE DEF FuturesInv
<1>1. /\ Collecting /\ collected < NumTasks /\ main = "collect"
      /\ shared[Turn] = "deferred" /\ Add("total", Result(Turn)) /\ collected' = Turn
      /\ shared' = [shared EXCEPT ![Turn] = "value"]
      /\ value' = [value EXCEPT ![Turn] = Result(Turn)]
      /\ UNCHANGED <<pattern, workers, main, launched>>
  BY DEF GetDeferred, Collecting, Finish
<1>2. Turn \in Tasks
  BY <1>1, TurnIsNext
<1>3. pattern = "deferred"
  BY <1>1, <1>2 DEF Futures
<1>4. Turn = collected + 1
  BY <1>1, <1>3, TurnIsNext
<1>5. Result(Turn) = Expected(Turn) /\ Expected(Turn) \in 0..NumTasks
  BY <1>2, <1>3, ResultIsExpected, ResultType
<1>6. Phase' /\ collected' \in 0..NumTasks
  BY <1>1, MovesOn
<1>7. /\ shared'[Turn] = "value" /\ value'[Turn] = Expected(Turn)
      /\ \A i \in Tasks : i # Turn => shared'[i] = shared[i] /\ value'[i] = value[i]
  BY <1>1, <1>2, <1>5 DEF TypeOK
<1>8. Tallied' /\ tally' \in [{"total", "exceptions", "completed", "timeouts"} -> Nat]
  BY <1>1, <1>3, <1>5, <1>7, ValueAdded
<1>9. TypeOK'
  BY <1>1, <1>2, <1>5, <1>6, <1>8 DEF TypeOK, workers
<1>10. Futures'
  <2>1. \A k \in Tasks : Expected(k)' = Expected(k)
    BY <1>1 DEF Expected
  <2>2. ASSUME NEW k \in Tasks
        PROVE  value'[k] = IF shared'[k] = "value" THEN Expected(k) ELSE 0
    <3>1. value[k] = IF shared[k] = "value" THEN Expected(k) ELSE 0
      BY DEF Futures
    <3> QED
      BY <1>7, <3>1
  <2>3. launched = NumTasks /\ NumTasks \in Nat /\ collected \in Nat
    BY <1>1, <1>3, AsyncAssumption DEF Phase, TypeOK
  <2>4. ASSUME NEW k \in Tasks
        PROVE  /\ shared'[k] # "exception" /\ shared'[k] # "running" /\ shared'[k] # "none"
               /\ k <= Turn => shared'[k] \in {"value", "exception"}
    <3>1. CASE k = Turn
      BY <1>7, <3>1
    <3>2. CASE k # Turn
      <4>1. k \in Int /\ ~(k > launched)
        BY <2>3 DEF Tasks
      <4>2. shared'[k] = shared[k] /\ (k <= Turn => k <= collected)
        BY <1>4, <1>7, <2>3, <3>2, <4>1
      <4>3. /\ shared[k] # "exception" /\ shared[k] # "running" /\ shared[k] # "none"
            /\ k <= collected => shared[k] \in {"value", "exception"}
        BY <1>3, <4>1 DEF Futures
      <4> QED
        BY <4>2, <4>3
    <3> QED
      BY <3>1, <3>2
  <2>5. \A k \in Tasks : ~(k > launched)
    BY <2>3 DEF Tasks
  <2> QED
    BY <1>1, <1>3, <2>1, <2>2, <2>4, <2>5 DEF Futures
<1>11. Chained' /\ Promised'
  BY <1>1, <1>3 DEF Chained, Promised, workers
<1> QED
  BY <1>6, <1>8, <1>9, <1>10, <1>11

\* get() throws, or main is done with a future it has waited for with a limit.
LEMMA OthersCollected ==
    ASSUME FuturesInv, GetThrows \/ WaitInTime \/ GetLate
    PROVE  FuturesInv'
<1> USE DEF FuturesInv
<1>1. /\ main \in {"collect", "get"} /\ main' = "collect"
      /\ collected < NumTasks /\ collected' = Turn
      /\ shared[Turn] \in {"value", "exception"}
      /\ UNCHANGED <<pattern, shared, value, workers, launched>>
  BY DEF GetThrows, WaitInTime, GetLate, Collecting, Phase
<1>2. Phase' /\ collected' \in 0..NumTasks /\ Futures' /\ Chained' /\ Promised'
  BY <1>1, MovesOn
<1>3. /\ collected \in Nat /\ tally.total \in Nat /\ tally.exceptions \in Nat
      /\ tally.completed \in Nat /\ tally.timeouts \in Nat
      /\ DOMAIN tally = {"total", "exceptions", "completed", "timeouts"}
  BY TallyTypes
<1>4. TypeOK'
  <2>1. tally' \in [{"total", "exceptions", "completed", "timeouts"} -> Nat]
    BY <1>3 DEF GetThrows, WaitInTime, GetLate, Add, TypeOK
  <2> QED
    BY <1>1, <1>2, <2>1 DEF TypeOK, workers
<1>5. Turn \in Tasks
  BY <1>1, TurnIsNext
<1>6. Tallied'
  <2>1. CASE GetThrows
    <3>1. /\ shared[Turn] = "exception" /\ main = "collect" /\ main' = "collect"
          /\ tally' = [tally EXCEPT !["exceptions"] = tally["exceptions"] + 1]
      BY <2>1 DEF GetThrows, Collecting, Add
    <3>2. pattern = "risky"
      BY <1>5, <3>1 DEF Futures
    <3>3. /\ Cardinality(Threw') = Cardinality(Threw) + 1
          /\ (1..collected') \ Threw' = (1..collected) \ Threw
      BY <1>1, <3>1, <3>2, OneMore
    <3>4. /\ tally'.total = tally.total /\ tally'.exceptions = tally.exceptions + 1
          /\ tally'.completed = tally.completed /\ tally'.timeouts = tally.timeouts
      BY <3>1 DEF TypeOK
    <3> QED
      BY <1>1, <3>2, <3>3, <3>4 DEF Tallied
  <2>2. CASE WaitInTime \/ GetLate
    <3>1. pattern = "timeout" /\ shared[Turn] = "value"
      BY <2>2 DEF WaitInTime, GetLate, Phase
    <3>2. Threw' = Threw /\ Turn = collected + 1
      BY <1>1, <3>1, OneMore
    <3>3. tally'.total = tally.total /\ tally'.exceptions = tally.exceptions
      BY <2>2 DEF WaitInTime, GetLate, Add, TypeOK
    <3>4. tally.completed + tally.timeouts = collected + (IF main = "get" THEN 1 ELSE 0)
      BY <3>1 DEF Tallied
    <3>5. tally'.completed + tally'.timeouts = collected'
      <4>1. CASE WaitInTime
        <5>1. /\ main = "collect"
              /\ tally'.completed = tally.completed + 1 /\ tally'.timeouts = tally.timeouts
          BY <4>1 DEF WaitInTime, Collecting, Add, TypeOK
        <5> QED
          BY <1>1, <1>3, <3>2, <3>4, <5>1
      <4>2. CASE GetLate
        <5>1. main = "get" /\ tally' = tally
          BY <4>2 DEF GetLate
        <5> QED
          BY <1>1, <1>3, <3>2, <3>4, <5>1
      <4> QED
        BY <2>2, <4>1, <4>2
    <3>6. tally.total = 0 /\ tally.exceptions = Cardinality(Threw)
      BY <3>1 DEF Tallied
    <3>7. collected' \in Nat /\ main' # "get" /\ pattern' = "timeout"
      BY <1>1, <1>2, <3>1, AsyncAssumption
    <3> QED
      BY <3>2, <3>3, <3>5, <3>6, <3>7 DEF Tallied
  <2> QED
    BY <2>1, <2>2
<1> QED
  BY <1>2, <1>4, <1>6

\* The invariant is kept by every step.
LEMMA FuturesStep == FuturesInv /\ [Next]_vars => FuturesInv'
<1> SUFFICES ASSUME FuturesInv, [Next]_vars
             PROVE  FuturesInv'
  OBVIOUS
<1>1. CASE UNCHANGED vars
  <2>1. TypeOK'
    BY <1>1 DEF vars, FuturesInv, TypeOK
  <2>2. Futures' /\ Chained' /\ Promised' /\ Phase' /\ Tallied'
    BY <1>1, Untouched DEF vars, workers
  <2> QED
    BY <2>1, <2>2 DEF FuturesInv
<1>2. CASE Over
  BY <1>1, <1>2 DEF Over
<1>3. ASSUME NEW i \in Tasks, Run(i)
      PROVE  FuturesInv'
  BY <1>3, RunKeeps
<1>4. ASSUME NEW w \in Workers, WorkerStep(w)
      PROVE  FuturesInv'
  BY <1>4, ClaimKeeps, SetPromiseKeeps DEF WorkerStep
<1>5. CASE MainStep
  BY <1>5, LaunchKeeps, MainTurnsKeep, GetKeeps, GetDeferredKeeps, OthersCollected DEF MainStep
<1> QED
  BY <1>1, <1>2, <1>3, <1>4, <1>5 DEF Next

-----------------------------------------------------------------------------
(* The theorems *)

\* The inductive invariant of the async and future benchmarks.
THEOREM FuturesInvariance == Spec => []FuturesInv
  BY FuturesInit, FuturesStep, PTL DEF Spec

\* A worker about to set a promise (line 160) finds it unset, and nobody else has
\* claimed it: no set_value throws, for any number of workers and tasks.
THEOREM EveryPromiseOnce == Spec => []PromisesSetOnce
<1>1. FuturesInv => PromisesSetOnce
  BY DEF FuturesInv, Promised, PromisesSetOnce
<1> QED
  BY <1>1, FuturesInvariance, PTL

\* When an iteration is over, so are all its tasks and workers, the tasks that were
\* late included (line 271).
THEOREM AllEnded == Spec => []NothingOutlives
<1>1. FuturesInv => NothingOutlives
  <2> SUFFICES ASSUME FuturesInv, main = "over"
               PROVE  /\ \A i \in Tasks : shared[i] \in {"value", "exception"}
                      /\ \A w \in Workers : wpc[w] = "out"
    BY DEF NothingOutlives
  <2>1. collected = NumTasks
    BY DEF FuturesInv, Phase
  <2>2. \A i \in Tasks : i <= collected
    BY <2>1, AsyncAssumption DEF Tasks
  <2>3. \A i \in Tasks : shared[i] \in {"value", "exception"}
    BY <2>2 DEF FuturesInv, Futures
  <2>4. \A w \in Workers : wpc[w] = "out"
    BY DEF FuturesInv, Promised, Phase
  <2> QED
    BY <2>3, <2>4
<1> QED
  BY <1>1, FuturesInvariance, PTL

\* What the iteration reports is what its tasks did, in whatever order they ended:
\* the sum of their values, the number of exceptions, and every task in time or late.
THEOREM TallyMatches == Spec => []TallyComplete
<1>1. FuturesInv => TallyComplete
  <2> DEFINE threw == {i \in Tasks : shared[i] = "exception"}
  <2> SUFFICES ASSUME FuturesInv, main = "over"
               PROVE  /\ tally.total = CASE pattern = "chain" -> NumTasks
                                         [] pattern = "timeout" -> 0
                                         [] OTHER -> SumSet(Tasks \ threw)
                      /\ tally.exceptions = Cardinality(threw)
                      /\ tally.completed + tally.timeouts =
                           IF pattern = "timeout" THEN NumTasks ELSE 0
    BY DEF TallyComplete
  <2>1. collected = NumTasks
    BY DEF FuturesInv, Phase
  <2>2. 1..collected = Tasks /\ Threw = threw
    BY <2>1 DEF Tasks, Threw
  <2> HIDE DEF threw
  <2>3. tally.total = CASE pattern = "chain" -> NumTasks
                        [] pattern = "timeout" -> 0
                        [] OTHER -> SumSet(Tasks \ threw)
    BY <2>1, <2>2 DEF FuturesInv, Tallied
  <2>4. tally.exceptions = Cardinality(threw)
    BY <2>2 DEF FuturesInv, Tallied
  <2>5. tally.completed + tally.timeouts = IF pattern = "timeout" THEN NumTasks ELSE 0
    BY <2>1, AsyncAssumption DEF FuturesInv, Tallied
  <2> QED
    BY <2>3, <2>4, <2>5
<1> QED
  BY <1>1, FuturesInvariance, PTL

-----------------------------------------------------------------------------
(* Results stay, and nobody waits for a result that nobody makes *)

\* What a task has ended with is not changed any more.
ResultsStay == \A i \in Tasks : shared[i] \in {"value", "exception"} =>
                                  shared'[i] = shared[i] /\ value'[i] = value[i]

\* Only tasks that are running, or deferred, end.
LEMMA FinishElsewhere ==
    ASSUME TypeOK, NEW k, shared[k] \in {"running", "deferred"}, NEW o, Finish(k, o)
    PROVE  ResultsStay
<1> SUFFICES ASSUME NEW i \in Tasks, shared[i] \in {"value", "exception"}
             PROVE  shared'[i] = shared[i] /\ value'[i] = value[i]
  BY DEF ResultsStay
<1>1. i # k
  OBVIOUS
<1> QED
  BY <1>1 DEF Finish, TypeOK

\* A result that a future has is never replaced, by no thread of std::async, no
\* worker that sets promises and not by main: get() gives what the task made.
THEOREM ResultsFinal == Spec => [][ResultsStay]_vars
<1>1. FuturesInv /\ [Next]_vars => [ResultsStay]_vars
  <2> SUFFICES ASSUME FuturesInv, Next
               PROVE  ResultsStay \/ UNCHANGED vars
    OBVIOUS
  <2>1. TypeOK
    BY DEF FuturesInv
  <2>2. ASSUME NEW i \in Tasks, Run(i)
        PROVE  ResultsStay
    <3>1. PICK o : Finish(i, o)
      BY <2>2 DEF Run
    <3>2. shared[i] = "running"
      BY <2>2 DEF Run
    <3> QED
      BY <2>1, <3>1, <3>2, FinishElsewhere
  <2>3. ASSUME NEW w \in Workers, SetPromise(w)
        PROVE  ResultsStay
    <3>1. wpc[w] = "work" /\ Finish(job[w], "value")
      BY <2>3 DEF SetPromise
    <3>2. shared[job[w]] = "running"
      BY <3>1 DEF FuturesInv, Promised
    <3> QED
      BY <2>1, <3>1, <3>2, FinishElsewhere
  <2>4. CASE GetDeferred
    <3>1. shared[Turn] = "deferred" /\ Finish(Turn, "value")
      BY <2>4 DEF GetDeferred
    <3> QED
      BY <2>1, <3>1, FinishElsewhere
  <2>5. CASE Launch
    <3>1. /\ launched + 1 \in Tasks /\ launched + 1 > launched
          /\ pattern # "promise" /\ UNCHANGED value
          /\ \E v : shared' = [shared EXCEPT ![launched + 1] = v]
      <4>1. launched \in 0..NumTasks /\ launched < NumTasks
        BY <2>1, <2>5 DEF Launch, TypeOK
      <4>2. launched + 1 \in Tasks /\ launched + 1 > launched
        BY <4>1, AsyncAssumption DEF Tasks
      <4>3. pattern # "promise"
        BY <2>5 DEF Launch, FuturesInv, Phase
      <4>4. PICK v : shared' = [shared EXCEPT ![launched + 1] = v]
        BY <2>5 DEF Launch
      <4> QED
        BY <2>5, <4>2, <4>3, <4>4 DEF Launch
    <3>2. shared[launched + 1] = "none"
      BY <3>1 DEF FuturesInv, Futures
    <3>3. ASSUME NEW i \in Tasks, shared[i] \in {"value", "exception"}
          PROVE  shared'[i] = shared[i] /\ value'[i] = value[i]
      <4>1. i # launched + 1
        BY <3>2, <3>3
      <4> QED
        BY <2>1, <3>1, <4>1 DEF TypeOK
    <3> QED
      BY <3>3 DEF ResultsStay
  <2>6. ASSUME UNCHANGED <<shared, value>>
        PROVE  ResultsStay
    BY <2>6 DEF ResultsStay
  <2>7. ASSUME NEW w \in Workers, Claim(w)
        PROVE  ResultsStay
    BY <2>6, <2>7 DEF Claim
  <2>8. CASE \/ Launched \/ Join \/ Get \/ GetThrows \/ WaitInTime \/ WaitTimesOut
             \/ GetLate \/ Report
    BY <2>6, <2>8 DEF Launched, Join, Get, GetThrows, WaitInTime, WaitTimesOut, GetLate,
                      Report
  <2>9. CASE Over
    BY <2>9 DEF Over
  <2> QED
    BY <2>2, <2>3, <2>4, <2>5, <2>7, <2>8, <2>9 DEF Next, WorkerStep, MainStep
<1> QED
  BY <1>1, FuturesInvariance, PTL DEF Spec

\* A task can run, a worker can claim or set, main can go on: the guards of the
\* actions of AsyncFutures.
TaskMoves(i) == /\ pattern # "promise" /\ shared[i] = "running"
                /\ pattern = "chain" /\ ~First(i) => shared[i - 1] = "value"
PromiseMoves(w) == wpc[w] \in {"claim", "work"}
CollectorMoves ==
    \/ main = "launch"
    \/ main = "join" /\ \A w \in Workers : wpc[w] = "out"
    \/ Collecting /\ pattern # "timeout" /\ shared[Turn] = "value"
    \/ Collecting /\ shared[Turn] \in {"deferred", "exception"}
    \/ Collecting /\ pattern = "timeout" /\ shared[Turn] \in {"value", "running"}
    \/ main = "get" /\ shared[Turn] = "value"
    \/ main = "collect" /\ collected = NumTasks

SomebodyMoves == \/ \E i \in Tasks : TaskMoves(i)
                 \/ \E w \in Workers : PromiseMoves(w)
                 \/ CollectorMoves

\* When the workers are joined every promise has been set, if there was a worker.
LEMMA JoinedAllSet ==
    ASSUME FuturesInv, pattern = "promise", main # "join", NEW i \in Tasks
    PROVE  shared[i] = "value"
<1>1. \A w \in Workers : wpc[w] = "out"
  BY DEF FuturesInv, Phase
<1>2. DOMAIN wpc = Workers
  BY DEF FuturesInv, TypeOK
<1>3. At(wpc, "out") = Workers
  BY <1>1, <1>2 DEF At
<1>4. Cardinality(Workers) # 0
  BY AsyncAssumption, FS_EmptySet
<1>5. task_index > NumTasks
  BY <1>3, <1>4 DEF FuturesInv, Promised
<1>6. /\ i \in Nat /\ i <= NumTasks /\ NumTasks \in Nat /\ task_index \in Nat
  BY AsyncAssumption, FS_CardinalityType DEF Tasks, FuturesInv, TypeOK
<1>7. ~(i > task_index)
  BY <1>5, <1>6
<1> QED
  BY <1>1, <1>7 DEF FuturesInv, Promised

\* While a task is running whose thread is one of std::async, one of them can run:
\* the first of those that are running has nobody to wait for.
LEMMA RunningMoves ==
    ASSUME FuturesInv, pattern # "promise", main # "launch",
           NEW k \in Tasks, shared[k] = "running"
    PROVE  \E i \in Tasks : TaskMoves(i)
<1> DEFINE running == {i \in Tasks : shared[i] = "running"}
<1>1. running \in SUBSET Nat /\ running # {}
  BY DEF Tasks
<1>2. PICK m \in running : \A i \in running : m <= i
  BY <1>1, LeastNumber
<1>3. m \in Tasks /\ m \in Nat /\ m > 0 /\ shared[m] = "running" /\ m <= NumTasks
  BY <1>2 DEF Tasks
<1>4. ASSUME pattern = "chain", ~First(m)
      PROVE  shared[m - 1] = "value"
  <2>1. m - 1 \in Nat /\ m - 1 > 0
    BY <1>3, <1>4, StepBefore
  <2>2. m - 1 \in Tasks /\ ~(m <= m - 1)
    BY <1>3, <2>1, AsyncAssumption DEF Tasks
  <2>3. shared[m - 1] # "running"
    BY <1>2, <2>2
  <2>4. shared[m - 1] \in {"none", "deferred", "running", "value", "exception"}
    BY <2>2 DEF FuturesInv, TypeOK
  <2>5. launched = NumTasks /\ ~(m - 1 > launched)
    BY <1>3, <2>1, AsyncAssumption DEF FuturesInv, Phase
  <2> QED
    BY <1>4, <2>2, <2>3, <2>4, <2>5 DEF FuturesInv, Futures
<1> QED
  BY <1>3, <1>4 DEF TaskMoves

\* No iteration comes to a point where everybody waits for somebody: main in get()
\* or wait_for() for a task, a task for the one before it in its chain (line 308).
\* That the promises are set takes a worker: with none (line 134, when
\* hardware_concurrency() is 0) main would wait at line 176 for ever.
THEOREM FuturesNeverStuck == Spec => [](main # "over" => SomebodyMoves)
<1>1. FuturesInv => (main # "over" => SomebodyMoves)
  <2> SUFFICES ASSUME FuturesInv, main # "over", ~SomebodyMoves
               PROVE  FALSE
    OBVIOUS
  <2>1. ~CollectorMoves /\ \A w \in Workers : ~PromiseMoves(w)
    BY DEF SomebodyMoves
  <2>2. \A w \in Workers : wpc[w] = "out"
    BY <2>1 DEF PromiseMoves, FuturesInv, TypeOK
  <2>3. main \in {"collect", "get"}
    BY <2>1, <2>2 DEF CollectorMoves, FuturesInv, TypeOK
  <2>4. collected < NumTasks
    <3>1. collected \in 0..NumTasks /\ NumTasks \in Nat
      BY AsyncAssumption DEF FuturesInv, TypeOK
    <3>2. main = "collect" => collected # NumTasks
      BY <2>1 DEF CollectorMoves
    <3>3. main = "get" => collected < NumTasks
      BY DEF FuturesInv, Phase
    <3> QED
      BY <2>3, <3>1, <3>2, <3>3
  <2>5. Turn \in Tasks
    BY <2>4, TurnIsNext
  <2>6. shared[Turn] \in {"none", "deferred", "running", "value", "exception"}
    BY <2>5 DEF FuturesInv, TypeOK
  <2>7. shared[Turn] # "none"
    <3>1. pattern # "promise" => launched = NumTasks
      BY <2>3 DEF FuturesInv, Phase
    <3>2. Turn <= NumTasks /\ Turn \in Nat /\ NumTasks \in Nat
      BY <2>5, AsyncAssumption DEF Tasks
    <3>3. pattern # "promise" => ~(Turn > launched)
      BY <3>1, <3>2
    <3> QED
      BY <2>5, <3>3 DEF FuturesInv, Futures
  <2>8. shared[Turn] # "running"
    <3>1. CASE pattern = "promise"
      BY <2>3, <2>5, <3>1, JoinedAllSet
    <3>2. CASE pattern # "promise"
      BY <2>3, <2>5, <3>2, RunningMoves DEF SomebodyMoves
    <3> QED
      BY <3>1, <3>2
  <2>9. CASE main = "collect"
    BY <2>1, <2>4, <2>6, <2>7, <2>8, <2>9 DEF CollectorMoves, Collecting
  <2>10. CASE main = "get"
    <3>1. pattern = "timeout"
      BY <2>10 DEF FuturesInv, Phase
    <3>2. shared[Turn] # "deferred" /\ shared[Turn] # "exception"
      BY <2>5, <3>1 DEF FuturesInv, Futures
    <3> QED
      BY <2>1, <2>6, <2>7, <2>8, <2>10, <3>2 DEF CollectorMoves
  <2> QED
    BY <2>3, <2>9, <2>10
<1> QED
  BY <1>1, FuturesInvariance, PTL
=============================================================================
