----------------------------- MODULE FoldLemmas -----------------------------
(***************************************************************************)
(* Induction for the proofs, in a form that takes a set where the library  *)
(* takes an operator: the least counterexample, induction over the natural *)
(* numbers, and the function that SequencesExt!FoldLeft computes with.     *)
(***************************************************************************)
EXTENDS Integers, FiniteSetsExt, WellFoundedInduction, TLAPS

\* Every non-empty set of natural numbers has a least element.
LEMMA LeastNumber ==
  ASSUME NEW T \in SUBSET Nat, T # {}
  PROVE  \E x \in T : \A y \in T : x <= y
<1> DEFINE less == OpToRel(<, Nat)
<1>1. IsWellFoundedOn(less, Nat)
  BY NatLessThanWellFounded
<1>2. \A y, x \in Nat : y < x => <<y, x>> \in less
  BY DEF OpToRel
<1> HIDE DEF less
<1>3. PICK x \in T : \A y \in T : <<y, x>> \notin less
  BY <1>1, WFMin
<1>4. \A y \in T : x \in Nat /\ y \in Nat /\ ~(y < x)
  BY <1>2, <1>3
<1> QED
  BY <1>4

\* Induction: a set of natural numbers that holds 0 and with each number the
\* next one holds them all.
LEMMA NatSetInduction ==
  ASSUME NEW S, 0 \in S, \A n \in Nat : n \in S => n + 1 \in S
  PROVE  \A n \in Nat : n \in S
<1> DEFINE T == {n \in Nat : n \notin S}
<1> SUFFICES ASSUME T # {} PROVE FALSE
  OBVIOUS
<1>1. PICK x \in T : \A y \in T : x <= y
  BY LeastNumber
<1>2. x # 0 /\ x \in Nat
  OBVIOUS
<1>3. x - 1 \in Nat /\ x - 1 \notin T
  BY <1>1, <1>2
<1>4. (x - 1) + 1 \in S
  BY <1>3
<1>5. (x - 1) + 1 = x
  BY <1>2
<1> QED
  BY <1>4, <1>5

\* The largest element of a set whose elements lie below one of its own.
LEMMA MaxOf ==
  ASSUME NEW n \in Nat, NEW s \in SUBSET (1..n), n \in s
  PROVE  Max(s) = n
<1> DEFINE P(x) == x \in s /\ \A y \in s : x >= y
<1>1. P(n) /\ \A x : P(x) => x = n
  <2>1. \A y \in s : y \in Int /\ n >= y
    OBVIOUS
  <2>2. \A x : P(x) => x \in Int /\ n >= x /\ x >= n
    BY <2>1
  <2> QED
    BY <2>1, <2>2
<1>2. Max(s) = CHOOSE x : P(x)
  BY DEF Max
<1> HIDE DEF P
<1> QED
  BY <1>1, <1>2

\* A non-empty finite set of numbers has its maximum in it.
LEMMA MaxIn ==
  ASSUME NEW n \in Nat, NEW s \in SUBSET (1..n), s # {}
  PROVE  Max(s) \in s
<1> DEFINE T == {n - i : i \in s}
<1>0. \A i \in s : i \in Int /\ n - i \in Nat
  OBVIOUS
<1>1. T \in SUBSET Nat /\ T # {}
  BY <1>0
<1>2. PICK x \in T : \A y \in T : x <= y
  BY <1>1, LeastNumber
<1>3. PICK i \in s : x = n - i
  BY <1>2
<1>4. \A j \in s : n - i <= n - j
  BY <1>2, <1>3
<1>5. \A j \in s : i >= j
  <2> HIDE DEF T
  <2> QED
    BY <1>0, <1>4
<1> QED
  BY <1>5 DEF Max

\* f folds over the subsets of 1..N, the largest element last: next[<<x, i>>] is
\* x after the i-th element.
IsFold(f, N, base, next) ==
  f = [s \in SUBSET (1..N) |->
         IF s = {} THEN base ELSE next[<<f[s \ {Max(s)}], Max(s)>>]]

\* There is such a function, and it stays in the set that next stays in.
LEMMA FoldExists ==
  ASSUME NEW X, NEW base \in X, NEW N \in Nat, NEW next \in [X \X (1..N) -> X]
  PROVE  \E f \in [SUBSET (1..N) -> X] : IsFold(f, N, base, next)
<1> DEFINE Fn(n) == [SUBSET (1..n) -> X]
           S == {n \in Nat : n <= N => \E f \in Fn(n) : IsFold(f, n, base, next)}
<1>1. 0 \in S
  <2> DEFINE f == [s \in SUBSET (1..0) |-> base]
  <2>1. \A s \in SUBSET (1..0) : s = {}
    OBVIOUS
  <2>2. f \in Fn(0) /\ IsFold(f, 0, base, next)
    BY <2>1 DEF IsFold
  <2> HIDE DEF Fn, f
  <2> QED
    BY <2>2
<1>2. ASSUME NEW n \in Nat, n \in S PROVE n + 1 \in S
  <2> SUFFICES ASSUME n + 1 <= N
               PROVE  \E f \in Fn(n + 1) : IsFold(f, n + 1, base, next)
    OBVIOUS
  <2>1. PICK f \in Fn(n) : IsFold(f, n, base, next)
    <3> HIDE DEF Fn
    <3> QED
      BY <1>2
  <2> DEFINE m == n + 1
             g == [s \in SUBSET (1..m) |->
                     IF m \in s THEN next[<<f[s \ {m}], m>>] ELSE f[s]]
  <2>0. \A i \in 1..m : i # m => i \in 1..n
    OBVIOUS
  <2>2. ASSUME NEW s \in SUBSET (1..m), m \in s
        PROVE  g[s] = next[<<g[s \ {Max(s)}], Max(s)>>] /\ s # {} /\ g[s] \in X
    <3>1. Max(s) = m /\ m \in 1..N
      BY <2>2, MaxOf
    <3>2. s \ {m} \in SUBSET (1..m) /\ m \notin s \ {m} /\ s \ {m} \in SUBSET (1..n)
      BY <2>0
    <3>3. g[s \ {m}] = f[s \ {m}] /\ f[s \ {m}] \in X
      BY <2>1, <3>2
    <3> QED
      BY <2>2, <3>1, <3>3
  <2>3. ASSUME NEW s \in SUBSET (1..m), m \notin s
        PROVE  /\ g[s] = IF s = {} THEN base ELSE next[<<g[s \ {Max(s)}], Max(s)>>]
               /\ g[s] \in X
    <3>1. s \in SUBSET (1..n) /\ s \ {Max(s)} \in SUBSET (1..m) /\ m \notin s \ {Max(s)}
      BY <2>0, <2>3
    <3>2. g[s] = f[s] /\ g[s \ {Max(s)}] = f[s \ {Max(s)}] /\ f[s] \in X
      BY <2>1, <2>3, <3>1
    <3>3. f[s] = IF s = {} THEN base ELSE next[<<f[s \ {Max(s)}], Max(s)>>]
      BY <2>1, <3>1 DEF IsFold
    <3> QED
      BY <3>2, <3>3
  <2>4. g \in Fn(m) /\ IsFold(g, m, base, next)
    <3>1. \A s \in SUBSET (1..m) :
            /\ g[s] = IF s = {} THEN base ELSE next[<<g[s \ {Max(s)}], Max(s)>>]
            /\ g[s] \in X
      BY <2>2, <2>3
    <3> QED
      BY <3>1 DEF IsFold
  <2> HIDE DEF g, Fn
  <2> QED
    BY <2>4
<1> HIDE DEF S
<1>3. N \in S
  BY <1>1, <1>2, NatSetInduction
<1>4. \E f \in Fn(N) : IsFold(f, N, base, next)
  <2> HIDE DEF Fn
  <2> QED
    BY <1>3 DEF S
<1> QED
  BY <1>4

\* 1..i without its largest element.
LEMMA Shorter ==
  ASSUME NEW N \in Nat, NEW i \in 1..N
  PROVE  /\ Max(1..i) = i /\ 1..i # {} /\ 1..i \in SUBSET (1..N)
         /\ (1..i) \ {i} = 1..(i - 1)
<1>1. i \in Nat /\ 1..i \in SUBSET (1..i) /\ i \in 1..i
  OBVIOUS
<1>2. Max(1..i) = i
  BY <1>1, MaxOf
<1> QED
  BY <1>1, <1>2

\* t[i] is the value after i steps of next.
Steps(t, N, base, next) ==
  t[0] = base /\ \A i \in 1..N : t[i] = next[<<t[i - 1], i>>]

\* iter behaves like such a function where its values are in X.
FoldsIn(X, iter, N, base, next) ==
  /\ next \in [X \X (1..N) -> X]
  /\ iter[{}] = base
  /\ \A s \in SUBSET (1..N) : s # {} /\ iter[s \ {Max(s)}] \in X =>
       iter[s] = next[<<iter[s \ {Max(s)}], Max(s)>>]

\* What it does to 1..N is what next does step by step.
LEMMA FoldSteps ==
  ASSUME NEW X, NEW base \in X, NEW N \in Nat, NEW next,
         NEW iter, FoldsIn(X, iter, N, base, next)
  PROVE  \E t \in [0..N -> X] : Steps(t, N, base, next) /\ t[N] = iter[1..N]
<1> DEFINE S == {n \in Nat : n <= N => iter[1..n] \in X}
           t == [i \in 0..N |-> iter[1..i]]
<1>1. iter[1..0] = base
  <2>1. 1..0 = {}
    OBVIOUS
  <2> QED
    BY <2>1 DEF FoldsIn
<1>2. ASSUME NEW i \in 1..N, iter[1..(i - 1)] \in X
      PROVE  iter[1..i] = next[<<iter[1..(i - 1)], i>>] /\ iter[1..i] \in X
  <2>1. /\ Max(1..i) = i /\ 1..i # {} /\ 1..i \in SUBSET (1..N)
        /\ (1..i) \ {i} = 1..(i - 1)
    BY Shorter
  <2> QED
    BY <1>2, <2>1 DEF FoldsIn
<1>3. \A n \in Nat : n \in S
  <2>1. 0 \in S
    BY <1>1
  <2>2. ASSUME NEW n \in Nat, n \in S PROVE n + 1 \in S
    <3> SUFFICES ASSUME n + 1 <= N PROVE iter[1..(n + 1)] \in X
      OBVIOUS
    <3>1. n + 1 \in 1..N /\ (n + 1) - 1 = n /\ n <= N
      OBVIOUS
    <3>2. iter[1..n] \in X
      BY <2>2, <3>1
    <3> QED
      BY <1>2, <3>1, <3>2
  <2> HIDE DEF S
  <2> QED
    BY <2>1, <2>2, NatSetInduction
<1>4. t \in [0..N -> X]
  BY <1>3
<1>5. \A i \in 1..N : t[i] = next[<<t[i - 1], i>>]
  <2> TAKE i \in 1..N
  <2>1. i - 1 \in 0..N /\ i \in 0..N
    OBVIOUS
  <2>2. iter[1..(i - 1)] \in X
    BY <1>4, <2>1
  <2> QED
    BY <1>2, <2>1, <2>2
<1>6. t[0] = base /\ t[N] = iter[1..N]
  BY <1>1
<1> HIDE DEF t
<1> QED
  BY <1>4, <1>5, <1>6 DEF Steps

=============================================================================
