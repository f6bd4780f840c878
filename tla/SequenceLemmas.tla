--------------------------- MODULE SequenceLemmas ---------------------------
(***************************************************************************)
(* Lemmas about sequences that the proofs of several components need: what *)
(* the operations on a queue of different elements do to what it holds,    *)
(* induction over numbers and sequences, and what a recursive function     *)
(* over the positions of a sequence is.                                    *)
(***************************************************************************)
EXTENDS Queues, SequenceTheorems, WellFoundedInduction, TLAPS

-----------------------------------------------------------------------------
(* What the operations on the queue do to its elements.                    *)

\* push_back adds one element and keeps the elements distinct if it is new.
LEMMA AppendElements ==
    ASSUME NEW S, NEW s \in Seq(S), NEW e \in S
    PROVE  /\ Append(s, e) \in Seq(S)
           /\ \A x : Occurs(Append(s, e), x) <=> Occurs(s, x) \/ x = e
           /\ Distinct(s) /\ ~Occurs(s, e) => Distinct(Append(s, e))
  <1>1. /\ Append(s, e) \in Seq(S)
        /\ Len(Append(s, e)) = Len(s) + 1
        /\ DOMAIN Append(s, e) = 1 .. (Len(s) + 1)
        /\ DOMAIN s = 1 .. Len(s)
        /\ \A i \in 1 .. Len(s) : Append(s, e)[i] = s[i]
        /\ Append(s, e)[Len(s) + 1] = e
        /\ Len(s) \in Nat
    OBVIOUS
  <1>2. \A x : Occurs(Append(s, e), x) <=> Occurs(s, x) \/ x = e
    BY <1>1 DEF Occurs
  <1>3. Distinct(s) /\ ~Occurs(s, e) => Distinct(Append(s, e))
    BY <1>1 DEF Occurs, Distinct
  <1> QED BY <1>1, <1>2, <1>3

\* pop_front removes the front, and only the front if elements are distinct.
LEMMA TailElements ==
    ASSUME NEW S, NEW s \in Seq(S), s # <<>>, Distinct(s)
    PROVE  /\ Head(s) \in S /\ Occurs(s, Head(s))
           /\ Tail(s) \in Seq(S)
           /\ Distinct(Tail(s))
           /\ \A x : Occurs(Tail(s), x) <=> Occurs(s, x) /\ x # Head(s)
  <1>1. /\ Tail(s) \in Seq(S)
        /\ Len(s) \in Nat \ {0}
        /\ DOMAIN Tail(s) = 1 .. (Len(s) - 1)
        /\ DOMAIN s = 1 .. Len(s)
        /\ \A i \in 1 .. (Len(s) - 1) : Tail(s)[i] = s[i + 1]
        /\ Head(s) = s[1] /\ Head(s) \in S
    OBVIOUS
  <1>2. Occurs(s, Head(s))
    BY <1>1 DEF Occurs
  <1>3. Distinct(Tail(s))
    BY <1>1 DEF Distinct
  <1>4. ASSUME NEW x
        PROVE  Occurs(Tail(s), x) <=> Occurs(s, x) /\ x # Head(s)
    <2>1. ASSUME Occurs(Tail(s), x) PROVE Occurs(s, x) /\ x # Head(s)
      BY <1>1, <2>1 DEF Occurs, Distinct
    <2>2. ASSUME Occurs(s, x), x # Head(s) PROVE Occurs(Tail(s), x)
      <3>1. PICK i \in 1 .. Len(s) : s[i] = x
        BY <1>1, <2>2 DEF Occurs
      <3>2. i - 1 \in 1 .. (Len(s) - 1) /\ Tail(s)[i - 1] = x
        BY <1>1, <2>2, <3>1
      <3> QED BY <1>1, <3>2 DEF Occurs
    <2> QED BY <2>1, <2>2
  <1> QED BY <1>1, <1>2, <1>3, <1>4

\* removeById removes exactly the item with that id.
LEMMA WithoutElements ==
    ASSUME NEW S, NEW q \in Seq(S), NEW r \in S, Distinct(q), Occurs(q, r)
    PROVE  /\ Without(q, r) \in Seq(S)
           /\ Distinct(Without(q, r))
           /\ \A x : Occurs(Without(q, r), x) <=> Occurs(q, x) /\ x # r
           /\ \E i \in DOMAIN q :
                 /\ q[i] = r
                 /\ Without(q, r) = [j \in 1 .. (Len(q) - 1) |->
                                        IF j < i THEN q[j] ELSE q[j + 1]]
  <1> DEFINE i == CHOOSE k \in DOMAIN q : q[k] = r
             w == Without(q, r)
  <1>1. /\ DOMAIN q = 1 .. Len(q) /\ Len(q) \in Nat
        /\ \A k \in 1 .. Len(q) : q[k] \in S
    OBVIOUS
  <1>2. i \in 1 .. Len(q) /\ q[i] = r
    BY <1>1 DEF Occurs
  <1>3. w = [j \in 1 .. (Len(q) - 1) |-> IF j < i THEN q[j] ELSE q[j + 1]]
    BY DEF Without
  <1> HIDE DEF i, w
  <1>4. \A j \in 1 .. (Len(q) - 1) :
           w[j] = (IF j < i THEN q[j] ELSE q[j + 1]) /\ w[j] \in S
    BY <1>1, <1>2, <1>3
  <1>5. w \in Seq(S) /\ DOMAIN w = 1 .. (Len(q) - 1)
    <2>1. Len(q) - 1 \in Nat
      BY <1>1, <1>2
    <2>2. w \in [1 .. (Len(q) - 1) -> S]
      BY <1>3, <1>4
    <2> QED BY <2>1, <2>2
  <1>6. Distinct(w)
    <2>1. \A j, k \in 1 .. Len(q) : q[j] = q[k] => j = k
      BY <1>1 DEF Distinct
    <2>2. ASSUME NEW j \in 1 .. (Len(q) - 1), NEW k \in 1 .. (Len(q) - 1), w[j] = w[k]
          PROVE  j = k
      BY <1>1, <1>2, <1>4, <2>1, <2>2
    <2> QED BY <1>5, <2>2 DEF Distinct
  <1>7. ASSUME NEW x PROVE Occurs(w, x) <=> Occurs(q, x) /\ x # r
    <2>1. ASSUME Occurs(w, x) PROVE Occurs(q, x) /\ x # r
      <3>1. PICK j \in 1 .. (Len(q) - 1) : w[j] = x
        BY <1>5, <2>1 DEF Occurs
      <3>2. PICK k \in 1 .. Len(q) : q[k] = x /\ k # i
        BY <1>1, <1>2, <1>4, <3>1
      <3> QED BY <1>1, <1>2, <3>2 DEF Occurs, Distinct
    <2>2. ASSUME Occurs(q, x), x # r PROVE Occurs(w, x)
      <3>1. PICK k \in 1 .. Len(q) : q[k] = x
        BY <1>1, <2>2 DEF Occurs
      <3>2. k # i
        BY <1>2, <2>2, <3>1
      <3>3. CASE k < i
        <4>1. k \in 1 .. (Len(q) - 1) /\ w[k] = x
          BY <1>1, <1>2, <1>4, <3>1, <3>3
        <4> QED BY <1>5, <4>1 DEF Occurs
      <3>4. CASE k > i
        <4>1. k - 1 \in 1 .. (Len(q) - 1) /\ w[k - 1] = x
          BY <1>1, <1>2, <1>4, <3>1, <3>4
        <4> QED BY <1>5, <4>1 DEF Occurs
      <3> QED BY <1>1, <1>2, <3>2, <3>3, <3>4
    <2> QED BY <2>1, <2>2
  <1> QED BY <1>1, <1>2, <1>3, <1>5, <1>6, <1>7 DEF w

-----------------------------------------------------------------------------
(* Induction.  The library's theorem takes the predicate as an operator;   *)
(* here it is a set.                                                       *)

\* The order of the naturals as a well-founded relation.
LEMMA LessIsWellFounded ==
    \E R : IsWellFoundedOn(R, Nat) /\ \A x, y \in Nat : x < y => <<x, y>> \in R
  <1> DEFINE R == OpToRel(<, Nat)
  <1>1. IsWellFoundedOn(R, Nat)
    BY NatLessThanWellFounded
  <1>2. ASSUME NEW x \in Nat, NEW y \in Nat, x < y PROVE <<x, y>> \in R
    <2>1. <<x, y>> \in {ss \in Nat \X Nat : ss[1] < ss[2]}
      BY <1>2
    <2> QED BY <2>1 DEF OpToRel
  <1> HIDE DEF R
  <1> QED BY <1>1, <1>2

\* A set of naturals that is not empty has a least number.
LEMMA LeastNumber ==
    ASSUME NEW T, T \subseteq Nat, T # {}
    PROVE  \E x \in T : \A y \in T : x <= y
  <1>1. PICK R : IsWellFoundedOn(R, Nat) /\ \A x, y \in Nat : x < y => <<x, y>> \in R
    BY LessIsWellFounded
  <1>2. PICK x \in T : \A y \in T : ~(<<y, x>> \in R)
    <2>1. IsWellFoundedOn(R, Nat)
      BY <1>1
    <2> QED BY <2>1, WFMin, Zenon
  <1>3. ASSUME NEW y \in T PROVE x <= y
    <2>1. x \in Nat /\ y \in Nat /\ ~(<<y, x>> \in R)
      BY <1>2
    <2>2. ~(y < x)
      BY <1>1, <2>1
    <2> QED BY <2>1, <2>2
  <1> QED BY <1>3

\* A set with 0 and the successor of each of its numbers holds every number.
LEMMA NatSetInduction ==
    ASSUME NEW P, 0 \in P, \A n \in Nat : n \in P => n + 1 \in P
    PROVE  Nat \subseteq P
  <1> DEFINE T == Nat \ P
  <1>1. SUFFICES ASSUME T # {} PROVE FALSE
    OBVIOUS
  <1>2. PICK x \in T : \A y \in T : x <= y
    <2>1. T \subseteq Nat
      OBVIOUS
    <2> HIDE DEF T
    <2> QED BY <1>1, <2>1, LeastNumber
  <1>3. x \in Nat /\ x # 0
    OBVIOUS
  <1>4. x - 1 \in T
    BY <1>3
  <1> QED BY <1>2, <1>3, <1>4

\* Concatenation, adding one element and a single element by other names, as
\* terms that the provers leave whole.
Cat(s, t)  == s \o t
Then(s, x) == Append(s, x)
One(x)     == <<x>>

\* The same for sequences that grow at the end.
LEMMA SeqInduction ==
    ASSUME NEW S, NEW P, <<>> \in P,
           \A s \in Seq(S), x \in S : s \in P => Then(s, x) \in P
    PROVE  Seq(S) \subseteq P
  <1> USE DEF Then
  <1> DEFINE Q == {n \in Nat : \A s \in Seq(S) : Len(s) = n => s \in P}
  <1>1. 0 \in Q
    <2>1. \A s \in Seq(S) : Len(s) = 0 => s = <<>>
      OBVIOUS
    <2> QED BY <2>1
  <1>2. ASSUME NEW n \in Nat, n \in Q PROVE n + 1 \in Q
    <2> SUFFICES ASSUME NEW s \in Seq(S), Len(s) = n + 1 PROVE s \in P
      OBVIOUS
    <2> DEFINE front == [i \in 1 .. n |-> s[i]]
    <2>1. s[n + 1] \in S
      OBVIOUS
    <2>2. front \in Seq(S) /\ Len(front) = n
      OBVIOUS
    <2>3. s = Append(front, s[n + 1])
      OBVIOUS
    <2>4. front \in P
      BY <1>2, <2>2
    <2> HIDE DEF front
    <2> QED BY <2>1, <2>2, <2>3, <2>4
  <1> HIDE DEF Q
  <1>3. Nat \subseteq Q
    BY <1>1, <1>2, NatSetInduction
  <1>4. ASSUME NEW s \in Seq(S) PROVE s \in P
    <2>1. Len(s) \in Nat
      OBVIOUS
    <2> QED BY <1>3, <2>1 DEF Q
  <1> QED BY <1>4

-----------------------------------------------------------------------------
(* Recursive functions over the positions of a sequence.                   *)

Recursion(f, n, base, step) ==
    f[0] = base /\ \A i \in 1 .. n : f[i] = step[<<i, f[i - 1]>>]

\* There is a function with a given value at 0 and a given step from each
\* number to the next.
LEMMA RecursionExists ==
    ASSUME NEW T, NEW n \in Nat, NEW base \in T, NEW step \in [(1 .. n) \X T -> T]
    PROVE  \E f \in [0 .. n -> T] : Recursion(f, n, base, step)
  <1> DEFINE P == {k \in Nat : k <= n =>
                      \E f \in [0 .. k -> T] :
                         f[0] = base /\ \A i \in 1 .. k : f[i] = step[<<i, f[i - 1]>>]}
  <1>1. 0 \in P
    <2> DEFINE f == [i \in 0 .. 0 |-> base]
    <2>1. f \in [0 .. 0 -> T] /\ f[0] = base
      OBVIOUS
    <2> HIDE DEF f
    <2> QED BY <2>1
  <1>2. ASSUME NEW k \in Nat, k \in P PROVE k + 1 \in P
    <2> SUFFICES ASSUME k + 1 <= n
                 PROVE  \E f \in [0 .. k + 1 -> T] :
                           f[0] = base
                           /\ \A i \in 1 .. k + 1 : f[i] = step[<<i, f[i - 1]>>]
      OBVIOUS
    <2>1. PICK f \in [0 .. k -> T] :
             f[0] = base /\ \A i \in 1 .. k : f[i] = step[<<i, f[i - 1]>>]
      BY <1>2
    <2> DEFINE next == step[<<k + 1, f[k]>>]
               g == [i \in 0 .. k + 1 |-> IF i <= k THEN f[i] ELSE next]
    <2>2. next \in T
      BY <2>1
    <2> HIDE DEF next
    <2>3. g \in [0 .. k + 1 -> T] /\ g[k + 1] = next /\ \A i \in 0 .. k : g[i] = f[i]
      BY <2>1, <2>2
    <2> HIDE DEF g
    <2>4. g[0] = base
      BY <2>1, <2>3
    <2>5. ASSUME NEW i \in 1 .. k + 1 PROVE g[i] = step[<<i, g[i - 1]>>]
      <3>1. CASE i <= k
        BY <2>1, <2>3, <3>1
      <3>2. CASE i = k + 1
        <4>1. g[i - 1] = f[k]
          BY <2>3, <3>2
        <4> QED BY <2>3, <3>2, <4>1 DEF next
      <3> QED BY <3>1, <3>2
    <2> QED BY <2>3, <2>4, <2>5
  <1> HIDE DEF P
  <1>3. n \in P
    BY <1>1, <1>2, NatSetInduction
  <1> QED BY <1>3 DEF P, Recursion

\* Two functions that begin alike and step alike are alike.
StepAlike(f, g, n) ==
    f[0] = g[0] /\ \A i \in 1 .. n : f[i - 1] = g[i - 1] => f[i] = g[i]

LEMMA RecursionUnique ==
    ASSUME NEW n \in Nat, NEW f, NEW g, StepAlike(f, g, n)
    PROVE  \A i \in 0 .. n : f[i] = g[i]
  <1> DEFINE P == {k \in Nat : k <= n => f[k] = g[k]}
  <1>1. 0 \in P
    BY DEF StepAlike
  <1>2. ASSUME NEW k \in Nat, k \in P PROVE k + 1 \in P
    <2>1. ASSUME k + 1 <= n PROVE f[k + 1] = g[k + 1]
      <3>1. f[k] = g[k]
        BY <1>2, <2>1
      <3>2. k + 1 \in 1 .. n /\ (k + 1) - 1 = k
        BY <2>1
      <3> QED BY <3>1, <3>2 DEF StepAlike
    <2> QED BY <2>1
  <1> HIDE DEF P
  <1>3. Nat \subseteq P
    BY <1>1, <1>2, NatSetInduction
  <1> QED BY <1>3 DEF P

-----------------------------------------------------------------------------
(* Reading a sequence from left to right, one element at a time.           *)

\* f[i] is what has been computed when i elements of s have been read.
Scans(f, s, base, step, T) ==
    /\ f[0] = base
    /\ \A i \in 1 .. Len(s) : f[i - 1] \in T => f[i] = step[<<f[i - 1], s[i]>>]

LEMMA ScanExists ==
    ASSUME NEW S, NEW T, NEW base \in T, NEW step \in [T \X S -> T], NEW s \in Seq(S)
    PROVE  \E f \in [0 .. Len(s) -> T] : Scans(f, s, base, step, T)
  <1> DEFINE n == Len(s)
             next == [p \in (1 .. n) \X T |-> step[<<p[2], s[p[1]]>>]]
  <1>1. n \in Nat /\ \A i \in 1 .. n : s[i] \in S
    OBVIOUS
  <1> HIDE DEF n
  <1>2. next \in [(1 .. n) \X T -> T]
    BY <1>1
  <1>3. \A i \in 1 .. n, x \in T : next[<<i, x>>] = step[<<x, s[i]>>]
    OBVIOUS
  <1> HIDE DEF next
  <1>4. PICK f \in [0 .. n -> T] : Recursion(f, n, base, next)
    BY <1>1, <1>2, RecursionExists
  <1>5. Scans(f, s, base, step, T)
    BY <1>3, <1>4 DEF Recursion, Scans, n
  <1> QED BY <1>4, <1>5 DEF n

\* Two scans agree on what they have both read.
LEMMA ScanUnique ==
    ASSUME NEW S, NEW T, NEW base \in T, NEW step \in [T \X S -> T], NEW s \in Seq(S),
           NEW r, NEW f, NEW g, Len(r) \in Nat, Len(s) <= Len(r),
           \A i \in 1 .. Len(s) : r[i] = s[i],
           Scans(f, s, base, step, T), Scans(g, r, base, step, T)
    PROVE  f[Len(s)] = g[Len(s)] /\ f[Len(s)] \in T
  <1> DEFINE n == Len(s)
             P == {k \in Nat : k <= n => f[k] = g[k] /\ f[k] \in T}
  <1>1. n \in Nat /\ \A i \in 1 .. n : s[i] \in S
    OBVIOUS
  <1>2. 0 \in P
    BY DEF Scans
  <1>3. ASSUME NEW k \in Nat, k \in P PROVE k + 1 \in P
    <2> SUFFICES ASSUME k + 1 <= n PROVE f[k + 1] = g[k + 1] /\ f[k + 1] \in T
      OBVIOUS
    <2>1. f[k] = g[k] /\ f[k] \in T
      BY <1>3
    <2>2. (k + 1) - 1 = k /\ k + 1 \in 1 .. n /\ k + 1 \in 1 .. Len(r)
      BY <1>1
    <2>3. f[k + 1] = step[<<f[k], s[k + 1]>>]
      BY <2>1, <2>2 DEF Scans
    <2>4. g[k + 1] = step[<<f[k], s[k + 1]>>]
      BY <2>1, <2>2 DEF Scans
    <2>5. s[k + 1] \in S
      BY <1>1, <2>2
    <2> QED BY <2>1, <2>3, <2>4, <2>5
  <1> HIDE DEF P
  <1>4. n \in P
    BY <1>1, <1>2, <1>3, NatSetInduction
  <1> QED BY <1>4 DEF P

\* An operator that scans: its value after one more element is one step on.
ScansTo(v, s, base, step, T) ==
    \E f : Scans(f, s, base, step, T) /\ v = f[Len(s)]

LEMMA ScanStart ==
    ASSUME NEW T, NEW base, NEW step, NEW v, ScansTo(v, <<>>, base, step, T)
    PROVE  v = base
  BY DEF ScansTo, Scans

LEMMA ScanType ==
    ASSUME NEW S, NEW T, NEW base \in T, NEW step \in [T \X S -> T],
           NEW s \in Seq(S), NEW v, ScansTo(v, s, base, step, T)
    PROVE  v \in T
  <1>1. PICK f : Scans(f, s, base, step, T) /\ v = f[Len(s)]
    BY DEF ScansTo
  <1>2. Len(s) \in Nat /\ Len(s) <= Len(s) /\ \A i \in 1 .. Len(s) : s[i] = s[i]
    OBVIOUS
  <1>3. f[Len(s)] \in T
    BY <1>1, <1>2, ScanUnique
  <1> QED BY <1>1, <1>3

\* One scan has the value v after s, and the other w after s and x.
ScansOn(v, w, s, x, S, base, step, T) ==
    /\ base \in T /\ step \in [T \X S -> T]
    /\ s \in Seq(S) /\ x \in S
    /\ ScansTo(v, s, base, step, T) /\ ScansTo(w, Then(s, x), base, step, T)

LEMMA ScanNext ==
    ASSUME NEW S, NEW T, NEW base, NEW step, NEW s, NEW x, NEW v, NEW w,
           ScansOn(v, w, s, x, S, base, step, T)
    PROVE  w = step[<<v, x>>]
  <1> USE DEF ScansOn, Then
  <1> DEFINE n == Len(s)
             r == Append(s, x)
  <1>1. PICK f : Scans(f, s, base, step, T) /\ v = f[n]
    BY DEF ScansTo
  <1>2. /\ Len(r) = n + 1 /\ Len(r) \in Nat /\ n \in Nat /\ n <= Len(r)
        /\ r[n + 1] = x /\ \A i \in 1 .. n : r[i] = s[i]
    OBVIOUS
  <1>3. PICK g : Scans(g, r, base, step, T) /\ w = g[Len(r)]
    BY DEF ScansTo
  <1> HIDE DEF r
  <1>4. f[n] = g[n] /\ f[n] \in T
    BY <1>1, <1>2, <1>3, ScanUnique
  <1> HIDE DEF n, ScansOn
  <1>5. n + 1 \in 1 .. Len(r) /\ (n + 1) - 1 = n
    BY <1>2
  <1>6. g[n + 1] = step[<<g[n], r[n + 1]>>]
    BY <1>3, <1>4, <1>5 DEF Scans
  <1> QED BY <1>1, <1>2, <1>3, <1>4, <1>6

-----------------------------------------------------------------------------
(* The algebra of sequences that grow at the end.                          *)

LEMMA CatFacts ==
    ASSUME NEW S
    PROVE  /\ \A s, t \in Seq(S) : Cat(s, t) \in Seq(S) /\ Len(Cat(s, t)) = Len(s) + Len(t)
           /\ \A s \in Seq(S) : Cat(s, <<>>) = s /\ Cat(<<>>, s) = s
           /\ \A s, t, u \in Seq(S) : Cat(Cat(s, t), u) = Cat(s, Cat(t, u))
  <1>1. ASSUME NEW s \in Seq(S), NEW t \in Seq(S)
        PROVE  Cat(s, t) \in Seq(S) /\ Len(Cat(s, t)) = Len(s) + Len(t)
    BY ConcatProperties DEF Cat
  <1>2. ASSUME NEW s \in Seq(S) PROVE Cat(s, <<>>) = s /\ Cat(<<>>, s) = s
    BY ConcatEmptySeq DEF Cat
  <1>3. ASSUME NEW s \in Seq(S), NEW t \in Seq(S), NEW u \in Seq(S)
        PROVE  Cat(Cat(s, t), u) = Cat(s, Cat(t, u))
    BY ConcatAssociative DEF Cat
  <1> QED BY <1>1, <1>2, <1>3

LEMMA ThenFacts ==
    ASSUME NEW S
    PROVE  /\ \A x \in S : One(x) \in Seq(S) /\ Len(One(x)) = 1 /\ One(x) # <<>>
           /\ \A x \in S : Then(<<>>, x) = One(x)
           /\ \A s \in Seq(S), x \in S :
                 /\ Then(s, x) \in Seq(S) /\ Then(s, x) # <<>>
                 /\ Len(Then(s, x)) = Len(s) + 1
                 /\ Then(s, x)[Len(s) + 1] = x
                 /\ \A i \in 1 .. Len(s) : Then(s, x)[i] = s[i]
                 /\ Then(s, x) = Cat(s, One(x))
           /\ \A s, t \in Seq(S), x \in S : Cat(s, Then(t, x)) = Then(Cat(s, t), x)
  <1>1. ASSUME NEW x \in S PROVE One(x) \in Seq(S) /\ Len(One(x)) = 1 /\ One(x) # <<>>
    BY DEF One
  <1>2. ASSUME NEW x \in S PROVE Then(<<>>, x) = One(x)
    BY DEF Then, One
  <1>3. ASSUME NEW s \in Seq(S), NEW x \in S
        PROVE  /\ Then(s, x) \in Seq(S) /\ Then(s, x) # <<>>
               /\ Len(Then(s, x)) = Len(s) + 1
               /\ Then(s, x)[Len(s) + 1] = x
               /\ \A i \in 1 .. Len(s) : Then(s, x)[i] = s[i]
    BY AppendProperties DEF Then
  <1>4. ASSUME NEW s \in Seq(S), NEW x \in S PROVE Then(s, x) = Cat(s, One(x))
    BY AppendIsConcat DEF Then, Cat, One
  <1>5. ASSUME NEW s \in Seq(S), NEW t \in Seq(S), NEW x \in S
        PROVE  Cat(s, Then(t, x)) = Then(Cat(s, t), x)
    BY <1>1, <1>4, CatFacts
  <1> QED BY <1>1, <1>2, <1>3, <1>4, <1>5

LEMMA CatType ==
    ASSUME NEW S, NEW s \in Seq(S), NEW t \in Seq(S)
    PROVE  Cat(s, t) \in Seq(S) /\ Len(Cat(s, t)) = Len(s) + Len(t)
  BY CatFacts

LEMMA ThenType ==
    ASSUME NEW S, NEW s \in Seq(S), NEW x \in S
    PROVE  /\ Then(s, x) \in Seq(S) /\ Len(Then(s, x)) = Len(s) + 1
           /\ Then(s, x)[Len(s) + 1] = x
           /\ \A i \in 1 .. Len(s) : Then(s, x)[i] = s[i]
  BY ThenFacts

\* The same as a predicate, which the provers match as it stands.
IsThen(S, s, x, t) ==
    /\ t \in Seq(S) /\ Len(t) = Len(s) + 1 /\ t[Len(s) + 1] = x
    /\ \A i \in 1 .. Len(s) : t[i] = s[i]

LEMMA ThenIs ==
    ASSUME NEW S, NEW s \in Seq(S), NEW x \in S
    PROVE  IsThen(S, s, x, Then(s, x))
  BY ThenType DEF IsThen

\* A sequence that is not empty ends in an element.
LEMMA LastThen ==
    ASSUME NEW S, NEW s \in Seq(S), s # <<>>
    PROVE  \E front \in Seq(S), z \in S : s = Then(front, z)
  <1> DEFINE n == Len(s)
             front == [i \in 1 .. n - 1 |-> s[i]]
  <1>1. n \in Nat \ {0} /\ DOMAIN s = 1 .. n /\ \A i \in 1 .. n : s[i] \in S
    OBVIOUS
  <1> HIDE DEF n
  <1>2. front \in Seq(S) /\ Len(front) = n - 1 /\ \A i \in 1 .. n - 1 : front[i] = s[i]
    BY <1>1
  <1>3. s[n] \in S
    BY <1>1
  <1> DEFINE c == Then(front, s[n])
  <1> HIDE DEF front
  <1>4. c \in Seq(S) /\ Len(c) = n /\ \A i \in 1 .. n : c[i] = s[i]
    <2> DEFINE z == s[n]
    <2>1. front \in Seq(S) /\ z \in S /\ c = Then(front, z)
      BY <1>2, <1>3
    <2> HIDE DEF c, z
    <2>2. /\ c \in Seq(S) /\ Len(c) = Len(front) + 1 /\ c[Len(front) + 1] = z
          /\ \A i \in 1 .. Len(front) : c[i] = front[i]
      <3>1. c \in Seq(S) /\ Len(c) = Len(front) + 1
        BY <2>1, ThenType
      <3>2. c[Len(front) + 1] = z
        BY <2>1, ThenType
      <3>3. \A i \in 1 .. Len(front) : c[i] = front[i]
        BY <2>1, ThenType
      <3> QED BY <3>1, <3>2, <3>3
    <2> QED BY <1>1, <1>2, <2>2 DEF z
  <1> HIDE DEF c
  <1>5. s = c
    BY <1>1, <1>4, SeqEqual DEF n
  <1> QED BY <1>2, <1>3, <1>5 DEF c

\* Its last element can be replaced.
LEMMA ThenReplaced ==
    ASSUME NEW S, NEW s \in Seq(S), NEW z \in S, NEW y \in S
    PROVE  /\ Then(s, z)[Len(Then(s, z))] = z
           /\ [Then(s, z) EXCEPT ![Len(Then(s, z))] = y] = Then(s, y)
  <1> DEFINE n == Len(s)
             q == Then(s, z)
             c == Then(s, y)
             r == [q EXCEPT ![n + 1] = y]
  <1>1. n \in Nat
    OBVIOUS
  <1>2. q \in Seq(S) /\ Len(q) = n + 1 /\ q[n + 1] = z /\ \A i \in 1 .. n : q[i] = s[i]
    BY ThenFacts
  <1>3. c \in Seq(S) /\ Len(c) = n + 1 /\ c[n + 1] = y /\ \A i \in 1 .. n : c[i] = s[i]
    BY ThenFacts
  <1> HIDE DEF q, c, n
  <1>4. r \in Seq(S) /\ Len(r) = n + 1 /\ \A i \in 1 .. n + 1 : r[i] = IF i = n + 1 THEN y ELSE q[i]
    BY <1>1, <1>2, ExceptSeq
  <1> HIDE DEF r
  <1>5. \A i \in 1 .. n + 1 : r[i] = c[i]
    BY <1>1, <1>2, <1>3, <1>4
  <1>6. r = c
    BY <1>1, <1>3, <1>4, <1>5, SeqEqual
  <1> QED BY <1>2, <1>6 DEF q, c, r

\* A sequence is what is before a position and what is behind it.
LEMMA CatParts ==
    ASSUME NEW S, NEW s \in Seq(S), NEW n \in 0 .. Len(s)
    PROVE  /\ SubSeq(s, 1, n) \in Seq(S) /\ Len(SubSeq(s, 1, n)) = n
           /\ SubSeq(s, n + 1, Len(s)) \in Seq(S)
           /\ Len(SubSeq(s, n + 1, Len(s))) = Len(s) - n
           /\ s = Cat(SubSeq(s, 1, n), SubSeq(s, n + 1, Len(s)))
  <1>1. Len(s) \in Nat /\ \A i \in 1 .. Len(s) : s[i] \in S
    OBVIOUS
  <1>2. SubSeq(s, 1, n) \in Seq(S) /\ Len(SubSeq(s, 1, n)) = n
    BY <1>1, SubSeqProperties
  <1>3. /\ SubSeq(s, n + 1, Len(s)) \in Seq(S)
        /\ Len(SubSeq(s, n + 1, Len(s))) = Len(s) - n
    BY <1>1, SubSeqProperties
  <1>4. SubSeq(s, 1, n) \o SubSeq(s, n + 1, Len(s)) = SubSeq(s, 1, Len(s))
    <2>1. 1 \in 1 .. Len(s) + 1 /\ n \in 1 - 1 .. Len(s) /\ Len(s) \in n .. Len(s)
      BY <1>1
    <2> QED BY <2>1, ConcatAdjacentSubSeq
  <1>5. SubSeq(s, 1, Len(s)) = s
    BY SubSeqFull
  <1> QED BY <1>2, <1>3, <1>4, <1>5 DEF Cat

LEMMA PartsOfCat ==
    ASSUME NEW S, NEW s \in Seq(S), NEW t \in Seq(S)
    PROVE  /\ SubSeq(Cat(s, t), 1, Len(s)) = s
           /\ SubSeq(Cat(s, t), Len(s) + 1, Len(Cat(s, t))) = t
           /\ \A i \in 1 .. Len(s) : Cat(s, t)[i] = s[i]
           /\ \A i \in 1 .. Len(t) : Cat(s, t)[Len(s) + i] = t[i]
  <1> DEFINE c == Cat(s, t)
  <1>1. Len(s) \in Nat /\ Len(t) \in Nat
    OBVIOUS
  <1>2. /\ c \in Seq(S) /\ Len(c) = Len(s) + Len(t)
        /\ \A i \in 1 .. Len(s) + Len(t) : c[i] = IF i <= Len(s) THEN s[i] ELSE t[i - Len(s)]
    BY ConcatProperties DEF Cat
  <1> HIDE DEF c
  <1>3. (\A i \in 1 .. Len(s) : c[i] = s[i]) /\ \A i \in 1 .. Len(t) : c[Len(s) + i] = t[i]
    BY <1>1, <1>2
  <1> DEFINE a == SubSeq(c, 1, Len(s))
             b == SubSeq(c, Len(s) + 1, Len(c))
  <1>4. a \in Seq(S) /\ Len(a) = Len(s) /\ \A i \in 1 .. Len(s) : a[i] = c[i]
    <2>1. Len(s) \in 0 .. Len(c) /\ \A i \in 1 .. Len(s) : c[i] \in S
      BY <1>1, <1>2
    <2> QED BY <1>1, <2>1, SubSeqProperties
  <1>5. b \in Seq(S) /\ Len(b) = Len(t) /\ \A i \in 1 .. Len(t) : b[i] = c[Len(s) + i]
    <2>1. \A i \in Len(s) + 1 .. Len(c) : c[i] \in S
      BY <1>1, <1>2
    <2>2. /\ b \in Seq(S)
          /\ Len(b) = IF Len(s) + 1 <= Len(c) THEN Len(c) - (Len(s) + 1) + 1 ELSE 0
          /\ \A i \in 1 .. Len(c) - (Len(s) + 1) + 1 : b[i] = c[Len(s) + 1 + i - 1]
      BY <1>1, <1>2, <2>1, SubSeqProperties
    <2> HIDE DEF b
    <2>3. Len(b) = Len(t)
      BY <1>1, <1>2, <2>2
    <2>4. ASSUME NEW i \in 1 .. Len(t) PROVE b[i] = c[Len(s) + i]
      <3>1. i \in 1 .. Len(c) - (Len(s) + 1) + 1 /\ Len(s) + 1 + i - 1 = Len(s) + i
        BY <1>1, <1>2
      <3> QED BY <2>2, <3>1
    <2> QED BY <2>2, <2>3, <2>4
  <1> HIDE DEF a, b
  <1>6. a = s
    BY <1>3, <1>4, SeqEqual
  <1>7. b = t
    BY <1>3, <1>5, SeqEqual
  <1> QED BY <1>3, <1>6, <1>7 DEF a, b, c

\* The same as a predicate.
IsCat(s, t, c) ==
    /\ SubSeq(c, 1, Len(s)) = s /\ SubSeq(c, Len(s) + 1, Len(c)) = t
    /\ \A i \in 1 .. Len(s) : c[i] = s[i]
    /\ \A i \in 1 .. Len(t) : c[Len(s) + i] = t[i]

LEMMA CatIs ==
    ASSUME NEW S, NEW s \in Seq(S), NEW t \in Seq(S)
    PROVE  IsCat(s, t, Cat(s, t))
  BY PartsOfCat DEF IsCat

\* A sequence is what is before an element, the element and what is behind it.
LEMMA Apart ==
    ASSUME NEW S, NEW s \in Seq(S), NEW r \in 0 .. Len(s) - 1
    PROVE  /\ SubSeq(s, 1, r) \in Seq(S) /\ Len(SubSeq(s, 1, r)) = r
           /\ SubSeq(s, r + 2, Len(s)) \in Seq(S)
           /\ Len(SubSeq(s, r + 2, Len(s))) = Len(s) - r - 1
           /\ s[r + 1] \in S
           /\ s = Cat(Then(SubSeq(s, 1, r), s[r + 1]), SubSeq(s, r + 2, Len(s)))
  <1>1. /\ Len(s) \in Nat /\ r \in Nat /\ r \in 0 .. Len(s) /\ r + 1 \in 0 .. Len(s)
        /\ r + 1 \in 1 .. Len(s) /\ r + 1 + 1 = r + 2
    OBVIOUS
  <1>2. s[r + 1] \in S
    OBVIOUS
  <1>3. SubSeq(s, 1, r) \in Seq(S) /\ Len(SubSeq(s, 1, r)) = r
    BY <1>1, CatParts
  <1>4. /\ SubSeq(s, r + 2, Len(s)) \in Seq(S)
        /\ Len(SubSeq(s, r + 2, Len(s))) = Len(s) - (r + 1)
        /\ s = Cat(SubSeq(s, 1, r + 1), SubSeq(s, r + 2, Len(s)))
    <2> DEFINE n == r + 1
    <2>1. n \in 0 .. Len(s) /\ n + 1 = r + 2
      BY <1>1
    <2> HIDE DEF n
    <2>2. /\ SubSeq(s, n + 1, Len(s)) \in Seq(S)
          /\ Len(SubSeq(s, n + 1, Len(s))) = Len(s) - n
          /\ s = Cat(SubSeq(s, 1, n), SubSeq(s, n + 1, Len(s)))
      BY <2>1, CatParts
    <2> QED BY <2>1, <2>2 DEF n
  <1>5. SubSeq(s, 1, r + 1) = Then(SubSeq(s, 1, r), s[r + 1])
    <2>1. SubSeq(s, 1, r + 1) = SubSeq(s, 1, r + 1 - 1) \o <<s[r + 1]>>
      <3>1. 1 \in 1 .. Len(s) /\ r + 1 \in 1 .. Len(s)
        BY <1>1
      <3> QED BY <3>1, SubSeqRecursiveSecond
    <2>2. r + 1 - 1 = r
      BY <1>1
    <2>3. SubSeq(s, 1, r + 1) = Cat(SubSeq(s, 1, r), One(s[r + 1]))
      BY <2>1, <2>2 DEF Cat, One
    <2>4. \A a \in Seq(S), x \in S : Then(a, x) = Cat(a, One(x))
      BY ThenFacts
    <2> QED BY <1>2, <1>3, <2>3, <2>4
  <1> DEFINE a == SubSeq(s, 1, r)
             b == SubSeq(s, r + 2, Len(s))
             d == SubSeq(s, 1, r + 1)
  <1>6. Len(b) = Len(s) - r - 1
    <2> HIDE DEF b
    <2>1. Len(b) = Len(s) - (r + 1)
      BY <1>4 DEF b
    <2> QED BY <1>1, <2>1
  <1>7. s = Cat(Then(a, s[r + 1]), b)
    <2>1. s = Cat(d, b) /\ d = Then(a, s[r + 1])
      BY <1>4, <1>5
    <2> HIDE DEF a, b, d
    <2> QED BY <2>1
  <1> QED BY <1>2, <1>3, <1>4, <1>6, <1>7

LEMMA Around ==
    ASSUME NEW S, NEW s \in Seq(S), NEW x \in S, NEW t \in Seq(S)
    PROVE  LET w == Cat(Then(s, x), t)
           IN  /\ w \in Seq(S) /\ w # <<>> /\ Len(w) = Len(s) + 1 + Len(t)
               /\ w[Len(s) + 1] = x
               /\ SubSeq(w, 1, Len(s)) = s
               /\ SubSeq(w, Len(s) + 2, Len(w)) = t
  <1> DEFINE p == Then(s, x)
             w == Cat(p, t)
  <1>1. Len(s) \in Nat /\ Len(t) \in Nat
    OBVIOUS
  <1>2. p \in Seq(S) /\ Len(p) = Len(s) + 1 /\ p[Len(s) + 1] = x /\ p = Cat(s, One(x))
    BY ThenFacts
  <1>3. One(x) \in Seq(S)
    BY ThenFacts
  <1> HIDE DEF p
  <1>4. w \in Seq(S) /\ Len(w) = Len(s) + 1 + Len(t)
    <2>1. w \in Seq(S) /\ Len(w) = Len(p) + Len(t)
      BY <1>2, CatType
    <2> HIDE DEF w
    <2> QED BY <1>1, <1>2, <2>1
  <1>5. SubSeq(w, Len(p) + 1, Len(w)) = t /\ \A i \in 1 .. Len(p) : w[i] = p[i]
    <2>1. p \in Seq(S)
      BY <1>2
    <2> QED BY <2>1, PartsOfCat
  <1>6. w = Cat(s, Cat(One(x), t)) /\ Cat(One(x), t) \in Seq(S)
    BY <1>2, <1>3, CatFacts
  <1>7. SubSeq(w, 1, Len(s)) = s
    BY <1>6, PartsOfCat
  <1> HIDE DEF w
  <1>8. w # <<>>
    BY <1>1, <1>4
  <1>9. w[Len(s) + 1] = x
    BY <1>1, <1>2, <1>5
  <1>10. Len(p) + 1 = Len(s) + 2
    BY <1>1, <1>2
  <1> QED BY <1>4, <1>5, <1>7, <1>8, <1>9, <1>10 DEF w, p

\* Replacing an element, and putting two elements or none in its place.
LEMMA AroundReplaced ==
    ASSUME NEW S, NEW s \in Seq(S), NEW r \in 0 .. Len(s) - 1, NEW y \in S
    PROVE  [s EXCEPT ![r + 1] = y]
               = Cat(Then(SubSeq(s, 1, r), y), SubSeq(s, r + 2, Len(s)))
  <1> DEFINE a == SubSeq(s, 1, r)
             b == SubSeq(s, r + 2, Len(s))
             p == Then(a, s[r + 1])
             q == Then(a, y)
             v == Cat(p, b)
             w == Cat(q, b)
             u == [s EXCEPT ![r + 1] = y]
  <1>1. /\ a \in Seq(S) /\ Len(a) = r /\ b \in Seq(S) /\ Len(b) = Len(s) - r - 1
        /\ s[r + 1] \in S /\ s = v
    BY Apart
  <1>2. Len(s) \in Nat /\ r \in Nat
    OBVIOUS
  <1> HIDE DEF a, b
  <1>3. /\ p \in Seq(S) /\ Len(p) = r + 1 /\ \A i \in 1 .. r : p[i] = a[i]
        /\ q \in Seq(S) /\ Len(q) = r + 1 /\ q[r + 1] = y /\ \A i \in 1 .. r : q[i] = a[i]
    <2>1. \A x \in S : /\ Then(a, x) \in Seq(S) /\ Len(Then(a, x)) = r + 1
                       /\ Then(a, x)[r + 1] = x
                       /\ \A i \in 1 .. r : Then(a, x)[i] = a[i]
      <3>1. a \in Seq(S) /\ Len(a) = r
        BY <1>1
      <3>2. TAKE x \in S
      <3>3. /\ Then(a, x) \in Seq(S) /\ Len(Then(a, x)) = Len(a) + 1
        BY <3>1, ThenFacts
      <3>4. Then(a, x)[Len(a) + 1] = x
        <4>1. \A t \in Seq(S), z \in S : Then(t, z)[Len(t) + 1] = z
          BY ThenFacts
        <4> QED BY <3>1, <4>1
      <3>5. \A i \in 1 .. Len(a) : Then(a, x)[i] = a[i]
        <4>1. \A t \in Seq(S), z \in S : \A i \in 1 .. Len(t) : Then(t, z)[i] = t[i]
          BY ThenFacts
        <4> QED BY <3>1, <4>1
      <3> QED BY <3>1, <3>3, <3>4, <3>5
    <2> QED BY <1>1, <2>1
  <1> HIDE DEF p, q
  <1> DEFINE Behind(z) ==
                 /\ \A i \in 1 .. Len(z) : Cat(z, b)[i] = z[i]
                 /\ \A i \in 1 .. Len(b) : Cat(z, b)[Len(z) + i] = b[i]
                 /\ Cat(z, b) \in Seq(S) /\ Len(Cat(z, b)) = Len(z) + Len(b)
  <1>a. ASSUME NEW z \in Seq(S) PROVE Behind(z)
    <2>1. b \in Seq(S)
      BY <1>1
    <2>2. \A i \in 1 .. Len(z) : Cat(z, b)[i] = z[i]
      BY <2>1, PartsOfCat
    <2>3. \A i \in 1 .. Len(b) : Cat(z, b)[Len(z) + i] = b[i]
      BY <2>1, PartsOfCat
    <2>4. Cat(z, b) \in Seq(S) /\ Len(Cat(z, b)) = Len(z) + Len(b)
      BY <2>1, CatFacts
    <2> QED BY <2>2, <2>3, <2>4
  <1>b. Behind(p) /\ Behind(q)
    <2>1. p \in Seq(S) /\ q \in Seq(S)
      BY <1>3
    <2> HIDE DEF Behind
    <2> QED BY <1>a, <2>1
  <1>4. /\ \A i \in 1 .. Len(p) : v[i] = p[i]
        /\ \A i \in 1 .. Len(b) : v[Len(p) + i] = b[i]
    BY <1>b
  <1>5. /\ \A i \in 1 .. Len(q) : w[i] = q[i]
        /\ \A i \in 1 .. Len(b) : w[Len(q) + i] = b[i]
    BY <1>b
  <1>6. w \in Seq(S) /\ Len(w) = Len(q) + Len(b)
    BY <1>b
  <1>7. /\ u \in Seq(S) /\ Len(u) = Len(s)
        /\ \A i \in 1 .. Len(s) : u[i] = IF i = r + 1 THEN y ELSE s[i]
    <2>1. r + 1 \in 1 .. Len(s)
      OBVIOUS
    <2> QED BY <2>1, ExceptSeq
  <1> HIDE DEF u, v, w
  <1>8. ASSUME NEW i \in 1 .. Len(s) PROVE u[i] = w[i]
    <2>1. CASE i <= r
      BY <1>1, <1>2, <1>3, <1>4, <1>5, <1>7, <2>1
    <2>2. CASE i = r + 1
      BY <1>1, <1>2, <1>3, <1>5, <1>7, <2>2
    <2>3. CASE i > r + 1
      <3>1. i - (r + 1) \in 1 .. Len(b) /\ r + 1 + (i - (r + 1)) = i
        BY <1>1, <1>2, <2>3
      <3>2. v[r + 1 + (i - (r + 1))] = b[i - (r + 1)] /\ w[r + 1 + (i - (r + 1))] = b[i - (r + 1)]
        BY <1>3, <1>4, <1>5, <3>1
      <3> QED BY <1>1, <1>2, <1>7, <2>3, <3>1, <3>2
    <2> QED BY <1>2, <2>1, <2>2, <2>3
  <1>9. Len(u) = Len(w)
    BY <1>1, <1>2, <1>3, <1>6, <1>7
  <1>10. u = w
    BY <1>6, <1>7, <1>8, <1>9, SeqEqual
  <1> QED BY <1>10 DEF u, w, q, a, b
=============================================================================
