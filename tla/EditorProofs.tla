----------------------------- MODULE EditorProofs -----------------------------
(***************************************************************************)
(* Proofs about Editor, for every text, every height and every bound: the  *)
(* lines and the cursor stay within their bounds, a selection lies in the  *)
(* text, keys keep the cursor in view, the text survives its round trip    *)
(* through SetText, and the lines implement one flat text.                 *)
(***************************************************************************)
EXTENDS Editor, SequenceLemmas

-----------------------------------------------------------------------------
(* What the operators on texts and lines compute.                          *)

\* Joined(ls, sep, f): f[i] is what Join makes of the first i lines.
Joined(ls, sep, f) ==
    f = [i \in 0 .. Len(ls) |->
            IF i = 0 THEN <<>>
            ELSE IF i = 1 THEN ls[1] ELSE f[i - 1] \o sep \o ls[i]]

LEMMA JoinedExists ==
    ASSUME NEW B, NEW ls \in Seq(Seq(B)), NEW sep \in Seq(B)
    PROVE  \E f \in [0 .. Len(ls) -> Seq(B)] : Joined(ls, sep, f)
  <1> DEFINE n == Len(ls)
             T == Seq(B)
             op(i, x) == IF i = 1 THEN ls[1] ELSE x \o sep \o ls[i]
             step == [p \in (1 .. n) \X T |-> op(p[1], p[2])]
  <1>1. n \in Nat /\ <<>> \in T
    OBVIOUS
  <1>2. ASSUME NEW i \in 1 .. n, NEW x \in T PROVE op(i, x) \in T
    <2>1. ls[i] \in T
      OBVIOUS
    <2>2. x \o sep \o ls[i] \in T
      BY <2>1
    <2> QED BY <2>1, <2>2
  <1> HIDE DEF op, n, T
  <1>3. step \in [(1 .. n) \X T -> T]
    BY <1>2
  <1>4. \A i \in 1 .. n, x \in T : step[<<i, x>>] = op(i, x)
    OBVIOUS
  <1> HIDE DEF step
  <1>5. PICK f \in [0 .. n -> T] : Recursion(f, n, <<>>, step)
    BY <1>1, <1>3, RecursionExists
  <1>6. ASSUME NEW i \in 1 .. n PROVE f[i] = op(i, f[i - 1])
    <2>1. f[i - 1] \in T
      BY <1>1
    <2> QED BY <1>4, <1>5, <2>1 DEF Recursion
  <1>7. f = [i \in 0 .. n |-> IF i = 0 THEN <<>> ELSE op(i, f[i - 1])]
    <2>1. \A i \in 0 .. n : f[i] = IF i = 0 THEN <<>> ELSE op(i, f[i - 1])
      BY <1>1, <1>5, <1>6 DEF Recursion
    <2>2. f = [i \in 0 .. n |-> f[i]]
      BY <1>5
    <2> QED BY <2>1, <2>2
  <1>8. Joined(ls, sep, f)
    BY <1>7 DEF Joined, op, n
  <1> QED BY <1>8 DEF n, T

JoinsBy(ls, sep, f) ==
    /\ Join(ls, sep) = f[Len(ls)]
    /\ f[0] = <<>>
    /\ \A i \in 1 .. Len(ls) :
          f[i] = IF i = 1 THEN ls[1] ELSE f[i - 1] \o sep \o ls[i]

\* Join is the last value of the one function that Joined describes.
LEMMA JoinIs ==
    ASSUME NEW B, NEW ls \in Seq(Seq(B)), NEW sep \in Seq(B)
    PROVE  \E f \in [0 .. Len(ls) -> Seq(B)] : JoinsBy(ls, sep, f)
  <1> DEFINE n == Len(ls)
             op(i, x) == IF i = 1 THEN ls[1] ELSE x \o sep \o ls[i]
             f == CHOOSE h : Joined(ls, sep, h)
  <1>1. Join(ls, sep) = f[Len(ls)]
    BY DEF Join, Joined
  <1>2. PICK g \in [0 .. n -> Seq(B)] : Joined(ls, sep, g)
    BY JoinedExists
  <1>3. Joined(ls, sep, f)
    BY <1>2
  <1>4. f = [i \in 0 .. n |-> IF i = 0 THEN <<>> ELSE op(i, f[i - 1])]
    BY <1>3 DEF Joined
  <1>5. g = [i \in 0 .. n |-> IF i = 0 THEN <<>> ELSE op(i, g[i - 1])]
    BY <1>2 DEF Joined
  <1>6. n \in Nat
    OBVIOUS
  <1> HIDE DEF f, op, n
  <1>7. \A i \in 0 .. n : f[i] = g[i]
    <2>1. f[0] = g[0]
      BY <1>4, <1>5, <1>6
    <2>2. ASSUME NEW i \in 1 .. n, f[i - 1] = g[i - 1] PROVE f[i] = g[i]
      BY <1>4, <1>5, <1>6, <2>2
    <2>3. StepAlike(f, g, n)
      BY <2>1, <2>2 DEF StepAlike
    <2> QED BY <1>6, <2>3, RecursionUnique
  <1>8. f = g
    BY <1>4, <1>5, <1>7
  <1>9. \A i \in 1 .. n : f[i] = op(i, f[i - 1])
    BY <1>4, <1>6
  <1>10. f[0] = <<>>
    BY <1>4, <1>6
  <1>11. f \in [0 .. n -> Seq(B)] /\ Join(ls, sep) = f[n]
    BY <1>1, <1>2, <1>8 DEF n
  <1>12. JoinsBy(ls, sep, f)
    BY <1>9, <1>10, <1>11 DEF op, n, JoinsBy
  <1> QED BY <1>11, <1>12 DEF n

\* Join puts the separator between what is joined and one more line.
LEMMA JoinFacts ==
    ASSUME NEW B, NEW sep \in Seq(B)
    PROVE  /\ Join(<<>>, sep) = <<>>
           /\ \A x \in Seq(B) : Join(One(x), sep) = x
           /\ \A ls \in Seq(Seq(B)) : Join(ls, sep) \in Seq(B)
           /\ \A ls \in Seq(Seq(B)), x \in Seq(B) : ls # <<>> =>
                 Join(Then(ls, x), sep) = Cat(Cat(Join(ls, sep), sep), x)
  <1>1. ASSUME NEW ls \in Seq(Seq(B)) PROVE Join(ls, sep) \in Seq(B)
    <2>1. PICK f \in [0 .. Len(ls) -> Seq(B)] : JoinsBy(ls, sep, f)
      BY JoinIs
    <2>2. Len(ls) \in 0 .. Len(ls)
      OBVIOUS
    <2> QED BY <2>1, <2>2 DEF JoinsBy
  <1>2. Join(<<>>, sep) = <<>>
    <2> DEFINE ls == <<>>
    <2>1. ls \in Seq(Seq(B)) /\ Len(ls) = 0
      OBVIOUS
    <2> HIDE DEF ls
    <2>2. PICK f \in [0 .. Len(ls) -> Seq(B)] : JoinsBy(ls, sep, f)
      BY <2>1, JoinIs
    <2>3. Join(ls, sep) = <<>>
      BY <2>1, <2>2 DEF JoinsBy
    <2> QED BY <2>3 DEF ls
  <1>3. ASSUME NEW x \in Seq(B) PROVE Join(One(x), sep) = x
    <2> DEFINE ls == One(x)
    <2>1. ls \in Seq(Seq(B)) /\ Len(ls) = 1 /\ ls[1] = x
      BY DEF One
    <2> HIDE DEF ls
    <2>2. PICK f \in [0 .. Len(ls) -> Seq(B)] : JoinsBy(ls, sep, f)
      BY <2>1, JoinIs
    <2>3. f[1] = ls[1]
      BY <2>1, <2>2 DEF JoinsBy
    <2>4. Join(ls, sep) = x
      BY <2>1, <2>2, <2>3 DEF JoinsBy
    <2> QED BY <2>4 DEF ls
  <1>4. ASSUME NEW ls \in Seq(Seq(B)), NEW x \in Seq(B), ls # <<>>
        PROVE  Join(Then(ls, x), sep) = Cat(Cat(Join(ls, sep), sep), x)
    <2> DEFINE n == Len(ls)
               ms == Then(ls, x)
               op(i, y, z) == IF i = 1 THEN z ELSE y \o sep \o z
    <2>1. /\ ms \in Seq(Seq(B)) /\ Len(ms) = n + 1 /\ n \in Nat \ {0}
          /\ ms[n + 1] = x /\ \A i \in 1 .. n : ms[i] = ls[i]
      BY <1>4 DEF Then
    <2>2. PICK f \in [0 .. Len(ls) -> Seq(B)] : JoinsBy(ls, sep, f)
      BY JoinIs
    <2> HIDE DEF ms
    <2>3. PICK g \in [0 .. Len(ms) -> Seq(B)] : JoinsBy(ms, sep, g)
      BY <2>1, JoinIs
    <2>4. /\ Join(ls, sep) = f[n] /\ f[0] = <<>>
          /\ \A i \in 1 .. n : f[i] = op(i, f[i - 1], ls[i])
      BY <2>2 DEF JoinsBy
    <2>5. /\ Join(ms, sep) = g[Len(ms)] /\ g[0] = <<>>
          /\ \A i \in 1 .. Len(ms) : g[i] = op(i, g[i - 1], ms[i])
      BY <2>3 DEF JoinsBy
    <2> HIDE DEF op, n
    <2>6. \A i \in 0 .. n : f[i] = g[i]
      <3>1. ASSUME NEW i \in 1 .. n, f[i - 1] = g[i - 1] PROVE f[i] = g[i]
        BY <2>1, <2>4, <2>5, <3>1
      <3>2. n \in Nat
        BY <2>1
      <3>3. f[0] = g[0]
        BY <2>4, <2>5
      <3>4. StepAlike(f, g, n)
        BY <3>1, <3>3 DEF StepAlike
      <3> QED BY <3>2, <3>4, RecursionUnique
    <2>7. g[n + 1] = op(n + 1, g[n], x) /\ n + 1 # 1
      BY <2>1, <2>5
    <2>8. Join(ms, sep) = op(n + 1, Join(ls, sep), x)
      BY <2>1, <2>4, <2>5, <2>6, <2>7
    <2>9. op(n + 1, Join(ls, sep), x) = Cat(Cat(Join(ls, sep), sep), x)
      BY <2>7 DEF op, Cat
    <2> QED BY <2>8, <2>9 DEF ms
  <1> QED BY <1>1, <1>2, <1>3, <1>4

Kept(t, f) ==
    f = [i \in 0 .. Len(t) |->
            IF i = 0 THEN <<>>
            ELSE Cat(f[i - 1], IF t[i] = CR THEN <<>> ELSE One(t[i]))]

LEMMA CleanScans ==
    ASSUME NEW B, NEW t \in Seq(B), NEW T, T = Seq(B), NEW step,
           step = [p \in T \X B |-> Cat(p[1], IF p[2] = CR THEN <<>> ELSE One(p[2]))]
    PROVE  step \in [T \X B -> T] /\ ScansTo(Clean(t), t, <<>>, step, T)
  <1> DEFINE op(x, b) == Cat(x, IF b = CR THEN <<>> ELSE One(b))
             n == Len(t)
             base == <<>>
             f == CHOOSE h : Kept(t, h)
  <1>1. base \in T
    OBVIOUS
  <1>2. n \in Nat /\ \A i \in 1 .. n : t[i] \in B
    OBVIOUS
  <1>3. ASSUME NEW x \in T, NEW b \in B PROVE op(x, b) \in T
    <2>1. <<>> \in Seq(B) /\ One(b) \in Seq(B)
      BY ThenFacts
    <2> QED BY <2>1, CatFacts
  <1>4. step = [p \in T \X B |-> op(p[1], p[2])]
    OBVIOUS
  <1>5. Clean(t) = f[n]
    BY DEF Clean, Kept, Cat, One
  <1>6. \A g : Kept(t, g) <=> g = [i \in 0 .. n |-> IF i = 0 THEN base ELSE op(g[i - 1], t[i])]
    BY DEF Kept
  <1> HIDE DEF op, n, f, base
  <1>7. step \in [T \X B -> T] /\ \A x \in T, b \in B : step[<<x, b>>] = op(x, b)
    <2>1. \A p \in T \X B : op(p[1], p[2]) \in T
      BY <1>3
    <2>2. ASSUME NEW x \in T, NEW b \in B PROVE step[<<x, b>>] = op(x, b)
      <3>1. <<x, b>> \in T \X B
        OBVIOUS
      <3>2. step[<<x, b>>] = op(<<x, b>>[1], <<x, b>>[2])
        BY <1>4, <3>1, Zenon
      <3> QED BY <3>2
    <2>3. step \in [T \X B -> T]
      BY <1>4, <2>1
    <2> QED BY <2>2, <2>3
  <1>8. PICK g \in [0 .. n -> T] : Scans(g, t, base, step, T)
    BY <1>1, <1>7, ScanExists DEF n
  <1>9. Kept(t, g)
    <2>1. \A i \in 0 .. n : g[i] = IF i = 0 THEN base ELSE op(g[i - 1], t[i])
      <3>1. g[0] = base
        BY <1>8 DEF Scans
      <3>2. ASSUME NEW i \in 1 .. n PROVE g[i] = op(g[i - 1], t[i])
        <4>1. g[i - 1] \in T
          BY <1>2
        <4>2. g[i] = step[<<g[i - 1], t[i]>>]
          BY <1>8, <4>1 DEF Scans, n
        <4> QED BY <1>2, <1>7, <4>1, <4>2
      <3> QED BY <1>2, <3>1, <3>2
    <2>2. g = [i \in 0 .. n |-> g[i]]
      OBVIOUS
    <2>3. g = [i \in 0 .. n |-> IF i = 0 THEN base ELSE op(g[i - 1], t[i])]
      BY <2>1, <2>2
    <2> QED BY <1>6, <2>3
  <1>10. Kept(t, f)
    BY <1>9 DEF f
  <1>11. Scans(f, t, base, step, T)
    <2>1. f = [i \in 0 .. n |-> IF i = 0 THEN base ELSE op(f[i - 1], t[i])]
      BY <1>6, <1>10
    <2>2. f[0] = base
      BY <1>2, <2>1
    <2>3. ASSUME NEW i \in 1 .. n PROVE f[i] = op(f[i - 1], t[i])
      <3>1. i \in 0 .. n /\ i # 0
        BY <1>2
      <3> QED BY <2>1, <3>1
    <2> QED BY <1>2, <1>7, <2>2, <2>3 DEF Scans, n
  <1>12. ScansTo(Clean(t), t, base, step, T)
    BY <1>5, <1>11 DEF ScansTo, n
  <1> QED BY <1>7, <1>12 DEF base

\* What Clean makes of a text that is one byte longer.
LEMMA CleanFacts ==
    ASSUME NEW B
    PROVE  /\ Clean(<<>>) = <<>>
           /\ \A t \in Seq(B) : Clean(t) \in Seq(B)
           /\ \A t \in Seq(B), b \in B :
                 Clean(Then(t, b)) = Cat(Clean(t), IF b = CR THEN <<>> ELSE One(b))
  <1> DEFINE T == Seq(B)
             op(x, b) == Cat(x, IF b = CR THEN <<>> ELSE One(b))
             step == [p \in T \X B |-> op(p[1], p[2])]
             base == <<>>
  <1>1. \A t \in Seq(B) :
           step \in [T \X B -> T] /\ ScansTo(Clean(t), t, base, step, T)
    BY CleanScans
  <1>2. <<>> \in Seq(B) /\ base \in T
    OBVIOUS
  <1>3. ASSUME NEW x \in T, NEW b \in B PROVE step[<<x, b>>] = op(x, b)
    <2> HIDE DEF op, T
    <2> QED OBVIOUS
  <1> HIDE DEF step, T, op, base
  <1>4. step \in [T \X B -> T]
    BY <1>1, <1>2
  <1>5. Clean(<<>>) = base
    BY <1>1, <1>2, ScanStart
  <1>6. \A t \in Seq(B) : Clean(t) \in T
    BY <1>1, <1>2, <1>4, ScanType
  <1>7. ASSUME NEW t \in Seq(B), NEW b \in B
        PROVE  Clean(Then(t, b)) = op(Clean(t), b)
    <2> DEFINE r == Then(t, b)
    <2>1. r \in Seq(B)
      BY ThenFacts
    <2> HIDE DEF r
    <2>2. ScansTo(Clean(t), t, base, step, T) /\ ScansTo(Clean(r), r, base, step, T)
      BY <1>1, <2>1
    <2>3. ScansOn(Clean(t), Clean(r), t, b, B, base, step, T)
      BY <1>2, <1>4, <2>2 DEF ScansOn, r
    <2>4. Clean(r) = step[<<Clean(t), b>>]
      BY <2>3, ScanNext
    <2> QED BY <1>3, <1>6, <2>4 DEF r
  <1> QED BY <1>5, <1>6, <1>7 DEF T, op, base

\* What one more byte makes of the lines: a line feed begins a line, any other
\* byte is added to the last one.
LEMMA GrownFacts ==
    ASSUME NEW B
    PROVE  /\ \A ls \in Seq(Seq(B)) \ {<<>>}, b \in B : Grown(ls, b) \in Seq(Seq(B)) \ {<<>>}
           /\ \A ls \in Seq(Seq(B)) : Grown(ls, NL) = Then(ls, <<>>)
           /\ \A front \in Seq(Seq(B)), z \in Seq(B), b \in B \ {NL} :
                 Grown(Then(front, z), b) = Then(front, Then(z, b))
  <1>1. \A ls \in Seq(Seq(B)) : Grown(ls, NL) = Then(ls, <<>>)
    BY DEF Grown, Then
  <1>2. ASSUME NEW front \in Seq(Seq(B)), NEW z \in Seq(B), NEW b \in B \ {NL}
        PROVE  Grown(Then(front, z), b) = Then(front, Then(z, b))
    <2> DEFINE q == Then(front, z)
               y == Then(z, b)
               C == Seq(B)
    <2>1. y \in C /\ front \in Seq(C) /\ z \in C
      BY ThenFacts
    <2>2. Grown(q, b) = [q EXCEPT ![Len(q)] = Then(q[Len(q)], b)]
      BY DEF Grown, Then
    <2> HIDE DEF y, C
    <2>3. q[Len(q)] = z /\ [q EXCEPT ![Len(q)] = y] = Then(front, y)
      BY <2>1, ThenReplaced
    <2> HIDE DEF q
    <2> QED BY <2>2, <2>3 DEF y, q
  <1>3. ASSUME NEW ls \in Seq(Seq(B)), ls # <<>>, NEW b \in B
        PROVE  Grown(ls, b) \in Seq(Seq(B)) /\ Grown(ls, b) # <<>>
    <2> DEFINE C == Seq(B)
    <2>1. <<>> \in C
      OBVIOUS
    <2>2. CASE b = NL
      <3> HIDE DEF C
      <3>1. ls \in Seq(C)
        BY DEF C
      <3>2. Grown(ls, b) = Then(ls, <<>>)
        BY <1>1, <2>2
      <3>3. Then(ls, <<>>) \in Seq(C) /\ Then(ls, <<>>) # <<>>
        BY <2>1, <3>1, ThenFacts
      <3> QED BY <3>2, <3>3 DEF C
    <2>3. CASE b # NL
      <3>1. PICK front \in Seq(C), z \in C : ls = Then(front, z)
        <4> HIDE DEF C
        <4>1. ls \in Seq(C)
          BY DEF C
        <4> QED BY <1>3, <4>1, LastThen
      <3>2. Grown(ls, b) = Then(front, Then(z, b))
        BY <1>2, <2>3, <3>1
      <3>3. Then(z, b) \in C
        BY ThenFacts
      <3> HIDE DEF C
      <3>4. Then(front, Then(z, b)) \in Seq(C) /\ Then(front, Then(z, b)) # <<>>
        BY <3>3, ThenFacts
      <3> QED BY <3>2, <3>4 DEF C
    <2> QED BY <2>2, <2>3
  <1> QED BY <1>1, <1>2, <1>3

Cuts(t, f) ==
    f = [i \in 0 .. Len(t) |->
            IF i = 0 THEN <<<<>>>> ELSE Grown(f[i - 1], t[i])]

LEMMA SplitLinesScans ==
    ASSUME NEW B, NEW t \in Seq(B), NEW T, T = Seq(Seq(B)) \ {<<>>}, NEW step,
           step = [p \in T \X B |-> Grown(p[1], p[2])]
    PROVE  step \in [T \X B -> T] /\ ScansTo(SplitLines(t), t, <<<<>>>>, step, T)
  <1> DEFINE op(x, b) == Grown(x, b)
             n == Len(t)
             base == <<<<>>>>
             f == CHOOSE h : Cuts(t, h)
  <1>1. base \in T
    OBVIOUS
  <1>2. n \in Nat /\ \A i \in 1 .. n : t[i] \in B
    OBVIOUS
  <1>3. ASSUME NEW x \in T, NEW b \in B PROVE op(x, b) \in T
    BY GrownFacts
  <1>4. step = [p \in T \X B |-> op(p[1], p[2])]
    OBVIOUS
  <1>5. SplitLines(t) = f[n]
    BY DEF SplitLines, Cuts, Cat, One
  <1>6. \A g : Cuts(t, g) <=> g = [i \in 0 .. n |-> IF i = 0 THEN base ELSE op(g[i - 1], t[i])]
    BY DEF Cuts
  <1> HIDE DEF op, n, f, base
  <1>7. step \in [T \X B -> T] /\ \A x \in T, b \in B : step[<<x, b>>] = op(x, b)
    <2>1. \A p \in T \X B : op(p[1], p[2]) \in T
      BY <1>3
    <2>2. ASSUME NEW x \in T, NEW b \in B PROVE step[<<x, b>>] = op(x, b)
      <3>1. <<x, b>> \in T \X B
        OBVIOUS
      <3>2. step[<<x, b>>] = op(<<x, b>>[1], <<x, b>>[2])
        BY <1>4, <3>1, Zenon
      <3> QED BY <3>2
    <2>3. step \in [T \X B -> T]
      BY <1>4, <2>1
    <2> QED BY <2>2, <2>3
  <1>8. PICK g \in [0 .. n -> T] : Scans(g, t, base, step, T)
    BY <1>1, <1>7, ScanExists DEF n
  <1>9. Cuts(t, g)
    <2>1. \A i \in 0 .. n : g[i] = IF i = 0 THEN base ELSE op(g[i - 1], t[i])
      <3>1. g[0] = base
        BY <1>8 DEF Scans
      <3>2. ASSUME NEW i \in 1 .. n PROVE g[i] = op(g[i - 1], t[i])
        <4>1. g[i - 1] \in T
          BY <1>2
        <4>2. g[i] = step[<<g[i - 1], t[i]>>]
          BY <1>8, <4>1 DEF Scans, n
        <4> QED BY <1>2, <1>7, <4>1, <4>2
      <3> QED BY <1>2, <3>1, <3>2
    <2>2. g = [i \in 0 .. n |-> g[i]]
      OBVIOUS
    <2>3. g = [i \in 0 .. n |-> IF i = 0 THEN base ELSE op(g[i - 1], t[i])]
      BY <2>1, <2>2
    <2> QED BY <1>6, <2>3
  <1>10. Cuts(t, f)
    BY <1>9 DEF f
  <1>11. Scans(f, t, base, step, T)
    <2>1. f = [i \in 0 .. n |-> IF i = 0 THEN base ELSE op(f[i - 1], t[i])]
      BY <1>6, <1>10
    <2>2. f[0] = base
      BY <1>2, <2>1
    <2>3. ASSUME NEW i \in 1 .. n PROVE f[i] = op(f[i - 1], t[i])
      <3>1. i \in 0 .. n /\ i # 0
        BY <1>2
      <3> QED BY <2>1, <3>1
    <2> QED BY <1>2, <1>7, <2>2, <2>3 DEF Scans, n
  <1>12. ScansTo(SplitLines(t), t, base, step, T)
    BY <1>5, <1>11 DEF ScansTo, n
  <1> QED BY <1>7, <1>12 DEF base

\* What SplitLines makes of a text that is one byte longer.
LEMMA SplitLinesFacts ==
    ASSUME NEW B
    PROVE  /\ SplitLines(<<>>) = <<<<>>>>
           /\ \A t \in Seq(B) : SplitLines(t) \in Seq(Seq(B)) \ {<<>>}
           /\ \A t \in Seq(B), b \in B :
                 SplitLines(Then(t, b)) = Grown(SplitLines(t), b)
  <1> DEFINE T == Seq(Seq(B)) \ {<<>>}
             op(x, b) == Grown(x, b)
             step == [p \in T \X B |-> op(p[1], p[2])]
             base == <<<<>>>>
  <1>1. \A t \in Seq(B) :
           step \in [T \X B -> T] /\ ScansTo(SplitLines(t), t, base, step, T)
    BY SplitLinesScans
  <1>2. <<>> \in Seq(B) /\ base \in T
    OBVIOUS
  <1>3. ASSUME NEW x \in T, NEW b \in B PROVE step[<<x, b>>] = op(x, b)
    <2> HIDE DEF op, T
    <2> QED OBVIOUS
  <1> HIDE DEF step, T, op, base
  <1>4. step \in [T \X B -> T]
    BY <1>1, <1>2
  <1>5. SplitLines(<<>>) = base
    BY <1>1, <1>2, ScanStart
  <1>6. \A t \in Seq(B) : SplitLines(t) \in T
    BY <1>1, <1>2, <1>4, ScanType
  <1>7. ASSUME NEW t \in Seq(B), NEW b \in B
        PROVE  SplitLines(Then(t, b)) = op(SplitLines(t), b)
    <2> DEFINE r == Then(t, b)
    <2>1. r \in Seq(B)
      BY ThenFacts
    <2> HIDE DEF r
    <2>2. ScansTo(SplitLines(t), t, base, step, T) /\ ScansTo(SplitLines(r), r, base, step, T)
      BY <1>1, <2>1
    <2>3. ScansOn(SplitLines(t), SplitLines(r), t, b, B, base, step, T)
      BY <1>2, <1>4, <2>2 DEF ScansOn, r
    <2>4. SplitLines(r) = step[<<SplitLines(t), b>>]
      BY <2>3, ScanNext
    <2> QED BY <1>3, <1>6, <2>4 DEF r
  <1> QED BY <1>5, <1>6, <1>7 DEF T, op, base

-----------------------------------------------------------------------------
(* Cleaning, cutting and joining texts.                                    *)

\* Clean leaves no carriage return, and a text without one as it is.
LEMMA CleanRemoves ==
    ASSUME NEW B
    PROVE  /\ \A t \in Seq(B) : Clean(t) \in Seq(B \ {CR})
           /\ \A t \in Seq(B \ {CR}) : Clean(t) = t
  <1> DEFINE C == B \ {CR}
  <1>1. Seq(B) \subseteq {t \in Seq(B) : Clean(t) \in Seq(C)}
    <2> DEFINE P == {t \in Seq(B) : Clean(t) \in Seq(C)}
    <2>1. <<>> \in P
      <3>1. <<>> \in Seq(B) /\ <<>> \in Seq(C) /\ Clean(<<>>) = <<>>
        BY CleanFacts
      <3> QED BY <3>1
    <2>2. ASSUME NEW t \in Seq(B), NEW b \in B, t \in P PROVE Then(t, b) \in P
      <3> DEFINE d == IF b = CR THEN <<>> ELSE One(b)
      <3>1. Clean(Then(t, b)) = Cat(Clean(t), d)
        BY CleanFacts
      <3>2. d \in Seq(C)
        <4>1. <<>> \in Seq(C) /\ (b # CR => One(b) \in Seq(C))
          BY ThenFacts
        <4> QED BY <4>1
      <3> HIDE DEF d, C
      <3>3. Cat(Clean(t), d) \in Seq(C)
        BY <2>2, <3>2, CatFacts
      <3>4. Then(t, b) \in Seq(B)
        BY ThenFacts
      <3> QED BY <3>1, <3>3, <3>4
    <2> HIDE DEF P
    <2> QED BY <2>1, <2>2, SeqInduction DEF P
  <1>2. Seq(C) \subseteq {t \in Seq(C) : Clean(t) = t}
    <2> DEFINE P == {t \in Seq(C) : Clean(t) = t}
    <2>1. <<>> \in P
      BY CleanFacts
    <2>2. ASSUME NEW t \in Seq(C), NEW b \in C, t \in P PROVE Then(t, b) \in P
      <3>1. b # CR
        OBVIOUS
      <3> HIDE DEF C
      <3>2. Clean(Then(t, b)) = Cat(Clean(t), IF b = CR THEN <<>> ELSE One(b))
        BY CleanFacts
      <3>3. Clean(Then(t, b)) = Cat(t, One(b))
        BY <2>2, <3>1, <3>2
      <3>4. Then(t, b) \in Seq(C) /\ Then(t, b) = Cat(t, One(b))
        BY ThenFacts
      <3> QED BY <3>3, <3>4
    <2> HIDE DEF P, C
    <2> QED BY <2>1, <2>2, SeqInduction DEF P, C
  <1> QED BY <1>1, <1>2

\* Clean works on each part of a text by itself.
LEMMA CleanConcat ==
    ASSUME NEW B, NEW s \in Seq(B), NEW t \in Seq(B)
    PROVE  Clean(Cat(s, t)) = Cat(Clean(s), Clean(t))
  <1> DEFINE P == {u \in Seq(B) : Clean(Cat(s, u)) = Cat(Clean(s), Clean(u))}
  <1>1. <<>> \in P
    <2>1. <<>> \in Seq(B) /\ Clean(<<>>) = <<>> /\ Clean(s) \in Seq(B)
      BY CleanFacts
    <2>2. Cat(s, <<>>) = s /\ Cat(Clean(s), <<>>) = Clean(s)
      BY <2>1, CatFacts
    <2> QED BY <2>1, <2>2
  <1>2. ASSUME NEW u \in Seq(B), NEW b \in B, u \in P PROVE Then(u, b) \in P
    <2> DEFINE d == IF b = CR THEN <<>> ELSE One(b)
    <2>1. d \in Seq(B)
      <3>1. <<>> \in Seq(B) /\ One(b) \in Seq(B)
        BY ThenFacts
      <3> QED BY <3>1
    <2>2. Cat(s, Then(u, b)) = Then(Cat(s, u), b) /\ Cat(s, u) \in Seq(B)
      BY CatFacts, ThenFacts
    <2>3. Clean(Then(Cat(s, u), b)) = Cat(Clean(Cat(s, u)), d)
      BY <2>2, CleanFacts
    <2>4. Clean(Then(u, b)) = Cat(Clean(u), d)
      BY CleanFacts
    <2>5. Clean(s) \in Seq(B) /\ Clean(u) \in Seq(B)
      BY CleanFacts
    <2> HIDE DEF d
    <2>6. Cat(Cat(Clean(s), Clean(u)), d) = Cat(Clean(s), Cat(Clean(u), d))
      BY <2>1, <2>5, CatFacts
    <2>7. Then(u, b) \in Seq(B)
      BY ThenFacts
    <2> QED BY <1>2, <2>2, <2>3, <2>4, <2>6, <2>7
  <1> HIDE DEF P
  <1>3. t \in P
    BY <1>1, <1>2, SeqInduction
  <1> QED BY <1>3 DEF P

\* What is added to the last line is added to the text.
LEMMA JoinLonger ==
    ASSUME NEW B, NEW sep \in Seq(B)
    PROVE  \A ls \in Seq(Seq(B)), x, y \in Seq(B) :
              Join(Then(ls, Cat(x, y)), sep) = Cat(Join(Then(ls, x), sep), y)
  <1> TAKE ls \in Seq(Seq(B)), x, y \in Seq(B)
  <1> DEFINE J == Join(ls, sep)
  <1>1. Cat(x, y) \in Seq(B)
    BY CatFacts
  <1>2. CASE ls = <<>>
    <2>1. Then(ls, Cat(x, y)) = One(Cat(x, y)) /\ Then(ls, x) = One(x)
      BY <1>2 DEF Then, One
    <2>2. \A z \in Seq(B) : Join(One(z), sep) = z
      BY JoinFacts
    <2> QED BY <1>1, <2>1, <2>2
  <1>3. CASE ls # <<>>
    <2>1. \A z \in Seq(B) : Join(Then(ls, z), sep) = Cat(Cat(J, sep), z)
      BY <1>3, JoinFacts
    <2>2. J \in Seq(B)
      BY JoinFacts
    <2> HIDE DEF J
    <2>3. Cat(J, sep) \in Seq(B)
      BY <2>2, CatFacts
    <2>4. Cat(Cat(J, sep), Cat(x, y)) = Cat(Cat(Cat(J, sep), x), y)
      BY <2>3, CatFacts
    <2> QED BY <1>1, <2>1, <2>4
  <1> QED BY <1>2, <1>3

\* A set of bytes without one of them, as texts and as lines.
LEMMA FewerBytes ==
    ASSUME NEW B, NEW D, D \subseteq B
    PROVE  Seq(D) \subseteq Seq(B) /\ Seq(Seq(D)) \subseteq Seq(Seq(B))
  <1>1. Seq(D) \subseteq Seq(B)
    BY SeqMonotonic
  <1> DEFINE X == Seq(D)
             Y == Seq(B)
  <1> HIDE DEF X, Y
  <1>2. X \subseteq Y => Seq(X) \subseteq Seq(Y)
    BY SeqMonotonic
  <1> QED BY <1>1, <1>2 DEF X, Y

\* Joining the lines of a text with a line feed between them gives the text.
LEMMA JoinSplit ==
    ASSUME NEW B, NEW t \in Seq(B), NL \in B
    PROVE  /\ SplitLines(t) \in Seq(Seq(B \ {NL})) \ {<<>>}
           /\ Join(SplitLines(t), One(NL)) = t
  <1> DEFINE D == B \ {NL}
             C == Seq(D)
             sep == One(NL)
             P == {u \in Seq(B) : /\ SplitLines(u) \in Seq(C) /\ SplitLines(u) # <<>>
                                  /\ Join(SplitLines(u), sep) = u}
  <1>1. sep \in Seq(B) /\ C \subseteq Seq(B) /\ Seq(C) \subseteq Seq(Seq(B)) /\ D \subseteq B
    <2>1. sep \in Seq(B)
      BY ThenFacts
    <2>2. D \subseteq B
      OBVIOUS
    <2> HIDE DEF D
    <2> QED BY <2>1, <2>2, FewerBytes
  <1>2. <<>> \in P
    <2> DEFINE e == <<>>
    <2>1. e \in C /\ e \in Seq(B) /\ SplitLines(<<>>) = One(e)
      BY SplitLinesFacts DEF One
    <2> HIDE DEF e, C
    <2>2. One(e) \in Seq(C) /\ One(e) # <<>>
      BY <2>1, ThenFacts
    <2>3. Join(One(e), sep) = e
      BY <1>1, <2>1, JoinFacts
    <2> QED BY <2>1, <2>2, <2>3 DEF e
  <1>3. ASSUME NEW u \in Seq(B), NEW b \in B, u \in P PROVE Then(u, b) \in P
    <2> DEFINE L == SplitLines(u)
    <2>1. L \in Seq(C) /\ L # <<>> /\ Join(L, sep) = u
      BY <1>3
    <2>2. SplitLines(Then(u, b)) = Grown(L, b)
      BY SplitLinesFacts
    <2>3. Then(u, b) \in Seq(B) /\ Then(u, b) = Cat(u, One(b))
      BY ThenFacts
    <2> HIDE DEF L
    <2>4. L \in Seq(Seq(B))
      BY <1>1, <2>1
    <2>5. CASE b = NL
      <3> DEFINE e == <<>>
      <3>1. e \in C /\ e \in Seq(B)
        OBVIOUS
      <3>2. Grown(L, b) = Then(L, e)
        BY <2>4, <2>5, GrownFacts
      <3>3. Then(u, b) = Cat(u, sep)
        BY <2>3, <2>5
      <3> HIDE DEF C, sep
      <3>4. Cat(Cat(u, sep), e) = Cat(u, sep)
        BY <1>1, CatFacts
      <3> HIDE DEF e
      <3>5. Then(L, e) \in Seq(C) /\ Then(L, e) # <<>>
        BY <2>1, <3>1, ThenFacts
      <3>6. Join(Then(L, e), sep) = Cat(Cat(u, sep), e)
        BY <1>1, <2>1, <2>4, <3>1, JoinFacts
      <3> QED BY <2>2, <2>3, <3>2, <3>3, <3>4, <3>5, <3>6
    <2>6. CASE b # NL
      <3>1. PICK front \in Seq(C), z \in C : L = Then(front, z)
        <4> HIDE DEF C
        <4> QED BY <2>1, LastThen
      <3>2. b \in D
        BY <2>6
      <3>3. One(b) \in Seq(B) /\ Then(z, b) = Cat(z, One(b)) /\ Then(z, b) \in C
        <4>1. Then(z, b) = Cat(z, One(b)) /\ Then(z, b) \in C
          <5> HIDE DEF D
          <5> QED BY <3>2, ThenFacts
        <4> QED BY <4>1, ThenFacts
      <3>4. front \in Seq(Seq(B)) /\ z \in Seq(B)
        BY <1>1
      <3>5. Grown(L, b) = Then(front, Then(z, b))
        BY <3>1, <3>2, <3>4, GrownFacts
      <3> HIDE DEF D, C, sep
      <3>6. Then(front, Then(z, b)) \in Seq(C) /\ Then(front, Then(z, b)) # <<>>
        BY <3>3, ThenFacts
      <3>7. Join(Then(front, Cat(z, One(b))), sep) = Cat(Join(Then(front, z), sep), One(b))
        BY <1>1, <3>3, <3>4, JoinLonger
      <3> QED BY <2>1, <2>2, <2>3, <3>1, <3>3, <3>5, <3>6, <3>7
    <2> QED BY <2>5, <2>6
  <1> HIDE DEF P
  <1>4. t \in P
    BY <1>2, <1>3, SeqInduction
  <1> QED BY <1>4 DEF P

\* A piece without a line feed is added to the last line.
LEMMA SplitLonger ==
    ASSUME NEW B, NEW t \in Seq(B), NEW front \in Seq(Seq(B)), NEW z \in Seq(B),
           SplitLines(t) = Then(front, z), NEW w \in Seq(B \ {NL})
    PROVE  SplitLines(Cat(t, w)) = Then(front, Cat(z, w))
  <1> DEFINE D == B \ {NL}
             P == {v \in Seq(D) : SplitLines(Cat(t, v)) = Then(front, Cat(z, v))}
  <1>1. D \subseteq B /\ Seq(D) \subseteq Seq(B)
    <2>1. D \subseteq B
      OBVIOUS
    <2> HIDE DEF D
    <2> QED BY <2>1, FewerBytes
  <1>2. <<>> \in P
    <2>1. <<>> \in Seq(D)
      OBVIOUS
    <2>2. Cat(t, <<>>) = t /\ Cat(z, <<>>) = z
      BY CatFacts
    <2> QED BY <2>1, <2>2
  <1>3. ASSUME NEW v \in Seq(D), NEW b \in D, v \in P PROVE Then(v, b) \in P
    <2>1. SplitLines(Cat(t, v)) = Then(front, Cat(z, v)) /\ b \in B \ {NL}
      BY <1>3
    <2> HIDE DEF D
    <2>2. v \in Seq(B) /\ b \in B /\ Then(v, b) \in Seq(D)
      BY <1>1, ThenFacts
    <2>3. /\ Cat(t, v) \in Seq(B) /\ Cat(z, v) \in Seq(B)
      BY <2>2, CatFacts
    <2>4. Cat(t, Then(v, b)) = Then(Cat(t, v), b) /\ Cat(z, Then(v, b)) = Then(Cat(z, v), b)
      BY <2>2, ThenFacts
    <2>5. SplitLines(Then(Cat(t, v), b)) = Grown(SplitLines(Cat(t, v)), b)
      BY <2>2, <2>3, SplitLinesFacts
    <2>6. Grown(Then(front, Cat(z, v)), b) = Then(front, Then(Cat(z, v), b))
      BY <2>1, <2>3, GrownFacts
    <2> QED BY <2>1, <2>2, <2>4, <2>5, <2>6
  <1> HIDE DEF P, D
  <1>4. Seq(D) \subseteq P
    BY <1>2, <1>3, SeqInduction
  <1> QED BY <1>4 DEF P, D

\* Lines without a line feed come back from the text that joins them.
LEMMA SplitJoin ==
    ASSUME NEW B, NL \in B, NEW ls \in Seq(Seq(B \ {NL})), ls # <<>>
    PROVE  SplitLines(Join(ls, One(NL))) = ls
  <1> DEFINE D == B \ {NL}
             C == Seq(D)
             sep == One(NL)
             P == {ms \in Seq(C) : ms # <<>> => SplitLines(Join(ms, sep)) = ms}
  <1>1. sep \in Seq(B) /\ C \subseteq Seq(B) /\ Seq(C) \subseteq Seq(Seq(B)) /\ D \subseteq B
    <2>1. sep \in Seq(B)
      BY ThenFacts
    <2>2. D \subseteq B
      OBVIOUS
    <2> HIDE DEF D
    <2> QED BY <2>1, <2>2, FewerBytes
  <1>2. <<>> \in P
    OBVIOUS
  <1>3. ASSUME NEW ms \in Seq(C), NEW x \in C, ms \in P PROVE Then(ms, x) \in P
    <2> DEFINE e == <<>>
               none == <<>>
    <2>1. e \in Seq(B) /\ none \in Seq(Seq(B)) /\ SplitLines(e) = One(e) /\ One(e) = Then(none, e)
      BY SplitLinesFacts DEF One, Then
    <2>2. x \in Seq(B) /\ ms \in Seq(Seq(B)) /\ x \in Seq(B \ {NL})
      BY <1>1
    <2>3. Cat(e, x) = x
      BY <2>2, CatFacts
    <2>4. Then(ms, x) \in Seq(C)
      <3> HIDE DEF C
      <3> QED BY ThenFacts
    <2>5. ms # <<>> => SplitLines(Join(ms, sep)) = ms
      BY <1>3
    <2>6. Then(none, x) = One(x)
      BY DEF One, Then
    <2>7. ms = <<>> => Then(ms, x) = One(x)
      BY DEF One, Then
    <2> HIDE DEF e, none, sep
    <2>8. CASE ms = <<>>
      <3>1. Join(One(x), sep) = x
        BY <1>1, <2>2, JoinFacts
      <3>2. SplitLines(Cat(e, x)) = Then(none, Cat(e, x))
        BY <2>1, <2>2, SplitLonger
      <3> QED BY <2>3, <2>4, <2>6, <2>7, <2>8, <3>1, <3>2
    <2>9. CASE ms # <<>>
      <3> DEFINE J == Join(ms, sep)
      <3>1. J \in Seq(B)
        BY <1>1, <2>2, JoinFacts
      <3>2. Join(Then(ms, x), sep) = Cat(Cat(J, sep), x)
        BY <1>1, <2>2, <2>9, JoinFacts
      <3> HIDE DEF J
      <3>3. Cat(J, sep) = Then(J, NL) /\ Then(J, NL) \in Seq(B)
        BY <3>1, ThenFacts DEF sep
      <3>4. SplitLines(Then(J, NL)) = Grown(SplitLines(J), NL)
        BY <3>1, SplitLinesFacts
      <3>5. Grown(ms, NL) = Then(ms, e)
        BY <2>2, GrownFacts DEF e
      <3>6. SplitLines(Then(J, NL)) = Then(ms, e)
        BY <2>5, <2>9, <3>4, <3>5 DEF J
      <3>7. SplitLines(Cat(Then(J, NL), x)) = Then(ms, Cat(e, x))
        <4> DEFINE t == Then(J, NL)
        <4>1. t \in Seq(B) /\ e \in Seq(B) /\ ms \in Seq(Seq(B)) /\ x \in Seq(B \ {NL})
          BY <2>1, <2>2, <3>3
        <4>2. SplitLines(t) = Then(ms, e)
          BY <3>6
        <4> HIDE DEF t
        <4>3. SplitLines(Cat(t, x)) = Then(ms, Cat(e, x))
          BY <4>1, <4>2, SplitLonger
        <4> QED BY <4>3 DEF t
      <3> QED BY <2>3, <2>4, <3>2, <3>3, <3>7
    <2> QED BY <2>8, <2>9
  <1> HIDE DEF P, C
  <1>4. Seq(C) \subseteq P
    BY <1>2, <1>3, SeqInduction
  <1> QED BY <1>4 DEF P, C

\* The text that GetText gives, without its carriage returns.
LEMMA CleanJoin ==
    ASSUME NEW B, CR \in B, NL \in B, NL # CR, NEW ls \in Seq(Seq(B \ {CR}))
    PROVE  Clean(Join(ls, <<CR, NL>>)) = Join(ls, One(NL))
  <1> DEFINE D == B \ {CR}
             C == Seq(D)
             sep == One(NL)
             crlf == Then(One(CR), NL)
             P == {ms \in Seq(C) : Clean(Join(ms, crlf)) = Join(ms, sep)}
  <1>1. /\ sep \in Seq(B) /\ One(CR) \in Seq(B) /\ crlf \in Seq(B)
        /\ C \subseteq Seq(B) /\ Seq(C) \subseteq Seq(Seq(B))
    <2>1. sep \in Seq(B) /\ One(CR) \in Seq(B)
      BY ThenFacts
    <2>2. crlf \in Seq(B)
      BY <2>1, ThenFacts
    <2>3. D \subseteq B
      OBVIOUS
    <2> HIDE DEF D
    <2> QED BY <2>1, <2>2, <2>3, FewerBytes
  <1>2. crlf = <<CR, NL>>
    <2> DEFINE w == <<CR, NL>>
    <2>1. w \in Seq(B) /\ Len(w) = 2 /\ w[1] = CR /\ w[2] = NL
      OBVIOUS
    <2>2. crlf \in Seq(B) /\ Len(crlf) = 2 /\ crlf[1] = CR /\ crlf[2] = NL
      <3>1. One(CR) \in Seq(B) /\ Len(One(CR)) = 1 /\ One(CR)[1] = CR
        BY DEF One
      <3>2. /\ Len(crlf) = Len(One(CR)) + 1 /\ crlf[Len(One(CR)) + 1] = NL
            /\ \A i \in 1 .. Len(One(CR)) : crlf[i] = One(CR)[i]
        <4> DEFINE c == One(CR)
        <4>1. c \in Seq(B)
          BY <3>1
        <4> HIDE DEF c
        <4> QED BY <4>1, ThenFacts DEF c
      <3> HIDE DEF crlf
      <3> QED BY <1>1, <3>1, <3>2
    <2> HIDE DEF w, crlf
    <2> QED BY <2>1, <2>2, SeqEqual DEF w
  <1>3. Clean(crlf) = sep
    <2> DEFINE e == <<>>
    <2>1. e \in Seq(B) /\ Clean(e) = e
      BY CleanFacts
    <2>2. One(CR) = Then(e, CR)
      BY DEF One, Then
    <2>3. Clean(Then(e, CR)) = Cat(Clean(e), e)
      BY <2>1, CleanFacts
    <2>4. Clean(crlf) = Cat(Clean(One(CR)), sep)
      BY <1>1, CleanFacts
    <2>5. Cat(e, e) = e /\ Cat(e, sep) = sep
      BY <1>1, <2>1, CatFacts
    <2> QED BY <2>1, <2>2, <2>3, <2>4, <2>5
  <1>4. <<>> \in P
    <2> DEFINE none == <<>>
    <2>1. none \in Seq(C) /\ Join(none, crlf) = <<>> /\ Join(none, sep) = <<>>
      BY <1>1, JoinFacts
    <2>2. Clean(<<>>) = <<>>
      BY CleanFacts
    <2> QED BY <2>1, <2>2
  <1>5. ASSUME NEW ms \in Seq(C), NEW x \in C, ms \in P PROVE Then(ms, x) \in P
    <2>1. Clean(Join(ms, crlf)) = Join(ms, sep)
      BY <1>5
    <2>2. ms \in Seq(Seq(B)) /\ x \in Seq(B)
      BY <1>1
    <2>3. Clean(x) = x
      BY CleanRemoves
    <2>4. Then(ms, x) \in Seq(C)
      <3> HIDE DEF C
      <3> QED BY ThenFacts
    <2> HIDE DEF sep, crlf
    <2>5. CASE ms = <<>>
      <3>1. Then(ms, x) = One(x)
        BY <2>5 DEF One, Then
      <3>2. Join(One(x), sep) = x /\ Join(One(x), crlf) = x
        BY <1>1, <2>2, JoinFacts
      <3> QED BY <2>3, <2>4, <3>1, <3>2
    <2>6. CASE ms # <<>>
      <3> DEFINE J == Join(ms, sep)
                 K == Join(ms, crlf)
      <3>1. J \in Seq(B) /\ K \in Seq(B)
        BY <1>1, <2>2, JoinFacts
      <3>2. Join(Then(ms, x), sep) = Cat(Cat(J, sep), x)
        BY <1>1, <2>2, <2>6, JoinFacts
      <3>3. Join(Then(ms, x), crlf) = Cat(Cat(K, crlf), x)
        BY <1>1, <2>2, <2>6, JoinFacts
      <3>4. Clean(K) = J
        BY <2>1
      <3> HIDE DEF J, K
      <3>5. Cat(K, crlf) \in Seq(B)
        BY <1>1, <3>1, CatFacts
      <3>6. Clean(Cat(Cat(K, crlf), x)) = Cat(Clean(Cat(K, crlf)), Clean(x))
        BY <2>2, <3>5, CleanConcat
      <3>7. Clean(Cat(K, crlf)) = Cat(Clean(K), Clean(crlf))
        BY <1>1, <3>1, CleanConcat
      <3> QED BY <1>3, <2>3, <2>4, <3>2, <3>3, <3>4, <3>6, <3>7
    <2> QED BY <2>5, <2>6
  <1> HIDE DEF P, C
  <1>6. Seq(C) \subseteq P
    BY <1>4, <1>5, SeqInduction
  <1> QED BY <1>2, <1>6 DEF P, C

\* Lines without line ends come back from the text that GetText makes of them.
LEMMA RoundTripLines ==
    ASSUME NEW B, CR \in B, NL \in B, NL # CR,
           NEW ls \in Seq(Seq(B \ {NL, CR})), ls # <<>>
    PROVE  SplitLines(Clean(Join(ls, <<CR, NL>>))) = ls
  <1>1. ls \in Seq(Seq(B \ {CR})) /\ ls \in Seq(Seq(B \ {NL}))
    <2> DEFINE D == B \ {NL, CR}
    <2>1. D \subseteq B \ {CR} /\ D \subseteq B \ {NL}
      OBVIOUS
    <2> HIDE DEF D
    <2>2. Seq(Seq(D)) \subseteq Seq(Seq(B \ {CR}))
      BY <2>1, FewerBytes
    <2>3. Seq(Seq(D)) \subseteq Seq(Seq(B \ {NL}))
      BY <2>1, FewerBytes
    <2> QED BY <2>2, <2>3 DEF D
  <1>2. Clean(Join(ls, <<CR, NL>>)) = Join(ls, One(NL))
    BY <1>1, CleanJoin
  <1>3. SplitLines(Join(ls, One(NL))) = ls
    BY <1>1, SplitJoin
  <1> QED BY <1>2, <1>3

\* More lines follow the text of the first ones as they follow its last part.
LEMMA JoinSuffix ==
    ASSUME NEW B, NEW sep \in Seq(B), NEW p \in Seq(Seq(B)), p # <<>>,
           NEW a \in Seq(B), NEW y \in Seq(B), Join(p, sep) = Cat(a, y)
    PROVE  \A ms \in Seq(Seq(B)) :
              Join(Cat(p, ms), sep) = Cat(a, Join(Cat(One(y), ms), sep))
  <1> DEFINE T == Seq(B)
             J(ms) == Join(Cat(p, ms), sep)
             K(ms) == Join(Cat(One(y), ms), sep)
             P == {ms \in Seq(T) : J(ms) = Cat(a, K(ms))}
  <1>1. One(y) \in Seq(T) /\ One(y) # <<>>
    BY ThenFacts
  <1>2. <<>> \in P
    <2>1. <<>> \in Seq(T)
      OBVIOUS
    <2> HIDE DEF T
    <2>2. Cat(p, <<>>) = p /\ Cat(One(y), <<>>) = One(y)
      BY <1>1, CatFacts DEF T
    <2>3. Join(One(y), sep) = y
      BY JoinFacts
    <2> QED BY <2>1, <2>2, <2>3
  <1>3. ASSUME NEW ms \in Seq(T), NEW x \in T, ms \in P PROVE Then(ms, x) \in P
    <2>1. J(ms) = Cat(a, K(ms))
      BY <1>3
    <2>2. ASSUME NEW q \in Seq(T), q # <<>>
          PROVE  /\ Cat(q, ms) \in Seq(T) /\ Cat(q, ms) # <<>>
                 /\ Cat(q, Then(ms, x)) = Then(Cat(q, ms), x)
      <3> HIDE DEF T
      <3>1. Cat(q, ms) \in Seq(T) /\ Len(Cat(q, ms)) = Len(q) + Len(ms)
        BY CatFacts
      <3>2. Len(q) \in Nat \ {0} /\ Len(ms) \in Nat
        BY <2>2, EmptySeq, LenProperties
      <3>3. Cat(q, ms) # <<>>
        BY <3>1, <3>2, EmptySeq
      <3> QED BY <3>1, <3>3, ThenFacts
    <2>3. ASSUME NEW q \in Seq(T), q # <<>>
          PROVE  Join(Cat(q, Then(ms, x)), sep) = Cat(Cat(Join(Cat(q, ms), sep), sep), x)
      BY <2>2, <2>3, JoinFacts
    <2>4. J(Then(ms, x)) = Cat(Cat(J(ms), sep), x)
      BY <2>3
    <2>5. K(Then(ms, x)) = Cat(Cat(K(ms), sep), x)
      BY <1>1, <2>3
    <2>6. K(ms) \in Seq(B)
      BY <1>1, <2>2, JoinFacts
    <2> HIDE DEF J, K
    <2>7. Cat(Cat(Cat(a, K(ms)), sep), x) = Cat(a, Cat(Cat(K(ms), sep), x))
      <3>1. Cat(K(ms), sep) \in Seq(B)
        BY <2>6, CatFacts
      <3>2. Cat(Cat(a, K(ms)), sep) = Cat(a, Cat(K(ms), sep))
        BY <2>6, CatFacts
      <3> QED BY <3>1, <3>2, CatFacts
    <2>8. Then(ms, x) \in Seq(T)
      <3> HIDE DEF T
      <3> QED BY ThenFacts
    <2> QED BY <2>1, <2>4, <2>5, <2>7, <2>8
  <1> HIDE DEF P, T
  <1>4. Seq(T) \subseteq P
    BY <1>2, <1>3, SeqInduction
  <1> QED BY <1>4 DEF P, T

\* A line that is cut within its bytes, and a text that is cut between lines.
LEMMA JoinSplice ==
    ASSUME NEW B, NEW sep \in Seq(B), NEW ls \in Seq(Seq(B)), NEW ms \in Seq(Seq(B)),
           NEW x \in Seq(B), NEW y \in Seq(B)
    PROVE  /\ Join(Cat(Then(ls, Cat(x, y)), ms), sep)
                 = Cat(Join(Then(ls, x), sep), Join(Cat(One(y), ms), sep))
           /\ Join(Cat(Then(Then(ls, x), y), ms), sep)
                 = Cat(Cat(Join(Then(ls, x), sep), sep), Join(Cat(One(y), ms), sep))
  <1> DEFINE T == Seq(B)
             p == Then(ls, Cat(x, y))
             q == Then(Then(ls, x), y)
             J == Join(Then(ls, x), sep)
  <1>1. Cat(x, y) \in T
    BY CatFacts
  <1>2. p \in Seq(T) /\ p # <<>> /\ Then(ls, x) \in Seq(T) /\ Then(ls, x) # <<>>
    BY <1>1, ThenFacts
  <1>3. q \in Seq(T) /\ q # <<>>
    BY <1>2, ThenFacts
  <1>4. J \in Seq(B)
    BY <1>2, JoinFacts
  <1>5. Cat(J, sep) \in Seq(B)
    BY <1>4, CatFacts
  <1>6. Join(p, sep) = Cat(J, y)
    BY JoinLonger
  <1>7. Join(q, sep) = Cat(Cat(J, sep), y)
    BY <1>2, JoinFacts
  <1> HIDE DEF p, q, J
  <1>8. Join(Cat(p, ms), sep) = Cat(J, Join(Cat(One(y), ms), sep))
    BY <1>2, <1>4, <1>6, JoinSuffix
  <1>9. Join(Cat(q, ms), sep) = Cat(Cat(J, sep), Join(Cat(One(y), ms), sep))
    BY <1>3, <1>5, <1>7, JoinSuffix
  <1> QED BY <1>8, <1>9 DEF p, q, J
-----------------------------------------------------------------------------
(* The invariant.                                                          *)

Lines == Seq(Seq(LineByte)) \ {<<>>}

\* Fits(ls, r, c): column c of row r is a place in the text of lines ls.
Fits(ls, r, c) == ls \in Lines /\ r \in 0 .. Len(ls) - 1 /\ c \in 0 .. Len(ls[r + 1])

\* KeepsUp(r, s): a view that begins at s shows the cursor's row r, if the old
\* view showed the old row.
KeepsUp(r, s) == CursorVisible => s <= r /\ r < s + FrameRows

GoodKey ==
    \E ls, r, c, s : /\ Key(ls, r, c, s)
                     /\ Fits(ls, r, c) /\ s \in 0 .. Len(ls) - 1
                     /\ KeepsUp(r, s)

\* ensureCursorVisible puts the row into the view, and the view into the text.
LEMMA FollowFacts ==
    ASSUME NEW s \in Nat, NEW n \in Nat, NEW r \in 0 .. n - 1, NEW rows \in Nat \ {0}
    PROVE  /\ Follow(s, r, n, rows) \in 0 .. n - 1
           /\ Follow(s, r, n, rows) <= r
           /\ r < Follow(s, r, n, rows) + rows
  BY DEF Follow, Clamp, Most, Least

LEMMA RowsFacts ==
    ASSUME height \in Nat
    PROVE  /\ EventRows \in Nat \ {0} /\ FrameRows \in Nat \ {0}
           /\ EventRows <= FrameRows
  BY DEF EventRows, FrameRows, Most

\* What the invariant says, in the terms the lemmas below use.
LEMMA TextFacts ==
    ASSUME IInv
    PROVE  /\ lines \in Lines /\ Len(lines) \in Nat \ {0} /\ Bottom \in Nat
           /\ Fits(lines, row, col) /\ row \in 0 .. Bottom /\ col \in 0 .. Width(row)
           /\ \A r \in 0 .. Bottom : Line(r) \in Seq(LineByte) /\ Width(r) \in Nat
           /\ scroll \in 0 .. Bottom /\ height \in Nat
  <1>1. lines \in Lines
    BY DEF IInv, TypeOK, Lines
  <1>2. Len(lines) \in Nat \ {0} /\ \A i \in 1 .. Len(lines) : lines[i] \in Seq(LineByte)
    BY <1>1 DEF Lines
  <1>3. Bottom \in Nat
    BY <1>2 DEF Bottom
  <1>4. \A r \in 0 .. Bottom : Line(r) \in Seq(LineByte) /\ Width(r) \in Nat
    <2>1. TAKE r \in 0 .. Bottom
    <2>2. r + 1 \in 1 .. Len(lines)
      BY <1>2 DEF Bottom
    <2>3. Line(r) \in Seq(LineByte)
      BY <1>2, <2>2 DEF Line
    <2> QED BY <2>3 DEF Width
  <1>5. row \in 0 .. Bottom /\ scroll \in 0 .. Bottom /\ height \in Nat
    BY <1>2 DEF IInv, TypeOK, CursorInText, ViewInText, Bottom
  <1>6. col \in 0 .. Width(row)
    BY <1>4, <1>5 DEF IInv, TypeOK, CursorInText
  <1>7. Fits(lines, row, col)
    BY <1>1, <1>5, <1>6 DEF Fits, Bottom, Width, Line
  <1> QED BY <1>1, <1>2, <1>3, <1>4, <1>5, <1>6, <1>7

\* What a key leaves satisfies the invariant, if it fits.
LEMMA GoodKeyKeeps ==
    ASSUME IInv, GoodKey
    PROVE  IInv' /\ FollowsKeys
  <1>1. PICK ls, r, c, s : /\ Key(ls, r, c, s)
                           /\ Fits(ls, r, c) /\ s \in 0 .. Len(ls) - 1
                           /\ KeepsUp(r, s)
    BY DEF GoodKey
  <1>2. /\ lines' = ls /\ row' = r /\ col' = c /\ scroll' = s
        /\ selected' = FALSE /\ copied' = <<>>
        /\ height' = height /\ selecting' = selecting /\ from' = from /\ to' = to
    BY <1>1 DEF Key
  <1>3. /\ ls \in Seq(Seq(LineByte)) \ {<<>>} /\ Len(ls) \in Nat
        /\ r \in 0 .. Len(ls) - 1
        /\ c \in 0 .. Len(ls[r + 1])
    BY <1>1 DEF Fits, Lines
  <1>4. Len(ls[r + 1]) \in Nat
    <2>1. r + 1 \in 1 .. Len(ls)
      BY <1>3
    <2>2. ls[r + 1] \in Seq(LineByte)
      BY <1>3, <2>1
    <2> QED BY <2>2
  <1>5. TypeOK'
    <2>1. r \in Nat /\ c \in Nat /\ s \in Nat
      BY <1>1, <1>3, <1>4
    <2>2. /\ height \in Nat /\ selecting \in BOOLEAN
          /\ from \in Int \X Int /\ to \in Int \X Int
      BY DEF IInv, TypeOK
    <2>3. FALSE \in BOOLEAN /\ <<>> \in Seq(Byte)
      OBVIOUS
    <2> QED BY <1>2, <1>3, <2>1, <2>2, <2>3 DEF TypeOK
  <1>6. CursorInText'
    BY <1>2, <1>3, <1>4 DEF CursorInText, Width, Line
  <1>7. ViewInText'
    BY <1>1, <1>2, <1>3 DEF ViewInText
  <1>8. SelectionInText'
    BY <1>2 DEF SelectionInText
  <1>9. FollowsKeys
    BY <1>1, <1>2 DEF FollowsKeys, KeepsUp, CursorVisible, FrameRows
  <1> QED BY <1>5, <1>6, <1>7, <1>8, <1>9 DEF IInv

\* The four forms of a key.
LEMMA RebuildFits ==
    ASSUME IInv, NEW ls, NEW r, NEW c, Fits(ls, r, c), Rebuild(ls, r, c)
    PROVE  GoodKey
  <1> DEFINE s == Follow(scroll, r, Len(ls), EventRows)
  <1>1. ls \in Lines /\ Len(ls) \in Nat /\ r \in 0 .. Len(ls) - 1
    BY DEF Fits, Lines
  <1>2. scroll \in Nat /\ height \in Nat
    BY DEF IInv, TypeOK
  <1>3. s \in 0 .. Len(ls) - 1 /\ s <= r /\ r < s + EventRows
    BY <1>1, <1>2, FollowFacts, RowsFacts
  <1>4. Key(ls, r, c, s)
    BY DEF Rebuild
  <1> HIDE DEF s
  <1>5. KeepsUp(r, s)
    BY <1>1, <1>2, <1>3, RowsFacts DEF KeepsUp
  <1> QED BY <1>3, <1>4, <1>5 DEF GoodKey

LEMMA MoveFits ==
    ASSUME IInv, NEW r \in 0 .. Bottom, NEW c \in 0 .. Width(r), MoveTo(r, c)
    PROVE  GoodKey
  <1>1. Fits(lines, r, c)
    BY TextFacts DEF Fits, Bottom, Width, Line
  <1>2. Rebuild(lines, r, c)
    BY DEF MoveTo, Rebuild
  <1> QED BY <1>1, <1>2, RebuildFits

LEMMA WithinFits ==
    ASSUME IInv, NEW c \in 0 .. Width(row), Within(c)
    PROVE  GoodKey
  <1>1. Fits(lines, row, c) /\ scroll \in 0 .. Len(lines) - 1
    BY TextFacts DEF Fits, Bottom, Width, Line
  <1>2. KeepsUp(row, scroll)
    BY DEF KeepsUp, CursorVisible
  <1>3. Key(lines, row, c, scroll)
    BY DEF Within
  <1> QED BY <1>1, <1>2, <1>3 DEF GoodKey

LEMMA TypedFits ==
    ASSUME IInv, NEW x \in Seq(LineByte), NEW c \in 0 .. Len(x)
    PROVE  Fits([lines EXCEPT ![row + 1] = x], row, c) /\ Len([lines EXCEPT ![row + 1] = x]) = Len(lines)
  <1> DEFINE ls == [lines EXCEPT ![row + 1] = x]
  <1>1. lines \in Seq(Seq(LineByte)) /\ Len(lines) \in Nat /\ row + 1 \in 1 .. Len(lines)
    BY TextFacts DEF Lines, Bottom
  <1>2. /\ ls \in Seq(Seq(LineByte)) /\ Len(ls) = Len(lines) /\ ls[row + 1] = x
    <2> DEFINE C == Seq(LineByte)
    <2>1. x \in C /\ lines \in Seq(C)
      BY <1>1
    <2> HIDE DEF C
    <2>2. ls \in Seq(C) /\ Len(ls) = Len(lines) /\ ls[row + 1] = x
      BY <1>1, <2>1, ExceptSeq
    <2> QED BY <2>2 DEF C
  <1> HIDE DEF ls
  <1>3. row \in 0 .. Len(ls) - 1 /\ ls # <<>>
    BY <1>1, <1>2, TextFacts DEF Bottom
  <1> QED BY <1>2, <1>3 DEF Fits, Lines, ls

LEMMA RetypeFits ==
    ASSUME IInv, NEW x \in Seq(LineByte), NEW c \in 0 .. Len(x), Retype(x, c)
    PROVE  GoodKey
  <1> DEFINE ls == [lines EXCEPT ![row + 1] = x]
  <1>1. Fits(ls, row, c) /\ Len(ls) = Len(lines)
    BY TypedFits
  <1>2. Key(ls, row, c, scroll)
    BY DEF Retype
  <1>3. KeepsUp(row, scroll)
    BY DEF KeepsUp, CursorVisible
  <1> HIDE DEF ls
  <1>4. scroll \in 0 .. Len(ls) - 1
    BY <1>1, TextFacts DEF Bottom
  <1> QED BY <1>1, <1>2, <1>3, <1>4 DEF GoodKey

-----------------------------------------------------------------------------
(* What OnEvent makes of the lines.                                        *)

\* The line of the cursor is what is left of it and what is right of it.
LEMMA LeftRight ==
    ASSUME IInv
    PROVE  /\ Left \in Seq(LineByte) /\ Len(Left) = col
           /\ Right \in Seq(LineByte) /\ Len(Right) = Width(row) - col
           /\ Line(row) = Cat(Left, Right)
  <1> DEFINE t == Line(row)
  <1>1. t \in Seq(LineByte) /\ col \in 0 .. Len(t)
    BY TextFacts DEF Width
  <1> HIDE DEF t
  <1>2. /\ SubSeq(t, 1, col) \in Seq(LineByte) /\ Len(SubSeq(t, 1, col)) = col
        /\ SubSeq(t, col + 1, Len(t)) \in Seq(LineByte)
        /\ Len(SubSeq(t, col + 1, Len(t))) = Len(t) - col
        /\ t = Cat(SubSeq(t, 1, col), SubSeq(t, col + 1, Len(t)))
    BY <1>1, CatParts
  <1> QED BY <1>2 DEF t, Left, Right, Width

LEMMA TwoMore ==
    ASSUME NEW S, NEW s \in Seq(S), NEW a \in S, NEW b \in S
    PROVE  s \o <<a, b>> = Then(Then(s, a), b)
  <1>1. <<a, b>> = Then(One(a), b)
    BY DEF Then, One
  <1>2. One(a) \in Seq(S) /\ Then(s, a) = Cat(s, One(a))
    BY ThenFacts
  <1>3. Cat(s, Then(One(a), b)) = Then(Cat(s, One(a)), b)
    BY <1>2, ThenFacts
  <1>4. s \o <<a, b>> = Cat(s, Then(One(a), b))
    BY <1>1 DEF Cat
  <1> QED BY <1>2, <1>3, <1>4

Above(r) == SubSeq(lines, 1, r)
Below(r) == SubSeq(lines, r + 2, Len(lines))

\* The text is the lines above a line, the line and the lines below it.
LEMMA LinesApart ==
    ASSUME IInv, NEW r \in 0 .. Bottom
    PROVE  /\ Above(r) \in Seq(Seq(LineByte)) /\ Len(Above(r)) = r
           /\ Below(r) \in Seq(Seq(LineByte)) /\ Len(Below(r)) = Bottom - r
           /\ lines = Cat(Then(Above(r), Line(r)), Below(r))
  <1> DEFINE C == Seq(LineByte)
  <1>1. lines \in Seq(C) /\ Len(lines) \in Nat /\ r \in 0 .. Len(lines) - 1
    BY TextFacts DEF Lines, Bottom
  <1> HIDE DEF C
  <1>2. /\ Above(r) \in Seq(C) /\ Len(Above(r)) = r
        /\ Below(r) \in Seq(C) /\ Len(Below(r)) = Len(lines) - r - 1
    BY <1>1, Apart DEF Above, Below
  <1>3. lines = Cat(Then(Above(r), Line(r)), Below(r))
    BY <1>1, Apart DEF Above, Below, Line
  <1>4. Len(Below(r)) = Bottom - r
    BY <1>1, <1>2 DEF Bottom
  <1> QED BY <1>2, <1>3, <1>4 DEF C

\* Two lines that follow each other, likewise.
LEMMA LinesGlued ==
    ASSUME IInv, NEW r \in 0 .. Bottom - 1
    PROVE  /\ Above(r) \in Seq(Seq(LineByte)) /\ Len(Above(r)) = r
           /\ Below(r + 1) \in Seq(Seq(LineByte))
           /\ Len(Below(r + 1)) = Bottom - (r + 1)
           /\ Line(r) \in Seq(LineByte) /\ Line(r + 1) \in Seq(LineByte)
           /\ lines = Cat(Then(Then(Above(r), Line(r)), Line(r + 1)), Below(r + 1))
           /\ Glued(r) = Cat(Then(Above(r), Cat(Line(r), Line(r + 1))), Below(r + 1))
  <1> DEFINE C == Seq(LineByte)
             q == r + 1
  <1>1. Bottom \in Nat /\ r \in 0 .. Bottom /\ q \in 0 .. Bottom /\ Len(lines) \in Nat
    BY TextFacts
  <1>2. /\ Above(r) \in Seq(C) /\ Len(Above(r)) = r
        /\ Above(q) \in Seq(C) /\ Len(Above(q)) = q
        /\ Below(q) \in Seq(C) /\ Len(Below(q)) = Bottom - q
        /\ lines = Cat(Then(Above(q), Line(q)), Below(q))
    BY <1>1, LinesApart
  <1>3. Line(r) \in C /\ Line(q) \in C
    BY <1>1, TextFacts
  <1>4. lines \in Seq(C) /\ r + 1 \in 1 .. Len(lines) /\ 1 \in 1 .. Len(lines)
    BY <1>1, TextFacts DEF Lines, Bottom
  <1>5. Above(q) = Then(Above(r), Line(r))
    <2> HIDE DEF C
    <2>1. SubSeq(lines, 1, r + 1) = SubSeq(lines, 1, r + 1 - 1) \o <<lines[r + 1]>>
      BY <1>4, SubSeqRecursiveSecond
    <2>2. r + 1 - 1 = r
      BY <1>1
    <2>3. Above(q) = Cat(Above(r), One(Line(r)))
      BY <2>1, <2>2 DEF Above, Line, Cat, One
    <2>4. \A s \in Seq(C), x \in C : Then(s, x) = Cat(s, One(x))
      BY ThenFacts
    <2> QED BY <1>2, <1>3, <2>3, <2>4
  <1>6. Glued(r) = Cat(Then(Above(r), Cat(Line(r), Line(q))), Below(q))
    <2> DEFINE x == Line(r) \o Line(r + 1)
    <2>1. x = Cat(Line(r), Line(q))
      BY DEF Cat
    <2>2. x \in C
      BY <1>3, <2>1, CatFacts
    <2>3. r + 3 = q + 2
      BY <1>1
    <2>4. Glued(r) = Above(r) \o <<x>> \o Below(q)
      BY <2>3 DEF Glued, Above, Below
    <2> HIDE DEF x, C
    <2>5. Above(r) \o <<x>> = Then(Above(r), x)
      <3>1. \A s \in Seq(C), y \in C : Then(s, y) = Cat(s, One(y))
        BY ThenFacts
      <3> QED BY <1>2, <2>2, <3>1 DEF Cat, One
    <2> QED BY <2>1, <2>4, <2>5 DEF Cat
  <1> QED BY <1>2, <1>3, <1>5, <1>6 DEF C

LEMMA CutForm ==
    ASSUME IInv, NEW a \in Seq(LineByte), NEW b \in Seq(LineByte)
    PROVE  Cut(row, a, b) = Cat(Then(Then(Above(row), a), b), Below(row))
  <1> DEFINE C == Seq(LineByte)
  <1>1. a \in C /\ b \in C /\ Above(row) \in Seq(C)
    BY TextFacts, LinesApart
  <1> HIDE DEF C
  <1>2. Above(row) \o <<a, b>> = Then(Then(Above(row), a), b)
    BY <1>1, TwoMore
  <1>3. Cut(row, a, b) = Above(row) \o <<a, b>> \o Below(row)
    BY DEF Cut, Above, Below
  <1> QED BY <1>2, <1>3 DEF Cat

LEMMA TypedForm ==
    ASSUME IInv, NEW x \in Seq(LineByte)
    PROVE  [lines EXCEPT ![row + 1] = x] = Cat(Then(Above(row), x), Below(row))
  <1> DEFINE C == Seq(LineByte)
  <1>1. lines \in Seq(C) /\ row \in 0 .. Len(lines) - 1 /\ x \in C
    BY TextFacts DEF Lines, Bottom
  <1> HIDE DEF C
  <1> QED BY <1>1, AroundReplaced DEF Above, Below

LEMMA CutFits ==
    ASSUME IInv, NEW a \in Seq(LineByte), NEW b \in Seq(LineByte)
    PROVE  Fits(Cut(row, a, b), row + 1, 0)
  <1> DEFINE C == Seq(LineByte)
             s == Then(Above(row), a)
             t == Below(row)
             w == Cat(Then(s, b), t)
  <1>1. /\ a \in C /\ b \in C /\ Above(row) \in Seq(C) /\ Len(Above(row)) = row /\ t \in Seq(C)
        /\ row \in Nat /\ Len(b) \in Nat
    BY TextFacts, LinesApart
  <1> HIDE DEF C
  <1>2. s \in Seq(C) /\ Len(s) = row + 1
    <2>1. \A q \in Seq(C) : Then(q, a) \in Seq(C) /\ Len(Then(q, a)) = Len(q) + 1
      BY <1>1, ThenFacts
    <2> QED BY <1>1, <2>1
  <1> HIDE DEF s, t
  <1>3. w \in Seq(C) /\ w # <<>> /\ Len(w) = Len(s) + 1 + Len(t) /\ w[Len(s) + 1] = b
    <2>1. s \in Seq(C) /\ b \in C /\ t \in Seq(C)
      BY <1>1, <1>2
    <2> QED BY <2>1, Around
  <1> HIDE DEF w
  <1>4. Len(t) \in Nat
    BY <1>1
  <1>5. Fits(w, row + 1, 0)
    BY <1>1, <1>2, <1>3, <1>4 DEF Fits, Lines, C
  <1> QED BY <1>5, CutForm DEF w, s, t

LEMMA GluedFits ==
    ASSUME IInv, NEW r \in 0 .. Bottom - 1, NEW c \in 0 .. Width(r)
    PROVE  Fits(Glued(r), r, c)
  <1> DEFINE C == Seq(LineByte)
             s == Above(r)
             x == Cat(Line(r), Line(r + 1))
             t == Below(r + 1)
             w == Cat(Then(s, x), t)
  <1>1. /\ s \in Seq(C) /\ Len(s) = r /\ t \in Seq(C)
        /\ Line(r) \in Seq(LineByte) /\ Line(r + 1) \in Seq(LineByte)
        /\ Glued(r) = w /\ r \in Nat
    BY TextFacts, LinesGlued
  <1>2. x \in C /\ Len(x) = Width(r) + Len(Line(r + 1))
    BY <1>1, CatFacts DEF Width
  <1>3. Len(Line(r + 1)) \in Nat /\ Width(r) \in Nat
    BY <1>1 DEF Width
  <1> HIDE DEF C, s, t, x
  <1>4. w \in Seq(C) /\ w # <<>> /\ Len(w) = Len(s) + 1 + Len(t) /\ w[Len(s) + 1] = x
    <2>1. s \in Seq(C) /\ x \in C /\ t \in Seq(C)
      BY <1>1, <1>2
    <2> QED BY <2>1, Around
  <1> HIDE DEF w
  <1>5. Len(t) \in Nat
    BY <1>1
  <1>6. Fits(w, r, c)
    BY <1>1, <1>2, <1>3, <1>4, <1>5 DEF Fits, Lines, C
  <1> QED BY <1>1, <1>6

\* What a character inserts is a line end or stays within its line.
LEMMA GlyphFacts ==
    ASSUME NEW g \in Glyph, g # <<NL>>
    PROVE  g \in Seq(Byte) /\ Clean(g) \in Seq(LineByte)
  <1> DEFINE D == Byte \ {NL}
  <1>1. g \in Seq(Byte) /\ (g = <<CR>> \/ {NL, CR} \cap Range(g) = {})
    BY EditorAssumption
  <1>2. g \in Seq(D)
    <2>1. CASE g = <<CR>>
      BY <2>1, EditorAssumption
    <2>2. CASE {NL, CR} \cap Range(g) = {}
      <3>1. \A i \in 1 .. Len(g) : g[i] \in Byte /\ g[i] # NL
        BY <1>1, <2>2 DEF Range
      <3>2. Len(g) \in Nat /\ g = [i \in 1 .. Len(g) |-> g[i]]
        BY <1>1
      <3>3. g \in [1 .. Len(g) -> D]
        BY <3>1, <3>2
      <3> QED BY <3>2, <3>3
    <2> QED BY <1>1, <2>1, <2>2
  <1>3. Clean(g) \in Seq(D \ {CR})
    <2> HIDE DEF D
    <2> QED BY <1>2, CleanRemoves
  <1>4. D \ {CR} = LineByte
    BY DEF LineByte
  <1> QED BY <1>1, <1>3, <1>4

LEMMA BlanksFacts ==
    /\ [i \in 1 .. TabWidth |-> SP] \in Seq(LineByte)
    /\ Len([i \in 1 .. TabWidth |-> SP]) = TabWidth
  BY EditorAssumption DEF LineByte

\* What is typed at the cursor: the line grows by it.
LEMMA Spliced ==
    ASSUME IInv, NEW x \in Seq(LineByte)
    PROVE  /\ Left \o x \o Right \in Seq(LineByte)
           /\ Left \o x \o Right = Cat(Cat(Left, x), Right)
           /\ Len(x) \in Nat
           /\ col + Len(x) \in 0 .. Len(Left \o x \o Right)
  <1> DEFINE a == Cat(Left, x)
             w == Cat(a, Right)
  <1>1. /\ Left \in Seq(LineByte) /\ Right \in Seq(LineByte) /\ Len(Left) = col
        /\ Len(Left) \in Nat /\ Len(Right) \in Nat /\ Len(x) \in Nat
    BY LeftRight
  <1>2. a \in Seq(LineByte) /\ Len(a) = col + Len(x)
    BY <1>1, CatType
  <1> HIDE DEF a
  <1>3. w \in Seq(LineByte) /\ Len(w) = Len(a) + Len(Right)
    BY <1>1, <1>2, CatType
  <1> HIDE DEF w
  <1>4. Left \o x \o Right = w
    BY DEF w, a, Cat
  <1>5. col + Len(x) \in 0 .. Len(w)
    BY <1>1, <1>2, <1>3
  <1> QED BY <1>1, <1>3, <1>4, <1>5 DEF w, a

\* What a byte of the line is erased from.
LEMMA Erased ==
    ASSUME IInv
    PROVE  /\ col > 0 => /\ SubSeq(Left, 1, col - 1) \in Seq(LineByte)
                         /\ Len(SubSeq(Left, 1, col - 1)) = col - 1
                         /\ Left[col] \in LineByte
                         /\ Left = Then(SubSeq(Left, 1, col - 1), Left[col])
           /\ col < Width(row) => /\ Right # <<>> /\ Head(Right) \in LineByte
                                  /\ Tail(Right) \in Seq(LineByte)
                                  /\ Right = Cat(One(Head(Right)), Tail(Right))
  <1>1. /\ Left \in Seq(LineByte) /\ Len(Left) = col
        /\ Right \in Seq(LineByte) /\ Len(Right) = Width(row) - col
        /\ col \in 0 .. Width(row) /\ Width(row) \in Nat
    BY LeftRight, TextFacts
  <1>2. ASSUME col > 0
        PROVE  /\ SubSeq(Left, 1, col - 1) \in Seq(LineByte)
               /\ Len(SubSeq(Left, 1, col - 1)) = col - 1
               /\ Left[col] \in LineByte
               /\ Left = Then(SubSeq(Left, 1, col - 1), Left[col])
    <2> DEFINE k == col - 1
               a == SubSeq(Left, 1, k)
               b == SubSeq(Left, k + 2, Len(Left))
    <2>1. k \in 0 .. Len(Left) - 1 /\ k + 1 = col /\ Len(Left) - k - 1 = 0
      BY <1>1, <1>2
    <2> HIDE DEF k
    <2>2. /\ a \in Seq(LineByte) /\ Len(a) = k
          /\ b \in Seq(LineByte) /\ Len(b) = Len(Left) - k - 1
          /\ Left[k + 1] \in LineByte
      BY <1>1, <2>1, Apart
    <2>3. Left = Cat(Then(a, Left[k + 1]), b)
      BY <1>1, <2>1, Apart
    <2>4. b = <<>>
      <3> HIDE DEF b
      <3> QED BY <2>1, <2>2
    <2> HIDE DEF a, b
    <2>5. Then(a, Left[k + 1]) \in Seq(LineByte)
      BY <2>2, ThenFacts
    <2>6. Left = Then(a, Left[k + 1])
      BY <2>3, <2>4, <2>5, CatFacts
    <2> QED BY <2>1, <2>2, <2>6 DEF a, k
  <1>3. ASSUME col < Width(row)
        PROVE  /\ Right # <<>> /\ Head(Right) \in LineByte
               /\ Tail(Right) \in Seq(LineByte)
               /\ Right = Cat(One(Head(Right)), Tail(Right))
    <2>1. Right # <<>>
      BY <1>1, <1>3
    <2>2. Head(Right) \in LineByte /\ Tail(Right) \in Seq(LineByte)
      BY <1>1, <2>1
    <2>3. Right = <<Head(Right)>> \o Tail(Right)
      BY <1>1, <2>1, HeadTailProperties
    <2> QED BY <2>1, <2>2, <2>3 DEF Cat, One
  <1> QED BY <1>2, <1>3

\* One key at a time.
LEMMA KeyPressFits ==
    ASSUME IInv, KeyPress
    PROVE  GoodKey
  <1>1. /\ row \in 0 .. Bottom /\ Bottom \in Nat /\ row \in Nat
        /\ col \in 0 .. Width(row) /\ col \in Nat /\ Width(row) \in Nat
        /\ \A r \in 0 .. Bottom : Width(r) \in Nat
    BY TextFacts
  <1>2. ASSUME NEW r \in 0 .. Bottom PROVE Least(col, Width(r)) \in 0 .. Width(r)
    BY <1>1 DEF Least
  <1>3. Left \in Seq(LineByte) /\ Right \in Seq(LineByte) /\ Len(Left) = col
    BY LeftRight
  <1>4. CASE ArrowUp
    BY <1>1, <1>2, <1>4, MoveFits, WithinFits DEF ArrowUp
  <1>5. CASE ArrowDown
    BY <1>1, <1>2, <1>5, MoveFits, WithinFits DEF ArrowDown
  <1>6. CASE ArrowLeft
    BY <1>1, <1>6, MoveFits, WithinFits DEF ArrowLeft
  <1>7. CASE ArrowRight
    BY <1>1, <1>7, MoveFits, WithinFits DEF ArrowRight
  <1>8. CASE Home \/ End
    BY <1>1, <1>8, WithinFits DEF Home, End
  <1>9. CASE PageUp
    <2> DEFINE r == Most(0, row - PageRows)
    <2>1. r \in 0 .. Bottom
      BY <1>1, EditorAssumption DEF Most
    <2>2. MoveTo(r, Least(col, Width(r)))
      BY <1>9 DEF PageUp
    <2> HIDE DEF r
    <2> QED BY <1>2, <2>1, <2>2, MoveFits
  <1>10. CASE PageDown
    <2> DEFINE r == Least(Bottom, row + PageRows)
    <2>1. r \in 0 .. Bottom
      BY <1>1, EditorAssumption DEF Least
    <2>2. MoveTo(r, Least(col, Width(r)))
      BY <1>10 DEF PageDown
    <2> HIDE DEF r
    <2> QED BY <1>2, <2>1, <2>2, MoveFits
  <1>11. ASSUME Rebuild(Cut(row, Left, Right), row + 1, 0) PROVE GoodKey
    BY <1>3, <1>11, CutFits, RebuildFits
  <1>12. CASE Return
    BY <1>11, <1>12 DEF Return
  <1>13. CASE Backspace
    <2>1. CASE col > 0 /\ Retype(SubSeq(Left, 1, col - 1) \o Right, col - 1)
      <3> DEFINE a == SubSeq(Left, 1, col - 1)
                 w == Cat(a, Right)
      <3>1. a \in Seq(LineByte) /\ Len(a) = col - 1 /\ Len(Right) \in Nat
        BY <1>3, <2>1, Erased
      <3>2. w \in Seq(LineByte) /\ Len(w) = Len(a) + Len(Right)
        BY <1>3, <3>1, CatFacts
      <3>3. Retype(w, col - 1)
        BY <2>1 DEF Cat
      <3> HIDE DEF a, w
      <3>4. col - 1 \in 0 .. Len(w)
        BY <1>1, <2>1, <3>1, <3>2
      <3> QED BY <3>2, <3>3, <3>4, RetypeFits
    <2>2. CASE col = 0 /\ row > 0 /\ Rebuild(Glued(row - 1), row - 1, Width(row - 1))
      <3>1. row - 1 \in 0 .. Bottom - 1 /\ row - 1 \in 0 .. Bottom
        BY <1>1, <2>2
      <3>2. Width(row - 1) \in 0 .. Width(row - 1)
        BY <1>1, <3>1
      <3> QED BY <2>2, <3>1, <3>2, GluedFits, RebuildFits
    <2>3. CASE col = 0 /\ row = 0 /\ Within(0)
      BY <1>1, <2>3, WithinFits
    <2> QED BY <1>13, <2>1, <2>2, <2>3 DEF Backspace
  <1>14. CASE Delete
    <2>1. CASE col < Width(row) /\ Retype(Left \o Tail(Right), col)
      <3> DEFINE b == Tail(Right)
                 w == Cat(Left, b)
      <3>1. b \in Seq(LineByte) /\ Len(b) \in Nat
        BY <2>1, Erased
      <3>2. w \in Seq(LineByte) /\ Len(w) = Len(Left) + Len(b)
        BY <1>3, <3>1, CatFacts
      <3>3. Retype(w, col)
        BY <2>1 DEF Cat
      <3> HIDE DEF b, w
      <3>4. col \in 0 .. Len(w)
        BY <1>1, <1>3, <3>1, <3>2
      <3> QED BY <3>2, <3>3, <3>4, RetypeFits
    <2>2. CASE col = Width(row) /\ row < Bottom /\ Rebuild(Glued(row), row, col)
      <3>1. row \in 0 .. Bottom - 1
        BY <1>1, <2>2
      <3> QED BY <1>1, <2>2, <3>1, GluedFits, RebuildFits
    <2>3. CASE col = Width(row) /\ row = Bottom /\ Within(col)
      BY <1>1, <2>3, WithinFits
    <2> QED BY <1>14, <2>1, <2>2, <2>3 DEF Delete
  <1>15. CASE TabKey
    <2> DEFINE x == [i \in 1 .. TabWidth |-> SP]
    <2>1. x \in Seq(LineByte) /\ Len(x) = TabWidth
      BY BlanksFacts
    <2>2. Retype(Left \o x \o Right, col + TabWidth)
      BY <1>15 DEF TabKey
    <2> HIDE DEF x
    <2>3. /\ Left \o x \o Right \in Seq(LineByte)
          /\ col + Len(x) \in 0 .. Len(Left \o x \o Right)
      BY <2>1, Spliced
    <2> QED BY <2>1, <2>2, <2>3, RetypeFits
  <1>16. ASSUME NEW g \in Glyph, Character(g) PROVE GoodKey
    <2>1. CASE g = <<NL>>
      BY <1>11, <1>16, <2>1 DEF Character
    <2>2. CASE g # <<NL>>
      <3> DEFINE x == Clean(g)
                 y == Left \o x \o Right
      <3>1. x \in Seq(LineByte)
        BY <2>2, GlyphFacts
      <3>2. Rebuild([lines EXCEPT ![row + 1] = y], row, col + Len(x))
        BY <1>16, <2>2 DEF Character
      <3> HIDE DEF x
      <3>3. y \in Seq(LineByte) /\ col + Len(x) \in 0 .. Len(y)
        BY <3>1, Spliced
      <3> HIDE DEF y
      <3>4. Fits([lines EXCEPT ![row + 1] = y], row, col + Len(x))
        BY <3>3, TypedFits
      <3> QED BY <3>2, <3>4, RebuildFits
    <2> QED BY <2>1, <2>2
  <1> QED
    BY <1>4, <1>5, <1>6, <1>7, <1>8, <1>9, <1>10, <1>12, <1>13, <1>14, <1>15, <1>16 DEF KeyPress

-----------------------------------------------------------------------------
(* What a right click copies.                                              *)

\* The first position of a run of positions in P that c is in, and the last.
LEMMA RunBefore ==
    ASSUME NEW P, NEW c \in Nat, c \in P
    PROVE  \E a \in 0 .. c : (\A i \in a .. c : i \in P) /\ (a = 0 \/ ~(a - 1 \in P))
  <1> DEFINE T == {a \in 0 .. c : \A i \in a .. c : i \in P}
  <1>1. T \subseteq Nat /\ c \in T
    OBVIOUS
  <1>2. PICK a \in T : \A y \in T : a <= y
    <2> HIDE DEF T
    <2> QED BY <1>1, LeastNumber
  <1>3. ASSUME a # 0, a - 1 \in P PROVE FALSE
    <2>1. a - 1 \in T
      BY <1>3
    <2> QED BY <1>2, <2>1
  <1> QED BY <1>3

LEMMA RunBehind ==
    ASSUME NEW P, NEW n \in Nat, NEW c \in 0 .. n - 1, c \in P
    PROVE  \E b \in c .. n - 1 :
              (\A i \in c .. b : i \in P) /\ (b = n - 1 \/ ~(b + 1 \in P))
  <1> DEFINE T == {k \in 0 .. n - 1 - c : \A i \in c .. n - 1 - k : i \in P}
  <1>1. T \subseteq Nat /\ n - 1 - c \in T
    <2>1. n - 1 - c \in 0 .. n - 1 - c /\ n - 1 - (n - 1 - c) = c
      OBVIOUS
    <2>2. \A i \in c .. n - 1 - (n - 1 - c) : i \in P
      BY <2>1
    <2> QED BY <2>1, <2>2
  <1>2. PICK k \in T : \A y \in T : k <= y
    <2> HIDE DEF T
    <2> QED BY <1>1, LeastNumber
  <1> DEFINE b == n - 1 - k
  <1>3. b \in c .. n - 1 /\ (\A i \in c .. b : i \in P) /\ k \in Nat
    OBVIOUS
  <1>4. ASSUME b # n - 1, b + 1 \in P PROVE FALSE
    <2>1. k - 1 \in T
      BY <1>3, <1>4
    <2> QED BY <1>2, <2>1
  <1> QED BY <1>3, <1>4

LEMMA ByteSeqs ==
    /\ LineByte \subseteq Byte
    /\ Seq(LineByte) \subseteq Seq(Byte) /\ Seq(Seq(LineByte)) \subseteq Seq(Seq(Byte))
    /\ <<CR, NL>> \in Seq(Byte) /\ One(NL) \in Seq(Byte) /\ NL \in Byte /\ CR \in Byte
  <1>1. LineByte \subseteq Byte
    BY DEF LineByte
  <1> QED BY <1>1, FewerBytes, EditorAssumption DEF One

LEMMA GetTextType ==
    ASSUME IInv
    PROVE  GetText \in Seq(Byte)
  <1>1. lines \in Seq(Seq(Byte)) /\ <<CR, NL>> \in Seq(Byte)
    BY TextFacts, ByteSeqs DEF Lines
  <1> QED BY <1>1, JoinFacts DEF GetText

LEMMA GetWordAtType ==
    ASSUME IInv, NEW r \in 0 .. Bottom, NEW c \in Nat
    PROVE  GetWordAt(r, c) \in Seq(Byte)
  <1> DEFINE t == Line(r)
             n == Len(t)
             word(i) == t[i + 1] \in Word
             span(a, b) == \A i \in a .. b : word(i)
             a == CHOOSE x \in 0 .. c : span(x, c) /\ (x = 0 \/ ~word(x - 1))
             b == CHOOSE x \in c .. n - 1 : span(c, x) /\ (x = n - 1 \/ ~word(x + 1))
  <1>1. t \in Seq(Byte) /\ n \in Nat
    BY TextFacts, ByteSeqs
  <1>2. CASE c >= n \/ (c < n /\ ~word(c))
    <2>1. GetWordAt(r, c) = <<>>
      BY <1>2 DEF GetWordAt, Width
    <2> QED BY <2>1
  <1>3. CASE ~(c >= n \/ (c < n /\ ~word(c)))
    <2>1. GetWordAt(r, c) = SubSeq(t, 1 + a, 1 + b)
      BY <1>3 DEF GetWordAt, Width
    <2> HIDE DEF t
    <2>2. c \in 0 .. n - 1 /\ word(c)
      BY <1>1, <1>3
    <2> HIDE DEF n
    <2> DEFINE P == {i \in -1 .. n : word(i)}
    <2>3. \A i \in -1 .. n : i \in P <=> word(i)
      OBVIOUS
    <2>4. /\ \E x \in 0 .. c : (\A i \in x .. c : i \in P) /\ (x = 0 \/ ~(x - 1 \in P))
          /\ \E x \in c .. n - 1 : (\A i \in c .. x : i \in P) /\ (x = n - 1 \/ ~(x + 1 \in P))
      <3>1. n \in Nat /\ c \in 0 .. n - 1 /\ c \in P
        BY <1>1, <2>2 DEF n
      <3> HIDE DEF P
      <3>2. \E x \in 0 .. c : (\A i \in x .. c : i \in P) /\ (x = 0 \/ ~(x - 1 \in P))
        BY <1>1, <2>2, <3>1, RunBefore
      <3>3. \E x \in c .. n - 1 : (\A i \in c .. x : i \in P) /\ (x = n - 1 \/ ~(x + 1 \in P))
        BY <3>1, RunBehind
      <3> QED BY <3>2, <3>3
    <2> HIDE DEF P, word
    <2>5. \E x \in 0 .. c : span(x, c) /\ (x = 0 \/ ~word(x - 1))
      <3>1. PICK x \in 0 .. c : (\A i \in x .. c : i \in P) /\ (x = 0 \/ ~(x - 1 \in P))
        BY <2>4
      <3>2. \A i \in x .. c : i \in -1 .. n
        BY <1>1, <2>2
      <3>3. x - 1 \in -1 .. n
        BY <1>1, <2>2
      <3>4. span(x, c)
        BY <2>3, <3>1, <3>2
      <3>5. x = 0 \/ ~word(x - 1)
        BY <2>3, <3>1, <3>3
      <3> QED BY <3>4, <3>5
    <2>6. \E x \in c .. n - 1 : span(c, x) /\ (x = n - 1 \/ ~word(x + 1))
      <3>1. PICK x \in c .. n - 1 : (\A i \in c .. x : i \in P) /\ (x = n - 1 \/ ~(x + 1 \in P))
        BY <2>4
      <3>2. \A i \in c .. x : i \in -1 .. n
        BY <1>1, <2>2
      <3>3. x + 1 \in -1 .. n
        BY <1>1, <2>2
      <3>4. span(c, x)
        BY <2>3, <3>1, <3>2
      <3>5. x = n - 1 \/ ~word(x + 1)
        BY <2>3, <3>1, <3>3
      <3> QED BY <3>4, <3>5
    <2> HIDE DEF span
    <2>7. a \in 0 .. c
      BY <2>5
    <2>8. b \in c .. n - 1
      BY <2>6
    <2> HIDE DEF a, b
    <2>9. SubSeq(t, 1 + a, 1 + b) \in Seq(Byte)
      <3>1. 1 + a \in 1 .. n + 1 /\ 1 + b \in 1 + a - 1 .. n
        BY <1>1, <2>2, <2>7, <2>8
      <3>2. \A i \in 1 + a .. 1 + b : t[i] \in Byte
        <4>1. ASSUME NEW i \in 1 + a .. 1 + b PROVE i \in 1 .. n
          BY <1>1, <2>2, <2>7, <2>8
        <4> QED BY <1>1, <4>1 DEF n
      <3> QED BY <3>1, <3>2, SubSeqProperties DEF n
    <2> QED BY <2>1, <2>9
  <1> QED BY <1>2, <1>3

\* The two ends of the selection, in reading order.
LEMMA FirstFinal ==
    ASSUME IInv
    PROVE  /\ First \in Int \X Int /\ Final \in Int \X Int /\ First[1] <= Final[1]
           /\ selected => InText(First) /\ InText(Final)
  <1>1. from \in Int \X Int /\ to \in Int \X Int
    BY DEF IInv, TypeOK
  <1>2. First[1] <= Final[1]
    BY <1>1 DEF First, Final, Reversed
  <1>3. First \in {from, to} /\ Final \in {from, to}
    BY DEF First, Final
  <1>4. selected => InText(from) /\ InText(to)
    BY DEF IInv, SelectionInText
  <1> QED BY <1>1, <1>2, <1>3, <1>4

LEMMA ClampFacts ==
    /\ \A n \in Nat, x \in Int : Clamp(n, x) \in 0 .. n
    /\ \A n \in Nat : \A x \in 0 .. n : Clamp(n, x) = x
    /\ \A n \in Nat, x, y \in Int : x <= y => Clamp(n, x) <= Clamp(n, y)
  BY DEF Clamp, Most, Least

LEMMA GetSelectedTextType ==
    ASSUME IInv
    PROVE  GetSelectedText \in Seq(Byte)
  <1> DEFINE top == Clamp(Bottom, First[1])
             end == Clamp(Bottom, Final[1])
             a(r) == 1 + (IF r = top THEN Clamp(Width(r), First[2]) ELSE 0)
             b(r) == IF r = end THEN Clamp(Width(r), Final[2]) ELSE Width(r)
             part(r) == SubSeq(Line(r), a(r), b(r))
             m == end - top + 1
             ls == [i \in 1 .. m |-> part(top + i - 1)]
  <1>1. /\ First \in Int \X Int /\ Final \in Int \X Int /\ First[1] <= Final[1]
        /\ Bottom \in Nat
    BY FirstFinal, TextFacts
  <1>2. top \in 0 .. Bottom /\ end \in 0 .. Bottom /\ top <= end
    BY <1>1, ClampFacts
  <1>3. \A r \in 0 .. Bottom : part(r) \in Seq(Byte)
    <2>1. TAKE r \in 0 .. Bottom
    <2>2. Line(r) \in Seq(Byte) /\ Width(r) = Len(Line(r)) /\ Width(r) \in Nat
      BY TextFacts, ByteSeqs DEF Width
    <2>3. a(r) \in 1 .. Width(r) + 1 /\ b(r) \in 0 .. Width(r)
      <3>1. Clamp(Width(r), First[2]) \in 0 .. Width(r) /\ Clamp(Width(r), Final[2]) \in 0 .. Width(r)
        BY <1>1, <2>2, ClampFacts
      <3> QED BY <2>2, <3>1
    <2> HIDE DEF a, b
    <2> DEFINE t == Line(r)
               x == a(r)
               y == b(r)
    <2>4. t \in Seq(Byte) /\ x \in 1 .. Len(t) + 1 /\ y \in 0 .. Len(t) /\ Len(t) \in Nat
      BY <2>2, <2>3
    <2> HIDE DEF t, x, y
    <2>5. SubSeq(t, x, y) \in Seq(Byte)
      BY <2>4
    <2> QED BY <2>5 DEF t, x, y
  <1> HIDE DEF part, top, end
  <1>4. m \in Nat /\ \A i \in 1 .. m : part(top + i - 1) \in Seq(Byte)
    BY <1>1, <1>2, <1>3
  <1> HIDE DEF m
  <1>5. ls \in Seq(Seq(Byte))
    BY <1>4
  <1> HIDE DEF ls
  <1>6. Join(ls, <<CR, NL>>) \in Seq(Byte)
    BY <1>5, ByteSeqs, JoinFacts
  <1>7. GetSelectedText = Join(ls, <<CR, NL>>)
    BY DEF GetSelectedText, ls, m, part, a, b, top, end
  <1> QED BY <1>6, <1>7

\* The two ways to clamp a selection that lies in the text agree.
LEMMA CopiedIsShown ==
    ASSUME IInv
    PROVE  CopiesWhatIsShown
  <1> SUFFICES ASSUME selected PROVE CopiesWhatIsShown
    BY DEF CopiesWhatIsShown
  <1> DEFINE top == Clamp(Bottom, First[1])
             end == Clamp(Bottom, Final[1])
             part(r) == SubSeq(Line(r),
                               1 + (IF r = top THEN Clamp(Width(r), First[2]) ELSE 0),
                               IF r = end THEN Clamp(Width(r), Final[2]) ELSE Width(r))
             up == Most(0, First[1])
             down == Least(Bottom, Final[1])
  <1>1. /\ First[1] \in 0 .. Bottom /\ Final[1] \in 0 .. Bottom /\ Bottom \in Nat
    BY FirstFinal, TextFacts DEF InText
  <1>2. top = First[1] /\ end = Final[1]
    BY <1>1, ClampFacts
  <1>3. up = First[1] /\ down = Final[1]
    BY <1>1 DEF Most, Least
  <1>4. \A r : part(r) = Painted(r)
    BY <1>2 DEF Painted
  <1>5. GetSelectedText = Join([i \in 1 .. end - top + 1 |-> part(top + i - 1)], <<CR, NL>>)
    BY DEF GetSelectedText
  <1> HIDE DEF part, top, end, up, down
  <1>6. [i \in 1 .. end - top + 1 |-> part(top + i - 1)]
            = [i \in 1 .. down - up + 1 |-> Painted(up + i - 1)]
    BY <1>2, <1>3, <1>4
  <1>7. GetSelectedText = Join([i \in 1 .. down - up + 1 |-> Painted(up + i - 1)], <<CR, NL>>)
    BY <1>5, <1>6
  <1> QED BY <1>7 DEF CopiesWhatIsShown, up, down

-----------------------------------------------------------------------------
(* Every step keeps the invariant.                                         *)

LEMMA InitHolds ==
    ASSUME Init
    PROVE  IInv
  <1>1. lines = <<<<>>>> /\ <<>> \in Seq(LineByte)
    BY DEF Init
  <1>2. lines \in Seq(Seq(LineByte)) \ {<<>>} /\ Len(lines) = 1 /\ Len(lines[1]) = 0
    BY <1>1
  <1>3. TypeOK
    <2>1. /\ row = 0 /\ col = 0 /\ scroll = 0 /\ height = 1
          /\ selecting = FALSE /\ selected = FALSE
          /\ from = <<-1, -1>> /\ to = <<-1, -1>> /\ copied = <<>>
      BY DEF Init
    <2>2. <<-1, -1>> \in Int \X Int /\ <<>> \in Seq(Byte)
      OBVIOUS
    <2>3. from \in Int \X Int /\ to \in Int \X Int
      BY <2>1, <2>2
    <2>4. lines \in Seq(Seq(LineByte)) \ {<<>>}
      BY <1>2
    <2>5. row \in Nat /\ col \in Nat /\ scroll \in Nat /\ height \in Nat
      BY <2>1
    <2>6. selecting \in BOOLEAN /\ selected \in BOOLEAN
      BY <2>1
    <2>7. copied \in Seq(Byte)
      BY <2>1, <2>2
    <2> QED BY <2>3, <2>4, <2>5, <2>6, <2>7 DEF TypeOK
  <1>4. CursorInText /\ ViewInText /\ SelectionInText
    BY <1>2 DEF Init, CursorInText, ViewInText, SelectionInText, Width, Line
  <1> QED BY <1>3, <1>4 DEF IInv

\* A text that is loaded, however its lines ended.
LEMMA LoadedLines ==
    ASSUME NEW t \in Docs
    PROVE  SplitLines(Clean(t)) \in Lines
  <1> DEFINE D == Byte \ {CR}
  <1>1. Clean(t) \in Seq(D) /\ NL \in D
    BY CleanRemoves, EditorAssumption
  <1> HIDE DEF D
  <1>2. SplitLines(Clean(t)) \in Seq(Seq(D \ {NL})) \ {<<>>}
    BY <1>1, JoinSplit
  <1>3. D \ {NL} = LineByte
    BY DEF D, LineByte
  <1> QED BY <1>2, <1>3 DEF Lines

LEMMA RestartKeeps ==
    ASSUME IInv, NEW ls \in Lines, Restart(ls)
    PROVE  IInv'
  <1>1. /\ lines' = ls /\ row' = 0 /\ col' = 0 /\ scroll' = 0
        /\ selecting' = FALSE /\ selected' = FALSE /\ copied' = <<>>
        /\ height' = height /\ from' = from /\ to' = to
    BY DEF Restart
  <1>2. ls \in Seq(Seq(LineByte)) \ {<<>>} /\ Len(ls) \in Nat \ {0}
    BY DEF Lines
  <1>3. Len(ls[1]) \in Nat
    <2>1. ls[1] \in Seq(LineByte)
      BY <1>2
    <2> QED BY <2>1
  <1>4. TypeOK'
    <2>1. /\ height \in Nat /\ from \in Int \X Int /\ to \in Int \X Int
          /\ <<>> \in Seq(Byte)
      BY DEF IInv, TypeOK
    <2> QED BY <1>1, <1>2, <2>1 DEF TypeOK
  <1>5. CursorInText'
    BY <1>1, <1>2, <1>3 DEF CursorInText, Width, Line
  <1>6. ViewInText' /\ SelectionInText'
    BY <1>1, <1>2 DEF ViewInText, SelectionInText
  <1> QED BY <1>4, <1>5, <1>6 DEF IInv

\* Scrolling and copying: the text, its cursor and the selection stay.
LEMMA LookingKeeps ==
    ASSUME IInv, UNCHANGED <<lines, row, col, selected, from, to>>,
           scroll' \in 0 .. Bottom, height' \in Nat, selecting' \in BOOLEAN,
           copied' \in Seq(Byte)
    PROVE  IInv'
  <1>1. Len(lines) \in Nat /\ Bottom = Len(lines) - 1
    BY TextFacts DEF Bottom
  <1>2. TypeOK'
    BY <1>1 DEF IInv, TypeOK
  <1>3. CursorInText'
    BY DEF IInv, CursorInText, Width, Line
  <1>4. ViewInText'
    BY <1>1 DEF ViewInText
  <1>5. SelectionInText'
    BY DEF IInv, SelectionInText, InText, Bottom, Width, Line
  <1> QED BY <1>2, <1>3, <1>4, <1>5 DEF IInv

LEMMA TargetFacts ==
    ASSUME IInv, NEW y \in 0 .. height - 1, NEW x \in Columns
    PROVE  /\ TargetRow(y) \in 0 .. Bottom
           /\ TargetCol(y, x) \in 0 .. Width(TargetRow(y)) /\ TargetCol(y, x) \in Nat
  <1>1. Bottom \in Nat /\ scroll \in Nat /\ height \in Nat /\ x \in Nat
    BY TextFacts, EditorAssumption
  <1>2. TargetRow(y) \in 0 .. Bottom
    BY <1>1 DEF TargetRow, Clamp, Most, Least
  <1>3. Width(TargetRow(y)) \in Nat
    BY <1>2, TextFacts
  <1> QED BY <1>1, <1>2, <1>3 DEF TargetCol, Least

\* The cursor goes to the mouse, and one end of the selection with it.
LEMMA PointingKeeps ==
    ASSUME IInv, NEW r \in 0 .. Bottom, NEW c \in 0 .. Width(r), CursorTo(r, c),
           selecting' \in BOOLEAN, selected' \in BOOLEAN,
           from' = to' \/ (from' = from /\ selected' = selected)
    PROVE  IInv'
  <1>1. /\ row' = r /\ col' = c /\ to' = <<r, c>> /\ copied' = <<>>
        /\ lines' = lines /\ scroll' = scroll /\ height' = height
    BY DEF CursorTo
  <1>2. r \in Nat /\ c \in Nat /\ r < Len(lines) /\ Width(r) \in Nat
    BY TextFacts DEF Bottom
  <1>3. TypeOK'
    <2>1. /\ lines \in Seq(Seq(LineByte)) \ {<<>>} /\ scroll \in Nat /\ height \in Nat
          /\ from \in Int \X Int /\ <<>> \in Seq(Byte)
      BY DEF IInv, TypeOK
    <2>2. to' \in Int \X Int
      BY <1>1, <1>2
    <2>3. from' \in Int \X Int
      BY <2>1, <2>2
    <2> QED BY <1>1, <1>2, <2>1, <2>2, <2>3 DEF TypeOK
  <1>4. CursorInText'
    BY <1>1, <1>2 DEF CursorInText, Width, Line
  <1>5. ViewInText'
    BY <1>1 DEF IInv, ViewInText
  <1>6. InText(to)'
    BY <1>1 DEF InText, Bottom, Width, Line
  <1>7. SelectionInText'
    <2>1. CASE from' = to'
      BY <1>6, <2>1 DEF SelectionInText, InText
    <2>2. CASE from' = from /\ selected' = selected
      <3>1. selected => InText(from)
        BY DEF IInv, SelectionInText
      <3>2. selected => InText(from)'
        BY <1>1, <2>2, <3>1 DEF InText, Bottom, Width, Line
      <3> QED BY <1>6, <2>2, <3>2 DEF SelectionInText
    <2> QED BY <2>1, <2>2
  <1> QED BY <1>3, <1>4, <1>5, <1>7 DEF IInv

LEMMA MouseKeeps ==
    ASSUME IInv, Mouse
    PROVE  IInv'
  <1>1. /\ Bottom \in Nat /\ Bottom = Len(lines) - 1 /\ scroll \in 0 .. Bottom
        /\ height \in Nat /\ EventRows \in Nat \ {0} /\ WheelRows \in Nat
        /\ <<>> \in Seq(Byte) /\ selecting \in BOOLEAN /\ selected \in BOOLEAN
    BY TextFacts, RowsFacts, EditorAssumption DEF IInv, TypeOK, Bottom
  <1>2. CASE WheelUp
    <2>1. scroll' \in 0 .. Bottom
      BY <1>1, <1>2 DEF WheelUp, Most
    <2> QED BY <1>1, <1>2, <2>1, LookingKeeps DEF WheelUp, selection
  <1>3. CASE WheelDown
    <2>1. scroll' \in 0 .. Bottom
      BY <1>1, <1>3 DEF WheelDown, Most, Least
    <2> QED BY <1>1, <1>3, <2>1, LookingKeeps DEF WheelDown, selection
  <1>4. CASE ReleaseOutside
    BY <1>1, <1>4, LookingKeeps DEF ReleaseOutside
  <1>5. ASSUME NEW y \in 0 .. height - 1, NEW x \in Columns,
               LeftPress(y, x) \/ LeftDrag(y, x) \/ RightPress(y, x)
        PROVE  IInv'
    <2>1. /\ TargetRow(y) \in 0 .. Bottom
          /\ TargetCol(y, x) \in 0 .. Width(TargetRow(y)) /\ TargetCol(y, x) \in Nat
      BY TargetFacts
    <2>2. CASE LeftPress(y, x)
      BY <2>1, <2>2, PointingKeeps DEF LeftPress
    <2>3. CASE LeftDrag(y, x)
      BY <1>1, <2>1, <2>3, PointingKeeps DEF LeftDrag
    <2>4. CASE RightPress(y, x)
      <3>1. copied' \in Seq(Byte)
        BY <2>1, <2>4, GetTextType, GetSelectedTextType, GetWordAtType DEF RightPress
      <3> QED BY <1>1, <2>4, <3>1, LookingKeeps DEF RightPress, selection
    <2> QED BY <1>5, <2>2, <2>3, <2>4
  <1> QED BY <1>2, <1>3, <1>4, <1>5 DEF Mouse

LEMMA RenderKeeps ==
    ASSUME IInv, Render
    PROVE  IInv'
  <1>1. /\ scroll \in Nat /\ Len(lines) \in Nat /\ Bottom = Len(lines) - 1
        /\ row \in 0 .. Len(lines) - 1 /\ FrameRows \in Nat \ {0}
        /\ Heights \subseteq Nat /\ <<>> \in Seq(Byte) /\ selecting \in BOOLEAN
    BY TextFacts, RowsFacts, EditorAssumption DEF IInv, TypeOK, Bottom
  <1>2. scroll' \in 0 .. Bottom
    BY <1>1, FollowFacts DEF Render
  <1> QED BY <1>1, <1>2, LookingKeeps DEF Render, selection

LEMMA NextKeeps ==
    ASSUME IInv, [Next]_vars
    PROVE  IInv'
  <1>1. CASE SetText
    BY <1>1, LoadedLines, RestartKeeps DEF SetText
  <1>2. CASE Clear
    <2>1. <<<<>>>> \in Lines
      BY DEF Lines
    <2> QED BY <1>2, <2>1, RestartKeeps DEF Clear
  <1>3. CASE CopyToClipboard
    <2>1. copied' \in Seq(Byte)
      BY <1>3, GetTextType DEF CopyToClipboard
    <2>2. scroll \in 0 .. Bottom /\ height \in Nat /\ selecting \in BOOLEAN
      BY TextFacts DEF IInv, TypeOK
    <2> QED BY <1>3, <2>1, <2>2, LookingKeeps DEF CopyToClipboard, selection
  <1>4. CASE Mouse
    BY <1>4, MouseKeeps
  <1>5. CASE KeyPress
    BY <1>5, KeyPressFits, GoodKeyKeeps
  <1>6. CASE Render
    BY <1>6, RenderKeeps
  <1>7. CASE UNCHANGED vars
    BY <1>7, LookingKeeps, TextFacts DEF vars, IInv, TypeOK
  <1> QED BY <1>1, <1>2, <1>3, <1>4, <1>5, <1>6, <1>7 DEF Next

\* The cursor is in the text, the view is, and so is a selection that is
\* displayed, whatever keys, clicks, texts and frames OnEvent, SetText and
\* Render are given.
THEOREM EditorInvariant == Spec => []IInv
  <1>1. Init => IInv
    BY InitHolds
  <1>2. IInv /\ [Next]_vars => IInv'
    BY NextKeeps
  <1> QED BY <1>1, <1>2, PTL DEF Spec

\* GetText, loaded again by SetText, gives the same lines.
THEOREM EditorRoundTrip == Spec => []RoundTrip
  <1>1. IInv => RoundTrip
    <2>1. ASSUME IInv PROVE RoundTrip
      <3>1. lines \in Seq(Seq(Byte \ {NL, CR})) /\ lines # <<>>
        BY <2>1, TextFacts DEF Lines, LineByte
      <3> QED BY <3>1, RoundTripLines, EditorAssumption DEF RoundTrip, GetText
    <2> QED BY <2>1
  <1> QED BY <1>1, EditorInvariant, PTL

\* A right click copies, row by row, what Render paints as selected.
THEOREM EditorCopiesWhatIsShown == Spec => []CopiesWhatIsShown
  <1>1. IInv => CopiesWhatIsShown
    BY CopiedIsShown
  <1> QED BY <1>1, EditorInvariant, PTL

\* No key moves the cursor out of the rows that Render draws.
THEOREM EditorViewFollows == Spec => ViewFollows
  <1>1. IInv /\ [Next]_vars => [FollowsKeys]_vars
    <2>1. ASSUME IInv, KeyPress PROVE FollowsKeys
      BY <2>1, KeyPressFits, GoodKeyKeeps
    <2>2. ~KeyPress => FollowsKeys
      BY DEF FollowsKeys
    <2> QED BY <2>1, <2>2
  <1> QED BY <1>1, EditorInvariant, PTL DEF Spec, ViewFollows

-----------------------------------------------------------------------------
(* The lines and the cursor as one text with a position in it.             *)

Ahead(s, x)  == Join(Then(s, x), One(NL))
Behind(y, t) == Join(Cat(One(y), t), One(NL))

Place(ls, r, c) == Len(Join(SubSeq(ls, 1, r) \o <<SubSeq(ls[r + 1], 1, c)>>, <<NL>>))

\* FlatAs(text, pos, a, b): the cursor is between a and b.
FlatAs(text, pos, a, b) ==
    a \in Seq(Byte) /\ b \in Seq(Byte) /\ text = Cat(a, b) /\ pos = Len(a)

LEMMA FlatParts ==
    ASSUME NEW text, NEW pos, NEW a, NEW b, FlatAs(text, pos, a, b)
    PROVE  SubSeq(text, 1, pos) = a /\ SubSeq(text, pos + 1, Len(text)) = b
  <1>1. a \in Seq(Byte) /\ b \in Seq(Byte) /\ text = Cat(a, b) /\ pos = Len(a)
    BY DEF FlatAs
  <1>2. SubSeq(Cat(a, b), 1, Len(a)) = a
    BY <1>1, PartsOfCat
  <1>3. SubSeq(Cat(a, b), Len(a) + 1, Len(Cat(a, b))) = b
    BY <1>1, PartsOfCat
  <1> QED BY <1>1, <1>2, <1>3

\* Where a text is parted between x and y of one line, with the lines s above
\* it and t below.
LEMMA Placed ==
    ASSUME NEW s \in Seq(Seq(LineByte)), NEW t \in Seq(Seq(LineByte)),
           NEW x \in Seq(LineByte), NEW y \in Seq(LineByte),
           NEW w, w = Cat(Then(s, Cat(x, y)), t)
    PROVE  FlatAs(Join(w, One(NL)), Place(w, Len(s), Len(x)), Ahead(s, x), Behind(y, t))
  <1> DEFINE C == Seq(Byte)
             z == Cat(x, y)
  <1>1. /\ s \in Seq(C) /\ t \in Seq(C) /\ x \in Seq(Byte) /\ y \in Seq(Byte) /\ x \in C /\ y \in C
        /\ One(NL) \in Seq(Byte)
    BY ByteSeqs
  <1>2. z \in C
    BY <1>1, CatFacts
  <1>3. Join(w, One(NL)) = Cat(Ahead(s, x), Behind(y, t))
    BY <1>1, JoinSplice DEF Ahead, Behind
  <1>4. Ahead(s, x) \in Seq(Byte)
    <2>1. Then(s, x) \in Seq(C)
      <3> HIDE DEF C
      <3> QED BY <1>1, ThenFacts
    <2> QED BY <1>1, <2>1, JoinFacts DEF Ahead
  <1>5. Behind(y, t) \in Seq(Byte)
    <2>1. Cat(One(y), t) \in Seq(C)
      <3> HIDE DEF C
      <3>1. One(y) \in Seq(C)
        BY <1>1, ThenFacts
      <3> QED BY <1>1, <3>1, CatFacts
    <2> QED BY <1>1, <2>1, JoinFacts DEF Behind
  <1>6. SubSeq(w, 1, Len(s)) = s /\ w[Len(s) + 1] = z
    <2>1. w = Cat(Then(s, z), t)
      OBVIOUS
    <2> HIDE DEF C, z
    <2>2. LET v == Cat(Then(s, z), t) IN SubSeq(v, 1, Len(s)) = s /\ v[Len(s) + 1] = z
      BY <1>1, <1>2, Around
    <2> QED BY <2>1, <2>2
  <1>7. SubSeq(z, 1, Len(x)) = x
    BY <1>1, PartsOfCat
  <1>8. s \o <<x>> = Then(s, x)
    <2> HIDE DEF C
    <2>1. Then(s, x) = Cat(s, One(x))
      BY <1>1, ThenFacts
    <2> QED BY <2>1 DEF Cat, One
  <1>9. Place(w, Len(s), Len(x)) = Len(Ahead(s, x))
    BY <1>6, <1>7, <1>8 DEF Place, Ahead, One
  <1> QED BY <1>3, <1>4, <1>5, <1>9 DEF FlatAs

\* The same for a place that is given by its row and column.
LEMMA PlacedAt ==
    ASSUME NEW ls, NEW r, NEW c, Fits(ls, r, c)
    PROVE  \E s, t \in Seq(Seq(LineByte)), x, y \in Seq(LineByte) :
              /\ ls = Cat(Then(s, Cat(x, y)), t)
              /\ Len(s) = r /\ Len(x) = c
  <1> DEFINE C == Seq(LineByte)
             s == SubSeq(ls, 1, r)
             t == SubSeq(ls, r + 2, Len(ls))
             z == ls[r + 1]
             x == SubSeq(z, 1, c)
             y == SubSeq(z, c + 1, Len(z))
  <1>1. ls \in Seq(C) /\ r \in 0 .. Len(ls) - 1 /\ c \in 0 .. Len(z)
    BY DEF Fits, Lines
  <1>2. s \in Seq(C) /\ Len(s) = r /\ t \in Seq(C) /\ z \in C
    <2> HIDE DEF C
    <2> QED BY <1>1, Apart
  <1>3. ls = Cat(Then(s, z), t)
    <2> HIDE DEF C
    <2> QED BY <1>1, Apart
  <1>4. x \in C /\ Len(x) = c /\ y \in C /\ z = Cat(x, y)
    <2>1. z \in Seq(LineByte) /\ c \in 0 .. Len(z)
      BY <1>1, <1>2
    <2> HIDE DEF z
    <2> QED BY <2>1, CatParts
  <1> HIDE DEF s, t, z, x, y
  <1>5. ls = Cat(Then(s, Cat(x, y)), t)
    BY <1>3, <1>4
  <1> QED BY <1>2, <1>4, <1>5

Text == Join(lines, <<NL>>)
Pos  == Len(Join(SubSeq(lines, 1, row) \o <<Left>>, <<NL>>))

LEMMA TextIs ==
    /\ Text = Join(lines, One(NL)) /\ Text' = Join(lines', One(NL))
    /\ Pos = Place(lines, row, col) /\ Pos' = Place(lines', row', col')
  BY DEF Text, Pos, Place, One, Left, Line

\* The state of the flat text, and the next one.
LEMMA FlatNow ==
    ASSUME NEW s \in Seq(Seq(LineByte)), NEW t \in Seq(Seq(LineByte)),
           NEW x \in Seq(LineByte), NEW y \in Seq(LineByte),
           lines = Cat(Then(s, Cat(x, y)), t), row = Len(s), col = Len(x)
    PROVE  FlatAs(Text, Pos, Ahead(s, x), Behind(y, t))
  BY Placed, TextIs

LEMMA FlatNext ==
    ASSUME NEW s \in Seq(Seq(LineByte)), NEW t \in Seq(Seq(LineByte)),
           NEW x \in Seq(LineByte), NEW y \in Seq(LineByte),
           lines' = Cat(Then(s, Cat(x, y)), t), row' = Len(s), col' = Len(x)
    PROVE  FlatAs(Text', Pos', Ahead(s, x), Behind(y, t))
  BY Placed, TextIs

Pieces == {<<NL>>, [i \in 1 .. TabWidth |-> SP]} \cup {Clean(g) : g \in Glyph}
Given  == {Clean(t) : t \in Docs} \cup {<<>>}

LEMMA CatLength ==
    \A a, b \in Seq(Byte) : /\ Len(a) \in Nat /\ Len(b) \in Nat
                            /\ Cat(a, b) \in Seq(Byte) /\ Len(Cat(a, b)) = Len(a) + Len(b)
  <1>1. TAKE a, b \in Seq(Byte)
  <1>2. Cat(a, b) \in Seq(Byte) /\ Len(Cat(a, b)) = Len(a) + Len(b)
    BY CatFacts
  <1> QED BY <1>2

\* The actions of the flat text.
LEMMA FlatMoves ==
    ASSUME NEW a, NEW b, FlatAs(Text', Pos', a, b), Text' = Text
    PROVE  Flat!Next
  <1>1. Len(a) \in Nat /\ Len(b) \in Nat /\ Len(Cat(a, b)) = Len(a) + Len(b)
    <2>1. a \in Seq(Byte) /\ b \in Seq(Byte)
      BY DEF FlatAs
    <2> QED BY <2>1, CatLength
  <1>2. Pos' \in 0 .. Len(Text)
    BY <1>1 DEF FlatAs
  <1>3. Flat!Move
    BY <1>2 DEF Flat!Move, Text, Pos
  <1> QED BY <1>3 DEF Flat!Next

LEMMA FlatLoads ==
    ASSUME Text' \in Given, Pos' = 0
    PROVE  Flat!Next
  <1>1. Flat!Load
    BY DEF Flat!Load, Text, Pos, Given
  <1> QED BY <1>1 DEF Flat!Next

LEMMA FlatInserts ==
    ASSUME NEW a, NEW b, NEW s \in Pieces, s \in Seq(Byte),
           FlatAs(Text, Pos, a, b), FlatAs(Text', Pos', Cat(a, s), b)
    PROVE  Flat!Next
  <1>1. /\ SubSeq(Text, 1, Pos) = a /\ SubSeq(Text, Pos + 1, Len(Text)) = b
    BY FlatParts
  <1>2. Len(Cat(a, s)) = Len(a) + Len(s)
    BY CatType DEF FlatAs
  <1>3. /\ Text' = SubSeq(Text, 1, Pos) \o s \o SubSeq(Text, Pos + 1, Len(Text))
        /\ Pos' = Pos + Len(s)
    BY <1>1, <1>2 DEF FlatAs, Cat
  <1>4. Flat!Insert
    BY <1>3 DEF Flat!Insert, Flat!Before, Flat!After, Text, Pos, Pieces
  <1> QED BY <1>4 DEF Flat!Next

LEMMA FlatErasesBefore ==
    ASSUME NEW a \in Seq(Byte), NEW b, NEW e \in Byte,
           FlatAs(Text, Pos, Cat(a, One(e)), b), FlatAs(Text', Pos', a, b)
    PROVE  Flat!Next
  <1>1. b \in Seq(Byte) /\ One(e) \in Seq(Byte) /\ Len(One(e)) = 1
    BY ThenFacts DEF FlatAs
  <1>2. Len(a) \in Nat /\ Len(Cat(a, One(e))) = Len(a) + 1
    BY <1>1, CatLength
  <1>3. SubSeq(Text, Pos + 1, Len(Text)) = b /\ Pos = Len(a) + 1
    <2>1. Pos = Len(a) + 1
      BY <1>2 DEF FlatAs
    <2> QED BY <2>1, FlatParts
  <1>4. Text = Cat(a, Cat(One(e), b)) /\ Cat(One(e), b) \in Seq(Byte)
    BY <1>1, CatFacts DEF FlatAs
  <1>5. SubSeq(Text, 1, Len(a)) = a
    BY <1>4, PartsOfCat
  <1>6. Pos - 1 = Len(a) /\ Pos > 0
    BY <1>2, <1>3
  <1>7. /\ Pos > 0 /\ Pos' = Pos - 1
        /\ Text' = SubSeq(Text, 1, Pos - 1) \o SubSeq(Text, Pos + 1, Len(Text))
    BY <1>3, <1>5, <1>6 DEF FlatAs, Cat
  <1>8. Flat!EraseBefore
    BY <1>7 DEF Flat!EraseBefore, Flat!After, Text, Pos
  <1> QED BY <1>8 DEF Flat!Next

LEMMA FlatErasesAfter ==
    ASSUME NEW a, NEW b \in Seq(Byte), NEW e \in Byte,
           FlatAs(Text, Pos, a, Cat(One(e), b)), FlatAs(Text', Pos', a, b)
    PROVE  Flat!Next
  <1>1. a \in Seq(Byte) /\ One(e) \in Seq(Byte) /\ Len(One(e)) = 1
    BY ThenFacts DEF FlatAs
  <1>2. /\ Cat(One(e), b) \in Seq(Byte) /\ Len(Cat(One(e), b)) = 1 + Len(b)
        /\ Len(Text) = Len(a) + Len(Cat(One(e), b))
    <2>1. Cat(One(e), b) \in Seq(Byte) /\ Len(Cat(One(e), b)) = 1 + Len(b)
      BY <1>1, CatLength
    <2>2. Text = Cat(a, Cat(One(e), b))
      BY DEF FlatAs
    <2> QED BY <1>1, <2>1, <2>2, CatLength
  <1>3. Len(a) \in Nat /\ Len(b) \in Nat
    BY <1>1
  <1>4. SubSeq(Text, 1, Pos) = a /\ SubSeq(Text, Pos + 1, Len(Text)) = Cat(One(e), b)
    BY FlatParts
  <1>5. Tail(Cat(One(e), b)) = b
    BY DEF Cat, One
  <1>6. /\ Pos < Len(Text) /\ Pos' = Pos
        /\ Text' = SubSeq(Text, 1, Pos) \o Tail(SubSeq(Text, Pos + 1, Len(Text)))
    <2>1. Pos < Len(Text) /\ Pos' = Pos
      BY <1>2, <1>3 DEF FlatAs
    <2>2. Text' = Cat(a, b)
      BY DEF FlatAs
    <2> QED BY <1>4, <1>5, <2>1, <2>2 DEF Cat
  <1>7. Flat!EraseAfter
    BY <1>6 DEF Flat!EraseAfter, Flat!Before, Flat!After, Text, Pos
  <1> QED BY <1>7 DEF Flat!Next

-----------------------------------------------------------------------------
(* Which action of the flat text each change of the lines is.              *)

\* The flat text around the cursor as it is now.
LEMMA FlatHere ==
    ASSUME IInv
    PROVE  FlatAs(Text, Pos, Ahead(Above(row), Left), Behind(Right, Below(row)))
  <1>1. row \in 0 .. Bottom /\ row \in Nat
    BY TextFacts
  <1>2. /\ Above(row) \in Seq(Seq(LineByte)) /\ Below(row) \in Seq(Seq(LineByte))
        /\ lines = Cat(Then(Above(row), Line(row)), Below(row)) /\ row = Len(Above(row))
    BY <1>1, LinesApart
  <1>3. /\ Left \in Seq(LineByte) /\ Right \in Seq(LineByte) /\ col = Len(Left)
        /\ Line(row) = Cat(Left, Right)
    BY LeftRight
  <1>4. lines = Cat(Then(Above(row), Cat(Left, Right)), Below(row))
    BY <1>2, <1>3
  <1> QED BY <1>2, <1>3, <1>4, FlatNow

\* A step that leaves the lines is a move.
LEMMA FlatStays ==
    ASSUME IInv', lines' = lines
    PROVE  Flat!Next
  <1>1. Fits(lines', row', col')
    BY DEF Fits, Lines, IInv, TypeOK, CursorInText, Width, Line
  <1>2. PICK s, t \in Seq(Seq(LineByte)), x, y \in Seq(LineByte) :
              /\ lines' = Cat(Then(s, Cat(x, y)), t)
              /\ Len(s) = row' /\ Len(x) = col'
    BY <1>1, PlacedAt
  <1>3. FlatAs(Text', Pos', Ahead(s, x), Behind(y, t))
    BY <1>2, FlatNext
  <1>4. Text' = Text
    BY DEF Text
  <1> QED BY <1>3, <1>4, FlatMoves

\* An insertion within the line.
LEMMA FlatTypes ==
    ASSUME IInv, NEW x \in Seq(LineByte), x \in Pieces,
           lines' = [lines EXCEPT ![row + 1] = Left \o x \o Right],
           row' = row, col' = col + Len(x)
    PROVE  Flat!Next
  <1> DEFINE s == Above(row)
             t == Below(row)
             p == Cat(Left, x)
             w == Left \o x \o Right
  <1>1. /\ Left \in Seq(LineByte) /\ Len(Left) = col /\ Right \in Seq(LineByte)
        /\ s \in Seq(Seq(LineByte)) /\ Len(s) = row /\ t \in Seq(Seq(LineByte))
    BY LeftRight, LinesApart, TextFacts
  <1>2. p \in Seq(LineByte) /\ Len(p) = col + Len(x)
    BY <1>1, CatType
  <1>3. w \in Seq(LineByte) /\ w = Cat(p, Right)
    BY Spliced
  <1> HIDE DEF w
  <1>4. lines' = Cat(Then(s, w), t)
    BY <1>3, TypedForm DEF w
  <1> HIDE DEF s, t, p
  <1>5. FlatAs(Text', Pos', Ahead(s, p), Behind(Right, t))
    BY <1>1, <1>2, <1>3, <1>4, FlatNext
  <1>6. FlatAs(Text, Pos, Ahead(s, Left), Behind(Right, t))
    BY FlatHere DEF s, t
  <1>7. Ahead(s, p) = Cat(Ahead(s, Left), x)
    <2>1. s \in Seq(Seq(Byte)) /\ Left \in Seq(Byte) /\ x \in Seq(Byte) /\ One(NL) \in Seq(Byte)
      BY <1>1, ByteSeqs
    <2> QED BY <2>1, JoinLonger DEF Ahead, p
  <1>8. x \in Seq(Byte)
    BY ByteSeqs
  <1> QED BY <1>5, <1>6, <1>7, <1>8, FlatInserts

\* Ahead of a line are the lines above and what ends the last of them.
LEMMA AheadOfLine ==
    ASSUME NEW q \in Seq(Seq(LineByte)), q # <<>>
    PROVE  Ahead(q, <<>>) = Cat(Join(q, One(NL)), One(NL))
  <1> DEFINE j == Join(q, One(NL))
             k == Cat(j, One(NL))
  <1>1. q \in Seq(Seq(Byte)) /\ <<>> \in Seq(Byte) /\ One(NL) \in Seq(Byte)
    BY ByteSeqs
  <1>2. j \in Seq(Byte)
    BY <1>1, JoinFacts
  <1>3. \A ls \in Seq(Seq(Byte)), x \in Seq(Byte) : ls # <<>> =>
           Join(Then(ls, x), One(NL)) = Cat(Cat(Join(ls, One(NL)), One(NL)), x)
    BY <1>1, JoinFacts
  <1>4. Join(Then(q, <<>>), One(NL)) = Cat(k, <<>>)
    BY <1>1, <1>3
  <1> HIDE DEF j
  <1>5. k \in Seq(Byte)
    BY <1>1, <1>2, CatFacts
  <1> HIDE DEF k
  <1>6. Cat(k, <<>>) = k
    BY <1>5, CatFacts
  <1> QED BY <1>4, <1>6 DEF Ahead, k, j

\* What ends a line is inserted where the line is cut.
LEMMA FlatCuts ==
    ASSUME IInv, lines' = Cut(row, Left, Right), row' = row + 1, col' = 0
    PROVE  Flat!Next
  <1> DEFINE C == Seq(LineByte)
             s == Above(row)
             t == Below(row)
             q == Then(s, Left)
  <1>1. /\ Left \in C /\ Len(Left) = col /\ Right \in C
        /\ s \in Seq(C) /\ Len(s) = row /\ t \in Seq(C) /\ <<>> \in C
    BY LeftRight, LinesApart, TextFacts
  <1>2. q \in Seq(C) /\ Len(q) = row + 1 /\ q # <<>>
    <2> HIDE DEF C, s
    <2>1. \A z \in Seq(C) : /\ Then(z, Left) \in Seq(C) /\ Then(z, Left) # <<>>
                            /\ Len(Then(z, Left)) = Len(z) + 1
      BY <1>1, ThenFacts
    <2> QED BY <1>1, <2>1
  <1>3. lines' = Cat(Then(q, Right), t)
    BY <1>1, CutForm
  <1>4. Right = Cat(<<>>, Right)
    BY <1>1, CatFacts
  <1>5. lines' = Cat(Then(q, Cat(<<>>, Right)), t)
    BY <1>3, <1>4
  <1> HIDE DEF s, t, q
  <1>6. FlatAs(Text', Pos', Ahead(q, <<>>), Behind(Right, t))
    <2>1. <<>> \in Seq(LineByte) /\ Len(<<>>) = 0
      OBVIOUS
    <2> QED BY <1>1, <1>2, <1>5, <2>1, FlatNext
  <1>7. FlatAs(Text, Pos, Ahead(s, Left), Behind(Right, t))
    BY FlatHere DEF s, t
  <1>8. Ahead(q, <<>>) = Cat(Ahead(s, Left), One(NL))
    BY <1>2, AheadOfLine DEF Ahead, q
  <1>9. One(NL) \in Pieces /\ One(NL) \in Seq(Byte)
    BY ByteSeqs DEF One, Pieces
  <1> QED BY <1>6, <1>7, <1>8, <1>9, FlatInserts

\* A byte before the cursor is erased, or behind it.
LEMMA FlatErases ==
    ASSUME IInv, NEW b \in LineByte, NEW x \in Seq(LineByte), NEW y \in Seq(LineByte),
           lines' = [lines EXCEPT ![row + 1] = Cat(x, y)], row' = row, col' = Len(x),
           \/ Left = Then(x, b) /\ Right = y
           \/ Left = x /\ Right = Cat(One(b), y)
    PROVE  Flat!Next
  <1> DEFINE s == Above(row)
             t == Below(row)
             w == Cat(x, y)
  <1>1. s \in Seq(Seq(LineByte)) /\ Len(s) = row /\ t \in Seq(Seq(LineByte))
    BY LinesApart, TextFacts
  <1>2. w \in Seq(LineByte)
    BY CatFacts
  <1> HIDE DEF w
  <1>3. lines' = Cat(Then(s, w), t)
    BY <1>2, TypedForm DEF w
  <1> HIDE DEF s, t
  <1>4. FlatAs(Text', Pos', Ahead(s, x), Behind(y, t))
    BY <1>1, <1>3, FlatNext DEF w
  <1>5. FlatAs(Text, Pos, Ahead(s, Left), Behind(Right, t))
    BY FlatHere DEF s, t
  <1>6. /\ s \in Seq(Seq(Byte)) /\ t \in Seq(Seq(Byte)) /\ x \in Seq(Byte) /\ y \in Seq(Byte)
        /\ One(NL) \in Seq(Byte) /\ b \in Byte
    BY <1>1, ByteSeqs
  <1>7. One(b) \in Seq(Byte)
    BY <1>6, ThenFacts
  <1>8. CASE Left = Then(x, b) /\ Right = y
    <2>1. Then(x, b) = Cat(x, One(b))
      BY <1>6, ThenFacts
    <2>2. Join(Then(s, Cat(x, One(b))), One(NL)) = Cat(Join(Then(s, x), One(NL)), One(b))
      BY <1>6, <1>7, JoinLonger
    <2>3. Ahead(s, Left) = Cat(Ahead(s, x), One(b))
      BY <1>8, <2>1, <2>2 DEF Ahead
    <2>4. Ahead(s, x) \in Seq(Byte)
      BY <1>4 DEF FlatAs
    <2> QED BY <1>4, <1>5, <1>6, <1>8, <2>3, <2>4, FlatErasesBefore
  <1>9. CASE Left = x /\ Right = Cat(One(b), y)
    <2> DEFINE C == Seq(Byte)
               p == One(Right)
    <2>1. Right \in C
      BY <1>6, <1>7, <1>9, CatFacts
    <2>2. p \in Seq(C) /\ p # <<>>
      <3> HIDE DEF C
      <3> QED BY <2>1, ThenFacts
    <2>3. Join(p, One(NL)) = Cat(One(b), y)
      BY <1>6, <1>9, <2>1, JoinFacts
    <2> HIDE DEF p
    <2>4. Join(Cat(p, t), One(NL)) = Cat(One(b), Join(Cat(One(y), t), One(NL)))
      BY <1>6, <1>7, <2>2, <2>3, JoinSuffix
    <2>5. Behind(Right, t) = Cat(One(b), Behind(y, t))
      BY <2>4 DEF Behind, p
    <2>6. Behind(y, t) \in Seq(Byte)
      BY <1>4 DEF FlatAs
    <2> QED BY <1>4, <1>5, <1>6, <1>9, <2>5, <2>6, FlatErasesAfter
  <1> QED BY <1>8, <1>9

\* Two lines become one: what ended the first is erased, from behind or from
\* before.
LEMMA FlatGlues ==
    ASSUME IInv, NEW r \in 0 .. Bottom - 1, lines' = Glued(r), row' = r, col' = Width(r),
           \/ row = r + 1 /\ col = 0
           \/ row = r /\ col = Width(r)
    PROVE  Flat!Next
  <1> DEFINE C == Seq(LineByte)
             s == Above(r)
             t == Below(r + 1)
             x == Line(r)
             y == Line(r + 1)
             a == Ahead(s, x)
             b == Behind(y, t)
             q == Then(s, x)
  <1>1. /\ s \in Seq(C) /\ Len(s) = r /\ t \in Seq(C) /\ x \in C /\ y \in C
        /\ lines = Cat(Then(q, y), t)
        /\ lines' = Cat(Then(s, Cat(x, y)), t) /\ Len(x) = Width(r)
    BY LinesGlued DEF Width
  <1>2. q \in Seq(C) /\ Len(q) = r + 1 /\ q # <<>>
    <2> HIDE DEF C, s, x
    <2>1. \A z \in Seq(C) : /\ Then(z, x) \in Seq(C) /\ Then(z, x) # <<>>
                            /\ Len(Then(z, x)) = Len(z) + 1
      BY <1>1, ThenFacts
    <2> QED BY <1>1, <2>1
  <1> HIDE DEF s, t, x, y, q
  <1>3. FlatAs(Text', Pos', a, b)
    BY <1>1, FlatNext
  <1>4. a \in Seq(Byte) /\ b \in Seq(Byte) /\ NL \in Byte
    BY <1>3, ByteSeqs DEF FlatAs
  <1>5. /\ s \in Seq(Seq(Byte)) /\ t \in Seq(Seq(Byte)) /\ x \in Seq(Byte) /\ y \in Seq(Byte)
        /\ q \in Seq(Seq(Byte)) /\ One(NL) \in Seq(Byte) /\ <<>> \in Seq(Byte)
    BY <1>1, <1>2, ByteSeqs
  <1>6. CASE row = r + 1 /\ col = 0
    <2>1. lines = Cat(Then(q, Cat(<<>>, y)), t)
      <3>1. Cat(<<>>, y) = y
        BY <1>5, CatFacts
      <3> QED BY <1>1, <3>1
    <2>2. FlatAs(Text, Pos, Ahead(q, <<>>), b)
      <3>1. <<>> \in Seq(LineByte) /\ Len(<<>>) = 0
        OBVIOUS
      <3> QED BY <1>1, <1>2, <1>6, <2>1, <3>1, FlatNow
    <2>3. Ahead(q, <<>>) = Cat(a, One(NL))
      BY <1>2, AheadOfLine DEF Ahead, q
    <2> HIDE DEF a, b
    <2> QED BY <1>3, <1>4, <2>2, <2>3, FlatErasesBefore
  <1>7. CASE row = r /\ col = Width(r)
    <2>1. Text = Cat(Cat(a, One(NL)), b)
      BY <1>1, <1>5, TextIs, JoinSplice DEF Ahead, Behind, q
    <2>2. Cat(Cat(a, One(NL)), b) = Cat(a, Cat(One(NL), b)) /\ Cat(One(NL), b) \in Seq(Byte)
      <3> HIDE DEF a, b
      <3> QED BY <1>4, <1>5, CatFacts
    <2>3. Left = x
      <3>1. x \in Seq(LineByte) /\ col = Len(x) /\ Left = SubSeq(x, 1, Len(x))
        BY <1>1, <1>7 DEF x, Left
      <3> QED BY <3>1, SubSeqFull
    <2>4. Pos = Len(a)
      BY <1>7, <2>3, FlatHere DEF FlatAs, s
    <2>5. FlatAs(Text, Pos, a, Cat(One(NL), b))
      BY <1>4, <2>1, <2>2, <2>4 DEF FlatAs
    <2> HIDE DEF a, b
    <2> QED BY <1>3, <1>4, <2>5, FlatErasesAfter
  <1> QED BY <1>6, <1>7

\* Each key.
LEMMA MoveIsFlat ==
    ASSUME IInv, NEW r \in 0 .. Bottom, NEW c \in 0 .. Width(r),
           lines' = lines, row' = r, col' = c
    PROVE  Flat!Next
  <1>1. Fits(lines', row', col')
    BY TextFacts DEF Fits, Bottom, Width, Line
  <1>2. PICK s, t \in Seq(Seq(LineByte)), x, y \in Seq(LineByte) :
              /\ lines' = Cat(Then(s, Cat(x, y)), t)
              /\ Len(s) = row' /\ Len(x) = col'
    BY <1>1, PlacedAt
  <1>3. FlatAs(Text', Pos', Ahead(s, x), Behind(y, t))
    BY <1>2, FlatNext
  <1>4. Text' = Text
    BY DEF Text
  <1> QED BY <1>3, <1>4, FlatMoves

LEMMA KeyPressIsFlat ==
    ASSUME IInv, IInv', KeyPress
    PROVE  Flat!Next
  <1>1. /\ row \in 0 .. Bottom /\ Bottom \in Nat /\ row \in Nat
        /\ col \in 0 .. Width(row) /\ col \in Nat /\ Width(row) \in Nat
        /\ Left \in Seq(LineByte) /\ Right \in Seq(LineByte) /\ Len(Left) = col
    BY TextFacts, LeftRight
  <1>2. CASE ArrowUp \/ ArrowDown \/ ArrowLeft \/ ArrowRight \/ Home \/ End \/ PageUp \/ PageDown
    <2>1. lines' = lines
      BY <1>2 DEF ArrowUp, ArrowDown, ArrowLeft, ArrowRight, Home, End, PageUp, PageDown,
                  Within, MoveTo, Key
    <2> QED BY <2>1, FlatStays
  <1>3. ASSUME Rebuild(Cut(row, Left, Right), row + 1, 0) PROVE Flat!Next
    BY <1>3, FlatCuts DEF Rebuild, Key
  <1>4. CASE Return
    BY <1>3, <1>4 DEF Return
  <1>5. CASE Backspace
    <2>1. CASE col > 0 /\ Retype(SubSeq(Left, 1, col - 1) \o Right, col - 1)
      <3> DEFINE x == SubSeq(Left, 1, col - 1)
      <3>1. /\ x \in Seq(LineByte) /\ Len(x) = col - 1 /\ Left[col] \in LineByte
            /\ Left = Then(x, Left[col])
        BY <2>1, Erased
      <3>2. /\ lines' = [lines EXCEPT ![row + 1] = Cat(x, Right)]
            /\ row' = row /\ col' = col - 1
        BY <2>1 DEF Retype, Key, Cat
      <3> HIDE DEF x
      <3> QED BY <1>1, <3>1, <3>2, FlatErases
    <2>2. CASE col = 0 /\ row > 0 /\ Rebuild(Glued(row - 1), row - 1, Width(row - 1))
      <3> DEFINE r == row - 1
      <3>1. r \in 0 .. Bottom - 1 /\ row = r + 1
        BY <1>1, <2>2
      <3>2. lines' = Glued(r) /\ row' = r /\ col' = Width(r)
        BY <2>2 DEF Rebuild, Key
      <3> HIDE DEF r
      <3> QED BY <2>2, <3>1, <3>2, FlatGlues
    <2>3. CASE col = 0 /\ row = 0 /\ Within(0)
      BY <2>3, FlatStays DEF Within, Key
    <2> QED BY <1>5, <2>1, <2>2, <2>3 DEF Backspace
  <1>6. CASE Delete
    <2>1. CASE col < Width(row) /\ Retype(Left \o Tail(Right), col)
      <3> DEFINE y == Tail(Right)
                 b == Head(Right)
      <3>1. b \in LineByte /\ y \in Seq(LineByte) /\ Right = Cat(One(b), y)
        BY <2>1, Erased
      <3>2. /\ lines' = [lines EXCEPT ![row + 1] = Cat(Left, y)]
            /\ row' = row /\ col' = Len(Left)
        BY <1>1, <2>1 DEF Retype, Key, Cat
      <3> HIDE DEF y, b
      <3> QED BY <1>1, <3>1, <3>2, FlatErases
    <2>2. CASE col = Width(row) /\ row < Bottom /\ Rebuild(Glued(row), row, col)
      <3>1. row \in 0 .. Bottom - 1
        BY <1>1, <2>2
      <3>2. lines' = Glued(row) /\ row' = row /\ col' = Width(row)
        BY <2>2 DEF Rebuild, Key
      <3> QED BY <2>2, <3>1, <3>2, FlatGlues
    <2>3. CASE col = Width(row) /\ row = Bottom /\ Within(col)
      BY <2>3, FlatStays DEF Within, Key
    <2> QED BY <1>6, <2>1, <2>2, <2>3 DEF Delete
  <1>7. CASE TabKey
    <2> DEFINE x == [i \in 1 .. TabWidth |-> SP]
    <2>1. x \in Seq(LineByte) /\ Len(x) = TabWidth /\ x \in Pieces
      BY BlanksFacts DEF Pieces
    <2>2. /\ lines' = [lines EXCEPT ![row + 1] = Left \o x \o Right]
          /\ row' = row /\ col' = col + TabWidth
      BY <1>7 DEF TabKey, Retype, Key
    <2> HIDE DEF x
    <2> QED BY <2>1, <2>2, FlatTypes
  <1>8. ASSUME NEW g \in Glyph, Character(g) PROVE Flat!Next
    <2>1. CASE g = <<NL>>
      BY <1>3, <1>8, <2>1 DEF Character
    <2>2. CASE g # <<NL>>
      <3> DEFINE x == Clean(g)
      <3>1. x \in Seq(LineByte) /\ x \in Pieces
        BY <2>2, GlyphFacts DEF Pieces
      <3>2. /\ lines' = [lines EXCEPT ![row + 1] = Left \o x \o Right]
            /\ row' = row /\ col' = col + Len(x)
        BY <1>8, <2>2 DEF Character, Rebuild, Key
      <3> HIDE DEF x
      <3> QED BY <3>1, <3>2, FlatTypes
    <2> QED BY <2>1, <2>2
  <1> QED BY <1>2, <1>4, <1>5, <1>6, <1>7, <1>8 DEF KeyPress

LEMMA JoinEmpty ==
    Join(One(<<>>), One(NL)) = <<>>
  <1>1. <<>> \in Seq(Byte) /\ One(NL) \in Seq(Byte)
    BY ByteSeqs
  <1> QED BY <1>1, JoinFacts

\* Loading a text loads the flat text.
LEMMA RestartIsFlat ==
    ASSUME NEW ls \in Lines, Restart(ls), Join(ls, One(NL)) \in Given
    PROVE  Flat!Next
  <1>1. lines' = ls /\ row' = 0 /\ col' = 0
    BY DEF Restart
  <1>2. Text' \in Given
    BY <1>1, TextIs
  <1>3. Fits(ls, 0, 0)
    <2>1. ls \in Seq(Seq(LineByte)) /\ Len(ls) \in Nat \ {0}
      BY DEF Lines
    <2>2. ls[0 + 1] \in Seq(LineByte)
      BY <2>1
    <2> QED BY <2>1, <2>2 DEF Fits
  <1>4. PICK s, t \in Seq(Seq(LineByte)), x, y \in Seq(LineByte) :
              /\ ls = Cat(Then(s, Cat(x, y)), t)
              /\ Len(s) = 0 /\ Len(x) = 0
    BY <1>3, PlacedAt
  <1>5. FlatAs(Text', Pos', Ahead(s, x), Behind(y, t))
    BY <1>1, <1>4, FlatNext
  <1>6. s = <<>> /\ x = <<>>
    BY <1>4
  <1>7. Ahead(s, x) = <<>>
    <2>1. Ahead(s, x) = Join(One(<<>>), One(NL))
      BY <1>6 DEF Ahead, Then, One
    <2> QED BY <2>1, JoinEmpty
  <1>8. Pos' = 0
    BY <1>5, <1>7 DEF FlatAs
  <1> QED BY <1>2, <1>8, FlatLoads

LEMMA NextIsFlat ==
    ASSUME IInv, IInv', [Next]_vars
    PROVE  Flat!Next
  <1>1. CASE SetText
    <2>1. PICK t \in Docs : Restart(SplitLines(Clean(t)))
      BY <1>1 DEF SetText
    <2> DEFINE D == Byte \ {CR}
               u == Clean(t)
    <2>2. u \in Seq(D) /\ NL \in D /\ u \in Given
      BY CleanRemoves, EditorAssumption DEF Given
    <2> HIDE DEF D, u
    <2>3. Join(SplitLines(u), One(NL)) = u
      BY <2>2, JoinSplit
    <2>4. SplitLines(u) \in Lines
      BY LoadedLines DEF u
    <2> QED BY <2>1, <2>2, <2>3, <2>4, RestartIsFlat DEF u
  <1>2. CASE Clear
    <2>1. <<<<>>>> \in Lines
      BY DEF Lines
    <2>2. Join(<<<<>>>>, One(NL)) = <<>>
      <3>1. <<<<>>>> = One(<<>>)
        BY DEF One
      <3> QED BY <3>1, JoinEmpty
    <2> QED BY <1>2, <2>1, <2>2, RestartIsFlat DEF Clear, Given
  <1>3. CASE CopyToClipboard \/ Mouse \/ Render \/ UNCHANGED vars
    <2>1. lines' = lines
      BY <1>3 DEF CopyToClipboard, Mouse, WheelUp, WheelDown, ReleaseOutside, LeftPress,
                  LeftDrag, RightPress, CursorTo, Render, vars
    <2> QED BY <2>1, FlatStays
  <1>4. CASE KeyPress
    BY <1>4, KeyPressIsFlat
  <1> QED BY <1>1, <1>2, <1>3, <1>4 DEF Next

LEMMA InitIsFlat ==
    ASSUME Init
    PROVE  Flat!Init
  <1>1. lines = One(<<>>) /\ row = 0 /\ col = 0
    BY DEF Init, One
  <1>2. Text = <<>>
    BY <1>1, TextIs, JoinEmpty
  <1>3. Pos = 0
    <2>1. Left = <<>>
      BY <1>1 DEF Left, Line, One
    <2>2. SubSeq(lines, 1, row) = <<>>
      BY <1>1
    <2>3. SubSeq(lines, 1, row) \o <<Left>> = <<>> \o <<<<>>>>
      BY <2>1, <2>2, Zenon
    <2>4. <<>> \o <<<<>>>> = <<<<>>>>
      OBVIOUS
    <2>5. Pos = Len(Join(One(<<>>), One(NL)))
      BY <2>3, <2>4, Zenon DEF Pos, One
    <2>6. Pos = Len(<<>>)
      BY <2>5, JoinEmpty, Zenon
    <2> QED BY <2>6
  <1> QED BY <1>2, <1>3 DEF Flat!Init, Text, Pos

\* The lines and the cursor are one flat text with a position: each branch of
\* OnEvent inserts or erases one piece at the cursor, loads a text or moves.
THEOREM EditorImplementsFlatText == Spec => ImplementsFlatText
  <1>1. Init => Flat!Init
    BY InitIsFlat
  <1>2. IInv /\ IInv' /\ [Next]_vars => Flat!Next
    BY NextIsFlat
  <1> QED BY <1>1, <1>2, EditorInvariant, PTL DEF Spec, ImplementsFlatText, Flat!Spec
=============================================================================
