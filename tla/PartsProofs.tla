----------------------------- MODULE PartsProofs -----------------------------
(***************************************************************************)
(* Proofs about the two parts that every session uses.                     *)
(*                                                                         *)
(* CertCache, for any hosts, threads and capacity: the list and the map    *)
(* agree and stay within the capacity, no certificate is generated twice   *)
(* without need, and callers share the resident context.                   *)
(*                                                                         *)
(* Parser, for any bytes, messages and limits and for reads of any length: *)
(* what is taken is what was sent, and no message is lost or held back.    *)
(***************************************************************************)
EXTENDS CertCache, Parser, SequenceLemmas, FiniteSetTheorems, TLAPS

-----------------------------------------------------------------------------
(* The list *)

\* push_front of a host that is not in the list.
LEMMA PushFrontElements ==
    ASSUME NEW S, NEW s \in Seq(S), NEW h \in S, Distinct(s), ~Occurs(s, h)
    PROVE  /\ <<h>> \o s \in Seq(S)
           /\ Distinct(<<h>> \o s)
           /\ \A x : Occurs(<<h>> \o s, x) <=> Occurs(s, x) \/ x = h
  <1> DEFINE w == <<h>> \o s
  <1>1. /\ w \in Seq(S) /\ Len(s) \in Nat
        /\ DOMAIN w = 1 .. (Len(s) + 1) /\ DOMAIN s = 1 .. Len(s)
        /\ w[1] = h /\ \A i \in 2 .. (Len(s) + 1) : w[i] = s[i - 1]
    OBVIOUS
  <1> HIDE DEF w
  <1>2. \A i \in 2 .. (Len(s) + 1) : i - 1 \in 1 .. Len(s) /\ w[i] = s[i - 1]
    BY <1>1
  <1>3. \A i \in 1 .. Len(s) : i + 1 \in 2 .. (Len(s) + 1) /\ w[i + 1] = s[i]
    BY <1>1
  <1>4. Distinct(w)
    <2> SUFFICES ASSUME NEW i \in 1 .. (Len(s) + 1), NEW j \in 1 .. (Len(s) + 1),
                        w[i] = w[j]
                 PROVE  i = j
      BY <1>1 DEF Distinct
    <2>1. CASE i = 1
      BY <1>1, <1>2, <2>1 DEF Occurs
    <2>2. CASE j = 1
      BY <1>1, <1>2, <2>2 DEF Occurs
    <2>3. CASE i # 1 /\ j # 1
      BY <1>1, <1>2, <2>3 DEF Distinct
    <2> QED BY <2>1, <2>2, <2>3
  <1>5. \A x : Occurs(w, x) <=> Occurs(s, x) \/ x = h
    <2>1. ASSUME NEW x, Occurs(w, x) PROVE Occurs(s, x) \/ x = h
      <3>1. PICK i \in 1 .. (Len(s) + 1) : w[i] = x
        BY <1>1, <2>1 DEF Occurs
      <3>2. CASE i = 1
        BY <1>1, <3>1, <3>2
      <3>3. CASE i \in 2 .. (Len(s) + 1)
        <4>1. i - 1 \in DOMAIN s /\ s[i - 1] = x
          BY <1>1, <1>2, <3>1, <3>3
        <4> QED BY <4>1 DEF Occurs
      <3> QED BY <1>1, <3>2, <3>3
    <2>2. ASSUME NEW x, Occurs(s, x) PROVE Occurs(w, x)
      <3>1. PICK i \in 1 .. Len(s) : s[i] = x
        BY <1>1, <2>2 DEF Occurs
      <3>2. i + 1 \in DOMAIN w /\ w[i + 1] = x
        BY <1>1, <1>3, <3>1
      <3> QED BY <3>2 DEF Occurs
    <2>3. Occurs(w, h)
      BY <1>1 DEF Occurs
    <2> QED BY <2>1, <2>2, <2>3
  <1> QED BY <1>1, <1>4, <1>5 DEF w

\* erase and push_front: the host moves to the front and nothing else changes.
LEMMA ToFrontElements ==
    ASSUME NEW S, NEW s \in Seq(S), NEW h \in S, Distinct(s)
    PROVE  /\ ToFront(s, h) \in Seq(S)
           /\ Distinct(ToFront(s, h))
           /\ \A x : Occurs(ToFront(s, h), x) <=> Occurs(s, x) \/ x = h
  <1> DEFINE r == IF Occurs(s, h) THEN Without(s, h) ELSE s
  <1>1. /\ r \in Seq(S) /\ Distinct(r) /\ ~Occurs(r, h)
        /\ \A x : Occurs(r, x) <=> Occurs(s, x) /\ x # h
    BY WithoutElements
  <1>2. ToFront(s, h) = <<h>> \o r
    BY DEF ToFront
  <1> HIDE DEF r
  <1> QED BY <1>1, <1>2, PushFrontElements

\* pop_back.
LEMMA ButlastElements ==
    ASSUME NEW S, NEW s \in Seq(S), s # <<>>, Distinct(s)
    PROVE  /\ s[Len(s)] \in S /\ Occurs(s, s[Len(s)])
           /\ Butlast(s) \in Seq(S)
           /\ Distinct(Butlast(s))
           /\ \A x : Occurs(Butlast(s), x) <=> Occurs(s, x) /\ x # s[Len(s)]
  <1>1. /\ Len(s) \in Nat \ {0} /\ DOMAIN s = 1 .. Len(s)
        /\ Butlast(s) \in Seq(S)
        /\ DOMAIN Butlast(s) = 1 .. (Len(s) - 1)
        /\ \A i \in 1 .. (Len(s) - 1) : Butlast(s)[i] = s[i]
    BY DEF Butlast
  <1>2. s[Len(s)] \in S /\ Occurs(s, s[Len(s)])
    BY <1>1 DEF Occurs
  <1>3. Distinct(Butlast(s))
    BY <1>1 DEF Distinct
  <1>4. \A x : Occurs(Butlast(s), x) <=> Occurs(s, x) /\ x # s[Len(s)]
    BY <1>1 DEF Occurs, Distinct
  <1> QED BY <1>1, <1>2, <1>3, <1>4

-----------------------------------------------------------------------------
(* The invariant *)

\* What the invariant says of a state, without the bookkeeping of callers.
CacheOK ==
    /\ lru \in Seq(Host) /\ Resident \subseteq Host /\ cache \in [Resident -> Nat]
    /\ ListMatchesMap /\ WithinCapacity

\* Evict removes the back of the list from both, and only if the cache is full.
LEMMA EvictEffect ==
    ASSUME CacheOK, MaxEntries > 0
    PROVE  /\ Evict.list \in Seq(Host) /\ Distinct(Evict.list)
           /\ Evict.gone \subseteq Resident
           /\ DOMAIN Evict.map = Resident \ Evict.gone
           /\ Evict.map \in [DOMAIN Evict.map -> Nat]
           /\ \A h \in Host : Occurs(Evict.list, h) <=> h \in DOMAIN Evict.map
           /\ IsFiniteSet(DOMAIN Evict.map) /\ Cardinality(DOMAIN Evict.map) < MaxEntries
  <1> USE CacheAssumption DEF CacheOK, ListMatchesMap, WithinCapacity
  <1>0. Cardinality(Resident) \in Nat
    BY FS_CardinalityType
  <1>1. CASE Full
    <2> DEFINE old == lru[Len(lru)]
    <2>1. /\ old \in Host /\ Occurs(lru, old)
          /\ Butlast(lru) \in Seq(Host) /\ Distinct(Butlast(lru))
          /\ \A x : Occurs(Butlast(lru), x) <=> Occurs(lru, x) /\ x # old
      BY <1>1, ButlastElements DEF Full
    <2>2. old \in Resident
      BY <2>1
    <2>3. Evict.list = Butlast(lru) /\ Evict.map = Evicted(cache, old) /\ Evict.gone = {old}
      BY <1>1 DEF Evict
    <2> HIDE DEF old
    <2>4. /\ DOMAIN Evicted(cache, old) = Resident \ {old}
          /\ Evicted(cache, old) \in [Resident \ {old} -> Nat]
      BY DEF Evicted, Resident
    <2>5. /\ IsFiniteSet(Resident \ {old})
          /\ Cardinality(Resident \ {old}) = Cardinality(Resident) - 1
      BY <2>2, FS_RemoveElement
    <2>6. Cardinality(Resident \ {old}) < MaxEntries
      BY <1>0, <2>5
    <2> QED BY <2>1, <2>2, <2>3, <2>4, <2>5, <2>6
  <1>2. CASE ~Full
    <2>1. Evict.list = lru /\ Evict.map = cache /\ Evict.gone = {}
      BY <1>2 DEF Evict
    <2>2. Cardinality(Resident) < MaxEntries
      <3>1. CASE lru = <<>>
        <4>1. Resident = {}
          BY <3>1 DEF Occurs
        <4> QED BY <4>1, FS_EmptySet
      <3>2. CASE lru # <<>>
        BY <1>0, <1>2, <3>2 DEF Full
      <3> QED BY <3>1, <3>2
    <2> QED BY <2>1, <2>2 DEF Resident
  <1> QED BY <1>1, <1>2

\* Inserting a host that is not resident after an eviction keeps the two alike.
LEMMA InsertEffect ==
    ASSUME CacheOK, MaxEntries > 0, NEW h \in Host, h \notin Resident, NEW ctx \in Nat,
           lru' = <<h>> \o Evict.list, cache' = Emplace(Evict.map, h, ctx)
    PROVE  /\ CacheOK'
           /\ Resident' = (Resident \ Evict.gone) \cup {h}
           /\ cache'[h] = ctx
  <1> DEFINE l == Evict.list
             m == Evict.map
  <1>1. /\ l \in Seq(Host) /\ Distinct(l)
        /\ Evict.gone \subseteq Resident
        /\ DOMAIN m = Resident \ Evict.gone
        /\ m \in [DOMAIN m -> Nat]
        /\ \A x \in Host : Occurs(l, x) <=> x \in DOMAIN m
        /\ IsFiniteSet(DOMAIN m) /\ Cardinality(DOMAIN m) < MaxEntries
    BY EvictEffect
  <1>2. h \notin DOMAIN m /\ DOMAIN m \subseteq Host
    BY <1>1 DEF CacheOK
  <1> HIDE DEF l, m
  <1>3. /\ cache' = [x \in DOMAIN m \cup {h} |-> IF x = h THEN ctx ELSE m[x]]
        /\ Resident' = DOMAIN m \cup {h}
    BY <1>2 DEF Emplace, Resident, m
  <1>4. cache' \in [Resident' -> Nat] /\ cache'[h] = ctx
    BY <1>1, <1>3
  <1>5. /\ lru' \in Seq(Host) /\ Distinct(lru')
        /\ \A x : Occurs(lru', x) <=> Occurs(l, x) \/ x = h
    BY <1>1, <1>2, PushFrontElements DEF l
  <1>6. /\ IsFiniteSet(Resident')
        /\ Cardinality(Resident') = Cardinality(DOMAIN m) + 1
    BY <1>1, <1>2, <1>3, FS_AddElement
  <1>7. Cardinality(Resident') <= MaxEntries
    BY <1>1, <1>6, FS_CardinalityType, CacheAssumption
  <1> QED
    BY <1>1, <1>2, <1>3, <1>4, <1>5, <1>6, <1>7
       DEF CacheOK, ListMatchesMap, WithinCapacity

\* Moving a resident host to the front changes only the order of the list.
LEMMA PromoteEffect ==
    ASSUME CacheOK, NEW h \in Resident, lru' = ToFront(lru, h), cache' = cache
    PROVE  CacheOK'
  <1>1. /\ lru' \in Seq(Host) /\ Distinct(lru')
        /\ \A x : Occurs(lru', x) <=> Occurs(lru, x) \/ x = h
    BY ToFrontElements DEF CacheOK, ListMatchesMap
  <1>2. Resident' = Resident
    BY DEF Resident
  <1> QED BY <1>1, <1>2 DEF CacheOK, ListMatchesMap, WithinCapacity

\* The rest of the invariant: the callers, and what became of each certificate.
CallsOK ==
    /\ pc \in [Thread -> {"idle", "read", "write"}]
    /\ want \in [Thread -> Host] /\ got \in [Thread -> Nat]
    /\ minted \in Nat
MintsOK ==
    /\ mints \in [Host -> Nat] /\ drops \in [Host -> Nat]
    /\ NoRedundantMint

LEMMA IInvParts == IInv <=> CacheOK /\ CallsOK /\ MintsOK
  BY DEF IInv, TypeOK, CacheOK, CallsOK, MintsOK

LEMMA IInvPartsNext == IInv' <=> CacheOK' /\ CallsOK' /\ MintsOK'
  BY DEF IInv, TypeOK, CacheOK, CallsOK, MintsOK, ListMatchesMap, WithinCapacity,
         NoRedundantMint, Resident

LEMMA InitIInv == Init => IInv
  <1> SUFFICES ASSUME Init PROVE CacheOK /\ CallsOK /\ MintsOK
    BY IInvParts
  <1>1. <<>> \in Seq(Host) /\ Distinct(<<>>) /\ \A x : ~Occurs(<<>>, x)
    BY DEF Distinct, Occurs
  <1>2. Resident = {} /\ cache \in [Resident -> Nat]
    BY DEF Init, Resident
  <1>3. IsFiniteSet({}) /\ Cardinality({}) = 0
    BY FS_EmptySet
  <1>4. CacheOK
    <2>1. Cardinality({}) <= MaxEntries
      BY <1>3, CacheAssumption
    <2> QED BY <1>1, <1>2, <1>3, <2>1
      DEF Init, CacheOK, ListMatchesMap, WithinCapacity
  <1>5. CallsOK
    BY <1>1 DEF Init, CallsOK, Null
  <1>6. MintsOK
    BY <1>2 DEF Init, MintsOK, NoRedundantMint
  <1> QED BY <1>4, <1>5, <1>6

LEMMA CallStep ==
    ASSUME IInv, NEW t \in Thread, NEW h \in Host, Call(t, h)
    PROVE  IInv'
  <1>1. CacheOK' /\ MintsOK'
    BY IInvParts DEF Call, history, CacheOK, MintsOK, ListMatchesMap, WithinCapacity,
       NoRedundantMint, Resident
  <1>2. CallsOK'
    BY IInvParts DEF Call, history, CallsOK
  <1> QED BY <1>1, <1>2, IInvPartsNext

LEMMA LookupStep ==
    ASSUME IInv, NEW t \in Thread, Lookup(t)
    PROVE  IInv'
  <1>1. CacheOK' /\ MintsOK'
    BY IInvParts DEF Lookup, history, CacheOK, MintsOK, ListMatchesMap, WithinCapacity,
       NoRedundantMint, Resident
  <1>2. CallsOK'
    <2>1. CASE want[t] \in Resident
      <3>1. cache[want[t]] \in Nat /\ want[t] \in Host
        BY <2>1, IInvParts DEF CacheOK, CallsOK
      <3> QED BY <2>1, <3>1, IInvParts DEF Lookup, history, CallsOK, Returns
    <2>2. CASE want[t] \notin Resident
      BY <2>2, IInvParts DEF Lookup, history, CallsOK
    <2> QED BY <2>1, <2>2
  <1> QED BY <1>1, <1>2, IInvPartsNext

LEMMA FoundAfterAllStep ==
    ASSUME IInv, NEW t \in Thread, FoundAfterAll(t)
    PROVE  IInv'
  <1> DEFINE h == want[t]
  <1>1. /\ h \in Resident /\ h \in Host /\ cache[h] \in Nat
        /\ lru' = ToFront(lru, h) /\ cache' = cache
    BY IInvParts DEF FoundAfterAll, CacheOK
  <1>2. CacheOK'
    BY <1>1, IInvParts, PromoteEffect
  <1>3. MintsOK'
    BY <1>1, IInvParts DEF FoundAfterAll, history, MintsOK, NoRedundantMint, Resident
  <1>5. CallsOK'
    BY <1>1, IInvParts DEF FoundAfterAll, history, Returns, CallsOK
  <1> QED BY <1>2, <1>3, <1>5, IInvPartsNext

LEMMA GenerateFailsStep ==
    ASSUME IInv, NEW t \in Thread, GenerateFails(t)
    PROVE  IInv'
  <1>1. CacheOK' /\ MintsOK'
    BY IInvParts DEF GenerateFails, history, CacheOK, MintsOK, ListMatchesMap,
       WithinCapacity, NoRedundantMint, Resident
  <1>2. CallsOK'
    BY IInvParts DEF GenerateFails, Returns, history, CallsOK, Null
  <1> QED BY <1>1, <1>2, IInvPartsNext

LEMMA MintStep ==
    ASSUME IInv, NEW t \in Thread, want[t] \notin Resident,
           NEW ctx \in {Null, minted + 1}, Mint(t, ctx)
    PROVE  /\ IInv'
           /\ want[t] \in Resident' => cache'[want[t]] = ctx
  <1> DEFINE h == want[t]
  <1>0. h \in Host /\ h \notin Resident /\ ctx \in Nat /\ minted' \in Nat
    BY IInvParts DEF CallsOK, Null, Mint
  <1>1. /\ mints' = [mints EXCEPT ![h] = @ + 1]
        /\ drops' = [x \in Host |-> IF x \in Evict.gone \/ (MaxEntries = 0 /\ x = h)
                                    THEN drops[x] + 1 ELSE drops[x]]
    BY DEF Mint
  <1>3. CallsOK'
    BY <1>0, IInvParts DEF CallsOK, Mint, Returns
  <1>4. CASE MaxEntries > 0
    <2>1. lru' = <<h>> \o Evict.list /\ cache' = Emplace(Evict.map, h, ctx)
      BY <1>4 DEF Mint
    <2>2. /\ CacheOK'
          /\ Resident' = (Resident \ Evict.gone) \cup {h}
          /\ cache'[h] = ctx
      BY <1>0, <1>4, <2>1, IInvParts, InsertEffect
    <2>3. Evict.gone \subseteq Resident
      BY <1>4, IInvParts, EvictEffect
    <2>4. MintsOK'
      <3>1. mints' \in [Host -> Nat] /\ drops' \in [Host -> Nat]
        BY <1>0, <1>1, IInvParts DEF MintsOK
      <3>2. \A x \in Host : x # h =>
               mints'[x] = drops'[x] + (IF x \in Resident' THEN 1 ELSE 0)
        BY <1>1, <1>4, <2>2, <2>3, IInvParts DEF MintsOK, NoRedundantMint
      <3>3. mints'[h] = drops'[h] + 1 /\ h \in Resident'
        BY <1>0, <1>1, <1>4, <2>2, <2>3, IInvParts DEF MintsOK, NoRedundantMint
      <3> QED BY <3>1, <3>2, <3>3 DEF MintsOK, NoRedundantMint
    <2> QED BY <1>3, <2>2, <2>4, IInvPartsNext
  <1>5. CASE MaxEntries = 0
    <2>1. lru' = lru /\ cache' = cache /\ Resident' = Resident /\ Evict.gone = {}
      BY <1>5 DEF Mint, Evict, Full, Resident
    <2>2. CacheOK'
      BY <2>1, IInvParts DEF CacheOK, ListMatchesMap, WithinCapacity
    <2>3. MintsOK'
      BY <1>0, <1>1, <1>5, <2>1, IInvParts DEF MintsOK, NoRedundantMint
    <2> QED BY <1>0, <1>3, <2>1, <2>2, <2>3, IInvPartsNext
  <1> QED BY <1>4, <1>5, CacheAssumption

LEMMA TouchStep ==
    ASSUME IInv, NEW h \in Host, Touch(h)
    PROVE  IInv'
  <1>1. h \in Resident /\ lru' = ToFront(lru, h) /\ cache' = cache
    BY DEF Touch
  <1>2. CacheOK'
    BY <1>1, IInvParts, PromoteEffect
  <1>3. MintsOK'
    BY <1>1, IInvParts DEF Touch, MintsOK, NoRedundantMint, Resident
  <1>5. CallsOK'
    BY IInvParts DEF Touch, callVars, CallsOK
  <1> QED BY <1>2, <1>3, <1>5, IInvPartsNext

LEMMA ClearStep ==
    ASSUME IInv, Clear
    PROVE  IInv'
  <1>1. /\ lru' = <<>> /\ Resident' = {} /\ cache' \in [Resident' -> Nat]
        /\ drops' = [h \in Host |-> IF h \in Resident THEN drops[h] + 1 ELSE drops[h]]
        /\ mints' = mints
    BY DEF Clear, Resident
  <1>2. CacheOK'
    <2>1. <<>> \in Seq(Host) /\ Distinct(<<>>) /\ \A x : ~Occurs(<<>>, x)
      BY DEF Distinct, Occurs
    <2>2. IsFiniteSet({}) /\ Cardinality({}) = 0 /\ 0 <= MaxEntries
      BY FS_EmptySet, CacheAssumption
    <2>3. Cardinality({}) <= MaxEntries
      BY <2>2
    <2> QED BY <1>1, <2>1, <2>2, <2>3 DEF CacheOK, ListMatchesMap, WithinCapacity
  <1>3. MintsOK'
    BY <1>1, IInvParts DEF MintsOK, NoRedundantMint
  <1>4. CallsOK'
    BY IInvParts DEF Clear, callVars, CallsOK
  <1> QED BY <1>2, <1>3, <1>4, IInvPartsNext

LEMMA NextIInv == IInv /\ [Next]_vars => IInv'
  <1> SUFFICES ASSUME IInv, [Next]_vars PROVE IInv'
    OBVIOUS
  <1>1. ASSUME NEW t \in Thread, Miss(t) PROVE IInv'
    BY <1>1, FoundAfterAllStep, GenerateFailsStep, MintStep DEF Miss
  <1>2. ASSUME UNCHANGED vars PROVE IInv'
    BY <1>2 DEF vars, IInv, TypeOK, ListMatchesMap, WithinCapacity, NoRedundantMint,
       Resident
  <1> QED
    BY <1>1, <1>2, CallStep, LookupStep, TouchStep, ClearStep DEF Next

\* In every reachable state the list and the map hold the same hosts, within
\* the capacity, and every certificate generated is resident or was dropped.
THEOREM CertCacheInvariant == Spec => []IInv
  <1>1. Init => IInv
    BY InitIInv
  <1>2. IInv /\ [Next]_vars => IInv'
    BY NextIInv
  <1> QED BY <1>1, <1>2, PTL DEF Spec

-----------------------------------------------------------------------------
(* What a call returns *)

Shared(t) ==
    pc[t] # "idle" /\ pc'[t] = "idle" /\ want[t] \in DOMAIN cache'
    => got'[t] = cache'[want[t]]

\* Only the thread itself returns from its call, and with the resident context.
LEMMA SharedStep ==
    ASSUME IInv, [Next]_vars
    PROVE  \A t \in Thread : Shared(t)
  <1>0. /\ pc \in [Thread -> {"idle", "read", "write"}]
        /\ got \in [Thread -> Nat]
    BY IInvParts DEF CallsOK
  <1>1. ASSUME NEW t \in Thread, NEW h \in Host, Call(t, h)
        PROVE  \A u \in Thread : Shared(u)
    BY <1>0, <1>1 DEF Call, Shared
  <1>2. ASSUME NEW t \in Thread, Lookup(t) PROVE \A u \in Thread : Shared(u)
    BY <1>0, <1>2 DEF Lookup, history, Returns, Shared, Resident
  <1>3. ASSUME NEW t \in Thread, FoundAfterAll(t) PROVE \A u \in Thread : Shared(u)
    BY <1>0, <1>3 DEF FoundAfterAll, Returns, Shared, Resident
  <1>4. ASSUME NEW t \in Thread, want[t] \notin Resident, GenerateFails(t)
        PROVE  \A u \in Thread : Shared(u)
    BY <1>0, <1>4 DEF GenerateFails, Returns, Shared, Resident
  <1>5. ASSUME NEW t \in Thread, want[t] \notin Resident,
               NEW ctx \in {Null, minted + 1}, Mint(t, ctx)
        PROVE  \A u \in Thread : Shared(u)
    <2>1. want[t] \in DOMAIN cache' => cache'[want[t]] = ctx
      BY <1>5, MintStep DEF Resident
    <2> QED BY <1>0, <1>5, <2>1 DEF Mint, Returns, Shared
  <1>6. ASSUME NEW h \in Host, Touch(h) PROVE \A u \in Thread : Shared(u)
    BY <1>6 DEF Touch, callVars, Shared
  <1>7. ASSUME Clear PROVE \A u \in Thread : Shared(u)
    BY <1>7 DEF Clear, callVars, Shared
  <1>8. ASSUME UNCHANGED vars PROVE \A u \in Thread : Shared(u)
    BY <1>8 DEF vars, Shared
  <1>9. ASSUME NEW t \in Thread, Miss(t) PROVE \A u \in Thread : Shared(u)
    BY <1>3, <1>4, <1>5, <1>9 DEF Miss
  <1> QED BY <1>1, <1>2, <1>6, <1>7, <1>8, <1>9 DEF Next

\* Whoever asks for a host gets the context every other caller gets.
THEOREM CertCacheSharesContext == Spec => SharedContext
  <1>1. IInv /\ [Next]_vars => [\A t \in Thread : Shared(t)]_vars
    BY SharedStep
  <1>2. Spec => [][\A t \in Thread : Shared(t)]_vars
    BY <1>1, CertCacheInvariant, PTL DEF Spec
  <1> QED BY <1>2 DEF SharedContext, Shared
-----------------------------------------------------------------------------
(* Parser: the callbacks keep the types and, for a response, the body's    *)
(* bound.                                                                  *)

Bounded(body) ==
    /\ Len(body) <= MaxBody + 1
    /\ \A i \in DOMAIN body : body[i] = Marker => i = MaxBody + 1

\* What the parser of a side can hold.
Holds(side) == {p \in ParserRecord : side = "response" => Bounded(p.body)}

LEMMA FreshHolds == ASSUME NEW side \in Sides PROVE Fresh \in Holds(side)
  <1>1. Fresh \in ParserRecord
    BY DEF Fresh, ParserRecord
  <1>2. Bounded(Fresh.body)
    BY ParserAssumption DEF Fresh, Bounded
  <1> QED BY <1>1, <1>2 DEF Holds

\* What one callback changes of a record.
LEMMA ChangesOfRecord ==
    ASSUME NEW p \in ParserRecord
    PROVE  /\ \A v \in Seq(Byte) :
                 /\ [p EXCEPT !.line = v] \in ParserRecord
                 /\ [p EXCEPT !.field = v, !.lastWasField = TRUE] \in ParserRecord
                 /\ [p EXCEPT !.value = v, !.lastWasField = FALSE] \in ParserRecord
           /\ \A v \in Seq(Byte \cup {Marker}) : [p EXCEPT !.body = v] \in ParserRecord
           /\ \A v \in Seq(Header) :
                 [p EXCEPT !.headers = v, !.field = <<>>, !.value = <<>>] \in ParserRecord
  <1>1. <<>> \in Seq(Byte)
    OBVIOUS
  <1> QED BY <1>1 DEF ParserRecord

LEMMA CommitFacts ==
    ASSUME NEW p \in ParserRecord
    PROVE  /\ CommitHeader(p) \in ParserRecord
           /\ CommitHeader(p).body = p.body
  <1>1. CASE p.field = <<>>
    BY <1>1 DEF CommitHeader
  <1>2. CASE p.field # <<>>
    <2> DEFINE h == Append(p.headers, <<p.field, p.value>>)
               q == [p EXCEPT !.headers = h, !.field = <<>>, !.value = <<>>]
    <2>1. h \in Seq(Header)
      <3>1. p.field \in Seq(Byte) /\ p.value \in Seq(Byte) /\ p.headers \in Seq(Header)
        BY DEF ParserRecord
      <3>2. <<p.field, p.value>> \in Header
        BY <1>2, <3>1 DEF Header
      <3> QED BY <3>1, <3>2
    <2>2. CommitHeader(p) = q
      BY <1>2 DEF CommitHeader
    <2> HIDE DEF h
    <2>3. q \in ParserRecord
      BY <2>1, ChangesOfRecord
    <2>4. q.body = p.body
      BY DEF ParserRecord
    <2> QED BY <2>2, <2>3, <2>4
  <1> QED BY <1>1, <1>2

\* A response's body grows up to the limit, and the marker ends it.
LEMMA BodyBound ==
    ASSUME NEW p \in ParserRecord, Bounded(p.body), NEW d \in Seq(Byte)
    PROVE  /\ OnResponseBody(p, d) \in ParserRecord
           /\ Bounded(OnResponseBody(p, d).body)
  <1> DEFINE room == MaxBody - Len(p.body)
             part == IF Len(d) > room THEN SubSeq(d, 1, room) ELSE d
             end == IF Len(part) < Len(d) THEN <<Marker>> ELSE <<>>
             B == Byte \cup {Marker}
             w == p.body \o part \o end
  <1>1. MaxBody \in Nat /\ Marker \notin Byte
    BY ParserAssumption
  <1>2. p.body \in Seq(B) /\ Len(p.body) \in Nat /\ Len(d) \in Nat
    BY DEF ParserRecord
  <1>3. CASE room <= 0
    <2>1. OnResponseBody(p, d) = p
      BY <1>3 DEF OnResponseBody
    <2> QED BY <2>1
  <1>4. CASE room > 0
    <2>1. /\ part \in Seq(Byte) /\ Len(part) <= room
          /\ Len(part) < Len(d) => Len(part) = room
      <3>1. CASE Len(d) > room
        <4>1. SubSeq(d, 1, room) \in Seq(Byte) /\ Len(SubSeq(d, 1, room)) = room
          <5>1. room \in 0 .. Len(d)
            BY <1>1, <1>2, <1>4, <3>1
          <5> HIDE DEF room
          <5> QED BY <5>1, CatParts
        <4>2. part = SubSeq(d, 1, room)
          BY <3>1
        <4>3. room \in Int
          BY <1>1, <1>2
        <4> HIDE DEF part, room
        <4> QED BY <4>1, <4>2, <4>3
      <3>2. CASE ~(Len(d) > room)
        <4>1. part = d /\ room \in Int
          BY <1>1, <1>2, <3>2
        <4> HIDE DEF part, room
        <4> QED BY <1>2, <3>2, <4>1
      <3> QED BY <3>1, <3>2
    <2>2. OnResponseBody(p, d) = [p EXCEPT !.body = w]
      <3>1. ~(room <= 0)
        BY <1>1, <1>2, <1>4
      <3> QED BY <3>1, Zenon DEF OnResponseBody
    <2> HIDE DEF part
    <2>3. /\ end \in Seq(B) /\ Len(end) \in {0, 1}
          /\ Len(end) = 1 => Len(part) = room
      <3>1. CASE Len(part) < Len(d)
        <4>1. end = <<Marker>>
          BY <3>1
        <4> HIDE DEF end, room
        <4> QED BY <2>1, <3>1, <4>1
      <3>2. CASE ~(Len(part) < Len(d))
        <4>1. end = <<>>
          BY <3>2
        <4> HIDE DEF end, room
        <4> QED BY <4>1
      <3> QED BY <3>1, <3>2
    <2> HIDE DEF end
    <2>4. part \in Seq(B) /\ Len(part) \in Nat
      BY <2>1
    <2>5. /\ w \in Seq(B) /\ Len(w) = Len(p.body) + Len(part) + Len(end)
          /\ \A i \in 1 .. Len(p.body) : w[i] = p.body[i]
          /\ \A i \in 1 .. Len(part) : w[Len(p.body) + i] = part[i]
      <3> HIDE DEF room
      <3> QED BY <1>2, <2>3, <2>4
    <2> HIDE DEF w
    <2>6. Len(w) <= MaxBody + 1
      <3>1. Len(w) = Len(p.body) + Len(part) + Len(end)
        BY <2>5
      <3>2. room = MaxBody - Len(p.body)
        OBVIOUS
      <3> HIDE DEF room
      <3>3. Len(part) <= room /\ Len(end) \in {0, 1} /\ (Len(end) = 1 => Len(part) = room)
        BY <2>1, <2>3
      <3>4. CASE Len(end) = 1
        BY <1>1, <1>2, <2>4, <3>1, <3>2, <3>3, <3>4
      <3>5. CASE Len(end) = 0
        BY <1>1, <1>2, <2>4, <3>1, <3>2, <3>3, <3>5
      <3> QED BY <3>3, <3>4, <3>5
    <2>7. ASSUME NEW i \in DOMAIN w, w[i] = Marker PROVE i = MaxBody + 1
      <3>1. i \in 1 .. Len(w)
        BY <2>5
      <3>2. CASE i <= Len(p.body)
        <4>1. i \in DOMAIN p.body /\ p.body[i] = Marker
          BY <1>2, <2>5, <2>7, <3>1, <3>2
        <4>2. i = MaxBody + 1
          BY <4>1 DEF Bounded
        <4> QED BY <4>2
      <3>3. CASE i > Len(p.body) /\ i <= Len(p.body) + Len(part)
        <4>1. i - Len(p.body) \in 1 .. Len(part) /\ Len(p.body) + (i - Len(p.body)) = i
          BY <1>2, <2>4, <3>1, <3>3
        <4>2. part[i - Len(p.body)] = Marker
          BY <2>5, <2>7, <4>1
        <4> QED BY <1>1, <2>1, <4>1, <4>2
      <3>4. CASE i > Len(p.body) + Len(part)
        <4>1. Len(end) = 1
          BY <1>2, <2>3, <2>4, <2>5, <3>1, <3>4
        <4> QED BY <1>1, <1>2, <2>3, <2>4, <2>5, <3>1, <3>4, <4>1
      <3> QED BY <1>2, <2>4, <3>1, <3>2, <3>3, <3>4
    <2>8. Bounded(w)
      BY <2>6, <2>7 DEF Bounded
    <2>9. [p EXCEPT !.body = w] \in ParserRecord /\ [p EXCEPT !.body = w].body = w
      BY <2>5 DEF ParserRecord
    <2> QED BY <2>2, <2>8, <2>9
  <1> QED BY <1>1, <1>2, <1>3, <1>4

LEMMA CallbackHolds ==
    ASSUME NEW side \in Sides, NEW p \in Holds(side), NEW e \in Span
    PROVE  Callback(side, p, e) \in Holds(side)
  <1> DEFINE d == e.data
             k == e.kind
  <1>1. p \in ParserRecord /\ (side = "response" => Bounded(p.body))
    BY DEF Holds
  <1>2. d \in Seq(Byte) /\ k \in {"begin", "line", "field", "value", "body", "end"}
    BY DEF Span
  <1> DEFINE Fits(q) == q \in ParserRecord /\ q.body = p.body
  <1>3. ASSUME NEW q, Fits(q) PROVE q \in Holds(side)
    BY <1>1, <1>3 DEF Holds
  <1> HIDE DEF d, k
  <1>4. Fits([p EXCEPT !.llhttp = IF k = "begin" THEN "inside" ELSE "error"])
    BY <1>1 DEF ParserRecord
  <1>5. Fits(OnLine(p, d))
    <2> DEFINE v == p.line \o d
    <2>1. v \in Seq(Byte)
      BY <1>1, <1>2 DEF ParserRecord
    <2>2. OnLine(p, d) = [p EXCEPT !.line = v]
      BY DEF OnLine
    <2> HIDE DEF v
    <2>3. [p EXCEPT !.line = v].body = p.body
      BY <1>1 DEF ParserRecord
    <2> QED BY <1>1, <2>1, <2>2, <2>3, ChangesOfRecord
  <1>6. Fits(OnHeaderField(p, d))
    <2> DEFINE q == IF p.lastWasField THEN p ELSE CommitHeader(p)
    <2>1. q \in ParserRecord /\ q.body = p.body
      BY <1>1, CommitFacts
    <2>2. OnHeaderField(p, d) = [q EXCEPT !.field = @ \o d, !.lastWasField = TRUE]
      BY DEF OnHeaderField
    <2> HIDE DEF q
    <2> DEFINE v == q.field \o d
    <2>3. v \in Seq(Byte)
      BY <1>2, <2>1 DEF ParserRecord
    <2>4. OnHeaderField(p, d) = [q EXCEPT !.field = v, !.lastWasField = TRUE]
      BY <2>2
    <2> HIDE DEF v
    <2>5. [q EXCEPT !.field = v, !.lastWasField = TRUE].body = p.body
      BY <2>1 DEF ParserRecord
    <2> QED BY <2>1, <2>3, <2>4, <2>5, ChangesOfRecord
  <1>7. Fits(OnHeaderValue(p, d))
    <2> DEFINE v == p.value \o d
    <2>1. v \in Seq(Byte)
      BY <1>1, <1>2 DEF ParserRecord
    <2>2. OnHeaderValue(p, d) = [p EXCEPT !.value = v, !.lastWasField = FALSE]
      BY DEF OnHeaderValue
    <2> HIDE DEF v
    <2>3. [p EXCEPT !.value = v, !.lastWasField = FALSE].body = p.body
      BY <1>1 DEF ParserRecord
    <2> QED BY <1>1, <2>1, <2>2, <2>3, ChangesOfRecord
  <1>8. OnRequestBody(p, d) \in ParserRecord
    <2> DEFINE v == p.body \o d
    <2>1. v \in Seq(Byte \cup {Marker})
      <3>1. p.body \in Seq(Byte \cup {Marker}) /\ d \in Seq(Byte \cup {Marker})
        BY <1>1, <1>2 DEF ParserRecord
      <3> QED BY <3>1
    <2>2. OnRequestBody(p, d) = [p EXCEPT !.body = v]
      BY DEF OnRequestBody
    <2> HIDE DEF v
    <2> QED BY <1>1, <2>1, <2>2, ChangesOfRecord
  <1>9. Fits(OnMessageComplete(p))
    <2> DEFINE q == CommitHeader(p)
    <2>1. q \in ParserRecord /\ q.body = p.body
      BY <1>1, CommitFacts
    <2>2. OnMessageComplete(p) = [q EXCEPT !.complete = TRUE, !.llhttp = "start"]
      BY DEF OnMessageComplete
    <2> HIDE DEF q
    <2> QED BY <2>1, <2>2 DEF ParserRecord
  <1>10. side = "response" => OnResponseBody(p, d) \in Holds(side)
    BY <1>1, <1>2, BodyBound DEF Holds
  <1>11. side = "request" => OnRequestBody(p, d) \in Holds(side)
    BY <1>8 DEF Holds
  <1>12. side \in {"request", "response"}
    BY DEF Sides
  <1>13. p.llhttp \in {"start", "inside", "error"}
    BY <1>1 DEF ParserRecord
  <1>14. CASE p.llhttp = "error"
    BY <1>14 DEF Callback
  <1>15. CASE p.llhttp = "start"
    <2>1. Callback(side, p, e) = [p EXCEPT !.llhttp = IF k = "begin" THEN "inside" ELSE "error"]
      BY <1>15 DEF Callback, k
    <2> QED BY <1>3, <1>4, <2>1
  <1>16. CASE p.llhttp = "inside"
    <2> HIDE DEF Fits
    <2>1. CASE k = "line"
      BY <1>3, <1>5, <1>16, <2>1 DEF Callback, k, d
    <2>2. CASE k = "field"
      BY <1>3, <1>6, <1>16, <2>2 DEF Callback, k, d
    <2>3. CASE k = "value"
      BY <1>3, <1>7, <1>16, <2>3 DEF Callback, k, d
    <2>4. CASE k = "body"
      BY <1>10, <1>11, <1>12, <1>16, <2>4 DEF Callback, k, d
    <2>5. CASE k \in {"begin", "end"}
      BY <1>3, <1>9, <1>16, <2>5 DEF Callback, k, d
    <2> QED BY <1>2, <2>1, <2>2, <2>3, <2>4, <2>5
  <1> QED BY <1>13, <1>14, <1>15, <1>16
-----------------------------------------------------------------------------
(* The two scans of a read: into spans, and over spans.                    *)

Executed(side, p, r, f) ==
    f = [i \in 0 .. Len(r) |-> IF i = 0 THEN p ELSE Callback(side, f[i - 1], r[i])]

LEMMA ExecuteScans ==
    ASSUME NEW side \in Sides, NEW p \in Holds(side), NEW r \in Seq(Span),
           NEW T, T = Holds(side), NEW step,
           step = [x \in T \X Span |-> Callback(side, x[1], x[2])]
    PROVE  step \in [T \X Span -> T] /\ ScansTo(Execute(side, p, r), r, p, step, T)
  <1> DEFINE op(x, e) == Callback(side, x, e)
             n == Len(r)
             f == CHOOSE h : Executed(side, p, r, h)
  <1>1. n \in Nat /\ \A i \in 1 .. n : r[i] \in Span
    OBVIOUS
  <1>2. \A x \in T, e \in Span : op(x, e) \in T
    BY CallbackHolds
  <1>3. step = [x \in T \X Span |-> op(x[1], x[2])]
    OBVIOUS
  <1>4. Execute(side, p, r) = f[n]
    BY DEF Execute, Executed
  <1>5. \A h : Executed(side, p, r, h)
                  <=> h = [i \in 0 .. n |-> IF i = 0 THEN p ELSE op(h[i - 1], r[i])]
    BY DEF Executed
  <1> HIDE DEF op, n, f
  <1>6. step \in [T \X Span -> T] /\ \A x \in T, e \in Span : step[<<x, e>>] = op(x, e)
    <2>1. \A x \in T \X Span : op(x[1], x[2]) \in T
      BY <1>2
    <2>2. ASSUME NEW x \in T, NEW e \in Span PROVE step[<<x, e>>] = op(x, e)
      <3>1. <<x, e>> \in T \X Span
        OBVIOUS
      <3>2. step[<<x, e>>] = op(<<x, e>>[1], <<x, e>>[2])
        BY <1>3, <3>1, Zenon
      <3> QED BY <3>2
    <2>3. step \in [T \X Span -> T]
      BY <1>3, <2>1
    <2> QED BY <2>2, <2>3
  <1>7. PICK g \in [0 .. n -> T] : Scans(g, r, p, step, T)
    BY <1>6, ScanExists DEF n
  <1>8. Executed(side, p, r, g)
    <2>1. \A i \in 0 .. n : g[i] = IF i = 0 THEN p ELSE op(g[i - 1], r[i])
      <3>1. g[0] = p
        BY <1>7 DEF Scans
      <3>2. ASSUME NEW i \in 1 .. n PROVE g[i] = op(g[i - 1], r[i])
        <4>1. g[i - 1] \in T
          BY <1>1
        <4>2. g[i] = step[<<g[i - 1], r[i]>>]
          BY <1>7, <4>1 DEF Scans, n
        <4> QED BY <1>1, <1>6, <4>1, <4>2
      <3> QED BY <1>1, <3>1, <3>2
    <2>2. g = [i \in 0 .. n |-> g[i]]
      OBVIOUS
    <2>3. g = [i \in 0 .. n |-> IF i = 0 THEN p ELSE op(g[i - 1], r[i])]
      BY <2>1, <2>2
    <2> QED BY <1>5, <2>3
  <1>9. Executed(side, p, r, f)
    BY <1>8 DEF f
  <1>10. Scans(f, r, p, step, T)
    <2>1. f = [i \in 0 .. n |-> IF i = 0 THEN p ELSE op(f[i - 1], r[i])]
      BY <1>5, <1>9
    <2>2. f[0] = p
      BY <1>1, <2>1
    <2>3. ASSUME NEW i \in 1 .. n PROVE f[i] = op(f[i - 1], r[i])
      <3>1. i \in 0 .. n /\ i # 0
        BY <1>1
      <3> QED BY <2>1, <3>1
    <2> QED BY <1>1, <1>6, <2>2, <2>3 DEF Scans, n
  <1> QED BY <1>4, <1>6, <1>10 DEF ScansTo, n

\* A read that is one span longer is one callback more.
LEMMA ExecuteFacts ==
    ASSUME NEW side \in Sides, NEW p \in Holds(side)
    PROVE  /\ Execute(side, p, <<>>) = p
           /\ \A r \in Seq(Span) : Execute(side, p, r) \in Holds(side)
           /\ \A r \in Seq(Span), e \in Span :
                 Execute(side, p, Then(r, e)) = Callback(side, Execute(side, p, r), e)
  <1> DEFINE T == Holds(side)
             op(x, e) == Callback(side, x, e)
             step == [x \in T \X Span |-> op(x[1], x[2])]
  <1>1. \A r \in Seq(Span) :
           step \in [T \X Span -> T] /\ ScansTo(Execute(side, p, r), r, p, step, T)
    BY ExecuteScans
  <1>2. <<>> \in Seq(Span) /\ p \in T
    OBVIOUS
  <1>3. ASSUME NEW x \in T, NEW e \in Span PROVE step[<<x, e>>] = op(x, e)
    <2> HIDE DEF op, T
    <2> QED OBVIOUS
  <1> HIDE DEF step, T, op
  <1>4. step \in [T \X Span -> T]
    BY <1>1, <1>2
  <1>5. Execute(side, p, <<>>) = p
    BY <1>1, <1>2, ScanStart
  <1>6. \A r \in Seq(Span) : Execute(side, p, r) \in T
    BY <1>1, <1>2, <1>4, ScanType
  <1>7. ASSUME NEW r \in Seq(Span), NEW e \in Span
        PROVE  Execute(side, p, Then(r, e)) = op(Execute(side, p, r), e)
    <2> DEFINE q == Then(r, e)
    <2>1. q \in Seq(Span)
      BY ThenFacts
    <2> HIDE DEF q
    <2>2. ScansTo(Execute(side, p, r), r, p, step, T) /\ ScansTo(Execute(side, p, q), q, p, step, T)
      BY <1>1, <2>1
    <2>3. ScansOn(Execute(side, p, r), Execute(side, p, q), r, e, Span, p, step, T)
      BY <1>2, <1>4, <2>2 DEF ScansOn, q
    <2>4. Execute(side, p, q) = step[<<Execute(side, p, r), e>>]
      BY <2>3, ScanNext
    <2> QED BY <1>3, <1>6, <2>4 DEF q
  <1> QED BY <1>5, <1>6, <1>7 DEF T, op

\* One element more makes the last span longer, or a span of its own.
LEMMA GrownFacts ==
    /\ \A ss \in Seq(Span), e \in Span : Grown(ss, e) \in Seq(Span)
    /\ \A e \in Span : Grown(<<>>, e) = One(e)
    /\ \A ss \in Seq(Span), z, e \in Span :
          /\ z.kind # e.kind => Grown(Then(ss, z), e) = Then(Then(ss, z), e)
          /\ z.kind = e.kind =>
                /\ Grown(Then(ss, z), e) = Then(ss, Piece(e.kind, z.data \o e.data))
                /\ Piece(e.kind, z.data \o e.data) \in Span
  <1>1. ASSUME NEW z \in Span, NEW e \in Span PROVE Piece(e.kind, z.data \o e.data) \in Span
    <2>1. z.data \in Seq(Byte) /\ e.data \in Seq(Byte)
      BY DEF Span
    <2>2. z.data \o e.data \in Seq(Byte)
      BY <2>1
    <2> QED BY <2>2 DEF Piece, Span
  <1>2. ASSUME NEW e \in Span PROVE Grown(<<>>, e) = One(e)
    BY DEF Grown, One
  <1>3. ASSUME NEW ss \in Seq(Span), NEW z \in Span, NEW e \in Span
        PROVE  /\ z.kind # e.kind => Grown(Then(ss, z), e) = Then(Then(ss, z), e)
               /\ z.kind = e.kind =>
                     Grown(Then(ss, z), e) = Then(ss, Piece(e.kind, z.data \o e.data))
    <2> DEFINE q == Then(ss, z)
               y == Piece(e.kind, z.data \o e.data)
    <2>1. y \in Span
      BY <1>1
    <2>2. q # <<>> /\ q[Len(q)] = z
      <3>1. q # <<>>
        BY ThenFacts
      <3>2. q[Len(q)] = z
        BY ThenReplaced
      <3> QED BY <3>1, <3>2
    <2>3. [q EXCEPT ![Len(q)] = y] = Then(ss, y)
      <3> HIDE DEF y
      <3> QED BY <2>1, ThenReplaced
    <2>4. Grown(q, e) = IF q # <<>> /\ q[Len(q)].kind = e.kind
                        THEN [q EXCEPT ![Len(q)] = Piece(e.kind, q[Len(q)].data \o e.data)]
                        ELSE Then(q, e)
      BY DEF Grown, Then
    <2> HIDE DEF q
    <2> QED BY <2>2, <2>3, <2>4 DEF q
  <1>4. ASSUME NEW ss \in Seq(Span), NEW e \in Span PROVE Grown(ss, e) \in Seq(Span)
    <2>1. CASE ss = <<>>
      BY <1>2, <2>1, ThenFacts
    <2>2. CASE ss # <<>>
      <3>1. PICK front \in Seq(Span), z \in Span : ss = Then(front, z)
        BY <2>2, LastThen
      <3>2. CASE z.kind = e.kind
        BY <1>1, <1>3, <3>1, <3>2, ThenType
      <3>3. CASE z.kind # e.kind
        BY <1>3, <3>1, <3>3, ThenType
      <3> QED BY <3>2, <3>3
    <2> QED BY <2>1, <2>2
  <1> QED BY <1>1, <1>2, <1>3, <1>4

Cut(r, f) ==
    f = [i \in 0 .. Len(r) |-> IF i = 0 THEN <<>> ELSE Grown(f[i - 1], r[i])]

LEMMA SpansScans ==
    ASSUME NEW r \in Seq(Span), NEW T, T = Seq(Span), NEW step, NEW p, p = <<>>,
           step = [x \in T \X Span |-> Grown(x[1], x[2])]
    PROVE  step \in [T \X Span -> T] /\ ScansTo(Spans(r), r, p, step, T)
  <1> DEFINE op(x, e) == Grown(x, e)
             n == Len(r)
             f == CHOOSE h : Cut(r, h)
  <1>0. p \in T
    OBVIOUS
  <1>1. n \in Nat /\ \A i \in 1 .. n : r[i] \in Span
    OBVIOUS
  <1>2. \A x \in T, e \in Span : op(x, e) \in T
    BY GrownFacts
  <1>3. step = [x \in T \X Span |-> op(x[1], x[2])]
    OBVIOUS
  <1>4. Spans(r) = f[n]
    BY DEF Spans, Cut
  <1>5. \A h : Cut(r, h)
                  <=> h = [i \in 0 .. n |-> IF i = 0 THEN p ELSE op(h[i - 1], r[i])]
    BY DEF Cut
  <1> HIDE DEF op, n, f
  <1>6. step \in [T \X Span -> T] /\ \A x \in T, e \in Span : step[<<x, e>>] = op(x, e)
    <2>1. \A x \in T \X Span : op(x[1], x[2]) \in T
      BY <1>2
    <2>2. ASSUME NEW x \in T, NEW e \in Span PROVE step[<<x, e>>] = op(x, e)
      <3>1. <<x, e>> \in T \X Span
        OBVIOUS
      <3>2. step[<<x, e>>] = op(<<x, e>>[1], <<x, e>>[2])
        BY <1>3, <3>1, Zenon
      <3> QED BY <3>2
    <2>3. step \in [T \X Span -> T]
      BY <1>3, <2>1
    <2> QED BY <2>2, <2>3
  <1>7. PICK g \in [0 .. n -> T] : Scans(g, r, p, step, T)
    BY <1>0, <1>6, ScanExists DEF n
  <1>8. Cut(r, g)
    <2>1. \A i \in 0 .. n : g[i] = IF i = 0 THEN p ELSE op(g[i - 1], r[i])
      <3>1. g[0] = p
        BY <1>7 DEF Scans
      <3>2. ASSUME NEW i \in 1 .. n PROVE g[i] = op(g[i - 1], r[i])
        <4>1. g[i - 1] \in T
          BY <1>1
        <4>2. g[i] = step[<<g[i - 1], r[i]>>]
          BY <1>7, <4>1 DEF Scans, n
        <4> QED BY <1>1, <1>6, <4>1, <4>2
      <3> QED BY <1>1, <3>1, <3>2
    <2>2. g = [i \in 0 .. n |-> g[i]]
      OBVIOUS
    <2>3. g = [i \in 0 .. n |-> IF i = 0 THEN p ELSE op(g[i - 1], r[i])]
      BY <2>1, <2>2
    <2> QED BY <1>5, <2>3
  <1>9. Cut(r, f)
    BY <1>8 DEF f
  <1>10. Scans(f, r, p, step, T)
    <2>1. f = [i \in 0 .. n |-> IF i = 0 THEN p ELSE op(f[i - 1], r[i])]
      BY <1>5, <1>9
    <2>2. f[0] = p
      BY <1>1, <2>1
    <2>3. ASSUME NEW i \in 1 .. n PROVE f[i] = op(f[i - 1], r[i])
      <3>1. i \in 0 .. n /\ i # 0
        BY <1>1
      <3> QED BY <2>1, <3>1
    <2> QED BY <1>1, <1>6, <2>2, <2>3 DEF Scans, n
  <1> QED BY <1>4, <1>6, <1>10 DEF ScansTo, n

\* A read that is one element longer.
LEMMA SpansFacts ==
    /\ Spans(<<>>) = <<>>
    /\ \A r \in Seq(Span) : Spans(r) \in Seq(Span)
    /\ \A r \in Seq(Span), e \in Span :
          Spans(Then(r, e)) = Grown(Spans(r), e)
  <1> DEFINE T == Seq(Span)
             p == <<>>
             op(x, e) == Grown(x, e)
             step == [x \in T \X Span |-> op(x[1], x[2])]
  <1>1. \A r \in Seq(Span) :
           step \in [T \X Span -> T] /\ ScansTo(Spans(r), r, p, step, T)
    BY SpansScans
  <1>2. <<>> \in Seq(Span) /\ p \in T
    OBVIOUS
  <1>3. ASSUME NEW x \in T, NEW e \in Span PROVE step[<<x, e>>] = op(x, e)
    <2> HIDE DEF op, T
    <2> QED OBVIOUS
  <1> HIDE DEF step, T, op, p
  <1>4. step \in [T \X Span -> T]
    BY <1>1, <1>2
  <1>5. Spans(<<>>) = p
    BY <1>1, <1>2, ScanStart
  <1>6. \A r \in Seq(Span) : Spans(r) \in T
    BY <1>1, <1>2, <1>4, ScanType
  <1>7. ASSUME NEW r \in Seq(Span), NEW e \in Span
        PROVE  Spans(Then(r, e)) = op(Spans(r), e)
    <2> DEFINE q == Then(r, e)
    <2>1. q \in Seq(Span)
      BY ThenFacts
    <2> HIDE DEF q
    <2>2. ScansTo(Spans(r), r, p, step, T) /\ ScansTo(Spans(q), q, p, step, T)
      BY <1>1, <2>1
    <2>3. ScansOn(Spans(r), Spans(q), r, e, Span, p, step, T)
      BY <1>2, <1>4, <2>2 DEF ScansOn, q
    <2>4. Spans(q) = step[<<Spans(r), e>>]
      BY <2>3, ScanNext
    <2> QED BY <1>3, <1>6, <2>4 DEF q
  <1> QED BY <1>5, <1>6, <1>7 DEF T, op, p

-----------------------------------------------------------------------------
(* The reference: the same callbacks, one element at a time and without a  *)
(* limit on the body, which is what the parser of requests does.           *)

Reference(u) == Execute("request", Fresh, u)

Like(side, p, x) ==
    /\ p.llhttp = x.llhttp /\ p.line = x.line /\ p.headers = x.headers
    /\ p.field = x.field /\ p.value = x.value
    /\ p.lastWasField = x.lastWasField /\ p.complete = x.complete
    /\ Kept(side, x, p.body)

\* What OnResponseBody does, by the room that is left.
LEMMA ResponseBodyFacts ==
    ASSUME NEW p \in ParserRecord, NEW d \in Seq(Byte)
    PROVE  /\ Len(p.body) >= MaxBody => OnResponseBody(p, d) = p
           /\ Len(p.body) + Len(d) <= MaxBody => OnResponseBody(p, d).body = Cat(p.body, d)
           /\ Len(p.body) < MaxBody /\ Len(p.body) + Len(d) > MaxBody =>
                 OnResponseBody(p, d).body
                     = Then(Cat(p.body, SubSeq(d, 1, MaxBody - Len(p.body))), Marker)
           /\ OnResponseBody(p, d) = [p EXCEPT !.body = OnResponseBody(p, d).body]
  <1> DEFINE room == MaxBody - Len(p.body)
             part == IF Len(d) > room THEN SubSeq(d, 1, room) ELSE d
             end == IF Len(part) < Len(d) THEN <<Marker>> ELSE <<>>
             B == Byte \cup {Marker}
             w == p.body \o part \o end
  <1>1. MaxBody \in Nat /\ p.body \in Seq(B) /\ d \in Seq(B) /\ Len(d) \in Nat
        /\ Len(p.body) \in Nat /\ d \in Seq(Byte)
    BY ParserAssumption DEF ParserRecord
  <1>2. room <= 0 => OnResponseBody(p, d) = p
    BY DEF OnResponseBody
  <1>3. ~(room <= 0) => OnResponseBody(p, d) = [p EXCEPT !.body = w]
    BY Zenon DEF OnResponseBody
  <1>4. \A v : [p EXCEPT !.body = v].body = v
    BY DEF ParserRecord
  <1>5. OnResponseBody(p, d) = [p EXCEPT !.body = OnResponseBody(p, d).body]
    <2>1. p = [p EXCEPT !.body = p.body]
      BY DEF ParserRecord
    <2> HIDE DEF w, room
    <2> QED BY <1>2, <1>3, <1>4, <2>1
  <1>6. room \in Int /\ (Len(p.body) >= MaxBody <=> room <= 0)
        /\ (Len(d) > room <=> Len(p.body) + Len(d) > MaxBody)
    BY <1>1
  <1>7. ASSUME Len(p.body) + Len(d) <= MaxBody PROVE OnResponseBody(p, d).body = Cat(p.body, d)
    <2>1. CASE room <= 0
      <3>1. d = <<>>
        BY <1>1, <1>7, <2>1
      <3>2. Cat(p.body, d) = p.body
        BY <1>1, <3>1, CatFacts
      <3> QED BY <1>2, <2>1, <3>2
    <2>2. CASE ~(room <= 0)
      <3>1. part = d
        <4> HIDE DEF room
        <4> QED BY <1>1, <1>6, <1>7
      <3>2. end = <<>>
        <4> HIDE DEF part
        <4> QED BY <1>1, <3>1
      <3>3. w = Cat(p.body, d)
        <4> HIDE DEF part, end
        <4>1. (p.body \o d) \o <<>> = p.body \o d
          BY <1>1
        <4> QED BY <3>1, <3>2, <4>1 DEF Cat
      <3> HIDE DEF w, room
      <3> QED BY <1>3, <1>4, <2>2, <3>3
    <2> QED BY <2>1, <2>2
  <1>8. ASSUME Len(p.body) < MaxBody, Len(p.body) + Len(d) > MaxBody
        PROVE  OnResponseBody(p, d).body = Then(Cat(p.body, SubSeq(d, 1, room)), Marker)
    <2> DEFINE a == SubSeq(d, 1, room)
    <2>1. room \in 0 .. Len(d) /\ ~(room <= 0) /\ room < Len(d)
      BY <1>1, <1>8
    <2>2. a \in Seq(B) /\ Len(a) = room
      <3> HIDE DEF room
      <3> QED BY <1>1, <2>1, CatParts
    <2>3. part = a
      <3> HIDE DEF a
      <3> QED BY <1>6, <1>8 DEF a
    <2> HIDE DEF a
    <2>4. end = <<Marker>>
      <3> HIDE DEF part, room
      <3> QED BY <2>1, <2>2, <2>3
    <2>5. w = Then(Cat(p.body, a), Marker)
      <3> DEFINE c == p.body \o a
      <3>1. c \in Seq(B) /\ Marker \in B
        BY <1>1, <2>2
      <3> HIDE DEF part, end, c
      <3>2. Append(c, Marker) = c \o <<Marker>>
        BY <3>1, AppendIsConcat
      <3> QED BY <2>3, <2>4, <3>2 DEF Cat, Then, c
    <2> HIDE DEF w, room
    <2> QED BY <1>3, <1>4, <2>1, <2>5 DEF a
  <1> QED BY <1>2, <1>5, <1>6, <1>7, <1>8

\* What is kept of a body stays a copy of its beginning when it goes on.
LEMMA KeptGrows ==
    ASSUME NEW p \in ParserRecord, NEW x \in ParserRecord, NEW d \in Seq(Byte),
           Kept("response", x, p.body)
    PROVE  Kept("response", OnRequestBody(x, d), OnResponseBody(p, d).body)
  <1> DEFINE B == Byte \cup {Marker}
             b == p.body
             c == OnResponseBody(p, d).body
             w == x.body
             v == Cat(w, d)
             M == MaxBody
             cut(s) == SubSeq(s, 1, M)
             Copy(s, z) == \/ z = s /\ Len(s) <= M
                           \/ Len(s) > M /\ z \in {cut(s), Then(cut(s), Marker)}
  <1>1. M \in Nat \ {0}
    BY ParserAssumption
  <1>2. b \in Seq(B) /\ w \in Seq(B) /\ d \in Seq(B) /\ Marker \in B
    BY DEF ParserRecord
  <1>3. \A m, z : Kept("response", m, z) <=> Copy(m.body, z)
    BY DEF Kept, Then
  <1>4. OnRequestBody(x, d).body = v
    BY DEF OnRequestBody, ParserRecord, Cat
  <1>5. v \in Seq(B) /\ Len(v) = Len(w) + Len(d) /\ Len(w) \in Nat /\ Len(d) \in Nat
    <2> HIDE DEF B, w
    <2>1. v \in Seq(B) /\ Len(v) = Len(w) + Len(d)
      BY <1>2, CatType
    <2> QED BY <1>2, <2>1
  <1>6. Copy(w, b)
    BY <1>3
  <1>7. /\ Len(b) >= M => c = b
        /\ Len(b) + Len(d) <= M => c = Cat(b, d)
        /\ Len(b) < M /\ Len(b) + Len(d) > M => c = Then(Cat(b, SubSeq(d, 1, M - Len(b))), Marker)
    <2>1. Len(b) >= M => OnResponseBody(p, d) = p
      BY ResponseBodyFacts
    <2> QED BY <2>1, ResponseBodyFacts
  <1> HIDE DEF M, B, b, c, w
  <1>8. CASE Len(w) > M /\ b \in {cut(w), Then(cut(w), Marker)}
    <2> DEFINE a == SubSeq(w, 1, M)
               e == SubSeq(w, M + 1, Len(w))
    <2>1. a \in Seq(B) /\ Len(a) = M /\ e \in Seq(B) /\ w = Cat(a, e)
      <3>1. M \in 0 .. Len(w)
        BY <1>1, <1>5, <1>8
      <3> QED BY <1>2, <3>1, CatParts
    <2> HIDE DEF a, e
    <2>2. v = Cat(a, Cat(e, d)) /\ Cat(e, d) \in Seq(B)
      BY <1>2, <2>1, CatFacts
    <2>3. cut(v) = a
      <3>1. IsCat(a, Cat(e, d), Cat(a, Cat(e, d)))
        BY <2>1, <2>2, CatIs
      <3> HIDE DEF v
      <3> QED BY <2>1, <2>2, <3>1 DEF IsCat
    <2>4. Len(b) >= M
      <3>1. Len(Then(a, Marker)) = M + 1
        BY <1>2, <2>1, ThenType
      <3>2. b \in {a, Then(a, Marker)}
        BY <1>8 DEF a
      <3> QED BY <1>1, <2>1, <3>1, <3>2
    <2>5. Len(v) > M
      BY <1>1, <1>5, <1>8
    <2>6. c = b
      BY <1>7, <2>4
    <2> HIDE DEF v
    <2> QED BY <1>3, <1>4, <1>8, <2>3, <2>5, <2>6 DEF a, c
  <1>9. CASE b = w /\ Len(w) <= M
    <2>1. CASE Len(w) + Len(d) <= M
      <3>1. c = v
        BY <1>7, <1>9, <2>1
      <3> HIDE DEF v
      <3>2. Copy(v, c)
        BY <1>5, <2>1, <3>1
      <3> QED BY <1>3, <1>4, <3>2 DEF c
    <2>2. CASE Len(w) = M /\ Len(w) + Len(d) > M
      <3>1. cut(v) = w
        <4>1. IsCat(w, d, v)
          BY <1>2, CatIs
        <4> HIDE DEF v
        <4> QED BY <2>2, <4>1 DEF IsCat
      <3>2. c = w
        BY <1>1, <1>7, <1>9, <2>2
      <3> HIDE DEF v
      <3>3. Copy(v, c)
        BY <1>5, <2>2, <3>1, <3>2
      <3> QED BY <1>3, <1>4, <3>3 DEF c
    <2>3. CASE Len(w) < M /\ Len(w) + Len(d) > M
      <3> DEFINE room == M - Len(w)
                 a == SubSeq(d, 1, room)
                 e == SubSeq(d, room + 1, Len(d))
      <3>1. room \in 0 .. Len(d)
        BY <1>1, <1>5, <2>3
      <3>2. a \in Seq(B) /\ Len(a) = room /\ e \in Seq(B) /\ d = Cat(a, e)
        <4> HIDE DEF room
        <4> QED BY <1>2, <3>1, CatParts
      <3>3. c = Then(Cat(w, a), Marker)
        BY <1>7, <1>9, <2>3
      <3> HIDE DEF a, e
      <3>4. v = Cat(Cat(w, a), e) /\ Cat(w, a) \in Seq(B)
        BY <1>2, <3>2, CatFacts
      <3>5. Len(Cat(w, a)) = M
        <4>1. Len(Cat(w, a)) = Len(w) + Len(a)
          BY <1>2, <3>2, CatType
        <4> QED BY <1>1, <1>5, <3>2, <4>1
      <3>6. cut(v) = Cat(w, a)
        <4> DEFINE h == Cat(w, a)
        <4>1. h \in Seq(B) /\ v = Cat(h, e) /\ Len(h) = M
          BY <3>4, <3>5
        <4> HIDE DEF h, v
        <4>2. IsCat(h, e, Cat(h, e))
          BY <3>2, <4>1, CatIs
        <4>3. SubSeq(Cat(h, e), 1, Len(h)) = h
          BY <4>2 DEF IsCat
        <4> QED BY <4>1, <4>3 DEF h
      <3> HIDE DEF v
      <3>7. Copy(v, c)
        BY <1>5, <2>3, <3>3, <3>6
      <3> QED BY <1>3, <1>4, <3>7 DEF c
    <2>4. M \in Nat
      BY <1>1
    <2> QED BY <1>5, <1>9, <2>1, <2>2, <2>3, <2>4
  <1> QED BY <1>6, <1>8, <1>9

\* A callback by the state of llhttp and the kind of the span.
LEMMA CallbackCases ==
    ASSUME NEW side \in Sides, NEW p, NEW e \in Span
    PROVE  /\ p.llhttp = "error" => Callback(side, p, e) = p
           /\ p.llhttp = "start" =>
                 Callback(side, p, e)
                     = [p EXCEPT !.llhttp = IF e.kind = "begin" THEN "inside" ELSE "error"]
           /\ p.llhttp = "inside" =>
                 /\ e.kind = "line" => Callback(side, p, e) = OnLine(p, e.data)
                 /\ e.kind = "field" => Callback(side, p, e) = OnHeaderField(p, e.data)
                 /\ e.kind = "value" => Callback(side, p, e) = OnHeaderValue(p, e.data)
                 /\ e.kind = "body" =>
                       Callback(side, p, e) = IF side = "request" THEN OnRequestBody(p, e.data)
                                              ELSE OnResponseBody(p, e.data)
                 /\ e.kind \in {"begin", "end"} => Callback(side, p, e) = OnMessageComplete(p)
  BY DEF Callback

\* Alike in all but the body.
Same(p, x) ==
    /\ p.llhttp = x.llhttp /\ p.line = x.line /\ p.headers = x.headers
    /\ p.field = x.field /\ p.value = x.value
    /\ p.lastWasField = x.lastWasField /\ p.complete = x.complete

LEMMA SameChanges ==
    ASSUME NEW p \in ParserRecord, NEW x \in ParserRecord, Same(p, x)
    PROVE  /\ \A v : Same([p EXCEPT !.llhttp = v], [x EXCEPT !.llhttp = v])
           /\ \A v : Same([p EXCEPT !.line = v], [x EXCEPT !.line = v])
           /\ \A v : Same([p EXCEPT !.field = v, !.lastWasField = TRUE],
                          [x EXCEPT !.field = v, !.lastWasField = TRUE])
           /\ \A v : Same([p EXCEPT !.value = v, !.lastWasField = FALSE],
                          [x EXCEPT !.value = v, !.lastWasField = FALSE])
           /\ \A v, w : Same([p EXCEPT !.body = v], [x EXCEPT !.body = w])
           /\ Same([p EXCEPT !.complete = TRUE, !.llhttp = "start"],
                   [x EXCEPT !.complete = TRUE, !.llhttp = "start"])
           /\ \A v : Same([p EXCEPT !.headers = v, !.field = <<>>, !.value = <<>>],
                          [x EXCEPT !.headers = v, !.field = <<>>, !.value = <<>>])
  BY DEF Same, ParserRecord

LEMMA SameCommit ==
    ASSUME NEW p \in ParserRecord, NEW x \in ParserRecord, Same(p, x)
    PROVE  Same(CommitHeader(p), CommitHeader(x))
  <1> DEFINE h == Append(p.headers, <<p.field, p.value>>)
  <1>1. h = Append(x.headers, <<x.field, x.value>>) /\ p.field = x.field
    BY DEF Same
  <1>2. CASE p.field = <<>>
    BY <1>1, <1>2 DEF CommitHeader
  <1>3. CASE p.field # <<>>
    <2>1. /\ CommitHeader(p) = [p EXCEPT !.headers = h, !.field = <<>>, !.value = <<>>]
          /\ CommitHeader(x) = [x EXCEPT !.headers = h, !.field = <<>>, !.value = <<>>]
      <3>1. CommitHeader(p) = [p EXCEPT !.headers = h, !.field = <<>>, !.value = <<>>]
        BY <1>3 DEF CommitHeader
      <3>2. CommitHeader(x) = [x EXCEPT !.headers = Append(x.headers, <<x.field, x.value>>),
                                        !.field = <<>>, !.value = <<>>]
        BY <1>1, <1>3 DEF CommitHeader
      <3> HIDE DEF h
      <3> QED BY <1>1, <3>1, <3>2
    <2> HIDE DEF h
    <2>2. Same([p EXCEPT !.headers = h, !.field = <<>>, !.value = <<>>],
               [x EXCEPT !.headers = h, !.field = <<>>, !.value = <<>>])
      BY SameChanges
    <2> QED BY <2>1, <2>2, Zenon
  <1> QED BY <1>2, <1>3

\* A parser that is fed a span stays like the reference that is fed the same.
LEMMA Simulates ==
    ASSUME NEW side \in Sides, NEW p \in ParserRecord, NEW x \in ParserRecord,
           Like(side, p, x), NEW e \in Span
    PROVE  Like(side, Callback(side, p, e), Callback("request", x, e))
  <1> DEFINE d == e.data
             P == Callback(side, p, e)
             X == Callback("request", x, e)
  <1> SUFFICES Like(side, P, X)
    OBVIOUS
  <1>1. Same(p, x) /\ Kept(side, x, p.body) /\ p.llhttp = x.llhttp
    BY DEF Like, Same
  <1>2. \A q, y : Like(side, q, y) <=> Same(q, y) /\ Kept(side, y, q.body)
    BY DEF Like, Same
  <1>3. \A y : y.body = x.body => \A b : b = p.body => Kept(side, y, b)
    BY <1>1 DEF Kept
  <1>4. ASSUME Same(P, X), P.body = p.body, X.body = x.body PROVE Like(side, P, X)
    BY <1>2, <1>3, <1>4, Zenon
  <1>5. /\ d \in Seq(Byte) /\ p.llhttp \in {"start", "inside", "error"}
        /\ e.kind \in {"begin", "line", "field", "value", "body", "end"}
        /\ side \in {"request", "response"} /\ "request" \in Sides
    BY DEF Span, ParserRecord, Sides
  <1> DEFINE Cases(s, q, Q) ==
                 /\ q.llhttp = "error" => Q = q
                 /\ q.llhttp = "start" =>
                       Q = [q EXCEPT !.llhttp = IF e.kind = "begin" THEN "inside" ELSE "error"]
                 /\ q.llhttp = "inside" =>
                       /\ e.kind = "line" => Q = OnLine(q, d)
                       /\ e.kind = "field" => Q = OnHeaderField(q, d)
                       /\ e.kind = "value" => Q = OnHeaderValue(q, d)
                       /\ e.kind = "body" => Q = IF s = "request" THEN OnRequestBody(q, d)
                                                ELSE OnResponseBody(q, d)
                       /\ e.kind \in {"begin", "end"} => Q = OnMessageComplete(q)
  <1>a. \A s \in Sides : \A q : Cases(s, q, Callback(s, q, e))
    BY CallbackCases
  <1> HIDE DEF d
  <1>b. Cases(side, p, P) /\ Cases("request", x, X)
    <2> HIDE DEF Cases
    <2> QED BY <1>5, <1>a
  <1> HIDE DEF P, X
  <1>6. CASE p.llhttp = "error"
    <2>1. P = p /\ X = x
      BY <1>1, <1>6, <1>b
    <2> QED BY <2>1
  <1>7. CASE p.llhttp = "start"
    <2> DEFINE v == IF e.kind = "begin" THEN "inside" ELSE "error"
    <2>1. P = [p EXCEPT !.llhttp = v] /\ X = [x EXCEPT !.llhttp = v]
      BY <1>1, <1>7, <1>b
    <2> HIDE DEF v
    <2>2. P.body = p.body /\ X.body = x.body
      BY <2>1 DEF ParserRecord
    <2>3. Same(P, X)
      BY <1>1, <2>1, SameChanges
    <2> QED BY <1>4, <2>2, <2>3
  <1>8. CASE p.llhttp = "inside"
    <2>1. CASE e.kind = "line"
      <3> DEFINE v == p.line \o d
      <3>1. P = [p EXCEPT !.line = v] /\ X = [x EXCEPT !.line = v]
        <4>1. P = OnLine(p, d) /\ X = OnLine(x, d)
          BY <1>1, <1>8, <2>1, <1>b
        <4>2. x.line = p.line
          BY <1>1 DEF Same
        <4> QED BY <4>1, <4>2 DEF OnLine
      <3> HIDE DEF v
      <3>2. P.body = p.body /\ X.body = x.body
        BY <3>1 DEF ParserRecord
      <3>3. Same(P, X)
        BY <1>1, <3>1, SameChanges
      <3> QED BY <1>4, <3>2, <3>3
    <2>2. CASE e.kind = "field"
      <3> DEFINE q == IF p.lastWasField THEN p ELSE CommitHeader(p)
                 y == IF x.lastWasField THEN x ELSE CommitHeader(x)
                 v == q.field \o d
      <3>1. P = OnHeaderField(p, d) /\ X = OnHeaderField(x, d)
        BY <1>1, <1>8, <2>2, <1>b
      <3>2. P = [q EXCEPT !.field = v, !.lastWasField = TRUE]
        BY <3>1 DEF OnHeaderField
      <3>3. X = [y EXCEPT !.field = y.field \o d, !.lastWasField = TRUE]
        BY <3>1 DEF OnHeaderField
      <3>4. q \in ParserRecord /\ y \in ParserRecord /\ q.body = p.body /\ y.body = x.body
        BY CommitFacts
      <3>5. Same(q, y)
        <4>1. p.lastWasField = x.lastWasField
          BY <1>1 DEF Same
        <4> QED BY <1>1, <4>1, SameCommit
      <3> HIDE DEF q, y
      <3>6. X = [y EXCEPT !.field = v, !.lastWasField = TRUE]
        BY <3>3, <3>5 DEF Same
      <3> HIDE DEF v
      <3>7. P.body = p.body /\ X.body = x.body
        BY <3>2, <3>4, <3>6 DEF ParserRecord
      <3>8. Same(P, X)
        BY <3>2, <3>4, <3>5, <3>6, SameChanges
      <3> QED BY <1>4, <3>7, <3>8
    <2>3. CASE e.kind = "value"
      <3> DEFINE v == p.value \o d
      <3>1. P = [p EXCEPT !.value = v, !.lastWasField = FALSE]
            /\ X = [x EXCEPT !.value = v, !.lastWasField = FALSE]
        <4>1. P = OnHeaderValue(p, d) /\ X = OnHeaderValue(x, d)
          BY <1>1, <1>8, <2>3, <1>b
        <4>2. x.value = p.value
          BY <1>1 DEF Same
        <4> QED BY <4>1, <4>2 DEF OnHeaderValue
      <3> HIDE DEF v
      <3>2. P.body = p.body /\ X.body = x.body
        BY <3>1 DEF ParserRecord
      <3>3. Same(P, X)
        BY <1>1, <3>1, SameChanges
      <3> QED BY <1>4, <3>2, <3>3
    <2>4. CASE e.kind = "body"
      <3>1. X = OnRequestBody(x, d)
        BY <1>1, <1>8, <2>4, <1>b
      <3>2. X = [x EXCEPT !.body = x.body \o d]
        BY <3>1 DEF OnRequestBody
      <3>3. CASE side = "request"
        <4>1. P = OnRequestBody(p, d)
          BY <1>8, <2>4, <3>3, <1>b
        <4>2. P = [p EXCEPT !.body = p.body \o d]
          BY <4>1 DEF OnRequestBody
        <4>3. p.body = x.body
          BY <1>1, <3>3 DEF Kept
        <4> DEFINE v == p.body \o d
        <4>4. P = [p EXCEPT !.body = v] /\ X = [x EXCEPT !.body = v]
          BY <3>2, <4>2, <4>3
        <4> HIDE DEF v
        <4>5. P.body = X.body
          BY <4>4 DEF ParserRecord
        <4>6. Kept(side, X, P.body)
          BY <3>3, <4>5 DEF Kept
        <4>7. Same(P, X)
          BY <1>1, <4>4, SameChanges
        <4> QED BY <1>2, <4>6, <4>7
      <3>4. CASE side = "response"
        <4>1. P = OnResponseBody(p, d)
          <5>1. side # "request"
            BY <3>4
          <5> QED BY <1>8, <2>4, <5>1, <1>b
        <4>2. P = [p EXCEPT !.body = OnResponseBody(p, d).body]
          BY <1>5, <4>1, ResponseBodyFacts
        <4>3. Kept(side, X, P.body)
          BY <1>1, <1>5, <3>1, <3>4, <4>1, KeptGrows
        <4>4. Same(P, X)
          BY <1>1, <3>2, <4>2, SameChanges
        <4> QED BY <1>2, <4>3, <4>4
      <3> QED BY <1>5, <3>3, <3>4
    <2>5. CASE e.kind \in {"begin", "end"}
      <3> DEFINE q == CommitHeader(p)
                 y == CommitHeader(x)
      <3>1. P = OnMessageComplete(p) /\ X = OnMessageComplete(x)
        BY <1>1, <1>8, <2>5, <1>b
      <3>2. /\ P = [q EXCEPT !.complete = TRUE, !.llhttp = "start"]
            /\ X = [y EXCEPT !.complete = TRUE, !.llhttp = "start"]
        BY <3>1 DEF OnMessageComplete
      <3>3. q \in ParserRecord /\ y \in ParserRecord /\ q.body = p.body /\ y.body = x.body
        BY CommitFacts
      <3>4. Same(q, y)
        BY <1>1, SameCommit
      <3> HIDE DEF q, y
      <3>5. P.body = p.body /\ X.body = x.body
        BY <3>2, <3>3 DEF ParserRecord
      <3>6. Same(P, X)
        BY <3>2, <3>3, <3>4, SameChanges
      <3> QED BY <1>4, <3>5, <3>6
    <2> QED BY <1>5, <2>1, <2>2, <2>3, <2>4, <2>5
  <1> QED BY <1>5, <1>6, <1>7, <1>8

InnerKinds == {"line", "field", "value", "body"}

\* A change that is made again.
LEMMA ChangedAgain ==
    ASSUME NEW p \in ParserRecord
    PROVE  /\ \A v, w : /\ [[p EXCEPT !.line = v] EXCEPT !.line = w] = [p EXCEPT !.line = w]
                        /\ [[p EXCEPT !.body = v] EXCEPT !.body = w] = [p EXCEPT !.body = w]
                        /\ [[p EXCEPT !.llhttp = v] EXCEPT !.llhttp = w] = [p EXCEPT !.llhttp = w]
                        /\ [[p EXCEPT !.field = v, !.lastWasField = TRUE]
                              EXCEPT !.field = w, !.lastWasField = TRUE]
                             = [p EXCEPT !.field = w, !.lastWasField = TRUE]
                        /\ [[p EXCEPT !.value = v, !.lastWasField = FALSE]
                              EXCEPT !.value = w, !.lastWasField = FALSE]
                             = [p EXCEPT !.value = w, !.lastWasField = FALSE]
           /\ \A v : /\ [p EXCEPT !.line = v].line = v /\ [p EXCEPT !.line = v].llhttp = p.llhttp
                     /\ [p EXCEPT !.body = v].body = v /\ [p EXCEPT !.body = v].llhttp = p.llhttp
                     /\ [p EXCEPT !.llhttp = v].llhttp = v
                     /\ [p EXCEPT !.field = v, !.lastWasField = TRUE].field = v
                     /\ [p EXCEPT !.field = v, !.lastWasField = TRUE].lastWasField = TRUE
                     /\ [p EXCEPT !.field = v, !.lastWasField = TRUE].llhttp = p.llhttp
                     /\ [p EXCEPT !.value = v, !.lastWasField = FALSE].value = v
                     /\ [p EXCEPT !.value = v, !.lastWasField = FALSE].llhttp = p.llhttp
  BY DEF ParserRecord

LEMMA RequestCases ==
    ASSUME NEW x, NEW e \in Span
    PROVE  LET X == Callback("request", x, e)
           IN  /\ x.llhttp = "error" => X = x
               /\ x.llhttp = "start" =>
                     X = [x EXCEPT !.llhttp = IF e.kind = "begin" THEN "inside" ELSE "error"]
               /\ x.llhttp = "inside" =>
                     /\ e.kind = "line" => X = OnLine(x, e.data)
                     /\ e.kind = "field" => X = OnHeaderField(x, e.data)
                     /\ e.kind = "value" => X = OnHeaderValue(x, e.data)
                     /\ e.kind = "body" => X = OnRequestBody(x, e.data)
                     /\ e.kind \in {"begin", "end"} => X = OnMessageComplete(x)
  <1>1. "request" \in Sides
    BY DEF Sides
  <1> QED BY <1>1, CallbackCases

\* A span is worth its pieces.
LEMMA PiecesJoin ==
    ASSUME NEW x \in ParserRecord, NEW z \in Span, NEW e \in Span,
           z.kind = e.kind, e.kind \in InnerKinds
    PROVE  Callback("request", Callback("request", x, z), e)
               = Callback("request", x, Piece(e.kind, z.data \o e.data))
  <1> DEFINE c == z.data
             d == e.data
             u == Piece(e.kind, c \o d)
             X == Callback("request", x, z)
             Y == Callback("request", X, e)
             U == Callback("request", x, u)
  <1> SUFFICES Y = U
    OBVIOUS
  <1>1. c \in Seq(Byte) /\ d \in Seq(Byte) /\ c \o d \in Seq(Byte)
    BY DEF Span
  <1>a. ASSUME NEW B, NEW a \in Seq(B), c \in Seq(B), d \in Seq(B)
        PROVE  (a \o c) \o d = a \o (c \o d)
    <2> HIDE DEF c, d
    <2> QED BY <1>a, ConcatAssociative
  <1>2. u \in Span /\ u.kind = e.kind /\ u.data = c \o d
    BY <1>1 DEF Span, Piece
  <1> HIDE DEF u
  <1> DEFINE Cases(q, s, Q) ==
                 /\ q.llhttp = "error" => Q = q
                 /\ q.llhttp = "start" =>
                       Q = [q EXCEPT !.llhttp = IF s.kind = "begin" THEN "inside" ELSE "error"]
                 /\ q.llhttp = "inside" =>
                       /\ s.kind = "line" => Q = OnLine(q, s.data)
                       /\ s.kind = "field" => Q = OnHeaderField(q, s.data)
                       /\ s.kind = "value" => Q = OnHeaderValue(q, s.data)
                       /\ s.kind = "body" => Q = OnRequestBody(q, s.data)
                       /\ s.kind \in {"begin", "end"} => Q = OnMessageComplete(q)
  <1>3. \A q : \A s \in Span : Cases(q, s, Callback("request", q, s))
    BY RequestCases
  <1>4. Cases(x, z, X) /\ Cases(X, e, Y) /\ Cases(x, u, U)
    <2> HIDE DEF Cases
    <2> QED BY <1>2, <1>3
  <1> HIDE DEF X, Y, U
  <1>5. x.llhttp \in {"start", "inside", "error"}
    BY DEF ParserRecord
  <1>6. CASE x.llhttp = "error"
    BY <1>4, <1>6
  <1>7. CASE x.llhttp = "start"
    <2>1. X = [x EXCEPT !.llhttp = "error"] /\ U = [x EXCEPT !.llhttp = "error"]
      BY <1>2, <1>4, <1>7 DEF InnerKinds
    <2>2. X.llhttp = "error"
      BY <2>1 DEF ParserRecord
    <2> QED BY <1>4, <2>1, <2>2
  <1>8. CASE x.llhttp = "inside"
    <2>1. CASE e.kind = "line"
      <3> DEFINE v == x.line \o c
                 w == x.line \o (c \o d)
      <3>1. X = [x EXCEPT !.line = v] /\ U = [x EXCEPT !.line = w]
        BY <1>2, <1>4, <1>8, <2>1 DEF OnLine
      <3>2. X.llhttp = "inside" /\ X.line = v
        BY <1>8, <3>1, ChangedAgain
      <3>3. Y = [X EXCEPT !.line = X.line \o d]
        BY <1>4, <2>1, <3>2 DEF OnLine
      <3>4. v \o d = w
        <4>1. x.line \in Seq(Byte)
          BY DEF ParserRecord
        <4> QED BY <1>1, <1>a, <4>1, Zenon
      <3> HIDE DEF v, w
      <3>5. Y = [X EXCEPT !.line = w]
        BY <3>2, <3>3, <3>4
      <3> QED BY <3>1, <3>5, ChangedAgain
    <2>2. CASE e.kind = "field"
      <3> DEFINE q == IF x.lastWasField THEN x ELSE CommitHeader(x)
                 v == q.field \o c
                 w == q.field \o (c \o d)
      <3>1. q \in ParserRecord /\ q.llhttp = "inside"
        <4>1. CommitHeader(x).llhttp = x.llhttp
          BY DEF CommitHeader, ParserRecord
        <4> QED BY <1>8, <4>1, CommitFacts
      <3>2. /\ X = [q EXCEPT !.field = v, !.lastWasField = TRUE]
            /\ U = [q EXCEPT !.field = w, !.lastWasField = TRUE]
        BY <1>2, <1>4, <1>8, <2>2 DEF OnHeaderField
      <3> HIDE DEF q
      <3>3. X.llhttp = "inside" /\ X.field = v /\ X.lastWasField = TRUE
        BY <3>1, <3>2, ChangedAgain
      <3>4. Y = [X EXCEPT !.field = X.field \o d, !.lastWasField = TRUE]
        BY <1>4, <2>2, <3>3 DEF OnHeaderField
      <3>5. v \o d = w
        <4>1. q.field \in Seq(Byte)
          BY <3>1 DEF ParserRecord
        <4> QED BY <1>1, <1>a, <4>1, Zenon
      <3> HIDE DEF v, w
      <3>6. Y = [X EXCEPT !.field = w, !.lastWasField = TRUE]
        BY <3>3, <3>4, <3>5
      <3> QED BY <3>1, <3>2, <3>6, ChangedAgain
    <2>3. CASE e.kind = "value"
      <3> DEFINE v == x.value \o c
                 w == x.value \o (c \o d)
      <3>1. /\ X = [x EXCEPT !.value = v, !.lastWasField = FALSE]
            /\ U = [x EXCEPT !.value = w, !.lastWasField = FALSE]
        BY <1>2, <1>4, <1>8, <2>3 DEF OnHeaderValue
      <3>2. X.llhttp = "inside" /\ X.value = v
        BY <1>8, <3>1, ChangedAgain
      <3>3. Y = [X EXCEPT !.value = X.value \o d, !.lastWasField = FALSE]
        BY <1>4, <2>3, <3>2 DEF OnHeaderValue
      <3>4. v \o d = w
        <4>1. x.value \in Seq(Byte)
          BY DEF ParserRecord
        <4> QED BY <1>1, <1>a, <4>1, Zenon
      <3> HIDE DEF v, w
      <3>5. Y = [X EXCEPT !.value = w, !.lastWasField = FALSE]
        BY <3>2, <3>3, <3>4
      <3> QED BY <3>1, <3>5, ChangedAgain
    <2>4. CASE e.kind = "body"
      <3> DEFINE v == x.body \o c
                 w == x.body \o (c \o d)
      <3>1. X = [x EXCEPT !.body = v] /\ U = [x EXCEPT !.body = w]
        BY <1>2, <1>4, <1>8, <2>4 DEF OnRequestBody
      <3>2. X.llhttp = "inside" /\ X.body = v
        BY <1>8, <3>1, ChangedAgain
      <3>3. Y = [X EXCEPT !.body = X.body \o d]
        BY <1>4, <2>4, <3>2 DEF OnRequestBody
      <3>4. v \o d = w
        <4> DEFINE B == Byte \cup {Marker}
        <4>1. x.body \in Seq(B) /\ c \in Seq(B) /\ d \in Seq(B)
          BY <1>1 DEF ParserRecord
        <4> HIDE DEF B
        <4> QED BY <1>a, <4>1, Zenon
      <3> HIDE DEF v, w
      <3>5. Y = [X EXCEPT !.body = w]
        BY <3>2, <3>3, <3>4
      <3> QED BY <3>1, <3>5, ChangedAgain
    <2> QED BY <2>1, <2>2, <2>3, <2>4 DEF InnerKinds
  <1> QED BY <1>5, <1>6, <1>7, <1>8

LEMMA ReferenceFacts ==
    /\ Reference(<<>>) = Fresh
    /\ \A u \in Seq(Span) : Reference(u) \in ParserRecord
    /\ \A u \in Seq(Span), e \in Span :
          Reference(Then(u, e)) = Callback("request", Reference(u), e)
  <1>1. "request" \in Sides /\ Fresh \in Holds("request")
    BY FreshHolds DEF Sides
  <1>2. \A p \in Holds("request") : p \in ParserRecord
    BY DEF Holds
  <1> QED BY <1>1, <1>2, ExecuteFacts DEF Reference

\* Neighbours of a kind are pieces of one line, name, value or body.
Calm(r) == \A j \in 1 .. Len(r) - 1 : r[j].kind = r[j + 1].kind => r[j].kind \in InnerKinds

\* However the stream is cut, a parser that is fed reads stays like the
\* reference.
LEMMA FeedLike ==
    ASSUME NEW side \in Sides, NEW p \in Holds(side), NEW u \in Seq(Span),
           Like(side, p, Reference(u)), NEW r \in Seq(Span), Calm(r)
    PROVE  Like(side, Execute(side, p, Spans(r)), Reference(Cat(u, r)))
  <1> DEFINE Runs(front) == Execute(side, p, front)
             Pending(s, front, z, x) ==
                 /\ Spans(s) = Then(front, z) /\ z.kind = s[Len(s)].kind
                 /\ Like(side, Runs(front), x)
                 /\ Callback("request", x, z) = Reference(Cat(u, s))
             P == {s \in Seq(Span) : Calm(s) /\ s # <<>> =>
                      \E front \in Seq(Span), z \in Span, x \in ParserRecord :
                          Pending(s, front, z, x)}
  <1>1. \A q \in Holds(side) : q \in ParserRecord
    BY DEF Holds
  <1>2. /\ Runs(<<>>) = p
        /\ \A f \in Seq(Span) : Runs(f) \in ParserRecord
        /\ \A f \in Seq(Span), e \in Span : Runs(Then(f, e)) = Callback(side, Runs(f), e)
    BY <1>1, ExecuteFacts
  <1>3. \A f \in Seq(Span), z \in Span, x \in ParserRecord :
           Like(side, Runs(f), x) => Like(side, Runs(Then(f, z)), Callback("request", x, z))
    <2> SUFFICES ASSUME NEW f \in Seq(Span), NEW z \in Span, NEW x \in ParserRecord,
                        Like(side, Runs(f), x)
                 PROVE  Like(side, Runs(Then(f, z)), Callback("request", x, z))
      OBVIOUS
    <2> HIDE DEF Runs
    <2>1. Runs(f) \in ParserRecord /\ Runs(Then(f, z)) = Callback(side, Runs(f), z)
      BY <1>2
    <2> QED BY <2>1, Simulates
  <1> HIDE DEF Runs
  <1>4. <<>> \in P
    OBVIOUS
  <1>5. ASSUME NEW s \in Seq(Span), NEW e \in Span, s \in P PROVE Then(s, e) \in P
    <2> DEFINE t == Then(s, e)
    <2>1. /\ t \in Seq(Span) /\ Len(t) = Len(s) + 1 /\ t[Len(t)] = e /\ Len(s) \in Nat
          /\ \A i \in 1 .. Len(s) : t[i] = s[i]
      <3>1. t \in Seq(Span) /\ Len(t) = Len(s) + 1
        BY ThenType
      <3>2. t[Len(s) + 1] = e /\ \A i \in 1 .. Len(s) : t[i] = s[i]
        BY ThenType
      <3> HIDE DEF t
      <3> QED BY <3>1, <3>2
    <2>2. /\ Cat(u, t) = Then(Cat(u, s), e) /\ Cat(u, s) \in Seq(Span)
          /\ Reference(Cat(u, t)) = Callback("request", Reference(Cat(u, s)), e)
      <3>1. Cat(u, t) = Then(Cat(u, s), e) /\ Cat(u, s) \in Seq(Span)
        BY ThenFacts, CatFacts
      <3> HIDE DEF t
      <3> QED BY <3>1, ReferenceFacts
    <2>3. Spans(t) = Grown(Spans(s), e)
      BY SpansFacts
    <2> HIDE DEF t
    <2> SUFFICES ASSUME Calm(t)
                 PROVE  \E front \in Seq(Span), z \in Span, x \in ParserRecord :
                            Pending(t, front, z, x)
      BY <2>1 DEF t
    <2>4. CASE s = <<>>
      <3>1. Spans(s) = <<>> /\ Cat(u, s) = u
        BY <2>4, SpansFacts, CatFacts
      <3>2. Spans(t) = Then(<<>>, e)
        BY <2>3, <3>1, GrownFacts, ThenFacts
      <3>3. Reference(u) \in ParserRecord /\ <<>> \in Seq(Span)
        BY ReferenceFacts
      <3>4. Pending(t, <<>>, e, Reference(u))
        BY <1>2, <2>1, <2>2, <3>1, <3>2
      <3> QED BY <3>3, <3>4
    <2>5. CASE s # <<>>
      <3>1. Calm(s)
        <4> SUFFICES ASSUME NEW j \in 1 .. Len(s) - 1, s[j].kind = s[j + 1].kind
                     PROVE  s[j].kind \in InnerKinds
          BY DEF Calm
        <4>1. j \in 1 .. Len(t) - 1 /\ t[j] = s[j] /\ t[j + 1] = s[j + 1]
          BY <2>1
        <4> QED BY <4>1 DEF Calm
      <3>2. PICK front \in Seq(Span), z \in Span, x \in ParserRecord : Pending(s, front, z, x)
        BY <1>5, <2>5, <3>1
      <3>3. CASE z.kind = e.kind
        <4> DEFINE y == Piece(e.kind, z.data \o e.data)
        <4>1. e.kind \in InnerKinds
          <5>1. Len(s) \in 1 .. Len(t) - 1 /\ Len(s) + 1 = Len(t)
            BY <2>1, <2>5
          <5>2. t[Len(s)] = s[Len(s)] /\ t[Len(s) + 1] = e
            BY <2>1, <5>1
          <5>3. t[Len(s)].kind = t[Len(s) + 1].kind
            BY <3>2, <3>3, <5>2
          <5> QED BY <3>2, <3>3, <5>1, <5>2, <5>3 DEF Calm
        <4>2. Spans(t) = Then(front, y) /\ y \in Span
          BY <2>3, <3>2, <3>3, GrownFacts
        <4>3. y.kind = e.kind
          BY DEF Piece
        <4>4. Callback("request", x, y) = Callback("request", Callback("request", x, z), e)
          BY <3>3, <4>1, PiecesJoin
        <4> HIDE DEF y
        <4>5. Pending(t, front, y, x)
          BY <2>1, <2>2, <3>2, <4>2, <4>3, <4>4
        <4> QED BY <4>2, <4>5
      <3>4. CASE z.kind # e.kind
        <4> DEFINE f == Then(front, z)
                   y == Reference(Cat(u, s))
        <4>1. Spans(t) = Then(f, e)
          BY <2>3, <3>2, <3>4, GrownFacts
        <4>2. f \in Seq(Span) /\ y \in ParserRecord
          BY <2>2, ReferenceFacts, ThenType
        <4>3. Like(side, Runs(f), y)
          BY <1>3, <3>2
        <4> HIDE DEF f, y
        <4>4. Callback("request", y, e) = Reference(Cat(u, t))
          BY <2>2 DEF y
        <4>5. Pending(t, f, e, y)
          BY <2>1, <4>1, <4>3, <4>4
        <4> QED BY <4>2, <4>5
      <3> QED BY <3>3, <3>4
    <2> QED BY <2>4, <2>5
  <1> HIDE DEF P
  <1>6. r \in P
    BY <1>4, <1>5, SeqInduction
  <1> USE DEF P
  <1>7. CASE r = <<>>
    <2>1. Spans(r) = <<>> /\ Cat(u, r) = u
      BY <1>7, SpansFacts, CatFacts
    <2> QED BY <1>2, <2>1 DEF Runs
  <1>8. CASE r # <<>>
    <2>1. PICK front \in Seq(Span), z \in Span, x \in ParserRecord : Pending(r, front, z, x)
      BY <1>6, <1>8
    <2>2. Like(side, Runs(Then(front, z)), Callback("request", x, z))
      BY <1>3, <2>1
    <2>3. Like(side, Runs(Spans(r)), Reference(Cat(u, r)))
      BY <2>1, <2>2
    <2> QED BY <2>3 DEF Runs
  <1> QED BY <1>7, <1>8
-----------------------------------------------------------------------------
(* Sequences of sequences in a row.                                        *)

Flattened(ss, f) ==
    f = [i \in 1 .. Len(ss) |-> IF i = 1 THEN ss[i] ELSE f[i - 1] \o ss[i]]

FlattensBy(ss, f) ==
    /\ FlattenSeq(ss) = f[Len(ss)]
    /\ f[0] = <<>>
    /\ \A i \in 1 .. Len(ss) : f[i] = Cat(f[i - 1], ss[i])

LEMMA FlattenIs ==
    ASSUME NEW B, NEW ss \in Seq(Seq(B))
    PROVE  \E g \in [0 .. Len(ss) -> Seq(B)] : FlattensBy(ss, g)
  <1> DEFINE n == Len(ss)
             T == Seq(B)
             step == [p \in (1 .. n) \X T |-> Cat(p[2], ss[p[1]])]
             f == CHOOSE h : Flattened(ss, h)
  <1>1. n \in Nat /\ <<>> \in T /\ \A i \in 1 .. n : ss[i] \in T
    OBVIOUS
  <1>2. \A s, t \in T : Cat(s, t) \in T
    BY CatFacts
  <1>3. FlattenSeq(ss) = IF n = 0 THEN ss ELSE f[n]
    BY DEF FlattenSeq, Flattened
  <1>4. n = 0 => ss = <<>>
    OBVIOUS
  <1> HIDE DEF n, T, f
  <1>5. step \in [(1 .. n) \X T -> T]
    BY <1>1, <1>2
  <1>6. \A i \in 1 .. n, x \in T : step[<<i, x>>] = Cat(x, ss[i])
    OBVIOUS
  <1> HIDE DEF step
  <1>7. PICK g \in [0 .. n -> T] : Recursion(g, n, <<>>, step)
    BY <1>1, <1>5, RecursionExists
  <1>8. /\ g[0] = <<>>
        /\ \A i \in 1 .. n : g[i - 1] \in T /\ g[i] = Cat(g[i - 1], ss[i])
    <2>1. \A i \in 1 .. n : g[i - 1] \in T /\ g[i] = step[<<i, g[i - 1]>>]
      BY <1>1, <1>7 DEF Recursion
    <2> QED BY <1>6, <1>7, <2>1 DEF Recursion
  <1>9. \E h : Flattened(ss, h)
    <2> DEFINE h == [i \in 1 .. n |-> g[i]]
    <2>1. ASSUME NEW i \in 1 .. n
          PROVE  h[i] = IF i = 1 THEN ss[i] ELSE h[i - 1] \o ss[i]
      <3>1. CASE i = 1
        <4>1. g[1] = Cat(<<>>, ss[1])
          BY <1>8, <3>1
        <4> QED BY <1>1, <3>1, <4>1, CatFacts DEF T
      <3>2. CASE i # 1
        <4>1. i - 1 \in 1 .. n
          BY <1>1, <3>2
        <4> QED BY <1>8, <3>2, <4>1 DEF Cat
      <3> QED BY <3>1, <3>2
    <2>2. h = [i \in 1 .. n |-> h[i]]
      OBVIOUS
    <2> HIDE DEF h
    <2>3. h = [i \in 1 .. n |-> IF i = 1 THEN ss[i] ELSE h[i - 1] \o ss[i]]
      BY <2>1, <2>2
    <2> QED BY <2>3 DEF Flattened, n
  <1>10. f = [i \in 1 .. n |-> IF i = 1 THEN ss[i] ELSE f[i - 1] \o ss[i]]
    BY <1>9 DEF f, Flattened, n
  <1>11. ASSUME NEW i \in 1 .. n PROVE f[i] = g[i]
    <2> DEFINE e == [j \in 0 .. n |-> IF j = 0 THEN <<>> ELSE f[j]]
    <2>1. e[0] = g[0]
      BY <1>1, <1>8
    <2>2. ASSUME NEW j \in 1 .. n, e[j - 1] = g[j - 1] PROVE e[j] = g[j]
      <3>1. e[j] = f[j] /\ g[j] = Cat(g[j - 1], ss[j])
        BY <1>8
      <3>2. CASE j = 1
        <4>1. f[1] = ss[1] /\ g[1] = Cat(<<>>, ss[1])
          BY <1>8, <1>10, <3>2
        <4> QED BY <1>1, <3>1, <3>2, <4>1, CatFacts DEF T
      <3>3. CASE j # 1
        <4>1. j - 1 \in 1 .. n /\ j - 1 # 0
          BY <1>1, <3>3
        <4>2. e[j - 1] = f[j - 1]
          BY <4>1
        <4>3. f[j] = Cat(f[j - 1], ss[j])
          BY <1>10, <3>3 DEF Cat
        <4> QED BY <2>2, <3>1, <4>2, <4>3
      <3> QED BY <3>2, <3>3
    <2>3. \A j \in 1 .. n : e[j] = f[j]
      BY <1>1
    <2> HIDE DEF e
    <2>4. StepAlike(e, g, n)
      BY <2>1, <2>2 DEF StepAlike
    <2>5. e[i] = g[i]
      BY <1>1, <2>4, RecursionUnique
    <2> QED BY <2>3, <2>5
  <1>12. FlattenSeq(ss) = g[n]
    <2>1. CASE n = 0
      BY <1>3, <1>4, <1>8, <2>1
    <2>2. CASE n # 0
      <3>1. n \in 1 .. n
        BY <1>1, <2>2
      <3> QED BY <1>3, <1>11, <2>2, <3>1
    <2> QED BY <2>1, <2>2
  <1> QED BY <1>7, <1>8, <1>12 DEF FlattensBy, n, T

LEMMA FlattenFacts ==
    ASSUME NEW B
    PROVE  /\ FlattenSeq(<<>>) = <<>>
           /\ \A ss \in Seq(Seq(B)) : FlattenSeq(ss) \in Seq(B)
           /\ \A ss \in Seq(Seq(B)), s \in Seq(B) :
                 FlattenSeq(Then(ss, s)) = Cat(FlattenSeq(ss), s)
  <1>1. FlattenSeq(<<>>) = <<>>
    BY DEF FlattenSeq
  <1>2. ASSUME NEW ss \in Seq(Seq(B)) PROVE FlattenSeq(ss) \in Seq(B)
    <2>1. PICK f \in [0 .. Len(ss) -> Seq(B)] : FlattensBy(ss, f)
      BY FlattenIs
    <2>2. Len(ss) \in 0 .. Len(ss)
      OBVIOUS
    <2> QED BY <2>1, <2>2 DEF FlattensBy
  <1>3. ASSUME NEW ss \in Seq(Seq(B)), NEW s \in Seq(B)
        PROVE  FlattenSeq(Then(ss, s)) = Cat(FlattenSeq(ss), s)
    <2> DEFINE n == Len(ss)
               ts == Then(ss, s)
    <2>1. /\ ts \in Seq(Seq(B)) /\ Len(ts) = n + 1 /\ n \in Nat
          /\ ts[n + 1] = s /\ \A i \in 1 .. n : ts[i] = ss[i]
      <3>1. n \in Nat
        OBVIOUS
      <3> QED BY <3>1, ThenType
    <2>2. PICK f \in [0 .. Len(ss) -> Seq(B)] : FlattensBy(ss, f)
      BY FlattenIs
    <2> HIDE DEF ts
    <2>3. PICK g \in [0 .. Len(ts) -> Seq(B)] : FlattensBy(ts, g)
      BY <2>1, FlattenIs
    <2>4. FlattenSeq(ss) = f[n] /\ f[0] = <<>> /\ \A i \in 1 .. n : f[i] = Cat(f[i - 1], ss[i])
      BY <2>2 DEF FlattensBy
    <2>5. /\ FlattenSeq(ts) = g[n + 1] /\ g[0] = <<>>
          /\ \A i \in 1 .. n + 1 : g[i] = Cat(g[i - 1], ts[i])
      BY <2>1, <2>3 DEF FlattensBy
    <2> HIDE DEF n
    <2>6. f[n] = g[n]
      <3>1. ASSUME NEW i \in 1 .. n, f[i - 1] = g[i - 1] PROVE f[i] = g[i]
        BY <2>1, <2>4, <2>5, <3>1
      <3>2. StepAlike(f, g, n)
        BY <2>4, <2>5, <3>1 DEF StepAlike
      <3>3. n \in Nat
        BY <2>1
      <3>4. \A i \in 0 .. n : f[i] = g[i]
        BY <3>2, <3>3, RecursionUnique
      <3> QED BY <3>3, <3>4
    <2>7. g[n + 1] = Cat(g[n], s)
      BY <2>1, <2>5
    <2> QED BY <2>4, <2>5, <2>6, <2>7 DEF ts
  <1> QED BY <1>1, <1>2, <1>3
-----------------------------------------------------------------------------
(* The stream of a message: what is between its beginning and its end.     *)

Inner == {e \in Span : e.kind \in InnerKinds}

LEMMA InnerSpans == ASSUME NEW v \in Seq(Inner) PROVE v \in Seq(Span)
  <1>1. Inner \subseteq Span
    BY DEF Inner
  <1> HIDE DEF Inner
  <1> QED BY <1>1

LEMMA PiecesFacts ==
    ASSUME NEW k \in InnerKinds
    PROVE  /\ Pieces(k, <<>>) = <<>>
           /\ \A s \in Seq(Byte) : Piece(k, s) \in Inner /\ Pieces(k, s) \in Seq(Inner)
           /\ \A s \in Seq(Byte), b \in Byte :
                 Pieces(k, Then(s, b)) = Then(Pieces(k, s), Piece(k, One(b)))
  <1>1. Pieces(k, <<>>) = <<>>
    BY DEF Pieces
  <1>2. ASSUME NEW s \in Seq(Byte) PROVE Piece(k, s) \in Inner
    BY DEF Piece, Inner, Span, InnerKinds
  <1>3. ASSUME NEW s \in Seq(Byte) PROVE Pieces(k, s) \in Seq(Inner)
    <2>1. \A i \in DOMAIN s : <<s[i]>> \in Seq(Byte)
      OBVIOUS
    <2>2. \A i \in DOMAIN s : Piece(k, <<s[i]>>) \in Inner
      BY <1>2, <2>1
    <2>3. DOMAIN s = 1 .. Len(s) /\ Len(s) \in Nat
      OBVIOUS
    <2> HIDE DEF Inner
    <2> QED BY <2>2, <2>3 DEF Pieces
  <1>4. ASSUME NEW s \in Seq(Byte), NEW b \in Byte
        PROVE  Pieces(k, Then(s, b)) = Then(Pieces(k, s), Piece(k, One(b)))
    <2> DEFINE t == Then(s, b)
               n == Len(s)
               E(i) == Piece(k, <<t[i]>>)
               l == Pieces(k, t)
               q == Pieces(k, s)
               r == Then(q, Piece(k, One(b)))
    <2>1. t \in Seq(Byte) /\ Len(t) = n + 1 /\ t[n + 1] = b /\ \A i \in 1 .. n : t[i] = s[i]
      BY ThenType
    <2>2. n \in Nat /\ DOMAIN s = 1 .. n
      OBVIOUS
    <2> HIDE DEF t, n
    <2>3. DOMAIN t = 1 .. n + 1
      BY <2>1, <2>2
    <2>4. /\ l \in Seq(Inner) /\ DOMAIN l = 1 .. n + 1
          /\ \A i \in 1 .. n + 1 : l[i] = E(i)
      BY <1>3, <2>1, <2>3 DEF Pieces
    <2>5. /\ q \in Seq(Inner) /\ Len(q) = n
          /\ \A i \in 1 .. n : q[i] = Piece(k, <<s[i]>>)
      <3>1. q \in Seq(Inner)
        BY <1>3
      <3>2. DOMAIN q = 1 .. n /\ \A i \in 1 .. n : q[i] = Piece(k, <<s[i]>>)
        BY <2>2 DEF Pieces
      <3> HIDE DEF q
      <3>3. Len(q) = n
        BY <2>2, <3>1, <3>2
      <3> QED BY <3>1, <3>2, <3>3
    <2>6. Piece(k, One(b)) \in Inner
      BY <1>2, ThenFacts
    <2> HIDE DEF q, l
    <2>7. /\ r \in Seq(Inner) /\ Len(r) = n + 1 /\ r[n + 1] = Piece(k, One(b))
          /\ \A i \in 1 .. n : r[i] = q[i]
      <3>1. /\ r \in Seq(Inner) /\ Len(r) = Len(q) + 1 /\ r[Len(q) + 1] = Piece(k, One(b))
            /\ \A i \in 1 .. Len(q) : r[i] = q[i]
        <4> HIDE DEF Inner
        <4>1. IsThen(Inner, q, Piece(k, One(b)), r)
          BY <2>5, <2>6, ThenIs
        <4> QED BY <4>1 DEF IsThen
      <3> HIDE DEF r
      <3> QED BY <2>5, <3>1
    <2>8. ASSUME NEW i \in 1 .. n + 1 PROVE l[i] = r[i]
      <3>1. CASE i \in 1 .. n
        BY <2>1, <2>4, <2>5, <2>7, <3>1
      <3>2. CASE i = n + 1
        BY <2>1, <2>4, <2>7, <3>2 DEF One
      <3> QED BY <2>2, <3>1, <3>2
    <2> HIDE DEF r, E
    <2>9. l = r
      BY <2>2, <2>4, <2>7, <2>8
    <2> QED BY <2>9 DEF l, r, q, t
  <1> QED BY <1>1, <1>2, <1>3, <1>4

LEMMA HeaderPiecesFacts ==
    ASSUME NEW h \in Header
    PROVE  /\ HeaderPieces(h) \in Seq(Inner)
           /\ HeaderPieces(h) = Cat(Pieces("field", h[1]),
                                    IF h[2] = <<>> THEN One(Piece("value", <<>>))
                                    ELSE Pieces("value", h[2]))
           /\ h[1] \in Seq(Byte) /\ h[1] # <<>> /\ h[2] \in Seq(Byte)
           /\ h = <<h[1], h[2]>>
  <1> DEFINE v == IF h[2] = <<>> THEN One(Piece("value", <<>>)) ELSE Pieces("value", h[2])
             f == Pieces("field", h[1])
  <1>1. h[1] \in Seq(Byte) /\ h[1] # <<>> /\ h[2] \in Seq(Byte) /\ h = <<h[1], h[2]>>
    BY DEF Header
  <1>2. "field" \in InnerKinds /\ "value" \in InnerKinds /\ <<>> \in Seq(Byte)
    BY DEF InnerKinds
  <1>3. f \in Seq(Inner)
    BY <1>1, <1>2, PiecesFacts
  <1>4. v \in Seq(Inner)
    <2>1. One(Piece("value", <<>>)) \in Seq(Inner)
      BY <1>2, PiecesFacts, ThenFacts
    <2>2. Pieces("value", h[2]) \in Seq(Inner)
      BY <1>1, <1>2, PiecesFacts
    <2> QED BY <2>1, <2>2
  <1>5. HeaderPieces(h) = Cat(f, v)
    BY DEF HeaderPieces, Cat, One
  <1> HIDE DEF f, v
  <1>6. Cat(f, v) \in Seq(Inner)
    BY <1>3, <1>4, CatType
  <1> QED BY <1>1, <1>5, <1>6 DEF f, v

HeadersOf(hs) == FlattenSeq([i \in DOMAIN hs |-> HeaderPieces(hs[i])])

LEMMA HeadersOfFacts ==
    /\ HeadersOf(<<>>) = <<>>
    /\ \A hs \in Seq(Header) : HeadersOf(hs) \in Seq(Inner)
    /\ \A hs \in Seq(Header), h \in Header :
          HeadersOf(Then(hs, h)) = Cat(HeadersOf(hs), HeaderPieces(h))
  <1> DEFINE F(hs) == [i \in DOMAIN hs |-> HeaderPieces(hs[i])]
  <1>1. HeadersOf(<<>>) = <<>>
    <2>1. F(<<>>) = <<>>
      OBVIOUS
    <2> HIDE DEF F
    <2>2. HeadersOf(<<>>) = FlattenSeq(F(<<>>))
      BY DEF HeadersOf, F
    <2> QED BY <2>1, <2>2, FlattenFacts
  <1>2. ASSUME NEW hs \in Seq(Header)
        PROVE  /\ F(hs) \in Seq(Seq(Inner)) /\ Len(F(hs)) = Len(hs)
               /\ \A i \in 1 .. Len(hs) : F(hs)[i] = HeaderPieces(hs[i])
    <2>1. DOMAIN hs = 1 .. Len(hs) /\ Len(hs) \in Nat
      OBVIOUS
    <2>2. \A i \in 1 .. Len(hs) : HeaderPieces(hs[i]) \in Seq(Inner)
      BY HeaderPiecesFacts
    <2> QED BY <2>1, <2>2
  <1>3. ASSUME NEW hs \in Seq(Header), NEW h \in Header
        PROVE  F(Then(hs, h)) = Then(F(hs), HeaderPieces(h))
    <2> DEFINE t == Then(hs, h)
               n == Len(hs)
               l == F(t)
               q == F(hs)
               r == Then(q, HeaderPieces(h))
    <2>1. t \in Seq(Header) /\ Len(t) = n + 1 /\ t[n + 1] = h /\ \A i \in 1 .. n : t[i] = hs[i]
      BY ThenType
    <2>2. n \in Nat
      OBVIOUS
    <2> HIDE DEF t, F
    <2>3. /\ l \in Seq(Seq(Inner)) /\ Len(l) = n + 1
          /\ \A i \in 1 .. n + 1 : l[i] = HeaderPieces(t[i])
      BY <1>2, <2>1
    <2>4. /\ q \in Seq(Seq(Inner)) /\ Len(q) = n
          /\ \A i \in 1 .. n : q[i] = HeaderPieces(hs[i])
      BY <1>2
    <2>5. HeaderPieces(h) \in Seq(Inner)
      BY HeaderPiecesFacts
    <2> HIDE DEF q, l, n
    <2>6. /\ r \in Seq(Seq(Inner)) /\ Len(r) = n + 1 /\ r[n + 1] = HeaderPieces(h)
          /\ \A i \in 1 .. n : r[i] = q[i]
      <3>1. /\ r \in Seq(Seq(Inner)) /\ Len(r) = Len(q) + 1 /\ r[Len(q) + 1] = HeaderPieces(h)
            /\ \A i \in 1 .. Len(q) : r[i] = q[i]
        <4> HIDE DEF Inner
        <4>1. IsThen(Seq(Inner), q, HeaderPieces(h), r)
          BY <2>4, <2>5, ThenIs
        <4> QED BY <4>1 DEF IsThen
      <3> HIDE DEF r
      <3> QED BY <2>4, <3>1
    <2>7. ASSUME NEW i \in 1 .. n + 1 PROVE l[i] = r[i]
      <3> HIDE DEF r
      <3>1. CASE i \in 1 .. n
        BY <2>1, <2>3, <2>4, <2>6, <3>1
      <3>2. CASE i = n + 1
        BY <2>1, <2>3, <2>6, <3>2
      <3> QED BY <2>2, <3>1, <3>2
    <2> HIDE DEF r
    <2>8. l = r
      BY <2>2, <2>3, <2>6, <2>7
    <2> QED BY <2>8 DEF l, r, q, t
  <1> HIDE DEF F
  <1>4. \A hs : HeadersOf(hs) = FlattenSeq(F(hs))
    BY DEF HeadersOf, F
  <1>5. ASSUME NEW hs \in Seq(Header) PROVE HeadersOf(hs) \in Seq(Inner)
    BY <1>2, <1>4, FlattenFacts
  <1>6. ASSUME NEW hs \in Seq(Header), NEW h \in Header
        PROVE  HeadersOf(Then(hs, h)) = Cat(HeadersOf(hs), HeaderPieces(h))
    <2>1. HeaderPieces(h) \in Seq(Inner) /\ F(hs) \in Seq(Seq(Inner))
      BY <1>2, HeaderPiecesFacts
    <2>2. FlattenSeq(Then(F(hs), HeaderPieces(h))) = Cat(FlattenSeq(F(hs)), HeaderPieces(h))
      BY <2>1, FlattenFacts
    <2> QED BY <1>3, <1>4, <2>2
  <1> QED BY <1>1, <1>5, <1>6

Middle(m) ==
    Cat(Cat(Pieces("line", m.line), HeadersOf(m.headers)), Pieces("body", m.body))

Beginning == Piece("begin", <<>>)
Ending    == Piece("end", <<>>)

LEMMA StreamIs ==
    ASSUME NEW m \in Message
    PROVE  /\ Middle(m) \in Seq(Inner) /\ Beginning \in Span /\ Ending \in Span
           /\ Stream(m) = Then(Cat(One(Beginning), Middle(m)), Ending)
           /\ Stream(m) \in Seq(Span) /\ Len(Stream(m)) = Len(Middle(m)) + 2
  <1> DEFINE a == Pieces("line", m.line)
             b == HeadersOf(m.headers)
             c == Pieces("body", m.body)
             x == One(Beginning)
             z == One(Ending)
  <1>1. m.line \in Seq(Byte) /\ m.headers \in Seq(Header) /\ m.body \in Seq(Byte)
    BY DEF Message
  <1>2. "line" \in InnerKinds /\ "body" \in InnerKinds
    BY DEF InnerKinds
  <1>3. a \in Seq(Inner) /\ c \in Seq(Inner)
    BY <1>1, <1>2, PiecesFacts
  <1>4. b \in Seq(Inner)
    BY <1>1, HeadersOfFacts
  <1>5. Beginning \in Span /\ Ending \in Span
    BY DEF Beginning, Ending, Piece, Span
  <1>6. Stream(m) = Cat(Cat(Cat(Cat(x, a), b), c), z)
    BY DEF Stream, Cat, One, Beginning, Ending, HeadersOf
  <1> HIDE DEF a, b, c, x
  <1>7. Middle(m) = Cat(Cat(a, b), c) /\ Middle(m) \in Seq(Inner)
    <2>1. Cat(Cat(a, b), c) \in Seq(Inner)
      BY <1>3, <1>4, CatFacts
    <2> QED BY <2>1 DEF Middle, a, b, c
  <1>8. /\ a \in Seq(Span) /\ b \in Seq(Span) /\ c \in Seq(Span) /\ Middle(m) \in Seq(Span)
        /\ x \in Seq(Span) /\ Len(x) = 1
    BY <1>3, <1>4, <1>5, <1>7, InnerSpans, ThenFacts DEF x
  <1>9. Cat(Cat(Cat(x, a), b), c) = Cat(x, Middle(m))
    <2>1. Cat(Cat(x, a), b) = Cat(x, Cat(a, b)) /\ Cat(a, b) \in Seq(Span)
      BY <1>8, CatFacts
    <2>2. Cat(Cat(x, Cat(a, b)), c) = Cat(x, Cat(Cat(a, b), c))
      BY <1>8, <2>1, CatFacts
    <2> QED BY <1>7, <2>1, <2>2
  <1> DEFINE w == Cat(x, Middle(m))
  <1>10. w \in Seq(Span) /\ Len(w) = 1 + Len(Middle(m))
    BY <1>8, CatType
  <1>11. Stream(m) = Cat(w, z)
    BY <1>6, <1>9
  <1> HIDE DEF w
  <1>12. Stream(m) = Then(w, Ending)
    BY <1>5, <1>10, <1>11, ThenFacts
  <1>13. Stream(m) \in Seq(Span) /\ Len(Stream(m)) = Len(w) + 1
    BY <1>5, <1>10, <1>12, ThenType
  <1>14. Len(Middle(m)) \in Nat
    BY <1>8
  <1> QED BY <1>5, <1>7, <1>10, <1>12, <1>13, <1>14 DEF w, x
-----------------------------------------------------------------------------
(* The reference, fed the stream of a message, holds the message.          *)

LEMMA ReferencePieces ==
    ASSUME NEW k \in InnerKinds, NEW u \in Seq(Span), NEW s \in Seq(Byte), s # <<>>
    PROVE  Reference(Cat(u, Pieces(k, s))) = Callback("request", Reference(u), Piece(k, s))
  <1> DEFINE R(v) == Reference(v)
             call(x, e) == Callback("request", x, e)
             P == {t \in Seq(Byte) : t # <<>> =>
                      R(Cat(u, Pieces(k, t))) = call(R(u), Piece(k, t))}
  <1>1. <<>> \in P
    OBVIOUS
  <1>2. ASSUME NEW t \in Seq(Byte), NEW b \in Byte, t \in P PROVE Then(t, b) \in P
    <2> DEFINE q == Pieces(k, t)
               e == Piece(k, One(b))
               z == Piece(k, t)
               y == Then(t, b)
    <2>1. q \in Seq(Inner) /\ e \in Inner /\ z \in Inner /\ One(b) \in Seq(Byte)
      BY PiecesFacts, ThenFacts
    <2>2. q \in Seq(Span) /\ e \in Span /\ z \in Span
      BY <2>1, InnerSpans DEF Inner
    <2>3. e.kind = k /\ e.data = One(b) /\ z.kind = k /\ z.data = t
      BY DEF Piece
    <2>4. Pieces(k, y) = Then(q, e)
      BY PiecesFacts
    <2> HIDE DEF q, e, z
    <2>5. Cat(u, Then(q, e)) = Then(Cat(u, q), e) /\ Cat(u, q) \in Seq(Span)
      BY <2>2, ThenFacts, CatFacts
    <2>6. R(Then(Cat(u, q), e)) = call(R(Cat(u, q)), e)
      BY <2>2, <2>5, ReferenceFacts
    <2>7. y \in Seq(Byte)
      BY ThenType
    <2>8. R(Cat(u, Pieces(k, y))) = call(R(u), Piece(k, y))
      <3>1. CASE t = <<>>
        <4>1. q = <<>> /\ y = One(b)
          BY <3>1, PiecesFacts, ThenFacts DEF q
        <4>2. Cat(u, q) = u
          BY <4>1, CatFacts
        <4> QED BY <2>4, <2>5, <2>6, <4>1, <4>2 DEF e
      <3>2. CASE t # <<>>
        <4>1. R(Cat(u, q)) = call(R(u), z)
          BY <1>2, <3>2 DEF q, z
        <4>2. R(u) \in ParserRecord
          BY ReferenceFacts
        <4>3. call(call(R(u), z), e) = call(R(u), Piece(e.kind, z.data \o e.data))
          BY <2>2, <2>3, <4>2, PiecesJoin
        <4>4. z.data \o e.data = y
          <5>1. y = Cat(t, One(b))
            BY ThenFacts
          <5> HIDE DEF y
          <5> QED BY <2>3, <5>1 DEF Cat
        <4> HIDE DEF R, call, y
        <4> QED BY <2>3, <2>4, <2>5, <2>6, <4>1, <4>3, <4>4
      <3> QED BY <3>1, <3>2
    <2> HIDE DEF y
    <2> QED BY <2>7, <2>8 DEF y
  <1> HIDE DEF P
  <1>3. s \in P
    BY <1>1, <1>2, SeqInduction
  <1> QED BY <1>3 DEF P

LEMMA CommitFields ==
    ASSUME NEW x \in ParserRecord
    PROVE  LET q == CommitHeader(x)
           IN  /\ q.llhttp = x.llhttp /\ q.line = x.line /\ q.body = x.body
               /\ q.lastWasField = x.lastWasField /\ q.complete = x.complete
               /\ q.headers = IF x.field = <<>> THEN x.headers
                              ELSE Then(x.headers, <<x.field, x.value>>)
               /\ q.field = <<>>
               /\ q.value = IF x.field = <<>> THEN x.value ELSE <<>>
  <1> DEFINE h == Then(x.headers, <<x.field, x.value>>)
  <1>1. CASE x.field = <<>>
    BY <1>1 DEF CommitHeader
  <1>2. CASE x.field # <<>>
    <2>1. CommitHeader(x) = [x EXCEPT !.headers = h, !.field = <<>>, !.value = <<>>]
      BY <1>2 DEF CommitHeader, Then
    <2> HIDE DEF h
    <2>2. LET q == CommitHeader(x)
          IN  /\ q.llhttp = x.llhttp /\ q.line = x.line /\ q.body = x.body
              /\ q.lastWasField = x.lastWasField /\ q.complete = x.complete
              /\ q.headers = h /\ q.field = <<>> /\ q.value = <<>>
      BY <2>1 DEF ParserRecord
    <2> QED BY <1>2, <2>2 DEF h
  <1> QED BY <1>1, <1>2

\* What the parser has collected when its last header, if any, is whole.
Stage(x, line, headers, body) ==
    /\ x \in ParserRecord
    /\ x.llhttp = "inside" /\ ~x.complete /\ ~x.lastWasField
    /\ x.line = line /\ x.body = body
    /\ x.field = <<>> => x.value = <<>>
    /\ CommitHeader(x).headers = headers

LEMMA StageGrows ==
    ASSUME NEW x, NEW line \in Seq(Byte), NEW headers \in Seq(Header),
           NEW body \in Seq(Byte), Stage(x, line, headers, body)
    PROVE  /\ \A d \in Seq(Byte) : Stage(OnLine(x, d), Cat(line, d), headers, body)
           /\ \A d \in Seq(Byte) : Stage(OnRequestBody(x, d), line, headers, Cat(body, d))
           /\ \A h \in Header :
                 Stage(OnHeaderValue(OnHeaderField(x, h[1]), h[2]), line,
                       Then(headers, h), body)
  <1>1. x \in ParserRecord
    BY DEF Stage
  <1>2. ASSUME NEW d \in Seq(Byte) PROVE Stage(OnLine(x, d), Cat(line, d), headers, body)
    <2> DEFINE v == Cat(line, d)
               y == [x EXCEPT !.line = v]
    <2>1. v \in Seq(Byte)
      BY CatType
    <2>2. OnLine(x, d) = y
      BY DEF OnLine, Stage, Cat
    <2> HIDE DEF v
    <2>3. y \in ParserRecord
      BY <1>1, <2>1, ChangesOfRecord
    <2>4. /\ y.line = v /\ y.body = x.body /\ y.llhttp = x.llhttp /\ y.complete = x.complete
          /\ y.lastWasField = x.lastWasField /\ y.field = x.field /\ y.value = x.value
          /\ y.headers = x.headers
      BY <1>1 DEF ParserRecord
    <2> HIDE DEF y
    <2>5. CommitHeader(y).headers = CommitHeader(x).headers
      BY <1>1, <2>3, <2>4, CommitFields
    <2> QED BY <2>2, <2>3, <2>4, <2>5 DEF Stage, v
  <1>3. ASSUME NEW d \in Seq(Byte) PROVE Stage(OnRequestBody(x, d), line, headers, Cat(body, d))
    <2> DEFINE v == Cat(body, d)
               y == [x EXCEPT !.body = v]
    <2>1. v \in Seq(Byte \cup {Marker})
      <3>1. v \in Seq(Byte)
        BY CatType
      <3> HIDE DEF v
      <3> QED BY <3>1
    <2>2. OnRequestBody(x, d) = y
      BY DEF OnRequestBody, Stage, Cat
    <2> HIDE DEF v
    <2>3. y \in ParserRecord
      BY <1>1, <2>1, ChangesOfRecord
    <2>4. /\ y.line = x.line /\ y.body = v /\ y.llhttp = x.llhttp /\ y.complete = x.complete
          /\ y.lastWasField = x.lastWasField /\ y.field = x.field /\ y.value = x.value
          /\ y.headers = x.headers
      BY <1>1 DEF ParserRecord
    <2> HIDE DEF y
    <2>5. CommitHeader(y).headers = CommitHeader(x).headers
      BY <1>1, <2>3, <2>4, CommitFields
    <2> QED BY <2>2, <2>3, <2>4, <2>5 DEF Stage, v
  <1>4. ASSUME NEW h \in Header
        PROVE  Stage(OnHeaderValue(OnHeaderField(x, h[1]), h[2]), line, Then(headers, h), body)
    <2> DEFINE f == h[1]
               v == h[2]
               q == CommitHeader(x)
               y == [q EXCEPT !.field = f, !.lastWasField = TRUE]
               z == [y EXCEPT !.value = v, !.lastWasField = FALSE]
    <2>1. f \in Seq(Byte) /\ f # <<>> /\ v \in Seq(Byte) /\ h = <<f, v>>
      BY HeaderPiecesFacts
    <2>2. /\ q \in ParserRecord /\ q.line = line /\ q.body = body /\ q.llhttp = "inside"
          /\ q.complete = FALSE /\ q.headers = headers /\ q.field = <<>> /\ q.value = <<>>
      <3>1. q \in ParserRecord
        BY <1>1, CommitFacts
      <3>2. /\ q.line = line /\ q.body = body /\ q.llhttp = "inside"
            /\ q.complete = x.complete /\ q.field = <<>> /\ q.value = <<>>
        BY <1>1, CommitFields DEF Stage
      <3>3. q.headers = headers /\ x.complete = FALSE
        BY <1>1 DEF Stage, ParserRecord
      <3> QED BY <3>1, <3>2, <3>3
    <2>3. OnHeaderField(x, f) = y
      <3>1. OnHeaderField(x, f) = [q EXCEPT !.field = q.field \o f, !.lastWasField = TRUE]
        BY DEF OnHeaderField, Stage
      <3>2. q.field \o f = f
        BY <2>1, <2>2, CatFacts DEF Cat
      <3> HIDE DEF q
      <3> QED BY <3>1, <3>2
    <2> HIDE DEF q, f, v
    <2>4. y \in ParserRecord
      BY <2>1, <2>2, ChangesOfRecord
    <2>5. /\ y.line = line /\ y.body = body /\ y.llhttp = "inside" /\ y.complete = FALSE
          /\ y.headers = headers /\ y.field = f /\ y.value = <<>>
      BY <2>2 DEF ParserRecord
    <2> HIDE DEF y
    <2>6. OnHeaderValue(y, v) = z
      <3>1. y.value \o v = v
        BY <2>1, <2>5, CatFacts DEF Cat
      <3> QED BY <3>1 DEF OnHeaderValue
    <2>7. z \in ParserRecord
      BY <2>1, <2>4, ChangesOfRecord
    <2>8. /\ z.line = line /\ z.body = body /\ z.llhttp = "inside" /\ z.complete = FALSE
          /\ z.headers = headers /\ z.field = f /\ z.value = v /\ z.lastWasField = FALSE
      BY <2>4, <2>5 DEF ParserRecord
    <2> HIDE DEF z
    <2>9. CommitHeader(z).headers = Then(headers, h)
      BY <2>1, <2>7, <2>8, CommitFields
    <2> QED BY <2>1, <2>3, <2>6, <2>7, <2>8, <2>9 DEF Stage, f, v
  <1> QED BY <1>2, <1>3, <1>4

\* The message is whole when its end has been read, and no earlier.
LEMMA StreamRead ==
    ASSUME NEW m \in Message
    PROVE  LET x == Reference(Stream(m))
           IN  /\ x.llhttp = "start" /\ x.complete
               /\ x.line = m.line /\ x.headers = m.headers /\ x.body = m.body
  <1> DEFINE R(u) == Reference(u)
             call(x, e) == Callback("request", x, e)
             s0 == One(Beginning)
             line == Pieces("line", m.line)
             s1 == Cat(s0, line)
             Reads(hs) == Cat(s1, HeadersOf(hs))
             P == {hs \in Seq(Header) : Stage(R(Reads(hs)), m.line, hs, <<>>)}
             s2 == Reads(m.headers)
             body == Pieces("body", m.body)
             s3 == Cat(s2, body)
  <1>1. /\ m.line \in Seq(Byte) /\ m.headers \in Seq(Header) /\ m.body \in Seq(Byte)
        /\ <<>> \in Seq(Byte) /\ <<>> \in Seq(Header)
    BY DEF Message
  <1>2. Beginning \in Span /\ Ending \in Span /\ s0 \in Seq(Span)
    BY StreamIs, ThenFacts
  <1>3. \A x : x.llhttp = "inside" =>
           /\ call(x, Ending) = OnMessageComplete(x)
           /\ \A d \in Seq(Byte) : /\ call(x, Piece("line", d)) = OnLine(x, d)
                                   /\ call(x, Piece("field", d)) = OnHeaderField(x, d)
                                   /\ call(x, Piece("value", d)) = OnHeaderValue(x, d)
                                   /\ call(x, Piece("body", d)) = OnRequestBody(x, d)
    BY DEF Callback, Piece, Ending
  <1>4. /\ "line" \in InnerKinds /\ "field" \in InnerKinds
        /\ "value" \in InnerKinds /\ "body" \in InnerKinds
    BY DEF InnerKinds
  <1>5. Stage(R(s0), <<>>, <<>>, <<>>)
    <2>1. R(s0) = call(Fresh, Beginning)
      <3>1. <<>> \in Seq(Span) /\ s0 = Then(<<>>, Beginning)
        BY <1>2, ThenFacts
      <3>2. Reference(Then(<<>>, Beginning)) = Callback("request", Reference(<<>>), Beginning)
        BY <1>2, <3>1, ReferenceFacts
      <3> HIDE DEF s0
      <3> QED BY <3>1, <3>2, ReferenceFacts
    <2>2. call(Fresh, Beginning) = [Fresh EXCEPT !.llhttp = "inside"]
      BY DEF Callback, Fresh, Beginning, Piece
    <2>3. R(s0) \in ParserRecord
      BY <1>2, ReferenceFacts
    <2> HIDE DEF R, call
    <2> QED BY <2>1, <2>2, <2>3 DEF Stage, CommitHeader, Fresh
  <1>6. s1 \in Seq(Span) /\ Stage(R(s1), m.line, <<>>, <<>>)
    <2>1. line \in Seq(Span)
      BY <1>1, <1>4, PiecesFacts, InnerSpans
    <2>2. s1 \in Seq(Span)
      <3> HIDE DEF s0, line
      <3> QED BY <1>2, <2>1, CatType
    <2>3. CASE m.line = <<>>
      <3>1. line = <<>>
        BY <1>4, <2>3, PiecesFacts
      <3>2. s1 = s0
        <4> HIDE DEF s0, line
        <4> QED BY <1>2, <3>1, CatFacts
      <3> QED BY <1>5, <2>2, <2>3, <3>2
    <2>4. CASE m.line # <<>>
      <3> DEFINE x == R(s0)
      <3>1. R(s1) = call(x, Piece("line", m.line))
        BY <1>1, <1>2, <1>4, <2>4, ReferencePieces
      <3>2. R(s1) = OnLine(x, m.line)
        BY <1>1, <1>3, <1>5, <3>1 DEF Stage
      <3> HIDE DEF R, s0, s1
      <3>3. Stage(OnLine(x, m.line), Cat(<<>>, m.line), <<>>, <<>>)
        <4> HIDE DEF x
        <4>1. Stage(x, <<>>, <<>>, <<>>)
          BY <1>5 DEF x
        <4> QED BY <1>1, <4>1, StageGrows
      <3>4. Cat(<<>>, m.line) = m.line
        BY <1>1, CatFacts
      <3> QED BY <2>2, <3>2, <3>3, <3>4
    <2> QED BY <2>3, <2>4
  <1> HIDE DEF s0, line, s1
  <1>7. \A hs \in Seq(Header) : HeadersOf(hs) \in Seq(Span) /\ Reads(hs) \in Seq(Span)
    <2> SUFFICES ASSUME NEW hs \in Seq(Header)
                 PROVE  HeadersOf(hs) \in Seq(Span) /\ Reads(hs) \in Seq(Span)
      OBVIOUS
    <2>1. HeadersOf(hs) \in Seq(Span)
      BY HeadersOfFacts, InnerSpans
    <2> QED BY <1>6, <2>1, CatType
  <1>8. <<>> \in P
    <2>1. Reads(<<>>) = s1
      BY <1>6, HeadersOfFacts, CatFacts
    <2> QED BY <1>1, <1>6, <2>1
  <1>9. ASSUME NEW hs \in Seq(Header), NEW h \in Header, hs \in P PROVE Then(hs, h) \in P
    <2> DEFINE u == Reads(hs)
               a == Pieces("field", h[1])
               b == IF h[2] = <<>> THEN One(Piece("value", <<>>)) ELSE Pieces("value", h[2])
               x == R(u)
               y == OnHeaderField(x, h[1])
    <2>1. u \in Seq(Span) /\ Stage(x, m.line, hs, <<>>)
      BY <1>7, <1>9
    <2>2. /\ HeaderPieces(h) = Cat(a, b) /\ HeaderPieces(h) \in Seq(Inner)
          /\ h[1] \in Seq(Byte) /\ h[1] # <<>> /\ h[2] \in Seq(Byte)
      BY HeaderPiecesFacts
    <2>3. a \in Seq(Span) /\ b \in Seq(Span)
      <3>1. a \in Seq(Inner)
        BY <1>4, <2>2, PiecesFacts
      <3>2. One(Piece("value", <<>>)) \in Seq(Inner) /\ Pieces("value", h[2]) \in Seq(Inner)
        BY <1>1, <1>4, <2>2, PiecesFacts, ThenFacts
      <3> HIDE DEF a
      <3> QED BY <3>1, <3>2, InnerSpans
    <2>4. Reads(Then(hs, h)) = Cat(Cat(u, a), b) /\ Cat(u, a) \in Seq(Span)
      <3>1. HeadersOf(Then(hs, h)) = Cat(HeadersOf(hs), HeaderPieces(h))
        BY HeadersOfFacts
      <3>2. HeadersOf(hs) \in Seq(Span) /\ HeaderPieces(h) \in Seq(Span)
        BY <1>7, <2>2, InnerSpans
      <3> HIDE DEF a, b
      <3>3. Cat(s1, Cat(HeadersOf(hs), HeaderPieces(h))) = Cat(Cat(s1, HeadersOf(hs)), HeaderPieces(h))
        BY <1>6, <3>2, CatFacts
      <3>4. Cat(u, Cat(a, b)) = Cat(Cat(u, a), b) /\ Cat(u, a) \in Seq(Span)
        <4> HIDE DEF u
        <4> QED BY <2>1, <2>3, CatFacts
      <3> QED BY <2>2, <3>1, <3>3, <3>4
    <2>5. R(Cat(u, a)) = y
      <3>1. R(Cat(u, a)) = call(x, Piece("field", h[1]))
        BY <1>4, <2>1, <2>2, ReferencePieces
      <3> QED BY <1>3, <2>1, <2>2, <3>1 DEF Stage
    <2>6. y.llhttp = "inside" /\ y \in ParserRecord
      <3>1. y \in ParserRecord
        BY <2>4, <2>5, ReferenceFacts
      <3>2. y = [CommitHeader(x) EXCEPT !.field = @ \o h[1], !.lastWasField = TRUE]
        BY <2>1 DEF OnHeaderField, Stage
      <3>3. CommitHeader(x) \in ParserRecord /\ CommitHeader(x).llhttp = "inside"
        BY <2>1, CommitFacts, CommitFields DEF Stage
      <3> HIDE DEF y
      <3> QED BY <3>1, <3>2, <3>3 DEF ParserRecord
    <2>7. R(Cat(Cat(u, a), b)) = OnHeaderValue(y, h[2])
      <3> DEFINE w == Cat(u, a)
      <3>1. w \in Seq(Span) /\ R(w) = y
        BY <2>4, <2>5
      <3> HIDE DEF y, w, u, a
      <3>2. CASE h[2] = <<>>
        <4>1. Piece("value", <<>>) \in Span
          BY <1>1, <1>4, PiecesFacts DEF Inner
        <4>2. Cat(w, b) = Then(w, Piece("value", <<>>))
          BY <3>1, <3>2, <4>1, ThenFacts
        <4>3. R(Cat(w, b)) = call(y, Piece("value", <<>>))
          BY <3>1, <4>1, <4>2, ReferenceFacts
        <4> QED BY <1>1, <1>3, <2>6, <3>2, <4>3 DEF w
      <3>3. CASE h[2] # <<>>
        <4>1. R(Cat(w, b)) = call(y, Piece("value", h[2]))
          BY <1>4, <2>2, <3>1, <3>3, ReferencePieces
        <4> QED BY <1>3, <2>2, <2>6, <4>1 DEF w
      <3> QED BY <3>2, <3>3
    <2>8. Stage(OnHeaderValue(y, h[2]), m.line, Then(hs, h), <<>>)
      <3> HIDE DEF x
      <3> QED BY <1>1, <2>1, StageGrows
    <2> HIDE DEF y, a, b, u, x, R, Reads
    <2>9. Stage(R(Reads(Then(hs, h))), m.line, Then(hs, h), <<>>)
      BY <2>4, <2>7, <2>8
    <2> QED BY <2>9, ThenType
  <1> HIDE DEF P
  <1>10. m.headers \in P
    BY <1>1, <1>8, <1>9, SeqInduction
  <1>11. s2 \in Seq(Span) /\ Stage(R(s2), m.line, m.headers, <<>>)
    BY <1>1, <1>7, <1>10 DEF P
  <1> HIDE DEF s2
  <1>12. s3 \in Seq(Span) /\ Stage(R(s3), m.line, m.headers, m.body)
    <2>1. body \in Seq(Span)
      BY <1>1, <1>4, PiecesFacts, InnerSpans
    <2>2. s3 \in Seq(Span)
      <3> HIDE DEF body
      <3> QED BY <1>11, <2>1, CatType
    <2>3. CASE m.body = <<>>
      <3>1. body = <<>>
        BY <1>4, <2>3, PiecesFacts
      <3>2. s3 = s2
        <4> HIDE DEF body
        <4> QED BY <1>11, <3>1, CatFacts
      <3> QED BY <1>11, <2>2, <2>3, <3>2
    <2>4. CASE m.body # <<>>
      <3> DEFINE x == R(s2)
      <3>1. R(s3) = call(x, Piece("body", m.body))
        BY <1>1, <1>4, <1>11, <2>4, ReferencePieces
      <3>2. R(s3) = OnRequestBody(x, m.body)
        BY <1>1, <1>3, <1>11, <3>1 DEF Stage
      <3> HIDE DEF R, s3
      <3>3. Stage(OnRequestBody(x, m.body), m.line, m.headers, Cat(<<>>, m.body))
        <4> HIDE DEF x
        <4>1. Stage(x, m.line, m.headers, <<>>)
          BY <1>11 DEF x
        <4> QED BY <1>1, <4>1, StageGrows
      <3>4. Cat(<<>>, m.body) = m.body
        BY <1>1, CatFacts
      <3> QED BY <2>2, <3>2, <3>3, <3>4
    <2> QED BY <2>3, <2>4
  <1>13. Stream(m) = Then(s3, Ending)
    <2> DEFINE hs == HeadersOf(m.headers)
    <2>1. /\ Stream(m) = Then(Cat(s0, Middle(m)), Ending)
          /\ Middle(m) = Cat(Cat(line, hs), body)
      BY StreamIs DEF s0, Middle, line
    <2>2. line \in Seq(Span) /\ hs \in Seq(Span) /\ body \in Seq(Span)
      <3>1. line \in Seq(Inner) /\ body \in Seq(Inner)
        BY <1>1, <1>4, PiecesFacts DEF line
      <3> QED BY <1>1, <1>7, <3>1, InnerSpans
    <2> HIDE DEF hs, body
    <2>3. Cat(s0, Cat(Cat(line, hs), body)) = Cat(Cat(Cat(s0, line), hs), body)
      <3>1. Cat(line, hs) \in Seq(Span) /\ Cat(s0, line) \in Seq(Span)
        BY <1>2, <2>2, CatFacts
      <3>2. Cat(s0, Cat(Cat(line, hs), body)) = Cat(Cat(s0, Cat(line, hs)), body)
        BY <1>2, <2>2, <3>1, CatFacts
      <3>3. Cat(s0, Cat(line, hs)) = Cat(Cat(s0, line), hs)
        BY <1>2, <2>2, CatFacts
      <3> QED BY <3>2, <3>3
    <2> QED BY <2>1, <2>3 DEF s1, s2, hs
  <1> DEFINE x == R(s3)
             q == CommitHeader(x)
  <1> HIDE DEF s3
  <1>14. R(Stream(m)) = OnMessageComplete(x)
    <2>1. R(Then(s3, Ending)) = call(x, Ending)
      BY <1>2, <1>12, ReferenceFacts
    <2> QED BY <1>3, <1>12, <1>13, <2>1 DEF Stage
  <1> HIDE DEF R
  <1>15. OnMessageComplete(x) = [q EXCEPT !.complete = TRUE, !.llhttp = "start"]
    BY DEF OnMessageComplete
  <1>16. q \in ParserRecord /\ q.line = m.line /\ q.headers = m.headers /\ q.body = m.body
    BY <1>12, CommitFacts, CommitFields DEF Stage
  <1> HIDE DEF q, x
  <1>17. LET y == OnMessageComplete(x)
         IN  /\ y.llhttp = "start" /\ y.complete
             /\ y.line = m.line /\ y.headers = m.headers /\ y.body = m.body
    BY <1>15, <1>16 DEF ParserRecord
  <1> QED BY <1>14, <1>17 DEF R

LEMMA PartRead ==
    ASSUME NEW v \in Seq(Inner)
    PROVE  LET x == Reference(Cat(One(Beginning), v))
           IN  x.llhttp = "inside" /\ ~x.complete
  <1> DEFINE s0 == One(Beginning)
             R(u) == Reference(Cat(s0, u))
             P == {u \in Seq(Inner) : R(u).llhttp = "inside" /\ ~R(u).complete}
  <1>1. Beginning \in Span
    BY DEF Beginning, Piece, Span
  <1>2. s0 \in Seq(Span)
    BY <1>1, ThenFacts
  <1>3. <<>> \in P
    <2>1. Cat(s0, <<>>) = s0 /\ s0 = Then(<<>>, Beginning)
      <3> HIDE DEF s0
      <3>1. Cat(s0, <<>>) = s0
        BY <1>2, CatFacts
      <3> QED BY <1>1, <3>1, ThenFacts DEF s0
    <2>2. R(<<>>) = Callback("request", Fresh, Beginning)
      <3>1. <<>> \in Seq(Span)
        OBVIOUS
      <3>2. Reference(Then(<<>>, Beginning)) = Callback("request", Reference(<<>>), Beginning)
        BY <1>1, <3>1, ReferenceFacts
      <3> HIDE DEF s0
      <3> QED BY <2>1, <3>2, ReferenceFacts
    <2>3. Callback("request", Fresh, Beginning) = [Fresh EXCEPT !.llhttp = "inside"]
      BY DEF Callback, Fresh, Beginning, Piece
    <2> HIDE DEF R
    <2>4. R(<<>>).llhttp = "inside" /\ ~R(<<>>).complete
      BY <2>2, <2>3 DEF Fresh
    <2> QED BY <2>4
  <1>4. ASSUME NEW u \in Seq(Inner), NEW e \in Inner, u \in P PROVE Then(u, e) \in P
    <2> DEFINE x == R(u)
               y == R(Then(u, e))
    <2>1. u \in Seq(Span) /\ e \in Span /\ e.kind \in InnerKinds
      BY InnerSpans DEF Inner
    <2>2. Cat(s0, Then(u, e)) = Then(Cat(s0, u), e) /\ Cat(s0, u) \in Seq(Span)
      <3> HIDE DEF s0
      <3> QED BY <1>2, <2>1, ThenFacts, CatFacts
    <2>3. y = Callback("request", x, e) /\ x \in ParserRecord
      <3> HIDE DEF s0
      <3> QED BY <2>1, <2>2, ReferenceFacts
    <2>4. x.llhttp = "inside" /\ x.complete = FALSE
      BY <1>4, <2>3 DEF ParserRecord
    <2>5. Then(u, e) \in Seq(Inner)
      BY ThenType
    <2> HIDE DEF x, y
    <2>6. CommitHeader(x).llhttp = "inside" /\ CommitHeader(x).complete = FALSE
          /\ CommitHeader(x) \in ParserRecord
      BY <2>3, <2>4, CommitFields, CommitFacts
    <2>7. /\ \A d : /\ OnLine(x, d).llhttp = "inside" /\ OnLine(x, d).complete = FALSE
                    /\ OnHeaderValue(x, d).llhttp = "inside"
                    /\ OnHeaderValue(x, d).complete = FALSE
                    /\ OnRequestBody(x, d).llhttp = "inside"
                    /\ OnRequestBody(x, d).complete = FALSE
                    /\ OnHeaderField(x, d).llhttp = "inside"
                    /\ OnHeaderField(x, d).complete = FALSE
      <3>1. \A d : OnLine(x, d).llhttp = "inside" /\ OnLine(x, d).complete = FALSE
        BY <2>3, <2>4 DEF OnLine, ParserRecord
      <3>2. \A d : OnHeaderValue(x, d).llhttp = "inside" /\ OnHeaderValue(x, d).complete = FALSE
        BY <2>3, <2>4 DEF OnHeaderValue, ParserRecord
      <3>3. \A d : OnRequestBody(x, d).llhttp = "inside" /\ OnRequestBody(x, d).complete = FALSE
        BY <2>3, <2>4 DEF OnRequestBody, ParserRecord
      <3>4. ASSUME NEW d
            PROVE  OnHeaderField(x, d).llhttp = "inside" /\ OnHeaderField(x, d).complete = FALSE
        <4> DEFINE q == IF x.lastWasField THEN x ELSE CommitHeader(x)
        <4>1. OnHeaderField(x, d) = [q EXCEPT !.field = q.field \o d, !.lastWasField = TRUE]
          BY DEF OnHeaderField
        <4>2. q.llhttp = "inside" /\ q.complete = FALSE /\ q \in ParserRecord
          BY <2>3, <2>4, <2>6
        <4> HIDE DEF q
        <4> QED BY <4>1, <4>2 DEF ParserRecord
      <3> QED BY <3>1, <3>2, <3>3, <3>4
    <2>8. y.llhttp = "inside" /\ ~y.complete
      <3>1. CASE e.kind = "line"
        BY <2>1, <2>3, <2>4, <2>7, <3>1, RequestCases
      <3>2. CASE e.kind = "field"
        BY <2>1, <2>3, <2>4, <2>7, <3>2, RequestCases
      <3>3. CASE e.kind = "value"
        BY <2>1, <2>3, <2>4, <2>7, <3>3, RequestCases
      <3>4. CASE e.kind = "body"
        BY <2>1, <2>3, <2>4, <2>7, <3>4, RequestCases
      <3> QED BY <2>1, <3>1, <3>2, <3>3, <3>4 DEF InnerKinds
    <2> QED BY <2>5, <2>8 DEF y
  <1> HIDE DEF P
  <1>5. v \in P
    BY <1>3, <1>4, SeqInduction
  <1> QED BY <1>5 DEF P
-----------------------------------------------------------------------------
(* The stream of several messages.                                         *)

LEMMA StreamOfFacts ==
    /\ StreamOf(<<>>) = <<>>
    /\ \A ms \in Seq(Message) : StreamOf(ms) \in Seq(Span)
    /\ \A ms \in Seq(Message), m \in Message :
          StreamOf(Then(ms, m)) = Cat(StreamOf(ms), Stream(m))
  <1> DEFINE F(ms) == [i \in DOMAIN ms |-> Stream(ms[i])]
  <1>1. StreamOf(<<>>) = <<>>
    <2>1. F(<<>>) = <<>>
      OBVIOUS
    <2> HIDE DEF F
    <2>2. StreamOf(<<>>) = FlattenSeq(F(<<>>))
      BY DEF StreamOf, F
    <2> QED BY <2>1, <2>2, FlattenFacts
  <1>2. ASSUME NEW ms \in Seq(Message)
        PROVE  /\ F(ms) \in Seq(Seq(Span)) /\ Len(F(ms)) = Len(ms)
               /\ \A i \in 1 .. Len(ms) : F(ms)[i] = Stream(ms[i])
    <2>1. DOMAIN ms = 1 .. Len(ms) /\ Len(ms) \in Nat
      OBVIOUS
    <2>2. \A i \in 1 .. Len(ms) : Stream(ms[i]) \in Seq(Span)
      BY StreamIs
    <2> QED BY <2>1, <2>2
  <1>3. ASSUME NEW ms \in Seq(Message), NEW m \in Message
        PROVE  F(Then(ms, m)) = Then(F(ms), Stream(m))
    <2> DEFINE t == Then(ms, m)
               n == Len(ms)
               l == F(t)
               q == F(ms)
               r == Then(q, Stream(m))
    <2>1. t \in Seq(Message) /\ Len(t) = n + 1 /\ t[n + 1] = m /\ \A i \in 1 .. n : t[i] = ms[i]
      BY ThenType
    <2>2. n \in Nat
      OBVIOUS
    <2> HIDE DEF t, F
    <2>3. /\ l \in Seq(Seq(Span)) /\ Len(l) = n + 1
          /\ \A i \in 1 .. n + 1 : l[i] = Stream(t[i])
      BY <1>2, <2>1
    <2>4. /\ q \in Seq(Seq(Span)) /\ Len(q) = n
          /\ \A i \in 1 .. n : q[i] = Stream(ms[i])
      BY <1>2
    <2>5. Stream(m) \in Seq(Span)
      BY StreamIs
    <2> HIDE DEF q, l, n
    <2>6. /\ r \in Seq(Seq(Span)) /\ Len(r) = n + 1 /\ r[n + 1] = Stream(m)
          /\ \A i \in 1 .. n : r[i] = q[i]
      <3>1. /\ r \in Seq(Seq(Span)) /\ Len(r) = Len(q) + 1 /\ r[Len(q) + 1] = Stream(m)
            /\ \A i \in 1 .. Len(q) : r[i] = q[i]
        <4> DEFINE T == Seq(Span)
        <4>1. q \in Seq(T) /\ Stream(m) \in T
          BY <2>4, <2>5
        <4> HIDE DEF T
        <4>2. IsThen(T, q, Stream(m), r)
          BY <4>1, ThenIs
        <4> QED BY <4>2 DEF IsThen, T
      <3> HIDE DEF r
      <3> QED BY <2>4, <3>1
    <2>7. ASSUME NEW i \in 1 .. n + 1 PROVE l[i] = r[i]
      <3> HIDE DEF r
      <3>1. CASE i \in 1 .. n
        BY <2>1, <2>3, <2>4, <2>6, <3>1
      <3>2. CASE i = n + 1
        BY <2>1, <2>3, <2>6, <3>2
      <3> QED BY <2>2, <3>1, <3>2
    <2> HIDE DEF r
    <2>8. l = r
      BY <2>2, <2>3, <2>6, <2>7
    <2> QED BY <2>8 DEF l, r, q, t
  <1> HIDE DEF F
  <1>4. \A ms : StreamOf(ms) = FlattenSeq(F(ms))
    BY DEF StreamOf, F
  <1>5. ASSUME NEW ms \in Seq(Message) PROVE StreamOf(ms) \in Seq(Span)
    BY <1>2, <1>4, FlattenFacts
  <1>6. ASSUME NEW ms \in Seq(Message), NEW m \in Message
        PROVE  StreamOf(Then(ms, m)) = Cat(StreamOf(ms), Stream(m))
    <2>1. Stream(m) \in Seq(Span) /\ F(ms) \in Seq(Seq(Span))
      BY <1>2, StreamIs
    <2>2. FlattenSeq(Then(F(ms), Stream(m))) = Cat(FlattenSeq(F(ms)), Stream(m))
      BY <2>1, FlattenFacts
    <2> QED BY <1>3, <1>4, <2>2
  <1> QED BY <1>1, <1>5, <1>6

\* The first message comes first.
LEMMA FirstStream ==
    ASSUME NEW m \in Message, NEW ms \in Seq(Message)
    PROVE  StreamOf(Cat(One(m), ms)) = Cat(Stream(m), StreamOf(ms))
  <1> DEFINE o == One(m)
             S(q) == StreamOf(q)
             b == Stream(m)
             P == {q \in Seq(Message) : S(Cat(o, q)) = Cat(b, S(q))}
  <1>1. o \in Seq(Message) /\ b \in Seq(Span)
    BY ThenFacts, StreamIs
  <1>2. <<>> \in P
    <2>1. S(o) = b
      <3>1. o = Then(<<>>, m) /\ <<>> \in Seq(Message)
        BY ThenFacts
      <3>2. S(Then(<<>>, m)) = Cat(S(<<>>), b)
        BY <3>1, StreamOfFacts
      <3> HIDE DEF b, o
      <3> QED BY <1>1, <3>1, <3>2, StreamOfFacts, CatFacts
    <2>2. Cat(o, <<>>) = o
      BY <1>1, CatFacts
    <2>3. Cat(b, S(<<>>)) = b
      BY <1>1, StreamOfFacts, CatFacts
    <2> QED BY <2>1, <2>2, <2>3
  <1>3. ASSUME NEW q \in Seq(Message), NEW x \in Message, q \in P PROVE Then(q, x) \in P
    <2> DEFINE c == Stream(x)
    <2>1. S(q) \in Seq(Span) /\ c \in Seq(Span) /\ Then(q, x) \in Seq(Message)
          /\ Cat(o, q) \in Seq(Message)
      BY <1>1, StreamOfFacts, StreamIs, ThenType, CatType
    <2>2. Cat(o, Then(q, x)) = Then(Cat(o, q), x)
      BY <1>1, ThenFacts
    <2>3. S(Then(Cat(o, q), x)) = Cat(S(Cat(o, q)), c) /\ S(Then(q, x)) = Cat(S(q), c)
      BY <2>1, StreamOfFacts
    <2>4. S(Cat(o, q)) = Cat(b, S(q))
      BY <1>3
    <2> HIDE DEF o, b, c, S
    <2>5. Cat(Cat(b, S(q)), c) = Cat(b, Cat(S(q), c))
      BY <1>1, <2>1, CatFacts
    <2>6. S(Cat(o, Then(q, x))) = Cat(b, S(Then(q, x)))
      BY <2>2, <2>3, <2>4, <2>5
    <2> QED BY <2>1, <2>6
  <1> HIDE DEF P
  <1>4. ms \in P
    BY <1>2, <1>3, SeqInduction
  <1> QED BY <1>4 DEF P

LEMMA EndsFacts ==
    /\ Ends(<<>>) = 0
    /\ \A s \in Seq(Span) : Ends(s) \in Nat
    /\ \A s \in Seq(Span) : Ends(s) = 0 <=> \A i \in DOMAIN s : s[i].kind # "end"
    /\ \A s \in Seq(Span), e \in Span :
          Ends(Then(s, e)) = Ends(s) + (IF e.kind = "end" THEN 1 ELSE 0)
  <1> DEFINE E(s) == {i \in DOMAIN s : s[i].kind = "end"}
  <1>1. ASSUME NEW s \in Seq(Span)
        PROVE  IsFiniteSet(E(s)) /\ Ends(s) = Cardinality(E(s)) /\ Ends(s) \in Nat
    <2>1. DOMAIN s = 1 .. Len(s) /\ Len(s) \in Nat
      OBVIOUS
    <2>2. IsFiniteSet(DOMAIN s)
      BY <2>1, FS_Interval
    <2>3. E(s) \subseteq DOMAIN s
      OBVIOUS
    <2>4. Ends(s) = Cardinality(E(s))
      BY DEF Ends
    <2> HIDE DEF E
    <2>5. IsFiniteSet(E(s))
      BY <2>2, <2>3, FS_Subset
    <2> QED BY <2>4, <2>5, FS_CardinalityType
  <1>2. Ends(<<>>) = 0
    <2>1. E(<<>>) = {}
      OBVIOUS
    <2> QED BY <2>1, FS_EmptySet DEF Ends
  <1>3. ASSUME NEW s \in Seq(Span)
        PROVE  Ends(s) = 0 <=> \A i \in DOMAIN s : s[i].kind # "end"
    <2>1. Ends(s) = 0 <=> E(s) = {}
      <3> HIDE DEF E
      <3> QED BY <1>1, FS_EmptySet
    <2> QED BY <2>1
  <1>4. ASSUME NEW s \in Seq(Span), NEW e \in Span
        PROVE  Ends(Then(s, e)) = Ends(s) + (IF e.kind = "end" THEN 1 ELSE 0)
    <2> DEFINE t == Then(s, e)
               n == Len(s) + 1
    <2>1. t \in Seq(Span) /\ Len(t) = n /\ t[n] = e /\ \A i \in 1 .. Len(s) : t[i] = s[i]
      BY ThenType
    <2>2. DOMAIN s = 1 .. Len(s) /\ Len(s) \in Nat
      OBVIOUS
    <2> HIDE DEF t
    <2>3. DOMAIN t = 1 .. n
      BY <2>1
    <2>4. n \notin E(s) /\ \A i \in 1 .. n : i = n \/ i \in 1 .. Len(s)
      BY <2>2
    <2>5. CASE e.kind = "end"
      <3>1. E(t) = E(s) \cup {n}
        BY <2>1, <2>2, <2>3, <2>4, <2>5
      <3> HIDE DEF E, n
      <3> QED BY <1>1, <2>1, <2>4, <2>5, <3>1, FS_AddElement DEF t
    <2>6. CASE e.kind # "end"
      <3>1. E(t) = E(s)
        BY <2>1, <2>2, <2>3, <2>4, <2>6
      <3> HIDE DEF E, n
      <3> QED BY <1>1, <2>1, <2>6, <3>1 DEF t
    <2> QED BY <2>5, <2>6
  <1> QED BY <1>1, <1>2, <1>3, <1>4

LEMMA EndsAdd ==
    ASSUME NEW s \in Seq(Span), NEW t \in Seq(Span)
    PROVE  Ends(Cat(s, t)) = Ends(s) + Ends(t)
  <1> DEFINE P == {r \in Seq(Span) : Ends(Cat(s, r)) = Ends(s) + Ends(r)}
  <1>1. <<>> \in P
    <2>1. Cat(s, <<>>) = s /\ Ends(<<>>) = 0 /\ Ends(s) \in Nat
      BY CatFacts, EndsFacts
    <2> QED BY <2>1
  <1>2. ASSUME NEW r \in Seq(Span), NEW e \in Span, r \in P PROVE Then(r, e) \in P
    <2> DEFINE d == IF e.kind = "end" THEN 1 ELSE 0
    <2>1. Cat(s, Then(r, e)) = Then(Cat(s, r), e) /\ Cat(s, r) \in Seq(Span)
      BY ThenFacts, CatFacts
    <2>2. Ends(Then(Cat(s, r), e)) = Ends(Cat(s, r)) + d /\ Ends(Then(r, e)) = Ends(r) + d
      BY <2>1, EndsFacts
    <2>3. Ends(Cat(s, r)) = Ends(s) + Ends(r) /\ Ends(s) \in Nat /\ Ends(r) \in Nat /\ d \in Nat
      BY <1>2, EndsFacts
    <2>4. Then(r, e) \in Seq(Span)
      BY ThenType
    <2> HIDE DEF d
    <2>5. Ends(Cat(s, Then(r, e))) = Ends(s) + Ends(Then(r, e))
      BY <2>1, <2>2, <2>3
    <2> QED BY <2>4, <2>5
  <1> HIDE DEF P
  <1>3. t \in P
    BY <1>1, <1>2, SeqInduction
  <1> QED BY <1>3 DEF P

\* Where the kinds are in the stream of a message.
LEMMA StreamKinds ==
    ASSUME NEW m \in Message
    PROVE  LET s == Stream(m)
               n == Len(s)
           IN  /\ s \in Seq(Span) /\ n \in Nat /\ n >= 2
               /\ s[1] = Beginning /\ s[n] = Ending
               /\ \A i \in 2 .. n - 1 : s[i] \in Inner
               /\ Ends(s) = 1
  <1> DEFINE s == Stream(m)
             n == Len(s)
             v == Middle(m)
             k == Len(v)
             o == One(Beginning)
             w == Cat(o, v)
  <1>1. /\ v \in Seq(Inner) /\ Beginning \in Span /\ Ending \in Span
        /\ s = Then(w, Ending) /\ s \in Seq(Span) /\ n = k + 2
    BY StreamIs
  <1>2. v \in Seq(Span) /\ o \in Seq(Span) /\ Len(o) = 1 /\ o[1] = Beginning /\ k \in Nat
    <2>1. v \in Seq(Span) /\ o \in Seq(Span) /\ Len(o) = 1
      BY <1>1, InnerSpans, ThenFacts
    <2>2. o[1] = Beginning
      BY DEF One
    <2> HIDE DEF v
    <2> QED BY <2>1, <2>2
  <1> HIDE DEF v, o
  <1>3. /\ w \in Seq(Span) /\ Len(w) = k + 1 /\ w[1] = Beginning
        /\ \A i \in 1 .. k : w[1 + i] = v[i]
    <2>1. w \in Seq(Span) /\ Len(w) = Len(o) + Len(v)
      BY <1>2, CatType
    <2>2. \A i \in 1 .. Len(o) : w[i] = o[i]
      BY <1>2, PartsOfCat
    <2>3. \A i \in 1 .. Len(v) : w[Len(o) + i] = v[i]
      BY <1>2, PartsOfCat
    <2> HIDE DEF w
    <2> QED BY <1>2, <2>1, <2>2, <2>3
  <1> HIDE DEF w, s
  <1>4. s[k + 2] = Ending /\ \A i \in 1 .. k + 1 : s[i] = w[i]
    <2>1. Then(w, Ending)[Len(w) + 1] = Ending /\ \A i \in 1 .. Len(w) : Then(w, Ending)[i] = w[i]
      <3>1. IsThen(Span, w, Ending, Then(w, Ending))
        BY <1>1, <1>3, ThenIs
      <3> QED BY <3>1 DEF IsThen
    <2> QED BY <1>1, <1>2, <1>3, <2>1
  <1>5. ASSUME NEW i \in 2 .. n - 1 PROVE s[i] \in Inner
    <2>1. i - 1 \in 1 .. k /\ 1 + (i - 1) = i /\ i \in 1 .. k + 1
      BY <1>1, <1>2
    <2>2. s[i] = v[i - 1]
      BY <1>3, <1>4, <2>1
    <2> HIDE DEF n
    <2> QED BY <1>1, <2>1, <2>2
  <1>6. \A i \in DOMAIN w : w[i].kind # "end"
    <2> SUFFICES ASSUME NEW i \in 1 .. k + 1 PROVE w[i].kind # "end"
      BY <1>3
    <2>1. CASE i = 1
      BY <1>3, <2>1 DEF Beginning, Piece
    <2>2. CASE i # 1
      <3>1. i - 1 \in 1 .. k /\ 1 + (i - 1) = i
        BY <1>2, <2>2
      <3>2. w[i] = v[i - 1] /\ v[i - 1] \in Inner
        BY <1>1, <1>3, <3>1
      <3> QED BY <3>2 DEF Inner, InnerKinds
    <2> QED BY <2>1, <2>2
  <1>7. Ends(s) = 1
    <2>1. Ends(w) = 0
      BY <1>3, <1>6, EndsFacts
    <2>2. Ends(Then(w, Ending)) = Ends(w) + 1
      BY <1>1, <1>3, EndsFacts DEF Ending, Piece
    <2> QED BY <1>1, <2>1, <2>2
  <1>8. s[1] = Beginning /\ s[n] = Ending /\ n \in Nat /\ n >= 2
    BY <1>1, <1>2, <1>3, <1>4
  <1> QED BY <1>1, <1>5, <1>7, <1>8 DEF s

LEMMA EndsOfStream ==
    ASSUME NEW ms \in Seq(Message) PROVE Ends(StreamOf(ms)) = Len(ms)
  <1> DEFINE P == {q \in Seq(Message) : Ends(StreamOf(q)) = Len(q)}
  <1>1. <<>> \in P
    BY StreamOfFacts, EndsFacts
  <1>2. ASSUME NEW q \in Seq(Message), NEW x \in Message, q \in P PROVE Then(q, x) \in P
    <2>1. StreamOf(q) \in Seq(Span) /\ Stream(x) \in Seq(Span) /\ Ends(Stream(x)) = 1
      BY StreamOfFacts, StreamKinds
    <2>2. StreamOf(Then(q, x)) = Cat(StreamOf(q), Stream(x))
      BY StreamOfFacts
    <2>3. Ends(Cat(StreamOf(q), Stream(x))) = Ends(StreamOf(q)) + Ends(Stream(x))
      BY <2>1, EndsAdd
    <2>4. Then(q, x) \in Seq(Message) /\ Len(Then(q, x)) = Len(q) + 1
      BY ThenType
    <2> QED BY <1>2, <2>1, <2>2, <2>3, <2>4
  <1> HIDE DEF P
  <1>3. ms \in P
    BY <1>1, <1>2, SeqInduction
  <1> QED BY <1>3 DEF P
-----------------------------------------------------------------------------
(* What the bytes still to be read say of the parser.                      *)

\* A read, added to what was read of message m before it.
LEMMA ReadOn ==
    ASSUME NEW m \in Message, NEW x \in Seq(Span), NEW u \in Seq(Span), NEW read \in Seq(Span),
           NEW rest \in Seq(Span), read # <<>>,
           Cat(Cat(u, read), rest) = Cat(Stream(m), x),
           \A i \in 1 .. Len(u) : u[i].kind # "end",
           \A i \in 1 .. Len(read) - 1 : read[i].kind # "end"
    PROVE  LET v == Cat(u, read)
               e == read[Len(read)]
           IN  /\ v \in Seq(Span) /\ Calm(read)
               /\ e.kind = "end" => v = Stream(m)
               /\ e.kind # "end" =>
                     (\A i \in 1 .. Len(v) : v[i].kind # "end") /\ ~Reference(v).complete
  <1> DEFINE v == Cat(u, read)
             n == Len(read)
             a == Len(u)
             k == Len(v)
             b == Stream(m)
             L == Len(b)
             e == read[n]
  <1>1. /\ b \in Seq(Span) /\ L \in Nat /\ L >= 2 /\ b[1] = Beginning /\ b[L] = Ending
        /\ \A i \in 2 .. L - 1 : b[i] \in Inner
    BY StreamKinds
  <1>2. v \in Seq(Span) /\ k = a + n /\ a \in Nat /\ n \in Nat /\ n >= 1
    <2>1. v \in Seq(Span) /\ k = a + n
      BY CatType
    <2> QED BY <2>1
  <1>3. /\ \A i \in 1 .. a : v[i] = u[i]
        /\ \A i \in 1 .. n : v[a + i] = read[i]
    <2>1. IsCat(u, read, v)
      BY CatIs
    <2> QED BY <2>1 DEF IsCat
  <1> HIDE DEF v, b
  <1>4. \A i \in 1 .. k : Cat(v, rest)[i] = v[i]
    BY <1>2, PartsOfCat
  <1>5. \A i \in 1 .. L : Cat(b, x)[i] = b[i]
    BY <1>1, PartsOfCat
  <1>6. Cat(v, rest) = Cat(b, x)
    BY DEF v, b
  <1>7. Ending.kind = "end" /\ Beginning.kind = "begin"
        /\ \A y \in Inner : y.kind # "end" /\ y.kind # "begin" /\ y.kind \in InnerKinds
    BY DEF Ending, Beginning, Piece, Inner, InnerKinds
  <1> HIDE DEF k, n, a, L
  <1>8. ASSUME NEW i \in 1 .. k - 1 PROVE v[i].kind # "end"
    <2>1. CASE i <= a
      <3>1. i \in 1 .. a
        BY <1>2, <2>1
      <3> QED BY <1>3, <3>1 DEF a
    <2>2. CASE i > a
      <3>1. i - a \in 1 .. n - 1 /\ i - a \in 1 .. n /\ a + (i - a) = i
        BY <1>2, <2>2
      <3> QED BY <1>3, <3>1 DEF n
    <2> QED BY <1>2, <2>1, <2>2
  <1>9. k <= L
    <2> SUFFICES ASSUME L <= k - 1 PROVE FALSE
      BY <1>1, <1>2
    <2>1. L \in 1 .. k - 1 /\ L \in 1 .. k /\ L \in 1 .. L
      BY <1>1, <1>2
    <2>2. v[L] = Ending
      BY <1>1, <1>4, <1>5, <1>6, <2>1
    <2> QED BY <1>7, <1>8, <2>1, <2>2
  <1>10. \A i \in 1 .. k : v[i] = b[i]
    <2>1. \A i \in 1 .. k : i \in 1 .. L
      BY <1>1, <1>2, <1>9
    <2> QED BY <1>4, <1>5, <1>6, <2>1
  <1>11. Calm(read)
    <2> SUFFICES ASSUME NEW j \in 1 .. n - 1, read[j].kind = read[j + 1].kind
                 PROVE  read[j].kind \in InnerKinds
      BY DEF Calm, n
    <2> DEFINE i == a + j
    <2>1. i \in 1 .. k - 1 /\ i \in 1 .. k /\ i + 1 \in 1 .. k /\ a + (j + 1) = i + 1
          /\ j \in 1 .. n /\ j + 1 \in 1 .. n
      BY <1>2
    <2>2. read[j] = b[i] /\ read[j + 1] = b[i + 1]
      <3>1. v[i] = read[j] /\ v[a + (j + 1)] = read[j + 1]
        BY <1>3, <2>1
      <3> HIDE DEF i
      <3> QED BY <1>10, <2>1, <3>1
    <2> HIDE DEF i
    <2>3. CASE i = 1
      <3>1. b[2].kind # "begin"
        <4>1. CASE L = 2
          BY <1>1, <1>7, <4>1
        <4>2. CASE L # 2
          <5>1. 2 \in 2 .. L - 1
            BY <1>1, <4>2
          <5> QED BY <1>1, <1>7, <5>1
        <4> QED BY <4>1, <4>2
      <3> QED BY <1>1, <1>7, <2>2, <2>3, <3>1
    <2>4. CASE i # 1
      <3>1. i \in 2 .. L - 1
        BY <1>1, <1>2, <1>9, <2>1, <2>4
      <3> QED BY <1>1, <1>7, <2>2, <3>1
    <2> QED BY <2>3, <2>4
  <1>12. e = b[k] /\ k \in 1 .. k /\ k \in Nat
    <2>1. n \in 1 .. n /\ k = a + n /\ k \in 1 .. k /\ k \in Nat
      BY <1>2
    <2> QED BY <1>3, <1>10, <2>1
  <1> HIDE DEF e
  <1>13. ASSUME e.kind = "end" PROVE v = b
    <2>1. k = L
      <3>1. k # 1
        BY <1>1, <1>7, <1>12, <1>13
      <3>2. k \notin 2 .. L - 1
        BY <1>1, <1>7, <1>12, <1>13
      <3> QED BY <1>1, <1>9, <1>12, <3>1, <3>2
    <2> QED BY <1>1, <1>2, <1>10, <2>1 DEF k, L
  <1>14. ASSUME e.kind # "end"
         PROVE  (\A i \in 1 .. k : v[i].kind # "end") /\ ~Reference(v).complete
    <2>1. k < L
      <3>1. k # L
        BY <1>1, <1>7, <1>12, <1>14
      <3> QED BY <1>1, <1>9, <1>12, <3>1
    <2>2. ASSUME NEW i \in 1 .. k PROVE v[i].kind # "end"
      <3>1. CASE i = k
        BY <1>10, <1>12, <1>14, <3>1
      <3>2. CASE i # k
        BY <1>8, <1>12, <3>2
      <3> QED BY <3>1, <3>2
    <2> DEFINE c == [i \in 1 .. k - 1 |-> v[i + 1]]
               o == One(Beginning)
               w == Cat(o, c)
    <2>3. c \in Seq(Inner) /\ Len(c) = k - 1
      <3>1. k - 1 \in Nat
        BY <1>12
      <3>2. ASSUME NEW i \in 1 .. k - 1 PROVE v[i + 1] \in Inner
        <4>1. i + 1 \in 2 .. L - 1 /\ i + 1 \in 1 .. k
          BY <1>1, <1>12, <2>1
        <4> QED BY <1>1, <1>10, <4>1
      <3> DEFINE j == k - 1
      <3> HIDE DEF j
      <3>3. j \in Nat /\ c = [i \in 1 .. j |-> v[i + 1]] /\ \A i \in 1 .. j : v[i + 1] \in Inner
        BY <3>1, <3>2 DEF j
      <3> HIDE DEF c
      <3>4. c \in Seq(Inner) /\ Len(c) = j
        BY <3>3
      <3> QED BY <3>4 DEF j
    <2>4. \A i \in 1 .. k - 1 : c[i] = v[i + 1]
      OBVIOUS
    <2> HIDE DEF c
    <2>5. c \in Seq(Span) /\ o \in Seq(Span) /\ Len(o) = 1 /\ o[1] = Beginning
      <3>1. Beginning \in Span
        BY StreamIs
      <3>2. o[1] = Beginning
        BY DEF One
      <3> QED BY <2>3, <3>1, <3>2, InnerSpans, ThenFacts
    <2> HIDE DEF o
    <2>6. /\ w \in Seq(Span) /\ Len(w) = k /\ w[1] = Beginning
          /\ \A i \in 1 .. k - 1 : w[1 + i] = c[i]
      <3>1. w \in Seq(Span) /\ Len(w) = Len(o) + Len(c)
        BY <2>5, CatType
      <3>2. IsCat(o, c, w)
        BY <2>5, CatIs
      <3> HIDE DEF w
      <3> QED BY <1>12, <2>3, <2>5, <3>1, <3>2 DEF IsCat
    <2> HIDE DEF w
    <2>7. v = w
      <3>1. ASSUME NEW i \in 1 .. k PROVE v[i] = w[i]
        <4>1. CASE i = 1
          BY <1>1, <1>10, <2>6, <4>1
        <4>2. CASE i # 1
          <5>1. i - 1 \in 1 .. k - 1 /\ 1 + (i - 1) = i /\ (i - 1) + 1 = i
            BY <1>12, <4>2
          <5>2. w[1 + (i - 1)] = c[i - 1] /\ c[i - 1] = v[(i - 1) + 1]
            BY <2>4, <2>6, <5>1
          <5> QED BY <5>1, <5>2
        <4> QED BY <4>1, <4>2
      <3> QED BY <1>2, <2>6, <3>1 DEF k
    <2>8. ~Reference(w).complete
      BY <2>3, PartRead DEF w, o
    <2> QED BY <2>2, <2>7, <2>8
  <1> QED BY <1>2, <1>11, <1>13, <1>14 DEF v, b, e, k, n

\* The bytes on the wire complete the messages that are owed, and the parser is
\* where the reference is that has read what the wire no longer holds.
TracksTo(side, p, w, ms) ==
    \E u \in Seq(Span) :
        /\ Cat(u, w) = StreamOf(ms)
        /\ Like(side, p, Reference(u))
        /\ IF p.complete THEN ms # <<>> /\ u = Stream(ms[1])
           ELSE \A i \in 1 .. Len(u) : u[i].kind # "end"

\* A new parser is ready for the first of the messages on the wire.
LEMMA StartTracks ==
    ASSUME NEW side \in Sides, NEW ms \in Seq(Message)
    PROVE  TracksTo(side, Fresh, StreamOf(ms), ms)
  <1>1. StreamOf(ms) \in Seq(Span)
    BY StreamOfFacts
  <1>2. Cat(<<>>, StreamOf(ms)) = StreamOf(ms) /\ <<>> \in Seq(Span)
    BY <1>1, CatFacts
  <1>3. Like(side, Fresh, Reference(<<>>))
    <2>1. Kept(side, Fresh, Fresh.body)
      BY ParserAssumption DEF Kept, Fresh
    <2> QED BY <2>1, ReferenceFacts DEF Like
  <1>4. ~Fresh.complete
    BY DEF Fresh
  <1>5. \A i \in 1 .. Len(<<>>) : <<>>[i].kind # "end"
    OBVIOUS
  <1>6. \E u \in Seq(Span) : /\ Cat(u, StreamOf(ms)) = StreamOf(ms)
                             /\ Like(side, Fresh, Reference(u))
                             /\ \A i \in 1 .. Len(u) : u[i].kind # "end"
    BY <1>2, <1>3, <1>5
  <1> QED BY <1>4, <1>6 DEF TracksTo

LEMMA FirstAndRest ==
    ASSUME NEW S, NEW ms \in Seq(S), ms # <<>>
    PROVE  LET rest == SubSeq(ms, 2, Len(ms))
           IN  ms[1] \in S /\ rest \in Seq(S) /\ ms = Cat(One(ms[1]), rest)
  <1> DEFINE rest == SubSeq(ms, 2, Len(ms))
             first == SubSeq(ms, 1, 1)
  <1>1. 1 \in 0 .. Len(ms) /\ ms[1] \in S /\ 1 + 1 = 2
    OBVIOUS
  <1>2. /\ first \in Seq(S) /\ Len(first) = 1 /\ rest \in Seq(S)
        /\ ms = Cat(first, rest)
    BY <1>1, CatParts
  <1>3. first[1] = ms[1]
    OBVIOUS
  <1> HIDE DEF first, rest
  <1>4. first = <<ms[1]>>
    BY <1>2, <1>3
  <1> QED BY <1>1, <1>2, <1>4 DEF One, rest

LEMMA FeedTracks ==
    ASSUME NEW side \in Sides, NEW p \in Holds(side), NEW w \in Seq(Span),
           NEW ms \in Seq(Message), TracksTo(side, p, w, ms), ~p.complete,
           NEW n \in 1 .. Len(w), \A i \in 1 .. n - 1 : SubSeq(w, 1, n)[i].kind # "end"
    PROVE  TracksTo(side, Execute(side, p, Spans(SubSeq(w, 1, n))),
                    SubSeq(w, n + 1, Len(w)), ms)
  <1> DEFINE read == SubSeq(w, 1, n)
             rest == SubSeq(w, n + 1, Len(w))
             q == Execute(side, p, Spans(read))
  <1>1. PICK u \in Seq(Span) :
           /\ Cat(u, w) = StreamOf(ms)
           /\ Like(side, p, Reference(u))
           /\ \A i \in 1 .. Len(u) : u[i].kind # "end"
    BY DEF TracksTo
  <1> DEFINE v == Cat(u, read)
  <1>2. /\ read \in Seq(Span) /\ Len(read) = n /\ rest \in Seq(Span)
        /\ w = Cat(read, rest)
    <2>1. n \in 0 .. Len(w)
      OBVIOUS
    <2> QED BY <2>1, CatParts
  <1>3. \A i \in 1 .. n - 1 : read[i].kind # "end"
    OBVIOUS
  <1> HIDE DEF read, rest
  <1>4. read # <<>>
    BY <1>2
  <1>5. Cat(v, rest) = StreamOf(ms)
    BY <1>1, <1>2, CatFacts
  <1>6. ms # <<>>
    <2> SUFFICES ASSUME ms = <<>> PROVE FALSE
      OBVIOUS
    <2>1. Cat(u, w) = <<>>
      BY <1>1, StreamOfFacts
    <2>2. Len(Cat(u, w)) = Len(u) + Len(w)
      BY <1>1, CatType
    <2>3. Len(u) \in Nat /\ Len(w) \in Nat /\ Len(w) >= 1
      BY <1>1
    <2> QED BY <2>1, <2>2, <2>3
  <1>7. PICK m \in Message, x \in Seq(Span) : StreamOf(ms) = Cat(Stream(m), x) /\ m = ms[1]
    <2>1. PICK tail \in Seq(Message) : ms[1] \in Message /\ ms = Cat(One(ms[1]), tail)
      BY <1>6, FirstAndRest
    <2>2. StreamOf(Cat(One(ms[1]), tail)) = Cat(Stream(ms[1]), StreamOf(tail))
      BY <2>1, FirstStream
    <2>3. StreamOf(tail) \in Seq(Span)
      BY <2>1, StreamOfFacts
    <2> QED BY <2>1, <2>2, <2>3
  <1>8. /\ v \in Seq(Span) /\ Calm(read)
        /\ read[n].kind = "end" => v = Stream(m)
        /\ read[n].kind # "end" =>
              (\A i \in 1 .. Len(v) : v[i].kind # "end") /\ ~Reference(v).complete
    BY <1>1, <1>2, <1>3, <1>4, <1>5, <1>7, ReadOn
  <1>9. Like(side, q, Reference(v))
    BY <1>1, <1>2, <1>8, FeedLike
  <1>10. q.complete = Reference(v).complete
    BY <1>9 DEF Like
  <1> HIDE DEF q, v
  <1>11. CASE read[n].kind = "end"
    <2>1. Reference(v).complete
      BY <1>8, <1>11, StreamRead
    <2>2. v \in Seq(Span) /\ q.complete /\ v = Stream(ms[1])
      BY <1>7, <1>8, <1>10, <1>11, <2>1
    <2> QED BY <1>5, <1>6, <1>9, <2>2 DEF TracksTo, q, read, rest
  <1>12. CASE read[n].kind # "end"
    <2>1. ~q.complete /\ v \in Seq(Span) /\ \A i \in 1 .. Len(v) : v[i].kind # "end"
      BY <1>8, <1>10, <1>12
    <2> QED BY <1>5, <1>9, <2>1 DEF TracksTo, q, read, rest
  <1> QED BY <1>11, <1>12

\* A complete message is the first that is owed, and the wire holds the others.
LEMMA TakeTracks ==
    ASSUME NEW side \in Sides, NEW p \in ParserRecord, NEW w \in Seq(Span),
           NEW ms \in Seq(Message), TracksTo(side, p, w, ms), p.complete
    PROVE  /\ ms # <<>>
           /\ TracksTo(side, Fresh, w, SubSeq(ms, 2, Len(ms)))
           /\ p.line = ms[1].line /\ p.headers = ms[1].headers /\ Kept(side, ms[1], p.body)
  <1> DEFINE m == ms[1]
             tail == SubSeq(ms, 2, Len(ms))
  <1>1. PICK u \in Seq(Span) :
           /\ Cat(u, w) = StreamOf(ms)
           /\ Like(side, p, Reference(u))
           /\ ms # <<>> /\ u = Stream(m)
    BY DEF TracksTo
  <1>2. m \in Message /\ tail \in Seq(Message) /\ ms = Cat(One(m), tail)
    BY <1>1, FirstAndRest
  <1> HIDE DEF m, tail
  <1>3. StreamOf(ms) = Cat(Stream(m), StreamOf(tail))
    BY <1>2, FirstStream
  <1>4. w = StreamOf(tail)
    <2>1. StreamOf(tail) \in Seq(Span) /\ Cat(u, w) = Cat(u, StreamOf(tail))
      BY <1>1, <1>2, <1>3, StreamOfFacts
    <2>2. IsCat(u, w, Cat(u, w)) /\ IsCat(u, StreamOf(tail), Cat(u, StreamOf(tail)))
      BY <1>1, <2>1, CatIs
    <2> QED BY <2>1, <2>2 DEF IsCat
  <1>5. TracksTo(side, Fresh, w, tail)
    BY <1>2, <1>4, StartTracks
  <1>6. p.line = m.line /\ p.headers = m.headers /\ Kept(side, m, p.body)
    <2>1. LET x == Reference(u)
          IN  x.line = m.line /\ x.headers = m.headers /\ x.body = m.body
      BY <1>1, <1>2, StreamRead
    <2> QED BY <1>1, <2>1 DEF Like, Kept
  <1> QED BY <1>1, <1>5, <1>6 DEF m, tail

\* So many messages are whole as their ends have left the wire.
LEMMA TracksEnds ==
    ASSUME NEW side \in Sides, NEW p \in ParserRecord, NEW w \in Seq(Span),
           NEW ms \in Seq(Message), TracksTo(side, p, w, ms)
    PROVE  (IF p.complete THEN 1 ELSE 0) = Len(ms) - Ends(w)
  <1>1. PICK u \in Seq(Span) :
           /\ Cat(u, w) = StreamOf(ms)
           /\ IF p.complete THEN ms # <<>> /\ u = Stream(ms[1])
              ELSE \A i \in 1 .. Len(u) : u[i].kind # "end"
    BY DEF TracksTo
  <1>2. Ends(u) + Ends(w) = Len(ms)
    BY <1>1, EndsAdd, EndsOfStream
  <1>3. Ends(u) \in Nat /\ Ends(w) \in Nat
    BY EndsFacts
  <1>4. Ends(u) = IF p.complete THEN 1 ELSE 0
    <2>1. CASE p.complete
      <3>1. ms[1] \in Message
        BY <1>1, <2>1, FirstAndRest
      <3> QED BY <1>1, <2>1, <3>1, StreamKinds
    <2>2. CASE ~p.complete
      BY <1>1, <2>2, EndsFacts
    <2> QED BY <2>1, <2>2
  <1> QED BY <1>2, <1>3, <1>4
-----------------------------------------------------------------------------
(* The inductive invariant.                                                *)

Owed(s) == SubSeq(sent[s], Len(taken[s]) + 1, Len(sent[s]))

Tracks(s) ==
    tidy[s] => /\ Len(taken[s]) <= Len(sent[s])
               /\ TracksTo(s, parser[s], wire[s], Owed(s))

Matches(s, t, m) == t.line = m.line /\ t.headers = m.headers /\ Kept(s, m, t.body)

AsSent(s) == tidy[s] => \A i \in 1 .. Len(taken[s]) : Matches(s, taken[s][i], sent[s][i])

ParserIInv ==
    /\ ParserTypes
    /\ \A s \in Sides : parser[s] \in Holds(s) /\ Tracks(s) /\ AsSent(s)

\* What is left of a sequence when its first elements are taken.
LEMMA LeftOver ==
    ASSUME NEW S, NEW q \in Seq(S), NEW a \in Nat, a <= Len(q)
    PROVE  LET r == SubSeq(q, a + 1, Len(q))
           IN  /\ r \in Seq(S) /\ Len(r) = Len(q) - a
               /\ r # <<>> => /\ a + 1 <= Len(q) /\ r[1] = q[a + 1]
                              /\ SubSeq(r, 2, Len(r)) = SubSeq(q, (a + 1) + 1, Len(q))
  <1> DEFINE r == SubSeq(q, a + 1, Len(q))
             n == Len(q)
             x == SubSeq(r, 2, n - a)
             y == SubSeq(q, a + 2, n)
  <1>1. n \in Nat /\ q \in Seq(S)
    OBVIOUS
  <1>2. r \in Seq(S) /\ Len(r) = n - a
    <2>1. a \in 0 .. Len(q)
      OBVIOUS
    <2> QED BY <2>1, CatParts
  <1>3. \A i \in 1 .. n - a : r[i] = q[a + i]
    OBVIOUS
  <1> HIDE DEF r, n
  <1>4. ASSUME r # <<>> PROVE a + 1 <= n /\ r[1] = q[a + 1] /\ x = y
    <2>1. a + 1 <= n
      BY <1>1, <1>2, <1>4
    <2>2. r[1] = q[a + 1]
      BY <1>1, <1>3, <2>1
    <2>3. /\ x \in Seq(S) /\ Len(x) = n - a - 1
          /\ \A i \in 1 .. n - a - 1 : x[i] = r[i + 1]
      BY <1>1, <1>2, <2>1
    <2>4. /\ y \in Seq(S) /\ Len(y) = n - a - 1
          /\ \A i \in 1 .. n - a - 1 : y[i] = q[a + 1 + i]
      BY <1>1, <2>1 DEF n
    <2>5. ASSUME NEW i \in 1 .. n - a - 1 PROVE x[i] = y[i]
      <3>1. i + 1 \in 1 .. n - a /\ a + (i + 1) = a + 1 + i
        BY <1>1, <2>1
      <3>2. r[i + 1] = q[a + (i + 1)]
        BY <1>3, <3>1
      <3> HIDE DEF x, y
      <3> QED BY <2>3, <2>4, <3>1, <3>2
    <2> HIDE DEF x, y
    <2>6. x = y
      BY <1>1, <2>1, <2>3, <2>4, <2>5
    <2> QED BY <2>1, <2>2, <2>6
  <1>5. (a + 1) + 1 = a + 2
    OBVIOUS
  <1> QED BY <1>2, <1>4, <1>5 DEF r, n

LEMMA SentTypes ==
    ASSUME ParserTypes, NEW s \in Sides
    PROVE  /\ sent[s] \in Seq(Message) /\ wire[s] \in Seq(Span)
           /\ Len(taken[s]) \in Nat /\ Len(sent[s]) \in Nat
           /\ Len(taken[s]) <= Len(sent[s]) => Owed(s) \in Seq(Message)
  <1>1. sent[s] \in Seq(Messages) /\ wire[s] \in Seq(Span) /\ Len(taken[s]) \in Nat
    BY DEF ParserTypes
  <1>2. Messages \subseteq Message
    BY ParserAssumption
  <1>3. sent[s] \in Seq(Message) /\ Len(sent[s]) \in Nat
    <2> HIDE DEF Message
    <2> QED BY <1>1, <1>2
  <1> QED BY <1>1, <1>3, LeftOver DEF Owed

LEMMA ParserInitInv == ParserInit => ParserIInv
  <1> SUFFICES ASSUME ParserInit PROVE ParserIInv
    OBVIOUS
  <1>1. sent \in [Sides -> Seq(Messages)]
    <2>1. sent \in [Sides -> UNION {[1 .. n -> Messages] : n \in 0 .. MaxSent}]
      BY DEF ParserInit
    <2>2. ASSUME NEW n \in 0 .. MaxSent, NEW f \in [1 .. n -> Messages]
          PROVE  f \in Seq(Messages)
      BY ParserAssumption
    <2> QED BY <2>1, <2>2
  <1>2. /\ wire = [s \in Sides |-> StreamOf(sent[s])]
        /\ parser = [s \in Sides |-> Fresh]
        /\ taken = [s \in Sides |-> <<>>]
        /\ tidy = [s \in Sides |-> TRUE]
    BY DEF ParserInit
  <1>3. ASSUME NEW s \in Sides
        PROVE  sent[s] \in Seq(Message) /\ Len(sent[s]) \in Nat /\ StreamOf(sent[s]) \in Seq(Span)
    <2>1. sent[s] \in Seq(Messages) /\ Messages \subseteq Message
      BY <1>1, ParserAssumption
    <2>2. sent[s] \in Seq(Message) /\ Len(sent[s]) \in Nat
      <3> HIDE DEF Message
      <3> QED BY <2>1
    <2> QED BY <2>2, StreamOfFacts
  <1>4. ParserTypes
    <2>1. wire \in [Sides -> Seq(Span)]
      BY <1>2, <1>3
    <2>2. \A s \in Sides : Fresh \in ParserRecord
      BY FreshHolds DEF Holds
    <2>3. parser \in [Sides -> ParserRecord]
      BY <1>2, <2>2
    <2>4. taken \in [Sides -> Seq([line : Seq(Byte), headers : Seq(Header),
                                   body : Seq(Byte \cup {Marker})])]
      <3> DEFINE R == [line : Seq(Byte), headers : Seq(Header), body : Seq(Byte \cup {Marker})]
      <3> HIDE DEF R
      <3>1. <<>> \in Seq(R)
        OBVIOUS
      <3>2. taken \in [Sides -> Seq(R)]
        BY <1>2, <3>1
      <3> QED BY <3>2 DEF R
    <2> QED BY <1>1, <1>2, <2>1, <2>3, <2>4 DEF ParserTypes
  <1>5. ASSUME NEW s \in Sides PROVE parser[s] \in Holds(s) /\ Tracks(s) /\ AsSent(s)
    <2>1. parser[s] = Fresh /\ taken[s] = <<>> /\ wire[s] = StreamOf(sent[s])
      BY <1>2
    <2>2. Owed(s) = sent[s] /\ Len(taken[s]) = 0
      BY <1>3, <2>1 DEF Owed
    <2>3. TracksTo(s, Fresh, StreamOf(sent[s]), sent[s])
      BY <1>3, StartTracks
    <2>4. Tracks(s)
      BY <1>3, <2>1, <2>2, <2>3 DEF Tracks
    <2>5. AsSent(s)
      BY <2>2 DEF AsSent
    <2> QED BY <2>1, <2>4, <2>5, FreshHolds
  <1> QED BY <1>4, <1>5 DEF ParserIInv

LEMMA FeedInv ==
    ASSUME ParserIInv, NEW s \in Sides, NEW n \in 1 .. Len(wire[s]), Feed(s, n)
    PROVE  ParserIInv'
  <1> DEFINE w == wire[s]
             p == parser[s]
             read == SubSeq(w, 1, n)
             rest == SubSeq(w, n + 1, Len(w))
             q == Execute(s, p, Spans(read))
             early == ~p.complete /\ \A i \in 1 .. n - 1 : read[i].kind # "end"
  <1>1. /\ wire' = [wire EXCEPT ![s] = rest]
        /\ parser' = [parser EXCEPT ![s] = IF p.complete THEN p ELSE q]
        /\ tidy' = [tidy EXCEPT ![s] = tidy[s] /\ early]
        /\ sent' = sent /\ taken' = taken
    BY DEF Feed, ParserIInv, ParserTypes
  <1>2. ParserTypes /\ \A t \in Sides : parser[t] \in Holds(t) /\ Tracks(t) /\ AsSent(t)
    BY DEF ParserIInv
  <1>3. w \in Seq(Span) /\ read \in Seq(Span) /\ rest \in Seq(Span)
    <2>1. w \in Seq(Span)
      BY <1>2, SentTypes
    <2>2. n \in 0 .. Len(w)
      BY <2>1
    <2> HIDE DEF w
    <2> QED BY <2>1, <2>2, CatParts
  <1>4. p \in Holds(s) /\ q \in Holds(s)
    <2>1. Spans(read) \in Seq(Span)
      BY <1>3, SpansFacts
    <2> QED BY <1>2, <2>1, ExecuteFacts
  <1>5. tidy[s] /\ early => TracksTo(s, q, rest, Owed(s)) /\ Len(taken[s]) <= Len(sent[s])
    <2> SUFFICES ASSUME tidy[s], early
                 PROVE  TracksTo(s, q, rest, Owed(s)) /\ Len(taken[s]) <= Len(sent[s])
      OBVIOUS
    <2>1. Len(taken[s]) <= Len(sent[s]) /\ TracksTo(s, p, w, Owed(s))
      BY <1>2 DEF Tracks
    <2>2. Owed(s) \in Seq(Message)
      BY <1>2, <2>1, SentTypes
    <2> HIDE DEF w, p
    <2>3. ~p.complete /\ (\A i \in 1 .. n - 1 : read[i].kind # "end") /\ n \in 1 .. Len(w)
      BY DEF w
    <2> QED BY <1>3, <1>4, <2>1, <2>2, <2>3, FeedTracks
  <1> DEFINE z == IF p.complete THEN p ELSE q
  <1>6. z \in Holds(s)
    BY <1>4
  <1>7. tidy'[s] => early /\ tidy[s] /\ z = q
    BY <1>1, <1>2 DEF ParserTypes
  <1> HIDE DEF w, p, read, rest, q, early
  <1>8. /\ wire'[s] = rest /\ parser'[s] = z
        /\ \A t \in Sides : t # s => /\ wire'[t] = wire[t] /\ parser'[t] = parser[t]
                                     /\ tidy'[t] = tidy[t]
    <2> HIDE DEF z
    <2> QED BY <1>1, <1>2 DEF ParserTypes, z
  <1> HIDE DEF z
  <1>9. ParserTypes'
    <2>1. z \in ParserRecord
      BY <1>6 DEF Holds
    <2>2. parser' = [parser EXCEPT ![s] = z]
      BY <1>1 DEF z
    <2>3. (tidy[s] /\ early) \in BOOLEAN
      OBVIOUS
    <2> DEFINE b == tidy[s] /\ early
    <2> HIDE DEF b
    <2>4. tidy' = [tidy EXCEPT ![s] = b] /\ b \in BOOLEAN
      BY <1>1, <2>3 DEF b
    <2> QED BY <1>1, <1>2, <1>3, <2>1, <2>2, <2>4 DEF ParserTypes
  <1>10. ASSUME NEW t \in Sides PROVE (parser[t] \in Holds(t) /\ Tracks(t) /\ AsSent(t))'
    <2>1. CASE t = s
      <3>1. (parser[t] \in Holds(t))'
        BY <1>6, <1>8, <2>1 DEF Holds
      <3>2. Tracks(t)'
        BY <1>1, <1>5, <1>7, <1>8, <2>1 DEF Tracks, Owed, early
      <3>3. AsSent(t)'
        BY <1>1, <1>2, <1>7, <2>1 DEF AsSent
      <3> QED BY <3>1, <3>2, <3>3
    <2>2. CASE t # s
      <3>1. wire'[t] = wire[t] /\ parser'[t] = parser[t] /\ tidy'[t] = tidy[t]
        BY <1>8, <2>2
      <3>2. (parser[t] \in Holds(t))'
        BY <1>2, <3>1 DEF Holds
      <3>3. Tracks(t)'
        BY <1>1, <1>2, <3>1 DEF Tracks, Owed
      <3>4. AsSent(t)'
        BY <1>1, <1>2, <3>1 DEF AsSent
      <3> QED BY <3>2, <3>3, <3>4
    <2> QED BY <2>1, <2>2
  <1> QED BY <1>9, <1>10 DEF ParserIInv

LEMMA TakeInv == ASSUME ParserIInv, NEW s \in Sides, Take(s) PROVE ParserIInv'
  <1> DEFINE p == parser[s]
             T == [line : Seq(Byte), headers : Seq(Header), body : Seq(Byte \cup {Marker})]
             r == [line |-> p.line, headers |-> p.headers, body |-> p.body]
             k == taken[s]
             a == Len(k)
             ms == Owed(s)
  <1>1. /\ p.complete
        /\ taken' = [taken EXCEPT ![s] = Then(k, r)]
        /\ parser' = [parser EXCEPT ![s] = Fresh]
        /\ sent' = sent /\ wire' = wire /\ tidy' = tidy
    BY DEF Take, Then
  <1>2. ParserTypes /\ \A t \in Sides : parser[t] \in Holds(t) /\ Tracks(t) /\ AsSent(t)
    BY DEF ParserIInv
  <1>3. p \in ParserRecord /\ Fresh \in ParserRecord /\ r \in T
    <2>1. p \in ParserRecord /\ Fresh \in ParserRecord
      BY <1>2, FreshHolds DEF Holds
    <2> QED BY <2>1 DEF ParserRecord
  <1>4. k \in Seq(T) /\ a \in Nat
    <2>1. k \in Seq(T)
      BY <1>2 DEF ParserTypes
    <2> HIDE DEF T, k
    <2> QED BY <2>1
  <1>5. /\ Then(k, r) \in Seq(T) /\ Len(Then(k, r)) = a + 1
        /\ Then(k, r)[a + 1] = r /\ \A i \in 1 .. a : Then(k, r)[i] = k[i]
    <2> HIDE DEF T, k, r
    <2>1. k \in Seq(T)
      BY <1>4
    <2>2. r \in T
      BY <1>3
    <2>3. IsThen(T, k, r, Then(k, r))
      BY <2>1, <2>2, ThenIs
    <2> QED BY <2>3 DEF IsThen
  <1>6. ASSUME tidy[s]
        PROVE  /\ a + 1 <= Len(sent[s])
               /\ TracksTo(s, Fresh, wire[s], SubSeq(sent[s], (a + 1) + 1, Len(sent[s])))
               /\ Matches(s, r, sent[s][a + 1])
    <2>1. a <= Len(sent[s]) /\ TracksTo(s, p, wire[s], ms)
      BY <1>2, <1>6 DEF Tracks
    <2>2. ms \in Seq(Message) /\ wire[s] \in Seq(Span) /\ sent[s] \in Seq(Message)
      BY <1>2, <2>1, SentTypes
    <2>3. /\ ms # <<>>
          /\ TracksTo(s, Fresh, wire[s], SubSeq(ms, 2, Len(ms)))
          /\ p.line = ms[1].line /\ p.headers = ms[1].headers /\ Kept(s, ms[1], p.body)
      <3> HIDE DEF ms, p
      <3> QED BY <1>1, <1>3, <2>1, <2>2, TakeTracks
    <2>4. /\ a + 1 <= Len(sent[s]) /\ ms[1] = sent[s][a + 1]
          /\ SubSeq(ms, 2, Len(ms)) = SubSeq(sent[s], (a + 1) + 1, Len(sent[s]))
      <3>1. ms = SubSeq(sent[s], a + 1, Len(sent[s]))
        BY DEF Owed
      <3> HIDE DEF ms, a
      <3> QED BY <1>4, <2>1, <2>2, <2>3, <3>1, LeftOver
    <2> HIDE DEF ms, p, a
    <2>5. Matches(s, r, sent[s][a + 1])
      BY <2>3, <2>4 DEF Matches
    <2> QED BY <2>3, <2>4, <2>5
  <1> HIDE DEF r, p, k, a, T
  <1>7. /\ taken'[s] = Then(k, r) /\ parser'[s] = Fresh
        /\ \A t \in Sides : t # s => taken'[t] = taken[t] /\ parser'[t] = parser[t]
    BY <1>1, <1>2 DEF ParserTypes
  <1>8. ParserTypes'
    <2>1. taken \in [Sides -> Seq(T)]
      BY <1>2 DEF ParserTypes, T
    <2>2. taken' \in [Sides -> Seq(T)]
      <3> DEFINE v == Then(k, r)
      <3>1. v \in Seq(T) /\ taken' = [taken EXCEPT ![s] = v]
        BY <1>1, <1>5
      <3> HIDE DEF v
      <3> QED BY <2>1, <3>1
    <2>3. parser' \in [Sides -> ParserRecord]
      BY <1>1, <1>2, <1>3 DEF ParserTypes
    <2> QED BY <1>1, <1>2, <2>2, <2>3 DEF ParserTypes, T
  <1>9. ASSUME NEW t \in Sides PROVE (parser[t] \in Holds(t) /\ Tracks(t) /\ AsSent(t))'
    <2>1. CASE t = s
      <3>1. (parser[t] \in Holds(t))'
        <4>1. Fresh \in Holds(s)
          BY FreshHolds
        <4> QED BY <1>7, <2>1, <4>1 DEF Holds
      <3>2. Tracks(t)'
        <4>1. /\ Len(taken'[s]) = a + 1
              /\ Owed(s)' = SubSeq(sent[s], (a + 1) + 1, Len(sent[s]))
          BY <1>1, <1>5, <1>7 DEF Owed
        <4> HIDE DEF Owed
        <4> QED BY <1>1, <1>6, <1>7, <2>1, <4>1 DEF Tracks
      <3>3. AsSent(t)'
        <4>1. ASSUME tidy[s], NEW i \in 1 .. a + 1
              PROVE  Matches(s, Then(k, r)[i], sent[s][i])
          <5>1. CASE i = a + 1
            BY <1>5, <1>6, <4>1, <5>1
          <5>2. CASE i # a + 1
            <6>1. i \in 1 .. a
              BY <1>4, <5>2
            <6>2. Matches(s, k[i], sent[s][i])
              BY <1>2, <4>1, <6>1 DEF AsSent, k, a
            <6> QED BY <1>5, <6>1, <6>2
          <5> QED BY <5>1, <5>2
        <4>2. taken'[s] = Then(k, r) /\ Len(taken'[s]) = a + 1
          BY <1>5, <1>7
        <4> QED BY <1>1, <2>1, <4>1, <4>2 DEF AsSent, Matches
      <3> QED BY <3>1, <3>2, <3>3
    <2>2. CASE t # s
      <3>1. taken'[t] = taken[t] /\ parser'[t] = parser[t]
        BY <1>7, <2>2
      <3>2. (parser[t] \in Holds(t))'
        BY <1>2, <3>1 DEF Holds
      <3>3. Tracks(t)'
        BY <1>1, <1>2, <3>1 DEF Tracks, Owed
      <3>4. AsSent(t)'
        BY <1>1, <1>2, <3>1 DEF AsSent, Matches
      <3> QED BY <3>2, <3>3, <3>4
    <2> QED BY <2>1, <2>2
  <1> QED BY <1>8, <1>9 DEF ParserIInv

LEMMA ResetInv == ASSUME ParserIInv, Reset PROVE ParserIInv'
  <1>1. /\ parser' = [s \in Sides |-> Fresh]
        /\ tidy' = [s \in Sides |-> tidy[s] /\ parser[s] = Fresh]
        /\ sent' = sent /\ wire' = wire /\ taken' = taken
    BY DEF Reset
  <1>2. ParserTypes /\ \A s \in Sides : parser[s] \in Holds(s) /\ Tracks(s) /\ AsSent(s)
    BY DEF ParserIInv
  <1>3. \A s \in Sides : Fresh \in Holds(s) /\ Fresh \in ParserRecord
    BY FreshHolds DEF Holds
  <1>4. ParserTypes'
    <2>1. parser' \in [Sides -> ParserRecord]
      BY <1>1, <1>3
    <2>2. tidy' \in [Sides -> BOOLEAN]
      BY <1>1
    <2> QED BY <1>1, <1>2, <2>1, <2>2 DEF ParserTypes
  <1>5. ASSUME NEW s \in Sides PROVE (parser[s] \in Holds(s) /\ Tracks(s) /\ AsSent(s))'
    <2>1. parser'[s] = Fresh /\ (tidy'[s] => tidy[s] /\ parser[s] = Fresh)
      BY <1>1
    <2>2. (parser[s] \in Holds(s))'
      BY <1>3, <2>1 DEF Holds
    <2>3. Tracks(s)'
      BY <1>1, <1>2, <2>1 DEF Tracks, Owed
    <2>4. AsSent(s)'
      BY <1>1, <1>2, <2>1 DEF AsSent, Matches
    <2> QED BY <2>2, <2>3, <2>4
  <1> QED BY <1>4, <1>5 DEF ParserIInv

LEMMA ParserStepInv == ParserIInv /\ [ParserNext]_parserVars => ParserIInv'
  <1> SUFFICES ASSUME ParserIInv, [ParserNext]_parserVars PROVE ParserIInv'
    OBVIOUS
  <1>1. ASSUME NEW s \in Sides, NEW n \in 1 .. Len(wire[s]), Feed(s, n) PROVE ParserIInv'
    BY <1>1, FeedInv
  <1>2. ASSUME NEW s \in Sides, Take(s) PROVE ParserIInv'
    BY <1>2, TakeInv
  <1>3. CASE Reset
    BY <1>3, ResetInv
  <1>4. CASE UNCHANGED parserVars
    <2>1. /\ sent' = sent /\ wire' = wire /\ parser' = parser
          /\ taken' = taken /\ tidy' = tidy
      BY <1>4 DEF parserVars
    <2>2. ParserTypes /\ \A s \in Sides : parser[s] \in Holds(s) /\ Tracks(s) /\ AsSent(s)
      BY DEF ParserIInv
    <2>3. ParserTypes'
      BY <2>1, <2>2 DEF ParserTypes
    <2>4. ASSUME NEW s \in Sides PROVE (parser[s] \in Holds(s) /\ Tracks(s) /\ AsSent(s))'
      <3>1. (parser[s] \in Holds(s))'
        BY <2>1, <2>2 DEF Holds
      <3>2. Tracks(s)'
        BY <2>1, <2>2 DEF Tracks, Owed
      <3>3. AsSent(s)'
        BY <2>1, <2>2 DEF AsSent, Matches
      <3> QED BY <3>1, <3>2, <3>3
    <2> QED BY <2>3, <2>4 DEF ParserIInv
  <1> QED BY <1>1, <1>2, <1>3, <1>4 DEF ParserNext

LEMMA ParserIInvSuffices == ParserIInv => ParserInv /\ TakenAsSent
  <1> SUFFICES ASSUME ParserIInv PROVE ParserInv /\ TakenAsSent
    OBVIOUS
  <1>1. ParserTypes /\ \A s \in Sides : parser[s] \in Holds(s) /\ Tracks(s) /\ AsSent(s)
    BY DEF ParserIInv
  <1>2. NoneLost
    <2> SUFFICES ASSUME NEW s \in Sides, tidy[s]
                 PROVE  Len(taken[s]) + (IF parser[s].complete THEN 1 ELSE 0)
                            = Len(sent[s]) - Ends(wire[s])
      BY DEF NoneLost
    <2> DEFINE a == Len(taken[s])
               n == Len(sent[s])
               e == Ends(wire[s])
               c == IF parser[s].complete THEN 1 ELSE 0
    <2>1. a <= n /\ TracksTo(s, parser[s], wire[s], Owed(s))
      BY <1>1 DEF Tracks
    <2>2. /\ Owed(s) \in Seq(Message) /\ wire[s] \in Seq(Span) /\ parser[s] \in ParserRecord
          /\ a \in Nat /\ n \in Nat /\ sent[s] \in Seq(Message)
      BY <1>1, <2>1, SentTypes DEF Holds
    <2>3. Len(Owed(s)) = n - a
      BY <2>1, <2>2, LeftOver DEF Owed
    <2>4. c = Len(Owed(s)) - e
      BY <2>1, <2>2, TracksEnds
    <2>5. e \in Nat
      BY <2>2, EndsFacts
    <2> HIDE DEF a, n, e, c
    <2>6. a + c = n - e
      BY <2>2, <2>3, <2>4, <2>5
    <2> QED BY <2>6 DEF a, n, e, c
  <1>3. BodyBounded
    <2>1. parser["response"] \in Holds("response")
      BY <1>1 DEF Sides
    <2> QED BY <2>1 DEF BodyBounded, Holds, Bounded
  <1>4. TakenAsSent
    <2> SUFFICES ASSUME NEW s \in Sides, tidy[s]
                 PROVE  /\ Len(taken[s]) <= Len(sent[s])
                        /\ \A i \in DOMAIN taken[s] : Matches(s, taken[s][i], sent[s][i])
      BY DEF TakenAsSent, Matches
    <2>1. DOMAIN taken[s] = 1 .. Len(taken[s])
      BY <1>1 DEF ParserTypes
    <2> QED BY <1>1, <2>1 DEF Tracks, AsSent
  <1> QED BY <1>1, <1>2, <1>3, <1>4 DEF ParserInv

\* Whatever the lengths of the reads and the number of messages, the parsers'
\* records are well formed, a message whose last byte was read is complete or
\* taken, and the copy of a response's body keeps its limit (feed, take, reset
\* and the callbacks).
THEOREM ParserInvariant == ParserSpec => []ParserInv
  <1>1. ParserIInv => ParserInv
    BY ParserIInvSuffices
  <1> QED BY ParserInitInv, ParserStepInv, <1>1, PTL DEF ParserSpec

\* However the stream is cut into reads, what take returns is what was sent,
\* message by message and header by header (on_header_field, on_header_value,
\* commitHeader, on_message_complete, take and reset).
THEOREM ParserTakenAsSent == ParserSpec => []TakenAsSent
  <1>1. ParserIInv => TakenAsSent
    BY ParserIInvSuffices
  <1> QED BY ParserInitInv, ParserStepInv, <1>1, PTL DEF ParserSpec
=============================================================================
