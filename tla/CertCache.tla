------------------------------ MODULE CertCache ------------------------------
(***************************************************************************)
(* CertCache: leaf certificates and SSL contexts per host, shared by the   *)
(* threads that start TLS sessions.  A lookup first tries under the shared *)
(* lock; a miss releases it and takes the exclusive lock, where anything   *)
(* may have changed meanwhile.  A step is one critical section of mutex_.  *)
(***************************************************************************)
EXTENDS Naturals, Sequences, FiniteSets, Queues

CONSTANTS
    Host,       \* host names (an empty one is refused before any lock)
    Thread,     \* the threads that call the cache
    MaxEntries, \* maxEntries_; 0 turns caching off
    MaxMint     \* bound: certificates generated for one host

ASSUME CacheAssumption == MaxEntries \in Nat /\ MaxMint \in Nat

Null == 0   \* a null context: generate or createSslContext failed

VARIABLES
    lru,        \* lruList_, the front first
    cache,      \* cache_: the context of each host that is resident
    pc, want,   \* what each thread is doing in getEntry, and for which host
    got,        \* the context its last call returned
    minted,     \* contexts created so far; they are numbered
    mints,      \* how often each host's certificate was generated
    drops       \* how often each host was evicted or cleared

callVars == <<pc, want, got>>
history  == <<minted, mints, drops>>
vars     == <<lru, cache, pc, want, got, minted, mints, drops>>

Resident == DOMAIN cache

TypeOK ==
    /\ lru \in Seq(Host)
    /\ Resident \subseteq Host /\ cache \in [Resident -> Nat]
    /\ pc \in [Thread -> {"idle", "read", "write"}]
    /\ want \in [Thread -> Host]
    /\ got \in [Thread -> Nat]
    /\ minted \in Nat
    /\ mints \in [Host -> Nat] /\ drops \in [Host -> Nat]

Init ==
    /\ lru = <<>> /\ cache = <<>>
    /\ pc = [t \in Thread |-> "idle"]
    /\ want \in [Thread -> Host]
    /\ got = [t \in Thread |-> Null]
    /\ minted = 0
    /\ mints = [h \in Host |-> 0] /\ drops = [h \in Host |-> 0]

-----------------------------------------------------------------------------
\* erase through the entry's iterator, then push_front.
ToFront(s, h) == <<h>> \o (IF Occurs(s, h) THEN Without(s, h) ELSE s)

Butlast(s) == SubSeq(s, 1, Len(s) - 1)

\* cache_.emplace, which leaves an entry that is there already alone.
Emplace(c, h, ctx) ==
    IF h \in DOMAIN c THEN c
    ELSE [x \in DOMAIN c \cup {h} |-> IF x = h THEN ctx ELSE c[x]]

Evicted(c, h) == [x \in DOMAIN c \ {h} |-> c[x]]

Returns(t, c) == pc' = [pc EXCEPT ![t] = "idle"] /\ got' = [got EXCEPT ![t] = c]

-----------------------------------------------------------------------------
Call(t, h) ==
    /\ pc[t] = "idle"
    /\ pc' = [pc EXCEPT ![t] = "read"]
    /\ want' = [want EXCEPT ![t] = h]
    /\ UNCHANGED <<lru, cache, got, history>>

\* The fast path, under the shared lock: a hit does not move the host.
Lookup(t) ==
    /\ pc[t] = "read"
    /\ LET h == want[t] IN
       IF h \in Resident
       THEN Returns(t, cache[h])
       ELSE /\ pc' = [pc EXCEPT ![t] = "write"]
            /\ UNCHANGED got
    /\ UNCHANGED <<lru, cache, want, history>>

\* The slow path finds that another thread was first.
FoundAfterAll(t) ==
    LET h == want[t] IN
    /\ h \in Resident
    /\ lru' = ToFront(lru, h)
    /\ Returns(t, cache[h])
    /\ UNCHANGED <<cache, want, history>>

\* generate() failed: nothing is cached.
GenerateFails(t) ==
    /\ Returns(t, Null)
    /\ UNCHANGED <<lru, cache, want, history>>

Full == MaxEntries > 0 /\ Cardinality(Resident) >= MaxEntries /\ lru # <<>>

\* Variant with a bug: the evicted host's certificate stays in the map.
EvictListOnly ==
    IF Full THEN [list |-> Butlast(lru), map |-> cache, gone |-> {}]
    ELSE [list |-> lru, map |-> cache, gone |-> {}]

Evict ==
    IF Full THEN [list |-> Butlast(lru), map |-> Evicted(cache, lru[Len(lru)]),
                  gone |-> {lru[Len(lru)]}]
    ELSE [list |-> lru, map |-> cache, gone |-> {}]

\* A certificate is made, the oldest entry evicted, and the pair cached even
\* if no context could be created from it.
Mint(t, ctx) ==
    LET h == want[t] IN
    /\ mints[h] < MaxMint
    /\ minted' = IF ctx = Null THEN minted ELSE minted + 1
    /\ mints' = [mints EXCEPT ![h] = @ + 1]
    /\ drops' = [x \in Host |-> IF x \in Evict.gone \/ (MaxEntries = 0 /\ x = h)
                                THEN drops[x] + 1 ELSE drops[x]]
    /\ IF MaxEntries > 0
       THEN /\ lru' = <<h>> \o Evict.list
            /\ cache' = Emplace(Evict.map, h, ctx)
       ELSE UNCHANGED <<lru, cache>>
    /\ Returns(t, ctx)
    /\ UNCHANGED want

\* Variant with a bug: the slow path does not look again.
MissUnchecked(t) ==
    /\ pc[t] = "write"
    /\ \/ GenerateFails(t)
       \/ \E ctx \in {Null, minted + 1} : Mint(t, ctx)

\* The slow path, under the exclusive lock.
Miss(t) ==
    /\ pc[t] = "write"
    /\ \/ FoundAfterAll(t)
       \/ want[t] \notin Resident /\ GenerateFails(t)
       \/ want[t] \notin Resident /\ \E ctx \in {Null, minted + 1} : Mint(t, ctx)

Touch(h) ==
    /\ h \in Resident
    /\ lru' = ToFront(lru, h)
    /\ UNCHANGED <<cache, callVars, minted, mints, drops>>

Clear ==
    /\ cache' = <<>> /\ lru' = <<>>
    /\ drops' = [h \in Host |-> IF h \in Resident THEN drops[h] + 1 ELSE drops[h]]
    /\ UNCHANGED <<callVars, minted, mints>>

Next ==
    \/ \E t \in Thread : (\E h \in Host : Call(t, h)) \/ Lookup(t) \/ Miss(t)
    \/ \E h \in Host : Touch(h)
    \/ Clear

Spec == Init /\ [][Next]_vars

-----------------------------------------------------------------------------
(* Properties *)

\* The list and the map hold the same hosts, each once, and no more than the
\* capacity: every lruIt stays valid and every eviction hits an entry.
ListMatchesMap ==
    /\ Distinct(lru)
    /\ \A h \in Host : Occurs(lru, h) <=> h \in Resident
WithinCapacity == IsFiniteSet(Resident) /\ Cardinality(Resident) <= MaxEntries

\* "CertCache prevents redundant certificate generation across concurrent
\* requests": every certificate that was generated is the resident one or was
\* evicted or cleared since, however the lookups of several threads interleave.
NoRedundantMint ==
    \A h \in Host : mints[h] = drops[h] + (IF h \in Resident THEN 1 ELSE 0)

IInv == TypeOK /\ ListMatchesMap /\ WithinCapacity /\ NoRedundantMint

\* A call returns the context every other caller gets: the resident one.
SharedContext ==
    [][\A t \in Thread :
         pc[t] # "idle" /\ pc'[t] = "idle" /\ want[t] \in DOMAIN cache'
         => got'[t] = cache'[want[t]]]_vars
=============================================================================
