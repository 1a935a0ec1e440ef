------------------------- MODULE SuLocalStoreProofs -------------------------
(***************************************************************************)
(* Proofs about the RocksDB store of a Scheduler Unit, for any messages,   *)
(* failures and restarts.                                                  *)
(***************************************************************************)
EXTENDS SuLocalStore, FiniteSetTheorems, SequenceTheorems, NaturalsInduction, WellFoundedInduction, TLAPS

Entry == [nonce : Nat, time : Nat, id : Ids, item : Items]

\* What has a composite key has an ordering entry, and a bundle, in the order of
\* the puts; and a message is put once under its id.
StoreInv ==
    /\ composite \subseteq Entry
    /\ ordering \subseteq composite
    /\ bundles \subseteq {m.id : m \in ordering}
    /\ deep \subseteq Pushed
    /\ cache \in {None} \cup Nat
    /\ write = NoWrite \/ write \in [step : Puts, entry : Entry]
    /\ clock \in Nat
    /\ acked \subseteq {m \in ordering : Readable(m)}
    /\ \A m, n \in composite : m.id = n.id => m = n
    /\ write.step = "composite" => write.entry.id \notin {m.id : m \in composite}
    /\ write.step = "ordering" => write.entry \in composite \ ordering
    /\ write.step = "bundle" => write.entry \in ordering /\ ~ Readable(write.entry)
    /\ write.step = "deep" => write.entry \in ordering /\ Readable(write.entry)

\* The nonces of the list, from that of the process on.
Listable == {Process.nonce} \cup {m.nonce : m \in {n \in ordering : Readable(n)}}

IsTop(nonce) == nonce \in Listable /\ \A k \in Listable : k <= nonce

\* The nonce in memory is the last of the list, and the message being saved takes
\* the one that follows, or is the last when its bundle is put.
ChainInv ==
    /\ ReadableChain
    /\ cache # None /\ write.step # "deep" => IsTop(cache)
    /\ write.step \in Puts \ {"deep"} => IsTop(write.entry.nonce - 1)
    /\ write.step = "deep" => IsTop(write.entry.nonce)

\* A message without a bundle is being saved, or its save was cut short; and no
\* item is being saved that was.
ItemInv ==
    /\ ItemOnce
    /\ \A m \in composite :
          \/ Readable(m)
          \/ m.item \in cut
          \/ write.step \in {"ordering", "bundle"} /\ m = write.entry
    /\ \A m \in acked : m.item \in Pushed => m.item \in deep
    /\ write.step \in Puts =>
          \A m \in acked : m.item = write.entry.item => m.item \in cut

Base == StoreInv /\ ItemInv

\* The ordering entries, torn ones too, have nonces in the order of their times:
\* the message being saved is later than what is put, and the next one takes a
\* nonce that is no less than any.
OrderInv ==
    /\ IsFiniteSet(ordering)
    /\ \A m \in ordering : m.nonce > 0 /\ m.time > 0 /\ m.time <= clock
    /\ \A m, n \in ordering : m.time = n.time => m = n
    /\ \A m, n \in ordering : m.time < n.time => m.nonce <= n.nonce
    /\ cache # None => \A m \in ordering : m.nonce <= cache + 1
    /\ write.step \in Puts =>
          /\ write.entry.nonce > 0 /\ write.entry.time > 0 /\ write.entry.time <= clock
          /\ cache # None => write.entry.nonce <= cache + 1
          /\ \A m \in ordering : m.nonce <= write.entry.nonce
    /\ write.step \in {"composite", "ordering"} =>
          \A m \in ordering : m.time < write.entry.time

\* Every query that is asked, and every one that follows it.
QueryTyped(q) ==
    q \in [mode : Modes, from : {None, -1} \cup Nat, to : {None} \cup Nat, limit : Nat \ {0}]

Entries == ordering \cup {Process}

\* A page holds, in order, a first part of what the query is about: of what the
\* reader knows it leaves out only what comes after all of it, and it claims to
\* be followed only when it is full.
PageOf(page, q) ==
    /\ page = [edges |-> page.edges, more |-> page.more]
    /\ page.edges \in Seq(Entries)
    /\ \A i, j \in DOMAIN page.edges : i < j => page.edges[i].time < page.edges[j].time
    /\ \A m \in ToSet(page.edges) : IF m = Process THEN IncludesProcess(q) ELSE InRange(q, m)
    /\ \A m \in reader.known : InRange(q, m) =>
          \/ m \in ToSet(page.edges)
          \/ page.more /\ \A n \in ToSet(page.edges) : n.time < m.time
    /\ page.more => Len(page.edges) = q.limit

\* What was read before the query: in order and without repetition, all the reader
\* knows up to the place the query starts from.
GotBefore(got, q) ==
    /\ got \in Seq(Entries)
    /\ \A i, j \in DOMAIN got : i < j => got[i].nonce < got[j].nonce
    /\ \A m \in ToSet(got) \ {Process} : Readable(m) /\ InRange(reader.first, m)
    /\ got = <<>> => q = reader.first
    /\ got # <<>> =>
          /\ q.from = Cursor(q.mode, Last(got))
          /\ reader.first.from # None => reader.first.from <= q.from
          /\ \A m \in reader.known :
                InRange(reader.first, m) /\ Cursor(q.mode, m) <= q.from => m \in ToSet(got)

\* A reader asks what it first asked, from a place further on; and while the entries
\* that are torn and the one being saved leave room in a page, it has read all before
\* that place.
ReaderInv ==
    reader # NoReader =>
       /\ reader = [step |-> reader.step, query |-> reader.query, page |-> reader.page,
                    got |-> reader.got, first |-> reader.first, known |-> reader.known]
       /\ reader.step \in {"keys", "bundles"}
       /\ reader.first \in Asked
       /\ reader.known \subseteq {m \in ordering : Readable(m)}
       /\ reader.first.limit > 1 =>
             /\ QueryTyped(reader.query)
             /\ reader.query = [reader.first EXCEPT !.from = reader.query.from]
             /\ reader.step = "bundles" => PageOf(reader.page, reader.query)
             /\ reader.first.limit > Cardinality(Torn) + 1 => GotBefore(reader.got, reader.query)

-----------------------------------------------------------------------------
(* Lists in an order.                                                      *)

\* A strict total order on a set.
Orders(R, S) ==
    /\ \A m \in S : <<m, m>> \notin R
    /\ \A m, n, k \in S : <<m, n>> \in R /\ <<n, k>> \in R => <<m, k>> \in R
    /\ \A m, n \in S : m = n \/ <<m, n>> \in R \/ <<n, m>> \in R

Below(R, S, m) == {n \in S : <<n, m>> \in R}

InRank(R, S) ==
    [i \in 1 .. Cardinality(S) |-> CHOOSE m \in S : Cardinality(Below(R, S, m)) = i - 1]

\* How many elements are below one.
LEMMA BelowIs ==
    ASSUME NEW S, IsFiniteSet(S), NEW R, Orders(R, S), NEW m \in S
    PROVE  Cardinality(Below(R, S, m)) \in Nat /\ Cardinality(Below(R, S, m)) < Cardinality(S)
<1>1. Below(R, S, m) \in SUBSET S /\ Below(R, S, m) # S
  BY DEF Below, Orders
<1>2. /\ Cardinality(Below(R, S, m)) \in Nat /\ Cardinality(S) \in Nat
      /\ Cardinality(Below(R, S, m)) <= Cardinality(S)
      /\ Cardinality(S) # Cardinality(Below(R, S, m))
  BY <1>1, FS_Subset, FS_CardinalityType
<1>3. QED
  BY <1>2

\* There are more below a greater one.
LEMMA BelowGrows ==
    ASSUME NEW S, IsFiniteSet(S), NEW R, Orders(R, S), NEW m \in S, NEW n \in S, <<m, n>> \in R
    PROVE  Cardinality(Below(R, S, m)) < Cardinality(Below(R, S, n))
<1>1. Below(R, S, m) \in SUBSET Below(R, S, n) /\ Below(R, S, m) # Below(R, S, n)
  BY DEF Below, Orders
<1>2. Below(R, S, n) \in SUBSET S
  BY DEF Below
<1>3. IsFiniteSet(Below(R, S, n))
  BY <1>2, FS_Subset
<1>4. /\ Cardinality(Below(R, S, m)) <= Cardinality(Below(R, S, n))
      /\ Cardinality(Below(R, S, n)) # Cardinality(Below(R, S, m))
  BY <1>1, <1>3, FS_Subset
<1>5. Cardinality(Below(R, S, m)) \in Nat /\ Cardinality(Below(R, S, n)) \in Nat
  BY BelowIs
<1>6. QED
  BY <1>4, <1>5

\* The sequence s lists the elements of a set in an order, each once.
Lists(s, R, S) ==
    /\ s \in Seq(S) /\ Len(s) \in Nat /\ DOMAIN s = 1 .. Len(s)
    /\ \A i, j \in DOMAIN s : i < j => <<s[i], s[j]>> \in R
    /\ \A m \in S : \E i \in DOMAIN s : s[i] = m

\* The elements of an ordered finite set are listed by their ranks.
LEMMA Ranked ==
    ASSUME NEW S, IsFiniteSet(S), NEW R, Orders(R, S)
    PROVE  Lists(InRank(R, S), R, S)
<1> PICK s : s = InRank(R, S)
  OBVIOUS
<1> PICK N : N = Cardinality(S)
  OBVIOUS
<1> PICK rank : rank = [m \in S |-> Cardinality(Below(R, S, m)) + 1]
  OBVIOUS
<1>1. N \in Nat
  BY FS_CardinalityType
<1>2. rank \in [S -> 1 .. N]
  BY <1>1, BelowIs
<1>3. ASSUME NEW m \in S, NEW n \in S, <<m, n>> \in R PROVE rank[m] < rank[n]
  BY <1>3, BelowIs, BelowGrows
<1>4. ASSUME NEW m \in S, NEW n \in S, rank[m] = rank[n] PROVE m = n
  <2>1. ~ (<<m, n>> \in R) /\ ~ (<<n, m>> \in R)
    BY <1>1, <1>2, <1>3, <1>4
  <2>2. QED
    BY <2>1, Zenon DEF Orders
<1>5. rank \in Surjection(S, 1 .. N)
  <2>1. rank \in Injection(S, 1 .. N)
    BY <1>2, <1>4 DEF Injection, IsInjective
  <2>2. IsFiniteSet(1 .. N) /\ Cardinality(1 .. N) = N
    BY <1>1, FS_Interval
  <2>3. QED
    BY <2>1, <2>2, FS_Injection
<1>6. ASSUME NEW i \in 1 .. N PROVE s[i] \in S /\ rank[s[i]] = i
  <2>1. PICK m \in S : rank[m] = i
    BY <1>5 DEF Surjection
  <2>2. \A n \in S : rank[n] = i <=> Cardinality(Below(R, S, n)) = i - 1
    BY <1>1, BelowIs
  <2>3. s[i] = CHOOSE n \in S : Cardinality(Below(R, S, n)) = i - 1
    BY DEF InRank
  <2>4. s[i] \in S /\ Cardinality(Below(R, S, s[i])) = i - 1
    BY <2>1, <2>2, <2>3, Zenon
  <2>5. QED
    BY <2>2, <2>4, Zenon
<1>7. s \in [1 .. N -> S]
  BY <1>6 DEF InRank
<1>8. s \in Seq(S) /\ Len(s) = N /\ DOMAIN s = 1 .. N
  <2>1. \A f \in [1 .. N -> S] : f \in Seq(S) /\ Len(f) = N /\ DOMAIN f = 1 .. N
    BY <1>1
  <2>2. QED
    BY <1>7, <2>1, Zenon
<1>9. ASSUME NEW i \in 1 .. N, NEW j \in 1 .. N, i < j PROVE <<s[i], s[j]>> \in R
  <2>1. s[i] \in S /\ s[j] \in S /\ rank[s[i]] = i /\ rank[s[j]] = j
    BY <1>6
  <2>2. ~ (j < i) /\ i # j
    BY <1>1, <1>9
  <2>3. s[i] # s[j] /\ ~ (<<s[j], s[i]>> \in R)
    BY <1>3, <2>1, <2>2, Zenon
  <2>4. QED
    BY <2>1, <2>3, Zenon DEF Orders
<1>10. ASSUME NEW m \in S PROVE \E i \in 1 .. N : s[i] = m
  BY <1>2, <1>4, <1>6
<1>11. QED
  BY <1>1, <1>8, <1>9, <1>10 DEF Lists

\* A first part of a sequence.
LEMMA PrefixIs ==
    ASSUME NEW S, NEW s \in Seq(S), NEW n \in Nat
    PROVE  /\ Prefix(s, n) \in Seq(S)
           /\ Len(Prefix(s, n)) = IF n < Len(s) THEN n ELSE Len(s)
           /\ DOMAIN Prefix(s, n) = 1 .. Len(Prefix(s, n))
           /\ \A i \in DOMAIN Prefix(s, n) : Prefix(s, n)[i] = s[i]
BY DEF Prefix

-----------------------------------------------------------------------------

\* A set of numbers that is not empty has a least element.
LEMMA LeastNumber ==
    ASSUME NEW S \in SUBSET Nat, S # {}
    PROVE  \E n \in S : \A m \in S : n <= m
<1> DEFINE less == {ss \in Nat \X Nat : ss[1] < ss[2]}
<1>1. OpToRel(<, Nat) = less
  BY Zenon DEF OpToRel
<1>2. IsWellFoundedOn(less, Nat)
  BY <1>1, NatLessThanWellFounded, Zenon
<1> HIDE DEF less
<1>3. PICK n \in S : \A m \in S : ~(<<m, n>> \in less)
  BY <1>2, WFMin, Zenon
<1>4. \A m \in S : ~(m < n)
  BY <1>3 DEF less
<1>5. QED
  BY <1>4

\* What the puts of one save write.
LEMMA WriteIs ==
    ASSUME StoreInv
    PROVE  /\ write = NoWrite <=> write.step = "none"
           /\ write.step \in Puts => write \in [step : Puts, entry : Entry]
           /\ write.step \in Puts \cup {"none"}
BY DEF StoreInv, NoWrite, Puts

\* A message begins with the nonce after the one in memory or in the store.
LEMMA BeginIs ==
    ASSUME StoreInv, NEW item \in Items, NEW id \in Ids, Begin(item, id)
    PROVE  \E nonce \in IF cache # None THEN {cache} ELSE LatestNonces :
              /\ nonce \in Nat
              /\ write' \in [step : Puts, entry : Entry]
              /\ write'.step = "composite"
              /\ write'.entry.nonce = nonce + 1 /\ write'.entry.id = id
              /\ write'.entry.item = item
<1>1. PICK nonce \in IF cache # None THEN {cache} ELSE LatestNonces :
         write' = [step |-> "composite",
                   entry |-> [nonce |-> nonce + 1, time |-> clock + 1, id |-> id, item |-> item]]
  BY DEF Begin
<1>2. nonce \in Nat
  <2>1. \A m \in ordering : m.nonce \in Nat
    BY DEF StoreInv, Entry
  <2>2. LatestNonces \subseteq Nat
    BY <2>1 DEF LatestNonces, Process
  <2>3. QED
    BY <1>1, <2>2 DEF StoreInv
<1>3. [nonce |-> nonce + 1, time |-> clock + 1, id |-> id, item |-> item] \in Entry
  BY <1>2 DEF StoreInv, Entry
<1>4. QED
  BY <1>1, <1>2, <1>3 DEF Puts

\* A put adds its message to a database, and the next put follows.
LEMMA PutIs ==
    ASSUME StoreInv
    PROVE  /\ PutComposite =>
                 /\ write' \in [step : Puts, entry : Entry]
                 /\ write'.step = "ordering" /\ write'.entry = write.entry
           /\ PutOrdering =>
                 /\ write' \in [step : Puts, entry : Entry]
                 /\ write'.step = "bundle" /\ write'.entry = write.entry
           /\ PutBundle =>
                 /\ write' \in [step : Puts, entry : Entry]
                 /\ write'.step = "deep" /\ write'.entry = write.entry
BY WriteIs DEF PutComposite, PutOrdering, PutBundle, Puts

\* Every step keeps the stores and the save under way consistent.
LEMMA StoreNext == StoreInv /\ [Next]_vars => StoreInv'
<1> SUFFICES ASSUME StoreInv, [Next]_vars PROVE StoreInv'
  OBVIOUS
<1> USE DEF Readable
<1>1. ASSUME NEW item \in Items, NEW id \in Ids, Begin(item, id) PROVE StoreInv'
  <2>1. /\ write' \in [step : Puts, entry : Entry] /\ write'.step = "composite"
        /\ write'.entry.id = id
    BY <1>1, BeginIs
  <2>2. clock' = clock + 1 /\ UNCHANGED <<composite, ordering, bundles, deep, cache, acked>>
        /\ id \notin {m.id : m \in composite}
    BY <1>1 DEF Begin, keys
  <2>3. QED
    BY <2>1, <2>2 DEF StoreInv
<1>2. CASE PutComposite
  <2>1. /\ write' \in [step : Puts, entry : Entry]
        /\ write'.step = "ordering" /\ write'.entry = write.entry
    BY <1>2, PutIs
  <2>2. /\ write.step = "composite" /\ write.entry \in Entry
        /\ composite' = composite \cup {write.entry}
        /\ UNCHANGED <<ordering, bundles, deep, cache, acked, clock>>
    BY <1>2, WriteIs DEF PutComposite, Puts
  <2>3. QED
    BY <2>1, <2>2 DEF StoreInv
<1>3. CASE PutOrdering
  <2>1. /\ write' \in [step : Puts, entry : Entry]
        /\ write'.step = "bundle" /\ write'.entry = write.entry
    BY <1>3, PutIs
  <2>2. /\ write.step = "ordering" /\ write.entry \in composite \ ordering
        /\ ordering' = ordering \cup {write.entry}
        /\ UNCHANGED <<composite, bundles, deep, cache, acked, clock>>
    BY <1>3 DEF PutOrdering, StoreInv
  <2>3. write.entry.id \notin bundles
    BY <2>2 DEF StoreInv
  <2>4. QED
    BY <2>1, <2>2, <2>3 DEF StoreInv
<1>4. CASE PutBundle
  <2>1. /\ write' \in [step : Puts, entry : Entry]
        /\ write'.step = "deep" /\ write'.entry = write.entry
    BY <1>4, PutIs
  <2>2. /\ write.step = "bundle" /\ write.entry \in ordering
        /\ bundles' = bundles \cup {write.entry.id}
        /\ UNCHANGED <<composite, ordering, deep, cache, acked, clock>>
    BY <1>4 DEF PutBundle, StoreInv
  <2>3. QED
    BY <2>1, <2>2 DEF StoreInv
<1>5. CASE PutDeepHash
  <2>1. /\ write.step = "deep" /\ write.entry \in Entry
        /\ deep' = IF write.entry.item \in Pushed THEN deep \cup {write.entry.item} ELSE deep
        /\ cache' = write.entry.nonce
        /\ acked' = acked \cup {write.entry}
        /\ write' = NoWrite /\ write'.step = "none"
        /\ UNCHANGED <<composite, ordering, bundles, clock>>
    BY <1>5, WriteIs DEF PutDeepHash, Puts, NoWrite
  <2>2. cache' \in Nat
    BY <2>1 DEF Entry
  <2>3. QED
    BY <2>1, <2>2 DEF StoreInv
<1>6. CASE PutFails \/ Crash
  <2>1. /\ write' = NoWrite /\ write'.step = "none" /\ cache' \in {cache, None}
        /\ UNCHANGED <<composite, ordering, bundles, deep, acked, clock>>
    BY <1>6 DEF PutFails, Crash, NoWrite, keys
  <2>2. QED
    BY <2>1 DEF StoreInv
<1>7. CASE Read \/ (\E q \in Asked : BeginRead(q)) \/ UNCHANGED vars
  <2>1. UNCHANGED <<composite, ordering, bundles, deep, cache, acked, clock, write>>
    BY <1>7 DEF Read, FetchKeys, FetchBundles, BeginRead, vars, keys
  <2>2. QED
    BY <2>1 DEF StoreInv
<1>8. QED
  BY <1>1, <1>2, <1>3, <1>4, <1>5, <1>6, <1>7 DEF Next, Save

-----------------------------------------------------------------------------
(* An item is saved once.                                                  *)

\* An item that is found by its id has an assignment that can be read; and one
\* that is not, but was saved, was also cut short.
LEMMA NotFound ==
    ASSUME StoreInv, ItemInv, write = NoWrite, NEW m \in acked, ~ Found(m.item)
    PROVE  m.item \in cut
<1> DEFINE assigned == {n \in composite : n.item = m.item}
<1>1. m \in assigned
  BY DEF StoreInv
<1>2. PICK ids : ids = {n.id : n \in assigned}
  OBVIOUS
<1>3. PICK id \in ids : \A i \in ids : id <= i
  <2>1. \A n \in assigned : n.id \in Ids
    BY DEF StoreInv, Entry
  <2>2. Ids \in SUBSET Nat
    BY LocalStoreAssumption
  <2>3. ids \in SUBSET Nat
    BY <1>2, <2>1, <2>2
  <2>4. m.id \in ids
    BY <1>1, <1>2
  <2>5. QED
    BY <2>3, <2>4, LeastNumber
<1>4. PICK n \in assigned : n.id = id
  BY <1>2, <1>3
<1>5. \A k \in assigned : n.id <= k.id
  BY <1>2, <1>3, <1>4
<1>6. ~ Readable(n)
  BY <1>5 DEF Found
<1>7. write.step = "none"
  BY WriteIs
<1>8. QED
  BY <1>4, <1>6, <1>7 DEF ItemInv

\* Every step keeps one entry per item, and a deep hash for each that is
\* committed.
LEMMA ItemNext == StoreInv /\ ItemInv /\ [Next]_vars => ItemInv'
<1> SUFFICES ASSUME StoreInv, ItemInv, [Next]_vars PROVE ItemInv'
  OBVIOUS
<1> USE DEF Readable
<1>1. ASSUME NEW item \in Items, NEW id \in Ids, Begin(item, id) PROVE ItemInv'
  <2>1. write'.step = "composite" /\ write'.entry.item = item
    BY <1>1, BeginIs
  <2>2. write = NoWrite /\ UNCHANGED <<composite, ordering, bundles, deep, acked, cut>>
    BY <1>1 DEF Begin, keys
  <2>3. ASSUME NEW m \in acked, m.item = item PROVE m.item \in cut
    BY <1>1, <2>2, <2>3, NotFound DEF Begin, ItemInv
  <2>4. QED
    BY <2>1, <2>2, <2>3, WriteIs DEF ItemInv, ItemOnce
<1>2. CASE PutComposite
  <2>1. write'.step = "ordering" /\ write'.entry = write.entry
    BY <1>2, PutIs
  <2>2. /\ write.step = "composite" /\ composite' = composite \cup {write.entry}
        /\ UNCHANGED <<bundles, deep, acked, cut>>
    BY <1>2 DEF PutComposite
  <2>3. QED
    BY <2>1, <2>2 DEF ItemInv, ItemOnce, Puts
<1>3. CASE PutOrdering
  <2>1. write'.step = "bundle" /\ write'.entry = write.entry
    BY <1>3, PutIs
  <2>2. write.step = "ordering" /\ UNCHANGED <<composite, bundles, deep, acked, cut>>
    BY <1>3 DEF PutOrdering
  <2>3. QED
    BY <2>1, <2>2 DEF ItemInv, ItemOnce, Puts
<1>4. CASE PutBundle
  <2>1. write'.step = "deep" /\ write'.entry = write.entry
    BY <1>4, PutIs
  <2>2. /\ write.step = "bundle" /\ bundles' = bundles \cup {write.entry.id}
        /\ UNCHANGED <<composite, deep, acked, cut>>
    BY <1>4 DEF PutBundle
  <2>3. QED
    BY <2>1, <2>2 DEF ItemInv, ItemOnce, Puts
<1>5. CASE PutDeepHash
  <2>1. /\ write.step = "deep"
        /\ deep' = IF write.entry.item \in Pushed THEN deep \cup {write.entry.item} ELSE deep
        /\ acked' = acked \cup {write.entry}
        /\ write'.step = "none"
        /\ UNCHANGED <<composite, bundles, cut>>
    BY <1>5 DEF PutDeepHash, NoWrite
  <2>2. \A m \in acked : m.item = write.entry.item => m.item \in cut
    BY <2>1 DEF ItemInv, Puts
  <2>3. ItemOnce'
    BY <2>1, <2>2 DEF ItemInv, ItemOnce
  <2>4. \A m \in acked' : m.item \in Pushed => m.item \in deep'
    BY <2>1 DEF ItemInv
  <2>5. \A m \in composite' : Readable(m)' \/ m.item \in cut'
    BY <2>1 DEF ItemInv
  <2>6. QED
    BY <2>1, <2>3, <2>4, <2>5 DEF ItemInv, Puts
<1>6. CASE PutFails \/ Crash
  <2>1. /\ write'.step = "none" /\ UNCHANGED <<composite, bundles, deep, acked>>
        /\ cut \subseteq cut' /\ (write.step \in Puts => write.entry.item \in cut')
    BY <1>6, WriteIs DEF PutFails, Crash, NoWrite, keys, Puts
  <2>2. QED
    BY <2>1 DEF ItemInv, ItemOnce, Puts
<1>7. CASE Read \/ (\E q \in Asked : BeginRead(q)) \/ UNCHANGED vars
  <2>1. UNCHANGED <<composite, ordering, bundles, deep, cut, acked, write>>
    BY <1>7 DEF Read, FetchKeys, FetchBundles, BeginRead, vars, keys
  <2>2. QED
    BY <2>1 DEF ItemInv, ItemOnce
<1>8. QED
  BY <1>1, <1>2, <1>3, <1>4, <1>5, <1>6, <1>7 DEF Next, Save

-----------------------------------------------------------------------------
(* The nonces of what can be read.                                         *)

\* There is at most one last nonce, and the nonce to follow is it.
LEMMA LatestIsTop ==
    ASSUME StoreInv, NEW nonce \in LatestNonces, ChainInv,
           \A m \in ordering : m.nonce \in Nat
    PROVE  IsTop(nonce)
<1>1. CASE ordering = {}
  BY <1>1 DEF LatestNonces, IsTop, Listable, Process
<1>2. CASE ordering # {}
  <2>1. PICK n \in ordering : /\ Readable(n) /\ nonce = n.nonce
                              /\ \A k \in ordering \ {n} : KeyLess(k, n)
    BY <1>2 DEF LatestNonces
  <2>2. \A k \in ordering : k.nonce <= n.nonce
    BY <2>1 DEF KeyLess
  <2>3. QED
    BY <2>1, <2>2 DEF IsTop, Listable, Process
<1>3. QED
  BY <1>1, <1>2

\* Every step keeps the readable entries numbered without a gap.
LEMMA ChainNext ==
    ASSUME "deep" \notin FailingPuts, StoreInv, ChainInv, [Next]_vars
    PROVE  ChainInv'
<1>1. /\ \A m \in ordering : m \in Entry /\ m.nonce \in Nat
      /\ Listable \subseteq Nat
  BY DEF StoreInv, Entry, Listable, Process
<1>2. ASSUME UNCHANGED <<ordering, bundles>>
      PROVE  /\ Listable' = Listable /\ ReadableChain'
             /\ \A nonce : IsTop(nonce)' <=> IsTop(nonce)
  <2>1. Listable' = Listable /\ ReadableChain'
    BY <1>2 DEF Listable, Readable, ReadableChain, ChainInv
  <2>2. QED
    BY <2>1 DEF IsTop
<1>3. ASSUME NEW item \in Items, NEW id \in Ids, Begin(item, id) PROVE ChainInv'
  <2>1. PICK nonce \in IF cache # None THEN {cache} ELSE LatestNonces :
               /\ nonce \in Nat /\ write'.step = "composite"
               /\ write'.entry.nonce = nonce + 1
    BY <1>3, BeginIs
  <2>2. write.step = "none" /\ UNCHANGED <<ordering, bundles, cache>>
    BY <1>3 DEF Begin, keys, NoWrite
  <2>3. IsTop(nonce)
    BY <1>1, <2>1, <2>2, LatestIsTop DEF ChainInv
  <2>4. write'.entry.nonce - 1 = nonce
    BY <2>1
  <2>5. QED
    BY <1>2, <2>1, <2>2, <2>3, <2>4 DEF ChainInv
<1>4. CASE PutComposite
  <2>1. write'.step = "ordering" /\ write'.entry = write.entry
    BY <1>4, PutIs
  <2>2. write.step = "composite" /\ UNCHANGED <<ordering, bundles, cache>>
    BY <1>4 DEF PutComposite
  <2>3. QED
    BY <1>2, <2>1, <2>2 DEF ChainInv, Puts
<1>5. CASE PutOrdering
  <2>1. write'.step = "bundle" /\ write'.entry = write.entry
    BY <1>5, PutIs
  <2>2. /\ write.step = "ordering" /\ write.entry \in composite \ ordering
        /\ ordering' = ordering \cup {write.entry} /\ UNCHANGED <<bundles, cache>>
    BY <1>5 DEF PutOrdering, StoreInv
  <2>3. write.entry.id \notin bundles
    BY <2>2 DEF StoreInv
  <2>4. {m \in ordering' : Readable(m)'} = {m \in ordering : Readable(m)}
    BY <2>2, <2>3 DEF Readable
  <2>5. Listable' = Listable /\ ReadableChain'
    BY <2>4 DEF Listable, ReadableChain, ChainInv
  <2>6. QED
    BY <2>1, <2>2, <2>5 DEF ChainInv, Puts, IsTop
<1>6. CASE PutBundle
  <2>1. write'.step = "deep" /\ write'.entry = write.entry
    BY <1>6, PutIs
  <2>2. /\ write.step = "bundle" /\ write.entry \in ordering /\ ~ Readable(write.entry)
        /\ bundles' = bundles \cup {write.entry.id} /\ UNCHANGED <<ordering, cache>>
    BY <1>6 DEF PutBundle, StoreInv
  <2>3. {m \in ordering' : Readable(m)'} = {m \in ordering : Readable(m)} \cup {write.entry}
    BY <2>2 DEF Readable, StoreInv
  <2>4. PICK top : top = write.entry.nonce - 1
    OBVIOUS
  <2>5. IsTop(top) /\ write.entry.nonce = top + 1 /\ top \in Nat
    <3>1. IsTop(top) /\ top \in Nat
      BY <1>1, <2>2, <2>4 DEF ChainInv, Puts, IsTop
    <3>2. write.entry.nonce \in Nat
      BY <1>1, <2>2
    <3>3. QED
      BY <2>4, <3>1, <3>2
  <2>6. Listable' = Listable \cup {write.entry.nonce}
    BY <2>3 DEF Listable
  <2>7. IsTop(write.entry.nonce)'
    <3>1. write'.entry.nonce \in Listable'
      BY <2>1, <2>6
    <3>2. \A k \in Listable : k \in Nat /\ k <= top
      BY <1>1, <2>5 DEF IsTop, Listable
    <3>3. \A k \in Listable' : k <= write'.entry.nonce
      BY <2>1, <2>5, <2>6, <3>2
    <3>4. QED
      BY <3>1, <3>3 DEF IsTop
  <2>8. \A m \in ordering : Readable(m) => m.nonce <= top
    BY <2>5 DEF IsTop, Listable
  <2>9. top > 0 => \E n \in ordering : Readable(n) /\ n.nonce = top
    BY <2>5 DEF IsTop, Listable, Process
  <2>10. ReadableChain'
    <3> SUFFICES /\ \A m, n \in {k \in ordering : Readable(k)} \cup {write.entry} :
                       m.nonce = n.nonce => m = n
                 /\ \A m \in {k \in ordering : Readable(k)} \cup {write.entry} :
                       m.nonce > 1 => \E n \in {k \in ordering : Readable(k)} \cup {write.entry} :
                                         n.nonce = m.nonce - 1
      BY <2>3 DEF ReadableChain
    <3>1. \A m \in ordering : Readable(m) => m.nonce # write.entry.nonce
      BY <1>1, <2>5, <2>8
    <3>2. \A m, n \in {k \in ordering : Readable(k)} : m.nonce = n.nonce => m = n
      BY DEF ChainInv, ReadableChain
    <3>3. \A m \in {k \in ordering : Readable(k)} :
             m.nonce > 1 => \E n \in {k \in ordering : Readable(k)} : n.nonce = m.nonce - 1
      BY DEF ChainInv, ReadableChain
    <3>4. write.entry.nonce > 1 =>
             \E n \in {k \in ordering : Readable(k)} : n.nonce = write.entry.nonce - 1
      BY <2>5, <2>9
    <3>5. QED
      BY <3>1, <3>2, <3>3, <3>4
  <2>11. QED
    BY <2>1, <2>7, <2>10 DEF ChainInv
<1>7. CASE PutDeepHash
  <2>1. /\ write.step = "deep" /\ cache' = write.entry.nonce /\ write'.step = "none"
        /\ UNCHANGED <<ordering, bundles>>
    BY <1>7 DEF PutDeepHash, NoWrite
  <2>2. QED
    BY <1>2, <2>1 DEF ChainInv, Puts
<1>8. CASE PutFails
  <2>1. /\ write.step # "deep" /\ cache' = cache /\ write'.step = "none"
        /\ UNCHANGED <<ordering, bundles>>
    BY <1>8 DEF PutFails, NoWrite, keys
  <2>2. QED
    BY <1>2, <2>1 DEF ChainInv, Puts
<1>9. CASE Crash
  <2>1. cache' = None /\ write'.step = "none" /\ UNCHANGED <<ordering, bundles>>
    BY <1>9 DEF Crash, NoWrite, keys
  <2>2. QED
    BY <1>2, <2>1 DEF ChainInv, Puts
<1>10. CASE Read \/ (\E q \in Asked : BeginRead(q)) \/ UNCHANGED vars
  <2>1. UNCHANGED <<ordering, bundles, cache, write>>
    BY <1>10 DEF Read, FetchKeys, FetchBundles, BeginRead, vars, keys
  <2>2. QED
    BY <1>2, <2>1 DEF ChainInv
<1>11. QED
  BY <1>3, <1>4, <1>5, <1>6, <1>7, <1>8, <1>9, <1>10 DEF Next, Save

-----------------------------------------------------------------------------
(* The order of the keys is the order of the times.                        *)

\* No entry has a nonce greater than the latest one.
LEMMA LatestIsMost ==
    ASSUME StoreInv, NEW nonce \in LatestNonces
    PROVE  nonce \in Nat /\ \A m \in ordering : m.nonce <= nonce
<1>1. \A m \in ordering : m.nonce \in Nat
  BY DEF StoreInv, Entry
<1>2. CASE ordering = {}
  BY <1>2 DEF LatestNonces, Process
<1>3. CASE ordering # {}
  <2>1. PICK n \in ordering : nonce = n.nonce /\ \A k \in ordering \ {n} : KeyLess(k, n)
    BY <1>3 DEF LatestNonces
  <2>2. QED
    BY <1>1, <2>1 DEF KeyLess
<1>4. QED
  BY <1>2, <1>3

\* Every step keeps the nonces in the order of the times.
LEMMA OrderNext == StoreInv /\ OrderInv /\ [Next]_vars => OrderInv'
<1> SUFFICES ASSUME StoreInv, OrderInv, [Next]_vars PROVE OrderInv'
  OBVIOUS
<1>1. /\ \A m \in ordering : m.nonce \in Nat /\ m.time \in Nat
      /\ clock \in Nat /\ cache \in {None} \cup Nat
  BY DEF StoreInv, Entry
<1>2. ASSUME NEW item \in Items, NEW id \in Ids, Begin(item, id) PROVE OrderInv'
  <2>1. PICK nonce \in IF cache # None THEN {cache} ELSE LatestNonces :
           write' = [step |-> "composite",
                     entry |-> [nonce |-> nonce + 1, time |-> clock + 1, id |-> id, item |-> item]]
    BY <1>2 DEF Begin
  <2>2. clock' = clock + 1 /\ UNCHANGED <<ordering, cache>>
    BY <1>2 DEF Begin, keys
  <2>3. nonce \in Nat /\ \A m \in ordering : m.nonce <= nonce + 1
    BY <1>1, LatestIsMost DEF OrderInv
  <2>4. /\ write'.step = "composite" /\ write'.entry.nonce = nonce + 1
        /\ write'.entry.time = clock + 1
    BY <2>1
  <2>5. \A m \in ordering : m.time <= clock + 1 /\ m.time < clock + 1
    BY <1>1 DEF OrderInv
  <2>6. QED
    BY <1>1, <2>2, <2>3, <2>4, <2>5 DEF OrderInv
<1>3. CASE PutComposite
  <2>1. write.step = "composite" /\ UNCHANGED <<ordering, cache, clock>>
    BY <1>3 DEF PutComposite
  <2>2. write'.step = "ordering" /\ write'.entry = write.entry
    BY <1>3, PutIs
  <2>3. QED
    BY <2>1, <2>2 DEF OrderInv, Puts
<1>4. CASE PutOrdering
  <2>1. write.step = "ordering" /\ ordering' = ordering \cup {write.entry}
        /\ UNCHANGED <<cache, clock>>
    BY <1>4 DEF PutOrdering
  <2>2. write'.step = "bundle" /\ write'.entry = write.entry
    BY <1>4, PutIs
  <2>3. write.entry.nonce \in Nat /\ write.entry.time \in Nat
    BY <2>1 DEF StoreInv, Entry, Puts, NoWrite
  <2>4. IsFiniteSet(ordering')
    BY <2>1, FS_AddElement DEF OrderInv
  <2>5. /\ write.entry.nonce > 0 /\ write.entry.time > 0 /\ write.entry.time <= clock
        /\ cache # None => write.entry.nonce <= cache + 1
        /\ \A m \in ordering : m.nonce <= write.entry.nonce /\ m.time < write.entry.time
    BY <2>1 DEF OrderInv, Puts
  <2>6. \A m, n \in ordering' : m.time = n.time => m = n
    BY <1>1, <2>1, <2>3, <2>5 DEF OrderInv
  <2>7. \A m, n \in ordering' : m.time < n.time => m.nonce <= n.nonce
    BY <1>1, <2>1, <2>3, <2>5 DEF OrderInv
  <2>8. cache # None => \A m \in ordering' : m.nonce <= cache + 1
    BY <2>1, <2>5 DEF OrderInv
  <2>9. /\ \A m \in ordering' : m.nonce > 0 /\ m.time > 0 /\ m.time <= clock'
        /\ \A m \in ordering' : m.nonce <= write.entry.nonce
    BY <1>1, <2>1, <2>3, <2>5 DEF OrderInv
  <2>10. /\ cache' # None => \A m \in ordering' : m.nonce <= cache' + 1
         /\ cache' # None => write'.entry.nonce <= cache' + 1
         /\ write'.entry.time <= clock'
    BY <2>1, <2>2, <2>5, <2>8
  <2>11. QED
    BY <2>2, <2>4, <2>5, <2>6, <2>7, <2>9, <2>10 DEF OrderInv
<1>5. CASE PutBundle
  <2>1. write.step = "bundle" /\ UNCHANGED <<ordering, cache, clock>>
    BY <1>5 DEF PutBundle
  <2>2. write'.step = "deep" /\ write'.entry = write.entry
    BY <1>5, PutIs
  <2>3. QED
    BY <2>1, <2>2 DEF OrderInv, Puts
<1>6. CASE PutDeepHash
  <2>1. /\ write.step = "deep" /\ write'.step = "none" /\ cache' = write.entry.nonce
        /\ UNCHANGED <<ordering, clock>>
    BY <1>6 DEF PutDeepHash, NoWrite
  <2>2. write.entry.nonce \in Nat
    BY <2>1 DEF StoreInv, Entry, Puts, NoWrite
  <2>3. \A m \in ordering : m.nonce <= write.entry.nonce + 1
    BY <1>1, <2>1, <2>2 DEF OrderInv, Puts
  <2>4. QED
    BY <2>1, <2>3 DEF OrderInv, Puts
<1>7. CASE PutFails \/ Crash
  <2>1. /\ write'.step = "none" /\ cache' \in {cache, None}
        /\ UNCHANGED <<ordering, clock>>
    BY <1>7 DEF PutFails, Crash, NoWrite, keys
  <2>2. QED
    BY <2>1 DEF OrderInv, Puts
<1>8. CASE Read \/ (\E q \in Asked : BeginRead(q)) \/ UNCHANGED vars
  <2>1. UNCHANGED <<ordering, cache, write, clock>>
    BY <1>8 DEF Read, FetchKeys, FetchBundles, BeginRead, vars, keys
  <2>2. QED
    BY <2>1 DEF OrderInv
<1>9. QED
  BY <1>2, <1>3, <1>4, <1>5, <1>6, <1>7, <1>8 DEF Next, Save

\* Entries come in the order of their keys as in that of their times, and the
\* process before them.
LEMMA SameOrder ==
    ASSUME StoreInv, OrderInv, NEW m \in Entries, NEW n \in Entries
    PROVE  /\ m.nonce \in Nat /\ m.time \in Nat
           /\ m = Process \/ (m \in ordering /\ m.nonce > 0 /\ m.time > 0)
           /\ m.time = n.time => m = n
           /\ m.time < n.time => m.nonce <= n.nonce
           /\ KeyLess(m, n) <=> m.time < n.time
<1>1. ASSUME NEW k \in Entries
      PROVE  /\ k.nonce \in Nat /\ k.time \in Nat /\ k.id \in Int
             /\ k = Process \/ (k \in ordering /\ k.nonce > 0 /\ k.time > 0)
  BY LocalStoreAssumption DEF StoreInv, Entry, Entries, OrderInv, Process
<1>2. Process.nonce = 0 /\ Process.time = 0
  BY DEF Process
<1>3. ASSUME NEW k \in Entries, NEW l \in Entries
      PROVE  (k.time = l.time => k = l) /\ (k.time < l.time => k.nonce <= l.nonce)
  <2>1. CASE k \in ordering /\ l \in ordering
    BY <2>1 DEF OrderInv
  <2>2. CASE k = Process \/ l = Process
    BY <1>1, <1>2, <2>2
  <2>3. QED
    BY <1>1, <2>1, <2>2
<1>4. KeyLess(m, n) <=> m.time < n.time
  <2>1. /\ m.nonce \in Nat /\ m.time \in Nat /\ m.id \in Int
        /\ n.nonce \in Nat /\ n.time \in Nat /\ n.id \in Int
    BY <1>1
  <2>2. /\ m.time = n.time => m = n
        /\ m.time < n.time => m.nonce <= n.nonce
        /\ n.time < m.time => n.nonce <= m.nonce
    BY <1>3
  <2>3. QED
    BY <2>1, <2>2 DEF KeyLess
<1>5. QED
  BY <1>1, <1>3, <1>4

\* A set of entries in the order of the keys.
LEMMA KeyList ==
    ASSUME StoreInv, OrderInv, NEW S \in SUBSET Entries, NEW s, s = ByKey(S)
    PROVE  /\ s \in Seq(S) /\ Len(s) \in Nat /\ DOMAIN s = 1 .. Len(s)
           /\ \A i, j \in DOMAIN s : i < j => s[i].time < s[j].time
           /\ ToSet(s) = S
<1> PICK R : R = {p \in S \X S : p[1].time < p[2].time}
  OBVIOUS
<1>1. \A m, n \in S : <<m, n>> \in R <=> m.time < n.time
  OBVIOUS
<1>2. \A m, n \in S : /\ m.time \in Nat /\ (m.time = n.time => m = n)
                      /\ KeyLess(m, n) <=> m.time < n.time
  BY SameOrder
<1>3. Orders(R, S)
  BY <1>1, <1>2 DEF Orders
<1>4. IsFiniteSet(S)
  <2>1. IsFiniteSet(Entries)
    BY FS_AddElement DEF Entries, OrderInv
  <2>2. QED
    BY <2>1, FS_Subset
<1>5. s = InRank(R, S)
  <2>1. \A m \in S : {n \in S : KeyLess(n, m)} = Below(R, S, m)
    BY <1>1, <1>2 DEF Below
  <2> DEFINE byKey(i) == CHOOSE m \in S : Cardinality({n \in S : KeyLess(n, m)}) = i - 1
             byRank(i) == CHOOSE m \in S : Cardinality(Below(R, S, m)) = i - 1
  <2>2. \A i : byKey(i) = byRank(i)
    BY <2>1
  <2>3. s = [i \in 1 .. Cardinality(S) |-> byKey(i)]
    BY DEF InOrder, ByKey
  <2> HIDE DEF byKey, byRank
  <2>4. s = [i \in 1 .. Cardinality(S) |-> byRank(i)]
    BY <2>2, <2>3
  <2>5. QED
    BY <2>4 DEF byRank, InRank
<1>6. /\ s \in Seq(S) /\ Len(s) \in Nat /\ DOMAIN s = 1 .. Len(s)
      /\ \A i, j \in DOMAIN s : i < j => <<s[i], s[j]>> \in R
      /\ \A m \in S : \E i \in DOMAIN s : s[i] = m
  <2>1. Lists(InRank(R, S), R, S)
    BY <1>3, <1>4, Ranked, Zenon
  <2>2. Lists(s, R, S)
    BY <1>5, <2>1, Zenon
  <2>3. QED
    BY <2>2 DEF Lists
<1>7. \A i \in DOMAIN s : s[i] \in S
  BY <1>6
<1>8. \A i, j \in DOMAIN s : i < j => s[i].time < s[j].time
  BY <1>1, <1>6, <1>7
<1>9. ToSet(s) = S
  BY <1>6, <1>7 DEF ToSet
<1>10. QED
  BY <1>6, <1>8, <1>9

\* So a set of entries is listed in the one order as in the other.
LEMMA SameList ==
    ASSUME StoreInv, OrderInv, NEW S \in SUBSET ordering
    PROVE  ByKey(S) = ByTime(S)
<1>1. ASSUME NEW m \in S
      PROVE  {n \in S : KeyLess(n, m)} = {n \in S : Earlier(n, m)}
  <2>1. ASSUME NEW n \in S PROVE KeyLess(n, m) <=> Earlier(n, m)
    <3>1. m.time \in Nat /\ n.time \in Nat /\ m.nonce \in Nat /\ n.nonce \in Nat
      BY DEF StoreInv, Entry
    <3>2. m.time = n.time => m = n
      BY DEF OrderInv
    <3>3. KeyLess(n, m) <=> n.time < m.time
      BY SameOrder DEF Entries
    <3>4. QED
      BY <3>1, <3>2, <3>3 DEF Earlier
  <2>2. QED
    BY <2>1
<1>2. \A i : (CHOOSE m \in S : Cardinality({n \in S : KeyLess(n, m)}) = i - 1)
              = (CHOOSE m \in S : Cardinality({n \in S : Earlier(n, m)}) = i - 1)
  BY <1>1
<1> DEFINE byKey(i) == CHOOSE m \in S : Cardinality({n \in S : KeyLess(n, m)}) = i - 1
           byTime(i) == CHOOSE m \in S : Cardinality({n \in S : Earlier(n, m)}) = i - 1
<1>3. ByKey(S) = [i \in 1 .. Cardinality(S) |-> byKey(i)]
  BY DEF InOrder, ByKey
<1>4. ByTime(S) = [i \in 1 .. Cardinality(S) |-> byTime(i)]
  BY DEF InOrder, ByTime
<1>5. \A i : byKey(i) = byTime(i)
  BY <1>2
<1> HIDE DEF byKey, byTime
<1>6. QED
  BY <1>3, <1>4, <1>5

-----------------------------------------------------------------------------
(* The pages that a reader follows.                                        *)

\* The first part p of the total entries of S, in the order of their times, is cut
\* at n of them.
PartOf(p, S, n, total) ==
    /\ p \in Seq(S) /\ Len(p) \in Nat /\ DOMAIN p = 1 .. Len(p)
    /\ \A i, j \in DOMAIN p : i < j => p[i].time < p[j].time
    /\ \A m \in S : \/ m \in ToSet(p)
                    \/ total >= n /\ \A k \in ToSet(p) : k.time < m.time
    /\ total >= n => Len(p) = n

LEMMA PrefixIsPart ==
    ASSUME NEW S, NEW found \in Seq(S), ToSet(found) = S,
           \A i, j \in DOMAIN found : i < j => found[i].time < found[j].time,
           NEW n \in Nat \ {0}
    PROVE  PartOf(Prefix(found, n), S, n, Len(found))
<1> PICK p : p = Prefix(found, n)
  OBVIOUS
<1>1. Len(found) \in Nat /\ DOMAIN found = 1 .. Len(found)
  OBVIOUS
<1>2. /\ Prefix(found, n) \in Seq(S)
      /\ Len(Prefix(found, n)) = IF n < Len(found) THEN n ELSE Len(found)
      /\ DOMAIN Prefix(found, n) = 1 .. Len(Prefix(found, n))
      /\ \A i \in DOMAIN Prefix(found, n) : Prefix(found, n)[i] = found[i]
  BY PrefixIs
<1>3. /\ p \in Seq(S) /\ Len(p) = (IF n < Len(found) THEN n ELSE Len(found))
      /\ DOMAIN p = 1 .. Len(p) /\ \A i \in DOMAIN p : p[i] = found[i]
  BY <1>2, Zenon
<1>4. Len(p) \in Nat /\ Len(p) <= Len(found) /\ DOMAIN p \subseteq DOMAIN found
  BY <1>1, <1>3
<1>5. \A i, j \in DOMAIN p : i < j => p[i].time < p[j].time
  BY <1>1, <1>3, <1>4
<1>6. ASSUME NEW m \in S, m \notin ToSet(p)
      PROVE  Len(found) >= n /\ \A k \in ToSet(p) : k.time < m.time
  <2>1. PICK j \in DOMAIN found : found[j] = m
    BY DEF ToSet
  <2>2. j \notin DOMAIN p
    BY <1>3, <1>6, <2>1 DEF ToSet
  <2>3. j > Len(p) /\ n < Len(found)
    BY <1>1, <1>3, <2>2
  <2>4. \A i \in DOMAIN p : i \in DOMAIN found /\ i < j
    BY <1>1, <1>3, <1>4, <2>3
  <2>5. \A i \in DOMAIN p : p[i].time < m.time
    BY <1>3, <2>1, <2>4
  <2>6. QED
    BY <1>1, <2>3, <2>5 DEF ToSet
<1>7. Len(found) >= n => Len(p) = n
  <2>1. Len(found) \in Nat /\ Len(p) = (IF n < Len(found) THEN n ELSE Len(found))
    BY <1>1, <1>3, Zenon
  <2>2. \A l \in Nat : l >= n => (IF n < l THEN n ELSE l) = n
    OBVIOUS
  <2>3. QED
    BY <2>1, <2>2
<1>8. QED
  BY <1>3, <1>4, <1>5, <1>6, <1>7 DEF PartOf

\* A sequence with one more element before it.
ConsOf(e, x, p, S) ==
    /\ e \in Seq(S) /\ Len(p) \in Nat /\ Len(e) = Len(p) + 1
    /\ DOMAIN e = 1 .. Len(p) + 1
    /\ e[1] = x
    /\ \A i \in DOMAIN e : i # 1 => i - 1 \in DOMAIN p /\ e[i] = p[i - 1]
    /\ ToSet(e) = {x} \cup ToSet(p)

LEMMA ConsIs ==
    ASSUME NEW S, NEW p \in Seq(S), NEW x \in S
    PROVE  ConsOf(<<x>> \o p, x, p, S)
<1> PICK e : e = <<x>> \o p
  OBVIOUS
<1>1. /\ e \in Seq(S) /\ Len(p) \in Nat /\ Len(e) = Len(p) + 1
      /\ DOMAIN e = 1 .. Len(p) + 1 /\ DOMAIN p = 1 .. Len(p)
      /\ e[1] = x /\ \A i \in DOMAIN p : e[i + 1] = p[i]
  OBVIOUS
<1>2. \A i \in DOMAIN e : i # 1 => i - 1 \in DOMAIN p /\ e[i] = p[i - 1]
  BY <1>1
<1>3. 1 \in DOMAIN e /\ \A i \in DOMAIN p : i + 1 \in DOMAIN e
  BY <1>1
<1>4. ToSet(e) \subseteq {x} \cup ToSet(p)
  BY <1>1, <1>2 DEF ToSet
<1>5. {x} \cup ToSet(p) \subseteq ToSet(e)
  BY <1>1, <1>3 DEF ToSet
<1>6. QED
  BY <1>1, <1>2, <1>4, <1>5 DEF ConsOf

\* One sequence after another.
ConcatOf(r, s, t, S) ==
    /\ r \in Seq(S) /\ DOMAIN r = 1 .. Len(s) + Len(t)
    /\ \A i \in DOMAIN r : i <= Len(s) => i \in DOMAIN s /\ r[i] = s[i]
    /\ \A i \in DOMAIN r : i > Len(s) => i - Len(s) \in DOMAIN t /\ r[i] = t[i - Len(s)]
    /\ ToSet(r) = ToSet(s) \cup ToSet(t)

LEMMA ConcatIs ==
    ASSUME NEW S, NEW s \in Seq(S), NEW t \in Seq(S)
    PROVE  ConcatOf(s \o t, s, t, S)
<1> PICK r : r = s \o t
  OBVIOUS
<1>1. /\ r \in Seq(S) /\ Len(s) \in Nat /\ Len(t) \in Nat /\ Len(r) = Len(s) + Len(t)
      /\ DOMAIN r = 1 .. Len(s) + Len(t) /\ DOMAIN s = 1 .. Len(s) /\ DOMAIN t = 1 .. Len(t)
  OBVIOUS
<1>2. \A i \in DOMAIN r : i <= Len(s) => i \in DOMAIN s /\ r[i] = s[i]
  OBVIOUS
<1>3. \A i \in DOMAIN r : i > Len(s) => i - Len(s) \in DOMAIN t /\ r[i] = t[i - Len(s)]
  OBVIOUS
<1>4. ToSet(r) \subseteq ToSet(s) \cup ToSet(t)
  <2>1. \A i \in DOMAIN r : i <= Len(s) \/ i > Len(s)
    BY <1>1
  <2>2. QED
    BY <1>2, <1>3, <2>1 DEF ToSet
<1>5. ToSet(s) \subseteq ToSet(r)
  <2>1. \A i \in DOMAIN s : i \in DOMAIN r /\ r[i] = s[i]
    BY <1>1, <1>2
  <2>2. QED
    BY <2>1 DEF ToSet
<1>6. ToSet(t) \subseteq ToSet(r)
  <2>1. ASSUME NEW i \in DOMAIN t
        PROVE  i + Len(s) \in DOMAIN r /\ r[i + Len(s)] = t[i]
    <3>1. i + Len(s) \in DOMAIN r /\ i + Len(s) > Len(s) /\ i + Len(s) - Len(s) = i
      BY <1>1
    <3>2. QED
      BY <1>3, <3>1
  <2>2. QED
    BY <2>1 DEF ToSet
<1>7. QED
  BY <1>1, <1>2, <1>3, <1>4, <1>5, <1>6 DEF ConcatOf

LEMMA LastOfConcat ==
    ASSUME NEW S, NEW s \in Seq(S), NEW t \in Seq(S), t # <<>>
    PROVE  s \o t # <<>> /\ Last(s \o t) = Last(t)
<1>1. Len(s) \in Nat /\ Len(t) \in Nat /\ Len(t) > 0 /\ Len(s \o t) = Len(s) + Len(t)
  OBVIOUS
<1>2. (s \o t)[Len(s) + Len(t)] = t[Len(t)]
  BY <1>1
<1>3. QED
  BY <1>1, <1>2 DEF Last

\* A query's keys are a page of it.
LEMMA KeysArePage ==
    ASSUME StoreInv, OrderInv, NEW q, QueryTyped(q), q.limit > 1,
           reader.known \subseteq ordering
    PROVE  PageOf(Keys(q), q)
<1>0. Keys(q) = [edges |-> Keys(q).edges, more |-> Keys(q).more]
  BY DEF Keys, Listed, ProcessPage
<1> PICK S : S = {m \in ordering : InRange(q, m)}
  OBVIOUS
<1> PICK found : found = ByKey(S)
  OBVIOUS
<1>1. /\ found \in Seq(S) /\ Len(found) \in Nat
      /\ \A i, j \in DOMAIN found : i < j => found[i].time < found[j].time
      /\ ToSet(found) = S
  BY KeyList DEF Entries
<1>2. q.limit \in Nat
  BY DEF QueryTyped
<1>3. \A limit : Listed(q, limit).edges = Prefix(found, limit)
                 /\ (Listed(q, limit).more <=> Len(found) >= limit)
  BY DEF Listed
<1>4. \A n \in Nat \ {0} : PartOf(Prefix(found, n), S, n, Len(found))
  BY <1>1, PrefixIsPart
<1>5. S \subseteq ordering /\ (\A m \in S : InRange(q, m)) /\ Process \notin S
      /\ \A m \in reader.known : InRange(q, m) => m \in S
  BY SameOrder DEF Entries, OrderInv, Process
<1>6. CASE ~ IncludesProcess(q)
  <2> PICK p : p = Prefix(found, q.limit)
    OBVIOUS
  <2>1. Keys(q).edges = p /\ (Keys(q).more <=> Len(found) >= q.limit)
    BY <1>3, <1>6 DEF Keys
  <2>2. PartOf(p, S, q.limit, Len(found))
    BY <1>2, <1>4
  <2>3. p \in Seq(Entries) /\ \A m \in ToSet(p) : m \in S
    BY <1>5, <2>2 DEF PartOf, ToSet, Entries
  <2>4. \A m \in ToSet(p) : m # Process /\ InRange(q, m)
    BY <1>5, <2>3
  <2>5. QED
    BY <1>0, <1>5, <2>1, <2>2, <2>3, <2>4 DEF PageOf, PartOf
<1>7. CASE IncludesProcess(q)
  <2> PICK n : n = q.limit - 1
    OBVIOUS
  <2> PICK p : p = Prefix(found, n)
    OBVIOUS
  <2> PICK e : e = <<Process>> \o p
    OBVIOUS
  <2>1. Keys(q).edges = e /\ (Keys(q).more <=> Len(found) >= n)
    <3>1. Keys(q) = [Listed(q, n) EXCEPT !.edges = <<Process>> \o @]
      BY <1>2, <1>7 DEF Keys
    <3>2. Listed(q, n) = [edges |-> p, more |-> Listed(q, n).more]
      BY DEF Listed
    <3>3. QED
      BY <1>3, <3>1, <3>2
  <2>2. n \in Nat \ {0}
    BY <1>2
  <2>3. PartOf(p, S, n, Len(found))
    BY <1>4, <2>2
  <2>4. p \in Seq(Entries) /\ Process \in Entries
    BY <1>5, <2>3 DEF PartOf, Entries
  <2>5. /\ e \in Seq(Entries) /\ Len(p) \in Nat /\ Len(e) = Len(p) + 1
        /\ DOMAIN e = 1 .. Len(p) + 1
        /\ e[1] = Process
        /\ \A i \in DOMAIN e : i # 1 => i - 1 \in DOMAIN p /\ e[i] = p[i - 1]
        /\ ToSet(e) = {Process} \cup ToSet(p)
    <3>1. ConsOf(<<Process>> \o p, Process, p, Entries)
      BY <2>4, ConsIs
    <3>2. ConsOf(e, Process, p, Entries)
      BY <3>1, Zenon
    <3>3. QED
      BY <3>2 DEF ConsOf
  <2>6. \A m \in S : Process.time < m.time
    BY <1>5 DEF OrderInv, Process
  <2>7. \A m \in ToSet(p) : m \in S
    BY <2>3 DEF PartOf, ToSet
  <2>8. ASSUME NEW i \in DOMAIN e, NEW j \in DOMAIN e, i < j PROVE e[i].time < e[j].time
    <3>1. j # 1 /\ j - 1 \in DOMAIN p /\ e[j] = p[j - 1]
      BY <2>5, <2>8
    <3>2. CASE i = 1
      <4>1. p[j - 1] \in S
        BY <2>7, <3>1 DEF ToSet
      <4>2. QED
        BY <2>5, <2>6, <3>1, <3>2, <4>1
    <3>3. CASE i # 1
      <4>1. i - 1 \in DOMAIN p /\ e[i] = p[i - 1] /\ i - 1 < j - 1
        BY <2>5, <2>8, <3>3
      <4>2. p[i - 1].time < p[j - 1].time
        BY <2>3, <3>1, <4>1 DEF PartOf
      <4>3. QED
        BY <3>1, <4>1, <4>2
    <3>4. QED
      BY <3>2, <3>3
  <2>9. \A m \in ToSet(e) : IF m = Process THEN IncludesProcess(q) ELSE InRange(q, m)
    BY <1>5, <1>7, <2>5, <2>7
  <2>10. ASSUME NEW m \in S
         PROVE  \/ m \in ToSet(e)
                \/ Len(found) >= n /\ \A k \in ToSet(e) : k.time < m.time
    <3>1. \/ m \in ToSet(p)
          \/ Len(found) >= n /\ \A k \in ToSet(p) : k.time < m.time
      BY <2>3 DEF PartOf
    <3>2. QED
      BY <2>5, <2>6, <3>1
  <2>11. Len(found) >= n => Len(e) = q.limit
    BY <1>2, <2>3, <2>5 DEF PartOf
  <2>12. QED
    BY <1>0, <1>5, <2>1, <2>5, <2>8, <2>9, <2>10, <2>11 DEF PageOf
<1>8. QED
  BY <1>6, <1>7

\* Of the entries that can be read, and the process, a later one has a greater
\* nonce.
Shown(m) == m = Process \/ (m \in ordering /\ Readable(m))

LEMMA ShownOrder ==
    ASSUME StoreInv, OrderInv, ReadableChain, NEW m \in Entries, NEW n \in Entries,
           Shown(m), Shown(n), m.time < n.time
    PROVE  m.nonce < n.nonce
<1>1. /\ m.nonce \in Nat /\ n.nonce \in Nat /\ m.time \in Nat /\ n.time \in Nat
      /\ m.nonce <= n.nonce
      /\ n = Process \/ (n \in ordering /\ n.nonce > 0)
  BY SameOrder
<1>2. n # Process
  BY <1>1 DEF Process
<1>3. CASE m = Process
  BY <1>1, <1>2, <1>3 DEF Process
<1>4. CASE m # Process
  <2>1. m.nonce = n.nonce => m = n
    BY <1>2, <1>4 DEF Shown, ReadableChain
  <2>2. QED
    BY <1>1, <2>1
<1>5. QED
  BY <1>3, <1>4

\* What is left of a page are, in their order, the entries that can be read.
KeptOf(kept, edges) ==
    /\ kept \in Seq(Entries) /\ Len(kept) \in Nat /\ DOMAIN kept = 1 .. Len(kept)
    /\ \A i, j \in DOMAIN kept : i < j => kept[i].time < kept[j].time
    /\ \A m : m \in ToSet(kept) <=> m \in ToSet(edges) /\ Shown(m)

LEMMA KeptIs ==
    ASSUME StoreInv, OrderInv, NEW page, page.edges \in Seq(Entries),
           page = [edges |-> page.edges, more |-> page.more]
    PROVE  KeptOf(Bundles(page).edges, page.edges)
<1> PICK kept : kept = Bundles(page).edges
  OBVIOUS
<1> PICK S : S = {m \in ToSet(page.edges) : m = Process \/ Readable(m)}
  OBVIOUS
<1>1. S \subseteq Entries /\ \A m : m \in S <=> m \in ToSet(page.edges) /\ Shown(m)
  <2>1. ToSet(page.edges) \subseteq Entries
    BY DEF ToSet
  <2>2. QED
    BY <2>1 DEF Shown, Entries
<1>2. Bundles(page) = [page EXCEPT !.edges = ByKey(S)]
  BY DEF Bundles
<1>3. kept = ByKey(S)
  BY <1>2
<1>4. /\ kept \in Seq(S) /\ Len(kept) \in Nat /\ DOMAIN kept = 1 .. Len(kept)
      /\ \A i, j \in DOMAIN kept : i < j => kept[i].time < kept[j].time
      /\ ToSet(kept) = S
  BY <1>1, <1>3, KeyList
<1>5. kept \in Seq(Entries)
  BY <1>1, <1>4
<1>6. KeptOf(kept, page.edges)
  BY <1>1, <1>4, <1>5 DEF KeptOf
<1>7. QED
  BY <1>6

\* What a reader has when the bundles of a page are read: in order, without
\* repetition and in its range, all it knows up to the end of the page.
LEMMA GotIs ==
    ASSUME StoreInv, OrderInv, ReadableChain, ReaderInv, reader # NoReader,
           reader.first.limit > 1, PageOf(reader.page, reader.query),
           GotBefore(reader.got, reader.query),
           NEW kept, kept = Bundles(reader.page).edges
    PROVE  /\ Got \in Seq(Entries) /\ DOMAIN Got = 1 .. Len(reader.got) + Len(kept)
           /\ \A i, j \in DOMAIN Got : i < j => Got[i].nonce < Got[j].nonce
           /\ ToSet(Got) = ToSet(reader.got) \cup ToSet(kept)
           /\ \A m \in ToSet(Got) \ {Process} : Readable(m) /\ InRange(reader.first, m)
           /\ \A m \in reader.known : InRange(reader.first, m) =>
                 \/ m \in ToSet(Got)
                 \/ reader.page.more /\ \A n \in ToSet(kept) : n.time < m.time
<1> PICK got, page, q, first : /\ got = reader.got /\ page = reader.page
                               /\ q = reader.query /\ first = reader.first
  OBVIOUS
<1>1. /\ got \in Seq(Entries) /\ Len(got) \in Nat /\ DOMAIN got = 1 .. Len(got)
      /\ \A i, j \in DOMAIN got : i < j => got[i].nonce < got[j].nonce
      /\ \A m \in ToSet(got) \ {Process} : Readable(m) /\ InRange(first, m)
      /\ got = <<>> => q = first
      /\ got # <<>> => /\ q.from = Cursor(q.mode, Last(got))
                       /\ first.from # None => first.from <= q.from
                       /\ \A m \in reader.known :
                             InRange(first, m) /\ Cursor(q.mode, m) <= q.from => m \in ToSet(got)
  BY DEF GotBefore
<1>2. /\ page.edges \in Seq(Entries)
      /\ \A m \in ToSet(page.edges) : IF m = Process THEN IncludesProcess(q) ELSE InRange(q, m)
      /\ \A m \in reader.known : InRange(q, m) =>
            \/ m \in ToSet(page.edges)
            \/ page.more /\ \A n \in ToSet(page.edges) : n.time < m.time
  BY DEF PageOf
<1>3. /\ kept \in Seq(Entries) /\ Len(kept) \in Nat /\ DOMAIN kept = 1 .. Len(kept)
      /\ \A i, j \in DOMAIN kept : i < j => kept[i].time < kept[j].time
      /\ \A m : m \in ToSet(kept) <=> m \in ToSet(page.edges) /\ Shown(m)
  <2>1. kept = Bundles(page).edges /\ page = [edges |-> page.edges, more |-> page.more]
    BY DEF PageOf
  <2>2. KeptOf(kept, page.edges)
    BY <1>2, <2>1, KeptIs
  <2>3. QED
    BY <2>2 DEF KeptOf
<1>4. /\ q.mode = first.mode /\ q.to = first.to /\ q.mode \in Modes
      /\ q.to \in {None} \cup Nat /\ q.from \in {None, -1} \cup Nat
      /\ first.from \in {None, -1} \cup Nat
  <2>1. first \in [mode : Modes, from : {None, -1} \cup Nat, to : {None} \cup Nat,
                   limit : Limits]
    BY LocalStoreAssumption DEF ReaderInv
  <2>2. QueryTyped(q) /\ q = [first EXCEPT !.from = q.from]
    BY DEF ReaderInv
  <2> PICK f : f = q.from
    OBVIOUS
  <2>3. q = [first EXCEPT !.from = f]
    BY <2>2
  <2>4. q.mode = first.mode /\ q.to = first.to
    BY <2>1, <2>3
  <2>5. QED
    BY <2>1, <2>2, <2>4 DEF QueryTyped
<1>5. /\ Got \in Seq(Entries) /\ DOMAIN Got = 1 .. Len(got) + Len(kept)
      /\ \A i \in DOMAIN Got : i <= Len(got) => i \in DOMAIN got /\ Got[i] = got[i]
      /\ \A i \in DOMAIN Got : i > Len(got) => i - Len(got) \in DOMAIN kept
                                               /\ Got[i] = kept[i - Len(got)]
      /\ ToSet(Got) = ToSet(got) \cup ToSet(kept)
  <2>1. Got = got \o kept
    BY DEF Got
  <2>2. ConcatOf(Got, got, kept, Entries)
    BY <1>1, <1>3, <2>1, ConcatIs
  <2>3. QED
    BY <2>2 DEF ConcatOf
<1>6. ToSet(Got) = ToSet(got) \cup ToSet(kept)
  BY <1>5
<1>7. ASSUME NEW m \in Entries PROVE Cursor(q.mode, m) \in Nat
  BY <1>7, SameOrder DEF Cursor
<1>8. \A i \in DOMAIN got : got[i] \in Entries /\ got[i] \in ToSet(got) /\ Shown(got[i])
  BY <1>1 DEF ToSet, Shown, Entries
<1>9. \A m \in ToSet(kept) : m \in Entries /\ Shown(m)
  BY <1>3 DEF ToSet
<1>10. got # <<>> => /\ Len(got) \in DOMAIN got /\ Last(got) = got[Len(got)]
                     /\ q.from \in Nat /\ ~ IncludesProcess(q)
  <2>1. SUFFICES ASSUME got # <<>>
                 PROVE  /\ Len(got) \in DOMAIN got /\ Last(got) = got[Len(got)]
                        /\ q.from \in Nat /\ ~ IncludesProcess(q)
    OBVIOUS
  <2>2. Len(got) \in DOMAIN got /\ Last(got) = got[Len(got)]
    BY <1>1, <2>1 DEF Last
  <2>3. q.from \in Nat
    BY <1>1, <1>7, <1>8, <2>1, <2>2
  <2>4. QED
    BY <2>2, <2>3 DEF IncludesProcess, None
<1>11. ASSUME NEW m \in ToSet(kept), m # Process PROVE InRange(q, m) /\ InRange(first, m)
  <2>1. InRange(q, m)
    BY <1>2, <1>3, <1>11
  <2>2. CASE got = <<>>
    BY <1>1, <2>1, <2>2
  <2>3. CASE got # <<>>
    <3>1. /\ q.from \in Nat /\ Cursor(q.mode, m) \in Nat /\ Cursor(q.mode, m) > q.from
          /\ first.from # None => first.from <= q.from
      BY <1>1, <1>7, <1>9, <1>10, <2>1, <2>3 DEF InRange, None
    <3>2. first.from # None => Cursor(q.mode, m) > first.from
      BY <1>4, <3>1 DEF None
    <3>3. QED
      BY <1>4, <2>1, <3>2 DEF InRange
  <2>4. QED
    BY <2>1, <2>2, <2>3
<1>12. \A m \in ToSet(Got) \ {Process} : Readable(m) /\ InRange(first, m)
  BY <1>1, <1>6, <1>9, <1>11 DEF Shown
<1>13. ASSUME got # <<>>, NEW n \in ToSet(kept) PROVE Last(got).nonce < n.nonce
  <2>1. n # Process
    BY <1>2, <1>3, <1>10, <1>13
  <2>2. Last(got) \in Entries /\ Shown(Last(got)) /\ n \in Entries /\ Shown(n)
    BY <1>8, <1>9, <1>10, <1>13
  <2>3. Cursor(q.mode, n) > Cursor(q.mode, Last(got))
    BY <1>1, <1>10, <1>11, <1>13, <2>1 DEF InRange, None
  <2>4. CASE q.mode = "nonce"
    BY <2>3, <2>4 DEF Cursor
  <2>5. CASE q.mode # "nonce"
    <3>1. Last(got).time < n.time
      BY <2>2, <2>3, <2>5, SameOrder DEF Cursor
    <3>2. QED
      BY <2>2, <3>1, ShownOrder
  <2>6. QED
    BY <2>2, <2>4, <2>5, SameOrder
<1>14. ASSUME NEW i \in DOMAIN Got, NEW j \in DOMAIN Got, i < j
       PROVE  Got[i].nonce < Got[j].nonce
  <2> i \in Nat /\ j \in Nat /\ Len(got) \in Nat
    BY <1>1, <1>3, <1>5
  <2>1. CASE j <= Len(got)
    <3>1. i <= Len(got)
      BY <1>14, <2>1
    <3>2. i \in DOMAIN got /\ j \in DOMAIN got /\ Got[i] = got[i] /\ Got[j] = got[j]
      BY <1>5, <2>1, <3>1
    <3>3. QED
      BY <1>1, <1>14, <3>2
  <2>2. CASE i > Len(got)
    <3>0. j > Len(got) /\ i - Len(got) < j - Len(got)
      BY <1>14, <2>2
    <3>1. /\ i - Len(got) \in DOMAIN kept /\ j - Len(got) \in DOMAIN kept
          /\ Got[i] = kept[i - Len(got)] /\ Got[j] = kept[j - Len(got)]
          /\ i - Len(got) < j - Len(got)
      BY <1>5, <2>2, <3>0
    <3>2. Got[i].time < Got[j].time
      BY <1>3, <3>1
    <3>3. Got[i] \in ToSet(kept) /\ Got[j] \in ToSet(kept)
      BY <3>1 DEF ToSet
    <3>4. QED
      BY <1>9, <3>2, <3>3, ShownOrder
  <2>3. CASE i <= Len(got) /\ j > Len(got)
    <3>0. i \in DOMAIN got /\ Got[i] = got[i] /\ i <= Len(got)
      BY <1>5, <2>3
    <3>1. i \in DOMAIN got /\ Got[i] = got[i] /\ got # <<>> /\ i <= Len(got)
      BY <3>0
    <3>2. Got[j] \in ToSet(kept)
      BY <1>5, <2>3 DEF ToSet
    <3>3. Last(got).nonce < Got[j].nonce
      BY <1>13, <3>1, <3>2
    <3>4. Got[i].nonce <= Last(got).nonce
      <4>1. CASE i = Len(got)
        <5>1. Got[i] = Last(got) /\ Last(got) \in Entries
          BY <1>8, <1>10, <3>1, <4>1
        <5>2. Last(got).nonce \in Nat
          BY <5>1, SameOrder
        <5>3. QED
          BY <5>1, <5>2
      <4>2. CASE i # Len(got)
        <5>1. i < Len(got)
          BY <1>1, <3>1, <4>2
        <5>2. got[i].nonce < Last(got).nonce
          BY <1>1, <1>10, <3>1, <5>1
        <5>3. got[i].nonce \in Nat /\ Last(got).nonce \in Nat
          BY <1>8, <1>10, <3>1, SameOrder
        <5>4. QED
          BY <3>1, <5>2, <5>3
      <4>3. QED
        BY <4>1, <4>2
    <3>5. Got[i].nonce \in Nat /\ Got[j].nonce \in Nat /\ Last(got).nonce \in Nat
      BY <1>8, <1>9, <1>10, <3>1, <3>2, SameOrder
    <3>6. QED
      BY <3>3, <3>4, <3>5
  <2>4. QED
    BY <1>1, <1>3, <1>5, <1>14, <2>1, <2>2, <2>3
<1>15. ASSUME NEW m \in reader.known, InRange(first, m)
       PROVE  \/ m \in ToSet(Got)
              \/ page.more /\ \A n \in ToSet(kept) : n.time < m.time
  <2>1. m \in ordering /\ Readable(m) /\ m \in Entries /\ Shown(m)
    BY DEF ReaderInv, Entries, Shown
  <2>2. CASE got # <<>> /\ Cursor(q.mode, m) <= q.from
    BY <1>1, <1>6, <1>15, <2>2
  <2>3. CASE InRange(q, m)
    BY <1>2, <1>3, <1>6, <2>1, <2>3
  <2>4. CASE got # <<>> /\ ~ (Cursor(q.mode, m) <= q.from)
    <3>1. Cursor(q.mode, m) > q.from
      BY <1>7, <1>10, <2>1, <2>4
    <3>2. InRange(q, m)
      BY <1>4, <1>15, <3>1 DEF InRange
    <3>3. QED
      BY <2>3, <3>2
  <2>5. CASE got = <<>>
    BY <1>1, <1>15, <2>3, <2>5
  <2>6. QED
    BY <2>2, <2>3, <2>4, <2>5
<1>16. QED
  BY <1>5, <1>6, <1>12, <1>14, <1>15

\* A full page shows something when it has room for more than the torn entries and
\* the one that is being saved.
LEMMA KeptSome ==
    ASSUME StoreInv, OrderInv, NEW page, NEW q, PageOf(page, q), QueryTyped(q), page.more,
           q.limit > Cardinality(Torn) + 1
    PROVE  Bundles(page).edges # <<>>
<1> SUFFICES ASSUME Bundles(page).edges = <<>> PROVE FALSE
  OBVIOUS
<1> PICK e, n, gone : e = page.edges /\ n = q.limit /\ gone = Torn \cup {write.entry}
  OBVIOUS
<1>1. /\ e \in Seq(Entries) /\ Len(e) = n /\ n \in Nat
      /\ \A i, j \in DOMAIN e : i < j => e[i].time < e[j].time
  BY DEF PageOf, QueryTyped
<1>2. DOMAIN e = 1 .. n
  BY <1>1
<1>3. ToSet(e) \subseteq gone
  <2>1. page = [edges |-> page.edges, more |-> page.more] /\ page.edges \in Seq(Entries)
    BY DEF PageOf
  <2>2. \A m : m \in ToSet(Bundles(page).edges) <=> m \in ToSet(e) /\ Shown(m)
    <3>1. KeptOf(Bundles(page).edges, page.edges)
      BY <2>1, KeptIs
    <3>2. QED
      BY <3>1 DEF KeptOf
  <2>3. ToSet(Bundles(page).edges) = {}
    BY DEF ToSet
  <2>4. \A m \in ToSet(e) : m \in Entries /\ ~ Shown(m)
    BY <1>1, <2>2, <2>3 DEF ToSet
  <2>5. QED
    BY <2>4 DEF Torn, Shown, Entries
<1>4. /\ IsFiniteSet(Torn) /\ IsFiniteSet(gone)
      /\ Cardinality(Torn) \in Nat /\ Cardinality(gone) <= Cardinality(Torn) + 1
  <2>1. IsFiniteSet(Torn)
    BY FS_Subset DEF Torn, OrderInv
  <2>2. /\ IsFiniteSet(gone)
        /\ Cardinality(gone) = Cardinality(Torn) \/ Cardinality(gone) = Cardinality(Torn) + 1
    BY <2>1, FS_AddElement
  <2>3. Cardinality(Torn) \in Nat
    BY <2>1, FS_CardinalityType
  <2>4. QED
    BY <2>1, <2>2, <2>3
<1>5. e \in [1 .. n -> gone]
  BY <1>1, <1>2, <1>3 DEF ToSet
<1>6. \A i, j \in 1 .. n : e[i] = e[j] => i = j
  <2>1. \A i \in 1 .. n : e[i].time \in Nat
    BY <1>1, <1>2, SameOrder
  <2>2. ASSUME NEW i \in 1 .. n, NEW j \in 1 .. n, i < j PROVE e[i] # e[j]
    <3>1. e[i].time < e[j].time
      BY <1>1, <1>2, <2>2
    <3>2. QED
      BY <2>1, <3>1
  <2>3. \A i, j \in 1 .. n : i = j \/ i < j \/ j < i
    BY <1>1
  <2>4. QED
    BY <2>2, <2>3
<1>7. e \in Injection(1 .. n, gone)
  BY <1>5, <1>6 DEF Injection, IsInjective
<1>8. Cardinality(1 .. n) = n
  <2>1. n \in Int /\ 1 \in Int
    BY <1>1
  <2>2. Cardinality(1 .. n) = IF 1 > n THEN 0 ELSE n - 1 + 1
    BY <2>1, FS_Interval, Zenon
  <2>3. (IF 1 > n THEN 0 ELSE n - 1 + 1) = n
    BY <1>1
  <2>4. QED
    BY <2>2, <2>3, Zenon
<1>9. n <= Cardinality(gone)
  <2>1. Cardinality(1 .. n) <= Cardinality(gone)
    BY <1>4, <1>7, FS_Injection, Zenon
  <2>2. QED
    BY <1>8, <2>1, Zenon
<1>10. Cardinality(gone) \in Nat
  BY <1>4, FS_CardinalityType
<1>11. QED
  BY <1>1, <1>4, <1>9, <1>10

\* The query for the next page differs in the place it starts from.
Follows(next, q, kept) ==
    /\ QueryTyped(next)
    /\ \E f : next = [q EXCEPT !.from = f]
    /\ kept # <<>> => /\ Len(kept) \in DOMAIN kept /\ Last(kept) = kept[Len(kept)]
                      /\ Last(kept) \in Entries
                      /\ next = [q EXCEPT !.from = Cursor(q.mode, Last(kept))]

LEMMA NextQueryIs ==
    ASSUME StoreInv, OrderInv, NEW page, NEW q, PageOf(page, q), QueryTyped(q)
    PROVE  Follows(NextQuery(q, Bundles(page)), q, Bundles(page).edges)
<1> PICK kept : kept = Bundles(page).edges
  OBVIOUS
<1>1. kept \in Seq(Entries)
  <2>1. page = [edges |-> page.edges, more |-> page.more] /\ page.edges \in Seq(Entries)
    BY DEF PageOf
  <2>2. KeptOf(kept, page.edges)
    BY <2>1, KeptIs
  <2>3. QED
    BY <2>2 DEF KeptOf
<1>2. kept # <<>> => /\ Len(kept) \in DOMAIN kept /\ Last(kept) = kept[Len(kept)]
                     /\ Last(kept) \in Entries
  BY <1>1 DEF Last
<1> PICK f : f = IF kept = <<>> THEN None ELSE Cursor(q.mode, Last(kept))
  OBVIOUS
<1>3. NextQuery(q, Bundles(page)) = [q EXCEPT !.from = f]
  BY DEF NextQuery
<1>4. kept # <<>> => f \in Nat
  BY <1>2, SameOrder DEF Cursor
<1>5. f \in {None, -1} \cup Nat
  BY <1>4
<1>6. QueryTyped([q EXCEPT !.from = f])
  BY <1>5 DEF QueryTyped
<1>7. Follows(NextQuery(q, Bundles(page)), q, kept)
  BY <1>2, <1>3, <1>6 DEF Follows
<1>8. QED
  BY <1>7

\* With the bundles of a page the reader has all it knows up to the next query.
LEMMA NextGot ==
    ASSUME StoreInv, OrderInv, ReadableChain, ReaderInv, reader.step = "bundles",
           reader.first.limit > 1, reader.first.limit > Cardinality(Torn) + 1, reader.page.more,
           NEW next, next = NextQuery(reader.query, Bundles(reader.page))
    PROVE  GotBefore(Got, next)
<1> PICK got, page, q, first, kept :
        /\ got = reader.got /\ page = reader.page /\ q = reader.query /\ first = reader.first
        /\ kept = Bundles(reader.page).edges
  OBVIOUS
<1>1. /\ reader # NoReader /\ PageOf(page, q) /\ GotBefore(got, q) /\ QueryTyped(q)
      /\ q = [first EXCEPT !.from = q.from] /\ first \in Asked
      /\ kept = Bundles(page).edges /\ next = NextQuery(q, Bundles(page))
  BY DEF ReaderInv, NoReader
<1>2. /\ Got \in Seq(Entries) /\ DOMAIN Got = 1 .. Len(got) + Len(kept)
      /\ \A i, j \in DOMAIN Got : i < j => Got[i].nonce < Got[j].nonce
      /\ ToSet(Got) = ToSet(got) \cup ToSet(kept)
      /\ \A m \in ToSet(Got) \ {Process} : Readable(m) /\ InRange(first, m)
      /\ \A m \in reader.known : InRange(first, m) =>
            \/ m \in ToSet(Got)
            \/ page.more /\ \A n \in ToSet(kept) : n.time < m.time
  BY <1>1, GotIs
<1>3. /\ first \in [mode : Modes, from : {None, -1} \cup Nat, to : {None} \cup Nat,
                    limit : Limits]
      /\ q.mode = first.mode /\ q.to = first.to /\ q.limit = first.limit
  <2>1. first \in [mode : Modes, from : {None, -1} \cup Nat, to : {None} \cup Nat,
                   limit : Limits]
    BY <1>1, LocalStoreAssumption
  <2> PICK f : f = q.from
    OBVIOUS
  <2>2. q = [first EXCEPT !.from = f]
    BY <1>1
  <2>3. QED
    BY <2>1, <2>2
<1>4. kept # <<>>
  BY <1>1, <1>3, KeptSome
<1> PICK l : l = Last(kept)
  OBVIOUS
<1>5. /\ QueryTyped(next) /\ l \in Entries /\ next = [q EXCEPT !.from = Cursor(q.mode, l)]
      /\ Len(kept) \in DOMAIN kept /\ l = kept[Len(kept)]
  <2>1. Follows(next, q, kept)
    BY <1>1, NextQueryIs
  <2>2. QED
    BY <1>4, <2>1 DEF Follows
<1>6. next.from = Cursor(q.mode, l) /\ next.mode = q.mode
  BY <1>1, <1>5 DEF QueryTyped
<1>7. /\ kept \in Seq(Entries) /\ DOMAIN kept = 1 .. Len(kept)
      /\ \A m : m \in ToSet(kept) <=> m \in ToSet(page.edges) /\ Shown(m)
  <2>1. page = [edges |-> page.edges, more |-> page.more] /\ page.edges \in Seq(Entries)
    BY <1>1 DEF PageOf
  <2>2. KeptOf(kept, page.edges)
    BY <1>1, <2>1, KeptIs
  <2>3. QED
    BY <2>2 DEF KeptOf
<1>8. l \in ToSet(kept) /\ Shown(l) /\ l \in ToSet(page.edges) /\ l \in ToSet(Got)
  BY <1>2, <1>5, <1>7 DEF ToSet
<1>9. Got # <<>> /\ Last(Got) = l
  <2>1. Got = got \o kept /\ got \in Seq(Entries)
    BY <1>1 DEF Got, GotBefore
  <2>2. got \o kept # <<>> /\ Last(got \o kept) = Last(kept)
    BY <1>4, <1>7, <2>1, LastOfConcat
  <2>3. QED
    BY <2>1, <2>2, Zenon
<1>10. l.nonce \in Nat /\ l.time \in Nat /\ Cursor(q.mode, l) \in Nat
  BY <1>5, SameOrder DEF Cursor
<1>11. first.from # None => first.from <= next.from
  <2>1. CASE l # Process
    <3>1. InRange(first, l)
      BY <1>2, <1>8, <2>1
    <3>2. QED
      BY <1>3, <1>6, <1>10, <3>1 DEF InRange, None
  <2>2. CASE l = Process
    <3>1. IncludesProcess(q)
      BY <1>1, <1>8, <2>2 DEF PageOf
    <3>2. CASE got = <<>>
      <4>1. q = first
        BY <1>1, <3>2 DEF GotBefore
      <4>2. QED
        BY <1>6, <1>10, <3>1, <4>1 DEF IncludesProcess
    <3>3. CASE got # <<>>
      <4>1. Last(got) \in Entries
        BY <1>1, <3>3 DEF GotBefore, Last
      <4>2. q.from \in Nat
        BY <1>1, <3>3, <4>1, SameOrder DEF GotBefore, Cursor
      <4>3. QED
        BY <3>1, <4>2 DEF IncludesProcess, None
    <3>4. QED
      BY <3>2, <3>3
  <2>3. QED
    BY <2>1, <2>2
<1>12. ASSUME NEW m \in reader.known, InRange(first, m), Cursor(q.mode, m) <= Cursor(q.mode, l),
              m \notin ToSet(Got)
       PROVE  FALSE
  <2>1. l.time < m.time
    BY <1>2, <1>8, <1>12
  <2>2. m \in Entries /\ Shown(m)
    BY <1>1 DEF ReaderInv, Entries, Shown
  <2>3. l.nonce < m.nonce
    BY <1>5, <1>8, <2>1, <2>2, ShownOrder
  <2>4. m.nonce \in Nat /\ m.time \in Nat
    BY <2>2, SameOrder
  <2>5. QED
    BY <1>10, <1>12, <2>1, <2>3, <2>4 DEF Cursor
<1>13. QED
  BY <1>2, <1>6, <1>9, <1>11, <1>12 DEF GotBefore

\* Steps that leave the reader alone take nothing from it.
LEMMA StaysRead ==
    ASSUME StoreInv, OrderInv, ReaderInv, StoreInv', OrderInv', reader # NoReader,
           ordering \subseteq ordering', bundles \subseteq bundles', reader' = reader,
           Torn \subseteq Torn'
    PROVE  ReaderInv'
<1>1. Entries \subseteq Entries' /\ \A e \in Seq(Entries) : e \in Seq(Entries')
  BY DEF Entries
<1>2. \A m : Readable(m) => Readable(m)'
  BY DEF Readable
<1>3. PageOf(reader.page, reader.query) => PageOf(reader.page, reader.query)'
  BY <1>1 DEF PageOf
<1>4. GotBefore(reader.got, reader.query) => GotBefore(reader.got, reader.query)'
  BY <1>1, <1>2 DEF GotBefore
<1>5. Cardinality(Torn) <= Cardinality(Torn') /\ Cardinality(Torn) \in Nat
      /\ Cardinality(Torn') \in Nat
  <2>1. IsFiniteSet(Torn')
    <3>1. IsFiniteSet(ordering') /\ Torn' \subseteq ordering'
      BY DEF OrderInv, Torn
    <3>2. QED
      BY <3>1, FS_Subset
  <2>2. QED
    BY <2>1, FS_Subset, FS_CardinalityType
<1>6. reader.known \subseteq {m \in ordering : Readable(m)}' 
  BY <1>2 DEF ReaderInv
<1>7. reader.first.limit > 1 => reader.first.limit \in Nat
  BY LocalStoreAssumption DEF ReaderInv
<1>8. reader.first.limit > 1 /\ reader.first.limit > Cardinality(Torn') + 1
         => reader.first.limit > Cardinality(Torn) + 1
  BY <1>5, <1>7
<1>9. QED
  BY <1>3, <1>4, <1>6, <1>8 DEF ReaderInv, QueryTyped

\* The torn entries only grow.
LEMMA TornGrows ==
    ASSUME StoreInv, [Next]_vars, ~ Crash
    PROVE  ordering \subseteq ordering' /\ bundles \subseteq bundles' /\ Torn \subseteq Torn'
<1>1. ASSUME NEW item \in Items, NEW id \in Ids, Begin(item, id)
      PROVE  ordering \subseteq ordering' /\ bundles \subseteq bundles' /\ Torn \subseteq Torn'
  <2>1. write'.step = "composite" /\ UNCHANGED <<ordering, bundles>>
    BY <1>1 DEF Begin, keys
  <2>2. QED
    BY <2>1 DEF Torn, Readable
<1>2. CASE PutComposite
  <2>1. write'.step = "ordering" /\ UNCHANGED <<ordering, bundles>>
    BY <1>2, PutIs DEF PutComposite
  <2>2. QED
    BY <2>1 DEF Torn, Readable
<1>3. CASE PutOrdering
  <2>1. write.step = "ordering" /\ ordering' = ordering \cup {write.entry} /\ bundles' = bundles
    BY <1>3 DEF PutOrdering
  <2>2. write'.entry = write.entry
    BY <1>3, PutIs
  <2>3. write.entry \notin ordering
    BY <2>1 DEF StoreInv
  <2>4. QED
    BY <2>1, <2>2, <2>3 DEF Torn, Readable
<1>4. CASE PutBundle
  <2>1. write.step = "bundle" /\ ordering' = ordering /\ bundles' = bundles \cup {write.entry.id}
    BY <1>4 DEF PutBundle
  <2>2. write'.step = "deep"
    BY <1>4, PutIs
  <2>3. write.entry \in composite /\ \A m \in ordering : m.id = write.entry.id => m = write.entry
    BY <2>1 DEF StoreInv
  <2>4. QED
    BY <2>1, <2>2, <2>3 DEF Torn, Readable
<1>5. CASE PutDeepHash \/ PutFails
  <2>1. write'.step = "none" /\ UNCHANGED <<ordering, bundles>>
    BY <1>5 DEF PutDeepHash, PutFails, NoWrite, keys
  <2>2. QED
    BY <2>1 DEF Torn, Readable
<1>6. CASE Read \/ (\E q \in Asked : BeginRead(q)) \/ UNCHANGED vars
  <2>1. UNCHANGED <<ordering, bundles, write>>
    BY <1>6 DEF Read, FetchKeys, FetchBundles, BeginRead, vars, keys
  <2>2. QED
    BY <2>1 DEF Torn, Readable
<1>7. QED
  BY <1>1, <1>2, <1>3, <1>4, <1>5, <1>6 DEF Next, Save

\* Every step keeps the reader on its way.
LEMMA ReaderNext ==
    StoreInv /\ StoreInv' /\ OrderInv /\ OrderInv' /\ ReadableChain /\ ReaderInv /\ [Next]_vars
        => ReaderInv'
<1> SUFFICES ASSUME StoreInv, StoreInv', OrderInv, OrderInv', ReadableChain, ReaderInv,
                    [Next]_vars
             PROVE  ReaderInv'
  OBVIOUS
<1>1. CASE Crash
  BY <1>1 DEF Crash, ReaderInv
<1>2. ASSUME ~ Crash, reader' = reader PROVE ReaderInv'
  <2>1. ordering \subseteq ordering' /\ bundles \subseteq bundles' /\ Torn \subseteq Torn'
    BY <1>2, TornGrows
  <2>2. CASE reader = NoReader
    BY <1>2, <2>2 DEF ReaderInv
  <2>3. CASE reader # NoReader
    BY <1>2, <2>1, <2>3, StaysRead
  <2>4. QED
    BY <2>2, <2>3
<1>3. ASSUME NEW q \in Asked, BeginRead(q) PROVE ReaderInv'
  <2>1. /\ reader' = [step |-> "keys", query |-> q, page |-> NoPage, got |-> <<>>,
                      first |-> q, known |-> acked]
        /\ UNCHANGED <<ordering, bundles>>
    BY <1>3 DEF BeginRead, keys
  <2>2. q \in [mode : Modes, from : {None, -1} \cup Nat, to : {None} \cup Nat, limit : Limits]
    BY LocalStoreAssumption
  <2>3. QueryTyped(q) /\ q = [q EXCEPT !.from = q.from]
    BY <2>2, LocalStoreAssumption DEF QueryTyped
  <2>4. acked \subseteq {m \in ordering' : Readable(m)'}
    BY <2>1 DEF StoreInv, Readable
  <2>5. GotBefore(reader.got, reader.query)'
    BY <2>1 DEF GotBefore, ToSet
  <2>6. QED
    BY <2>1, <2>3, <2>4, <2>5 DEF ReaderInv, QueryTyped
<1>4. CASE FetchKeys
  <2> PICK got, q, first, known : /\ got = reader.got /\ q = reader.query
                                  /\ first = reader.first /\ known = reader.known
    OBVIOUS
  <2>1. /\ reader # NoReader /\ reader.step = "keys"
        /\ UNCHANGED <<ordering, bundles, write>>
    BY <1>4 DEF FetchKeys, NoReader, keys
  <2>2. reader' = [step |-> "bundles", query |-> q, page |-> Keys(q), got |-> got,
                   first |-> first, known |-> known]
    BY <1>4, <2>1 DEF FetchKeys, ReaderInv
  <2>3. Torn' = Torn /\ Entries' = Entries /\ \A m : Readable(m)' <=> Readable(m)
    BY <2>1 DEF Torn, Readable, Entries
  <2>4. /\ first \in Asked /\ known \subseteq {m \in ordering' : Readable(m)'}
    BY <2>1, <2>3 DEF ReaderInv
  <2>5. CASE first.limit > 1
    <3>1. QueryTyped(q) /\ q = [first EXCEPT !.from = q.from]
      BY <2>1, <2>5 DEF ReaderInv
    <3>2. q.limit > 1
      <4>1. first \in [mode : Modes, from : {None, -1} \cup Nat, to : {None} \cup Nat,
                       limit : Limits]
        BY <2>4, LocalStoreAssumption
      <4> PICK f : f = q.from
        OBVIOUS
      <4>2. q = [first EXCEPT !.from = f]
        BY <3>1
      <4>3. q.limit = first.limit
        BY <4>1, <4>2
      <4>4. QED
        BY <2>5, <4>3
    <3>3. reader.known \subseteq ordering
      BY <2>1 DEF ReaderInv
    <3>4. PageOf(Keys(q), q)
      BY <3>1, <3>2, <3>3, KeysArePage
    <3>5. PageOf(reader.page, reader.query)'
      BY <2>2, <2>3, <3>4 DEF PageOf
    <3>6. first.limit > Cardinality(Torn) + 1 => GotBefore(got, q)
      BY <2>1, <2>5 DEF ReaderInv
    <3>7. first.limit > Cardinality(Torn') + 1 => GotBefore(reader.got, reader.query)'
      BY <2>2, <2>3, <3>6 DEF GotBefore
    <3>8. QED
      BY <2>2, <2>4, <3>1, <3>5, <3>7 DEF ReaderInv, QueryTyped
  <2>6. CASE ~ (first.limit > 1)
    BY <2>2, <2>4, <2>6 DEF ReaderInv
  <2>7. QED
    BY <2>5, <2>6
<1>5. CASE FetchBundles
  <2> PICK got, q, first, known, next :
          /\ got = Got /\ q = reader.query /\ first = reader.first /\ known = reader.known
          /\ next = NextQuery(reader.query, Bundles(reader.page))
    OBVIOUS
  <2>1. /\ reader # NoReader /\ reader.step = "bundles"
        /\ UNCHANGED <<ordering, bundles, write>>
    BY <1>5 DEF FetchBundles, NoReader, keys
  <2>2. CASE ~ reader.page.more
    BY <1>5, <2>2 DEF FetchBundles, ReaderInv
  <2>3. CASE reader.page.more
    <3>1. reader' = [step |-> "keys", query |-> next, page |-> NoPage, got |-> got,
                     first |-> first, known |-> known]
      <4>1. reader' = [reader EXCEPT !.step = "keys", !.query = next, !.page = NoPage,
                                     !.got = got]
        BY <1>5, <2>3 DEF FetchBundles
      <4>2. reader = [step |-> reader.step, query |-> reader.query, page |-> reader.page,
                      got |-> reader.got, first |-> reader.first, known |-> reader.known]
        BY <2>1 DEF ReaderInv
      <4> PICK st, qu, pa, go : /\ st = reader.step /\ qu = reader.query
                                /\ pa = reader.page /\ go = reader.got
        OBVIOUS
      <4>3. reader = [step |-> st, query |-> qu, page |-> pa, got |-> go,
                      first |-> first, known |-> known]
        BY <4>2, Zenon
      <4>4. QED
        BY <4>1, <4>3
    <3>2. Torn' = Torn /\ Entries' = Entries /\ \A m : Readable(m)' <=> Readable(m)
      BY <2>1 DEF Torn, Readable, Entries
    <3>3. /\ first \in Asked /\ known \subseteq {m \in ordering' : Readable(m)'}
      BY <2>1, <3>2 DEF ReaderInv
    <3>4. CASE first.limit > 1
      <4>1. QueryTyped(q) /\ PageOf(reader.page, q) /\ q = [first EXCEPT !.from = q.from]
        BY <2>1, <3>4 DEF ReaderInv
      <4>2. QueryTyped(next) /\ \E f : next = [q EXCEPT !.from = f]
        <5>1. Follows(next, q, Bundles(reader.page).edges)
          BY <4>1, NextQueryIs
        <5>2. QED
          BY <5>1 DEF Follows
      <4>3. next = [first EXCEPT !.from = next.from]
        <5>1. first \in [mode : Modes, from : {None, -1} \cup Nat, to : {None} \cup Nat,
                         limit : Limits]
          BY <3>3, LocalStoreAssumption
        <5> PICK f, g : f = q.from /\ next = [q EXCEPT !.from = g]
          BY <4>2
        <5>2. q = [first EXCEPT !.from = f]
          BY <4>1
        <5>3. next = [first EXCEPT !.from = g] /\ next.from = g
          BY <5>1, <5>2
        <5>4. QED
          BY <5>3
      <4>4. first.limit > Cardinality(Torn) + 1 => GotBefore(got, next)
        BY <2>1, <2>3, <3>4, NextGot
      <4>5. first.limit > Cardinality(Torn') + 1 => GotBefore(reader.got, reader.query)'
        BY <3>1, <3>2, <4>4 DEF GotBefore
      <4>6. QED
        BY <3>1, <3>3, <4>2, <4>3, <4>5 DEF ReaderInv, QueryTyped
    <3>5. CASE ~ (first.limit > 1)
      BY <3>1, <3>3, <3>5 DEF ReaderInv
    <3>6. QED
      BY <3>4, <3>5
  <2>4. QED
    BY <2>2, <2>3
<1>6. CASE Save \/ (\E item \in Items, id \in Ids : Begin(item, id)) \/ UNCHANGED vars
  <2>1. reader' = reader
    BY <1>6 DEF Save, PutComposite, PutOrdering, PutBundle, PutDeepHash, PutFails, Begin, vars
  <2>2. QED
    BY <1>1, <1>2, <2>1
<1>7. QED
  BY <1>1, <1>3, <1>4, <1>5, <1>6 DEF Next, Read

-----------------------------------------------------------------------------
(* The theorems.                                                           *)

\* An empty store.
LEMMA StoreInit == Init => StoreInv /\ ItemInv /\ ChainInv
BY DEF Init, StoreInv, ItemInv, ChainInv, ItemOnce, ReadableChain, NoWrite, Puts

\* The invariants that need no assumption about which puts fail.
LEMMA BaseHolds == Spec => [](StoreInv /\ ItemInv)
BY StoreInit, StoreNext, ItemNext, PTL DEF Spec

\* Whatever fails, what the stores hold is about assignments, and what was
\* acknowledged has its ordering entry.
THEOREM TypeCorrect == Spec => []TypeOK
<1>1. StoreInv => TypeOK
  BY WriteIs DEF StoreInv, TypeOK, Entry
<1>2. QED
  BY <1>1, BaseHolds, PTL

\* However saves fail and the SU restarts, what can be read of a process has the
\* nonces 1, 2, 3, ..., once each, if the put of the deep hash, the last, does not
\* fail.
THEOREM AlwaysReadableChain ==
    ASSUME "deep" \notin FailingPuts
    PROVE  Spec => []ReadableChain
<1>1. StoreInv /\ ChainInv /\ [Next]_vars => (StoreInv /\ ChainInv)'
  BY StoreNext, ChainNext
<1>2. ChainInv => ReadableChain
  BY DEF ChainInv
<1>3. QED
  BY <1>1, <1>2, StoreInit, PTL DEF Spec

\* An item is saved once, by its id or its deep hash, unless a save of it was
\* cut short, however the puts fail.
THEOREM AlwaysItemOnce == Spec => []ItemOnce
<1>1. ItemInv => ItemOnce
  BY DEF ItemInv
<1>2. QED
  BY <1>1, BaseHolds, PTL

\* While nothing is cut short, a page of more than one edge shows what the page
\* of the SQL store shows, and claims to be the last only if that one does,
\* whatever was saved before and however the SU restarted.
THEOREM AlwaysPagesAsSql == Spec => []PagesAsSql
<1>1. StoreInv /\ OrderInv => PagesAsSql
  <2> SUFFICES ASSUME StoreInv, OrderInv, NEW q \in Queries, q.limit > 1
               PROVE  /\ Keys(q).edges = SqlPage(Process, ordering, q).edges
                      /\ SqlPage(Process, ordering, q).more => Keys(q).more
    BY DEF PagesAsSql
  <2> DEFINE S == {m \in ordering : InRange(q, m)}
             rows == ByTime(S)
             room == IF IncludesProcess(q) THEN q.limit - 1 ELSE q.limit
  <2>1. ByKey(S) = rows
    BY SameList
  <2>2. rows \in Seq(S) /\ Len(rows) \in Nat
    BY <2>1, KeyList DEF Entries
  <2>3. q.limit \in Nat
    BY LocalStoreAssumption DEF Queries
  <2>4. \A limit : Listed(q, limit) = [edges |-> Prefix(rows, limit), more |-> Len(rows) >= limit]
    BY <2>1 DEF Listed
  <2>5. SqlPage(Process, ordering, q)
          = [edges |-> (IF IncludesProcess(q) THEN <<Process>> ELSE <<>>) \o Prefix(rows, room),
             more  |-> Len(rows) > room]
    BY DEF SqlPage
  <2> HIDE DEF S, rows
  <2>6. CASE IncludesProcess(q)
    <3>1. Keys(q) = [Listed(q, room) EXCEPT !.edges = <<Process>> \o @]
      BY <2>6 DEF Keys
    <3>2. PICK edges, more : edges = Prefix(rows, room) /\ more = (Len(rows) >= room)
      OBVIOUS
    <3>3. Listed(q, room) = [edges |-> edges, more |-> more]
      BY <2>4, <3>2
    <3>4. Keys(q).edges = <<Process>> \o edges /\ Keys(q).more = more
      BY <3>1, <3>3
    <3>5. room \in Nat
      BY <2>3, <2>6
    <3>6. SqlPage(Process, ordering, q).more = (Len(rows) > room)
      BY <2>5
    <3>7. SqlPage(Process, ordering, q).edges = <<Process>> \o edges
      BY <2>5, <2>6, <3>2
    <3>8. QED
      <4>1. Len(rows) > room => Len(rows) >= room
        BY <2>2, <3>5
      <4>2. QED
        BY <3>2, <3>4, <3>6, <3>7, <4>1, Zenon
  <2>7. CASE ~ IncludesProcess(q)
    <3> PICK edges, more : edges = Prefix(rows, room) /\ more = (Len(rows) >= room)
      OBVIOUS
    <3>1. Keys(q).edges = edges /\ Keys(q).more = more
      BY <2>4, <2>7 DEF Keys
    <3>2. room \in Nat
      BY <2>3, <2>7
    <3>3. edges \in Seq(S)
      BY <2>2, <3>2, PrefixIs
    <3>4. /\ SqlPage(Process, ordering, q).edges = edges
          /\ SqlPage(Process, ordering, q).more = (Len(rows) > room)
      BY <2>5, <2>7, <3>3
    <3>5. Len(rows) > room => Len(rows) >= room
      BY <2>2, <3>2
    <3>6. QED
      BY <3>1, <3>4, <3>5, Zenon
  <2>8. QED
    BY <2>6, <2>7
<1>2. Init => StoreInv /\ OrderInv
  BY StoreInit, FS_EmptySet DEF Init, OrderInv, NoWrite, Puts
<1>3. QED
  BY <1>1, <1>2, StoreNext, OrderNext, PTL DEF Spec

\* A reader whose pages have room for more than the torn entries there are and the one
\* that is being saved ends with all of its range that was saved when it began, once
\* each and in order, whatever is saved, torn or left out meanwhile, and however long
\* a put takes, if the put of the deep hash does not fail.
THEOREM AlwaysReadExactly ==
    ASSUME "deep" \notin FailingPuts
    PROVE  Spec => ReadExactly
<1> DEFINE Inv == StoreInv /\ ChainInv /\ OrderInv /\ ReaderInv
<1>1. Init => Inv
  BY StoreInit, FS_EmptySet DEF Init, OrderInv, ReaderInv, NoWrite, Puts
<1>2. Inv /\ [Next]_vars => Inv'
  <2> SUFFICES ASSUME Inv, [Next]_vars PROVE Inv'
    OBVIOUS
  <2>1. StoreInv' /\ ChainInv' /\ OrderInv'
    BY StoreNext, ChainNext, OrderNext
  <2>2. ReaderInv'
    BY <2>1, ReaderNext DEF ChainInv
  <2>3. QED
    BY <2>1, <2>2
<1>3. ASSUME Inv, reader.step = "bundles", ~ reader.page.more, Roomy(reader.first)
      PROVE  /\ \A i, j \in DOMAIN Got : i < j => Got[i].nonce < Got[j].nonce
             /\ {m \in reader.known : InRange(reader.first, m)} \subseteq ToSet(Got)
             /\ \A m \in ToSet(Got) \ {Process} : Readable(m) /\ InRange(reader.first, m)
  <2>1. reader # NoReader /\ reader.first \in Asked
    BY <1>3 DEF NoReader, ReaderInv
  <2>2. reader.first.limit \in Nat
    BY <2>1, LocalStoreAssumption
  <2>3. Cardinality(Torn) \in Nat
    <3>1. IsFiniteSet(Torn)
      BY <1>3, FS_Subset DEF OrderInv, Torn
    <3>2. QED
      BY <3>1, FS_CardinalityType
  <2>4. reader.first.limit > 1 /\ reader.first.limit > Cardinality(Torn) + 1
    BY <1>3, <2>2, <2>3 DEF Roomy
  <2>5. PageOf(reader.page, reader.query) /\ GotBefore(reader.got, reader.query)
    BY <1>3, <2>1, <2>4 DEF ReaderInv
  <2> PICK kept : kept = Bundles(reader.page).edges
    OBVIOUS
  <2>6. ReadableChain
    BY <1>3 DEF ChainInv
  <2>7. QED
    BY <1>3, <2>1, <2>4, <2>5, <2>6, GotIs
<1> HIDE DEF Inv
<1>4. Inv => (reader.step = "bundles" /\ ~ reader.page.more /\ reader' # reader
                /\ crashes' = crashes /\ Roomy(reader.first) =>
                /\ \A i, j \in DOMAIN Got : i < j => Got[i].nonce < Got[j].nonce
                /\ {m \in reader.known : InRange(reader.first, m)} \subseteq ToSet(Got)
                /\ \A m \in ToSet(Got) \ {Process} : Readable(m) /\ InRange(reader.first, m))
  BY <1>3
<1>5. QED
  BY <1>1, <1>2, <1>4, PTL DEF Spec, ReadExactly

=============================================================================
