---------------------------- MODULE SuLocalStore ----------------------------
(***************************************************************************)
(* The RocksDB store of a Scheduler Unit, for one process: a message is    *)
(* saved by four puts into two databases, one after the other, and looked  *)
(* up and listed through what the puts have left, while a reader follows   *)
(* the pages of the list.                                                  *)
(*   src/servers/su/src/domain/clients/local_store/store.rs                *)
(* The ids of assignments are numbers, in the order of the keys.           *)
(***************************************************************************)
EXTENDS SuPages

CONSTANTS
    Ids,         \* assignment ids
    Items,       \* messages, by what they say
    Pushed,      \* items with a deep hash, which are signed anew each time
    Limits,      \* page sizes
    Asked,       \* the queries of readers
    FailingPuts, \* the puts that may return an error
    MaxTorn,     \* bound on the messages cut short
    MaxCrashes,  \* bound on the restarts of the SU
    MaxGot       \* where a reader that goes round in circles is left alone

Puts == {"composite", "ordering", "bundle", "deep"}

ASSUME LocalStoreAssumption ==
    /\ Ids \subseteq Nat
    /\ Pushed \subseteq Items
    /\ Limits \subseteq Nat \ {0}
    /\ Asked \subseteq [mode : Modes, from : {None, -1} \cup Nat, to : {None} \cup Nat,
                        limit : Limits]
    /\ FailingPuts \subseteq Puts
    /\ {MaxTorn, MaxCrashes, MaxGot} \subseteq Nat

VARIABLES
    composite,  \* message:<message id>:<assignment id>
    ordering,   \* message_ordering:<epoch>:<nonce>:<timestamp>:<assignment id>
    bundles,    \* message_assignment:<assignment id>, in the file database
    deep,       \* deep_hash:<process>:<deep hash>
    cache,      \* nonce of the latest assignment in memory, None when unknown
    write,      \* the message being saved, under the lock of the process
    acked,      \* history: the messages whose save returned
    cut,        \* history: the items a save of which was cut short
    clock,
    crashes,
    reader      \* who follows the pages

keys == <<composite, ordering, bundles, deep>>
vars == <<keys, cache, write, acked, cut, clock, crashes, reader>>

\* The process was saved with an assignment of its own, before any message.
Process == [nonce |-> 0, time |-> 0, id |-> -1, item |-> "process"]

NoWrite == [step |-> "none"]
NoReader == [step |-> "none"]
NoPage == [edges |-> <<>>, more |-> TRUE]

Init ==
    /\ composite = {}
    /\ ordering = {}
    /\ bundles = {}
    /\ deep = {}
    /\ cache = None
    /\ write = NoWrite
    /\ acked = {}
    /\ cut = {}
    /\ clock = 0
    /\ crashes = 0
    /\ reader = NoReader

-----------------------------------------------------------------------------
(* Lookups.                                                                *)

\* The order of the keys of message_ordering.
KeyLess(m, n) ==
    \/ m.nonce < n.nonce
    \/ m.nonce = n.nonce /\ m.time < n.time
    \/ m.nonce = n.nonce /\ m.time = n.time /\ m.id < n.id

ByKey(messages) == InOrder(messages, KeyLess)

Readable(m) == m.id \in bundles

\* get_message by a message id: only the first of its assignments is tried.
Found(item) ==
    LET assigned == {m \in composite : m.item = item}
    IN  \E m \in assigned : /\ \A n \in assigned : m.id <= n.id
                           /\ Readable(m)

\* get_latest_message, or else get_process: the next nonce follows it, and there
\* is none when the last entry has no bundle.
LatestNonces ==
    IF ordering = {} THEN {Process.nonce}
    ELSE {m.nonce : m \in {n \in ordering : /\ Readable(n)
                                            /\ \A k \in ordering \ {n} : KeyLess(k, n)}}

-----------------------------------------------------------------------------
(* The messages of a process are saved one at a time, under its lock.      *)

\* The checks pass, and the nonce is incremented from memory or the store.
Begin(item, id) ==
    /\ write = NoWrite
    /\ id \notin {m.id : m \in composite}
    /\ IF item \in Pushed THEN item \notin deep ELSE ~ Found(item)
    /\ clock' = clock + 1
    /\ \E nonce \in IF cache # None THEN {cache} ELSE LatestNonces :
         write' = [step |-> "composite",
                   entry |-> [nonce |-> nonce + 1, time |-> clock', id |-> id, item |-> item]]
    /\ UNCHANGED <<keys, cache, acked, cut, crashes, reader>>

PutComposite ==
    /\ write.step = "composite"
    /\ composite' = composite \cup {write.entry}
    /\ write' = [write EXCEPT !.step = "ordering"]
    /\ UNCHANGED <<ordering, bundles, deep, cache, acked, cut, clock, crashes, reader>>

PutOrdering ==
    /\ write.step = "ordering"
    /\ ordering' = ordering \cup {write.entry}
    /\ write' = [write EXCEPT !.step = "bundle"]
    /\ UNCHANGED <<composite, bundles, deep, cache, acked, cut, clock, crashes, reader>>

PutBundle ==
    /\ write.step = "bundle"
    /\ bundles' = bundles \cup {write.entry.id}
    /\ write' = [write EXCEPT !.step = "deep"]
    /\ UNCHANGED <<composite, ordering, deep, cache, acked, cut, clock, crashes, reader>>

\* Faulty: the deep hash is not kept.
PutNoDeepHash ==
    /\ write.step = "deep"
    /\ cache' = write.entry.nonce
    /\ acked' = acked \cup {write.entry}
    /\ write' = NoWrite
    /\ UNCHANGED <<keys, cut, clock, crashes, reader>>

\* The message is saved, and the scheduler commits its nonce to memory.
PutDeepHash ==
    /\ write.step = "deep"
    /\ deep' = IF write.entry.item \in Pushed THEN deep \cup {write.entry.item} ELSE deep
    /\ cache' = write.entry.nonce
    /\ acked' = acked \cup {write.entry}
    /\ write' = NoWrite
    /\ UNCHANGED <<composite, ordering, bundles, cut, clock, crashes, reader>>

\* Faulty: the nonce is used up although the save failed.
PutFailsCommitted ==
    /\ write.step \in FailingPuts
    /\ Cardinality(cut) < MaxTorn
    /\ write' = NoWrite
    /\ cut' = cut \cup {write.entry.item}
    /\ cache' = write.entry.nonce
    /\ UNCHANGED <<keys, acked, clock, crashes, reader>>

\* A put returns an error: what was put before stays, and nothing is committed.
PutFails ==
    /\ write.step \in FailingPuts
    /\ Cardinality(cut) < MaxTorn
    /\ write' = NoWrite
    /\ cut' = cut \cup {write.entry.item}
    /\ UNCHANGED <<keys, cache, acked, clock, crashes, reader>>

\* The SU stops between two puts or two messages, and starts again.
Crash ==
    /\ crashes < MaxCrashes
    /\ crashes' = crashes + 1
    /\ cache' = None
    /\ write' = NoWrite
    /\ cut' = IF write = NoWrite THEN cut ELSE cut \cup {write.entry.item}
    /\ reader' = NoReader
    /\ UNCHANGED <<keys, acked, clock>>

-----------------------------------------------------------------------------
(* The list of messages.                                                   *)

\* Faulty: another page is claimed in any case.
ListedMore(q, limit) ==
    [edges |-> Prefix(ByKey({m \in ordering : InRange(q, m)}), limit), more |-> TRUE]

\* fetch_message_range stops at the limit, without a look at what comes after.
Listed(q, limit) ==
    LET found == ByKey({m \in ordering : InRange(q, m)})
    IN  [edges |-> Prefix(found, limit), more |-> Len(found) >= limit]

\* A page of one that shows the process claims nothing more if no to is given;
\* with nonces it looks at the to of the timestamps, which is not given.
ProcessPage(q) ==
    [edges |-> <<Process>>,
     more  |-> q.mode = "timestamp" /\ q.to # None /\ q.to > Process.time]

\* Faulty: the process takes no place of the page.
KeysBesideProcess(q) ==
    IF ~ IncludesProcess(q) THEN Listed(q, q.limit)
    ELSE LET page == Listed(q, q.limit)
         IN  [page EXCEPT !.edges = <<Process>> \o @]

\* get_messages, up to the bundles.
Keys(q) ==
    IF ~ IncludesProcess(q) THEN Listed(q, q.limit)
    ELSE IF q.limit = 1 THEN ProcessPage(q)
    ELSE LET page == Listed(q, q.limit - 1)
         IN  [page EXCEPT !.edges = <<Process>> \o @]

\* Faulty: an entry without a bundle is listed.
BundlesAll(page) == page

\* An entry is left out when ten lookups, a tenth of a second apart, do not find its
\* bundle. That of the entry being saved appears sooner or later than that.
Bundles(page) ==
    [page EXCEPT !.edges = ByKey({m \in ToSet(@) : m = Process \/ Readable(m)})]

\* A reader asks for what follows one of the messages it knows, or for all.
BeginRead(q) ==
    /\ reader = NoReader
    /\ reader' = [step |-> "keys", query |-> q, page |-> NoPage, got |-> <<>>,
                   first |-> q, known |-> acked]
    /\ UNCHANGED <<keys, cache, write, acked, cut, clock, crashes>>

\* The iterator sees the keys as they were when it was made.
FetchKeys ==
    /\ reader.step = "keys"
    /\ Len(reader.got) <= MaxGot
    /\ reader' = [reader EXCEPT !.step = "bundles", !.page = Keys(reader.query)]
    /\ UNCHANGED <<keys, cache, write, acked, cut, clock, crashes>>

\* What the reader has when the bundles of its page are read.
Got == reader.got \o Bundles(reader.page).edges

\* The bundles are read, and the reader goes on to the next page if there is one. At
\* most one entry of the page was being saved when its keys were read, so that the
\* lookups may be one step: the bundle is there or it is not.
FetchBundles ==
    /\ reader.step = "bundles"
    /\ reader' = IF reader.page.more
                 THEN [reader EXCEPT !.step = "keys",
                                     !.query = NextQuery(@, Bundles(reader.page)),
                                     !.page = NoPage,
                                     !.got = Got]
                 ELSE NoReader
    /\ UNCHANGED <<keys, cache, write, acked, cut, clock, crashes>>

-----------------------------------------------------------------------------
Save == PutComposite \/ PutOrdering \/ PutBundle \/ PutDeepHash \/ PutFails

Read == FetchKeys \/ FetchBundles

Next ==
    \/ \E item \in Items, id \in Ids : Begin(item, id)
    \/ Save
    \/ Crash
    \/ \E q \in Asked : BeginRead(q)
    \/ Read

Spec == Init /\ [][Next]_vars

\* A page is answered, and a save returns.
Fairness == WF_vars(Read) /\ WF_vars(Save)

FairSpec == Spec /\ Fairness

-----------------------------------------------------------------------------
(* Properties.                                                             *)

\* Every query of a reader that knows some of the messages.
Queries ==
    LET known == {None} \cup 0 .. Cardinality(Ids)
    IN  [mode : Modes, from : known, to : known, limit : Limits]

\* The entries that have no bundle and that no save under way will give one.
Torn == {m \in ordering : ~ Readable(m) /\ (write.step = "bundle" => m # write.entry)}

\* What is in the stores is about assignments, and what was acknowledged has its
\* ordering entry.
TypeOK ==
    /\ {m.id : m \in composite \cup ordering} \cup bundles \subseteq Ids
    /\ deep \subseteq Pushed
    /\ cache \in {None} \cup Nat
    /\ write = NoWrite \/ write.step \in Puts
    /\ acked \subseteq ordering

\* What a reader lists of a process has the nonces 1, 2, 3, ..., once each, after
\* saves that failed between two puts, restarts, and writes from memory.
ReadableChain ==
    LET readable == {m \in ordering : Readable(m)}
    IN  /\ \A m, n \in readable : m.nonce = n.nonce => m = n
        /\ \A m \in readable : m.nonce > 1 => \E n \in readable : n.nonce = m.nonce - 1

\* An item is saved once, by its id or its deep hash, unless a save of it was cut
\* short.
ItemOnce ==
    \A m, n \in acked : m.item = n.item /\ m.item \notin cut => m = n

\* A page that has room for more than the torn entries and the one being saved.
Roomy(q) == q.limit > Cardinality(Torn) + 1

\* While nothing is cut short, a page of more than one edge shows what the page
\* of the SQL store shows, and claims to be the last only if that one does.
PagesAsSql ==
    write = NoWrite /\ reader = NoReader /\ Torn = {} =>
        \A q \in Queries : q.limit > 1 =>
            LET page == Keys(q)
                sql == SqlPage(Process, ordering, q)
            IN  page.edges = sql.edges /\ (sql.more => page.more)

\* The pages of a roomy query are followed to a list without repetition, in order,
\* of all that was saved in its range when the reader began, while messages are
\* saved, torn entries are met, and the reader gives up on the message that is being
\* saved, or does not (get_messages, fetchAllPages).
ReadExactly ==
    [][reader.step = "bundles" /\ ~ reader.page.more /\ reader' # reader /\ crashes' = crashes
         /\ Roomy(reader.first) =>
         /\ \A i, j \in DOMAIN Got : i < j => Got[i].nonce < Got[j].nonce
         /\ {m \in reader.known : InRange(reader.first, m)} \subseteq ToSet(Got)
         /\ \A m \in ToSet(Got) \ {Process} : Readable(m) /\ InRange(reader.first, m)]_vars

\* A reader comes to the end of the list, however many messages are added to it.
ReaderEnds ==
    reader.step = "keys" ~> reader.step = "none" \/ ~ Roomy(reader.first)

\* "this returns a paginated list of messages" (local_store/store.rs:668): a page that claims
\* to be the last has shown every message in range.
LastPageIsLast ==
    \A q \in Queries :
        LET page == Keys(q)
        IN  ~ page.more => \A m \in acked : InRange(q, m) => m \in ToSet(page.edges)

\* A process can be scheduled to after any restart.
Schedulable == write = NoWrite /\ cache = None => LatestNonces # {}
=============================================================================
