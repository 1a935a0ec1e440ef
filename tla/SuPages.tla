------------------------------ MODULE SuPages ------------------------------
(***************************************************************************)
(* The pages in which a Scheduler Unit lists the messages of a process,    *)
(* read from the SQL store, and how a Compute Unit follows them.           *)
(*   src/servers/su/src/domain/clients/store.rs (get_messages)             *)
(*   src/servers/cu/src/effects/ao-su.js (fetchAllPages)                   *)
(* A query has a mode, the timestamps or the nonces it is about, an        *)
(* exclusive from and an inclusive to, each of which may be None, and a    *)
(* limit. A message is a record with a nonce and a time.                   *)
(***************************************************************************)
EXTENDS Integers, Sequences, FiniteSets, SequencesExt

None == -2

Modes == {"timestamp", "nonce"}

\* What from, to and the cursor of an edge are compared by.
Cursor(mode, m) == IF mode = "nonce" THEN m.nonce ELSE m.time

InRange(q, m) ==
    /\ q.from # None => Cursor(q.mode, m) > q.from
    /\ q.to # None => Cursor(q.mode, m) <= q.to

\* The process itself, when it was assigned, opens the first page.
IncludesProcess(q) == q.from = None \/ (q.mode = "nonce" /\ q.from = -1)

Prefix(s, n) == SubSeq(s, 1, IF n < Len(s) THEN n ELSE Len(s))

\* The elements of a finite set in an order: before the i-th come i - 1.
InOrder(S, Before(_, _)) ==
    [i \in 1 .. Cardinality(S) |->
        CHOOSE m \in S : Cardinality({n \in S : Before(n, m)}) = i - 1]

\* Rows of one timestamp come in the order they were inserted in.
Earlier(m, n) == m.time < n.time \/ (m.time = n.time /\ m.nonce < n.nonce)

ByTime(messages) == InOrder(messages, Earlier)

\* One row more than the page shows is read, to know whether another follows.
SqlPage(process, messages, q) ==
    LET rows == ByTime({m \in messages : InRange(q, m)})
        room == IF IncludesProcess(q) THEN q.limit - 1 ELSE q.limit
    IN  [edges |-> (IF IncludesProcess(q) THEN <<process>> ELSE <<>>) \o Prefix(rows, room),
         more  |-> Len(rows) > room]

\* The query for the page that follows a page: it starts from the last edge, and
\* from the beginning if there is none, for the cursor of it is undefined.
NextQuery(q, page) ==
    [q EXCEPT !.from = IF page.edges = <<>> THEN None ELSE Cursor(q.mode, Last(page.edges))]
=============================================================================
