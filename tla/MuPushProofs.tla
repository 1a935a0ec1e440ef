------------------------------ MODULE MuPushProofs ------------------------------
(***************************************************************************)
(* Proofs about MuPush, for any requests, any limits of retries and any    *)
(* number of restarts.                                                     *)
(***************************************************************************)
EXTENDS MuPush, FiniteSetTheorems, SequenceTheorems, TLAPS

Row == [request : Requests, retries : 0 .. MaxRecoveries + 1]

JobType ==
    \/ job = NoJob
    \/ job \in [step : {"pull", "crank", "delete"}, attempts : 0 .. MaxPulls, row : Row]

TypeInv ==
    /\ phase \in [Requests -> Phases]
    /\ attempts \in [Requests -> 0 .. MaxPulls]
    /\ written \subseteq Requests
    /\ table \in Seq(Row)
    /\ due \in 0 .. Len(table)
    /\ JobType
    /\ cranked \in [Requests -> Nat]
    /\ redone \in [Requests -> Nat]
    /\ restarts \in Nat

RowsDistinct ==
    \A i, j \in 1 .. Len(table) : table[i].request = table[j].request => i = j

RowsSaved ==
    \A r \in Requests :
        phase[r] = "saved" <=> \E i \in 1 .. Len(table) : table[i].request = r

\* The rows that are due stay before the others, and so the job's row first.
JobHoldsFirst == job.step # "idle" => due > 0 /\ table[1] = job.row

RowInv == RowsDistinct /\ RowsSaved /\ JobHoldsFirst

\* Nothing was cranked before the phase that cranks it, and nothing of a saved
\* message but by a job that was stopped, or is about to delete its row.
NotYetCranked ==
    \A r \in Requests :
        /\ phase[r] \in {"new", "pulling", "cranking"} => cranked[r] = 0
        /\ phase[r] = "saved" =>
              cranked[r] <= IF job.step = "delete" /\ job.row.request = r
                            THEN redone[r] + 1 ELSE redone[r]

CrankInv == CrankedOnce /\ NotYetCranked

-----------------------------------------------------------------------------
(* The table.                                                              *)

\* A row taken out: those behind it move up.
LEMMA RemoveRow ==
    ASSUME NEW S, NEW s \in Seq(S), NEW i \in 1 .. Len(s)
    PROVE  /\ RemoveAt(s, i) \in Seq(S)
           /\ Len(RemoveAt(s, i)) = Len(s) - 1
           /\ \A k \in 1 .. Len(s) - 1 :
                 RemoveAt(s, i)[k] = IF k < i THEN s[k] ELSE s[k + 1]
<1> DEFINE a == SubSeq(s, 1, i - 1)
           b == SubSeq(s, i + 1, Len(s))
<1>1. Len(s) \in Nat /\ \A k \in 1 .. Len(s) : s[k] \in S
  OBVIOUS
<1>2. /\ a \in Seq(S) /\ Len(a) = i - 1
      /\ \A k \in 1 .. i - 1 : a[k] = s[k]
  <2>1. \A k \in 1 .. i - 1 : s[k] \in S /\ 1 + k - 1 = k
    BY <1>1
  <2>2. QED
    BY <1>1, <2>1, SubSeqProperties
<1>3. /\ b \in Seq(S) /\ Len(b) = Len(s) - i
      /\ \A k \in 1 .. Len(s) - i : b[k] = s[i + k]
  <2>1. \A k \in i + 1 .. Len(s) : s[k] \in S
    BY <1>1
  <2>2. /\ b \in Seq(S) /\ Len(b) = IF i + 1 <= Len(s) THEN Len(s) - (i + 1) + 1 ELSE 0
        /\ \A k \in 1 .. Len(s) - (i + 1) + 1 : b[k] = s[(i + 1) + k - 1]
    BY <1>1, <2>1, SubSeqProperties
  <2>3. QED
    BY <1>1, <2>2
<1>4. RemoveAt(s, i) = a \o b
  BY DEF RemoveAt
<1> HIDE DEF a, b
<1>5. /\ a \o b \in Seq(S) /\ Len(a \o b) = Len(a) + Len(b)
      /\ \A k \in 1 .. Len(a) + Len(b) :
            (a \o b)[k] = IF k <= Len(a) THEN a[k] ELSE b[k - Len(a)]
  BY <1>2, <1>3, ConcatProperties
<1>6. ASSUME NEW k \in 1 .. Len(s) - 1
      PROVE  (a \o b)[k] = IF k < i THEN s[k] ELSE s[k + 1]
  <2>1. CASE k < i
    BY <1>1, <1>2, <1>3, <1>5, <2>1
  <2>2. CASE ~(k < i)
    <3>1. k - (i - 1) \in 1 .. Len(s) - i /\ i + (k - (i - 1)) = k + 1
      BY <1>1, <2>2
    <3>2. (a \o b)[k] = b[k - (i - 1)]
      BY <1>1, <1>2, <1>3, <1>5, <2>2
    <3>3. QED
      BY <1>3, <2>2, <3>1, <3>2
  <2>3. QED
    BY <2>1, <2>2
<1>7. QED
  BY <1>1, <1>2, <1>3, <1>4, <1>5, <1>6

\* A row put in: those from its place on move down.
LEMMA InsertRow ==
    ASSUME NEW S, NEW s \in Seq(S), NEW i \in 1 .. Len(s) + 1, NEW e \in S
    PROVE  /\ InsertAt(s, i, e) \in Seq(S)
           /\ Len(InsertAt(s, i, e)) = Len(s) + 1
           /\ \A k \in 1 .. Len(s) + 1 :
                 InsertAt(s, i, e)[k] = IF k < i THEN s[k]
                                        ELSE IF k = i THEN e ELSE s[k - 1]
<1> DEFINE a == SubSeq(s, 1, i - 1)
           b == SubSeq(s, i, Len(s))
           c == a \o <<e>>
<1>1. Len(s) \in Nat /\ \A k \in 1 .. Len(s) : s[k] \in S
  OBVIOUS
<1>2. /\ a \in Seq(S) /\ Len(a) = i - 1
      /\ \A k \in 1 .. i - 1 : a[k] = s[k]
  <2>1. \A k \in 1 .. i - 1 : s[k] \in S /\ 1 + k - 1 = k
    BY <1>1
  <2>2. QED
    BY <1>1, <2>1, SubSeqProperties
<1>3. /\ b \in Seq(S) /\ Len(b) = Len(s) - i + 1
      /\ \A k \in 1 .. Len(s) - i + 1 : b[k] = s[i + k - 1]
  <2>1. \A k \in i .. Len(s) : s[k] \in S
    BY <1>1
  <2>2. QED
    BY <1>1, <2>1, SubSeqProperties
<1>4. InsertAt(s, i, e) = c \o b
  BY DEF InsertAt
<1>5. <<e>> \in Seq(S) /\ Len(<<e>>) = 1 /\ <<e>>[1] = e
  OBVIOUS
<1> HIDE DEF a, b
<1>6. /\ c \in Seq(S) /\ Len(c) = i
      /\ \A k \in 1 .. i : c[k] = IF k < i THEN s[k] ELSE e
  <2>1. /\ c \in Seq(S) /\ Len(c) = Len(a) + 1
        /\ \A k \in 1 .. Len(a) + 1 : c[k] = IF k <= Len(a) THEN a[k] ELSE <<e>>[k - Len(a)]
    BY <1>2, <1>5, ConcatProperties
  <2> HIDE DEF c
  <2>2. QED
    BY <1>1, <1>2, <1>5, <2>1
<1> HIDE DEF c
<1>7. /\ c \o b \in Seq(S) /\ Len(c \o b) = Len(c) + Len(b)
      /\ \A k \in 1 .. Len(c) + Len(b) :
            (c \o b)[k] = IF k <= Len(c) THEN c[k] ELSE b[k - Len(c)]
  BY <1>3, <1>6, ConcatProperties
<1>8. ASSUME NEW k \in 1 .. Len(s) + 1
      PROVE  (c \o b)[k] = IF k < i THEN s[k] ELSE IF k = i THEN e ELSE s[k - 1]
  <2>1. CASE k <= i
    BY <1>1, <1>3, <1>6, <1>7, <2>1
  <2>2. CASE ~(k <= i)
    <3>1. k - i \in 1 .. Len(s) - i + 1 /\ i + (k - i) - 1 = k - 1
      BY <1>1, <2>2
    <3>2. (c \o b)[k] = b[k - i]
      BY <1>1, <1>3, <1>6, <1>7, <2>2
    <3>3. QED
      BY <1>3, <2>2, <3>1, <3>2
  <2>3. QED
    BY <2>1, <2>2
<1>9. QED
  BY <1>1, <1>3, <1>4, <1>6, <1>7, <1>8

\* The row of the job is the first of the table, and deleting it leaves the rest.
LEMMA JobsRow ==
    ASSUME TypeInv, RowInv, job.step # "idle"
    PROVE  /\ job \in [step : {"pull", "crank", "delete"}, attempts : 0 .. MaxPulls, row : Row]
           /\ job.row \in Row /\ table[1] = job.row /\ due > 0
           /\ Len(table) \in Nat \ {0}
           /\ OtherRows \in Seq(Row) /\ Len(OtherRows) = Len(table) - 1
           /\ \A k \in 1 .. Len(table) - 1 : OtherRows[k] = table[k + 1]
<1>1. job \in [step : {"pull", "crank", "delete"}, attempts : 0 .. MaxPulls, row : Row]
  BY DEF TypeInv, JobType, NoJob
<1>2. /\ table[1] = job.row /\ due > 0 /\ Len(table) \in Nat \ {0}
      /\ table \in Seq(Row) /\ DOMAIN table = 1 .. Len(table)
  BY DEF TypeInv, RowInv, JobHoldsFirst
<1>3. (CHOOSE i \in DOMAIN table : table[i].request = job.row.request) = 1
  <2>1. 1 \in DOMAIN table /\ table[1].request = job.row.request
    BY <1>2
  <2>2. \A i \in DOMAIN table : table[i].request = job.row.request => i = 1
    BY <1>2, <2>1 DEF RowInv, RowsDistinct
  <2>3. QED
    BY <2>1, <2>2
<1>4. OtherRows = RemoveAt(table, 1) /\ 1 \in 1 .. Len(table)
  <2>1. OtherRows = RemoveAt(table, 1)
    BY <1>3, Zenon DEF OtherRows
  <2>2. QED
    BY <1>2, <2>1
<1>5. /\ OtherRows \in Seq(Row) /\ Len(OtherRows) = Len(table) - 1
      /\ \A k \in 1 .. Len(table) - 1 : OtherRows[k] = IF k < 1 THEN table[k] ELSE table[k + 1]
  BY <1>2, <1>4, RemoveRow
<1>6. \A k \in 1 .. Len(table) - 1 : OtherRows[k] = table[k + 1]
  BY <1>2, <1>5
<1>7. QED
  BY <1>1, <1>2, <1>5, <1>6

\* The job is over, and its row goes with the phase that kept it.
LEMMA RowDeleted ==
    ASSUME TypeInv, RowInv, job.step # "idle", job' = NoJob, table' = OtherRows,
           NEW p \in Phases \ {"saved"}, To(job.row.request, p)
    PROVE  /\ RowInv' /\ table' \in Seq(Row) /\ Len(table') = Len(table) - 1
           /\ phase' \in [Requests -> Phases]
<1> DEFINE q == job.row.request
<1>1. /\ q \in Requests /\ table[1].request = q /\ Len(table) \in Nat \ {0}
      /\ Len(table') = Len(table) - 1 /\ table' \in Seq(Row)
      /\ \A k \in 1 .. Len(table) - 1 : table'[k] = table[k + 1] /\ k + 1 \in 1 .. Len(table)
  BY JobsRow DEF Row
<1>2. phase' = [phase EXCEPT ![q] = p] /\ phase \in [Requests -> Phases]
  BY DEF To, TypeInv
<1> HIDE DEF q
<1>3. RowsDistinct'
  <2> SUFFICES ASSUME NEW i \in 1 .. Len(table'), NEW j \in 1 .. Len(table'),
                      table'[i].request = table'[j].request
               PROVE  i = j
    BY DEF RowsDistinct
  <2>1. i + 1 = j + 1
    BY <1>1 DEF RowInv, RowsDistinct
  <2>2. QED
    BY <2>1
<1>4. RowsSaved'
  <2> SUFFICES ASSUME NEW r \in Requests
               PROVE  phase'[r] = "saved" <=> \E i \in 1 .. Len(table') : table'[i].request = r
    BY DEF RowsSaved
  <2>1. CASE r = q
    <3>1. phase'[r] # "saved"
      BY <1>1, <1>2, <2>1
    <3>2. \A i \in 1 .. Len(table') : table'[i].request # q
      <4> SUFFICES ASSUME NEW i \in 1 .. Len(table'), table'[i].request = q PROVE FALSE
        OBVIOUS
      <4>1. i + 1 \in 1 .. Len(table) /\ 1 \in 1 .. Len(table) /\ table[i + 1].request = q
        BY <1>1
      <4>2. i + 1 = 1
        BY <1>1, <4>1 DEF RowInv, RowsDistinct
      <4>3. QED
        BY <4>2
    <3>3. QED
      BY <2>1, <3>1, <3>2
  <2>2. CASE r # q
    <3>1. phase'[r] = phase[r]
      BY <1>1, <1>2, <2>2
    <3>2. ASSUME NEW i \in 1 .. Len(table), table[i].request = r
          PROVE  \E k \in 1 .. Len(table') : table'[k].request = r
      <4>1. i # 1
        BY <1>1, <2>2, <3>2
      <4>2. i - 1 \in 1 .. Len(table') /\ (i - 1) + 1 = i
        BY <1>1, <4>1
      <4>3. table'[i - 1] = table[i]
        BY <1>1, <4>2
      <4>4. QED
        BY <3>2, <4>2, <4>3
    <3>3. ASSUME NEW k \in 1 .. Len(table'), table'[k].request = r
          PROVE  \E i \in 1 .. Len(table) : table[i].request = r
      BY <1>1, <3>3
    <3>4. QED
      BY <3>1, <3>2, <3>3 DEF RowInv, RowsSaved
  <2>3. QED
    BY <2>1, <2>2
<1>5. JobHoldsFirst'
  BY DEF JobHoldsFirst, NoJob
<1>6. QED
  BY <1>1, <1>2, <1>3, <1>4, <1>5 DEF RowInv

\* The job is over, and its row waits behind those that are due.
LEMMA RowMoved ==
    ASSUME TypeInv, RowInv, job.step # "idle", job' = NoJob, NEW n \in 1 .. Len(table),
           NEW e \in Row, e.request = job.row.request,
           table' = InsertAt(OtherRows, n, e),
           phase' = phase
    PROVE  RowInv' /\ table' \in Seq(Row) /\ Len(table') = Len(table)
<1> DEFINE q == job.row.request
           len == Len(table)
<1>1. /\ job.row \in Row /\ table[1].request = q /\ len \in Nat \ {0} /\ n \in 1 .. len
      /\ OtherRows \in Seq(Row) /\ Len(OtherRows) = len - 1
      /\ \A k \in 1 .. len - 1 : OtherRows[k] = table[k + 1]
  BY JobsRow
<1>2. e.request = q
  OBVIOUS
<1>3. /\ table' \in Seq(Row) /\ Len(table') = len
      /\ \A k \in 1 .. len :
            table'[k] = IF k < n THEN OtherRows[k] ELSE IF k = n THEN e ELSE OtherRows[k - 1]
  <2> HIDE DEF len
  <2>1. n \in 1 .. Len(OtherRows) + 1 /\ Len(OtherRows) + 1 = len
    BY <1>1
  <2>2. /\ InsertAt(OtherRows, n, e) \in Seq(Row)
        /\ Len(InsertAt(OtherRows, n, e)) = Len(OtherRows) + 1
        /\ \A k \in 1 .. Len(OtherRows) + 1 :
              InsertAt(OtherRows, n, e)[k] =
                 IF k < n THEN OtherRows[k] ELSE IF k = n THEN e ELSE OtherRows[k - 1]
    <3>1. PICK s \in Seq(Row) : s = OtherRows
      BY <1>1
    <3>2. n \in 1 .. Len(s) + 1
      BY <2>1, <3>1
    <3>3. /\ InsertAt(s, n, e) \in Seq(Row)
          /\ Len(InsertAt(s, n, e)) = Len(s) + 1
          /\ \A k \in 1 .. Len(s) + 1 :
                InsertAt(s, n, e)[k] = IF k < n THEN s[k] ELSE IF k = n THEN e ELSE s[k - 1]
      BY <3>2, InsertRow
    <3>4. QED
      BY <3>1, <3>3
  <2>3. QED
    BY <2>1, <2>2
<1> HIDE DEF q, len
<1> DEFINE Was(k) == IF k < n THEN k + 1 ELSE IF k = n THEN 1 ELSE k
<1>4. /\ \A k \in 1 .. len : Was(k) \in 1 .. len
      /\ \A k \in 1 .. len : table'[k].request = table[Was(k)].request
  <2> SUFFICES ASSUME NEW k \in 1 .. len
               PROVE  Was(k) \in 1 .. len /\ table'[k].request = table[Was(k)].request
    OBVIOUS
  <2>1. CASE k < n
    <3>1. k \in 1 .. len - 1 /\ k + 1 \in 1 .. len
      BY <1>1, <2>1
    <3>2. QED
      BY <1>1, <1>3, <2>1, <3>1
  <2>2. CASE k = n
    <3>1. table'[k] = e /\ Was(k) = 1
      BY <1>1, <1>3, <2>2
    <3>2. table'[k].request = table[1].request /\ 1 \in 1 .. len
      BY <1>1, <1>2, <3>1
    <3>3. QED
      BY <3>1, <3>2
  <2>3. CASE k > n
    <3>1. k - 1 \in 1 .. len - 1 /\ (k - 1) + 1 = k
      BY <1>1, <2>3
    <3>2. table'[k] = OtherRows[k - 1]
      BY <1>1, <1>3, <2>3
    <3>4. OtherRows[k - 1] = table[(k - 1) + 1]
      BY <1>1, <3>1
    <3>3. QED
      BY <1>1, <2>3, <3>1, <3>2, <3>4
  <2>4. QED
    BY <1>1, <2>1, <2>2, <2>3
<1>5. \A i, j \in 1 .. len : Was(i) = Was(j) => i = j
  BY <1>1
<1>6. \A i \in 1 .. len : \E k \in 1 .. len : Was(k) = i
  <2> SUFFICES ASSUME NEW i \in 1 .. len PROVE \E k \in 1 .. len : Was(k) = i
    OBVIOUS
  <2>1. CASE i = 1
    BY <1>1, <2>1
  <2>2. CASE i > 1 /\ i <= n
    <3>1. i - 1 \in 1 .. len /\ Was(i - 1) = i
      BY <1>1, <2>2
    <3>2. QED
      BY <3>1
  <2>3. CASE i > n
    <3>1. Was(i) = i
      BY <1>1, <2>3
    <3>2. QED
      BY <3>1
  <2>4. QED
    BY <1>1, <2>1, <2>2, <2>3
<1> HIDE DEF Was
<1>7. RowsDistinct'
  <2> SUFFICES ASSUME NEW i \in 1 .. len, NEW j \in 1 .. len,
                      table'[i].request = table'[j].request
               PROVE  i = j
    BY <1>3 DEF RowsDistinct
  <2>1. /\ Was(i) \in 1 .. len /\ Was(j) \in 1 .. len
        /\ table[Was(i)].request = table[Was(j)].request
    BY <1>4
  <2>2. Was(i) = Was(j)
    BY <2>1 DEF RowInv, RowsDistinct, len
  <2>3. QED
    BY <1>5, <2>2
<1>8. RowsSaved'
  <2> SUFFICES ASSUME NEW r \in Requests
               PROVE  phase'[r] = "saved" <=> \E i \in 1 .. len : table'[i].request = r
    BY <1>3 DEF RowsSaved
  <2>1. phase[r] = "saved" <=> \E i \in 1 .. len : table[i].request = r
    BY DEF RowInv, RowsSaved, len
  <2>2. ASSUME NEW k \in 1 .. len, table'[k].request = r
        PROVE  \E i \in 1 .. len : table[i].request = r
    <3>1. Was(k) \in 1 .. len /\ table[Was(k)].request = r
      BY <1>4, <2>2
    <3>2. QED
      BY <3>1
  <2>3. ASSUME NEW i \in 1 .. len, table[i].request = r
        PROVE  \E k \in 1 .. len : table'[k].request = r
    <3>1. PICK k \in 1 .. len : Was(k) = i
      BY <1>6
    <3>2. table'[k].request = table[Was(k)].request
      BY <1>4
    <3>3. QED
      BY <2>3, <3>1, <3>2
  <2>4. QED
    BY <2>1, <2>2, <2>3
<1>9. JobHoldsFirst'
  BY DEF JobHoldsFirst, NoJob
<1>10. QED
  BY <1>3, <1>7, <1>8, <1>9 DEF RowInv, len

\* A message is saved behind the rows that are due.
LEMMA RowSaved ==
    ASSUME TypeInv, RowInv, NEW r \in Requests, Save(r)
    PROVE  /\ RowInv' /\ table' \in Seq(Row) /\ Len(table') = Len(table) + 1
           /\ phase' \in [Requests -> Phases]
<1> DEFINE e == [request |-> r, retries |-> 0]
           len == Len(table)
           n == due + 1
<1>1. /\ len \in Nat /\ n \in 1 .. len + 1 /\ table \in Seq(Row)
      /\ phase[r] = "pulling" /\ phase' = [phase EXCEPT ![r] = "saved"]
      /\ job' = job /\ due' = due /\ due \in Nat
      /\ phase \in [Requests -> Phases] /\ "saved" \in Phases
  BY DEF Save, To, TypeInv, Phases
<1>2. e \in Row /\ e.request = r
  BY PushAssumption DEF Row
<1> HIDE DEF e
<1>3. /\ table' \in Seq(Row) /\ Len(table') = len + 1
      /\ \A k \in 1 .. len + 1 :
            table'[k] = IF k < n THEN table[k] ELSE IF k = n THEN e ELSE table[k - 1]
  <2>1. table' = InsertAt(table, n, e)
    BY DEF Save, e
  <2> HIDE DEF n, len
  <2>2. /\ InsertAt(table, n, e) \in Seq(Row)
        /\ Len(InsertAt(table, n, e)) = Len(table) + 1
        /\ \A k \in 1 .. Len(table) + 1 :
              InsertAt(table, n, e)[k] =
                 IF k < n THEN table[k] ELSE IF k = n THEN e ELSE table[k - 1]
    BY <1>1, <1>2, InsertRow DEF len
  <2>3. QED
    BY <2>1, <2>2 DEF len
<1> HIDE DEF n, len
<1>4. \A i \in 1 .. len : table[i].request # r
  BY <1>1 DEF RowInv, RowsSaved, len
<1>5. \A k \in 1 .. len + 1 :
         \/ k < n /\ k \in 1 .. len /\ table'[k] = table[k]
         \/ k = n /\ table'[k] = e
         \/ k > n /\ k - 1 \in 1 .. len /\ table'[k] = table[k - 1]
  BY <1>1, <1>3
<1>6. RowsDistinct'
  <2> SUFFICES ASSUME NEW i \in 1 .. len + 1, NEW j \in 1 .. len + 1,
                      table'[i].request = table'[j].request
               PROVE  i = j
    BY <1>3 DEF RowsDistinct
  <2>1. CASE i = n
    BY <1>2, <1>4, <1>5, <2>1
  <2>2. CASE j = n
    BY <1>2, <1>4, <1>5, <2>2
  <2>3. CASE i # n /\ j # n
    <3>1. PICK a \in 1 .. len : table'[i] = table[a] /\ a = IF i < n THEN i ELSE i - 1
      BY <1>1, <1>5, <2>3
    <3>2. PICK b \in 1 .. len : table'[j] = table[b] /\ b = IF j < n THEN j ELSE j - 1
      BY <1>1, <1>5, <2>3
    <3>3. a = b
      BY <3>1, <3>2 DEF RowInv, RowsDistinct, len
    <3>4. QED
      BY <1>1, <2>3, <3>1, <3>2, <3>3
  <2>4. QED
    BY <2>1, <2>2, <2>3
<1>7. RowsSaved'
  <2> SUFFICES ASSUME NEW q \in Requests
               PROVE  phase'[q] = "saved" <=> \E i \in 1 .. len + 1 : table'[i].request = q
    BY <1>3 DEF RowsSaved
  <2>1. n \in 1 .. len + 1 /\ table'[n].request = r
    BY <1>1, <1>2, <1>5
  <2>2. CASE q = r
    BY <1>1, <2>1, <2>2
  <2>3. CASE q # r
    <3>1. phase'[q] = phase[q]
      BY <1>1, <2>3
    <3>2. phase[q] = "saved" <=> \E i \in 1 .. len : table[i].request = q
      BY DEF RowInv, RowsSaved, len
    <3>3. ASSUME NEW i \in 1 .. len, table[i].request = q
          PROVE  \E k \in 1 .. len + 1 : table'[k].request = q
      <4>1. CASE i < n
        <5>1. i \in 1 .. len + 1 /\ table'[i] = table[i]
          BY <1>1, <1>3, <4>1
        <5>2. QED
          BY <3>3, <5>1
      <4>2. CASE ~(i < n)
        <5>1. i + 1 \in 1 .. len + 1 /\ (i + 1) - 1 = i /\ ~(i + 1 < n) /\ i + 1 # n
          BY <1>1, <4>2
        <5>2. table'[i + 1] = table[i]
          BY <1>3, <5>1
        <5>3. QED
          BY <3>3, <5>1, <5>2
      <4>3. QED
        BY <4>1, <4>2
    <3>4. ASSUME NEW k \in 1 .. len + 1, table'[k].request = q
          PROVE  \E i \in 1 .. len : table[i].request = q
      BY <1>2, <1>5, <2>3, <3>4
    <3>5. QED
      BY <3>1, <3>2, <3>3, <3>4
  <2>4. QED
    BY <2>2, <2>3
<1>8. JobHoldsFirst'
  <2> SUFFICES ASSUME job.step # "idle" PROVE due > 0 /\ table'[1] = job.row
    BY <1>1 DEF JobHoldsFirst
  <2>1. due > 0 /\ table[1] = job.row
    BY DEF RowInv, JobHoldsFirst
  <2>2. 1 < n /\ 1 \in 1 .. len + 1
    BY <1>1, <2>1 DEF n
  <2>3. QED
    BY <1>3, <2>1, <2>2
<1>9. phase' \in [Requests -> Phases]
  BY <1>1
<1>10. QED
  BY <1>3, <1>6, <1>7, <1>8, <1>9 DEF RowInv, len

-----------------------------------------------------------------------------
(* The steps.                                                              *)

Inv == TypeInv /\ RowInv /\ CrankInv

\* No request has been made.
LEMMA InvInit == Init => Inv
<1> SUFFICES ASSUME Init PROVE Inv
  OBVIOUS
<1>1. TypeInv
  BY PushAssumption DEF Init, TypeInv, JobType, Phases
<1>2. RowInv
  BY DEF Init, RowInv, RowsDistinct, RowsSaved, JobHoldsFirst, NoJob
<1>3. CrankInv
  BY DEF Init, CrankInv, CrankedOnce, NotYetCranked
<1>4. QED
  BY <1>1, <1>2, <1>3 DEF Inv

\* A request goes on, and its row, which it has none of, is not touched.
LEMMA RequestKeepsRows ==
    ASSUME TypeInv, RowInv, NEW r \in Requests, NEW p \in Phases \ {"saved"},
           phase[r] # "saved", To(r, p), UNCHANGED <<table, due, job>>
    PROVE  RowInv' /\ phase' \in [Requests -> Phases]
<1>1. /\ phase' \in [Requests -> Phases] /\ phase'[r] = p
      /\ \A q \in Requests \ {r} : phase'[q] = phase[q]
  BY DEF To, TypeInv
<1>2. RowsDistinct' /\ JobHoldsFirst'
  BY DEF RowInv, RowsDistinct, JobHoldsFirst
<1>3. RowsSaved'
  BY <1>1 DEF RowInv, RowsSaved
<1>4. QED
  BY <1>1, <1>2, <1>3 DEF RowInv

\* ... and if it cranks nothing, NotYetCranked is not touched either.
LEMMA RequestKeepsCranks ==
    ASSUME TypeInv, CrankInv, NEW r \in Requests, NEW p \in Phases \ {"saved"}, To(r, p),
           phase[r] \in {"new", "pulling", "cranking"},
           UNCHANGED <<cranked, redone, job>>
    PROVE  CrankInv'
<1>1. /\ phase'[r] = p
      /\ \A q \in Requests \ {r} : phase'[q] = phase[q]
  BY DEF To, TypeInv
<1>2. CrankedOnce'
  BY DEF CrankInv, CrankedOnce
<1>3. NotYetCranked'
  BY <1>1 DEF CrankInv, NotYetCranked
<1>4. QED
  BY <1>2, <1>3 DEF CrankInv

\* A stop of the MU keeps the invariant, whatever else it takes down.
LEMMA StopsKeeps ==
    ASSUME Inv, NEW down \in SUBSET Requests, Stops(down),
           \A r \in down : phase[r] = "pulling",
           UNCHANGED <<attempts, written, tableVars, cranked>>
    PROVE  Inv'
<1>1. /\ phase' \in [Requests -> Phases]
      /\ \A r \in Requests :
            phase'[r] = phase[r]
            \/ (phase[r] \in {"pulling", "cranking"} /\ phase'[r] \in {"lost", "refused"})
  <2>1. /\ phase \in [Requests -> Phases] /\ {"lost", "refused"} \subseteq Phases
        /\ \A r \in down : phase[r] = "pulling"
    BY DEF Inv, TypeInv, Phases
  <2>2. /\ \A r \in Requests :
              \/ phase'[r] = phase[r]
              \/ phase[r] \in {"pulling", "cranking"} /\ phase'[r] \in {"lost", "refused"}
        /\ phase' = [r \in Requests |-> phase'[r]]
    BY <2>1 DEF Stops
  <2>3. QED
    BY <2>1, <2>2
<1>2. /\ redone' \in [Requests -> Nat]
      /\ \A r \in Requests :
            redone'[r] = IF job.step = "delete" /\ job.row.request = r
                         THEN redone[r] + 1 ELSE redone[r]
  BY DEF Stops, Inv, TypeInv
<1>3. TypeInv'
  BY <1>1, <1>2 DEF Stops, Inv, TypeInv, JobType, tableVars
<1>4. RowInv'
  <2>1. RowsDistinct' /\ JobHoldsFirst'
    BY DEF Inv, RowInv, RowsDistinct, JobHoldsFirst, Stops, NoJob, tableVars
  <2>2. RowsSaved'
    BY <1>1 DEF Inv, RowInv, RowsSaved, tableVars
  <2>3. QED
    BY <2>1, <2>2 DEF RowInv
<1>5. CrankInv'
  <2>1. \A r \in Requests : redone[r] \in Nat /\ redone[r] <= redone'[r] /\ cranked[r] \in Nat
    <3>1. \A r \in Requests : redone[r] \in Nat /\ cranked[r] \in Nat
      BY DEF Inv, TypeInv
    <3>2. QED
      BY <1>2, <3>1
  <2>2. CrankedOnce'
    BY <1>2, <2>1 DEF Inv, CrankInv, CrankedOnce
  <2>3. job'.step = "idle"
    BY DEF Stops, NoJob
  <2>4. NotYetCranked'
    BY <1>1, <1>2, <2>1, <2>3 DEF Inv, CrankInv, NotYetCranked
  <2>5. QED
    BY <2>2, <2>4 DEF CrankInv
<1>6. QED
  BY <1>3, <1>4, <1>5 DEF Inv

\* Every step of a request keeps the invariant.
LEMMA RequestStep ==
    ASSUME Inv, NEW r \in Requests, Refuse(r) \/ Write(r) \/ Check(r) \/ Serve(r)
    PROVE  Inv'
<1>1. /\ {"refused", "pulling", "cranking", "cranked", "lost"} \subseteq Phases \ {"saved"}
      /\ TypeInv /\ RowInv /\ CrankInv
  BY DEF Phases, Inv
<1>2. CASE Refuse(r) \/ Write(r) \/ Check(r) \/ Pull(r) \/ CrankFails(r)
  <2>1. PICK p \in Phases \ {"saved"} : To(r, p)
    BY <1>1, <1>2 DEF Refuse, Write, Check, Pull, CrankFails
  <2>2. /\ phase[r] \in {"new", "pulling", "cranking"}
        /\ UNCHANGED <<attempts, tableVars, job, cranked, historyVars>>
        /\ written' \subseteq written \cup {r}
    BY <1>2 DEF Refuse, Write, Check, Pull, CrankFails
  <2>3. RowInv' /\ phase' \in [Requests -> Phases] /\ CrankInv'
    BY <1>1, <2>1, <2>2, RequestKeepsRows, RequestKeepsCranks DEF tableVars, historyVars
  <2>4. QED
    BY <1>1, <2>2, <2>3 DEF Inv, TypeInv, JobType, tableVars, historyVars
<1>3. CASE PullAgain(r)
  <2>1. attempts' \in [Requests -> 0 .. MaxPulls]
    BY <1>1, <1>3, PushAssumption DEF PullAgain, TypeInv
  <2>2. UNCHANGED <<phase, written, table, due, job, cranked, redone, restarts>>
    BY <1>3 DEF PullAgain, tableVars, historyVars
  <2>3. QED
    BY <1>1, <2>1, <2>2 DEF Inv, TypeInv, JobType, RowInv, RowsDistinct, RowsSaved, JobHoldsFirst,
          CrankInv, CrankedOnce, NotYetCranked
<1>4. CASE Save(r)
  <2>1. /\ RowInv' /\ table' \in Seq(Row) /\ Len(table') = Len(table) + 1
        /\ phase' \in [Requests -> Phases]
    BY <1>1, <1>4, RowSaved
  <2>2. /\ UNCHANGED <<attempts, written, due, job, cranked, redone, restarts>>
        /\ phase[r] = "pulling" /\ phase' = [phase EXCEPT ![r] = "saved"]
    BY <1>4 DEF Save, To, historyVars
  <2>3. TypeInv'
    <3>1. due' \in 0 .. Len(table')
      BY <1>1, <2>1, <2>2 DEF TypeInv
    <3>2. QED
      BY <1>1, <2>1, <2>2, <3>1 DEF TypeInv, JobType
  <2>4. CrankInv'
    <3>1. cranked[r] = 0 /\ redone[r] \in Nat
      BY <1>1, <2>2 DEF CrankInv, NotYetCranked, TypeInv
    <3>2. \A q \in Requests : phase'[q] = IF q = r THEN "saved" ELSE phase[q]
      BY <1>1, <2>2 DEF TypeInv
    <3>3. CrankedOnce'
      BY <1>1, <2>2 DEF CrankInv, CrankedOnce
    <3>4. NotYetCranked'
      BY <1>1, <2>2, <3>1, <3>2 DEF CrankInv, NotYetCranked
    <3>5. QED
      BY <3>3, <3>4 DEF CrankInv
  <2>5. QED
    BY <2>1, <2>3, <2>4 DEF Inv
<1>5. CASE PullFails(r)
  <2>1. CASE /\ To(r, IF Kind[r] = "push" THEN "refused" ELSE "lost")
             /\ UNCHANGED <<job, redone, restarts>>
    <3>1. PICK p \in Phases \ {"saved"} : To(r, p)
      BY <1>1, <2>1
    <3>2. /\ phase[r] = "pulling"
          /\ UNCHANGED <<attempts, written, table, due, cranked>>
      BY <1>5 DEF PullFails, tableVars
    <3>3. RowInv' /\ phase' \in [Requests -> Phases] /\ CrankInv'
      BY <1>1, <2>1, <3>1, <3>2, RequestKeepsRows, RequestKeepsCranks
    <3>4. QED
      BY <1>1, <2>1, <3>2, <3>3 DEF Inv, TypeInv, JobType
  <2>2. CASE Stops({r})
    BY <1>5, <2>2, StopsKeeps DEF PullFails
  <2>3. QED
    BY <1>5, <2>1, <2>2 DEF PullFails
<1>6. CASE Crank(r)
  <2>1. /\ To(r, "cranked") /\ phase[r] = "cranking"
        /\ cranked' = [cranked EXCEPT ![r] = @ + 1]
        /\ UNCHANGED <<attempts, written, table, due, job, redone, restarts>>
    BY <1>6 DEF Crank, tableVars, historyVars
  <2>2. RowInv' /\ phase' \in [Requests -> Phases]
    BY <1>1, <2>1, RequestKeepsRows
  <2>3. cranked' \in [Requests -> Nat]
    BY <1>1, <2>1 DEF TypeInv
  <2>4. CrankInv'
    <3>1. cranked[r] = 0 /\ \A q \in Requests : redone[q] \in Nat
      BY <1>1, <2>1 DEF CrankInv, NotYetCranked, TypeInv
    <3>2. /\ \A q \in Requests : cranked'[q] = IF q = r THEN 1 ELSE cranked[q]
          /\ \A q \in Requests : phase'[q] = IF q = r THEN "cranked" ELSE phase[q]
      BY <1>1, <2>1, <3>1 DEF To, TypeInv
    <3>3. CrankedOnce'
      BY <1>1, <2>1, <3>1, <3>2 DEF CrankInv, CrankedOnce
    <3>4. NotYetCranked'
      BY <1>1, <2>1, <3>2 DEF CrankInv, NotYetCranked
    <3>5. QED
      BY <3>3, <3>4 DEF CrankInv
  <2>5. QED
    BY <1>1, <2>1, <2>2, <2>3, <2>4 DEF Inv, TypeInv, JobType
<1>7. QED
  BY <1>2, <1>3, <1>4, <1>5, <1>6 DEF Serve

\* What a job that ends leaves of the cranks.
LEMMA JobEnds ==
    ASSUME TypeInv, RowInv, CrankInv, job.step # "idle", job' = NoJob,
           UNCHANGED <<cranked, redone>>,
           \/ \E p \in {"cranked", "givenUp"} : To(job.row.request, p)
           \/ phase' = phase /\ job.step # "delete"
    PROVE  CrankInv'
<1> DEFINE q == job.row.request
<1>1. q \in Requests
  BY JobsRow DEF Row
<1>2. \A r \in Requests :
         \/ phase'[r] = phase[r] /\ (job.step # "delete" \/ r # q)
         \/ r = q /\ phase'[r] \in {"cranked", "givenUp"}
  <2> HIDE DEF q
  <2>2. CASE \E p \in {"cranked", "givenUp"} : phase' = [phase EXCEPT ![q] = p]
    BY <1>1, <2>2 DEF TypeInv
  <2>3. CASE phase' = phase /\ job.step # "delete"
    BY <2>3
  <2>4. QED
    BY <2>2, <2>3 DEF To, q
<1>3. CrankedOnce'
  BY DEF CrankInv, CrankedOnce
<1>4. NotYetCranked'
  <2> SUFFICES ASSUME NEW r \in Requests
               PROVE  /\ phase'[r] \in {"new", "pulling", "cranking"} => cranked[r] = 0
                      /\ phase'[r] = "saved" => cranked[r] <= redone[r]
    BY DEF NotYetCranked, NoJob
  <2>1. CASE phase'[r] = phase[r] /\ (job.step # "delete" \/ r # q)
    BY <2>1 DEF CrankInv, NotYetCranked
  <2>2. CASE r = q /\ phase'[r] \in {"cranked", "givenUp"}
    BY <2>2
  <2>3. QED
    BY <1>2, <2>1, <2>2
<1>5. QED
  BY <1>3, <1>4 DEF CrankInv

\* The steps of the job before it ends: its row stays where it is.
LEMMA JobGoesOn ==
    ASSUME Inv, Select \/ RecoverPull \/ RecoverPullAgain \/ RecoverCrank
    PROVE  Inv'
<1>1. TypeInv /\ RowInv /\ CrankInv
  BY DEF Inv
<1>2. UNCHANGED <<phase, attempts, written, table, due, redone, restarts>>
  BY DEF Select, RecoverPull, RecoverPullAgain, RecoverCrank, requestVars, tableVars, historyVars
<1>3. CASE Select
  <2>1. /\ job'.step = "pull" /\ job'.row = Head(table) /\ due > 0
        /\ job' = [step |-> "pull", attempts |-> 0, row |-> Head(table)]
        /\ job.step # "delete"
        /\ cranked' = cranked
    BY <1>3 DEF Select
  <2>2. Head(table) \in Row /\ Head(table) = table[1]
    <3>1. table \in Seq(Row) /\ table # <<>>
      BY <1>1, <2>1 DEF TypeInv
    <3>2. QED
      BY <3>1
  <2>3. JobType'
    BY <2>1, <2>2, PushAssumption DEF JobType
  <2>4. TypeInv'
    BY <1>1, <1>2, <2>1, <2>3 DEF TypeInv
  <2>5. RowInv'
    BY <1>1, <1>2, <2>1, <2>2 DEF RowInv, RowsDistinct, RowsSaved, JobHoldsFirst
  <2>6. CrankInv'
    BY <1>1, <1>2, <2>1 DEF CrankInv, CrankedOnce, NotYetCranked
  <2>7. QED
    BY <2>4, <2>5, <2>6 DEF Inv
<1>4. CASE RecoverPull \/ RecoverPullAgain
  <2>1. /\ job \in [step : {"pull", "crank", "delete"}, attempts : 0 .. MaxPulls, row : Row]
        /\ table[1] = job.row /\ due > 0
    BY <1>1, <1>4, JobsRow DEF RecoverPull, RecoverPullAgain
  <2>2. /\ job' \in [step : {"pull", "crank", "delete"}, attempts : 0 .. MaxPulls, row : Row]
        /\ job'.row = job.row /\ job.step = "pull" /\ job'.step # "delete" /\ cranked' = cranked
    <3>1. CASE RecoverPull
      BY <2>1, <3>1 DEF RecoverPull
    <3>2. CASE RecoverPullAgain
      BY <2>1, <3>2, PushAssumption DEF RecoverPullAgain
    <3>3. QED
      BY <1>4, <3>1, <3>2
  <2>3. TypeInv'
    BY <1>1, <1>2, <2>2 DEF TypeInv, JobType
  <2>4. RowInv'
    BY <1>1, <1>2, <2>1, <2>2 DEF RowInv, RowsDistinct, RowsSaved, JobHoldsFirst
  <2>5. CrankInv'
    BY <1>1, <1>2, <2>2 DEF CrankInv, CrankedOnce, NotYetCranked
  <2>6. QED
    BY <2>3, <2>4, <2>5 DEF Inv
<1>5. CASE RecoverCrank
  <2> DEFINE q == job.row.request
  <2>1. /\ job \in [step : {"pull", "crank", "delete"}, attempts : 0 .. MaxPulls, row : Row]
        /\ table[1] = job.row /\ due > 0 /\ q \in Requests
        /\ 1 \in 1 .. Len(table)
    BY <1>1, <1>5, JobsRow DEF RecoverCrank, Row
  <2>2. /\ job' \in [step : {"pull", "crank", "delete"}, attempts : 0 .. MaxPulls, row : Row]
        /\ job'.row = job.row /\ job.step = "crank" /\ job'.step = "delete"
        /\ cranked' = [cranked EXCEPT ![q] = @ + 1]
    BY <1>5, <2>1 DEF RecoverCrank
  <2>3. phase[q] = "saved"
    BY <1>1, <2>1 DEF RowInv, RowsSaved
  <2>4. cranked' \in [Requests -> Nat]
    <3>1. cranked \in [Requests -> Nat] /\ q \in Requests
      BY <1>1, <2>1 DEF TypeInv
    <3> HIDE DEF q
    <3>2. cranked[q] + 1 \in Nat
      BY <3>1
    <3>3. QED
      BY <2>2, <3>1, <3>2
  <2>5. TypeInv'
    BY <1>1, <1>2, <2>2, <2>4 DEF TypeInv, JobType
  <2>6. RowInv'
    BY <1>1, <1>2, <2>1, <2>2 DEF RowInv, RowsDistinct, RowsSaved, JobHoldsFirst
  <2>7. CrankInv'
    <3>1. \A r \in Requests : cranked[r] \in Nat /\ redone[r] \in Nat
      BY <1>1 DEF TypeInv
    <3>2. \A r \in Requests : cranked'[r] = IF r = q THEN cranked[r] + 1 ELSE cranked[r]
      BY <1>1, <2>2 DEF TypeInv
    <3>3. cranked[q] <= redone[q]
      BY <1>1, <2>1, <2>2, <2>3 DEF CrankInv, NotYetCranked
    <3> HIDE DEF q
    <3>4. CrankedOnce'
      BY <1>1, <1>2, <2>1, <3>1, <3>2, <3>3 DEF CrankInv, CrankedOnce
    <3>5. NotYetCranked'
      <4> SUFFICES ASSUME NEW r \in Requests
                   PROVE  /\ phase[r] \in {"new", "pulling", "cranking"} => cranked'[r] = 0
                          /\ phase[r] = "saved" =>
                                cranked'[r] <= IF r = q THEN redone[r] + 1 ELSE redone[r]
        BY <1>2, <2>2 DEF NotYetCranked, q
      <4>1. CASE r = q
        BY <2>3, <3>1, <3>2, <3>3, <4>1
      <4>2. CASE r # q
        BY <1>1, <2>2, <3>2, <4>2 DEF CrankInv, NotYetCranked
      <4>3. QED
        BY <4>1, <4>2
    <3>6. QED
      BY <3>4, <3>5 DEF CrankInv
  <2>8. QED
    BY <2>5, <2>6, <2>7 DEF Inv
<1>6. QED
  BY <1>3, <1>4, <1>5

\* The end of a recovery, well or not.
LEMMA JobDone == ASSUME Inv, RecoverDelete \/ RecoverFails PROVE Inv'
<1>1. TypeInv /\ RowInv /\ CrankInv /\ {"cranked", "givenUp"} \subseteq Phases \ {"saved"}
  BY DEF Inv, Phases
<1>2. /\ job.step # "idle" /\ job' = NoJob /\ due' = due - 1
      /\ UNCHANGED <<attempts, written, cranked, redone, restarts>>
  BY DEF RecoverDelete, RecoverFails, historyVars
<1>3. /\ due \in 0 .. Len(table) /\ due > 0 /\ Len(table) \in Nat /\ job.row \in Row
      /\ JobType'
  BY <1>1, <1>2, JobsRow DEF TypeInv, JobType
<1>4. CASE table' = OtherRows /\ \E p \in {"cranked", "givenUp"} : To(job.row.request, p)
  <2>1. /\ RowInv' /\ table' \in Seq(Row) /\ Len(table') = Len(table) - 1
        /\ phase' \in [Requests -> Phases]
    BY <1>1, <1>2, <1>4, RowDeleted
  <2>2. CrankInv'
    BY <1>1, <1>2, <1>4, JobEnds
  <2>3. due' \in 0 .. Len(table')
    BY <1>2, <1>3, <2>1
  <2>4. QED
    BY <1>1, <1>2, <1>3, <2>1, <2>2, <2>3 DEF Inv, TypeInv
<1>5. CASE /\ RecoverFails /\ ~OutOfRetries /\ phase' = phase
           /\ \E i \in due .. Len(table) :
                 table' = InsertAt(OtherRows, i, [job.row EXCEPT !.retries = @ + 1])
  <2>1. PICK i \in due .. Len(table) :
           table' = InsertAt(OtherRows, i, [job.row EXCEPT !.retries = @ + 1])
    BY <1>5
  <2>2. PICK e : e = [job.row EXCEPT !.retries = @ + 1]
    OBVIOUS
  <2>3. e \in Row /\ e.request = job.row.request
    <3>1. job.row.retries + 1 \in 0 .. MaxRecoveries + 1
      BY <1>3, <1>5, PushAssumption DEF OutOfRetries, Row
    <3>2. QED
      BY <1>3, <2>2, <3>1 DEF Row
  <2>4. table' = InsertAt(OtherRows, i, e)
    BY <2>1, <2>2
  <2>5. i \in 1 .. Len(table)
    BY <1>3
  <2>6. RowInv' /\ table' \in Seq(Row) /\ Len(table') = Len(table)
    BY <1>1, <1>2, <1>5, <2>3, <2>4, <2>5, RowMoved
  <2>7. CrankInv'
    BY <1>1, <1>2, <1>5, JobEnds DEF RecoverFails
  <2>8. due' \in 0 .. Len(table')
    BY <1>2, <1>3, <2>6
  <2>9. QED
    BY <1>1, <1>2, <1>3, <1>5, <2>6, <2>7, <2>8 DEF Inv, TypeInv
<1>6. QED
  BY <1>4, <1>5 DEF RecoverDelete, RecoverFails

\* Every step keeps the invariant.
LEMMA InvNext == Inv /\ [Next]_vars => Inv'
<1> SUFFICES ASSUME Inv, [Next]_vars PROVE Inv'
  OBVIOUS
<1>1. ASSUME NEW r \in Requests, Refuse(r) \/ Write(r) \/ Check(r) \/ Serve(r) PROVE Inv'
  BY <1>1, RequestStep
<1>2. CASE BecomeDue
  <2>1. /\ due' \in 0 .. Len(table) /\ (due > 0 => due' > 0)
        /\ UNCHANGED <<phase, attempts, written, table, job, cranked, redone, restarts>>
    BY <1>2 DEF BecomeDue, Inv, TypeInv, requestVars, historyVars
  <2>2. TypeInv'
    BY <2>1 DEF Inv, TypeInv, JobType
  <2>3. RowInv'
    BY <2>1 DEF Inv, RowInv, RowsDistinct, RowsSaved, JobHoldsFirst
  <2>4. CrankInv'
    BY <2>1 DEF Inv, CrankInv, CrankedOnce, NotYetCranked
  <2>5. QED
    BY <2>2, <2>3, <2>4 DEF Inv
<1>3. CASE Recover
  BY <1>3, JobGoesOn, JobDone DEF Recover
<1>4. CASE Restart
  BY <1>4, StopsKeeps DEF Restart
<1>5. CASE UNCHANGED vars
  BY <1>5 DEF vars, requestVars, tableVars, historyVars, Inv, TypeInv, JobType, RowInv,
        RowsDistinct, RowsSaved, JobHoldsFirst, CrankInv, CrankedOnce, NotYetCranked
<1>6. QED
  BY <1>1, <1>2, <1>3, <1>4, <1>5 DEF Next

-----------------------------------------------------------------------------
(* The theorems.                                                           *)

\* Distinct rows are counted by their requests.
LEMMA RowsCounted ==
    ASSUME TypeInv, RowsDistinct
    PROVE  Cardinality({row.request : row \in Rows}) = Len(table)
<1> DEFINE ids == {row.request : row \in Rows}
           f == [i \in 1 .. Len(table) |-> table[i].request]
<1>1. Len(table) \in Nat /\ DOMAIN table = 1 .. Len(table)
  BY DEF TypeInv
<1>2. ids = {table[i].request : i \in 1 .. Len(table)}
  BY <1>1 DEF Rows, ToSet
<1>3. f \in Surjection(1 .. Len(table), ids)
  BY <1>2 DEF Surjection
<1>4. f \in Injection(1 .. Len(table), ids)
  BY <1>2 DEF Injection, RowsDistinct, IsInjective
<1>5. ExistsBijection(1 .. Len(table), ids)
  BY <1>3, <1>4 DEF ExistsBijection, Bijection
<1>6. QED
  BY <1>1, <1>5, FS_CountingElements

\* Whatever the requests and the limits, every variable holds values of its
\* kind, and the rows that are due are rows of the table.
THEOREM TypeCorrect == Spec => []TypeOK
<1>1. Inv => TypeOK
  <2> SUFFICES ASSUME TypeInv PROVE TypeOK
    BY DEF Inv
  <2>1. \A row \in Rows : row.request \in Requests /\ row.retries \in 0 .. MaxRecoveries + 1
    <3>1. \A i \in DOMAIN table : table[i] \in Row
      BY DEF TypeInv
    <3>2. QED
      BY <3>1 DEF Rows, ToSet, Row
  <2>2. job.step \in {"idle", "pull", "crank", "delete"} /\ job.attempts \in 0 .. MaxPulls
    BY PushAssumption DEF TypeInv, JobType, NoJob
  <2>3. QED
    BY <2>1, <2>2 DEF TypeInv, TypeOK
<1>2. QED
  BY <1>1, InvInit, InvNext, PTL DEF Spec

\* A message that waits for its recovery has its one row, whatever the job does
\* with it and whenever the MU stops, and nothing else has one.
THEOREM SavedHaveRows == Spec => []SavedHasRow
<1>1. Inv => SavedHasRow
  <2> SUFFICES ASSUME TypeInv, RowInv PROVE SavedHasRow
    BY DEF Inv
  <2>1. {row.request : row \in Rows} = {table[i].request : i \in 1 .. Len(table)}
    BY DEF Rows, ToSet, TypeInv
  <2>2. \A i \in 1 .. Len(table) : table[i].request \in Requests
    <3>1. \A i \in 1 .. Len(table) : table[i] \in Row
      BY DEF TypeInv
    <3>2. QED
      BY <3>1 DEF Row
  <2>3. {r \in Requests : phase[r] = "saved"} = {row.request : row \in Rows}
    BY <2>1, <2>2 DEF RowInv, RowsSaved
  <2>4. QED
    BY <2>3, RowsCounted DEF SavedHasRow, RowInv
<1>2. QED
  BY <1>1, InvInit, InvNext, PTL DEF Spec

\* The results of a request are cranked at most once, and once more for each
\* stop of the MU between a recovered crank and the deletion of its row.
THEOREM AlwaysCrankedOnce == Spec => []CrankedOnce
<1>1. Inv => CrankedOnce
  BY DEF Inv, CrankInv
<1>2. QED
  BY <1>1, InvInit, InvNext, PTL DEF Spec

=============================================================================
