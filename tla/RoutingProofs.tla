---------------------------- MODULE RoutingProofs ----------------------------
(***************************************************************************)
(* Proofs about Routing, for any sets of schedulers, processes, Compute    *)
(* Units and requests.                                                     *)
(*                                                                         *)
(* A process' row is inserted before its redirect is answered and is never *)
(* replaced, so whatever points at a scheduler for a process, a redirect,  *)
(* a cached location or an answer, points at that of the row.              *)
(***************************************************************************)
EXTENDS Routing, Integers, TLAPS

Phases == {"new", "counting", "placing", "redirected", "proxied",
           "failingOver", "answered", "refused", "failed"}

\* The kinds of the variables the argument is about.
Shape ==
    /\ home \in [Processes -> Schedulers \cup {None}]
    /\ held \in [Schedulers -> SUBSET Processes]
    /\ located \in [Units -> [Processes -> Schedulers \cup {Router, None}]]
    /\ phase \in [Requests -> Phases]
    /\ to = [r \in Requests |-> to[r]]

\* The process of a request has a row.
Placed(r) == home[About[r]] \in Schedulers

\* The request goes to the scheduler of the row.
AtHome(r) == Placed(r) /\ to[r] = home[About[r]]

\* What each phase says of a request.
PhaseInv(r) ==
    /\ phase[r] \in {"counting", "placing"} => Kind[r] = "Process" /\ to[r] \in Schedulers
    /\ phase[r] = "redirected" =>
         Kind[r] \in {"Process", "Spawn"} \/ (Kind[r] = "Message" /\ AtHome(r))
    /\ phase[r] \in {"proxied", "failingOver"} => Kind[r] = "Read"
    /\ phase[r] = "answered" => Kind[r] \in {"Process", "Spawn"} \/ AtHome(r)

\* The Compute Unit that a request is sent to at an attempt, if its process has no
\* host of its own.
HostAt(r, attempt) == Hosts[((Hash[About[r]] + attempt) % Len(Hosts)) + 1]

\* A request was sent to one Compute Unit after the other, and is sent to the next.
TriedInv(r) ==
    Bailout[About[r]] = None =>
        /\ \A i \in 1 .. Len(tried[r]) : tried[r][i] = HostAt(r, i - 1)
        /\ phase[r] = "proxied" => to[r] = HostAt(r, Len(tried[r]))
        /\ phase[r] = "failed" => Exhausted(r)

\* Attempts are made at Compute Units.
AttemptsInv ==
    /\ phase \in [Requests -> Phases]
    /\ tried \in [Requests -> Seq(Units)]
    /\ to = [r \in Requests |-> to[r]]
    /\ \A r \in Requests : (phase[r] = "proxied" => to[r] \in Units) /\ TriedInv(r)

\* What a Compute Unit has kept for a process is the router, or the row's scheduler.
LocatedInv ==
    \A u \in Units, p \in Processes : located[u][p] \in {None, Router, home[p]}

RouteInv == Shape /\ LocatedInv /\ \A r \in Requests : PhaseInv(r)

-----------------------------------------------------------------------------

\* The assumptions on constants, as the steps below use them.
LEMMA ConstantsShaped ==
    /\ None \notin Schedulers
    /\ Router \notin Schedulers
    /\ Router # None
    /\ None \notin Units
    /\ \A r \in Requests : About[r] \in Processes
BY RoutingAssumption

\* A process that has a row keeps it: INSERT ... ON CONFLICT DO NOTHING.
LEMMA RowsKept ==
    ASSUME Shape, [Next]_vars, NEW p \in Processes, home[p] # None
    PROVE  home'[p] = home[p]
<1>1. ASSUME NEW r \in Requests, SaveProcessScheduler(r)
      PROVE  home'[p] = home[p]
  BY <1>1 DEF SaveProcessScheduler, Shape
<1>2. ASSUME NEW r \in Requests, Write(r), ~ SaveProcessScheduler(r)
      PROVE  home' = home
  BY <1>2 DEF Write, ChooseScheduler, UpdateScheduler, RedirectMessage, PostDirectly,
              RouterRefuses, SpawnProcess, ScheduleMessage, SchedulerRefuses, routerVars
<1>3. ASSUME NEW r \in Requests, Read(r)
      PROVE  home' = home
  BY <1>3 DEF Read, Proxy, Bubble, HostUnreachable, Answer, AnswerError, routerVars
<1>4. ASSUME NEW u \in Units, NEW q \in Processes, Expire(u, q)
      PROVE  home' = home
  BY <1>4 DEF Expire, routerVars
<1>5. CASE UNCHANGED vars
  BY <1>5 DEF vars, routerVars
<1>6. CASE Next
  <2>1. CASE \E r \in Requests : Write(r) \/ Read(r)
    BY <2>1, <1>1, <1>2, <1>3
  <2>2. CASE Replicate
    BY <2>2 DEF Replicate
  <2>3. CASE \E u \in Units, q \in Processes : Expire(u, q)
    BY <2>3, <1>4
  <2>4. QED
    BY <1>6, <2>1, <2>2, <2>3 DEF Next
<1>7. QED
  BY <1>5, <1>6

\* So a process that was placed is placed, and what was at home is at home as long
\* as it is not sent elsewhere.
LEMMA PlacedKept ==
    ASSUME Shape, [Next]_vars, NEW r \in Requests, Placed(r)
    PROVE  /\ Placed(r)'
           /\ to'[r] = to[r] /\ AtHome(r) => AtHome(r)'
BY RowsKept, ConstantsShaped DEF Placed, AtHome

\* A request that a step leaves alone keeps what its phase says.
LEMMA OthersKept ==
    ASSUME Shape, [Next]_vars, NEW r \in Requests, PhaseInv(r),
           phase'[r] = phase[r], to'[r] = to[r]
    PROVE  PhaseInv(r)'
BY PlacedKept DEF PhaseInv, AtHome

-----------------------------------------------------------------------------
(* The attempts of a read.                                                 *)

\* Division has one remainder.
LEMMA RemainderIs ==
    ASSUME NEW L \in Nat \ {0}, NEW q \in Int, NEW c \in 0 .. L - 1, NEW n \in Nat, n = L * q + c
    PROVE  n % L = c
<1>1. PICK k \in Int, d \in 0 .. L - 1 : n = L * k + d /\ n % L = d
  <2>1. n \div L \in Int /\ n % L \in 0 .. L - 1
    OBVIOUS
  <2>2. n = L * (n \div L) + (n % L)
    OBVIOUS
  <2>3. QED
    BY <2>1, <2>2
<1>2. L * (q - k) = d - c
  BY <1>1
<1>3. CASE q - k >= 1
  <2>1. L * (q - k) >= L
    BY <1>3
  <2>2. QED
    BY <1>1, <1>2, <2>1
<1>4. CASE q - k <= -1
  <2>1. L * (q - k) <= -L
    BY <1>4
  <2>2. QED
    BY <1>1, <1>2, <2>1
<1>5. CASE q = k
  BY <1>1, <1>5
<1>6. QED
  BY <1>1, <1>3, <1>4, <1>5

\* Counting on from any number, the remainders by L are all there.
LEMMA AllRemainders ==
    ASSUME NEW L \in Nat \ {0}, NEW h \in Nat, NEW c \in 0 .. L - 1
    PROVE  \E i \in 0 .. L - 1 : (h + i) % L = c
<1>1. PICK r : r = h % L
  OBVIOUS
<1>2. PICK q : q = h \div L
  OBVIOUS
<1>3. q \in Int /\ r \in 0 .. L - 1 /\ h = L * q + r
  BY <1>1, <1>2
<1>4. CASE r <= c
  <2>1. c - r \in 0 .. L - 1 /\ h + (c - r) \in Nat /\ h + (c - r) = L * q + c
    BY <1>3, <1>4
  <2>2. (h + (c - r)) % L = c
    BY <1>3, <2>1, RemainderIs
  <2>3. QED
    BY <2>1, <2>2
<1>5. CASE r > c
  <2>1. c - r + L \in 0 .. L - 1 /\ h + (c - r + L) \in Nat
    BY <1>3, <1>5
  <2>2. L * (q + 1) = L * q + L
    BY <1>3
  <2>3. h + (c - r + L) = L * (q + 1) + c
    BY <1>3, <2>2
  <2>4. (h + (c - r + L)) % L = c
    BY <1>3, <2>1, <2>3, RemainderIs
  <2>5. QED
    BY <2>1, <2>4
<1>6. QED
  BY <1>3, <1>4, <1>5

\* Every attempt has a Compute Unit, and as many attempts as there are hosts reach
\* each of them.
LEMMA AttemptsReachAll ==
    ASSUME NEW r \in Requests
    PROVE  /\ \A i \in Nat : HostAt(r, i) \in Units
           /\ \A u \in Units : \E i \in 0 .. Len(Hosts) - 1 : HostAt(r, i) = u
<1>1. /\ Len(Hosts) \in Nat \ {0} /\ DOMAIN Hosts = 1 .. Len(Hosts)
      /\ Hash[About[r]] \in Nat
  <2>1. Hosts \in Seq(Units) /\ Hosts # <<>>
    BY RoutingAssumption
  <2>2. Len(Hosts) \in Nat \ {0} /\ DOMAIN Hosts = 1 .. Len(Hosts)
    BY <2>1
  <2>3. Hash[About[r]] \in Nat
    BY RoutingAssumption
  <2>4. QED
    BY <2>2, <2>3
<1>2. ASSUME NEW i \in Nat
      PROVE  ((Hash[About[r]] + i) % Len(Hosts)) + 1 \in DOMAIN Hosts
  <2>1. PICK n \in Nat, l \in Nat \ {0} : n = Hash[About[r]] + i /\ l = Len(Hosts)
    BY <1>1
  <2>2. n % l \in 0 .. l - 1
    OBVIOUS
  <2>3. QED
    BY <1>1, <2>1, <2>2
<1>3. \A i \in Nat : HostAt(r, i) \in Units
  BY <1>2 DEF HostAt, Units, Range
<1>4. ASSUME NEW u \in Units
      PROVE  \E i \in 0 .. Len(Hosts) - 1 : HostAt(r, i) = u
  <2>1. PICK k \in DOMAIN Hosts : Hosts[k] = u
    BY DEF Units, Range
  <2>2. k - 1 \in 0 .. Len(Hosts) - 1 /\ (k - 1) + 1 = k
    BY <1>1
  <2>3. PICK i \in 0 .. Len(Hosts) - 1 : (Hash[About[r]] + i) % Len(Hosts) = k - 1
    BY <1>1, <2>2, AllRemainders
  <2>4. QED
    BY <2>1, <2>2, <2>3 DEF HostAt
<1>5. QED
  BY <1>3, <1>4

\* A step that changes neither what a request tried nor where it is sent to, or
\* that neither is a proxied request's nor lets it fail.
LEMMA AttemptsKept ==
    ASSUME AttemptsInv, NEW r \in Requests, tried'[r] = tried[r],
           phase'[r] = "proxied" => phase[r] = "proxied" /\ to'[r] = to[r],
           phase'[r] = "failed" => phase[r] = "failed" \/ Exhausted(r)
    PROVE  (phase'[r] = "proxied" => to'[r] \in Units) /\ TriedInv(r)'
  BY DEF AttemptsInv, TriedInv, Exhausted, Attempt, HostAt

\* Of a write the attempts of reads know nothing.
LEMMA WriteAttempts ==
    ASSUME AttemptsInv, NEW r \in Requests, Write(r)
    PROVE  AttemptsInv'
<1>1. \E f, h : /\ phase' = [phase EXCEPT ![r] = f]
                /\ f \in {"counting", "placing", "redirected", "refused", "answered"}
                /\ phase[r] # "proxied"
                /\ to' = [to EXCEPT ![r] = h] \/ to' = to
                /\ tried' = tried
  <2>1. CASE ChooseScheduler(r)
    BY <2>1 DEF ChooseScheduler, Goes, cuVars
  <2>2. CASE UpdateScheduler(r) \/ SaveProcessScheduler(r)
    BY <2>2 DEF UpdateScheduler, SaveProcessScheduler, Goes, cuVars
  <2>3. CASE RedirectMessage(r) \/ PostDirectly(r)
    BY <2>3 DEF RedirectMessage, PostDirectly, Goes, cuVars
  <2>4. CASE RouterRefuses(r) \/ SchedulerRefuses(r)
    BY <2>4 DEF RouterRefuses, SchedulerRefuses, Goes, cuVars
  <2>5. CASE SpawnProcess(r) \/ ScheduleMessage(r)
    BY <2>5 DEF SpawnProcess, ScheduleMessage, Goes, cuVars
  <2>6. QED
    BY <2>1, <2>2, <2>3, <2>4, <2>5 DEF Write
<1>2. PICK f, h : /\ phase' = [phase EXCEPT ![r] = f]
                  /\ f \in {"counting", "placing", "redirected", "refused", "answered"}
                  /\ phase[r] # "proxied"
                  /\ to' = [to EXCEPT ![r] = h] \/ to' = to
                  /\ tried' = tried
  BY <1>1
<1>3. /\ phase' \in [Requests -> Phases] /\ to' = [q \in Requests |-> to'[q]]
      /\ tried' \in [Requests -> Seq(Units)]
  BY <1>2 DEF AttemptsInv, Phases
<1>4. ASSUME NEW q \in Requests
      PROVE  (phase'[q] = "proxied" => to'[q] \in Units) /\ TriedInv(q)'
  <2>1. /\ tried'[q] = tried[q]
        /\ phase'[q] = "proxied" => phase[q] = "proxied" /\ to'[q] = to[q]
        /\ phase'[q] = "failed" => phase[q] = "failed"
    BY <1>2 DEF AttemptsInv
  <2>2. QED
    BY <2>1, AttemptsKept
<1>5. QED
  BY <1>3, <1>4 DEF AttemptsInv

\* A read goes from host to host.
LEMMA ReadAttempts ==
    ASSUME AttemptsInv, NEW r \in Requests, Read(r)
    PROVE  AttemptsInv'
<1>1. ASSUME NEW q \in Requests \ {r}
      PROVE  (phase'[q] = "proxied" => to'[q] \in Units) /\ TriedInv(q)'
  <2>1. tried'[q] = tried[q] /\ phase'[q] = phase[q] /\ to'[q] = to[q]
    <3>1. CASE Proxy(r)
      BY <3>1 DEF Proxy, DetermineHost, AttemptsInv
    <3>2. CASE Bubble(r) \/ HostUnreachable(r)
      BY <3>2 DEF Bubble, HostUnreachable, Goes, cuVars, AttemptsInv
    <3>3. CASE Answer(r) \/ AnswerError(r)
      BY <3>3 DEF Answer, AnswerError, Goes, AttemptsInv
    <3>4. QED
      BY <3>1, <3>2, <3>3 DEF Read
  <2>2. QED
    BY <2>1, AttemptsKept
<1>2. CASE Proxy(r)
  <2>1. PICK h : /\ to' = [to EXCEPT ![r] = h] /\ h \in Units
                 /\ Bailout[About[r]] = None => h = HostAt(r, Len(tried[r]))
    <3>1. DefaultHost(r) = HostAt(r, Len(tried[r]))
      BY DEF DefaultHost, Attempt, HostAt
    <3>2. DefaultHost(r) \in Units
      BY <3>1, AttemptsReachAll DEF AttemptsInv
    <3>3. Bailout[About[r]] \in Units \cup {None}
      BY RoutingAssumption
    <3>4. QED
      BY <1>2, <3>1, <3>2, <3>3 DEF Proxy, DetermineHost
  <2>2. phase' = [phase EXCEPT ![r] = "proxied"] /\ tried' = tried
    BY <1>2 DEF Proxy
  <2>3. (phase'[r] = "proxied" => to'[r] \in Units) /\ TriedInv(r)'
    BY <2>1, <2>2 DEF AttemptsInv, TriedInv, HostAt
  <2>4. QED
    BY <1>1, <2>1, <2>2, <2>3 DEF AttemptsInv, Phases
<1>3. CASE Bubble(r)
  <2>1. Exhausted(r) /\ phase' = [phase EXCEPT ![r] = "failed"] /\ UNCHANGED <<tried, to>>
    BY <1>3 DEF Bubble, Goes, cuVars
  <2>2. (phase'[r] = "proxied" => to'[r] \in Units) /\ TriedInv(r)'
    BY <2>1, AttemptsKept DEF AttemptsInv
  <2>3. QED
    BY <1>1, <2>1, <2>2 DEF AttemptsInv, Phases
<1>4. CASE HostUnreachable(r)
  <2>1. /\ phase[r] = "proxied" /\ phase' = [phase EXCEPT ![r] = "failingOver"]
        /\ to' = [to EXCEPT ![r] = None]
        /\ tried' = [tried EXCEPT ![r] = Append(tried[r], to[r])]
    BY <1>4 DEF HostUnreachable, Goes
  <2>2. to[r] \in Units /\ tried[r] \in Seq(Units) /\ TriedInv(r)
    BY <2>1 DEF AttemptsInv
  <2>3. /\ Append(tried[r], to[r]) \in Seq(Units) /\ tried'[r] = Append(tried[r], to[r])
        /\ Len(tried'[r]) = Len(tried[r]) + 1 /\ Len(tried[r]) \in Nat
        /\ \A i \in 1 .. Len(tried[r]) : tried'[r][i] = tried[r][i]
        /\ tried'[r][Len(tried[r]) + 1] = to[r]
    BY <2>1, <2>2 DEF AttemptsInv
  <2>4. ASSUME Bailout[About[r]] = None, NEW i \in 1 .. Len(tried'[r])
        PROVE  tried'[r][i] = HostAt(r, i - 1)
    <3>1. CASE i = Len(tried[r]) + 1
      <4>1. i - 1 = Len(tried[r])
        BY <2>3, <3>1
      <4>2. QED
        BY <2>1, <2>2, <2>3, <2>4, <3>1, <4>1 DEF TriedInv
    <3>2. CASE i \in 1 .. Len(tried[r])
      BY <2>2, <2>3, <2>4, <3>2 DEF TriedInv
    <3>3. QED
      BY <2>3, <2>4, <3>1, <3>2
  <2>5. phase'[r] = "failingOver"
    BY <2>1 DEF AttemptsInv
  <2>6. (phase'[r] = "proxied" => to'[r] \in Units) /\ TriedInv(r)'
    BY <2>4, <2>5 DEF TriedInv, HostAt
  <2>7. QED
    BY <1>1, <2>1, <2>3, <2>6 DEF AttemptsInv, Phases
<1>5. CASE Answer(r) \/ AnswerError(r)
  <2>1. PICK f \in {"answered", "refused"} : phase' = [phase EXCEPT ![r] = f]
    BY <1>5 DEF Answer, AnswerError, Goes
  <2>2. PICK h : to' = [to EXCEPT ![r] = h]
    BY <1>5 DEF Answer, AnswerError
  <2>3. tried' = [tried EXCEPT ![r] = <<>>]
    BY <1>5 DEF Answer, AnswerError
  <2>4. (phase'[r] = "proxied" => to'[r] \in Units) /\ TriedInv(r)'
    BY <2>1, <2>3 DEF AttemptsInv, TriedInv
  <2>5. /\ phase' \in [Requests -> Phases] /\ to' = [q \in Requests |-> to'[q]]
        /\ tried' \in [Requests -> Seq(Units)]
    <3>1. <<>> \in Seq(Units)
      OBVIOUS
    <3>2. QED
      BY <2>1, <2>2, <2>3, <3>1 DEF AttemptsInv, Phases
  <2>6. QED
    BY <1>1, <2>4, <2>5 DEF AttemptsInv
<1>6. QED
  BY <1>2, <1>3, <1>4, <1>5 DEF Read

\* Every attempt is made at the Compute Unit that is next (determineHost counts the
\* attempts up from the hash of the process).
THEOREM AttemptsInvariant == Spec => []AttemptsInv
<1>1. Init => AttemptsInv
  <2> SUFFICES ASSUME Init PROVE AttemptsInv
    OBVIOUS
  <2>1. phase \in [Requests -> Phases] /\ \A r \in Requests : phase[r] = "new"
    BY DEF Init, Phases
  <2>2. tried \in [Requests -> Seq(Units)] /\ \A r \in Requests : tried[r] = <<>>
    BY DEF Init
  <2>3. QED
    BY <2>1, <2>2 DEF Init, AttemptsInv, TriedInv
<1>2. AttemptsInv /\ [Next]_vars => AttemptsInv'
  <2> SUFFICES ASSUME AttemptsInv, [Next]_vars PROVE AttemptsInv'
    OBVIOUS
  <2>1. CASE \E r \in Requests : Write(r) \/ Read(r)
    BY <2>1, WriteAttempts, ReadAttempts
  <2>2. CASE UNCHANGED <<phase, to, tried>>
    <3>1. ASSUME NEW r \in Requests
          PROVE  (phase'[r] = "proxied" => to'[r] \in Units) /\ TriedInv(r)'
      BY <2>2, AttemptsKept
    <3>2. QED
      BY <2>2, <3>1 DEF AttemptsInv
  <2>3. CASE Replicate
    BY <2>2, <2>3 DEF Replicate, cuVars
  <2>4. CASE \E u \in Units, p \in Processes : Expire(u, p)
    BY <2>2, <2>4 DEF Expire
  <2>5. CASE UNCHANGED vars
    BY <2>2, <2>5 DEF vars, cuVars
  <2>6. QED
    BY <2>1, <2>3, <2>4, <2>5 DEF Next
<1>3. QED
  BY <1>1, <1>2, PTL DEF Spec

-----------------------------------------------------------------------------

\* No process has a row, no request has left, and nothing is located yet.
LEMMA InitRoute == Init => RouteInv
<1> SUFFICES ASSUME Init PROVE RouteInv
  OBVIOUS
<1>1. Shape
  BY DEF Init, Shape, Phases
<1>2. LocatedInv
  BY DEF Init, LocatedInv
<1>3. \A r \in Requests : PhaseInv(r)
  BY DEF Init, PhaseInv
<1>4. QED
  BY <1>1, <1>2, <1>3 DEF RouteInv

\* The steps of the router and of the schedulers.
LEMMA WriteRoute ==
    ASSUME RouteInv, NEW r \in Requests, Write(r)
    PROVE  RouteInv'
<1> USE DEF Goes
<1>n. [Next]_vars
  BY DEF Next
<1>s. Shape
  BY DEF RouteInv
<1>p. \A q \in Requests : PhaseInv(q)
  BY DEF RouteInv
<1>1. CASE ChooseScheduler(r)
  <2>1. Candidates(About[r]) \subseteq Schedulers
    BY DEF Candidates
  <2>2. Shape'
    BY <1>1, <1>s DEF ChooseScheduler, Shape, Phases, suVars, cuVars
  <2>3. PhaseInv(r)'
    BY <1>1, <1>s, <2>1 DEF ChooseScheduler, Shape, PhaseInv
  <2>4. \A q \in Requests \ {r} : phase'[q] = phase[q] /\ to'[q] = to[q]
    BY <1>1, <1>s DEF ChooseScheduler, Shape
  <2>5. LocatedInv'
    BY <1>1 DEF ChooseScheduler, RouteInv, LocatedInv, cuVars
  <2>6. QED
    BY <1>n, <1>s, <1>p, <2>2, <2>3, <2>4, <2>5, OthersKept DEF RouteInv
<1>2. CASE UpdateScheduler(r)
  <2>2. Shape'
    BY <1>2, <1>s DEF UpdateScheduler, Shape, Phases, suVars, cuVars
  <2>3. PhaseInv(r)'
    BY <1>2, <1>s, <1>p DEF UpdateScheduler, Shape, PhaseInv
  <2>4. \A q \in Requests \ {r} : phase'[q] = phase[q] /\ to'[q] = to[q]
    BY <1>2, <1>s DEF UpdateScheduler, Shape
  <2>5. LocatedInv'
    BY <1>2 DEF UpdateScheduler, RouteInv, LocatedInv, cuVars
  <2>6. QED
    BY <1>n, <1>s, <1>p, <2>2, <2>3, <2>4, <2>5, OthersKept DEF RouteInv
<1>3. CASE SaveProcessScheduler(r)
  <2>1. to[r] \in Schedulers /\ Kind[r] = "Process" /\ About[r] \in Processes
    BY <1>3, <1>p, ConstantsShaped DEF SaveProcessScheduler, PhaseInv
  <2>2. Shape'
    BY <1>3, <1>s, <2>1 DEF SaveProcessScheduler, Shape, Phases, suVars, cuVars
  <2>3. PhaseInv(r)'
    BY <1>3, <1>s, <2>1 DEF SaveProcessScheduler, Shape, PhaseInv, Placed
  <2>4. \A q \in Requests \ {r} : phase'[q] = phase[q] /\ to'[q] = to[q]
    BY <1>3, <1>s DEF SaveProcessScheduler, Shape
  <2>5. LocatedInv'
    <3>1. located' = located
      BY <1>3 DEF SaveProcessScheduler, cuVars
    <3>2. \A p \in Processes : home'[p] = home[p] \/ home[p] = None
      BY <1>n, <1>s, RowsKept
    <3>3. QED
      BY <3>1, <3>2 DEF RouteInv, LocatedInv
  <2>6. QED
    BY <1>n, <1>s, <1>p, <2>2, <2>3, <2>4, <2>5, OthersKept DEF RouteInv
<1>4. CASE PostDirectly(r)
  <2>1. PICK s \in Schedulers : to' = [to EXCEPT ![r] = s]
    BY <1>4 DEF PostDirectly
  <2>2. Shape'
    BY <1>4, <1>s, <2>1 DEF PostDirectly, Shape, Phases, routerVars, suVars, cuVars
  <2>3. PhaseInv(r)'
    BY <1>4, <1>s DEF PostDirectly, Shape, PhaseInv
  <2>4. \A q \in Requests \ {r} : phase'[q] = phase[q] /\ to'[q] = to[q]
    BY <1>4, <1>s, <2>1 DEF PostDirectly, Shape
  <2>5. LocatedInv'
    BY <1>4 DEF PostDirectly, RouteInv, LocatedInv, routerVars, cuVars
  <2>6. QED
    BY <1>n, <1>s, <1>p, <2>2, <2>3, <2>4, <2>5, OthersKept DEF RouteInv
<1>5. CASE RedirectMessage(r)
  <2>2. Shape'
    BY <1>5, <1>s DEF RedirectMessage, Shape, Phases, routerVars, suVars, cuVars
  <2>3. PhaseInv(r)'
    BY <1>5, <1>s, ConstantsShaped
       DEF RedirectMessage, Shape, PhaseInv, AtHome, Placed, routerVars
  <2>4. \A q \in Requests \ {r} : phase'[q] = phase[q] /\ to'[q] = to[q]
    BY <1>5, <1>s DEF RedirectMessage, Shape
  <2>5. LocatedInv'
    BY <1>5 DEF RedirectMessage, RouteInv, LocatedInv, routerVars, cuVars
  <2>6. QED
    BY <1>n, <1>s, <1>p, <2>2, <2>3, <2>4, <2>5, OthersKept DEF RouteInv
<1>6. CASE RouterRefuses(r) \/ SchedulerRefuses(r)
  <2>1. /\ phase' = [phase EXCEPT ![r] = "refused"]
        /\ to' = [to EXCEPT ![r] = None]
        /\ UNCHANGED <<home, suVars, cuVars>>
    BY <1>6 DEF RouterRefuses, SchedulerRefuses, routerVars
  <2>2. Shape'
    BY <2>1, <1>s DEF Shape, Phases, suVars, cuVars
  <2>3. PhaseInv(r)'
    BY <2>1, <1>s DEF Shape, PhaseInv
  <2>4. \A q \in Requests \ {r} : phase'[q] = phase[q] /\ to'[q] = to[q]
    BY <2>1, <1>s DEF Shape
  <2>5. LocatedInv'
    BY <2>1 DEF RouteInv, LocatedInv, cuVars
  <2>6. QED
    BY <1>n, <1>s, <1>p, <2>2, <2>3, <2>4, <2>5, OthersKept DEF RouteInv
<1>7. CASE SpawnProcess(r)
  <2>1. About[r] \in Processes
    BY ConstantsShaped
  <2>2. Shape'
    BY <1>7, <1>s, <2>1 DEF SpawnProcess, Shape, Phases, routerVars, cuVars
  <2>3. PhaseInv(r)'
    BY <1>7, <1>s DEF SpawnProcess, Shape, PhaseInv
  <2>4. \A q \in Requests \ {r} : phase'[q] = phase[q] /\ to'[q] = to[q]
    BY <1>7, <1>s DEF SpawnProcess, Shape
  <2>5. LocatedInv'
    BY <1>7 DEF SpawnProcess, RouteInv, LocatedInv, routerVars, cuVars
  <2>6. QED
    BY <1>n, <1>s, <1>p, <2>2, <2>3, <2>4, <2>5, OthersKept DEF RouteInv
<1>8. CASE ScheduleMessage(r)
  <2>2. Shape'
    BY <1>8, <1>s DEF ScheduleMessage, Shape, Phases, routerVars, cuVars
  <2>3. PhaseInv(r)'
    BY <1>8, <1>s, <1>p DEF ScheduleMessage, Shape, PhaseInv, AtHome, Placed, routerVars
  <2>4. \A q \in Requests \ {r} : phase'[q] = phase[q] /\ to'[q] = to[q]
    BY <1>8, <1>s DEF ScheduleMessage, Shape
  <2>5. LocatedInv'
    BY <1>8 DEF ScheduleMessage, RouteInv, LocatedInv, routerVars, cuVars
  <2>6. QED
    BY <1>n, <1>s, <1>p, <2>2, <2>3, <2>4, <2>5, OthersKept DEF RouteInv
<1>9. QED
  BY <1>1, <1>2, <1>3, <1>4, <1>5, <1>6, <1>7, <1>8 DEF Write

\* Where a Compute Unit looks for a process is the router, or the row's scheduler.
LEMMA LocationAtHome ==
    ASSUME RouteInv, NEW u \in Units, NEW p \in Processes, NEW url \in Location(u, p)
    PROVE  url = Router \/ (url = home[p] /\ url \in Schedulers)
<1>1. CASE located[u][p] # None
  <2>1. url = located[u][p]
    BY <1>1 DEF Location
  <2>2. url \in Schedulers \cup {Router, None} /\ url \in {None, Router, home[p]}
    BY <2>1 DEF RouteInv, Shape, LocatedInv
  <2>3. QED
    BY <1>1, <2>1, <2>2
<1>2. CASE located[u][p] = None
  BY <1>2 DEF Location, Redirected, RouteInv, Shape
<1>3. QED
  BY <1>1, <1>2

\* A location that is kept is one of these.
LEMMA KeepLocated ==
    ASSUME RouteInv, NEW u \in Units, NEW p \in Processes, NEW url \in Location(u, p),
           home' = home, located' = Keep(u, p, url)
    PROVE  /\ located' \in [Units -> [Processes -> Schedulers \cup {Router, None}]]
           /\ LocatedInv'
<1>1. url = Router \/ (url = home[p] /\ url \in Schedulers)
  BY LocationAtHome
<1>2. located \in [Units -> [Processes -> Schedulers \cup {Router, None}]]
  BY DEF RouteInv, Shape
<1>3. located' = [located EXCEPT ![u] = [located[u] EXCEPT ![p] = url]]
  BY <1>2 DEF Keep
<1>4. located' \in [Units -> [Processes -> Schedulers \cup {Router, None}]]
  BY <1>1, <1>2, <1>3
<1>5. \A v \in Units, q \in Processes :
        located'[v][q] = IF v = u /\ q = p THEN url ELSE located[v][q]
  BY <1>2, <1>3
<1>6. LocatedInv'
  BY <1>1, <1>5 DEF RouteInv, LocatedInv
<1>7. QED
  BY <1>4, <1>6

\* The steps of a read.
LEMMA ReadRoute ==
    ASSUME AttemptsInv, RouteInv, NEW r \in Requests, Read(r)
    PROVE  RouteInv'
<1> USE DEF Goes
<1>n. [Next]_vars
  BY DEF Next
<1>s. Shape
  BY DEF RouteInv
<1>p. \A q \in Requests : PhaseInv(q)
  BY DEF RouteInv
<1>1. CASE Proxy(r)
  <2>1. \E h : to' = [to EXCEPT ![r] = h]
    BY <1>1 DEF Proxy, DetermineHost
  <2>2. Shape'
    BY <1>1, <1>s, <2>1 DEF Proxy, Shape, Phases, routerVars, suVars
  <2>3. PhaseInv(r)'
    BY <1>1, <1>s DEF Proxy, Shape, PhaseInv
  <2>4. \A q \in Requests \ {r} : phase'[q] = phase[q] /\ to'[q] = to[q]
    BY <1>1, <1>s, <2>1 DEF Proxy, Shape
  <2>5. LocatedInv'
    BY <1>1 DEF Proxy, RouteInv, LocatedInv, routerVars
  <2>6. QED
    BY <1>n, <1>s, <1>p, <2>2, <2>3, <2>4, <2>5, OthersKept DEF RouteInv
<1>2. CASE Bubble(r) \/ HostUnreachable(r)
  <2>1. /\ \/ phase' = [phase EXCEPT ![r] = "failed"]
           \/ Kind[r] = "Read" /\ phase' = [phase EXCEPT ![r] = "failingOver"]
        /\ \/ to' = to
           \/ to' = [to EXCEPT ![r] = None]
        /\ UNCHANGED <<home, held, located>>
    BY <1>2, <1>p DEF Bubble, HostUnreachable, PhaseInv, routerVars, suVars, cuVars
  <2>2. Shape'
    BY <2>1, <1>s DEF Shape, Phases
  <2>3. PhaseInv(r)'
    BY <2>1, <1>s DEF Shape, PhaseInv
  <2>4. \A q \in Requests \ {r} : phase'[q] = phase[q] /\ to'[q] = to[q]
    BY <2>1, <1>s DEF Shape
  <2>5. LocatedInv'
    BY <2>1 DEF RouteInv, LocatedInv
  <2>6. QED
    BY <1>n, <1>s, <1>p, <2>2, <2>3, <2>4, <2>5, OthersKept DEF RouteInv
<1>3. CASE Answer(r)
  <2>1. to[r] \in Units /\ About[r] \in Processes /\ home' = home
    BY <1>3, ConstantsShaped DEF Answer, Goes, AttemptsInv, routerVars
  <2>2. PICK url \in Location(to[r], About[r]) :
          LET s == IF url = Router THEN home[About[r]] ELSE url
          IN  /\ s # None
              /\ located' = Keep(to[r], About[r], url)
              /\ to' = [to EXCEPT ![r] = s]
    BY <1>3 DEF Answer
  <2>3. url = Router \/ (url = home[About[r]] /\ url \in Schedulers)
    BY <2>1, <2>2, LocationAtHome
  <2>4. to' = [to EXCEPT ![r] = home[About[r]]] /\ home[About[r]] # None
    BY <2>2, <2>3
  <2>5. /\ located' \in [Units -> [Processes -> Schedulers \cup {Router, None}]]
        /\ LocatedInv'
    BY <2>1, <2>2, KeepLocated
  <2>6. Shape'
    BY <1>3, <1>s, <2>4, <2>5 DEF Answer, Shape, Phases, routerVars, suVars
  <2>7. PhaseInv(r)'
    BY <1>3, <1>s, <2>1, <2>4 DEF Answer, Shape, PhaseInv, AtHome, Placed
  <2>8. \A q \in Requests \ {r} : phase'[q] = phase[q] /\ to'[q] = to[q]
    BY <1>3, <1>s, <2>4 DEF Answer, Shape
  <2>9. QED
    BY <1>n, <1>s, <1>p, <2>5, <2>6, <2>7, <2>8, OthersKept DEF RouteInv
<1>4. CASE AnswerError(r)
  <2>1. to[r] \in Units /\ About[r] \in Processes /\ home' = home
    BY <1>4, ConstantsShaped DEF AnswerError, Goes, AttemptsInv, routerVars
  <2>2. /\ located' \in [Units -> [Processes -> Schedulers \cup {Router, None}]]
        /\ LocatedInv'
    <3>1. CASE located' = located
      BY <2>1, <3>1 DEF RouteInv, Shape, LocatedInv
    <3>2. CASE \E url \in Location(to[r], About[r]) : located' = Keep(to[r], About[r], url)
      BY <2>1, <3>2, KeepLocated
    <3>3. QED
      BY <1>4, <3>1, <3>2 DEF AnswerError
  <2>3. Shape'
    BY <1>4, <1>s, <2>2 DEF AnswerError, Shape, Phases, routerVars, suVars
  <2>4. PhaseInv(r)'
    BY <1>4, <1>s DEF AnswerError, Shape, PhaseInv
  <2>5. \A q \in Requests \ {r} : phase'[q] = phase[q] /\ to'[q] = to[q]
    BY <1>4, <1>s DEF AnswerError, Shape
  <2>6. QED
    BY <1>n, <1>s, <1>p, <2>2, <2>3, <2>4, <2>5, OthersKept DEF RouteInv
<1>5. QED
  BY <1>1, <1>2, <1>3, <1>4 DEF Read

\* The steps of the Compute Units' caches.
LEMMA UnitRoute ==
    ASSUME RouteInv, NEW u \in Units, NEW p \in Processes, Expire(u, p)
    PROVE  RouteInv'
<1>n. [Next]_vars
  BY DEF Next
<1>1. UNCHANGED <<home, held, phase, to>>
  BY DEF Expire, routerVars, suVars
<1>3. /\ located' \in [Units -> [Processes -> Schedulers \cup {Router, None}]]
      /\ \A v \in Units, q \in Processes : located'[v][q] \in {None, located[v][q]}
  <2>1. located \in [Units -> [Processes -> Schedulers \cup {Router, None}]]
    BY DEF RouteInv, Shape
  <2>2. located' = [located EXCEPT ![u] = [located[u] EXCEPT ![p] = None]]
    BY <2>1 DEF Expire
  <2>3. QED
    BY <2>1, <2>2
<1>4. Shape'
  BY <1>1, <1>3 DEF RouteInv, Shape
<1>5. LocatedInv'
  BY <1>1, <1>3 DEF RouteInv, LocatedInv
<1>6. \A r \in Requests : PhaseInv(r)'
  BY <1>n, <1>1, OthersKept DEF RouteInv
<1>7. QED
  BY <1>4, <1>5, <1>6 DEF RouteInv

\* Every step of the router, the schedulers and the Compute Units.
LEMMA NextRoute == AttemptsInv /\ RouteInv /\ [Next]_vars => RouteInv'
<1> SUFFICES ASSUME AttemptsInv, RouteInv, [Next]_vars PROVE RouteInv'
  OBVIOUS
<1>1. CASE \E r \in Requests : Write(r) \/ Read(r)
  BY <1>1, WriteRoute, ReadRoute
<1>2. CASE \E u \in Units, p \in Processes : Expire(u, p)
  BY <1>2, UnitRoute
<1>3. CASE Replicate \/ UNCHANGED vars
  <2>1. UNCHANGED <<home, held, located, phase, to>>
    BY <1>3 DEF Replicate, vars, routerVars, suVars, cuVars
  <2>2. Shape' /\ LocatedInv'
    BY <2>1 DEF RouteInv, Shape, LocatedInv
  <2>3. \A r \in Requests : PhaseInv(r)'
    BY <2>1, OthersKept DEF RouteInv
  <2>4. QED
    BY <2>2, <2>3 DEF RouteInv
<1>4. QED
  BY <1>1, <1>2, <1>3 DEF Next

\* Wherever a request has got to, and whatever a cache holds, agrees with the rows of the
\* router (process_schedulers): a row is written once (ON CONFLICT DO NOTHING).
THEOREM RoutesInvariant == Spec => []RouteInv
<1>1. QED
  BY InitRoute, NextRoute, AttemptsInvariant, PTL DEF Spec

\* Writers and readers of a process meet at one scheduler (redirect_data_item,
\* locate), with or without the schedulers' own check.
THEOREM OneScheduleServed == Spec => []OneSchedule
<1>1. RouteInv => OneSchedule
  BY DEF RouteInv, PhaseInv, AtHome, OneSchedule
<1>2. QED
  BY <1>1, RoutesInvariant, PTL

\* With the router check, a process that the router knows is saved by the scheduler of
\* its row only, and its row stays as it is.
LEMMA HeldNext ==
    ASSUME RouterCheck, RouteInv, HeldAtHome, [Next]_vars
    PROVE  HeldAtHome'
<1>k. \A p \in Processes : home[p] # None => home'[p] = home[p]
  BY RowsKept DEF RouteInv
<1>h. \A s \in Schedulers : held[s] \subseteq Processes
  BY DEF RouteInv, Shape
<1>1. CASE held' = held /\ unrouted' = unrouted
  BY <1>1, <1>k, <1>h, ConstantsShaped DEF HeldAtHome
<1>2. CASE \E r \in Requests : SpawnProcess(r)
  <2>1. PICK r \in Requests : SpawnProcess(r)
    BY <1>2
  <2>2. PICK answer \in {home[About[r]], None} :
          /\ answer \in {to[r], None}
          /\ unrouted' = unrouted \cup (IF answer = None THEN {<<to[r], About[r]>>} ELSE {})
          /\ home' = home
    BY <2>1 DEF SpawnProcess, BelongsHere, RouterAnswers, routerVars
  <2>3. \A s \in Schedulers : held'[s] = IF s = to[r] THEN held[s] \cup {About[r]} ELSE held[s]
    BY <2>1 DEF SpawnProcess, RouteInv, Shape
  <2>4. ASSUME NEW s \in Schedulers, NEW p \in held'[s]
        PROVE  home'[p] = s \/ <<s, p>> \in unrouted'
    <3>1. p \in held[s] \/ (s = to[r] /\ p = About[r])
      BY <2>3
    <3>2. CASE p \in held[s]
      BY <2>2, <3>2 DEF HeldAtHome
    <3>3. CASE s = to[r] /\ p = About[r]
      BY <2>2, <3>3
    <3>4. QED
      BY <3>1, <3>2, <3>3
  <2>5. QED
    BY <2>4 DEF HeldAtHome
<1>3. CASE Next /\ ~ (\E r \in Requests : SpawnProcess(r))
  <2>1. ASSUME NEW r \in Requests, Write(r)
        PROVE  held' = held /\ unrouted' = unrouted
    BY <1>3, <2>1
       DEF Write, ChooseScheduler, UpdateScheduler, SaveProcessScheduler, RedirectMessage,
           PostDirectly, RouterRefuses, ScheduleMessage, SchedulerRefuses, suVars
  <2>2. ASSUME NEW r \in Requests, Read(r)
        PROVE  held' = held /\ unrouted' = unrouted
    BY <2>2 DEF Read, Proxy, Bubble, HostUnreachable, Answer, AnswerError, suVars
  <2>3. ASSUME NEW u \in Units, NEW p, Expire(u, p)
        PROVE  held' = held /\ unrouted' = unrouted
    BY <2>3 DEF Expire, suVars
  <2>4. Replicate => held' = held /\ unrouted' = unrouted
    BY DEF Replicate, suVars
  <2>5. QED
    BY <1>3, <1>1, <2>1, <2>2, <2>3, <2>4 DEF Next
<1>4. CASE UNCHANGED vars
  BY <1>4, <1>1 DEF vars, suVars
<1>5. QED
  BY <1>2, <1>3, <1>4

\* A scheduler saves a process only if the router's row gives it that one, or if the
\* router knew of no row (write_item of the scheduler, which asks the router), however
\* late the router's replica is.
THEOREM ProcessesHeldAtHome ==
    ASSUME RouterCheck
    PROVE  Spec => []HeldAtHome
<1>1. Init => HeldAtHome
  BY DEF Init, HeldAtHome
<1>2. RouteInv /\ HeldAtHome /\ [Next]_vars => HeldAtHome'
  BY HeldNext
<1>3. QED
  BY <1>1, <1>2, RoutesInvariant, PTL DEF Spec

\* However many requests, failures and hosts there are, no read is given up before
\* it was sent to every Compute Unit (determineHost counts the attempts up from the
\* hash of the process, revProxy stops after as many as there are hosts).
THEOREM AlwaysTriedAll == Spec => []FailedOver
<1>1. AttemptsInv => FailedOver
  <2> SUFFICES ASSUME AttemptsInv, NEW r \in Requests, phase[r] = "failed",
                      Bailout[About[r]] = None
               PROVE  Range(tried[r]) = Units
    BY DEF FailedOver
  <2>1. /\ tried[r] \in Seq(Units) /\ Len(tried[r]) \in Nat /\ Len(Hosts) \in Nat
        /\ Len(Hosts) <= Len(tried[r])
        /\ \A i \in 1 .. Len(tried[r]) : tried[r][i] = HostAt(r, i - 1)
    BY RoutingAssumption DEF AttemptsInv, TriedInv, Exhausted, Attempt
  <2>2. Range(tried[r]) \subseteq Units
    BY <2>1 DEF Range
  <2>3. ASSUME NEW u \in Units PROVE u \in Range(tried[r])
    <3>1. PICK i \in 0 .. Len(Hosts) - 1 : HostAt(r, i) = u
      BY AttemptsReachAll
    <3>2. i + 1 \in 1 .. Len(tried[r]) /\ (i + 1) - 1 = i
      BY <2>1
    <3>3. tried[r][i + 1] = u
      BY <2>1, <3>1, <3>2
    <3>4. QED
      BY <2>1, <3>2, <3>3 DEF Range
  <2>4. QED
    BY <2>2, <2>3
<1>2. QED
  BY <1>1, AttemptsInvariant, PTL
=============================================================================
