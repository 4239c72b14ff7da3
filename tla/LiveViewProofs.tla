----------------------------- MODULE LiveViewProofs -----------------------------
(***************************************************************************)
(* Proofs about LiveView, for any queries, cases, queue and faults.        *)
(***************************************************************************)
EXTENDS LiveView, TLAPS

\* What a request read is not older than what its query shows.
FetchInv == \A q \in Views : fetch[q].st = "read" => seen[q] <= fetch[q].got

ViewInv == TypeOK /\ FetchInv /\ NothingForgotten

Request == [st : Stages, got : 0 .. version]

--------------------------------------------------------------------------------
LEMMA SeqWider ==
    ASSUME NEW S, NEW T, S \subseteq T, NEW s \in Seq(S)
    PROVE  s \in Seq(T)
<1>1. s \in [1 .. Len(s) -> S] /\ Len(s) \in Nat
    OBVIOUS
<1>2. s \in [1 .. Len(s) -> T]
    BY <1>1
<1> QED
    BY <1>1, <1>2

LEMMA SeqElements ==
    ASSUME NEW S, NEW s \in Seq(S)
    PROVE  \A i \in DOMAIN s : s[i] \in S
OBVIOUS

LEMMA AppendElements ==
    ASSUME NEW S, NEW s \in Seq(S), NEW e \in S
    PROVE  /\ Append(s, e) \in Seq(S) /\ Len(Append(s, e)) = Len(s) + 1
           /\ {Append(s, e)[i] : i \in DOMAIN Append(s, e)} = {s[i] : i \in DOMAIN s} \cup {e}
<1>1. /\ Append(s, e) \in Seq(S) /\ Len(Append(s, e)) = Len(s) + 1
      /\ DOMAIN Append(s, e) = 1 .. Len(s) + 1 /\ DOMAIN s = 1 .. Len(s)
      /\ \A i \in 1 .. Len(s) : Append(s, e)[i] = s[i]
      /\ Append(s, e)[Len(s) + 1] = e /\ Len(s) \in Nat
    OBVIOUS
<1>2. ASSUME NEW x \in {Append(s, e)[i] : i \in DOMAIN Append(s, e)}
      PROVE  x \in {s[i] : i \in DOMAIN s} \cup {e}
    BY <1>1
<1>3. ASSUME NEW x \in {s[i] : i \in DOMAIN s} \cup {e}
      PROVE  x \in {Append(s, e)[i] : i \in DOMAIN Append(s, e)}
    BY <1>1
<1> QED
    BY <1>1, <1>2, <1>3

LEMMA TailElements ==
    ASSUME NEW S, NEW s \in Seq(S), s # <<>>
    PROVE  /\ Tail(s) \in Seq(S) /\ Len(Tail(s)) < Len(s) /\ Head(s) \in S
           /\ {s[i] : i \in DOMAIN s} \subseteq {Tail(s)[i] : i \in DOMAIN Tail(s)} \cup {Head(s)}
<1>1. /\ Tail(s) \in Seq(S) /\ Len(Tail(s)) = Len(s) - 1 /\ Head(s) = s[1] /\ Head(s) \in S
      /\ DOMAIN Tail(s) = 1 .. Len(s) - 1 /\ DOMAIN s = 1 .. Len(s) /\ Len(s) \in Nat
      /\ \A i \in 1 .. Len(s) - 1 : Tail(s)[i] = s[i + 1]
    OBVIOUS
<1>2. ASSUME NEW i \in DOMAIN s, i # 1
      PROVE  s[i] \in {Tail(s)[j] : j \in DOMAIN Tail(s)}
  <2>1. i - 1 \in 1 .. Len(s) - 1 /\ Tail(s)[i - 1] = s[i]
      BY <1>1, <1>2
  <2> QED
      BY <1>1, <2>1
<1> QED
    BY <1>1, <1>2

\* A query that is fetched again reads what it would have read, or everything.
LEMMA InvalidatedComes ==
    ASSUME TypeOK, NEW q \in Views
    PROVE  /\ Invalidated(q) \in Request
           /\ Invalidated(q).st = "closed" <=> fetch[q].st = "closed"
           /\ Invalidated(q).st = "read" => Invalidated(q) = fetch[q] /\ q \notin loaded
           /\ Invalidated(q).st \in {"closed", "sent", "read"}
<1>1. fetch[q] \in Request
    BY DEF TypeOK, Request
<1>2. [st |-> "sent", got |-> 0] \in Request
    BY LiveViewAssumption DEF TypeOK, Request, Stages
<1> QED
    BY <1>1, <1>2 DEF Invalidated, Request, Stages

\* The initial state satisfies the invariant.
LEMMA InitView == Init => ViewInv
<1> SUFFICES ASSUME Init PROVE ViewInv
    OBVIOUS
<1>1. TypeOK
  <2>1. about \in Seq(Cases) /\ Len(about) = version /\ version \in 0 .. MaxCommits
      BY LiveViewAssumption DEF Init
  <2>2. stream \in [st : Streams, allowed : SUBSET Cases, queue : Seq(1 .. version)]
        /\ Len(stream.queue) <= QueueLimit
      BY LiveViewAssumption DEF Init, Connecting, Streams
  <2>3. seen \in [Views -> 0 .. version] /\ fetch \in [Views -> [st : Stages, got : 0 .. version]]
      BY DEF Init, Stages
  <2>4. missed \in [Views -> SUBSET (1 .. version)] /\ unsent \subseteq 1 .. version
        /\ due \subseteq 1 .. version /\ loaded \subseteq Views /\ faults \in 0 .. MaxFaults
      BY LiveViewAssumption DEF Init
  <2>5. replying \in BOOLEAN /\ expired \in BOOLEAN
      BY DEF Init
  <2> QED
      BY <2>1, <2>2, <2>3, <2>4, <2>5 DEF TypeOK
<1> QED
    BY <1>1 DEF Init, ViewInv, FetchInv, NothingForgotten

--------------------------------------------------------------------------------
(* The server. *)

LEMMA CommitView == ASSUME ViewInv, NEW c \in Cases, Commit(c) PROVE ViewInv'
<1>1. /\ version < MaxCommits /\ version' = version + 1 /\ about' = Append(about, c)
      /\ unsent' = unsent \cup {version'} /\ replying' \in {replying, TRUE}
      /\ UNCHANGED <<stream, due, loaded, seen, fetch, expired, faults, missed>>
    BY DEF Commit
<1>2. version \in Nat /\ version' \in 0 .. MaxCommits /\ 1 .. version \subseteq 1 .. version'
      /\ 0 .. version \subseteq 0 .. version'
    BY <1>1, LiveViewAssumption DEF ViewInv, TypeOK
<1>3. TypeOK'
  <2>1. about' \in Seq(Cases) /\ Len(about') = version'
      BY <1>1 DEF ViewInv, TypeOK
  <2>2. /\ stream' \in [st : Streams, allowed : SUBSET Cases, queue : Seq(1 .. version')]
        /\ Len(stream'.queue) <= QueueLimit
    <3>1. stream.queue \in Seq(1 .. version')
        BY <1>2, SeqWider DEF ViewInv, TypeOK
    <3> QED
        BY <1>1, <3>1 DEF ViewInv, TypeOK
  <2>3. unsent' \subseteq 1 .. version' /\ due' \subseteq 1 .. version'
      BY <1>1, <1>2 DEF ViewInv, TypeOK
  <2>4. seen' \in [Views -> 0 .. version'] /\ missed' \in [Views -> SUBSET (1 .. version')]
      BY <1>1, <1>2 DEF ViewInv, TypeOK
  <2>5. fetch' \in [Views -> [st : Stages, got : 0 .. version']]
      BY <1>1, <1>2 DEF ViewInv, TypeOK
  <2>6. /\ loaded' \subseteq Views
        /\ replying' \in BOOLEAN /\ expired' \in BOOLEAN /\ faults' \in 0 .. MaxFaults
      BY <1>1 DEF ViewInv, TypeOK
  <2> QED
      BY <1>2, <2>1, <2>2, <2>3, <2>4, <2>5, <2>6 DEF TypeOK
<1>4. FetchInv'
    BY <1>1 DEF ViewInv, FetchInv
<1>5. NothingForgotten'
  <2> SUFFICES ASSUME NEW q \in Views, fetch[q].st # "closed", NEW n \in 1 .. version'
               PROVE  Shows(q, n)' \/ Coming(q, n)' \/ n \in missed'[q]
      BY <1>1 DEF NothingForgotten
  <2>1. CASE n = version'
      BY <2>1, <1>1 DEF Coming
  <2>2. CASE n \in 1 .. version
      BY <2>2, <1>1 DEF ViewInv, NothingForgotten, Shows, Coming, Queued
  <2> QED
      BY <1>1, <1>2, <2>1, <2>2
<1> QED
    BY <1>3, <1>4, <1>5 DEF ViewInv

\* Steps that move commits between the places they wait in, or to the missed.
LEMMA MovedView ==
    ASSUME ViewInv, TypeOK', UNCHANGED <<version, loaded, seen, fetch>>,
           \A q \in Views : unsent \cup Queued \cup due \cup missed[q]
               \subseteq unsent' \cup Queued' \cup due' \cup missed'[q]
    PROVE  ViewInv'
<1>1. FetchInv'
    BY DEF ViewInv, FetchInv
<1>2. NothingForgotten'
    BY DEF ViewInv, NothingForgotten, Shows, Coming
<1> QED
    BY <1>1, <1>2 DEF ViewInv

LEMMA PublishView == ASSUME ViewInv, NEW n \in unsent, Publish(n) PROVE ViewInv'
<1>1. /\ unsent' = unsent \ {n}
      /\ UNCHANGED <<version, about, due, loaded, seen, fetch, replying, expired, faults>>
    BY DEF Publish
<1>2. n \in 1 .. version
    BY DEF ViewInv, TypeOK
<1>3. CASE Hears(n)
  <2>1. stream' = [stream EXCEPT !.queue = Append(@, n)] /\ missed' = missed
      BY <1>3 DEF Publish
  <2>2. stream \in [st : Streams, allowed : SUBSET Cases, queue : Seq(1 .. version)]
        /\ Len(stream.queue) < QueueLimit
      BY <1>3 DEF ViewInv, TypeOK, Hears
  <2>3. stream'.queue = Append(stream.queue, n)
      BY <2>1, <2>2
  <2>4. Queued' = Queued \cup {n} /\ Append(stream.queue, n) \in Seq(1 .. version)
        /\ Len(Append(stream.queue, n)) <= QueueLimit
      BY <1>2, <2>2, <2>3, AppendElements, LiveViewAssumption DEF Queued
  <2>5. stream' \in [st : Streams, allowed : SUBSET Cases, queue : Seq(1 .. version)]
        /\ Len(stream'.queue) <= QueueLimit
      BY <2>1, <2>2, <2>3, <2>4
  <2>6. TypeOK'
      BY <1>1, <2>1, <2>5 DEF ViewInv, TypeOK
  <2> QED
      BY <1>1, <2>1, <2>4, <2>6, MovedView
<1>4. CASE ~ Hears(n)
  <2>1. Miss({n}) /\ UNCHANGED stream
      BY <1>4 DEF Publish
  <2>2. \A q \in Views : missed'[q] = missed[q] \cup {n}
      BY <2>1 DEF Miss
  <2>3. TypeOK'
      BY <1>1, <1>2, <2>1 DEF ViewInv, TypeOK, Miss
  <2>4. Queued' = Queued
      BY <2>1 DEF Queued
  <2> QED
      BY <1>1, <2>1, <2>2, <2>3, <2>4, MovedView
<1> QED
    BY <1>3, <1>4

\* A connection that changes state keeps its queue.
LEMMA ConnectView ==
    ASSUME ViewInv, Admit \/ Subscribe
    PROVE  ViewInv'
<1>1. UNCHANGED <<version, about, unsent, due, loaded, seen, fetch, replying, expired, faults, missed>>
    BY DEF Admit, Subscribe
<1>2. stream \in [st : Streams, allowed : SUBSET Cases, queue : Seq(1 .. version)]
      /\ Len(stream.queue) <= QueueLimit
    BY DEF ViewInv, TypeOK
<1>3. /\ stream' \in [st : Streams, allowed : SUBSET Cases, queue : Seq(1 .. version)]
      /\ stream'.queue = stream.queue
  <2>1. CASE Subscribe
      BY <1>2, <2>1 DEF Subscribe, Streams
  <2>2. CASE Admit
    <3>1. (IF Everything THEN Cases ELSE Known \cap Mine) \subseteq Cases
        BY LiveViewAssumption
    <3>2. \/ stream' = [stream EXCEPT !.st = "refused"]
          \/ \E a \in SUBSET Cases : stream' = [stream EXCEPT !.st = "admitted", !.allowed = a]
        BY <2>2, <3>1 DEF Admit
    <3> QED
        BY <1>2, <3>2 DEF Streams
  <2> QED
      BY <2>1, <2>2
<1>4. TypeOK' /\ Queued' = Queued
    BY <1>1, <1>2, <1>3 DEF ViewInv, TypeOK, Queued
<1> QED
    BY <1>1, <1>4, MovedView

--------------------------------------------------------------------------------
(* The page. *)

LEMMA DeliverView == ASSUME ViewInv, Deliver PROVE ViewInv'
<1> DEFINE n == Head(stream.queue)
<1>1. /\ stream.queue # <<>>
      /\ stream' = [stream EXCEPT !.queue = Tail(@)]
      /\ \/ due' = due \cup {n} /\ UNCHANGED missed
         \/ Miss({n}) /\ UNCHANGED due
      /\ UNCHANGED <<version, about, unsent, loaded, seen, fetch, replying, expired, faults>>
    BY DEF Deliver
<1>2. stream \in [st : Streams, allowed : SUBSET Cases, queue : Seq(1 .. version)]
      /\ Len(stream.queue) <= QueueLimit
    BY DEF ViewInv, TypeOK
<1>3. stream'.queue = Tail(stream.queue)
    BY <1>1, <1>2
<1>4. /\ Tail(stream.queue) \in Seq(1 .. version) /\ Len(Tail(stream.queue)) <= QueueLimit
      /\ n \in 1 .. version
      /\ Queued \subseteq Queued' \cup {n}
  <2>1. /\ Tail(stream.queue) \in Seq(1 .. version)
        /\ Len(Tail(stream.queue)) < Len(stream.queue) /\ n \in 1 .. version
        /\ Queued \subseteq Queued' \cup {n}
    <3>1. stream.queue \in Seq(1 .. version) /\ stream.queue # <<>>
        BY <1>1, <1>2
    <3>2. /\ Tail(stream.queue) \in Seq(1 .. version)
          /\ Len(Tail(stream.queue)) < Len(stream.queue) /\ n \in 1 .. version
          /\ {stream.queue[i] : i \in DOMAIN stream.queue}
               \subseteq {Tail(stream.queue)[i] : i \in DOMAIN Tail(stream.queue)} \cup {n}
        BY <3>1, TailElements
    <3> QED
        BY <3>2, <1>3 DEF Queued
  <2>2. Len(Tail(stream.queue)) \in Nat /\ Len(stream.queue) \in Nat /\ QueueLimit \in Nat
      BY <1>2, <2>1, LiveViewAssumption
  <2> QED
      BY <1>2, <2>1, <2>2
<1>5. stream' \in [st : Streams, allowed : SUBSET Cases, queue : Seq(1 .. version)]
      /\ Len(stream'.queue) <= QueueLimit
    BY <1>1, <1>2, <1>3, <1>4
<1>6. CASE due' = due \cup {n} /\ UNCHANGED missed
  <2>1. TypeOK'
      BY <1>1, <1>4, <1>5, <1>6 DEF ViewInv, TypeOK
  <2> QED
      BY <1>1, <1>4, <1>6, <2>1, MovedView
<1>7. CASE Miss({n}) /\ UNCHANGED due
  <2>1. \A q \in Views : missed'[q] = missed[q] \cup {n}
      BY <1>7 DEF Miss
  <2>2. TypeOK'
      BY <1>1, <1>4, <1>5, <1>7 DEF ViewInv, TypeOK, Miss
  <2> QED
      BY <1>1, <1>4, <1>7, <2>1, <2>2, MovedView
<1> QED
    BY <1>1, <1>6, <1>7

\* The queries in view are fetched again; what was waiting for that is behind
\* them, or missed.
LEMMA InvalidateView ==
    ASSUME ViewInv,
           fetch' = [q \in Views |-> Invalidated(q)],
           missed' \in [Views -> SUBSET (1 .. version)],
           due' \subseteq 1 .. version, replying' \in BOOLEAN,
           \A q \in Views : missed[q] \cup (due \ due')
               \subseteq missed'[q] \cup (IF Invalidated(q).st = "read" THEN 0 .. fetch[q].got ELSE 1 .. version),
           UNCHANGED <<version, about, unsent, stream, loaded, seen, expired, faults>>
    PROVE  ViewInv'
<1>1. TypeOK
    BY DEF ViewInv
<1>2. fetch' \in [Views -> Request]
    BY <1>1, InvalidatedComes
<1>3. TypeOK'
    BY <1>1, <1>2 DEF TypeOK, Request
<1>4. FetchInv'
    BY <1>1, InvalidatedComes DEF ViewInv, FetchInv
<1>5. NothingForgotten'
  <2> SUFFICES ASSUME NEW q \in Views, fetch'[q].st # "closed", NEW n \in 1 .. version
               PROVE  Shows(q, n)' \/ Coming(q, n)' \/ n \in missed'[q]
      BY DEF NothingForgotten
  <2>1. fetch'[q] = Invalidated(q) /\ fetch'[q].st \in {"sent", "read"} /\ fetch[q].st # "closed"
      BY <1>1, InvalidatedComes
  <2>2. CASE fetch'[q].st = "sent"
      BY <2>2 DEF Coming
  <2>3. CASE fetch'[q].st = "read"
    <3>1. fetch'[q] = fetch[q] /\ q \notin loaded
        BY <1>1, <2>1, <2>3, InvalidatedComes
    <3>2. fetch[q].got \in Nat /\ n \in Nat
        BY <1>1 DEF TypeOK
    <3>3. Coming(q, n) \/ n \in missed[q]
        BY <2>1, <3>1 DEF ViewInv, NothingForgotten, Shows
    <3>4. CASE n <= fetch[q].got
        BY <2>3, <3>1, <3>4 DEF Coming
    <3>5. CASE ~ (n <= fetch[q].got)
      <4>1. n \in unsent \/ n \in Queued \/ n \in due \/ n \in missed[q]
          BY <2>3, <3>1, <3>3, <3>5 DEF Coming
      <4>2. n \in due => n \in due' \/ n \in missed'[q]
          BY <2>1, <2>3, <3>2, <3>5
      <4>3. n \in missed[q] => n \in missed'[q]
          BY <2>1, <2>3, <3>2, <3>5
      <4> QED
          BY <4>1, <4>2, <4>3 DEF Coming, Queued
    <3> QED
        BY <3>4, <3>5
  <2> QED
      BY <2>1, <2>2, <2>3
<1> QED
    BY <1>3, <1>4, <1>5 DEF ViewInv

LEMMA TimerView == ASSUME ViewInv, TimerFires PROVE ViewInv'
<1>1. /\ due' = {} /\ fetch' = [q \in Views |-> Invalidated(q)]
      /\ missed' = [q \in Views |-> missed[q] \cup Joined(q, due)]
      /\ UNCHANGED <<version, about, unsent, stream, loaded, seen, replying, expired, faults>>
    BY DEF TimerFires
<1>2. \A q \in Views : Joined(q, due) \subseteq due /\ due \subseteq 1 .. version
    BY DEF Joined, ViewInv, TypeOK
<1>3. missed' \in [Views -> SUBSET (1 .. version)] /\ due' \subseteq 1 .. version /\ replying' \in BOOLEAN
    BY <1>1, <1>2 DEF ViewInv, TypeOK
<1>4. ASSUME NEW q \in Views, NEW n \in missed[q] \cup (due \ due')
      PROVE  n \in missed'[q] \cup (IF Invalidated(q).st = "read" THEN 0 .. fetch[q].got ELSE 1 .. version)
  <2>1. n \in 1 .. version /\ fetch[q].got \in Nat
      BY <1>2 DEF ViewInv, TypeOK
  <2>2. Invalidated(q).st = "read" => Invalidated(q) = fetch[q] /\ q \notin loaded
      BY InvalidatedComes DEF ViewInv
  <2>3. CASE n \in missed[q]
      BY <1>1, <2>3
  <2>4. CASE n \in due /\ Invalidated(q).st = "read" /\ ~ (n <= fetch[q].got)
      BY <1>1, <2>1, <2>2, <2>4 DEF Joined
  <2> QED
      BY <1>1, <2>1, <2>3, <2>4
<1> QED
    BY <1>1, <1>3, <1>4, InvalidateView

LEMMA RepliedView == ASSUME ViewInv, Replied PROVE ViewInv'
<1>1. /\ replying' = FALSE /\ fetch' = [q \in Views |-> Invalidated(q)]
      /\ UNCHANGED <<version, about, unsent, stream, due, loaded, seen, expired, faults, missed>>
    BY DEF Replied
<1>2. missed' \in [Views -> SUBSET (1 .. version)] /\ due' \subseteq 1 .. version /\ replying' \in BOOLEAN
    BY <1>1 DEF ViewInv, TypeOK
<1> QED
    BY <1>1, <1>2, InvalidateView

\* A query asks, reads, shows or gives up.
LEMMA FetchView ==
    ASSUME ViewInv, NEW q \in Views,
           Open(q) \/ Poll(q) \/ FetchReads(q) \/ FetchShows(q) \/ FetchFails(q)
    PROVE  ViewInv'
<1>1. fetch \in [Views -> Request] /\ version \in Nat /\ seen \in [Views -> 0 .. version]
      /\ missed \in [Views -> SUBSET (1 .. version)] /\ faults \in 0 .. MaxFaults
      /\ loaded \subseteq Views
    BY DEF ViewInv, TypeOK, Request
<1>2. CASE Open(q) \/ Poll(q)
  <2>1. /\ fetch' = [fetch EXCEPT ![q].st = "sent"]
        /\ UNCHANGED <<version, about, unsent, stream, due, loaded, seen, replying, expired, faults, missed>>
      BY <1>2 DEF Open, Poll
  <2>2. fetch' \in [Views -> Request] /\ fetch'[q].st = "sent" /\ \A p \in Views \ {q} : fetch'[p] = fetch[p]
      BY <1>1, <2>1 DEF Request, Stages
  <2>3. TypeOK'
      BY <2>1, <2>2 DEF ViewInv, TypeOK, Request
  <2> QED
      BY <2>1, <2>2, <2>3 DEF ViewInv, FetchInv, NothingForgotten, Shows, Coming, Queued
<1>3. CASE FetchReads(q)
  <2>1. /\ fetch' = [fetch EXCEPT ![q] = [st |-> "read", got |-> version]]
        /\ UNCHANGED <<version, about, unsent, stream, due, loaded, seen, replying, expired, faults, missed>>
      BY <1>3 DEF FetchReads
  <2>2. /\ fetch' \in [Views -> Request] /\ fetch'[q].st = "read" /\ fetch'[q].got = version
        /\ \A p \in Views \ {q} : fetch'[p] = fetch[p]
      BY <1>1, <2>1 DEF Request, Stages
  <2>3. TypeOK'
      BY <2>1, <2>2 DEF ViewInv, TypeOK, Request
  <2>4. FetchInv'
      BY <1>1, <2>1, <2>2 DEF ViewInv, FetchInv
  <2> QED
      BY <1>1, <2>1, <2>2, <2>3, <2>4 DEF ViewInv, NothingForgotten, Shows, Coming, Queued
<1>4. CASE FetchShows(q)
  <2>1. /\ fetch[q].st = "read" /\ seen' = [seen EXCEPT ![q] = fetch[q].got] /\ loaded' = loaded \cup {q}
        /\ fetch' = [fetch EXCEPT ![q] = [st |-> "idle", got |-> 0]]
        /\ UNCHANGED <<version, about, unsent, stream, due, replying, expired, faults, missed>>
      BY <1>4 DEF FetchShows
  <2>2. /\ fetch' \in [Views -> Request] /\ fetch'[q].st = "idle" /\ seen' \in [Views -> 0 .. version]
        /\ loaded' \subseteq Views /\ seen'[q] = fetch[q].got
        /\ \A p \in Views \ {q} : fetch'[p] = fetch[p] /\ seen'[p] = seen[p]
      BY <1>1, <2>1 DEF Request, Stages
  <2>3. TypeOK'
      BY <2>1, <2>2 DEF ViewInv, TypeOK, Request
  <2>4. FetchInv'
      BY <1>1, <2>1, <2>2 DEF ViewInv, FetchInv
  <2>5. NothingForgotten'
    <3> SUFFICES ASSUME NEW p \in Views, fetch'[p].st # "closed", NEW n \in 1 .. version
                 PROVE  Shows(p, n)' \/ Coming(p, n)' \/ n \in missed'[p]
        BY <2>1 DEF NothingForgotten
    <3>1. CASE p = q
      <4>1. Shows(q, n) \/ Coming(q, n) \/ n \in missed[q]
          BY <2>1 DEF ViewInv, NothingForgotten
      <4>2. Shows(q, n) => Shows(q, n)'
        <5>1. seen[q] <= fetch[q].got /\ seen[q] \in Nat /\ fetch[q].got \in Nat /\ n \in Nat
            BY <1>1, <2>1 DEF ViewInv, FetchInv, Request
        <5> QED
            BY <2>1, <2>2, <5>1 DEF Shows
      <4> QED
          BY <2>1, <2>2, <3>1, <4>1, <4>2 DEF Shows, Coming, Queued
    <3>2. CASE p # q
        BY <2>1, <2>2, <3>2 DEF ViewInv, NothingForgotten, Shows, Coming, Queued
    <3> QED
        BY <3>1, <3>2
  <2> QED
      BY <2>3, <2>4, <2>5 DEF ViewInv
<1>5. CASE FetchFails(q)
  <2>1. /\ faults < MaxFaults /\ faults' = faults + 1
        /\ fetch' = [fetch EXCEPT ![q] = [st |-> "idle", got |-> 0]]
        /\ missed' = [missed EXCEPT ![q] = @ \cup 1 .. version]
        /\ UNCHANGED <<version, about, unsent, stream, due, loaded, seen, replying, expired>>
      BY <1>5 DEF FetchFails
  <2>2. /\ fetch' \in [Views -> Request] /\ fetch'[q].st = "idle"
        /\ missed' \in [Views -> SUBSET (1 .. version)] /\ 1 .. version \subseteq missed'[q]
        /\ \A p \in Views \ {q} : fetch'[p] = fetch[p] /\ missed'[p] = missed[p]
      BY <1>1, <2>1 DEF Request, Stages
  <2>3. TypeOK'
      BY <1>1, <2>1, <2>2, LiveViewAssumption DEF ViewInv, TypeOK, Request
  <2> QED
      BY <2>1, <2>2, <2>3 DEF ViewInv, FetchInv, NothingForgotten, Shows, Coming, Queued
<1> QED
    BY <1>2, <1>3, <1>4, <1>5

--------------------------------------------------------------------------------
(* Connections and tokens. *)

\* Whatever a closed connection held is missed.
LEMMA CloseView ==
    ASSUME ViewInv, stream' = Connecting, due' \subseteq due,
           Miss(Queued \cup (due \ due')), expired' \in BOOLEAN, faults' \in 0 .. MaxFaults,
           UNCHANGED <<version, about, unsent, loaded, seen, fetch, replying>>
    PROVE  ViewInv'
<1>1. stream \in [st : Streams, allowed : SUBSET Cases, queue : Seq(1 .. version)] /\ due \subseteq 1 .. version
    BY DEF ViewInv, TypeOK
<1>2. Queued \subseteq 1 .. version
  <2>1. stream.queue \in Seq(1 .. version)
      BY <1>1
  <2>2. \A i \in DOMAIN stream.queue : stream.queue[i] \in 1 .. version
      BY <2>1, SeqElements
  <2> QED
      BY <2>2 DEF Queued
<1>3. stream' \in [st : Streams, allowed : SUBSET Cases, queue : Seq(1 .. version)]
      /\ Len(stream'.queue) <= QueueLimit
    BY LiveViewAssumption DEF Connecting, Streams
<1>4. missed' \in [Views -> SUBSET (1 .. version)]
      /\ \A q \in Views : missed'[q] = missed[q] \cup Queued \cup (due \ due')
    BY <1>1, <1>2 DEF Miss, ViewInv, TypeOK
<1>5. TypeOK'
    BY <1>1, <1>3, <1>4 DEF ViewInv, TypeOK
<1> QED
    BY <1>4, <1>5, MovedView

LEMMA BreakView == ASSUME ViewInv, Break PROVE ViewInv'
<1>1. faults' \in 0 .. MaxFaults /\ expired' \in BOOLEAN
    BY LiveViewAssumption DEF Break, ViewInv, TypeOK
<1>2. Miss(Queued \cup (due \ due'))
  <2>1. Queued \cup (due \ due') = Queued
      BY DEF Break
  <2> QED
      BY <2>1 DEF Break
<1> QED
    BY <1>1, <1>2, CloseView DEF Break

LEMMA RotateView == ASSUME ViewInv, Rotate PROVE ViewInv'
<1>1. faults' \in 0 .. MaxFaults /\ expired' \in BOOLEAN
    BY DEF Rotate, ViewInv, TypeOK
<1>2. Miss(Queued \cup (due \ due'))
  <2>1. Queued \cup (due \ due') = Queued \cup due
      BY DEF Rotate
  <2> QED
      BY <2>1 DEF Rotate
<1> QED
    BY <1>1, <1>2, CloseView DEF Rotate

LEMMA ExpireView == ASSUME ViewInv, Expire PROVE ViewInv'
<1>1. UNCHANGED <<version, about, unsent, stream, due, loaded, seen, fetch, replying, missed>>
      /\ faults' \in 0 .. MaxFaults /\ expired' \in BOOLEAN
    BY LiveViewAssumption DEF Expire, ViewInv, TypeOK
<1>2. TypeOK' /\ Queued' = Queued
    BY <1>1 DEF ViewInv, TypeOK, Queued
<1> QED
    BY <1>1, <1>2, MovedView

LEMMA NextView == ViewInv /\ [Next]_vars => ViewInv'
<1> SUFFICES ASSUME ViewInv, [Next]_vars PROVE ViewInv'
    OBVIOUS
<1>1. ASSUME NEW c \in Cases, Commit(c) PROVE ViewInv'
    BY <1>1, CommitView
<1>2. ASSUME NEW n \in unsent, Publish(n) PROVE ViewInv'
    BY <1>2, PublishView
<1>3. ASSUME NEW q \in Views, Open(q) \/ Poll(q) \/ FetchReads(q) \/ FetchShows(q) \/ FetchFails(q)
      PROVE  ViewInv'
    BY <1>3, FetchView
<1>4. CASE UNCHANGED vars
  <2>1. TypeOK' /\ Queued' = Queued
      BY <1>4 DEF vars, ViewInv, TypeOK, Queued
  <2> QED
      BY <1>4, <2>1, MovedView DEF vars
<1> QED
    BY <1>1, <1>2, <1>3, <1>4, ConnectView, DeliverView, TimerView, RepliedView, BreakView,
       RotateView, ExpireView DEF Next

LEMMA ViewInvariant == Spec => []ViewInv
<1> QED
    BY InitView, NextView, PTL DEF Spec

--------------------------------------------------------------------------------
\* The variables of LiveView have their types in every reachable state: the
\* queue of a subscriber never holds more than its limit.
THEOREM LiveViewTypes == Spec => []TypeOK
<1>1. ViewInv => TypeOK
    BY DEF ViewInv
<1> QED
    BY <1>1, ViewInvariant, PTL

\* Between the hub, the stream, the timer and the requests of the page no commit
\* is forgotten but in the ways the model names as missed.
THEOREM NothingIsForgotten == Spec => []NothingForgotten
<1>1. ViewInv => NothingForgotten
    BY DEF ViewInv
<1> QED
    BY <1>1, ViewInvariant, PTL

--------------------------------------------------------------------------------
(* What a query shows.                                                       *)

\* No step but a reply changes what a query shows, and a reply was read after
\* what the query shows was.
LEMMA ShowsLater ==
    ASSUME ViewInv, Next, NEW q \in Views
    PROVE  loaded \subseteq loaded' /\ seen'[q] >= seen[q]
<1>1. seen[q] \in Nat
    BY DEF ViewInv, TypeOK
<1>2. CASE UNCHANGED <<loaded, seen>>
    BY <1>1, <1>2
<1>3. ASSUME NEW r \in Views, FetchShows(r)
      PROVE  loaded \subseteq loaded' /\ seen'[q] >= seen[q]
    <2>1. seen[r] <= fetch[r].got
        BY <1>3 DEF FetchShows, ViewInv, FetchInv
    <2>2. QED
        BY <1>1, <1>3, <2>1 DEF FetchShows, ViewInv, TypeOK
<1>4. QED
    BY <1>2, <1>3 DEF Next, Commit, Publish, Admit, Subscribe, Deliver, TimerFires,
       Replied, Break, Expire, Rotate, Open, Poll, FetchReads, FetchFails

\* A query never shows an older state of the case after a newer one.
THEOREM ViewsGoForward == Spec => NeverGoesBack
<1>1. ViewInv /\ [Next]_vars =>
        [\A q \in Views : loaded \subseteq loaded' /\ seen'[q] >= seen[q]]_vars
    BY ShowsLater
<1>2. Spec => [][Next]_vars
    BY DEF Spec
<1>3. QED
    BY <1>1, <1>2, ViewInvariant, PTL DEF NeverGoesBack
================================================================================
