-------------------------------- MODULE LiveView --------------------------------
(***************************************************************************)
(* What a page of the application shows of the cases on the server: the    *)
(* cached queries of the page, the Server-Sent-Events stream that tells it *)
(* to fetch them again, and the hub that feeds the stream.                 *)
(*                                                                         *)
(* A commit is a number; a query shows the database as of some commit. The *)
(* properties ask whether a query shows every commit one day, so what is   *)
(* committed does not matter, only to which case it belongs.               *)
(*                                                                         *)
(* Left out: the dot that shows the connection, the list of the last       *)
(* thirty events, queries that are left and opened again (they are fetched *)
(* again when older than three seconds), and the tab in the background,    *)
(* which does not poll. A request that is tried again after an error of    *)
(* the server is one request.                                              *)
(***************************************************************************)
EXTENDS Naturals, Sequences, FiniteSets

CONSTANTS
    Cases,       \* the cases of all users
    Mine,        \* those this user can see, once they exist
    Views,       \* the queries of the page
    Polled,      \* those with a refetchInterval
    Everything,  \* TRUE: the user is an administrator
    QueueLimit,  \* EventHub.subscribe: maxsize of a subscriber's queue
    MaxCommits,  \* bound: commits
    MaxFaults    \* bound: connections lost, requests failed, tokens expired

ASSUME LiveViewAssumption ==
    /\ Polled \subseteq Views /\ Mine \subseteq Cases
    /\ Everything \in BOOLEAN
    /\ QueueLimit \in Nat \ {0}
    /\ MaxCommits \in Nat
    /\ MaxFaults \in Nat

VARIABLES
    version,  \* commits so far
    about,    \* about[n]: the case commit n belongs to
    unsent,   \* commits whose message is not published yet
    stream,   \* the stream of the page: st, the cases it may show, its queue
    due,      \* messages received since the timer was started; none: no timer
    loaded,   \* the queries that have data
    seen,     \* seen[q]: the commit whose database the query shows
    fetch,    \* fetch[q]: the request of the query, and what it read
    replying, \* an action of this page was committed, its reply is under way
    expired,  \* the access token has expired
    faults,   \* faults so far
    missed    \* history: missed[q], commits nothing will tell the query of

vars == <<version, about, unsent, stream, due, loaded, seen, fetch, replying, expired, faults, missed>>

Commits  == 1 .. MaxCommits
Stages   == {"closed", "idle", "sent", "read"}
Streams  == {"connecting", "admitted", "subscribed", "refused"}

Known == {about[n] : n \in 1 .. version}

Connecting == [st |-> "connecting", allowed |-> {}, queue |-> <<>>]
Queued == {stream.queue[i] : i \in DOMAIN stream.queue}

Init ==
    /\ version = 0 /\ about = <<>> /\ unsent = {}
    /\ stream = Connecting
    /\ due = {}
    /\ loaded = {}
    /\ seen = [q \in Views |-> 0]
    /\ fetch = [q \in Views |-> [st |-> "closed", got |-> 0]]
    /\ replying = FALSE /\ expired = FALSE
    /\ faults = 0
    /\ missed = [q \in Views |-> {}]

--------------------------------------------------------------------------------
(* The server. *)

\* A transaction commits; its messages are published when commit returns. An
\* action of this page gets its reply after that.
Commit(c) ==
    /\ version < MaxCommits
    /\ version' = version + 1
    /\ about' = Append(about, c)
    /\ unsent' = unsent \cup {version'}
    /\ replying' \in {replying, TRUE}
    /\ UNCHANGED <<stream, due, loaded, seen, fetch, expired, faults, missed>>

\* History: nothing will tell the queries of these commits.
Miss(news) == missed' = [q \in Views |-> missed[q] \cup news]

\* Mutant: the queue has no limit.
HearsAlways(n) == stream.st = "subscribed"

\* A message is offered to every subscriber, and filtered when it is taken out.
Hears(n) == stream.st = "subscribed" /\ Len(stream.queue) < QueueLimit

Publish(n) ==
    /\ n \in unsent
    /\ unsent' = unsent \ {n}
    /\ IF Hears(n)
       THEN stream' = [stream EXCEPT !.queue = Append(@, n)] /\ UNCHANGED missed
       ELSE Miss({n}) /\ UNCHANGED stream
    /\ UNCHANGED <<version, about, due, loaded, seen, fetch, replying, expired, faults>>

\* stream_all reads the user's cases, then the response subscribes to the hub.
Admit ==
    /\ stream.st = "connecting"
    /\ stream' = IF expired THEN [stream EXCEPT !.st = "refused"]
                 ELSE [stream EXCEPT !.st = "admitted",
                                     !.allowed = IF Everything THEN Cases ELSE Known \cap Mine]
    /\ UNCHANGED <<version, about, unsent, due, loaded, seen, fetch, replying, expired, faults, missed>>

Subscribe ==
    /\ stream.st = "admitted"
    /\ stream' = [stream EXCEPT !.st = "subscribed"]
    /\ UNCHANGED <<version, about, unsent, due, loaded, seen, fetch, replying, expired, faults, missed>>

--------------------------------------------------------------------------------
(* The page. *)

\* Mutant: a request under way is joined.
InvalidatedJoining(q) ==
    IF fetch[q].st # "idle" THEN fetch[q] ELSE [st |-> "sent", got |-> 0]

\* The queries of a page in view are fetched again. A request under way is
\* dropped for a new one, except the first request of a query, which is joined.
Invalidated(q) ==
    IF fetch[q].st = "closed" \/ (fetch[q].st # "idle" /\ q \notin loaded) THEN fetch[q]
    ELSE [st |-> "sent", got |-> 0]

\* History: a first request that had read the database before misses the rest.
Joined(q, news) ==
    IF q \notin loaded /\ fetch[q].st = "read" THEN {n \in news : n > fetch[q].got} ELSE {}

Open(q) ==
    /\ fetch[q].st = "closed"
    /\ fetch' = [fetch EXCEPT ![q].st = "sent"]
    /\ UNCHANGED <<version, about, unsent, stream, due, loaded, seen, replying, expired, faults, missed>>

\* _sse passes a message on, and the page (re)starts its timer.
Deliver ==
    /\ stream.queue # <<>>
    /\ stream' = [stream EXCEPT !.queue = Tail(@)]
    /\ LET n == Head(stream.queue) IN
       IF about[n] \in stream.allowed THEN due' = due \cup {n} /\ UNCHANGED missed
       ELSE Miss({n}) /\ UNCHANGED due
    /\ UNCHANGED <<version, about, unsent, loaded, seen, fetch, replying, expired, faults>>

\* Mutant: the timer waits until nothing is being fetched.
TimerFiresWhenIdle ==
    /\ due # {} /\ \A q \in Views : fetch[q].st \in {"closed", "idle"}
    /\ due' = {}
    /\ fetch' = [q \in Views |-> Invalidated(q)]
    /\ UNCHANGED <<version, about, unsent, stream, loaded, seen, replying, expired, faults, missed>>

TimerFires ==
    /\ due # {}
    /\ due' = {}
    /\ fetch' = [q \in Views |-> Invalidated(q)]
    /\ missed' = [q \in Views |-> missed[q] \cup Joined(q, due)]
    /\ UNCHANGED <<version, about, unsent, stream, loaded, seen, replying, expired, faults>>

\* useAction, on success.
Replied ==
    /\ replying
    /\ replying' = FALSE
    /\ fetch' = [q \in Views |-> Invalidated(q)]
    /\ UNCHANGED <<version, about, unsent, stream, due, loaded, seen, expired, faults, missed>>

\* Mutant: a query without data is not polled.
PollLoaded(q) ==
    /\ q \in Polled \cap loaded /\ fetch[q].st = "idle"
    /\ fetch' = [fetch EXCEPT ![q].st = "sent"]
    /\ UNCHANGED <<version, about, unsent, stream, due, loaded, seen, replying, expired, faults, missed>>

Poll(q) ==
    /\ q \in Polled /\ fetch[q].st = "idle"
    /\ fetch' = [fetch EXCEPT ![q].st = "sent"]
    /\ UNCHANGED <<version, about, unsent, stream, due, loaded, seen, replying, expired, faults, missed>>

\* Mutant: the request may be answered from a cache.
FetchReadsCached(q) ==
    /\ fetch[q].st = "sent" /\ ~ expired
    /\ \E v \in 0 .. version : fetch' = [fetch EXCEPT ![q] = [st |-> "read", got |-> v]]
    /\ UNCHANGED <<version, about, unsent, stream, due, loaded, seen, replying, expired, faults, missed>>

FetchReads(q) ==
    /\ fetch[q].st = "sent" /\ ~ expired
    /\ fetch' = [fetch EXCEPT ![q] = [st |-> "read", got |-> version]]
    /\ UNCHANGED <<version, about, unsent, stream, due, loaded, seen, replying, expired, faults, missed>>

FetchShows(q) ==
    /\ fetch[q].st = "read"
    /\ seen' = [seen EXCEPT ![q] = fetch[q].got]
    /\ loaded' = loaded \cup {q}
    /\ fetch' = [fetch EXCEPT ![q] = [st |-> "idle", got |-> 0]]
    /\ UNCHANGED <<version, about, unsent, stream, due, replying, expired, faults, missed>>

\* The request fails for good; the query keeps what it shows.
FetchFails(q) ==
    /\ faults < MaxFaults
    /\ fetch[q].st \in {"sent", "read"}
    /\ faults' = faults + 1
    /\ fetch' = [fetch EXCEPT ![q] = [st |-> "idle", got |-> 0]]
    /\ missed' = [missed EXCEPT ![q] = @ \cup 1 .. version]
    /\ UNCHANGED <<version, about, unsent, stream, due, loaded, seen, replying, expired>>

--------------------------------------------------------------------------------
(* Connections and tokens. *)

\* The connection breaks; EventSource opens it again with the same token.
Break ==
    /\ faults < MaxFaults
    /\ stream.st \in {"admitted", "subscribed"}
    /\ faults' = faults + 1
    /\ stream' = Connecting
    /\ Miss(Queued)
    /\ UNCHANGED <<version, about, unsent, due, loaded, seen, fetch, replying, expired>>

Expire ==
    /\ faults < MaxFaults /\ ~ expired
    /\ faults' = faults + 1
    /\ expired' = TRUE
    /\ UNCHANGED <<version, about, unsent, stream, due, loaded, seen, fetch, replying, missed>>

\* A request of the page is refused, the token refreshed and the request sent
\* again. The new token closes the stream, clears the timer and opens another.
Rotate ==
    /\ expired /\ \E q \in Views : fetch[q].st = "sent"
    /\ expired' = FALSE
    /\ stream' = Connecting
    /\ due' = {}
    /\ Miss(Queued \cup due)
    /\ UNCHANGED <<version, about, unsent, loaded, seen, fetch, replying, faults>>

--------------------------------------------------------------------------------
Next ==
    \/ \E c \in Cases : Commit(c)
    \/ \E n \in unsent : Publish(n)
    \/ Admit \/ Subscribe \/ Deliver \/ TimerFires \/ Replied \/ Break \/ Expire \/ Rotate
    \/ \E q \in Views : Open(q) \/ Poll(q) \/ FetchReads(q) \/ FetchShows(q) \/ FetchFails(q)

\* The server publishes what it commits and answers what it is asked, the page's
\* timers fire. Nobody has to commit, open a page, break or expire anything.
Fairness ==
    /\ WF_vars(\E n \in unsent : Publish(n))
    /\ WF_vars(Admit) /\ WF_vars(Subscribe) /\ WF_vars(Deliver)
    /\ WF_vars(TimerFires) /\ WF_vars(Replied) /\ WF_vars(Rotate)
    /\ \A q \in Views : WF_vars(Poll(q)) /\ WF_vars(FetchReads(q)) /\ WF_vars(FetchShows(q))

Spec == Init /\ [][Next]_vars /\ Fairness

--------------------------------------------------------------------------------
\* Every variable has its type.
TypeOK ==
    /\ version \in 0 .. MaxCommits
    /\ about \in Seq(Cases) /\ Len(about) = version
    /\ unsent \subseteq 1 .. version
    /\ stream \in [st : Streams, allowed : SUBSET Cases, queue : Seq(1 .. version)]
    /\ Len(stream.queue) <= QueueLimit
    /\ due \subseteq 1 .. version
    /\ loaded \subseteq Views
    /\ seen \in [Views -> 0 .. version]
    /\ fetch \in [Views -> [st : Stages, got : 0 .. version]]
    /\ replying \in BOOLEAN /\ expired \in BOOLEAN
    /\ faults \in 0 .. MaxFaults
    /\ missed \in [Views -> SUBSET (1 .. version)]

Shows(q, n) == q \in loaded /\ n <= seen[q]

\* Something under way will bring commit n to query q.
Coming(q, n) ==
    \/ n \in unsent \/ n \in Queued \/ n \in due
    \/ fetch[q].st = "sent"
    \/ fetch[q].st = "read" /\ n <= fetch[q].got

\* A query in view shows every commit or something under way will make it: a
\* message to be published, queued or waiting for the timer, or a request that
\* has still to read the database. The commits that may stay unseen are those
\* missed: published while no stream was subscribed or its queue was full, of a
\* case that did not exist when the stream was opened, lost with a connection or
\* a token, behind a first request that was joined, or a request that failed.
NothingForgotten ==
    \A q \in Views : fetch[q].st # "closed" =>
        \A n \in 1 .. version : Shows(q, n) \/ Coming(q, n) \/ n \in missed[q]

\* A query that is not polled shows every commit one day, or it was missed.
NewsArrives ==
    \A q \in Views \ Polled : \A n \in Commits :
        (fetch[q].st # "closed" /\ n <= version) ~> (Shows(q, n) \/ n \in missed[q])

\* A polled query shows every commit one day, whatever was missed.
PolledConverge ==
    \A q \in Polled : \A n \in Commits :
        (fetch[q].st # "closed" /\ n <= version) ~> Shows(q, n)

\* Whatever is invalidated, dropped, joined or retried, no reply takes a query
\* back: it shows the state of a later commit or goes on showing what it did.
NeverGoesBack == [][\A q \in Views : loaded \subseteq loaded' /\ seen'[q] >= seen[q]]_vars
================================================================================
