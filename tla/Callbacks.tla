------------------------------- MODULE Callbacks -------------------------------
(***************************************************************************)
(* Callbacks to the resident of one case: consent and opt-out, scheduling, *)
(* the dial job, the calls it places and how they end.                     *)
(*                                                                         *)
(* A transaction of the API or of a consumer reads the database in one     *)
(* step and commits in another (READ COMMITTED, no version columns), so    *)
(* two of them, or one and the dial job, may decide from the same rows.    *)
(* The dial job takes more steps: it selects the due callbacks, checks and *)
(* dials each one, sweeps, and commits once at the end. Rows it has        *)
(* written stay locked until then.                                         *)
(*                                                                         *)
(* When scheduled_for or the ring timeout passes is left open: the job     *)
(* selects any of the scheduled callbacks and sweeps any of the ringing    *)
(* ones. So trigger_now, which only moves scheduled_for, is a request.     *)
(* Left out: the text of the updates (merging one into a scheduled         *)
(* callback changes nothing else here), notifications, transcripts.        *)
(***************************************************************************)
EXTENDS Naturals, FiniteSets

CONSTANTS
    Callbacks,  \* the callbacks that may be created
    Clients,    \* transactions of the API and of consumers that may be open
    Requests,   \* the operations that clients ask for
    Telephony,  \* the providers to consider: SIMULATED, ELEVENLABS
    MaxRows,    \* bound: consents and opt-outs
    MaxFaults   \* bound: dial jobs that die before they commit

Ops == {"request", "capture", "revoke", "opt_out", "opt_in",
        "answer", "decline", "finish", "transfer", "post_call"}

ASSUME ClientsAssumption == IsFiniteSet(Clients) /\ Clients # {}

ASSUME CallbacksAssumption ==
    /\ IsFiniteSet(Callbacks)
    /\ Requests \subseteq Ops
    /\ Telephony \subseteq {"SIMULATED", "ELEVENLABS"}
    /\ MaxRows \in Nat
    /\ MaxFaults \in Nat

VARIABLES
    provider,  \* infra.telephony
    db,        \* the committed rows
    rows,      \* consents and opt-outs recorded so far
    tx,        \* tx[p]: the open transaction of client p and what it read
    job,       \* the dial job's transaction
    line,      \* line[i]: the last phone call the provider made for callback i
    dials,     \* history: dials[i], calls of telephony.dial for callback i
    escaped,   \* history: dials since the resident opted out
    faults     \* dial jobs that died

vars == <<provider, db, rows, tx, job, line, dials, escaped, faults>>

CallbackStatus ==
    {"SCHEDULED", "DIALING", "COMPLETED", "NO_ANSWER", "FAILED", "CANCELLED",
     "BLOCKED_NO_CONSENT", "SMS_ONLY"}
CallState == {"RINGING", "ACTIVE", "ENDED", "TRANSFERRED", "FAILED"}
Line      == {"idle", "ringing", "talking", "over", "missed"}

\* status and call are "none" for a callback without a row, or without a call;
\* linked: the callbacks with a call_session_id; consents: the GRANTED callback
\* consents; opt_outs: the active ones.
Database ==
    [status : [Callbacks -> CallbackStatus \cup {"none"}],
     linked : SUBSET Callbacks,
     call : [Callbacks -> CallState \cup {"none"}],
     consents : SUBSET (1 .. MaxRows),
     opt_outs : SUBSET (1 .. MaxRows)]

NoRows ==
    [status |-> [i \in Callbacks |-> "none"], linked |-> {},
     call |-> [i \in Callbacks |-> "none"], consents |-> {}, opt_outs |-> {}]

NoTx == [op |-> "none", at |-> {}, saw |-> NoRows]

\* to[i]: the status the job has written for callback i but not committed.
NoJob == [pc |-> "idle", todo |-> {}, cur |-> {}, swept |-> {},
          to |-> [i \in Callbacks |-> "none"]]

Written == {i \in Callbacks : job.to[i] # "none"}

Open(d)      == {i \in Callbacks : d.status[i] \in {"SCHEDULED", "DIALING"}}
Scheduled(d) == {i \in Callbacks : d.status[i] = "SCHEDULED"}
Newest(S)    == {r \in S : \A s \in S : s <= r}

\* A case is opened with or without the consent to call.
Init ==
    /\ provider \in Telephony
    /\ \/ db = NoRows /\ rows = 0
       \/ MaxRows > 0 /\ db = [NoRows EXCEPT !.consents = {1}] /\ rows = 1
    /\ tx = [p \in Clients |-> NoTx]
    /\ job = NoJob
    /\ line = [i \in Callbacks |-> "idle"]
    /\ dials = [i \in Callbacks |-> 0]
    /\ escaped = 0
    /\ faults = 0

--------------------------------------------------------------------------------
(* Transactions of the API and of the consumers: what they read. *)

\* The conditions under which the handler goes on to write something. at: the
\* callback it is about (for a request, the scheduled one it will join).
Accepts(op, at) ==
    \/ /\ op = "request"
       /\ IF db.opt_outs = {} /\ db.consents # {} /\ Scheduled(db) # {}
          THEN \E i \in Scheduled(db) : at = {i}
          ELSE at = {}
    \/ op = "capture" /\ at = {} /\ db.consents = {}
    \/ op = "revoke"  /\ at = {} /\ db.consents # {}
    \/ op = "opt_out" /\ at = {} /\ db.opt_outs = {}
    \/ op = "opt_in"  /\ at = {}
    \/ \E i \in Callbacks :
          /\ at = {i}
          /\ \/ op \in {"answer", "decline"} /\ db.call[i] = "RINGING"
             \/ op = "finish"    /\ db.call[i] \in {"ACTIVE", "TRANSFERRED"}
             \/ op = "transfer"  /\ db.call[i] = "ACTIVE"
                                 /\ (provider = "SIMULATED" \/ line[i] = "talking")
             \/ op = "post_call" /\ line[i] = "over"

\* The rows whose contents the handler uses when it writes.
Reads(op, at) ==
    LET R == IF op \in {"revoke", "opt_out"} THEN Callbacks
             ELSE IF op = "request" THEN {} ELSE at
    IN  [status   |-> [i \in Callbacks |-> IF i \in R THEN db.status[i] ELSE "none"],
         linked   |-> db.linked \cap R,
         call     |-> [i \in Callbacks |-> IF i \in R THEN db.call[i] ELSE "none"],
         consents |-> IF op \in {"request", "revoke", "opt_in", "post_call"} THEN db.consents ELSE {},
         opt_outs |-> IF op \in {"request", "opt_in"} THEN db.opt_outs ELSE {}]

Begin(p, op, at) ==
    /\ tx[p] = NoTx
    /\ Accepts(op, at)
    /\ tx' = [tx EXCEPT ![p] = [op |-> op, at |-> at, saw |-> Reads(op, at)]]
    /\ UNCHANGED <<provider, db, rows, job, line, dials, escaped, faults>>

\* The request fails, or the process dies: nothing is written.
Rollback(p) ==
    /\ tx[p] # NoTx
    /\ tx' = [tx EXCEPT ![p] = NoTx]
    /\ UNCHANGED <<provider, db, rows, job, line, dials, escaped, faults>>

--------------------------------------------------------------------------------
(* What they write. *)

Done(p) == tx' = [tx EXCEPT ![p] = NoTx]

\* request: a new callback, or the update joins the scheduled one it found.
Request(p) ==
    LET saw == tx[p].saw
        create(s) == \E i \in Callbacks :
            db.status[i] = "none" /\ db' = [db EXCEPT !.status[i] = s]
    IN  /\ tx[p].op = "request"
        /\ IF saw.opt_outs # {} THEN create("SMS_ONLY")
           ELSE IF saw.consents = {} THEN create("BLOCKED_NO_CONSENT")
           ELSE IF tx[p].at = {} THEN create("SCHEDULED")
           ELSE tx[p].at \cap Written = {} /\ db' = db
        /\ Done(p)
        /\ UNCHANGED <<provider, rows, job, line, dials, escaped, faults>>

\* cancel_pending, from the callbacks and calls the transaction read.
cancel_pending(d, saw) ==
    [d EXCEPT
        !.status = [i \in Callbacks |-> IF i \in Open(saw) THEN "CANCELLED" ELSE d.status[i]],
        !.call = [i \in Callbacks |->
                     IF i \in Open(saw) \cap saw.linked /\ saw.call[i] = "RINGING"
                     THEN "ENDED" ELSE d.call[i]]]

Capture(p) ==
    /\ tx[p].op = "capture"
    /\ rows < MaxRows
    /\ rows' = rows + 1
    /\ db' = [db EXCEPT !.consents = @ \cup {rows + 1}]
    /\ Done(p)
    /\ UNCHANGED <<provider, job, line, dials, escaped, faults>>

Revoke(p) ==
    LET saw == tx[p].saw IN
    /\ tx[p].op = "revoke"
    /\ Open(saw) \cap Written = {}
    /\ db' = cancel_pending([db EXCEPT !.consents = @ \ Newest(saw.consents)], saw)
    /\ Done(p)
    /\ UNCHANGED <<provider, rows, job, line, dials, escaped, faults>>

OptOut(p) ==
    LET saw == tx[p].saw IN
    /\ tx[p].op = "opt_out"
    /\ rows < MaxRows
    /\ Open(saw) \cap Written = {}
    /\ rows' = rows + 1
    /\ db' = cancel_pending([db EXCEPT !.opt_outs = @ \cup {rows + 1}], saw)
    /\ escaped' = IF db.opt_outs = {} THEN 0 ELSE escaped
    /\ Done(p)
    /\ UNCHANGED <<provider, job, line, dials, faults>>

\* Mutant: a new consent is recorded beside the one there is.
OptInKeeping(p) ==
    /\ tx[p].op = "opt_in"
    /\ rows < MaxRows
    /\ rows' = rows + 1
    /\ db' = [db EXCEPT !.opt_outs = @ \ tx[p].saw.opt_outs, !.consents = @ \cup {rows + 1}]
    /\ Done(p)
    /\ UNCHANGED <<provider, job, line, dials, escaped, faults>>

\* Calls are turned on again: the newest consent is replaced by a fresh one,
\* unless capture finds yet another that is still GRANTED.
OptIn(p) ==
    LET saw == tx[p].saw
        fresh == saw.consents \ Newest(saw.consents) = {}
    IN
    /\ tx[p].op = "opt_in"
    /\ fresh => rows < MaxRows
    /\ rows' = IF fresh THEN rows + 1 ELSE rows
    /\ db' = [db EXCEPT !.opt_outs = @ \ saw.opt_outs,
                        !.consents = (@ \ Newest(saw.consents)) \cup
                                     (IF fresh THEN {rows + 1} ELSE {})]
    /\ Done(p)
    /\ UNCHANGED <<provider, job, line, dials, escaped, faults>>

\* CallService.answer, and end of a call that still rings.
Answer(p) ==
    \E i \in tx[p].at \ Written :
        /\ tx[p].op = "answer"
        /\ db' = [db EXCEPT !.call[i] = "ACTIVE"]
        /\ Done(p)
        /\ UNCHANGED <<provider, rows, job, line, dials, escaped, faults>>

\* Mutant: declining ends the call and forgets the callback.
DeclineCallOnly(p) ==
    \E i \in tx[p].at \ Written :
        /\ tx[p].op = "decline"
        /\ db' = [db EXCEPT !.call[i] = "ENDED"]
        /\ Done(p)
        /\ UNCHANGED <<provider, rows, job, line, dials, escaped, faults>>

Decline(p) ==
    \E i \in tx[p].at \ Written :
        /\ tx[p].op = "decline"
        /\ db' = [db EXCEPT !.call[i] = "ENDED",
                            !.status[i] = IF tx[p].saw.status[i] = "DIALING" THEN "NO_ANSWER" ELSE @]
        /\ Done(p)
        /\ UNCHANGED <<provider, rows, job, line, dials, escaped, faults>>

\* _finish, and complete if the callback was open.
finish(d, i, saw) ==
    LET open == saw.status[i] \in {"DIALING", "SCHEDULED"} IN
    [d EXCEPT !.call[i] = IF saw.call[i] = "TRANSFERRED" THEN @ ELSE "ENDED",
              !.status[i] = IF open THEN "COMPLETED" ELSE @,
              !.linked = IF open THEN @ \cup {i} ELSE @]

Finish(p) ==
    \E i \in tx[p].at \ Written :
        /\ tx[p].op = "finish"
        /\ db' = finish(db, i, tx[p].saw)
        /\ Done(p)
        /\ UNCHANGED <<provider, rows, job, line, dials, escaped, faults>>

\* A warm transfer; in the app the turn that transfers also ends the call.
Transfer(p) ==
    \E i \in tx[p].at \ Written :
        /\ tx[p].op = "transfer"
        /\ LET d == [db EXCEPT !.call[i] = "TRANSFERRED"] IN
           db' = IF provider = "ELEVENLABS" THEN d
                 ELSE finish(d, i, [tx[p].saw EXCEPT !.call[i] = "TRANSFERRED"])
        /\ Done(p)
        /\ UNCHANGED <<provider, rows, job, line, dials, escaped, faults>>

\* process_post_call. A call whose row is not there (yet) cannot be matched and
\* the webhook is spent. The conversation may contain the consent to call.
PostCall(p) ==
    \E i \in tx[p].at \ Written, consented \in BOOLEAN :
        LET saw == tx[p].saw
            fresh == consented /\ saw.call[i] # "none" /\ saw.consents = {}
            d == IF fresh THEN [db EXCEPT !.consents = @ \cup {rows + 1}] ELSE db
        IN  /\ tx[p].op = "post_call"
            /\ fresh => rows < MaxRows
            /\ rows' = IF fresh THEN rows + 1 ELSE rows
            /\ db' = IF saw.call[i] \in {"none", "ENDED", "FAILED"} THEN d ELSE finish(d, i, saw)
            /\ line' = [line EXCEPT ![i] = "idle"]
            /\ Done(p)
            /\ UNCHANGED <<provider, job, dials, escaped, faults>>

--------------------------------------------------------------------------------
(* The dial job: dial_due and sweep_unanswered in one transaction. *)

\* due: scheduled callbacks whose time has come.
JobSelect(due) ==
    /\ job = NoJob
    /\ due \subseteq Scheduled(db)
    /\ job' = [NoJob EXCEPT !.pc = "check", !.todo = due]
    /\ UNCHANGED <<provider, db, rows, tx, line, dials, escaped, faults>>

\* Mutant: the opt-out is checked only when the callback is scheduled.
JobCheckConsentOnly(i) ==
    /\ job.pc = "check"
    /\ i \in job.todo
    /\ job' = IF db.consents = {} THEN
                  [job EXCEPT !.todo = @ \ {i}, !.to[i] = "BLOCKED_NO_CONSENT"]
              ELSE [job EXCEPT !.pc = "dial", !.todo = @ \ {i}, !.cur = {i}]
    /\ UNCHANGED <<provider, db, rows, tx, line, dials, escaped, faults>>

\* Opt-out and consent are read again for every callback.
JobCheck(i) ==
    /\ job.pc = "check"
    /\ i \in job.todo
    /\ job' = IF db.opt_outs # {} THEN
                  [job EXCEPT !.todo = @ \ {i}, !.to[i] = "SMS_ONLY"]
              ELSE IF db.consents = {} THEN
                  [job EXCEPT !.todo = @ \ {i}, !.to[i] = "BLOCKED_NO_CONSENT"]
              ELSE [job EXCEPT !.pc = "dial", !.todo = @ \ {i}, !.cur = {i}]
    /\ UNCHANGED <<provider, db, rows, tx, line, dials, escaped, faults>>

\* telephony.dial is called for i and ends with status s for the callback.
Dialled(i, s) ==
    /\ job.pc = "dial"
    /\ i \in job.cur
    /\ job' = [job EXCEPT !.pc = "check", !.cur = {}, !.to[i] = s]
    /\ dials' = [dials EXCEPT ![i] = @ + 1]
    /\ escaped' = IF db.opt_outs # {} THEN escaped + 1 ELSE escaped
    /\ UNCHANGED <<provider, db, rows, tx, faults>>

\* Mutant: the callback gets the state of the call.
JobDialRinging(i) ==
    /\ Dialled(i, "RINGING")
    /\ line' = IF provider = "ELEVENLABS" THEN [line EXCEPT ![i] = "ringing"] ELSE line

JobDial(i) ==
    /\ Dialled(i, "DIALING")
    /\ line' = IF provider = "ELEVENLABS" THEN [line EXCEPT ![i] = "ringing"] ELSE line

\* TelephonyError. The provider may have placed the call all the same (the
\* request timed out). The simulated provider never fails.
JobDialFails(i) ==
    /\ provider = "ELEVENLABS"
    /\ Dialled(i, "FAILED")
    /\ \/ line' = line
       \/ line' = [line EXCEPT ![i] = "ringing"]

\* Mutant: calls that ring are passed over.
JobSweepNothing(old) ==
    /\ old = {}
    /\ job.pc = "check"
    /\ job.todo = {}
    /\ job' = [job EXCEPT !.pc = "commit"]
    /\ UNCHANGED <<provider, db, rows, tx, line, dials, escaped, faults>>

\* sweep_unanswered: callbacks past the ring timeout whose call still rings (old).
\* The ones this job dialled are not past it.
Rings(i) == db.status[i] = "DIALING" /\ db.call[i] = "RINGING"

JobSweep(old) ==
    /\ job.pc = "check"
    /\ job.todo = {}
    /\ old \subseteq {i \in Callbacks \ Written : Rings(i)}
    /\ job' = [job EXCEPT !.pc = "commit", !.swept = old]
    /\ UNCHANGED <<provider, db, rows, tx, line, dials, escaped, faults>>

NewCall(s, old) ==
    CASE s = "DIALING" -> IF provider = "SIMULATED" THEN "RINGING" ELSE "ACTIVE"
      [] s = "FAILED"  -> "FAILED"
      [] OTHER         -> old

\* The rows with statuses to[i] written, and the swept callbacks closed.
Committed(to, swept) ==
    [db EXCEPT
        !.status = [i \in Callbacks |-> IF i \in swept THEN "NO_ANSWER"
                                        ELSE IF to[i] # "none" THEN to[i] ELSE db.status[i]],
        !.linked = @ \cup {i \in Callbacks : to[i] = "DIALING"},
        !.call   = [i \in Callbacks |-> IF i \in swept THEN "ENDED" ELSE NewCall(to[i], db.call[i])]]

\* Mutant: a failed dial is left SCHEDULED, to be tried again.
JobCommitRetrying ==
    /\ job.pc = "commit"
    /\ db' = Committed([i \in Callbacks |-> IF job.to[i] = "FAILED" THEN "none" ELSE job.to[i]], job.swept)
    /\ job' = NoJob
    /\ UNCHANGED <<provider, rows, tx, line, dials, escaped, faults>>

\* Mutant: a callback that may not be dialled is skipped and keeps its status.
JobCommitSkipping ==
    /\ job.pc = "commit"
    /\ db' = Committed([i \in Callbacks |-> IF job.to[i] = "SMS_ONLY" THEN "none" ELSE job.to[i]], job.swept)
    /\ job' = NoJob
    /\ UNCHANGED <<provider, rows, tx, line, dials, escaped, faults>>

JobCommit ==
    /\ job.pc = "commit"
    /\ db' = Committed(job.to, job.swept)
    /\ job' = NoJob
    /\ UNCHANGED <<provider, rows, tx, line, dials, escaped, faults>>

\* An error or the death of the process undoes the whole transaction; calls that
\* were placed stay placed.
JobDies ==
    /\ job # NoJob
    /\ faults < MaxFaults
    /\ faults' = faults + 1
    /\ job' = NoJob
    /\ UNCHANGED <<provider, db, rows, tx, line, dials, escaped>>

--------------------------------------------------------------------------------
(* The phone calls of the provider. *)

\* The resident takes the call or not; after a conversation comes a webhook.
Phone(i) ==
    /\ \/ line[i] = "ringing" /\ line' = [line EXCEPT ![i] = "talking"]
       \/ line[i] = "ringing" /\ line' = [line EXCEPT ![i] = "missed"]
       \/ line[i] = "talking" /\ line' = [line EXCEPT ![i] = "over"]
    /\ UNCHANGED <<provider, db, rows, tx, job, dials, escaped, faults>>

--------------------------------------------------------------------------------

Commit(p) ==
    \/ Request(p) \/ Capture(p) \/ Revoke(p) \/ OptOut(p) \/ OptIn(p)
    \/ Answer(p) \/ Decline(p) \/ Finish(p) \/ Transfer(p) \/ PostCall(p)

JobStep ==
    \/ \E S \in SUBSET Callbacks : JobSelect(S) \/ JobSweep(S)
    \/ JobCommit
    \/ \E i \in Callbacks : JobCheck(i) \/ JobDial(i) \/ JobDialFails(i)

Next ==
    \/ \E p \in Clients :
          \/ \E op \in Requests, at \in SUBSET Callbacks : Begin(p, op, at)
          \/ Commit(p)
          \/ Rollback(p)
    \/ JobStep
    \/ JobDies
    \/ \E i \in Callbacks : Phone(i)

Spec == Init /\ [][Next]_vars

\* The job selects, and sweeps, callback i.
Selects(i) == \E S \in SUBSET Callbacks : i \in S /\ JobSelect(S)
Sweeps(i)  == \E S \in SUBSET Callbacks : i \in S /\ JobSweep(S)

(***************************************************************************)
(* Fairness. The dial job runs every second for as long as the process     *)
(* runs (runner.py), and time passes: a callback that stays scheduled is   *)
(* due at some run of the job, one that keeps ringing is past the timeout. *)
(* Residents, phones and clients owe nothing.                              *)
(***************************************************************************)
FairSpec ==
    /\ Spec
    /\ WF_vars(JobStep)
    /\ \A i \in Callbacks : SF_vars(Selects(i)) /\ SF_vars(Sweeps(i))

--------------------------------------------------------------------------------
Transaction ==
    [op : Ops \cup {"none"}, at : SUBSET Callbacks, saw : Database]

JobState ==
    [pc : {"idle", "check", "dial", "commit"}, todo : SUBSET Callbacks,
     cur : SUBSET Callbacks, swept : SUBSET Callbacks,
     to : [Callbacks -> {"none", "DIALING", "FAILED", "SMS_ONLY", "BLOCKED_NO_CONSENT"}]]

TypeOK ==
    /\ provider \in Telephony
    /\ db \in Database
    /\ rows \in 0 .. MaxRows
    /\ tx \in [Clients -> Transaction]
    /\ job \in JobState
    /\ line \in [Callbacks -> Line]
    /\ dials \in [Callbacks -> Nat]
    /\ escaped \in Nat
    /\ faults \in 0 .. MaxFaults

\* "Never call after opt-out": whatever was scheduled, merged or selected before,
\* at most the one call that dial_due is placing at that moment still goes out.
NoSecondCall == escaped <= 1

\* A callback is dialled once, and once more only for every dial job that died
\* between dialling and its commit.
DialledOnce == \A i \in Callbacks : dials[i] <= 1 + faults

\* A callback that is DIALING has a call that can still end: sweep_unanswered,
\* end and the post-call webhook look at nothing else to close it.
DialingHasLiveCall ==
    \A i \in Callbacks : db.status[i] = "DIALING" =>
        db.call[i] \in {"RINGING", "ACTIVE", "TRANSFERRED"}

\* Consents pile up only while requests overlap: there are never more of them
\* GRANTED than requests can be open at once, so that with one request at a time
\* the revocation, which withdraws the newest, withdraws the consent to call.
ConsentsBounded == Cardinality(db.consents) <= Cardinality(Clients)

\* Every scheduled callback is dialled, sent by SMS, blocked, failed or cancelled.
ScheduledIsDecided ==
    \A i \in Callbacks : db.status[i] = "SCHEDULED" ~> db.status[i] # "SCHEDULED"

\* A callback does not ring for ever in the app: it is answered, declined,
\* cancelled, or swept after the ring timeout.
UnansweredIsSwept == \A i \in Callbacks : Rings(i) ~> ~Rings(i)

\* Opting out "cancels every scheduled or ringing callback": no callback is
\* DIALING while the resident is opted out.
NoRingingAfterOptOut ==
    db.opt_outs # {} => \A i \in Callbacks : db.status[i] # "DIALING"
================================================================================
