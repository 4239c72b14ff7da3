---------------------------- MODULE CallbacksProofs ----------------------------
(***************************************************************************)
(* Proofs about Callbacks, for any number of callbacks, concurrent         *)
(* transactions, consents and dial jobs that die, and either provider.     *)
(***************************************************************************)
EXTENDS Callbacks, FiniteSetTheorems, TLAPS

Live == {"RINGING", "ACTIVE", "TRANSFERRED"}

\* A call is created with the outcome of the dial: its callback is not to be
\* dialled and the job has nothing more to write about it.
CalledInv ==
    \A i \in Callbacks : db.call[i] # "none" =>
        /\ db.status[i] \notin {"none", "SCHEDULED"}
        /\ i \notin job.todo /\ i \notin job.cur
        /\ job.to[i] = "none"

\* The calls a transaction or the sweep found are still there, and a callback
\* found with a call is DIALING only if it was DIALING when it was read.
SeenInv ==
    /\ \A i \in job.swept : db.call[i] # "none"
    /\ \A p \in Clients, i \in Callbacks : tx[p].saw.call[i] # "none" =>
          /\ db.call[i] # "none"
          /\ db.status[i] = "DIALING" => tx[p].saw.status[i] = "DIALING"
    /\ \A p \in Clients : tx[p].op \in {"answer", "decline", "finish", "transfer"} =>
          \A i \in tx[p].at : tx[p].saw.call[i] # "none"

CallInv == TypeOK /\ CalledInv /\ SeenInv /\ DialingHasLiveCall

--------------------------------------------------------------------------------
\* What a transaction of a client may do to callbacks and calls.
ClientWrites ==
    /\ db' \in Database
    /\ \A i \in Callbacks :
          \/ db'.status[i] = db.status[i]
          \/ db.status[i] = "none" /\ db'.status[i] \in {"SCHEDULED", "SMS_ONLY", "BLOCKED_NO_CONSENT"}
          \/ db'.status[i] \in {"CANCELLED", "NO_ANSWER", "COMPLETED"}
    /\ \A i \in Callbacks : db'.call[i] = "none" <=> db.call[i] = "none"
    /\ DialingHasLiveCall'

LEMMA NoRowsType == NoRows \in Database
BY CallbacksAssumption DEF NoRows, Database

LEMMA NoTxType == NoTx \in Transaction
BY NoRowsType DEF NoTx, Transaction

LEMMA NoJobType == NoJob \in JobState
BY DEF NoJob, JobState

\* The initial state satisfies the invariant.
LEMMA InitCall == Init => CallInv
<1> SUFFICES ASSUME Init PROVE CallInv
    OBVIOUS
<1>1. db \in Database /\ rows \in 0 .. MaxRows
    BY NoRowsType, CallbacksAssumption DEF Init, Database
<1>2. \A i \in Callbacks : db.call[i] = "none" /\ db.status[i] = "none"
    BY DEF Init, NoRows
<1>3. TypeOK
    BY <1>1, NoTxType, NoJobType, CallbacksAssumption DEF Init, TypeOK, Line
<1>4. CalledInv /\ DialingHasLiveCall
    BY <1>2 DEF CalledInv, DialingHasLiveCall
<1>5. SeenInv
    BY DEF Init, SeenInv, NoJob, NoTx, NoRows
<1>6. QED
    BY <1>3, <1>4, <1>5 DEF CallInv

--------------------------------------------------------------------------------
(* What each commit writes. *)

LEMMA CancelWrites ==
    ASSUME CallInv, NEW p \in Clients, NEW d \in Database,
           d.status = db.status, d.call = db.call,
           db' = cancel_pending(d, tx[p].saw)
    PROVE  ClientWrites
<1> DEFINE saw == tx[p].saw
<1>1. saw \in Database /\ db \in Database
    BY DEF CallInv, TypeOK, Transaction
<1>2. /\ db' \in Database
      /\ \A i \in Callbacks :
            /\ db'.status[i] = IF i \in Open(saw) THEN "CANCELLED" ELSE db.status[i]
            /\ db'.call[i] = IF i \in Open(saw) \cap saw.linked /\ saw.call[i] = "RINGING"
                             THEN "ENDED" ELSE db.call[i]
    BY <1>1 DEF cancel_pending, Database, CallbackStatus, CallState
<1>3. \A i \in Callbacks : db'.call[i] = "none" <=> db.call[i] = "none"
    BY <1>2 DEF CallInv, SeenInv
<1>4. DialingHasLiveCall'
    BY <1>2 DEF CallInv, DialingHasLiveCall, Open
<1>5. QED
    BY <1>2, <1>3, <1>4 DEF ClientWrites

\* _finish writes the callback whenever the callback could still be DIALING.
LEMMA FinishWrites ==
    ASSUME CallInv, NEW p \in Clients, NEW i \in Callbacks,
           NEW d \in Database, d.status = db.status,
           \A j \in Callbacks : j # i => d.call[j] = db.call[j],
           d.call[i] # "none",
           NEW saw \in Database, saw.status = tx[p].saw.status,
           tx[p].saw.call[i] # "none",
           db' = finish(d, i, saw)
    PROVE  ClientWrites
<1>1. db \in Database /\ d.call[i] \in CallState
    BY DEF CallInv, TypeOK, Database
<1>2. /\ db' \in Database
      /\ db'.status[i] = IF saw.status[i] \in {"DIALING", "SCHEDULED"} THEN "COMPLETED" ELSE db.status[i]
      /\ db'.call[i] = IF saw.call[i] = "TRANSFERRED" THEN d.call[i] ELSE "ENDED"
      /\ \A j \in Callbacks : j # i => db'.status[j] = db.status[j] /\ db'.call[j] = db.call[j]
    BY <1>1 DEF finish, Database, CallbackStatus, CallState
<1>3. db.call[i] # "none" /\ db'.call[i] # "none"
    BY <1>2 DEF CallInv, SeenInv
<1>4. db'.status[i] # "DIALING"
    BY <1>2 DEF CallInv, SeenInv
<1>5. DialingHasLiveCall'
    BY <1>2, <1>4 DEF CallInv, DialingHasLiveCall
<1>6. QED
    BY <1>2, <1>3, <1>5 DEF ClientWrites

LEMMA CommitWrites ==
    ASSUME CallInv, NEW p \in Clients, Commit(p)
    PROVE  ClientWrites
<1> USE DEF CallInv
<1> DEFINE saw == tx[p].saw
<1>0. /\ db \in Database /\ saw \in Database /\ rows \in 0 .. MaxRows
      /\ tx[p].at \subseteq Callbacks
    BY DEF TypeOK, Transaction
<1>1. CASE Request(p)
    <2>1. CASE db' = db
        BY <1>0, <2>1 DEF ClientWrites, DialingHasLiveCall
    <2>2. CASE db' # db
        <3>1. PICK i \in Callbacks, s \in {"SMS_ONLY", "BLOCKED_NO_CONSENT", "SCHEDULED"} :
                  db.status[i] = "none" /\ db' = [db EXCEPT !.status[i] = s]
            BY <1>1, <2>2 DEF Request
        <3>2. /\ db' \in Database /\ db'.call = db.call /\ db'.status[i] = s
              /\ \A j \in Callbacks : j # i => db'.status[j] = db.status[j]
            BY <1>0, <3>1 DEF Database, CallbackStatus
        <3>3. QED
            BY <3>1, <3>2 DEF ClientWrites, DialingHasLiveCall
    <2>3. QED
        BY <2>1, <2>2
<1>2. CASE Capture(p)
    <2>1. /\ db' \in Database /\ db'.status = db.status /\ db'.call = db.call
        BY <1>0, <1>2, CallbacksAssumption DEF Capture, Database
    <2>2. QED
        BY <2>1 DEF ClientWrites, DialingHasLiveCall
<1>3. CASE Revoke(p)
    <2> DEFINE d == [db EXCEPT !.consents = @ \ Newest(saw.consents)]
    <2>1. d \in Database /\ d.status = db.status /\ d.call = db.call
        BY <1>0 DEF Database
    <2>2. db' = cancel_pending(d, saw)
        BY <1>3 DEF Revoke
    <2>3. QED
        BY <2>1, <2>2, CancelWrites
<1>4. CASE OptOut(p)
    <2> DEFINE d == [db EXCEPT !.opt_outs = @ \cup {rows + 1}]
    <2>1. rows + 1 \in 1 .. MaxRows
        BY <1>0, <1>4, CallbacksAssumption DEF OptOut
    <2>2. d \in Database /\ d.status = db.status /\ d.call = db.call
        BY <1>0, <2>1 DEF Database
    <2>3. db' = cancel_pending(d, saw)
        BY <1>4 DEF OptOut
    <2>4. QED
        BY <2>2, <2>3, CancelWrites
<1>5. CASE OptIn(p)
    <2>1. PICK new \in SUBSET {rows + 1} :
              /\ new # {} => rows < MaxRows
              /\ db' = [db EXCEPT !.opt_outs = @ \ saw.opt_outs,
                                  !.consents = (@ \ Newest(saw.consents)) \cup new]
        BY <1>5 DEF OptIn
    <2>2. new \subseteq 1 .. MaxRows
        BY <1>0, <2>1, CallbacksAssumption
    <2>3. db' \in Database /\ db'.status = db.status /\ db'.call = db.call
        BY <1>0, <2>1, <2>2 DEF Database
    <2>4. QED
        BY <2>3 DEF ClientWrites, DialingHasLiveCall
<1>6. CASE Answer(p)
    <2>1. PICK i \in Callbacks : /\ i \in tx[p].at /\ tx[p].op = "answer"
                                 /\ db' = [db EXCEPT !.call[i] = "ACTIVE"]
        BY <1>0, <1>6 DEF Answer
    <2>2. /\ db' \in Database /\ db'.status = db.status /\ db'.call[i] = "ACTIVE"
          /\ \A j \in Callbacks : j # i => db'.call[j] = db.call[j]
        BY <1>0, <2>1 DEF Database, CallState
    <2>3. db.call[i] # "none"
        BY <2>1 DEF SeenInv
    <2>4. QED
        BY <2>2, <2>3 DEF ClientWrites, DialingHasLiveCall
<1>7. CASE Decline(p)
    <2>1. PICK i \in Callbacks :
              /\ i \in tx[p].at /\ tx[p].op = "decline"
              /\ db' = [db EXCEPT !.call[i] = "ENDED",
                            !.status[i] = IF saw.status[i] = "DIALING" THEN "NO_ANSWER" ELSE @]
        BY <1>0, <1>7 DEF Decline
    <2>2. /\ db' \in Database /\ db'.call[i] = "ENDED"
          /\ db'.status[i] = IF saw.status[i] = "DIALING" THEN "NO_ANSWER" ELSE db.status[i]
          /\ \A j \in Callbacks : j # i => db'.call[j] = db.call[j] /\ db'.status[j] = db.status[j]
        BY <1>0, <2>1 DEF Database, CallState, CallbackStatus
    <2>3. db.call[i] # "none" /\ db'.status[i] # "DIALING"
        BY <2>1, <2>2 DEF SeenInv
    <2>4. QED
        BY <2>2, <2>3 DEF ClientWrites, DialingHasLiveCall
<1>8. CASE Finish(p)
    <2>1. PICK i \in Callbacks : /\ i \in tx[p].at /\ tx[p].op = "finish"
                                 /\ db' = finish(db, i, saw)
        BY <1>0, <1>8 DEF Finish
    <2>2. saw.call[i] # "none" /\ db.call[i] # "none"
        BY <2>1 DEF SeenInv
    <2>3. QED
        BY <1>0, <2>1, <2>2, FinishWrites
<1>9. CASE Transfer(p)
    <2>1. PICK i \in Callbacks :
              /\ i \in tx[p].at /\ tx[p].op = "transfer"
              /\ db' = IF provider = "ELEVENLABS" THEN [db EXCEPT !.call[i] = "TRANSFERRED"]
                       ELSE finish([db EXCEPT !.call[i] = "TRANSFERRED"], i,
                                   [saw EXCEPT !.call[i] = "TRANSFERRED"])
        BY <1>0, <1>9 DEF Transfer
    <2>2. saw.call[i] # "none" /\ db.call[i] # "none"
        BY <2>1 DEF SeenInv
    <2> DEFINE d == [db EXCEPT !.call[i] = "TRANSFERRED"]
               v == [saw EXCEPT !.call[i] = "TRANSFERRED"]
    <2>3. /\ d \in Database /\ d.status = db.status /\ d.call[i] = "TRANSFERRED"
          /\ \A j \in Callbacks : j # i => d.call[j] = db.call[j]
          /\ v \in Database /\ v.status = saw.status
        BY <1>0 DEF Database, CallState
    <2>4. CASE db' = d
        BY <2>2, <2>3, <2>4 DEF ClientWrites, DialingHasLiveCall
    <2>5. CASE db' = finish(d, i, v)
        <3> HIDE DEF d, v
        <3> QED
            BY <2>2, <2>3, <2>5, FinishWrites
    <2>6. QED
        BY <2>1, <2>4, <2>5
<1>10. CASE PostCall(p)
    <2>1. PICK i \in Callbacks, d \in {db, [db EXCEPT !.consents = @ \cup {rows + 1}]} :
              /\ d # db => rows < MaxRows
              /\ db' = IF saw.call[i] \in {"none", "ENDED", "FAILED"} THEN d ELSE finish(d, i, saw)
        BY <1>0, <1>10 DEF PostCall
    <2>2. d \in Database /\ d.status = db.status /\ d.call = db.call
        BY <1>0, <2>1, CallbacksAssumption DEF Database
    <2>3. CASE db' = d
        BY <2>2, <2>3 DEF ClientWrites, DialingHasLiveCall
    <2>4. CASE saw.call[i] # "none" /\ db' = finish(d, i, saw)
        <3>1. db.call[i] # "none"
            BY <2>4 DEF SeenInv
        <3>2. QED
            BY <1>0, <2>2, <2>4, <3>1, FinishWrites
    <2>5. QED
        BY <2>1, <2>3, <2>4
<1>11. QED
    BY <1>1, <1>2, <1>3, <1>4, <1>5, <1>6, <1>7, <1>8, <1>9, <1>10 DEF Commit

--------------------------------------------------------------------------------
(* Every step keeps the invariant. *)

\* A commit of a client leaves the counters and its own record well typed.
LEMMA CommitTypes ==
    ASSUME CallInv, NEW p \in Clients, Commit(p)
    PROVE  /\ rows' \in 0 .. MaxRows
           /\ line' \in [Callbacks -> Line]
           /\ escaped' \in Nat
           /\ tx' = [tx EXCEPT ![p] = NoTx]
           /\ UNCHANGED <<provider, job, dials, faults>>
<1>1. rows \in 0 .. MaxRows /\ line \in [Callbacks -> Line] /\ escaped \in Nat
    BY DEF CallInv, TypeOK
<1>2. rows' \in {rows, rows + 1} /\ (rows' # rows => rows < MaxRows)
    BY DEF Commit, Request, Capture, Revoke, OptOut, OptIn, Answer, Decline, Finish,
           Transfer, PostCall
<1>3. rows' \in 0 .. MaxRows
    BY <1>1, <1>2, CallbacksAssumption
<1>4. line' \in [Callbacks -> Line]
    <2>1. CASE PostCall(p)
        <3>1. PICK i \in tx[p].at : line' = [line EXCEPT ![i] = "idle"]
            BY <2>1 DEF PostCall
        <3>2. QED
            BY <1>1, <3>1 DEF Line
    <2>2. CASE ~PostCall(p)
        <3>1. line' = line
            BY <2>2 DEF Commit, Request, Capture, Revoke, OptOut, OptIn, Answer, Decline,
                   Finish, Transfer
        <3>2. QED
            BY <1>1, <3>1
    <2>3. QED
        BY <2>1, <2>2
<1>5. escaped' \in Nat
    <2>1. CASE OptOut(p)
        BY <1>1, <2>1 DEF OptOut
    <2>2. CASE ~OptOut(p)
        <3>1. escaped' = escaped
            BY <2>2 DEF Commit, Request, Capture, Revoke, OptIn, Answer, Decline, Finish,
                   Transfer, PostCall
        <3>2. QED
            BY <1>1, <3>1
    <2>3. QED
        BY <2>1, <2>2
<1>6. tx' = [tx EXCEPT ![p] = NoTx] /\ UNCHANGED <<provider, job, dials, faults>>
    BY DEF Commit, Request, Capture, Revoke, OptOut, OptIn, Answer, Decline, Finish,
           Transfer, PostCall, Done
<1>7. QED
    BY <1>3, <1>4, <1>5, <1>6

LEMMA CommitKeepsCall ==
    ASSUME CallInv, NEW p \in Clients, Commit(p)
    PROVE  CallInv'
<1>1. ClientWrites
    BY CommitWrites
<1>2. TypeOK'
    BY <1>1, CommitTypes, NoTxType DEF CallInv, TypeOK, ClientWrites
<1>3. CalledInv'
    BY <1>1, CommitTypes DEF CallInv, CalledInv, ClientWrites
<1>4. \A q \in Clients : tx'[q] = tx[q] \/ tx'[q] = NoTx
    BY CommitTypes DEF CallInv, TypeOK
<1>5. NoTx.op = "none" /\ \A i \in Callbacks : NoTx.saw.call[i] = "none"
    BY DEF NoTx, NoRows
<1>6. \A i \in Callbacks : db'.status[i] = "DIALING" => db.status[i] = "DIALING"
    BY <1>1 DEF ClientWrites
<1>7. job' = job /\ job.swept \subseteq Callbacks
    BY CommitTypes DEF CallInv, TypeOK, JobState
<1>8. SeenInv'
    BY <1>1, <1>4, <1>5, <1>6, <1>7 DEF CallInv, SeenInv, ClientWrites
<1>9. QED
    BY <1>1, <1>2, <1>3, <1>8 DEF CallInv, ClientWrites

LEMMA BeginKeepsCall ==
    ASSUME CallInv, NEW p \in Clients, NEW op \in Ops, NEW at \in SUBSET Callbacks,
           Begin(p, op, at)
    PROVE  CallInv'
<1> DEFINE t == [op |-> op, at |-> at, saw |-> Reads(op, at)]
<1>1. db \in Database
    BY DEF CallInv, TypeOK
<1>2. Reads(op, at) \in Database
    BY <1>1 DEF Reads, Database
<1>3. \A i \in Callbacks : Reads(op, at).call[i] # "none" =>
          db.call[i] = Reads(op, at).call[i] /\ db.status[i] = Reads(op, at).status[i]
    BY DEF Reads
<1>4. op \in {"answer", "decline", "finish", "transfer"} =>
          \A i \in at : Reads(op, at).call[i] # "none"
    BY DEF Begin, Accepts, Reads
<1>5. t \in Transaction
    BY <1>2 DEF Transaction
<1>6. tx' = [tx EXCEPT ![p] = t] /\ UNCHANGED <<provider, db, rows, job, line, dials, escaped, faults>>
    BY DEF Begin
<1>7. tx'[p] = t /\ \A q \in Clients : q # p => tx'[q] = tx[q]
    BY <1>6 DEF CallInv, TypeOK
<1>8. TypeOK'
    BY <1>5, <1>6 DEF CallInv, TypeOK
<1>9. CalledInv' /\ DialingHasLiveCall'
    BY <1>6 DEF CallInv, CalledInv, DialingHasLiveCall
<1>10. SeenInv'
    <2>1. ASSUME NEW q \in Clients, NEW i \in Callbacks, tx'[q].saw.call[i] # "none"
          PROVE  db.call[i] # "none" /\ (db.status[i] = "DIALING" => tx'[q].saw.status[i] = "DIALING")
        BY <1>3, <1>7, <2>1 DEF CallInv, SeenInv
    <2>2. ASSUME NEW q \in Clients, tx'[q].op \in {"answer", "decline", "finish", "transfer"},
                 NEW i \in tx'[q].at
          PROVE  tx'[q].saw.call[i] # "none"
        BY <1>4, <1>7, <2>2 DEF CallInv, SeenInv
    <2>3. QED
        BY <1>6, <2>1, <2>2 DEF CallInv, SeenInv
<1>11. QED
    BY <1>8, <1>9, <1>10 DEF CallInv

LEMMA RollbackKeepsCall ==
    ASSUME CallInv, NEW p \in Clients, Rollback(p)
    PROVE  CallInv'
<1>1. tx' = [tx EXCEPT ![p] = NoTx] /\ UNCHANGED <<provider, db, rows, job, line, dials, escaped, faults>>
    BY DEF Rollback
<1>2. \A q \in Clients : tx'[q] = tx[q] \/ tx'[q] = NoTx
    BY <1>1 DEF CallInv, TypeOK
<1>3. NoTx.op = "none" /\ \A i \in Callbacks : NoTx.saw.call[i] = "none"
    BY DEF NoTx, NoRows
<1>4. TypeOK'
    BY <1>1, NoTxType DEF CallInv, TypeOK
<1>5. CalledInv' /\ DialingHasLiveCall'
    BY <1>1 DEF CallInv, CalledInv, DialingHasLiveCall
<1>6. SeenInv'
    BY <1>1, <1>2, <1>3 DEF CallInv, SeenInv
<1>7. QED
    BY <1>4, <1>5, <1>6 DEF CallInv

--------------------------------------------------------------------------------
(* The dial job. *)

LEMMA SelectKeepsCall ==
    ASSUME CallInv, NEW S \in SUBSET Callbacks, JobSelect(S)
    PROVE  CallInv'
<1>1. /\ job' = [NoJob EXCEPT !.pc = "check", !.todo = S]
      /\ UNCHANGED <<provider, db, rows, tx, line, dials, escaped, faults>>
      /\ \A i \in S : db.status[i] = "SCHEDULED"
    BY DEF JobSelect, Scheduled
<1>2. /\ job' \in JobState /\ job'.todo = S /\ job'.cur = {} /\ job'.swept = {}
      /\ \A i \in Callbacks : job'.to[i] = "none"
    BY <1>1, NoJobType DEF JobState, NoJob
<1>3. QED
    BY <1>1, <1>2 DEF CallInv, TypeOK, CalledInv, SeenInv, DialingHasLiveCall

LEMMA CheckKeepsCall ==
    ASSUME CallInv, NEW i \in Callbacks, JobCheck(i)
    PROVE  CallInv'
<1>1. job \in JobState /\ i \in job.todo
    BY DEF CallInv, TypeOK, JobCheck
<1>2. db.call[i] = "none"
    BY <1>1 DEF CallInv, CalledInv
<1>3. /\ job' \in JobState
      /\ job'.todo \subseteq job.todo
      /\ job'.cur \subseteq job.cur \cup {i}
      /\ job'.swept = job.swept
      /\ \A j \in Callbacks : j # i => job'.to[j] = job.to[j]
    BY <1>1 DEF JobCheck, JobState
<1>4. UNCHANGED <<provider, db, rows, tx, line, dials, escaped, faults>>
    BY DEF JobCheck
<1>5. QED
    BY <1>2, <1>3, <1>4 DEF CallInv, TypeOK, CalledInv, SeenInv, DialingHasLiveCall

LEMMA DialKeepsCall ==
    ASSUME CallInv, NEW i \in Callbacks, JobDial(i) \/ JobDialFails(i)
    PROVE  CallInv'
<1>1. PICK s \in {"DIALING", "FAILED"} : Dialled(i, s)
    BY DEF JobDial, JobDialFails
<1>2. /\ job \in JobState /\ line \in [Callbacks -> Line]
      /\ dials \in [Callbacks -> Nat] /\ escaped \in Nat
    BY DEF CallInv, TypeOK
<1>3. line' \in [Callbacks -> Line]
    BY <1>2 DEF JobDial, JobDialFails, Line
<1>4. /\ i \in job.cur
      /\ job' = [job EXCEPT !.pc = "check", !.cur = {}, !.to[i] = s]
      /\ dials' \in [Callbacks -> Nat] /\ escaped' \in Nat
      /\ UNCHANGED <<provider, db, rows, tx, faults>>
    BY <1>1, <1>2 DEF Dialled
<1>5. /\ job' \in JobState /\ job'.todo = job.todo /\ job'.cur = {} /\ job'.swept = job.swept
      /\ \A j \in Callbacks : j # i => job'.to[j] = job.to[j]
    BY <1>2, <1>4 DEF JobState
<1>6. db.call[i] = "none"
    BY <1>4 DEF CallInv, CalledInv
<1>7. QED
    BY <1>3, <1>4, <1>5, <1>6 DEF CallInv, TypeOK, CalledInv, SeenInv, DialingHasLiveCall

LEMMA SweepKeepsCall ==
    ASSUME CallInv, NEW S \in SUBSET Callbacks, JobSweep(S)
    PROVE  CallInv'
<1>1. /\ job' = [job EXCEPT !.pc = "commit", !.swept = S]
      /\ UNCHANGED <<provider, db, rows, tx, line, dials, escaped, faults>>
      /\ \A i \in S : db.call[i] = "RINGING"
    BY DEF JobSweep, Rings
<1>2. /\ job' \in JobState /\ job'.todo = job.todo /\ job'.cur = job.cur /\ job'.to = job.to
      /\ job'.swept = S
    BY <1>1 DEF CallInv, TypeOK, JobState
<1>3. QED
    BY <1>1, <1>2 DEF CallInv, TypeOK, CalledInv, SeenInv, DialingHasLiveCall

\* What the job's commit makes of each callback.
LEMMA JobCommitWrites ==
    ASSUME CallInv, JobCommit
    PROVE  /\ db' \in Database
           /\ \A i \in Callbacks :
                 /\ db'.status[i] = IF i \in job.swept THEN "NO_ANSWER"
                                    ELSE IF job.to[i] # "none" THEN job.to[i] ELSE db.status[i]
                 /\ db'.call[i] = IF i \in job.swept THEN "ENDED" ELSE NewCall(job.to[i], db.call[i])
           /\ job' = NoJob
           /\ UNCHANGED <<provider, rows, tx, line, dials, escaped, faults>>
           /\ db'.opt_outs = db.opt_outs
<1>1. db \in Database /\ job \in JobState
    BY DEF CallInv, TypeOK
<1>2. \A i \in Callbacks : NewCall(job.to[i], db.call[i]) \in CallState \cup {"none"}
    BY <1>1 DEF NewCall, Database, CallState
<1>3. \A i \in Callbacks : job.to[i] # "none" => job.to[i] \in CallbackStatus
    BY <1>1 DEF JobState, CallbackStatus
<1>4. QED
    BY <1>1, <1>2, <1>3 DEF JobCommit, Committed, Database, CallbackStatus, CallState

LEMMA JobCommitKeepsCall ==
    ASSUME CallInv, JobCommit
    PROVE  CallInv'
<1>1. job \in JobState /\ db \in Database
    BY DEF CallInv, TypeOK
<1>2. \A i \in Callbacks :
          /\ job.to[i] = "DIALING" => NewCall(job.to[i], db.call[i]) \in Live
          /\ job.to[i] = "FAILED" => NewCall(job.to[i], db.call[i]) = "FAILED"
          /\ job.to[i] \notin {"DIALING", "FAILED"} => NewCall(job.to[i], db.call[i]) = db.call[i]
    BY DEF NewCall, Live
<1>3. TypeOK'
    BY JobCommitWrites, NoJobType DEF CallInv, TypeOK
<1>4. /\ job'.todo = {} /\ job'.cur = {} /\ job'.swept = {}
      /\ \A i \in Callbacks : job'.to[i] = "none"
    BY JobCommitWrites DEF NoJob
<1>5. \A i \in Callbacks : db.call[i] # "none" => db'.call[i] # "none"
    BY <1>1, <1>2, JobCommitWrites DEF CallInv, CalledInv
<1>6. CalledInv'
    <2> SUFFICES ASSUME NEW i \in Callbacks, db'.call[i] # "none"
                 PROVE  db'.status[i] \notin {"none", "SCHEDULED"}
        BY <1>4 DEF CalledInv
    <2>1. CASE i \in job.swept
        BY <2>1, JobCommitWrites
    <2>2. CASE i \notin job.swept /\ job.to[i] \in {"DIALING", "FAILED"}
        BY <2>2, JobCommitWrites
    <2>3. CASE i \notin job.swept /\ job.to[i] \notin {"DIALING", "FAILED"}
        BY <1>2, <2>3, JobCommitWrites DEF CallInv, CalledInv
    <2>4. QED
        BY <2>1, <2>2, <2>3
<1>7. DialingHasLiveCall'
    <2> SUFFICES ASSUME NEW i \in Callbacks, db'.status[i] = "DIALING"
                 PROVE  db'.call[i] \in Live
        BY DEF DialingHasLiveCall, Live
    <2>1. i \notin job.swept
        BY JobCommitWrites
    <2>2. CASE job.to[i] = "DIALING"
        BY <1>2, <2>1, <2>2, JobCommitWrites
    <2>3. CASE job.to[i] = "none"
        BY <1>2, <2>1, <2>3, JobCommitWrites DEF CallInv, DialingHasLiveCall, Live
    <2>4. QED
        BY <2>1, <2>2, <2>3, JobCommitWrites
<1>8. SeenInv'
    <2>1. ASSUME NEW p \in Clients, NEW i \in Callbacks, tx[p].saw.call[i] # "none"
          PROVE  /\ db'.call[i] # "none"
                 /\ db'.status[i] = "DIALING" => tx[p].saw.status[i] = "DIALING"
        <3>1. db.call[i] # "none" /\ job.to[i] = "none"
            BY <2>1 DEF CallInv, SeenInv, CalledInv
        <3>2. db'.status[i] = "DIALING" => db.status[i] = "DIALING"
            BY <3>1, JobCommitWrites
        <3>3. QED
            BY <1>5, <2>1, <3>1, <3>2 DEF CallInv, SeenInv
    <2>2. QED
        BY <1>4, <2>1, JobCommitWrites DEF CallInv, SeenInv
<1>9. QED
    BY <1>3, <1>6, <1>7, <1>8 DEF CallInv

LEMMA DeathKeepsCall ==
    ASSUME CallInv, JobDies
    PROVE  CallInv'
<1>1. /\ job' = NoJob /\ UNCHANGED <<provider, db, rows, tx, line, dials, escaped>>
      /\ faults' \in 0 .. MaxFaults
    BY CallbacksAssumption DEF JobDies, CallInv, TypeOK
<1>2. /\ job'.todo = {} /\ job'.cur = {} /\ job'.swept = {}
      /\ \A i \in Callbacks : job'.to[i] = "none"
    BY <1>1 DEF NoJob
<1>3. QED
    BY <1>1, <1>2, NoJobType DEF CallInv, TypeOK, CalledInv, SeenInv, DialingHasLiveCall

LEMMA PhoneKeepsCall ==
    ASSUME CallInv, NEW i \in Callbacks, Phone(i)
    PROVE  CallInv'
<1>1. line' \in [Callbacks -> Line]
    BY DEF Phone, CallInv, TypeOK, Line
<1>2. UNCHANGED <<provider, db, rows, tx, job, dials, escaped, faults>>
    BY DEF Phone
<1>3. QED
    BY <1>1, <1>2 DEF CallInv, TypeOK, CalledInv, SeenInv, DialingHasLiveCall

LEMMA NextKeepsCall == CallInv /\ [Next]_vars => CallInv'
<1> SUFFICES ASSUME CallInv, [Next]_vars PROVE CallInv'
    OBVIOUS
<1>1. CASE UNCHANGED vars
    BY <1>1 DEF vars, CallInv, TypeOK, CalledInv, SeenInv, DialingHasLiveCall
<1>2. CASE Next
    BY <1>2, BeginKeepsCall, CommitKeepsCall, RollbackKeepsCall, SelectKeepsCall,
       CheckKeepsCall, DialKeepsCall, SweepKeepsCall, JobCommitKeepsCall, DeathKeepsCall,
       PhoneKeepsCall, CallbacksAssumption DEF Next, JobStep
<1>3. QED
    BY <1>1, <1>2

LEMMA CallAlways == Spec => []CallInv
<1>1. QED
    BY InitCall, NextKeepsCall, PTL DEF Spec

\* Every state of the callback engine is well typed.
THEOREM CallbackTypes == Spec => []TypeOK
<1>1. CallInv => TypeOK
    BY DEF CallInv
<1>2. QED
    BY <1>1, CallAlways, PTL

\* However answering, declining, finishing, cancelling, the sweep and the dial
\* job interleave, a callback is never left DIALING with a call that is over.
THEOREM DialingIsLive == Spec => []DialingHasLiveCall
<1>1. CallInv => DialingHasLiveCall
    BY DEF CallInv
<1>2. QED
    BY <1>1, CallAlways, PTL

--------------------------------------------------------------------------------
(* Calls after an opt-out. *)

\* The opt-out is read before every dial: a dial that is under way is the only
\* one that can escape, and it has not been counted yet.
EscapeInv ==
    /\ escaped <= 1
    /\ db.opt_outs # {} /\ job.pc = "dial" => escaped = 0

\* Only opting out and in again change the opt-outs.
LEMMA CommitOptOuts ==
    ASSUME CallInv, NEW p \in Clients, Commit(p)
    PROVE  \/ escaped' = escaped /\ (db'.opt_outs = {} \/ db.opt_outs # {})
           \/ escaped' = 0
<1>1. db \in Database
    BY DEF CallInv, TypeOK
<1>2. CASE OptOut(p)
    BY <1>2 DEF OptOut
<1>3. CASE OptIn(p)
    BY <1>1, <1>3 DEF OptIn, Database
<1>4. CASE ~OptOut(p) /\ ~OptIn(p)
    <2>1. escaped' = escaped
        BY <1>4 DEF Commit, Request, Capture, Revoke, Answer, Decline, Finish, Transfer, PostCall
    <2>2. CASE Request(p) \/ Capture(p) \/ Answer(p) \/ Decline(p)
        BY <1>1, <2>1, <2>2 DEF Request, Capture, Answer, Decline, Database
    <2>3. CASE Revoke(p)
        BY <1>1, <2>1, <2>3 DEF Revoke, cancel_pending, Database
    <2>4. CASE Finish(p)
        BY <1>1, <2>1, <2>4 DEF Finish, finish, Database
    <2>5. CASE Transfer(p)
        BY <1>1, <2>1, <2>5 DEF Transfer, finish, Database
    <2>6. CASE PostCall(p)
        BY <1>1, <2>1, <2>6 DEF PostCall, finish, Database
    <2>7. QED
        BY <1>4, <2>2, <2>3, <2>4, <2>5, <2>6 DEF Commit
<1>5. QED
    BY <1>2, <1>3, <1>4

LEMMA NextKeepsEscape == CallInv /\ EscapeInv /\ [Next]_vars => EscapeInv'
<1> SUFFICES ASSUME CallInv, EscapeInv, [Next]_vars PROVE EscapeInv'
    OBVIOUS
<1>1. job \in JobState /\ escaped \in Nat /\ db \in Database
    BY DEF CallInv, TypeOK
<1>2. ASSUME NEW p \in Clients, Commit(p) PROVE EscapeInv'
    BY <1>2, CommitOptOuts, CommitTypes DEF EscapeInv
<1>3. ASSUME NEW i \in Callbacks, JobCheck(i) PROVE EscapeInv'
    <2>1. job'.pc = "dial" => db.opt_outs = {}
        BY <1>1, <1>3 DEF JobCheck, JobState
    <2>2. QED
        BY <1>3, <2>1 DEF JobCheck, EscapeInv
<1>4. ASSUME NEW i \in Callbacks, JobDial(i) \/ JobDialFails(i) PROVE EscapeInv'
    <2>1. PICK s \in {"DIALING", "FAILED"} : Dialled(i, s)
        BY <1>4 DEF JobDial, JobDialFails
    <2>2. job'.pc = "check"
        BY <1>1, <2>1 DEF Dialled, JobState
    <2>3. QED
        BY <1>1, <2>1, <2>2 DEF Dialled, EscapeInv
<1>5. ASSUME NEW S \in SUBSET Callbacks, JobSelect(S) \/ JobSweep(S) PROVE EscapeInv'
    BY <1>1, <1>5 DEF JobSelect, JobSweep, NoJob, JobState, EscapeInv
<1>6. CASE JobCommit \/ JobDies
    BY <1>6, JobCommitWrites DEF JobDies, NoJob, EscapeInv
<1>7. CASE \/ \E p \in Clients, op \in Requests, at \in SUBSET Callbacks : Begin(p, op, at)
           \/ \E p \in Clients : Rollback(p)
           \/ \E i \in Callbacks : Phone(i)
           \/ UNCHANGED vars
    BY <1>7 DEF Begin, Rollback, Phone, vars, EscapeInv
<1>8. QED
    BY <1>2, <1>3, <1>4, <1>5, <1>6, <1>7 DEF Next, JobStep

\* Whatever was scheduled, merged or selected before it, at most one call is
\* placed between a resident's opt-out and the next opt-in.
THEOREM OptOutStopsCalls == Spec => []NoSecondCall
<1>1. Init => EscapeInv
    BY DEF Init, EscapeInv
<1>2. EscapeInv => NoSecondCall
    BY DEF EscapeInv, NoSecondCall
<1>3. QED
    BY <1>1, <1>2, CallAlways, NextKeepsEscape, PTL DEF Spec

--------------------------------------------------------------------------------
(* How often a callback is dialled. *)

\* May be dialled (again): no job that lives has dialled it, and no job that
\* committed has.
Undialled(i) ==
    \/ i \in job.todo \cup job.cur
    \/ db.status[i] \in {"none", "SCHEDULED"} /\ job.to[i] \notin {"DIALING", "FAILED"}

DialInv ==
    /\ \A i \in job.todo \cup job.cur : job.to[i] = "none"
    /\ job.todo \cap job.cur = {}
    /\ \A i \in Callbacks : dials[i] <= 1 + faults
    /\ \A i \in Callbacks : Undialled(i) => dials[i] <= faults

LEMMA InitDial == Init => DialInv
BY CallbacksAssumption DEF Init, DialInv, NoJob

\* A client never schedules a callback that exists already.
LEMMA CommitKeepsDial ==
    ASSUME CallInv, DialInv, NEW p \in Clients, Commit(p)
    PROVE  DialInv'
<1>1. UNCHANGED <<job, dials, faults>>
    BY CommitTypes
<1>2. \A i \in Callbacks : db'.status[i] \in {"none", "SCHEDULED"} => db.status[i] \in {"none", "SCHEDULED"}
    BY CommitWrites DEF ClientWrites
<1>3. QED
    BY <1>1, <1>2 DEF DialInv, Undialled

LEMMA CheckKeepsDial ==
    ASSUME CallInv, DialInv, NEW i \in Callbacks, JobCheck(i)
    PROVE  DialInv'
<1>1. job \in JobState /\ i \in job.todo /\ UNCHANGED <<db, dials, faults>>
    BY DEF CallInv, TypeOK, JobCheck
<1>2. /\ job'.todo = job.todo \ {i}
      /\ job'.cur = job.cur \/ (job'.cur = {i} /\ job'.to = job.to)
      /\ \A j \in Callbacks : j # i => job'.to[j] = job.to[j]
    BY <1>1 DEF JobCheck, JobState
<1>3. dials[i] <= faults
    BY <1>1 DEF DialInv, Undialled
<1>4. job'.todo \subseteq Callbacks /\ job'.cur \subseteq Callbacks
    BY <1>1, <1>2 DEF JobState
<1>5. \A j \in job'.todo \cup job'.cur : job'.to[j] = "none"
    BY <1>1, <1>2, <1>4 DEF DialInv
<1>6. job'.todo \cap job'.cur = {}
    BY <1>1, <1>2 DEF DialInv
<1>7. ASSUME NEW j \in Callbacks, Undialled(j)' PROVE dials[j] <= faults
    BY <1>1, <1>2, <1>3, <1>7 DEF DialInv, Undialled
<1>8. QED
    BY <1>1, <1>5, <1>6, <1>7 DEF DialInv

LEMMA DialKeepsDial ==
    ASSUME CallInv, DialInv, NEW i \in Callbacks, JobDial(i) \/ JobDialFails(i)
    PROVE  DialInv'
<1>1. PICK s \in {"DIALING", "FAILED"} : Dialled(i, s)
    BY DEF JobDial, JobDialFails
<1>2. job \in JobState /\ dials \in [Callbacks -> Nat] /\ faults \in Nat
    BY CallbacksAssumption DEF CallInv, TypeOK
<1>3. /\ i \in job.cur /\ UNCHANGED <<db, faults>>
      /\ job'.todo = job.todo /\ job'.cur = {} /\ job'.to = [job.to EXCEPT ![i] = s]
      /\ dials' = [dials EXCEPT ![i] = @ + 1]
    BY <1>1, <1>2 DEF Dialled, JobState
<1>4. job'.to[i] = s /\ \A j \in Callbacks : j # i => job'.to[j] = job.to[j] /\ dials'[j] = dials[j]
    BY <1>2, <1>3 DEF JobState
<1>5. dials[i] <= faults /\ dials'[i] = dials[i] + 1 /\ i \notin job.todo
    BY <1>2, <1>3 DEF DialInv, Undialled
<1>6. \A j \in job'.todo \cup job'.cur : job'.to[j] = "none"
    BY <1>2, <1>3, <1>4, <1>5 DEF DialInv, JobState
<1>7. \A j \in Callbacks : dials'[j] <= 1 + faults
    BY <1>2, <1>4, <1>5 DEF DialInv
<1>8. ASSUME NEW j \in Callbacks, Undialled(j)' PROVE dials'[j] <= faults
    <2>1. j # i
        BY <1>3, <1>4, <1>5, <1>8 DEF Undialled
    <2>2. QED
        BY <1>3, <1>4, <1>8, <2>1 DEF DialInv, Undialled
<1>9. QED
    BY <1>3, <1>6, <1>7, <1>8 DEF DialInv

LEMMA JobCommitKeepsDial ==
    ASSUME CallInv, DialInv, JobCommit
    PROVE  DialInv'
<1>1. /\ UNCHANGED <<dials, faults>> /\ job'.todo = {} /\ job'.cur = {}
      /\ \A i \in Callbacks : job'.to[i] = "none"
    BY JobCommitWrites DEF NoJob
<1>2. job \in JobState
    BY DEF CallInv, TypeOK
<1>3. ASSUME NEW i \in Callbacks, db'.status[i] \in {"none", "SCHEDULED"}
      PROVE  db.status[i] = db'.status[i] /\ job.to[i] = "none"
    BY <1>2, <1>3, JobCommitWrites DEF JobState
<1>4. QED
    BY <1>1, <1>3 DEF DialInv, Undialled

LEMMA NextKeepsDial == CallInv /\ DialInv /\ [Next]_vars => DialInv'
<1> SUFFICES ASSUME CallInv, DialInv, [Next]_vars PROVE DialInv'
    OBVIOUS
<1>1. job \in JobState /\ dials \in [Callbacks -> Nat] /\ faults \in Nat
    BY CallbacksAssumption DEF CallInv, TypeOK
<1>2. ASSUME NEW S \in SUBSET Callbacks, JobSelect(S) PROVE DialInv'
    <2>1. /\ job'.todo = S /\ job'.cur = {} /\ UNCHANGED <<db, dials, faults>>
          /\ \A i \in Callbacks : job'.to[i] = "none" /\ job.to[i] = "none"
          /\ \A i \in S : db.status[i] = "SCHEDULED"
        BY <1>2 DEF JobSelect, NoJob, Scheduled
    <2>2. QED
        BY <2>1 DEF DialInv, Undialled
<1>3. ASSUME NEW S \in SUBSET Callbacks, JobSweep(S) PROVE DialInv'
    <2>1. /\ job'.todo = job.todo /\ job'.cur = job.cur /\ job'.to = job.to
          /\ UNCHANGED <<db, dials, faults>>
        BY <1>1, <1>3 DEF JobSweep, JobState
    <2>2. QED
        BY <2>1 DEF DialInv, Undialled
<1>4. CASE JobDies
    <2>1. /\ faults' = faults + 1 /\ dials' = dials /\ job'.todo = {} /\ job'.cur = {}
        BY <1>4 DEF JobDies, NoJob
    <2>2. QED
        BY <1>1, <2>1 DEF DialInv
<1>5. CASE \/ \E p \in Clients, op \in Requests, at \in SUBSET Callbacks : Begin(p, op, at)
           \/ \E p \in Clients : Rollback(p)
           \/ \E i \in Callbacks : Phone(i)
           \/ UNCHANGED vars
    <2>1. UNCHANGED <<db, job, dials, faults>>
        BY <1>5 DEF Begin, Rollback, Phone, vars
    <2>2. QED
        BY <2>1 DEF DialInv, Undialled
<1>6. QED
    BY <1>2, <1>3, <1>4, <1>5, CommitKeepsDial, CheckKeepsDial, DialKeepsDial,
       JobCommitKeepsDial DEF Next, JobStep

\* A callback is dialled once and, for every dial job that died before its
\* commit, at most once more, whatever cancels, requests and sweeps do to it.
THEOREM DialsAreBounded == Spec => []DialledOnce
<1>1. DialInv => DialledOnce
    BY DEF DialInv, DialledOnce
<1>2. QED
    BY <1>1, InitDial, CallAlways, NextKeepsDial, PTL DEF Spec

--------------------------------------------------------------------------------
(* Consents. Every GRANTED consent can be laid at the door of a client of    *)
(* its own: the one that recorded it, or the one that is about to replace it.*)

\* The commit of client p may record a consent.
Adds(p) ==
    \/ tx[p].op = "capture"
    \/ tx[p].op = "opt_in" /\ tx[p].saw.consents \ Newest(tx[p].saw.consents) = {}
    \/ tx[p].op = "post_call" /\ tx[p].saw.consents = {}

\* It withdraws consent c when it does.
Replaces(p, c) == tx[p].op = "opt_in" /\ c \in tx[p].saw.consents

Answers(owner) ==
    /\ owner \in [db.consents -> Clients]
    /\ \A c, d \in db.consents : owner[c] = owner[d] => c = d
    /\ \A c \in db.consents : Adds(owner[c]) => Replaces(owner[c], c)

OwnedInv == \E owner : Answers(owner)

\* Of a set of numbers in which the newest are all there are, there is at most one.
LEMMA NewestOnly ==
    ASSUME NEW S \in SUBSET Nat, S \ Newest(S) = {}, NEW x \in S, NEW y \in S
    PROVE  x = y
<1>1. x <= y /\ y <= x
    BY DEF Newest
<1>2. QED
    BY <1>1

\* A commit records one consent, in place of those it replaces, or none.
LEMMA CommitConsents ==
    ASSUME TypeOK, NEW p \in Clients, Commit(p)
    PROVE  /\ tx' = [tx EXCEPT ![p] = NoTx]
           /\ \/ db'.consents \subseteq db.consents
              \/ /\ Adds(p)
                 /\ db'.consents \subseteq {c \in db.consents : ~ Replaces(p, c)} \cup {rows + 1}
<1>1. db \in Database /\ tx[p] \in Transaction
    BY DEF TypeOK
<1>2. \A d \in Database : \A saw : cancel_pending(d, saw).consents = d.consents
    BY DEF cancel_pending, Database
<1>3. \A d \in Database : \A i, saw : finish(d, i, saw).consents = d.consents
    BY DEF finish, Database
<1> USE <1>1 DEF Done
<1>4. CASE Request(p)
    BY <1>4 DEF Request, Database
<1>5. CASE Capture(p)
    BY <1>5 DEF Capture, Adds, Replaces, Database
<1>6. CASE Revoke(p)
    <2>1. [db EXCEPT !.consents = @ \ Newest(tx[p].saw.consents)] \in Database
        BY DEF Database
    <2>2. QED
        BY <1>2, <1>6, <2>1 DEF Revoke, Database
<1>7. CASE OptOut(p)
    <2>1. rows + 1 \in 1 .. MaxRows
        BY <1>7, CallbacksAssumption DEF OptOut, TypeOK
    <2>2. [db EXCEPT !.opt_outs = @ \cup {rows + 1}] \in Database
        BY <2>1 DEF Database
    <2>3. QED
        BY <1>2, <1>7, <2>2 DEF OptOut, Database
<1>8. CASE OptIn(p)
    <2> DEFINE saw == tx[p].saw
    <2>1. CASE saw.consents \ Newest(saw.consents) = {}
        <3>1. db'.consents = (db.consents \ Newest(saw.consents)) \cup {rows + 1}
            BY <1>8, <2>1 DEF OptIn, Database
        <3>2. Newest(saw.consents) = saw.consents
            BY <2>1 DEF Newest
        <3>3. QED
            BY <1>8, <2>1, <3>1, <3>2 DEF OptIn, Adds, Replaces
    <2>2. CASE saw.consents \ Newest(saw.consents) # {}
        BY <1>8, <2>2 DEF OptIn, Database
    <2>3. QED
        BY <2>1, <2>2
<1>9. CASE Answer(p) \/ Decline(p)
    BY <1>9 DEF Answer, Decline, Database
<1>10. CASE Finish(p)
    BY <1>3, <1>10 DEF Finish
<1>11. CASE Transfer(p)
    <2>1. \A i \in Callbacks : [db EXCEPT !.call[i] = "TRANSFERRED"] \in Database
        BY DEF Database, CallState
    <2>2. tx[p].at \subseteq Callbacks
        BY DEF Transaction
    <2>3. QED
        BY <1>3, <1>11, <2>1, <2>2 DEF Transfer, Database
<1>12. ASSUME NEW i \in tx[p].at \ Written, NEW consented \in BOOLEAN,
              LET saw == tx[p].saw
                  fresh == consented /\ saw.call[i] # "none" /\ saw.consents = {}
                  d == IF fresh THEN [db EXCEPT !.consents = @ \cup {rows + 1}] ELSE db
              IN  /\ tx[p].op = "post_call"
                  /\ fresh => rows < MaxRows
                  /\ db' = IF saw.call[i] \in {"none", "ENDED", "FAILED"} THEN d
                           ELSE finish(d, i, saw)
       PROVE  \/ db'.consents \subseteq db.consents
              \/ Adds(p) /\ db'.consents \subseteq
                    {c \in db.consents : ~ Replaces(p, c)} \cup {rows + 1}
    <2> DEFINE saw == tx[p].saw
               fresh == consented /\ saw.call[i] # "none" /\ saw.consents = {}
               d == IF fresh THEN [db EXCEPT !.consents = @ \cup {rows + 1}] ELSE db
    <2>1. d \in Database
        BY <1>12, CallbacksAssumption DEF TypeOK, Database
    <2>2. db'.consents = d.consents
        BY <1>3, <1>12, <2>1
    <2>3. CASE fresh
        BY <1>12, <2>2, <2>3 DEF Adds, Replaces, Database
    <2>4. CASE ~ fresh
        BY <2>2, <2>4
    <2>5. QED
        BY <2>3, <2>4
<1>13. CASE PostCall(p)
    BY <1>12, <1>13 DEF PostCall
<1>14. QED
    BY <1>4, <1>5, <1>6, <1>7, <1>8, <1>9, <1>10, <1>11, <1>13 DEF Commit

\* Whoever commits a consent holds none but the one it replaces.
LEMMA CommitKeepsOwned ==
    ASSUME TypeOK, OwnedInv, NEW p \in Clients, Commit(p)
    PROVE  OwnedInv'
<1>1. PICK owner : Answers(owner)
    BY DEF OwnedInv
<1>2. tx \in [Clients -> Transaction] /\ tx' = [tx EXCEPT ![p] = NoTx]
    BY CommitConsents DEF TypeOK
<1>3. /\ ~ Adds(p)'
      /\ \A q \in Clients : q # p => /\ Adds(q)' <=> Adds(q)
                                     /\ \A c : Replaces(q, c)' <=> Replaces(q, c)
    BY <1>2 DEF Adds, Replaces, NoTx
<1>4. CASE db'.consents \subseteq db.consents
    <2>0. PICK f : f = [c \in db'.consents |-> owner[c]]
        OBVIOUS
    <2>1. f \in [db'.consents -> Clients] /\ \A c \in db'.consents : f[c] = owner[c]
        BY <1>1, <1>4, <2>0 DEF Answers
    <2>2. Answers(f)'
        BY <1>1, <1>3, <1>4, <2>1 DEF Answers
    <2>3. QED
        BY <2>2 DEF OwnedInv
<1>5. CASE /\ Adds(p)
           /\ db'.consents \subseteq {c \in db.consents : ~ Replaces(p, c)} \cup {rows + 1}
    <2>0. PICK f : f = [c \in db'.consents |-> IF c = rows + 1 THEN p ELSE owner[c]]
        OBVIOUS
    <2>1. \A c \in db'.consents : c # rows + 1 => c \in db.consents /\ owner[c] # p
        BY <1>1, <1>5 DEF Answers
    <2>2. /\ f \in [db'.consents -> Clients]
          /\ \A c \in db'.consents : f[c] = IF c = rows + 1 THEN p ELSE owner[c]
        BY <1>1, <2>0, <2>1 DEF Answers
    <2>3. \A c, d \in db'.consents : f[c] = f[d] => c = d
        BY <1>1, <2>1, <2>2 DEF Answers
    <2>4. \A c \in db'.consents : Adds(f[c])' => Replaces(f[c], c)'
        BY <1>1, <1>3, <2>1, <2>2 DEF Answers
    <2>5. Answers(f)'
        BY <2>2, <2>3, <2>4 DEF Answers
    <2>6. QED
        BY <2>5 DEF OwnedInv
<1>6. QED
    BY <1>4, <1>5, CommitConsents

\* Who goes on to record a consent found none, or the only one there is, which
\* is then laid at its door.
LEMMA BeginKeepsOwned ==
    ASSUME TypeOK, OwnedInv, NEW p \in Clients, NEW op \in Requests,
           NEW at \in SUBSET Callbacks, Begin(p, op, at)
    PROVE  OwnedInv'
<1>1. PICK owner : Answers(owner)
    BY DEF OwnedInv
<1>2. /\ tx \in [Clients -> Transaction] /\ db' = db /\ db.consents \subseteq Nat
      /\ tx' = [tx EXCEPT ![p] = [op |-> op, at |-> at, saw |-> Reads(op, at)]]
    BY CallbacksAssumption DEF Begin, TypeOK, Database
<1>3. \A q \in Clients : q # p => /\ Adds(q)' <=> Adds(q)
                                  /\ \A c : Replaces(q, c)' <=> Replaces(q, c)
    BY <1>2 DEF Adds, Replaces
<1>4. CASE ~ Adds(p)'
    <2>1. Answers(owner)'
        BY <1>1, <1>2, <1>3, <1>4 DEF Answers
    <2>2. QED
        BY <2>1 DEF OwnedInv
<1>5. CASE Adds(p)' /\ op # "opt_in"
    <2>1. db.consents = {}
        BY <1>2, <1>5 DEF Adds, Begin, Accepts, Reads
    <2>2. Answers(owner)'
        BY <1>1, <1>2, <2>1 DEF Answers
    <2>3. QED
        BY <2>2 DEF OwnedInv
<1>6. CASE Adds(p)' /\ op = "opt_in"
    <2>1. tx'[p].op = "opt_in" /\ tx'[p].saw.consents = db.consents
        BY <1>2, <1>6 DEF Reads
    <2>2. \A c, d \in db.consents : c = d
        BY <1>2, <1>6, <2>1, NewestOnly DEF Adds
    <2>0. PICK f : f = [c \in db.consents |-> p]
        OBVIOUS
    <2>3. f \in [db.consents -> Clients] /\ \A c \in db.consents : f[c] = p
        BY <2>0
    <2>4. \A c \in db.consents : Replaces(p, c)'
        BY <2>1 DEF Replaces
    <2>5. Answers(f)'
        BY <1>2, <2>2, <2>3, <2>4 DEF Answers
    <2>6. QED
        BY <2>5 DEF OwnedInv
<1>7. QED
    BY <1>4, <1>5, <1>6

\* Every step keeps each consent at the door of a client of its own.
LEMMA NextKeepsOwned == TypeOK /\ OwnedInv /\ [Next]_vars => OwnedInv'
<1> SUFFICES ASSUME TypeOK, OwnedInv, [Next]_vars PROVE OwnedInv'
    OBVIOUS
<1>1. PICK owner : Answers(owner)
    BY DEF OwnedInv
<1>2. CASE UNCHANGED <<db, tx>>
    <2>1. \A q : /\ Adds(q)' <=> Adds(q)
                 /\ \A c : Replaces(q, c)' <=> Replaces(q, c)
        BY <1>2 DEF Adds, Replaces
    <2>2. Answers(owner)'
        BY <1>1, <1>2, <2>1 DEF Answers
    <2>3. QED
        BY <2>2 DEF OwnedInv
<1>3. ASSUME NEW p \in Clients, Rollback(p) PROVE OwnedInv'
    <2>1. tx \in [Clients -> Transaction] /\ tx' = [tx EXCEPT ![p] = NoTx] /\ db' = db
        BY <1>3 DEF Rollback, TypeOK
    <2>2. /\ ~ Adds(p)'
          /\ \A q \in Clients : q # p => /\ Adds(q)' <=> Adds(q)
                                         /\ \A c : Replaces(q, c)' <=> Replaces(q, c)
        BY <2>1 DEF Adds, Replaces, NoTx
    <2>3. Answers(owner)'
        BY <1>1, <2>1, <2>2 DEF Answers
    <2>4. QED
        BY <2>3 DEF OwnedInv
<1>4. CASE JobCommit
    <2>1. db'.consents = db.consents /\ tx' = tx
        BY <1>4 DEF JobCommit, Committed, TypeOK, Database
    <2>2. \A q : /\ Adds(q)' <=> Adds(q)
                 /\ \A c : Replaces(q, c)' <=> Replaces(q, c)
        BY <2>1 DEF Adds, Replaces
    <2>3. Answers(owner)'
        BY <1>1, <2>1, <2>2 DEF Answers
    <2>4. QED
        BY <2>3 DEF OwnedInv
<1>5. CASE \/ \E S \in SUBSET Callbacks : JobSelect(S) \/ JobSweep(S)
           \/ \E i \in Callbacks : JobCheck(i) \/ JobDial(i) \/ JobDialFails(i) \/ Phone(i)
           \/ JobDies \/ UNCHANGED vars
    BY <1>2, <1>5 DEF JobSelect, JobSweep, JobCheck, JobDial, JobDialFails, Dialled,
       Phone, JobDies, vars
<1>6. QED
    BY <1>3, <1>4, <1>5, CommitKeepsOwned, BeginKeepsOwned DEF Next, JobStep

\* There are never more GRANTED consents than requests that can be open at once:
\* however captures, revocations, opt-ins and webhooks overlap, each consent was
\* left by, or is about to be replaced by, another client.
THEOREM ConsentsStayFew == Spec => []ConsentsBounded
<1>1. Init => TypeOK /\ OwnedInv
    <2> SUFFICES ASSUME Init PROVE OwnedInv
        BY InitCall DEF CallInv
    <2>1. PICK p \in Clients : TRUE
        BY ClientsAssumption
    <2>2. db.consents \subseteq {1} /\ \A q \in Clients : ~ Adds(q)
        BY DEF Init, NoRows, NoTx, Adds
    <2> DEFINE f == [c \in db.consents |-> p]
    <2>3. Answers(f)
        BY <2>2 DEF Answers
    <2>4. QED
        BY <2>3 DEF OwnedInv
<1>2. TypeOK /\ OwnedInv => ConsentsBounded
    <2> SUFFICES ASSUME TypeOK, NEW owner, Answers(owner) PROVE ConsentsBounded
        BY DEF OwnedInv
    <2>1. owner \in Injection(db.consents, Clients)
        BY DEF Answers, Injection, IsInjective
    <2>2. QED
        BY <2>1, FS_Injection, ClientsAssumption DEF ConsentsBounded
<1>3. QED
    BY <1>1, <1>2, CallAlways, NextKeepsOwned, PTL DEF Spec, CallInv
================================================================================
