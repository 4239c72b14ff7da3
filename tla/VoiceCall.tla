------------------------------- MODULE VoiceCall -------------------------------
(***************************************************************************)
(* One visit of a resident to the voice page, the calls it starts or       *)
(* answers, the server that holds them and the ElevenLabs sessions the     *)
(* browser opens.                                                          *)
(*                                                                         *)
(* A request is a record that travels: sent, handled by the server, its    *)
(* reply on the way, the rest of the page's function still to run. The     *)
(* page changes between any two of these, which is what an await allows.   *)
(* Requests that are alike in every respect count once.                    *)
(*                                                                         *)
(* Left out: what is said, languages, mute, elapsed time, toasts, the      *)
(* browser's own recognition (its text goes straight to Speak) and the     *)
(* choice of a voice. A visit ends by leaving the page or by signing out;  *)
(* coming back is a new page that shares only the server. Closing the tab  *)
(* is signing out with no function of the page left to run.                *)
(***************************************************************************)
EXTENDS Naturals, FiniteSets

CONSTANTS
    MaxCalls,   \* bound: calls the server creates
    MaxFaults,  \* bound: requests and replies that are lost or refused
    MaxFlight   \* bound: requests under way when the resident makes another

ASSUME VoiceCallAssumption ==
    /\ MaxCalls \in Nat
    /\ MaxFaults \in Nat
    /\ MaxFlight \in Nat

VARIABLES
    server,    \* server[c]: the call's state in the database
    agents,    \* the calls whose provider is ElevenLabs
    rang,      \* the calls that rang, which a banner may still show
    talk,      \* talk[c]: the ElevenLabs session of the call
    page,      \* the page: what useVoiceCall and Voice keep
    requests,  \* requests of the page that are not over
    faults,    \* requests and replies lost so far
    excused,   \* history: the calls the page has lost track of
    astray     \* history: something was applied to a call it was not for

vars == <<server, agents, rang, talk, page, requests, faults, excused, astray>>

Calls      == 1 .. MaxCalls
NoCall     == 0
CallState  == {"none", "RINGING", "ACTIVE", "ENDED", "TRANSFERRED"}
Over       == {"ENDED", "TRANSFERRED"}
AgentState == {"idle", "connecting", "listening", "thinking", "speaking", "ended"}
Session    == {"none", "opening", "open", "closing", "closed"}
Places     == {"here", "away", "signed_out"}

Operations == {"start", "answer", "turn", "language", "stt", "end", "bye"}
Stages     == {"recording", "sent", "running", "ok", "over", "moved", "tail", "failed"}
Request    == [op : Operations, id : Calls \cup {NoCall}, st : Stages]

Page == [where : Places, state : AgentState, call : Calls \cup {NoCall},
         shows : {"none", "ACTIVE"} \cup Over, live : Calls \cup {NoCall}, answered : BOOLEAN]

Init ==
    /\ server = [c \in Calls |-> "none"]
    /\ agents = {} /\ rang = {}
    /\ talk = [c \in Calls |-> "none"]
    /\ page = [where |-> "here", state |-> "idle", call |-> NoCall, shows |-> "none",
               live |-> NoCall, answered |-> FALSE]
    /\ requests = {}
    /\ faults = 0
    /\ excused = {}
    /\ astray = FALSE

--------------------------------------------------------------------------------
(* What the page derives from its state. *)

callEnded(p) == p.shows \in Over
phase(p) == IF p.state = "idle" THEN "idle"
            ELSE IF p.state = "ended" \/ callEnded(p) THEN "ended" ELSE "live"
busy(p) == p.state \in {"thinking", "connecting"}
active(p) == p.shows = "ACTIVE"
canTalk(p) == phase(p) = "live" /\ active(p) /\ ~ busy(p)

Here == page.where = "here"

\* What an unmounted page sets is lost.
setPage(p) == page' = IF Here THEN p ELSE page
setState(s) == setPage([page EXCEPT !.state = s])

\* A request without a token is refused.
Free == Cardinality(requests) < MaxFlight
New(op, id) == [op |-> op, id |-> id, st |-> IF page.where = "signed_out" THEN "failed" ELSE "sent"]
To(r, st) == requests' = (requests \ {r}) \cup {[r EXCEPT !.st = st]}
Gone(r) == requests' = requests \ {r}

Excuse(condition, c) == excused' = IF condition THEN excused \cup {c} ELSE excused
\* History: what was meant for call c reaches a page that shows another, or none.
Mark(c) == astray' = (astray \/ (Here /\ page.call # c))

Unused(c) == server[c] = "none" /\ \A d \in Calls : d < c => server[d] # "none"

--------------------------------------------------------------------------------
(* What the resident presses. *)

Start ==
    /\ Here /\ page.state = "idle"
    /\ requests' = requests \cup {New("start", NoCall)}
    /\ setState("connecting")
    /\ UNCHANGED <<server, agents, rang, talk, faults, excused, astray>>

\* From the page's own banner when idle, or from the shell's banner, which
\* shows what it last fetched and is followed once per visit.
Answer(c) ==
    /\ Free /\ Here /\ c \in rang
    /\ requests' = requests \cup {New("answer", c)}
    /\ \/ page.state = "idle" /\ setState("connecting")
       \/ ~ page.answered /\ setPage([page EXCEPT !.state = "connecting", !.answered = TRUE])
    /\ UNCHANGED <<server, agents, rang, talk, faults, excused, astray>>

Decline(c) ==
    /\ Free /\ Here /\ c \in rang /\ page.state = "idle"
    /\ requests' = requests \cup {New("bye", c)}
    /\ UNCHANGED <<server, agents, rang, talk, page, faults, excused, astray>>

\* send without a session, and the three requests that are turns.
Speak ==
    /\ Free /\ Here /\ canTalk(page) /\ page.live = NoCall
    /\ requests' = requests \cup {New("turn", page.call)}
    /\ setState("thinking")
    /\ UNCHANGED <<server, agents, rang, talk, faults, excused, astray>>

ChangeLanguage ==
    /\ Free /\ Here /\ active(page)
    /\ requests' = requests \cup {New("language", page.call)}
    /\ UNCHANGED <<server, agents, rang, talk, page, faults, excused, astray>>

Listen ==
    /\ Free /\ Here /\ canTalk(page) /\ page.call \notin agents
    /\ requests' = requests \cup {[op |-> "stt", id |-> page.call, st |-> "recording"]}
    /\ setState("listening")
    /\ UNCHANGED <<server, agents, rang, talk, faults, excused, astray>>

\* The session, if there is one, is closed first; the call only if the page
\* shows it ACTIVE. The rest of end runs when the reply is there.
End ==
    /\ Here /\ phase(page) = "live"
    /\ ~ (page.state = "connecting" /\ page.call = NoCall)
    /\ requests' = requests \cup
            {IF active(page) THEN New("end", page.call)
             ELSE [op |-> "end", id |-> page.call, st |-> "ok"]}
    /\ talk' = [c \in Calls |-> IF c = page.live /\ talk[c] = "open" THEN "closing" ELSE talk[c]]
    /\ setPage([page EXCEPT !.live = NoCall])
    /\ UNCHANGED <<server, agents, rang, faults, excused, astray>>

Reset ==
    /\ Here /\ phase(page) = "ended"
    /\ setPage([page EXCEPT !.call = NoCall, !.shows = "none", !.state = "idle"])
    /\ Excuse(active(page), page.call)
    /\ UNCHANGED <<server, agents, rang, talk, requests, faults, astray>>

\* Mutant: leaving only closes the session.
LeaveSilently ==
    /\ Here
    /\ \E place \in Places \ {"here"} :
          /\ page' = [page EXCEPT !.where = place, !.state = "idle", !.shows = "none", !.answered = FALSE]
          /\ talk' = [c \in Calls |-> IF c = page.live /\ talk[c] = "open" THEN "closing" ELSE talk[c]]
          /\ Excuse(active(page) /\ place # "away", page.call)
    /\ UNCHANGED <<server, agents, rang, requests, faults, astray>>

\* Both clean-ups of the page run, also when signing out; but then the request
\* that ends the call has no token.
Leave ==
    /\ Here
    /\ \E place \in Places \ {"here"} :
          /\ page' = [page EXCEPT !.where = place, !.state = "idle", !.shows = "none", !.answered = FALSE]
          /\ talk' = [c \in Calls |-> IF c = page.live /\ talk[c] = "open" THEN "closing" ELSE talk[c]]
          /\ requests' = IF active(page) /\ place = "away"
                         THEN requests \cup {New("bye", page.call)} ELSE requests
          /\ Excuse(active(page) /\ place # "away", page.call)
    /\ UNCHANGED <<server, agents, rang, faults, astray>>

--------------------------------------------------------------------------------
(* What the server does with a request. *)

HandleStart(r) ==
    /\ r.op = "start"
    /\ \E c \in Calls :
          /\ Unused(c)
          /\ server' = [server EXCEPT ![c] = "ACTIVE"]
          /\ agents' \in {agents, agents \cup {c}}
          /\ requests' = (requests \ {r}) \cup {[r EXCEPT !.id = c, !.st = "ok"]}
    /\ UNCHANGED <<rang, talk, page, faults, excused, astray>>

\* Mutant: a call can be answered whatever its state.
HandleAnswerAgain(r) ==
    /\ r.op = "answer"
    /\ server' = [server EXCEPT ![r.id] = "ACTIVE"] /\ To(r, "ok")
    /\ UNCHANGED <<agents, rang, talk, page, faults, excused, astray>>

HandleAnswer(r) ==
    /\ r.op = "answer"
    /\ IF server[r.id] = "RINGING"
       THEN server' = [server EXCEPT ![r.id] = "ACTIVE"] /\ To(r, "ok")
       ELSE UNCHANGED server /\ To(r, "failed")
    /\ UNCHANGED <<agents, rang, talk, page, faults, excused, astray>>

\* A turn reads the call, then talks to tools and models before it commits.
TurnReads(r) ==
    /\ r.op = "turn"
    /\ To(r, IF server[r.id] = "ACTIVE" /\ r.id \notin agents THEN "running" ELSE "failed")
    /\ UNCHANGED <<server, agents, rang, talk, page, faults, excused, astray>>

HandleOther(r) ==
    /\ \/ r.op = "language" /\ (To(r, "ok") \/ Gone(r))
       \/ r.op = "stt" /\ (To(r, "ok") \/ To(r, "failed"))
    /\ UNCHANGED <<server, agents, rang, talk, page, faults, excused, astray>>

\* A ringing call is declined, an active one finished; a call that is over stays
\* as it is. Nobody reads the reply of a request made on leaving or declining.
HandleEnd(r) ==
    /\ r.op \in {"end", "bye"}
    /\ server' = [server EXCEPT ![r.id] = IF @ \in {"RINGING", "ACTIVE"} THEN "ENDED" ELSE @]
    /\ IF r.op = "end" THEN To(r, "ok") ELSE Gone(r)
    /\ UNCHANGED <<agents, rang, talk, page, faults, excused, astray>>

Handle(r) ==
    /\ r.st = "sent"
    /\ \/ HandleStart(r) \/ HandleAnswer(r) \/ TurnReads(r) \/ HandleOther(r) \/ HandleEnd(r)

TurnCommits(r) ==
    /\ r.op = "turn" /\ r.st = "running"
    /\ \/ To(r, "ok") /\ UNCHANGED server
       \/ To(r, "over") /\ server' = [server EXCEPT ![r.id] = "ENDED"]
       \/ To(r, "moved") /\ server' = [server EXCEPT ![r.id] = "TRANSFERRED"]
    /\ UNCHANGED <<agents, rang, talk, page, faults, excused, astray>>

\* A request or its reply is lost, or refused for a reason of its own. The rest
\* of end runs the same whether its request succeeded or not.
Lose(r) ==
    /\ faults < MaxFaults
    /\ faults' = faults + 1
    /\ \/ r.op \in {"start", "answer", "turn"} /\ r.st \in {"sent", "ok", "over", "moved"} /\ To(r, "failed")
       \/ r.st = "sent" /\ r.op = "end" /\ To(r, "ok")
       \/ r.st = "sent" /\ r.op = "bye" /\ Gone(r)
    /\ Excuse(r.id # NoCall, r.id)
    /\ UNCHANGED <<server, agents, rang, talk, page, astray>>

--------------------------------------------------------------------------------
(* What the page does with a reply. *)

Connect(r) ==
    /\ r.op \in {"start", "answer"} /\ r.st = "ok"
    /\ Gone(r)
    /\ setPage([page EXCEPT !.call = r.id, !.shows = "ACTIVE",
                            !.state = IF r.id \in agents THEN "connecting" ELSE "speaking"])
    /\ talk' = [talk EXCEPT ![r.id] = IF r.id \in agents THEN "opening" ELSE @]
    /\ IF Here THEN Excuse(active(page) /\ page.call # r.id, page.call)
               ELSE Excuse(TRUE, r.id)
    /\ UNCHANGED <<astray>>

\* Mutant: a call that could not be placed leaves the console open.
ConnectFailsOpen(r) ==
    /\ r.op \in {"start", "answer"} /\ r.st = "failed"
    /\ Gone(r)
    /\ setState("listening")
    /\ UNCHANGED <<talk, excused, astray>>

ConnectFails(r) ==
    /\ r.op \in {"start", "answer"} /\ r.st = "failed"
    /\ Gone(r)
    /\ setState("idle")
    /\ UNCHANGED <<talk, excused, astray>>

\* Mutant: the reply is spoken, and what it says of the call is forgotten.
ApplyReplyOnly(r) ==
    /\ r.op = "turn" /\ r.st \in {"ok", "over", "moved"}
    /\ Gone(r)
    /\ setState("speaking")
    /\ Mark(r.id)
    /\ UNCHANGED <<talk, excused>>

\* apply: what it says of the call is written into the call the page shows.
Apply(r) ==
    /\ r.op = "turn" /\ r.st \in {"ok", "over", "moved"}
    /\ IF r.st = "ok" THEN Gone(r) ELSE To(r, "tail")
    /\ setPage([page EXCEPT !.state = "speaking",
                            !.shows = IF page.call = NoCall THEN @
                                      ELSE CASE r.st = "ok" -> @ [] r.st = "over" -> "ENDED" [] OTHER -> "TRANSFERRED"])
    /\ Mark(r.id)
    /\ Excuse(Here /\ r.st # "ok" /\ page.call \notin {NoCall, r.id}, page.call)
    /\ UNCHANGED talk

ApplyTail(r) ==
    /\ r.op = "turn" /\ r.st = "tail"
    /\ Gone(r)
    /\ setState("ended")
    /\ Mark(r.id)
    /\ UNCHANGED <<talk, excused>>

\* Mutant: an error is shown and the page goes on thinking.
SpeakFailsThinking(r) ==
    /\ r.op \in {"turn", "stt"} /\ r.st = "failed"
    /\ Gone(r)
    /\ Mark(r.id)
    /\ UNCHANGED <<talk, page, excused>>

SpeakFails(r) ==
    /\ r.op \in {"turn", "stt"} /\ r.st = "failed"
    /\ Gone(r)
    /\ setState("listening")
    /\ Mark(r.id)
    /\ UNCHANGED <<talk, excused>>

LanguageChanged(r) ==
    /\ r.op = "language" /\ r.st = "ok"
    /\ Gone(r)
    /\ setState("speaking")
    /\ Mark(r.id)
    /\ UNCHANGED <<talk, excused>>

\* The words go to whatever call the page has by now, or to a session that was
\* left behind by another.
Transcribed(r) ==
    /\ r.op = "stt" /\ r.st = "ok"
    /\ IF page.call = NoCall \/ page.live # NoCall
       THEN Gone(r) /\ UNCHANGED page
       ELSE requests' = (requests \ {r}) \cup {New("turn", page.call)} /\ setState("thinking")
    /\ astray' = (astray \/ (Here /\ (page.call # r.id \/ page.live # NoCall)))
    /\ UNCHANGED <<talk, excused>>

Ended(r) ==
    /\ r.op = "end" /\ r.st = "ok"
    /\ Gone(r)
    /\ setPage([page EXCEPT !.state = "ended",
                            !.shows = IF page.call = NoCall \/ @ = "TRANSFERRED" THEN @ ELSE "ENDED"])
    /\ Mark(r.id)
    /\ Excuse(Here /\ page.call \notin {NoCall, r.id}, page.call)
    /\ UNCHANGED talk

Receive(r) ==
    /\ \/ Connect(r) \/ ConnectFails(r) \/ Apply(r) \/ ApplyTail(r) \/ SpeakFails(r)
       \/ LanguageChanged(r) \/ Transcribed(r) \/ Ended(r)
    /\ UNCHANGED <<server, agents, rang, faults>>

--------------------------------------------------------------------------------
(* Speech and recordings. *)

SpeechEnds ==
    /\ Here /\ page.state = "speaking"
    /\ setState("listening")
    /\ UNCHANGED <<server, agents, rang, talk, requests, faults, excused, astray>>

\* A second tap, the end of the call or fifteen seconds.
StopRecording(r) ==
    /\ r.op = "stt" /\ r.st = "recording"
    /\ \/ Gone(r) /\ UNCHANGED <<page, astray>>
       \/ To(r, IF page.where = "signed_out" THEN "failed" ELSE "sent") /\ setState("thinking") /\ Mark(r.id)
    /\ UNCHANGED <<server, agents, rang, talk, faults, excused>>

--------------------------------------------------------------------------------
(* ElevenLabs sessions. *)

SessionOpens(c) ==
    /\ talk[c] = "opening"
    /\ talk' = [talk EXCEPT ![c] = "open"]
    /\ page' = [page EXCEPT !.live = c, !.state = IF Here THEN "listening" ELSE @]
    /\ Mark(c)
    /\ UNCHANGED <<server, agents, rang, requests, faults, excused>>

SessionFails(c) ==
    /\ talk[c] = "opening"
    /\ talk' = [talk EXCEPT ![c] = "none"]
    /\ setState("ended")
    /\ Mark(c)
    /\ UNCHANGED <<server, agents, rang, requests, faults, excused>>

ModeChanges(c) ==
    /\ talk[c] = "open"
    /\ \E s \in {"speaking", "listening"} : setState(s)
    /\ Mark(c)
    /\ UNCHANGED <<server, agents, rang, talk, requests, faults, excused>>

\* The agent hangs up, the connection drops, or the page closed the session.
Disconnects(c) ==
    /\ talk[c] \in {"open", "closing"}
    /\ talk' = [talk EXCEPT ![c] = "closed"]
    /\ setState("ended")
    /\ Mark(c)
    /\ UNCHANGED <<server, agents, rang, requests, faults, excused>>

\* The agent's tool hands the call to an officer; the webhook ends it.
AgentTransfers(c) ==
    /\ talk[c] = "open" /\ server[c] = "ACTIVE"
    /\ server' = [server EXCEPT ![c] = "TRANSFERRED"]
    /\ UNCHANGED <<agents, rang, talk, page, requests, faults, excused, astray>>

PostCall(c) ==
    /\ talk[c] = "closed" /\ server[c] = "ACTIVE" /\ c \in agents
    /\ server' = [server EXCEPT ![c] = "ENDED"]
    /\ UNCHANGED <<agents, rang, talk, page, requests, faults, excused, astray>>

--------------------------------------------------------------------------------
(* The dial job. *)

Ring(c) ==
    /\ Unused(c)
    /\ server' = [server EXCEPT ![c] = "RINGING"]
    /\ rang' = rang \cup {c}
    /\ UNCHANGED <<agents, talk, page, requests, faults, excused, astray>>

Sweep(c) ==
    /\ server[c] = "RINGING"
    /\ server' = [server EXCEPT ![c] = "ENDED"]
    /\ UNCHANGED <<agents, rang, talk, page, requests, faults, excused, astray>>

--------------------------------------------------------------------------------
Next ==
    \/ Start \/ Speak \/ ChangeLanguage \/ Listen \/ End \/ Reset \/ Leave \/ SpeechEnds
    \/ \E r \in requests :
          \/ Handle(r) \/ TurnCommits(r) \/ Lose(r) \/ Receive(r)
          \/ StopRecording(r)
    \/ \E c \in Calls :
          \/ Answer(c) \/ Decline(c) \/ Ring(c) \/ Sweep(c)
          \/ SessionOpens(c) \/ SessionFails(c) \/ ModeChanges(c) \/ Disconnects(c)
          \/ AgentTransfers(c) \/ PostCall(c)

Spec == Init /\ [][Next]_vars

--------------------------------------------------------------------------------
\* Every variable has its type.
TypeOK ==
    /\ server \in [Calls -> CallState]
    /\ agents \subseteq Calls /\ rang \subseteq Calls
    /\ talk \in [Calls -> Session]
    /\ page \in Page
    /\ requests \subseteq Request
    /\ faults \in 0 .. MaxFaults
    /\ excused \subseteq Calls
    /\ astray \in BOOLEAN

\* A reply under way will show the call to the page; a request under way will end it.
Expected(c) == \E r \in requests : r.id = c /\ r.op \in {"start", "answer"} /\ r.st = "ok"
Ending(c)   == \E r \in requests : r.id = c /\ r.op \in {"end", "bye"} /\ r.st = "sent"

\* A call that is ACTIVE on the server is shown ACTIVE by the page, is about to
\* be, or is being ended; so whoever leaves ends it. The calls that may hang are
\* those in excused: the reply that started them was lost or came after leaving,
\* the request that ends them was lost or had no token, a late reply of another
\* call marked them ended, another call replaced them on the page, or the
\* resident began anew after their session dropped.
ActiveIsAccountedFor ==
    \A c \in Calls : server[c] = "ACTIVE" /\ c \notin excused =>
        \/ Expected(c) \/ Ending(c)
        \/ Here /\ page.call = c /\ active(page)

\* The page goes on with a call that is over on the server only until the reply
\* that ended it arrives, unless that reply was lost, ElevenLabs ended the call
\* or the resident declined it while answering it.
ShownActiveIsActive ==
    Here /\ active(page) /\ server[page.call] # "ACTIVE" =>
        \/ page.call \in excused \cup agents \cup rang
        \/ \E r \in requests :
              /\ r.id = page.call
              /\ \/ r.op = "turn" /\ r.st \in {"over", "moved"}
                 \/ r.op = "end" /\ r.st = "ok"

\* The page shows the console of a call only with a call, or while one is being
\* placed, unless something meant for an earlier call came after a reset.
NoConsoleWithoutCall ==
    Here /\ phase(page) = "live" /\ page.call = NoCall =>
        astray \/ \E r \in requests : r.op \in {"start", "answer"}

\* While the controls are disabled something is under way that enables them
\* again, unless something reached a call it was not meant for.
NeverStuck ==
    Here /\ busy(page) /\ ~ astray =>
        \/ \E r \in requests : r.op \in {"start", "answer", "turn", "stt"}
        \/ page.state = "connecting" /\ page.call # NoCall /\ talk[page.call] = "opening"

\* A call that the page showed to be over is never shown going on again: late
\* replies, sessions and answers of the same call change nothing.
EndedStaysEnded ==
    [][callEnded(page) /\ Here' /\ page'.call = page.call => callEnded(page')]_vars
================================================================================
